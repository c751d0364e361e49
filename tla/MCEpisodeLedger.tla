--------------------------- MODULE MCEpisodeLedger ---------------------------
(* Small instances of EpisodeLedger for TLC.                                *)
EXTENDS EpisodeLedger
=============================================================================
