------------------------- MODULE MCDownloadLifecycle -------------------------
(* Small instances of DownloadLifecycle for TLC: one episode, the resources *)
(* of two fansubs for it.  A resource is named by the info hash of its      *)
(* torrent.                                                                 *)
EXTENDS DownloadLifecycle, TLC

CONSTANTS e1, r1, r2

MCEpisodeOf == [r \in Resources |-> e1]
MCHashOf == [r \in Resources |-> r]
MCOneFeedHash == (r1 :> r1 @@ r2 :> None)
MCNothing == {}
MCClears == {{"downloading"}}
MCSingle == {{d} : d \in DownloadIds}

(* The second feed has an offset of its own: by the offset of the           *)
(* subscription, its item belongs to no episode of the season.              *)
MCOtherOffset == (r1 :> e1 @@ r2 :> None)

(* Actors and downloads of a kind are interchangeable, and so are resources *)
(* that differ in nothing but their name.                                   *)
SymmetricActors == Permutations(Collectors) \cup Permutations(DownloadIds)
Symmetric == SymmetricActors \cup Permutations(Resources)
=============================================================================
