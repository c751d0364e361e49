---------------------------- MODULE MCReplacement ----------------------------
(* Two candidates of one episode.                                           *)
EXTENDS Replacement

Budget(some) == [k \in Kinds |-> IF k \in DOMAIN some THEN some[k] ELSE 0]

(* Crashes come without compensation; refused saves and failing calls,     *)
(* which are compensated, without a crash.                                 *)
CrashOrFailure ==
  {Budget([crash |-> 2, torrent |-> 1]),
   Budget([refused |-> 1, qb |-> 1, file |-> 1]),
   Budget([cancel |-> 1, qb |-> 1]),
   Budget([shutdown |-> 2]),
   Budget([delete |-> 1, refused |-> 1, qb |-> 1]),
   Budget([crash |-> 1, delete |-> 1, status |-> 1])}

(* No compensation is interrupted once a deletion took a file away, and no *)
(* torrent is forgotten for want of a directory.                           *)
Careful == (Interrupted => taken = {}) /\ ~Orphaned

(* A compensation that the process does not finish.                        *)
CancelAndCrash == {Budget([cancel |-> 1, crash |-> 1])}
OneDecision == {Budget([status |-> 1])}
=============================================================================
