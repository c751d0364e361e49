----------------------------- MODULE ResourceSwap -----------------------------
(***************************************************************************)
(* What the manual replacement of the resource of an episode promises: the *)
(* replacement itself never loses the current resource.  A resource is     *)
(* adopted once it was fetched, and a copy is dropped only when it is not, *)
(* or no longer, the current one.  Only the user takes copies away, by     *)
(* deleting a download with its files; the ledger lets the download go     *)
(* later, or never if that fails, and does not know whose copy it was.     *)
(***************************************************************************)
CONSTANTS Resources,  \* the media files an episode had or may get
          None        \* no resource

VARIABLES current,    \* the resource the ledger names
          copies,     \* the resources with a complete file
          taken       \* the resources of which the user has deleted a copy

Init ==
  /\ current \in Resources \cup {None}
  /\ copies \in SUBSET Resources
  /\ current # None => current \in copies
  /\ taken = {}

Fetch(r) ==
  /\ copies' = copies \cup {r}
  /\ UNCHANGED <<current, taken>>

(* The ledger is switched after the copy was made, and does not look again. *)
Adopt(r) ==
  /\ r \in copies \cup taken
  /\ current' = r
  /\ UNCHANGED <<copies, taken>>

Drop(r) ==
  /\ r # current
  /\ copies' = copies \ {r}
  /\ UNCHANGED <<current, taken>>

(* The user asks for the resource, which is to be fetched anew.            *)
Ask(r) ==
  /\ r # current
  /\ taken' = taken \ {r}
  /\ UNCHANGED <<current, copies>>

(* The user deletes a copy of the resource; what is left of one so deleted *)
(* may go too.                                                             *)
Take(r) ==
  /\ copies' \in {copies, copies \ {r}}
  /\ taken' = taken \cup {r}
  /\ UNCHANGED current

Forget ==
  /\ current' = None
  /\ UNCHANGED <<copies, taken>>

Next ==
  \/ \E r \in Resources : Fetch(r) \/ Adopt(r) \/ Drop(r) \/ Ask(r) \/ Take(r)
  \/ Forget

Spec == Init /\ [][Next]_<<current, copies, taken>>
=============================================================================
