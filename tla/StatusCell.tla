----------------------------- MODULE StatusCell -----------------------------
(***************************************************************************)
(* What write_state promises, "Atomically persist trading status": a cell  *)
(* that holds one whole record, and that changes only to the record a      *)
(* writer has called write_state with.                                     *)
(***************************************************************************)
CONSTANTS Writer, Payload, Default, NoPayload

VARIABLES cell,     \* the record a reader gets
          pending   \* the record each writer is about to persist

Init == cell = Default /\ pending = [w \in Writer |-> NoPayload]

Begin(w, p) ==
  /\ pending[w] = NoPayload /\ pending' = [pending EXCEPT ![w] = p]
  /\ UNCHANGED cell

Commit(w) ==
  /\ pending[w] # NoPayload /\ pending' = [pending EXCEPT ![w] = NoPayload]
  /\ cell' = pending[w]

\* Writers that crash before their commit.
Abandon(gone) ==
  /\ pending' = [w \in Writer |-> IF w \in gone THEN NoPayload ELSE pending[w]]
  /\ UNCHANGED cell

Next ==
  \/ \E w \in Writer : Commit(w) \/ \E p \in Payload : Begin(w, p)
  \/ \E gone \in SUBSET Writer : Abandon(gone)

Spec == Init /\ [][Next]_<<cell, pending>>
=============================================================================
