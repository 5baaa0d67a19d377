----------------------------- MODULE HaltSwitch -----------------------------
(***************************************************************************)
(* What the halt flag promises: trading is allowed or not, anyone may halt *)
(* it at any time, and it is allowed again only by someone who was granted *)
(* the resume while it was halted.  A grant may be dropped, and serves     *)
(* once.                                                                   *)
(***************************************************************************)
CONSTANT Grantee      \* who may be granted a resume

VARIABLES allowed,    \* trading is allowed
          grants      \* resumes granted and not yet used or dropped

Init == allowed = TRUE /\ grants = {}

Halt == allowed' = FALSE /\ UNCHANGED grants

Grant(g) ==
  /\ ~allowed /\ UNCHANGED allowed
  /\ g \notin grants /\ grants' = grants \cup {g}

Resume(g) ==
  /\ g \in grants /\ grants' = grants \ {g}
  /\ allowed' = TRUE

Drop(gone) == grants' = grants \ gone /\ UNCHANGED allowed

Next ==
  \/ Halt
  \/ \E g \in Grantee : Grant(g) \/ Resume(g)
  \/ \E gone \in SUBSET Grantee : Drop(gone)

Spec == Init /\ [][Next]_<<allowed, grants>>
=============================================================================
