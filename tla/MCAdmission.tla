---------------------------- MODULE MCAdmission ----------------------------
(***************************************************************************)
(* Admission on small instances: up to three perpetuals, each of its own   *)
(* coin unless the run is about two quotes of one coin.                    *)
(***************************************************************************)
EXTENDS Admission, TLC

CONSTANTS s1, s2, s3    \* model values

OwnBase == [s \in Symbol |-> s]
TwoQuotes == [s \in Symbol |-> IF s \in {s1, s2} THEN "coin" ELSE s]

Interchangeable == Permutations(Symbol)
=============================================================================
