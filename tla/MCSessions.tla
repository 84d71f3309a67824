----------------------------- MODULE MCSessions -----------------------------
(***************************************************************************)
(* Small instances of Sessions: t1 and t2 are tasks of the coder c1, t3 of *)
(* another coder; the row s0 is from before B2.2.                          *)
(***************************************************************************)
EXTENDS Sessions, TLC

CONSTANTS t1, t2, t3, c1, c2, s0

MCMaxRetries == [t \in Tasks |-> IF t = t1 THEN 1 ELSE 0]

MCCoderOf == [t \in Tasks |-> IF t = t3 THEN c2 ELSE c1]

\* The rows are interchangeable where none of them is old.
MCSymmetry == Permutations(Ids)
=============================================================================
