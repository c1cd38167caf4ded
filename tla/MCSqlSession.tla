---------------------------- MODULE MCSqlSession ----------------------------
(* SqlSession on small sets of goroutines and databases.                   *)
EXTENDS SqlSession, TLC

\* Goroutines are interchangeable.
OpSymmetry == Permutations(Ops)
=============================================================================
