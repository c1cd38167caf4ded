-------------------------- MODULE MCServiceAccount --------------------------
(* ServiceAccount on a small organization.                                 *)
EXTENDS ServiceAccount

\* In listing order: a colleague's service account, another human, a human of
\* the name, an account of the name, and the account created again.
MCIds == 1..5
MCNamed == {3, 4, 5}
MCServices == {1, 4, 5}
=============================================================================
