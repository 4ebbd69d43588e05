---------------------------------- MODULE Sums ----------------------------------
(***************************************************************************)
(* Sums over finite sets: of what requests were charged, of file sizes, of  *)
(* the usage in a table.                                                   *)
(***************************************************************************)
EXTENDS FiniteSetsExt

\* The sum of the values of f over S.
SumOver(f, S) == MapThenSumSet(LAMBDA x : f[x], S)

\* The sum of one field over a table of records.
SumField(f, field) == SumOver([k \in DOMAIN f |-> f[k][field]], DOMAIN f)
=============================================================================
