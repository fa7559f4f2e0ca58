-------------------------- MODULE MCAsyncExecution --------------------------
(* AsyncExecution with three requests.                                     *)
EXTENDS AsyncExecution

CONSTANTS s1, s2, s3

MCRequests == {s1, s2, s3}
Perms == Permutations(Requests)
Pairs == kSubset(2, Requests)

\* Three requests that take over each other's rows; two with penalties; one with
\* a longer reply and more upsets.
MCWorkloads ==
  {[requests |-> Requests, penalized |-> {}, tokens |-> 2, upsets |-> 0]}
  \cup {[requests |-> p, penalized |-> p, tokens |-> 2, upsets |-> 1] : p \in Pairs}
  \cup {[requests |-> {s}, penalized |-> {s}, tokens |-> 3, upsets |-> 3] : s \in Requests}

=============================================================================
