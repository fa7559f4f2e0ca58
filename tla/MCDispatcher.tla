---------------------------- MODULE MCDispatcher ----------------------------
(* An instance of Dispatcher for TLC. *)
EXTENDS Dispatcher, TLC

CONSTANTS r1, r2

\* r2 is the next turn of r1's chain.
Turns == r1 :> NoRequest @@ r2 :> r1

\* The second turn can be aborted between two tokens.
TurnTokens == r1 :> 1 @@ r2 :> 2
=============================================================================
