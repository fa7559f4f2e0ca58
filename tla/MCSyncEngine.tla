---------------------------- MODULE MCSyncEngine ----------------------------
(* An instance of SyncEngine for TLC. *)
EXTENDS SyncEngine

CONSTANTS r1, r2, r3

\* Requests of different shapes.
MCPrompt == r1 :> 3 @@ r2 :> 2 @@ r3 :> 2
MCMaxTokens == r1 :> 3 @@ r2 :> 3 @@ r3 :> 2
=============================================================================
