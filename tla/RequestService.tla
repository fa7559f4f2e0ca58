--------------------------- MODULE RequestService ---------------------------
(***************************************************************************)
(* What the engine promises to whoever submits requests, with scheduling,  *)
(* KV storage, preemption and tickets left out: a request is accepted      *)
(* once, its tokens are handed out one at a time, at most max_tokens of    *)
(* them, the last one ends it, and after its end it produces nothing.      *)
(***************************************************************************)
EXTENDS Naturals

CONSTANTS Req, MaxTokens

VARIABLES stage, outputs

serviceVars == <<stage, outputs>>

Init ==
  /\ stage = [r \in Req |-> "new"]
  /\ outputs = [r \in Req |-> 0]

\* admit_request
Accept(r) ==
  /\ stage[r] = "new"
  /\ stage' = [stage EXCEPT ![r] = "live"]
  /\ UNCHANGED outputs

\* A token of last_step_token_outputs; an EOS or the max_tokens-th ends r.
Emit(r) ==
  /\ stage[r] = "live" /\ outputs[r] < MaxTokens[r]
  /\ outputs' = [outputs EXCEPT ![r] = @ + 1]
  /\ \/ outputs[r] + 1 < MaxTokens[r] /\ UNCHANGED stage
     \/ stage' = [stage EXCEPT ![r] = "ended"]

\* abort_request, or a failed model run.
Cancel(r) ==
  /\ stage[r] = "live"
  /\ stage' = [stage EXCEPT ![r] = "ended"]
  /\ UNCHANGED outputs

Next == \E r \in Req : Accept(r) \/ Emit(r) \/ Cancel(r)

Spec == Init /\ [][Next]_serviceVars

\* Every accepted request ends.
Ends == \A r \in Req : stage[r] = "live" ~> stage[r] = "ended"
=============================================================================
