-------------------------- MODULE MCTensorParallel --------------------------
(* TensorParallel with two workers and two requests. *)
EXTENDS TensorParallel

CONSTANTS r0, w1, w2, q1, q2

MCWorkers == {w1, w2}
MCIds == {q1, q2}
MCSetups == {[async |-> FALSE, graph |-> FALSE], [async |-> FALSE, graph |-> TRUE],
             [async |-> TRUE, graph |-> FALSE]}

=============================================================================
