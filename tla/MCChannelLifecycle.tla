-------------------------- MODULE MCChannelLifecycle --------------------------
(***************************************************************************)
(* Two producers of one process and one of another, for TLC.               *)
(***************************************************************************)
EXTENDS ChannelLifecycle, TLC

CONSTANTS q1, q2, q3, pid1, pid2, c1, c2

MCProducers == {q1, q2, q3}
MCProcesses == {pid1, pid2}
MCProcOf == [q \in MCProducers |-> IF q = q3 THEN pid2 ELSE pid1]
MCConsumers == {c1, c2}

\* The producers of one process and the consumers are interchangeable.
MCSymmetry == Permutations({q1, q2}) \cup Permutations(MCConsumers)
=============================================================================
