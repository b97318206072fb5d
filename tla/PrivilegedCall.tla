---------------------------- MODULE PrivilegedCall ----------------------------
(* What a caller of RunCommand (src/run_command.c) counts on: the command it   *)
(* asks for is executed at most once before the call answers, and the program  *)
(* does not end between the execution of a command and its answer.             *)
EXTENDS Naturals

VARIABLES
    phase,          \* of the call
    executions      \* of its command

vars == <<phase, executions>>

Init == phase = "idle" /\ executions = 0

Request == phase = "idle" /\ phase' = "requested" /\ executions' = 0

Execute == phase = "requested" /\ phase' = "executed" /\ executions' = executions + 1

Answer ==
    /\ phase \in {"requested", "executed"} /\ phase' = "idle"
    /\ UNCHANGED executions

\* No way to become root, or the user gave no password: the program ends.
Quit == phase = "requested" /\ phase' = "gone" /\ UNCHANGED executions

Next == Request \/ Execute \/ Answer \/ Quit

Spec == Init /\ [][Next]_vars
=============================================================================
