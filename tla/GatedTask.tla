----------------------------- MODULE GatedTask ------------------------------
(***************************************************************************)
(* What the fence programs promise, each of its own process: the task it   *)
(* submits stays blocked behind a gate, the gate is opened only once the   *)
(* task is submitted, the task finishes only behind an open gate, and the  *)
(* program passes only when the task has finished.  A program that repeats *)
(* the test shuts the gate again only after the task of the last round.    *)
(***************************************************************************)
CONSTANT Proc

VARIABLES gate, task, outcome

gvars == <<gate, task, outcome>>

Init ==
    /\ gate = [p \in Proc |-> "shut"]
    /\ task = [p \in Proc |-> "none"]
    /\ outcome = [p \in Proc |-> "running"]

Submit(p) ==
    /\ outcome[p] = "running" /\ task[p] = "none" /\ gate[p] = "shut"
    /\ task' = [task EXCEPT ![p] = "pending"]
    /\ UNCHANGED <<gate, outcome>>

OpenGate(p) ==
    /\ outcome[p] = "running" /\ task[p] = "pending" /\ gate[p] = "shut"
    /\ gate' = [gate EXCEPT ![p] = "open"]
    /\ UNCHANGED <<task, outcome>>

\* the task is the device's: it may finish after the program has failed
Finish(p) ==
    /\ task[p] = "pending" /\ gate[p] = "open"
    /\ task' = [task EXCEPT ![p] = "finished"]
    /\ UNCHANGED <<gate, outcome>>

NextRound(p) ==
    /\ outcome[p] = "running" /\ task[p] = "finished"
    /\ task' = [task EXCEPT ![p] = "none"]
    /\ gate' = [gate EXCEPT ![p] = "shut"]
    /\ UNCHANGED outcome

Pass(p) ==
    /\ outcome[p] = "running" /\ task[p] = "finished"
    /\ outcome' = [outcome EXCEPT ![p] = "passed"]
    /\ UNCHANGED <<gate, task>>

Fail(p) ==
    /\ outcome[p] = "running"
    /\ outcome' = [outcome EXCEPT ![p] = "failed"]
    /\ UNCHANGED <<gate, task>>

Next == \E p \in Proc : \/ Submit(p) \/ OpenGate(p) \/ Finish(p)
                        \/ NextRound(p) \/ Pass(p) \/ Fail(p)

Spec == Init /\ [][Next]_gvars
=============================================================================
