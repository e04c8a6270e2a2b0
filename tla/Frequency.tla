----------------------------- MODULE Frequency ------------------------------
(***************************************************************************)
(* gem_exec_blt.c, the frequency control around run(): main() reads the    *)
(* GPU's two frequency limits from sysfs, measures with them set to        *)
(* automatic, lowest and highest, and writes back what it had read.  The   *)
(* limits belong to the card: every instance of the program shares them.   *)
(***************************************************************************)
EXTENDS Integers

CONSTANTS
    Proc,           \* instances of the program
    RPn, RP0,       \* lowest and highest frequency of the hardware
    Fallible        \* what may fail: "read", "write", "run"

ASSUME HardwareAssumption == RPn \in Nat /\ RP0 \in Nat /\ RPn <= RP0
ASSUME FallibleAssumption == Fallible \subseteq {"read", "write", "run"}

VARIABLES
    gt_min, gt_max,     \* gt_min_freq_mhz and gt_max_freq_mhz
    found,              \* the two limits before any instance ran
    pc,                 \* function and statement of each process
    verdict,
    saved,              \* main()'s min and max
    local               \* min and max of the set_*_freq function

sysfs   == <<gt_min, gt_max, found>>
vars    == <<gt_min, gt_max, found, pc, verdict, saved, local>>

Freq     == RPn..RP0
Limits   == [min : Freq \cup {-1}, max : Freq \cup {-1}]
Place    == ({"save"} \X (1..2)) \cup ({"auto"} \X (1..5)) \cup
            ({"min", "max"} \X (1..4)) \cup ({"restore"} \X (1..3))
Verdict  == {"running", "passed", "assert", "aborted"}

At(p, f, n) == verdict[p] = "running" /\ pc[p] = <<f, n>>
Goto(p, f, n) == pc' = [pc EXCEPT ![p] = <<f, n>>]
End(p, v) == verdict' = [verdict EXCEPT ![p] = v] /\ UNCHANGED <<pc, saved, local>>
-----------------------------------------------------------------------------
(* sysfs_read() and sysfs_write(): -1 when the file cannot be opened, read  *)
(* or written; the driver keeps RPn <= gt_min <= gt_max <= RP0.             *)

sysfs_read(value) == {value} \cup (IF "read" \in Fallible THEN {-1} ELSE {})

AcceptMin(f) == RPn <= f /\ f <= gt_max
AcceptMax(f) == gt_min <= f /\ f <= RP0

WriteMin(f) == AcceptMin(f) /\ gt_min' = f /\ UNCHANGED <<gt_max, found>>
WriteMax(f) == AcceptMax(f) /\ gt_max' = f /\ UNCHANGED <<gt_min, found>>

sysfs_write(p, Accepted, Write, ifRefused) ==
    \/ Write /\ UNCHANGED <<verdict, saved, local>>
             /\ pc' = [pc EXCEPT ![p] = <<@[1], @[2] + 1>>]
    \/ /\ ~Accepted \/ "write" \in Fallible
       /\ UNCHANGED sysfs
       /\ IF ifRefused = "ignore"
          THEN /\ pc' = [pc EXCEPT ![p] = <<@[1], @[2] + 1>>]
               /\ UNCHANGED <<verdict, saved, local>>
          ELSE End(p, "assert")

SetMin(p, f, ifRefused) == sysfs_write(p, AcceptMin(f), WriteMin(f), ifRefused)
SetMax(p, f, ifRefused) == sysfs_write(p, AcceptMax(f), WriteMax(f), ifRefused)

\* one of a function's two reads into its own min or max
ReadLocal(p, field, value) ==
    /\ \E v \in sysfs_read(value) : local' = [local EXCEPT ![p][field] = v]
    /\ pc' = [pc EXCEPT ![p] = <<@[1], @[2] + 1>>]
    /\ UNCHANGED sysfs /\ UNCHANGED <<verdict, saved>>
-----------------------------------------------------------------------------
(* Faulty statements, to see that the properties below notice them.        *)

MinFirst(p) ==
    \/ At(p, "max", 1) /\ ReadLocal(p, "max", RP0)
    \/ At(p, "max", 2) /\ SetMin(p, local[p].max, "abort")
    \/ At(p, "max", 3) /\ SetMax(p, local[p].max, "abort")

SetMaxOnly(p) ==
    \/ At(p, "max", 1) /\ ReadLocal(p, "max", RP0)
    \/ At(p, "max", 2) /\ SetMax(p, local[p].max, "abort")
    \/ At(p, "max", 3) /\ Goto(p, "max", 4) /\ UNCHANGED sysfs
                       /\ UNCHANGED <<verdict, saved, local>>

RestoreMaxFirst(p) ==
    \/ At(p, "restore", 1) /\ SetMax(p, saved[p].max, "ignore")
    \/ At(p, "restore", 2) /\ SetMin(p, saved[p].min, "ignore")

FallsThrough(p) == At(p, "restore", 3) /\ Goto(p, "restore", 4) /\ UNCHANGED sysfs
                   /\ UNCHANGED <<verdict, saved, local>>
-----------------------------------------------------------------------------
(* main()                                                                  *)

Save(p) ==
    /\ \/ /\ At(p, "save", 1) /\ Goto(p, "save", 2)
          /\ \E v \in sysfs_read(gt_min) : saved' = [saved EXCEPT ![p].min = v]
       \/ /\ At(p, "save", 2) /\ Goto(p, "auto", 1)
          /\ \E v \in sysfs_read(gt_max) : saved' = [saved EXCEPT ![p].max = v]
    /\ UNCHANGED sysfs /\ UNCHANGED <<verdict, local>>

set_auto_freq(p) ==
    \/ At(p, "auto", 1) /\ ReadLocal(p, "min", RPn)
    \/ At(p, "auto", 2) /\ ReadLocal(p, "max", RP0)
    \/ /\ At(p, "auto", 3) /\ local[p].max <= local[p].min /\ Goto(p, "auto", 5)
       /\ UNCHANGED sysfs /\ UNCHANGED <<verdict, saved, local>>
    \/ /\ At(p, "auto", 3) /\ local[p].max > local[p].min
       /\ SetMin(p, local[p].min, "ignore")
    \/ At(p, "auto", 4) /\ SetMax(p, local[p].max, "ignore")

set_min_freq(p) ==
    \/ At(p, "min", 1) /\ ReadLocal(p, "min", RPn)
    \/ At(p, "min", 2) /\ SetMin(p, local[p].min, "abort")
    \/ At(p, "min", 3) /\ SetMax(p, local[p].min, "abort")

set_max_freq(p) ==
    \/ At(p, "max", 1) /\ ReadLocal(p, "max", RP0)
    \/ At(p, "max", 2) /\ SetMax(p, local[p].max, "abort")
    \/ At(p, "max", 3) /\ SetMin(p, local[p].max, "abort")

Measuring(p) == verdict[p] = "running" /\ pc[p] \in {<<"auto", 5>>, <<"min", 4>>, <<"max", 4>>}

\* run(OBJECT_SIZE), and the next entry of rps[]; any wrapper in it may abort
Run(p) ==
    /\ Measuring(p) /\ UNCHANGED sysfs
    /\ \/ /\ CASE pc[p][1] = "auto" -> Goto(p, "min", 1)
               [] pc[p][1] = "min" -> Goto(p, "max", 1)
               [] pc[p][1] = "max" -> Goto(p, "restore", 1)
          /\ UNCHANGED <<verdict, saved, local>>
       \/ "run" \in Fallible /\ End(p, "aborted")

Restore(p) ==
    \/ At(p, "restore", 1) /\ SetMin(p, saved[p].min, "ignore")
    \/ At(p, "restore", 2) /\ SetMax(p, saved[p].max, "ignore")

Return(p) == At(p, "restore", 3) /\ End(p, "passed") /\ UNCHANGED sysfs

Program(p) == \/ Save(p) \/ set_auto_freq(p) \/ set_min_freq(p) \/ set_max_freq(p)
              \/ Run(p) \/ Restore(p) \/ Return(p)

Exited == (\A p \in Proc : verdict[p] # "running") /\ UNCHANGED vars

Init ==
    /\ gt_min \in Freq /\ gt_max \in Freq /\ gt_min <= gt_max
    /\ found = [min |-> gt_min, max |-> gt_max]
    /\ pc = [p \in Proc |-> <<"save", 1>>]
    /\ verdict = [p \in Proc |-> "running"]
    /\ saved = [p \in Proc |-> [min |-> -1, max |-> -1]]
    /\ local = [p \in Proc |-> [min |-> -1, max |-> -1]]

Next == (\E p \in Proc : Program(p)) \/ Exited
Spec == Init /\ [][Next]_vars
-----------------------------------------------------------------------------
(* Properties.                                                             *)

\* Types of the state; the limits stay in the order the driver keeps.
TypeOK ==
    /\ gt_min \in Freq /\ gt_max \in Freq /\ gt_min <= gt_max
    /\ found \in Limits /\ found.min \in Freq /\ found.max \in Freq
    /\ pc \in [Proc -> Place] /\ verdict \in [Proc -> Verdict]
    /\ saved \in [Proc -> Limits] /\ local \in [Proc -> Limits]

Current == [min |-> gt_min, max |-> gt_max]

Wanted(f) == CASE f = "auto" -> [min |-> RPn, max |-> RP0]
               [] f = "min"  -> [min |-> RPn, max |-> RPn]
               [] f = "max"  -> [min |-> RP0, max |-> RP0]

\* assert(sysfs_write(...) == 0) fails only for a value that could not be read
\* (gem_exec_blt.c:279-280, 287-288): each function writes the two limits in an
\* order the driver accepts.
WritesAccepted ==
    \A p \in Proc : verdict[p] = "assert" =>
        \/ pc[p][1] = "min" /\ local[p].min = -1
        \/ pc[p][1] = "max" /\ local[p].max = -1

\* Even when reads and writes fail, "lowest" and "highest" are measured only
\* with both limits there.
PinnedWhenMeasured ==
    \A p \in Proc : Measuring(p) /\ pc[p][1] # "auto" => Current = Wanted(pc[p][1])

\* One instance alone measures what it prints: "automatic" as well, if it could
\* read the limits of the hardware.
MeasuresAsSet ==
    /\ PinnedWhenMeasured
    /\ \A p \in Proc : Measuring(p) /\ pc[p][1] = "auto" /\ local[p] = Wanted("auto")
                           => Current = Wanted("auto")

\* An instance that passes leaves the limits as it found them, if it could read
\* them; the order of the two last writes is one the driver accepts.
Restored ==
    \A p \in Proc : verdict[p] = "passed" /\ saved[p] = found => Current = found
=============================================================================
