------------------------------- MODULE Suite --------------------------------
(***************************************************************************)
(* The programs that submit to the render engine, on one card: every       *)
(* process runs one of them, so that each meets the requests, and the      *)
(* orphans, of all others.  I915_EXEC_DEFAULT is the render engine too.    *)
(***************************************************************************)
EXTENDS Gkit

CONSTANTS
    Entries,    \* how many of intel_execution_engines[] gem_exec_basic tries, of 7
    Rounds,     \* 17: one of warming up, then 16 of measuring
    Times       \* _TIMES: 128 samples in a round

VARIABLE program    \* what each process runs

\* The objects of all programs; every loop runs at least once.
ASSUME NameAssumption ==
    {"spin", "store", "scratch", "obj", "wait", "syncobj", "header", "context"} \subseteq Name
ASSUME BoundAssumption == Entries \in 1..7 /\ {Rounds, Times} \subseteq Nat \ {0}

Render == 1

\* The engines of intel_execution_engines[]: "default" is the render engine,
\* "bsd" and "bsd1" are the first video engine, "bsd2" the second.
ExecRing(e) == <<Render, Render, 2, 2, 5, 3, 4>>[e + 1]

Await   == INSTANCE FenceAwait   WITH Ring <- Render
Busying == INSTANCE FenceBusy    WITH Ring <- Render
Sig     == INSTANCE FencearrSig  WITH Default <- Render
Wait    == INSTANCE FencearrWait WITH Default <- Render
Basic   == INSTANCE ExecBasic    WITH RingOf <- ExecRing
Latency == INSTANCE Latency      WITH Ring <- Render

Programs == {"gem_fence_await", "gem_fence_busy", "gem_fencearr_sig", "gem_fencearr_wait",
             "gem_exec_basic", "gem_exec_latency", "gem_store_latency"}
Running(name) == {p \in Proc : program[p] = name}

Step(p) ==
    /\ \/ program[p] = "gem_fence_await"   /\ Await!Program(p)
       \/ program[p] = "gem_fence_busy"    /\ Busying!Program(p)
       \/ program[p] = "gem_fencearr_sig"  /\ Sig!Program(p)
       \/ program[p] = "gem_fencearr_wait" /\ Wait!Program(p)
       \/ program[p] = "gem_exec_basic"    /\ Basic!Program(p)
       \/ program[p] = "gem_exec_latency"  /\ Latency!ExecProgram(p)
       \/ program[p] = "gem_store_latency" /\ Latency!StoreProgram(p)
    /\ UNCHANGED program

TimeOut(p) == program[p] = "gem_fence_busy" /\ Busying!TimeOut(p)

Init == GkitInit /\ program \in [Proc -> Programs]

Next == \/ \E p \in Proc : Step(p)
        \/ Device /\ UNCHANGED program
        \/ AllExited /\ UNCHANGED program

Spec == Init /\ [][Next]_<<vars, program>>

\* The scheduler runs every process, the clock moves on while gem_fence_busy
\* watches it, and the device is fair as Gkit says.
FairSpec == /\ Spec /\ DeviceFairness
            /\ \A p \in Proc : WF_vars(Step(p)) /\ SF_vars(TimeOut(p))
-----------------------------------------------------------------------------
(* Properties.                                                             *)

\* Whatever runs beside it and whichever calls fail, an assert on the device
\* fails only at a query that failed, at one that came after the batch was
\* complete, or at a limit on time the device overran with the end in its memory;
\* and a process uses an unmapped pointer only where gem_exec_basic ignores that
\* mmap() failed.
AssertsHold ==
    \A p \in Proc : verdict[p] \in {"assert", "timeout", "sigsegv"} =>
        CASE program[p] = "gem_fence_await"   -> FALSE
          [] program[p] = "gem_fence_busy"    -> \/ verdict[p] = "assert" /\ Busying!AtQuery(p)
                                                 \/ verdict[p] = "timeout" /\ Busying!AtLimit(p)
          [] program[p] = "gem_fencearr_sig"  -> verdict[p] = "assert" /\ Sig!AtBusyCheck(p)
          [] program[p] = "gem_fencearr_wait" -> verdict[p] = "assert" /\ Wait!AtQuery(p)
          [] program[p] = "gem_exec_basic"    -> verdict[p] = "sigsegv" /\ Basic!AtBadMapping(p)
          [] OTHER -> FALSE

Spinning(p) == \/ program[p] = "gem_fence_await"   /\ Await!Spinning(p)
               \/ program[p] = "gem_fence_busy"    /\ Busying!Spinning(p)
               \/ program[p] = "gem_fencearr_wait" /\ Wait!Spinning(p)

Orphan(p) == verdict[p] # "running" /\ Spinning(p)
Orphaned  == \E p \in Proc : Orphan(p)

\* A process leaves the engine spinning only if it aborts where a wrapper or a
\* failed query can abort between submission and release.
OrphansExplained ==
    \A p \in Proc : Orphan(p) =>
        CASE program[p] = "gem_fence_await"   -> Await!InStore(p)
          [] program[p] = "gem_fence_busy"    -> Busying!AtQuery(p)
          [] program[p] = "gem_fencearr_wait" -> Wait!MakingWaiter(p)

\* Fences and busy states tell the truth about the spinner, also among the
\* requests of other programs: nothing behind a fence runs, and no fence or
\* syncobj signals, before the program has stored the end.
FencesHold ==
    /\ \A p \in Running("gem_fence_await")   : Await!StoreLate(p)
    /\ \A p \in Running("gem_fence_busy")    : Busying!BusyUntilReleased(p)
    /\ \A p \in Running("gem_fencearr_sig")  : Sig!SignalledWhenDone(p)
    /\ \A p \in Running("gem_fencearr_wait") : Wait!WaiterGated(p)

\* A process that passes leaves no work behind, and nothing held but the spinner
\* of gem_fencearr_wait.
PassIsClean ==
    \A p \in Proc : verdict[p] = "passed" =>
        CASE program[p] = "gem_fence_await"   -> Await!Clean(p)
          [] program[p] = "gem_fence_busy"    -> Busying!Clean(p)
          [] program[p] = "gem_fencearr_sig"  -> Sig!Clean(p)
          [] program[p] = "gem_fencearr_wait" -> Wait!LeavesOnlySpinner(p)
          [] program[p] = "gem_exec_basic"    -> Basic!Clean(p)
          [] OTHER                            -> Latency!Clean(p)

\* Nothing measured, and nothing left to the next test, is still in flight: a
\* time is taken when the work has landed, whichever handle was waited for.
WorkDone ==
    /\ \A p \in Running("gem_exec_basic")    : Basic!DrainedBetweenTests(p)
    /\ \A p \in Running("gem_exec_latency")  : Latency!ExecMeasured(p)
    /\ \A p \in Running("gem_store_latency") : Latency!StoreMeasured(p)

\* All processes come to their ends.  Only an orphan can keep one from it, and never
\* gem_fence_busy: its waits are limited.
Ends == <>(\A p \in Proc : \/ verdict[p] # "running"
                           \/ program[p] # "gem_fence_busy" /\ Orphaned)

\* Unless an orphan spins, the engine is free in the end: no timeout, abort or
\* store left in the write-combining buffer keeps it busy.
EngineFreed == <>[](Orphaned \/ \A o \in Object : ~InFlight(o))

Gates == {"gem_fence_await", "gem_fence_busy", "gem_fencearr_wait"}

\* Each program with a spinner keeps GatedTask's promise, whatever the others do.
Gated == INSTANCE GatedTask WITH
    gate    <- [p \in Proc |-> CASE program[p] = "gem_fence_await"   -> Await!GateOf(p)
                                 [] program[p] = "gem_fence_busy"    -> Busying!GateOf(p)
                                 [] program[p] = "gem_fencearr_wait" -> Wait!GateOf(p)
                                 [] OTHER -> "shut"],
    task    <- [p \in Proc |-> CASE program[p] = "gem_fence_await"   -> Await!TaskOf(p)
                                 [] program[p] = "gem_fence_busy"    -> Busying!TaskOf(p)
                                 [] program[p] = "gem_fencearr_wait" -> Wait!TaskOf(p)
                                 [] OTHER -> "none"],
    outcome <- [p \in Proc |-> IF program[p] \in Gates THEN Await!OutcomeOf(p) ELSE "running"]

KeepsPromise == Gated!Spec
=============================================================================
