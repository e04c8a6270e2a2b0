----------------------------- MODULE FenceAwait -----------------------------
(***************************************************************************)
(* gem_fence_await.c: a spinning batch returns an out-fence, a second batch *)
(* waits for that fence and stores 1 to a scratch object.  The program     *)
(* checks that the store has not happened, ends the spinner, waits for the *)
(* scratch object and checks that the store has happened.                  *)
(***************************************************************************)
EXTENDS Gkit

CONSTANT Ring       \* the engine main() passes: I915_EXEC_RENDER

ASSUME NameAssumption == {"spin", "store", "scratch"} \subseteq Name
ASSUME RingAssumption == Ring \in Nat

Spin(p)    == <<p, "spin">>
Store(p)   == <<p, "store">>
Scratch(p) == <<p, "scratch">>

-----------------------------------------------------------------------------
(* Faulty statements, to see that the properties below notice them.        *)

FillWithEnd(p)   == Poke(p, 8, Spin(p), "end")
StoreOnOtherRing(p) == Ioctl(p, 14, "exec", {Store(p), Scratch(p)} \subseteq open,
                             gem_execbuf(Store(p), {Scratch(p)}, Ring + 1, {}))
KeepFence(p)     == Unchecked(p, 16, UNCHANGED effects)
NoBarrier(p)     == Unchecked(p, 19, UNCHANGED effects)
FallsThrough(p)  == Unchecked(p, 23, gem_close(Scratch(p)))
-----------------------------------------------------------------------------
(* main() and test_fence_await(), statement by statement.                  *)

OpenDevice(p)    == drm_open_driver(p, 1)
CreateScratch(p) == Ioctl(p, 2, "create", TRUE, gem_create(Scratch(p)))
CreateSpinner(p) == Ioctl(p, 3, "create", TRUE, gem_create(Spin(p)))
MapScratch(p)    == Ioctl(p, 4, "mmap", Scratch(p) \in open, gem_mmap__wc(Scratch(p)))
MapSpinner(p)    == Ioctl(p, 6, "mmap", Spin(p) \in open, gem_mmap__wc(Spin(p)))
ToGTT(p)         == \E n \in {5, 7} : Ioctl(p, n, "domain", Spin(p) \in open,
                                            gem_set_domain(Spin(p), TRUE))
FillSpinner(p)   == Poke(p, 8, Spin(p), "spin")
SubmitSpinner(p) == Ioctl(p, 9, "exec", Spin(p) \in open, gem_execbuf_wr(p, Spin(p), Ring))
CloseSpinner(p)  == Unchecked(p, 10, gem_close(Spin(p)))
CheckFence(p)    == Check(p, 11, fence[p] # {})

\* store(): a batch of its own, run behind the fence
CreateStore(p)   == Ioctl(p, 12, "create", TRUE, gem_create(Store(p)))
WriteStore(p)    == Ioctl(p, 13, "write", Store(p) \in open, gem_write(Store(p), "store"))
SubmitStore(p)   == Ioctl(p, 14, "exec", {Store(p), Scratch(p)} \subseteq open,
                          gem_execbuf(Store(p), {Scratch(p)}, Ring, fence[p]))
CloseStore(p)    == Unchecked(p, 15, gem_close(Store(p)))

CloseFence(p)    == Unchecked(p, 16, SetFence(p, {}))
CheckEarly(p)    == Check(p, 17, mem[Scratch(p)] = "zero")
Release(p)       == Poke(p, 18, Spin(p), "end")
Publish(p)       == Barrier(p, 19)
AwaitScratch(p)  == Ioctl(p, 20, "domain", Scratch(p) \in open,
                          gem_set_domain(Scratch(p), FALSE))
CheckLate(p)     == Check(p, 21, mem[Scratch(p)] = "written")
Unmap(p)         == Unchecked(p, 22, munmap({Spin(p), Scratch(p)}))
CloseScratch(p)  == Return(p, 23, gem_close(Scratch(p)))

Program(p) ==
    \/ OpenDevice(p) \/ CreateScratch(p) \/ CreateSpinner(p) \/ MapScratch(p)
    \/ ToGTT(p) \/ MapSpinner(p) \/ FillSpinner(p) \/ SubmitSpinner(p)
    \/ CloseSpinner(p) \/ CheckFence(p)
    \/ CreateStore(p) \/ WriteStore(p) \/ SubmitStore(p) \/ CloseStore(p)
    \/ CloseFence(p) \/ CheckEarly(p) \/ Release(p) \/ Publish(p)
    \/ AwaitScratch(p) \/ CheckLate(p) \/ Unmap(p) \/ CloseScratch(p)

Init == GkitInit
Next == (\E p \in Proc : Program(p)) \/ Device \/ AllExited
Spec == Init /\ [][Next]_vars

\* The scheduler runs every process; the device is fair as Gkit says.
FairSpec == Spec /\ (\A p \in Proc : WF_vars(Program(p))) /\ DeviceFairness
-----------------------------------------------------------------------------
(* Properties.                                                             *)

\* Types of the shared state; pc stays within the program's statements.
TypeOK == GkitTypeOK /\ pc \in [Proc -> 1..23]

\* The dependent store reaches the scratch object only after the program has
\* stored the end of the spinner: "Check for invalidly completing the task
\* early" (gem_fence_await.c:127) can find nothing.
StoreLate(p) == mem[Scratch(p)] = "written" => pc[p] > 18
NoEarlyStore == \A p \in Proc : StoreLate(p)

\* No assert() on what the device did fails and no unmapped pointer is used,
\* whichever ioctl fails and however the processes interleave.
ChecksHold == \A p \in Proc : verdict[p] \notin {"assert", "sigsegv"}

\* A process that passes saw the store, leaves no work on the engine, and has
\* returned every handle, mapping and descriptor it took.
Clean(p) == /\ mem[Scratch(p)] = "written" /\ fence[p] = {}
            /\ \A o \in {Spin(p), Store(p), Scratch(p)} :
                  o \notin open \cup mapped /\ ~InFlight(o)
PassIsClean == \A p \in Proc : verdict[p] = "passed" => Clean(p)

Spinning(p) == InFlight(Spin(p)) /\ "end" \notin {mem[Spin(p)], wc[Spin(p)]}

\* A process that aborts leaves the engine spinning only if a call inside
\* store() failed: the one stretch between submission and release where a
\* wrapper may abort.
InStore(p) == pc[p] \in 12..14
OrphanOnlyFromStore == \A p \in Proc : verdict[p] # "running" /\ Spinning(p) => InStore(p)

\* The store is executed only once the request behind the fence has completed.
StoreAfterFence ==
    [][\A p \in Proc : rq[Store(p)] = "queued" /\ rq'[Store(p)] = "ran"
                           => rq[Spin(p)] = "done"]_vars

\* Every process ends, aborted processes beside it or not.
Terminates == \A p \in Proc : <>(verdict[p] # "running")

GateOf(p) == IF pc[p] > 18 THEN "open" ELSE "shut"
TaskOf(p) == IF rq[Store(p)] = "none" THEN "none"
             ELSE IF rq[Store(p)] = "queued" THEN "pending" ELSE "finished"
OutcomeOf(p) == IF verdict[p] \in {"running", "passed"} THEN verdict[p] ELSE "failed"

\* The program keeps GatedTask's promise: the spinner is the gate, the store
\* the task.
Gated == INSTANCE GatedTask WITH gate    <- [p \in Proc |-> GateOf(p)],
                                 task    <- [p \in Proc |-> TaskOf(p)],
                                 outcome <- [p \in Proc |-> OutcomeOf(p)]

KeepsPromise == Gated!Spec
=============================================================================
