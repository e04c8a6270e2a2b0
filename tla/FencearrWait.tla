---------------------------- MODULE FencearrWait ----------------------------
(***************************************************************************)
(* gem_fencearr_wait.c: a spinning batch signals a syncobj and a second    *)
(* batch waits for it.  The second batch must be busy while the spinner is *)
(* on the engine, and complete after the program has ended the spinner.    *)
(* The program gives up the handle of the spinner without closing it: obj  *)
(* is cleared and reused for the second batch.                             *)
(***************************************************************************)
EXTENDS Gkit

CONSTANT Default    \* execbuf.flags names no ring: I915_EXEC_DEFAULT

Spin(p)    == <<p, "spin">>
Wait(p)    == <<p, "wait">>
Syncobj(p) == <<p, "syncobj">>

-----------------------------------------------------------------------------
(* Faulty statements, to see that the properties below notice them.        *)

FillWithEnd(p)   == Poke(p, 6, Spin(p), "end")
WaitForNothing(p) == Ioctl(p, 10, "exec", {Wait(p), Syncobj(p)} \subseteq open,
                           gem_execbuf(Wait(p), {}, Default + 1, {}))
KeepSyncobj(p)   == Unchecked(p, 16, UNCHANGED effects)
-----------------------------------------------------------------------------
(* main() and test_syncobj_wait(), statement by statement.                 *)

OpenDevice(p)     == drm_open_driver(p, 1)
CreateSyncobj(p)  == syncobj_create(p, 2, Syncobj(p))
CreateSpinner(p)  == Ioctl(p, 3, "create", TRUE, gem_create(Spin(p)))
MapSpinner(p)     == Ioctl(p, 4, "mmap", Spin(p) \in open, gem_mmap__wc(Spin(p)))
ToGTT(p)          == Ioctl(p, 5, "domain", Spin(p) \in open, gem_set_domain(Spin(p), TRUE))
FillSpinner(p)    == Poke(p, 6, Spin(p), "spin")
SubmitSpinner(p)  == Ioctl(p, 7, "exec", {Spin(p), Syncobj(p)} \subseteq open,
                           gem_execbuf_wr(p, Spin(p), Default))
CreateWaiter(p)   == Ioctl(p, 8, "create", TRUE, gem_create(Wait(p)))
WriteWaiter(p)    == Ioctl(p, 9, "write", Wait(p) \in open, gem_write(Wait(p), "end"))

\* I915_EXEC_FENCE_WAIT: the kernel refuses a syncobj that has no fence
SubmitWaiter(p)   == Ioctl(p, 10, "exec", {Wait(p), Syncobj(p)} \subseteq open /\ fence[p] # {},
                           gem_execbuf(Wait(p), {}, Default, fence[p]))
CheckBusy(p)      == \E busy \in gem_bo_busy(Wait(p)) : Check(p, 11, busy)
Release(p)        == Poke(p, 12, Spin(p), "end")
Publish(p)        == Barrier(p, 13)
SyncWaiter(p)     == gem_sync(p, 14, Wait(p))
CheckIdle(p)      == \E busy \in gem_bo_busy(Wait(p)) : Check(p, 15, ~busy)
DestroySyncobj(p) == Unchecked(p, 16, syncobj_destroy(p, Syncobj(p)))
CloseWaiter(p)    == Return(p, 17, gem_close(Wait(p)))

Program(p) ==
    \/ OpenDevice(p) \/ CreateSyncobj(p) \/ CreateSpinner(p) \/ MapSpinner(p)
    \/ ToGTT(p) \/ FillSpinner(p) \/ SubmitSpinner(p)
    \/ CreateWaiter(p) \/ WriteWaiter(p) \/ SubmitWaiter(p) \/ CheckBusy(p)
    \/ Release(p) \/ Publish(p) \/ SyncWaiter(p) \/ CheckIdle(p)
    \/ DestroySyncobj(p) \/ CloseWaiter(p)

-----------------------------------------------------------------------------
(* What the program promises of one of its processes; Suite checks it for   *)
(* processes of all programs on one card.                                  *)

Spinning(p) == InFlight(Spin(p)) /\ "end" \notin {mem[Spin(p)], wc[Spin(p)]}

\* The second batch runs only once the program has released the spinner; until
\* then it keeps its object busy, as the assert at gem_fencearr_wait.c:85 needs.
WaiterGated(p) == /\ rq[Wait(p)] \in {"ran", "done"} => pc[p] > 12
                  /\ pc[p] \in 11..12 => Busy(Wait(p))

\* The one assert that may fail: a query that failed counts as idle.
AtQuery(p) == pc[p] = 11 /\ "busy" \in Fallible

\* Aborts that orphan the spinner: making the second batch, or a failed query.
MakingWaiter(p) == pc[p] \in 8..11

\* Both batches are complete and all is returned but the spinner: its handle is
\* lost, its mapping stays until the process exits.
LeavesOnlySpinner(p) ==
    /\ rq[Spin(p)] = "done" /\ rq[Wait(p)] = "done" /\ fence[p] = {}
    /\ {o \in open \cup mapped : o[1] = p} = {Spin(p)}

\* The spinner is the gate of GatedTask, the second batch the task.
GateOf(p) == IF pc[p] > 12 THEN "open" ELSE "shut"
TaskOf(p) == IF rq[Wait(p)] = "none" THEN "none"
             ELSE IF rq[Wait(p)] = "queued" THEN "pending" ELSE "finished"
=============================================================================
