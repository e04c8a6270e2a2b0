----------------------------- MODULE FenceBusy ------------------------------
(***************************************************************************)
(* gem_fence_busy.c: a spinning batch returns an out-fence; object and     *)
(* fence must be busy until the program ends the spinner, and idle within a *)
(* second after it.  main() runs the test twice: first it watches the fence *)
(* in a loop against the clock, then (WAIT) it sleeps in poll().           *)
(***************************************************************************)
EXTENDS Gkit

CONSTANT Ring       \* the engine main() passes: I915_EXEC_RENDER

Spin(p) == <<p, "spin">>

\* main()'s two calls; statement n of a call is at pc = call + n
SpinCall == 0
WaitCall == 20
Goto(p, n) == pc' = [pc EXCEPT ![p] = n] /\ UNCHANGED <<verdict, fd>> /\ UNCHANGED effects
-----------------------------------------------------------------------------
(* Faulty statements, to see that the properties below notice them.        *)

MapLate(p, c)       == Ioctl(p, c + 7, "mmap", Spin(p) \in open, gem_mmap__wc(Spin(p)))
NoBarrier(p, c)     == Unchecked(p, c + 11, UNCHANGED effects)
PollForever(p)      == At(p, 19) /\ Die(p, "timeout")
-----------------------------------------------------------------------------
(* main() and test_fence_busy(), statement by statement.                   *)

OpenDevice(p)       == drm_open_driver(p, 1)
CreateSpinner(p, c) == Ioctl(p, c + 2, "create", TRUE, gem_create(Spin(p)))
MapSpinner(p, c)    == Ioctl(p, c + 3, "mmap", Spin(p) \in open, gem_mmap__wc(Spin(p)))
ToGTT(p, c)         == Ioctl(p, c + 4, "domain", Spin(p) \in open,
                             gem_set_domain(Spin(p), TRUE))
FillSpinner(p, c)   == Poke(p, c + 5, Spin(p), "spin")
SubmitSpinner(p, c) == Ioctl(p, c + 6, "exec", Spin(p) \in open,
                             gem_execbuf_wr(p, Spin(p), Ring))
CheckFence(p, c)    == Check(p, c + 7, fence[p] # {})
CheckBusy(p, c)     == \E busy \in gem_bo_busy(Spin(p)) : Check(p, c + 8, busy)
CheckFenceBusy(p, c) == Check(p, c + 9, fence_busy(p))
Release(p, c)       == Poke(p, c + 10, Spin(p), "end")
Publish(p, c)       == Barrier(p, c + 11)

\* while (fence_busy(fence)) assert(seconds_elapsed(&tv) < timeout): the fence
\* is read first, the clock after it, so the fence may signal in between.  The
\* first reading of the clock only starts it; the loop goes on at 18 and 19.
WatchFence(p) == \E n \in {12, 18} :
    At(p, n) /\ Goto(p, IF fence_busy(p) THEN n + 1 ELSE 14)
WatchClock(p) == \E n \in {13, 19} : At(p, n) /\ Goto(p, 18)

\* assert(poll(&pfd, 1, timeout*1000) == 1)
PollFence(p) == At(p, WaitCall + 12) /\ ~fence_busy(p) /\ Goto(p, WaitCall + 14)

\* the second is over: seen by the clock in the loop, or by poll()
TimeOut(p) ==
    /\ At(p, 19) \/ (At(p, WaitCall + 12) /\ fence_busy(p))
    /\ Die(p, "timeout")

CheckIdle(p, c)     == \E busy \in gem_bo_busy(Spin(p)) : Check(p, c + 14, ~busy)
Unmap(p, c)         == Unchecked(p, c + 15, munmap({Spin(p)}))
CloseFence(p, c)    == Unchecked(p, c + 16, SetFence(p, {}))

\* the last statement of a call is followed by the first of the next one
NextCall(p)         == /\ At(p, 17) /\ gem_close(Spin(p))
                       /\ pc' = [pc EXCEPT ![p] = WaitCall + 2] /\ UNCHANGED <<verdict, fd>>
Finish(p)           == Return(p, WaitCall + 17, gem_close(Spin(p)))

Test(p, c) ==
    \/ CreateSpinner(p, c) \/ MapSpinner(p, c) \/ ToGTT(p, c) \/ FillSpinner(p, c)
    \/ SubmitSpinner(p, c) \/ CheckFence(p, c) \/ CheckBusy(p, c) \/ CheckFenceBusy(p, c)
    \/ Release(p, c) \/ Publish(p, c) \/ CheckIdle(p, c) \/ Unmap(p, c) \/ CloseFence(p, c)

Program(p) ==
    \/ OpenDevice(p)
    \/ \E c \in {SpinCall, WaitCall} : Test(p, c)
    \/ WatchFence(p) \/ WatchClock(p) \/ PollFence(p) \/ TimeOut(p)
    \/ NextCall(p) \/ Finish(p)
-----------------------------------------------------------------------------
(* What the program promises of one of its processes; Suite checks it for   *)
(* processes of all programs on one card.                                  *)

Statement(p) == IF pc[p] <= 19 THEN pc[p] ELSE pc[p] - WaitCall
Spinning(p)  == InFlight(Spin(p)) /\ "end" \notin {mem[Spin(p)], wc[Spin(p)]}

\* From the submission until the program stores the end, object and fence are
\* both busy: what the asserts at gem_fence_busy.c:76-77 rely on.
BusyUntilReleased(p) == Statement(p) \in 7..10 => Busy(Spin(p)) /\ fence_busy(p)

\* The one assert before the release that may fail: a query that failed counts as
\* idle.
AtQuery(p) == Statement(p) = 8 /\ "busy" \in Fallible

\* The two asserts on the limit (gem_fence_busy.c:87 and 91) may fail, but not for
\* want of an end: it is in the memory the engine reads, and the fence that was
\* watched is the spinner's.  What takes longer is the device.
AtLimit(p) == /\ pc[p] \in {19, WaitCall + 12}
              /\ mem[Spin(p)] = "end" /\ fence[p] = {Spin(p)}

\* Every handle, mapping and descriptor is returned, both batches are complete.
Clean(p) == fence[p] = {} /\ Spin(p) \notin open \cup mapped /\ ~InFlight(Spin(p))

\* Spinner and task of GatedTask are the same batch.
GateOf(p) == IF Statement(p) > 10 THEN "open" ELSE "shut"
TaskOf(p) == IF Statement(p) <= 6 THEN "none"
             ELSE IF rq[Spin(p)] = "queued" THEN "pending" ELSE "finished"
=============================================================================
