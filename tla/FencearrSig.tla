---------------------------- MODULE FencearrSig -----------------------------
(***************************************************************************)
(* gem_fencearr_sig.c: a batch that ends at once signals a syncobj.  The   *)
(* program checks that object and syncobj are busy after the submission    *)
(* and idle after gem_sync().                                              *)
(***************************************************************************)
EXTENDS Gkit

CONSTANT Default    \* execbuf.flags names no ring: I915_EXEC_DEFAULT

Obj(p)     == <<p, "obj">>
Syncobj(p) == <<p, "syncobj">>

\* syncobj_to_sync_file() fails without a fence, or for want of a descriptor;
\* poll() ignores the negative descriptor and the syncobj counts as busy
syncobj_busy(p) ==
    {fence_busy(p)} \cup (IF "export" \in Fallible THEN {TRUE} ELSE {})
-----------------------------------------------------------------------------
(* Faulty statements, to see that the properties below notice them.        *)

BatchOfZeroes(p) == Unchecked(p, 4, UNCHANGED effects)
-----------------------------------------------------------------------------
(* main() and test_syncobj_signal(), statement by statement.               *)

OpenDevice(p)    == drm_open_driver(p, 1)
CreateSyncobj(p) == syncobj_create(p, 2, Syncobj(p))
CreateBatch(p)   == Ioctl(p, 3, "create", TRUE, gem_create(Obj(p)))
WriteBatch(p)    == Ioctl(p, 4, "write", Obj(p) \in open, gem_write(Obj(p), "end"))
SubmitBatch(p)   == Ioctl(p, 5, "exec", {Obj(p), Syncobj(p)} \subseteq open,
                          gem_execbuf_wr(p, Obj(p), Default))
CheckBusy(p)     == \E busy \in gem_bo_busy(Obj(p)) : Check(p, 6, busy)
CheckSyncobjBusy(p) == \E busy \in syncobj_busy(p) : Check(p, 7, busy)
SyncBatch(p)     == gem_sync(p, 8, Obj(p))
CheckIdle(p)     == \E busy \in gem_bo_busy(Obj(p)) : Check(p, 9, ~busy)
CheckSyncobjIdle(p) == \E busy \in syncobj_busy(p) : Check(p, 10, ~busy)
CloseBatch(p)    == Unchecked(p, 11, gem_close(Obj(p)))
DestroySyncobj(p) == Return(p, 12, syncobj_destroy(p, Syncobj(p)))

Program(p) ==
    \/ OpenDevice(p) \/ CreateSyncobj(p) \/ CreateBatch(p) \/ WriteBatch(p)
    \/ SubmitBatch(p) \/ CheckBusy(p) \/ CheckSyncobjBusy(p) \/ SyncBatch(p)
    \/ CheckIdle(p) \/ CheckSyncobjIdle(p) \/ CloseBatch(p) \/ DestroySyncobj(p)

Init == GkitInit
Next == (\E p \in Proc : Program(p)) \/ Device \/ AllExited
Spec == Init /\ [][Next]_vars
-----------------------------------------------------------------------------
(* Properties.                                                             *)

\* The asserts after the submission (gem_fencearr_sig.c:89-90) say that object
\* and syncobj are still busy when they are asked.
BusyChecksHold ==
    \A p \in Proc : verdict[p] = "assert" => pc[p] \notin {6, 7}

(* What the program promises of one of its processes; Suite checks it for   *)
(* processes of all programs on one card.                                  *)

\* The asserts that may fail: those right after the submission, if the batch is
\* complete by then or the query failed, and the last one, if the syncobj could
\* not be exported (gem_fencearr_sig.c:42) and so counts as busy.
AtBusyCheck(p) ==
    \/ pc[p] = 6 /\ (rq[Obj(p)] = "done" \/ "busy" \in Fallible)
    \/ pc[p] = 7 /\ rq[Obj(p)] = "done"
    \/ pc[p] = 10 /\ "export" \in Fallible

\* A wrong "busy" costs nothing but a failed run: whatever the checks answered,
\* a process that passes has waited for its batch and returned every handle.
Clean(p) == /\ rq[Obj(p)] = "done" /\ fence[p] = {}
            /\ open \cap {Obj(p), Syncobj(p)} = {}

\* "the syncobj is signaled only when our request/fence is" (line 70): a
\* syncobj that has signalled belongs to a submitted, completed request.
SignalledWhenDone(p) == ~fence_busy(p) => rq[Obj(p)] = "done"
=============================================================================
