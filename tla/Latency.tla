------------------------------ MODULE Latency -------------------------------
(***************************************************************************)
(* gem_exec_latency.c and gem_store_latency.c: in a context of the highest *)
(* priority, the time from the submission of a batch to its completion is  *)
(* taken Times times; that is done Rounds times, the first to warm up.     *)
(* One program submits an empty batch and waits for it, the other submits  *)
(* a store, closes the batch's handle and waits for the store's target.    *)
(*                                                                         *)
(* The statements of a sample are numbered after those of the samples      *)
(* before it.  What is done with the times is in module Measure.           *)
(***************************************************************************)
EXTENDS Gkit

CONSTANTS
    Rounds,     \* 17 in main(): one to warm up, then 16
    Times,      \* _TIMES, 128
    Ring        \* I915_EXEC_RENDER

Context(p) == <<p, "context">>
Batch(p)   == <<p, "obj">>
Target(p)  == <<p, "scratch">>
Store(p)   == <<p, "store">>

\* w statements per sample, after the context's creation and before its end
Round(r, w)     == 2 + r * (w * Times + 3)
Sample(r, i, w) == Round(r, w) + 2 + w * i
Destroy(r, w)   == Sample(r, Times, w)
End(w)          == Round(Rounds, w)

ExecWidth  == 5
StoreWidth == 7
-----------------------------------------------------------------------------
(* Faulty statements, to see that the properties notice them.              *)

KeepContext(p, n)  == Unchecked(p, n, UNCHANGED effects)
Skip(p, n)        == Unchecked(p, n, UNCHANGED effects)
-----------------------------------------------------------------------------
OpenDevice(p) == drm_open_driver(p, 1)

gem_context_create(p) ==
    open' = open \cup {Context(p)} /\ UNCHANGED <<fence, mapped, memory, rq, job>>

\* A refusal is not noticed, and the ring runs in order whatever is granted.
gem_context_set_priority(p, n) == Unchecked(p, n, UNCHANGED effects)

create_highest_priority(p, n) ==
    \/ Ioctl(p, n, "context", TRUE, gem_context_create(p))
    \/ gem_context_set_priority(p, n + 1)

gem_context_destroy(p, n) == Unchecked(p, n, gem_close(Context(p)))

Usable(p, objs) == Context(p) \in open /\ objs \subseteq open

get_exec_latency(p, n) ==
    \/ Ioctl(p, n, "create", TRUE, gem_create(Batch(p)))
    \/ Ioctl(p, n + 1, "write", Batch(p) \in open, gem_write(Batch(p), "end"))
    \/ Ioctl(p, n + 2, "exec", Usable(p, {Batch(p)}), gem_execbuf(Batch(p), {}, Ring, {}))
    \/ gem_sync(p, n + 3, Batch(p))
    \/ Unchecked(p, n + 4, gem_close(Batch(p)))

store(p, n) ==
    \/ Ioctl(p, n, "create", TRUE, gem_create(Store(p)))
    \/ Ioctl(p, n + 1, "write", Store(p) \in open, gem_write(Store(p), "store"))
    \/ Ioctl(p, n + 2, "exec", Usable(p, {Store(p), Target(p)}),
             gem_execbuf(Store(p), {Target(p)}, Ring, {}))
    \/ Unchecked(p, n + 3, gem_close(Store(p)))

SyncTarget(p, n) == gem_sync(p, n, Target(p))

get_store_latency(p, n) ==
    \/ Ioctl(p, n, "create", TRUE, gem_create(Target(p)))
    \/ store(p, n + 1)
    \/ SyncTarget(p, n + 5)
    \/ Unchecked(p, n + 6, gem_close(Target(p)))

Rest(p, w) ==
    \/ OpenDevice(p)
    \/ \E r \in 0..(Rounds - 1) : \/ create_highest_priority(p, Round(r, w))
                                  \/ gem_context_destroy(p, Destroy(r, w))
    \/ Return(p, End(w), UNCHANGED effects)

ExecProgram(p) ==
    \/ Rest(p, ExecWidth)
    \/ \E r \in 0..(Rounds - 1), i \in 0..(Times - 1) : get_exec_latency(p, Sample(r, i, ExecWidth))

StoreProgram(p) ==
    \/ Rest(p, StoreWidth)
    \/ \E r \in 0..(Rounds - 1), i \in 0..(Times - 1) : get_store_latency(p, Sample(r, i, StoreWidth))
-----------------------------------------------------------------------------
(* What the programs promise of one of their processes; Suite checks it.   *)

AtSample(p, k, w) ==
    \E r \in 0..(Rounds - 1), i \in 0..(Times - 1) : pc[p] = Sample(r, i, w) + k

\* When the time is taken, the request it measures is complete, and the store
\* has landed.
ExecMeasured(p)  == AtSample(p, 4, ExecWidth) => rq[Batch(p)] = "done"
StoreMeasured(p) == AtSample(p, 6, StoreWidth) => rq[Store(p)] = "done" /\ mem[Target(p)] = "written"

Clean(p) == \A o \in {Context(p), Batch(p), Target(p), Store(p)} : o \notin open /\ ~InFlight(o)
=============================================================================
