----------------------------- MODULE SuiteProofs ------------------------------
(***************************************************************************)
(* The safety properties of Suite, for any processes, any choice of the    *)
(* programs they run, any calls that may fail, either kind of ring, and    *)
(* any number of entries, rounds and samples; the kernel may even ignore   *)
(* fences.                                                                 *)
(*                                                                         *)
(* Each program has an invariant of its own about its own objects.  A step *)
(* of another process, or of its requests, changes nothing the invariant   *)
(* sees (Same), save that a buffered store may land; so it is enough to    *)
(* prove that each program, and the device acting for it, keeps its own.   *)
(***************************************************************************)
EXTENDS Suite, GkitProofs

(***************************************************************************)
(* Objects.                                                                *)

Spin(p)    == <<p, "spin">>
Store(p)   == <<p, "store">>
Scratch(p) == <<p, "scratch">>
Obj(p)     == <<p, "obj">>
Waiter(p)  == <<p, "wait">>
Syncobj(p) == <<p, "syncobj">>
Header(p)  == <<p, "header">>
Context(p) == <<p, "context">>

Own(p) == {o \in Object : o[1] = p}
-----------------------------------------------------------------------------
(* The inductive invariant.                                                *)

\* Only a scratch object of the same process is ever written by a batch.
TargetInv == \A b \in Object : job[b].target \subseteq {Scratch(b[1])}

\* p has requests for these batches only.
OnlyBatches(p, batches) == \A o \in Own(p) \ batches : rq[o] = "none"

(* gem_fence_await: as in FenceAwaitProofs.                                *)

AwaitContent(p) ==
    /\ mem[Spin(p)] \in {"zero", "spin", "end"}
    /\ mem[Store(p)] \in {"zero", "store"}
    /\ mem[Scratch(p)] \in {"zero", "written"}
    /\ wc[Store(p)] = "none" /\ wc[Scratch(p)] = "none"
    /\ pc[p] <= 18 => mem[Spin(p)] # "end" /\ wc[Spin(p)] \in {"none", "spin"}
    /\ pc[p] > 18 => wc[Spin(p)] \in {"none", "end"} /\ "end" \in {mem[Spin(p)], wc[Spin(p)]}

AwaitRequests(p) ==
    /\ OnlyBatches(p, {Spin(p), Store(p)})
    /\ rq[Spin(p)] = "none" <=> pc[p] <= 9
    /\ rq[Store(p)] = "none" <=> pc[p] <= 14
    /\ pc[p] > 9 => job[Spin(p)].ring = Render
    /\ pc[p] > 14 => Scratch(p) \in job[Store(p)].target

AwaitOrder(p) ==
    /\ rq[Spin(p)] \in {"ran", "done"} => mem[Spin(p)] = "end"
    /\ rq[Store(p)] = "queued" => rq[Spin(p)] = "done" \/ Spin(p) \in job[Store(p)].after
    /\ rq[Store(p)] \in {"ran", "done"} => rq[Spin(p)] = "done"
    /\ mem[Scratch(p)] = "written" <=> rq[Store(p)] \in {"ran", "done"}

AwaitHold(p) ==
    /\ pc[p] \in 10..16 => fence[p] = {Spin(p)}
    /\ pc[p] \notin 10..16 => fence[p] = {}
    /\ Scratch(p) \in mapped <=> pc[p] \in 5..22
    /\ Spin(p) \in mapped <=> pc[p] \in 7..22
    /\ Store(p) \notin mapped
    /\ Spin(p) \in open <=> pc[p] \in 4..10
    /\ Store(p) \in open <=> pc[p] \in 13..15
    /\ Scratch(p) \in open <=> pc[p] \in 3..23 /\ verdict[p] # "passed"

AwaitEnd(p) ==
    /\ pc[p] \in 1..23
    /\ verdict[p] \notin {"assert", "timeout", "sigsegv"}
    /\ verdict[p] # "running" => pc[p] \notin 10..11 \cup 15..19
    /\ verdict[p] = "passed" => pc[p] = 23
    /\ pc[p] > 20 => rq[Store(p)] = "done"

AwaitInv(p) ==
    AwaitContent(p) /\ AwaitRequests(p) /\ AwaitOrder(p) /\ AwaitHold(p) /\ AwaitEnd(p)

(* gem_fence_busy: by the statement, which is the same in both calls.      *)

Statement(p) == IF pc[p] <= 19 THEN pc[p] ELSE pc[p] - 20

BusyContent(p) ==
    /\ mem[Spin(p)] \in {"zero", "spin", "end"}
    /\ Statement(p) <= 5 => wc[Spin(p)] = "none"
    /\ Statement(p) <= 10 => wc[Spin(p)] \in {"none", "spin"}
    /\ Statement(p) \in 3..10 => mem[Spin(p)] \in {"zero", "spin"}
    /\ Statement(p) > 10 => /\ wc[Spin(p)] \in {"none", "end"}
                            /\ "end" \in {mem[Spin(p)], wc[Spin(p)]}
    /\ Statement(p) > 11 => wc[Spin(p)] = "none"

\* A spinner without an end stays queued; the loop ends when it is done.
BusyRequests(p) ==
    /\ OnlyBatches(p, {Spin(p)})
    /\ Statement(p) <= 6 => rq[Spin(p)] \in {"none", "done"}
    /\ Statement(p) \in 7..10 => rq[Spin(p)] = "queued"
    /\ Statement(p) \in 11..13 \cup 18..19 => rq[Spin(p)] # "none"
    /\ Statement(p) \in 14..17 => rq[Spin(p)] = "done"

BusyHold(p) ==
    /\ Statement(p) \in 7..16 \cup 18..19 => fence[p] = {Spin(p)}
    /\ Statement(p) \notin 7..16 \cup 18..19 => fence[p] = {}
    /\ Spin(p) \in mapped <=> Statement(p) \in 4..15 \cup 18..19
    /\ Spin(p) \in open <=> Statement(p) \in 3..19 /\ verdict[p] # "passed"

BusyEnd(p) ==
    /\ pc[p] \in 1..19 \cup 22..32 \cup 34..37
    /\ verdict[p] # "sigsegv"
    /\ verdict[p] = "assert" => Statement(p) = 8 /\ "busy" \in Fallible
    /\ verdict[p] = "timeout" => pc[p] \in {19, 32}
    /\ verdict[p] # "running" /\ Statement(p) \in 7..10 => Statement(p) = 8 /\ "busy" \in Fallible
    /\ verdict[p] = "passed" => pc[p] = 37

BusyInv(p) == BusyContent(p) /\ BusyRequests(p) /\ BusyHold(p) /\ BusyEnd(p)

(* gem_fencearr_sig                                                        *)

SigInv(p) ==
    /\ pc[p] \in 1..12
    /\ OnlyBatches(p, {Obj(p)})
    /\ pc[p] > 5 => rq[Obj(p)] # "none"
    /\ pc[p] > 8 => rq[Obj(p)] = "done"
    /\ pc[p] \in 6..11 => fence[p] = {Obj(p)}
    /\ fence[p] # {} => fence[p] = {Obj(p)} /\ pc[p] > 5
    /\ pc[p] > 11 => Obj(p) \notin open
    /\ verdict[p] \notin {"timeout", "sigsegv"}
    /\ verdict[p] = "assert" => \/ pc[p] = 6 /\ (rq[Obj(p)] = "done" \/ "busy" \in Fallible)
                                \/ pc[p] = 7 /\ rq[Obj(p)] = "done"
                                \/ pc[p] = 10 /\ "export" \in Fallible
    /\ verdict[p] = "passed" => pc[p] = 12 /\ fence[p] = {} /\ Syncobj(p) \notin open

(* gem_fencearr_wait                                                       *)

WaitContent(p) ==
    /\ mem[Spin(p)] \in {"zero", "spin", "end"}
    /\ pc[p] <= 12 => mem[Spin(p)] # "end" /\ wc[Spin(p)] \in {"none", "spin"}
    /\ pc[p] > 12 => wc[Spin(p)] \in {"none", "end"} /\ "end" \in {mem[Spin(p)], wc[Spin(p)]}

WaitRequests(p) ==
    /\ OnlyBatches(p, {Spin(p), Waiter(p)})
    /\ rq[Spin(p)] = "none" <=> pc[p] <= 7
    /\ rq[Waiter(p)] = "none" <=> pc[p] <= 10
    /\ pc[p] > 7 => job[Spin(p)].ring = Render

WaitOrder(p) ==
    /\ rq[Spin(p)] \in {"ran", "done"} => mem[Spin(p)] = "end"
    /\ rq[Waiter(p)] = "queued" => rq[Spin(p)] = "done" \/ Spin(p) \in job[Waiter(p)].after
    /\ rq[Waiter(p)] \in {"ran", "done"} => rq[Spin(p)] = "done"

WaitHold(p) ==
    /\ \A o \in Own(p) \ {Spin(p), Waiter(p), Syncobj(p)} : o \notin open /\ o \notin mapped
    /\ Waiter(p) \notin mapped /\ Syncobj(p) \notin mapped
    /\ Spin(p) \in mapped <=> pc[p] > 4
    /\ Spin(p) \in open <=> pc[p] > 3
    /\ verdict[p] = "passed" => Waiter(p) \notin open
    /\ pc[p] > 16 => Syncobj(p) \notin open /\ fence[p] = {}

WaitEnd(p) ==
    /\ pc[p] \in 1..17
    /\ verdict[p] \notin {"timeout", "sigsegv"}
    /\ verdict[p] = "assert" => pc[p] = 11 /\ "busy" \in Fallible
    /\ verdict[p] # "running" => pc[p] # 12
    /\ verdict[p] = "passed" => pc[p] = 17
    /\ pc[p] > 14 => rq[Waiter(p)] = "done"

WaitInv(p) ==
    WaitContent(p) /\ WaitRequests(p) /\ WaitOrder(p) /\ WaitHold(p) /\ WaitEnd(p)

(* gem_exec_basic: by the statements of the three tests, 0 to 22.          *)

InTests(n, K) == \E e \in 0..(Entries - 1), k \in K : n = 2 + 23 * e + k

BasicInv(p) ==
    /\ OnlyBatches(p, {Obj(p)})
    /\ rq[Obj(p)] \in {"queued", "ran"} => InTests(pc[p], {3, 13, 14, 21})
    /\ Obj(p) \notin mapped
    /\ Obj(p) \in open => InTests(pc[p], (1..4) \cup (10..15) \cup (18..22))
    /\ Header(p) \in open => InTests(pc[p], 6..8)
    /\ Header(p) \in mapped => InTests(pc[p], 8..16)
    /\ InTests(pc[p], 8..11) => Header(p) \in mapped \/ "map" \in Fallible
    /\ InTests(pc[p], 12..13) => Header(p) \in mapped
    /\ verdict[p] \notin {"assert", "timeout"}
    /\ verdict[p] = "sigsegv" => "map" \in Fallible /\ InTests(pc[p], {11, 19})
    /\ verdict[p] = "passed" => pc[p] = 2 + 23 * Entries

(* The latency programs: by the statements of a sample, 0 to w - 1.        *)

InSamples(n, K, w) ==
    \E r \in 0..(Rounds - 1), i \in 0..(Times - 1), k \in K : n = Latency!Sample(r, i, w) + k

AtRound(n, w) == \E r \in 0..Rounds : n = Latency!Round(r, w)

ContextInv(p, w) ==
    /\ pc[p] = 1 \/ AtRound(pc[p], w) => Context(p) \notin open
    /\ verdict[p] \in {"running", "passed", "ioctl"}
    /\ verdict[p] = "passed" => pc[p] = Latency!End(w)

ExecInv(p) ==
    /\ ContextInv(p, 5)
    /\ OnlyBatches(p, {Obj(p)})
    /\ rq[Obj(p)] \in {"queued", "ran"} => InSamples(pc[p], {3}, 5)
    /\ InSamples(pc[p], {3, 4}, 5) => rq[Obj(p)] # "none"
    /\ Obj(p) \in open => InSamples(pc[p], 1..4, 5)
    /\ Scratch(p) \notin open /\ Store(p) \notin open

StoreInv(p) ==
    /\ ContextInv(p, 7)
    /\ OnlyBatches(p, {Store(p)})
    /\ rq[Store(p)] \in {"queued", "ran"} => InSamples(pc[p], {4, 5}, 7)
    /\ InSamples(pc[p], 4..6, 7) => rq[Store(p)] # "none"
    /\ wc[Store(p)] = "none" /\ wc[Scratch(p)] = "none"
    /\ InSamples(pc[p], 3..5, 7) => mem[Store(p)] = "store"
    /\ InSamples(pc[p], 4..5, 7) => Scratch(p) \in job[Store(p)].target
    /\ InSamples(pc[p], 4..6, 7) /\ rq[Store(p)] \in {"ran", "done"} => mem[Scratch(p)] = "written"
    /\ Store(p) \in open => InSamples(pc[p], 2..4, 7)
    /\ Scratch(p) \in open => InSamples(pc[p], 1..6, 7)
    /\ Obj(p) \notin open

ProcInv(p) ==
    /\ program[p] = "gem_fence_await"   => AwaitInv(p)
    /\ program[p] = "gem_fence_busy"    => BusyInv(p)
    /\ program[p] = "gem_fencearr_sig"  => SigInv(p)
    /\ program[p] = "gem_fencearr_wait" => WaitInv(p)
    /\ program[p] = "gem_exec_basic"    => BasicInv(p)
    /\ program[p] = "gem_exec_latency"  => ExecInv(p)
    /\ program[p] = "gem_store_latency" => StoreInv(p)

TypeOK == GkitTypeOK /\ program \in [Proc -> Programs]

IInv == TypeOK /\ TargetInv /\ \A p \in Proc : ProcInv(p)
-----------------------------------------------------------------------------
(* What the processes may do to each other.                                *)

\* Every process has eight objects of its own.
LEMMA Objects ==
    ASSUME NEW p \in Proc
    PROVE  /\ {Spin(p), Store(p), Scratch(p), Obj(p), Waiter(p), Syncobj(p), Header(p),
               Context(p)} \subseteq Own(p)
           /\ Own(p) \subseteq Object
           /\ Spin(p) \notin {Store(p), Scratch(p), Obj(p), Waiter(p), Syncobj(p)}
           /\ Store(p) \notin {Scratch(p), Obj(p), Context(p)}
           /\ Obj(p) \notin {Scratch(p), Syncobj(p), Header(p), Context(p)}
           /\ Waiter(p) \notin {Scratch(p), Syncobj(p)} /\ Scratch(p) # Context(p)
BY NameAssumption DEF Own, Object, Spin, Store, Scratch, Obj, Waiter, Syncobj, Header, Context

\* The effects a statement of p may have, all on objects of p.
Effect(p) ==
    \/ UNCHANGED effects
    \/ \E o \in Own(p) : \/ gem_create(o) \/ gem_close(o) \/ gem_mmap__wc(o)
                         \/ open' = open \cup {o} /\ UNCHANGED <<fence, mapped, mem, wc, rq, job>>
                         \/ syncobj_destroy(p, o)
    \/ \E o \in Own(p), c \in Content :
         \/ gem_write(o, c)
         \/ wc' = [wc EXCEPT ![o] = c] /\ UNCHANGED <<fence, objects, mem, rq, job>>
    \/ SetFence(p, {})
    \/ \E objs \in SUBSET Own(p) : munmap(objs)
    \/ \E n \in Nat : Barrier(p, n)
    \/ \E b \in Own(p), target \in SUBSET {Scratch(p)}, ring \in Nat, waits \in SUBSET Object :
         \/ gem_execbuf(b, target, ring, waits)
         \/ target = {} /\ waits = {} /\ gem_execbuf_wr(p, b, ring)

\* Control is private: p moves itself.
Control(p) == ControlType' /\ \A q \in Proc \ {p} : pc'[q] = pc[q] /\ verdict'[q] = verdict[q]

LEMMA EffectTypes ==
    ASSUME EffectType, NEW p \in Proc, Effect(p)
    PROVE  EffectType'
<1>1. Own(p) \subseteq Object /\ Scratch(p) \in Object
  BY Objects
<1>2. CASE UNCHANGED effects
  BY <1>2, SameEffects
<1>3. CASE \E o \in Own(p) : \/ gem_create(o) \/ gem_close(o) \/ gem_mmap__wc(o)
                             \/ open' = open \cup {o} /\ UNCHANGED <<fence, mapped, mem, wc, rq, job>>
                             \/ syncobj_destroy(p, o)
  BY <1>1, <1>3, WrapperTypes DEF EffectType, syncobj_destroy, memory
<1>4. CASE \E o \in Own(p), c \in Content :
             \/ gem_write(o, c)
             \/ wc' = [wc EXCEPT ![o] = c] /\ UNCHANGED <<fence, objects, mem, rq, job>>
  BY <1>1, <1>4, WrapperTypes, StoreType
<1>5. CASE SetFence(p, {}) \/ \E objs \in SUBSET Own(p) : munmap(objs)
  BY <1>5, WrapperTypes
<1>6. CASE \E n \in Nat : Barrier(p, n)
  BY <1>6, BarrierType
<1>7. CASE \E b \in Own(p), target \in SUBSET {Scratch(p)}, ring \in Nat, waits \in SUBSET Object :
             \/ gem_execbuf(b, target, ring, waits)
             \/ target = {} /\ waits = {} /\ gem_execbuf_wr(p, b, ring)
  <2>1. PICK b \in Own(p), target \in SUBSET {Scratch(p)}, ring \in Nat, waits \in SUBSET Object :
             \/ gem_execbuf(b, target, ring, waits)
             \/ target = {} /\ waits = {} /\ gem_execbuf_wr(p, b, ring)
    BY <1>7
  <2>2. b \in Object /\ target \in SUBSET Object
    BY <1>1
  <2>3. fence' \in [Proc -> SUBSET Object]
    BY <2>1, <2>2 DEF EffectType, gem_execbuf, gem_execbuf_wr
  <2>4. Submit(b, target, ring, waits)
    BY <2>1 DEF gem_execbuf, gem_execbuf_wr
  <2> QED BY <2>2, <2>3, <2>4, SubmitType
<1> QED BY <1>2, <1>3, <1>4, <1>5, <1>6, <1>7 DEF Effect

\* What a step leaves of process q and its objects, save for a buffered store
\* that lands.
Same(q) ==
    /\ pc'[q] = pc[q] /\ verdict'[q] = verdict[q] /\ fence'[q] = fence[q]
    /\ \A o \in Own(q) :
          /\ rq'[o] = rq[o]
          /\ job'[o].ring = job[o].ring /\ job'[o].target = job[o].target
          /\ o \in open' <=> o \in open
          /\ o \in mapped' <=> o \in mapped
          /\ \/ mem'[o] = mem[o] /\ wc'[o] = wc[o]
             \/ mem'[o] = (IF wc[o] = "none" THEN mem[o] ELSE wc[o]) /\ wc'[o] = "none"
          /\ \A x \in Own(q) : x \in job'[o].after <=> x \in job[o].after

\* A statement of p leaves the other processes as they are: their handles are
\* private, and the only thing a submission does for them is to land stores.
LEMMA EffectElsewhere ==
    ASSUME EffectType, NEW p \in Proc, Effect(p), Control(p), NEW q \in Proc \ {p}
    PROVE  Same(q)
<1>1. /\ \A o \in Own(q) : o \in Object /\ o \notin Own(p) /\ o[1] # p
      /\ \A o \in Own(p) : o \in Object
  BY DEF Own
<1> USE <1>1 DEF Same, EffectType, Control
<1>2. CASE UNCHANGED effects
  BY <1>2 DEF effects
<1>3. CASE \E o \in Own(p) : \/ gem_create(o) \/ gem_close(o) \/ gem_mmap__wc(o)
                             \/ open' = open \cup {o} /\ UNCHANGED <<fence, mapped, mem, wc, rq, job>>
                             \/ syncobj_destroy(p, o)
  BY <1>3 DEF gem_create, gem_close, gem_mmap__wc, syncobj_destroy, memory
<1>4. CASE \E o \in Own(p), c \in Content :
             \/ gem_write(o, c)
             \/ wc' = [wc EXCEPT ![o] = c] /\ UNCHANGED <<fence, objects, mem, rq, job>>
  BY <1>4 DEF gem_write, objects
<1>5. CASE SetFence(p, {}) \/ \E objs \in SUBSET Own(p) : munmap(objs)
  BY <1>5 DEF SetFence, munmap, objects, memory
<1>6. CASE \E n \in Nat : Barrier(p, n)
  BY <1>6 DEF Barrier, objects
<1>7. CASE \E b \in Own(p), target \in SUBSET {Scratch(p)}, ring \in Nat, waits \in SUBSET Object :
             \/ gem_execbuf(b, target, ring, waits)
             \/ target = {} /\ waits = {} /\ gem_execbuf_wr(p, b, ring)
  BY <1>7 DEF gem_execbuf, gem_execbuf_wr, Submit, Landed, objects
<1> QED BY <1>2, <1>3, <1>4, <1>5, <1>6, <1>7 DEF Effect

\* Nobody names an object of another process as a target, and only a scratch one.
LEMMA EffectTargets ==
    ASSUME EffectType, TargetInv, NEW p \in Proc, Effect(p)
    PROVE  TargetInv'
<1>1. \A o \in Own(p) : o \in Object /\ o[1] = p
  BY DEF Own
<1>2. CASE \E b \in Own(p), target \in SUBSET {Scratch(p)}, ring \in Nat, waits \in SUBSET Object :
             \/ gem_execbuf(b, target, ring, waits)
             \/ target = {} /\ waits = {} /\ gem_execbuf_wr(p, b, ring)
  <2>1. PICK b \in Own(p), target \in SUBSET {Scratch(p)}, ring \in Nat, waits \in SUBSET Object :
             Submit(b, target, ring, waits)
    BY <1>2 DEF gem_execbuf, gem_execbuf_wr
  <2>2. \A o \in Object : job'[o].target = IF o = b THEN target ELSE job[o].target
    BY <1>1, <2>1 DEF Submit, EffectType
  <2> QED BY <1>1, <2>2 DEF TargetInv
<1>3. CASE job' = job
  BY <1>3 DEF TargetInv
<1> QED BY <1>2, <1>3 DEF Effect, effects, gem_create, gem_close, gem_mmap__wc, gem_write,
        syncobj_destroy, SetFence, munmap, Barrier

\* The device leaves a process alone unless it runs one of its own requests.
LEMMA DeviceElsewhere ==
    ASSUME EffectType, TargetInv, NEW q \in Proc, NEW b \in Object
    PROVE  /\ Execute(b) /\ b \notin Own(q) => Same(q)
           /\ Signal(b) /\ b \notin Own(q) => Same(q)
           /\ Drain(b) => Same(q)
<1>1. \A o \in Own(q) : (o \in Object /\ o # Scratch(b[1])) \/ b \in Own(q)
  BY DEF Own, Scratch
<1>2. \A o \in Own(q) : o \in Object
  BY DEF Own
<1>3. CASE Execute(b) /\ b \notin Own(q)
  <2>1. \A o \in Own(q) : o \notin job[b].target
    BY <1>1, <1>3 DEF TargetInv
  <2> QED BY <1>2, <1>3, <2>1 DEF Same, Execute, EffectType, control, objects
<1>4. CASE Signal(b) /\ b \notin Own(q)
  <2>1. \A o \in Own(q) : job'[o] = [job[o] EXCEPT !.after = @ \ {b}] /\ job[o] \in Job
    BY <1>2, <1>4 DEF Signal, EffectType
  <2>2. \A o \in Own(q) : /\ job'[o].ring = job[o].ring /\ job'[o].target = job[o].target
                          /\ job'[o].after = job[o].after \ {b}
    BY <2>1 DEF Job
  <2>3. UNCHANGED <<pc, verdict, fence, open, mapped, mem, wc>> /\ rq' = [rq EXCEPT ![b] = "done"]
    BY <1>4 DEF Signal, control, objects, memory
  <2> QED BY <1>2, <1>4, <2>2, <2>3 DEF Same, EffectType
<1>5. CASE Drain(b)
  BY <1>2, <1>5 DEF Same, Drain, EffectType, control, objects
<1> QED BY <1>3, <1>4, <1>5

LEMMA DeviceTargets ==
    ASSUME EffectType, TargetInv, Device
    PROVE  TargetInv'
<1>1. PICK b \in Object : Execute(b) \/ Signal(b) \/ Drain(b)
  BY DEF Device
<1>2. \A o \in Object : job[o] \in Job
  BY DEF EffectType
<1>3. \A o \in Object : job'[o].target = job[o].target
  BY <1>1, <1>2 DEF Execute, Signal, Drain, Job
<1> QED BY <1>3 DEF TargetInv

\* An object that is not a scratch object is busy while its own request is.
LEMMA BusyIsInFlight ==
    ASSUME EffectType, TargetInv, NEW p \in Proc, NEW o \in Own(p), o # Scratch(p)
    PROVE  Busy(o) <=> rq[o] \in {"queued", "ran"}
<1>1. \A b \in Object : o \notin job[b].target
  <2> SUFFICES ASSUME NEW b \in Object, o = Scratch(b[1]) PROVE FALSE
    BY DEF TargetInv
  <2>1. b[1] = p
    BY DEF Own, Scratch
  <2> QED BY <2>1
<1> QED BY <1>1 DEF Busy, InFlight, Own


\* What a submission does to the requests and the memory of a process.
LEMMA SubmitView ==
    ASSUME EffectType, NEW b \in Object, NEW target, NEW ring, NEW waits,
           Submit(b, target, ring, waits)
    PROVE  /\ open' = open /\ mapped' = mapped
           /\ rq' = [rq EXCEPT ![b] = "queued"]
           /\ \A o \in Object : /\ mem'[o] = (IF wc[o] = "none" THEN mem[o] ELSE wc[o])
                                /\ wc'[o] = "none"
           /\ \A o \in Object \ {b} : job'[o] = job[o]
           /\ job'[b].target = target /\ job'[b].ring = ring
           /\ \A r \in Object \ {b} :
                InFlight(r) /\ job[r].ring = ring /\ r[1] = b[1] => r \in job'[b].after
BY DEF EffectType, Submit, Landed, objects

LEMMA SubmitEffect ==
    ASSUME NEW p \in Proc, NEW b \in Own(p), NEW ring \in Nat
    PROVE  /\ gem_execbuf_wr(p, b, ring) => Effect(p)
           /\ \A waits \in SUBSET Object : gem_execbuf(b, {}, ring, waits) => Effect(p)
           /\ \A waits \in SUBSET Object : gem_execbuf(b, {Scratch(p)}, ring, waits) => Effect(p)
<1>1. ASSUME gem_execbuf_wr(p, b, ring) PROVE Effect(p)
  BY <1>1 DEF Effect
<1>2. ASSUME NEW waits \in SUBSET Object, gem_execbuf(b, {}, ring, waits) PROVE Effect(p)
  BY <1>2 DEF Effect
<1>3. ASSUME NEW waits \in SUBSET Object, gem_execbuf(b, {Scratch(p)}, ring, waits) PROVE Effect(p)
  BY <1>3 DEF Effect
<1> QED BY <1>1, <1>2, <1>3

LEMMA UnmapEffect ==
    ASSUME NEW p \in Proc, NEW objs \in SUBSET Own(p), munmap(objs)
    PROVE  Effect(p)
BY DEF Effect

\* What the device does when it runs, and when it completes, a request of p.
LEMMA ExecuteView ==
    ASSUME EffectType, TargetInv, NEW p \in Proc, NEW b \in Own(p), Execute(b)
    PROVE  /\ UNCHANGED <<pc, verdict, fence, open, mapped, wc, job>>
           /\ rq[b] = "queued" /\ rq' = [rq EXCEPT ![b] = "ran"]
           /\ job[b].after = {} /\ mem[b] \in {"end", "store"}
           /\ \A o \in Own(p) \ {Scratch(p)} : mem'[o] = mem[o]
           /\ mem'[Scratch(p)] = IF mem[b] = "store" /\ Scratch(p) \in job[b].target
                                 THEN "written" ELSE mem[Scratch(p)]
<1>1. b[1] = p /\ b \in Object /\ Scratch(p) \in Object /\ Own(p) \subseteq Object
  BY Objects DEF Own
<1>2. \A o \in Own(p) \ {Scratch(p)} : o \notin job[b].target
  BY <1>1 DEF TargetInv
<1> QED BY <1>1, <1>2 DEF Execute, EffectType, control, objects

LEMMA SignalView ==
    ASSUME EffectType, NEW p \in Proc, NEW b \in Own(p), Signal(b)
    PROVE  /\ UNCHANGED <<pc, verdict, fence, open, mapped, mem, wc>>
           /\ rq[b] = "ran" /\ rq' = [rq EXCEPT ![b] = "done"]
           /\ \A o \in Own(p) : /\ job'[o].ring = job[o].ring /\ job'[o].target = job[o].target
                                /\ job'[o].after = job[o].after \ {b}
<1>1. \A o \in Own(p) : job'[o] = [job[o] EXCEPT !.after = @ \ {b}] /\ job[o] \in Job
  BY Objects DEF Signal, EffectType
<1>2. \A o \in Own(p) : /\ job'[o].ring = job[o].ring /\ job'[o].target = job[o].target
                        /\ job'[o].after = job[o].after \ {b}
  BY <1>1 DEF Job
<1> QED BY <1>2 DEF Signal, control, objects, memory
-----------------------------------------------------------------------------
(* gem_fencearr_sig                                                        *)

LEMMA SigNames ==
    /\ \A p : Sig!Obj(p) = Obj(p) /\ Sig!Syncobj(p) = Syncobj(p)
    /\ \A o : Sig!Busy(o) = Busy(o) /\ Sig!InFlight(o) = InFlight(o)
    /\ \A p, b, ring : Sig!gem_execbuf_wr(p, b, ring) <=> gem_execbuf_wr(p, b, ring)
<1>1. \A p, b, ring : Sig!gem_execbuf_wr(p, b, ring) <=> gem_execbuf_wr(p, b, ring)
  BY DEF Sig!gem_execbuf_wr, gem_execbuf_wr, Sig!Submit, Submit, Sig!Landed, Landed,
         Sig!Object, Object, Sig!InFlight, InFlight, Sig!objects, objects
<1> QED BY <1>1 DEF Sig!Obj, Sig!Syncobj, Obj, Syncobj, Sig!Busy, Busy, Sig!InFlight, InFlight,
                    Sig!Object, Object

LEMMA SigSame ==
    ASSUME NEW p \in Proc, SigInv(p), Same(p)
    PROVE  SigInv(p)'
BY Objects DEF SigInv, OnlyBatches, Same

\* What the queries answer: the truth, or "idle" if the one for the object failed
\* and "busy" if the syncobj could not be exported.
LEMMA SigAnswers ==
    ASSUME NEW p \in Proc
    PROVE  /\ \A busy \in Sig!gem_bo_busy(Obj(p)) :
                 /\ busy => Busy(Obj(p))
                 /\ Busy(Obj(p)) => busy \/ "busy" \in Fallible
           /\ \A busy \in Sig!syncobj_busy(p) :
                 /\ busy => Sig!fence_busy(p) \/ "export" \in Fallible
                 /\ Sig!fence_busy(p) => busy
<1>1. ASSUME NEW busy \in Sig!gem_bo_busy(Obj(p))
      PROVE  busy => Busy(Obj(p))
  BY <1>1, SigNames, Zenon DEF Sig!gem_bo_busy, Sig!Failed
<1>2. ASSUME NEW busy \in Sig!gem_bo_busy(Obj(p))
      PROVE  Busy(Obj(p)) => busy \/ "busy" \in Fallible
  BY <1>2, SigNames, Zenon DEF Sig!gem_bo_busy, Sig!Failed
<1>3. ASSUME NEW busy \in Sig!syncobj_busy(p)
      PROVE  /\ busy => Sig!fence_busy(p) \/ "export" \in Fallible
             /\ Sig!fence_busy(p) => busy
  BY <1>3 DEF Sig!syncobj_busy
<1> QED BY <1>1, <1>2, <1>3

LEMMA SigStep ==
    ASSUME GkitTypeOK, TargetInv, NEW p \in Proc, SigInv(p), Sig!Program(p)
    PROVE  SigInv(p)' /\ Effect(p) /\ Control(p)
<1>1. /\ Obj(p) \in Own(p) /\ Syncobj(p) \in Own(p) /\ Obj(p) # Syncobj(p)
      /\ Own(p) \subseteq Object
      /\ Sig!Obj(p) = Obj(p) /\ Sig!Syncobj(p) = Syncobj(p)
      /\ Render \in Nat /\ "end" \in Content
      /\ Busy(Obj(p)) <=> rq[Obj(p)] \in {"queued", "ran"}
      /\ \A o : Sig!Busy(o) = Busy(o)
  BY Objects, SigNames, BusyIsInFlight DEF Render, Content, GkitTypeOK
<1>2. ControlType /\ EffectType
  BY DEF GkitTypeOK
<1> USE <1>1, <1>2
    DEF Sig!At, Sig!Advance, Sig!Exit, Sig!Die, Sig!Ioctl, Sig!Check, Sig!Unchecked, Sig!Return,
        Sig!effects, Sig!objects, Sig!memory, effects, objects, memory, Control,
        ControlType, EffectType, Verdict, SigInv, OnlyBatches
<1>3. CASE Sig!OpenDevice(p)
  BY <1>3 DEF Sig!OpenDevice, Sig!drm_open_driver, Sig!Card, Card, Effect
<1>4. CASE Sig!CreateSyncobj(p)
  BY <1>4 DEF Sig!CreateSyncobj, Sig!syncobj_create, Effect
<1>5. CASE Sig!CreateBatch(p)
  BY <1>5 DEF Sig!CreateBatch, Sig!gem_create, gem_create, Effect
<1>6. CASE Sig!WriteBatch(p)
  BY <1>6 DEF Sig!WriteBatch, Sig!gem_write, gem_write, Effect
<1>7. CASE Sig!SubmitBatch(p)
  <2>1. CASE Sig!Die(p, "ioctl") /\ Sig!At(p, 5)
    BY <2>1 DEF Effect
  <2>2. CASE Sig!At(p, 5) /\ Sig!Advance(p) /\ gem_execbuf_wr(p, Obj(p), Render)
    <3>1. rq' = [rq EXCEPT ![Obj(p)] = "queued"] /\ fence' = [fence EXCEPT ![p] = {Obj(p)}]
      BY <2>2, SubmitView DEF gem_execbuf_wr
    <3>2. SigInv(p)' /\ Control(p)
      BY <2>2, <3>1
    <3> QED BY <2>2, <3>2, SubmitEffect
  <2> QED BY <1>7, <2>1, <2>2, SigNames DEF Sig!SubmitBatch
<1>8. CASE Sig!CheckBusy(p)
  <2>1. PICK busy \in Sig!gem_bo_busy(Obj(p)) : Sig!Check(p, 6, busy)
    BY <1>8 DEF Sig!CheckBusy
  <2>2. ~busy => rq[Obj(p)] = "done" \/ "busy" \in Fallible
    BY <2>1, SigAnswers
  <2> QED BY <2>1, <2>2 DEF Effect
<1>9. CASE Sig!CheckSyncobjBusy(p)
  <2>1. PICK busy \in Sig!syncobj_busy(p) : Sig!Check(p, 7, busy)
    BY <1>9 DEF Sig!CheckSyncobjBusy
  <2>2. ~busy => rq[Obj(p)] = "done"
    BY <2>1, SigAnswers DEF Sig!fence_busy, Sig!InFlight
  <2> QED BY <2>1, <2>2 DEF Effect
<1>10. CASE Sig!SyncBatch(p)
  BY <1>10 DEF Sig!SyncBatch, Sig!gem_sync, Effect
<1>11. CASE Sig!CheckIdle(p)
  <2>1. PICK busy \in Sig!gem_bo_busy(Obj(p)) : Sig!Check(p, 9, ~busy)
    BY <1>11 DEF Sig!CheckIdle
  <2>2. ~busy
    BY <2>1, SigAnswers
  <2> QED BY <2>1, <2>2 DEF Effect
<1>12. CASE Sig!CheckSyncobjIdle(p)
  <2>1. PICK busy \in Sig!syncobj_busy(p) : Sig!Check(p, 10, ~busy)
    BY <1>12 DEF Sig!CheckSyncobjIdle
  <2>2. ~Sig!fence_busy(p)
    BY <2>1 DEF Sig!fence_busy, Sig!InFlight
  <2>3. ~busy \/ "export" \in Fallible
    BY <2>2, SigAnswers
  <2> QED BY <2>1, <2>3 DEF Effect
<1>13. CASE Sig!CloseBatch(p)
  BY <1>13 DEF Sig!CloseBatch, Sig!gem_close, gem_close, Effect
<1>14. CASE Sig!DestroySyncobj(p)
  BY <1>14 DEF Sig!DestroySyncobj, Sig!syncobj_destroy, syncobj_destroy, Effect
<1> QED BY <1>3, <1>4, <1>5, <1>6, <1>7, <1>8, <1>9, <1>10, <1>11, <1>12, <1>13,
     <1>14 DEF Sig!Program

LEMMA SigDevice ==
    ASSUME EffectType, TargetInv, NEW p \in Proc, SigInv(p), NEW b \in Own(p),
           Execute(b) \/ Signal(b)
    PROVE  SigInv(p)'
<1>1. CASE Execute(b)
  BY <1>1, ExecuteView, Objects DEF EffectType, SigInv, OnlyBatches
<1>2. CASE Signal(b)
  BY <1>2, SignalView, Objects DEF EffectType, SigInv, OnlyBatches
<1> QED BY <1>1, <1>2
-----------------------------------------------------------------------------
(* gem_fence_busy                                                          *)

LEMMA BusyNames ==
    /\ \A p : Busying!Spin(p) = Spin(p)
    /\ \A o : Busying!Busy(o) = Busy(o) /\ Busying!InFlight(o) = InFlight(o)
    /\ \A p, b, ring : Busying!gem_execbuf_wr(p, b, ring) <=> gem_execbuf_wr(p, b, ring)
    /\ \A p, n : Busying!Barrier(p, n) => Barrier(p, n)
<1>1. \A p, b, ring : Busying!gem_execbuf_wr(p, b, ring) <=> gem_execbuf_wr(p, b, ring)
  BY DEF Busying!gem_execbuf_wr, gem_execbuf_wr, Busying!Submit, Submit, Busying!Landed, Landed,
         Busying!Object, Object, Busying!InFlight, InFlight, Busying!objects, objects
<1>2. \A p, n : Busying!Barrier(p, n) => Barrier(p, n)
  BY DEF Busying!Barrier, Barrier, Busying!At, At, Busying!Advance, Advance, Busying!Landed,
       Landed,
         Busying!Object, Object, Busying!objects, objects
<1> QED BY <1>1, <1>2 DEF Busying!Spin, Spin, Busying!Busy, Busy, Busying!InFlight, InFlight,
                    Busying!Object, Object

LEMMA BusySame ==
    ASSUME NEW p \in Proc, BusyInv(p), Same(p)
    PROVE  BusyInv(p)'
BY Objects DEF BusyInv, BusyContent, BusyRequests, BusyHold, BusyEnd, Statement, OnlyBatches,
     Same

LEMMA BusyAnswers ==
    ASSUME NEW p \in Proc, NEW busy \in Busying!gem_bo_busy(Spin(p))
    PROVE  /\ busy => Busy(Spin(p))
           /\ Busy(Spin(p)) => busy \/ "busy" \in Fallible
<1>1. busy => Busy(Spin(p))
  BY BusyNames, Zenon DEF Busying!gem_bo_busy, Busying!Failed
<1>2. Busy(Spin(p)) => busy \/ "busy" \in Fallible
  BY BusyNames, Zenon DEF Busying!gem_bo_busy, Busying!Failed
<1> QED BY <1>1, <1>2

\* How a statement moves the process, and its task with it.  Behind the release
\* the loop of the first call goes to and fro.
BusyMove(p) ==
    /\ verdict[p] = "running"
    /\ \/ verdict'[p] # "running" /\ pc'[p] = pc[p]
       \/ /\ verdict'[p] = "running"
          /\ \/ Statement(p)' = Statement(p) + 1 /\ Statement(p) # 17
             \/ Statement(p) > 10 /\ Statement(p)' > 10
             \/ pc[p] = 17 /\ pc'[p] = 22
    /\ Statement(p) = 6 /\ Statement(p)' = 7 => rq'[Spin(p)] = "queued"
    /\ ~(Statement(p) = 6 /\ Statement(p)' = 7) => rq'[Spin(p)] = rq[Spin(p)]

\* A statement of one of the two calls.
LEMMA BusyTest ==
    ASSUME GkitTypeOK, TargetInv, NEW p \in Proc, BusyInv(p), NEW c \in {0, 20},
           Busying!Test(p, c)
    PROVE  BusyInv(p)' /\ BusyMove(p) /\ Effect(p) /\ Control(p)
<1>1. /\ Spin(p) \in Own(p) /\ Own(p) \subseteq Object /\ \A o \in Own(p) : o[1] = p
      /\ Busying!Spin(p) = Spin(p)
      /\ Render \in Nat /\ {"spin", "end"} \subseteq Content
      /\ Busy(Spin(p)) <=> rq[Spin(p)] \in {"queued", "ran"}
      /\ \A o : Busying!Busy(o) = Busy(o)
  BY Objects, BusyNames, BusyIsInFlight DEF Render, Content, GkitTypeOK, Own
<1>2. ControlType /\ EffectType
  BY DEF GkitTypeOK
<1> USE <1>1, <1>2
    DEF Busying!At, Busying!Advance, Busying!Exit, Busying!Die, Busying!Ioctl, Busying!Check,
        Busying!Unchecked, Busying!Return, Busying!effects, Busying!objects, Busying!memory,
        effects, objects, memory, Control, ControlType, EffectType, Verdict, BusyInv, BusyContent,
        BusyRequests, BusyHold, BusyEnd, Statement, OnlyBatches, BusyMove
<1>3. CASE Busying!CreateSpinner(p, c)
  BY <1>3 DEF Busying!CreateSpinner, Busying!gem_create, gem_create, Effect
<1>4. CASE Busying!MapSpinner(p, c)
  BY <1>4 DEF Busying!MapSpinner, Busying!gem_mmap__wc, gem_mmap__wc, Effect
<1>5. CASE Busying!ToGTT(p, c)
  BY <1>5 DEF Busying!ToGTT, Busying!gem_set_domain, Effect
<1>6. CASE Busying!FillSpinner(p, c)
  BY <1>6 DEF Busying!FillSpinner, Busying!Poke, Effect
<1>7. CASE Busying!SubmitSpinner(p, c)
  <2>1. CASE Busying!Die(p, "ioctl") /\ Busying!At(p, c + 6)
    BY <2>1 DEF Effect
  <2>2. CASE Busying!At(p, c + 6) /\ Busying!Advance(p) /\ gem_execbuf_wr(p, Spin(p), Render)
    <3>1. /\ rq' = [rq EXCEPT ![Spin(p)] = "queued"] /\ fence' = [fence EXCEPT ![p] = {Spin(p)}]
          /\ mem'[Spin(p)] = (IF wc[Spin(p)] = "none" THEN mem[Spin(p)] ELSE wc[Spin(p)])
          /\ wc'[Spin(p)] = "none" /\ open' = open /\ mapped' = mapped
      BY <2>2, SubmitView DEF gem_execbuf_wr
    <3>2. BusyInv(p)' /\ BusyMove(p) /\ Control(p)
      BY <2>2, <3>1
    <3> QED BY <2>2, <3>2, SubmitEffect
  <2> QED BY <1>7, <2>1, <2>2, BusyNames DEF Busying!SubmitSpinner
<1>8. CASE Busying!CheckFence(p, c)
  BY <1>8 DEF Busying!CheckFence, Effect
<1>9. CASE Busying!CheckBusy(p, c)
  <2>1. PICK busy \in Busying!gem_bo_busy(Spin(p)) : Busying!Check(p, c + 8, busy)
    BY <1>9 DEF Busying!CheckBusy
  <2>2. Busy(Spin(p))
    BY <2>1
  <2>3. busy \/ "busy" \in Fallible
    BY <2>2, BusyAnswers
  <2> QED BY <2>1, <2>3 DEF Effect
<1>10. CASE Busying!CheckFenceBusy(p, c)
  BY <1>10 DEF Busying!CheckFenceBusy, Busying!fence_busy, Busying!InFlight, Effect
<1>11. CASE Busying!Release(p, c)
  BY <1>11 DEF Busying!Release, Busying!Poke, Effect
<1>12. CASE Busying!Publish(p, c)
  <2>1. Barrier(p, c + 11)
    BY <1>12, BusyNames DEF Busying!Publish
  <2>2. BusyInv(p)' /\ BusyMove(p) /\ Control(p)
    BY <2>1 DEF Barrier, At, Advance, Landed
  <2> QED BY <2>1, <2>2 DEF Effect
<1>13. CASE Busying!CheckIdle(p, c)
  <2>1. PICK busy \in Busying!gem_bo_busy(Spin(p)) : Busying!Check(p, c + 14, ~busy)
    BY <1>13 DEF Busying!CheckIdle
  <2>2. ~busy
    BY <2>1, BusyAnswers
  <2> QED BY <2>1, <2>2 DEF Effect
<1>14. CASE Busying!Unmap(p, c)
  <2>1. munmap({Spin(p)})
    BY <1>14 DEF Busying!Unmap, Busying!munmap, munmap
  <2>2. BusyInv(p)' /\ BusyMove(p) /\ Control(p)
    BY <1>14 DEF Busying!Unmap, Busying!munmap
  <2> QED BY <2>1, <2>2, UnmapEffect
<1>15. CASE Busying!CloseFence(p, c)
  BY <1>15 DEF Busying!CloseFence, Busying!SetFence, SetFence, Effect
<1> QED BY <1>3, <1>4, <1>5, <1>6, <1>7, <1>8, <1>9, <1>10, <1>11, <1>12, <1>13, <1>14, <1>15
        DEF Busying!Test

LEMMA BusyStep ==
    ASSUME GkitTypeOK, TargetInv, NEW p \in Proc, BusyInv(p), Busying!Program(p)
    PROVE  BusyInv(p)' /\ BusyMove(p) /\ Effect(p) /\ Control(p)
<1>1. /\ Spin(p) \in Own(p) /\ Own(p) \subseteq Object
      /\ Busying!Spin(p) = Spin(p)
      /\ Busying!fence_busy(p) <=> \A b \in fence[p] : rq[b] \in {"queued", "ran"}
  BY Objects, BusyNames DEF Busying!fence_busy, InFlight
<1>2. ControlType /\ EffectType
  BY DEF GkitTypeOK
<1>3. CASE \E c \in {Busying!SpinCall, Busying!WaitCall} : Busying!Test(p, c)
  BY <1>3, BusyTest DEF Busying!SpinCall, Busying!WaitCall
<1> USE <1>1, <1>2
    DEF Busying!At, Busying!Exit, Busying!Die, Busying!Goto, Busying!effects, Busying!objects,
        Busying!memory, effects, objects, memory, Control, ControlType, EffectType, Verdict, BusyInv,
        BusyContent, BusyRequests, BusyHold, BusyEnd, Statement, OnlyBatches, BusyMove
<1>4. CASE Busying!OpenDevice(p)
  BY <1>4 DEF Busying!OpenDevice, Busying!drm_open_driver, Busying!Card, Card, Effect
<1>5. CASE Busying!WatchFence(p)
  BY <1>5 DEF Busying!WatchFence, Effect
<1>6. CASE Busying!WatchClock(p)
  BY <1>6 DEF Busying!WatchClock, Effect
<1>7. CASE Busying!PollFence(p)
  BY <1>7 DEF Busying!PollFence, Busying!WaitCall, Effect
<1>8. CASE Busying!TimeOut(p)
  BY <1>8 DEF Busying!TimeOut, Busying!WaitCall, Effect
<1>9. CASE Busying!NextCall(p)
  BY <1>9 DEF Busying!NextCall, Busying!WaitCall, Busying!gem_close, gem_close, Effect
<1>10. CASE Busying!Finish(p)
  BY <1>10 DEF Busying!Finish, Busying!Return, Busying!WaitCall, Busying!gem_close,
       gem_close, Effect
<1> QED BY <1>3, <1>4, <1>5, <1>6, <1>7, <1>8, <1>9, <1>10 DEF Busying!Program

LEMMA BusyDevice ==
    ASSUME EffectType, TargetInv, NEW p \in Proc, BusyInv(p), NEW b \in Own(p),
           Execute(b) \/ Signal(b)
    PROVE  BusyInv(p)'
<1>1. CASE Execute(b)
  BY <1>1, ExecuteView, Objects
     DEF EffectType, BusyInv, BusyContent, BusyRequests, BusyHold, BusyEnd, Statement, OnlyBatches
<1>2. CASE Signal(b)
  BY <1>2, SignalView, Objects
     DEF EffectType, BusyInv, BusyContent, BusyRequests, BusyHold, BusyEnd, Statement, OnlyBatches
<1> QED BY <1>1, <1>2
-----------------------------------------------------------------------------
(* gem_fencearr_wait                                                       *)

LEMMA WaitNames ==
    /\ \A p : Wait!Spin(p) = Spin(p) /\ Wait!Wait(p) = Waiter(p) /\ Wait!Syncobj(p) = Syncobj(p)
    /\ \A o : Wait!Busy(o) = Busy(o) /\ Wait!InFlight(o) = InFlight(o)
    /\ \A p, b, ring : Wait!gem_execbuf_wr(p, b, ring) <=> gem_execbuf_wr(p, b, ring)
    /\ \A b, target, ring, waits :
          Wait!gem_execbuf(b, target, ring, waits) <=> gem_execbuf(b, target, ring, waits)
    /\ \A p, n : Wait!Barrier(p, n) => Barrier(p, n)
<1> USE DEF Wait!Submit, Submit, Wait!Landed, Landed, Wait!Object, Object, Wait!InFlight, InFlight,
            Wait!objects, objects
<1>1. \A p, b, ring : Wait!gem_execbuf_wr(p, b, ring) <=> gem_execbuf_wr(p, b, ring)
  BY DEF Wait!gem_execbuf_wr, gem_execbuf_wr
<1>2. \A b, target, ring, waits :
        Wait!gem_execbuf(b, target, ring, waits) <=> gem_execbuf(b, target, ring, waits)
  BY DEF Wait!gem_execbuf, gem_execbuf
<1>3. \A p, n : Wait!Barrier(p, n) => Barrier(p, n)
  BY DEF Wait!Barrier, Barrier, Wait!At, At, Wait!Advance, Advance
<1> QED BY <1>1, <1>2, <1>3 DEF Wait!Spin, Spin, Wait!Wait, Waiter, Wait!Syncobj, Syncobj,
                                Wait!Busy, Busy

LEMMA WaitSame ==
    ASSUME NEW p \in Proc, WaitInv(p), Same(p)
    PROVE  WaitInv(p)'
<1>1. WaitContent(p)' /\ WaitRequests(p)' /\ WaitOrder(p)'
  BY Objects DEF WaitInv, WaitContent, WaitRequests, WaitOrder, WaitEnd, OnlyBatches, Same
<1>2. WaitHold(p)' /\ WaitEnd(p)'
  BY Objects DEF WaitInv, WaitHold, WaitEnd, Same
<1> QED BY <1>1, <1>2 DEF WaitInv

LEMMA WaitAnswers ==
    ASSUME NEW p \in Proc, NEW busy \in Wait!gem_bo_busy(Waiter(p))
    PROVE  /\ busy => Busy(Waiter(p))
           /\ Busy(Waiter(p)) => busy \/ "busy" \in Fallible
<1>1. busy => Busy(Waiter(p))
  BY WaitNames, Zenon DEF Wait!gem_bo_busy, Wait!Failed
<1>2. Busy(Waiter(p)) => busy \/ "busy" \in Fallible
  BY WaitNames, Zenon DEF Wait!gem_bo_busy, Wait!Failed
<1> QED BY <1>1, <1>2

\* How a statement moves the process, and its task with it.
WaitMove(p) ==
    /\ verdict[p] = "running"
    /\ \/ verdict'[p] = "running" /\ pc'[p] = pc[p] + 1
       \/ verdict'[p] # "running" /\ pc'[p] = pc[p]
    /\ pc[p] = 10 /\ pc'[p] = 11 => rq'[Waiter(p)] = "queued"
    /\ ~(pc[p] = 10 /\ pc'[p] = 11) => rq'[Waiter(p)] = rq[Waiter(p)]

LEMMA WaitStep ==
    ASSUME GkitTypeOK, TargetInv, NEW p \in Proc, WaitInv(p), Wait!Program(p)
    PROVE  WaitInv(p)' /\ WaitMove(p) /\ Effect(p) /\ Control(p)
<1>1. /\ {Spin(p), Waiter(p), Syncobj(p)} \subseteq Own(p)
      /\ Spin(p) # Waiter(p) /\ Spin(p) # Syncobj(p) /\ Waiter(p) # Syncobj(p)
      /\ Own(p) \subseteq Object /\ \A o \in Own(p) : o[1] = p
      /\ Wait!Spin(p) = Spin(p) /\ Wait!Wait(p) = Waiter(p) /\ Wait!Syncobj(p) = Syncobj(p)
      /\ Render \in Nat /\ {"spin", "end"} \subseteq Content
      /\ Busy(Waiter(p)) <=> rq[Waiter(p)] \in {"queued", "ran"}
      /\ \A o : Wait!Busy(o) = Busy(o)
  BY Objects, WaitNames, BusyIsInFlight DEF Render, Content, GkitTypeOK, Own
<1>2. ControlType /\ EffectType
  BY DEF GkitTypeOK
<1> USE <1>1, <1>2
    DEF Wait!At, Wait!Advance, Wait!Exit, Wait!Die, Wait!Ioctl, Wait!Check, Wait!Unchecked,
        Wait!Return, Wait!effects, Wait!objects, Wait!memory, effects, objects, memory, Control,
        ControlType, EffectType, Verdict, WaitInv, WaitContent, WaitRequests, WaitOrder, WaitHold,
        WaitEnd, OnlyBatches, WaitMove
<1>3. CASE Wait!OpenDevice(p)
  BY <1>3 DEF Wait!OpenDevice, Wait!drm_open_driver, Wait!Card, Card, Effect
<1>4. CASE Wait!CreateSyncobj(p)
  BY <1>4 DEF Wait!CreateSyncobj, Wait!syncobj_create, Effect
<1>5. CASE Wait!CreateSpinner(p)
  BY <1>5 DEF Wait!CreateSpinner, Wait!gem_create, gem_create, Effect
<1>6. CASE Wait!MapSpinner(p)
  BY <1>6 DEF Wait!MapSpinner, Wait!gem_mmap__wc, gem_mmap__wc, Effect
<1>7. CASE Wait!ToGTT(p)
  BY <1>7 DEF Wait!ToGTT, Wait!gem_set_domain, Effect
<1>8. CASE Wait!FillSpinner(p)
  BY <1>8 DEF Wait!FillSpinner, Wait!Poke, Effect
<1>9. CASE Wait!SubmitSpinner(p)
  <2>1. CASE Wait!Die(p, "ioctl") /\ Wait!At(p, 7)
    BY <2>1 DEF Effect
  <2>2. CASE Wait!At(p, 7) /\ Wait!Advance(p) /\ gem_execbuf_wr(p, Spin(p), Render)
    <3>1. /\ rq' = [rq EXCEPT ![Spin(p)] = "queued"] /\ fence' = [fence EXCEPT ![p] = {Spin(p)}]
          /\ mem'[Spin(p)] = (IF wc[Spin(p)] = "none" THEN mem[Spin(p)] ELSE wc[Spin(p)])
          /\ wc'[Spin(p)] = "none" /\ open' = open /\ mapped' = mapped
          /\ job'[Spin(p)].ring = Render
      BY <2>2, SubmitView DEF gem_execbuf_wr
    <3>2. WaitInv(p)' /\ WaitMove(p) /\ Control(p)
      BY <2>2, <3>1
    <3> QED BY <2>2, <3>2, SubmitEffect
  <2> QED BY <1>9, <2>1, <2>2, WaitNames DEF Wait!SubmitSpinner
<1>10. CASE Wait!CreateWaiter(p)
  BY <1>10 DEF Wait!CreateWaiter, Wait!gem_create, gem_create, Effect
<1>11. CASE Wait!WriteWaiter(p)
  BY <1>11 DEF Wait!WriteWaiter, Wait!gem_write, gem_write, Effect
<1>12. CASE Wait!SubmitWaiter(p)
  <2>1. CASE Wait!Die(p, "ioctl") /\ Wait!At(p, 10)
    BY <2>1 DEF Effect
  <2>2. CASE /\ Wait!At(p, 10) /\ Wait!Advance(p)
             /\ gem_execbuf(Waiter(p), {}, Render, fence[p])
    <3>1. /\ rq' = [rq EXCEPT ![Waiter(p)] = "queued"] /\ fence' = fence
          /\ mem'[Spin(p)] = (IF wc[Spin(p)] = "none" THEN mem[Spin(p)] ELSE wc[Spin(p)])
          /\ wc'[Spin(p)] = "none" /\ open' = open /\ mapped' = mapped
          /\ job'[Spin(p)] = job[Spin(p)]
          /\ \A r \in Object \ {Waiter(p)} :
               InFlight(r) /\ job[r].ring = Render /\ r[1] = Waiter(p)[1] => r \in job'[Waiter(p)].after
      BY <2>2, SubmitView DEF gem_execbuf
    <3>2. rq[Spin(p)] = "done" \/ Spin(p) \in job'[Waiter(p)].after
      \* the spinner is in flight on the same ring, so the waiter queues behind it
      BY <2>2, <3>1 DEF InFlight
    <3>3. WaitInv(p)' /\ WaitMove(p) /\ Control(p)
      BY <2>2, <3>1, <3>2
    <3> QED BY <2>2, <3>3, SubmitEffect
  <2> QED BY <1>12, <2>1, <2>2, WaitNames DEF Wait!SubmitWaiter
<1>13. CASE Wait!CheckBusy(p)
  <2>1. PICK busy \in Wait!gem_bo_busy(Waiter(p)) : Wait!Check(p, 11, busy)
    BY <1>13 DEF Wait!CheckBusy
  <2>2. Busy(Waiter(p))
    BY <2>1
  <2>3. busy \/ "busy" \in Fallible
    BY <2>2, WaitAnswers
  <2> QED BY <2>1, <2>3 DEF Effect
<1>14. CASE Wait!Release(p)
  BY <1>14 DEF Wait!Release, Wait!Poke, Effect
<1>15. CASE Wait!Publish(p)
  <2>1. Barrier(p, 13)
    BY <1>15, WaitNames DEF Wait!Publish
  <2>2. WaitInv(p)' /\ WaitMove(p) /\ Control(p)
    BY <2>1 DEF Barrier, At, Advance, Landed
  <2> QED BY <2>1, <2>2 DEF Effect
<1>16. CASE Wait!SyncWaiter(p)
  BY <1>16 DEF Wait!SyncWaiter, Wait!gem_sync, Effect
<1>17. CASE Wait!CheckIdle(p)
  <2>1. PICK busy \in Wait!gem_bo_busy(Waiter(p)) : Wait!Check(p, 15, ~busy)
    BY <1>17 DEF Wait!CheckIdle
  <2>2. ~busy
    BY <2>1, WaitAnswers
  <2> QED BY <2>1, <2>2 DEF Effect
<1>18. CASE Wait!DestroySyncobj(p)
  BY <1>18 DEF Wait!DestroySyncobj, Wait!syncobj_destroy, syncobj_destroy, Effect
<1>19. CASE Wait!CloseWaiter(p)
  BY <1>19 DEF Wait!CloseWaiter, Wait!gem_close, gem_close, Effect
<1> QED BY <1>3, <1>4, <1>5, <1>6, <1>7, <1>8, <1>9, <1>10, <1>11, <1>12, <1>13, <1>14, <1>15,
           <1>16, <1>17, <1>18, <1>19 DEF Wait!Program

LEMMA WaitDevice ==
    ASSUME EffectType, TargetInv, NEW p \in Proc, WaitInv(p), NEW b \in Own(p),
           Execute(b) \/ Signal(b)
    PROVE  WaitInv(p)'
<1> USE Objects DEF EffectType, WaitInv, WaitContent, WaitRequests, WaitOrder, WaitHold, WaitEnd,
                    OnlyBatches
<1>1. CASE Execute(b)
  BY <1>1, ExecuteView
<1>2. CASE Signal(b)
  BY <1>2, SignalView
<1> QED BY <1>1, <1>2
-----------------------------------------------------------------------------
(* gem_fence_await                                                         *)

LEMMA AwaitNames ==
    /\ \A p : Await!Spin(p) = Spin(p) /\ Await!Store(p) = Store(p) /\ Await!Scratch(p) = Scratch(p)
    /\ \A o : Await!Busy(o) = Busy(o) /\ Await!WriteBusy(o) = WriteBusy(o)
    /\ \A p, b, ring : Await!gem_execbuf_wr(p, b, ring) <=> gem_execbuf_wr(p, b, ring)
    /\ \A b, target, ring, waits :
          Await!gem_execbuf(b, target, ring, waits) <=> gem_execbuf(b, target, ring, waits)
    /\ \A p, n : Await!Barrier(p, n) => Barrier(p, n)
<1> USE DEF Await!Submit, Submit, Await!Landed, Landed, Await!Object, Object, Await!InFlight,
            InFlight, Await!objects, objects
<1>1. \A p, b, ring : Await!gem_execbuf_wr(p, b, ring) <=> gem_execbuf_wr(p, b, ring)
  BY DEF Await!gem_execbuf_wr, gem_execbuf_wr
<1>2. \A b, target, ring, waits :
        Await!gem_execbuf(b, target, ring, waits) <=> gem_execbuf(b, target, ring, waits)
  BY DEF Await!gem_execbuf, gem_execbuf
<1>3. \A p, n : Await!Barrier(p, n) => Barrier(p, n)
  BY DEF Await!Barrier, Barrier, Await!At, At, Await!Advance, Advance
<1> QED BY <1>1, <1>2, <1>3
        DEF Await!Spin, Spin, Await!Store, Store, Await!Scratch, Scratch, Await!Busy, Busy,
            Await!WriteBusy, WriteBusy

LEMMA AwaitSame ==
    ASSUME NEW p \in Proc, AwaitInv(p), Same(p)
    PROVE  AwaitInv(p)'
<1>1. AwaitContent(p)' /\ AwaitRequests(p)' /\ AwaitOrder(p)'
  BY Objects DEF AwaitInv, AwaitContent, AwaitRequests, AwaitOrder, AwaitEnd, OnlyBatches, Same
<1>2. AwaitHold(p)' /\ AwaitEnd(p)'
  BY Objects DEF AwaitInv, AwaitHold, AwaitEnd, Same
<1> QED BY <1>1, <1>2 DEF AwaitInv

\* How a statement moves the process, and its task with it.
AwaitMove(p) ==
    /\ verdict[p] = "running"
    /\ \/ verdict'[p] = "running" /\ pc'[p] = pc[p] + 1
       \/ verdict'[p] # "running" /\ pc'[p] = pc[p]
    /\ pc[p] = 14 /\ pc'[p] = 15 => rq'[Store(p)] = "queued"
    /\ ~(pc[p] = 14 /\ pc'[p] = 15) => rq'[Store(p)] = rq[Store(p)]

LEMMA AwaitStep ==
    ASSUME GkitTypeOK, NEW p \in Proc, AwaitInv(p), Await!Program(p)
    PROVE  AwaitInv(p)' /\ AwaitMove(p) /\ Effect(p) /\ Control(p)
<1>1. /\ {Spin(p), Store(p), Scratch(p)} \subseteq Own(p)
      /\ Spin(p) # Store(p) /\ Spin(p) # Scratch(p) /\ Store(p) # Scratch(p)
      /\ Own(p) \subseteq Object /\ \A o \in Own(p) : o[1] = p
      /\ Await!Spin(p) = Spin(p) /\ Await!Store(p) = Store(p) /\ Await!Scratch(p) = Scratch(p)
      /\ Render \in Nat /\ {"spin", "store", "end"} \subseteq Content
      /\ \A o : Await!Busy(o) = Busy(o) /\ Await!WriteBusy(o) = WriteBusy(o)
  BY Objects, AwaitNames DEF Render, Content, Own
<1>2. ControlType /\ EffectType
  BY DEF GkitTypeOK
<1> USE <1>1, <1>2
    DEF Await!At, Await!Advance, Await!Exit, Await!Die, Await!Ioctl, Await!Check, Await!Unchecked,
        Await!Return, Await!effects, Await!objects, Await!memory, effects, objects, memory, Control,
        ControlType, EffectType, Verdict, AwaitInv, AwaitContent, AwaitRequests, AwaitOrder,
        AwaitHold, AwaitEnd, OnlyBatches, AwaitMove
<1>3. CASE Await!OpenDevice(p)
  BY <1>3 DEF Await!OpenDevice, Await!drm_open_driver, Await!Card, Card, Effect
<1>4. CASE Await!CreateScratch(p)
  BY <1>4 DEF Await!CreateScratch, Await!gem_create, gem_create, Effect
<1>5. CASE Await!CreateSpinner(p)
  BY <1>5 DEF Await!CreateSpinner, Await!gem_create, gem_create, Effect
<1>6. CASE Await!MapScratch(p)
  BY <1>6 DEF Await!MapScratch, Await!gem_mmap__wc, gem_mmap__wc, Effect
<1>7. CASE Await!ToGTT(p)
  BY <1>7 DEF Await!ToGTT, Await!gem_set_domain, Effect
<1>8. CASE Await!MapSpinner(p)
  BY <1>8 DEF Await!MapSpinner, Await!gem_mmap__wc, gem_mmap__wc, Effect
<1>9. CASE Await!FillSpinner(p)
  BY <1>9 DEF Await!FillSpinner, Await!Poke, Effect
<1>10. CASE Await!SubmitSpinner(p)
  <2>1. CASE Await!Die(p, "ioctl") /\ Await!At(p, 9)
    BY <2>1 DEF Effect
  <2>2. CASE Await!At(p, 9) /\ Await!Advance(p) /\ gem_execbuf_wr(p, Spin(p), Render)
    <3>1. /\ rq' = [rq EXCEPT ![Spin(p)] = "queued"] /\ fence' = [fence EXCEPT ![p] = {Spin(p)}]
          /\ \A o \in Own(p) : /\ mem'[o] = (IF wc[o] = "none" THEN mem[o] ELSE wc[o])
                               /\ wc'[o] = "none"
          /\ open' = open /\ mapped' = mapped
          /\ job'[Spin(p)].ring = Render /\ job'[Store(p)] = job[Store(p)]
      BY <2>2, SubmitView DEF gem_execbuf_wr
    <3>2. AwaitInv(p)' /\ AwaitMove(p) /\ Control(p)
      BY <2>2, <3>1
    <3> QED BY <2>2, <3>2, SubmitEffect
  <2> QED BY <1>10, <2>1, <2>2, AwaitNames DEF Await!SubmitSpinner
<1>11. CASE Await!CloseSpinner(p)
  BY <1>11 DEF Await!CloseSpinner, Await!gem_close, gem_close, Effect
<1>12. CASE Await!CheckFence(p)
  BY <1>12 DEF Await!CheckFence, Effect
<1>13. CASE Await!CreateStore(p)
  BY <1>13 DEF Await!CreateStore, Await!gem_create, gem_create, Effect
<1>14. CASE Await!WriteStore(p)
  BY <1>14 DEF Await!WriteStore, Await!gem_write, gem_write, Effect
<1>15. CASE Await!SubmitStore(p)
  <2>1. CASE Await!Die(p, "ioctl") /\ Await!At(p, 14)
    BY <2>1 DEF Effect
  <2>2. CASE /\ Await!At(p, 14) /\ Await!Advance(p)
             /\ gem_execbuf(Store(p), {Scratch(p)}, Render, fence[p])
    <3>1. /\ rq' = [rq EXCEPT ![Store(p)] = "queued"] /\ fence' = fence
          /\ \A o \in Own(p) : /\ mem'[o] = (IF wc[o] = "none" THEN mem[o] ELSE wc[o])
                               /\ wc'[o] = "none"
          /\ open' = open /\ mapped' = mapped
          /\ job'[Spin(p)] = job[Spin(p)] /\ job'[Store(p)].target = {Scratch(p)}
          /\ \A r \in Object \ {Store(p)} :
               InFlight(r) /\ job[r].ring = Render /\ r[1] = Store(p)[1] => r \in job'[Store(p)].after
      BY <2>2, SubmitView DEF gem_execbuf
    <3>2. rq[Spin(p)] = "done" \/ Spin(p) \in job'[Store(p)].after
      \* the spinner is in flight on the same ring, so the store queues behind it
      BY <2>2, <3>1 DEF InFlight
    <3>3. AwaitInv(p)' /\ AwaitMove(p) /\ Control(p)
      BY <2>2, <3>1, <3>2
    <3> QED BY <2>2, <3>3, SubmitEffect
  <2> QED BY <1>15, <2>1, <2>2, AwaitNames DEF Await!SubmitStore
<1>16. CASE Await!CloseStore(p)
  BY <1>16 DEF Await!CloseStore, Await!gem_close, gem_close, Effect
<1>17. CASE Await!CloseFence(p)
  BY <1>17 DEF Await!CloseFence, Await!SetFence, SetFence, Effect
<1>18. CASE Await!CheckEarly(p)
  BY <1>18 DEF Await!CheckEarly, Effect
<1>19. CASE Await!Release(p)
  BY <1>19 DEF Await!Release, Await!Poke, Effect
<1>20. CASE Await!Publish(p)
  <2>1. Barrier(p, 19)
    BY <1>20, AwaitNames DEF Await!Publish
  <2>2. AwaitInv(p)' /\ AwaitMove(p) /\ Control(p)
    BY <2>1 DEF Barrier, At, Advance, Landed
  <2> QED BY <2>1, <2>2 DEF Effect
<1>21. CASE Await!AwaitScratch(p)
  <2>1. ~WriteBusy(Scratch(p)) /\ Scratch(p) \in job[Store(p)].target => ~InFlight(Store(p))
    BY DEF WriteBusy
  <2> QED BY <1>21, <2>1 DEF Await!AwaitScratch, Await!gem_set_domain, InFlight, Effect
<1>22. CASE Await!CheckLate(p)
  BY <1>22 DEF Await!CheckLate, Effect
<1>23. CASE Await!Unmap(p)
  <2>1. munmap({Spin(p), Scratch(p)})
    BY <1>23 DEF Await!Unmap, Await!munmap, munmap
  <2>2. AwaitInv(p)' /\ AwaitMove(p) /\ Control(p)
    BY <1>23 DEF Await!Unmap, Await!munmap
  <2> QED BY <2>1, <2>2, UnmapEffect
<1>24. CASE Await!CloseScratch(p)
  BY <1>24 DEF Await!CloseScratch, Await!gem_close, gem_close, Effect
<1> QED BY <1>3, <1>4, <1>5, <1>6, <1>7, <1>8, <1>9, <1>10, <1>11, <1>12, <1>13, <1>14, <1>15,
           <1>16, <1>17, <1>18, <1>19, <1>20, <1>21, <1>22, <1>23, <1>24 DEF Await!Program

LEMMA AwaitDevice ==
    ASSUME EffectType, TargetInv, NEW p \in Proc, AwaitInv(p), NEW b \in Own(p),
           Execute(b) \/ Signal(b)
    PROVE  AwaitInv(p)'
<1> USE Objects DEF EffectType, AwaitInv, AwaitContent, AwaitRequests, AwaitOrder, AwaitHold,
                    AwaitEnd, OnlyBatches
<1>1. CASE Execute(b)
  BY <1>1, ExecuteView
<1>2. CASE Signal(b)
  BY <1>2, SignalView
<1> QED BY <1>1, <1>2
-----------------------------------------------------------------------------
(* gem_exec_basic                                                          *)

LEMMA BasicNames ==
    /\ \A p : Basic!Batch(p) = Obj(p) /\ Basic!Header(p) = Header(p)
    /\ \A o : Basic!Busy(o) = Busy(o)
    /\ \A b, target, ring, waits :
          Basic!gem_execbuf(b, target, ring, waits) <=> gem_execbuf(b, target, ring, waits)
<1>1. \A b, target, ring, waits :
        Basic!gem_execbuf(b, target, ring, waits) <=> gem_execbuf(b, target, ring, waits)
  BY DEF Basic!gem_execbuf, gem_execbuf, Basic!Submit, Submit, Basic!Landed, Landed,
       Basic!Object,
         Object, Basic!InFlight, InFlight, Basic!objects, objects
<1> QED BY <1>1 DEF Basic!Batch, Obj, Basic!Header, Header, Basic!Busy, Busy, Basic!InFlight,
                    InFlight, Basic!Object, Object

\* Statement k of the tests of an entry is no other statement of any entry.
LEMMA TestPlace ==
    ASSUME NEW e \in 0..(Entries - 1), NEW k \in 0..22, NEW n, n = 2 + 23 * e + k,
           NEW K \in SUBSET (0..22)
    PROVE  /\ InTests(n, K) <=> k \in K
           /\ k < 22 => (InTests(n + 1, K) <=> k + 1 \in K)
           /\ k = 22 => (InTests(n + 1, K) => 0 \in K)
BY BoundAssumption DEF InTests

LEMMA BasicSame ==
    ASSUME NEW p \in Proc, BasicInv(p), Same(p)
    PROVE  BasicInv(p)'
BY Objects DEF BasicInv, OnlyBatches, Same, InTests

LEMMA BasicDevice ==
    ASSUME EffectType, TargetInv, NEW p \in Proc, BasicInv(p), NEW b \in Own(p),
           Execute(b) \/ Signal(b)
    PROVE  BasicInv(p)'
<1> USE Objects DEF EffectType, BasicInv, OnlyBatches, InTests
<1>1. CASE Execute(b)
  BY <1>1, ExecuteView
<1>2. CASE Signal(b)
  BY <1>2, SignalView
<1> QED BY <1>1, <1>2

\* The places BasicInv speaks of, at statement k and behind it.
Places(n, k) ==
    /\ InTests(n, {3, 13, 14, 21}) <=> k \in {3, 13, 14, 21}
    /\ InTests(n, (1..4) \cup (10..15) \cup (18..22)) <=> k \in (1..4) \cup (10..15) \cup (18..22)
    /\ InTests(n, 6..8) <=> k \in 6..8
    /\ InTests(n, 8..16) <=> k \in 8..16
    /\ InTests(n, 8..11) <=> k \in 8..11
    /\ InTests(n, 12..13) <=> k \in 12..13
    /\ InTests(n, {11, 19}) <=> k \in {11, 19}

LEMMA TestPlaces ==
    ASSUME NEW e \in 0..(Entries - 1), NEW k \in 0..22, NEW n, n = 2 + 23 * e + k
    PROVE  /\ Places(n, k) /\ Places(n + 1, k + 1)
           /\ n \in Nat /\ n # 2 + 23 * Entries
<1> DEFINE Sets == {{3, 13, 14, 21}, (1..4) \cup (10..15) \cup (18..22), 6..8, 8..16, 8..11, 12..13,
                    {11, 19}}
<1>1. Sets \subseteq SUBSET (1..22)
  OBVIOUS
<1>2. \A K \in Sets : (InTests(n, K) <=> k \in K) /\ (InTests(n + 1, K) <=> k + 1 \in K)
  <2>1. \A K \in SUBSET (1..22) : K \in SUBSET (0..22) /\ 0 \notin K /\ 23 \notin K
    OBVIOUS
  <2>2. ASSUME NEW K \in SUBSET (1..22)
        PROVE  (InTests(n, K) <=> k \in K) /\ (InTests(n + 1, K) <=> k + 1 \in K)
    <3>1. CASE k < 22
      <4>1. K \in SUBSET (0..22) /\ (k < 22 => (InTests(n + 1, K) <=> k + 1 \in K))
        BY <2>1, TestPlace
      <4> QED BY <2>1, <3>1, <4>1, TestPlace
    <3>2. CASE k = 22
      <4>1. K \in SUBSET (0..22) /\ (k = 22 => (InTests(n + 1, K) => 0 \in K))
        BY <2>1, TestPlace
      <4> QED BY <2>1, <3>2, <4>1, TestPlace
    <3> QED BY <3>1, <3>2
  <2> QED BY <1>1, <2>2
<1> QED BY <1>2, BoundAssumption DEF Places

LEMMA BasicStep ==
    ASSUME GkitTypeOK, TargetInv, NEW p \in Proc, BasicInv(p), Basic!Program(p)
    PROVE  BasicInv(p)' /\ Effect(p) /\ Control(p)
<1>1. /\ Obj(p) \in Own(p) /\ Header(p) \in Own(p) /\ Obj(p) # Header(p)
      /\ Own(p) \subseteq Object
      /\ Basic!Batch(p) = Obj(p) /\ Basic!Header(p) = Header(p)
      /\ "end" \in Content
      /\ Busy(Obj(p)) <=> rq[Obj(p)] \in {"queued", "ran"}
      /\ \A o : Basic!Busy(o) = Busy(o)
  BY Objects, BasicNames, BusyIsInFlight DEF Content, GkitTypeOK
<1>2. ControlType /\ EffectType
  BY DEF GkitTypeOK
<1>11. ASSUME NEW e \in 0..(Entries - 1), NEW k \in 5..22, pc[p] = 2 + 23 * e + k
       PROVE  Places(pc[p], k) /\ Places(pc[p] + 1, k + 1)
  <2>1. k \in 0..22
    OBVIOUS
  <2> QED BY <1>11, <2>1, TestPlaces
<1>12. ASSUME NEW e \in 0..(Entries - 1), NEW k \in 0..21, pc[p] = 2 + 23 * e + k + 1
       PROVE  Places(pc[p], k + 1) /\ Places(pc[p] + 1, k + 2)
  <2>1. k + 1 \in 0..22 /\ pc[p] = 2 + 23 * e + (k + 1) /\ k + 1 + 1 = k + 2
    BY <1>12
  <2>2. Places(pc[p], k + 1) /\ Places(pc[p] + 1, k + 1 + 1)
    BY <2>1, TestPlaces
  <2> QED BY <2>1, <2>2
<1> USE <1>1, <1>2
    DEF Basic!At, Basic!Advance, Basic!Exit, Basic!Die, Basic!Ioctl, Basic!Unchecked, Basic!Return,
        Basic!effects, Basic!objects, Basic!memory, effects, objects, memory, Control,
        ControlType, EffectType, Verdict, BasicInv, OnlyBatches
<1>3. CASE Basic!OpenDevice(p)
  <2>1. \A K \in SUBSET (1..22) : ~InTests(1, K) /\ ~InTests(2, K)
    BY BoundAssumption DEF InTests
  <2>2. {{3, 13, 14, 21}, (1..4) \cup (10..15) \cup (18..22), 6..8, 8..16, 8..11, 12..13, {11, 19}}
           \subseteq SUBSET (1..22)
    OBVIOUS
  <2> QED BY <1>3, <2>1, <2>2 DEF Basic!OpenDevice, Basic!drm_open_driver, Basic!Card, Card,
       Effect
<1>4. ASSUME NEW e \in 0..(Entries - 1), NEW k \in {0, 9, 17}, Basic!batch_create(p, 2 + 23 * e + k)
      PROVE  BasicInv(p)' /\ Effect(p) /\ Control(p)
  <2>1. CASE Basic!Ioctl(p, 2 + 23 * e + k, "create", TRUE, Basic!gem_create(Obj(p)))
    <3>1. Places(pc[p], k) /\ Places(pc[p] + 1, k + 1)
      BY <2>1, TestPlaces
    <3> QED BY <2>1, <3>1 DEF Places, Basic!gem_create, gem_create, Effect
  <2>2. CASE Basic!Ioctl(p, 2 + 23 * e + k + 1, "write", Obj(p) \in open, Basic!gem_write(Obj(p), "end"))
    <3>1. Places(pc[p], k + 1) /\ Places(pc[p] + 1, k + 2)
      BY <1>12, <2>2
    <3> QED BY <2>2, <3>1 DEF Places, Basic!gem_write, gem_write, Effect
  <2> QED BY <1>4, <2>1, <2>2 DEF Basic!batch_create
<1>5. ASSUME NEW e \in 0..(Entries - 1), NEW k \in {2, 12, 20}, Basic!SubmitBatch(p, 2 + 23 * e + k, e)
      PROVE  BasicInv(p)' /\ Effect(p) /\ Control(p)
  <2>1. Places(pc[p], k) /\ Places(pc[p] + 1, k + 1)
    BY <1>5, TestPlaces DEF Basic!SubmitBatch
  <2>2. ExecRing(e) \in Nat
    BY BoundAssumption DEF ExecRing, Render
  <2>3. CASE Basic!Die(p, "ioctl") /\ Basic!At(p, 2 + 23 * e + k)
    BY <2>1, <2>3 DEF Effect, Places
  <2>4. CASE /\ Basic!At(p, 2 + 23 * e + k) /\ Basic!Advance(p)
             /\ gem_execbuf(Obj(p), {}, ExecRing(e), {})
    <3>1. rq' = [rq EXCEPT ![Obj(p)] = "queued"] /\ open' = open /\ mapped' = mapped
      BY <2>2, <2>4, SubmitView DEF gem_execbuf
    <3>2. BasicInv(p)' /\ Control(p)
      BY <2>1, <2>4, <3>1 DEF Places
    <3>3. Effect(p)
      <4>1. {} \in SUBSET Object
        OBVIOUS
      <4> QED BY <2>2, <2>4, <4>1, SubmitEffect
    <3> QED BY <3>2, <3>3
  <2> QED BY <1>5, <2>3, <2>4, BasicNames DEF Basic!SubmitBatch
<1>6. ASSUME NEW e \in 0..(Entries - 1), NEW k \in {3, 14, 21}, Basic!batch_fini(p, 2 + 23 * e + k)
      PROVE  BasicInv(p)' /\ Effect(p) /\ Control(p)
  <2>1. CASE Basic!gem_sync(p, 2 + 23 * e + k, Obj(p))
    <3>1. Places(pc[p], k) /\ Places(pc[p] + 1, k + 1)
      BY <2>1, TestPlaces DEF Basic!gem_sync
    <3> QED BY <2>1, <3>1 DEF Places, Basic!gem_sync, Effect
  <2>2. CASE Basic!Unchecked(p, 2 + 23 * e + k + 1, Basic!gem_close(Obj(p)))
    <3>1. Places(pc[p], k + 1) /\ Places(pc[p] + 1, k + 2)
      BY <1>12, <2>2
    <3> QED BY <2>2, <3>1 DEF Places, Basic!gem_close, gem_close, Effect
  <2> QED BY <1>6, <2>1, <2>2 DEF Basic!batch_fini
<1>7. ASSUME NEW e \in 0..(Entries - 1), Basic!noop(p, e)
      PROVE  BasicInv(p)' /\ Effect(p) /\ Control(p)
  <2>1. Basic!Noop(e) = 2 + 23 * e + 0
    BY BoundAssumption DEF Basic!Noop, Basic!Width
  <2> QED BY <1>4, <1>5, <1>6, <1>7, <2>1 DEF Basic!noop
<1>8. ASSUME NEW e \in 0..(Entries - 1), Basic!gtt(p, e)
      PROVE  BasicInv(p)' /\ Effect(p) /\ Control(p)
  <2>1. Basic!Gtt(e) = 2 + 23 * e + 5
    BY BoundAssumption DEF Basic!Gtt, Basic!Noop, Basic!Width
  <2>2. \A k \in 5..22 : pc[p] = 2 + 23 * e + k => Places(pc[p], k) /\ Places(pc[p] + 1, k + 1)
    BY <1>11
  <2>3. CASE Basic!Ioctl(p, Basic!Gtt(e), "create", TRUE, Basic!gem_create(Header(p)))
    BY <2>1, <2>2, <2>3 DEF Places, Basic!gem_create, gem_create, Effect
  <2>4. CASE Basic!Ioctl(p, Basic!Gtt(e) + 1, "domain", Header(p) \in open,
                         Basic!gem_set_domain(Header(p), TRUE))
    BY <2>1, <2>2, <2>4 DEF Places, Basic!gem_set_domain, Effect
  <2>5. CASE Basic!MapHeader(p, Basic!Gtt(e) + 2)
    BY <2>1, <2>2, <2>5 DEF Places, Basic!MapHeader, Basic!gem_mmap__gtt, Basic!gem_mmap__wc,
                            gem_mmap__wc, Effect
  <2>6. CASE Basic!CloseHeader(p, e)
    BY <2>1, <2>2, <2>6 DEF Places, Basic!CloseHeader, Basic!gem_close, gem_close, Effect
  <2>7. CASE Basic!Touch(p, Basic!Gtt(e) + 6, Header(p) \in mapped)
    BY <2>1, <2>2, <2>7 DEF Places, Basic!Touch, Effect
  <2>8. CASE Basic!Touch(p, Basic!Gtt(e) + 8, Header(p) \in mapped)
    BY <2>1, <2>2, <2>8 DEF Places, Basic!Touch, Effect
  <2>9. CASE Basic!Unchecked(p, Basic!Gtt(e) + 11, Basic!munmap({Header(p)}))
    <3>1. munmap({Header(p)})
      BY <2>9 DEF Basic!munmap, munmap
    <3>2. BasicInv(p)' /\ Control(p)
      BY <2>1, <2>2, <2>9 DEF Places, Basic!munmap
    <3> QED BY <3>1, <3>2, UnmapEffect
  <2>10. CASE \/ Basic!batch_create(p, Basic!Gtt(e) + 4) \/ Basic!SubmitBatch(p, Basic!Gtt(e) + 7, e)
              \/ Basic!batch_fini(p, Basic!Gtt(e) + 9)
    BY <1>4, <1>5, <1>6, <2>1, <2>10, BoundAssumption
  <2> QED BY <1>8, <2>3, <2>4, <2>5, <2>6, <2>7, <2>8, <2>9, <2>10 DEF Basic!gtt
<1>9. ASSUME NEW e \in 0..(Entries - 1), Basic!readonly(p, e)
      PROVE  BasicInv(p)' /\ Effect(p) /\ Control(p)
  <2>1. Basic!Readonly(e) = 2 + 23 * e + 17
    BY BoundAssumption DEF Basic!Readonly, Basic!Noop, Basic!Width
  <2>2. pc[p] = 2 + 23 * e + 19 => Places(pc[p], 19) /\ Places(pc[p] + 1, 20)
    BY TestPlaces
  <2>3. CASE Basic!MakeReadonly(p, Basic!Readonly(e) + 2)
    BY <2>1, <2>2, <2>3 DEF Places, Basic!MakeReadonly, Effect
  <2>4. CASE \/ Basic!batch_create(p, Basic!Readonly(e)) \/ Basic!SubmitBatch(p, Basic!Readonly(e) + 3, e)
              \/ Basic!batch_fini(p, Basic!Readonly(e) + 4)
    BY <1>4, <1>5, <1>6, <2>1, <2>4, BoundAssumption
  <2> QED BY <1>9, <2>3, <2>4 DEF Basic!readonly
<1>10. CASE Basic!Return(p, Basic!End, UNCHANGED effects)
  BY <1>10 DEF Basic!End, Basic!Width, Effect
<1> QED BY <1>3, <1>7, <1>8, <1>9, <1>10 DEF Basic!Program
-----------------------------------------------------------------------------
(* The places of the latency programs.                                     *)

\* The statements of a round: creation, setting, samples, end.
Width(w) == w * Times + 3

\* Statements of different rounds, or at different offsets, are different.
LEMMA Position ==
    ASSUME NEW W \in Nat, NEW q \in Nat, NEW r \in Nat, NEW x \in 0..(W - 1), NEW y \in 0..(W - 1),
           q * W + x = r * W + y
    PROVE  q = r /\ x = y
<1>1. ASSUME NEW a \in Nat, NEW b \in Nat, a < b
      PROVE  a * W + W <= b * W
  <2>1. PICK d \in Nat : b = a + 1 + d
    <3>1. b - a - 1 \in Nat /\ b = a + 1 + (b - a - 1)
      BY <1>1
    <3> QED BY <3>1
  <2>2. b * W = a * W + W + d * W
    BY <2>1
  <2>3. d * W \in Nat /\ a * W \in Nat
    OBVIOUS
  <2> QED BY <2>2, <2>3
<1>2. q * W \in Nat /\ r * W \in Nat
  OBVIOUS
<1>3. ~(q < r)
  BY <1>1, <1>2
<1>4. ~(r < q)
  BY <1>1, <1>2
<1> QED BY <1>2, <1>3, <1>4

\* A place, by its round and its offset in the round.
LEMMA PlaceIn ==
    ASSUME NEW w \in {5, 7}, NEW q \in Nat, NEW x \in 0..(Width(w) - 1),
           NEW n, n = 2 + q * Width(w) + x, NEW K \in SUBSET (1..(w - 1))
    PROVE  /\ InSamples(n, K, w) => \E i \in 0..(Times - 1), k \in K : x = 2 + w * i + k
           /\ AtRound(n, w) => x = 0
<1>1. Width(w) \in Nat /\ Rounds \in Nat /\ Times \in Nat
  BY BoundAssumption DEF Width
<1>2. ASSUME NEW r \in 0..(Rounds - 1), NEW i \in 0..(Times - 1), NEW k \in K,
             n = Latency!Sample(r, i, w) + k
      PROVE  x = 2 + w * i + k
  <2> DEFINE y == 2 + w * i + k
  <2>1. y \in 0..(Width(w) - 1)
    <3>1. CASE w = 5
      BY <1>1, <3>1 DEF Width
    <3>2. CASE w = 7
      BY <1>1, <3>2 DEF Width
    <3> QED BY <3>1, <3>2
  <2>2. n = 2 + r * Width(w) + y
    <3>1. r * Width(w) \in Nat /\ w * i \in Nat
      BY <1>1
    <3>2. n = 2 + r * Width(w) + 2 + w * i + k
      BY <1>2 DEF Latency!Sample, Latency!Round, Width
    <3> QED BY <3>1, <3>2
  <2>3. r \in Nat /\ q * Width(w) \in Nat /\ r * Width(w) \in Nat
    BY <1>1
  <2> HIDE DEF y
  <2>4. q * Width(w) + x = r * Width(w) + y
    BY <2>1, <2>2, <2>3, <1>1
  <2>5. x = y
    BY <1>1, <2>1, <2>3, <2>4, Position
  <2> QED BY <2>5 DEF y
<1>3. ASSUME NEW r \in 0..Rounds, n = Latency!Round(r, w)
      PROVE  x = 0
  <2>1. n = 2 + r * Width(w) + 0 /\ r \in Nat /\ 0 \in 0..(Width(w) - 1)
    BY <1>1, <1>3 DEF Latency!Round, Width
  <2>2. q * Width(w) \in Nat /\ r * Width(w) \in Nat
    BY <1>1, <2>1
  <2>3. q * Width(w) + x = r * Width(w) + 0
    BY <1>1, <2>1, <2>2
  <2> QED BY <1>1, <2>1, <2>3, Position
<1> QED BY <1>2, <1>3 DEF InSamples, AtRound

\* At statement k of a sample, and behind it.
LEMMA SamplePlace ==
    ASSUME NEW w \in {5, 7}, NEW r \in 0..(Rounds - 1), NEW i \in 0..(Times - 1),
           NEW k \in 0..(w - 1), NEW n, n = Latency!Sample(r, i, w) + k,
           NEW K \in SUBSET (1..(w - 1))
    PROVE  /\ InSamples(n, K, w) <=> k \in K
           /\ InSamples(n + 1, K, w) <=> k + 1 \in K
           /\ n \in Nat /\ n > 1 /\ ~AtRound(n, w) /\ ~AtRound(n + 1, w)
           /\ n # Latency!End(w)
<1> DEFINE x == 2 + w * i + k
<1>1. Width(w) \in Nat /\ Rounds \in Nat /\ Times \in Nat
  BY BoundAssumption DEF Width
<1>2. x \in 2..(Width(w) - 2) /\ x + 1 \in 0..(Width(w) - 1) /\ x \in 0..(Width(w) - 1)
  <2>1. CASE w = 5
    BY <1>1, <2>1 DEF Width
  <2>2. CASE w = 7
    BY <1>1, <2>2 DEF Width
  <2> QED BY <2>1, <2>2
<1>3. /\ n = 2 + r * Width(w) + x /\ n + 1 = 2 + r * Width(w) + (x + 1)
      /\ n \in Nat /\ n > 1 /\ r \in Nat
  <2>1. r * Width(w) \in Nat /\ w * i \in Nat
    BY <1>1
  <2>2. n = 2 + r * Width(w) + 2 + w * i + k
    BY DEF Latency!Sample, Latency!Round, Width
  <2> QED BY <2>1, <2>2
<1> DEFINE Offset(y) == \E j \in 0..(Times - 1), l \in K : y = 2 + w * j + l
<1>4. InSamples(n, K, w) => Offset(x)
  <2> HIDE DEF x
  <2> QED BY <1>2, <1>3, PlaceIn
<1>5. InSamples(n + 1, K, w) => Offset(x + 1)
  <2> DEFINE y == x + 1
  <2>1. n + 1 = 2 + r * Width(w) + y /\ y \in 0..(Width(w) - 1)
    BY <1>2, <1>3
  <2> HIDE DEF y
  <2>2. InSamples(n + 1, K, w) => \E j \in 0..(Times - 1), l \in K : y = 2 + w * j + l
    BY <1>3, <2>1, PlaceIn
  <2> QED BY <2>2 DEF y
<1>6. (Offset(x) => k \in K) /\ (Offset(x + 1) => k + 1 \in K)
  <2>1. CASE w = 5
    BY <1>1, <2>1
  <2>2. CASE w = 7
    BY <1>1, <2>2
  <2> QED BY <2>1, <2>2
<1>7. k \in K => InSamples(n, K, w)
  BY DEF InSamples
<1>8. k + 1 \in K => InSamples(n + 1, K, w)
  <2>1. n + 1 = Latency!Sample(r, i, w) + (k + 1)
    <3>1. Latency!Sample(r, i, w) \in Int
      BY <1>1 DEF Latency!Sample, Latency!Round
    <3> QED BY <3>1
  <2> QED BY <2>1 DEF InSamples
<1>9. ~AtRound(n, w) /\ ~AtRound(n + 1, w)
  <2>1. ASSUME NEW y \in 1..(Width(w) - 1), NEW m, m = 2 + r * Width(w) + y
        PROVE  ~AtRound(m, w)
    <3>1. y \in 0..(Width(w) - 1) /\ y # 0 /\ {} \in SUBSET (1..(w - 1))
      BY <1>1
    <3> QED BY <1>3, <2>1, <3>1, PlaceIn
  <2>2. x \in 1..(Width(w) - 1) /\ x + 1 \in 1..(Width(w) - 1)
    BY <1>1, <1>2
  <2> HIDE DEF x
  <2> QED BY <1>3, <2>1, <2>2
<1>10. n # Latency!End(w)
  BY <1>1, <1>9 DEF AtRound, Latency!End
<1> QED BY <1>3, <1>4, <1>5, <1>6, <1>7, <1>8, <1>9, <1>10

\* Outside the samples: at the creation of a context, at its setting, at its end.
LEMMA RoundPlace ==
    ASSUME NEW w \in {5, 7}, NEW r \in 0..(Rounds - 1), NEW K \in SUBSET (1..(w - 1))
    PROVE  /\ \A n : n = Latency!Round(r, w) =>
                 ~InSamples(n, K, w) /\ ~InSamples(n + 1, K, w) /\ ~AtRound(n + 1, w)
           /\ \A n : n = Latency!Round(r, w) + 1 =>
                 ~InSamples(n, K, w) /\ ~InSamples(n + 1, K, w) /\ ~AtRound(n + 1, w)
           /\ \A n : n = Latency!Destroy(r, w) => ~InSamples(n, K, w) /\ ~InSamples(n + 1, K, w)
<1>1. Width(w) \in Nat /\ Rounds \in Nat /\ Times \in Nat \ {0} /\ r \in Nat
  BY BoundAssumption DEF Width
<1>2. Width(w) >= 8 /\ w * Times = Width(w) - 3
  <2>1. CASE w = 5
    BY <1>1, <2>1 DEF Width
  <2>2. CASE w = 7
    BY <1>1, <2>2 DEF Width
  <2> QED BY <2>1, <2>2
<1>3. \A i \in 0..(Times - 1), k \in K : 2 + w * i + k \in 3..(Width(w) - 2)
  <2>1. CASE w = 5
    BY <1>1, <2>1 DEF Width
  <2>2. CASE w = 7
    BY <1>1, <2>2 DEF Width
  <2> QED BY <2>1, <2>2
<1>4. ASSUME NEW q \in Nat, NEW x \in {0, 1, 2, Width(w) - 1}, NEW n, n = 2 + q * Width(w) + x
      PROVE  ~InSamples(n, K, w) /\ (x # 0 => ~AtRound(n, w))
  <2>1. x \in 0..(Width(w) - 1) /\ x \notin 3..(Width(w) - 2)
    BY <1>1, <1>2
  <2> QED BY <1>3, <1>4, <2>1, PlaceIn
<1>5. /\ r * Width(w) \in Nat
      /\ Latency!Round(r, w) = 2 + r * Width(w) + 0
      /\ Latency!Round(r, w) + 1 = 2 + r * Width(w) + 1
      /\ Latency!Round(r, w) + 1 + 1 = 2 + r * Width(w) + 2
      /\ Latency!Destroy(r, w) = 2 + r * Width(w) + (Width(w) - 1)
  <2>1. r * Width(w) \in Nat /\ Latency!Round(r, w) = 2 + r * Width(w)
    BY <1>1 DEF Latency!Round, Width
  <2>2. Latency!Destroy(r, w) = Latency!Round(r, w) + 2 + w * Times
    BY DEF Latency!Destroy, Latency!Sample
  <2> QED BY <1>1, <1>2, <2>1, <2>2
<1>6. Latency!Destroy(r, w) + 1 = 2 + (r + 1) * Width(w) + 0 /\ r + 1 \in Nat
  BY <1>1, <1>5
<1> QED BY <1>1, <1>4, <1>5, <1>6

\* Before the first round.
LEMMA FirstPlace ==
    ASSUME NEW w \in {5, 7}, NEW K \in SUBSET (1..(w - 1))
    PROVE  ~InSamples(1, K, w) /\ ~InSamples(2, K, w) /\ Latency!Round(0, w) = 2
<1>1. Latency!Round(0, w) = 2 /\ 0 \in 0..(Rounds - 1)
  BY BoundAssumption DEF Latency!Round
<1>2. ~InSamples(2, K, w)
  BY <1>1, RoundPlace
<1>3. ~InSamples(1, K, w)
  <2> SUFFICES ASSUME NEW r \in 0..(Rounds - 1), NEW i \in 0..(Times - 1), NEW k \in K
               PROVE  Latency!Sample(r, i, w) + k # 1
    BY DEF InSamples
  <2>1. r * (w * Times + 3) \in Nat /\ w * i \in Nat
    BY BoundAssumption
  <2> QED BY <2>1 DEF Latency!Sample, Latency!Round
<1> QED BY <1>1, <1>2, <1>3
-----------------------------------------------------------------------------
(* gem_exec_latency and gem_store_latency                                  *)

LEMMA LatencyNames ==
    /\ \A p : /\ Latency!Batch(p) = Obj(p) /\ Latency!Target(p) = Scratch(p)
              /\ Latency!Store(p) = Store(p) /\ Latency!Context(p) = Context(p)
    /\ \A o : Latency!Busy(o) = Busy(o)
    /\ \A b, target, ring, waits :
          Latency!gem_execbuf(b, target, ring, waits) <=> gem_execbuf(b, target, ring, waits)
<1>1. \A b, target, ring, waits :
        Latency!gem_execbuf(b, target, ring, waits) <=> gem_execbuf(b, target, ring, waits)
  BY DEF Latency!gem_execbuf, gem_execbuf, Latency!Submit, Submit, Latency!Landed, Landed,
         Latency!Object, Object, Latency!InFlight, InFlight, Latency!objects, objects
<1> QED BY <1>1 DEF Latency!Batch, Obj, Latency!Target, Scratch, Latency!Store, Store,
        Latency!Context, Context, Latency!Busy, Busy, Latency!InFlight, InFlight,
        Latency!Object, Object

LEMMA LatencySame ==
    ASSUME NEW p \in Proc, Same(p)
    PROVE  (ExecInv(p) => ExecInv(p)') /\ (StoreInv(p) => StoreInv(p)')
<1>1. \A w : ContextInv(p, w) => ContextInv(p, w)'
  BY Objects DEF ContextInv, AtRound, Same
<1>2. ExecInv(p) => ExecInv(p)'
  BY <1>1, Objects DEF ExecInv, InSamples, OnlyBatches, Same
<1>3. StoreInv(p) => StoreInv(p)'
  BY <1>1, Objects DEF StoreInv, InSamples, OnlyBatches, Same
<1> QED BY <1>2, <1>3

\* The end is behind the last sample.
LEMMA EndPlace ==
    ASSUME NEW w \in {5, 7}, NEW K \in SUBSET (1..(w - 1))
    PROVE  ~InSamples(Latency!End(w), K, w)
<1>1. ASSUME NEW r \in 0..(Rounds - 1), NEW i \in 0..(Times - 1), NEW k \in 0..(w - 1),
             NEW n, n = Latency!Sample(r, i, w) + k
      PROVE  n # Latency!End(w)
  BY <1>1, SamplePlace
<1>2. \A k \in K : k \in 0..(w - 1)
  OBVIOUS
<1> QED BY <1>1, <1>2 DEF InSamples

\* What both programs do outside their samples touches the context only.
LEMMA RestStep ==
    ASSUME GkitTypeOK, NEW p \in Proc, NEW w \in {5, 7}, ContextInv(p, w), Latency!Rest(p, w)
    PROVE  /\ ContextInv(p, w)' /\ Effect(p) /\ Control(p)
           /\ UNCHANGED <<fence, mapped, mem, wc, rq, job>>
           /\ \A o \in Own(p) \ {Context(p)} : o \in open' <=> o \in open
           /\ \A K \in SUBSET (1..(w - 1)) : ~InSamples(pc[p], K, w) /\ ~InSamples(pc[p], K, w)'
<1>1. /\ Context(p) \in Own(p) /\ Own(p) \subseteq Object /\ Latency!Context(p) = Context(p)
      /\ 0 \in 0..Rounds /\ \A r \in 0..(Rounds - 1) : r + 1 \in 0..Rounds
  BY Objects, LatencyNames, BoundAssumption
<1>2. ControlType /\ EffectType
  BY DEF GkitTypeOK
<1>3. \A n, K : InSamples(n, K, w)' <=> InSamples(n', K, w)
  BY DEF InSamples
<1>4. \A n : AtRound(n, w)' <=> AtRound(n', w)
  BY DEF AtRound
<1>5. {} \in SUBSET (1..(w - 1))
  OBVIOUS
<1> USE <1>1, <1>2
    DEF Latency!At, Latency!Advance, Latency!Exit, Latency!Die, Latency!Ioctl, Latency!Unchecked,
        Latency!Return, Latency!effects, Latency!objects, Latency!memory, effects, objects, memory,
        Control, ControlType, EffectType, Verdict, ContextInv
<1>7. CASE Latency!OpenDevice(p)
  <2>1. pc[p] = 1 /\ pc'[p] = 2
    BY <1>7 DEF Latency!OpenDevice, Latency!drm_open_driver
  <2>2. \A K \in SUBSET (1..(w - 1)) : ~InSamples(pc[p], K, w) /\ ~InSamples(pc'[p], K, w)
    BY <2>1, FirstPlace
  <2> QED BY <1>3, <1>4, <1>7, <2>1, <2>2
          DEF Latency!OpenDevice, Latency!drm_open_driver, Latency!Card, Card, Effect
<1>8. ASSUME NEW r \in 0..(Rounds - 1), Latency!create_highest_priority(p, Latency!Round(r, w))
      PROVE  /\ ContextInv(p, w)' /\ Effect(p) /\ Control(p)
             /\ UNCHANGED <<fence, mapped, mem, wc, rq, job>>
             /\ \A o \in Own(p) \ {Context(p)} : o \in open' <=> o \in open
             /\ \A K \in SUBSET (1..(w - 1)) : ~InSamples(pc[p], K, w) /\ ~InSamples(pc'[p], K, w)
  <2>1. pc[p] = Latency!Round(r, w) \/ pc[p] = Latency!Round(r, w) + 1
    BY <1>8 DEF Latency!create_highest_priority, Latency!gem_context_set_priority
  <2>2. /\ ~AtRound(pc[p] + 1, w) /\ pc[p] + 1 # 1
        /\ \A K \in SUBSET (1..(w - 1)) : ~InSamples(pc[p], K, w) /\ ~InSamples(pc[p] + 1, K, w)
    <3>1. ~AtRound(pc[p] + 1, w)
      BY <1>5, <2>1, RoundPlace
    <3>2. pc[p] + 1 # 1
      <4>1. r * (w * Times + 3) \in Nat
        BY BoundAssumption
      <4> QED BY <2>1, <4>1 DEF Latency!Round
    <3> QED BY <2>1, <3>1, <3>2, RoundPlace
  <2>3. CASE Latency!Ioctl(p, Latency!Round(r, w), "context", TRUE, Latency!gem_context_create(p))
    BY <1>4, <2>2, <2>3 DEF Latency!gem_context_create, Effect
  <2>4. CASE Latency!gem_context_set_priority(p, Latency!Round(r, w) + 1)
    BY <1>4, <2>2, <2>4 DEF Latency!gem_context_set_priority, Effect
  <2> QED BY <1>8, <2>3, <2>4 DEF Latency!create_highest_priority
<1>9. ASSUME NEW r \in 0..(Rounds - 1), Latency!gem_context_destroy(p, Latency!Destroy(r, w))
      PROVE  /\ ContextInv(p, w)' /\ Effect(p) /\ Control(p)
             /\ UNCHANGED <<fence, mapped, mem, wc, rq, job>>
             /\ \A o \in Own(p) \ {Context(p)} : o \in open' <=> o \in open
             /\ \A K \in SUBSET (1..(w - 1)) : ~InSamples(pc[p], K, w) /\ ~InSamples(pc'[p], K, w)
  <2>1. pc[p] = Latency!Destroy(r, w) /\ pc'[p] = pc[p] + 1
    BY <1>9 DEF Latency!gem_context_destroy
  <2>2. \A K \in SUBSET (1..(w - 1)) : ~InSamples(pc[p], K, w) /\ ~InSamples(pc'[p], K, w)
    BY <2>1, RoundPlace
  <2> QED BY <1>9, <2>2 DEF Latency!gem_context_destroy, Latency!gem_close, gem_close, Effect
<1>10. CASE Latency!Return(p, Latency!End(w), UNCHANGED effects)
  <2>1. \A K \in SUBSET (1..(w - 1)) : ~InSamples(pc[p], K, w)
    BY <1>10, EndPlace
  <2> QED BY <1>3, <1>4, <1>10, <2>1 DEF Effect
<1> QED BY <1>3, <1>7, <1>8, <1>9, <1>10 DEF Latency!Rest

\* The places ExecInv speaks of, at statement k of a sample and behind it.
ExecPlace(n, k) ==
    /\ InSamples(n, {3}, 5) <=> k = 3
    /\ InSamples(n, {3, 4}, 5) <=> k \in {3, 4}
    /\ InSamples(n, 1..4, 5) <=> k \in 1..4
    /\ InSamples(n + 1, {3}, 5) <=> k = 2
    /\ InSamples(n + 1, {3, 4}, 5) <=> k \in {2, 3}
    /\ InSamples(n + 1, 1..4, 5) <=> k \in 0..3
    /\ n \in Nat /\ n > 1 /\ ~AtRound(n, 5) /\ ~AtRound(n + 1, 5) /\ n # Latency!End(5)

LEMMA ExecPlaces ==
    ASSUME NEW r \in 0..(Rounds - 1), NEW i \in 0..(Times - 1), NEW k \in 0..4,
           NEW n, n = Latency!Sample(r, i, 5) + k
    PROVE  ExecPlace(n, k)
<1>1. {{3}, {3, 4}, 1..4} \subseteq SUBSET (1..(5 - 1)) /\ k \in 0..(5 - 1) /\ 5 \in {5, 7}
  OBVIOUS
<1>2. /\ \A K \in {{3}, {3, 4}, 1..4} : /\ InSamples(n, K, 5) <=> k \in K
                                        /\ InSamples(n + 1, K, 5) <=> k + 1 \in K
      /\ n \in Nat /\ n > 1 /\ ~AtRound(n, 5) /\ ~AtRound(n + 1, 5) /\ n # Latency!End(5)
  BY <1>1, SamplePlace
<1> QED BY <1>2 DEF ExecPlace

LEMMA ExecStep ==
    ASSUME GkitTypeOK, TargetInv, NEW p \in Proc, ExecInv(p), Latency!ExecProgram(p)
    PROVE  ExecInv(p)' /\ Effect(p) /\ Control(p)
<1>1. /\ Obj(p) \in Own(p) /\ Own(p) \subseteq Object
      /\ {Scratch(p), Store(p), Context(p)} \subseteq Own(p)
      /\ Obj(p) \notin {Scratch(p), Store(p), Context(p)}
      /\ Scratch(p) # Context(p) /\ Store(p) # Context(p)
      /\ Latency!Batch(p) = Obj(p)
      /\ Render \in Nat /\ "end" \in Content
      /\ Busy(Obj(p)) <=> rq[Obj(p)] \in {"queued", "ran"}
      /\ \A o : Latency!Busy(o) = Busy(o)
  BY Objects, LatencyNames, BusyIsInFlight DEF Render, Content, GkitTypeOK
<1>2. ControlType /\ EffectType
  BY DEF GkitTypeOK
<1>3. \A K : InSamples(pc[p], K, 5)' <=> InSamples(pc'[p], K, 5)
  BY DEF InSamples
<1>4. CASE Latency!Rest(p, 5)
  <2>1. /\ ContextInv(p, 5)' /\ Effect(p) /\ Control(p)
        /\ UNCHANGED <<fence, mapped, mem, wc, rq, job>>
        /\ \A o \in Own(p) \ {Context(p)} : o \in open' <=> o \in open
        /\ \A K \in SUBSET (1..(5 - 1)) : ~InSamples(pc[p], K, 5) /\ ~InSamples(pc[p], K, 5)'
    BY <1>4, RestStep DEF ExecInv
  <2>2. {{3}, {3, 4}, 1..4} \subseteq SUBSET (1..(5 - 1))
    OBVIOUS
  <2> QED BY <1>1, <2>1, <2>2 DEF ExecInv, OnlyBatches
<1>5. ASSUME NEW r \in 0..(Rounds - 1), NEW i \in 0..(Times - 1),
             Latency!get_exec_latency(p, Latency!Sample(r, i, 5))
      PROVE  ExecInv(p)' /\ Effect(p) /\ Control(p)
  <2> DEFINE s == Latency!Sample(r, i, 5)
  <2>1. \A k \in 0..4 : pc[p] = s + k => ExecPlace(pc[p], k)
    BY ExecPlaces
  <2>2. \A n : AtRound(n, 5)' <=> AtRound(n', 5)
    BY DEF AtRound
  <2>3. s \in Int
    BY BoundAssumption DEF Latency!Sample, Latency!Round
  <2> HIDE DEF s
  <2> USE <1>1, <1>2, <1>3, <2>2, <2>3
      DEF Latency!At, Latency!Advance, Latency!Exit, Latency!Die, Latency!Ioctl, Latency!Unchecked,
          Latency!effects, Latency!objects, Latency!memory, effects, objects, memory,
          Control, ControlType, EffectType, Verdict, ExecInv, ContextInv, OnlyBatches
  <2>4. CASE Latency!Ioctl(p, s, "create", TRUE, Latency!gem_create(Obj(p)))
    <3>1. ExecPlace(pc[p], 0)
      BY <2>1, <2>4 DEF Latency!gem_sync
    <3> QED BY <2>4, <3>1 DEF ExecPlace, Latency!gem_create, gem_create, Effect
  <2>5. CASE Latency!Ioctl(p, s + 1, "write", Obj(p) \in open, Latency!gem_write(Obj(p), "end"))
    <3>1. ExecPlace(pc[p], 1)
      BY <2>1, <2>5 DEF Latency!gem_sync
    <3> QED BY <2>5, <3>1 DEF ExecPlace, Latency!gem_write, gem_write, Effect
  <2>6. CASE Latency!Ioctl(p, s + 2, "exec", Latency!Usable(p, {Obj(p)}),
                           Latency!gem_execbuf(Obj(p), {}, Render, {}))
    <3>0. Latency!At(p, s + 2) => ExecPlace(pc[p], 2)
      BY <2>1
    <3>1. CASE Latency!At(p, s + 2) /\ Latency!Die(p, "ioctl")
      BY <3>0, <3>1 DEF ExecPlace, Effect
    <3>2. CASE Latency!At(p, s + 2) /\ Latency!Advance(p) /\ gem_execbuf(Obj(p), {}, Render, {})
      <4>1. rq' = [rq EXCEPT ![Obj(p)] = "queued"] /\ open' = open
        BY <3>2, SubmitView DEF gem_execbuf
      <4>2. ExecInv(p)' /\ Control(p)
        BY <3>0, <3>2, <4>1 DEF ExecPlace
      <4>3. {} \in SUBSET Object
        OBVIOUS
      <4> QED BY <3>2, <4>2, <4>3, SubmitEffect
    <3> QED BY <2>6, <3>1, <3>2, LatencyNames
  <2>7. CASE Latency!gem_sync(p, s + 3, Obj(p))
    <3>1. ExecPlace(pc[p], 3)
      BY <2>1, <2>7 DEF Latency!gem_sync
    <3> QED BY <2>7, <3>1 DEF ExecPlace, Latency!gem_sync, Effect
  <2>8. CASE Latency!Unchecked(p, s + 4, Latency!gem_close(Obj(p)))
    <3>1. ExecPlace(pc[p], 4)
      BY <2>1, <2>8 DEF Latency!gem_sync
    <3> QED BY <2>8, <3>1 DEF ExecPlace, Latency!gem_close, gem_close, Effect
  <2> QED BY <1>5, <2>4, <2>5, <2>6, <2>7, <2>8 DEF Latency!get_exec_latency, s
<1> QED BY <1>4, <1>5 DEF Latency!ExecProgram, Latency!ExecWidth

LEMMA ExecDevice ==
    ASSUME EffectType, TargetInv, NEW p \in Proc, ExecInv(p), NEW b \in Own(p),
           Execute(b) \/ Signal(b)
    PROVE  ExecInv(p)'
<1> USE Objects DEF EffectType, ExecInv, ContextInv, OnlyBatches, InSamples, AtRound
<1>1. CASE Execute(b)
  BY <1>1, ExecuteView
<1>2. CASE Signal(b)
  BY <1>2, SignalView
<1> QED BY <1>1, <1>2

\* The places StoreInv speaks of, at statement k of a sample and behind it.
StorePlace(n, k) ==
    /\ InSamples(n, {4, 5}, 7) <=> k \in {4, 5}
    /\ InSamples(n, 4..6, 7) <=> k \in 4..6
    /\ InSamples(n, 3..5, 7) <=> k \in 3..5
    /\ InSamples(n, 4..5, 7) <=> k \in 4..5
    /\ InSamples(n, 2..4, 7) <=> k \in 2..4
    /\ InSamples(n, 1..6, 7) <=> k \in 1..6
    /\ InSamples(n + 1, {4, 5}, 7) <=> k \in {3, 4}
    /\ InSamples(n + 1, 4..6, 7) <=> k \in 3..5
    /\ InSamples(n + 1, 3..5, 7) <=> k \in 2..4
    /\ InSamples(n + 1, 4..5, 7) <=> k \in 3..4
    /\ InSamples(n + 1, 2..4, 7) <=> k \in 1..3
    /\ InSamples(n + 1, 1..6, 7) <=> k \in 0..5
    /\ n \in Nat /\ n > 1 /\ ~AtRound(n, 7) /\ ~AtRound(n + 1, 7) /\ n # Latency!End(7)

LEMMA StorePlaces ==
    ASSUME NEW r \in 0..(Rounds - 1), NEW i \in 0..(Times - 1), NEW k \in 0..6,
           NEW n, n = Latency!Sample(r, i, 7) + k
    PROVE  StorePlace(n, k)
<1> DEFINE Sets == {{4, 5}, 4..6, 3..5, 4..5, 2..4, 1..6}
<1>1. Sets \subseteq SUBSET (1..(7 - 1)) /\ k \in 0..(7 - 1) /\ 7 \in {5, 7}
  OBVIOUS
<1>2. /\ \A K \in Sets : /\ InSamples(n, K, 7) <=> k \in K
                         /\ InSamples(n + 1, K, 7) <=> k + 1 \in K
      /\ n \in Nat /\ n > 1 /\ ~AtRound(n, 7) /\ ~AtRound(n + 1, 7) /\ n # Latency!End(7)
  <2> HIDE DEF Sets
  <2> QED BY <1>1, SamplePlace
<1> QED BY <1>2 DEF StorePlace

\* What wait for the target means: the store that names it is not in flight.
LEMMA TargetIdle ==
    ASSUME EffectType, NEW p \in Proc, ~Busy(Scratch(p)), Scratch(p) \in job[Store(p)].target
    PROVE  rq[Store(p)] \notin {"queued", "ran"}
BY Objects DEF Busy, InFlight

LEMMA StoreStep ==
    ASSUME GkitTypeOK, TargetInv, NEW p \in Proc, StoreInv(p), Latency!StoreProgram(p)
    PROVE  StoreInv(p)' /\ Effect(p) /\ Control(p)
<1>1. /\ {Obj(p), Scratch(p), Store(p), Context(p)} \subseteq Own(p) /\ Own(p) \subseteq Object
      /\ Obj(p) \notin {Scratch(p), Store(p), Context(p)}
      /\ Store(p) # Scratch(p) /\ Scratch(p) # Context(p) /\ Store(p) # Context(p)
      /\ Latency!Store(p) = Store(p) /\ Latency!Target(p) = Scratch(p)
      /\ Render \in Nat /\ "store" \in Content
      /\ Busy(Store(p)) <=> rq[Store(p)] \in {"queued", "ran"}
      /\ \A o : Latency!Busy(o) = Busy(o)
      /\ ~Busy(Scratch(p)) /\ Scratch(p) \in job[Store(p)].target
            => rq[Store(p)] \notin {"queued", "ran"}
  BY Objects, LatencyNames, BusyIsInFlight, TargetIdle DEF Render, Content, GkitTypeOK
<1>2. ControlType /\ EffectType
  BY DEF GkitTypeOK
<1>3. \A K : InSamples(pc[p], K, 7)' <=> InSamples(pc'[p], K, 7)
  BY DEF InSamples
<1>4. CASE Latency!Rest(p, 7)
  <2>1. /\ ContextInv(p, 7)' /\ Effect(p) /\ Control(p)
        /\ UNCHANGED <<fence, mapped, mem, wc, rq, job>>
        /\ \A o \in Own(p) \ {Context(p)} : o \in open' <=> o \in open
        /\ \A K \in SUBSET (1..(7 - 1)) : ~InSamples(pc[p], K, 7) /\ ~InSamples(pc[p], K, 7)'
    BY <1>4, RestStep DEF StoreInv
  <2>2. {{4, 5}, 4..6, 3..5, 4..5, 2..4, 1..6} \subseteq SUBSET (1..(7 - 1))
    OBVIOUS
  <2> QED BY <1>1, <2>1, <2>2 DEF StoreInv, OnlyBatches
<1>5. ASSUME NEW r \in 0..(Rounds - 1), NEW i \in 0..(Times - 1),
             Latency!get_store_latency(p, Latency!Sample(r, i, 7))
      PROVE  StoreInv(p)' /\ Effect(p) /\ Control(p)
  <2> DEFINE s == Latency!Sample(r, i, 7)
  <2>1. \A k \in 0..6 : pc[p] = s + k => StorePlace(pc[p], k)
    BY StorePlaces
  <2>2. \A n : AtRound(n, 7)' <=> AtRound(n', 7)
    BY DEF AtRound
  <2>3. s \in Int /\ s + 1 + 1 = s + 2 /\ s + 1 + 2 = s + 3 /\ s + 1 + 3 = s + 4
    <3>1. s \in Int
      BY BoundAssumption DEF Latency!Sample, Latency!Round
    <3> HIDE DEF s
    <3> QED BY <3>1
  <2> HIDE DEF s
  <2> USE <1>1, <1>2, <1>3, <2>2, <2>3
      DEF Latency!At, Latency!Advance, Latency!Exit, Latency!Die, Latency!Ioctl, Latency!Unchecked,
          Latency!effects, Latency!objects, Latency!memory, effects, objects, memory,
          Control, ControlType, EffectType, Verdict, StoreInv, ContextInv, OnlyBatches
  <2>4. CASE Latency!Ioctl(p, s, "create", TRUE, Latency!gem_create(Scratch(p)))
    <3>1. StorePlace(pc[p], 0)
      BY <2>1, <2>4
    <3> QED BY <2>4, <3>1 DEF StorePlace, Latency!gem_create, gem_create, Effect
  <2>5. CASE Latency!Ioctl(p, s + 1, "create", TRUE, Latency!gem_create(Store(p)))
    <3>1. StorePlace(pc[p], 1)
      BY <2>1, <2>5
    <3> QED BY <2>5, <3>1 DEF StorePlace, Latency!gem_create, gem_create, Effect
  <2>6. CASE Latency!Ioctl(p, s + 2, "write", Store(p) \in open, Latency!gem_write(Store(p), "store"))
    <3>1. StorePlace(pc[p], 2)
      BY <2>1, <2>6
    <3> QED BY <2>6, <3>1 DEF StorePlace, Latency!gem_write, gem_write, Effect
  <2>7. CASE Latency!Ioctl(p, s + 3, "exec", Latency!Usable(p, {Store(p), Scratch(p)}),
                           Latency!gem_execbuf(Store(p), {Scratch(p)}, Render, {}))
    <3>1. Latency!At(p, s + 3) => StorePlace(pc[p], 3)
      BY <2>1
    <3>2. CASE Latency!At(p, s + 3) /\ Latency!Die(p, "ioctl")
      BY <3>1, <3>2 DEF StorePlace, Effect
    <3>3. CASE Latency!At(p, s + 3) /\ Latency!Advance(p)
               /\ gem_execbuf(Store(p), {Scratch(p)}, Render, {})
      <4>1. /\ rq' = [rq EXCEPT ![Store(p)] = "queued"] /\ open' = open
            /\ \A o \in Object : /\ mem'[o] = (IF wc[o] = "none" THEN mem[o] ELSE wc[o])
                                 /\ wc'[o] = "none"
            /\ job'[Store(p)].target = {Scratch(p)}
        BY <3>3, SubmitView DEF gem_execbuf
      <4>2. StoreInv(p)' /\ Control(p)
        BY <3>1, <3>3, <4>1 DEF StorePlace
      <4>3. {} \in SUBSET Object
        OBVIOUS
      <4> QED BY <3>3, <4>2, <4>3, SubmitEffect
    <3> QED BY <2>7, <3>2, <3>3, LatencyNames
  <2>8. CASE Latency!Unchecked(p, s + 4, Latency!gem_close(Store(p)))
    <3>1. StorePlace(pc[p], 4)
      BY <2>1, <2>8
    <3> QED BY <2>8, <3>1 DEF StorePlace, Latency!gem_close, gem_close, Effect
  <2>9. CASE Latency!gem_sync(p, s + 5, Scratch(p))
    <3>1. StorePlace(pc[p], 5)
      BY <2>1, <2>9 DEF Latency!gem_sync
    <3> QED BY <2>9, <3>1 DEF StorePlace, Latency!gem_sync, Effect
  <2>10. CASE Latency!Unchecked(p, s + 6, Latency!gem_close(Scratch(p)))
    <3>1. StorePlace(pc[p], 6)
      BY <2>1, <2>10
    <3> QED BY <2>10, <3>1 DEF StorePlace, Latency!gem_close, gem_close, Effect
  <2> QED BY <1>5, <2>4, <2>5, <2>6, <2>7, <2>8, <2>9, <2>10
          DEF Latency!get_store_latency, Latency!store, Latency!SyncTarget, s
<1> QED BY <1>4, <1>5 DEF Latency!StoreProgram, Latency!StoreWidth

LEMMA StoreDevice ==
    ASSUME EffectType, TargetInv, NEW p \in Proc, StoreInv(p), NEW b \in Own(p),
           Execute(b) \/ Signal(b)
    PROVE  StoreInv(p)'
<1> USE Objects DEF EffectType, StoreInv, ContextInv, OnlyBatches, InSamples, AtRound
<1>1. CASE Execute(b)
  BY <1>1, ExecuteView
<1>2. CASE Signal(b)
  BY <1>2, SignalView
<1> QED BY <1>1, <1>2
-----------------------------------------------------------------------------
(* The whole suite.                                                        *)

LEMMA ProcStep ==
    ASSUME IInv, NEW p \in Proc, Step(p)
    PROVE  ProcInv(p)' /\ Effect(p) /\ Control(p)
<1>1. GkitTypeOK /\ TargetInv /\ ProcInv(p) /\ program' = program
  BY DEF IInv, TypeOK, Step
<1>2. CASE program[p] = "gem_fence_await" /\ Await!Program(p)
  <2>1. AwaitInv(p)' /\ Effect(p) /\ Control(p)
    BY <1>1, <1>2, AwaitStep DEF ProcInv
  <2> QED BY <1>1, <1>2, <2>1 DEF ProcInv
<1>3. CASE program[p] = "gem_fence_busy" /\ Busying!Program(p)
  <2>1. BusyInv(p)' /\ Effect(p) /\ Control(p)
    BY <1>1, <1>3, BusyStep DEF ProcInv
  <2> QED BY <1>1, <1>3, <2>1 DEF ProcInv
<1>4. CASE program[p] = "gem_fencearr_sig" /\ Sig!Program(p)
  <2>1. SigInv(p)' /\ Effect(p) /\ Control(p)
    BY <1>1, <1>4, SigStep DEF ProcInv
  <2> QED BY <1>1, <1>4, <2>1 DEF ProcInv
<1>5. CASE program[p] = "gem_fencearr_wait" /\ Wait!Program(p)
  <2>1. WaitInv(p)' /\ Effect(p) /\ Control(p)
    BY <1>1, <1>5, WaitStep DEF ProcInv
  <2> QED BY <1>1, <1>5, <2>1 DEF ProcInv
<1>6. CASE program[p] = "gem_exec_basic" /\ Basic!Program(p)
  <2>1. BasicInv(p)' /\ Effect(p) /\ Control(p)
    BY <1>1, <1>6, BasicStep DEF ProcInv
  <2> QED BY <1>1, <1>6, <2>1 DEF ProcInv
<1>7. CASE program[p] = "gem_exec_latency" /\ Latency!ExecProgram(p)
  <2>1. ExecInv(p)' /\ Effect(p) /\ Control(p)
    BY <1>1, <1>7, ExecStep DEF ProcInv
  <2> QED BY <1>1, <1>7, <2>1 DEF ProcInv
<1>8. CASE program[p] = "gem_store_latency" /\ Latency!StoreProgram(p)
  <2>1. StoreInv(p)' /\ Effect(p) /\ Control(p)
    BY <1>1, <1>8, StoreStep DEF ProcInv
  <2> QED BY <1>1, <1>8, <2>1 DEF ProcInv
<1> QED BY <1>2, <1>3, <1>4, <1>5, <1>6, <1>7, <1>8 DEF Step

LEMMA ProcSame ==
    ASSUME NEW q \in Proc, ProcInv(q), Same(q), program' = program
    PROVE  ProcInv(q)'
<1>1. /\ AwaitInv(q) => AwaitInv(q)'
      /\ BusyInv(q) => BusyInv(q)'
      /\ SigInv(q) => SigInv(q)'
      /\ WaitInv(q) => WaitInv(q)'
      /\ BasicInv(q) => BasicInv(q)'
      /\ ExecInv(q) => ExecInv(q)'
      /\ StoreInv(q) => StoreInv(q)'
  BY AwaitSame, BusySame, SigSame, WaitSame, BasicSame, LatencySame
<1> QED BY <1>1 DEF ProcInv

LEMMA ProcDevice ==
    ASSUME IInv, Device, program' = program, NEW q \in Proc
    PROVE  ProcInv(q)'
<1>1. EffectType /\ TargetInv /\ ProcInv(q)
  BY DEF IInv, TypeOK, GkitTypeOK
<1>2. PICK b \in Object : Execute(b) \/ Signal(b) \/ Drain(b)
  BY DEF Device
<1>3. CASE Drain(b) \/ b \notin Own(q)
  <2>1. Same(q)
    BY <1>1, <1>2, <1>3, DeviceElsewhere
  <2> QED BY <1>1, <2>1, ProcSame
<1>4. CASE (Execute(b) \/ Signal(b)) /\ b \in Own(q)
  <2>1. /\ AwaitInv(q) => AwaitInv(q)'
        /\ BusyInv(q) => BusyInv(q)'
        /\ SigInv(q) => SigInv(q)'
        /\ WaitInv(q) => WaitInv(q)'
        /\ BasicInv(q) => BasicInv(q)'
        /\ ExecInv(q) => ExecInv(q)'
        /\ StoreInv(q) => StoreInv(q)'
    BY <1>1, <1>4, AwaitDevice, BusyDevice, SigDevice, WaitDevice, BasicDevice, ExecDevice,
       StoreDevice
  <2> QED BY <1>1, <2>1 DEF ProcInv
<1> QED BY <1>2, <1>3, <1>4

LEMMA InitInv ==
    ASSUME Init
    PROVE  IInv
<1>1. GkitInit /\ program \in [Proc -> Programs]
  BY DEF Init
<1>2. TypeOK
  BY <1>1, InitType DEF TypeOK
<1>3. TargetInv
  BY <1>1 DEF GkitInit, TargetInv
<1>4. ASSUME NEW p \in Proc
      PROVE  ProcInv(p)
  <2>1. /\ pc[p] = 1 /\ verdict[p] = "running" /\ fence[p] = {} /\ open = {} /\ mapped = {}
        /\ \A o \in Own(p) : mem[o] = "zero" /\ wc[o] = "none" /\ rq[o] = "none"
    BY <1>1, Objects DEF GkitInit
  <2> USE <2>1, Objects DEF OnlyBatches
  <2>2. AwaitInv(p)
    BY DEF AwaitInv, AwaitContent, AwaitRequests, AwaitOrder, AwaitHold, AwaitEnd
  <2>3. BusyInv(p)
    BY DEF BusyInv, BusyContent, BusyRequests, BusyHold, BusyEnd, Statement
  <2>4. SigInv(p)
    BY DEF SigInv
  <2>5. WaitInv(p)
    BY DEF WaitInv, WaitContent, WaitRequests, WaitOrder, WaitHold, WaitEnd
  <2>6. BasicInv(p)
    <3>1. ~InTests(1, 8..11) /\ ~InTests(1, 12..13)
      BY BoundAssumption DEF InTests
    <3> QED BY <3>1 DEF BasicInv
  <2>7. /\ \A K \in SUBSET (1..(5 - 1)) : ~InSamples(1, K, 5)
        /\ \A K \in SUBSET (1..(7 - 1)) : ~InSamples(1, K, 7)
    BY FirstPlace
  <2>8. ExecInv(p)
    <3>1. {3, 4} \in SUBSET (1..(5 - 1))
      OBVIOUS
    <3>2. ~InSamples(1, {3, 4}, 5)
      BY <2>7, <3>1
    <3> QED BY <3>2 DEF ExecInv, ContextInv
  <2>9. StoreInv(p)
    <3>1. {4..6, 3..5, 4..5} \subseteq SUBSET (1..(7 - 1))
      OBVIOUS
    <3>2. ~InSamples(1, 4..6, 7) /\ ~InSamples(1, 3..5, 7) /\ ~InSamples(1, 4..5, 7)
      BY <2>7, <3>1
    <3> QED BY <3>2 DEF StoreInv, ContextInv
  <2> QED BY <2>2, <2>3, <2>4, <2>5, <2>6, <2>8, <2>9 DEF ProcInv
<1> QED BY <1>2, <1>3, <1>4 DEF IInv

LEMMA StepInv ==
    ASSUME IInv, [Next]_<<vars, program>>
    PROVE  IInv'
<1>1. GkitTypeOK /\ EffectType /\ TargetInv /\ program \in [Proc -> Programs]
  BY DEF IInv, TypeOK, GkitTypeOK
<1>2. ASSUME NEW p \in Proc, Step(p)
      PROVE  IInv'
  <2>1. ProcInv(p)' /\ Effect(p) /\ Control(p) /\ program' = program
    BY <1>2, ProcStep DEF Step
  <2>2. EffectType' /\ ControlType' /\ TargetInv'
    BY <1>1, <2>1, EffectTypes, EffectTargets DEF Control
  <2>3. ASSUME NEW q \in Proc \ {p}
        PROVE  ProcInv(q)'
    <3>1. Same(q)
      BY <1>1, <2>1, EffectElsewhere
    <3> QED BY <2>1, <3>1, ProcSame DEF IInv
  <2> QED BY <1>1, <2>1, <2>2, <2>3 DEF IInv, TypeOK, GkitTypeOK
<1>3. CASE Device /\ UNCHANGED program
  <2>1. GkitTypeOK' /\ TargetInv'
    BY <1>1, <1>3, DeviceType, DeviceTargets
  <2> QED BY <1>1, <1>3, <2>1, ProcDevice DEF IInv, TypeOK
<1>4. CASE UNCHANGED <<vars, program>>
  <2>1. GkitTypeOK' /\ TargetInv'
    BY <1>1, <1>4 DEF vars, GkitTypeOK, ControlType, EffectType, TargetInv
  <2>2. ASSUME NEW q \in Proc
        PROVE  ProcInv(q)'
    <3>1. Same(q)
      BY <1>4 DEF vars, Same
    <3> QED BY <1>4, <3>1, ProcSame DEF IInv
  <2> QED BY <1>1, <1>4, <2>1, <2>2 DEF IInv, TypeOK
<1> QED BY <1>2, <1>3, <1>4 DEF Next, AllExited

LEMMA Invariant == Spec => []IInv
BY InitInv, StepInv, PTL DEF Spec
-----------------------------------------------------------------------------
(* Theorems.                                                               *)

\* Types of the shared state of all programs, and of what each process runs.
THEOREM TypeCorrect == Spec => []TypeOK
BY Invariant, PTL DEF IInv

\* Whatever runs beside it and whichever calls fail, a process fails an assert
\* on the device only where a query failed or came after its batch was complete,
\* or where gem_fence_busy's limit passed with the end in the device's memory; and
\* it uses an unmapped pointer only at the two mappings of gem_exec_basic.
THEOREM AssertsAlwaysHold == Spec => []AssertsHold
<1>1. ASSUME IInv
      PROVE  AssertsHold
  <2> SUFFICES ASSUME NEW p \in Proc, verdict[p] \in {"assert", "timeout", "sigsegv"}
               PROVE  CASE program[p] = "gem_fence_await"   -> FALSE
                        [] program[p] = "gem_fence_busy"    ->
                             \/ verdict[p] = "assert" /\ Busying!AtQuery(p)
                             \/ verdict[p] = "timeout" /\ Busying!AtLimit(p)
                        [] program[p] = "gem_fencearr_sig"  -> verdict[p] = "assert" /\ Sig!AtBusyCheck(p)
                        [] program[p] = "gem_fencearr_wait" -> verdict[p] = "assert" /\ Wait!AtQuery(p)
                        [] program[p] = "gem_exec_basic"    -> verdict[p] = "sigsegv" /\ Basic!AtBadMapping(p)
                        [] OTHER -> FALSE
    BY DEF AssertsHold
  <2>1. ProcInv(p) /\ program[p] \in Programs
    BY <1>1 DEF IInv, TypeOK
  <2>2. CASE program[p] = "gem_fence_await"
    BY <2>1, <2>2 DEF ProcInv, AwaitInv, AwaitEnd
  <2>3. CASE program[p] = "gem_fence_busy"
    <3>1. BusyInv(p)
      BY <2>1, <2>3 DEF ProcInv
    <3>2. CASE verdict[p] = "assert"
      <4>1. Busying!AtQuery(p)
        BY <3>1, <3>2 DEF BusyInv, BusyEnd, Statement, Busying!AtQuery, Busying!Statement,
             Busying!WaitCall
      <4> QED BY <2>3, <3>2, <4>1
    <3>3. CASE verdict[p] = "timeout"
      <4>1. pc[p] \in {19, 32} /\ Statement(p) \in {12, 19}
        BY <3>1, <3>3 DEF BusyInv, BusyEnd, Statement
      <4>2. mem[Spin(p)] = "end" /\ fence[p] = {Spin(p)}
        BY <3>1, <4>1 DEF BusyInv, BusyContent, BusyHold
      <4>3. Busying!AtLimit(p)
        BY <4>1, <4>2 DEF Busying!AtLimit, Busying!WaitCall, Busying!Spin, Spin
      <4> QED BY <2>3, <3>3, <4>3
    <3> QED BY <3>1, <3>2, <3>3 DEF BusyInv, BusyEnd
  <2>4. CASE program[p] = "gem_fencearr_sig"
    BY <2>1, <2>4 DEF ProcInv, SigInv, Sig!AtBusyCheck, Sig!Obj, Obj
  <2>5. CASE program[p] = "gem_fencearr_wait"
    BY <2>1, <2>5 DEF ProcInv, WaitInv, WaitEnd, Wait!AtQuery
  <2>6. CASE program[p] = "gem_exec_basic"
    <3>1. verdict[p] = "sigsegv" /\ "map" \in Fallible /\ InTests(pc[p], {11, 19})
      BY <2>1, <2>6 DEF ProcInv, BasicInv
    <3>2. PICK e \in 0..(Entries - 1), k \in {11, 19} : pc[p] = 2 + 23 * e + k
      BY <3>1 DEF InTests
    <3>3. pc[p] \in {Basic!Gtt(e) + 6, Basic!Readonly(e) + 2}
      BY <3>2, BoundAssumption DEF Basic!Gtt, Basic!Readonly, Basic!Noop, Basic!Width
    <3>4. Basic!AtBadMapping(p)
      BY <3>1, <3>3 DEF Basic!AtBadMapping
    <3> QED BY <2>6, <3>1, <3>4
  <2>7. CASE program[p] \in {"gem_exec_latency", "gem_store_latency"}
    BY <2>1, <2>7 DEF ProcInv, ExecInv, StoreInv, ContextInv
  <2> QED BY <2>1, <2>2, <2>3, <2>4, <2>5, <2>6, <2>7 DEF Programs
<1> QED BY <1>1, Invariant, PTL

\* A process that ends while its spinner spins was between the submission and
\* the release, at a wrapper that aborted or a query that failed.
THEOREM OrphansAlwaysExplained == Spec => []OrphansExplained
<1>1. ASSUME IInv
      PROVE  OrphansExplained
  <2> SUFFICES ASSUME NEW p \in Proc, Orphan(p)
               PROVE  CASE program[p] = "gem_fence_await"   -> Await!InStore(p)
                        [] program[p] = "gem_fence_busy"    -> Busying!AtQuery(p)
                        [] program[p] = "gem_fencearr_wait" -> Wait!MakingWaiter(p)
    BY DEF OrphansExplained
  <2>1. ProcInv(p)
    BY <1>1 DEF IInv
  <2>2. CASE program[p] = "gem_fence_await" /\ Await!Spinning(p)
    BY <2>1, <2>2 DEF Orphan, ProcInv, AwaitInv, AwaitContent, AwaitRequests, AwaitOrder,
         AwaitEnd,
                      Await!Spinning, Await!InFlight, Await!InStore, Await!Spin, Spin
  <2>3. CASE program[p] = "gem_fence_busy" /\ Busying!Spinning(p)
    <3>1. /\ rq[Spin(p)] \in {"queued", "ran"} /\ "end" \notin {mem[Spin(p)], wc[Spin(p)]}
          /\ verdict[p] # "running" /\ BusyInv(p)
      BY <2>1, <2>3 DEF Orphan, ProcInv, Busying!Spinning, Busying!InFlight, Busying!Spin, Spin
    <3>2. Statement(p) = 8 /\ "busy" \in Fallible
      BY <3>1 DEF BusyInv, BusyContent, BusyRequests, BusyEnd, Statement
    <3>3. Busying!AtQuery(p)
      BY <3>2 DEF Statement, Busying!AtQuery, Busying!Statement, Busying!WaitCall
    <3> QED BY <2>3, <3>3
  <2>4. CASE program[p] = "gem_fencearr_wait" /\ Wait!Spinning(p)
    BY <2>1, <2>4 DEF Orphan, ProcInv, WaitInv, WaitContent, WaitRequests, WaitOrder, WaitEnd,
                      Wait!Spinning, Wait!InFlight, Wait!MakingWaiter, Wait!Spin, Spin
  <2> QED BY <2>2, <2>3, <2>4 DEF Orphan, Spinning
<1> QED BY <1>1, Invariant, PTL

\* Nothing behind a fence runs, and no fence or syncobj signals, before the
\* program has stored the end of its spinner, whatever else uses the card.
THEOREM FencesAlwaysHold == Spec => []FencesHold
<1>1. ASSUME IInv
      PROVE  FencesHold
  <2>1. ASSUME NEW p \in Running("gem_fence_await")
        PROVE  Await!StoreLate(p)
    <3>1. AwaitInv(p)
      BY <1>1 DEF IInv, ProcInv, Running
    <3> QED BY <3>1 DEF AwaitInv, AwaitContent, AwaitRequests, AwaitOrder, AwaitEnd,
                        Await!StoreLate, Await!Scratch, Scratch
  <2>2. ASSUME NEW p \in Running("gem_fence_busy")
        PROVE  Busying!BusyUntilReleased(p)
    <3>1. BusyInv(p) /\ p \in Proc
      BY <1>1 DEF IInv, ProcInv, Running
    <3>2. Busying!Statement(p) = Statement(p)
      BY DEF Busying!Statement, Busying!WaitCall, Statement
    <3>3. Statement(p) \in 7..10 => rq[Spin(p)] = "queued" /\ fence[p] = {Spin(p)}
      BY <3>1 DEF BusyInv, BusyRequests, BusyHold
    <3>4. Spin(p) \in Object
      BY <3>1, Objects
    <3>5. Statement(p) \in 7..10 => Busying!Busy(Spin(p)) /\ Busying!fence_busy(p)
      BY <3>3, <3>4 DEF Busying!Busy, Busying!fence_busy, Busying!InFlight, Busying!Object,
           Object
    <3> QED BY <3>2, <3>5 DEF Busying!BusyUntilReleased, Busying!Spin, Spin
  <2>3. ASSUME NEW p \in Running("gem_fencearr_sig")
        PROVE  Sig!SignalledWhenDone(p)
    <3>1. SigInv(p) /\ p \in Proc /\ EffectType
      BY <1>1 DEF IInv, TypeOK, GkitTypeOK, ProcInv, Running
    <3>2. Obj(p) \in Object
      BY <3>1, Objects
    <3>3. rq[Obj(p)] \in {"none", "queued", "ran", "done"}
      BY <3>1, <3>2 DEF EffectType
    <3> QED BY <3>1, <3>3 DEF SigInv, Sig!SignalledWhenDone, Sig!fence_busy, Sig!InFlight,
                              Sig!Obj, Obj
  <2>4. ASSUME NEW p \in Running("gem_fencearr_wait")
        PROVE  Wait!WaiterGated(p)
    <3>1. WaitInv(p) /\ p \in Proc /\ EffectType
      BY <1>1 DEF IInv, TypeOK, GkitTypeOK, ProcInv, Running
    <3>2. Waiter(p) \in Object /\ Wait!Wait(p) = Waiter(p)
      BY <3>1, Objects DEF Wait!Wait, Waiter
    <3>3. rq[Waiter(p)] \in {"ran", "done"} => pc[p] > 12
      BY <3>1 DEF WaitInv, WaitContent, WaitRequests, WaitOrder, WaitEnd
    <3>4. pc[p] \in 11..12 => rq[Waiter(p)] = "queued"
      BY <3>1, <3>2, <3>3 DEF WaitInv, WaitRequests, EffectType
    <3>5. pc[p] \in 11..12 => Wait!Busy(Waiter(p))
      BY <3>2, <3>4 DEF Wait!Busy, Wait!InFlight, Wait!Object, Object
    <3> QED BY <3>2, <3>3, <3>5 DEF Wait!WaiterGated
  <2> QED BY <2>1, <2>2, <2>3, <2>4 DEF FencesHold
<1> QED BY <1>1, Invariant, PTL

\* A process that passes leaves no work behind, and nothing open or mapped but
\* the spinner of gem_fencearr_wait.
THEOREM PassAlwaysClean == Spec => []PassIsClean
<1>1. ASSUME IInv
      PROVE  PassIsClean
  <2> SUFFICES ASSUME NEW p \in Proc, verdict[p] = "passed"
               PROVE  CASE program[p] = "gem_fence_await"   -> Await!Clean(p)
                        [] program[p] = "gem_fence_busy"    -> Busying!Clean(p)
                        [] program[p] = "gem_fencearr_sig"  -> Sig!Clean(p)
                        [] program[p] = "gem_fencearr_wait" -> Wait!LeavesOnlySpinner(p)
                        [] program[p] = "gem_exec_basic"    -> Basic!Clean(p)
                        [] OTHER                            -> Latency!Clean(p)
    BY DEF PassIsClean
  <2>1. ProcInv(p) /\ program[p] \in Programs /\ EffectType
    BY <1>1 DEF IInv, TypeOK, GkitTypeOK
  <2>2. CASE program[p] = "gem_fence_await"
    <3>1. AwaitInv(p)
      BY <2>1, <2>2 DEF ProcInv
    <3>2. /\ mem[Scratch(p)] = "written" /\ fence[p] = {}
          /\ \A o \in {Spin(p), Store(p), Scratch(p)} :
                o \notin open /\ o \notin mapped /\ rq[o] \notin {"queued", "ran"}
      BY <3>1, Objects DEF AwaitInv, AwaitContent, AwaitRequests, AwaitOrder, AwaitHold,
           AwaitEnd,
                           OnlyBatches
    <3>3. Await!Clean(p)
      BY <3>2 DEF Await!Clean, Await!InFlight, Await!Spin, Await!Store, Await!Scratch, Spin,
           Store,
                  Scratch
    <3> QED BY <2>2, <3>3
  <2>3. CASE program[p] = "gem_fence_busy"
    <3>1. Statement(p) = 17 /\ BusyInv(p)
      BY <2>1, <2>3 DEF ProcInv, BusyInv, BusyEnd, Statement
    <3>2. /\ fence[p] = {} /\ Spin(p) \notin open /\ Spin(p) \notin mapped
          /\ rq[Spin(p)] = "done"
      BY <3>1 DEF BusyInv, BusyRequests, BusyHold
    <3>3. Busying!Clean(p)
      BY <3>2 DEF Busying!Clean, Busying!InFlight, Busying!Spin, Spin
    <3> QED BY <2>3, <3>3
  <2>4. CASE program[p] = "gem_fencearr_sig"
    <3>1. Sig!Clean(p)
      BY <2>1, <2>4 DEF ProcInv, SigInv, Sig!Clean, Sig!Obj, Sig!Syncobj, Obj, Syncobj
    <3> QED BY <2>4, <3>1
  <2>5. CASE program[p] = "gem_fencearr_wait"
    <3>1. WaitInv(p) /\ pc[p] = 17
      BY <2>1, <2>5 DEF ProcInv, WaitInv, WaitEnd
    <3>2. rq[Spin(p)] = "done" /\ rq[Waiter(p)] = "done" /\ fence[p] = {}
      BY <3>1 DEF WaitInv, WaitOrder, WaitHold, WaitEnd
    <3>3. \A o \in Own(p) : o \in open \/ o \in mapped <=> o = Spin(p)
      BY <3>1, Objects DEF WaitInv, WaitHold
    <3>4. open \subseteq Object /\ mapped \subseteq Object /\ Spin(p) \in Own(p)
      BY <2>1, Objects DEF EffectType
    <3>5. {o \in open \cup mapped : o[1] = p} = {Spin(p)}
      BY <3>3, <3>4 DEF Own
    <3>6. Wait!LeavesOnlySpinner(p)
      BY <3>2, <3>5 DEF Wait!LeavesOnlySpinner, Wait!Spin, Wait!Wait, Spin, Waiter
    <3> QED BY <2>5, <3>6
  <2>6. CASE program[p] = "gem_exec_basic"
    <3>1. BasicInv(p) /\ pc[p] = 2 + 23 * Entries
      BY <2>1, <2>6 DEF ProcInv, BasicInv
    <3>2. \A K \in SUBSET (1..22) : ~InTests(pc[p], K)
      BY <3>1, BoundAssumption DEF InTests
    <3>3. {{3, 13, 14, 21}, (1..4) \cup (10..15) \cup (18..22), 6..8, 8..16} \subseteq SUBSET (1..22)
      OBVIOUS
    <3>4. \A o \in {Obj(p), Header(p)} : o \notin open /\ o \notin mapped /\ rq[o] \notin {"queued", "ran"}
      BY <3>1, <3>2, <3>3, Objects DEF BasicInv, OnlyBatches
    <3>5. Basic!Clean(p)
      BY <3>4 DEF Basic!Clean, Basic!InFlight, Basic!Batch, Basic!Header, Obj, Header
    <3> QED BY <2>6, <3>5
  <2>7. CASE program[p] \in {"gem_exec_latency", "gem_store_latency"}
    <3>1. ASSUME NEW w \in {5, 7}, ContextInv(p, w)
          PROVE  /\ pc[p] = Latency!End(w) /\ Context(p) \notin open
                 /\ \A K \in SUBSET (1..(w - 1)) : ~InSamples(pc[p], K, w)
      <4>1. pc[p] = Latency!End(w)
        BY <3>1 DEF ContextInv
      <4>2. AtRound(pc[p], w)
        BY <4>1, BoundAssumption DEF AtRound, Latency!End
      <4> QED BY <3>1, <4>1, <4>2, EndPlace DEF ContextInv
    <3>2. ASSUME \A o \in {Context(p), Obj(p), Scratch(p), Store(p)} :
                    o \notin open /\ rq[o] \notin {"queued", "ran"}
          PROVE  Latency!Clean(p)
      BY <3>2 DEF Latency!Clean, Latency!InFlight, Latency!Context, Latency!Batch,
           Latency!Target,
                  Latency!Store, Context, Obj, Scratch, Store
    <3>3. CASE program[p] = "gem_exec_latency"
      <4>1. ExecInv(p) /\ \A K \in SUBSET (1..(5 - 1)) : ~InSamples(pc[p], K, 5)
        BY <2>1, <3>1, <3>3 DEF ProcInv, ExecInv
      <4>2. {3} \in SUBSET (1..(5 - 1)) /\ 1..4 \in SUBSET (1..(5 - 1))
        OBVIOUS
      <4>3. Context(p) \notin open
        BY <3>1, <4>1 DEF ExecInv
      <4>4. Latency!Clean(p)
        BY <3>2, <4>1, <4>2, <4>3, Objects DEF ExecInv, OnlyBatches
      <4> QED BY <3>3, <4>4
    <3>4. CASE program[p] = "gem_store_latency"
      <4>1. StoreInv(p) /\ \A K \in SUBSET (1..(7 - 1)) : ~InSamples(pc[p], K, 7)
        BY <2>1, <3>1, <3>4 DEF ProcInv, StoreInv
      <4>2. {{4, 5}, 2..4, 1..6} \subseteq SUBSET (1..(7 - 1))
        OBVIOUS
      <4>3. Context(p) \notin open
        BY <3>1, <4>1 DEF StoreInv
      <4>4. Latency!Clean(p)
        BY <3>2, <4>1, <4>2, <4>3, Objects DEF StoreInv, OnlyBatches
      <4> QED BY <3>4, <4>4
    <3> QED BY <2>7, <3>3, <3>4
  <2> QED BY <2>1, <2>2, <2>3, <2>4, <2>5, <2>6, <2>7 DEF Programs
<1> QED BY <1>1, Invariant, PTL

\* A time is taken only when the work it measures has landed, and a test of
\* gem_exec_basic starts only when the one before it has left nothing in flight.
THEOREM WorkAlwaysDone == Spec => []WorkDone
<1>1. ASSUME IInv
      PROVE  WorkDone
  <2>1. ASSUME NEW p \in Running("gem_exec_basic")
        PROVE  Basic!DrainedBetweenTests(p)
    <3>1. BasicInv(p)
      BY <1>1 DEF IInv, ProcInv, Running
    <3>2. ASSUME NEW e \in 0..Entries, pc[p] \in {Basic!Noop(e), Basic!Gtt(e), Basic!Readonly(e)}
          PROVE  ~InTests(pc[p], {3, 13, 14, 21})
      BY <3>2, BoundAssumption DEF InTests, Basic!Gtt, Basic!Readonly, Basic!Noop, Basic!Width
    <3> QED BY <3>1, <3>2 DEF BasicInv, Basic!DrainedBetweenTests, Basic!InFlight,
         Basic!Batch, Obj
  <2>2. ASSUME NEW p \in Running("gem_exec_latency")
        PROVE  Latency!ExecMeasured(p)
    <3>1. ExecInv(p) /\ EffectType /\ p \in Proc
      BY <1>1 DEF IInv, TypeOK, GkitTypeOK, ProcInv, Running
    <3>2. ASSUME NEW r \in 0..(Rounds - 1), NEW i \in 0..(Times - 1),
                 pc[p] = Latency!Sample(r, i, 5) + 4
          PROVE  rq[Obj(p)] = "done"
      <4>1. ExecPlace(pc[p], 4)
        BY <3>2, ExecPlaces
      <4> QED BY <3>1, <4>1, Objects DEF ExecPlace, ExecInv, EffectType
    <3> QED BY <3>2 DEF Latency!ExecMeasured, Latency!AtSample, Latency!ExecWidth,
         Latency!Batch, Obj
  <2>3. ASSUME NEW p \in Running("gem_store_latency")
        PROVE  Latency!StoreMeasured(p)
    <3>1. StoreInv(p) /\ EffectType /\ p \in Proc
      BY <1>1 DEF IInv, TypeOK, GkitTypeOK, ProcInv, Running
    <3>2. ASSUME NEW r \in 0..(Rounds - 1), NEW i \in 0..(Times - 1),
                 pc[p] = Latency!Sample(r, i, 7) + 6
          PROVE  rq[Store(p)] = "done" /\ mem[Scratch(p)] = "written"
      <4>1. StorePlace(pc[p], 6)
        BY <3>2, StorePlaces
      <4> QED BY <3>1, <4>1, Objects DEF StorePlace, StoreInv, EffectType
    <3> QED BY <3>2 DEF Latency!StoreMeasured, Latency!AtSample, Latency!StoreWidth,
                        Latency!Store, Latency!Target, Store, Scratch
  <2> QED BY <2>1, <2>2, <2>3 DEF WorkDone
<1> QED BY <1>1, Invariant, PTL
-----------------------------------------------------------------------------
(* Every program with a spinner implements GatedTask, all of them together  *)
(* on one card.                                                            *)

\* The mapping of Suite!Gated, by name.
GateOf(p) == CASE program[p] = "gem_fence_await"   -> Await!GateOf(p)
               [] program[p] = "gem_fence_busy"    -> Busying!GateOf(p)
               [] program[p] = "gem_fencearr_wait" -> Wait!GateOf(p)
               [] OTHER -> "shut"
TaskOf(p) == CASE program[p] = "gem_fence_await"   -> Await!TaskOf(p)
               [] program[p] = "gem_fence_busy"    -> Busying!TaskOf(p)
               [] program[p] = "gem_fencearr_wait" -> Wait!TaskOf(p)
               [] OTHER -> "none"
OutcomeOf(p) == IF program[p] \in Gates THEN Await!OutcomeOf(p) ELSE "running"

\* What it shows of a process in terms of this module.
LEMMA GateView ==
    ASSUME NEW p \in Proc
    PROVE  /\ program[p] = "gem_fence_await" =>
                /\ GateOf(p) = IF pc[p] > 18 THEN "open" ELSE "shut"
                /\ TaskOf(p) = IF rq[Store(p)] = "none" THEN "none"
                               ELSE IF rq[Store(p)] = "queued" THEN "pending" ELSE "finished"
           /\ program[p] = "gem_fence_busy" =>
                /\ GateOf(p) = IF Statement(p) > 10 THEN "open" ELSE "shut"
                /\ TaskOf(p) = IF Statement(p) <= 6 THEN "none"
                               ELSE IF rq[Spin(p)] = "queued" THEN "pending" ELSE "finished"
           /\ program[p] = "gem_fencearr_wait" =>
                /\ GateOf(p) = IF pc[p] > 12 THEN "open" ELSE "shut"
                /\ TaskOf(p) = IF rq[Waiter(p)] = "none" THEN "none"
                               ELSE IF rq[Waiter(p)] = "queued" THEN "pending" ELSE "finished"
           /\ program[p] \notin Gates =>
                GateOf(p) = "shut" /\ TaskOf(p) = "none" /\ OutcomeOf(p) = "running"
           /\ program[p] \in Gates =>
                OutcomeOf(p) = IF verdict[p] \in {"running", "passed"} THEN verdict[p] ELSE "failed"
<1>1. CASE program[p] = "gem_fence_await"
  BY <1>1 DEF GateOf, TaskOf, OutcomeOf, Gates, Await!GateOf, Await!TaskOf, Await!OutcomeOf,
              Await!Store, Store
<1>2. CASE program[p] = "gem_fence_busy"
  BY <1>2 DEF GateOf, TaskOf, OutcomeOf, Gates, Busying!GateOf, Busying!TaskOf, Await!OutcomeOf,
              Busying!Spin, Spin, Busying!Statement, Busying!WaitCall, Statement
<1>3. CASE program[p] = "gem_fencearr_wait"
  BY <1>3 DEF GateOf, TaskOf, OutcomeOf, Gates, Wait!GateOf, Wait!TaskOf, Await!OutcomeOf,
              Wait!Wait, Waiter
<1>4. CASE program[p] \notin Gates
  BY <1>4 DEF GateOf, TaskOf, OutcomeOf, Gates
<1> QED BY <1>1, <1>2, <1>3, <1>4 DEF Gates

\* What GatedTask lets a process do, and not do.
Stutters(p) == GateOf(p)' = GateOf(p) /\ TaskOf(p)' = TaskOf(p) /\ OutcomeOf(p)' = OutcomeOf(p)
Moves(p) ==
    \/ Stutters(p)
    \/ /\ OutcomeOf(p) = "running" /\ TaskOf(p) = "none" /\ GateOf(p) = "shut"
       /\ GateOf(p)' = GateOf(p) /\ TaskOf(p)' = "pending" /\ OutcomeOf(p)' = OutcomeOf(p)
    \/ /\ OutcomeOf(p) = "running" /\ TaskOf(p) = "pending" /\ GateOf(p) = "shut"
       /\ GateOf(p)' = "open" /\ TaskOf(p)' = TaskOf(p) /\ OutcomeOf(p)' = OutcomeOf(p)
    \/ /\ TaskOf(p) = "pending" /\ GateOf(p) = "open"
       /\ GateOf(p)' = GateOf(p) /\ TaskOf(p)' = "finished" /\ OutcomeOf(p)' = OutcomeOf(p)
    \/ /\ OutcomeOf(p) = "running" /\ TaskOf(p) = "finished"
       /\ GateOf(p)' = "shut" /\ TaskOf(p)' = "none" /\ OutcomeOf(p)' = OutcomeOf(p)
    \/ /\ OutcomeOf(p) = "running" /\ TaskOf(p) = "finished"
       /\ GateOf(p)' = GateOf(p) /\ TaskOf(p)' = TaskOf(p) /\ OutcomeOf(p)' = "passed"
    \/ /\ OutcomeOf(p) = "running"
       /\ GateOf(p)' = GateOf(p) /\ TaskOf(p)' = TaskOf(p) /\ OutcomeOf(p)' = "failed"

\* The same in the state after a step.
LEMMA GateViewNext ==
    ASSUME NEW p \in Proc, program' = program
    PROVE  /\ program[p] = "gem_fence_await" =>
                /\ GateOf(p)' = IF pc'[p] > 18 THEN "open" ELSE "shut"
                /\ TaskOf(p)' = IF rq'[Store(p)] = "none" THEN "none"
                                ELSE IF rq'[Store(p)] = "queued" THEN "pending" ELSE "finished"
           /\ program[p] = "gem_fence_busy" =>
                /\ GateOf(p)' = IF Statement(p)' > 10 THEN "open" ELSE "shut"
                /\ TaskOf(p)' = IF Statement(p)' <= 6 THEN "none"
                                ELSE IF rq'[Spin(p)] = "queued" THEN "pending" ELSE "finished"
           /\ program[p] = "gem_fencearr_wait" =>
                /\ GateOf(p)' = IF pc'[p] > 12 THEN "open" ELSE "shut"
                /\ TaskOf(p)' = IF rq'[Waiter(p)] = "none" THEN "none"
                                ELSE IF rq'[Waiter(p)] = "queued" THEN "pending" ELSE "finished"
           /\ program[p] \notin Gates =>
                GateOf(p)' = "shut" /\ TaskOf(p)' = "none" /\ OutcomeOf(p)' = "running"
           /\ program[p] \in Gates =>
                OutcomeOf(p)' = IF verdict'[p] \in {"running", "passed"} THEN verdict'[p] ELSE "failed"
<1>1. CASE program[p] = "gem_fence_await"
  BY <1>1 DEF GateOf, TaskOf, OutcomeOf, Gates, Await!GateOf, Await!TaskOf, Await!OutcomeOf,
              Await!Store, Store
<1>2. CASE program[p] = "gem_fence_busy"
  BY <1>2 DEF GateOf, TaskOf, OutcomeOf, Gates, Busying!GateOf, Busying!TaskOf, Await!OutcomeOf,
              Busying!Spin, Spin, Busying!Statement, Busying!WaitCall, Statement
<1>3. CASE program[p] = "gem_fencearr_wait"
  BY <1>3 DEF GateOf, TaskOf, OutcomeOf, Gates, Wait!GateOf, Wait!TaskOf, Await!OutcomeOf,
              Wait!Wait, Waiter
<1>4. CASE program[p] \notin Gates
  BY <1>4 DEF GateOf, TaskOf, OutcomeOf, Gates
<1> QED BY <1>1, <1>2, <1>3, <1>4 DEF Gates

\* A statement is a move of GatedTask.
LEMMA StepMoves ==
    ASSUME IInv, IInv', NEW p \in Proc, Step(p)
    PROVE  Moves(p)
<1>1. /\ GkitTypeOK /\ TargetInv /\ ProcInv(p) /\ ProcInv(p)' /\ program' = program
      /\ rq[Store(p)] \in {"none", "queued", "ran", "done"}
      /\ rq[Waiter(p)] \in {"none", "queued", "ran", "done"}
      /\ rq[Spin(p)] \in {"none", "queued", "ran", "done"}
  BY Objects DEF IInv, TypeOK, GkitTypeOK, EffectType, Step
<1>2. CASE program[p] = "gem_fence_await"
  <2>1. AwaitInv(p) /\ AwaitInv(p)' /\ AwaitMove(p)
    BY <1>1, <1>2, AwaitStep DEF ProcInv, Step
  <2>2. pc[p] = 18 => rq[Store(p)] = "queued"
    BY <1>1, <2>1 DEF AwaitInv, AwaitContent, AwaitRequests, AwaitOrder
  <2>3. rq[Store(p)] = "none" <=> pc[p] <= 14
    BY <2>1 DEF AwaitInv, AwaitRequests
  <2>4. pc[p] \in Nat /\ (verdict'[p] = "passed" => pc'[p] = 23 /\ rq'[Store(p)] = "done")
    BY <2>1 DEF AwaitInv, AwaitEnd
  <2> QED BY <1>1, <1>2, <2>1, <2>2, <2>3, <2>4, GateView, GateViewNext
          DEF Gates, Moves, Stutters, AwaitMove
<1>3. CASE program[p] = "gem_fence_busy"
  <2>1. BusyInv(p) /\ BusyInv(p)' /\ BusyMove(p)
    BY <1>1, <1>3, BusyStep DEF ProcInv, Step
  <2>2. /\ Statement(p) = 10 => rq[Spin(p)] = "queued"
        /\ Statement(p) \in 14..17 => rq[Spin(p)] = "done"
        /\ pc[p] = 17 => Statement(p) = 17
        /\ pc'[p] = 22 => Statement(p)' = 2
        /\ pc'[p] = pc[p] => Statement(p)' = Statement(p)
        /\ Statement(p) \in Nat /\ Statement(p)' \in Nat
        /\ verdict'[p] = "passed" => Statement(p)' = 17
    BY <2>1 DEF BusyInv, BusyRequests, BusyEnd, Statement
  <2> QED BY <1>1, <1>3, <2>1, <2>2, GateView, GateViewNext DEF Gates, Moves, Stutters, BusyMove
<1>4. CASE program[p] = "gem_fencearr_wait"
  <2>1. WaitInv(p) /\ WaitInv(p)' /\ WaitMove(p)
    BY <1>1, <1>4, WaitStep DEF ProcInv, Step
  <2>2. pc[p] = 12 => rq[Waiter(p)] = "queued"
    BY <1>1, <2>1 DEF WaitInv, WaitContent, WaitRequests, WaitOrder
  <2>3. rq[Waiter(p)] = "none" <=> pc[p] <= 10
    BY <2>1 DEF WaitInv, WaitRequests
  <2>4. pc[p] \in Nat /\ (verdict'[p] = "passed" => pc'[p] = 17 /\ rq'[Waiter(p)] = "done")
    BY <2>1 DEF WaitInv, WaitEnd
  <2> QED BY <1>1, <1>4, <2>1, <2>2, <2>3, <2>4, GateView, GateViewNext
          DEF Gates, Moves, Stutters, WaitMove
<1>5. CASE program[p] \notin Gates
  BY <1>1, <1>5, GateView, GateViewNext DEF Moves, Stutters
<1> QED BY <1>2, <1>3, <1>4, <1>5 DEF Gates

\* Who is left alone does not move.
LEMMA SameStutters ==
    ASSUME NEW q \in Proc, Same(q), program' = program
    PROVE  Stutters(q)
<1>1. Statement(q)' = Statement(q)
  BY DEF Same, Statement
<1> QED BY <1>1, Objects, GateView, GateViewNext DEF Stutters, Same, Gates

\* The device finishes a task, and only behind an open gate.
LEMMA DeviceMoves ==
    ASSUME IInv, NEW p \in Proc, NEW b \in Own(p), Execute(b) \/ Signal(b), program' = program
    PROVE  Moves(p)
<1>1. /\ EffectType /\ TargetInv /\ ProcInv(p)
      /\ Spin(p) \in Object /\ Store(p) \in Object /\ Waiter(p) \in Object
  BY Objects DEF IInv, TypeOK, GkitTypeOK
<1>2. CASE Signal(b)
  <2>1. UNCHANGED <<pc, verdict>> /\ rq[b] = "ran" /\ rq' = [rq EXCEPT ![b] = "done"]
    BY <1>1, <1>2, SignalView
  <2>2. Statement(p)' = Statement(p)
    BY <2>1 DEF Statement
  <2> QED BY <1>1, <2>1, <2>2, GateView, GateViewNext DEF Moves, Stutters, EffectType, Gates
<1>3. CASE Execute(b)
  <2>1. /\ UNCHANGED <<pc, verdict>> /\ rq[b] = "queued" /\ rq' = [rq EXCEPT ![b] = "ran"]
        /\ job[b].after = {} /\ mem[b] \in {"end", "store"}
    BY <1>1, <1>3, ExecuteView
  <2>2. Statement(p)' = Statement(p)
    BY <2>1 DEF Statement
  <2>3. CASE program[p] = "gem_fence_await" /\ b = Store(p)
    <3>1. pc[p] > 18
      BY <1>1, <2>1, <2>3 DEF ProcInv, AwaitInv, AwaitContent, AwaitOrder, AwaitRequests,
           AwaitEnd
    <3> QED BY <1>1, <2>1, <2>3, <3>1, GateView, GateViewNext DEF Moves, EffectType, Gates
  <2>4. CASE program[p] = "gem_fence_busy" /\ b = Spin(p) /\ Statement(p) > 6
    <3>1. Statement(p) > 10
      BY <1>1, <2>1, <2>4 DEF ProcInv, BusyInv, BusyContent, BusyEnd, Statement
    <3>2. Statement(p) \in Int
      BY <1>1, <2>4 DEF ProcInv, BusyInv, BusyEnd, Statement
    <3>3. GateOf(p) = "open" /\ GateOf(p)' = GateOf(p) /\ OutcomeOf(p)' = OutcomeOf(p)
      BY <2>1, <2>2, <2>4, <3>1, GateView, GateViewNext DEF Gates
    <3>4. TaskOf(p) = "pending" /\ TaskOf(p)' = "finished"
      BY <1>1, <2>1, <2>2, <2>4, <3>1, <3>2, GateView, GateViewNext DEF EffectType
    <3> QED BY <3>3, <3>4 DEF Moves
  <2>5. CASE program[p] = "gem_fencearr_wait" /\ b = Waiter(p)
    <3>1. pc[p] > 12
      BY <1>1, <2>1, <2>5 DEF ProcInv, WaitInv, WaitContent, WaitOrder, WaitRequests, WaitEnd
    <3> QED BY <1>1, <2>1, <2>5, <3>1, GateView, GateViewNext DEF Moves, EffectType, Gates
  <2>6. CASE /\ ~(program[p] = "gem_fence_await" /\ b = Store(p))
             /\ ~(program[p] = "gem_fence_busy" /\ b = Spin(p) /\ Statement(p) > 6)
             /\ ~(program[p] = "gem_fencearr_wait" /\ b = Waiter(p))
    <3>1. pc[p] \in Int => Statement(p) \in Int
      BY DEF Statement
    <3>2. program[p] = "gem_fence_busy" => pc[p] \in Int
      BY <1>1 DEF ProcInv, BusyInv, BusyEnd
    <3>3. Stutters(p)
      BY <1>1, <2>1, <2>2, <2>6, <3>1, <3>2, GateView, GateViewNext DEF Stutters, EffectType,
           Gates
    <3> QED BY <3>3 DEF Moves
  <2> QED BY <2>3, <2>4, <2>5, <2>6
<1> QED BY <1>2, <1>3

\* Every program with a spinner keeps GatedTask's promise, whatever the others
\* do: its task finishes only behind the gate it opens, and no process passes
\* before its task has finished.
THEOREM ImplementsGatedTask == Spec => KeepsPromise
<1>1. Init => Gated!Init
  <2> SUFFICES ASSUME Init PROVE Gated!Init
    OBVIOUS
  <2>1. ASSUME NEW p \in Proc
        PROVE  GateOf(p) = "shut" /\ TaskOf(p) = "none" /\ OutcomeOf(p) = "running"
    <3>1. /\ pc[p] = 1 /\ verdict[p] = "running"
          /\ \A o \in {Spin(p), Store(p), Waiter(p)} : rq[o] = "none"
      BY Objects DEF Init, GkitInit
    <3>2. Statement(p) = 1
      BY <3>1 DEF Statement
    <3> QED BY <3>1, <3>2, GateView DEF Gates
  <2> QED BY <2>1 DEF Gated!Init, GateOf, TaskOf, OutcomeOf
<1>2. ASSUME NEW p \in Proc, Moves(p), \A q \in Proc \ {p} : Stutters(q)
      PROVE  Gated!Next \/ UNCHANGED Gated!gvars
  <2> DEFINE g == [q \in Proc |-> GateOf(q)]
             t == [q \in Proc |-> TaskOf(q)]
             o == [q \in Proc |-> OutcomeOf(q)]
  <2>1. \/ g' = g /\ t' = t /\ o' = o
        \/ /\ o[p] = "running" /\ t[p] = "none" /\ g[p] = "shut"
           /\ t' = [t EXCEPT ![p] = "pending"] /\ g' = g /\ o' = o
        \/ /\ o[p] = "running" /\ t[p] = "pending" /\ g[p] = "shut"
           /\ g' = [g EXCEPT ![p] = "open"] /\ t' = t /\ o' = o
        \/ /\ t[p] = "pending" /\ g[p] = "open"
           /\ t' = [t EXCEPT ![p] = "finished"] /\ g' = g /\ o' = o
        \/ /\ o[p] = "running" /\ t[p] = "finished"
           /\ t' = [t EXCEPT ![p] = "none"] /\ g' = [g EXCEPT ![p] = "shut"] /\ o' = o
        \/ /\ o[p] = "running" /\ t[p] = "finished"
           /\ o' = [o EXCEPT ![p] = "passed"] /\ g' = g /\ t' = t
        \/ /\ o[p] = "running"
           /\ o' = [o EXCEPT ![p] = "failed"] /\ g' = g /\ t' = t
    BY <1>2 DEF Moves, Stutters
  <2> QED BY <2>1 DEF GateOf, TaskOf, OutcomeOf, Gated!gvars, Gated!Next, Gated!Submit,
              Gated!OpenGate, Gated!Finish, Gated!NextRound, Gated!Pass, Gated!Fail
<1>3. ASSUME \A q \in Proc : Stutters(q)
      PROVE  Gated!Next \/ UNCHANGED Gated!gvars
  BY <1>3 DEF Stutters, GateOf, TaskOf, OutcomeOf, Gated!gvars
<1>4. IInv /\ IInv' /\ [Next]_<<vars, program>> => [Gated!Next]_(Gated!gvars)
  <2> SUFFICES ASSUME IInv, IInv', [Next]_<<vars, program>>
               PROVE  Gated!Next \/ UNCHANGED Gated!gvars
    OBVIOUS
  <2>1. EffectType /\ TargetInv
    BY DEF IInv, TypeOK, GkitTypeOK
  <2>2. ASSUME NEW p \in Proc, Step(p)
        PROVE  Gated!Next \/ UNCHANGED Gated!gvars
    <3>1. Effect(p) /\ Control(p) /\ program' = program
      BY <2>2, ProcStep DEF Step
    <3>2. \A q \in Proc \ {p} : Stutters(q)
      BY <2>1, <3>1, EffectElsewhere, SameStutters
    <3> QED BY <1>2, <2>2, <3>2, StepMoves
  <2>3. ASSUME NEW b \in Object, Execute(b) \/ Signal(b) \/ Drain(b), program' = program
        PROVE  Gated!Next \/ UNCHANGED Gated!gvars
    <3>1. CASE Drain(b)
      BY <1>3, <2>1, <2>3, <3>1, DeviceElsewhere, SameStutters
    <3>2. CASE Execute(b) \/ Signal(b)
      <4>1. PICK p \in Proc : b \in Own(p)
        BY DEF Own, Object
      <4>2. \A q \in Proc \ {p} : b \notin Own(q)
        BY <4>1 DEF Own
      <4>3. \A q \in Proc \ {p} : Stutters(q)
        BY <2>1, <2>3, <3>2, <4>2, DeviceElsewhere, SameStutters
      <4> QED BY <1>2, <2>3, <3>2, <4>1, <4>3, DeviceMoves
    <3> QED BY <2>3, <3>1, <3>2
  <2>4. CASE UNCHANGED <<vars, program>>
    <3>1. \A q \in Proc : Same(q)
      BY <2>4 DEF vars, Same
    <3> QED BY <1>3, <2>4, <3>1, SameStutters
  <2> QED BY <2>2, <2>3, <2>4 DEF Next, AllExited, Device
<1> QED BY <1>1, <1>4, Invariant, PTL DEF Spec, KeepsPromise, Gated!Spec
====
