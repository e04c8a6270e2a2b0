-------------------------- MODULE FenceAwaitProofs --------------------------
(***************************************************************************)
(* Theorems about FenceAwait, for any set of processes, any set of calls   *)
(* that may fail, and either kind of ring; the kernel may even ignore the  *)
(* fence the store waits for.                                              *)
(***************************************************************************)
EXTENDS FenceAwait, GkitProofs

-----------------------------------------------------------------------------
(* The inductive invariant, one conjunct per piece of state.               *)

\* Which contents each object can have, and when the spinner can hold an end.
ContentInv(p) ==
    /\ mem[Spin(p)] \in {"zero", "spin", "end"}
    /\ mem[Store(p)] \in {"zero", "store"}
    /\ mem[Scratch(p)] \in {"zero", "written"}
    /\ wc[Store(p)] = "none" /\ wc[Scratch(p)] = "none"
    /\ pc[p] <= 18 => mem[Spin(p)] # "end" /\ wc[Spin(p)] \in {"none", "spin"}
    /\ pc[p] > 18 => wc[Spin(p)] \in {"none", "end"} /\ "end" \in {mem[Spin(p)], wc[Spin(p)]}

\* Requests exist from their submission on, on one ring, and the store has the
\* scratch object as its only target.
JobInv(p) ==
    /\ rq[Scratch(p)] = "none"
    /\ rq[Spin(p)] = "none" <=> pc[p] <= 9
    /\ rq[Store(p)] = "none" <=> pc[p] <= 14
    /\ pc[p] > 9 => job[Spin(p)].ring = Ring
    /\ job[Spin(p)].target = {}
    /\ job[Store(p)].target = IF pc[p] <= 14 THEN {} ELSE {Scratch(p)}

\* The order of events: end stored, spinner executed, spinner completed, store
\* executed, scratch object written.
OrderInv(p) ==
    /\ rq[Spin(p)] \in {"ran", "done"} => mem[Spin(p)] = "end"
    /\ rq[Store(p)] = "queued" => rq[Spin(p)] = "done" \/ Spin(p) \in job[Store(p)].after
    /\ rq[Store(p)] \in {"ran", "done"} => rq[Spin(p)] = "done"
    /\ mem[Scratch(p)] = "written" <=> rq[Store(p)] \in {"ran", "done"}

\* What the program holds at each statement.
HoldInv(p) ==
    /\ fence[p] = IF pc[p] \in 10..16 THEN {Spin(p)} ELSE {}
    /\ Scratch(p) \in mapped <=> pc[p] \in 5..22
    /\ Spin(p) \in mapped <=> pc[p] \in 7..22
    /\ Store(p) \notin mapped
    /\ Spin(p) \in open <=> pc[p] \in 4..10
    /\ Store(p) \in open <=> pc[p] \in 13..15
    /\ Scratch(p) \in open <=> pc[p] \in 3..23 /\ verdict[p] # "passed"

\* Where a process may end: not while the engine depends on it, but in store().
EndInv(p) ==
    /\ verdict[p] \notin {"assert", "sigsegv"}
    /\ verdict[p] # "running" => pc[p] \notin 10..11 \cup 15..19
    /\ verdict[p] = "passed" => pc[p] = 23
    /\ pc[p] > 20 => rq[Store(p)] = "done"

ProcInv(p) == ContentInv(p) /\ JobInv(p) /\ OrderInv(p) /\ HoldInv(p) /\ EndInv(p)

\* Only the two batches are ever submitted.
UnusedInv == \A o \in Object : o \notin {Spin(o[1]), Store(o[1])} => rq[o] = "none"

IInv == TypeOK /\ UnusedInv /\ \A p \in Proc : ProcInv(p)
-----------------------------------------------------------------------------
(* The objects of the processes.                                           *)

\* Each process has three objects of its own.
LEMMA Objects ==
    /\ \A p \in Proc : {Spin(p), Store(p), Scratch(p)} \subseteq Object
    /\ \A p \in Proc : Spin(p)[1] = p /\ Store(p)[1] = p /\ Scratch(p)[1] = p
    /\ \A o \in Object : o[1] \in Proc
    /\ \A p, q \in Proc : /\ Spin(p) # Store(q) /\ Spin(p) # Scratch(q)
                           /\ Store(p) # Scratch(q)
BY NameAssumption DEF Object, Spin, Store, Scratch

-----------------------------------------------------------------------------
(* Types.                                                                  *)

\* Every statement of the program keeps the types of the shared state.
LEMMA ProgramType ==
    ASSUME GkitTypeOK, NEW p \in Proc, Program(p)
    PROVE  GkitTypeOK'
<1> USE DEF GkitTypeOK
<1>1. Content = {"zero", "spin", "end", "store", "written"}
  BY DEF Content
<1>2. {"passed", "ioctl", "assert", "sigsegv"} \subseteq Verdict
  BY DEF Verdict
<1>3. {Spin(p), Store(p), Scratch(p)} \subseteq Object
  BY Objects
<1>4. CASE OpenDevice(p)
  BY <1>4, SameEffects DEF OpenDevice, drm_open_driver, ControlType
<1>5. CASE CreateScratch(p) \/ CreateSpinner(p) \/ CreateStore(p)
  BY <1>5, <1>2, <1>3, WrapperTypes, AdvanceType, ExitType, SameEffects
     DEF CreateScratch, CreateSpinner, CreateStore, Ioctl, Die
<1>6. CASE MapScratch(p) \/ MapSpinner(p)
  BY <1>6, <1>2, <1>3, WrapperTypes, AdvanceType, ExitType, SameEffects
     DEF MapScratch, MapSpinner, Ioctl, Die
<1>7. CASE ToGTT(p) \/ AwaitScratch(p)
  BY <1>7, <1>2, <1>3, WrapperTypes, AdvanceType, ExitType, SameEffects
     DEF ToGTT, AwaitScratch, Ioctl, Die
<1>8. CASE WriteStore(p)
  BY <1>8, <1>1, <1>2, <1>3, WrapperTypes, AdvanceType, ExitType, SameEffects
     DEF WriteStore, Ioctl, Die
<1>9. CASE FillSpinner(p) \/ Release(p)
  BY <1>9, <1>1, <1>2, <1>3, StoreType, AdvanceType, ExitType, SameEffects
     DEF FillSpinner, Release, Poke, Die
<1>10. CASE SubmitSpinner(p)
  <2>1. gem_execbuf_wr(p, Spin(p), Ring) => fence' \in [Proc -> SUBSET Object]
    BY <1>3 DEF gem_execbuf_wr, EffectType
  <2>2. gem_execbuf_wr(p, Spin(p), Ring) => EffectType'
    BY <2>1, <1>3, SubmitType, RingAssumption DEF gem_execbuf_wr
  <2> QED BY <1>10, <2>2, <1>2, AdvanceType, ExitType, SameEffects
          DEF SubmitSpinner, Ioctl, Die
<1>11. CASE SubmitStore(p)
  <2>1. gem_execbuf(Store(p), {Scratch(p)}, Ring, fence[p]) => EffectType'
    BY <1>3, SubmitType, RingAssumption DEF gem_execbuf, EffectType
  <2> QED BY <1>11, <2>1, <1>2, AdvanceType, ExitType, SameEffects
          DEF SubmitStore, Ioctl, Die
<1>12. CASE CloseSpinner(p) \/ CloseStore(p) \/ CloseFence(p) \/ Unmap(p)
  BY <1>12, <1>3, WrapperTypes, AdvanceType
     DEF CloseSpinner, CloseStore, CloseFence, Unmap, Unchecked
<1>13. CASE CheckFence(p) \/ CheckEarly(p) \/ CheckLate(p)
  BY <1>13, <1>2, AdvanceType, ExitType, SameEffects
     DEF CheckFence, CheckEarly, CheckLate, Check, Die
<1>14. CASE Publish(p)
  BY <1>14, BarrierType, AdvanceType DEF Publish, Barrier
<1>15. CASE CloseScratch(p)
  BY <1>15, <1>2, <1>3, WrapperTypes, ExitType DEF CloseScratch, Return
<1> QED BY <1>4, <1>5, <1>6, <1>7, <1>8, <1>9, <1>10, <1>11, <1>12, <1>13, <1>14, <1>15
        DEF Program

\* A step of p moves only p, by one statement, or ends it.
Moves(p) ==
    /\ verdict[p] = "running"
    /\ \/ pc[p] # 23 /\ pc' = [pc EXCEPT ![p] = @ + 1] /\ verdict' = verdict
       \/ pc' = pc /\ \E v \in Verdict : verdict' = [verdict EXCEPT ![p] = v]

LEMMA MovesBy ==
    ASSUME TypeOK, NEW p \in Proc
    PROVE  /\ \A n \in 1..22 : At(p, n) /\ Advance(p) => Moves(p)
           /\ \A n \in 1..23 : \A v \in {"passed", "ioctl", "assert", "sigsegv"} :
                  At(p, n) /\ Exit(p, v) => Moves(p)
           /\ \A n \in 1..23 : \A v \in {"passed", "ioctl", "assert", "sigsegv"} :
                  At(p, n) /\ Die(p, v) => Moves(p)
BY DEF Moves, At, Advance, Exit, Die, Verdict

LEMMA ProgramMoves ==
    ASSUME TypeOK, NEW p \in Proc, Program(p)
    PROVE  Moves(p)
<1>1. CASE OpenDevice(p)
  BY <1>1 DEF OpenDevice, drm_open_driver, Moves, At, Advance, TypeOK, GkitTypeOK, ControlType
<1>2. CASE CreateScratch(p) \/ CreateSpinner(p) \/ CreateStore(p)
  BY <1>2, MovesBy DEF CreateScratch, CreateSpinner, CreateStore, Ioctl
<1>3. CASE MapScratch(p) \/ MapSpinner(p) \/ AwaitScratch(p)
  BY <1>3, MovesBy DEF MapScratch, MapSpinner, AwaitScratch, Ioctl, gem_set_domain
<1>10. CASE ToGTT(p)
  BY <1>10, MovesBy DEF ToGTT, Ioctl, gem_set_domain
<1>4. CASE WriteStore(p) \/ SubmitSpinner(p) \/ SubmitStore(p)
  BY <1>4, MovesBy DEF WriteStore, SubmitSpinner, SubmitStore, Ioctl
<1>5. CASE FillSpinner(p) \/ Release(p)
  BY <1>5, MovesBy DEF FillSpinner, Release, Poke
<1>6. CASE CloseSpinner(p) \/ CloseStore(p) \/ CloseFence(p) \/ Unmap(p)
  BY <1>6, MovesBy DEF CloseSpinner, CloseStore, CloseFence, Unmap, Unchecked
<1>7. CASE CheckFence(p) \/ CheckEarly(p) \/ CheckLate(p)
  BY <1>7, MovesBy DEF CheckFence, CheckEarly, CheckLate, Check
<1>8. CASE Publish(p)
  BY <1>8, MovesBy DEF Publish, Barrier
<1>9. CASE CloseScratch(p)
  BY <1>9, MovesBy DEF CloseScratch, Return
<1> QED BY <1>1, <1>2, <1>3, <1>4, <1>5, <1>6, <1>7, <1>8, <1>9, <1>10 DEF Program

LEMMA TypeStep == TypeOK /\ [Next]_vars => TypeOK'
<1> SUFFICES ASSUME TypeOK, [Next]_vars PROVE TypeOK'
  OBVIOUS
<1>1. CASE \E p \in Proc : Program(p)
  <2>1. PICK p \in Proc : Program(p)
    BY <1>1
  <2>2. pc' \in [Proc -> 1..23]
    BY <2>1, ProgramMoves DEF Moves, TypeOK, GkitTypeOK, ControlType, At, Advance, Exit
  <2> QED BY <2>1, <2>2, ProgramType DEF TypeOK
<1>2. CASE Device
  BY <1>2, DeviceType DEF TypeOK, control
<1>3. CASE AllExited \/ UNCHANGED vars
  BY <1>3 DEF AllExited, vars, TypeOK, GkitTypeOK, ControlType, EffectType
<1> QED BY <1>1, <1>2, <1>3 DEF Next

\* The state of the program and of the device is always of its type.
THEOREM TypeCorrect == Spec => []TypeOK
<1>1. Init => TypeOK
  BY InitType DEF Init, GkitInit, TypeOK
<1> QED BY <1>1, TypeStep, PTL DEF Spec
-----------------------------------------------------------------------------
(* The inductive invariant.                                                *)

\* What a step leaves of process q, save for a buffered store that lands.
Same(q) ==
    /\ pc'[q] = pc[q] /\ verdict'[q] = verdict[q] /\ fence'[q] = fence[q]
    /\ \A o \in {Spin(q), Store(q), Scratch(q)} :
          /\ rq'[o] = rq[o]
          /\ job'[o].ring = job[o].ring /\ job'[o].target = job[o].target
          /\ o \in open' <=> o \in open
          /\ o \in mapped' <=> o \in mapped
          /\ \/ mem'[o] = mem[o] /\ wc'[o] = wc[o]
             \/ mem'[o] = Landed[o] /\ wc'[o] = "none"
    /\ Spin(q) \in job'[Store(q)].after <=> Spin(q) \in job[Store(q)].after

LEMMA SameKeeps ==
    ASSUME IInv, NEW q \in Proc, Same(q)
    PROVE  ProcInv(q)'
<1>1. \A o \in {Spin(q), Store(q), Scratch(q)} :
          Landed[o] = IF wc[o] = "none" THEN mem[o] ELSE wc[o]
  BY Objects DEF Landed
<1>2. ProcInv(q) /\ pc[q] \in 1..23
  BY DEF IInv, TypeOK
<1>3. ContentInv(q)'
  BY <1>1, <1>2 DEF ProcInv, ContentInv, Same
<1>4. JobInv(q)'
  BY <1>2 DEF ProcInv, JobInv, Same
<1>5. OrderInv(q)'
  BY <1>1, <1>2 DEF ProcInv, OrderInv, ContentInv, Same
<1>6. HoldInv(q)' /\ EndInv(q)'
  BY <1>2 DEF ProcInv, HoldInv, EndInv, Same
<1> QED BY <1>3, <1>4, <1>5, <1>6 DEF ProcInv

\* A statement of p leaves the other processes as they are: their handles are
\* private, and the only thing a submission does for them is to land stores.
LEMMA ElsewhereSame ==
    ASSUME IInv, NEW p \in Proc, Program(p), NEW q \in Proc \ {p}
    PROVE  Same(q)
<1>1. pc'[q] = pc[q] /\ verdict'[q] = verdict[q]
  BY ProgramMoves DEF Moves, IInv, TypeOK, GkitTypeOK, ControlType
<1>2. EffectType
  BY DEF IInv, TypeOK, GkitTypeOK
<1>3. \A o \in {Spin(q), Store(q), Scratch(q)} :
          o \in Object /\ o[1] = q /\ o \notin {Spin(p), Store(p), Scratch(p)}
  BY Objects
<1>4. {Spin(p), Store(p), Scratch(p)} \subseteq Object
  BY Objects
<1> USE <1>1, <1>2, <1>3, <1>4 DEF Same, EffectType
<1>5. CASE UNCHANGED effects
  BY <1>5 DEF effects
<1>6. CASE \E o \in {Spin(p), Store(p), Scratch(p)} : gem_create(o) \/ gem_close(o)
  BY <1>6 DEF gem_create, gem_close, memory
<1>7. CASE \E o \in {Spin(p), Store(p), Scratch(p)} : gem_mmap__wc(o)
  BY <1>7 DEF gem_mmap__wc, memory
<1>8. CASE munmap({Spin(p), Scratch(p)}) \/ SetFence(p, {})
  BY <1>8 DEF munmap, SetFence, objects, memory
<1>9. CASE gem_write(Store(p), "store")
  BY <1>9 DEF gem_write, objects
<1>10. CASE FillSpinner(p) \/ Release(p)
  BY <1>10, <1>5 DEF FillSpinner, Release, Poke, Die, objects
<1>11. CASE Publish(p)
  BY <1>11 DEF Publish, Barrier, objects
<1>12. CASE gem_execbuf_wr(p, Spin(p), Ring)
  BY <1>12 DEF gem_execbuf_wr, Submit, objects
<1>13. CASE gem_execbuf(Store(p), {Scratch(p)}, Ring, fence[p])
  BY <1>13 DEF gem_execbuf, Submit, objects
<1>14. QED
  BY <1>5, <1>6, <1>7, <1>8, <1>9, <1>10, <1>11, <1>12, <1>13
     DEF Program, OpenDevice, CreateScratch, CreateSpinner, MapScratch, ToGTT, MapSpinner,
         SubmitSpinner, CloseSpinner, CheckFence, CreateStore, WriteStore, SubmitStore,
         CloseStore, CloseFence, CheckEarly, AwaitScratch, CheckLate, Unmap, CloseScratch,
         drm_open_driver, Ioctl, Check, Unchecked, Return, Die, gem_set_domain

\* A call that fails ends p at its statement and changes nothing else.
LEMMA FailKeeps ==
    ASSUME IInv, NEW p \in Proc, NEW n \in {1, 2, 3, 4, 5, 6, 7, 8, 9, 12, 13, 14, 20},
           At(p, n), Die(p, "ioctl")
    PROVE  ProcInv(p)'
<1>1. pc' = pc /\ pc[p] = n /\ verdict[p] = "running" /\ verdict'[p] = "ioctl"
  BY DEF IInv, TypeOK, GkitTypeOK, ControlType, Die, Exit, At
<1>2. UNCHANGED <<fence, open, mapped, mem, wc, rq, job>>
  BY DEF Die, effects
<1>3. ProcInv(p)
  BY DEF IInv
<1>4. ContentInv(p)' /\ JobInv(p)' /\ OrderInv(p)'
  BY <1>1, <1>2, <1>3 DEF ProcInv, ContentInv, JobInv, OrderInv
<1>5. HoldInv(p)'
  BY <1>1, <1>2, <1>3 DEF ProcInv, HoldInv
<1>6. EndInv(p)'
  BY <1>1, <1>2, <1>3 DEF ProcInv, EndInv
<1> QED BY <1>4, <1>5, <1>6 DEF ProcInv

\* A statement that moves on to the next one.
Steps(p) == verdict[p] = "running" /\ pc'[p] = pc[p] + 1 /\ verdict' = verdict

LEMMA AdvanceSteps ==
    ASSUME IInv, NEW p \in Proc, NEW n \in 1..23, At(p, n), Advance(p)
    PROVE  Steps(p) /\ pc[p] = n /\ pc'[p] = n + 1
BY DEF IInv, TypeOK, At, Advance, Steps

\* Statements that neither submit nor store leave the requests in order.
LEMMA QuietRequests ==
    ASSUME IInv, NEW p \in Proc, Steps(p), pc[p] \notin {9, 14, 18},
           UNCHANGED <<mem, wc, rq, job>>
    PROVE  ContentInv(p)' /\ JobInv(p)' /\ OrderInv(p)'
<1>1. ProcInv(p) /\ pc[p] \in 1..23 /\ pc'[p] = pc[p] + 1
  BY DEF IInv, TypeOK, Steps
<1> QED BY <1>1 DEF ProcInv, ContentInv, JobInv, OrderInv

\* EndInv only asks that nobody ends at a wrong place, and for the wait at 20.
LEMMA StepsEnd ==
    ASSUME IInv, NEW p \in Proc, Steps(p), rq'[Store(p)] = rq[Store(p)],
           pc[p] = 20 => rq[Store(p)] = "done"
    PROVE  EndInv(p)'
<1>1. ProcInv(p) /\ pc[p] \in 1..23 /\ pc'[p] = pc[p] + 1
  BY DEF IInv, TypeOK, Steps
<1> QED BY <1>1 DEF ProcInv, EndInv, Steps

\* A statement of p keeps the invariant of p.
LEMMA OwnStep ==
    ASSUME IInv, NEW p \in Proc, Program(p)
    PROVE  ProcInv(p)'
<1>1. ProcInv(p) /\ pc[p] \in 1..23
  BY DEF IInv, TypeOK
<1>2. EffectType
  BY DEF IInv, TypeOK, GkitTypeOK
<1>3. {Spin(p), Store(p), Scratch(p)} \subseteq Object
  BY Objects
<1>4. Spin(p) # Store(p) /\ Spin(p) # Scratch(p) /\ Store(p) # Scratch(p)
  BY Objects
<1>5. CASE OpenDevice(p)
  <2>1. Steps(p) /\ pc[p] = 1 /\ pc'[p] = 2
    BY <1>5 DEF OpenDevice, drm_open_driver, At, Steps, IInv, TypeOK
  <2>2. UNCHANGED <<fence, open, mapped, mem, wc, rq, job>>
    BY <1>5 DEF OpenDevice, drm_open_driver, effects
  <2>3. HoldInv(p)'
    BY <1>1, <2>1, <2>2 DEF ProcInv, HoldInv, Steps
  <2> QED BY <2>1, <2>2, <2>3, QuietRequests, StepsEnd DEF ProcInv
<1>6. CASE CreateScratch(p)
  <2>1. CASE Die(p, "ioctl")
    BY <1>6, <2>1, FailKeeps DEF CreateScratch, Ioctl
  <2>2. CASE gem_create(Scratch(p)) /\ Advance(p)
    <3>1. Steps(p) /\ pc[p] = 2 /\ pc'[p] = 2 + 1
      BY <1>6, <2>2, AdvanceSteps DEF CreateScratch, Ioctl
    <3>2. /\ UNCHANGED <<fence, mapped, wc, rq, job>> /\ open' = open \cup {Scratch(p)}
          /\ mem' = [mem EXCEPT ![Scratch(p)] = "zero"]
      BY <2>2 DEF gem_create
    <3>3. ContentInv(p)' /\ JobInv(p)' /\ OrderInv(p)'
      BY <1>1, <1>2, <1>3, <1>4, <3>1, <3>2
         DEF EffectType, ProcInv, ContentInv, JobInv, OrderInv
    <3>4. HoldInv(p)'
      BY <1>1, <1>4, <3>1, <3>2 DEF ProcInv, HoldInv, Steps, EndInv
    <3> QED BY <3>1, <3>2, <3>3, <3>4, StepsEnd DEF ProcInv
  <2> QED BY <1>6, <2>1, <2>2 DEF CreateScratch, Ioctl
<1>7. CASE CreateSpinner(p)
  <2>1. CASE Die(p, "ioctl")
    BY <1>7, <2>1, FailKeeps DEF CreateSpinner, Ioctl
  <2>2. CASE gem_create(Spin(p)) /\ Advance(p)
    <3>1. Steps(p) /\ pc[p] = 3 /\ pc'[p] = 3 + 1
      BY <1>7, <2>2, AdvanceSteps DEF CreateSpinner, Ioctl
    <3>2. /\ UNCHANGED <<fence, mapped, wc, rq, job>> /\ open' = open \cup {Spin(p)}
          /\ mem' = [mem EXCEPT ![Spin(p)] = "zero"]
      BY <2>2 DEF gem_create
    <3>3. ContentInv(p)' /\ JobInv(p)' /\ OrderInv(p)'
      BY <1>1, <1>2, <1>3, <1>4, <3>1, <3>2
         DEF EffectType, ProcInv, ContentInv, JobInv, OrderInv
    <3>4. HoldInv(p)'
      BY <1>1, <1>4, <3>1, <3>2 DEF ProcInv, HoldInv, Steps, EndInv
    <3> QED BY <3>1, <3>2, <3>3, <3>4, StepsEnd DEF ProcInv
  <2> QED BY <1>7, <2>1, <2>2 DEF CreateSpinner, Ioctl
<1>8. CASE MapScratch(p)
  <2>1. CASE Die(p, "ioctl")
    BY <1>8, <2>1, FailKeeps DEF MapScratch, Ioctl
  <2>2. CASE gem_mmap__wc(Scratch(p)) /\ Advance(p)
    <3>1. Steps(p) /\ pc[p] = 4 /\ pc'[p] = 4 + 1
      BY <1>8, <2>2, AdvanceSteps DEF MapScratch, Ioctl
    <3>2. UNCHANGED <<fence, open, mem, wc, rq, job>> /\ mapped' = mapped \cup {Scratch(p)}
      BY <2>2 DEF gem_mmap__wc, memory
    <3>3. HoldInv(p)'
      BY <1>1, <1>4, <3>1, <3>2 DEF ProcInv, HoldInv, Steps
    <3> QED BY <3>1, <3>2, <3>3, QuietRequests, StepsEnd DEF ProcInv
  <2> QED BY <1>8, <2>1, <2>2 DEF MapScratch, Ioctl
<1>9. CASE ToGTT(p)
  <2>1. PICK n \in {5, 7} : Ioctl(p, n, "domain", Spin(p) \in open, gem_set_domain(Spin(p), TRUE))
    BY <1>9 DEF ToGTT
  <2>2. CASE Die(p, "ioctl")
    BY <2>1, <2>2, FailKeeps DEF Ioctl, gem_set_domain
  <2>3. CASE UNCHANGED effects /\ Advance(p)
    <3>1. Steps(p) /\ pc[p] = n /\ pc'[p] = n + 1
      BY <2>1, <2>3, AdvanceSteps DEF Ioctl, gem_set_domain
    <3>2. HoldInv(p)'
      BY <1>1, <2>3, <3>1 DEF ProcInv, HoldInv, Steps, effects
    <3> QED BY <2>3, <3>1, <3>2, QuietRequests, StepsEnd DEF ProcInv, effects
  <2> QED BY <2>1, <2>2, <2>3 DEF Ioctl, gem_set_domain
<1>10. CASE MapSpinner(p)
  <2>1. CASE Die(p, "ioctl")
    BY <1>10, <2>1, FailKeeps DEF MapSpinner, Ioctl
  <2>2. CASE gem_mmap__wc(Spin(p)) /\ Advance(p)
    <3>1. Steps(p) /\ pc[p] = 6 /\ pc'[p] = 6 + 1
      BY <1>10, <2>2, AdvanceSteps DEF MapSpinner, Ioctl
    <3>2. UNCHANGED <<fence, open, mem, wc, rq, job>> /\ mapped' = mapped \cup {Spin(p)}
      BY <2>2 DEF gem_mmap__wc, memory
    <3>3. HoldInv(p)'
      BY <1>1, <1>4, <3>1, <3>2 DEF ProcInv, HoldInv, Steps
    <3> QED BY <3>1, <3>2, <3>3, QuietRequests, StepsEnd DEF ProcInv
  <2> QED BY <1>10, <2>1, <2>2 DEF MapSpinner, Ioctl
<1>11. CASE FillSpinner(p)
  <2>1. Steps(p) /\ pc[p] = 8 /\ pc'[p] = 8 + 1
    BY <1>11, <1>1, AdvanceSteps DEF FillSpinner, Poke, At, ProcInv, HoldInv
  <2>2. /\ UNCHANGED <<fence, open, mapped, mem, rq, job>>
        /\ wc' = [wc EXCEPT ![Spin(p)] = "spin"]
    BY <1>11, <1>1, <2>1 DEF FillSpinner, Poke, At, ProcInv, HoldInv, objects
  <2>3. ContentInv(p)' /\ JobInv(p)' /\ OrderInv(p)'
    BY <1>1, <1>2, <1>3, <1>4, <2>1, <2>2
       DEF EffectType, ProcInv, ContentInv, JobInv, OrderInv
  <2>4. HoldInv(p)'
    BY <1>1, <2>1, <2>2 DEF ProcInv, HoldInv, Steps
  <2> QED BY <2>1, <2>2, <2>3, <2>4, StepsEnd DEF ProcInv
<1>12. CASE SubmitSpinner(p)
  <2>1. CASE Die(p, "ioctl")
    BY <1>12, <2>1, FailKeeps DEF SubmitSpinner, Ioctl
  <2>2. CASE gem_execbuf_wr(p, Spin(p), Ring) /\ Advance(p)
    <3>1. Steps(p) /\ pc[p] = 9 /\ pc'[p] = 10
      BY <1>12, <2>2, AdvanceSteps DEF SubmitSpinner, Ioctl
    <3>2. /\ rq' = [rq EXCEPT ![Spin(p)] = "queued"]
          /\ fence' = [fence EXCEPT ![p] = {Spin(p)}] /\ UNCHANGED <<open, mapped>>
      BY <2>2 DEF gem_execbuf_wr, Submit, objects
    <3>3. /\ job'[Spin(p)].ring = Ring /\ job'[Spin(p)].target = {}
          /\ job'[Store(p)] = job[Store(p)]
      BY <1>2, <1>3, <1>4, <2>2 DEF gem_execbuf_wr, Submit, EffectType
    <3>4. \A o \in {Spin(p), Store(p), Scratch(p)} :
              mem'[o] = (IF wc[o] = "none" THEN mem[o] ELSE wc[o]) /\ wc'[o] = "none"
      BY <1>3, <2>2 DEF gem_execbuf_wr, Submit, Landed
    <3>5. ContentInv(p)'
      BY <1>1, <3>1, <3>4 DEF ProcInv, ContentInv
    <3>6. JobInv(p)'
      BY <1>1, <1>2, <1>3, <1>4, <3>1, <3>2, <3>3 DEF EffectType, ProcInv, JobInv
    <3>7. OrderInv(p)'
      BY <1>1, <1>2, <1>3, <1>4, <3>1, <3>2, <3>4
         DEF EffectType, ProcInv, ContentInv, JobInv, OrderInv
    <3>8. HoldInv(p)'
      BY <1>1, <1>2, <3>1, <3>2 DEF EffectType, ProcInv, HoldInv, Steps
    <3>9. rq'[Store(p)] = rq[Store(p)]
      BY <1>2, <1>3, <1>4, <3>2 DEF EffectType
    <3> QED BY <3>1, <3>5, <3>6, <3>7, <3>8, <3>9, StepsEnd DEF ProcInv
  <2> QED BY <1>12, <2>1, <2>2 DEF SubmitSpinner, Ioctl
<1>13. CASE CloseSpinner(p)
  <2>1. Steps(p) /\ pc[p] = 10 /\ pc'[p] = 10 + 1
    BY <1>13, AdvanceSteps DEF CloseSpinner, Unchecked
  <2>2. UNCHANGED <<fence, mapped, mem, wc, rq, job>> /\ open' = open \ {Spin(p)}
    BY <1>13 DEF CloseSpinner, Unchecked, gem_close, memory
  <2>3. HoldInv(p)'
    BY <1>1, <1>2, <1>4, <2>1, <2>2 DEF EffectType, ProcInv, HoldInv, Steps
  <2> QED BY <2>1, <2>2, <2>3, QuietRequests, StepsEnd DEF ProcInv
<1>14. CASE CheckFence(p)
  <2>1. At(p, 11)
    BY <1>14 DEF CheckFence, Check
  <2>2. fence[p] # {}
    BY <1>1, <2>1 DEF At, ProcInv, ContentInv, OrderInv, HoldInv, EndInv
  <2>3. Advance(p) /\ UNCHANGED <<fence, open, mapped, mem, wc, rq, job>>
    BY <1>14, <2>2 DEF CheckFence, Check, effects
  <2>4. Steps(p) /\ pc[p] = 11 /\ pc'[p] = 11 + 1
    BY <2>1, <2>3, AdvanceSteps
  <2>5. HoldInv(p)'
    BY <1>1, <2>3, <2>4 DEF ProcInv, HoldInv, Steps
  <2> QED BY <2>2, <2>3, <2>4, <2>5, QuietRequests, StepsEnd DEF ProcInv
<1>15. CASE CreateStore(p)
  <2>1. CASE Die(p, "ioctl")
    BY <1>15, <2>1, FailKeeps DEF CreateStore, Ioctl
  <2>2. CASE gem_create(Store(p)) /\ Advance(p)
    <3>1. Steps(p) /\ pc[p] = 12 /\ pc'[p] = 12 + 1
      BY <1>15, <2>2, AdvanceSteps DEF CreateStore, Ioctl
    <3>2. /\ UNCHANGED <<fence, mapped, wc, rq, job>> /\ open' = open \cup {Store(p)}
          /\ mem' = [mem EXCEPT ![Store(p)] = "zero"]
      BY <2>2 DEF gem_create
    <3>3. ContentInv(p)' /\ JobInv(p)' /\ OrderInv(p)'
      BY <1>1, <1>2, <1>3, <1>4, <3>1, <3>2
         DEF EffectType, ProcInv, ContentInv, JobInv, OrderInv
    <3>4. HoldInv(p)'
      BY <1>1, <1>4, <3>1, <3>2 DEF ProcInv, HoldInv, Steps, EndInv
    <3> QED BY <3>1, <3>2, <3>3, <3>4, StepsEnd DEF ProcInv
  <2> QED BY <1>15, <2>1, <2>2 DEF CreateStore, Ioctl
<1>16. CASE WriteStore(p)
  <2>1. CASE Die(p, "ioctl")
    BY <1>16, <2>1, FailKeeps DEF WriteStore, Ioctl
  <2>2. CASE gem_write(Store(p), "store") /\ Advance(p)
    <3>1. Steps(p) /\ pc[p] = 13 /\ pc'[p] = 14
      BY <1>16, <2>2, AdvanceSteps DEF WriteStore, Ioctl
    <3>2. /\ UNCHANGED <<fence, open, mapped, wc, rq, job>>
          /\ mem' = [mem EXCEPT ![Store(p)] = "store"]
      BY <2>2 DEF gem_write, objects
    <3>3. ContentInv(p)' /\ JobInv(p)' /\ OrderInv(p)'
      BY <1>1, <1>2, <1>3, <1>4, <3>1, <3>2
         DEF EffectType, ProcInv, ContentInv, JobInv, OrderInv
    <3>4. HoldInv(p)'
      BY <1>1, <3>1, <3>2 DEF ProcInv, HoldInv, Steps
    <3> QED BY <3>1, <3>2, <3>3, <3>4, StepsEnd DEF ProcInv
  <2> QED BY <1>16, <2>1, <2>2 DEF WriteStore, Ioctl
<1>17. CASE SubmitStore(p)
  <2>1. CASE Die(p, "ioctl")
    BY <1>17, <2>1, FailKeeps DEF SubmitStore, Ioctl
  <2>2. CASE gem_execbuf(Store(p), {Scratch(p)}, Ring, fence[p]) /\ Advance(p)
    <3>1. Steps(p) /\ pc[p] = 14 /\ pc'[p] = 15
      BY <1>17, <2>2, AdvanceSteps DEF SubmitStore, Ioctl
    <3>2. rq' = [rq EXCEPT ![Store(p)] = "queued"] /\ UNCHANGED <<fence, open, mapped>>
      BY <2>2 DEF gem_execbuf, Submit, objects
    <3>3. /\ job'[Spin(p)] = job[Spin(p)] /\ job'[Store(p)].target = {Scratch(p)}
          /\ {r \in Object \ {Store(p)} : InFlight(r) /\ job[r].ring = Ring
                                          /\ (SharedRing \/ r[1] = Store(p)[1])}
                \subseteq job'[Store(p)].after
      BY <1>2, <1>3, <1>4, <2>2 DEF gem_execbuf, Submit, EffectType
    <3>4. \A o \in {Spin(p), Store(p), Scratch(p)} :
              mem'[o] = (IF wc[o] = "none" THEN mem[o] ELSE wc[o]) /\ wc'[o] = "none"
      BY <1>3, <2>2 DEF gem_execbuf, Submit, Landed
    <3>5. ContentInv(p)'
      BY <1>1, <3>1, <3>4 DEF ProcInv, ContentInv
    <3>6. JobInv(p)'
      BY <1>1, <1>2, <1>3, <1>4, <3>1, <3>2, <3>3 DEF EffectType, ProcInv, JobInv
    <3>7. rq[Spin(p)] = "done" \/ Spin(p) \in job'[Store(p)].after
      \* the spinner is in flight on the same ring, so the store queues behind it
      <4>1. rq[Spin(p)] \in {"queued", "ran", "done"} /\ job[Spin(p)].ring = Ring
        BY <1>1, <1>2, <1>3, <3>1 DEF EffectType, ProcInv, JobInv
      <4> QED BY <1>3, <1>4, <3>3, <4>1, Objects DEF InFlight
    <3>8. OrderInv(p)'
      BY <1>1, <1>2, <1>3, <1>4, <3>1, <3>2, <3>4, <3>7
         DEF EffectType, ProcInv, ContentInv, JobInv, OrderInv
    <3>9. HoldInv(p)'
      BY <1>1, <3>1, <3>2 DEF ProcInv, HoldInv, Steps
    <3>10. EndInv(p)'
      BY <1>1, <3>1 DEF ProcInv, EndInv, Steps
    <3> QED BY <3>5, <3>6, <3>8, <3>9, <3>10 DEF ProcInv
  <2> QED BY <1>17, <2>1, <2>2 DEF SubmitStore, Ioctl
<1>18. CASE CloseStore(p)
  <2>1. Steps(p) /\ pc[p] = 15 /\ pc'[p] = 15 + 1
    BY <1>18, AdvanceSteps DEF CloseStore, Unchecked
  <2>2. UNCHANGED <<fence, mapped, mem, wc, rq, job>> /\ open' = open \ {Store(p)}
    BY <1>18 DEF CloseStore, Unchecked, gem_close, memory
  <2>3. HoldInv(p)'
    BY <1>1, <1>2, <1>4, <2>1, <2>2 DEF EffectType, ProcInv, HoldInv, Steps
  <2> QED BY <2>1, <2>2, <2>3, QuietRequests, StepsEnd DEF ProcInv
<1>19. CASE CloseFence(p)
  <2>1. Steps(p) /\ pc[p] = 16 /\ pc'[p] = 16 + 1
    BY <1>19, AdvanceSteps DEF CloseFence, Unchecked
  <2>2. UNCHANGED <<open, mapped, mem, wc, rq, job>> /\ fence' = [fence EXCEPT ![p] = {}]
    BY <1>19 DEF CloseFence, Unchecked, SetFence, objects, memory
  <2>3. HoldInv(p)'
    BY <1>1, <1>2, <1>4, <2>1, <2>2 DEF EffectType, ProcInv, HoldInv, Steps
  <2> QED BY <2>1, <2>2, <2>3, QuietRequests, StepsEnd DEF ProcInv
<1>20. CASE CheckEarly(p)
  <2>1. At(p, 17)
    BY <1>20 DEF CheckEarly, Check
  <2>2. mem[Scratch(p)] = "zero"
    BY <1>1, <2>1 DEF At, ProcInv, ContentInv, OrderInv, HoldInv, EndInv
  <2>3. Advance(p) /\ UNCHANGED <<fence, open, mapped, mem, wc, rq, job>>
    BY <1>20, <2>2 DEF CheckEarly, Check, effects
  <2>4. Steps(p) /\ pc[p] = 17 /\ pc'[p] = 17 + 1
    BY <2>1, <2>3, AdvanceSteps
  <2>5. HoldInv(p)'
    BY <1>1, <2>3, <2>4 DEF ProcInv, HoldInv, Steps
  <2> QED BY <2>2, <2>3, <2>4, <2>5, QuietRequests, StepsEnd DEF ProcInv
<1>21. CASE Release(p)
  <2>1. Steps(p) /\ pc[p] = 18 /\ pc'[p] = 18 + 1
    BY <1>21, <1>1, AdvanceSteps DEF Release, Poke, At, ProcInv, HoldInv
  <2>2. /\ UNCHANGED <<fence, open, mapped, mem, rq, job>>
        /\ wc' = [wc EXCEPT ![Spin(p)] = "end"]
    BY <1>21, <1>1, <2>1 DEF Release, Poke, At, ProcInv, HoldInv, objects
  <2>3. ContentInv(p)' /\ JobInv(p)' /\ OrderInv(p)'
    BY <1>1, <1>2, <1>3, <1>4, <2>1, <2>2
       DEF EffectType, ProcInv, ContentInv, JobInv, OrderInv
  <2>4. HoldInv(p)'
    BY <1>1, <2>1, <2>2 DEF ProcInv, HoldInv, Steps
  <2> QED BY <2>1, <2>2, <2>3, <2>4, StepsEnd DEF ProcInv
<1>22. CASE Publish(p)
  <2>1. Steps(p) /\ pc[p] = 19 /\ pc'[p] = 20
    BY <1>22, AdvanceSteps DEF Publish, Barrier
  <2>2. UNCHANGED <<fence, open, mapped, rq, job>>
    BY <1>22 DEF Publish, Barrier, objects
  <2>3. \A o \in {Spin(p), Store(p), Scratch(p)} :
            mem'[o] = (IF wc[o] = "none" THEN mem[o] ELSE wc[o]) /\ wc'[o] = "none"
    BY <1>22, <1>3, Objects DEF Publish, Barrier, Landed
  <2>4. ContentInv(p)' /\ JobInv(p)' /\ OrderInv(p)'
    BY <1>1, <2>1, <2>2, <2>3 DEF ProcInv, ContentInv, JobInv, OrderInv
  <2>5. HoldInv(p)'
    BY <1>1, <2>1, <2>2 DEF ProcInv, HoldInv, Steps
  <2> QED BY <2>1, <2>2, <2>4, <2>5, StepsEnd DEF ProcInv
<1>23. CASE AwaitScratch(p)
  <2>1. CASE Die(p, "ioctl")
    BY <1>23, <2>1, FailKeeps DEF AwaitScratch, Ioctl, gem_set_domain
  <2>2. CASE ~WriteBusy(Scratch(p)) /\ UNCHANGED effects /\ Advance(p)
    <3>1. Steps(p) /\ pc[p] = 20 /\ pc'[p] = 21
      BY <1>23, <2>2, AdvanceSteps DEF AwaitScratch, Ioctl, gem_set_domain
    <3>2. rq[Store(p)] = "done"
      \* the store names the scratch object as its target
      BY <1>1, <1>2, <1>3, <2>2, <3>1 DEF EffectType, WriteBusy, InFlight, ProcInv, JobInv
    <3>3. HoldInv(p)'
      BY <1>1, <2>2, <3>1 DEF ProcInv, HoldInv, Steps, effects
    <3> QED BY <2>2, <3>1, <3>2, <3>3, QuietRequests, StepsEnd DEF ProcInv, effects
  <2> QED BY <1>23, <2>1, <2>2 DEF AwaitScratch, Ioctl, gem_set_domain
<1>24. CASE CheckLate(p)
  <2>1. At(p, 21)
    BY <1>24 DEF CheckLate, Check
  <2>2. mem[Scratch(p)] = "written"
    BY <1>1, <2>1 DEF At, ProcInv, ContentInv, OrderInv, HoldInv, EndInv
  <2>3. Advance(p) /\ UNCHANGED <<fence, open, mapped, mem, wc, rq, job>>
    BY <1>24, <2>2 DEF CheckLate, Check, effects
  <2>4. Steps(p) /\ pc[p] = 21 /\ pc'[p] = 21 + 1
    BY <2>1, <2>3, AdvanceSteps
  <2>5. HoldInv(p)'
    BY <1>1, <2>3, <2>4 DEF ProcInv, HoldInv, Steps
  <2> QED BY <2>2, <2>3, <2>4, <2>5, QuietRequests, StepsEnd DEF ProcInv
<1>25. CASE Unmap(p)
  <2>1. Steps(p) /\ pc[p] = 22 /\ pc'[p] = 22 + 1
    BY <1>25, AdvanceSteps DEF Unmap, Unchecked
  <2>2. UNCHANGED <<fence, open, mem, wc, rq, job>> /\ mapped' = mapped \ {Spin(p), Scratch(p)}
    BY <1>25 DEF Unmap, Unchecked, munmap, memory
  <2>3. HoldInv(p)'
    BY <1>1, <1>2, <1>4, <2>1, <2>2 DEF EffectType, ProcInv, HoldInv, Steps
  <2> QED BY <2>1, <2>2, <2>3, QuietRequests, StepsEnd DEF ProcInv
<1>26. CASE CloseScratch(p)
  <2>1. pc' = pc /\ pc[p] = 23 /\ verdict'[p] = "passed"
    BY <1>26 DEF CloseScratch, Return, At, Exit, IInv, TypeOK, GkitTypeOK, ControlType
  <2>2. UNCHANGED <<fence, mapped, mem, wc, rq, job>> /\ open' = open \ {Scratch(p)}
    BY <1>26 DEF CloseScratch, Return, gem_close, memory
  <2>3. ContentInv(p)' /\ JobInv(p)' /\ OrderInv(p)'
    BY <1>1, <2>1, <2>2 DEF ProcInv, ContentInv, JobInv, OrderInv
  <2>4. HoldInv(p)'
    BY <1>1, <1>4, <2>1, <2>2 DEF ProcInv, HoldInv
  <2>5. EndInv(p)'
    BY <1>1, <2>1, <2>2 DEF ProcInv, EndInv
  <2> QED BY <2>3, <2>4, <2>5 DEF ProcInv
<1> QED BY <1>5, <1>6, <1>7, <1>8, <1>9, <1>10, <1>11, <1>12, <1>13, <1>14, <1>15,
          <1>16, <1>17, <1>18, <1>19, <1>20, <1>21, <1>22, <1>23, <1>24, <1>25, <1>26
        DEF Program

\* What a statement of p does to requests: two of them submit one.
LEMMA ProgramRequests ==
    ASSUME IInv, NEW p \in Proc, Program(p)
    PROVE  \/ rq' = rq
           \/ pc[p] = 9 /\ rq' = [rq EXCEPT ![Spin(p)] = "queued"]
           \/ pc[p] = 14 /\ pc'[p] = 15 /\ rq' = [rq EXCEPT ![Store(p)] = "queued"]
<1>1. CASE UNCHANGED effects
  BY <1>1 DEF effects
<1>2. CASE \E o \in Object : gem_create(o) \/ gem_close(o) \/ gem_mmap__wc(o) \/ gem_write(o, "store")
  BY <1>2 DEF gem_create, gem_close, gem_mmap__wc, gem_write
<1>3. CASE munmap({Spin(p), Scratch(p)}) \/ SetFence(p, {})
  BY <1>3 DEF munmap, SetFence
<1>4. CASE FillSpinner(p) \/ Release(p) \/ Publish(p)
  BY <1>4, <1>1 DEF FillSpinner, Release, Publish, Poke, Barrier, Die
<1>5. CASE SubmitSpinner(p)
  BY <1>5, <1>1 DEF SubmitSpinner, Ioctl, At, Die, gem_execbuf_wr, Submit
<1>6. CASE SubmitStore(p)
  <2>1. CASE Die(p, "ioctl")
    BY <2>1, <1>1 DEF Die
  <2>2. CASE gem_execbuf(Store(p), {Scratch(p)}, Ring, fence[p]) /\ Advance(p)
    BY <1>6, <2>2, AdvanceSteps DEF SubmitStore, Ioctl, gem_execbuf, Submit
  <2> QED BY <1>6, <2>1, <2>2 DEF SubmitStore, Ioctl
<1> QED
  BY <1>1, <1>2, <1>3, <1>4, <1>5, <1>6, Objects
     DEF Program, OpenDevice, CreateScratch, CreateSpinner, MapScratch, ToGTT, MapSpinner,
         CloseSpinner, CheckFence, CreateStore, WriteStore, CloseStore, CloseFence,
         CheckEarly, AwaitScratch, CheckLate, Unmap, CloseScratch,
         drm_open_driver, Ioctl, Check, Unchecked, Return, Die, gem_set_domain

\* The device runs a spinner only once it has its end, a store only behind it.
LEMMA ExecuteKeeps ==
    ASSUME IInv, NEW b \in Object, Execute(b), NEW q \in Proc
    PROVE  ProcInv(q)'
<1>1. ProcInv(q) /\ pc' = pc /\ pc[q] \in 1..23
  BY DEF IInv, TypeOK, Execute, control
<1>2. EffectType /\ ProcInv(b[1]) /\ b \in {Spin(b[1]), Store(b[1])}
  BY Objects DEF IInv, UnusedInv, TypeOK, GkitTypeOK, Execute
<1>3. /\ UNCHANGED <<verdict, fence, open, mapped, wc, job>>
      /\ rq[b] = "queued" /\ job[b].after = {} /\ mem[b] \in {"end", "store"}
      /\ rq' = [rq EXCEPT ![b] = "ran"]
      /\ mem' = [o \in Object |-> IF mem[b] = "store" /\ o \in job[b].target
                                  THEN "written" ELSE mem[o]]
  BY DEF Execute, control, objects
<1>4. {Spin(q), Store(q), Scratch(q)} \subseteq Object
  BY Objects
<1>5. CASE b \notin {Spin(q), Store(q), Scratch(q)}
  <2>1. job[b].target \subseteq {Scratch(b[1])} /\ b[1] \in Proc /\ b[1] # q
    BY <1>2, <1>3, <1>5, Objects DEF ProcInv, JobInv
  <2>2. Same(q)
    BY <1>1, <1>2, <1>3, <1>4, <1>5, <2>1, Objects DEF EffectType, Same
  <2> QED BY <2>2, SameKeeps
<1>6. CASE b = Spin(q)
  <2>1. mem[b] = "end" /\ mem' = mem
    BY <1>1, <1>2, <1>3, <1>6 DEF EffectType, ProcInv, ContentInv
  <2>2. rq'[Spin(q)] = "ran" /\ rq'[Store(q)] = rq[Store(q)] /\ rq'[Scratch(q)] = rq[Scratch(q)]
    BY <1>2, <1>3, <1>4, <1>6, Objects DEF EffectType
  <2>3. ContentInv(q)' /\ HoldInv(q)' /\ EndInv(q)'
    BY <1>1, <1>3, <2>1, <2>2 DEF ProcInv, ContentInv, HoldInv, EndInv
  <2>4. JobInv(q)' /\ OrderInv(q)'
    BY <1>1, <1>3, <1>6, <2>1, <2>2 DEF ProcInv, JobInv, OrderInv
  <2> QED BY <2>3, <2>4 DEF ProcInv
<1>7. CASE b = Store(q)
  <2>1. mem[b] = "store" /\ job[b].target = {Scratch(q)}
    BY <1>1, <1>3, <1>7 DEF ProcInv, ContentInv, JobInv
  <2>2. rq'[Store(q)] = "ran" /\ rq'[Spin(q)] = rq[Spin(q)] /\ rq'[Scratch(q)] = rq[Scratch(q)]
    BY <1>2, <1>3, <1>4, <1>7, Objects DEF EffectType
  <2>3. mem'[Scratch(q)] = "written" /\ mem'[Spin(q)] = mem[Spin(q)] /\ mem'[Store(q)] = mem[Store(q)]
    BY <1>3, <1>4, <2>1, Objects
  <2>4. ContentInv(q)' /\ HoldInv(q)'
    BY <1>1, <1>3, <2>3 DEF ProcInv, ContentInv, HoldInv
  <2>5. JobInv(q)' /\ OrderInv(q)' /\ EndInv(q)'
    BY <1>1, <1>3, <1>7, <2>2, <2>3 DEF ProcInv, JobInv, OrderInv, EndInv
  <2> QED BY <2>4, <2>5 DEF ProcInv
<1>8. CASE b = Scratch(q)
  BY <1>1, <1>3, <1>8 DEF ProcInv, JobInv
<1> QED BY <1>5, <1>6, <1>7, <1>8

\* Completing a request changes nobody's contents, and takes it out of the way of
\* the requests behind it.
LEMMA SignalKeeps ==
    ASSUME IInv, NEW b \in Object, Signal(b), NEW q \in Proc
    PROVE  ProcInv(q)'
<1>1. ProcInv(q) /\ pc' = pc /\ pc[q] \in 1..23
  BY DEF IInv, TypeOK, Signal, control
<1>2. EffectType
  BY DEF IInv, TypeOK, GkitTypeOK
<1>3. /\ UNCHANGED <<verdict, fence, open, mapped, mem, wc>>
      /\ rq[b] = "ran" /\ rq' = [rq EXCEPT ![b] = "done"]
      /\ job' = [r \in Object |-> [job[r] EXCEPT !.after = @ \ {b}]]
  BY DEF Signal, control, objects, memory
<1>4. {Spin(q), Store(q), Scratch(q)} \subseteq Object
  BY Objects
<1>5. \A o \in {Spin(q), Store(q), Scratch(q)} :
          /\ job'[o].ring = job[o].ring /\ job'[o].target = job[o].target
          /\ job'[o].after = job[o].after \ {b}
          /\ rq'[o] = IF o = b THEN "done" ELSE rq[o]
  BY <1>2, <1>3, <1>4 DEF EffectType, Job
<1>6. ContentInv(q)' /\ HoldInv(q)'
  BY <1>1, <1>3 DEF ProcInv, ContentInv, HoldInv
<1>7. JobInv(q)' /\ OrderInv(q)' /\ EndInv(q)'
  BY <1>1, <1>3, <1>5, Objects DEF ProcInv, JobInv, OrderInv, EndInv
<1> QED BY <1>6, <1>7 DEF ProcInv

\* A buffered store that lands by itself is what Same allows.
LEMMA DrainKeeps ==
    ASSUME IInv, NEW o \in Object, Drain(o), NEW q \in Proc
    PROVE  ProcInv(q)'
<1>1. EffectType
  BY DEF IInv, TypeOK, GkitTypeOK
<1>2. {Spin(q), Store(q), Scratch(q)} \subseteq Object
  BY Objects
<1>3. Same(q)
  BY <1>1, <1>2 DEF Drain, Same, Landed, EffectType, control, objects
<1> QED BY <1>3, SameKeeps

LEMMA InvInit == Init => IInv
<1> SUFFICES ASSUME Init, NEW p \in Proc PROVE ProcInv(p)
  BY InitType DEF IInv, UnusedInv, TypeOK, Init, GkitInit
<1>1. {Spin(p), Store(p), Scratch(p)} \subseteq Object
  BY Objects
<1>2. ContentInv(p) /\ JobInv(p) /\ OrderInv(p)
  BY <1>1 DEF Init, GkitInit, ContentInv, JobInv, OrderInv
<1>3. HoldInv(p) /\ EndInv(p)
  BY <1>1 DEF Init, GkitInit, HoldInv, EndInv
<1> QED BY <1>2, <1>3 DEF ProcInv

LEMMA UnusedKeeps == IInv /\ [Next]_vars => UnusedInv'
<1> SUFFICES ASSUME IInv, [Next]_vars, NEW o \in Object,
                    o \notin {Spin(o[1]), Store(o[1])}
             PROVE  rq'[o] = "none"
  BY DEF UnusedInv
<1>1. rq[o] = "none" /\ EffectType
  BY DEF IInv, UnusedInv, TypeOK, GkitTypeOK
<1>2. ASSUME NEW p \in Proc, Program(p) PROVE rq'[o] = "none"
  <2>1. o # Spin(p) /\ o # Store(p)
    BY Objects
  <2> QED BY <1>1, <1>2, <2>1, ProgramRequests DEF EffectType
<1>3. CASE Device
  BY <1>1, <1>3 DEF Device, Execute, Signal, Drain, EffectType
<1>4. CASE AllExited \/ UNCHANGED vars
  BY <1>1, <1>4 DEF AllExited, vars
<1> QED BY <1>2, <1>3, <1>4 DEF Next

LEMMA InvStep == IInv /\ [Next]_vars => IInv'
<1> SUFFICES ASSUME IInv, [Next]_vars, NEW q \in Proc PROVE ProcInv(q)'
  BY TypeStep, UnusedKeeps DEF IInv
<1>1. ASSUME NEW p \in Proc, Program(p) PROVE ProcInv(q)'
  BY <1>1, OwnStep, ElsewhereSame, SameKeeps
<1>2. CASE Device
  BY <1>2, ExecuteKeeps, SignalKeeps, DrainKeeps DEF Device
<1>3. CASE AllExited \/ UNCHANGED vars
  BY <1>3 DEF AllExited, vars, IInv, ProcInv, ContentInv, JobInv, OrderInv, HoldInv, EndInv
<1> QED BY <1>1, <1>2, <1>3 DEF Next

LEMMA Invariant == Spec => []IInv
BY InvInit, InvStep, PTL DEF Spec
-----------------------------------------------------------------------------
(* Theorems.                                                               *)

\* The dependent store never reaches the scratch object before the program has
\* stored the end of the spinner, whether or not the kernel honours the fence.
THEOREM StoreIsNeverEarly == Spec => []NoEarlyStore
<1>1. IInv => NoEarlyStore
  BY DEF IInv, TypeOK, ProcInv, ContentInv, OrderInv, NoEarlyStore, StoreLate
<1> QED BY <1>1, Invariant, PTL

\* No assert() on the device's doings fails and no stray pointer is used.
THEOREM ChecksNeverFail == Spec => []ChecksHold
<1>1. IInv => ChecksHold
  BY DEF IInv, ProcInv, EndInv, ChecksHold
<1> QED BY <1>1, Invariant, PTL

\* A process that ends leaves its spinner running only out of store().
THEOREM OrphansComeFromStore == Spec => []OrphanOnlyFromStore
<1>1. IInv => OrphanOnlyFromStore
  <2> SUFFICES ASSUME IInv, NEW p \in Proc, verdict[p] # "running", Spinning(p)
               PROVE  pc[p] \in 12..14
    BY DEF OrphanOnlyFromStore, InStore
  <2>1. ProcInv(p) /\ pc[p] \in 1..23
    BY DEF IInv, TypeOK
  <2>2. pc[p] > 9 /\ pc[p] <= 18
    BY <2>1 DEF ProcInv, JobInv, ContentInv, Spinning, InFlight
  <2> QED BY <2>1, <2>2 DEF ProcInv, EndInv
<1> QED BY <1>1, Invariant, PTL

\* A process that passes has seen the store and returned all it took.
THEOREM PassingIsClean == Spec => []PassIsClean
<1>1. IInv => PassIsClean
  <2> SUFFICES ASSUME IInv, NEW p \in Proc, verdict[p] = "passed"
               PROVE  /\ mem[Scratch(p)] = "written" /\ fence[p] = {}
                      /\ \A o \in {Spin(p), Store(p), Scratch(p)} :
                            o \notin open \cup mapped /\ ~InFlight(o)
    BY DEF PassIsClean, Clean
  <2>1. ProcInv(p) /\ pc[p] = 23
    BY DEF IInv, ProcInv, EndInv
  <2>2. rq[Store(p)] = "done" /\ rq[Spin(p)] = "done" /\ mem[Scratch(p)] = "written"
    BY <2>1 DEF ProcInv, EndInv, OrderInv
  <2>3. fence[p] = {} /\ {Spin(p), Store(p), Scratch(p)} \cap (open \cup mapped) = {}
    BY <2>1 DEF ProcInv, HoldInv
  <2>4. \A o \in {Spin(p), Store(p), Scratch(p)} : ~InFlight(o)
    BY <2>1, <2>2 DEF InFlight, ProcInv, JobInv
  <2> QED BY <2>2, <2>3, <2>4, Objects
<1> QED BY <1>1, Invariant, PTL

\* The store runs only once the request behind the fence has completed.
THEOREM StoreFollowsFence == Spec => StoreAfterFence
<1>1. IInv /\ IInv' /\ [Next]_vars =>
        [\A p \in Proc : rq[Store(p)] = "queued" /\ rq'[Store(p)] = "ran"
                            => rq[Spin(p)] = "done"]_vars
  <2> SUFFICES ASSUME IInv, IInv', [Next]_vars, NEW p \in Proc,
                      rq[Store(p)] = "queued", rq'[Store(p)] = "ran"
               PROVE  rq[Spin(p)] = "done"
    OBVIOUS
  <2>1. CASE Device
    <3>1. ~\E o \in Object : Signal(o) \/ Drain(o)
      BY Objects DEF Signal, Drain, IInv, TypeOK, GkitTypeOK, EffectType
    <3>2. Execute(Store(p))
      BY <2>1, <3>1, Objects DEF Device, Execute, IInv, TypeOK, GkitTypeOK, EffectType
    <3> QED BY <3>2 DEF Execute, IInv, ProcInv, OrderInv
  <2>2. CASE \E q \in Proc : Program(q)
    <3>1. PICK q \in Proc : Program(q)
      BY <2>2
    <3>2. CASE q # p
      BY <3>1, <3>2, ElsewhereSame DEF Same
    <3>3. CASE q = p
      BY <3>1, <3>3, ProgramRequests, Objects DEF IInv, TypeOK, GkitTypeOK, EffectType
    <3> QED BY <3>2, <3>3
  <2>3. CASE AllExited \/ UNCHANGED vars
    BY <2>3 DEF AllExited, vars
  <2> QED BY <2>1, <2>2, <2>3 DEF Next
<1> QED BY <1>1, Invariant, PTL DEF Spec, StoreAfterFence

\* A step of p changes the abstract state of p alone.
LEMMA MappedElsewhere ==
    ASSUME IInv, NEW p \in Proc, Program(p), NEW q \in Proc \ {p}
    PROVE  GateOf(q)' = GateOf(q) /\ TaskOf(q)' = TaskOf(q) /\ OutcomeOf(q)' = OutcomeOf(q)
BY ElsewhereSame DEF Same, GateOf, TaskOf, OutcomeOf

\* What a step of p does to its own abstract state.
LEMMA MappedStep ==
    ASSUME IInv, IInv', NEW p \in Proc, Program(p)
    PROVE  \/ GateOf(p)' = GateOf(p) /\ TaskOf(p)' = TaskOf(p) /\ OutcomeOf(p)' = OutcomeOf(p)
           \/ /\ OutcomeOf(p) = "running" /\ TaskOf(p) = "none" /\ GateOf(p) = "shut"
              /\ GateOf(p)' = GateOf(p) /\ TaskOf(p)' = "pending" /\ OutcomeOf(p)' = OutcomeOf(p)
           \/ /\ OutcomeOf(p) = "running" /\ TaskOf(p) = "pending" /\ GateOf(p) = "shut"
              /\ GateOf(p)' = "open" /\ TaskOf(p)' = TaskOf(p) /\ OutcomeOf(p)' = OutcomeOf(p)
           \/ /\ OutcomeOf(p) = "running" /\ TaskOf(p) = "finished"
              /\ GateOf(p)' = GateOf(p) /\ TaskOf(p)' = TaskOf(p) /\ OutcomeOf(p)' = "passed"
           \/ /\ OutcomeOf(p) = "running"
              /\ GateOf(p)' = GateOf(p) /\ TaskOf(p)' = TaskOf(p) /\ OutcomeOf(p)' = "failed"
<1>1. ProcInv(p) /\ ProcInv(p)' /\ pc[p] \in 1..23 /\ verdict'[p] \in Verdict
  BY DEF IInv, TypeOK, GkitTypeOK, ControlType
<1>2. EffectType /\ Store(p) \in Object /\ Spin(p) # Store(p)
  BY Objects DEF IInv, TypeOK, GkitTypeOK
<1>3. verdict[p] = "running"
  BY ProgramMoves DEF Moves, IInv
<1>4. \/ pc'[p] = pc[p] + 1 /\ verdict'[p] = verdict[p] /\ pc[p] # 23
      \/ pc'[p] = pc[p]
  BY ProgramMoves DEF Moves, IInv, TypeOK
<1>5. CASE pc[p] = 14 /\ pc'[p] = 15
  <2>1. rq[Store(p)] = "none" /\ rq'[Store(p)] = "queued" /\ verdict'[p] = "running"
    BY <1>1, <1>2, <1>3, <1>4, <1>5, ProgramRequests DEF EffectType, ProcInv, JobInv
  <2> QED BY <1>3, <1>5, <2>1 DEF GateOf, TaskOf, OutcomeOf
<1>6. CASE ~(pc[p] = 14 /\ pc'[p] = 15)
  <2>1. TaskOf(p)' = TaskOf(p) /\ rq'[Store(p)] = rq[Store(p)]
    BY <1>2, <1>6, ProgramRequests DEF EffectType, TaskOf
  <2>2. CASE pc'[p] = pc[p] + 1 /\ verdict'[p] = verdict[p] /\ pc[p] = 18
    <3>1. rq[Store(p)] = "queued"
      BY <1>1, <1>2, <2>2 DEF EffectType, ProcInv, ContentInv, JobInv, OrderInv
    <3> QED BY <1>3, <2>1, <2>2, <3>1 DEF GateOf, TaskOf, OutcomeOf
  <2>3. CASE pc'[p] = pc[p] + 1 /\ verdict'[p] = verdict[p] /\ pc[p] # 18
    BY <1>1, <2>1, <2>3 DEF GateOf, OutcomeOf
  <2>4. CASE pc'[p] = pc[p] /\ verdict'[p] = "passed"
    <3>1. rq[Store(p)] = "done"
      BY <1>1, <2>1, <2>4 DEF ProcInv, EndInv
    <3> QED BY <1>3, <2>1, <2>4, <3>1 DEF GateOf, TaskOf, OutcomeOf
  <2>5. CASE pc'[p] = pc[p] /\ verdict'[p] # "passed"
    BY <1>3, <2>1, <2>5 DEF GateOf, OutcomeOf
  <2> QED BY <1>4, <2>2, <2>3, <2>4, <2>5
<1> QED BY <1>5, <1>6

\* A step of the device finishes the task of one process, behind an open gate, or
\* changes nothing the mapping sees.
LEMMA MappedDevice ==
    ASSUME IInv, NEW p \in Proc, Device
    PROVE  /\ GateOf(p)' = GateOf(p) /\ OutcomeOf(p)' = OutcomeOf(p)
           /\ \/ TaskOf(p)' = TaskOf(p)
              \/ /\ rq[Store(p)] = "queued" /\ GateOf(p) = "open"
                 /\ TaskOf(p) = "pending" /\ TaskOf(p)' = "finished"
                 /\ \A q \in Proc \ {p} : TaskOf(q)' = TaskOf(q)
<1>1. EffectType /\ ProcInv(p) /\ pc[p] \in 1..23 /\ Store(p) \in Object
  BY Objects DEF IInv, TypeOK, GkitTypeOK
<1>2. PICK b \in Object : Execute(b) \/ Signal(b) \/ Drain(b)
  BY DEF Device
<1>3. GateOf(p)' = GateOf(p) /\ OutcomeOf(p)' = OutcomeOf(p)
  BY <1>2 DEF Execute, Signal, Drain, control, GateOf, OutcomeOf
<1>4. CASE Drain(b) \/ Signal(b)
  BY <1>1, <1>3, <1>4 DEF EffectType, Drain, Signal, TaskOf
<1>5. CASE Execute(b) /\ b # Store(p)
  BY <1>1, <1>3, <1>5 DEF EffectType, Execute, TaskOf
<1>6. CASE Execute(b) /\ b = Store(p)
  <2>1. rq[Store(p)] = "queued" /\ rq'[Store(p)] = "ran" /\ job[Store(p)].after = {}
    BY <1>1, <1>6 DEF EffectType, Execute
  <2>2. pc[p] > 18
    BY <1>1, <2>1 DEF ProcInv, OrderInv, ContentInv
  <2>3. \A q \in Proc \ {p} : TaskOf(q)' = TaskOf(q)
    <3>1. \A q \in Proc \ {p} : Store(q) \in Object /\ Store(q) # Store(p)
      BY Objects
    <3> QED BY <1>1, <1>6, <3>1 DEF EffectType, Execute, TaskOf
  <2> QED BY <1>3, <2>1, <2>2, <2>3 DEF GateOf, TaskOf
<1> QED BY <1>2, <1>4, <1>5, <1>6

\* The program, its device included, implements GatedTask: the task starts and
\* finishes behind the gate the program opens, and no process passes without it.
THEOREM ImplementsGatedTask == Spec => KeepsPromise
<1>1. Init => Gated!Init
  <2> SUFFICES ASSUME Init PROVE Gated!Init
    OBVIOUS
  <2>1. \A p \in Proc : pc[p] = 1 /\ rq[Store(p)] = "none" /\ verdict[p] = "running"
    BY Objects DEF Init, GkitInit
  <2> QED BY <2>1 DEF Gated!Init, GateOf, TaskOf, OutcomeOf
<1>2. IInv /\ IInv' /\ [Next]_vars => [Gated!Next]_(Gated!gvars)
  <2> SUFFICES ASSUME IInv, IInv', [Next]_vars PROVE Gated!Next \/ UNCHANGED Gated!gvars
    OBVIOUS
  <2>1. CASE \E p \in Proc : Program(p)
    <3>1. PICK p \in Proc : Program(p)
      BY <2>1
    <3>2. \A q \in Proc \ {p} : GateOf(q)' = GateOf(q) /\ TaskOf(q)' = TaskOf(q)
                                  /\ OutcomeOf(q)' = OutcomeOf(q)
      BY <3>1, MappedElsewhere
    <3> QED BY <3>1, <3>2, MappedStep
            DEF GateOf, TaskOf, OutcomeOf, Gated!gvars, Gated!Next, Gated!Submit,
                Gated!OpenGate, Gated!Pass, Gated!Fail
  <2>2. CASE Device
    BY <2>2, MappedDevice DEF GateOf, TaskOf, OutcomeOf, Gated!gvars, Gated!Next, Gated!Finish
  <2>3. CASE AllExited \/ UNCHANGED vars
    BY <2>3 DEF AllExited, vars, GateOf, TaskOf, OutcomeOf, Gated!gvars
  <2> QED BY <2>1, <2>2, <2>3 DEF Next
<1> QED BY <1>1, <1>2, Invariant, PTL DEF Spec, KeepsPromise, Gated!Spec
=============================================================================
