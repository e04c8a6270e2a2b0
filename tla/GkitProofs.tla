----------------------------- MODULE GkitProofs -----------------------------
(***************************************************************************)
(* What the wrappers and the device preserve, whichever program calls them. *)
(***************************************************************************)
EXTENDS Gkit, TLAPS

\* A statement that advances, ends or fails keeps the types of the control part.
LEMMA AdvanceType ==
    ASSUME ControlType, NEW p \in Proc, Advance(p)
    PROVE  ControlType' /\ pc' = [pc EXCEPT ![p] = pc[p] + 1]
BY DEF ControlType, Advance

LEMMA ExitType ==
    ASSUME ControlType, NEW p \in Proc, NEW v \in Verdict, Exit(p, v)
    PROVE  ControlType' /\ pc' = pc
BY DEF ControlType, Exit

LEMMA SameEffects ==
    ASSUME EffectType, UNCHANGED effects
    PROVE  EffectType'
BY DEF EffectType, effects

\* The wrappers that touch one object.
LEMMA WrapperTypes ==
    ASSUME EffectType
    PROVE  /\ \A o \in Object : gem_create(o) => EffectType'
           /\ \A o \in Object : gem_close(o) => EffectType'
           /\ \A o \in Object, c \in Content : gem_write(o, c) => EffectType'
           /\ \A o \in Object : gem_mmap__wc(o) => EffectType'
           /\ \A objs : munmap(objs) => EffectType'
           /\ \A p \in Proc, f \in SUBSET Object : SetFence(p, f) => EffectType'
           /\ \A o, w : gem_set_domain(o, w) => EffectType'
<1>1. \A o \in Object : gem_create(o) => EffectType'
  BY DEF EffectType, gem_create, Content
<1>2. \A o \in Object : gem_close(o) => EffectType'
  BY DEF EffectType, memory, gem_close
<1>3. \A o \in Object, c \in Content : gem_write(o, c) => EffectType'
  BY DEF EffectType, objects, gem_write
<1>4. \A o \in Object : gem_mmap__wc(o) => EffectType'
  BY DEF EffectType, memory, gem_mmap__wc
<1>5. \A objs : munmap(objs) => EffectType'
  BY DEF EffectType, memory, munmap
<1>6. \A p \in Proc, f \in SUBSET Object : SetFence(p, f) => EffectType'
  BY DEF EffectType, objects, memory, SetFence
<1>7. \A o, w : gem_set_domain(o, w) => EffectType'
  BY DEF EffectType, effects, gem_set_domain
<1> QED BY <1>1, <1>2, <1>3, <1>4, <1>5, <1>6, <1>7

\* A submission, whatever it waits for.
LEMMA SubmitType ==
    ASSUME EffectType, NEW b \in Object, NEW target \in SUBSET Object,
           NEW ring \in Nat, NEW waits \in SUBSET Object,
           Submit(b, target, ring, waits), fence' \in [Proc -> SUBSET Object]
    PROVE  EffectType'
<1> DEFINE earlier == {r \in Object \ {b} : /\ InFlight(r) /\ job[r].ring = ring
                                            /\ SharedRing \/ r[1] = b[1]}
           fences  == {r \in waits : HonoursFence /\ InFlight(r)}
           new     == [target |-> target, ring |-> ring, after |-> earlier \cup fences]
<1>1. new \in Job
  BY DEF Job
<1>2. job' = [job EXCEPT ![b] = new]
  BY DEF Submit
<1> HIDE DEF new
<1>3. job' \in [Object -> Job]
  BY <1>1, <1>2 DEF EffectType
<1>4. mem' \in [Object -> Content] /\ wc' \in [Object -> Content \cup {"none"}]
  BY DEF Submit, EffectType, Landed
<1>5. rq' \in [Object -> {"none", "queued", "ran", "done"}]
  BY DEF Submit, EffectType
<1>6. open' \subseteq Object /\ mapped' \subseteq Object
  BY DEF Submit, EffectType, objects
<1> QED BY <1>3, <1>4, <1>5, <1>6 DEF EffectType

LEMMA LandedType ==
    ASSUME EffectType
    PROVE  Landed \in [Object -> Content]
BY DEF Landed, EffectType

\* A store enters the write-combining buffer.
LEMMA StoreType ==
    ASSUME EffectType, NEW o \in Object, NEW content \in Content,
           wc' = [wc EXCEPT ![o] = content], UNCHANGED <<fence, objects, mem, rq, job>>
    PROVE  EffectType'
BY DEF EffectType, objects

\* Buffered stores reach memory: those of a process, or one by itself.
LEMMA BarrierType ==
    ASSUME EffectType, NEW p \in Proc, NEW n, Barrier(p, n)
    PROVE  EffectType'
BY LandedType DEF EffectType, objects, Barrier

LEMMA DrainType ==
    ASSUME EffectType, NEW o \in Object, Drain(o)
    PROVE  EffectType'
<1>1. wc[o] \in Content
  BY DEF Drain, EffectType
<1> QED BY <1>1 DEF EffectType, objects, Drain

\* The device keeps types and leaves the programs' control alone.
LEMMA DeviceType ==
    ASSUME GkitTypeOK, Device
    PROVE  GkitTypeOK' /\ UNCHANGED control
<1>1. PICK o \in Object : Execute(o) \/ Signal(o) \/ Drain(o)
  BY DEF Device
<1>2. CASE Execute(o)
  <2>1. "written" \in Content
    BY DEF Content
  <2> QED BY <1>2, <2>1 DEF Execute, GkitTypeOK, ControlType, EffectType, control, objects
<1>3. CASE Signal(o)
  <2>1. \A r \in Object : [job[r] EXCEPT !.after = @ \ {o}] \in Job
    BY DEF GkitTypeOK, EffectType, Job
  <2>2. job' \in [Object -> Job]
    BY <1>3, <2>1 DEF Signal
  <2> QED BY <1>3, <2>2 DEF Signal, GkitTypeOK, ControlType, EffectType, control, objects, memory
<1>4. CASE Drain(o)
  BY <1>4, DrainType DEF Drain, GkitTypeOK, ControlType, control
<1> QED BY <1>1, <1>2, <1>3, <1>4

\* The initial state of every program.
LEMMA InitType ==
    ASSUME GkitInit
    PROVE  GkitTypeOK
BY DEF GkitInit, GkitTypeOK, ControlType, EffectType, Verdict, Content, Job
=============================================================================
