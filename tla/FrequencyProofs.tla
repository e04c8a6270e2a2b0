-------------------------- MODULE FrequencyProofs ---------------------------
(***************************************************************************)
(* Proofs about Frequency for one instance alone on the card, whatever the *)
(* hardware's limits are and whatever limits it found.                     *)
(***************************************************************************)
EXTENDS Frequency, TLAPS

\* The limits a checked function has written so far, faults or not.
PinInv(p) ==
    /\ pc[p] \in {<<"min", 2>>, <<"min", 3>>} => local[p].min \in {RPn, -1}
    /\ pc[p] \in {<<"max", 2>>, <<"max", 3>>} => local[p].max \in {RP0, -1}
    /\ pc[p] = <<"min", 3>> => gt_min = RPn
    /\ pc[p] = <<"min", 4>> => gt_min = RPn /\ gt_max = RPn
    /\ pc[p] = <<"max", 3>> => gt_max = RP0
    /\ pc[p] = <<"max", 4>> => gt_min = RP0 /\ gt_max = RP0

\* As long as writes work: what was read, saved and written back.
SoundInv(p) ==
    /\ pc[p] \in {<<"save", 1>>, <<"save", 2>>} => Current = found
    /\ pc[p] \in {<<"auto", 2>>, <<"auto", 3>>, <<"auto", 4>>, <<"auto", 5>>}
           => local[p].min \in {RPn, -1}
    /\ pc[p] \in {<<"auto", 3>>, <<"auto", 4>>, <<"auto", 5>>}
           => local[p].max \in {RP0, -1}
    /\ pc[p] = <<"auto", 4>> => /\ local[p].max = RP0
                                /\ local[p].min = RPn => gt_min = RPn
    /\ pc[p] = <<"auto", 5>> /\ local[p].min = RPn /\ local[p].max = RP0
           => gt_min = RPn /\ gt_max = RP0
    /\ pc[p] = <<"restore", 1>> => gt_min = RP0 /\ gt_max = RP0
    /\ pc[p] = <<"restore", 2>> => gt_max = RP0 /\ (saved[p] = found => gt_min = found.min)
    /\ pc[p] = <<"restore", 3>> => (saved[p] = found => Current = found)
    /\ verdict[p] = "passed" => pc[p] = <<"restore", 3>>
    /\ verdict[p] = "assert" => \/ pc[p][1] = "min" /\ local[p].min = -1
                                \/ pc[p][1] = "max" /\ local[p].max = -1
    /\ found.min \in Freq /\ found.max \in Freq /\ found.min <= found.max
    /\ found = [min |-> found.min, max |-> found.max]
-----------------------------------------------------------------------------
LEMMA InitTypes == Init => TypeOK
  BY HardwareAssumption DEF Init, TypeOK, Freq, Limits, Place, Verdict

\* What a write to one of the two files may do.
Moved(p) == pc' = [pc EXCEPT ![p] = <<@[1], @[2] + 1>>] /\ UNCHANGED <<verdict, saved, local>>

LEMMA SetMinEffect ==
    ASSUME TypeOK, NEW p \in Proc, NEW f \in Int, NEW why \in {"abort", "ignore"},
           SetMin(p, f, why)
    PROVE  \/ Moved(p) /\ f \in Freq /\ f <= gt_max /\ gt_min' = f /\ UNCHANGED <<gt_max, found>>
           \/ Moved(p) /\ UNCHANGED sysfs /\ why = "ignore" /\ (~AcceptMin(f) \/ "write" \in Fallible)
           \/ End(p, "assert") /\ UNCHANGED sysfs /\ why = "abort" /\ (~AcceptMin(f) \/ "write" \in Fallible)
  BY HardwareAssumption DEF TypeOK, Freq, SetMin, sysfs_write, WriteMin, AcceptMin, Moved

LEMMA SetMaxEffect ==
    ASSUME TypeOK, NEW p \in Proc, NEW f \in Int, NEW why \in {"abort", "ignore"},
           SetMax(p, f, why)
    PROVE  \/ Moved(p) /\ f \in Freq /\ gt_min <= f /\ gt_max' = f /\ UNCHANGED <<gt_min, found>>
           \/ Moved(p) /\ UNCHANGED sysfs /\ why = "ignore" /\ (~AcceptMax(f) \/ "write" \in Fallible)
           \/ End(p, "assert") /\ UNCHANGED sysfs /\ why = "abort" /\ (~AcceptMax(f) \/ "write" \in Fallible)
  BY HardwareAssumption DEF TypeOK, Freq, SetMax, sysfs_write, WriteMax, AcceptMax, Moved

LEMMA LocalTypes ==
    ASSUME TypeOK, NEW p \in Proc
    PROVE  /\ local[p].min \in Int /\ local[p].max \in Int
           /\ saved[p].min \in Int /\ saved[p].max \in Int
  BY HardwareAssumption DEF TypeOK, Limits, Freq

LEMMA StepTypes == TypeOK /\ [Next]_vars => TypeOK'
  <1>. SUFFICES ASSUME TypeOK, NEW p \in Proc, Program(p) PROVE TypeOK'
    BY DEF Next, Exited, vars, TypeOK, Limits
  <1>0. /\ local[p].min \in Int /\ local[p].max \in Int
        /\ saved[p].min \in Int /\ saved[p].max \in Int
    BY LocalTypes
  <1>1. CASE Save(p)
    <2>1. CASE At(p, "save", 1)
      <3>1. PICK v \in sysfs_read(gt_min) : saved' = [saved EXCEPT ![p].min = v]
        BY <1>1, <2>1 DEF Save, At
      <3>2. v \in Freq \cup {-1}
        BY DEF sysfs_read, TypeOK
      <3>3. saved' \in [Proc -> Limits]
        BY <3>1, <3>2 DEF TypeOK, Limits
      <3>4. pc' \in [Proc -> Place]
        BY <1>1, <2>1 DEF Save, At, Goto, TypeOK, Place
      <3>. QED BY <1>1, <3>3, <3>4 DEF Save, sysfs, TypeOK
    <2>2. CASE At(p, "save", 2)
      <3>1. PICK v \in sysfs_read(gt_max) : saved' = [saved EXCEPT ![p].max = v]
        BY <1>1, <2>2 DEF Save, At
      <3>2. v \in Freq \cup {-1}
        BY DEF sysfs_read, TypeOK
      <3>3. saved' \in [Proc -> Limits]
        BY <3>1, <3>2 DEF TypeOK, Limits
      <3>4. pc' \in [Proc -> Place]
        BY <1>1, <2>2 DEF Save, At, Goto, TypeOK, Place
      <3>. QED BY <1>1, <3>3, <3>4 DEF Save, sysfs, TypeOK
    <2>. QED BY <1>1, <2>1, <2>2 DEF Save
  <1>2. CASE set_auto_freq(p)
    <2>1. CASE At(p, "auto", 1) /\ ReadLocal(p, "min", RPn)
      <3>1. PICK v \in sysfs_read(RPn) : local' = [local EXCEPT ![p].min = v]
        BY <2>1 DEF ReadLocal
      <3>2. v \in Freq \cup {-1}
        BY HardwareAssumption DEF sysfs_read, Freq
      <3>3. local' \in [Proc -> Limits]
        BY <3>1, <3>2 DEF TypeOK, Limits
      <3>4. pc' \in [Proc -> Place]
        BY <2>1 DEF ReadLocal, At, TypeOK, Place
      <3>. QED BY <2>1, <3>3, <3>4 DEF ReadLocal, sysfs, TypeOK
    <2>2. CASE At(p, "auto", 2) /\ ReadLocal(p, "max", RP0)
      <3>1. PICK v \in sysfs_read(RP0) : local' = [local EXCEPT ![p].max = v]
        BY <2>2 DEF ReadLocal
      <3>2. v \in Freq \cup {-1}
        BY HardwareAssumption DEF sysfs_read, Freq
      <3>3. local' \in [Proc -> Limits]
        BY <3>1, <3>2 DEF TypeOK, Limits
      <3>4. pc' \in [Proc -> Place]
        BY <2>2 DEF ReadLocal, At, TypeOK, Place
      <3>. QED BY <2>2, <3>3, <3>4 DEF ReadLocal, sysfs, TypeOK
    <2>3. CASE At(p, "auto", 3) /\ Goto(p, "auto", 5) /\ UNCHANGED sysfs
               /\ local[p].max <= local[p].min /\ UNCHANGED <<verdict, saved, local>>
      BY <2>3 DEF At, Goto, sysfs, TypeOK, Freq, Limits, Place, Verdict
    <2>4. CASE At(p, "auto", 3) /\ local[p].max > local[p].min
               /\ SetMin(p, local[p].min, "ignore")
      <3>1. pc' \in [Proc -> Place]
        BY <2>4, <1>0, SetMinEffect DEF At, Moved, End, TypeOK, Place
      <3>2. /\ verdict' \in [Proc -> Verdict]
            /\ saved' = saved /\ local' = local /\ found' = found
        BY <2>4, <1>0, SetMinEffect DEF Moved, End, sysfs, TypeOK, Verdict
      <3>3. gt_min' \in Freq /\ gt_max' \in Freq /\ gt_min' <= gt_max'
        BY <2>4, <1>0, SetMinEffect, HardwareAssumption DEF sysfs, TypeOK, Freq
      <3>. QED BY <3>1, <3>2, <3>3 DEF TypeOK
    <2>5. CASE At(p, "auto", 4) /\ SetMax(p, local[p].max, "ignore")
      <3>1. pc' \in [Proc -> Place]
        BY <2>5, <1>0, SetMaxEffect DEF At, Moved, End, TypeOK, Place
      <3>2. /\ verdict' \in [Proc -> Verdict]
            /\ saved' = saved /\ local' = local /\ found' = found
        BY <2>5, <1>0, SetMaxEffect DEF Moved, End, sysfs, TypeOK, Verdict
      <3>3. gt_min' \in Freq /\ gt_max' \in Freq /\ gt_min' <= gt_max'
        BY <2>5, <1>0, SetMaxEffect, HardwareAssumption DEF sysfs, TypeOK, Freq
      <3>. QED BY <3>1, <3>2, <3>3 DEF TypeOK
    <2>. QED BY <1>2, <2>1, <2>2, <2>3, <2>4, <2>5 DEF set_auto_freq
  <1>3. CASE set_min_freq(p)
    <2>1. CASE At(p, "min", 1) /\ ReadLocal(p, "min", RPn)
      <3>1. PICK v \in sysfs_read(RPn) : local' = [local EXCEPT ![p].min = v]
        BY <2>1 DEF ReadLocal
      <3>2. v \in Freq \cup {-1}
        BY HardwareAssumption DEF sysfs_read, Freq
      <3>3. local' \in [Proc -> Limits]
        BY <3>1, <3>2 DEF TypeOK, Limits
      <3>4. pc' \in [Proc -> Place]
        BY <2>1 DEF ReadLocal, At, TypeOK, Place
      <3>. QED BY <2>1, <3>3, <3>4 DEF ReadLocal, sysfs, TypeOK
    <2>2. CASE At(p, "min", 2) /\ SetMin(p, local[p].min, "abort")
      <3>1. pc' \in [Proc -> Place]
        BY <2>2, <1>0, SetMinEffect DEF At, Moved, End, TypeOK, Place
      <3>2. /\ verdict' \in [Proc -> Verdict]
            /\ saved' = saved /\ local' = local /\ found' = found
        BY <2>2, <1>0, SetMinEffect DEF Moved, End, sysfs, TypeOK, Verdict
      <3>3. gt_min' \in Freq /\ gt_max' \in Freq /\ gt_min' <= gt_max'
        BY <2>2, <1>0, SetMinEffect, HardwareAssumption DEF sysfs, TypeOK, Freq
      <3>. QED BY <3>1, <3>2, <3>3 DEF TypeOK
    <2>3. CASE At(p, "min", 3) /\ SetMax(p, local[p].min, "abort")
      <3>1. pc' \in [Proc -> Place]
        BY <2>3, <1>0, SetMaxEffect DEF At, Moved, End, TypeOK, Place
      <3>2. /\ verdict' \in [Proc -> Verdict]
            /\ saved' = saved /\ local' = local /\ found' = found
        BY <2>3, <1>0, SetMaxEffect DEF Moved, End, sysfs, TypeOK, Verdict
      <3>3. gt_min' \in Freq /\ gt_max' \in Freq /\ gt_min' <= gt_max'
        BY <2>3, <1>0, SetMaxEffect, HardwareAssumption DEF sysfs, TypeOK, Freq
      <3>. QED BY <3>1, <3>2, <3>3 DEF TypeOK
    <2>. QED BY <1>3, <2>1, <2>2, <2>3 DEF set_min_freq
  <1>4. CASE set_max_freq(p)
    <2>1. CASE At(p, "max", 1) /\ ReadLocal(p, "max", RP0)
      <3>1. PICK v \in sysfs_read(RP0) : local' = [local EXCEPT ![p].max = v]
        BY <2>1 DEF ReadLocal
      <3>2. v \in Freq \cup {-1}
        BY HardwareAssumption DEF sysfs_read, Freq
      <3>3. local' \in [Proc -> Limits]
        BY <3>1, <3>2 DEF TypeOK, Limits
      <3>4. pc' \in [Proc -> Place]
        BY <2>1 DEF ReadLocal, At, TypeOK, Place
      <3>. QED BY <2>1, <3>3, <3>4 DEF ReadLocal, sysfs, TypeOK
    <2>2. CASE At(p, "max", 2) /\ SetMax(p, local[p].max, "abort")
      <3>1. pc' \in [Proc -> Place]
        BY <2>2, <1>0, SetMaxEffect DEF At, Moved, End, TypeOK, Place
      <3>2. /\ verdict' \in [Proc -> Verdict]
            /\ saved' = saved /\ local' = local /\ found' = found
        BY <2>2, <1>0, SetMaxEffect DEF Moved, End, sysfs, TypeOK, Verdict
      <3>3. gt_min' \in Freq /\ gt_max' \in Freq /\ gt_min' <= gt_max'
        BY <2>2, <1>0, SetMaxEffect, HardwareAssumption DEF sysfs, TypeOK, Freq
      <3>. QED BY <3>1, <3>2, <3>3 DEF TypeOK
    <2>3. CASE At(p, "max", 3) /\ SetMin(p, local[p].max, "abort")
      <3>1. pc' \in [Proc -> Place]
        BY <2>3, <1>0, SetMinEffect DEF At, Moved, End, TypeOK, Place
      <3>2. /\ verdict' \in [Proc -> Verdict]
            /\ saved' = saved /\ local' = local /\ found' = found
        BY <2>3, <1>0, SetMinEffect DEF Moved, End, sysfs, TypeOK, Verdict
      <3>3. gt_min' \in Freq /\ gt_max' \in Freq /\ gt_min' <= gt_max'
        BY <2>3, <1>0, SetMinEffect, HardwareAssumption DEF sysfs, TypeOK, Freq
      <3>. QED BY <3>1, <3>2, <3>3 DEF TypeOK
    <2>. QED BY <1>4, <2>1, <2>2, <2>3 DEF set_max_freq
  <1>5. CASE Restore(p)
    <2>1. CASE At(p, "restore", 1) /\ SetMin(p, saved[p].min, "ignore")
      <3>1. pc' \in [Proc -> Place]
        BY <2>1, <1>0, SetMinEffect DEF At, Moved, End, TypeOK, Place
      <3>2. /\ verdict' \in [Proc -> Verdict]
            /\ saved' = saved /\ local' = local /\ found' = found
        BY <2>1, <1>0, SetMinEffect DEF Moved, End, sysfs, TypeOK, Verdict
      <3>3. gt_min' \in Freq /\ gt_max' \in Freq /\ gt_min' <= gt_max'
        BY <2>1, <1>0, SetMinEffect, HardwareAssumption DEF sysfs, TypeOK, Freq
      <3>. QED BY <3>1, <3>2, <3>3 DEF TypeOK
    <2>2. CASE At(p, "restore", 2) /\ SetMax(p, saved[p].max, "ignore")
      <3>1. pc' \in [Proc -> Place]
        BY <2>2, <1>0, SetMaxEffect DEF At, Moved, End, TypeOK, Place
      <3>2. /\ verdict' \in [Proc -> Verdict]
            /\ saved' = saved /\ local' = local /\ found' = found
        BY <2>2, <1>0, SetMaxEffect DEF Moved, End, sysfs, TypeOK, Verdict
      <3>3. gt_min' \in Freq /\ gt_max' \in Freq /\ gt_min' <= gt_max'
        BY <2>2, <1>0, SetMaxEffect, HardwareAssumption DEF sysfs, TypeOK, Freq
      <3>. QED BY <3>1, <3>2, <3>3 DEF TypeOK
    <2>. QED BY <1>5, <2>1, <2>2 DEF Restore
  <1>6. CASE Run(p)
    <2>1. CASE pc[p] = <<"auto", 5>> /\ Goto(p, "min", 1)
      <3>1. pc' \in [Proc -> Place]
        BY <2>1 DEF Goto, TypeOK, Place
      <3>2. verdict' \in [Proc -> Verdict] /\ UNCHANGED <<saved, local>>
        BY <1>6 DEF Run, End, TypeOK, Verdict
      <3>. QED BY <1>6, <3>1, <3>2 DEF Run, sysfs, TypeOK
    <2>2. CASE pc[p] = <<"min", 4>> /\ Goto(p, "max", 1)
      <3>1. pc' \in [Proc -> Place]
        BY <2>2 DEF Goto, TypeOK, Place
      <3>2. verdict' \in [Proc -> Verdict] /\ UNCHANGED <<saved, local>>
        BY <1>6 DEF Run, End, TypeOK, Verdict
      <3>. QED BY <1>6, <3>1, <3>2 DEF Run, sysfs, TypeOK
    <2>3. CASE pc[p] = <<"max", 4>> /\ Goto(p, "restore", 1)
      <3>1. pc' \in [Proc -> Place]
        BY <2>3 DEF Goto, TypeOK, Place
      <3>2. verdict' \in [Proc -> Verdict] /\ UNCHANGED <<saved, local>>
        BY <1>6 DEF Run, End, TypeOK, Verdict
      <3>. QED BY <1>6, <3>1, <3>2 DEF Run, sysfs, TypeOK
    <2>4. CASE End(p, "aborted")
      BY <1>6, <2>4 DEF Run, Measuring, End, sysfs, TypeOK, Freq, Limits, Place, Verdict
    <2>5. pc[p] \in {<<"auto", 5>>, <<"min", 4>>, <<"max", 4>>}
      BY <1>6 DEF Run, Measuring
    <2>6. CASE pc[p] = <<"auto", 5>>
      <3>1. pc[p][1] = "auto"  BY <2>6
      <3>. QED BY <1>6, <2>6, <2>1, <2>4, <3>1 DEF Run
    <2>7. CASE pc[p] = <<"min", 4>>
      <3>1. pc[p][1] = "min"  BY <2>7
      <3>. QED BY <1>6, <2>7, <2>2, <2>4, <3>1 DEF Run
    <2>8. CASE pc[p] = <<"max", 4>>
      <3>1. pc[p][1] = "max"  BY <2>8
      <3>. QED BY <1>6, <2>8, <2>3, <2>4, <3>1 DEF Run
    <2>. QED BY <2>5, <2>6, <2>7, <2>8
  <1>7. CASE Return(p)
    BY <1>7 DEF Return, At, End, sysfs, TypeOK, Freq, Limits, Place, Verdict
  <1>. QED BY <1>1, <1>2, <1>3, <1>4, <1>5, <1>6, <1>7 DEF Program

\* The state keeps its types and the limits their order, for any instances.
THEOREM TypeCorrect == Spec => []TypeOK
  BY InitTypes, StepTypes, PTL DEF Spec
-----------------------------------------------------------------------------
(* One instance alone, any call may fail.                                  *)

LEMMA PinKept ==
    ASSUME NEW p, Proc = {p}
    PROVE  TypeOK /\ PinInv(p) /\ [Next]_vars => PinInv(p)'
  <1>. SUFFICES ASSUME TypeOK, PinInv(p), Program(p) PROVE PinInv(p)'
    BY DEF Next, Exited, vars, PinInv
  <1>0. /\ p \in Proc /\ local[p].min \in Int /\ local[p].max \in Int
        /\ saved[p].min \in Int /\ saved[p].max \in Int
    BY LocalTypes
  <1>1. CASE Save(p)
    <2>1. CASE At(p, "save", 1)
      BY <1>1, <2>1 DEF Save, sysfs, sysfs_read, At, Goto, TypeOK, PinInv, Limits
    <2>2. CASE At(p, "save", 2)
      BY <1>1, <2>2 DEF Save, sysfs, sysfs_read, At, Goto, TypeOK, PinInv, Limits
    <2>. QED BY <1>1, <2>1, <2>2 DEF Save
  <1>2. CASE set_auto_freq(p)
    <2>1. CASE At(p, "auto", 1) /\ ReadLocal(p, "min", RPn)
      BY <2>1, HardwareAssumption DEF At, ReadLocal, sysfs_read, sysfs, TypeOK, PinInv, Limits
    <2>2. CASE At(p, "auto", 2) /\ ReadLocal(p, "max", RP0)
      BY <2>2, HardwareAssumption DEF At, ReadLocal, sysfs_read, sysfs, TypeOK, PinInv, Limits
    <2>3. CASE At(p, "auto", 3) /\ Goto(p, "auto", 5) /\ UNCHANGED sysfs
               /\ local[p].max <= local[p].min /\ UNCHANGED <<verdict, saved, local>>
      BY <2>3 DEF At, Goto, sysfs, TypeOK, PinInv, Limits
    <2>4. CASE At(p, "auto", 3) /\ local[p].max > local[p].min
               /\ SetMin(p, local[p].min, "ignore")
      <3>1. CASE Moved(p)
        BY <2>4, <3>1, <1>0, SetMinEffect, HardwareAssumption DEF At, Moved, End, sysfs, TypeOK, PinInv
      <3>2. CASE ~Moved(p)
        BY <2>4, <3>2, <1>0, SetMinEffect DEF At, End, sysfs, PinInv
      <3>. QED BY <3>1, <3>2
    <2>5. CASE At(p, "auto", 4) /\ SetMax(p, local[p].max, "ignore")
      <3>1. CASE Moved(p)
        BY <2>5, <3>1, <1>0, SetMaxEffect, HardwareAssumption DEF At, Moved, End, sysfs, TypeOK, PinInv
      <3>2. CASE ~Moved(p)
        BY <2>5, <3>2, <1>0, SetMaxEffect DEF At, End, sysfs, PinInv
      <3>. QED BY <3>1, <3>2
    <2>. QED BY <1>2, <2>1, <2>2, <2>3, <2>4, <2>5 DEF set_auto_freq
  <1>3. CASE set_min_freq(p)
    <2>1. CASE At(p, "min", 1) /\ ReadLocal(p, "min", RPn)
      BY <2>1, HardwareAssumption DEF At, ReadLocal, sysfs_read, sysfs, TypeOK, PinInv, Limits
    <2>2. CASE At(p, "min", 2) /\ SetMin(p, local[p].min, "abort")
      <3>1. CASE Moved(p)
        <4>1. pc'[p] = <<"min", 3>> /\ local' = local
          BY <2>2, <3>1, <1>0 DEF At, Moved, TypeOK
        <4>2. gt_min' = local[p].min /\ gt_min' \in Freq /\ gt_max' = gt_max
          BY <2>2, <1>0, <3>1, <4>1, SetMinEffect DEF At, End, Moved
        <4>3. gt_min' = RPn
          BY <2>2, <4>2, HardwareAssumption DEF At, PinInv, Freq
        <4>. QED BY <2>2, <4>1, <4>2, <4>3 DEF At, PinInv
      <3>2. CASE ~Moved(p)
        BY <2>2, <3>2, <1>0, SetMinEffect DEF At, End, sysfs, PinInv
      <3>. QED BY <3>1, <3>2
    <2>3. CASE At(p, "min", 3) /\ SetMax(p, local[p].min, "abort")
      <3>1. CASE Moved(p)
        <4>1. pc'[p] = <<"min", 4>> /\ local' = local
          BY <2>3, <3>1, <1>0 DEF At, Moved, TypeOK
        <4>2. gt_max' = local[p].min /\ gt_max' \in Freq /\ gt_min' = gt_min
          BY <2>3, <1>0, <3>1, <4>1, SetMaxEffect DEF At, End, Moved
        <4>3. gt_max' = RPn
          BY <2>3, <4>2, HardwareAssumption DEF At, PinInv, Freq
        <4>. QED BY <2>3, <4>1, <4>2, <4>3 DEF At, PinInv
      <3>2. CASE ~Moved(p)
        BY <2>3, <3>2, <1>0, SetMaxEffect DEF At, End, sysfs, PinInv
      <3>. QED BY <3>1, <3>2
    <2>. QED BY <1>3, <2>1, <2>2, <2>3 DEF set_min_freq
  <1>4. CASE set_max_freq(p)
    <2>1. CASE At(p, "max", 1) /\ ReadLocal(p, "max", RP0)
      BY <2>1, HardwareAssumption DEF At, ReadLocal, sysfs_read, sysfs, TypeOK, PinInv, Limits
    <2>2. CASE At(p, "max", 2) /\ SetMax(p, local[p].max, "abort")
      <3>1. CASE Moved(p)
        <4>1. pc'[p] = <<"max", 3>> /\ local' = local
          BY <2>2, <3>1, <1>0 DEF At, Moved, TypeOK
        <4>2. gt_max' = local[p].max /\ gt_max' \in Freq /\ gt_min' = gt_min
          BY <2>2, <1>0, <3>1, <4>1, SetMaxEffect DEF At, End, Moved
        <4>3. gt_max' = RP0
          BY <2>2, <4>2, HardwareAssumption DEF At, PinInv, Freq
        <4>. QED BY <2>2, <4>1, <4>2, <4>3 DEF At, PinInv
      <3>2. CASE ~Moved(p)
        BY <2>2, <3>2, <1>0, SetMaxEffect DEF At, End, sysfs, PinInv
      <3>. QED BY <3>1, <3>2
    <2>3. CASE At(p, "max", 3) /\ SetMin(p, local[p].max, "abort")
      <3>1. CASE Moved(p)
        <4>1. pc'[p] = <<"max", 4>> /\ local' = local
          BY <2>3, <3>1, <1>0 DEF At, Moved, TypeOK
        <4>2. gt_min' = local[p].max /\ gt_min' \in Freq /\ gt_max' = gt_max
          BY <2>3, <1>0, <3>1, <4>1, SetMinEffect DEF At, End, Moved
        <4>3. gt_min' = RP0
          BY <2>3, <4>2, HardwareAssumption DEF At, PinInv, Freq
        <4>. QED BY <2>3, <4>1, <4>2, <4>3 DEF At, PinInv
      <3>2. CASE ~Moved(p)
        BY <2>3, <3>2, <1>0, SetMinEffect DEF At, End, sysfs, PinInv
      <3>. QED BY <3>1, <3>2
    <2>. QED BY <1>4, <2>1, <2>2, <2>3 DEF set_max_freq
  <1>5. CASE Restore(p)
    <2>1. CASE At(p, "restore", 1) /\ SetMin(p, saved[p].min, "ignore")
      <3>1. CASE Moved(p)
        BY <2>1, <3>1, <1>0, SetMinEffect, HardwareAssumption DEF At, Moved, End, sysfs, TypeOK, PinInv
      <3>2. CASE ~Moved(p)
        BY <2>1, <3>2, <1>0, SetMinEffect DEF At, End, sysfs, PinInv
      <3>. QED BY <3>1, <3>2
    <2>2. CASE At(p, "restore", 2) /\ SetMax(p, saved[p].max, "ignore")
      <3>1. CASE Moved(p)
        BY <2>2, <3>1, <1>0, SetMaxEffect, HardwareAssumption DEF At, Moved, End, sysfs, TypeOK, PinInv
      <3>2. CASE ~Moved(p)
        BY <2>2, <3>2, <1>0, SetMaxEffect DEF At, End, sysfs, PinInv
      <3>. QED BY <3>1, <3>2
    <2>. QED BY <1>5, <2>1, <2>2 DEF Restore
  <1>6. CASE Run(p)
    <2>1. CASE pc[p] = <<"auto", 5>> /\ Goto(p, "min", 1)
      BY <1>6, <2>1 DEF Run, Measuring, Goto, End, sysfs, TypeOK, PinInv, Limits
    <2>2. CASE pc[p] = <<"min", 4>> /\ Goto(p, "max", 1)
      BY <1>6, <2>2 DEF Run, Measuring, Goto, End, sysfs, TypeOK, PinInv, Limits
    <2>3. CASE pc[p] = <<"max", 4>> /\ Goto(p, "restore", 1)
      BY <1>6, <2>3 DEF Run, Measuring, Goto, End, sysfs, TypeOK, PinInv, Limits
    <2>4. CASE End(p, "aborted")
      BY <1>6, <2>4 DEF Run, Measuring, End, sysfs, TypeOK, PinInv, Limits
    <2>5. pc[p] \in {<<"auto", 5>>, <<"min", 4>>, <<"max", 4>>}
      BY <1>6 DEF Run, Measuring
    <2>6. CASE pc[p] = <<"auto", 5>>
      <3>1. pc[p][1] = "auto"  BY <2>6
      <3>. QED BY <1>6, <2>6, <2>1, <2>4, <3>1 DEF Run
    <2>7. CASE pc[p] = <<"min", 4>>
      <3>1. pc[p][1] = "min"  BY <2>7
      <3>. QED BY <1>6, <2>7, <2>2, <2>4, <3>1 DEF Run
    <2>8. CASE pc[p] = <<"max", 4>>
      <3>1. pc[p][1] = "max"  BY <2>8
      <3>. QED BY <1>6, <2>8, <2>3, <2>4, <3>1 DEF Run
    <2>. QED BY <2>5, <2>6, <2>7, <2>8
  <1>7. CASE Return(p)
    BY <1>7 DEF Return, At, End, sysfs, TypeOK, PinInv, Limits
  <1>. QED BY <1>1, <1>2, <1>3, <1>4, <1>5, <1>6, <1>7 DEF Program

\* Lowest and highest are measured only with both limits there.
THEOREM MeasuresPinned ==
    ASSUME NEW p, Proc = {p}
    PROVE  Spec => []PinnedWhenMeasured
  <1>1. Init => PinInv(p)
    BY DEF Init, PinInv
  <1>2. TypeOK /\ PinInv(p) /\ [Next]_vars => PinInv(p)'
    BY PinKept
  <1>3. TypeOK /\ PinInv(p) => PinnedWhenMeasured
    BY DEF PinInv, PinnedWhenMeasured, Measuring, Current, Wanted
  <1>. QED BY <1>1, <1>2, <1>3, TypeCorrect, PTL DEF Spec
-----------------------------------------------------------------------------
(* One instance alone on a card whose sysfs files can be written.          *)

LEMMA SoundKept ==
    ASSUME NEW p, Proc = {p}, "write" \notin Fallible
    PROVE  TypeOK /\ PinInv(p) /\ SoundInv(p) /\ [Next]_vars => SoundInv(p)'
  <1>. SUFFICES ASSUME TypeOK, PinInv(p), SoundInv(p), Program(p) PROVE SoundInv(p)'
    BY DEF Next, Exited, vars, SoundInv, Current
  <1>0. /\ p \in Proc /\ local[p].min \in Int /\ local[p].max \in Int
        /\ saved[p].min \in Int /\ saved[p].max \in Int
    BY LocalTypes
  <1>1. CASE Save(p)
    <2>1. CASE At(p, "save", 1)
      BY <1>1, <2>1, HardwareAssumption DEF Save, sysfs, sysfs_read, At, Goto, TypeOK, PinInv, SoundInv, Limits, Current, Freq, AcceptMin, AcceptMax
    <2>2. CASE At(p, "save", 2)
      BY <1>1, <2>2, HardwareAssumption DEF Save, sysfs, sysfs_read, At, Goto, TypeOK, PinInv, SoundInv, Limits, Current, Freq, AcceptMin, AcceptMax
    <2>. QED BY <1>1, <2>1, <2>2 DEF Save
  <1>2. CASE set_auto_freq(p)
    <2>1. CASE At(p, "auto", 1) /\ ReadLocal(p, "min", RPn)
      BY <2>1, HardwareAssumption DEF At, ReadLocal, sysfs_read, sysfs, TypeOK, PinInv, SoundInv, Limits, Current, Freq, AcceptMin, AcceptMax
    <2>2. CASE At(p, "auto", 2) /\ ReadLocal(p, "max", RP0)
      BY <2>2, HardwareAssumption DEF At, ReadLocal, sysfs_read, sysfs, TypeOK, PinInv, SoundInv, Limits, Current, Freq, AcceptMin, AcceptMax
    <2>3. CASE At(p, "auto", 3) /\ Goto(p, "auto", 5) /\ UNCHANGED sysfs
               /\ local[p].max <= local[p].min /\ UNCHANGED <<verdict, saved, local>>
      BY <2>3, HardwareAssumption DEF At, Goto, sysfs, TypeOK, PinInv, SoundInv, Limits, Current, Freq, AcceptMin, AcceptMax
    <2>4. CASE At(p, "auto", 3) /\ local[p].max > local[p].min
               /\ SetMin(p, local[p].min, "ignore")
      <3>1. pc'[p] = <<"auto", 4>> /\ UNCHANGED <<verdict, saved, local, found>>
        BY <2>4, <1>0, SetMinEffect DEF At, Moved, sysfs, TypeOK
      <3>2. gt_max' = gt_max /\ (local[p].min = RPn => gt_min' = RPn)
        BY <2>4, <1>0, SetMinEffect, HardwareAssumption DEF At, sysfs, TypeOK, SoundInv, Freq, AcceptMin
      <3>. QED BY <2>4, <3>1, <3>2, HardwareAssumption DEF At, SoundInv, Current, Freq, TypeOK
    <2>5. CASE At(p, "auto", 4) /\ SetMax(p, local[p].max, "ignore")
      BY <2>5, <1>0, SetMaxEffect, HardwareAssumption DEF At, Moved, End, sysfs, TypeOK, PinInv, SoundInv, Limits, Current, Freq, AcceptMin, AcceptMax
    <2>. QED BY <1>2, <2>1, <2>2, <2>3, <2>4, <2>5 DEF set_auto_freq
  <1>3. CASE set_min_freq(p)
    <2>1. CASE At(p, "min", 1) /\ ReadLocal(p, "min", RPn)
      BY <2>1, HardwareAssumption DEF At, ReadLocal, sysfs_read, sysfs, TypeOK, PinInv, SoundInv, Limits, Current, Freq, AcceptMin, AcceptMax
    <2>2. CASE At(p, "min", 2) /\ SetMin(p, local[p].min, "abort")
      BY <2>2, <1>0, SetMinEffect, HardwareAssumption DEF At, Moved, End, sysfs, TypeOK, PinInv, SoundInv, Limits, Current, Freq, AcceptMin, AcceptMax
    <2>3. CASE At(p, "min", 3) /\ SetMax(p, local[p].min, "abort")
      BY <2>3, <1>0, SetMaxEffect, HardwareAssumption DEF At, Moved, End, sysfs, TypeOK, PinInv, SoundInv, Limits, Current, Freq, AcceptMin, AcceptMax
    <2>. QED BY <1>3, <2>1, <2>2, <2>3 DEF set_min_freq
  <1>4. CASE set_max_freq(p)
    <2>1. CASE At(p, "max", 1) /\ ReadLocal(p, "max", RP0)
      BY <2>1, HardwareAssumption DEF At, ReadLocal, sysfs_read, sysfs, TypeOK, PinInv, SoundInv, Limits, Current, Freq, AcceptMin, AcceptMax
    <2>2. CASE At(p, "max", 2) /\ SetMax(p, local[p].max, "abort")
      BY <2>2, <1>0, SetMaxEffect, HardwareAssumption DEF At, Moved, End, sysfs, TypeOK, PinInv, SoundInv, Limits, Current, Freq, AcceptMin, AcceptMax
    <2>3. CASE At(p, "max", 3) /\ SetMin(p, local[p].max, "abort")
      BY <2>3, <1>0, SetMinEffect, HardwareAssumption DEF At, Moved, End, sysfs, TypeOK, PinInv, SoundInv, Limits, Current, Freq, AcceptMin, AcceptMax
    <2>. QED BY <1>4, <2>1, <2>2, <2>3 DEF set_max_freq
  <1>5. CASE Restore(p)
    <2>1. CASE At(p, "restore", 1) /\ SetMin(p, saved[p].min, "ignore")
      <3>1. pc'[p] = <<"restore", 2>> /\ UNCHANGED <<verdict, saved, local, found>>
        BY <2>1, <1>0, SetMinEffect DEF At, Moved, sysfs, TypeOK
      <3>2. gt_max' = gt_max /\ (saved[p] = found => gt_min' = found.min)
        BY <2>1, <1>0, SetMinEffect, HardwareAssumption DEF At, sysfs, TypeOK, SoundInv, Freq, AcceptMin
      <3>. QED BY <2>1, <3>1, <3>2, HardwareAssumption DEF At, SoundInv, Current, Freq, TypeOK
    <2>2. CASE At(p, "restore", 2) /\ SetMax(p, saved[p].max, "ignore")
      <3>1. pc'[p] = <<"restore", 3>> /\ UNCHANGED <<verdict, saved, local, found>>
        BY <2>2, <1>0, SetMaxEffect DEF At, Moved, sysfs, TypeOK
      <3>2. gt_min' = gt_min /\ (saved[p] = found => gt_max' = found.max)
        BY <2>2, <1>0, SetMaxEffect, HardwareAssumption DEF At, sysfs, TypeOK, SoundInv, Freq, AcceptMax
      <3>. QED BY <2>2, <3>1, <3>2, HardwareAssumption DEF At, SoundInv, Current, Freq, TypeOK
    <2>. QED BY <1>5, <2>1, <2>2 DEF Restore
  <1>6. CASE Run(p)
    <2>1. CASE pc[p] = <<"auto", 5>> /\ Goto(p, "min", 1)
      BY <1>6, <2>1, HardwareAssumption DEF Run, Measuring, Goto, End, sysfs, TypeOK, PinInv, SoundInv, Limits, Current, Freq, AcceptMin, AcceptMax
    <2>2. CASE pc[p] = <<"min", 4>> /\ Goto(p, "max", 1)
      BY <1>6, <2>2, HardwareAssumption DEF Run, Measuring, Goto, End, sysfs, TypeOK, PinInv, SoundInv, Limits, Current, Freq, AcceptMin, AcceptMax
    <2>3. CASE pc[p] = <<"max", 4>> /\ Goto(p, "restore", 1)
      BY <1>6, <2>3, HardwareAssumption DEF Run, Measuring, Goto, End, sysfs, TypeOK, PinInv, SoundInv, Limits, Current, Freq, AcceptMin, AcceptMax
    <2>4. CASE End(p, "aborted")
      BY <1>6, <2>4, HardwareAssumption DEF Run, Measuring, End, sysfs, TypeOK, PinInv, SoundInv, Limits, Current, Freq, AcceptMin, AcceptMax
    <2>5. pc[p] \in {<<"auto", 5>>, <<"min", 4>>, <<"max", 4>>}
      BY <1>6 DEF Run, Measuring
    <2>6. CASE pc[p] = <<"auto", 5>>
      <3>1. pc[p][1] = "auto"  BY <2>6
      <3>. QED BY <1>6, <2>6, <2>1, <2>4, <3>1 DEF Run
    <2>7. CASE pc[p] = <<"min", 4>>
      <3>1. pc[p][1] = "min"  BY <2>7
      <3>. QED BY <1>6, <2>7, <2>2, <2>4, <3>1 DEF Run
    <2>8. CASE pc[p] = <<"max", 4>>
      <3>1. pc[p][1] = "max"  BY <2>8
      <3>. QED BY <1>6, <2>8, <2>3, <2>4, <3>1 DEF Run
    <2>. QED BY <2>5, <2>6, <2>7, <2>8
  <1>7. CASE Return(p)
    BY <1>7, HardwareAssumption DEF Return, At, End, sysfs, TypeOK, PinInv, SoundInv, Limits, Current, Freq, AcceptMin, AcceptMax
  <1>. QED BY <1>1, <1>2, <1>3, <1>4, <1>5, <1>6, <1>7 DEF Program

\* Alone on a card whose files can be written, the program keeps all it promises.
LEMMA AloneSound ==
    ASSUME NEW p, Proc = {p}, "write" \notin Fallible
    PROVE  Spec => [](WritesAccepted /\ MeasuresAsSet /\ Restored)
  <1>1. Init => PinInv(p) /\ SoundInv(p)
    BY HardwareAssumption DEF Init, PinInv, SoundInv, Current, Freq
  <1>2. TypeOK /\ PinInv(p) /\ SoundInv(p) /\ [Next]_vars => PinInv(p)' /\ SoundInv(p)'
    BY PinKept, SoundKept
  <1>3. TypeOK /\ PinInv(p) /\ SoundInv(p) => WritesAccepted /\ MeasuresAsSet /\ Restored
    <2>. SUFFICES ASSUME TypeOK, PinInv(p), SoundInv(p)
                  PROVE  WritesAccepted /\ MeasuresAsSet /\ Restored
      OBVIOUS
    <2>1. WritesAccepted
      BY DEF SoundInv, WritesAccepted
    <2>2. PinnedWhenMeasured
      BY DEF PinInv, PinnedWhenMeasured, Measuring, Current, Wanted
    <2>3. Measuring(p) /\ pc[p][1] = "auto" /\ local[p] = Wanted("auto") => Current = Wanted("auto")
      BY DEF SoundInv, Measuring, Current, Wanted
    <2>4. Restored
      BY DEF SoundInv, Restored
    <2>. QED BY <2>1, <2>2, <2>3, <2>4 DEF MeasuresAsSet
  <1>. QED BY <1>1, <1>2, <1>3, TypeCorrect, PTL DEF Spec

\* Alone on the card, whatever limits it finds, the program never asks for a
\* limit the driver refuses: only a read that failed before lets an assert abort.
THEOREM AlonePassesWrites ==
    ASSUME NEW p, Proc = {p}, "write" \notin Fallible
    PROVE  Spec => []WritesAccepted
  BY AloneSound, PTL

\* Alone on the card, each of the three measurements is made at the limits it is
\* announced with, never at what an earlier one left, unless "automatic" could
\* not read the limits of the hardware.
THEOREM AloneMeasuresAsSet ==
    ASSUME NEW p, Proc = {p}, "write" \notin Fallible
    PROVE  Spec => []MeasuresAsSet
  BY AloneSound, PTL

\* Alone on the card, a pass leaves the two limits as it found them if it could
\* read them: the two last writes come in an order the driver accepts.
THEOREM AloneRestores ==
    ASSUME NEW p, Proc = {p}, "write" \notin Fallible
    PROVE  Spec => []Restored
  BY AloneSound, PTL
=============================================================================
