--------------------------- MODULE MeasureProofs ----------------------------
(***************************************************************************)
(* Proofs about module Measure: the card is found however the nodes come   *)
(* and go; the loops keep their time, and the latencies and the copy loop  *)
(* their mean, whatever the clock does; what a program writes into its     *)
(* batch is decoded as it was meant, and the engine does it; for all       *)
(* sizes.                                                                  *)
(***************************************************************************)
EXTENDS Measure, TLAPS, FiniteSetTheorems, SequenceTheorems

-----------------------------------------------------------------------------
(* Which statements leave the searches alone.                              *)

SearchLabel == {"card", "first", "second"}

\* Away from the searches nothing that they work on changes, and no statement
\* leads back to them.
Apart == /\ UNCHANGED openVars
         /\ pc \notin SearchLabel /\ pc' \notin SearchLabel
         /\ pc' = "opened" => pc = "opened"

USE DEF SearchLabel

LEMMA ExecApart == ExecLatency => Apart
  BY DEF ExecLatency, FirstUse, StartRound, Device, Clock, Sync, Take, Average,
         At, Goto, Exit, Apart

LEMMA StoreApart == StoreLatency => Apart
  BY DEF StoreLatency, FirstUse, StartRound, Device, Clock, Sync, Take, Average,
         At, Goto, Exit, Apart

LEMMA BltApart == BltRun => Apart
  BY DEF BltRun, FirstUse, Device, Clock, Sync, Again, Report, At, Goto, Exit, Stay, Apart

LEMMA FillApart == Fill => Apart
  BY DEF Fill, FirstUse, until_timeout, Device, Sync, CheckFill, Return, At, Goto, Exit, Apart

LEMMA BusyApart == Busy => Apart
  BY DEF Busy, FirstUse, Device, WatchFence, WatchClock, At, Goto, Exit, Apart

\* A step of Measure is one of the searches, or of a node, or apart from them.
LEMMA StepKinds ==
    ASSUME [Next]_vars
    PROVE  \/ drm_get_card \/ drm_open_driver
           \/ \E n \in Node : ComeOrGo(n)
           \/ Apart
           \/ UNCHANGED <<pc, openVars>>
  <1>1. CASE Step
    BY <1>1, ExecApart, StoreApart, BltApart, FillApart, BusyApart DEF Step, Open, Is
  <1>2. CASE Run \/ Pass \/ Set \/ Exited \/ UNCHANGED vars
    BY <1>2 DEF Run, Pass, Set, Others, Exited, vars
  <1>3. CASE Elsewhere
    BY <1>3 DEF Elsewhere
  <1>. QED BY <1>1, <1>2, <1>3 DEF Next
-----------------------------------------------------------------------------
(* The search.                                                             *)

\* n is the first node, as far as the nodes that never came or went can tell
FirstOf(n) == /\ n \in steady => n \in nodes
              /\ \A k \in steady : k < n => k \notin nodes

SearchInv ==
    /\ OpenTypeOK
    /\ pc \in SearchLabel => fd = -1 /\ \A k \in steady : k < next => k \notin nodes
    /\ pc \in {"card", "first"} => lasting = {}
    /\ pc = "second" => \A k \in lasting : next <= k
    /\ pc = "opened" /\ fd = -1 => lasting = {}
    /\ card # -1 => FirstOf(card)
    /\ fd # -1 => FirstOf(fd)

LEMMA SearchInit == Init => SearchInv
  BY NodesAssumption DEF Init, OpenInit, SearchInv, OpenTypeOK, Node

LEMMA SearchNext == SearchInv /\ [Next]_vars => SearchInv'
  <1> SUFFICES ASSUME SearchInv, [Next]_vars PROVE SearchInv'
    OBVIOUS
  <1> USE NodesAssumption DEF Node
  <1>1. CASE drm_get_card
    BY <1>1 DEF drm_get_card, TryNext, At, Goto, Stay, system, SearchInv, OpenTypeOK, FirstOf
  <1>2. CASE drm_open_driver
    <2>1. CASE pc = "first" /\ search_and_open("first", Goto("second"))
      <3>1. CASE next \in nodes
        <4>1. fd' = next /\ pc' = "opened" /\ UNCHANGED <<next, card, lasting, nodes, changes, steady>>
          BY <2>1, <3>1 DEF search_and_open, TryNext, At, Goto, Stay, SearchInv, OpenTypeOK
        <4>. QED BY <2>1, <3>1, <4>1 DEF SearchInv, OpenTypeOK, FirstOf
      <3>2. CASE next \in Node \ nodes
        <4>1. next' = next + 1 /\ UNCHANGED <<pc, card, fd, lasting, nodes, changes, steady>>
          BY <2>1, <3>2 DEF search_and_open, TryNext, At, Goto, Stay, SearchInv, OpenTypeOK
        <4>. QED BY <2>1, <3>2, <4>1 DEF SearchInv, OpenTypeOK, FirstOf
      <3>3. CASE next = Nodes /\ next \notin nodes
        <4>1. next' = 0 /\ pc' = "second" /\ lasting' = nodes
              /\ UNCHANGED <<card, fd, nodes, changes, steady>>
          BY <2>1, <3>3 DEF search_and_open, TryNext, At, Goto, Stay, SearchInv, OpenTypeOK
        <4>. QED BY <2>1, <3>3, <4>1 DEF SearchInv, OpenTypeOK, FirstOf
      <3>. QED BY <3>1, <3>2, <3>3 DEF SearchInv, OpenTypeOK
    <2>2. CASE pc = "second" /\ search_and_open("second", Goto("opened"))
      <3>1. CASE next \in nodes
        <4>1. fd' = next /\ pc' = "opened" /\ UNCHANGED <<next, card, lasting, nodes, changes, steady>>
          BY <2>2, <3>1 DEF search_and_open, TryNext, At, Goto, Stay, SearchInv, OpenTypeOK
        <4>. QED BY <2>2, <3>1, <4>1 DEF SearchInv, OpenTypeOK, FirstOf
      <3>2. CASE next \in Node \ nodes
        <4>1. next' = next + 1 /\ UNCHANGED <<pc, card, fd, lasting, nodes, changes, steady>>
          BY <2>2, <3>2 DEF search_and_open, TryNext, At, Goto, Stay, SearchInv, OpenTypeOK
        <4>. QED BY <2>2, <3>2, <4>1 DEF SearchInv, OpenTypeOK, FirstOf
      <3>3. CASE next = Nodes /\ next \notin nodes
        <4>1. next' = 0 /\ pc' = "opened" /\ UNCHANGED <<card, fd, lasting, nodes, changes, steady>>
          BY <2>2, <3>3 DEF search_and_open, TryNext, At, Goto, Stay, SearchInv, OpenTypeOK
        <4>. QED BY <2>2, <3>3, <4>1 DEF SearchInv, OpenTypeOK, FirstOf
      <3>. QED BY <3>1, <3>2, <3>3 DEF SearchInv, OpenTypeOK
    <2>. QED BY <1>2, <2>1, <2>2 DEF drm_open_driver, search_and_open, At
  <1>3. CASE \E n \in Node : ComeOrGo(n)
    BY <1>3 DEF ComeOrGo, Searching, Stay, found, SearchInv, OpenTypeOK, FirstOf
  <1>4. CASE Apart
    BY <1>4 DEF Apart, openVars, SearchInv, OpenTypeOK, FirstOf
  <1>5. CASE UNCHANGED <<pc, openVars>>
    BY <1>5 DEF openVars, SearchInv, OpenTypeOK, FirstOf
  <1>. QED BY <1>1, <1>2, <1>3, <1>4, <1>5, StepKinds

LEMMA SearchImplies == SearchInv => FindsTheCard
  BY DEF SearchInv, OpenTypeOK, FirstOf, FindsTheCard, Node

\* The search gives up only if no node lasted through the second search, and sysfs
\* and the ioctls mean the same card unless one of the two nodes came or went, for any
\* number of nodes and of changes (gkit_lib.c:317-326).
THEOREM CardFound == Spec => []FindsTheCard
  <1>1. SearchInv /\ UNCHANGED vars => SearchInv'
    BY SearchNext
  <1>. QED BY SearchInit, SearchNext, SearchImplies, PTL DEF Spec
-----------------------------------------------------------------------------
(* Arithmetic.                                                             *)

\* Quotient and remainder of any integer.
LEMMA DivModInt ==
    ASSUME NEW d \in Nat \ {0}, NEW n \in Int
    PROVE  /\ n \div d \in Int /\ n % d \in Nat /\ n % d < d
           /\ n = d * (n \div d) + (n % d)
  BY SMTT(30)

\* An integer written with quotient and remainder.
LEMMA ModOf ==
    ASSUME NEW d \in Nat \ {0}, NEW q \in Int, NEW r \in Nat, r < d
    PROVE  (d * q + r) % d = r /\ (d * q + r) \div d = q
  BY SMTT(60)

\* Whole multiples do not matter to the remainder,
LEMMA ModShift ==
    ASSUME NEW d \in Nat \ {0}, NEW q \in Int, NEW n \in Int
    PROVE  (d * q + n) % d = n % d
  <1> DEFINE q1 == n \div d
             r1 == n % d
  <1>1. q1 \in Int /\ r1 \in Nat /\ r1 < d /\ n = d * q1 + r1
    BY DivModInt
  <1> HIDE DEF q1, r1
  <1>2. d * q + n = d * (q + q1) + r1
    BY <1>1
  <1>3. q + q1 \in Int BY <1>1
  <1>4. (d * (q + q1) + r1) % d = r1
    BY <1>1, <1>3, ModOf
  <1> QED BY <1>4, <1>2 DEF r1

\* nor does taking it early.
LEMMA ModSum ==
    ASSUME NEW d \in Nat \ {0}, NEW a \in Int, NEW b \in Int
    PROVE  ((a % d) + (b % d)) % d = (a + b) % d
  <1> DEFINE qa == a \div d
             ra == a % d
             qb == b \div d
             rb == b % d
  <1>1. qa \in Int /\ ra \in Nat /\ a = d * qa + ra
    BY DivModInt
  <1>2. qb \in Int /\ rb \in Nat /\ b = d * qb + rb
    BY DivModInt
  <1> HIDE DEF qa, ra, qb, rb
  <1>3. a + b = d * (qa + qb) + (ra + rb) /\ qa + qb \in Int /\ ra + rb \in Int
    BY <1>1, <1>2
  <1>4. (d * (qa + qb) + (ra + rb)) % d = (ra + rb) % d
    BY <1>3, ModShift
  <1> QED BY <1>3, <1>4 DEF ra, rb
-----------------------------------------------------------------------------
(* The clock and what it measures.                                         *)

Loop    == program \in {"fill", "busy"}
Latency == program \in {"exec", "store"}

MaxShift == Half * Giga - MaxLoop - 1
MinShift == (Half - Timeout) * Giga

\* The clock never gets to 0, and is not shifted further than it may be set.
ClockInv ==
    /\ program \in Programs
    /\ clock \in Int /\ start \in Nat /\ sets \in 0..MaxSets
    /\ real \in 0..Limit /\ shift \in Int
    /\ sets = 0 => clock >= Epoch /\ shift = 0
    /\ sets > 0 => MaxSets * clock > (MaxSets - sets) * Epoch
    /\ MaxSets * shift <= sets * MaxShift
    /\ MaxSets * shift >= -(sets * MinShift)

\* Nothing is measured before a device is open, and in the latency programs
\* before a sample is.
StartInv ==
    /\ pc \in SearchLabel \cup {"opened", "spin", "round", "average"} => start = 0
    /\ start = 0 /\ Loop => real = 0 /\ shift = 0
    /\ start # 0 /\ Loop => clock = start + Shown

RanInv ==
    /\ pc \in {"until", "write", "check", "cleanup"} => program = "fill"
    /\ pc = "until" /\ start # 0 => ran = TRUE
    /\ Loop => shown = <<>>

\* The sum of the latencies is what the clock shows of the samples taken.
SumInv ==
    Latency =>
        /\ total_latency = (Shown - (IF start = 0 THEN 0 ELSE clock - start)) % Word
        /\ shown # <<>> => /\ pc \in {"round", "average"}
                            /\ shown = <<total_latency \div Times>>
        /\ pc \in {"create", "clock"} /\ program = "exec" => start = 0
        /\ pc = "clock" => start = 0

TimeInv == ClockInv /\ StartInv /\ RanInv /\ SumInv
-----------------------------------------------------------------------------
(* What keeps the clock's invariant.                                       *)

LEMMA ShiftBounds ==
    /\ MaxShift \in Nat /\ MinShift \in Nat
    /\ \A d \in Forward : d \in Nat /\ MaxSets * d <= MaxShift
    /\ \A d \in Back : d \in Nat /\ MaxSets * d <= MinShift /\ Epoch > MaxSets * d
  <1>1. Half * Giga \in Nat /\ (Half - Timeout) * Giga \in Nat
    BY GigaAssumption, WordAssumption, MeasureAssumption
  <1>2. MaxShift \in Nat /\ MinShift \in Nat
    BY <1>1, ShortOfAWrap, LongEnough DEF MaxShift, MinShift
  <1>3. ASSUME NEW d \in Forward PROVE d \in Nat /\ MaxSets * d <= MaxShift
    <2>1. d \in Nat /\ MaxSets * d \in Nat /\ MaxLoop + MaxSets * d < Half * Giga
      BY ClockAssumption, ShortOfAWrap
    <2>. QED BY <2>1, <1>1, LongEnough DEF MaxShift
  <1>4. ASSUME NEW d \in Back PROVE d \in Nat /\ MaxSets * d <= MinShift /\ Epoch > MaxSets * d
    <2>1. d \in Nat /\ d * MaxSets = MaxSets * d
      BY ClockAssumption
    <2>. QED BY <2>1, ClockAssumption, ShortOfAWrap DEF MinShift
  <1>. QED BY <1>2, <1>3, <1>4

\* The clock never shows 1970, and shift has a bound of its own.
LEMMA ClockBounds ==
    ASSUME ClockInv
    PROVE  clock \in Nat \ {0} /\ -MinShift <= shift /\ shift <= MaxShift
  <1>1. MaxShift \in Nat /\ MinShift \in Nat /\ Epoch \in Nat \ {0} /\ MaxSets \in Nat
    BY ShiftBounds, ClockAssumption
  <1>2. CASE sets = 0
    BY <1>1, <1>2 DEF ClockInv
  <1>3. CASE sets > 0
    <2>1. sets \in 1..MaxSets /\ MaxSets - sets \in Nat /\ clock \in Int /\ shift \in Int
      BY <1>1, <1>3 DEF ClockInv
    <2>2. MaxSets * clock > 0
      <3>1. (MaxSets - sets) * Epoch >= 0 BY <2>1, <1>1
      <3>. QED BY <3>1, <1>1, <1>3, <2>1 DEF ClockInv
    <2>3. clock > 0
      BY <2>1, <2>2, <1>1
    <2>4. MaxSets * shift <= MaxSets * MaxShift
      <3>1. sets * MaxShift <= MaxSets * MaxShift BY <2>1, <1>1
      <3>. QED BY <3>1, <2>1, <1>1 DEF ClockInv
    <2>5. -(MaxSets * MinShift) <= MaxSets * shift
      <3>1. sets * MinShift <= MaxSets * MinShift BY <2>1, <1>1
      <3>. QED BY <3>1, <2>1, <1>1 DEF ClockInv
    <2>6. shift <= MaxShift BY <2>1, <2>4, <1>1
    <2>7. -MinShift <= shift BY <2>1, <2>5, <1>1
    <2>. QED BY <2>1, <2>3, <2>6, <2>7
  <1>. QED BY <1>1, <1>2, <1>3 DEF ClockInv

LEMMA ClockKept ==
    ASSUME ClockInv, clock' = clock, sets' = sets, program' = program,
           start' = start \/ start' = clock \/ start' = 0,
           (real' = real /\ shift' = shift) \/ (real' = 0 /\ shift' = 0)
    PROVE  ClockInv'
  <1>1. start' \in Nat
    BY ClockBounds DEF ClockInv
  <1>2. sets * MaxShift \in Nat /\ sets * MinShift \in Nat /\ MaxSets * 0 = 0 /\ Limit \in Nat
    BY ShiftBounds, ClockAssumption, LongEnough DEF ClockInv, Limit
  <1>. QED BY <1>1, <1>2 DEF ClockInv, Limit, MaxShift, MinShift

LEMMA ClockTicks ==
    ASSUME ClockInv, Tick(Limit), UNCHANGED program
    PROVE  ClockInv'
  <1>1. /\ MaxSets \in Nat /\ Limit \in Nat /\ clock \in Int /\ sets \in 0..MaxSets
        /\ clock' = clock + 1 /\ real' \in 0..Limit /\ UNCHANGED <<start, sets, shift>>
    BY ClockAssumption, LongEnough DEF Limit, ClockInv, Tick
  <1>2. sets > 0 => MaxSets * clock' > (MaxSets - sets) * Epoch
    <2>1. MaxSets * (clock + 1) = MaxSets * clock + MaxSets
      BY <1>1
    <2>2. MaxSets * clock \in Int /\ (MaxSets - sets) * Epoch \in Int
      BY <1>1, ClockAssumption
    <2>. QED BY <1>1, <2>1, <2>2 DEF ClockInv
  <1>3. sets = 0 => clock' >= Epoch
    BY <1>1, ClockAssumption DEF ClockInv
  <1>4. UNCHANGED <<MaxShift, MinShift, Limit>>
    BY DEF MaxShift, MinShift, Limit
  <1>. QED BY <1>1, <1>2, <1>3, <1>4 DEF ClockInv

LEMMA ClockSets ==
    ASSUME ClockInv, SetClock, UNCHANGED program
    PROVE  ClockInv'
  <1>1. PICK d \in Forward \cup {-b : b \in Back} : clock' = clock + d /\ shift' = shift + d
    BY DEF SetClock
  <1> DEFINE m == MaxSets
             hi == MaxShift
             lo == MinShift
  <1>2. /\ m \in Nat \ {0} /\ hi \in Nat /\ lo \in Nat /\ Epoch \in Nat \ {0} /\ d \in Int
        /\ m * d <= hi /\ m * d >= -lo /\ m * d > -Epoch
    <2>1. CASE d \in Forward
      <3>1. d \in Nat /\ m * d \in Nat BY <2>1, ShiftBounds, ClockAssumption
      <3>. QED BY <2>1, <3>1, ShiftBounds, ClockAssumption DEF SetClock, ClockInv
    <2>2. CASE d \notin Forward
      <3>1. PICK b \in Back : d = -b BY <2>2
      <3>2. b \in Nat /\ m * b \in Nat /\ m * d = -(m * b) BY <3>1, ShiftBounds, ClockAssumption
      <3>. QED BY <3>1, <3>2, ShiftBounds, ClockAssumption DEF SetClock, ClockInv
    <2>. QED BY <2>1, <2>2
  <1>3. /\ sets' = sets + 1 /\ sets \in 0..(m - 1) /\ UNCHANGED <<start, real>>
        /\ clock \in Int /\ shift \in Int
    BY <1>2 DEF SetClock, ClockInv
  <1>4. m * clock >= (m - sets) * Epoch
    <2>1. sets = 0 => m * clock >= m * Epoch
      BY <1>2, <1>3 DEF ClockInv
    <2>2. m * clock \in Int /\ (m - sets) * Epoch \in Int
      BY <1>2, <1>3
    <2>. QED BY <2>1, <2>2, <1>2, <1>3 DEF ClockInv
  <1>5. /\ (m - (sets + 1)) * Epoch = (m - sets) * Epoch - Epoch
        /\ (sets + 1) * hi = sets * hi + hi /\ (sets + 1) * lo = sets * lo + lo
        /\ m * (clock + d) = m * clock + m * d /\ m * (shift + d) = m * shift + m * d
    BY <1>2, <1>3
  <1>6. {m * clock, m * d, m * shift, sets * hi, sets * lo, (m - sets) * Epoch} \subseteq Int
    BY <1>2, <1>3
  <1>7. /\ m * shift <= sets * hi /\ m * shift >= -(sets * lo)
    BY DEF ClockInv
  <1> HIDE DEF m, hi, lo
  <1>8. m * (clock + d) > (m - (sets + 1)) * Epoch
    BY <1>2, <1>4, <1>5, <1>6
  <1>9. m * (shift + d) <= (sets + 1) * hi /\ m * (shift + d) >= -((sets + 1) * lo)
    BY <1>2, <1>5, <1>6, <1>7
  <1> USE DEF m, hi, lo
  <1>10. UNCHANGED <<MaxShift, MinShift, Limit>>
    BY DEF MaxShift, MinShift, Limit
  <1>. QED BY <1>1, <1>2, <1>3, <1>8, <1>9, <1>10 DEF ClockInv
-----------------------------------------------------------------------------
(* The readings.                                                           *)

\* The difference in seconds and nanoseconds is the difference, modulo Word.
LEMMA NsecSince ==
    ASSUME NEW t \in Int, clock \in Int
    PROVE  nsec_since(t) = (clock - t) % Word
  <1> DEFINE N  == NSEC_PER_SEC
             sc == tv_sec(clock)
             nc == tv_nsec(clock)
             st == tv_sec(t)
             nt == tv_nsec(t)
  <1>1. N \in Nat \ {0} BY GigaAssumption
  <1>2. sc \in Int /\ nc \in Int /\ clock = N * sc + nc
    BY <1>1, DivModInt DEF tv_sec, tv_nsec
  <1>3. st \in Int /\ nt \in Int /\ t = N * st + nt
    BY <1>1, DivModInt DEF tv_sec, tv_nsec
  <1>4. nsec_since(t) = ((nc - nt) + N * (sc - st)) % Word
    BY DEF nsec_since
  <1> HIDE DEF N, sc, nc, st, nt
  <1>5. N * (sc - st) = N * sc - N * st /\ N * sc \in Int /\ N * st \in Int
    BY <1>1, <1>2, <1>3
  <1>. QED BY <1>2, <1>3, <1>4, <1>5

LEMMA WordIsPositive == Word \in Nat \ {0}
  <1>1. Half * Giga \in Nat BY GigaAssumption, WordAssumption
  <1>. QED BY <1>1, WordAssumption

\* The seconds taken of a difference that is not negative, and of one that wrapped.
LEMMA Seconds ==
    ASSUME NEW n \in Int, -MinShift <= n, n < Half * Giga
    PROVE  /\ n >= 0 => seconds_elapsed(n % Word) = n \div Giga
           /\ n < 0 => seconds_elapsed(n % Word) >= Timeout
  <1> DEFINE hg == Half * Giga
             q  == n \div Giga
             m  == Word \div hg
  <1>1. /\ Giga \in Nat \ {0} /\ Half \in Nat \ {0} /\ Timeout \in Nat \ {0} /\ Timeout < Half
        /\ hg \in Nat \ {0} /\ Word \in Nat \ {0} /\ Word > hg
    BY GigaAssumption, WordAssumption, MeasureAssumption, WordIsPositive
  <1>2. q \in Int /\ n % Giga \in Nat /\ n % Giga < Giga /\ n = Giga * q + (n % Giga)
    BY <1>1, DivModInt
  <1>3. m \in Int /\ Word = hg * m
    <2>1. Word % hg = 0 BY WordAssumption
    <2>. HIDE DEF hg
    <2>2. m \in Int /\ Word = hg * m + (Word % hg)
      BY <1>1, DivModInt
    <2>3. hg * m \in Int BY <1>1, <2>2
    <2>. QED BY <2>1, <2>2, <2>3
  <1>4. CASE n >= 0
    <2>1. n % Word = n
      <3>1. (Word * 0 + n) % Word = n
        BY <1>1, <1>4, ModOf
      <3>. QED BY <3>1, <1>1
    <2>2. q >= 0 /\ q < Half
      <3>1. Giga * q < Giga * Half BY <1>1, <1>2
      <3>2. Giga * (q + 1) > 0
        <4>1. Giga * (q + 1) = Giga * q + Giga BY <1>1, <1>2
        <4>2. Giga * q \in Int BY <1>1, <1>2
        <4>. QED BY <4>1, <4>2, <1>1, <1>2, <1>4
      <3>3. q < Half BY <3>1, <1>1, <1>2
      <3>4. q + 1 > 0 BY <3>2, <1>1, <1>2
      <3>. QED BY <3>3, <3>4, <1>2
    <2>3. q % Half = q
      <3>1. (Half * 0 + q) % Half = q
        BY <1>1, <1>2, <2>2, ModOf
      <3>. QED BY <3>1, <1>1, <1>2
    <2>. QED BY <2>1, <2>3, <1>4 DEF seconds_elapsed
  <1>5. CASE n < 0
    <2>1. q < 0 /\ q >= -(Half - Timeout)
      <3>1. MinShift = Giga * (Half - Timeout) BY <1>1 DEF MinShift
      <3>2. Giga * q < 0
        BY <1>1, <1>2, <1>5
      <3>3. Giga * q + Giga > -(Giga * (Half - Timeout))
        BY <3>1, <1>1, <1>2
      <3>4. Giga * (q + 1 + Half - Timeout) > 0
        <4>1. Giga * (q + 1 + Half - Timeout) = Giga * q + Giga + Giga * (Half - Timeout)
          BY <1>1, <1>2
        <4>2. Giga * q \in Int /\ Giga * (Half - Timeout) \in Int BY <1>1, <1>2
        <4>. QED BY <3>3, <4>1, <4>2, <1>1
      <3>5. q < 0 BY <3>2, <1>1, <1>2
      <3>6. q + 1 + Half - Timeout > 0 BY <3>4, <1>1, <1>2
      <3>. QED BY <3>5, <3>6, <1>1, <1>2
    <2>2. n % Word = n + Word
      <3>1. n + Word >= 0 /\ n + Word < Word
        <4>1. MinShift <= hg
          <5>1. MinShift = hg - Timeout * Giga /\ Timeout * Giga \in Nat BY <1>1 DEF MinShift
          <5>. QED BY <5>1, <1>1
        <4>2. MinShift \in Nat BY ShiftBounds
        <4>. QED BY <4>1, <4>2, <1>1, <1>5
      <3>2. (Word * (-1) + (n + Word)) % Word = n + Word
        BY <3>1, <1>1, ModOf
      <3>3. Word * (-1) + (n + Word) = n BY <1>1
      <3>. QED BY <3>2, <3>3
    <2>3. (n + Word) \div Giga = q + Half * m
      <3>1. n + Word = Giga * (q + Half * m) + (n % Giga)
        <4>1. Giga * (q + Half * m) = Giga * q + hg * m
          BY <1>1, <1>2, <1>3
        <4>2. Giga * q \in Int /\ hg * m \in Int BY <1>1, <1>2, <1>3
        <4>. QED BY <4>1, <4>2, <1>2, <1>3
      <3>2. q + Half * m \in Int BY <1>1, <1>2, <1>3
      <3>. QED BY <3>1, <3>2, <1>1, <1>2, ModOf
    <2>4. (q + Half * m) % Half = q + Half
      <3>1. q + Half \in Nat /\ q + Half < Half /\ q + Half >= Timeout
        BY <2>1, <1>1, <1>2
      <3>2. m - 1 \in Int /\ Half * (m - 1) + (q + Half) = q + Half * m
        BY <1>1, <1>2, <1>3
      <3>3. (Half * (m - 1) + (q + Half)) % Half = q + Half
        BY <3>1, <3>2, <1>1, ModOf
      <3>. QED BY <3>2, <3>3
    <2>. QED BY <2>1, <2>2, <2>3, <2>4, <1>1, <1>2, <1>5 DEF seconds_elapsed
  <1>. QED BY <1>4, <1>5
-----------------------------------------------------------------------------
(* The times, statement by statement.                                      *)

LEMMA TimesInit == Init => TimeInv
  <1> SUFFICES ASSUME Init PROVE TimeInv
    OBVIOUS
  <1>1. MaxSets \in Nat /\ MaxSets * 0 = 0 /\ Limit \in Nat /\ Epoch \in Nat \ {0}
    BY ClockAssumption, LongEnough DEF Limit
  <1>2. 0 * MaxShift = 0 /\ 0 * MinShift = 0
    BY ShiftBounds
  <1>3. ClockInv
    BY <1>1, <1>2 DEF Init, TimeInit, ClockInv
  <1>4. 0 % Word = 0
    BY WordIsPositive
  <1>. QED BY <1>3, <1>4 DEF Init, TimeInit, OpenInit, TimeInv, StartInv, RanInv, SumInv,
                             Shown, Loop, Latency

\* A statement that leaves times and results alone only has to be at the right place.
Still == UNCHANGED <<timeVars, program, round, total_latency, shown, ran>>

LEMMA StillKept ==
    ASSUME TimeInv, Still, verdict = "running",
           pc' \in SearchLabel \cup {"opened", "spin", "round", "average"} => start = 0,
           pc' \in {"until", "write", "check", "cleanup"} => program = "fill",
           pc' = "until" /\ start # 0 => ran = TRUE,
           Latency /\ shown # <<>> => pc' \in {"round", "average"},
           Latency /\ (pc' = "clock" \/ (pc' = "create" /\ program = "exec")) => start = 0
    PROVE  TimeInv'
  <1>1. ClockInv'
    BY ClockKept DEF TimeInv, Still, timeVars
  <1>2. UNCHANGED <<clock, start, real, shift, program, total_latency, shown, ran>>
    BY DEF Still, timeVars
  <1>3. StartInv' BY <1>2 DEF TimeInv, StartInv, Shown, Loop
  <1>4. RanInv' BY <1>2 DEF TimeInv, RanInv, Loop
  <1>5. SumInv' BY <1>2 DEF TimeInv, SumInv, Shown, Latency
  <1>. QED BY <1>1, <1>3, <1>4, <1>5 DEF TimeInv

LEMMA OpenTimes ==
    ASSUME TimeInv, Open, UNCHANGED program
    PROVE  TimeInv'
  <1>1. /\ pc \in SearchLabel /\ pc' \in SearchLabel \cup {"opened"}
        /\ UNCHANGED <<timeVars, results>> /\ verdict = "running"
    BY DEF Open, drm_get_card, drm_open_driver, search_and_open, TryNext, At, Goto, Stay
  <1>. QED BY <1>1, StillKept DEF Still, results, TimeInv, StartInv, SumInv

LEMMA FirstUseTimes ==
    ASSUME TimeInv, NEW to, FirstUse(to), UNCHANGED program,
           to \in {"round", "build", "until", "spin"}, to = "until" => program = "fill"
    PROVE  TimeInv'
  <1>1. /\ UNCHANGED <<timeVars, results>> /\ verdict = "running" /\ pc = "opened"
        /\ pc' \in {to, "opened"} /\ start = 0
    BY DEF FirstUse, At, Goto, Exit, TimeInv, StartInv
  <1>. QED BY <1>1, StillKept DEF Still, results, TimeInv, SumInv

\* the device is used, and the next label is none where something is claimed
LEMMA DeviceTimes ==
    ASSUME TimeInv, NEW from, NEW to, At(from), Goto(to), UNCHANGED <<timeVars, results, program>>,
           from \notin {"round", "average"},
           to \notin SearchLabel \cup {"opened", "spin", "round", "average", "until", "cleanup"},
           to \in {"write", "check"} => program = "fill",
           Latency /\ to = "clock" => start = 0,
           to = "create" => program = "store"
    PROVE  TimeInv'
  <1>1. Latency => shown = <<>>
    BY DEF At, TimeInv, SumInv
  <1>. QED BY <1>1, StillKept DEF At, Goto, Still, results

\* the clock is read to measure from
LEMMA ClockTimes ==
    ASSUME TimeInv, NEW to, Clock("clock", ReadClock, to), UNCHANGED program,
           ~Loop, to \in {"submit", "create"}, to = "create" => program # "exec"
    PROVE  TimeInv'
  <1>1. ClockInv' BY ClockKept DEF Clock, ReadClock, TimeInv
  <1>2. clock \in Int /\ (Latency => start = 0 /\ shown = <<>>)
    BY DEF Clock, At, TimeInv, SumInv, ClockInv
  <1>. QED BY <1>1, <1>2 DEF Clock, ReadClock, At, Goto, results, TimeInv, StartInv,
                             RanInv, SumInv,
                             Shown, Loop, Latency, ClockInv

LEMMA StartTimes ==
    ASSUME TimeInv, NEW first, StartRound(first), UNCHANGED program,
           ~Loop, first \in {"create", "clock"}
    PROVE  TimeInv'
  <1>1. ClockInv' BY ClockKept DEF StartRound, Measure, TimeInv
  <1>2. start = 0 /\ 0 % Word = 0 BY WordIsPositive DEF StartRound, At, TimeInv, StartInv
  <1>. QED BY <1>1, <1>2 DEF StartRound, Measure, At, Goto, TimeInv, StartInv, RanInv, SumInv,
                             Shown, Loop, Latency

\* The sum wraps back.
LEMMA TakeTimes ==
    ASSUME TimeInv, NEW first, Take(first), UNCHANGED program,
           Latency, first \in {"create", "clock"}
    PROVE  TimeInv'
  <1>1. ClockInv' BY ClockKept DEF Take, TimeInv
  <1>2. clock \in Int /\ start \in Int /\ Shown \in Int
    <2>1. Limit \in Nat BY LongEnough DEF Limit
    <2>. QED BY <2>1 DEF TimeInv, ClockInv, Shown
  <1>3. total_latency' = Shown % Word
    <2>1. total_latency' = (total_latency + nsec_elapsed) % Word
      BY DEF Take
    <2> DEFINE S == Shown
               D == IF start = 0 THEN 0 ELSE clock - start
    <2>2. S \in Int /\ D \in Int
      BY <1>2
    <2>3. total_latency = (S - D) % Word
      BY DEF TimeInv, SumInv
    <2>4. nsec_elapsed = D % Word
      BY <1>2, NsecSince, WordIsPositive DEF nsec_elapsed
    <2> HIDE DEF S, D
    <2>5. \A a \in Int : \A b \in Int : ((a % Word) + (b % Word)) % Word = (a + b) % Word
      BY WordIsPositive, ModSum
    <2>6. S - D \in Int /\ (S - D) + D = S
      BY <2>2
    <2>7. (((S - D) % Word) + (D % Word)) % Word = S % Word
      <3>1. (((S - D) % Word) + (D % Word)) % Word = ((S - D) + D) % Word
        BY <2>2, <2>5, <2>6
      <3>. QED BY <3>1, <2>6
    <2>8. total_latency' = (((S - D) % Word) + (D % Word)) % Word
      BY <2>1, <2>3, <2>4
    <2>. QED BY <2>7, <2>8 DEF S
  <1>4. start' = 0 /\ UNCHANGED <<real, shift, shown>> /\ shown = <<>> /\ pc' \in {first, "average"}
    BY DEF Take, At, Goto, TimeInv, SumInv
  <1>5. Shown' = Shown /\ Shown - 0 = Shown
    BY <1>2, <1>4 DEF Shown
  <1>. QED BY <1>1, <1>3, <1>4, <1>5 DEF TimeInv, StartInv, RanInv, SumInv, Loop, Latency

LEMMA AverageTimes ==
    ASSUME TimeInv, Average, UNCHANGED program, Latency
    PROVE  TimeInv'
  <1>1. ClockInv' BY ClockKept DEF Average, timeVars, TimeInv
  <1>2. /\ pc' \in {"round", "average"} /\ UNCHANGED <<timeVars, total_latency>> /\ start = 0
        /\ shown' # <<>> => shown' = <<total_latency \div Times>>
    BY DEF Average, At, Goto, Exit, TimeInv, StartInv
  <1>. QED BY <1>1, <1>2 DEF TimeInv, StartInv, RanInv, SumInv, Shown, Loop, Latency, timeVars

LEMMA LatencyTimes ==
    ASSUME TimeInv, UNCHANGED program,
           \/ program = "exec" /\ ExecLatency
           \/ program = "store" /\ StoreLatency
    PROVE  TimeInv'
  <1> USE DEF Latency, Loop
  <1>1. CASE FirstUse("round")
    BY <1>1, FirstUseTimes
  <1>2. CASE \E first \in {"create", "clock"} : StartRound(first)
    BY <1>2, StartTimes
  <1>3. CASE \/ program = "exec" /\ Clock("clock", ReadClock, "submit")
             \/ program = "store" /\ Clock("clock", ReadClock, "create")
    BY <1>3, ClockTimes
  <1>4. CASE program = "exec" /\ Device("create", BuildEnd, "clock")
    <2>1. start = 0 BY <1>4 DEF Device, At, TimeInv, SumInv
    <2>. QED BY <1>4, <2>1, DeviceTimes DEF Device
  <1>5. CASE \/ Device("create", BuildStore(sample), "submit")
             \/ Device("submit", Submit, "sync") \/ Sync("sync", "stop")
    BY <1>5, DeviceTimes DEF Device, Sync
  <1>6. CASE \E first \in {"create", "clock"} : Take(first)
    BY <1>6, TakeTimes
  <1>7. CASE Average
    BY <1>7, AverageTimes
  <1>. QED BY <1>1, <1>2, <1>3, <1>4, <1>5, <1>6, <1>7 DEF ExecLatency, StoreLatency

LEMMA BltTimes ==
    ASSUME TimeInv, UNCHANGED program, program = "blt", BltRun
    PROVE  TimeInv'
  <1> USE DEF Latency, Loop
  <1>1. CASE FirstUse("build")
    BY <1>1, FirstUseTimes
  <1>2. CASE \/ Device("build", BuildCopy, "warm") \/ Device("warm", Submit, "warmsync")
             \/ Sync("warmsync", "clock") \/ Sync("sync", "stop")
    BY <1>2, DeviceTimes DEF Device, Sync
  <1>3. CASE Clock("clock", ReadClock, "submit")
    BY <1>3, ClockTimes
  <1>4. CASE Again \/ Report
    <2>1. ClockInv' BY <1>4, ClockKept DEF Again, Report, timeVars, TimeInv
    <2>. QED BY <1>4, <2>1 DEF Again, Report, At, Goto, Exit, Stay, timeVars, TimeInv,
                               StartInv, RanInv, SumInv, Shown
  <1>. QED BY <1>1, <1>2, <1>3, <1>4 DEF BltRun

\* nsec_elapsed() of a loop: the first call sets the start
LEMMA ReadTimes ==
    ASSUME TimeInv, ReadElapsed, UNCHANGED program, Loop, UNCHANGED <<total_latency, shown, ran>>,
           pc' \notin SearchLabel \cup {"opened", "spin", "round", "average", "until"},
           pc' \in {"write", "check", "cleanup"} => program = "fill"
    PROVE  TimeInv'
  <1>1. ClockInv' BY ClockKept DEF ReadElapsed, KeepStart, TimeInv
  <1>2. clock \in Int /\ clock # 0 BY ClockBounds DEF TimeInv
  <1>. QED BY <1>1, <1>2 DEF ReadElapsed, KeepStart, TimeInv, StartInv, RanInv, SumInv,
                             Shown, Loop, Latency

LEMMA FillTimes ==
    ASSUME TimeInv, UNCHANGED program, program = "fill", Fill
    PROVE  TimeInv'
  <1> USE DEF Latency, Loop
  <1>1. CASE FirstUse("until")
    BY <1>1, FirstUseTimes
  <1>2. CASE until_timeout("write", "cleanup")
    <2>1. ReadElapsed /\ UNCHANGED results /\ pc' \in {"write", "cleanup"}
      BY <1>2 DEF until_timeout, Goto
    <2>. QED BY <2>1, ReadTimes DEF results
  <1>3. CASE \/ Device("write", BuildFill, "submit") \/ Device("submit", Submit, "sync")
             \/ Sync("sync", "check")
    BY <1>3, DeviceTimes DEF Device, Sync
  <1>4. CASE CheckFill \/ Return
    <2>1. ClockInv' BY <1>4, ClockKept DEF CheckFill, Return, timeVars, TimeInv
    <2>2. pc' \in {"until", "check", "cleanup"} /\ (CheckFill => ran' = TRUE) /\ UNCHANGED <<timeVars>>
          /\ pc \in {"check", "cleanup"} /\ (Return => pc' = pc) /\ UNCHANGED shown
      BY <1>4 DEF CheckFill, Return, At, Goto, Exit, results
    <2>. QED BY <1>4, <2>1, <2>2 DEF timeVars, TimeInv, StartInv, RanInv, SumInv, Shown
  <1>. QED BY <1>1, <1>2, <1>3, <1>4 DEF Fill

LEMMA BusyTimes ==
    ASSUME TimeInv, UNCHANGED program, program = "busy", Busy
    PROVE  TimeInv'
  <1> USE DEF Latency, Loop
  <1>1. CASE FirstUse("spin")
    BY <1>1, FirstUseTimes
  <1>2. CASE \/ Device("spin", BuildSpinner, "submit") \/ Device("submit", Submit, "release")
             \/ Device("release", Release, "watch")
    BY <1>2, DeviceTimes DEF Device
  <1>3. CASE WatchFence
    <2>1. /\ verdict = "running" /\ UNCHANGED <<timeVars, results>> /\ pc' \in {"watch", "assert"}
      BY <1>3 DEF WatchFence, At, Goto, Exit
    <2>. QED BY <2>1, StillKept DEF Still, results
  <1>4. CASE WatchClock
    <2>1. ReadElapsed /\ UNCHANGED results /\ pc' \in {"watch", "assert"}
      BY <1>4 DEF WatchClock, At, Goto, Exit
    <2>. QED BY <2>1, ReadTimes DEF results
  <1>. QED BY <1>1, <1>2, <1>3, <1>4 DEF Busy

\* The clock ticks, or is set: what it shows of the time measured goes with it.
LEMMA ClockMoves ==
    ASSUME TimeInv, Pass \/ Set
    PROVE  /\ ClockInv' /\ start # 0 /\ start' = start
           /\ UNCHANGED <<pc, verdict, program, results>>
           /\ {clock, clock', Shown, Shown', start} \subseteq Int
           /\ clock' - clock = Shown' - Shown
  <1>1. ClockInv' BY ClockTicks, ClockSets DEF Pass, Set, Others, TimeInv
  <1>2. /\ start # 0 /\ start' = start /\ UNCHANGED <<pc, verdict, program, results>>
    BY DEF Pass, Set, Others, Measuring, Tick, SetClock
  <1>3. /\ {clock, clock', Shown, Shown', start} \subseteq Int
        /\ clock' - clock = Shown' - Shown
    <2>1. Limit \in Nat /\ Limit' = Limit BY LongEnough DEF Limit, Pass, Set, Others
    <2>2. {clock, clock', real, real', shift, shift', start} \subseteq Int
      BY <1>1, <2>1 DEF TimeInv, ClockInv
    <2>3. \/ real' = real + 1 /\ clock' = clock + 1 /\ shift' = shift
          \/ \E d \in Int : real' = real /\ clock' = clock + d /\ shift' = shift + d
      <3>1. \A d \in Forward \cup {-b : b \in Back} : d \in Int BY ClockAssumption
      <3>. QED BY <3>1 DEF Pass, Set, Tick, SetClock
    <2>. QED BY <2>2, <2>3 DEF Shown
  <1>. QED BY <1>1, <1>2, <1>3

LEMMA PassTimes ==
    ASSUME TimeInv, Pass \/ Set
    PROVE  TimeInv'
  <1>1. /\ ClockInv' /\ start # 0 /\ start' = start /\ UNCHANGED <<pc, program, results>>
        /\ {clock, clock', Shown, Shown', start} \subseteq Int
        /\ clock' - clock = Shown' - Shown
    BY ClockMoves
  <1>2. Shown' - (clock' - start) = Shown - (clock - start)
    BY <1>1
  <1>3. Loop => clock' = start + Shown'
    BY <1>1 DEF TimeInv, StartInv, Loop
  <1>. QED BY <1>1, <1>2, <1>3 DEF results, TimeInv, StartInv, RanInv, SumInv, Loop, Latency

LEMMA TimeNext == TimeInv /\ [Next]_vars => TimeInv'
  <1> SUFFICES ASSUME TimeInv, [Next]_vars PROVE TimeInv'
    OBVIOUS
  <1>1. CASE Step
    <2>1. UNCHANGED program BY <1>1 DEF Step, Is
    <2>2. CASE Open BY <2>1, <2>2, OpenTimes
    <2>3. CASE \/ program = "exec" /\ ExecLatency
               \/ program = "store" /\ StoreLatency
      BY <2>1, <2>3, LatencyTimes
    <2>4. CASE program = "blt" /\ BltRun BY <2>1, <2>4, BltTimes
    <2>5. CASE program = "fill" /\ Fill BY <2>1, <2>5, FillTimes
    <2>6. CASE program = "busy" /\ Busy BY <2>1, <2>6, BusyTimes
    <2>7. \/ Open
          \/ program = "exec" /\ ExecLatency
          \/ program = "store" /\ StoreLatency
          \/ program = "blt" /\ BltRun
          \/ program = "fill" /\ Fill
          \/ program = "busy" /\ Busy
      BY <1>1 DEF Step, Is
    <2>. QED BY <2>2, <2>3, <2>4, <2>5, <2>6, <2>7
  <1>2. CASE Pass \/ Set
    BY <1>2, PassTimes
  <1>3. CASE Run \/ Elsewhere \/ Exited \/ UNCHANGED vars
    <2>1. UNCHANGED <<pc, timeVars, program, results>>
      BY <1>3 DEF Run, Elsewhere, ComeOrGo, Stay, Exited, vars
    <2>2. ClockInv' BY <2>1, ClockKept DEF timeVars, TimeInv
    <2>. QED BY <2>1, <2>2 DEF timeVars, results, TimeInv, StartInv, RanInv, SumInv, Shown,
                               Loop, Latency
  <1>. QED BY <1>1, <1>2, <1>3 DEF Next
-----------------------------------------------------------------------------
(* The loops.                                                              *)

\* The limit is kept, whatever the clock was set by.
LEMMA LimitKept ==
    ASSUME TimeInv, Loop
    PROVE  /\ WithinTimeout => 0 <= Shown /\ 100 * Shown < 108 * NSEC_PER_SEC * Timeout
           /\ ~WithinTimeout => /\ start # 0
                                /\ Shown >= NSEC_PER_SEC * Timeout \/ Shown < 0
  <1>1. /\ {NSEC_PER_SEC, Giga, Timeout, Half} \subseteq Nat \ {0} /\ NSEC_PER_SEC <= Giga
        /\ 100 * Giga <= 108 * NSEC_PER_SEC /\ Timeout < Half
    BY GigaAssumption, WordAssumption, MeasureAssumption
  <1>2. {NSEC_PER_SEC * Timeout, Giga * Timeout, Half * Giga} \subseteq Nat \ {0}
        /\ NSEC_PER_SEC * Timeout <= Giga * Timeout
        /\ 100 * (Giga * Timeout) <= 108 * NSEC_PER_SEC * Timeout
        /\ 108 * NSEC_PER_SEC * Timeout = 108 * (NSEC_PER_SEC * Timeout)
    BY <1>1
  <1>3. /\ Shown \in Int /\ -MinShift <= Shown /\ Shown < Half * Giga
        /\ clock \in Int /\ start \in Nat
    <2>1. Limit = MaxLoop /\ MaxLoop \in Nat BY LongEnough DEF Limit, Loop
    <2>2. real \in 0..MaxLoop /\ shift \in Int BY <2>1 DEF TimeInv, ClockInv
    <2>3. -MinShift <= shift /\ shift <= MaxShift BY ClockBounds DEF TimeInv
    <2>. QED BY <1>2, <2>1, <2>2, <2>3, ShiftBounds DEF Shown, MaxShift, TimeInv, ClockInv
  <1>4. CASE start = 0
    <2>1. Shown = 0 BY <1>4 DEF TimeInv, StartInv, Shown
    <2>2. WithinTimeout
      <3>1. 0 \div Giga = 0 /\ 0 % Half = 0 BY <1>1
      <3>. QED BY <1>1, <1>4, <3>1 DEF WithinTimeout, nsec_elapsed, seconds_elapsed
    <2>. QED BY <2>1, <2>2, <1>1, <1>2
  <1>5. CASE start # 0
    <2>1. nsec_elapsed = Shown % Word
      <3>1. clock - start = Shown BY <1>3, <1>5 DEF TimeInv, StartInv
      <3>. QED BY <3>1, <1>3, <1>5, NsecSince DEF nsec_elapsed
    <2>2. CASE Shown < 0
      <3>1. seconds_elapsed(Shown % Word) >= Timeout
        BY <2>2, <1>3, Seconds
      <3>2. seconds_elapsed(Shown % Word) \in Int
        BY <1>1, <1>3, WordIsPositive, DivModInt DEF seconds_elapsed
      <3>3. ~WithinTimeout
        BY <2>1, <3>1, <3>2, <1>1 DEF WithinTimeout
      <3>. QED BY <3>3, <2>2, <1>5
    <2>3. CASE Shown >= 0
      <3>1. WithinTimeout <=> Shown \div Giga < Timeout
        BY <2>1, <2>3, <1>3, Seconds DEF WithinTimeout
      <3>2. Shown \div Giga < Timeout <=> Shown < Giga * Timeout
        <4>1. PICK q \in Int, r \in Nat : q = Shown \div Giga /\ r < Giga /\ Shown = Giga * q + r
          BY <1>1, <1>3, DivModInt
        <4>2. ASSUME q < Timeout PROVE Giga * q + r < Giga * Timeout
          <5>1. Giga * (q + 1) <= Giga * Timeout
            BY <4>2, <1>1
          <5>2. Giga * (q + 1) = Giga * q + Giga /\ Giga * q \in Int
            BY <1>1
          <5>. QED BY <5>1, <5>2, <4>1, <1>1, <1>2
        <4>3. ASSUME q >= Timeout PROVE Giga * q + r >= Giga * Timeout
          <5>1. Giga * q >= Giga * Timeout /\ Giga * q \in Int
            BY <4>3, <1>1
          <5>. QED BY <5>1, <4>1, <1>2
        <4>4. Giga * q + r \in Int
          BY <1>1
        <4>. QED BY <4>1, <4>2, <4>3, <4>4, <1>1, <1>2
      <3>. QED BY <3>1, <3>2, <2>3, <1>2, <1>3, <1>5
    <2>. QED BY <2>2, <2>3, <1>3
  <1>. QED BY <1>4, <1>5

\* The steps that a loop with a limit is left by, and its block is entered by.
LEMMA LoopSteps ==
    ASSUME Next, verdict = "running"
    PROVE  /\ pc = "until" /\ pc' \in {"write", "cleanup"} => Loop
           /\ pc = "until" /\ pc' = "write" => WithinTimeout
           /\ pc = "until" /\ pc' = "cleanup" => ~WithinTimeout
           /\ verdict' = "timeout" => Loop /\ ~WithinTimeout
  <1> USE DEF At, Goto, Exit, Stay
  <1>1. CASE Open
    BY <1>1 DEF Open, drm_get_card, drm_open_driver, search_and_open, TryNext
  <1>2. CASE ExecLatency \/ StoreLatency \/ BltRun
    BY <1>2 DEF ExecLatency, StoreLatency, BltRun, FirstUse, StartRound, Device, Clock, Sync,
                Take, Average, Again, Report
  <1>3. CASE program = "fill" /\ Fill
    BY <1>3 DEF Fill, FirstUse, until_timeout, Device, Sync, CheckFill, Return, Loop
  <1>4. CASE program = "busy" /\ Busy
    BY <1>4 DEF Busy, FirstUse, Device, WatchFence, WatchClock, Loop
  <1>5. CASE Run \/ Pass \/ Set \/ Elsewhere \/ Exited
    BY <1>5 DEF Run, Pass, Set, Others, Elsewhere, ComeOrGo, Exited, vars
  <1>. QED BY <1>1, <1>2, <1>3, <1>4, <1>5 DEF Next, Step, Is

\* What has ended stays as it is.
LEMMA EndedStays ==
    ASSUME Next, verdict # "running"
    PROVE  UNCHANGED <<pc, verdict>>
  <1> USE DEF At
  <1>1. CASE Step
    BY <1>1 DEF Step, Is, Open, drm_get_card, drm_open_driver, search_and_open, ExecLatency,
                StoreLatency, BltRun, Fill, Busy, FirstUse, StartRound, Device, Clock, Sync, Take,
                Average, Again, Report, until_timeout, CheckFill, Return, WatchFence, WatchClock
  <1>2. CASE Run \/ Pass \/ Set \/ Elsewhere \/ Exited
    BY <1>2 DEF Run, Pass, Set, Others, Elsewhere, ComeOrGo, Stay, Exited, vars
  <1>. QED BY <1>1, <1>2 DEF Next

\* "The code block will be executed at least once" and "approximate (8% error)":
\* the loops with a limit keep it for every length of a second, every width of the
\* words and whatever the clock is set by (gkit_lib.h:71 and 119).
THEOREM KeepsTime == Spec => LoopKeepsTime
  <1>1. ASSUME TimeInv, Next
        PROVE  /\ GivesUp => Shown >= NSEC_PER_SEC * Timeout \/ Shown < 0
               /\ pc = "until" /\ pc' = "write" => 0 <= Shown /\ 100 * Shown < 108 * NSEC_PER_SEC * Timeout
               /\ pc = "until" /\ pc' = "cleanup" => ran
    <2>1. CASE verdict = "running"
      BY <2>1, <1>1, LoopSteps, LimitKept DEF GivesUp, TimeInv, RanInv
    <2>2. CASE verdict # "running"
      BY <2>2, <1>1, EndedStays DEF GivesUp
    <2>. QED BY <2>1, <2>2
  <1>. QED BY <1>1, TimesInit, TimeNext, PTL DEF Spec, LoopKeepsTime

\* The mean of the latency programs; no other program but gem_exec_blt shows one.
LEMMA MeanFollows == TimeInv => (program # "blt" => MeanIsTrue)
  <1> SUFFICES ASSUME TimeInv, program # "blt", shown # <<>>
               PROVE  /\ shown[1] = (Shown % Word) \div Times
                      /\ sets = 0 => shown[1] = real \div Times
    BY DEF MeanIsTrue
  <1>1. Latency
    BY MeasureAssumption DEF TimeInv, ClockInv, RanInv, Loop, Latency
  <1>2. Limit = MaxSample /\ MaxSample \in Nat /\ MaxSample < Word
    BY <1>1, LongEnough, ShortOfAWrap DEF Limit, Latency
  <1>3. real \in Nat /\ real < Word /\ shift \in Int /\ Shown \in Int /\ Shown - 0 = Shown
        /\ (sets = 0 => Shown = real)
    <2>1. real \in 0..MaxSample /\ shift \in Int /\ (sets = 0 => shift = 0)
      BY <1>2 DEF TimeInv, ClockInv
    <2>. QED BY <1>2, <2>1, WordIsPositive DEF Shown
  <1>4. start = 0 /\ shown[1] = total_latency \div Times
    BY <1>1 DEF TimeInv, SumInv, StartInv
  <1>5. total_latency = Shown % Word
    BY <1>1, <1>3, <1>4 DEF TimeInv, SumInv
  <1>6. real % Word = real
    <2>1. (Word * 0 + real) % Word = real
      BY <1>3, WordIsPositive, ModOf
    <2>. QED BY <2>1, <1>3, WordIsPositive
  <1>. QED BY <1>3, <1>4, <1>5, <1>6
-----------------------------------------------------------------------------
(* The headers the programs write, and how the engine decodes them.        *)

EndHeader   == MI_BATCH_BUFFER_END
JumpHeader  == MI_BATCH_BUFFER_START + 2^8 + 1
StoreHeader == MI_STORE_DWORD_IMM
FillHeader  == MI_STORE_DWORD_IMM + 2^21 + 1
CopyHeader  == COPY_BLT_CMD + BLT_WRITE_ALPHA + BLT_WRITE_RGB + 2

\* Opcode and length of each.
LEMMA Opcodes ==
    /\ Code(EndHeader) = MI(10) /\ Length(EndHeader) = 1
    /\ Code(JumpHeader) = MI(49) /\ Length(JumpHeader) = 3
    /\ Code(StoreHeader) = MI(32) /\ Length(StoreHeader) = 4 /\ ~Quadword(StoreHeader)
    /\ Code(FillHeader) = MI(32) /\ Length(FillHeader) = 5 /\ Quadword(FillHeader)
    /\ Code(CopyHeader) = BLT(83) /\ Length(CopyHeader) = 10
  <1> USE DEF MI, BLT, MI_BATCH_BUFFER_END, MI_BATCH_BUFFER_START, MI_STORE_DWORD_IMM,
              COPY_BLT_CMD, BLT_WRITE_ALPHA, BLT_WRITE_RGB, Bits
  <1>1. OneDword(EndHeader) /\ Code(EndHeader) = MI(10)
    <2>1. Code(EndHeader) = MI(10)
      BY DEF Code, EndHeader
    <2>. QED BY <2>1 DEF OneDword
  <1>2. /\ Code(JumpHeader) = MI(49) /\ Bits(JumpHeader, 31, 29) = 0
        /\ Bits(JumpHeader, 7, 0) = 1
    BY DEF Code, JumpHeader
  <1>3. /\ Code(StoreHeader) = MI(32) /\ Bits(StoreHeader, 31, 29) = 0
        /\ Bits(StoreHeader, 7, 0) = 2 /\ Bits(StoreHeader, 21, 21) = 0
    BY DEF Code, StoreHeader
  <1>4. /\ Code(FillHeader) = MI(32) /\ Bits(FillHeader, 31, 29) = 0
        /\ Bits(FillHeader, 7, 0) = 3 /\ Bits(FillHeader, 21, 21) = 1
    BY DEF Code, FillHeader
  <1>5. /\ Code(CopyHeader) = BLT(83) /\ Bits(CopyHeader, 31, 29) = 2
        /\ Bits(CopyHeader, 3, 0) = 8
    BY DEF Code, CopyHeader
  <1>6. ~OneDword(JumpHeader) /\ ~OneDword(StoreHeader) /\ ~OneDword(FillHeader)
        /\ ~OneDword(CopyHeader)
    <2>1. \A op \in 0..15 : MI(op) # MI(49) /\ MI(op) # MI(32) /\ MI(op) # BLT(83)
      OBVIOUS
    <2> HIDE DEF MI, BLT
    <2>. QED BY <2>1, <1>2, <1>3, <1>4, <1>5 DEF OneDword
  <1> HIDE DEF MI, BLT, MI_BATCH_BUFFER_END, MI_BATCH_BUFFER_START, MI_STORE_DWORD_IMM,
              COPY_BLT_CMD, BLT_WRITE_ALPHA, BLT_WRITE_RGB, Bits
  <1>7. Length(JumpHeader) = 3
    BY <1>2, <1>6 DEF Length, LengthBits
  <1>8. Length(StoreHeader) = 4 /\ Length(FillHeader) = 5
    BY <1>3, <1>4, <1>6 DEF Length, LengthBits
  <1>9. Length(CopyHeader) = 10
    BY <1>5, <1>6 DEF Length, LengthBits
  <1>10. Length(EndHeader) = 1
    BY <1>1 DEF Length
  <1>. QED BY <1>1, <1>2, <1>3, <1>4, <1>5, <1>7, <1>8, <1>9, <1>10 DEF Quadword

\* The flags that are set in each.
LEMMA HeaderFlags ==
    /\ Flags(EndHeader) = {} /\ Flags(JumpHeader) \subseteq {8, 13}
    /\ Flags(StoreHeader) \subseteq {21, 22} /\ Flags(FillHeader) \subseteq {21, 22}
    /\ Flags(CopyHeader) \subseteq Write \cup {11, 15}
  <1> USE DEF MI, BLT, MI_BATCH_BUFFER_END, MI_BATCH_BUFFER_START, MI_STORE_DWORD_IMM,
              COPY_BLT_CMD, BLT_WRITE_ALPHA, BLT_WRITE_RGB
  <1>1. Flags(EndHeader) \subseteq {}
    <2>1. EndHeader - Code(EndHeader) = 0
      BY Opcodes DEF EndHeader
    <2>2. /\ Bits(0, 0, 0) = 0 /\ Bits(0, 1, 1) = 0 /\ Bits(0, 2, 2) = 0 /\ Bits(0, 3, 3) = 0
          /\ Bits(0, 4, 4) = 0 /\ Bits(0, 5, 5) = 0 /\ Bits(0, 6, 6) = 0 /\ Bits(0, 7, 7) = 0
          /\ Bits(0, 8, 8) = 0 /\ Bits(0, 9, 9) = 0 /\ Bits(0, 10, 10) = 0 /\ Bits(0, 11, 11) = 0
          /\ Bits(0, 12, 12) = 0 /\ Bits(0, 13, 13) = 0 /\ Bits(0, 14, 14) = 0 /\ Bits(0, 15, 15) = 0
          /\ Bits(0, 16, 16) = 0 /\ Bits(0, 17, 17) = 0 /\ Bits(0, 18, 18) = 0 /\ Bits(0, 19, 19) = 0
          /\ Bits(0, 20, 20) = 0 /\ Bits(0, 21, 21) = 0 /\ Bits(0, 22, 22) = 0
      BY DEF Bits
    <2>3. LengthBits(EndHeader) = 0
      BY Opcodes DEF LengthBits, OneDword, Length, Bits, EndHeader
    <2> HIDE DEF MI, BLT
    <2>4. ASSUME NEW b \in 0..22, b \notin {} PROVE Bits(0, b, b) # 1
      BY <2>2, <2>4
    <2>. QED BY <2>1, <2>3, <2>4 DEF Flags
  <1>2. Flags(JumpHeader) \subseteq {8, 13}
    <2>1. JumpHeader - Code(JumpHeader) = 257
      BY Opcodes DEF JumpHeader
    <2>2. /\ Bits(257, 9, 9) = 0 /\ Bits(257, 10, 10) = 0 /\ Bits(257, 11, 11) = 0 /\ Bits(257, 12, 12) = 0
          /\ Bits(257, 13, 13) = 0 /\ Bits(257, 14, 14) = 0 /\ Bits(257, 15, 15) = 0 /\ Bits(257, 16, 16) = 0
          /\ Bits(257, 17, 17) = 0 /\ Bits(257, 18, 18) = 0 /\ Bits(257, 19, 19) = 0 /\ Bits(257, 20, 20) = 0
          /\ Bits(257, 21, 21) = 0 /\ Bits(257, 22, 22) = 0
      BY DEF Bits
    <2>3. LengthBits(JumpHeader) = 8
      BY Opcodes DEF LengthBits, OneDword, Length, Bits, JumpHeader
    <2> HIDE DEF MI, BLT
    <2>4. ASSUME NEW b \in 8..22, b \notin {8} PROVE Bits(257, b, b) # 1
      BY <2>2, <2>4
    <2>. QED BY <2>1, <2>3, <2>4 DEF Flags
  <1>3. Flags(StoreHeader) \subseteq {21, 22}
    <2>1. StoreHeader - Code(StoreHeader) = 2
      BY Opcodes DEF StoreHeader
    <2>2. /\ Bits(2, 8, 8) = 0 /\ Bits(2, 9, 9) = 0 /\ Bits(2, 10, 10) = 0 /\ Bits(2, 11, 11) = 0
          /\ Bits(2, 12, 12) = 0 /\ Bits(2, 13, 13) = 0 /\ Bits(2, 14, 14) = 0 /\ Bits(2, 15, 15) = 0
          /\ Bits(2, 16, 16) = 0 /\ Bits(2, 17, 17) = 0 /\ Bits(2, 18, 18) = 0 /\ Bits(2, 19, 19) = 0
          /\ Bits(2, 20, 20) = 0 /\ Bits(2, 21, 21) = 0 /\ Bits(2, 22, 22) = 0
      BY DEF Bits
    <2>3. LengthBits(StoreHeader) = 8
      BY Opcodes DEF LengthBits, OneDword, Length, Bits, StoreHeader
    <2> HIDE DEF MI, BLT
    <2>4. ASSUME NEW b \in 8..22, b \notin {} PROVE Bits(2, b, b) # 1
      BY <2>2, <2>4
    <2>. QED BY <2>1, <2>3, <2>4 DEF Flags
  <1>4. Flags(FillHeader) \subseteq {21, 22}
    <2>1. FillHeader - Code(FillHeader) = 2097155
      BY Opcodes DEF FillHeader
    <2>2. /\ Bits(2097155, 8, 8) = 0 /\ Bits(2097155, 9, 9) = 0 /\ Bits(2097155, 10, 10) = 0 /\ Bits(2097155, 11, 11) = 0
          /\ Bits(2097155, 12, 12) = 0 /\ Bits(2097155, 13, 13) = 0 /\ Bits(2097155, 14, 14) = 0 /\ Bits(2097155, 15, 15) = 0
          /\ Bits(2097155, 16, 16) = 0 /\ Bits(2097155, 17, 17) = 0 /\ Bits(2097155, 18, 18) = 0 /\ Bits(2097155, 19, 19) = 0
          /\ Bits(2097155, 20, 20) = 0 /\ Bits(2097155, 22, 22) = 0
      BY DEF Bits
    <2>3. LengthBits(FillHeader) = 8
      BY Opcodes DEF LengthBits, OneDword, Length, Bits, FillHeader
    <2> HIDE DEF MI, BLT
    <2>4. ASSUME NEW b \in 8..22, b \notin {21} PROVE Bits(2097155, b, b) # 1
      BY <2>2, <2>4
    <2>. QED BY <2>1, <2>3, <2>4 DEF Flags
  <1>5. Flags(CopyHeader) \subseteq Write \cup {11, 15}
    <2>1. CopyHeader - Code(CopyHeader) = 3145736
      BY Opcodes DEF CopyHeader
    <2>2. /\ Bits(3145736, 4, 4) = 0 /\ Bits(3145736, 5, 5) = 0 /\ Bits(3145736, 6, 6) = 0 /\ Bits(3145736, 7, 7) = 0
          /\ Bits(3145736, 8, 8) = 0 /\ Bits(3145736, 9, 9) = 0 /\ Bits(3145736, 10, 10) = 0 /\ Bits(3145736, 11, 11) = 0
          /\ Bits(3145736, 12, 12) = 0 /\ Bits(3145736, 13, 13) = 0 /\ Bits(3145736, 14, 14) = 0 /\ Bits(3145736, 15, 15) = 0
          /\ Bits(3145736, 16, 16) = 0 /\ Bits(3145736, 17, 17) = 0 /\ Bits(3145736, 18, 18) = 0 /\ Bits(3145736, 19, 19) = 0
          /\ Bits(3145736, 22, 22) = 0
      BY DEF Bits
    <2>3. LengthBits(CopyHeader) = 4
      BY Opcodes DEF LengthBits, OneDword, Length, Bits, CopyHeader
    <2> HIDE DEF MI, BLT
    <2>4. ASSUME NEW b \in 4..22, b \notin {20, 21} PROVE Bits(3145736, b, b) # 1
      BY <2>2, <2>4
    <2>. QED BY <2>1, <2>3, <2>4 DEF Flags, Write
  <1>. QED BY <1>1, <1>2, <1>3, <1>4, <1>5

\* The command each opcode is, and no other is.
LEMMA Commands ==
    /\ {c \in Instructions : c.code = MI(10)} =
          {[name |-> "MI_BATCH_BUFFER_END", code |-> MI(10), flags |-> {}]}
    /\ {c \in Instructions : c.code = MI(49)} =
          {[name |-> "MI_BATCH_BUFFER_START", code |-> MI(49), flags |-> {8, 13}]}
    /\ {c \in Instructions : c.code = MI(32)} =
          {[name |-> "MI_STORE_DWORD_IMM", code |-> MI(32), flags |-> {21, 22}]}
    /\ {c \in Instructions : c.code = BLT(83)} =
          {[name |-> "XY_SRC_COPY_BLT", code |-> BLT(83), flags |-> Write \cup {11, 15}]}
  BY SMTT(60) DEF MI, BLT, GFX, Instructions, ParserCommands, ContextCommands, MICommands,
         BR00Commands, BLTCommands, GFXCommands

\* Every header the programs write is one command of the right length.
Headers == {EndHeader, JumpHeader, StoreHeader, FillHeader, CopyHeader}

LEMMA OneMatch ==
    ASSUME NEW h, NEW c, {d \in Instructions : d.code = Code(h)} = {c}, Flags(h) \subseteq c.flags
    PROVE  Cardinality(Matches(h)) = 1
  <1>1. Matches(h) = {c}
    BY DEF Matches
  <1>. QED BY <1>1, FS_Singleton

LEMMA WellFormedHeaders == \A h \in Headers : WellFormed(h) /\ h \in Nat
  <1>1. \A h \in Headers : h \in Nat /\ h # Undefined
    BY DEF Headers, EndHeader, JumpHeader, StoreHeader, FillHeader, CopyHeader, Undefined, MI, BLT,
           MI_BATCH_BUFFER_END, MI_BATCH_BUFFER_START, MI_STORE_DWORD_IMM, COPY_BLT_CMD,
           BLT_WRITE_ALPHA, BLT_WRITE_RGB
  <1>2. \A h \in Headers : Cardinality(Matches(h)) = 1
    <2>1. Cardinality(Matches(EndHeader)) = 1
      <3> DEFINE c == [name |-> "MI_BATCH_BUFFER_END", code |-> MI(10), flags |-> {}]
      <3>1. {d \in Instructions : d.code = Code(EndHeader)} = {c} /\ Flags(EndHeader) \subseteq c.flags
        BY Opcodes, HeaderFlags, Commands
      <3> HIDE DEF c
      <3>. QED BY <3>1, OneMatch
    <2>2. Cardinality(Matches(JumpHeader)) = 1
      <3> DEFINE c == [name |-> "MI_BATCH_BUFFER_START", code |-> MI(49), flags |-> {8, 13}]
      <3>1. {d \in Instructions : d.code = Code(JumpHeader)} = {c} /\ Flags(JumpHeader) \subseteq c.flags
        BY Opcodes, HeaderFlags, Commands
      <3> HIDE DEF c
      <3>. QED BY <3>1, OneMatch
    <2>3. Cardinality(Matches(StoreHeader)) = 1
      <3> DEFINE c == [name |-> "MI_STORE_DWORD_IMM", code |-> MI(32), flags |-> {21, 22}]
      <3>1. {d \in Instructions : d.code = Code(StoreHeader)} = {c} /\ Flags(StoreHeader) \subseteq c.flags
        BY Opcodes, HeaderFlags, Commands
      <3> HIDE DEF c
      <3>. QED BY <3>1, OneMatch
    <2>4. Cardinality(Matches(FillHeader)) = 1
      <3> DEFINE c == [name |-> "MI_STORE_DWORD_IMM", code |-> MI(32), flags |-> {21, 22}]
      <3>1. {d \in Instructions : d.code = Code(FillHeader)} = {c} /\ Flags(FillHeader) \subseteq c.flags
        BY Opcodes, HeaderFlags, Commands
      <3> HIDE DEF c
      <3>. QED BY <3>1, OneMatch
    <2>5. Cardinality(Matches(CopyHeader)) = 1
      <3> DEFINE c == [name |-> "XY_SRC_COPY_BLT", code |-> BLT(83), flags |-> Write \cup {11, 15}]
      <3>1. {d \in Instructions : d.code = Code(CopyHeader)} = {c} /\ Flags(CopyHeader) \subseteq c.flags
        BY Opcodes, HeaderFlags, Commands
      <3> HIDE DEF c
      <3>. QED BY <3>1, OneMatch
    <2>. QED BY <2>1, <2>2, <2>3, <2>4, <2>5 DEF Headers
  <1>3. MI(10) # MI(49) /\ MI(10) # MI(32) /\ MI(49) # MI(32)
        /\ \A op \in {10, 32, 49} : MI(op) # BLT(83)
    BY DEF MI, BLT
  <1>4. \A h \in Headers : Length(h) = 1 + Operands(h)
    BY <1>3, Opcodes DEF Headers, Operands
  <1>. QED BY <1>1, <1>2, <1>4 DEF WellFormed
-----------------------------------------------------------------------------
(* The ring and the engine.                                                *)

RingOK == tail \in 0..(RING_LEN - 1) /\ head \in 0..(RING_LEN - 1)

\* A remainder near zero.
LEMMA ModNear ==
    ASSUME NEW n \in Nat \ {0}, NEW x \in Int, -n <= x, x <= n
    PROVE  x % n = IF x = n THEN 0 ELSE IF x >= 0 THEN x ELSE x + n
  <1>1. CASE x = n
    <2>1. (n * 1 + 0) % n = 0 BY ModOf
    <2>. QED BY <1>1, <2>1
  <1>2. CASE x >= 0 /\ x # n
    <2>1. x < n /\ x \in Nat BY <1>2
    <2>2. (n * 0 + x) % n = x BY <2>1, ModOf
    <2>. QED BY <1>2, <2>2
  <1>3. CASE x < 0
    <2>1. x + n \in Nat /\ x + n < n BY <1>3
    <2>2. (n * (-1) + (x + n)) % n = x + n BY <2>1, ModOf
    <2>3. n * (-1) + (x + n) = x OBVIOUS
    <2>. QED BY <1>3, <2>2, <2>3
  <1>. QED BY <1>1, <1>2, <1>3

LEMMA QueueMoves ==
    ASSUME RingOK
    PROVE  /\ queued \in 0..(RING_LEN - 1)
           /\ Room /\ tail' = (tail + 1) % RING_LEN /\ head' = head
                => RingOK' /\ queued' = queued + 1
           /\ queued > 0 /\ tail' = tail /\ head' = (head + 1) % RING_LEN
                => RingOK' /\ queued' = queued - 1
  <1> USE RingAssumption DEF RingOK
  <1>0. ASSUME NEW t \in 0..(RING_LEN - 1), NEW h \in 0..(RING_LEN - 1)
        PROVE  (t - h) % RING_LEN = IF t >= h THEN t - h ELSE t - h + RING_LEN
    <2>1. /\ t - h \in Int /\ -RING_LEN <= t - h /\ t - h < RING_LEN
          /\ RING_LEN \in Nat \ {0}
      OBVIOUS
    <2> DEFINE x == t - h
    <2>2. x \in Int /\ -RING_LEN <= x /\ x <= RING_LEN
      BY <2>1
    <2> HIDE DEF x
    <2>3. x % RING_LEN = IF x = RING_LEN THEN 0 ELSE IF x >= 0 THEN x ELSE x + RING_LEN
      BY <2>1, <2>2, ModNear
    <2>. QED BY <2>1, <2>3 DEF x
  <1>1. queued = IF tail >= head THEN tail - head ELSE tail - head + RING_LEN
    BY <1>0 DEF queued
  <1>2. CASE Room /\ tail' = (tail + 1) % RING_LEN /\ head' = head
    <2>1. tail' = IF tail + 1 = RING_LEN THEN 0 ELSE tail + 1
      BY <1>2, ModNear
    <2>2. queued' = IF tail' >= head' THEN tail' - head' ELSE tail' - head' + RING_LEN
      BY <1>0, <1>2, <2>1 DEF queued
    <2>. QED BY <1>1, <1>2, <2>1, <2>2 DEF Room
  <1>3. CASE queued > 0 /\ tail' = tail /\ head' = (head + 1) % RING_LEN
    <2>1. head' = IF head + 1 = RING_LEN THEN 0 ELSE head + 1
      BY <1>3, ModNear
    <2>2. queued' = IF tail' >= head' THEN tail' - head' ELSE tail' - head' + RING_LEN
      BY <1>0, <1>3, <2>1 DEF queued
    <2>. QED BY <1>1, <1>3, <2>1, <2>2
  <1>. QED BY <1>1, <1>2, <1>3

\* What the engine does with each header.
LEMMA ExecuteView ==
    ASSUME Execute
    PROVE  /\ ipehr # <<>> /\ ipehr' = <<>> /\ UNCHANGED <<batch, relocs, place, tail>>
           /\ ipehr = <<EndHeader>> =>
                 acthd' = -1 /\ head' = (head + 1) % RING_LEN /\ landed' = landed
           /\ ipehr = <<JumpHeader>> =>
                 /\ UNCHANGED <<head, landed>>
                 /\ acthd' = IF batch[acthd + 1] = place["batch"] /\ batch[acthd + 2] = 0
                             THEN 0 ELSE Dwords
           /\ ipehr = <<StoreHeader>> =>
                 /\ acthd' = acthd + 4 /\ head' = head
                 /\ landed' = landed \cup {[op |-> "store",
                       at |-> <<batch[acthd + 1], batch[acthd + 2]>>,
                       value |-> <<batch[acthd + 3]>>]}
           /\ ipehr = <<FillHeader>> =>
                 /\ acthd' = acthd + 5 /\ head' = head
                 /\ landed' = landed \cup {[op |-> "store",
                       at |-> <<batch[acthd + 1], batch[acthd + 2]>>,
                       value |-> <<batch[acthd + 3], batch[acthd + 4]>>]}
           /\ ipehr = <<CopyHeader>> =>
                 acthd' = acthd + 10 /\ head' = head /\ landed' = landed \cup {Copy}
  <1>1. /\ MI(10) # MI(49) /\ MI(10) # MI(32) /\ MI(49) # MI(32)
        /\ MI(10) # BLT(83) /\ MI(49) # BLT(83) /\ MI(32) # BLT(83)
    BY DEF MI, BLT
  <1>2. ipehr # <<>> /\ ipehr' = <<>> /\ UNCHANGED <<batch, relocs, place, tail>>
    BY DEF Execute, bindings
  <1>3. ASSUME ipehr = <<EndHeader>>
        PROVE  acthd' = -1 /\ head' = (head + 1) % RING_LEN /\ landed' = landed
    BY <1>1, <1>3, Opcodes DEF Execute
  <1>4. ASSUME ipehr = <<JumpHeader>>
        PROVE  /\ UNCHANGED <<head, landed>>
               /\ acthd' = IF batch[acthd + 1] = place["batch"] /\ batch[acthd + 2] = 0
                           THEN 0 ELSE Dwords
    BY <1>1, <1>4, Opcodes DEF Execute, Pair, Dword
  <1>5. ASSUME ipehr = <<StoreHeader>>
        PROVE  /\ acthd' = acthd + 4 /\ head' = head
               /\ landed' = landed \cup {[op |-> "store",
                     at |-> <<batch[acthd + 1], batch[acthd + 2]>>,
                     value |-> <<batch[acthd + 3]>>]}
    BY <1>1, <1>5, Opcodes DEF Execute, Store, Pair, Dword
  <1>6. ASSUME ipehr = <<FillHeader>>
        PROVE  /\ acthd' = acthd + 5 /\ head' = head
               /\ landed' = landed \cup {[op |-> "store",
                     at |-> <<batch[acthd + 1], batch[acthd + 2]>>,
                     value |-> <<batch[acthd + 3], batch[acthd + 4]>>]}
    BY <1>1, <1>6, Opcodes DEF Execute, Store, Pair, Dword
  <1>7. ASSUME ipehr = <<CopyHeader>>
        PROVE  acthd' = acthd + 10 /\ head' = head /\ landed' = landed \cup {Copy}
    BY <1>1, <1>7, Opcodes DEF Execute
  <1>. QED BY <1>2, <1>3, <1>4, <1>5, <1>6, <1>7

\* A submission: the addresses presumed wrongly are written, both halves of them,
\* and nothing else is.
EntryType == [dword : Nat, delta : Nat, target : Object, presumed : Int]

\* no two entries are for the same dwords
Disjoint == \A k, l \in DOMAIN relocs :
                /\ relocs[k] \in EntryType
                /\ k # l => relocs[k].dword # relocs[l].dword
                /\ relocs[k].dword # relocs[l].dword + 1

\* entry k and its dwords agree, or the entry presumes an address that none has
Linked(k) ==
    \/ relocs[k].presumed = -1
    \/ /\ batch[relocs[k].dword] = relocs[k].presumed + relocs[k].delta
       /\ batch[relocs[k].dword + 1] = 0

PlaceOK == /\ DOMAIN place \subseteq Object
           /\ \A o \in DOMAIN place : place[o] \in Address

LEMMA RelocatedDwords ==
    ASSUME Disjoint, NEW p
    PROVE  /\ DOMAIN Relocated(p) = DOMAIN batch
           /\ \A d \in DOMAIN batch :
                 (\A k \in DOMAIN relocs : relocs[k].dword # d /\ relocs[k].dword + 1 # d)
                    => Relocated(p)[d] = batch[d]
           /\ \A k \in DOMAIN relocs :
                 /\ relocs[k].dword \in DOMAIN batch =>
                      Relocated(p)[relocs[k].dword] =
                        IF relocs[k].presumed = p[relocs[k].target] THEN batch[relocs[k].dword]
                        ELSE p[relocs[k].target] + relocs[k].delta
                 /\ relocs[k].dword + 1 \in DOMAIN batch =>
                      Relocated(p)[relocs[k].dword + 1] =
                        IF relocs[k].presumed = p[relocs[k].target]
                        THEN batch[relocs[k].dword + 1] ELSE 0
  <1> DEFINE Wrong   == {k \in DOMAIN relocs : relocs[k].presumed # p[relocs[k].target]}
             Low(d)  == {k \in Wrong : relocs[k].dword = d}
             High(d) == {k \in Wrong : relocs[k].dword + 1 = d}
             Value(k) == p[relocs[k].target] + relocs[k].delta
             New(d)  == IF Low(d) # {} THEN Value(CHOOSE k \in Low(d) : TRUE)
                        ELSE IF High(d) # {} THEN 0 ELSE batch[d]
  <1>1. Relocated(p) = [d \in DOMAIN batch |-> New(d)]
    BY DEF Relocated
  <1>2. ASSUME NEW d, \A k \in DOMAIN relocs : relocs[k].dword # d /\ relocs[k].dword + 1 # d
        PROVE  New(d) = batch[d]
    <2>1. Low(d) = {} /\ High(d) = {}
      BY <1>2
    <2>. QED BY <2>1
  <1>3. ASSUME NEW k \in DOMAIN relocs
        PROVE  New(relocs[k].dword) =
                  IF relocs[k].presumed = p[relocs[k].target] THEN batch[relocs[k].dword]
                  ELSE Value(k)
    <2>1. High(relocs[k].dword) = {}
      BY DEF Disjoint
    <2>2. CASE relocs[k].presumed = p[relocs[k].target]
      <3>1. Low(relocs[k].dword) = {}
        BY <2>2 DEF Disjoint
      <3>. QED BY <2>1, <2>2, <3>1
    <2>3. CASE relocs[k].presumed # p[relocs[k].target]
      <3>1. Low(relocs[k].dword) = {k}
        BY <2>3 DEF Disjoint
      <3>2. (CHOOSE l \in Low(relocs[k].dword) : TRUE) = k
        BY <3>1
      <3> HIDE DEF Low, Value
      <3>. QED BY <2>3, <3>1, <3>2
    <2>. QED BY <2>2, <2>3
  <1>4. ASSUME NEW k \in DOMAIN relocs
        PROVE  New(relocs[k].dword + 1) =
                  IF relocs[k].presumed = p[relocs[k].target] THEN batch[relocs[k].dword + 1]
                  ELSE 0
    <2>1. Low(relocs[k].dword + 1) = {}
      BY DEF Disjoint
    <2>2. CASE relocs[k].presumed = p[relocs[k].target]
      <3>1. High(relocs[k].dword + 1) = {}
        BY <2>2 DEF Disjoint, EntryType
      <3>. QED BY <2>1, <2>2, <3>1
    <2>3. CASE relocs[k].presumed # p[relocs[k].target]
      <3>1. k \in High(relocs[k].dword + 1)
        BY <2>3
      <3>. QED BY <2>1, <2>3, <3>1
    <2>. QED BY <2>2, <2>3
  <1> HIDE DEF New
  <1>. QED BY <1>1, <1>2, <1>3, <1>4

BatchOK == batch \in [0..(Dwords - 1) -> Nat \cup {Undefined}]

EntriesOK ==
    /\ Disjoint
    /\ \A k \in DOMAIN relocs : relocs[k].dword + 1 < Dwords /\ Linked(k)

LEMMA SubmitView ==
    ASSUME Submit, RingOK, PlaceOK, BatchOK, EntriesOK
    PROVE  /\ RingOK' /\ queued' = queued + 1 /\ UNCHANGED <<head, acthd, ipehr, landed>>
           /\ PlaceOK' /\ DOMAIN place' = Targets
           /\ DOMAIN place = Targets => place' = place
           /\ BatchOK' /\ EntriesOK' /\ DOMAIN relocs' = DOMAIN relocs
           /\ \A k \in DOMAIN relocs :
                 /\ relocs'[k].dword = relocs[k].dword /\ relocs'[k].delta = relocs[k].delta
                 /\ relocs'[k].target = relocs[k].target
                 /\ relocs'[k].presumed = place'[relocs[k].target]
                 /\ batch'[relocs[k].dword] = place'[relocs[k].target] + relocs[k].delta
                 /\ batch'[relocs[k].dword + 1] = 0
           /\ \A d \in 0..(Dwords - 1) :
                 (\A k \in DOMAIN relocs : relocs[k].dword # d /\ relocs[k].dword + 1 # d)
                    => batch'[d] = batch[d]
           /\ queued > 0 => batch' = batch
  <1>1. PICK p \in Bindings(Targets) :
           /\ Relocated(p) # batch => queued = 0
           /\ place' = p /\ batch' = Relocated(p)
           /\ relocs' = [k \in DOMAIN relocs |-> [relocs[k] EXCEPT !.presumed = p[relocs[k].target]]]
    BY DEF Submit
  <1>2. RingOK' /\ queued' = queued + 1 /\ UNCHANGED <<head, acthd, ipehr, landed>>
    BY QueueMoves DEF Submit
  <1>3. /\ DOMAIN p = Targets /\ \A o \in Targets : p[o] \in Address
        /\ DOMAIN place = Targets => p = place
    BY <1>1 DEF Bindings, PlaceOK
  <1>4. Targets \subseteq Object /\ \A k \in DOMAIN relocs : relocs[k].target \in Targets
    BY DEF Targets, EntriesOK, Disjoint, EntryType
  <1>5. PlaceOK' /\ \A k \in DOMAIN relocs : p[relocs[k].target] \in Nat
    BY <1>1, <1>3, <1>4, PlaceAssumption DEF PlaceOK
  <1>6. /\ DOMAIN relocs' = DOMAIN relocs
        /\ \A k \in DOMAIN relocs :
              /\ relocs'[k] \in EntryType
              /\ relocs'[k].dword = relocs[k].dword /\ relocs'[k].delta = relocs[k].delta
              /\ relocs'[k].target = relocs[k].target
              /\ relocs'[k].presumed = p[relocs[k].target]
    BY <1>1, <1>5 DEF EntriesOK, Disjoint, EntryType
  <1>7. DOMAIN batch = 0..(Dwords - 1)
    BY DEF BatchOK
  <1>8. \A k \in DOMAIN relocs : relocs[k].dword \in 0..(Dwords - 1)
                                 /\ relocs[k].dword + 1 \in 0..(Dwords - 1)
    BY DEF EntriesOK, Disjoint, EntryType, Dwords
  <1>9. \A k \in DOMAIN relocs : /\ batch'[relocs[k].dword] = p[relocs[k].target] + relocs[k].delta
                                 /\ batch'[relocs[k].dword + 1] = 0
    <2> TAKE k \in DOMAIN relocs
    <2>1. CASE relocs[k].presumed = p[relocs[k].target]
      <3>1. Linked(k) /\ relocs[k].presumed # -1
        BY <2>1, <1>5 DEF EntriesOK
      <3>. QED BY <3>1, <2>1, <1>1, <1>7, <1>8, RelocatedDwords DEF Linked, EntriesOK
    <2>2. CASE relocs[k].presumed # p[relocs[k].target]
      BY <2>2, <1>1, <1>7, <1>8, RelocatedDwords DEF EntriesOK
    <2>. QED BY <2>1, <2>2
  <1>10. \A d \in 0..(Dwords - 1) :
            (\A k \in DOMAIN relocs : relocs[k].dword # d /\ relocs[k].dword + 1 # d)
               => batch'[d] = batch[d]
    BY <1>1, <1>7, RelocatedDwords DEF EntriesOK
  <1>11. BatchOK'
    <2>1. \A d \in 0..(Dwords - 1) : batch'[d] \in Nat \cup {Undefined}
      <3> TAKE d \in 0..(Dwords - 1)
      <3>1. CASE \A k \in DOMAIN relocs : relocs[k].dword # d /\ relocs[k].dword + 1 # d
        BY <3>1, <1>10 DEF BatchOK
      <3>2. CASE \E k \in DOMAIN relocs : relocs[k].dword = d \/ relocs[k].dword + 1 = d
        <4>1. PICK k \in DOMAIN relocs : relocs[k].dword = d \/ relocs[k].dword + 1 = d
          BY <3>2
        <4>2. relocs[k].delta \in Nat /\ p[relocs[k].target] \in Nat
          BY <1>5 DEF EntriesOK, Disjoint, EntryType
        <4>. QED BY <4>1, <4>2, <1>9
      <3>. QED BY <3>1, <3>2
    <2>2. batch' = [d \in 0..(Dwords - 1) |-> batch'[d]]
      BY <1>1, <1>7 DEF Relocated
    <2>. QED BY <2>1, <2>2 DEF BatchOK
  <1>12. EntriesOK'
    <2>1. Disjoint'
      BY <1>6 DEF EntriesOK, Disjoint
    <2>2. ASSUME NEW k \in DOMAIN relocs
          PROVE  /\ relocs'[k].dword + 1 < Dwords
                 /\ batch'[relocs'[k].dword] = relocs'[k].presumed + relocs'[k].delta
                 /\ batch'[relocs'[k].dword + 1] = 0
      BY <1>6, <1>9 DEF EntriesOK
    <2>. QED BY <2>1, <2>2, <1>6 DEF EntriesOK, Linked
  <1>13. queued > 0 => batch' = batch
    BY <1>1, QueueMoves
  <1>. QED BY <1>1, <1>2, <1>3, <1>5, <1>6, <1>9, <1>10, <1>11, <1>12, <1>13
-----------------------------------------------------------------------------
(* What the programs' batches hold, and where the engine is in them.       *)

FreshLabel == SearchLabel \cup {"opened"}

\* the engine is at dword d, and has fetched header h or nothing yet
EngineAt(d, h) == acthd = d /\ ipehr \in {<<>>, <<h>>}

\* entry k
Linking(k, dword, delta, target, presumed) ==
    /\ relocs[k] \in EntryType
    /\ relocs[k].dword = dword /\ relocs[k].delta = delta
    /\ relocs[k].target = target /\ relocs[k].presumed = presumed

StreamOK ==
    /\ RingOK /\ BatchOK /\ PlaceOK
    /\ acthd \in Nat \cup {-1}
    /\ acthd = -1 => ipehr = <<>>
    /\ acthd # -1 => queued > 0
    /\ ipehr = <<>> \/ \E h \in Headers : ipehr = <<h>>
    /\ pc \in FreshLabel => queued = 0 /\ DOMAIN place = {} /\ landed = {}

ExecStream ==
    /\ pc \in FreshLabel \cup {"round", "create", "clock", "submit", "sync", "stop", "average"}
    /\ DOMAIN place = {} /\ landed = {}
    /\ pc # "sync" => queued = 0
    /\ pc \in {"clock", "submit", "sync"} => DOMAIN relocs = {} /\ batch[0] = EndHeader
    /\ acthd = -1 \/ EngineAt(0, EndHeader)

\* what store() and gem_exec_gttfill store
Stored  == [op |-> "store", at |-> <<place["target"] + 4 * sample, 0>>, value |-> <<sample>>]
Filling == [op |-> "store", at |-> <<place["batch"] + BATCH_SIZE - 8, 0>>,
            value |-> <<place["batch"], 0>>]

StoreStream ==
    /\ pc \in FreshLabel \cup {"round", "clock", "create", "submit", "sync", "stop", "average"}
    /\ pc # "sync" => queued = 0
    /\ pc \in {"submit", "sync"} =>
          /\ batch[0] = StoreHeader /\ batch[3] = sample /\ batch[4] = EndHeader
          /\ DOMAIN relocs = {1}
    /\ pc = "submit" => DOMAIN place = {} /\ landed = {}
                        /\ Linking(1, 1, 4 * sample, "target", -1)
    /\ pc = "sync" => batch[1] = place["target"] + 4 * sample /\ batch[2] = 0
    /\ \/ acthd = -1 \/ EngineAt(0, StoreHeader) \/ EngineAt(4, EndHeader)
    /\ pc \in {"submit", "sync", "stop"} => landed \subseteq {Stored}
    /\ pc = "sync" => (queued > 0 /\ acthd \in {-1, 0}) \/ landed = {Stored}
    /\ pc = "stop" => landed = {Stored}

FillStream ==
    /\ pc \in FreshLabel \cup {"until", "write", "submit", "sync", "check", "cleanup"}
    /\ pc # "sync" => queued = 0
    /\ DOMAIN place \in {{}, {"batch"}} /\ landed \subseteq {Filling}
    /\ DOMAIN place = {} => landed = {}
    /\ pc \in {"submit", "sync", "check"} =>
          /\ batch[0] = FillHeader /\ batch[5] = EndHeader /\ DOMAIN relocs = {1, 2}
    /\ pc = "submit" =>
          /\ Linking(1, 1, BATCH_SIZE - 8, "batch", 0) /\ Linking(2, 3, 0, "batch", 0)
          /\ batch[1] = BATCH_SIZE - 8 /\ batch[2] = 0 /\ batch[3] = 0 /\ batch[4] = 0
          /\ landed = {}
    /\ pc \in {"sync", "check"} =>
          /\ batch[1] = place["batch"] + BATCH_SIZE - 8 /\ batch[2] = 0
          /\ batch[3] = place["batch"] /\ batch[4] = 0
          /\ DOMAIN place = {"batch"}
    /\ \/ acthd = -1 \/ EngineAt(0, FillHeader) \/ EngineAt(5, EndHeader)
    /\ pc = "sync" => (queued > 0 /\ acthd \in {-1, 0}) \/ landed = {Filling}
    /\ pc = "check" => landed = {Filling}

BusyStream ==
    /\ pc \in FreshLabel \cup {"spin", "submit", "release", "watch", "assert"}
    /\ landed = {}
    /\ pc \notin {"release", "watch", "assert"} => queued = 0
    /\ pc \in {"spin", "submit"} => DOMAIN place = {}
    /\ pc \in {"submit", "release"} => batch[0] = JumpHeader
    /\ pc = "submit" => /\ DOMAIN relocs = {1} /\ Linking(1, 1, 0, "batch", 0)
                        /\ batch[1] = 0 /\ batch[2] = 0
    /\ pc = "release" => queued = 1
    /\ pc \in {"watch", "assert"} => batch[0] = EndHeader
    /\ pc \in {"release", "watch", "assert"} => batch[1] = place["batch"] /\ batch[2] = 0
    /\ \/ acthd = -1 \/ EngineAt(0, JumpHeader)
       \/ EngineAt(0, EndHeader) /\ pc \in {"watch", "assert"}
-----------------------------------------------------------------------------
(* The engine's steps.                                                     *)

\* Whatever it does, it keeps to what is queued, and its step is one of these.
LEMMA EngineSteps ==
    ASSUME Engine, StreamOK, UNCHANGED pc
    PROVE  /\ UNCHANGED <<batch, relocs, place>> /\ RingOK'
           /\ acthd' = -1 => ipehr' = <<>>
           /\ acthd' # -1 => queued' > 0
           /\ \/ /\ acthd = -1 /\ queued > 0 /\ acthd' = 0 /\ ipehr' = <<>>
                 /\ queued' = queued /\ landed' = landed
              \/ /\ acthd \in 0..(Dwords - 1) /\ acthd' = acthd /\ ipehr = <<>>
                 /\ ipehr' = <<batch[acthd]>> /\ queued' = queued /\ landed' = landed
              \/ /\ acthd # -1 /\ ipehr = <<EndHeader>> /\ ipehr' = <<>> /\ acthd' = -1
                 /\ queued' = queued - 1 /\ landed' = landed
              \/ /\ acthd # -1 /\ ipehr # <<>> /\ ipehr # <<EndHeader>> /\ ipehr' = <<>>
                 /\ queued' = queued /\ Execute
  <1>0. queued \in Nat
    BY QueueMoves, RingAssumption DEF StreamOK
  <1>1. CASE Begin
    BY <1>1 DEF Begin, StreamOK, RingOK, bindings, ring, queued
  <1>2. CASE Fetch
    BY <1>2 DEF Fetch, StreamOK, RingOK, bindings, ring, queued, Dwords
  <1>3. CASE Execute
    <2>1. /\ ipehr # <<>> /\ ipehr' = <<>> /\ UNCHANGED <<batch, relocs, place, tail>>
          /\ acthd # -1 /\ queued > 0
      BY <1>3, ExecuteView DEF StreamOK
    <2>2. CASE ipehr = <<EndHeader>>
      BY <2>1, <2>2, <1>3, ExecuteView, QueueMoves DEF StreamOK
    <2>3. CASE ipehr # <<EndHeader>>
      <3>1. head' = head /\ acthd' # -1
        <4>1. PICK h \in Headers : ipehr = <<h>>
          BY <2>1 DEF StreamOK
        <4>2. h # EndHeader
          BY <4>1, <2>3
        <4>3. acthd \in Nat
          BY <2>1 DEF StreamOK
        <4>4. CASE h = JumpHeader
          BY <4>1, <4>4, <1>3, ExecuteView DEF Dwords
        <4>5. CASE h = StoreHeader
          BY <4>1, <4>5, <1>3, ExecuteView, <4>3, <2>1 DEF StreamOK
        <4>6. CASE h = FillHeader
          BY <4>1, <4>6, <1>3, ExecuteView, <4>3, <2>1 DEF StreamOK
        <4>7. CASE h = CopyHeader
          BY <4>1, <4>7, <1>3, ExecuteView, <4>3, <2>1 DEF StreamOK
        <4>. QED BY <4>2, <4>4, <4>5, <4>6, <4>7 DEF Headers
      <3>. QED BY <2>1, <2>3, <3>1, <1>3 DEF StreamOK, RingOK, queued
    <2>. QED BY <2>2, <2>3
  <1>. QED BY <1>1, <1>2, <1>3 DEF Engine

\* The types stay, if what was fetched is a header.
LEMMA EngineKeepsOK ==
    ASSUME Engine, StreamOK, UNCHANGED pc, acthd' \in Nat \cup {-1}, pc \in FreshLabel => queued = 0,
           ipehr' = <<>> \/ \E h \in Headers : ipehr' = <<h>>
    PROVE  StreamOK'
  <1>1. UNCHANGED <<batch, place>> /\ RingOK' /\ (acthd' = -1 => ipehr' = <<>>)
        /\ (acthd' # -1 => queued' > 0)
    BY EngineSteps
  <1>2. pc \in FreshLabel => queued = 0 /\ acthd = -1 /\ ipehr = <<>>
    BY DEF StreamOK
  <1>3. pc \notin FreshLabel
    BY <1>2 DEF Engine, Begin, Fetch, Execute
  <1>. QED BY <1>1, <1>3 DEF StreamOK, BatchOK, PlaceOK

LEMMA ExecEngine ==
    ASSUME StreamOK, ExecStream, Engine, UNCHANGED <<pc, program, sample>>
    PROVE  StreamOK' /\ ExecStream'
  <1>1. pc = "sync" /\ batch[0] = EndHeader
    BY DEF Engine, Begin, Fetch, Execute, ExecStream, StreamOK
  <1>2. ipehr' \in {<<>>, <<EndHeader>>} /\ acthd' \in {-1, 0} /\ landed' = landed
        /\ (acthd' = -1 => ipehr' = <<>>)
    BY <1>1, EngineSteps, ExecuteView DEF ExecStream, EngineAt
  <1>3. StreamOK'
    BY <1>1, <1>2, EngineKeepsOK DEF FreshLabel, SearchLabel, Headers
  <1>4. ExecStream'
    BY <1>1, <1>2, EngineSteps DEF ExecStream, EngineAt
  <1>. QED BY <1>3, <1>4

LEMMA StoreEngine ==
    ASSUME StreamOK, StoreStream, Engine, UNCHANGED <<pc, program, sample>>
    PROVE  StreamOK' /\ StoreStream'
  <1>1. /\ pc = "sync" /\ batch[0] = StoreHeader /\ batch[4] = EndHeader /\ batch[3] = sample
        /\ batch[1] = place["target"] + 4 * sample /\ batch[2] = 0
        /\ StoreHeader # EndHeader
    BY Opcodes DEF Engine, Begin, Fetch, Execute, StoreStream, StreamOK
  <1>2. UNCHANGED <<batch, relocs, place, Stored>>
    BY EngineSteps DEF Stored
  <1>3. \/ EngineAt(0, StoreHeader)' /\ landed' = landed
        \/ EngineAt(4, EndHeader)' /\ landed' = {Stored}
        \/ acthd' = -1 /\ ipehr' = <<>> /\ landed' = {Stored} /\ queued' = queued - 1
    <2>1. CASE acthd = -1
      BY <2>1, EngineSteps DEF EngineAt
    <2>2. CASE EngineAt(0, StoreHeader)
      <3>1. CASE ipehr = <<>>
        BY <2>2, <3>1, <1>1, EngineSteps DEF EngineAt
      <3>2. CASE ipehr = <<StoreHeader>>
        <4>1. acthd = 0 /\ Execute /\ ipehr' = <<>> /\ landed \subseteq {Stored}
          BY <2>2, <3>2, <1>1, EngineSteps DEF EngineAt, StoreStream
        <4>2. acthd' = 4 /\ landed' = landed \cup {Stored}
          BY <4>1, <3>2, <1>1, ExecuteView DEF Stored
        <4>. QED BY <4>1, <4>2 DEF EngineAt
      <3>. QED BY <2>2, <3>1, <3>2 DEF EngineAt
    <2>3. CASE EngineAt(4, EndHeader)
      BY <2>3, <1>1, EngineSteps, ExecuteView DEF EngineAt, StoreStream
    <2>. QED BY <2>1, <2>2, <2>3 DEF StoreStream
  <1>4. StreamOK'
    BY <1>1, <1>3, EngineKeepsOK DEF FreshLabel, SearchLabel, Headers, EngineAt
  <1>5. acthd' \in {-1, 0} => landed' = {Stored} \/ queued' > 0
    BY <1>4, <1>3 DEF StreamOK, EngineAt
  <1>6. StoreStream'
    <2>1. landed' \subseteq {Stored'} /\ (acthd' = 4 => landed' = {Stored'})
      BY <1>1, <1>2, <1>3 DEF StoreStream, EngineAt
    <2>. QED BY <1>1, <1>2, <1>3, <1>5, <2>1 DEF StoreStream, EngineAt
  <1>. QED BY <1>4, <1>6

LEMMA FillEngine ==
    ASSUME StreamOK, FillStream, Engine, UNCHANGED <<pc, program, sample>>
    PROVE  StreamOK' /\ FillStream'
  <1>1. /\ pc = "sync" /\ batch[0] = FillHeader /\ batch[5] = EndHeader
        /\ batch[1] = place["batch"] + BATCH_SIZE - 8 /\ batch[2] = 0
        /\ batch[3] = place["batch"] /\ batch[4] = 0
        /\ FillHeader # EndHeader
    BY Opcodes DEF Engine, Begin, Fetch, Execute, FillStream, StreamOK
  <1>2. UNCHANGED <<batch, relocs, place, Filling>>
    BY EngineSteps DEF Filling
  <1>3. \/ EngineAt(0, FillHeader)' /\ landed' = landed
        \/ EngineAt(5, EndHeader)' /\ landed' = {Filling}
        \/ acthd' = -1 /\ ipehr' = <<>> /\ landed' = {Filling} /\ queued' = queued - 1
    <2>1. CASE acthd = -1
      BY <2>1, EngineSteps DEF EngineAt
    <2>2. CASE EngineAt(0, FillHeader)
      <3>1. CASE ipehr = <<>>
        BY <2>2, <3>1, <1>1, EngineSteps DEF EngineAt
      <3>2. CASE ipehr = <<FillHeader>>
        <4>1. acthd = 0 /\ Execute /\ ipehr' = <<>> /\ landed \subseteq {Filling}
          BY <2>2, <3>2, <1>1, EngineSteps DEF EngineAt, FillStream
        <4>2. acthd' = 5 /\ landed' = landed \cup {Filling}
          BY <4>1, <3>2, <1>1, ExecuteView DEF Filling
        <4>. QED BY <4>1, <4>2 DEF EngineAt
      <3>. QED BY <2>2, <3>1, <3>2 DEF EngineAt
    <2>3. CASE EngineAt(5, EndHeader)
      BY <2>3, <1>1, EngineSteps, ExecuteView DEF EngineAt, FillStream
    <2>. QED BY <2>1, <2>2, <2>3 DEF FillStream
  <1>4. StreamOK'
    BY <1>1, <1>3, EngineKeepsOK DEF FreshLabel, SearchLabel, Headers, EngineAt
  <1>5. acthd' \in {-1, 0} => landed' = {Filling} \/ queued' > 0
    BY <1>4, <1>3 DEF StreamOK, EngineAt
  <1>6. FillStream'
    <2>1. landed' \subseteq {Filling'} /\ (acthd' = 5 => landed' = {Filling'})
      BY <1>1, <1>2, <1>3 DEF FillStream, EngineAt
    <2>2. DOMAIN place = {} => landed' = {}
      BY <1>1 DEF FillStream
    <2>. QED BY <1>1, <1>2, <1>3, <1>5, <2>1, <2>2 DEF FillStream, EngineAt
  <1>. QED BY <1>4, <1>6

LEMMA BusyEngine ==
    ASSUME StreamOK, BusyStream, Engine, UNCHANGED <<pc, program, sample>>
    PROVE  StreamOK' /\ BusyStream'
  <1>1. /\ pc \in {"release", "watch", "assert"} /\ batch[1] = place["batch"] /\ batch[2] = 0
        /\ JumpHeader # EndHeader /\ batch[0] = IF pc = "release" THEN JumpHeader ELSE EndHeader
    BY Opcodes DEF Engine, Begin, Fetch, Execute, BusyStream, StreamOK, FreshLabel, SearchLabel
  <1>2. UNCHANGED <<batch, relocs, place>>
    BY EngineSteps
  <1>3. /\ landed' = landed
        /\ \/ EngineAt(0, JumpHeader)' /\ queued' = queued
           \/ pc # "release" /\ EngineAt(0, EndHeader)'
           \/ pc # "release" /\ acthd' = -1 /\ ipehr' = <<>>
    <2>1. CASE acthd = -1
      BY <2>1, EngineSteps DEF EngineAt
    <2>2. CASE EngineAt(0, JumpHeader)
      BY <2>2, <1>1, EngineSteps, ExecuteView DEF EngineAt, BusyStream
    <2>3. CASE EngineAt(0, EndHeader) /\ pc # "release"
      BY <2>3, <1>1, EngineSteps, ExecuteView DEF EngineAt, BusyStream
    <2>. QED BY <2>1, <2>2, <2>3 DEF BusyStream
  <1>4. StreamOK'
    BY <1>1, <1>3, EngineKeepsOK DEF FreshLabel, SearchLabel, Headers, EngineAt
  <1>5. BusyStream'
    BY <1>1, <1>2, <1>3 DEF BusyStream, EngineAt
  <1>. QED BY <1>4, <1>5
-----------------------------------------------------------------------------
(* How the batches are written.                                            *)

LEMMA FilledDwords ==
    ASSUME NEW n \in Nat, NEW words \in [1..n -> Nat \cup {Undefined}]
    PROVE  /\ Filled(words) \in [0..(Dwords - 1) -> Nat \cup {Undefined}]
           /\ \A d \in 0..(Dwords - 1) : Filled(words)[d] = IF d < n THEN words[d + 1] ELSE 0
  <1>1. Len(words) = n
    <2>1. words \in Seq(Nat \cup {Undefined})
      OBVIOUS
    <2>. QED BY <2>1
  <1>. QED BY <1>1 DEF Filled, Dwords

LEMMA StackDwords ==
    ASSUME NEW n \in 0..16, NEW words \in [1..n -> Nat \cup {Undefined}]
    PROVE  /\ OnStack(words) \in [1..16 -> Nat \cup {Undefined}]
           /\ \A d \in 1..n : OnStack(words)[d] = words[d]
  <1>1. Len(words) = n
    <2>1. words \in Seq(Nat \cup {Undefined})
      OBVIOUS
    <2>. QED BY <2>1
  <1>. QED BY <1>1 DEF OnStack

LEMMA BuiltEnd ==
    ASSUME BuildEnd
    PROVE  /\ BatchOK' /\ batch'[0] = EndHeader /\ DOMAIN relocs' = {} /\ landed' = {}
           /\ UNCHANGED <<place, tail, head, acthd, ipehr>>
  <1> DEFINE words == <<MI_BATCH_BUFFER_END>>
  <1>1. words \in [1..1 -> Nat \cup {Undefined}] /\ words[1] = EndHeader
    BY WellFormedHeaders DEF Headers, EndHeader
  <1>2. batch' = Filled(words) /\ relocs' = <<>> /\ landed' = {}
        /\ UNCHANGED <<place, tail, head, acthd, ipehr>>
    BY DEF BuildEnd, Build, engine
  <1> HIDE DEF words
  <1>3. /\ batch' \in [0..(Dwords - 1) -> Nat \cup {Undefined}]
        /\ \A d \in 0..(Dwords - 1) : batch'[d] = IF d < 1 THEN words[d + 1] ELSE 0
    BY <1>1, <1>2, FilledDwords
  <1>. QED BY <1>1, <1>2, <1>3 DEF BatchOK, Dwords

LEMMA BuiltSpinner ==
    ASSUME BuildSpinner
    PROVE  /\ BatchOK' /\ batch'[0] = JumpHeader /\ batch'[1] = 0 /\ batch'[2] = 0
           /\ DOMAIN relocs' = {1} /\ Linking(1, 1, 0, "batch", 0)' /\ landed' = {}
           /\ UNCHANGED <<place, tail, head, acthd, ipehr>>
  <1> DEFINE words == <<MI_BATCH_BUFFER_START + 2^8 + 1, 0, 0>>
  <1>1. words \in [1..3 -> Nat \cup {Undefined}]
        /\ words[1] = JumpHeader /\ words[2] = 0 /\ words[3] = 0
    BY WellFormedHeaders DEF Headers, JumpHeader
  <1>2. /\ batch' = Filled(words) /\ relocs' = <<Entry(1, 0, "batch", 0)>> /\ landed' = {}
        /\ UNCHANGED <<place, tail, head, acthd, ipehr>>
    BY DEF BuildSpinner, Build, engine
  <1> HIDE DEF words
  <1>3. BatchOK' /\ batch'[0] = JumpHeader /\ batch'[1] = 0 /\ batch'[2] = 0
    <2>1. /\ batch' \in [0..(Dwords - 1) -> Nat \cup {Undefined}]
          /\ \A d \in 0..(Dwords - 1) : batch'[d] = IF d < 3 THEN words[d + 1] ELSE 0
      BY <1>1, <1>2, FilledDwords
    <2>. QED BY <1>1, <2>1 DEF BatchOK, Dwords
  <1>4. DOMAIN relocs' = {1} /\ Linking(1, 1, 0, "batch", 0)'
    BY <1>2 DEF Entry, Linking, EntryType, Object
  <1>. QED BY <1>2, <1>3, <1>4

LEMMA BuiltStore ==
    ASSUME NEW value \in Nat, BuildStore(value)
    PROVE  /\ BatchOK' /\ batch'[0] = StoreHeader /\ batch'[3] = value /\ batch'[4] = EndHeader
           /\ DOMAIN relocs' = {1} /\ Linking(1, 1, 4 * value, "target", -1)'
           /\ landed' = {} /\ DOMAIN place' = {}
           /\ UNCHANGED <<tail, head, acthd, ipehr>>
  <1> DEFINE words == <<MI_STORE_DWORD_IMM, 4 * value, 0, value, MI_BATCH_BUFFER_END>>
  <1>1. words \in [1..5 -> Nat \cup {Undefined}]
        /\ words[1] = StoreHeader /\ words[4] = value /\ words[5] = EndHeader
    BY WellFormedHeaders DEF Headers, StoreHeader, EndHeader
  <1>2. /\ batch' = Filled(OnStack(words)) /\ landed' = {} /\ place' = Unbound
        /\ relocs' = <<Entry(1, 4 * value, "target", -1)>>
        /\ UNCHANGED <<tail, head, acthd, ipehr>>
    BY DEF BuildStore, Build, engine
  <1> HIDE DEF words
  <1>3. BatchOK' /\ batch'[0] = StoreHeader /\ batch'[3] = value /\ batch'[4] = EndHeader
    <2>1. /\ OnStack(words) \in [1..16 -> Nat \cup {Undefined}]
          /\ \A d \in 1..5 : OnStack(words)[d] = words[d]
      BY <1>1, StackDwords
    <2> DEFINE onStack == OnStack(words)
    <2> HIDE DEF onStack
    <2>2. /\ Filled(onStack) \in [0..(Dwords - 1) -> Nat \cup {Undefined}]
          /\ \A d \in 0..(Dwords - 1) : Filled(onStack)[d] = IF d < 16 THEN onStack[d + 1] ELSE 0
      BY <2>1, FilledDwords DEF onStack
    <2>3. batch' = Filled(onStack)
      BY <1>2 DEF onStack
    <2>4. \A d \in 0..4 : batch'[d] = words[d + 1]
      BY <2>1, <2>2, <2>3 DEF Dwords, onStack
    <2>. QED BY <1>1, <2>2, <2>3, <2>4 DEF BatchOK
  <1>4. DOMAIN relocs' = {1} /\ Linking(1, 1, 4 * value, "target", -1)'
    BY <1>2 DEF Entry, Linking, EntryType, Object
  <1>5. DOMAIN place' = {}
    BY <1>2 DEF Unbound
  <1>. QED BY <1>2, <1>3, <1>4, <1>5

LEMMA BuiltFill ==
    ASSUME BuildFill
    PROVE  /\ BatchOK' /\ batch'[0] = FillHeader /\ batch'[5] = EndHeader
           /\ batch'[1] = BATCH_SIZE - 8 /\ batch'[2] = 0 /\ batch'[3] = 0 /\ batch'[4] = 0
           /\ DOMAIN relocs' = {1, 2} /\ Linking(1, 1, BATCH_SIZE - 8, "batch", 0)'
           /\ Linking(2, 3, 0, "batch", 0)' /\ landed' = {}
           /\ UNCHANGED <<place, tail, head, acthd, ipehr>>
  <1> DEFINE words == <<MI_STORE_DWORD_IMM + 2^21 + 1, BATCH_SIZE - 8, 0, 0, 0,
                        MI_BATCH_BUFFER_END>>
  <1>1. /\ words \in [1..6 -> Nat \cup {Undefined}]
        /\ words[1] = FillHeader /\ words[2] = BATCH_SIZE - 8 /\ words[3] = 0
        /\ words[4] = 0 /\ words[5] = 0 /\ words[6] = EndHeader
    BY WellFormedHeaders, PlaceAssumption DEF Headers, FillHeader, EndHeader
  <1>2. /\ batch' = Filled(OnStack(words)) /\ landed' = {}
        /\ relocs' = <<Entry(1, BATCH_SIZE - 8, "batch", 0), Entry(3, 0, "batch", 0)>>
        /\ UNCHANGED <<place, tail, head, acthd, ipehr>>
    BY DEF BuildFill, Build, engine
  <1> HIDE DEF words
  <1>3. /\ BatchOK' /\ batch'[0] = FillHeader /\ batch'[5] = EndHeader
        /\ batch'[1] = BATCH_SIZE - 8 /\ batch'[2] = 0 /\ batch'[3] = 0 /\ batch'[4] = 0
    <2>1. /\ OnStack(words) \in [1..16 -> Nat \cup {Undefined}]
          /\ \A d \in 1..6 : OnStack(words)[d] = words[d]
      BY <1>1, StackDwords
    <2> DEFINE onStack == OnStack(words)
    <2> HIDE DEF onStack
    <2>2. /\ Filled(onStack) \in [0..(Dwords - 1) -> Nat \cup {Undefined}]
          /\ \A d \in 0..(Dwords - 1) : Filled(onStack)[d] = IF d < 16 THEN onStack[d + 1] ELSE 0
      BY <2>1, FilledDwords DEF onStack
    <2>3. batch' = Filled(onStack)
      BY <1>2 DEF onStack
    <2>4. \A d \in 0..5 : batch'[d] = words[d + 1]
      BY <2>1, <2>2, <2>3 DEF Dwords, onStack
    <2>. QED BY <1>1, <2>2, <2>3, <2>4 DEF BatchOK
  <1>4. /\ DOMAIN relocs' = {1, 2} /\ Linking(1, 1, BATCH_SIZE - 8, "batch", 0)'
        /\ Linking(2, 3, 0, "batch", 0)'
    BY <1>2, PlaceAssumption DEF Entry, Linking, EntryType, Object
  <1>. QED BY <1>2, <1>3, <1>4
-----------------------------------------------------------------------------
(* The programs' steps.                                                    *)

LEMMA Addresses == Address \subseteq Nat
  BY PlaceAssumption

LEMMA QuietKeepsOK ==
    ASSUME StreamOK, UNCHANGED streamVars, pc' \in FreshLabel => pc \in FreshLabel
    PROVE  StreamOK' /\ queued' = queued
  BY DEF StreamOK, streamVars, RingOK, BatchOK, PlaceOK, queued

\* A batch is written while nothing is queued, and at a label past the search.
LEMMA WriteKeepsOK ==
    ASSUME StreamOK, BatchOK', PlaceOK', pc' \notin FreshLabel, UNCHANGED engine
    PROVE  StreamOK' /\ queued' = queued
  BY DEF StreamOK, engine, RingOK, queued

LEMMA SubmitKeepsOK ==
    ASSUME StreamOK, Submit, EntriesOK, pc' \notin FreshLabel
    PROVE  StreamOK' /\ queued' = queued + 1
  <1>1. queued \in Nat
    BY QueueMoves, RingAssumption DEF StreamOK
  <1>. QED BY <1>1, SubmitView DEF StreamOK

LEMMA ExecStep ==
    ASSUME StreamOK, ExecStream, ExecLatency, UNCHANGED program
    PROVE  StreamOK' /\ ExecStream'
  <1> USE DEF FreshLabel, SearchLabel
  <1>1. CASE FirstUse("round") \/ StartRound("create") \/ Clock("clock", ReadClock, "submit")
             \/ Sync("sync", "stop") \/ Take("create") \/ Average
    <2>1. UNCHANGED streamVars
      BY <1>1 DEF FirstUse, StartRound, Clock, Sync, Device, Take, Average
    <2>2. /\ pc \notin SearchLabel /\ (pc' = "opened" => pc = "opened")
          /\ pc' \in {"opened", "round", "create", "submit", "stop", "average"}
          /\ pc' = "submit" => pc = "clock"
          /\ pc = "sync" => queued = 0
      BY <1>1 DEF FirstUse, StartRound, Clock, Sync, Device, Take, Average, At, Goto, Exit, Idle
    <2>3. StreamOK' /\ queued' = queued
      BY <2>1, <2>2, QuietKeepsOK
    <2>. QED BY <2>1, <2>2, <2>3 DEF ExecStream, streamVars, EngineAt
  <1>2. CASE Device("create", BuildEnd, "clock")
    <2>1. BuildEnd /\ pc = "create" /\ pc' = "clock"
      BY <1>2 DEF Device, At, Goto
    <2>2. StreamOK' /\ queued' = queued
      BY <2>1, BuiltEnd, WriteKeepsOK DEF engine, StreamOK, PlaceOK
    <2>. QED BY <2>1, <2>2, BuiltEnd DEF ExecStream, EngineAt
  <1>3. CASE Device("submit", Submit, "sync")
    <2>1. Submit /\ pc = "submit" /\ pc' = "sync" /\ DOMAIN relocs = {} /\ queued = 0
      BY <1>3 DEF Device, At, Goto, ExecStream
    <2>2. EntriesOK /\ Targets = {}
      BY <2>1 DEF EntriesOK, Disjoint, Targets
    <2>3. StreamOK' /\ queued' = queued + 1
      BY <2>1, <2>2, SubmitKeepsOK
    <2>4. /\ DOMAIN place' = {} /\ DOMAIN relocs' = {} /\ batch'[0] = batch[0]
          /\ UNCHANGED <<acthd, ipehr, landed>>
      BY <2>1, <2>2, SubmitView DEF StreamOK, Dwords
    <2>. QED BY <2>1, <2>3, <2>4 DEF ExecStream, EngineAt
  <1>. QED BY <1>1, <1>2, <1>3 DEF ExecLatency

LEMMA StoreStep ==
    ASSUME StreamOK, StoreStream, StoreLatency, UNCHANGED program, sample \in Nat
    PROVE  StreamOK' /\ StoreStream'
  <1> USE DEF FreshLabel, SearchLabel
  <1>1. CASE FirstUse("round") \/ StartRound("clock") \/ Clock("clock", ReadClock, "create")
             \/ Sync("sync", "stop") \/ Take("clock") \/ Average
    <2>1. UNCHANGED streamVars
      BY <1>1 DEF FirstUse, StartRound, Clock, Sync, Device, Take, Average
    <2>2. /\ pc \notin SearchLabel /\ (pc' = "opened" => pc = "opened")
          /\ pc' \in {"opened", "round", "clock", "create", "stop", "average"}
          /\ pc = "sync" => queued = 0
          /\ pc' = "stop" => pc \in {"sync", "stop"} /\ sample' = sample
      BY <1>1 DEF FirstUse, StartRound, Clock, Sync, Device, Take, Average, At, Goto, Exit, Idle,
                  results
    <2>3. StreamOK' /\ queued' = queued
      BY <2>1, <2>2, QuietKeepsOK
    <2>4. pc' = "stop" => landed' = {Stored}' /\ landed = landed'
      BY <2>1, <2>2 DEF StoreStream, streamVars, Stored
    <2>. QED BY <2>1, <2>2, <2>3, <2>4 DEF StoreStream, streamVars, EngineAt
  <1>2. CASE Device("create", BuildStore(sample), "submit")
    <2>1. BuildStore(sample) /\ pc = "create" /\ pc' = "submit" /\ sample' = sample
      BY <1>2 DEF Device, At, Goto, results
    <2>2. StreamOK' /\ queued' = queued
      BY <2>1, BuiltStore, WriteKeepsOK DEF engine, StreamOK, PlaceOK
    <2>. QED BY <2>1, <2>2, BuiltStore DEF StoreStream, EngineAt, Linking
  <1>3. CASE Device("submit", Submit, "sync")
    <2>1. /\ Submit /\ pc = "submit" /\ pc' = "sync" /\ queued = 0 /\ sample' = sample
          /\ DOMAIN relocs = {1} /\ Linking(1, 1, 4 * sample, "target", -1) /\ landed = {}
      BY <1>3 DEF Device, At, Goto, StoreStream, results
    <2>2. EntriesOK /\ Targets = {"target"}
      BY <2>1 DEF EntriesOK, Disjoint, Targets, Linking, Linked, EntryType, Dwords
    <2>3. StreamOK' /\ queued' = queued + 1
      BY <2>1, <2>2, SubmitKeepsOK
    <2>4. /\ DOMAIN relocs' = {1} /\ batch'[0] = batch[0] /\ batch'[3] = batch[3]
          /\ batch'[4] = batch[4] /\ batch'[1] = place'["target"] + 4 * sample /\ batch'[2] = 0
          /\ UNCHANGED <<acthd, ipehr, landed>>
      BY <2>1, <2>2, SubmitView DEF StreamOK, Dwords, Linking
    <2>5. acthd = -1
      BY <2>1 DEF StreamOK
    <2>. QED BY <2>1, <2>3, <2>4, <2>5 DEF StoreStream, EngineAt
  <1>. QED BY <1>1, <1>2, <1>3 DEF StoreLatency

LEMMA FillStep ==
    ASSUME StreamOK, FillStream, Fill, UNCHANGED program
    PROVE  StreamOK' /\ FillStream' /\ (verdict' = "assert" => verdict = "assert")
  <1> USE DEF FreshLabel, SearchLabel
  <1>1. CASE FirstUse("until") \/ until_timeout("write", "cleanup") \/ Sync("sync", "check")
             \/ CheckFill \/ Return
    <2>1. UNCHANGED streamVars
      BY <1>1 DEF FirstUse, until_timeout, Sync, Device, CheckFill, Return
    <2>2. CASE CheckFill
      <3>1. /\ pc = "check" /\ landed = {Filling} /\ batch[3] = place["batch"] /\ batch[4] = 0
        BY <2>2 DEF CheckFill, At, FillStream
      <3>2. Filling.value = <<batch[3], batch[4]>>
        BY <3>1 DEF Filling
      <3>3. pc' = "until" /\ verdict' = verdict
        BY <2>2, <3>1, <3>2 DEF CheckFill, Goto
      <3>4. StreamOK' /\ queued' = queued
        BY <2>1, <3>1, <3>3, QuietKeepsOK
      <3>. QED BY <2>1, <3>1, <3>3, <3>4 DEF FillStream, streamVars, EngineAt, Filling
    <2>3. CASE ~CheckFill
      <3>1. /\ pc \notin SearchLabel /\ (pc' = "opened" => pc = "opened")
            /\ pc' \in {"opened", "until", "write", "check", "cleanup"}
            /\ pc = "sync" => queued = 0
            /\ pc' = "check" => pc = "sync"
            /\ verdict' = "assert" => verdict = "assert"
        BY <1>1, <2>3 DEF FirstUse, until_timeout, Sync, Device, Return, At, Goto, Exit, Idle
      <3>2. StreamOK' /\ queued' = queued
        BY <2>1, <3>1, QuietKeepsOK
      <3>3. Filling' = Filling /\ (pc' = "check" => landed = {Filling})
        BY <2>1, <3>1 DEF FillStream, streamVars, Filling
      <3>. QED BY <2>1, <3>1, <3>2, <3>3 DEF FillStream, streamVars, EngineAt, Linking
    <2>. QED BY <2>2, <2>3
  <1>2. CASE Device("write", BuildFill, "submit")
    <2>1. BuildFill /\ pc = "write" /\ pc' = "submit" /\ verdict' = verdict
      BY <1>2 DEF Device, At, Goto
    <2>2. StreamOK' /\ queued' = queued
      BY <2>1, BuiltFill, WriteKeepsOK DEF engine, StreamOK, PlaceOK
    <2>. QED BY <2>1, <2>2, BuiltFill DEF FillStream, EngineAt
  <1>3. CASE Device("submit", Submit, "sync")
    <2>1. /\ Submit /\ pc = "submit" /\ pc' = "sync" /\ queued = 0 /\ verdict' = verdict
          /\ DOMAIN relocs = {1, 2} /\ landed = {}
          /\ Linking(1, 1, BATCH_SIZE - 8, "batch", 0) /\ Linking(2, 3, 0, "batch", 0)
      BY <1>3 DEF Device, At, Goto, FillStream
    <2>2. EntriesOK /\ Targets = {"batch"}
      BY <2>1, PlaceAssumption
         DEF FillStream, EntriesOK, Disjoint, Targets, Linking, Linked, EntryType, Dwords
    <2>3. StreamOK' /\ queued' = queued + 1
      BY <2>1, <2>2, SubmitKeepsOK
    <2>4. /\ DOMAIN relocs' = {1, 2} /\ DOMAIN place' = {"batch"} /\ place'["batch"] \in Address
          /\ batch'[1] = place'["batch"] + (BATCH_SIZE - 8) /\ batch'[2] = 0
          /\ batch'[3] = place'["batch"] + 0 /\ batch'[4] = 0
          /\ batch'[0] = batch[0] /\ batch'[5] = batch[5]
          /\ UNCHANGED <<acthd, ipehr, landed>>
      <3>1. /\ relocs[1].dword = 1 /\ relocs[1].delta = BATCH_SIZE - 8
            /\ relocs[2].dword = 3 /\ relocs[2].delta = 0
            /\ relocs[1].target = "batch" /\ relocs[2].target = "batch"
        BY <2>1 DEF Linking
      <3>2. /\ DOMAIN relocs' = {1, 2} /\ DOMAIN place' = {"batch"} /\ place'["batch"] \in Address
            /\ UNCHANGED <<acthd, ipehr, landed>>
        BY <2>1, <2>2, SubmitView DEF StreamOK, PlaceOK
      <3>3. /\ batch'[1] = place'["batch"] + (BATCH_SIZE - 8) /\ batch'[1 + 1] = 0
            /\ batch'[3] = place'["batch"] + 0 /\ batch'[3 + 1] = 0
        BY <2>1, <2>2, <3>1, SubmitView DEF StreamOK
      <3>4. \A d \in {0, 5} : batch'[d] = batch[d]
        BY <2>1, <2>2, <3>1, SubmitView DEF StreamOK, Dwords
      <3>. QED BY <3>2, <3>3, <3>4
    <2>5. /\ batch'[1] = place'["batch"] + BATCH_SIZE - 8 /\ batch'[3] = place'["batch"]
      <3>1. place'["batch"] \in Nat /\ BATCH_SIZE \in Nat
        BY <2>4, Addresses, PlaceAssumption
      <3>. QED BY <2>4, <3>1
    <2>6. acthd = -1
      BY <2>1 DEF StreamOK
    <2>. QED BY <2>1, <2>3, <2>4, <2>5, <2>6 DEF FillStream, EngineAt
  <1>. QED BY <1>1, <1>2, <1>3 DEF Fill

LEMMA BusyStep ==
    ASSUME StreamOK, BusyStream, Busy, UNCHANGED program
    PROVE  StreamOK' /\ BusyStream'
  <1> USE DEF FreshLabel, SearchLabel
  <1>1. CASE FirstUse("spin") \/ WatchFence \/ WatchClock
    <2>1. UNCHANGED streamVars
      BY <1>1 DEF FirstUse, WatchFence, WatchClock
    <2>2. /\ pc \notin SearchLabel /\ (pc' = "opened" => pc = "opened")
          /\ pc' \in {"opened", "spin", "watch", "assert"}
          /\ pc' \in {"watch", "assert"} => pc \in {"watch", "assert"}
          /\ pc \in {"watch", "assert"} => pc' \in {"watch", "assert"}
          /\ pc' = "spin" => pc = "opened"
      BY <1>1 DEF FirstUse, WatchFence, WatchClock, At, Goto, Exit
    <2>3. StreamOK' /\ queued' = queued
      BY <2>1, <2>2, QuietKeepsOK
    <2>4. pc' \notin {"watch", "assert"} => queued = 0 /\ DOMAIN place = {}
      BY <2>2 DEF StreamOK, BusyStream
    <2>. QED BY <2>1, <2>2, <2>3, <2>4 DEF BusyStream, StreamOK, streamVars, EngineAt
  <1>2. CASE Device("spin", BuildSpinner, "submit")
    <2>1. BuildSpinner /\ pc = "spin" /\ pc' = "submit"
      BY <1>2 DEF Device, At, Goto
    <2>2. StreamOK' /\ queued' = queued
      BY <2>1, BuiltSpinner, WriteKeepsOK DEF engine, StreamOK, PlaceOK
    <2>. QED BY <2>1, <2>2, BuiltSpinner DEF BusyStream, EngineAt
  <1>3. CASE Device("submit", Submit, "release")
    <2>1. /\ Submit /\ pc = "submit" /\ pc' = "release" /\ queued = 0
          /\ DOMAIN relocs = {1} /\ Linking(1, 1, 0, "batch", 0)
      BY <1>3 DEF Device, At, Goto, BusyStream
    <2>2. EntriesOK /\ Targets = {"batch"}
      BY <2>1 DEF BusyStream, EntriesOK, Disjoint, Targets, Linking, Linked, EntryType, Dwords
    <2>3. StreamOK' /\ queued' = queued + 1
      BY <2>1, <2>2, SubmitKeepsOK
    <2>4. /\ place'["batch"] \in Address
          /\ batch'[1] = place'["batch"] + 0 /\ batch'[2] = 0 /\ batch'[0] = batch[0]
          /\ UNCHANGED <<acthd, ipehr, landed>>
      BY <2>1, <2>2, SubmitView DEF StreamOK, Dwords, Linking, PlaceOK
    <2>5. batch'[1] = place'["batch"]
      <3>1. place'["batch"] \in Nat
        BY <2>4, Addresses
      <3>. QED BY <2>4, <3>1
    <2>6. acthd = -1
      BY <2>1 DEF StreamOK
    <2>. QED BY <2>1, <2>3, <2>4, <2>5, <2>6 DEF BusyStream, EngineAt
  <1>4. CASE Device("release", Release, "watch")
    <2>1. /\ pc = "release" /\ pc' = "watch" /\ batch' = [batch EXCEPT ![0] = EndHeader]
          /\ UNCHANGED <<relocs, place, landed, engine>>
      BY <1>4 DEF Device, At, Goto, Release, EndHeader
    <2>2. BatchOK'
      BY <2>1, WellFormedHeaders DEF StreamOK, BatchOK, Headers, Dwords
    <2>3. StreamOK' /\ queued' = queued
      BY <2>1, <2>2, WriteKeepsOK DEF StreamOK, PlaceOK
    <2>4. /\ batch'[0] = EndHeader /\ batch'[1] = batch[1] /\ batch'[2] = batch[2]
      BY <2>1 DEF StreamOK, BatchOK, Dwords
    <2>. QED BY <2>1, <2>3, <2>4 DEF BusyStream, EngineAt, engine
  <1>. QED BY <1>1, <1>2, <1>3, <1>4 DEF Busy
-----------------------------------------------------------------------------
(* The rectangles of gem_exec_blt.                                         *)

Rows == OBJECT_SIZE \div ROW
Rest == OBJECT_SIZE % ROW
Both == Rows > 0 /\ Rest > 0

Starts    == IF Both THEN {0, 10} ELSE {0}
LastDword == IF Both THEN 20 ELSE 10

\* the part at dword s: whole rows come first
Whole(s)  == s = 0 /\ Rows > 0
Top(s)    == IF Whole(s) THEN 0 ELSE Rows
Bottom(s) == IF Whole(s) THEN Rows ELSE Rows + 1
Width(s)  == IF Whole(s) THEN ROW \div 4 ELSE Rest \div 4

\* a row's number fits into 16 bits
RowNumber == {n \in Nat : n < 65536}

LEMMA Sizes ==
    /\ Rows \in RowNumber /\ Rest \in Nat /\ Rest < ROW /\ OBJECT_SIZE = ROW * Rows + Rest
    /\ Rest % 4 = 0 /\ (Rows > 0 \/ Rest > 0)
    /\ \A s \in Starts : /\ Top(s) \in RowNumber /\ Bottom(s) \in RowNumber
                         /\ Width(s) \in RowNumber
  <1>1. /\ OBJECT_SIZE \in Nat /\ OBJECT_SIZE > 0 /\ ROW = 16384
        /\ OBJECT_SIZE % 4 = 0 /\ OBJECT_SIZE <= 1073725440
    BY PlaceAssumption, SizeAssumption, SMT DEF ROW
  <1>2. /\ Rows \in Int /\ Rest \in Nat /\ Rest < 16384 /\ OBJECT_SIZE = 16384 * Rows + Rest
    BY <1>1, DivModInt, SMT DEF Rows, Rest
  <1>3. /\ Rows >= 0 /\ Rows < 65536 /\ (Rest > 0 => Rows + 1 < 65536)
        /\ Rows > 0 \/ Rest > 0
    BY <1>1, <1>2, SMT
  <1>4. Rest % 4 = 0
    <2>1. 4 * (4096 * Rows) + Rest = OBJECT_SIZE /\ 4096 * Rows \in Int
      BY <1>2, SMT
    <2>. QED BY <1>1, <1>2, <2>1, ModShift, SMT
  <1>5. ASSUME NEW s \in Starts
        PROVE  Top(s) \in RowNumber /\ Bottom(s) \in RowNumber /\ Width(s) \in RowNumber
    <2>1. Rest \div 4 \in RowNumber /\ ROW \div 4 \in RowNumber
      BY <1>1, <1>2, SMT DEF RowNumber
    <2>2. ~Whole(s) => Rest > 0
      <3>1. s = 0 \/ Both
        BY DEF Starts
      <3>. QED BY <1>2, <1>3, <3>1 DEF Whole, Both
    <2>3. Rows \in RowNumber /\ 0 \in RowNumber /\ (~Whole(s) => Rows + 1 \in RowNumber)
      BY <1>2, <1>3, <2>2, SMT DEF RowNumber
    <2>. QED BY <2>1, <2>3 DEF Top, Bottom, Width
  <1>6. Rows \in RowNumber
    BY <1>2, <1>3, SMT DEF RowNumber
  <1>. QED BY <1>1, <1>2, <1>3, <1>4, <1>5, <1>6

Words(s) == Part(Top(s), Bottom(s), Width(s))

LEMMA PartDwords ==
    ASSUME NEW s \in Starts
    PROVE  /\ Words(s) \in Seq(Nat \cup {Undefined}) /\ Len(Words(s)) = 10
           /\ Words(s)[1] = CopyHeader /\ Words(s)[2] = Br13
           /\ Words(s)[3] = Top(s) * 2^16 /\ Words(s)[4] = Bottom(s) * 2^16 + Width(s)
           /\ Words(s)[5] = 0 /\ Words(s)[6] = 0 /\ Words(s)[7] = Top(s) * 2^16
           /\ Words(s)[8] = ROW /\ Words(s)[9] = 0 /\ Words(s)[10] = 0
  <1>1. Top(s) \in Nat /\ Bottom(s) \in Nat /\ Width(s) \in Nat
    BY Sizes DEF RowNumber
  <1>2. CopyHeader \in Nat
    BY WellFormedHeaders DEF Headers
  <1>3. Br13 \in Nat /\ ROW \in Nat /\ 2^16 \in Nat
    BY DEF Br13, ROW
  <1>4. Top(s) * 2^16 \in Nat /\ Bottom(s) * 2^16 + Width(s) \in Nat
    BY <1>1
  <1>. QED BY <1>2, <1>3, <1>4 DEF Words, Part, CopyHeader

LEMMA Joined ==
    ASSUME NEW T, NEW s \in Seq(T), NEW t \in Seq(T)
    PROVE  /\ s \o t \in Seq(T) /\ Len(s \o t) = Len(s) + Len(t)
           /\ \A d \in Nat : 0 < d /\ d <= Len(s) => (s \o t)[d] = s[d]
           /\ \A d \in Nat : 0 < d /\ d <= Len(t) => (s \o t)[Len(s) + d] = t[d]
  <1>1. Len(s) \in Nat /\ Len(t) \in Nat
    BY LenProperties
  <1>2. /\ s \o t \in Seq(T) /\ Len(s \o t) = Len(s) + Len(t)
        /\ \A d \in 1..(Len(s) + Len(t)) :
              (s \o t)[d] = IF d <= Len(s) THEN s[d] ELSE t[d - Len(s)]
    BY ConcatProperties
  <1>3. ASSUME NEW d \in Nat, 0 < d, d <= Len(t)
        PROVE  (s \o t)[Len(s) + d] = t[d]
    <2>1. (Len(s) + d) - Len(s) = d /\ Len(s) + d \in 1..(Len(s) + Len(t))
          /\ ~(Len(s) + d <= Len(s))
      BY <1>1, <1>3
    <2>. QED BY <1>2, <2>1
  <1>4. ASSUME NEW d \in Nat, 0 < d, d <= Len(s)
        PROVE  (s \o t)[d] = s[d]
    <2>1. d \in 1..(Len(s) + Len(t))
      BY <1>1, <1>4
    <2>. QED BY <1>2, <1>4, <2>1
  <1>. QED BY <1>2, <1>3, <1>4

\* the dwords of a part that no entry is for
PartAt(s) ==
    /\ batch[s] = CopyHeader /\ batch[s + 1] = Br13
    /\ batch[s + 2] = Top(s) * 2^16 /\ batch[s + 3] = Bottom(s) * 2^16 + Width(s)
    /\ batch[s + 6] = Top(s) * 2^16 /\ batch[s + 7] = ROW

\* the addresses of a part
Addressed(s, dst, src) ==
    /\ batch[s + 4] = dst /\ batch[s + 5] = 0
    /\ batch[s + 8] = src /\ batch[s + 9] = 0

CopyEntries ==
    /\ DOMAIN relocs = IF Both THEN {1, 2, 3, 4} ELSE {1, 2}
    /\ \A k \in DOMAIN relocs : relocs[k] \in EntryType /\ relocs[k].delta = 0
    /\ relocs[1].dword = 4 /\ relocs[1].target = "dst"
    /\ relocs[2].dword = 8 /\ relocs[2].target = "src"
    /\ Both => /\ relocs[3].dword = 14 /\ relocs[3].target = "dst"
               /\ relocs[4].dword = 18 /\ relocs[4].target = "src"

\* The parts before the end of the batch.
WholeRows == IF Rows > 0 THEN Part(0, Rows, ROW \div 4) ELSE <<>>
LastRow   == IF Rest > 0 THEN Part(Rows, Rows + 1, Rest \div 4) ELSE <<>>
Parts     == WholeRows \o LastRow

LEMMA PartsDwords ==
    /\ Parts \in Seq(Nat \cup {Undefined}) /\ Len(Parts) = LastDword
    /\ \A s \in Starts : \A d \in Nat : 0 < d /\ d <= 10 => Parts[s + d] = Words(s)[d]
    /\ Both => Len(WholeRows) = 10
  <1>0. /\ Rows \in Nat /\ Rest \in Nat /\ (Rows > 0 \/ Rest > 0)
        /\ \A s \in Starts : Words(s) \in Seq(Nat \cup {Undefined}) /\ Len(Words(s)) = 10
    BY Sizes, PartDwords DEF RowNumber
  <1>1. CASE Both
    <2>1. WholeRows = Words(0) /\ LastRow = Words(10) /\ Starts = {0, 10} /\ LastDword = 20
      BY <1>1 DEF Both, Words, Top, Bottom, Width, Whole, Starts, LastDword, WholeRows, LastRow
    <2>2. /\ WholeRows \in Seq(Nat \cup {Undefined}) /\ LastRow \in Seq(Nat \cup {Undefined})
          /\ Len(WholeRows) = 10 /\ Len(LastRow) = 10
      BY <1>0, <2>1
    <2>3. /\ Parts \in Seq(Nat \cup {Undefined}) /\ Len(Parts) = 10 + 10
          /\ \A d \in Nat : 0 < d /\ d <= 10 => Parts[d] = WholeRows[d]
          /\ \A d \in Nat : 0 < d /\ d <= 10 => Parts[10 + d] = LastRow[d]
      <3>1. /\ Parts \in Seq(Nat \cup {Undefined}) /\ Len(Parts) = Len(WholeRows) + Len(LastRow)
            /\ \A d \in Nat : 0 < d /\ d <= Len(WholeRows) => Parts[d] = WholeRows[d]
            /\ \A d \in Nat : 0 < d /\ d <= Len(LastRow) =>
                  Parts[Len(WholeRows) + d] = LastRow[d]
        <4>1. WholeRows \in Seq(Nat \cup {Undefined}) /\ LastRow \in Seq(Nat \cup {Undefined})
          BY <2>2
        <4>. QED BY <4>1, Joined DEF Parts
      <3>. QED BY <2>2, <3>1
    <2>4. \A d \in Nat : 0 + d = d
      OBVIOUS
    <2>. QED BY <2>1, <2>2, <2>3, <2>4
  <1>2. CASE ~Both
    <2>1. Starts = {0} /\ LastDword = 10
      BY <1>2 DEF Starts, LastDword
    <2>2. \/ WholeRows = Words(0) /\ LastRow = <<>>
          \/ WholeRows = <<>> /\ LastRow = Words(0)
      BY <1>0, <1>2 DEF Both, Words, Top, Bottom, Width, Whole, WholeRows, LastRow
    <2>3. Words(0) \in Seq(Nat \cup {Undefined}) /\ Len(Words(0)) = 10
      BY <1>0, <2>1
    <2>4. Parts = Words(0)
      BY <2>2, <2>3, ConcatEmptySeq DEF Parts
    <2>5. \A d \in Nat : 0 + d = d
      OBVIOUS
    <2>. QED BY <1>2, <2>1, <2>3, <2>4, <2>5
  <1>. QED BY <1>1, <1>2

LEMMA BuiltCopy ==
    ASSUME BuildCopy
    PROVE  /\ BatchOK' /\ batch'[LastDword] = EndHeader /\ landed' = {}
           /\ \A s \in Starts : PartAt(s)' /\ Addressed(s, 0, 0)'
           /\ CopyEntries' /\ \A k \in DOMAIN relocs' : relocs'[k].presumed = 0
           /\ UNCHANGED <<place, tail, head, acthd, ipehr>>
  <1> DEFINE end   == <<MI_BATCH_BUFFER_END, 0>>
             words == Parts \o end
  <1>1. /\ batch' = Filled(words) /\ landed' = {}
        /\ relocs' = (IF Rows > 0 THEN PartEntries(0) ELSE <<>>)
                       \o (IF Rest > 0 THEN PartEntries(Len(WholeRows)) ELSE <<>>)
        /\ UNCHANGED <<place, tail, head, acthd, ipehr>>
    BY DEF BuildCopy, Build, engine, Rows, Rest, Parts, WholeRows, LastRow
  <1>2. end \in Seq(Nat \cup {Undefined}) /\ Len(end) = 2 /\ end[1] = EndHeader
    BY WellFormedHeaders DEF Headers, EndHeader
  <1>3. LastDword \in {10, 20} /\ \A s \in Starts : s \in {0, 10} /\ s + 10 <= LastDword
    BY DEF LastDword, Starts
  <1> HIDE DEF end
  <1>4. /\ words \in Seq(Nat \cup {Undefined}) /\ Len(words) = LastDword + 2
        /\ words[LastDword + 1] = EndHeader
        /\ \A d \in Nat : 0 < d /\ d <= LastDword => words[d] = Parts[d]
    <2>1. /\ words \in Seq(Nat \cup {Undefined}) /\ Len(words) = Len(Parts) + Len(end)
          /\ \A d \in Nat : 0 < d /\ d <= Len(Parts) => words[d] = Parts[d]
          /\ \A d \in Nat : 0 < d /\ d <= Len(end) => words[Len(Parts) + d] = end[d]
      <3>1. Parts \in Seq(Nat \cup {Undefined}) /\ end \in Seq(Nat \cup {Undefined})
        BY <1>2, PartsDwords
      <3>. QED BY <3>1, Joined
    <2> HIDE DEF words
    <2>. QED BY <1>2, <2>1, PartsDwords
  <1> HIDE DEF words
  <1>5. /\ batch' \in [0..(Dwords - 1) -> Nat \cup {Undefined}]
        /\ \A d \in 0..(Dwords - 1) : batch'[d] = IF d < LastDword + 2 THEN words[d + 1] ELSE 0
    <2>1. LastDword + 2 \in Nat /\ words \in [1..(LastDword + 2) -> Nat \cup {Undefined}]
      BY <1>3, <1>4, LenProperties
    <2>. QED BY <1>1, <2>1, FilledDwords
  <1>6. batch'[LastDword] = EndHeader
    BY <1>3, <1>4, <1>5 DEF Dwords
  <1>7. ASSUME NEW s \in Starts
        PROVE  PartAt(s)' /\ Addressed(s, 0, 0)'
    <2>1. \A d \in 0..9 : batch'[s + d] = Words(s)[d + 1]
      <3> TAKE d \in 0..9
      <3>1. /\ s + d \in 0..(Dwords - 1) /\ s + d < LastDword + 2 /\ s + d + 1 \in Nat
            /\ 0 < s + d + 1 /\ s + d + 1 <= LastDword
        BY <1>3 DEF Dwords
      <3>2. batch'[s + d] = Parts[s + d + 1]
        BY <1>4, <1>5, <3>1
      <3>3. d + 1 \in Nat /\ 0 < d + 1 /\ d + 1 <= 10 /\ s + (d + 1) = s + d + 1
        BY <1>3
      <3>. QED BY PartsDwords, <3>2, <3>3
    <2>2. batch'[s] = batch'[s + 0]
      BY <1>3
    <2>. QED BY <2>1, <2>2, PartDwords DEF PartAt, Addressed
  <1>8. CopyEntries' /\ \A k \in DOMAIN relocs' : relocs'[k].presumed = 0
    <2>1. \A n \in {0, 10} : /\ PartEntries(n) \in Seq(EntryType) /\ Len(PartEntries(n)) = 2
                             /\ PartEntries(n)[1].dword = n + 4 /\ PartEntries(n)[1].target = "dst"
                             /\ PartEntries(n)[2].dword = n + 8 /\ PartEntries(n)[2].target = "src"
                             /\ \A k \in {1, 2} : /\ PartEntries(n)[k].delta = 0
                                                  /\ PartEntries(n)[k].presumed = 0
                                                  /\ PartEntries(n)[k] \in EntryType
      BY DEF PartEntries, Entry, EntryType, Object
    <2>2. Rows \in Nat /\ Rest \in Nat /\ (Rows > 0 \/ Rest > 0)
      BY Sizes DEF RowNumber
    <2>3. CASE Both
      <3>1. relocs' = PartEntries(0) \o PartEntries(10)
        BY <1>1, <2>3, PartsDwords DEF Both
      <3>2. /\ relocs' \in Seq(EntryType) /\ Len(relocs') = 2 + 2
            /\ \A d \in Nat : 0 < d /\ d <= 2 => relocs'[d] = PartEntries(0)[d]
            /\ \A d \in Nat : 0 < d /\ d <= 2 => relocs'[2 + d] = PartEntries(10)[d]
        <4> DEFINE a == PartEntries(0)
                   b == PartEntries(10)
        <4>1. a \in Seq(EntryType) /\ b \in Seq(EntryType) /\ Len(a) = 2 /\ Len(b) = 2
          BY <2>1
        <4>2. relocs' = a \o b
          BY <3>1
        <4> HIDE DEF a, b
        <4>3. /\ a \o b \in Seq(EntryType) /\ Len(a \o b) = Len(a) + Len(b)
              /\ \A d \in Nat : 0 < d /\ d <= Len(a) => (a \o b)[d] = a[d]
              /\ \A d \in Nat : 0 < d /\ d <= Len(b) => (a \o b)[Len(a) + d] = b[d]
          <5>1. a \in Seq(EntryType) /\ b \in Seq(EntryType)
            BY <4>1
          <5>. QED BY <5>1, Joined
        <4>4. /\ relocs' \in Seq(EntryType) /\ Len(relocs') = 2 + 2
              /\ \A d \in Nat : 0 < d /\ d <= 2 => relocs'[d] = a[d]
              /\ \A d \in Nat : 0 < d /\ d <= 2 => relocs'[2 + d] = b[d]
          BY <4>1, <4>2, <4>3
        <4>. QED BY <4>4 DEF a, b
      <3>3. /\ relocs'[1] = PartEntries(0)[1] /\ relocs'[2] = PartEntries(0)[2]
            /\ relocs'[3] = PartEntries(10)[1] /\ relocs'[4] = PartEntries(10)[2]
        BY <3>2
      <3>4. DOMAIN relocs' = {1, 2, 3, 4}
        <4>1. DOMAIN relocs' = 1..Len(relocs')
          BY <3>2, LenProperties
        <4>. QED BY <3>2, <4>1
      <3>. QED BY <2>1, <2>3, <3>3, <3>4 DEF CopyEntries
    <2>4. CASE ~Both
      <3>1. relocs' = PartEntries(0)
        <4>1. PartEntries(0) \in Seq(EntryType)
          BY <2>1
        <4>2. PartEntries(0) \o <<>> = PartEntries(0) /\ <<>> \o PartEntries(0) = PartEntries(0)
          BY <4>1, ConcatEmptySeq
        <4>3. ~(Rows > 0) => Len(WholeRows) = 0
          BY DEF WholeRows
        <4>. QED BY <1>1, <2>2, <2>4, <4>2, <4>3 DEF Both
      <3>2. DOMAIN relocs' = {1, 2}
        <4>1. DOMAIN relocs' = 1..Len(relocs')
          BY <2>1, <3>1, LenProperties
        <4>. QED BY <2>1, <3>1, <4>1
      <3>. QED BY <2>1, <2>4, <3>1, <3>2 DEF CopyEntries
    <2>. QED BY <2>3, <2>4
  <1>. QED BY <1>1, <1>5, <1>6, <1>7, <1>8 DEF BatchOK
-----------------------------------------------------------------------------
(* The engine in the batch of gem_exec_blt.                                *)

\* what the part at dword s copies
Copied(s) == [op |-> "copy", rop |-> 204, to |-> <<place["dst"], 0>>,
              from |-> <<place["src"], 0>>, pitch |-> <<ROW, ROW>>,
              top |-> <<Top(s), Top(s)>>, bottom |-> Bottom(s), width |-> Width(s)]
AllCopied == {Copied(s) : s \in Starts}

BltStream ==
    /\ pc \in FreshLabel \cup {"build", "warm", "warmsync", "clock", "submit", "sync", "stop"}
    /\ pc \notin {"warmsync", "submit", "sync"} => queued = 0
    /\ pc \in {"build", "warm"} => DOMAIN place = {} /\ landed = {}
    /\ pc \notin FreshLabel \cup {"build"} =>
          batch[LastDword] = EndHeader /\ CopyEntries /\ \A s \in Starts : PartAt(s)
    /\ pc = "warm" => /\ \A s \in Starts : Addressed(s, 0, 0)
                      /\ \A k \in DOMAIN relocs : relocs[k].presumed = 0
    /\ pc \in {"warmsync", "clock", "submit", "sync", "stop"} =>
          /\ DOMAIN place = {"dst", "src"} /\ landed \subseteq AllCopied
          /\ \A s \in Starts : Addressed(s, place["dst"], place["src"])
          /\ \A k \in DOMAIN relocs : relocs[k].presumed = place[relocs[k].target]
    /\ \/ acthd = -1 \/ EngineAt(LastDword, EndHeader)
       \/ \E s \in Starts : EngineAt(s, CopyHeader)
    /\ pc = "warmsync" =>
          \/ queued > 0 /\ \A s \in Starts : s < acthd => Copied(s) \in landed
          \/ landed = AllCopied
    /\ pc \in {"clock", "submit", "sync", "stop"} => landed = AllCopied

LEMMA Br13Fields == Bits(Br13, 23, 16) = 204 /\ Bits(Br13, 15, 0) = ROW /\ Bits(ROW, 15, 0) = ROW
  BY DEF Bits, Br13, ROW

LEMMA RowFields ==
    ASSUME NEW y \in RowNumber, NEW x \in RowNumber
    PROVE  /\ Bits(y * 2^16, 31, 16) = y
           /\ Bits(y * 2^16 + x, 31, 16) = y /\ Bits(y * 2^16 + x, 15, 0) = x
  <1>1. /\ y \in Nat /\ y < 65536 /\ x \in Nat /\ x < 65536 /\ 65536 \in Nat \ {0}
        /\ 2^16 = 65536 /\ 2^(31 - 16 + 1) = 65536 /\ 2^0 = 1 /\ 2^(15 - 0 + 1) = 65536
    BY SMT DEF RowNumber
  <1>2. (65536 * y + x) % 65536 = x /\ (65536 * y + x) \div 65536 = y
    BY <1>1, ModOf, SMT
  <1>3. (65536 * y + 0) % 65536 = 0 /\ (65536 * y + 0) \div 65536 = y
    BY <1>1, ModOf, SMT
  <1>4. (65536 * 0 + y) % 65536 = y
    BY <1>1, ModOf, SMT
  <1>5. /\ y * 65536 = 65536 * y + 0 /\ y * 65536 + x = 65536 * y + x /\ 65536 * 0 + y = y
        /\ (y * 65536 + x) \div 1 = y * 65536 + x
    BY <1>1, SMT
  <1>. QED BY <1>1, <1>2, <1>3, <1>4, <1>5, SMT DEF Bits

\* The engine reads the rectangle that gem_linear_blt() means.
LEMMA CopyView ==
    ASSUME NEW s \in Starts, acthd = s, PartAt(s), Addressed(s, place["dst"], place["src"])
    PROVE  Copy = Copied(s)
  <1>1. /\ Dword(1) = Br13 /\ Dword(2) = Top(s) * 2^16
        /\ Dword(3) = Bottom(s) * 2^16 + Width(s)
        /\ Dword(6) = Top(s) * 2^16 /\ Dword(7) = ROW
    BY DEF Dword, PartAt
  <1>2. Pair(4) = <<place["dst"], 0>> /\ Pair(8) = <<place["src"], 0>>
    BY DEF Pair, Dword, Addressed
  <1>3. Top(s) \in RowNumber /\ Bottom(s) \in RowNumber /\ Width(s) \in RowNumber
    BY Sizes
  <1>4. /\ Bits(Dword(2), 31, 16) = Top(s) /\ Bits(Dword(6), 31, 16) = Top(s)
        /\ Bits(Dword(3), 31, 16) = Bottom(s) /\ Bits(Dword(3), 15, 0) = Width(s)
    BY <1>1, <1>3, RowFields
  <1>5. /\ Bits(Dword(1), 23, 16) = 204 /\ Bits(Dword(1), 15, 0) = ROW
        /\ Bits(Dword(7), 15, 0) = ROW
    BY <1>1, Br13Fields
  <1>. QED BY <1>2, <1>4, <1>5 DEF Copy, Copied

LEMMA PartOrder ==
    /\ 0 \in Starts /\ LastDword \in Nat /\ LastDword + 2 <= Dwords
    /\ \A s \in Starts : s \in Nat /\ s + 10 <= LastDword /\ (s + 10 \in Starts \/ s + 10 = LastDword)
    /\ \A s \in Starts, t \in Starts : t < s + 10 => t = s \/ t < s
  BY DEF Starts, LastDword, Dwords

LEMMA BltEngine ==
    ASSUME StreamOK, BltStream, Engine, UNCHANGED <<pc, program, sample>>
    PROVE  StreamOK' /\ BltStream'
  <1> USE DEF FreshLabel, SearchLabel
  <1>1. /\ pc \in {"warmsync", "submit", "sync"}
        /\ batch[LastDword] = EndHeader /\ CopyEntries /\ (\A s \in Starts : PartAt(s))
        /\ DOMAIN place = {"dst", "src"} /\ landed \subseteq AllCopied
        /\ \A s \in Starts : Addressed(s, place["dst"], place["src"])
        /\ CopyHeader # EndHeader
    BY Opcodes DEF Engine, Begin, Fetch, Execute, BltStream, StreamOK
  <1>2. UNCHANGED <<batch, relocs, place>> /\ AllCopied' = AllCopied
        /\ \A s : Copied(s)' = Copied(s)
    BY EngineSteps DEF AllCopied, Copied
  <1>3. \/ /\ EngineAt(0, CopyHeader)' /\ landed' = landed
        \/ \E s \in Starts : /\ EngineAt(s, CopyHeader) /\ EngineAt(s, CopyHeader)'
                             /\ landed' = landed
        \/ \E s \in Starts : /\ EngineAt(s, CopyHeader) /\ landed' = landed \cup {Copied(s)}
                             /\ EngineAt(s + 10, CopyHeader)' \/ EngineAt(s + 10, EndHeader)'
                             /\ acthd' = s + 10 /\ ipehr' = <<>>
        \/ /\ EngineAt(LastDword, EndHeader) /\ EngineAt(LastDword, EndHeader)' /\ landed' = landed
        \/ /\ EngineAt(LastDword, EndHeader) /\ acthd' = -1 /\ ipehr' = <<>>
           /\ landed' = landed /\ queued' = queued - 1
    <2>1. CASE acthd = -1
      BY <2>1, EngineSteps DEF EngineAt
    <2>2. ASSUME NEW s \in Starts, EngineAt(s, CopyHeader)
          PROVE  \/ EngineAt(s, CopyHeader)' /\ landed' = landed
                 \/ /\ landed' = landed \cup {Copied(s)}
                    /\ acthd' = s + 10 /\ ipehr' = <<>>
      <3>1. acthd = s /\ s # -1 /\ batch[s] = CopyHeader
        BY <1>1, <2>2, PartOrder DEF EngineAt, PartAt
      <3>2. CASE ipehr = <<>>
        BY <2>2, <3>1, <3>2, EngineSteps DEF EngineAt
      <3>3. CASE ipehr = <<CopyHeader>>
        <4>1. Execute
          BY <1>1, <3>1, <3>3, EngineSteps
        <4>2. Copy = Copied(s)
          BY <1>1, <3>1, CopyView
        <4>. QED BY <3>1, <3>3, <4>1, <4>2, ExecuteView
      <3>. QED BY <2>2, <3>2, <3>3 DEF EngineAt
    <2>3. CASE EngineAt(LastDword, EndHeader)
      <3>1. LastDword # -1 /\ acthd = LastDword
        BY <2>3, PartOrder DEF EngineAt
      <3>. QED BY <1>1, <2>3, <3>1, EngineSteps DEF EngineAt
    <2>. QED BY <2>1, <2>2, <2>3 DEF BltStream, EngineAt
  <1>4. \/ acthd' = -1 /\ ipehr' = <<>>
        \/ EngineAt(LastDword, EndHeader)'
        \/ \E s \in Starts : EngineAt(s, CopyHeader)'
    BY <1>3, PartOrder DEF EngineAt
  <1>5. StreamOK'
    <2>1. acthd' \in Nat \cup {-1} /\ (ipehr' = <<>> \/ \E h \in Headers : ipehr' = <<h>>)
      BY <1>4, PartOrder DEF EngineAt, Headers
    <2>. QED BY <1>1, <2>1, EngineKeepsOK
  <1>6. landed' \subseteq AllCopied /\ landed \subseteq landed'
    <2>1. \A s \in Starts : Copied(s) \in AllCopied
      BY DEF AllCopied
    <2>. QED BY <1>1, <1>3, <2>1
  <1>7. landed = AllCopied => landed' = AllCopied
    BY <1>6
  <1>8. ASSUME queued > 0, \A s \in Starts : s < acthd => Copied(s) \in landed
        PROVE  \/ queued' > 0 /\ \A s \in Starts : s < acthd' => Copied(s) \in landed'
               \/ landed' = AllCopied
    <2>1. CASE EngineAt(LastDword, EndHeader)
      <3>1. \A s \in Starts : Copied(s) \in landed
        BY <1>8, <2>1, PartOrder DEF EngineAt
      <3>. QED BY <1>1, <1>7, <3>1 DEF AllCopied
    <2>2. CASE ~EngineAt(LastDword, EndHeader)
      <3>1. acthd' # -1 /\ queued' > 0
        BY <1>3, <1>5, <2>2, PartOrder DEF EngineAt, StreamOK
      <3>2. ASSUME NEW t \in Starts, t < acthd' PROVE Copied(t) \in landed'
        <4>1. CASE acthd' = 0
          BY <3>2, <4>1, PartOrder
        <4>2. ASSUME NEW s \in Starts, EngineAt(s, CopyHeader), acthd' = s
              PROVE  Copied(t) \in landed'
          BY <1>6, <1>8, <3>2, <4>2 DEF EngineAt
        <4>3. ASSUME NEW s \in Starts, EngineAt(s, CopyHeader), acthd' = s + 10,
                     landed' = landed \cup {Copied(s)}
              PROVE  Copied(t) \in landed'
          <5>1. t = s \/ t < s
            BY <3>2, <4>3, PartOrder
          <5>. QED BY <1>8, <4>3, <5>1 DEF EngineAt
        <4>. QED BY <1>3, <2>2, <4>1, <4>2, <4>3 DEF EngineAt
      <3>. QED BY <3>1, <3>2
    <2>. QED BY <2>1, <2>2
  <1>9. BltStream'
    <2>1. /\ batch'[LastDword] = EndHeader /\ CopyEntries' /\ (\A s \in Starts : PartAt(s)')
          /\ DOMAIN place' = {"dst", "src"} /\ landed' \subseteq AllCopied'
          /\ \A s \in Starts : Addressed(s, place["dst"], place["src"])'
          /\ \A k \in DOMAIN relocs' : relocs'[k].presumed = place'[relocs'[k].target]
      BY <1>1, <1>2, <1>6 DEF CopyEntries, PartAt, Addressed, BltStream
    <2>2. pc = "warmsync" =>
             \/ queued' > 0 /\ \A s \in Starts : s < acthd' => Copied(s)' \in landed'
             \/ landed' = AllCopied'
      BY <1>2, <1>7, <1>8 DEF BltStream
    <2>3. pc \in {"submit", "sync"} => landed' = AllCopied'
      BY <1>2, <1>7 DEF BltStream
    <2>. QED BY <1>1, <1>4, <2>1, <2>2, <2>3 DEF BltStream
  <1>. QED BY <1>5, <1>9

\* The entries of the copy, and the dwords they are for.
LEMMA CopyDwords ==
    ASSUME CopyEntries
    PROVE  /\ Disjoint /\ Targets = {"dst", "src"}
           /\ \A k \in DOMAIN relocs :
                 /\ relocs[k].dword + 1 < Dwords
                 /\ \E s \in Starts : \/ relocs[k].dword = s + 4 /\ relocs[k].target = "dst"
                                      \/ relocs[k].dword = s + 8 /\ relocs[k].target = "src"
           /\ \A s \in Starts :
                 /\ \E k \in DOMAIN relocs : relocs[k].dword = s + 4 /\ relocs[k].target = "dst"
                 /\ \E k \in DOMAIN relocs : relocs[k].dword = s + 8 /\ relocs[k].target = "src"
  <1>1. CASE Both
    <2>1. /\ Starts = {0, 10} /\ DOMAIN relocs = {1, 2, 3, 4}
          /\ \A k \in {1, 2, 3, 4} : relocs[k] \in EntryType
          /\ relocs[1].dword = 4 /\ relocs[1].target = "dst"
          /\ relocs[2].dword = 8 /\ relocs[2].target = "src"
          /\ relocs[3].dword = 14 /\ relocs[3].target = "dst"
          /\ relocs[4].dword = 18 /\ relocs[4].target = "src"
      BY <1>1 DEF CopyEntries, Starts
    <2>2. Disjoint
      BY <2>1 DEF Disjoint
    <2>3. Targets = {"dst", "src"}
      BY <2>1 DEF Targets
    <2>4. \A k \in {1, 2, 3, 4} :
             /\ relocs[k].dword + 1 < Dwords
             /\ \E s \in {0, 10} : \/ relocs[k].dword = s + 4 /\ relocs[k].target = "dst"
                                   \/ relocs[k].dword = s + 8 /\ relocs[k].target = "src"
      BY <2>1 DEF Dwords
    <2>5. \A s \in {0, 10} :
             /\ \E k \in {1, 2, 3, 4} : relocs[k].dword = s + 4 /\ relocs[k].target = "dst"
             /\ \E k \in {1, 2, 3, 4} : relocs[k].dword = s + 8 /\ relocs[k].target = "src"
      BY <2>1
    <2>. QED BY <2>1, <2>2, <2>3, <2>4, <2>5
  <1>2. CASE ~Both
    <2>1. /\ Starts = {0} /\ DOMAIN relocs = {1, 2}
          /\ \A k \in {1, 2} : relocs[k] \in EntryType
          /\ relocs[1].dword = 4 /\ relocs[1].target = "dst"
          /\ relocs[2].dword = 8 /\ relocs[2].target = "src"
      BY <1>2 DEF CopyEntries, Starts
    <2>2. Disjoint
      BY <2>1 DEF Disjoint
    <2>3. Targets = {"dst", "src"}
      BY <2>1 DEF Targets
    <2>4. \A k \in {1, 2} :
             /\ relocs[k].dword + 1 < Dwords
             /\ \E s \in {0} : \/ relocs[k].dword = s + 4 /\ relocs[k].target = "dst"
                               \/ relocs[k].dword = s + 8 /\ relocs[k].target = "src"
      BY <2>1 DEF Dwords
    <2>5. \A s \in {0} :
             /\ \E k \in {1, 2} : relocs[k].dword = s + 4 /\ relocs[k].target = "dst"
             /\ \E k \in {1, 2} : relocs[k].dword = s + 8 /\ relocs[k].target = "src"
      BY <2>1
    <2>. QED BY <2>1, <2>2, <2>3, <2>4, <2>5
  <1>. QED BY <1>1, <1>2

\* A submission of the copy, the first one or a later one.
LEMMA CopySubmitted ==
    ASSUME StreamOK, Submit, CopyEntries, \A s \in Starts : PartAt(s), batch[LastDword] = EndHeader,
           pc' \notin FreshLabel,
           \/ (\A s \in Starts : Addressed(s, 0, 0))
              /\ \A k \in DOMAIN relocs : relocs[k].presumed = 0
           \/ (\A s \in Starts : Addressed(s, place["dst"], place["src"]))
              /\ DOMAIN place = {"dst", "src"}
              /\ \A k \in DOMAIN relocs : relocs[k].presumed = place[relocs[k].target]
    PROVE  /\ StreamOK' /\ queued' = queued + 1 /\ CopyEntries' /\ \A s \in Starts : PartAt(s)'
           /\ batch'[LastDword] = EndHeader /\ DOMAIN place' = {"dst", "src"}
           /\ \A s \in Starts : Addressed(s, place["dst"], place["src"])'
           /\ \A k \in DOMAIN relocs' : relocs'[k].presumed = place'[relocs'[k].target]
           /\ DOMAIN place = {"dst", "src"} => place' = place
           /\ UNCHANGED <<acthd, ipehr, landed>>
  <1>1. \A k \in DOMAIN relocs : relocs[k] \in EntryType /\ relocs[k].delta = 0
    BY DEF CopyEntries
  <1>2. EntriesOK
    <2>1. ASSUME NEW k \in DOMAIN relocs PROVE Linked(k)
      <3>1. PICK s \in Starts : \/ relocs[k].dword = s + 4 /\ relocs[k].target = "dst"
                                \/ relocs[k].dword = s + 8 /\ relocs[k].target = "src"
        BY CopyDwords
      <3>2. s + 4 + 1 = s + 5 /\ s + 8 + 1 = s + 9
        BY PartOrder
      <3>3. relocs[k].presumed \in Int /\ relocs[k].presumed + 0 = relocs[k].presumed
        BY <1>1 DEF EntryType
      <3>4. CASE (\A t \in Starts : Addressed(t, 0, 0)) /\ relocs[k].presumed = 0
        BY <1>1, <3>1, <3>2, <3>3, <3>4 DEF Addressed, Linked
      <3>5. CASE /\ \A t \in Starts : Addressed(t, place["dst"], place["src"])
                 /\ relocs[k].presumed = place[relocs[k].target]
        BY <1>1, <3>1, <3>2, <3>3, <3>5 DEF Addressed, Linked
      <3>. QED BY <3>4, <3>5
    <2>. QED BY <2>1, CopyDwords DEF EntriesOK
  <1>3. StreamOK' /\ queued' = queued + 1
    BY <1>2, SubmitKeepsOK
  <1>4. /\ UNCHANGED <<acthd, ipehr, landed>> /\ DOMAIN place' = {"dst", "src"}
        /\ (DOMAIN place = {"dst", "src"} => place' = place)
        /\ place'["dst"] \in Nat /\ place'["src"] \in Nat
        /\ EntriesOK' /\ DOMAIN relocs' = DOMAIN relocs
        /\ \A k \in DOMAIN relocs :
              /\ relocs'[k].dword = relocs[k].dword /\ relocs'[k].delta = relocs[k].delta
              /\ relocs'[k].target = relocs[k].target
              /\ relocs'[k].presumed = place'[relocs[k].target]
              /\ batch'[relocs[k].dword] = place'[relocs[k].target] + relocs[k].delta
              /\ batch'[relocs[k].dword + 1] = 0
        /\ \A d \in 0..(Dwords - 1) :
              (\A k \in DOMAIN relocs : relocs[k].dword # d /\ relocs[k].dword + 1 # d)
                 => batch'[d] = batch[d]
    BY <1>2, CopyDwords, SubmitView, Addresses DEF StreamOK, PlaceOK
  <1>5. CopyEntries'
    BY <1>4 DEF CopyEntries, EntriesOK, Disjoint
  <1>6. ASSUME NEW s \in Starts PROVE Addressed(s, place["dst"], place["src"])'
    <2>1. s + 4 + 1 = s + 5 /\ s + 8 + 1 = s + 9
      BY PartOrder
    <2>2. place'["dst"] + 0 = place'["dst"] /\ place'["src"] + 0 = place'["src"]
      BY <1>4
    <2>3. PICK k \in DOMAIN relocs : relocs[k].dword = s + 4 /\ relocs[k].target = "dst"
      BY CopyDwords
    <2>4. PICK l \in DOMAIN relocs : relocs[l].dword = s + 8 /\ relocs[l].target = "src"
      BY CopyDwords
    <2>5. /\ batch'[s + 4] = place'["dst"] + 0 /\ batch'[s + 4 + 1] = 0
          /\ batch'[s + 8] = place'["src"] + 0 /\ batch'[s + 8 + 1] = 0
      BY <1>1, <1>4, <2>3, <2>4
    <2>. QED BY <2>1, <2>2, <2>5 DEF Addressed
  <1>7. ASSUME NEW s \in Starts \cup {LastDword}, NEW d \in {0, 1, 2, 3, 6, 7},
               s = LastDword => d = 0
        PROVE  batch'[s + d] = batch[s + d]
    <2>1. s + d \in 0..(Dwords - 1)
      BY <1>7, PartOrder DEF Dwords
    <2>2. ASSUME NEW k \in DOMAIN relocs
          PROVE  relocs[k].dword # s + d /\ relocs[k].dword + 1 # s + d
      <3>1. PICK t \in Starts : relocs[k].dword = t + 4 \/ relocs[k].dword = t + 8
        BY CopyDwords
      <3>2. s \in {0, 10, 20} /\ t \in {0, 10} /\ (s = 20 => d = 0) /\ (s = 10 /\ t = 10 => TRUE)
        BY <1>7 DEF Starts, LastDword
      <3>. QED BY <3>1, <3>2
    <2>. QED BY <1>4, <2>1, <2>2
  <1>8. ASSUME NEW s \in Starts PROVE PartAt(s)'
    <2>1. \A d \in {0, 1, 2, 3, 6, 7} : batch'[s + d] = batch[s + d]
      <3>1. s # LastDword
        BY PartOrder
      <3>. QED BY <1>7, <3>1
    <2>2. s + 0 = s
      BY PartOrder
    <2>3. PartAt(s)
      OBVIOUS
    <2>. QED BY <2>1, <2>2, <2>3 DEF PartAt
  <1>9. batch'[LastDword] = EndHeader
    <2>1. batch'[LastDword + 0] = batch[LastDword + 0] /\ LastDword + 0 = LastDword
      BY <1>7, PartOrder
    <2>. QED BY <2>1
  <1>. QED BY <1>3, <1>4, <1>5, <1>6, <1>8, <1>9

LEMMA BltStep ==
    ASSUME StreamOK, BltStream, BltRun, UNCHANGED program
    PROVE  StreamOK' /\ BltStream'
  <1> USE DEF FreshLabel, SearchLabel
  <1>1. CASE \/ FirstUse("build") \/ Sync("warmsync", "clock") \/ Clock("clock", ReadClock, "submit")
             \/ (Again /\ pc' # "submit") \/ Sync("sync", "stop") \/ Report
    <2>1. UNCHANGED streamVars
      BY <1>1 DEF FirstUse, Clock, Sync, Device, Again, Report, At, Stay
    <2>2. /\ pc \notin SearchLabel /\ (pc' = "opened" => pc = "opened")
          /\ pc' \in {"opened", "build", "clock", "submit", "sync", "stop"}
          /\ pc = "warmsync" => queued = 0
          /\ pc' \in {"clock", "stop"} => queued = 0
          /\ pc' = "build" => pc = "opened"
          /\ pc' \in {"clock", "submit", "sync", "stop"} =>
                pc \in {"warmsync", "clock", "submit", "sync", "stop"}
      BY <1>1 DEF FirstUse, Clock, Sync, Device, Again, Report, At, Goto, Exit, Stay, Idle, BltStream
    <2>3. StreamOK' /\ queued' = queued
      BY <2>1, <2>2, QuietKeepsOK
    <2>4. /\ AllCopied' = AllCopied /\ CopyEntries' = CopyEntries
          /\ \A s : PartAt(s)' = PartAt(s)
          /\ Addressed(1, place["dst"], place["src"])' = Addressed(1, place["dst"], place["src"])
          /\ \A s : Addressed(s, place["dst"], place["src"])' = Addressed(s, place["dst"], place["src"])
      BY <2>1 DEF streamVars, AllCopied, Copied, CopyEntries, PartAt, Addressed
    <2>5. pc' \in {"clock", "submit", "sync", "stop"} => landed = AllCopied
      BY <2>2 DEF BltStream
    <2>6. pc' \in {"build", "opened"} => queued = 0 /\ DOMAIN place = {} /\ landed = {}
      BY <2>2 DEF BltStream, StreamOK
    <2>. QED BY <2>1, <2>2, <2>3, <2>4, <2>5, <2>6 DEF BltStream, streamVars, EngineAt
  <1>2. CASE Device("build", BuildCopy, "warm")
    <2>1. BuildCopy /\ pc = "build" /\ pc' = "warm"
      BY <1>2 DEF Device, At, Goto
    <2>2. StreamOK' /\ queued' = queued
      BY <2>1, BuiltCopy, WriteKeepsOK DEF engine, StreamOK, PlaceOK
    <2>3. acthd = -1 /\ DOMAIN place = {} /\ queued = 0
      BY <2>1 DEF StreamOK, BltStream
    <2>. QED BY <2>1, <2>2, <2>3, BuiltCopy DEF BltStream
  <1>3. CASE Device("warm", Submit, "warmsync")
    <2>1. Submit /\ pc = "warm" /\ pc' = "warmsync" /\ queued = 0 /\ landed = {}
      BY <1>3 DEF Device, At, Goto, BltStream
    <2>2. /\ CopyEntries /\ batch[LastDword] = EndHeader /\ \A s \in Starts : PartAt(s)
          /\ \A s \in Starts : Addressed(s, 0, 0)
          /\ \A k \in DOMAIN relocs : relocs[k].presumed = 0
      BY <2>1 DEF BltStream
    <2>3. /\ StreamOK' /\ queued' = queued + 1 /\ CopyEntries' /\ (\A s \in Starts : PartAt(s)')
          /\ batch'[LastDword] = EndHeader /\ DOMAIN place' = {"dst", "src"}
          /\ \A s \in Starts : Addressed(s, place["dst"], place["src"])'
          /\ \A k \in DOMAIN relocs' : relocs'[k].presumed = place'[relocs'[k].target]
          /\ UNCHANGED <<acthd, ipehr, landed>>
      BY <2>1, <2>2, CopySubmitted
    <2>4. acthd = -1 /\ \A s \in Starts : ~(s < -1)
      BY <2>1, PartOrder DEF StreamOK
    <2>. QED BY <2>1, <2>3, <2>4 DEF BltStream
  <1>4. CASE Again /\ pc' = "submit"
    <2>1. Submit /\ pc = "submit" /\ pc' = "submit" /\ landed = AllCopied
      BY <1>4 DEF Again, At, Goto, Stay, BltStream, Submit, streamVars
    <2>2. /\ CopyEntries /\ batch[LastDword] = EndHeader /\ (\A s \in Starts : PartAt(s))
          /\ DOMAIN place = {"dst", "src"}
          /\ \A s \in Starts : Addressed(s, place["dst"], place["src"])
          /\ \A k \in DOMAIN relocs : relocs[k].presumed = place[relocs[k].target]
      BY <2>1 DEF BltStream
    <2>3. /\ StreamOK' /\ queued' = queued + 1 /\ CopyEntries' /\ (\A s \in Starts : PartAt(s)')
          /\ batch'[LastDword] = EndHeader /\ DOMAIN place' = {"dst", "src"}
          /\ \A s \in Starts : Addressed(s, place["dst"], place["src"])'
          /\ \A k \in DOMAIN relocs' : relocs'[k].presumed = place'[relocs'[k].target]
          /\ place' = place
          /\ UNCHANGED <<acthd, ipehr, landed>>
      BY <2>1, <2>2, CopySubmitted
    <2>4. AllCopied' = AllCopied
      BY <2>3 DEF AllCopied, Copied
    <2>. QED BY <2>1, <2>3, <2>4 DEF BltStream, EngineAt
  <1>. QED BY <1>1, <1>2, <1>3, <1>4 DEF BltRun
-----------------------------------------------------------------------------
(* The numbers of rounds, samples and submissions, and the verdicts.       *)

Counted == sample \in 0..(IF program = "blt" THEN Loops ELSE Times)

CountInv ==
    /\ program \in Programs /\ pc \in Label /\ round \in 0..Rounds /\ Counted
    /\ verdict \in {"running", "passed", "ioctl", "assert", "timeout"}
    /\ verdict = "running" => round < Rounds
    /\ program \in {"exec", "store"} /\ pc \in {"create", "clock", "submit", "sync", "stop"} =>
          sample < Times
    /\ total_latency \in 0..(Word - 1) /\ ran \in BOOLEAN

Numbers == {Rounds, Times, Loops} \subseteq Nat \ {0}

LEMMA NumbersHold == Numbers /\ Word \in Nat \ {0}
  BY MeasureAssumption, WordIsPositive DEF Numbers

LEMMA CountInit == Init => CountInv
  <1> SUFFICES ASSUME Init PROVE CountInv
    OBVIOUS
  <1>1. /\ program \in Programs /\ pc \in {"card", "first"} /\ verdict = "running" /\ round = 0
        /\ sample = 0 /\ total_latency = 0 /\ ran = FALSE
    BY DEF Init
  <1>2. /\ Rounds \in Nat /\ Times \in Nat /\ Loops \in Nat /\ 0 < Rounds /\ 0 < Times /\ 0 < Loops
        /\ Word \in Nat /\ 0 < Word
    BY NumbersHold DEF Numbers
  <1>3. Counted /\ total_latency \in 0..(Word - 1) /\ round \in 0..Rounds
    BY <1>1, <1>2 DEF Counted
  <1>. QED BY <1>1, <1>2, <1>3 DEF CountInv, Label

LEMMA CountNext ==
    ASSUME CountInv, TimeInv, [Next]_vars
    PROVE  CountInv'
  <1> USE NumbersHold DEF Numbers, At, Goto, Exit, Stay
  <1>1. CASE Open /\ UNCHANGED program
    <2>1. /\ UNCHANGED <<verdict, round, sample, total_latency, ran>>
          /\ verdict = "running" /\ pc' \in {"card", "first", "second", "opened"}
      BY <1>1 DEF Open, drm_get_card, drm_open_driver, search_and_open, TryNext, results
    <2>. QED BY <1>1, <2>1 DEF CountInv, Counted, Label
  <1>2. CASE /\ UNCHANGED program
             /\ \/ \E to \in {"round", "build", "until", "spin"} : FirstUse(to)
                \/ until_timeout("write", "cleanup") \/ WatchFence \/ WatchClock \/ Return
    <2>1. /\ UNCHANGED <<round, sample, total_latency, ran>> /\ pc' \in Label
          /\ verdict = "running"
          /\ pc' \notin {"create", "clock", "submit", "sync", "stop"}
          /\ verdict' \in {"running", "passed", "ioctl", "timeout"}
      BY <1>2 DEF FirstUse, until_timeout, WatchFence, WatchClock, Return, results, Label
    <2>. QED BY <1>2, <2>1 DEF CountInv, Counted
  <1>3. CASE /\ UNCHANGED program
             /\ \/ program = "blt" /\ BltRun /\ ~FirstUse("build")
                \/ program = "fill" /\ CheckFill
    <2>1. /\ UNCHANGED <<round, total_latency>> /\ pc' \in Label /\ verdict = "running"
          /\ verdict' \in {"running", "passed", "assert"} /\ ran' \in {ran, TRUE}
      <3>1. CASE CheckFill
        BY <1>3, <3>1 DEF CheckFill, Label
      <3>2. CASE BltRun /\ ~FirstUse("build")
        BY <3>2 DEF BltRun, Device, Clock, Sync, Again, Report, results, Label
      <3>. QED BY <1>3, <3>1, <3>2
    <2>2. sample' = sample \/ (program = "blt" /\ sample < Loops /\ sample' = sample + 1)
      <3>1. CASE CheckFill
        BY <1>3, <3>1 DEF CheckFill
      <3>2. CASE program = "blt" /\ BltRun /\ ~FirstUse("build")
        BY <3>2 DEF BltRun, Device, Clock, Sync, Again, Report, results
      <3>. QED BY <1>3, <3>1, <3>2
    <2>3. Counted'
      BY <1>3, <2>2 DEF CountInv, Counted
    <2>. QED BY <1>3, <2>1, <2>3 DEF CountInv
  <1>4. CASE /\ UNCHANGED program /\ program \in {"exec", "store"}
             /\ \E first \in {"create", "clock"} : StartRound(first) \/ Take(first)
    <2>1. /\ UNCHANGED <<verdict, round, ran>> /\ pc' \in Label
          /\ verdict = "running"
          /\ \/ sample' = 0 /\ total_latency' = 0
             \/ /\ sample' = sample + 1 /\ sample < Times
                /\ total_latency' = (total_latency + nsec_elapsed) % Word
                /\ pc' \in {"create", "clock", "submit", "sync", "stop"} => sample' < Times
      BY <1>4 DEF StartRound, Take, CountInv, Label
    <2>2. nsec_elapsed \in Nat
      <3>1. clock \in Int /\ start \in Int
        BY ClockBounds DEF TimeInv, ClockInv
      <3>2. (clock - start) % Word \in Nat
        BY <3>1, DivModInt
      <3>. QED BY <3>1, <3>2, NsecSince DEF nsec_elapsed
    <2>3. total_latency' \in 0..(Word - 1)
      <3>1. total_latency + nsec_elapsed \in Int
        BY <2>2 DEF CountInv
      <3>2. (total_latency + nsec_elapsed) % Word \in Nat
            /\ (total_latency + nsec_elapsed) % Word < Word
        BY <3>1, DivModInt
      <3>. QED BY <2>1, <3>2
    <2>. QED BY <1>4, <2>1, <2>3 DEF CountInv, Counted
  <1>5. CASE /\ UNCHANGED program /\ program \in {"exec", "store"} /\ Average
    <2>1. /\ round' = round + 1 /\ verdict = "running" /\ UNCHANGED <<sample, total_latency, ran>>
          /\ pc' \in {"round", "average"} /\ verdict' \in {"running", "passed"}
          /\ verdict' = "running" => round' < Rounds
      BY <1>5 DEF Average
    <2>. QED BY <1>5, <2>1 DEF CountInv, Counted, Label
  <1>6. CASE /\ UNCHANGED <<program, results>> /\ program \notin {"exec", "store"}
             /\ verdict = "running" /\ UNCHANGED verdict /\ pc' \in Label
    BY <1>6 DEF CountInv, Counted, results
  <1>7. CASE /\ UNCHANGED <<program, results>> /\ program \in {"exec", "store"}
             /\ verdict = "running" /\ UNCHANGED verdict
             /\ {pc, pc'} \subseteq {"create", "clock", "submit", "sync", "stop"}
    BY <1>7 DEF CountInv, Counted, results, Label
  <1>8. CASE UNCHANGED <<pc, verdict, program, results>>
    BY <1>8 DEF CountInv, Counted, results
  <1>9. CASE Step
    <2>1. UNCHANGED program
      BY <1>9 DEF Step, Is
    <2>2. CASE program = "exec" /\ ExecLatency
      BY <2>1, <2>2, <1>2, <1>4, <1>5, <1>7 DEF ExecLatency, Device, Clock, Sync
    <2>3. CASE program = "store" /\ StoreLatency
      BY <2>1, <2>3, <1>2, <1>4, <1>5, <1>7 DEF StoreLatency, Device, Clock, Sync
    <2>4. CASE program = "blt" /\ BltRun
      BY <2>1, <2>4, <1>2, <1>3
    <2>5. CASE program = "fill" /\ Fill
      BY <2>1, <2>5, <1>2, <1>3, <1>6 DEF Fill, Device, Sync, Label
    <2>6. CASE program = "busy" /\ Busy
      BY <2>1, <2>6, <1>2, <1>6 DEF Busy, Device, Label
    <2>. QED BY <1>1, <1>9, <2>1, <2>2, <2>3, <2>4, <2>5, <2>6 DEF Step, Is
  <1>10. CASE Run \/ Pass \/ Set \/ Elsewhere \/ Exited \/ UNCHANGED vars
    BY <1>8, <1>10 DEF Run, Pass, Set, Others, Elsewhere, ComeOrGo, Exited, vars, results
  <1>. QED BY <1>9, <1>10 DEF Next
-----------------------------------------------------------------------------
(* All the programs.                                                       *)

ProgramStream ==
    /\ program = "exec"  => ExecStream
    /\ program = "store" => StoreStream
    /\ program = "blt"   => BltStream
    /\ program = "fill"  => FillStream
    /\ program = "busy"  => BusyStream

StreamInv == StreamOK /\ ProgramStream /\ verdict # "assert"

LEMMA StreamsInit == Init => StreamInv
  <1> SUFFICES ASSUME Init PROVE StreamInv
    OBVIOUS
  <1>1. /\ batch = Filled(<<>>) /\ DOMAIN place = {} /\ tail = 0 /\ head = 0 /\ acthd = -1
        /\ ipehr = <<>> /\ landed = {} /\ pc \in {"card", "first"} /\ verdict = "running"
    BY DEF Init, StreamInit, Unbound
  <1>2. BatchOK
    BY <1>1 DEF BatchOK, Filled, Dwords
  <1>3. RingOK /\ queued = 0
    <2>1. (RING_LEN * 0 + 0) % RING_LEN = 0
      BY RingAssumption, ModOf
    <2>. QED BY <1>1, <2>1, RingAssumption DEF RingOK, queued
  <1>4. StreamOK
    BY <1>1, <1>2, <1>3 DEF StreamOK, PlaceOK
  <1>. QED BY <1>1, <1>3, <1>4 DEF StreamInv, ProgramStream, ExecStream, StoreStream, BltStream,
                                   FillStream, BusyStream, FreshLabel, SearchLabel

\* Before the device is used nothing is claimed but that it is idle.
LEMMA FreshStreams ==
    ASSUME StreamOK', pc' \in FreshLabel
    PROVE  ProgramStream'
  <1>1. queued' = 0 /\ DOMAIN place' = {} /\ landed' = {} /\ acthd' = -1
    BY DEF StreamOK
  <1>. QED BY <1>1 DEF ProgramStream, ExecStream, StoreStream, BltStream, FillStream, BusyStream,
                       FreshLabel, SearchLabel

LEMMA QuietStreams ==
    ASSUME ProgramStream, UNCHANGED <<pc, program, sample, streamVars>>
    PROVE  ProgramStream'
  <1>1. ExecStream => ExecStream'
    BY DEF ExecStream, EngineAt, streamVars, queued
  <1>2. StoreStream => StoreStream'
    BY DEF StoreStream, EngineAt, streamVars, queued, Stored, Linking
  <1>3. FillStream => FillStream'
    BY DEF FillStream, EngineAt, streamVars, queued, Filling, Linking
  <1>4. BusyStream => BusyStream'
    BY DEF BusyStream, EngineAt, streamVars, queued, Linking
  <1>5. BltStream => BltStream'
    BY DEF BltStream, EngineAt, streamVars, queued, AllCopied, Copied, CopyEntries, PartAt, Addressed
  <1>. QED BY <1>1, <1>2, <1>3, <1>4, <1>5 DEF ProgramStream

LEMMA StreamsNext ==
    ASSUME StreamInv, CountInv, [Next]_vars
    PROVE  StreamInv'
  <1>1. CASE Step
    <2>1. UNCHANGED program
      BY <1>1 DEF Step, Is
    <2>2. CASE Open
      <3>1. UNCHANGED streamVars /\ pc \in SearchLabel /\ pc' \in FreshLabel /\ verdict' = verdict
        <4>1. UNCHANGED streamVars
          BY <2>2 DEF Open
        <4>2. /\ pc \in {"card", "first", "second"} /\ verdict' = verdict
              /\ pc' \in {"card", "first", "second", "opened"}
          BY <2>2 DEF Open, drm_get_card, drm_open_driver, search_and_open, TryNext, At, Goto, Stay
        <4>. QED BY <4>1, <4>2 DEF FreshLabel, SearchLabel
      <3>2. StreamOK'
        BY <3>1, QuietKeepsOK DEF StreamInv, FreshLabel
      <3>. QED BY <3>1, <3>2, FreshStreams DEF StreamInv
    <2>3. CASE program = "exec" /\ ExecLatency
      <3>1. verdict' # "assert"
        BY <2>3 DEF StreamInv, ExecLatency, FirstUse, StartRound, Device, Clock, Sync, Take, Average,
                    At, Goto, Exit
      <3>. QED BY <2>1, <2>3, <3>1, ExecStep DEF StreamInv, ProgramStream
    <2>4. CASE program = "store" /\ StoreLatency
      <3>1. verdict' # "assert"
        BY <2>4 DEF StreamInv, StoreLatency, FirstUse, StartRound, Device, Clock, Sync, Take, Average,
                    At, Goto, Exit
      <3>2. sample \in Nat
        BY <2>4, NumbersHold DEF CountInv, Counted, Numbers
      <3>. QED BY <2>1, <2>4, <3>1, <3>2, StoreStep DEF StreamInv, ProgramStream
    <2>5. CASE program = "blt" /\ BltRun
      <3>1. verdict' # "assert"
        BY <2>5 DEF StreamInv, BltRun, FirstUse, Device, Clock, Sync, Again, Report, At, Goto, Exit, Stay
      <3>. QED BY <2>1, <2>5, <3>1, BltStep DEF StreamInv, ProgramStream
    <2>6. CASE program = "fill" /\ Fill
      BY <2>1, <2>6, FillStep DEF StreamInv, ProgramStream
    <2>7. CASE program = "busy" /\ Busy
      <3>1. verdict' # "assert"
        BY <2>7 DEF StreamInv, Busy, FirstUse, Device, WatchFence, WatchClock, At, Goto, Exit
      <3>. QED BY <2>1, <2>7, <3>1, BusyStep DEF StreamInv, ProgramStream
    <2>. QED BY <1>1, <2>2, <2>3, <2>4, <2>5, <2>6, <2>7 DEF Step, Is
  <1>2. CASE Run
    <2>1. Engine /\ UNCHANGED <<pc, verdict, program, sample>>
      BY <1>2 DEF Run, results
    <2>2. program \in {"exec", "store", "blt", "fill", "busy"}
      BY MeasureAssumption DEF CountInv
    <2>. QED BY <2>1, <2>2, ExecEngine, StoreEngine, BltEngine, FillEngine, BusyEngine
             DEF StreamInv, ProgramStream
  <1>3. CASE Pass \/ Set \/ Elsewhere \/ Exited \/ UNCHANGED vars
    <2>1. UNCHANGED <<pc, verdict, program, sample, streamVars>>
      <3>1. CASE Elsewhere
        BY <3>1 DEF Elsewhere, ComeOrGo, Stay, results
      <3>2. CASE Pass \/ Set
        <4>1. Others /\ UNCHANGED results
          BY <3>2 DEF Pass, Set, Others
        <4>. QED BY <4>1 DEF Others, results
      <3>3. CASE UNCHANGED vars
        BY <3>3 DEF vars, results
      <3>. QED BY <1>3, <3>1, <3>2, <3>3 DEF Exited
    <2>. QED BY <2>1, QuietKeepsOK, QuietStreams DEF StreamInv
  <1>. QED BY <1>1, <1>2, <1>3 DEF Next
-----------------------------------------------------------------------------
(* What follows.                                                           *)

\* where the engine can be in a batch
LEMMA EnginePlaces ==
    ASSUME StreamInv, CountInv
    PROVE  acthd \in -1..(Dwords - 1)
  <1>1. program \in {"exec", "store", "blt", "fill", "busy"}
    BY MeasureAssumption DEF CountInv
  <1>2. acthd \in {-1, 0, 4, 5} \/ acthd \in Starts \cup {LastDword}
    BY <1>1 DEF StreamInv, ProgramStream, ExecStream, StoreStream, BltStream, FillStream,
                BusyStream, EngineAt
  <1>. QED BY <1>2 DEF Starts, LastDword, Dwords

LEMMA TypesFollow == StreamInv /\ CountInv /\ TimeInv /\ SearchInv => TypeOK
  <1> SUFFICES ASSUME StreamInv, CountInv, TimeInv, SearchInv PROVE TypeOK
    OBVIOUS
  <1>1. TimeTypeOK
    <2>1. real \in Nat
      <3>1. Limit \in Nat
        BY LongEnough DEF Limit
      <3>. QED BY <3>1 DEF TimeInv, ClockInv
    <2>. QED BY <2>1, ClockBounds DEF TimeInv, ClockInv, TimeTypeOK
  <1>2. StreamTypeOK
    <2>1. acthd \in -1..Dwords
      BY EnginePlaces DEF Dwords
    <2>. QED BY <2>1 DEF StreamInv, StreamOK, RingOK, BatchOK, PlaceOK, StreamTypeOK
  <1>3. OpenTypeOK
    BY DEF SearchInv
  <1>. QED BY <1>1, <1>2, <1>3 DEF TypeOK, CountInv, Counted

LEMMA DecodedFollows == StreamInv /\ CountInv => DecodedAsMeant
  <1> SUFFICES ASSUME StreamInv, CountInv PROVE DecodedAsMeant
    OBVIOUS
  <1>1. acthd < Dwords
    BY EnginePlaces DEF Dwords
  <1>2. ipehr # <<>> => WellFormed(ipehr[1])
    BY WellFormedHeaders DEF StreamInv, StreamOK
  <1>. QED BY <1>1, <1>2 DEF DecodedAsMeant

\* The rectangles are the object, whatever its size.
LEMMA CopyIsWhole ==
    ASSUME landed = AllCopied
    PROVE  CopiesObject
  <1>1. /\ Rows \in Nat /\ Rest \in Nat /\ Rest < ROW /\ OBJECT_SIZE = ROW * Rows + Rest
        /\ (Rows > 0 \/ Rest > 0) /\ ROW = 16384
    BY Sizes DEF RowNumber, ROW
  <1>2. 4 * (ROW \div 4) = ROW /\ 4 * (Rest \div 4) = Rest
    <2>1. 4 * (Rest \div 4) + (Rest % 4) = Rest
      <3>1. 4 \in Nat \ {0} /\ Rest \in Int
        BY <1>1
      <3>. QED BY <3>1, DivModInt
    <2>2. Rest % 4 = 0
      BY Sizes
    <2>3. Rest \div 4 \in Int
      BY <1>1, DivModInt
    <2>. QED BY <1>1, <2>1, <2>2, <2>3
  <1> DEFINE Of(r)  == {d \in landed : r \in d.top[1]..(d.bottom - 1)}
             Covers(s, r) == Top(s) <= r /\ r < Bottom(s)
  <1>3. ASSUME NEW c
        PROVE  c \in landed <=> \E s \in Starts : c = Copied(s)
    BY DEF AllCopied
  <1>4. \A s : /\ Copied(s).top[1] = Top(s) /\ Copied(s).bottom = Bottom(s)
               /\ Copied(s).width = Width(s)
    BY DEF Copied
  <1>5. \A s \in Starts : Top(s) \in Nat /\ Bottom(s) \in Nat
    BY Sizes DEF RowNumber
  <1>6. ASSUME NEW r \in 0..((OBJECT_SIZE - 1) \div ROW)
        PROVE  {4 * c.width : c \in Of(r)} = {RowBytes(r)}
    <2>1. r \in Nat /\ (r < Rows \/ (r = Rows /\ Rest > 0))
      <3>1. CASE Rest > 0
        <4>1. (ROW * Rows + (Rest - 1)) \div ROW = Rows
          BY <1>1, <3>1, ModOf
        <4>2. ROW * Rows + (Rest - 1) = OBJECT_SIZE - 1
          BY <1>1
        <4>. QED BY <1>1, <3>1, <4>1, <4>2
      <3>2. CASE Rest = 0
        <4>1. (ROW * (Rows - 1) + (ROW - 1)) \div ROW = Rows - 1
          BY <1>1, <3>2, ModOf
        <4>2. ROW * (Rows - 1) + (ROW - 1) = OBJECT_SIZE - 1
          BY <1>1, <3>2
        <4>. QED BY <1>1, <3>2, <4>1, <4>2
      <3>. QED BY <1>1, <3>1, <3>2
    <2>2. PICK s \in Starts : /\ Covers(s, r) /\ 4 * Width(s) = RowBytes(r)
                              /\ \A t \in Starts : Covers(t, r) => t = s
      <3>1. CASE r < Rows
        <4>1. 0 \in Starts /\ Whole(0) /\ \A t \in Starts : Whole(t) <=> t = 0
          BY <1>1, <2>1, <3>1 DEF Starts, Whole
        <4>2. Top(0) = 0 /\ Bottom(0) = Rows /\ Width(0) = ROW \div 4
          BY <4>1 DEF Top, Bottom, Width
        <4>3. \A t \in Starts : t # 0 => Top(t) = Rows
          BY <4>1 DEF Top
        <4>4. RowBytes(r) = ROW
          BY <1>1, <2>1, <3>1 DEF RowBytes
        <4>5. Covers(0, r) /\ \A t \in Starts : Covers(t, r) => t = 0
          BY <1>1, <2>1, <3>1, <4>1, <4>2, <4>3
        <4>. QED BY <1>2, <4>1, <4>2, <4>4, <4>5
      <3>2. CASE r = Rows /\ Rest > 0
        <4> DEFINE s == IF Both THEN 10 ELSE 0
        <4>1. s \in Starts /\ ~Whole(s) /\ \A t \in Starts : t # s => Whole(t)
          BY <1>1, <3>2 DEF Starts, Whole, Both
        <4> HIDE DEF s
        <4>2. Top(s) = Rows /\ Bottom(s) = Rows + 1 /\ Width(s) = Rest \div 4
          BY <4>1 DEF Top, Bottom, Width
        <4>3. \A t \in Starts : t # s => Bottom(t) = Rows
          BY <4>1 DEF Bottom
        <4>4. RowBytes(r) = Rest
          BY <1>1, <2>1, <3>2 DEF RowBytes
        <4>5. Covers(s, r) /\ \A t \in Starts : Covers(t, r) => t = s
          BY <1>1, <2>1, <3>2, <4>1, <4>2, <4>3
        <4>. QED BY <1>2, <4>1, <4>2, <4>4, <4>5
      <3>. QED BY <2>1, <3>1, <3>2
    <2>3. \A t \in Starts : r \in Top(t)..(Bottom(t) - 1) <=> Covers(t, r)
      BY <1>5, <2>1
    <2>4. Of(r) = {Copied(s)}
      <3>1. \A t \in Starts : Copied(t) \in Of(r) <=> t = s
        BY <1>3, <1>4, <2>2, <2>3
      <3>. QED BY <1>3, <3>1
    <2> HIDE DEF Of
    <2>. QED BY <1>4, <2>2, <2>4
  <1>7. ASSUME NEW c \in landed PROVE (c.bottom - 1) * ROW < OBJECT_SIZE
    <2>1. PICK s \in Starts : c = Copied(s)
      BY <1>3
    <2>2. c.bottom = Bottom(s)
      BY <1>4, <2>1
    <2>3. (Bottom(s) = Rows /\ Rows > 0) \/ (Bottom(s) = Rows + 1 /\ Rest > 0)
      <3>1. s = 0 \/ Both
        BY DEF Starts
      <3>. QED BY <1>1, <3>1 DEF Bottom, Whole, Both
    <2>. QED BY <1>1, <2>2, <2>3
  <1>. QED BY <1>6, <1>7 DEF CopiesObject

LEMMA EngineFollows == StreamInv /\ CountInv => EngineDoesAsMeant
  <1> SUFFICES ASSUME StreamInv, CountInv PROVE EngineDoesAsMeant
    OBVIOUS
  <1>1. verdict # "assert"
    BY DEF StreamInv
  <1>2. program \in {"exec", "busy"} => landed = {}
    BY DEF StreamInv, ProgramStream, ExecStream, BusyStream
  <1>3. program = "busy" /\ pc = "release" => queued = 1
    BY DEF StreamInv, ProgramStream, BusyStream
  <1>4. program = "store" /\ pc \in {"submit", "sync", "stop"} =>
            StoresOnly(place["target"] + 4 * sample, <<sample>>)
    BY DEF StreamInv, ProgramStream, StoreStream, StoresOnly, Stored
  <1>5. program = "fill" => StoresOnly(place["batch"] + BATCH_SIZE - 8, <<place["batch"], 0>>)
    BY DEF StreamInv, ProgramStream, FillStream, StoresOnly, Filling
  <1>6. program = "blt" => CopiesRows
    <2>1. program = "blt" => landed \subseteq AllCopied
      BY DEF StreamInv, ProgramStream, BltStream, StreamOK
    <2>2. \A s : /\ Copied(s).op = "copy" /\ Copied(s).rop = 204
                 /\ Copied(s).pitch = <<ROW, ROW>> /\ Copied(s).top[1] = Copied(s).top[2]
                 /\ Copied(s).to = <<place["dst"], 0>> /\ Copied(s).from = <<place["src"], 0>>
      BY DEF Copied
    <2>. QED BY <2>1, <2>2 DEF AllCopied, CopiesRows
  <1>7. ASSUME pc \in {"stop", "check"}
        PROVE  /\ queued = 0
               /\ program \in {"store", "fill"} => landed # {}
               /\ program = "blt" => CopiesObject
    <2>1. queued = 0
      <3>1. program \in {"exec", "store", "blt", "fill", "busy"}
        BY MeasureAssumption DEF CountInv
      <3>. QED BY <1>7, <3>1 DEF StreamInv, ProgramStream, ExecStream, StoreStream, BltStream,
                                 FillStream, BusyStream, FreshLabel, SearchLabel
    <2>2. program \in {"store", "fill"} => landed # {}
      BY <1>7 DEF StreamInv, ProgramStream, StoreStream, FillStream, FreshLabel, SearchLabel
    <2>3. program = "blt" => CopiesObject
      BY <1>7, CopyIsWhole DEF StreamInv, ProgramStream, BltStream, FreshLabel, SearchLabel
    <2>. QED BY <2>1, <2>2, <2>3
  <1>. QED BY <1>1, <1>2, <1>3, <1>4, <1>5, <1>6, <1>7 DEF EngineDoesAsMeant

\* All that is kept together.
AllInv == SearchInv /\ TimeInv /\ CountInv /\ StreamInv

LEMMA AllInit == Init => AllInv
  BY SearchInit, TimesInit, CountInit, StreamsInit DEF AllInv

LEMMA AllNext == AllInv /\ [Next]_vars => AllInv'
  BY SearchNext, TimeNext, CountNext, StreamsNext DEF AllInv

\* The variables keep their types, and rounds, samples and submissions end at their
\* bounds, for all bounds.
THEOREM TypeCorrect == Spec => []TypeOK
  BY AllInit, AllNext, TypesFollow, PTL DEF Spec, AllInv

\* What the engine takes for a command is one of intel_reg.h, of the length that its
\* operands need, in every batch of every program (intel_reg.h:2527-2589), wherever
\* the objects are bound and however long the ring is.
THEOREM DecodedAlways == Spec => []DecodedAsMeant
  BY AllInit, AllNext, DecodedFollows, PTL DEF Spec, AllInv

\* The engine does what the source means with every batch, and has done it when the
\* time is taken or memory is read; the rectangles of gem_exec_blt are the object, of
\* any size up to the number of rows that a rectangle can have
\* (gem_exec_blt.c:40-124 and 205-209, gem_exec_gttfill.c:129-131).
THEOREM EngineAlways == Spec => []EngineDoesAsMeant
  BY AllInit, AllNext, EngineFollows, PTL DEF Spec, AllInv
-----------------------------------------------------------------------------
(* The rate that gem_exec_blt prints.                                      *)

LEMMA Scales ==
    /\ scale[0] = 1
    /\ \A o \in 0..5 : scale[o + 1] = Kilo * scale[o]
    /\ \A o \in 0..6 : scale[o] \in Nat \ {0}
  <1>0. Kilo \in Nat \ {0}
    BY WordAssumption
  <1> DEFINE k2 == Kilo * Kilo
             k3 == Kilo * k2
             k4 == Kilo * k3
             k5 == Kilo * k4
             k6 == Kilo * k5
             g  == [o \in 0..6 |-> IF o = 0 THEN 1 ELSE IF o = 1 THEN Kilo ELSE IF o = 2 THEN k2
                                   ELSE IF o = 3 THEN k3 ELSE IF o = 4 THEN k4
                                   ELSE IF o = 5 THEN k5 ELSE k6]
  <1>1. {Kilo, k2, k3, k4, k5, k6} \subseteq Nat \ {0}
    <2>1. k2 \in Nat \ {0} BY <1>0
    <2> HIDE DEF k2
    <2>2. k3 \in Nat \ {0} BY <1>0, <2>1
    <2> HIDE DEF k3
    <2>3. k4 \in Nat \ {0} BY <1>0, <2>2
    <2> HIDE DEF k4
    <2>4. k5 \in Nat \ {0} BY <1>0, <2>3
    <2> HIDE DEF k5
    <2>5. k6 \in Nat \ {0} BY <1>0, <2>4
    <2>. QED BY <1>0, <2>1, <2>2, <2>3, <2>4, <2>5
  <1>2. \A o \in 0..6 : g[o] = IF o = 0 THEN 1 ELSE Kilo * g[o - 1]
    BY <1>0
  <1>3. g = [o \in 0..6 |-> IF o = 0 THEN 1 ELSE Kilo * g[o - 1]]
    BY <1>2
  <1> HIDE DEF g
  <1>4. scale = [o \in 0..6 |-> IF o = 0 THEN 1 ELSE Kilo * scale[o - 1]]
    BY <1>3 DEF scale
  <1>5. /\ scale[0] = 1 /\ scale[1] = Kilo * scale[0] /\ scale[2] = Kilo * scale[1]
        /\ scale[3] = Kilo * scale[2] /\ scale[4] = Kilo * scale[3]
        /\ scale[5] = Kilo * scale[4] /\ scale[6] = Kilo * scale[5]
    BY <1>4
  <1>6. ASSUME NEW a \in Nat \ {0} PROVE Kilo * a \in Nat \ {0}
    BY <1>0
  <1>7. \A o \in 0..6 : scale[o] \in Nat \ {0}
    BY <1>5, <1>6
  <1>. QED BY <1>5, <1>7

\* There is an order, and it is the one that the loop ends with.
LEMMA Orders ==
    ASSUME NEW v \in Nat
    PROVE  /\ order(v) \in 0..5
           /\ order(v) = 5 \/ v <= scale[order(v) + 1]
           /\ \A k \in 0..(order(v) - 1) : v > scale[k + 1]
  <1> DEFINE Fits(o) == /\ o = 5 \/ v <= scale[o + 1]
                        /\ \A k \in 0..(o - 1) : v > scale[k + 1]
  <1>1. \A o \in 1..6 : scale[o] \in Nat
    BY Scales
  <1>2. \E o \in 0..5 : Fits(o)
    <2>1. CASE v <= scale[1]
      <3>1. Fits(0) BY <2>1
      <3>. QED BY <3>1
    <2>2. CASE v > scale[1] /\ v <= scale[2]
      <3>1. Fits(1) BY <2>2
      <3>. QED BY <3>1
    <2>3. CASE v > scale[1] /\ v > scale[2] /\ v <= scale[3]
      <3>1. Fits(2) BY <2>3
      <3>. QED BY <3>1
    <2>4. CASE v > scale[1] /\ v > scale[2] /\ v > scale[3] /\ v <= scale[4]
      <3>1. Fits(3) BY <2>4
      <3>. QED BY <3>1
    <2>5. CASE v > scale[1] /\ v > scale[2] /\ v > scale[3] /\ v > scale[4] /\ v <= scale[5]
      <3>1. Fits(4) BY <2>5
      <3>. QED BY <3>1
    <2>6. CASE v > scale[1] /\ v > scale[2] /\ v > scale[3] /\ v > scale[4] /\ v > scale[5]
      <3>1. Fits(5) BY <2>6
      <3>. QED BY <3>1
    <2>. QED BY <1>1, <2>1, <2>2, <2>3, <2>4, <2>5, <2>6
  <1>3. order(v) \in 0..5 /\ Fits(order(v))
    <2> DEFINE o == CHOOSE o \in 0..5 : Fits(o)
    <2>1. o \in 0..5 /\ Fits(o)
      <3> HIDE DEF Fits
      <3>. QED BY <1>2
    <2>2. o = order(v)
      BY DEF order
    <2>. QED BY <2>1, <2>2
  <1>. QED BY <1>3

\* The figure and the unit are those of the rate.
LEMMA RateHolds ==
    ASSUME NEW duration \in Int, duration > 0
    PROVE  RateIsTrue(duration, Rate(duration))
  <1> DEFINE v == (OBJECT_SIZE * USEC_PER_SEC) \div duration
             u == order(v)
             s == scale[u]
             f == v \div s
  <1>1. v \in Nat
    <2>1. NSEC_PER_SEC \in Nat \ {0} /\ Usec \in Nat \ {0} /\ OBJECT_SIZE \in Nat \ {0}
      BY GigaAssumption, PlaceAssumption
    <2>2. USEC_PER_SEC \in Nat
      <3>1. /\ NSEC_PER_SEC \div Usec \in Int /\ NSEC_PER_SEC % Usec < Usec
            /\ NSEC_PER_SEC = Usec * (NSEC_PER_SEC \div Usec) + (NSEC_PER_SEC % Usec)
            /\ NSEC_PER_SEC % Usec = 0
        BY <2>1, DivModInt, GigaAssumption
      <3> DEFINE q == NSEC_PER_SEC \div Usec
      <3>2. q \in Int /\ Usec * q > 0
        BY <2>1, <3>1
      <3> HIDE DEF q
      <3>3. q >= 0
        BY <2>1, <3>2
      <3>. QED BY <3>2, <3>3 DEF q, USEC_PER_SEC
    <2> DEFINE n == OBJECT_SIZE * USEC_PER_SEC
    <2>3. n \in Nat
      BY <2>1, <2>2
    <2> HIDE DEF n
    <2>4. /\ n \div duration \in Int /\ n % duration < duration /\ n % duration \in Nat
          /\ n = duration * (n \div duration) + (n % duration)
      BY <2>3, DivModInt
    <2> DEFINE q == n \div duration
               r == n % duration
    <2>5. q \in Int /\ r \in Nat /\ r < duration /\ n = duration * q + r
      BY <2>4
    <2> HIDE DEF q, r
    <2>6. q >= 0
      <3>1. duration * (q + 1) > 0
        <4>1. duration * (q + 1) = duration * q + duration /\ duration * q \in Int
          BY <2>5
        <4>. QED BY <2>3, <2>5, <4>1
      <3>2. q + 1 > 0
        BY <2>5, <3>1
      <3>. QED BY <2>5, <3>2
    <2>. QED BY <2>5, <2>6 DEF q, n
  <1>2. /\ u \in 0..5 /\ (u = 5 \/ v <= scale[u + 1]) /\ \A k \in 0..(u - 1) : v > scale[k + 1]
    <2> HIDE DEF v
    <2>. QED BY <1>1, Orders
  <1>3. Rate(duration) = [figure |-> f, unit |-> u]
    BY DEF Rate, bytes_per_sec
  <1> HIDE DEF v, u
  <1>4. s \in Nat \ {0} /\ scale[u + 1] = Kilo * s
    BY <1>2, Scales
  <1> HIDE DEF s
  <1>5. PICK r \in Nat : f \in Int /\ r < s /\ v = s * f + r
    <2>1. v \in Int /\ s \in Nat \ {0}
      BY <1>1, <1>4
    <2>2. /\ v \div s \in Int /\ v % s \in Nat /\ v % s < s
          /\ v = s * (v \div s) + (v % s)
      BY <2>1, DivModInt
    <2>. QED BY <2>2
  <1> HIDE DEF f
  <1>6. v \in (f * s)..((f + 1) * s - 1)
    <2>1. f * s = s * f /\ (f + 1) * s = s * f + s /\ s * f \in Int
      BY <1>4, <1>5
    <2>. QED BY <1>1, <1>4, <1>5, <2>1
  <1>7. f = 0 => u = 0
    <2> SUFFICES ASSUME f = 0, u # 0 PROVE FALSE
      OBVIOUS
    <2>1. u - 1 \in 0..(u - 1) /\ (u - 1) + 1 = u
      BY <1>2
    <2>2. v > s
      BY <1>2, <2>1 DEF s
    <2>3. v = r
      BY <1>4, <1>5
    <2>. QED BY <1>4, <1>5, <2>2, <2>3
  <1>8. f > Kilo => u = 5
    <2> SUFFICES ASSUME f > Kilo, u # 5 PROVE FALSE
      OBVIOUS
    <2>1. v <= Kilo * s /\ Kilo \in Nat
      BY <1>2, <1>4, WordAssumption
    <2>2. s * f >= s * (Kilo + 1)
      BY <1>4, <1>5, <2>1
    <2>3. s * (Kilo + 1) = Kilo * s + s /\ Kilo * s \in Int /\ s * f \in Int
      BY <1>4, <1>5, <2>1
    <2>. QED BY <1>1, <1>4, <1>5, <2>1, <2>2, <2>3
  <1>. QED BY <1>3, <1>6, <1>7, <1>8 DEF RateIsTrue, v, s

\* elapsed() is the time between the readings, to the microsecond.
LEMMA ElapsedIsNear ==
    ASSUME NEW t0 \in Int, NEW t1 \in Int
    PROVE  /\ elapsed(t0, t1) \in Int
           /\ Usec * elapsed(t0, t1) \in (t1 - t0 - Usec + 1)..(t1 - t0 + Usec - 1)
  <1> DEFINE n  == NSEC_PER_SEC
             u  == Usec
             m  == USEC_PER_SEC
  <1>1. n \in Nat \ {0} /\ u \in Nat \ {0} /\ m \in Int /\ n = u * m
    <2>1. n \in Nat \ {0} /\ u \in Nat \ {0} /\ n % u = 0
      BY GigaAssumption
    <2>2. n \div u \in Int /\ n = u * (n \div u) + (n % u)
      BY <2>1, DivModInt
    <2>3. n \div u = m
      BY DEF USEC_PER_SEC
    <2> HIDE DEF n, u, m
    <2>4. n = u * m + 0 /\ m \in Int
      BY <2>1, <2>2, <2>3
    <2>. QED BY <2>1, <2>4
  <1>2. ASSUME NEW t \in Int
        PROVE  /\ tv_sec(t) \in Int /\ tv_usec(t) \in Int
               /\ \E e \in Nat : e < u /\ t = n * tv_sec(t) + u * tv_usec(t) + e
    <2> DEFINE q == tv_sec(t)
               r == tv_nsec(t)
               w == tv_usec(t)
               e == r % u
    <2>1. q \in Int /\ r \in Nat /\ t = n * q + r
      BY <1>1, DivModInt DEF tv_sec, tv_nsec
    <2>2. w = r \div u
      BY DEF tv_usec
    <2> HIDE DEF q, r, w, n, u
    <2>3. w \in Int /\ e \in Nat /\ e < u /\ r = u * w + e
      BY <1>1, <2>1, <2>2, DivModInt
    <2> HIDE DEF e
    <2>4. t = n * q + u * w + e
      <3>1. n * q \in Int /\ u * w \in Int
        BY <1>1, <2>1, <2>3
      <3>. QED BY <2>1, <2>3, <3>1
    <2>. QED BY <2>1, <2>3, <2>4 DEF q, w
  <1> DEFINE q0 == tv_sec(t0)
             q1 == tv_sec(t1)
             w0 == tv_usec(t0)
             w1 == tv_usec(t1)
  <1>3. q0 \in Int /\ q1 \in Int /\ w0 \in Int /\ w1 \in Int
    BY <1>2
  <1>4. PICK e0 \in Nat : e0 < u /\ t0 = n * q0 + u * w0 + e0
    BY <1>2
  <1>5. PICK e1 \in Nat : e1 < u /\ t1 = n * q1 + u * w1 + e1
    BY <1>2
  <1>6. elapsed(t0, t1) = m * (q1 - q0) + (w1 - w0)
    BY DEF elapsed
  <1> HIDE DEF n, u, m, q0, q1, w0, w1
  <1>7. u * (m * (q1 - q0) + (w1 - w0)) = (n * q1 - n * q0) + (u * w1 - u * w0)
    <2>1. u * (m * (q1 - q0)) = n * (q1 - q0)
      BY <1>1, <1>3
    <2>2. n * (q1 - q0) = n * q1 - n * q0
      BY <1>1, <1>3
    <2>3. u * (m * (q1 - q0) + (w1 - w0)) = u * (m * (q1 - q0)) + (u * w1 - u * w0)
      <3> DEFINE a == m * (q1 - q0)
      <3>1. a \in Int
        BY <1>1, <1>3
      <3> HIDE DEF a
      <3>2. u * (a + (w1 - w0)) = u * a + (u * w1 - u * w0)
        BY <1>1, <1>3, <3>1
      <3>. QED BY <3>2 DEF a
    <2>. QED BY <2>1, <2>2, <2>3
  <1>8. {n * q1, n * q0, u * w1, u * w0, m * (q1 - q0)} \subseteq Int
    BY <1>1, <1>3
  <1>9. (n * q1 - n * q0) + (u * w1 - u * w0) = (t1 - t0) - e1 + e0
    BY <1>4, <1>5, <1>8
  <1>10. elapsed(t0, t1) \in Int
    BY <1>3, <1>6, <1>8
  <1>11. u * elapsed(t0, t1) = (t1 - t0) - e1 + e0
    BY <1>6, <1>7, <1>9
  <1>. QED BY <1>1, <1>4, <1>5, <1>10, <1>11 DEF u
-----------------------------------------------------------------------------
(* The time that gem_exec_blt prints.                                      *)

BltTime ==
    program = "blt" =>
        /\ pc \in FreshLabel \cup {"build", "warm", "warmsync", "clock"} => start = 0
        /\ pc \in {"submit", "sync", "stop"} => start # 0
        /\ start = 0 => real = 0 /\ shift = 0
        /\ start # 0 => clock = start + Shown
        /\ shown # <<>> =>
              /\ verdict # "running" /\ start # 0
              /\ shown = <<elapsed(start, clock), Rate(elapsed(start, clock))>>

LEMMA BltTimeInit == Init => BltTime
  BY DEF Init, TimeInit, BltTime, FreshLabel, SearchLabel

LEMMA BltTimeNext ==
    ASSUME BltTime, TimeInv, [Next]_vars
    PROVE  BltTime'
  <1> USE DEF FreshLabel, SearchLabel
  <1>1. CASE Step /\ program = "blt"
    <2>1. UNCHANGED program /\ (Open \/ BltRun)
      BY <1>1 DEF Step, Is
    <2>2. CASE Open
      <3>1. /\ UNCHANGED <<timeVars, results>> /\ verdict' = verdict
        <4>1. UNCHANGED <<timeVars, results>>
          BY <2>2 DEF Open
        <4>2. verdict' = verdict
          BY <2>2 DEF Open, drm_get_card, drm_open_driver, search_and_open, TryNext, At, Goto, Stay
        <4>. QED BY <4>1, <4>2
      <3>2. /\ pc \in {"card", "first", "second"} /\ pc' \in {"card", "first", "second", "opened"}
        BY <2>2 DEF Open, drm_get_card, drm_open_driver, search_and_open, TryNext, At, Goto, Stay
      <3>. QED BY <1>1, <2>1, <3>1, <3>2 DEF BltTime, timeVars, results, Shown
    <2>3. CASE BltRun
      <3>1. verdict = "running" /\ shown = <<>>
        BY <1>1, <2>3 DEF BltTime, BltRun, FirstUse, Device, Clock, Sync, Again, Report, At
      <3>2. CASE Clock("clock", ReadClock, "submit")
        <4>1. /\ start = 0 /\ real = 0 /\ shift = 0 /\ clock \in Int /\ clock # 0
          BY <1>1, <3>2, ClockBounds DEF BltTime, Clock, At, TimeInv
        <4>2. /\ start' = clock /\ UNCHANGED <<clock, real, shift, shown>> /\ pc' = "submit"
          BY <3>2 DEF Clock, ReadClock, Goto, results
        <4>. QED BY <2>1, <3>1, <4>1, <4>2 DEF BltTime, Shown
      <3>3. CASE Report
        <4>1. /\ start # 0 /\ UNCHANGED timeVars /\ pc' = pc /\ pc = "stop"
              /\ verdict' = "passed"
              /\ shown' = <<elapsed(start, clock), Rate(elapsed(start, clock))>>
          BY <1>1, <3>3 DEF BltTime, Report, At, Exit
        <4>2. elapsed(start, clock)' = elapsed(start, clock)
          BY <4>1 DEF timeVars, elapsed, tv_sec, tv_usec, tv_nsec
        <4>. QED BY <1>1, <2>1, <4>1, <4>2 DEF BltTime, timeVars, Shown, Rate
      <3>4. CASE BltRun /\ ~Clock("clock", ReadClock, "submit") /\ ~Report
        <4>1. UNCHANGED <<timeVars, shown>>
          BY <3>4 DEF BltRun, FirstUse, Device, Sync, Again, results
        <4>2. /\ pc \in {"opened", "build", "warm", "warmsync"} =>
                    pc' \in {"opened", "build", "warm", "warmsync", "clock"}
              /\ pc \in {"submit", "sync"} => pc' \in {"submit", "sync", "stop"}
              /\ pc \in {"opened", "build", "warm", "warmsync", "submit", "sync"}
          BY <3>4 DEF BltRun, FirstUse, Device, Sync, Again, At, Goto, Exit, Stay
        <4>. QED BY <1>1, <2>1, <3>1, <4>1, <4>2 DEF BltTime, timeVars, Shown
      <3>. QED BY <2>3, <3>2, <3>3, <3>4
    <2>. QED BY <2>1, <2>2, <2>3
  <1>2. CASE Step /\ program # "blt"
    BY <1>2 DEF Step, Is, BltTime
  <1>3. CASE Pass \/ Set
    <2>1. /\ start # 0 /\ start' = start /\ UNCHANGED <<pc, verdict, program, results>>
          /\ {clock, clock', Shown, Shown', start} \subseteq Int
          /\ clock' - clock = Shown' - Shown /\ verdict = "running"
      BY <1>3, ClockMoves DEF Pass, Set, Measuring
    <2>2. clock = start + Shown => clock' = start + Shown'
      BY <2>1
    <2>. QED BY <2>1, <2>2 DEF BltTime, results
  <1>4. CASE Run \/ Elsewhere \/ Exited \/ UNCHANGED vars
    <2>1. UNCHANGED <<pc, verdict, timeVars, program, shown>>
      BY <1>4 DEF Run, Elsewhere, ComeOrGo, Stay, Exited, vars, results
    <2>2. elapsed(start, clock)' = elapsed(start, clock)
      BY <2>1 DEF timeVars, elapsed, tv_sec, tv_usec, tv_nsec
    <2>. QED BY <2>1, <2>2 DEF BltTime, timeVars, Shown, Rate
  <1>. QED BY <1>1, <1>2, <1>3, <1>4 DEF Next

LEMMA BltMeanFollows == BltTime /\ TimeInv => (program = "blt" => MeanIsTrue)
  <1> SUFFICES ASSUME BltTime, TimeInv, program = "blt", shown # <<>>
               PROVE  /\ Usec * shown[1] \in (Shown - Usec + 1)..(Shown + Usec - 1)
                      /\ shown[1] > 0 => RateIsTrue(shown[1], shown[2])
    BY DEF MeanIsTrue
  <1> DEFINE d == elapsed(start, clock)
  <1>1. shown[1] = d /\ shown[2] = Rate(d) /\ clock = start + Shown
    BY DEF BltTime
  <1>2. start \in Int /\ clock \in Int /\ Shown \in Int /\ Usec \in Nat
    <2>1. Limit \in Nat
      BY LongEnough DEF Limit
    <2>. QED BY <2>1, GigaAssumption DEF TimeInv, ClockInv, Shown
  <1>3. d \in Int /\ Usec * d \in (clock - start - Usec + 1)..(clock - start + Usec - 1)
    BY <1>2, ElapsedIsNear
  <1> HIDE DEF d
  <1>4. clock - start = Shown
    BY <1>1, <1>2
  <1>. QED BY <1>1, <1>2, <1>3, <1>4, RateHolds

\* The mean printed is that of the time that passed, and off by no more than the
\* clock was set, even if single latencies wrapped around (gem_exec_latency.c:71-72);
\* the time and the rate of gem_exec_blt are those of its loop, for a second, words
\* and units of any size.
THEOREM MeanAlways == Spec => []MeanIsTrue
  <1>1. TimeInv /\ BltTime => MeanIsTrue
    BY MeanFollows, BltMeanFollows
  <1>2. BltTime /\ TimeInv /\ [Next]_vars => BltTime'
    BY BltTimeNext
  <1>. QED BY <1>1, <1>2, TimesInit, TimeNext, BltTimeInit, PTL DEF Spec
=============================================================================
