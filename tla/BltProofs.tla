----------------------------- MODULE BltProofs ------------------------------
(***************************************************************************)
(* Proofs about gem_exec_blt's run(): gem_linear_blt() covers an object of *)
(* any size, and every copy the engine makes is from src to dst.           *)
(***************************************************************************)
EXTENDS Blt, TLAPS

-----------------------------------------------------------------------------
(* Arithmetic.                                                             *)

LEMMA DivMod ==
    ASSUME NEW d \in Nat \ {0}, NEW n \in Nat
    PROVE  /\ n \div d \in Nat /\ n % d \in Nat /\ n % d < d
           /\ n = (n \div d) * d + (n % d)
  BY SMTT(30)

LEMMA DivModOf ==
    ASSUME NEW d \in Nat \ {0}, NEW q \in Nat, NEW r \in Nat, r < d
    PROVE  (q * d + r) \div d = q /\ (q * d + r) % d = r
  BY SMTT(30)

\* A smaller row lies before a greater one.
LEMMA Rows ==
    ASSUME NEW d \in Nat \ {0}, NEW a \in Nat, NEW b \in Nat, a < b
    PROVE  a * d + d <= b * d
  <1>1. (a + 1) * d <= b * d
    BY SMTT(30)
  <1>. QED BY <1>1

\* A size in rows and bytes: both coordinates of the last row fit their field,
\* and neither a row nor what is left cuts a pixel.
LEMMA Shape ==
    ASSUME NEW s \in Sizes
    PROVE  /\ s \in Nat /\ height(s) \in Nat /\ rest(s) \in Nat /\ rest(s) < ROW
           /\ s = height(s) * ROW + rest(s)
           /\ height(s) % Field = height(s)
           /\ rest(s) > 0 => (1 + height(s)) % Field = 1 + height(s)
           /\ (ROW \div Pixel) * Pixel = ROW
           /\ (rest(s) \div Pixel) * Pixel = rest(s)
  <1>1. /\ s \in Nat /\ s > 0 /\ s % Pixel = 0 /\ s <= (Field - 1) * ROW
        /\ ROW \in Nat \ {0} /\ Pixel \in Nat \ {0} /\ Field \in Nat \ {0} /\ ROW % Pixel = 0
    BY SizeAssumption
  <1>2. /\ height(s) \in Nat /\ rest(s) \in Nat /\ rest(s) < ROW
        /\ s = height(s) * ROW + rest(s)
    BY <1>1, DivMod DEF height, rest
  <1>. DEFINE h == height(s)
              e == rest(s)
  <1>. HIDE DEF h, e
  <1>3. h \in Nat /\ e \in Nat /\ s = h * ROW + e
    BY <1>2 DEF h, e
  <1>4. h <= Field - 1 /\ (e > 0 => h < Field - 1)
    <2>1. h > Field - 1 => (Field - 1) * ROW + ROW <= h * ROW
      BY <1>1, <1>3, Rows
    <2>2. h * ROW \in Nat /\ (Field - 1) * ROW \in Nat
      BY <1>1, <1>3
    <2>3. h <= Field - 1
      BY <1>1, <1>3, <2>1, <2>2
    <2>4. h = Field - 1 => e = 0
      BY <1>1, <1>3, <2>2
    <2>. QED BY <1>1, <1>3, <2>3, <2>4
  <1>5. \A n \in Nat : n < Field => n % Field = n
    BY <1>1
  <1>6. h % Field = h /\ (e > 0 => (1 + h) % Field = 1 + h)
    BY <1>1, <1>3, <1>4, <1>5
  <1>7. (ROW \div Pixel) * Pixel = ROW /\ ROW \div Pixel \in Nat
    BY <1>1, DivMod
  <1>8. (s \div Pixel) * Pixel = s /\ s \div Pixel \in Nat
    BY <1>1, DivMod
  <1>9. (e \div Pixel) * Pixel = e
    <2>. DEFINE c == ROW \div Pixel
                a == s \div Pixel
    <2>. HIDE DEF c, a
    <2>1. c \in Nat /\ a \in Nat /\ ROW = c * Pixel /\ s = a * Pixel
      BY <1>7, <1>8 DEF c, a
    <2>2. e = a * Pixel - (h * c) * Pixel
      BY <1>1, <1>3, <2>1
    <2>3. e = (a - h * c) * Pixel
      BY <1>1, <1>3, <2>1, <2>2
    <2>4. a - h * c \in Nat
      BY <1>1, <1>3, <2>1, <2>3
    <2>5. \A q \in Nat : (q * Pixel + 0) \div Pixel = q
      BY <1>1, DivModOf
    <2>6. e \div Pixel = a - h * c
      BY <1>1, <2>1, <2>3, <2>4, <2>5
    <2>. QED BY <2>3, <2>6
  <1>. QED BY <1>1, <1>2, <1>6, <1>7, <1>9 DEF h, e

\* The rectangles cover the object and nothing else, whatever its size.
THEOREM Coverage ==
    ASSUME NEW s \in Sizes
    PROVE  Covered(s) = 0..(s - 1)
  <1>. DEFINE h == height(s)
              e == rest(s)
              rows == {y * ROW + b : y \in 0..(h - 1), b \in 0..(ROW - 1)}
              last == {y * ROW + b : y \in h..h, b \in 0..(e - 1)}
  <1>1. /\ s \in Nat /\ h \in Nat /\ e \in Nat /\ e < ROW /\ ROW \in Nat \ {0}
        /\ s = h * ROW + e
    BY Shape, SizeAssumption
  <1>2. Covered(s) = (IF h > 0 THEN rows ELSE {}) \cup (IF e > 0 THEN last ELSE {})
    <2>1. WholeRows(s) = IF h > 0 THEN {[y1 |-> 0, y2 |-> h, x2 |-> ROW \div Pixel]} ELSE {}
      BY Shape DEF WholeRows
    <2>2. LastRow(s) = IF e > 0 THEN {[y1 |-> h, y2 |-> 1 + h, x2 |-> e \div Pixel]} ELSE {}
      BY Shape DEF LastRow
    <2>. DEFINE Bytes(r) == {y * ROW + b : y \in r.y1..(r.y2 - 1), b \in 0..(r.x2 * Pixel - 1)}
    <2>3. Bytes([y1 |-> 0, y2 |-> h, x2 |-> ROW \div Pixel]) = rows
      BY Shape
    <2>4. Bytes([y1 |-> h, y2 |-> 1 + h, x2 |-> e \div Pixel]) = last
      <3>1. (1 + h) - 1 = h
        BY <1>1
      <3>. QED BY <3>1, Shape
    <2>5. Covered(s) = UNION {Bytes(r) : r \in Rectangles(s)}
      BY DEF Covered
    <2>. HIDE DEF Bytes, rows, last, h, e
    <2>6. Covered(s) = (UNION {Bytes(r) : r \in WholeRows(s)}) \cup (UNION {Bytes(r) : r \in LastRow(s)})
      BY <2>5 DEF Rectangles
    <2>7. UNION {Bytes(r) : r \in WholeRows(s)} = IF h > 0 THEN rows ELSE {}
      BY <2>1, <2>3
    <2>8. UNION {Bytes(r) : r \in LastRow(s)} = IF e > 0 THEN last ELSE {}
      BY <2>2, <2>4
    <2>. QED BY <2>6, <2>7, <2>8
  <1>3. ASSUME NEW n \in Covered(s) PROVE n \in 0..(s - 1)
    <2>1. CASE h > 0 /\ n \in rows
      <3>1. PICK y \in 0..(h - 1), b \in 0..(ROW - 1) : n = y * ROW + b
        BY <2>1
      <3>2. y * ROW + ROW <= h * ROW /\ y * ROW \in Nat
        BY <1>1, <3>1, Rows
      <3>. HIDE DEF h, e
      <3>. QED BY <1>1, <3>1, <3>2
    <2>2. CASE e > 0 /\ n \in last
      <3>1. PICK b \in 0..(e - 1) : n = h * ROW + b
        BY <1>1, <2>2
      <3>2. h * ROW \in Nat
        BY <1>1
      <3>. HIDE DEF h, e
      <3>. QED BY <1>1, <3>1, <3>2
    <2>. QED BY <1>2, <1>3, <2>1, <2>2
  <1>4. ASSUME NEW n \in 0..(s - 1) PROVE n \in Covered(s)
    <2>. DEFINE y == n \div ROW
                b == n % ROW
    <2>1. y \in Nat /\ b \in 0..(ROW - 1) /\ n = y * ROW + b
      <3>. n \in Nat /\ ROW \in Nat \ {0}
        BY <1>1, <1>4
      <3>1. y \in Nat /\ b \in Nat /\ b < ROW /\ n = y * ROW + b
        BY DivMod
      <3>. HIDE DEF y, b
      <3>. QED BY <3>1
    <2>. HIDE DEF y, b, h, e
    <2>2. y > h => h * ROW + ROW <= y * ROW
      BY <1>1, <2>1, Rows
    <2>3. h * ROW \in Nat /\ y * ROW \in Nat
      BY <1>1, <2>1
    <2>4. y <= h
      BY <1>1, <2>1, <2>2, <2>3
    <2>5. CASE y < h
      <3>1. h > 0 /\ n \in rows
        BY <1>1, <2>1, <2>5
      <3>. QED BY <1>2, <3>1
    <2>6. CASE y = h
      <3>1. b < e
        BY <1>1, <2>1, <2>3, <2>6
      <3>2. e > 0 /\ n \in last
        BY <1>1, <2>1, <2>6, <3>1
      <3>. QED BY <1>2, <3>2
    <2>. QED BY <1>1, <2>1, <2>4, <2>5, <2>6
  <1>. QED BY <1>3, <1>4

-----------------------------------------------------------------------------
(* The inductive invariant.  A submission may happen at the labels of      *)
(* Ready, where the entries name src and dst by index or by handle, each   *)
(* address in the batch is the one its entry presumes, and, if the driver  *)
(* may skip the entries, also the one exec[] reports.                      *)

Side(k) == IF ForDst(k) THEN Dst ELSE Src
ByIndex == [k \in Entries |-> IF ForDst(k) THEN 1 ELSE 0]
ByHandle == [k \in Entries |-> Side(k)]
Zeroes == [k \in Entries |-> 0]
Both == {"lut", "no_reloc"}
Ready == {"submit", "resubmit", "sync", "loop", "last"}

SizeInv ==
    /\ pc \notin {"create", "build"} => len = Length(object_size)
    /\ pc \notin {"create", "build", "write"} => batch_len = Length(object_size)

NameInv ==
    /\ pc \in {"write", "submit"} => target = ByIndex
    /\ pc \in {"rewrite", "resubmit"} => target = ByHandle
    /\ pc = "submit" => flags = Both
    /\ pc = "resubmit" => flags = {}
    /\ pc \in {"sync", "loop", "last"} =>
          \/ flags = Both /\ target = ByIndex
          \/ flags = {} /\ target = ByHandle

WordInv ==
    /\ pc \in {"write", "rewrite"} => presumed = Zeroes
    /\ pc \in Ready => word = presumed
    /\ pc \in Ready /\ "no_reloc" \in flags => \A k \in Entries : presumed[k] = offset[Side(k)]

TimeInv ==
    /\ pc \notin {"sync", "loop", "last"} => queued + copied = 0
    /\ pc \notin {"loop", "last"} => loop = 0
    /\ pc = "sync" => queued + copied = 1
    /\ pc = "loop" => queued + copied = 1 + loop
    /\ pc = "last" => queued + copied = 1 + Loops
    /\ verdict = "passed" => pc = "last"

IInv == TypeOK /\ SizeInv /\ NameInv /\ WordInv /\ CopiesSrcToDst /\ TimeInv
           /\ TimedWhenDone /\ verdict \notin {"assert", "unknown"}

\* One part or two: what the entries are, and that the count in exec[] is theirs.
LEMMA Counted ==
    ASSUME object_size \in Sizes, batch_len = Length(object_size)
    PROVE  Relocated = Entries
  <1>1. Parts(object_size) \in {1, 2}
    BY DEF Parts
  <1>2. CASE Parts(object_size) = 1
    <2>1. batch_len = 48 /\ Entries = 1..2
      BY <1>2 DEF Length, Entries
    <2>2. relocation_count = 2
      BY <2>1 DEF relocation_count
    <2>. QED BY <2>1, <2>2 DEF Relocated
  <1>3. CASE Parts(object_size) = 2
    <2>1. batch_len = 88 /\ Entries = 1..4
      BY <1>3 DEF Length, Entries
    <2>2. relocation_count = 4
      BY <2>1 DEF relocation_count
    <2>. QED BY <2>1, <2>2 DEF Relocated
  <1>. QED BY <1>1, <1>2, <1>3

\* The driver finds src and dst, by index and by handle.
LEMMA Named ==
    ASSUME IInv, pc \in Ready
    PROVE  Relocated = Entries /\ NamesKnown /\ \A k \in Entries : Lookup(target[k]) = Side(k)
  <1>1. Relocated = Entries
    BY Counted DEF IInv, TypeOK, SizeInv, Ready
  <1>2. \/ flags = Both /\ target = ByIndex
        \/ flags = {} /\ target = ByHandle
    BY DEF IInv, NameInv, Ready
  <1>3. ASSUME NEW k \in Entries
        PROVE  Known(target[k]) /\ Lookup(target[k]) = Side(k)
    <2>1. CASE flags = Both /\ target = ByIndex
      <3>1. "lut" \in flags /\ target[k] = IF ForDst(k) THEN 1 ELSE 0
        BY <2>1 DEF Both, ByIndex
      <3>2. DOMAIN exec = 0..2 /\ exec[0] = Src /\ exec[1] = Dst
        BY DEF exec
      <3>. QED BY <3>1, <3>2 DEF Known, Lookup, Side
    <2>2. CASE flags = {} /\ target = ByHandle
      BY <2>2 DEF ByHandle, Known, Lookup, Side, Object, Src, Dst
    <2>. QED BY <1>2, <2>1, <2>2
  <1>. QED BY <1>1, <1>3 DEF NamesKnown

\* What a submission leaves: every address is that of the object its entry is for,
\* the entries presume it, and so does exec[] where the driver may skip the entries.
LEMMA Corrected ==
    ASSUME IInv, pc \in Ready, NEW p \in Binding, Relocate(p), offset' = p
    PROVE  /\ word' = presumed' /\ word' \in [Entries -> Address]
           /\ \A k \in Entries : word'[k] = p[Side(k)]
           /\ place' = p /\ p \in [Object -> Address] /\ target' = target
  <1>1. Relocated = Entries /\ \A k \in Entries : Lookup(target[k]) = Side(k)
    BY Named
  <1>2. p \in [Object -> Address]
    BY DEF Binding
  <1>3. word = presumed /\ word \in [Entries -> Address]
    BY DEF IInv, TypeOK, WordInv
  <1>. DEFINE fixed == IF Skipped(p) THEN {} ELSE Wrong(p)
              Fix(f) == [k \in Entries |-> IF k \in fixed THEN p[Lookup(target[k])] ELSE f[k]]
  <1>4. word' = Fix(word) /\ presumed' = Fix(presumed) /\ place' = p /\ target' = target
    BY DEF Relocate
  <1>5. ASSUME NEW k \in Entries
        PROVE  Fix(word)[k] = p[Side(k)] /\ p[Side(k)] \in Address
    <2>1. Side(k) \in Object /\ p[Side(k)] \in Address
      BY <1>2 DEF Side, Object
    <2>2. CASE Skipped(p)
      <3>1. presumed[k] = p[Side(k)]
        BY <2>2 DEF Skipped, IInv, WordInv
      <3>. QED BY <1>3, <2>1, <2>2, <3>1
    <2>3. CASE ~Skipped(p) /\ k \in Wrong(p)
      BY <1>1, <2>1, <2>3
    <2>4. CASE ~Skipped(p) /\ k \notin Wrong(p)
      <3>1. presumed[k] = p[Side(k)]
        BY <1>1, <2>4 DEF Wrong
      <3>. QED BY <1>3, <2>1, <2>4, <3>1
    <2>. QED BY <2>1, <2>2, <2>3, <2>4
  <1>6. Fix(word) \in [Entries -> Address]
    BY <1>5
  <1>. HIDE DEF Fix
  <1>. QED BY <1>2, <1>3, <1>4, <1>5, <1>6

-----------------------------------------------------------------------------
(* The steps.                                                              *)

LEMMA InitInv == Init => IInv
  <1>. SUFFICES ASSUME Init PROVE IInv
    OBVIOUS
  <1>1. TypeOK
    BY BoundAssumption DEF Init, TypeOK, Label, Object, Batch, Src, Dst
  <1>2. SizeInv /\ NameInv /\ WordInv /\ TimeInv
    BY DEF Init, SizeInv, NameInv, WordInv, TimeInv, Ready
  <1>. QED BY <1>1, <1>2 DEF Init, IInv, CopiesSrcToDst, TimedWhenDone

\* A call that fails ends the program and changes nothing else.
LEMMA DieStep ==
    ASSUME IInv, NEW call, Die(call)
    PROVE  IInv'
  <1>. USE DEF IInv, Die, Exit, sizes, relocs, engine
  <1>1. TypeOK'
    BY DEF TypeOK, Entries
  <1>2. SizeInv' /\ NameInv' /\ WordInv'
    BY DEF SizeInv, NameInv, WordInv, Ready, ByIndex, ByHandle, Zeroes, Entries
  <1>3. CopiesSrcToDst' /\ TimeInv' /\ TimedWhenDone'
    BY DEF CopiesSrcToDst, TimeInv, TimedWhenDone, Entries
  <1>. QED BY <1>1, <1>2, <1>3

\* A submission the driver accepts, from a label of Ready to one where more follow.
LEMMA AcceptStep ==
    ASSUME IInv, Accept, pc \in Ready, UNCHANGED verdict,
           pc' \in {"sync", "loop"}, loop' \in 0..Loops, verdict = "running",
           pc' = "sync" => pc \in {"submit", "resubmit"} /\ loop' = loop,
           pc' = "loop" => pc = "loop" /\ loop' = loop + 1
    PROVE  IInv'
  <1>. PICK p \in Binding : Relocate(p) /\ offset' = p
    BY DEF Accept
  <1>1. /\ word' = presumed' /\ word' \in [Entries -> Address]
        /\ \A k \in Entries : word'[k] = p[Side(k)]
        /\ place' = p /\ p \in [Object -> Address] /\ target' = target
    BY Corrected
  <1>2. /\ queued' = queued + 1 /\ copied' = copied /\ flags' = flags
        /\ object_size' = object_size /\ len' = len /\ batch_len' = batch_len
    BY DEF Accept, sizes
  <1>3. Entries' = Entries
    BY <1>2 DEF Entries
  <1>4. TypeOK'
    BY <1>1, <1>2, <1>3 DEF IInv, TypeOK, Label
  <1>5. SizeInv'
    BY <1>2 DEF IInv, SizeInv, Ready
  <1>6. NameInv'
    BY <1>1, <1>2, <1>3 DEF IInv, NameInv, ByIndex, ByHandle
  <1>7. WordInv'
    BY <1>1, <1>3 DEF WordInv
  <1>8. CopiesSrcToDst'
    BY <1>1, <1>3 DEF CopiesSrcToDst, Side
  <1>9. TimeInv' /\ TimedWhenDone'
    <2>1. queued \in Nat /\ copied \in Nat /\ loop \in Nat
      BY BoundAssumption DEF IInv, TypeOK
    <2>2. CASE pc' = "sync"
      <3>1. loop = 0 /\ queued + copied = 0
        BY <2>2 DEF IInv, TimeInv
      <3>2. queued' + copied' = 1 /\ loop' = 0
        BY <1>2, <2>1, <2>2, <3>1
      <3>. QED BY <2>2, <3>2 DEF TimeInv, TimedWhenDone
    <2>3. CASE pc' = "loop"
      <3>1. queued + copied = 1 + loop
        BY <2>3 DEF IInv, TimeInv
      <3>2. queued' + copied' = 1 + loop'
        BY <1>2, <2>1, <2>3, <3>1
      <3>. QED BY <2>3, <3>2 DEF TimeInv, TimedWhenDone
    <2>. QED BY <2>2, <2>3
  <1>. QED BY <1>2, <1>4, <1>5, <1>6, <1>7, <1>8, <1>9 DEF IInv

\* A submission the driver refuses leaves at worst an address corrected.
LEMMA RefuseStep ==
    ASSUME IInv, At("submit"), Refuse, Goto("rebuild"), UNCHANGED loop
    PROVE  IInv'
  <1>1. /\ pc = "submit" /\ pc' = "rebuild" /\ verdict' = verdict /\ offset' = offset
        /\ verdict = "running"
        /\ queued' = queued /\ copied' = copied /\ flags' = flags
        /\ object_size' = object_size /\ len' = len /\ batch_len' = batch_len
    BY DEF At, Refuse, Goto, engine, sizes
  <1>2. queued = 0 /\ copied = 0
    BY <1>1 DEF IInv, TypeOK, TimeInv
  <1>3. Entries' = Entries
    BY <1>1 DEF Entries
  <1>4. /\ target' = target /\ presumed' \in [Entries -> Address]
        /\ word' \in [Entries -> Address] /\ place' \in [Object -> Address \cup {Unbound}]
    <2>1. CASE UNCHANGED <<relocs, word, place>>
      BY <2>1 DEF IInv, TypeOK, relocs
    <2>2. CASE \E p \in Binding : Relocate(p)
      <3>. PICK p \in Binding : Relocate(p)
        BY <2>2
      <3>1. Relocated = Entries /\ \A k \in Entries : Lookup(target[k]) = Side(k)
        BY <1>1, Named DEF Ready
      <3>2. p \in [Object -> Address] /\ \A k \in Entries : p[Lookup(target[k])] \in Address
        BY <3>1 DEF Binding, Side, Object
      <3>. QED BY <3>2 DEF Relocate, IInv, TypeOK
    <2>. QED BY <2>1, <2>2 DEF Refuse
  <1>5. TypeOK'
    BY <1>1, <1>3, <1>4 DEF IInv, TypeOK, Label
  <1>6. SizeInv' /\ NameInv' /\ WordInv' /\ TimeInv'
    BY <1>1 DEF IInv, SizeInv, NameInv, WordInv, TimeInv, Ready
  <1>. QED BY <1>1, <1>2, <1>5, <1>6 DEF IInv, CopiesSrcToDst, TimedWhenDone

\* The two times the batch is written: the words are those the entries presume, 0.
LEMMA WriteStep ==
    ASSUME IInv, Write \/ Rewrite
    PROVE  IInv'
  <1>1. CASE Die("write")
    BY <1>1, DieStep
  <1>2. CASE ~Die("write")
    <2>1. /\ verdict = "running" /\ verdict' = verdict
          /\ object_size' = object_size /\ len' = len /\ loop' = loop
          /\ target' = target /\ presumed' = presumed /\ place' = place
          /\ queued' = queued /\ copied' = copied /\ word' = Zeroes
      BY <1>2 DEF Write, Rewrite, At, Goto, gem_write, relocs, engine, sizes, Zeroes
    <2>2. \/ /\ pc = "write" /\ pc' = "submit" /\ batch_len' = len /\ flags' = Both
             /\ offset' = [o \in Object |-> 0]
          \/ /\ pc = "rewrite" /\ pc' = "resubmit" /\ batch_len' = batch_len /\ flags' = {}
             /\ offset' = offset
      BY <1>2 DEF Write, Rewrite, At, Goto, sizes, Both
    <2>3. Entries' = Entries
      BY <2>1 DEF Entries
    <2>4. queued = 0 /\ copied = 0
      BY <2>2 DEF IInv, TypeOK, TimeInv
    <2>5. TypeOK'
      BY <2>1, <2>2, <2>3, BoundAssumption DEF IInv, TypeOK, Label, Zeroes, Both
    <2>6. SizeInv' /\ NameInv' /\ TimeInv'
      BY <2>1, <2>2, <2>3 DEF IInv, SizeInv, NameInv, TimeInv, ByIndex, ByHandle, Side
    <2>7. WordInv'
      <3>1. presumed = Zeroes
        BY <2>2 DEF IInv, WordInv
      <3>2. CASE pc' = "submit"
        <4>1. \A k \in Entries : presumed[k] = 0 /\ offset'[Side(k)] = 0
          BY <2>2, <3>1, <3>2 DEF Zeroes, Side, Object
        <4>. QED BY <2>1, <2>3, <3>1, <3>2, <4>1 DEF WordInv
      <3>3. CASE pc' = "resubmit"
        <4>1. "no_reloc" \notin flags'
          BY <2>2, <3>3
        <4>. QED BY <2>1, <3>1, <3>3, <4>1 DEF WordInv
      <3>. QED BY <2>2, <3>2, <3>3
    <2>. QED BY <2>1, <2>4, <2>5, <2>6, <2>7 DEF IInv, CopiesSrcToDst, TimedWhenDone
  <1>. QED BY <1>1, <1>2

\* The two times the batch is built, with indices and with handles.
LEMMA BuildStep ==
    ASSUME IInv, Build \/ Rebuild
    PROVE  IInv'
  <1>1. /\ object_size' = object_size /\ batch_len' = batch_len /\ flags' = flags
        /\ loop' = loop /\ offset' = offset /\ word' = word /\ place' = place
        /\ queued' = queued /\ copied' = copied
        /\ presumed' = Zeroes /\ len' = Length(object_size) /\ verdict = "running"
    BY DEF Build, Rebuild, At, gem_linear_blt, engine, Zeroes
  <1>2. \/ pc = "build" /\ target' = ByIndex
        \/ pc = "rebuild" /\ target' = ByHandle
    BY DEF Build, Rebuild, At, gem_linear_blt, ByIndex, ByHandle, Side
  <1>3. \/ pc = "build" /\ pc' = "write" /\ verdict' = verdict
        \/ pc = "build" /\ pc' = pc /\ verdict' = "overflow"
        \/ pc = "rebuild" /\ pc' = "rewrite" /\ verdict' = verdict
        \/ pc = "rebuild" /\ len' # batch_len
    BY DEF Build, Rebuild, At, Goto, Exit
  <1>4. pc = "rebuild" => len' = batch_len
    BY <1>1 DEF IInv, SizeInv
  <1>5. Entries' = Entries
    BY <1>1 DEF Entries
  <1>6. queued = 0 /\ copied = 0
    BY <1>2 DEF IInv, TypeOK, TimeInv
  <1>7. TypeOK'
    <2>1. Length(object_size) \in Nat
      BY DEF Length, Parts
    <2>2. target' \in [Entries -> 0..3]
      BY <1>2 DEF ByIndex, ByHandle, Side, Src, Dst
    <2>. QED BY <1>1, <1>3, <1>4, <1>5, <2>1, <2>2, BoundAssumption DEF IInv, TypeOK, Label, Zeroes
  <1>8. SizeInv' /\ TimeInv'
    BY <1>1, <1>3, <1>4 DEF IInv, SizeInv, TimeInv
  <1>9. NameInv' /\ WordInv'
    BY <1>1, <1>2, <1>3, <1>4, <1>5 DEF NameInv, WordInv, ByIndex, ByHandle, Side, Zeroes, Ready
  <1>. QED BY <1>1, <1>3, <1>4, <1>6, <1>7, <1>8, <1>9 DEF IInv, CopiesSrcToDst, TimedWhenDone

\* The statements that only move on: the calls of Create, the waits, the loop's end.
LEMMA MoveStep ==
    ASSUME IInv, verdict = "running",
           UNCHANGED <<flags, sizes, loop, relocs, offset, word, place, engine>>,
           \/ pc = "create" /\ Goto("build")
           \/ pc = "sync" /\ queued = 0 /\ Goto("loop")
           \/ pc = "loop" /\ loop = Loops /\ Goto("last")
           \/ pc = "last" /\ queued = 0 /\ Exit("passed")
    PROVE  IInv'
  <1>1. Entries' = Entries
    BY DEF Entries, sizes
  <1>2. TypeOK'
    BY <1>1 DEF IInv, TypeOK, Goto, Exit, Label, sizes, relocs, engine
  <1>3. SizeInv' /\ TimeInv'
    BY DEF IInv, TypeOK, SizeInv, TimeInv, Goto, Exit, sizes, engine
  <1>4. NameInv' /\ WordInv'
    BY <1>1 DEF IInv, NameInv, WordInv, Goto, Exit, relocs, Ready, ByIndex, ByHandle, Zeroes, Side
  <1>5. CopiesSrcToDst'
    BY <1>1 DEF IInv, CopiesSrcToDst, engine
  <1>6. TimedWhenDone' /\ verdict' \notin {"assert", "unknown"}
    BY BoundAssumption DEF IInv, TypeOK, TimeInv, TimedWhenDone, Goto, Exit, engine
  <1>. QED BY <1>2, <1>3, <1>4, <1>5, <1>6 DEF IInv

\* The engine runs a copy; another client pushes an object out.
LEMMA EngineStep ==
    ASSUME IInv, Copy \/ (\E o \in Object : Evict(o))
    PROVE  IInv'
  <1>1. /\ pc' = pc /\ verdict' = verdict /\ flags' = flags /\ loop' = loop
        /\ object_size' = object_size /\ len' = len /\ batch_len' = batch_len
        /\ target' = target /\ presumed' = presumed /\ offset' = offset /\ word' = word
    BY DEF Copy, Evict, sizes, relocs
  <1>2. Entries' = Entries
    BY <1>1 DEF Entries
  <1>3. \/ place' = place /\ queued > 0 /\ queued' = queued - 1 /\ copied' = copied + 1
        \/ /\ place' \in [Object -> Address \cup {Unbound}] /\ queued = 0
           /\ queued' = queued /\ copied' = copied
    BY DEF Copy, Evict, engine, IInv, TypeOK
  <1>4. TypeOK'
    BY <1>1, <1>2, <1>3 DEF IInv, TypeOK
  <1>5. SizeInv' /\ NameInv' /\ WordInv'
    BY <1>1, <1>2 DEF IInv, SizeInv, NameInv, WordInv, ByIndex, ByHandle, Zeroes, Side
  <1>6. CopiesSrcToDst'
    BY <1>1, <1>2, <1>3 DEF IInv, TypeOK, CopiesSrcToDst
  <1>7. queued' + copied' = queued + copied /\ (queued = 0 => queued' = 0 /\ copied' = copied)
    BY <1>3 DEF IInv, TypeOK
  <1>8. TimeInv' /\ TimedWhenDone'
    BY <1>1, <1>7 DEF IInv, TimeInv, TimedWhenDone
  <1>. QED BY <1>1, <1>4, <1>5, <1>6, <1>8 DEF IInv

LEMMA StepInv == IInv /\ [Next]_vars => IInv'
  <1>. SUFFICES ASSUME IInv, [Next]_vars PROVE IInv'
    OBVIOUS
  <1>1. CASE Create
    BY <1>1, MoveStep, DieStep DEF Create, At
  <1>2. CASE Build \/ Rebuild
    BY <1>2, BuildStep
  <1>3. CASE Write \/ Rewrite
    BY <1>3, WriteStep
  <1>4. CASE Submit
    <2>1. CASE Accept /\ Goto("sync")
      BY <1>4, <2>1, AcceptStep DEF Submit, At, Goto, Ready, IInv, TypeOK
    <2>2. CASE Refuse /\ Goto("rebuild")
      BY <1>4, <2>2, RefuseStep DEF Submit
    <2>. QED BY <1>4, <2>1, <2>2 DEF Submit
  <1>5. CASE Resubmit
    <2>1. CASE Accept /\ Goto("sync") /\ UNCHANGED loop
      BY <1>5, <2>1, AcceptStep DEF Resubmit, At, Goto, Ready, IInv, TypeOK
    <2>2. NamesKnown
      BY <1>5, Named DEF Resubmit, At, Ready
    <2>. QED BY <1>5, <2>1, <2>2, DieStep DEF Resubmit
  <1>6. CASE Again
    <2>1. loop + 1 \in 0..Loops
      BY <1>6, BoundAssumption DEF Again, IInv, TypeOK
    <2>. QED BY <1>6, <2>1, AcceptStep DEF Again, At, Ready
  <1>7. CASE Sync \/ Last \/ (Loop /\ ~Again)
    BY <1>7, MoveStep, DieStep DEF Sync, Last, Loop, At
  <1>8. CASE Copy \/ \E o \in Object : Evict(o)
    BY <1>8, EngineStep
  <1>9. CASE UNCHANGED vars
    <2>1. Entries' = Entries
      BY <1>9 DEF vars, Entries
    <2>2. TypeOK'
      BY <1>9, <2>1 DEF vars, IInv, TypeOK
    <2>3. SizeInv' /\ NameInv' /\ WordInv'
      BY <1>9, <2>1 DEF vars, IInv, SizeInv, NameInv, WordInv, ByIndex, ByHandle, Zeroes, Side
    <2>4. CopiesSrcToDst' /\ TimeInv' /\ TimedWhenDone'
      BY <1>9, <2>1 DEF vars, IInv, CopiesSrcToDst, TimeInv, TimedWhenDone
    <2>. QED BY <1>9, <2>2, <2>3, <2>4 DEF IInv, vars
  <1>. QED
    BY <1>1, <1>2, <1>3, <1>4, <1>5, <1>6, <1>7, <1>8, <1>9 DEF Next, Program, Loop, Exited
-----------------------------------------------------------------------------
LEMMA Invariance == Spec => []IInv
  BY InitInv, StepInv, PTL DEF Spec

\* Types, whatever the size, the number of submissions and the places.
THEOREM TypeCorrect == Spec => []TypeOK
  <1>1. IInv => TypeOK
    BY DEF IInv
  <1>. QED BY <1>1, Invariance, PTL

\* The rectangles are the object, for every size of whole pixels a blit can name.
THEOREM CoversAlways == Spec => []CoversExactly
  <1>1. IInv => CoversExactly
    BY Coverage DEF IInv, TypeOK, CoversExactly
  <1>. QED BY <1>1, Invariance, PTL

\* Every queued copy reads src and writes dst, wherever they have been moved: with
\* entries the driver may skip, and with entries it may not.
THEOREM CopiesAlways == Spec => []CopiesSrcToDst
  <1>1. IInv => CopiesSrcToDst
    BY DEF IInv
  <1>. QED BY <1>1, Invariance, PTL

\* The assert of the second build holds, and no submission is refused for a name.
THEOREM NamesAlways == Spec => []NamesFound
  <1>1. IInv => NamesFound
    BY Named DEF IInv, NamesFound, Ready
  <1>. QED BY <1>1, Invariance, PTL

\* The time is taken when Loops + 1 copies have been made and none is left.
THEOREM TimedAlways == Spec => []TimedWhenDone
  <1>1. IInv => TimedWhenDone
    BY DEF IInv
  <1>. QED BY <1>1, Invariance, PTL
=============================================================================
