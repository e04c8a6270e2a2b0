--------------------------- MODULE TiledWcProofs ----------------------------
(***************************************************************************)
(* Proofs about gem_tiled_wc: calc_swizzle_offset and calculate_expected   *)
(* invert what the hardware does, for objects of every size, and the range *)
(* that is read lies in the range that is mapped.                          *)
(***************************************************************************)
EXTENDS TiledWc, FiniteSetTheorems, TLAPS

-----------------------------------------------------------------------------
(* Arithmetic.                                                             *)

\* Quotient and remainder of a number written as one.
LEMMA DivModOf ==
    ASSUME NEW d \in Nat \ {0}, NEW q \in Nat, NEW r \in Nat, r < d
    PROVE  (q * d + r) \div d = q /\ (q * d + r) % d = r
  BY SMTT(30)

\* Every number can be written as one.
LEMMA DivMod ==
    ASSUME NEW d \in Nat \ {0}, NEW n \in Nat
    PROVE  /\ n \div d \in Nat /\ n % d \in Nat /\ n % d < d
           /\ n = (n \div d) * d + (n % d)
  BY SMTT(30)

\* The sizes in dwords: V per row of a tile, and tiles_per_row tiles side by side.
V == tile_width \div Dword

LEMMA Sizes ==
    /\ Dword \in Nat \ {0} /\ WIDTH \in Nat \ {0} /\ HEIGHT \in Nat \ {0}
    /\ V \in Nat \ {0} /\ tiles_per_row \in Nat \ {0}
    /\ V * Dword = tile_width
    /\ WIDTH = tiles_per_row * V
  <1>1. Dword \in Nat \ {0} /\ WIDTH \in Nat \ {0} /\ HEIGHT \in Nat \ {0}
    BY SizeAssumption
  <1>2. 64 = (64 \div Dword) * Dword /\ 64 \div Dword \in Nat
    BY <1>1, SizeAssumption, DivMod
  <1>3. V \in Nat \ {0} /\ V * Dword = tile_width
    <2>1. 512 = ((64 \div Dword) * 8) * Dword + 0
      BY <1>1, <1>2
    <2>2. 512 \div Dword = (64 \div Dword) * 8
      BY <1>1, <1>2, <2>1, DivModOf
    <2>. QED BY <1>1, <1>2, <2>1, <2>2 DEF V, tile_width
  <1>4. stride \in Nat \ {0} /\ stride = Dword * WIDTH
    BY <1>1 DEF stride
  <1>5. stride = tiles_per_row * tile_width /\ tiles_per_row \in Nat
    BY <1>4, SizeAssumption, DivMod DEF tiles_per_row, tile_width
  <1>6. tiles_per_row # 0
    BY <1>4, <1>5 DEF tile_width
  <1>7. Dword * WIDTH = Dword * (tiles_per_row * V)
    BY <1>1, <1>3, <1>4, <1>5
  <1>8. WIDTH = tiles_per_row * V
    BY <1>1, <1>3, <1>5, <1>7
  <1>. QED BY <1>1, <1>3, <1>5, <1>6, <1>8

LEMMA SizeIsNat == size \in Nat /\ size > 0 /\ Dword <= size
  <1>1. stride \in Nat \ {0} /\ Dword <= stride
    BY Sizes DEF stride
  <1>2. stride * HEIGHT >= stride
    BY <1>1, Sizes
  <1>. QED BY <1>1, <1>2, Sizes DEF size
-----------------------------------------------------------------------------
(* Swizzling.                                                              *)

\* Inverting bit 6 twice changes nothing, and once none of the higher bits.
LEMMA Inverted ==
    ASSUME NEW j \in Nat
    PROVE  /\ InvertBit6(j) \in Nat
           /\ InvertBit6(InvertBit6(j)) = j
           /\ \A b \in {Bit9, Bit10, Bit11} : Bit(b, InvertBit6(j)) = Bit(b, j)
  <1>1. InvertBit6(j) \in Nat /\ InvertBit6(InvertBit6(j)) = j
    BY DEF InvertBit6, Bit, Bit6
  <1>2. /\ InvertBit6(j) \div 512 = j \div 512
        /\ InvertBit6(j) \div 1024 = j \div 1024
        /\ InvertBit6(j) \div 2048 = j \div 2048
    BY DEF InvertBit6, Bit, Bit6
  <1>3. /\ Bit(Bit9, InvertBit6(j)) = Bit(Bit9, j)
        /\ Bit(Bit10, InvertBit6(j)) = Bit(Bit10, j)
        /\ Bit(Bit11, InvertBit6(j)) = Bit(Bit11, j)
    BY <1>2 DEF Bit, Bit9, Bit10, Bit11
  <1>. QED BY <1>1, <1>3

\* calc_swizzle_offset is its own inverse, in every mode.
THEOREM SwizzleTwice ==
    ASSUME NEW mode, NEW j \in Nat
    PROVE  /\ calc_swizzle_offset(mode, j) \in Nat
           /\ calc_swizzle_offset(mode, calc_swizzle_offset(mode, j)) = j
  <1>1. Inversions(mode, InvertBit6(j)) = Inversions(mode, j)
    BY Inverted DEF Inversions
  <1>. QED BY <1>1, Inverted DEF calc_swizzle_offset
-----------------------------------------------------------------------------
(* Tiling.                                                                 *)

\* A dword and its byte, from the coordinates: tile row, row in it, tile, dword.
DwordAt(ty, r, tx, v) == (ty * 8 + r) * WIDTH + (tx * V + v)
ByteAt(ty, r, tx, v)  == (ty * tiles_per_row + tx) * 4096 + (r * 512 + v * Dword)

\* Tiling puts the one at the other.
LEMMA TilePlace ==
    ASSUME NEW ty \in Nat, NEW r \in 0..7, NEW tx \in 0..(tiles_per_row - 1), NEW v \in 0..(V - 1)
    PROVE  /\ v * Dword \in Nat /\ v * Dword < 512
           /\ Tiled(DwordAt(ty, r, tx, v)) = ByteAt(ty, r, tx, v)
  <1>. DEFINE c == tx * V + v
              n == DwordAt(ty, r, tx, v)
  <1>1. v * Dword \in Nat /\ v * Dword < 512
    <2>1. (V - v) * Dword >= 1 * Dword
      BY Sizes
    <2>2. (V - v) * Dword = V * Dword - v * Dword
      BY Sizes
    <2>. QED BY <2>1, <2>2, Sizes DEF tile_width
  <1>2. c \in Nat /\ c < WIDTH
    <2>1. tx * V + v < (tx + 1) * V
      BY Sizes
    <2>2. (tx + 1) * V <= tiles_per_row * V
      BY Sizes
    <2>. QED BY <2>1, <2>2, Sizes
  <1>3. n \div WIDTH = ty * 8 + r /\ n % WIDTH = c
    <2>1. ty * 8 + r \in Nat
      OBVIOUS
    <2>. QED BY <1>2, <2>1, Sizes, DivModOf DEF DwordAt
  <1>. HIDE DEF n
  <1>4. c * Dword = tx * 512 + v * Dword
    BY Sizes DEF tile_width
  <1>5. (c * Dword) \div 512 = tx /\ (c * Dword) % 512 = v * Dword
    <2>1. \A w \in Nat : w < 512 => (tx * 512 + w) \div 512 = tx /\ (tx * 512 + w) % 512 = w
      OBVIOUS
    <2>. QED BY <1>1, <1>4, <2>1
  <1>6. (ty * 8 + r) \div 8 = ty /\ (ty * 8 + r) % 8 = r
    OBVIOUS
  <1>7. Tiled(n) = ByteAt(ty, r, tx, v)
    <2>1. Tiled(n) = (((n \div WIDTH) \div 8) * tiles_per_row + (((n % WIDTH) * Dword) \div 512)) * 4096
                       + ((n \div WIDTH) % 8) * 512 + (((n % WIDTH) * Dword) % 512)
      BY DEF Tiled, tile_height, tile_width, tile_size, PAGE_SIZE
    <2>2. Tiled(n) = (ty * tiles_per_row + tx) * 4096 + r * 512 + v * Dword
      BY <1>3, <1>5, <1>6, <2>1
    <2>. QED BY <1>1, <2>2, Sizes DEF ByteAt
  <1>. QED BY <1>1, <1>7 DEF n

\* What is expected there.
LEMMA TiledAt ==
    ASSUME NEW ty \in Nat, NEW r \in 0..7, NEW tx \in 0..(tiles_per_row - 1), NEW v \in 0..(V - 1)
    PROVE  /\ ByteAt(ty, r, tx, v) \in Nat
           /\ calculate_expected(ByteAt(ty, r, tx, v)) = DwordAt(ty, r, tx, v)
  <1>. DEFINE off == r * 512 + v * Dword
              index == ty * tiles_per_row + tx
  <1>1. v * Dword \in Nat /\ v * Dword < 512
    BY TilePlace
  <1>2. ByteAt(ty, r, tx, v) = index * 4096 + off
    BY DEF ByteAt
  <1>3. off \in Nat /\ off < 4096 /\ index \in Nat
    BY <1>1, Sizes
  <1>4. ByteAt(ty, r, tx, v) \div 4096 = index /\ ByteAt(ty, r, tx, v) % 4096 = off
    BY <1>2, <1>3
  <1>5. index \div tiles_per_row = ty /\ index % tiles_per_row = tx
    BY Sizes, DivModOf
  <1>6. off \div 512 = r /\ off % 512 = v * Dword
    BY <1>1
  <1>7. (v * Dword) \div Dword = v
    <2>1. v * Dword = v * Dword + 0
      BY <1>1
    <2>. QED BY <2>1, Sizes, DivModOf
  <1>8. calculate_expected(ByteAt(ty, r, tx, v)) = (ty * 8 + r) * WIDTH + tx * V + v
    BY <1>4, <1>5, <1>6, <1>7
       DEF calculate_expected, tile_height, tile_width, tile_size, PAGE_SIZE, V
  <1>9. calculate_expected(ByteAt(ty, r, tx, v)) = DwordAt(ty, r, tx, v)
    BY <1>8, Sizes DEF DwordAt
  <1>. QED BY <1>2, <1>3, <1>9

\* calculate_expected undoes the tiling.
THEOREM TilingUndone ==
    ASSUME NEW n \in Nat
    PROVE  Tiled(n) \in Nat /\ calculate_expected(Tiled(n)) = n
  <1>. DEFINE y == n \div WIDTH
              c == n % WIDTH
  <1>1. y \in Nat /\ c \in Nat /\ c < WIDTH /\ n = y * WIDTH + c
    BY Sizes, DivMod
  <1>2. PICK ty \in Nat, r \in 0..7 : y = ty * 8 + r
    <2>1. y \div 8 \in Nat /\ y % 8 \in 0..7 /\ y = (y \div 8) * 8 + (y % 8)
      BY <1>1
    <2>. QED BY <2>1
  <1>3. PICK tx \in 0..(tiles_per_row - 1), v \in 0..(V - 1) : c = tx * V + v
    <2>1. /\ c \div V \in Nat /\ c % V \in Nat /\ c % V < V
          /\ c = (c \div V) * V + (c % V)
      BY <1>1, Sizes, DivMod
    <2>2. (c \div V) * V < tiles_per_row * V
      BY <1>1, <2>1, Sizes
    <2>3. c \div V < tiles_per_row
      <3>. DEFINE q == c \div V
      <3>1. q \in Nat /\ q * V < tiles_per_row * V
        BY <2>1, <2>2
      <3>. HIDE DEF q
      <3>2. q >= tiles_per_row => q * V >= tiles_per_row * V
        BY <3>1, Sizes
      <3>3. q < tiles_per_row
        BY <3>1, <3>2, Sizes
      <3>. QED BY <3>3 DEF q
    <2>4. c \div V \in 0..(tiles_per_row - 1) /\ c % V \in 0..(V - 1)
      BY <2>1, <2>3, Sizes
    <2>. QED BY <2>1, <2>4
  <1>4. n = DwordAt(ty, r, tx, v)
    BY <1>1, <1>2, <1>3 DEF DwordAt
  <1>5. Tiled(n) = ByteAt(ty, r, tx, v)
    BY <1>4, TilePlace
  <1>. QED BY <1>4, <1>5, TiledAt
-----------------------------------------------------------------------------
(* The memory controller.                                                  *)

One(b, j)     == IF AddressBit(b, j) THEN 1 ELSE 0
Ones(bits, j) == Cardinality({b \in bits : AddressBit(b, j)})

\* Address bit 17, if the controller looks at it.
High(j) == IF hw \in Mode17 /\ (j \div PAGE_SIZE) \in high THEN 1 ELSE 0

\* One more bit that is looked at is one more that may be set.
LEMMA CountBit ==
    ASSUME NEW bits, IsFiniteSet(bits), NEW b, b \notin bits, NEW j
    PROVE  /\ IsFiniteSet(bits \cup {b})
           /\ Ones(bits, j) \in Nat
           /\ Ones(bits \cup {b}, j) = Ones(bits, j) + One(b, j)
  <1>. DEFINE S == {x \in bits : AddressBit(x, j)}
              T == {x \in bits \cup {b} : AddressBit(x, j)}
  <1>1. IsFiniteSet(bits \cup {b})
    BY FS_AddElement
  <1>2. IsFiniteSet(S) /\ Cardinality(S) \in Nat /\ b \notin S
    <2>1. S \in SUBSET bits
      OBVIOUS
    <2>. QED BY <2>1, FS_Subset, FS_CardinalityType
  <1>3. Ones(bits, j) = Cardinality(S) /\ Ones(bits \cup {b}, j) = Cardinality(T)
    BY DEF Ones
  <1>4. AddressBit(b, j) => T = S \cup {b}
    OBVIOUS
  <1>5. ~AddressBit(b, j) => T = S
    OBVIOUS
  <1>. HIDE DEF S, T
  <1>6. Cardinality(S \cup {b}) = Cardinality(S) + 1
    BY <1>2, FS_AddElement
  <1>. QED BY <1>1, <1>2, <1>3, <1>4, <1>5, <1>6 DEF One

\* The bits that are set, for all the controllers there are.
LEMMA CountBits ==
    ASSUME NEW j
    PROVE  /\ Ones({Bit6}, j) = One(Bit6, j)
           /\ Ones({Bit6, Bit9}, j) = One(Bit6, j) + One(Bit9, j)
           /\ \A b \in {Bit10, Bit11, Bit17} :
                 Ones({Bit6, Bit9, b}, j) = One(Bit6, j) + One(Bit9, j) + One(b, j)
           /\ \A b \in {Bit11, Bit17} :
                 Ones({Bit6, Bit9, Bit10, b}, j)
                    = One(Bit6, j) + One(Bit9, j) + One(Bit10, j) + One(b, j)
  <1>1. /\ IsFiniteSet({}) /\ Ones({}, j) = 0
        /\ {} \cup {Bit6} = {Bit6} /\ {Bit6} \cup {Bit9} = {Bit6, Bit9}
    BY FS_EmptySet DEF Ones
  <1>2. /\ Bit6 \notin {} /\ Bit9 \notin {Bit6} /\ Bit10 \notin {Bit6, Bit9}
        /\ Bit11 \notin {Bit6, Bit9, Bit10} /\ Bit17 \notin {Bit6, Bit9, Bit10}
    BY DEF Bit6, Bit9, Bit10, Bit11, Bit17
  <1>3. IsFiniteSet({Bit6}) /\ Ones({Bit6}, j) = One(Bit6, j)
    <2>1. IsFiniteSet({} \cup {Bit6}) /\ Ones({} \cup {Bit6}, j) = Ones({}, j) + One(Bit6, j)
      BY <1>1, <1>2, CountBit
    <2>. QED BY <1>1, <2>1 DEF One
  <1>4. IsFiniteSet({Bit6, Bit9}) /\ Ones({Bit6, Bit9}, j) = One(Bit6, j) + One(Bit9, j)
    <2>1. /\ IsFiniteSet({Bit6} \cup {Bit9})
          /\ Ones({Bit6} \cup {Bit9}, j) = Ones({Bit6}, j) + One(Bit9, j)
      BY <1>2, <1>3, CountBit
    <2>. QED BY <1>1, <1>3, <2>1
  <1>5. ASSUME NEW b \in {Bit10, Bit11, Bit17}
        PROVE  /\ IsFiniteSet({Bit6, Bit9, b})
               /\ Ones({Bit6, Bit9, b}, j) = One(Bit6, j) + One(Bit9, j) + One(b, j)
    <2>. DEFINE A == {Bit6, Bit9}
    <2>1. A \cup {b} = {Bit6, Bit9, b}
      OBVIOUS
    <2>2. b \notin A
      BY <1>2
    <2>3. IsFiniteSet(A) /\ Ones(A, j) = One(Bit6, j) + One(Bit9, j)
      BY <1>4
    <2>. HIDE DEF A
    <2>4. IsFiniteSet(A \cup {b}) /\ Ones(A \cup {b}, j) = Ones(A, j) + One(b, j)
      BY <2>2, <2>3, CountBit
    <2>. QED BY <2>1, <2>3, <2>4
  <1>6. ASSUME NEW b \in {Bit11, Bit17}
        PROVE  Ones({Bit6, Bit9, Bit10, b}, j)
                  = One(Bit6, j) + One(Bit9, j) + One(Bit10, j) + One(b, j)
    <2>. DEFINE A == {Bit6, Bit9, Bit10}
    <2>1. A \cup {b} = {Bit6, Bit9, Bit10, b}
      OBVIOUS
    <2>2. b \notin A
      BY <1>2
    <2>3. IsFiniteSet(A)
      BY <1>5
    <2>4. Ones(A, j) = One(Bit6, j) + One(Bit9, j) + One(Bit10, j)
      BY <1>5
    <2>. HIDE DEF A
    <2>5. Ones(A \cup {b}, j) = Ones(A, j) + One(b, j)
      BY <2>2, <2>3, CountBit
    <2>. QED BY <2>1, <2>4, <2>5
  <1>. QED BY <1>3, <1>4, <1>5, <1>6

\* The program and the controller read the same bits of an offset.
LEMMA SameBits ==
    ASSUME NEW j \in Nat
    PROVE  /\ \A b \in {Bit6, Bit9, Bit10, Bit11} : One(b, j) = Bit(b, j) /\ Bit(b, j) \in {0, 1}
           /\ hw \in Mode17 => One(Bit17, j) = High(j)
  <1>1. One(Bit6, j) = Bit(Bit6, j) /\ Bit(Bit6, j) \in {0, 1}
    BY DEF One, AddressBit, Bit, Bit6, Bit17
  <1>2. One(Bit9, j) = Bit(Bit9, j) /\ Bit(Bit9, j) \in {0, 1}
    BY DEF One, AddressBit, Bit, Bit9, Bit17
  <1>3. One(Bit10, j) = Bit(Bit10, j) /\ Bit(Bit10, j) \in {0, 1}
    BY DEF One, AddressBit, Bit, Bit10, Bit17
  <1>4. One(Bit11, j) = Bit(Bit11, j) /\ Bit(Bit11, j) \in {0, 1}
    BY DEF One, AddressBit, Bit, Bit11, Bit17
  <1>5. hw \in Mode17 => One(Bit17, j) = High(j)
    BY DEF One, AddressBit, High
  <1>. QED BY <1>1, <1>2, <1>3, <1>4, <1>5

\* The bits the controller mixes are those of the mode the kernel reports, and
\* bit 17, which no offset shows.
LEMMA MixedIn ==
    ASSUME hw \in Hardware, NEW j \in Nat
    PROVE  /\ Inversions(Reported, j) + High(j) \in Nat
           /\ Ones({Bit6} \cup MixedBits, j) = Bit(Bit6, j) + (Inversions(Reported, j) + High(j))
  <1>1. /\ One(Bit6, j) = Bit(Bit6, j) /\ One(Bit9, j) = Bit(Bit9, j)
        /\ One(Bit10, j) = Bit(Bit10, j) /\ One(Bit11, j) = Bit(Bit11, j)
        /\ {Bit(Bit6, j), Bit(Bit9, j), Bit(Bit10, j), Bit(Bit11, j)} \subseteq {0, 1}
        /\ High(j) \in {0, 1}
    BY SameBits DEF High
  <1>2. CASE hw \in {"none", "unknown"}
    <2>1. {Bit6} \cup MixedBits = {Bit6}
      BY <1>2 DEF MixedBits
    <2>2. Inversions(Reported, j) = 0 /\ High(j) = 0
      BY <1>2 DEF Inversions, Reported, High, Mode17
    <2>3. Ones({Bit6}, j) = One(Bit6, j)
      BY CountBits
    <2>. QED BY <1>1, <2>1, <2>2, <2>3
  <1>3. CASE hw = "9"
    <2>1. {Bit6} \cup MixedBits = {Bit6, Bit9}
      BY <1>3 DEF MixedBits
    <2>2. Inversions(Reported, j) = Bit(Bit9, j) /\ High(j) = 0
      BY <1>3 DEF Inversions, Reported, High, Mode17
    <2>3. Ones({Bit6, Bit9}, j) = One(Bit6, j) + One(Bit9, j)
      BY CountBits
    <2>. QED BY <1>1, <2>1, <2>2, <2>3
  <1>4. CASE hw = "9_10"
    <2>1. {Bit6} \cup MixedBits = {Bit6, Bit9, Bit10}
      BY <1>4 DEF MixedBits
    <2>2. Inversions(Reported, j) = Bit(Bit9, j) + Bit(Bit10, j) /\ High(j) = 0
      BY <1>4 DEF Inversions, Reported, High, Mode17
    <2>3. Ones({Bit6, Bit9, Bit10}, j) = One(Bit6, j) + One(Bit9, j) + One(Bit10, j)
      BY CountBits
    <2>. QED BY <1>1, <2>1, <2>2, <2>3
  <1>5. CASE hw = "9_11"
    <2>1. {Bit6} \cup MixedBits = {Bit6, Bit9, Bit11}
      BY <1>5 DEF MixedBits
    <2>2. Inversions(Reported, j) = Bit(Bit9, j) + Bit(Bit11, j) /\ High(j) = 0
      BY <1>5 DEF Inversions, Reported, High, Mode17
    <2>3. Ones({Bit6, Bit9, Bit11}, j) = One(Bit6, j) + One(Bit9, j) + One(Bit11, j)
      BY CountBits
    <2>. QED BY <1>1, <2>1, <2>2, <2>3
  <1>6. CASE hw = "9_10_11"
    <2>1. {Bit6} \cup MixedBits = {Bit6, Bit9, Bit10, Bit11}
      BY <1>6 DEF MixedBits
    <2>2. Inversions(Reported, j) = Bit(Bit9, j) + Bit(Bit10, j) + Bit(Bit11, j) /\ High(j) = 0
      BY <1>6 DEF Inversions, Reported, High, Mode17
    <2>3. Ones({Bit6, Bit9, Bit10, Bit11}, j) = One(Bit6, j) + One(Bit9, j) + One(Bit10, j) + One(Bit11, j)
      BY CountBits
    <2>. QED BY <1>1, <2>1, <2>2, <2>3
  <1>7. CASE hw = "9_17"
    <2>1. {Bit6} \cup MixedBits = {Bit6, Bit9, Bit17}
      BY <1>7 DEF MixedBits
    <2>2. Inversions(Reported, j) = Bit(Bit9, j) /\ High(j) = One(Bit17, j)
      BY <1>7, SameBits DEF Inversions, Reported, Mode17
    <2>3. Ones({Bit6, Bit9, Bit17}, j) = One(Bit6, j) + One(Bit9, j) + One(Bit17, j)
      BY CountBits
    <2>4. Ones({Bit6} \cup MixedBits, j) = One(Bit6, j) + One(Bit9, j) + One(Bit17, j)
      BY <2>1, <2>3
    <2>. QED BY <1>1, <2>2, <2>4
  <1>8. CASE hw = "9_10_17"
    <2>1. {Bit6} \cup MixedBits = {Bit6, Bit9, Bit10, Bit17}
      BY <1>8 DEF MixedBits
    <2>2. Inversions(Reported, j) = Bit(Bit9, j) + Bit(Bit10, j) /\ High(j) = One(Bit17, j)
      BY <1>8, SameBits DEF Inversions, Reported, Mode17
    <2>3. Ones({Bit6, Bit9, Bit10, Bit17}, j) = One(Bit6, j) + One(Bit9, j) + One(Bit10, j) + One(Bit17, j)
      BY CountBits
    <2>. QED BY <1>1, <2>1, <2>2, <2>3
  <1>. QED BY <1>2, <1>3, <1>4, <1>5, <1>6, <1>7, <1>8 DEF Hardware, Mode, Mode17

\* The controller's line is the other one of the pair if the bits above bit 6
\* have an odd number of ones.
LEMMA LandedLine ==
    ASSUME hw \in Hardware, NEW n \in Nat
    PROVE  Landed(n) = IF (Inversions(Reported, Tiled(n)) + High(Tiled(n))) % 2 = 1
                       THEN InvertBit6(Tiled(n)) ELSE Tiled(n)
  <1>. DEFINE j == Tiled(n)
              k == Inversions(Reported, j) + High(j)
  <1>1. j \in Nat
    BY TilingUndone
  <1>2. k \in Nat /\ Ones({Bit6} \cup MixedBits, j) = Bit(Bit6, j) + k
    BY <1>1, MixedIn
  <1>3. Landed(n) = (j \div 128) * 128 + 64 * ((Bit(Bit6, j) + k) % 2) + (j % 64)
    BY <1>2 DEF Landed, Parity, Ones
  <1>4. \A m, x \in Nat :
          (m \div 128) * 128 + 64 * ((Bit(Bit6, m) + x) % 2) + (m % 64)
             = IF x % 2 = 1 THEN InvertBit6(m) ELSE m
    BY DEF Bit, Bit6, InvertBit6
  <1>. HIDE DEF j, k
  <1>5. Landed(n) = IF k % 2 = 1 THEN InvertBit6(j) ELSE j
    BY <1>1, <1>2, <1>3, <1>4
  <1>. QED BY <1>5 DEF j, k
-----------------------------------------------------------------------------
(* The comparisons.                                                        *)

\* With a true report every comparison holds, in every range.
LEMMA NothingMismatches ==
    ASSUME hw \in Hardware, TrueReport
    PROVE  Mismatches = {}
  <1>1. SUFFICES ASSUME NEW n \in 0..(WIDTH * HEIGHT - 1)
                 PROVE  calculate_expected(calc_swizzle_offset(swizzle, Landed(n))) = n
    BY DEF Mismatches
  <1>2. n \in Nat /\ Tiled(n) \in Nat
    BY TilingUndone
  <1>3. High(Tiled(n)) = 0 /\ Inversions(Reported, Tiled(n)) + High(Tiled(n)) \in Nat
    BY <1>2, MixedIn DEF High, TrueReport
  <1>4. Inversions(Reported, Tiled(n)) + High(Tiled(n)) = Inversions(Reported, Tiled(n))
    <2>1. Inversions(Reported, Tiled(n)) \in Nat
      BY <1>2, SameBits DEF Inversions
    <2>. QED BY <1>3, <2>1
  <1>5. Landed(n) = calc_swizzle_offset(swizzle, Tiled(n))
    BY <1>2, <1>4, LandedLine DEF calc_swizzle_offset, TrueReport
  <1>. QED BY <1>2, <1>5, SwizzleTwice, TilingUndone

RowAt(P, r) == P * 4096 + r * 512      \* where row r of page P starts

\* Some dword is tiled there, and another is expected a line behind it.
LEMMA FirstOfRow ==
    ASSUME NEW P \in Pages, NEW r \in 0..7
    PROVE  \E n \in 0..(WIDTH * HEIGHT - 1) :
              /\ Tiled(n) = RowAt(P, r) /\ RowAt(P, r) + 64 < size
              /\ calculate_expected(RowAt(P, r) + 64) # n
  <1>. DEFINE j == RowAt(P, r)
              ty == P \div tiles_per_row
              tx == P % tiles_per_row
              H  == HEIGHT \div 8
  <1>1. PICK v \in 0..(V - 1) : v = 0
    BY Sizes
  <1>2. PICK n : n = DwordAt(ty, r, tx, v)
    OBVIOUS
  <1>3. /\ P \in Nat /\ ty \in Nat /\ tx \in 0..(tiles_per_row - 1)
        /\ P = ty * tiles_per_row + tx
    BY Sizes, DivMod DEF Pages
  <1>4. H \in Nat /\ HEIGHT = H * 8
    BY Sizes, SizeAssumption, DivMod DEF tile_height
  <1>5. size = 4096 * (tiles_per_row * H)
    <2>1. stride = tiles_per_row * 512
      BY Sizes DEF stride, tile_width
    <2>. HIDE DEF H
    <2>2. size = (tiles_per_row * 512) * (H * 8)
      BY <1>4, <2>1 DEF size
    <2>. QED BY <1>4, <2>2, Sizes
  <1>6. P < tiles_per_row * H
    <2>1. tiles_per_row * H \in Nat
      BY <1>4, Sizes
    <2>. HIDE DEF H
    <2>2. size \div 4096 = tiles_per_row * H
      BY <1>5, <2>1
    <2>. QED BY <2>1, <2>2 DEF Pages, PAGE_SIZE
  <1>. HIDE DEF ty, tx, H
  <1>7. ty < H
    <2>1. ty * tiles_per_row < H * tiles_per_row
      BY <1>3, <1>4, <1>6, Sizes
    <2>2. ty >= H => ty * tiles_per_row >= H * tiles_per_row
      BY <1>3, <1>4, Sizes
    <2>. QED BY <1>3, <1>4, <2>1, <2>2, Sizes
  <1>8. tx * V \in Nat /\ tx * V < WIDTH
    <2>1. tx * V < (tx + 1) * V
      BY <1>3, Sizes
    <2>2. (tx + 1) * V <= tiles_per_row * V
      BY <1>3, Sizes
    <2>. QED BY <1>3, <2>1, <2>2, Sizes
  <1>9. n \in 0..(WIDTH * HEIGHT - 1)
    <2>1. ty * 8 + r \in Nat /\ ty * 8 + r + 1 <= HEIGHT
      BY <1>3, <1>4, <1>7
    <2>2. (ty * 8 + r + 1) * WIDTH <= HEIGHT * WIDTH
      BY <2>1, Sizes
    <2>3. (ty * 8 + r) * WIDTH + WIDTH = (ty * 8 + r + 1) * WIDTH /\ (ty * 8 + r) * WIDTH \in Nat
      BY <2>1, Sizes
    <2>. QED BY <1>1, <1>2, <1>8, <2>1, <2>2, <2>3, Sizes DEF DwordAt
  <1>10. Tiled(n) = j
    <2>1. v * Dword = 0
      BY <1>1, Sizes
    <2>2. Tiled(n) = ByteAt(ty, r, tx, v)
      BY <1>2, <1>3, TilePlace
    <2>. QED BY <1>3, <2>1, <2>2 DEF ByteAt, RowAt
  <1>11. j + 64 < size
    BY <1>3, <1>4, <1>5, <1>6, Sizes DEF RowAt
  <1>12. calculate_expected(j + 64) = n + 64 \div Dword
    <2>. DEFINE x == j + 64
    <2>1. /\ x % 4096 = r * 512 + 64 /\ x \div 4096 = P
          /\ (r * 512 + 64) \div 512 = r /\ (r * 512 + 64) % 512 = 64
      BY <1>3 DEF RowAt
    <2>2. 64 \div Dword \in Nat
      BY Sizes, DivMod
    <2>. HIDE DEF x
    <2>3. calculate_expected(x) = (ty * 8 + r) * WIDTH + tx * V + 64 \div Dword
      BY <2>1 DEF calculate_expected, tile_height, tile_width, tile_size, PAGE_SIZE, V, ty, tx
    <2>. QED BY <1>1, <1>2, <1>8, <1>9, <2>2, <2>3 DEF x, DwordAt
  <1>13. 64 \div Dword \in Nat \ {0}
    BY Sizes, SizeAssumption, DivMod
  <1>14. n + 64 \div Dword # n
    BY <1>9, <1>13
  <1>. QED BY <1>9, <1>10, <1>11, <1>12, <1>14

\* With a wrong one some comparison of the whole object fails: at the start of a
\* page whose lines bit 17 inverts, or, if the mode is missing, of the first or the
\* second row of the first page.
LEMMA SomethingMismatches ==
    ASSUME hw \in Hardware \ {"unknown"}, high \subseteq Pages, hw \notin Mode17 => high = {},
           swizzle \in {Reported, "none"}, ~TrueReport, offset = 0, len = size
    PROVE  Mismatches # {}
  <1>1. ASSUME NEW P \in Pages, NEW r \in 0..7, NEW j, j = RowAt(P, r),
               Inversions(swizzle, j + 64) = 0, Inversions(Reported, j) + High(j) = 1
        PROVE  Mismatches # {}
    <2>1. PICK n \in 0..(WIDTH * HEIGHT - 1) :
             Tiled(n) = j /\ j + 64 < size /\ calculate_expected(j + 64) # n
      BY <1>1, FirstOfRow
    <2>2. j \in Nat /\ n \in Nat /\ InvertBit6(j) = j + 64
      BY <1>1 DEF RowAt, Pages, InvertBit6, Bit, Bit6
    <2>3. Landed(n) = j + 64
      <3>1. hw \in Hardware
        OBVIOUS
      <3>. QED BY <1>1, <2>1, <2>2, <3>1, LandedLine
    <2>4. calc_swizzle_offset(swizzle, j + 64) = j + 64
      BY <1>1 DEF calc_swizzle_offset
    <2>5. offset <= Landed(n) /\ Landed(n) < offset + len
      BY <2>1, <2>2, <2>3, SizeIsNat
    <2>6. calculate_expected(calc_swizzle_offset(swizzle, Landed(n))) # n
      BY <2>1, <2>3, <2>4
    <2>7. n \in Mismatches
      BY <2>5, <2>6 DEF Mismatches
    <2>. QED BY <2>7
  <1>2. 0 \in Pages
    <2>1. size \in Nat /\ size >= 4096
      <3>1. stride \in Nat /\ stride >= 512
        <4>1. stride = tiles_per_row * 512
          BY Sizes DEF stride, tile_width
        <4>. QED BY <4>1, Sizes
      <3>2. HEIGHT >= 8
        BY Sizes, SizeAssumption DEF tile_height
      <3>3. stride * HEIGHT >= 512 * HEIGHT /\ stride * HEIGHT \in Nat
        BY <3>1, <3>2, Sizes
      <3>. QED BY <3>2, <3>3, Sizes DEF size
    <2>. QED BY <2>1 DEF Pages, PAGE_SIZE
  <1>3. \A P \in Pages : /\ Inversions("none", P * 4096 + 512 + 64) = 0
                         /\ Inversions("none", P * 4096 + 64) = 0
    BY DEF Inversions
  <1>4. ASSUME NEW P \in Pages, NEW x \in {0, 64}
        PROVE  Inversions(Reported, P * 4096 + x) = 0
    <2>1. P \in Nat
      BY DEF Pages
    <2>2. /\ Bit(Bit9, P * 4096 + x) = 0 /\ Bit(Bit10, P * 4096 + x) = 0
          /\ Bit(Bit11, P * 4096 + x) = 0
      BY <2>1 DEF Bit, Bit9, Bit10, Bit11
    <2>. QED BY <2>2 DEF Inversions, Reported
  <1>5. CASE \E P \in high : swizzle = Reported \/ P = 0
    <2>1. PICK P \in high : swizzle = Reported \/ P = 0
      BY <1>5
    <2>2. P \in Pages /\ P \in Nat /\ High(P * 4096) = 1
      BY <2>1 DEF High, Pages, PAGE_SIZE
    <2>3. Inversions(swizzle, P * 4096 + 64) = 0
      BY <1>3, <1>4, <2>2
    <2>4. RowAt(P, 0) = P * 4096 /\ P * 4096 + 0 = P * 4096
      BY <2>2 DEF RowAt
    <2>5. Inversions(Reported, P * 4096) = 0
      BY <1>4, <2>2, <2>4
    <2>. QED BY <1>1, <2>2, <2>3, <2>4, <2>5
  <1>6. CASE swizzle # Reported /\ 0 \notin high
    <2>1. swizzle = "none" /\ Reported \in {"9", "9_10", "9_11", "9_10_11"}
      BY <1>6 DEF Reported, Hardware, Mode, Mode17
    <2>2. Bit(Bit9, 512) = 1 /\ Bit(Bit10, 512) = 0 /\ Bit(Bit11, 512) = 0
      BY DEF Bit, Bit9, Bit10, Bit11
    <2>3. Inversions(Reported, 512) = 1
      BY <2>1, <2>2 DEF Inversions
    <2>4. High(512) = 0
      BY <1>6 DEF High, PAGE_SIZE
    <2>5. Inversions(swizzle, 576) = 0
      BY <2>1 DEF Inversions
    <2>6. RowAt(0, 1) = 512
      BY DEF RowAt
    <2>. QED BY <1>1, <1>2, <2>3, <2>4, <2>5, <2>6
  <1>. QED BY <1>5, <1>6 DEF TrueReport
-----------------------------------------------------------------------------
(* The program.                                                            *)

LEMMA PageRounding ==
    ASSUME NEW n \in Nat
    PROVE  /\ PageOf(n) \in Nat /\ PageOf(n) <= n
           /\ NextPage(n) \in Nat /\ NextPage(n) > n /\ NextPage(n) <= n + PAGE_SIZE
  BY DEF PageOf, NextPage, PAGE_SIZE

\* What is mapped is what will be read, in an iteration that is still to be done.
RangeInv ==
    pc \in {"map", "check"} => /\ first_page <= offset /\ offset + len <= last_page
                               /\ len > 0 /\ offset + len <= size
                               /\ i < Iterations

\* Past the wrapper's assert, the swizzling is known.
KnownInv == pc \notin {"open", "create", "tiling"} => hw # "unknown"

\* The first range is the whole object; a process that got past it works with the
\* true mode, and one that failed an assert does not.
ReportInv ==
    /\ hw \notin Mode17 => high = {}
    /\ pc \in {"range", "map", "check"} => swizzle \in {Reported, "none"}
    /\ pc \notin {"range", "map", "check"} => i = 0
    /\ i = 0 /\ pc \in {"map", "check"} => offset = 0 /\ len = size
    /\ i > 0 => TrueReport
    /\ verdict = "assert" => ~TrueReport /\ pc = "check"
    /\ verdict = "passed" => i = Iterations

IInv == TypeOK /\ RangeInv /\ KnownInv /\ ReportInv

\* A range chosen lies in the object and in its pages.
LEMMA RangeChosen ==
    ASSUME TypeOK, ChooseRange
    PROVE  /\ offset' \in 0..size /\ len' \in 0..size
           /\ first_page' \in 0..size /\ last_page' \in 0..(size + PAGE_SIZE)
           /\ first_page' <= offset' /\ offset' + len' <= last_page'
           /\ len' > 0 /\ offset' + len' <= size
  <1>1. \E o, l \in Nat : l > 0 /\ o + l <= size /\ SetRange(o, l)
    <2>1. CASE SetRange(0, size)
      BY <2>1, SizeIsNat
    <2>2. ASSUME NEW o \in Samples, NEW l \in Nat, l > 0,
                 SetRange(o, IF o + l > size THEN size - o ELSE l)
          PROVE  \E a, b \in Nat : b > 0 /\ a + b <= size /\ SetRange(a, b)
      <3>1. o \in Nat /\ o < size
        BY BoundAssumption, SizeIsNat
      <3>2. CASE o + l > size
        <4>1. size - o \in Nat /\ size - o > 0 /\ o + (size - o) <= size
          BY <3>1, SizeIsNat
        <4>. QED BY <2>2, <3>1, <3>2, <4>1
      <3>3. CASE ~(o + l > size)
        <4>1. o + l <= size
          BY <3>1, <3>3, SizeIsNat
        <4>. QED BY <2>2, <3>1, <3>3, <4>1
      <3>. QED BY <3>2, <3>3
    <2>3. \A l \in Samples : (IF l = 0 THEN Dword ELSE l) \in Nat \ {0}
      BY BoundAssumption, SizeIsNat, Sizes
    <2>. QED BY <2>1, <2>2, <2>3 DEF ChooseRange
  <1>2. PICK o \in Nat, l \in Nat : l > 0 /\ o + l <= size /\ SetRange(o, l)
    BY <1>1
  <1>3. PageOf(o) \in Nat /\ PageOf(o) <= o
    BY PageRounding
  <1>4. NextPage(o + l) \in Nat /\ NextPage(o + l) > o + l /\ NextPage(o + l) <= o + l + PAGE_SIZE
    BY PageRounding
  <1>. QED BY <1>2, <1>3, <1>4, SizeIsNat DEF SetRange, PAGE_SIZE

LEMMA InitHolds == Init => IInv
  BY SizeIsNat, BoundAssumption
     DEF Init, IInv, TypeOK, RangeInv, KnownInv, ReportInv, Hardware, Mode, Pages, PAGE_SIZE

LEMMA Inductive == IInv /\ [Next]_vars => IInv'
  <1>. SUFFICES ASSUME IInv, [Next]_vars PROVE IInv'
    OBVIOUS
  <1>. USE DEF IInv, TypeOK, RangeInv, KnownInv, ReportInv, TrueReport, Reported, At, Goto, Exit,
               device, range
  <1>1. CASE ChooseRange
    BY <1>1, RangeChosen, BoundAssumption DEF ChooseRange, SetRange
  <1>2. CASE get_tiling
    <2>1. Reported \in Mode
      BY <1>2 DEF get_tiling, Reported, Hardware, Mode, Mode17
    <2>. QED BY <1>2, <2>1 DEF get_tiling, Mode
  <1>3. CASE Check
    <2>1. i \in Nat /\ Iterations \in Nat /\ i < Iterations => i + 1 \in 0..Iterations
      OBVIOUS
    <2>2. TrueReport => Mismatches = {}
      BY NothingMismatches
    <2>3. i = 0 /\ pc = "check" /\ ~TrueReport => Mismatches # {}
      BY SomethingMismatches
    <2>. QED BY <1>3, <2>1, <2>2, <2>3, BoundAssumption DEF Check
  <1>4. CASE drm_open_driver \/ gem_create \/ gem_set_tiling \/ gem_mmap__gtt \/ Fill
    BY <1>4 DEF drm_open_driver, gem_create, gem_set_tiling, gem_mmap__gtt, Fill
  <1>5. CASE gem_mmap__wc \/ Success
    BY <1>5 DEF gem_mmap__wc, Success
  <1>6. CASE UNCHANGED vars
    BY <1>6 DEF vars
  <1>. QED BY <1>1, <1>2, <1>3, <1>4, <1>5, <1>6 DEF Next, Program, Exited

LEMMA Invariance == Spec => []IInv
  BY InitHolds, Inductive, PTL DEF Spec

\* The state keeps its types for objects of every size.
THEOREM TypeCorrect == Spec => []TypeOK
  <1>1. IInv => TypeOK
    BY DEF IInv
  <1>. QED BY <1>1, Invariance, PTL

\* Whatever random() gives, the range read lies in the object and in the mapping.
THEOREM NeverReadsOutside == Spec => []ReadsInside
  <1>1. IInv => ReadsInside
    BY DEF IInv, RangeInv, ReadsInside
  <1>. QED BY <1>1, Invariance, PTL

\* The test asserts if, and passes only if, the mode it works with is not, or is,
\* the one by which the memory controller swizzled its object.
THEOREM ComparisonsHold == Spec => []ChecksHold
  <1>1. IInv => ChecksHold
    BY BoundAssumption DEF IInv, ReportInv, ChecksHold
  <1>. QED BY <1>1, Invariance, PTL
=============================================================================
