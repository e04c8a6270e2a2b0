------------------------------ MODULE TiledWc -------------------------------
(***************************************************************************)
(* gem_tiled_wc.c: an X-tiled object is filled through the GTT, where a    *)
(* fence register makes it look linear, and read through a write-combining *)
(* mapping, where it does not.  The program computes from the offset it    *)
(* reads at which dword must be there: it undoes the swizzling the kernel  *)
(* reports (calc_swizzle_offset) and the tiling (calculate_expected).      *)
(*                                                                         *)
(* An X tile is one page: 8 rows of 512 bytes.  The memory controller      *)
(* swizzles by exchanging neighbouring lines of 64 bytes: the line goes to *)
(* the channel that is the exclusive or of bit 6 and some higher bits of   *)
(* its physical address.                                                   *)
(***************************************************************************)
EXTENDS Integers, FiniteSets

CONSTANTS
    WIDTH, HEIGHT,  \* of the object, in dwords and rows
    Dword,          \* sizeof(uint32_t)
    Iterations,     \* bound: ranges read, the first of which is the object
    Samples,        \* bound: what random() % size & ~3 may give
    Fallible        \* the calls that may fail

PAGE_SIZE     == 4096
tile_width    == 512
tile_height   == 8
tile_size     == PAGE_SIZE
stride        == Dword * WIDTH
tiles_per_row == stride \div tile_width
size          == stride * HEIGHT

Call == {"open", "create", "tiling", "gtt", "mmap", "query", "wc"}

\* The code's 512 x 512 dwords of 4 bytes satisfy this.
ASSUME SizeAssumption ==
    /\ {Dword, WIDTH, HEIGHT} \subseteq Nat \ {0}
    /\ 64 % Dword = 0 /\ stride % tile_width = 0 /\ HEIGHT % tile_height = 0
ASSUME BoundAssumption ==
    /\ Iterations \in Nat \ {0}
    /\ Samples \subseteq {o \in 0..(size - 1) : o % Dword = 0}
    /\ Fallible \subseteq Call

Mode     == {"none", "9", "9_10", "9_11", "9_10_11"}
Mode17   == {"9_17", "9_10_17"}     \* bit 17 of the physical address counts too
Hardware == Mode \cup Mode17 \cup {"unknown"}
Pages    == 0..((size \div PAGE_SIZE) - 1)

VARIABLES
    pc, verdict, fd,
    hw,         \* how the memory controller swizzles
    high,       \* pages of the object whose physical address has bit 17 set
    data,       \* the pointer of create_bo(): "none", "gtt" or "MAP_FAILED"
    swizzle,    \* the mode the kernel reported
    i,          \* iterations of the loop done
    offset, len,            \* the range that is read
    first_page, last_page   \* the range that is mapped

device == <<hw, high>>
range  == <<offset, len, first_page, last_page>>
vars   == <<pc, verdict, fd, hw, high, data, swizzle, i,
            offset, len, first_page, last_page>>

Card == 3
-----------------------------------------------------------------------------
(* Faulty arithmetic and statements, to see that the properties notice.    *)

RoundDown(n) == n - (n % PAGE_SIZE)

CountOn == /\ verdict = "running" /\ pc = "range" /\ i = Iterations
           /\ i' = i + 1 /\ verdict' = "passed"
           /\ UNCHANGED <<pc, fd, device, data, swizzle, range>>
-----------------------------------------------------------------------------
(* What the program computes.                                              *)

Bit6  == 64
Bit9  == 512
Bit10 == 1024
Bit11 == 2048

Bit(b, j) == (j \div b) % 2

\* ^ swizzle_bit(n, j) inverts bit 6 if bit n of j is set
InvertBit6(j) == IF Bit(Bit6, j) = 0 THEN j + Bit6 ELSE j - Bit6

\* Faulty, to see that the properties notice: bit 11 is taken for bit 10.
WrongBit(mode, j) == IF mode = "none" THEN 0 ELSE Bit(Bit9, j) + Bit(Bit11, j)

Inversions(mode, j) ==
    CASE mode = "9"       -> Bit(Bit9, j)
      [] mode = "9_10"    -> Bit(Bit9, j) + Bit(Bit10, j)
      [] mode = "9_11"    -> Bit(Bit9, j) + Bit(Bit11, j)
      [] mode = "9_10_11" -> Bit(Bit9, j) + Bit(Bit10, j) + Bit(Bit11, j)
      [] OTHER            -> 0

calc_swizzle_offset(mode, j) ==
    IF Inversions(mode, j) % 2 = 1 THEN InvertBit6(j) ELSE j

calculate_expected(j) ==
    LET tile_off   == j % tile_size
        tile_index == j \div tile_size
        base_y == (tile_index \div tiles_per_row) * tile_height
        base_x == (tile_index % tiles_per_row) * (tile_width \div Dword)
        tile_y == tile_off \div tile_width
        tile_x == (tile_off % tile_width) \div Dword
    IN  (base_y + tile_y) * WIDTH + base_x + tile_x
-----------------------------------------------------------------------------
(* What the hardware does.                                                 *)

\* Where the fence register puts dword n of the linear view: tile by tile, in
\* each row by row.
Tiled(n) ==
    LET y == n \div WIDTH
        x == (n % WIDTH) * Dword
        tile == (y \div tile_height) * tiles_per_row + (x \div tile_width)
    IN  tile * tile_size + (y % tile_height) * tile_width + (x % tile_width)

\* What the kernel reports: no address in the object shows bit 17.
Reported == CASE hw = "9_17" -> "9" [] hw = "9_10_17" -> "9_10" [] OTHER -> hw

\* The address bits the memory controller mixes into bit 6.
Bit17 == 131072
MixedBits ==
    CASE hw = "9"       -> {Bit9}
      [] hw = "9_10"    -> {Bit9, Bit10}
      [] hw = "9_11"    -> {Bit9, Bit11}
      [] hw = "9_10_11" -> {Bit9, Bit10, Bit11}
      [] hw = "9_17"    -> {Bit9, Bit17}
      [] hw = "9_10_17" -> {Bit9, Bit10, Bit17}
      [] OTHER          -> {}

\* Pages are aligned: below bit 12 the address of byte j has the bits of j, above
\* it those of its page.
AddressBit(b, j) == IF b = Bit17 THEN (j \div PAGE_SIZE) \in high
                                 ELSE j % (2 * b) >= b

Parity(bits, j) == Cardinality({b \in bits : AddressBit(b, j)}) % 2

\* Where the memory controller stores dword n, seen from the object's pages: of
\* the two lines of a pair, the one the exclusive or of the bits names.
Landed(n) ==
    LET j == Tiled(n)
    IN  (j \div 128) * 128 + 64 * Parity({Bit6} \cup MixedBits, j) + (j % 64)
-----------------------------------------------------------------------------
(* create_bo()                                                             *)

At(label)   == verdict = "running" /\ pc = label
Goto(label) == pc' = label /\ UNCHANGED <<verdict, fd>>
Exit(v)     == verdict' = v /\ UNCHANGED <<pc, fd>>

drm_open_driver ==
    /\ At("open") /\ pc' = "create" /\ UNCHANGED verdict
    /\ \E file \in {Card} \cup (IF "open" \in Fallible THEN {-1} ELSE {}) : fd' = file
    /\ UNCHANGED <<device, data, swizzle, i, range>>

gem_create ==
    /\ At("create")
    /\ \/ fd = Card /\ Goto("tiling")
       \/ (fd # Card \/ "create" \in Fallible) /\ Exit("ioctl")
    /\ UNCHANGED <<device, data, swizzle, i, range>>

\* A kernel that does not know the swizzling does not tile; the mode it writes
\* back fails the wrapper's assert.
gem_set_tiling ==
    /\ At("tiling")
    /\ \/ hw # "unknown" /\ Goto("mapgtt")
       \/ (hw = "unknown" \/ "tiling" \in Fallible) /\ Exit("ioctl")
    /\ UNCHANGED <<device, data, swizzle, i, range>>

gem_mmap__gtt ==
    /\ At("mapgtt")
    /\ \/ data' = "gtt" /\ Goto("fill")
       \/ "mmap" \in Fallible /\ data' = "MAP_FAILED" /\ Goto("fill")
       \/ "gtt" \in Fallible /\ UNCHANGED data /\ Exit("ioctl")
    /\ UNCHANGED <<device, swizzle, i, range>>

\* data[i] = i for every dword, and munmap()
Fill ==
    /\ At("fill")
    /\ \/ data = "gtt" /\ data' = "none" /\ Goto("query")
       \/ data = "MAP_FAILED" /\ UNCHANGED data /\ Exit("sigsegv")
    /\ UNCHANGED <<device, swizzle, i, range>>

\* the result of the ioctl is not looked at: the zeroed argument says "none"
get_tiling ==
    /\ At("query") /\ Goto("range")
    /\ \E mode \in {Reported} \cup (IF "query" \in Fallible THEN {"none"} ELSE {}) :
          swizzle' = mode
    /\ UNCHANGED <<device, data, i, range>>
-----------------------------------------------------------------------------
(* The loop of main().                                                     *)

PageOf(n)   == n - (n % PAGE_SIZE)      \* n & ~(PAGE_SIZE-1)
NextPage(n) == PageOf(n + PAGE_SIZE)

SetRange(o, l) ==
    /\ offset' = o /\ len' = l
    /\ first_page' = PageOf(o) /\ last_page' = NextPage(o + l)

ChooseRange ==
    /\ At("range") /\ i < Iterations /\ Goto("map")
    /\ \/ i = 0 /\ SetRange(0, size)
       \/ /\ i > 0
          /\ \E o, l \in Samples :
                LET length == IF l = 0 THEN Dword ELSE l
                IN  SetRange(o, IF o + length > size THEN size - o ELSE length)
    /\ UNCHANGED <<device, data, swizzle, i>>

\* A kernel may refuse a range that ends behind the object.
gem_mmap__wc ==
    /\ At("map")
    /\ \/ Goto("check")
       \/ (last_page > size \/ "wc" \in Fallible) /\ Exit("ioctl")
    /\ UNCHANGED <<device, data, swizzle, i, range>>

\* The dwords that landed in the range and are not what is expected there.
Mismatches ==
    {n \in 0..(WIDTH * HEIGHT - 1) :
        /\ offset <= Landed(n) /\ Landed(n) < offset + len
        /\ calculate_expected(calc_swizzle_offset(swizzle, Landed(n))) # n}

\* all comparisons of an iteration, and munmap()
Check ==
    /\ At("check")
    /\ \/ Mismatches = {} /\ i' = i + 1 /\ Goto("range")
       \/ Mismatches # {} /\ UNCHANGED i /\ Exit("assert")
    /\ UNCHANGED <<device, data, swizzle, range>>

Success ==
    /\ At("range") /\ i = Iterations /\ Exit("passed")
    /\ UNCHANGED <<device, data, swizzle, i, range>>

Program ==
    \/ drm_open_driver \/ gem_create \/ gem_set_tiling \/ gem_mmap__gtt \/ Fill
    \/ get_tiling \/ ChooseRange \/ gem_mmap__wc \/ Check \/ Success

Exited == verdict # "running" /\ UNCHANGED vars

Init ==
    /\ pc = "open" /\ verdict = "running" /\ fd = -1
    /\ hw \in Hardware
    /\ high \in (IF hw \in Mode17 THEN SUBSET Pages ELSE {{}})
    /\ data = "none" /\ swizzle = "none" /\ i = 0
    /\ offset = 0 /\ len = 0 /\ first_page = 0 /\ last_page = 0

Next == Program \/ Exited
Spec == Init /\ [][Next]_vars
-----------------------------------------------------------------------------
(* Properties.                                                             *)

\* Types of the state.
TypeOK ==
    /\ pc \in {"open", "create", "tiling", "mapgtt", "fill", "query", "range", "map", "check"}
    /\ verdict \in {"running", "passed", "ioctl", "assert", "sigsegv"}
    /\ fd \in {-1, Card} /\ hw \in Hardware /\ high \subseteq Pages
    /\ data \in {"none", "gtt", "MAP_FAILED"} /\ swizzle \in Mode
    /\ i \in 0..Iterations
    /\ offset \in 0..size /\ len \in 0..size
    /\ first_page \in 0..size /\ last_page \in 0..(size + PAGE_SIZE)

\* The mode the program works with is the one by which its pages are swizzled: the
\* query did not fail, and no page lies where bit 17 inverts its lines.
TrueReport == swizzle = Reported /\ high = {}

\* The comparisons (gem_tiled_wc.c:224-228) tell whether the kernel's report is
\* true of the memory controller, as the head of the file says the test is to do
\* ("with respect to the reported swizzling value"): all hold if it is, and if it
\* is not, one of the first range fails, so that the test never passes.
ChecksHold == /\ verdict = "assert" => ~TrueReport
              /\ verdict = "passed" => TrueReport

\* What is read lies in the object and in the mapping (gem_tiled_wc.c:212-223).
ReadsInside ==
    pc = "check" => /\ first_page <= offset /\ offset + len <= last_page
                    /\ len > 0 /\ offset + len <= size

\* "Read a bunch of random subsets of the data" (gem_tiled_wc.c:190): only the
\* object is mapped.
MapsOnlyTheObject == pc = "map" => last_page <= size
=============================================================================
