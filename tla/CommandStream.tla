--------------------------- MODULE CommandStream ----------------------------
(***************************************************************************)
(* The batches the programs write, dword by dword, and the engine that     *)
(* fetches and executes them (gen 8 and later, with 64-bit addresses).     *)
(* Instructions are the commands intel_reg.h defines; the batches are      *)
(* those of the fence programs (a jump to itself), of gem_exec_basic and   *)
(* gem_exec_latency (an end), of store(), of gem_exec_gttfill (a store of  *)
(* its own address) and of gem_linear_blt().                               *)
(*                                                                         *)
(* The driver writes the addresses relocation entries ask for, the engine  *)
(* takes the length of a command from its header, and neither looks at     *)
(* what the program meant.  One program has the engine to itself here.     *)
(***************************************************************************)
EXTENDS Integers, Sequences, FiniteSets

CONSTANTS
    BATCH_SIZE,     \* of gem_exec_gttfill, 4096 << 10
    OBJECT_SIZE,    \* of gem_exec_blt, 16384
    Address,        \* where an object may be bound
    RING_LEN        \* of the ring, in requests

ASSUME PlaceAssumption ==
    /\ BATCH_SIZE \in Nat /\ BATCH_SIZE >= 8 /\ OBJECT_SIZE \in Nat \ {0}
    /\ Address \subseteq {a \in Nat : a < 2^30} /\ Cardinality(Address) > 1
ASSUME RingAssumption == RING_LEN \in Nat \ {0, 1}
\* The object is whole pixels, and its rows (ROW below) have numbers of 16 bits:
\* gem_linear_blt() asserts no more than that there are up to 2^16 of them.
ASSUME SizeAssumption == OBJECT_SIZE % 4 = 0 /\ OBJECT_SIZE <= 65535 * (16 * 1024)

VARIABLES
    batch,      \* the dwords of the batch's object that matter
    relocs,     \* its relocation entries
    place,      \* where each object is bound
    tail, head, \* RING_TAIL and RING_HEAD: requests written and requests done
    acthd,      \* ACTHD: the dword fetched from next, -1 between batches
    ipehr,      \* IPEHR: the header that was fetched: <<h>>, or <<>>
    landed      \* what it stored and copied since the batch was written

streamVars == <<batch, relocs, place, tail, head, acthd, ipehr, landed>>
ring       == <<tail, head>>
engine     == <<tail, head, acthd, ipehr>>
bindings   == <<relocs, place>>

Object == {"batch", "target", "src", "dst"}
Undefined == -1     \* a dword of an array on the stack that was never set
Dwords == 24

\* bits low..high of a dword
Bits(h, high, low) == (h \div 2^low) % 2^(high - low + 1)
-----------------------------------------------------------------------------
(* The commands, by client, opcode, and for 3D commands subopcode; "flags" *)
(* are the bits of the header beside opcode and length that may be set.    *)

MI(op)       == op * 2^23
BLT(op)      == 2 * 2^29 + op * 2^22
GFX(op, sub) == 3 * 2^29 + op * 2^24 + sub * 2^16

\* BR00, bits 20 and 21: write alpha, write RGB; bits 4 to 7: the transparency
\* of a monochrome source or pattern, and the pattern's alignment
Write == {20, 21}
Mono  == Write \cup (4..7)

\* the parser's own, of the i810 on
ParserCommands == {
    [name |-> "GFX_OP_USER_INTERRUPT",  code |-> MI(2),    flags |-> {}]}
ContextCommands == {
    [name |-> "GFX_CMD_CONTEXT_SEL",    code |-> MI(5),    flags |-> {0, 8, 16, 17}]}

MICommands == {
    [name |-> "MI_NOOP",                code |-> MI(0),    flags |-> 0..22],
    [name |-> "MI_WAIT_FOR_EVENT",      code |-> MI(3),    flags |-> {1, 3, 5, 7, 16, 17, 18}],
    [name |-> "MI_FLUSH",               code |-> MI(4),    flags |-> 0..4],
    [name |-> "MI_BATCH_BUFFER_END",    code |-> MI(10),   flags |-> {}],
    [name |-> "MI_OVERLAY_FLIP",        code |-> MI(17),   flags |-> {21, 22}],
    [name |-> "MI_LOAD_SCAN_LINES_INCL", code |-> MI(18),  flags |-> {}],
    [name |-> "MI_VERTEX_BUFFER",       code |-> MI(23),   flags |-> 6..22],
    [name |-> "MI_SET_CONTEXT",         code |-> MI(24),   flags |-> {}],
    [name |-> "MI_STORE_DWORD_IMM",     code |-> MI(32),   flags |-> {21, 22}],
    [name |-> "MI_LOAD_REGISTER_IMM",   code |-> MI(34),   flags |-> {}],
    [name |-> "MI_BATCH_BUFFER",        code |-> MI(48),   flags |-> {}],
    [name |-> "MI_BATCH_BUFFER_START",  code |-> MI(49),   flags |-> {8, 13}]}

\* of BR00, those that have no define of their own further down
BR00Commands == {
    [name |-> "BR00_OP_TEXT_IMMEDIATE_BLT", code |-> BLT(48), flags |-> {}],
    [name |-> "BR00_OP_MONO_SRC_COPY_BLT",  code |-> BLT(68), flags |-> Mono],
    [name |-> "BR00_OP_FULL_BLT",           code |-> BLT(69), flags |-> Write],
    [name |-> "BR00_OP_MONO_SRC_BLT",       code |-> BLT(70), flags |-> Mono],
    [name |-> "BR00_OP_MONO_PAT_BLT",       code |-> BLT(71), flags |-> Mono],
    [name |-> "BR00_OP_MONO_SRC_COPY_IMMEDIATE_BLT", code |-> BLT(97), flags |-> Mono]}

BLTCommands == {
    [name |-> "XY_SETUP_CLIP_BLT",      code |-> BLT(3),   flags |-> {}],
    [name |-> "COLOR_BLT",              code |-> BLT(64),  flags |-> Write],
    [name |-> "XY_FAST_COPY_BLT",       code |-> BLT(66),  flags |-> 8..21],
    [name |-> "SRC_COPY_BLT",           code |-> BLT(67),  flags |-> Write],
    [name |-> "XY_COLOR_BLT",           code |-> BLT(80),  flags |-> Write \cup {11}],
    [name |-> "XY_MONO_PAT_BLT",        code |-> BLT(82),  flags |-> Mono \cup (8..14)],
    [name |-> "XY_SRC_COPY_BLT",        code |-> BLT(83),  flags |-> Write \cup {11, 15}],
    [name |-> "XY_MONO_SRC_BLT",        code |-> BLT(84),  flags |-> Mono],
    [name |-> "XY_PAT_BLT_IMMEDIATE",   code |-> BLT(114), flags |-> {}]}

GFXCommands == {
    [name |-> "STATE3D_COLOR_FACTOR",   code |-> GFX(29, 1), flags |-> {}],
    [name |-> "GFX_OP_COLOR_CHROMA_KEY", code |-> GFX(29, 2), flags |-> {}]}

Instructions == ParserCommands \cup ContextCommands \cup MICommands
                  \cup BR00Commands \cup BLTCommands \cup GFXCommands

\* the header without flags and length
Code(h) == CASE Bits(h, 31, 29) = 0 -> h - Bits(h, 22, 0)
             [] Bits(h, 31, 29) = 2 -> h - Bits(h, 21, 0)
             [] OTHER               -> h - Bits(h, 15, 0)

\* The length, less 2, is in the low byte, or in the low four bits of BR00; an MI
\* command below 0x10 is one dword and has none.
OneDword(h)   == Code(h) \in {MI(op) : op \in 0..15}
LengthBits(h) == IF OneDword(h) THEN 0 ELSE IF Bits(h, 31, 29) = 2 THEN 4 ELSE 8
Length(h)     == IF OneDword(h) THEN 1 ELSE Bits(h, LengthBits(h) - 1, 0) + 2

Flags(h) == {b \in LengthBits(h)..22 : Bits(h - Code(h), b, b) = 1}

Matches(h) == {c \in Instructions : c.code = Code(h) /\ Flags(h) \subseteq c.flags}

Quadword(h) == Bits(h, 21, 21) = 1

\* What the engine takes as operands of the commands the programs use.
Operands(h) ==
    CASE Code(h) = MI(49)  -> 2
      [] Code(h) = MI(32)  -> IF Quadword(h) THEN 4 ELSE 3
      [] Code(h) = BLT(83) -> 9
      [] OTHER             -> 0

WellFormed(h) == h # Undefined /\ Cardinality(Matches(h)) = 1 /\ Length(h) = 1 + Operands(h)
-----------------------------------------------------------------------------
(* The batches.  An entry names the dword it is for.                       *)

Entry(dword, delta, target, presumed) ==
    [dword |-> dword, delta |-> delta, target |-> target, presumed |-> presumed]

\* uint32_t batch[16] on the stack, written as a whole
OnStack(words) == [k \in 1..16 |-> IF k <= Len(words) THEN words[k] ELSE Undefined]
\* an object the kernel has cleared, with these dwords in front
Filled(words) == [k \in 0..(Dwords - 1) |-> IF k < Len(words) THEN words[k + 1] ELSE 0]

Unbound == [o \in {} |-> 0]     \* no object has a place yet

MI_STORE_DWORD_IMM    == MI(32) + 2
MI_BATCH_BUFFER_START == MI(49)
MI_BATCH_BUFFER_END   == MI(10)
COPY_BLT_CMD          == BLT(83) + 6
BLT_WRITE_ALPHA       == 2^21
BLT_WRITE_RGB         == 2^20

\* the batch is written, with its entries
Build(words, entries) ==
    /\ batch' = Filled(words) /\ relocs' = entries /\ landed' = {}
    /\ UNCHANGED engine

\* of the fence programs: a jump to itself
BuildSpinner ==
    /\ Build(<<MI_BATCH_BUFFER_START + 2^8 + 1, 0, 0>>, <<Entry(1, 0, "batch", 0)>>)
    /\ UNCHANGED place

\* a faulty statement: a jump is written in place of the end
JumpBack == BuildSpinner

\* the batch of gem_exec_basic, gem_exec_latency and the fence array programs
BuildEnd == Build(<<MI_BATCH_BUFFER_END>>, <<>>) /\ UNCHANGED place

Release == batch' = [batch EXCEPT ![0] = MI_BATCH_BUFFER_END]
           /\ UNCHANGED <<relocs, place, landed, engine>>

\* faulty statements: the length is not raised; the address goes where it went
\* before addresses had 64 bits
FillTooShort ==
    /\ Build(OnStack(<<MI_STORE_DWORD_IMM + 2^21, BATCH_SIZE - 8, 0, 0, 0, MI_BATCH_BUFFER_END>>),
             <<Entry(1, BATCH_SIZE - 8, "batch", 0), Entry(3, 0, "batch", 0)>>)
    /\ UNCHANGED place
StoreOldEntry(value) ==
    /\ Build(OnStack(<<MI_STORE_DWORD_IMM, 4 * value, 0, value, MI_BATCH_BUFFER_END>>),
             <<Entry(2, 4 * value, "target", -1)>>)
    /\ place' = Unbound

\* store(), into a new object: sixteen dwords are written, of which five are set
BuildStore(value) ==
    /\ Build(OnStack(<<MI_STORE_DWORD_IMM, 4 * value, 0, value, MI_BATCH_BUFFER_END>>),
             <<Entry(1, 4 * value, "target", -1)>>)
    /\ place' = Unbound

\* submit() of gem_exec_gttfill, with batch_start_offset 0: the address of the
\* batch is stored into its last quadword
BuildFill ==
    /\ Build(OnStack(<<MI_STORE_DWORD_IMM + 2^21 + 1, BATCH_SIZE - 8, 0, 0, 0, MI_BATCH_BUFFER_END>>),
             <<Entry(1, BATCH_SIZE - 8, "batch", 0), Entry(3, 0, "batch", 0)>>)
    /\ UNCHANGED place

ROW == 16 * 1024
Br13 == 204 * 2^16 + 2^25 + 2^24 + ROW      \* copy the source, 32 bits a pixel, pitch

\* one part of gem_linear_blt(): rows from y1 to y2, of each the first x2 pixels
Part(y1, y2, x2) ==
    <<COPY_BLT_CMD + BLT_WRITE_ALPHA + BLT_WRITE_RGB + 2, Br13,
      y1 * 2^16, y2 * 2^16 + x2, 0, 0, y1 * 2^16, ROW, 0, 0>>
PartEntries(first) == <<Entry(first + 4, 0, "dst", 0), Entry(first + 8, 0, "src", 0)>>

BuildCopy ==
    LET height == OBJECT_SIZE \div ROW
        rest   == OBJECT_SIZE % ROW
        whole  == IF height > 0 THEN Part(0, height, ROW \div 4) ELSE <<>>
        last   == IF rest > 0 THEN Part(height, height + 1, rest \div 4) ELSE <<>>
    IN  /\ Build(whole \o last \o <<MI_BATCH_BUFFER_END, 0>>,
                 (IF height > 0 THEN PartEntries(0) ELSE <<>>)
                   \o (IF rest > 0 THEN PartEntries(Len(whole)) ELSE <<>>))
        /\ UNCHANGED place
-----------------------------------------------------------------------------
(* The driver.  Objects that are bound stay where they are.                *)

Bindings(objs) ==
    IF DOMAIN place = objs THEN {place}
    ELSE {p \in [objs -> Address] : \A a, b \in objs : p[a] = p[b] => a = b}

\* both halves of an address are written where it is presumed wrongly
Relocated(p) ==
    LET Wrong  == {k \in DOMAIN relocs : relocs[k].presumed # p[relocs[k].target]}
        Low(d) == {k \in Wrong : relocs[k].dword = d}
        High(d) == {k \in Wrong : relocs[k].dword + 1 = d}
        Value(k) == p[relocs[k].target] + relocs[k].delta
    IN  [d \in DOMAIN batch |->
            IF Low(d) # {} THEN Value(CHOOSE k \in Low(d) : TRUE)
            ELSE IF High(d) # {} THEN 0 ELSE batch[d]]

Targets == {relocs[k].target : k \in DOMAIN relocs}

\* The ring is empty where TAIL and HEAD meet, so one place of it stays free.
queued == (tail - head) % RING_LEN
Room   == queued < RING_LEN - 1

\* DRM_IOCTL_I915_GEM_EXECBUFFER2: entries are corrected while the batch is idle,
\* and the caller waits for a place on the ring
Submit ==
    /\ Room
    /\ \E p \in Bindings(Targets) :
          /\ Relocated(p) # batch => queued = 0
          /\ place' = p /\ batch' = Relocated(p)
          /\ relocs' = [k \in DOMAIN relocs |-> [relocs[k] EXCEPT !.presumed = p[relocs[k].target]]]
    /\ tail' = (tail + 1) % RING_LEN
    /\ UNCHANGED <<head, acthd, ipehr, landed>>

Idle == queued = 0
-----------------------------------------------------------------------------
(* The engine.                                                             *)

Begin ==
    /\ acthd = -1 /\ queued > 0 /\ acthd' = 0
    /\ UNCHANGED <<batch, bindings, ring, ipehr, landed>>

Fetch ==
    /\ acthd \in 0..(Dwords - 1) /\ ipehr = <<>> /\ ipehr' = <<batch[acthd]>>
    /\ UNCHANGED <<batch, bindings, ring, acthd, landed>>

\* dword k of the command, and a 64-bit value as its two halves
Dword(k) == batch[acthd + k]
Pair(k)  == <<Dword(k), Dword(k + 1)>>

Store(h) == [op |-> "store", at |-> Pair(1),
             value |-> IF Quadword(h) THEN Pair(3) ELSE <<Dword(3)>>]

\* BR13, BR09 and BR14: where to; BR11, BR12: where from
Copy == [op |-> "copy", rop |-> Bits(Dword(1), 23, 16), to |-> Pair(4), from |-> Pair(8),
         pitch |-> <<Bits(Dword(1), 15, 0), Bits(Dword(7), 15, 0)>>,
         top |-> <<Bits(Dword(2), 31, 16), Bits(Dword(6), 31, 16)>>,
         bottom |-> Bits(Dword(3), 31, 16), width |-> Bits(Dword(3), 15, 0)]

\* a jump to anywhere but the batch leaves the engine there
Execute ==
    /\ ipehr # <<>> /\ WellFormed(ipehr[1]) /\ ipehr' = <<>>
    /\ LET h == ipehr[1] IN
       CASE Code(h) = MI(10) -> acthd' = -1 /\ head' = (head + 1) % RING_LEN /\ UNCHANGED landed
         [] Code(h) = MI(49) -> /\ acthd' = IF Pair(1) = <<place["batch"], 0>> THEN 0 ELSE Dwords
                                /\ UNCHANGED <<head, landed>>
         [] OTHER -> /\ acthd' = acthd + Length(h) /\ UNCHANGED head
                     /\ landed' = landed \cup (CASE Code(h) = MI(32)  -> {Store(h)}
                                                 [] Code(h) = BLT(83) -> {Copy}
                                                 [] OTHER             -> {})
    /\ UNCHANGED <<batch, bindings, tail>>

Engine == Begin \/ Fetch \/ Execute

StreamInit ==
    /\ batch = Filled(<<>>) /\ relocs = <<>> /\ place = Unbound
    /\ tail = 0 /\ head = 0 /\ acthd = -1 /\ ipehr = <<>> /\ landed = {}

StreamTypeOK ==
    /\ batch \in [0..(Dwords - 1) -> Nat \cup {Undefined}]
    /\ DOMAIN place \subseteq Object /\ \A o \in DOMAIN place : place[o] \in Address
    /\ tail \in 0..(RING_LEN - 1) /\ head \in 0..(RING_LEN - 1) /\ acthd \in -1..Dwords
    /\ acthd # -1 => queued > 0
-----------------------------------------------------------------------------
(* Properties.                                                             *)

\* What the engine takes for a command is one: it is defined, is one command of
\* intel_reg.h, and has the length its operands need, so that the next header
\* is one too and the engine never runs out of the batch.
DecodedAsMeant ==
    /\ acthd < Dwords
    /\ ipehr # <<>> => WellFormed(ipehr[1])

\* What has landed is what the source says, where its objects are bound.
StoresOnly(at, value) ==
    \A w \in landed : w = [op |-> "store", at |-> <<at, 0>>, value |-> value]

CopiesRows ==
    \A c \in landed :
        /\ c.op = "copy" /\ c.rop = 204 /\ c.pitch = <<ROW, ROW>> /\ c.top[1] = c.top[2]
        /\ c.to = <<place["dst"], 0>> /\ c.from = <<place["src"], 0>>

\* Of every row of the object the bytes that belong to it are copied, all of
\* them and no more, and no row behind its end.
RowBytes(r) == IF (r + 1) * ROW <= OBJECT_SIZE THEN ROW ELSE OBJECT_SIZE - r * ROW
CopiesObject ==
    /\ \A r \in 0..((OBJECT_SIZE - 1) \div ROW) :
          {4 * c.width : c \in {d \in landed : r \in d.top[1]..(d.bottom - 1)}} = {RowBytes(r)}
    /\ \A c \in landed : (c.bottom - 1) * ROW < OBJECT_SIZE
=============================================================================
