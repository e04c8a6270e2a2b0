-------------------------------- MODULE Blt ---------------------------------
(***************************************************************************)
(* gem_exec_blt.c, run(): one batch that copies src to dst is submitted    *)
(* once and then Loops times without waiting.  gem_linear_blt() writes the *)
(* batch: one rectangle of whole rows, one for what is left, with two      *)
(* relocation entries each, for the address of dst and of src.             *)
(*                                                                         *)
(* The first submission names the targets of the entries by their index in *)
(* exec[] (HANDLE_LUT) and lets the driver skip the entries while no       *)
(* object has moved (NO_RELOC).  If the driver refuses, the batch is built *)
(* again with handles, for a driver that does not know these flags.        *)
(***************************************************************************)
EXTENDS Integers

CONSTANTS
    Sizes,      \* what OBJECT_SIZE may be defined as; it is one row, 16 KiB
    ROW,        \* the pitch, 16 * 1024 bytes
    Pixel,      \* 4 bytes
    Field,      \* 1 << 16, the range of a coordinate
    Buffer,     \* bytes of buf[], 80
    Address,    \* where an object can be bound; 0 is such a place
    Loops,      \* bound: 1 << 12 in the code
    Fallible    \* the calls that may fail

Call == {"open", "create", "write", "lut", "exec", "wait"}

ASSUME SizeAssumption ==
    /\ {ROW, Pixel, Field} \subseteq Nat \ {0} /\ Buffer \in Nat /\ ROW % Pixel = 0
    /\ Sizes \subseteq {s \in Nat : s > 0 /\ s % Pixel = 0 /\ s <= (Field - 1) * ROW}
ASSUME BoundAssumption ==
    /\ Address \subseteq Nat /\ 0 \in Address
    /\ Loops \in Nat /\ Fallible \subseteq Call

VARIABLES
    pc, verdict,
    object_size,
    flags,              \* of execbuf, without the ring
    len, batch_len,     \* bytes of the batch: the local variable, and execbuf's
    loop,               \* submissions of the loop made
    target, presumed,   \* target_handle and presumed_offset of each entry
    offset,             \* exec[].offset
    word,               \* the address in the batch each entry is for
    place,              \* where each object is bound
    queued,             \* submissions the engine has not run
    copied              \* submissions the engine has run

sizes  == <<object_size, len, batch_len>>
relocs == <<target, presumed>>
engine == <<queued, copied>>
vars   == <<pc, verdict, object_size, flags, len, batch_len, loop, target, presumed,
            offset, word, place, queued, copied>>

Batch == 1      \* the handles, in the order of creation
Src   == 2
Dst   == 3
Object  == {Batch, Src, Dst}
Unbound == -1

At(label)   == verdict = "running" /\ pc = label
Goto(label) == pc' = label /\ UNCHANGED verdict
Exit(v)     == verdict' = v /\ UNCHANGED pc
-----------------------------------------------------------------------------
(* gem_linear_blt()                                                        *)

height(length) == length \div ROW
rest(length)   == length % ROW

\* a faulty statement: the last row one row too low
RowTooLow(length) ==
    {r \in {[y1 |-> 1 + height(length), y2 |-> 2 + height(length), x2 |-> rest(length) \div Pixel]} :
        rest(length) > 0}

\* rows y1..y2-1, and of each the first x2 pixels; a coordinate keeps to its field
WholeRows(length) ==
    {r \in {[y1 |-> 0, y2 |-> height(length) % Field, x2 |-> ROW \div Pixel]} :
        height(length) > 0}

LastRow(length) ==
    {r \in {[y1 |-> height(length) % Field, y2 |-> (1 + height(length)) % Field,
             x2 |-> rest(length) \div Pixel]} :
        rest(length) > 0}

Rectangles(length) == WholeRows(length) \cup LastRow(length)

Parts(length) == IF height(length) > 0 /\ rest(length) > 0 THEN 2 ELSE 1

\* ten dwords for each part, and two that end the batch
Length(length) == 4 * (10 * Parts(length) + 2)

\* the entries of each part: for dst, then for src
Entries == 1..(2 * Parts(object_size))
ForDst(k) == k % 2 = 1

gem_linear_blt(src, dst) ==
    /\ target' = [k \in Entries |-> IF ForDst(k) THEN dst ELSE src]
    /\ presumed' = [k \in Entries |-> 0]
    /\ len' = Length(object_size)

relocation_count == IF batch_len > 56 THEN 4 ELSE 2
-----------------------------------------------------------------------------
(* The driver binds the objects, corrects the addresses and queues the     *)
(* batch; what is queued is neither moved nor written.                     *)

exec == [n \in 0..2 |-> CASE n = 0 -> Src [] n = 1 -> Dst [] n = 2 -> Batch]

Known(t)  == IF "lut" \in flags THEN t \in DOMAIN exec ELSE t \in Object
Lookup(t) == IF "lut" \in flags THEN exec[t] ELSE t

Relocated == Entries \cap (1..relocation_count)
NamesKnown == \A k \in Relocated : Known(target[k])

\* an object that is bound stays where it is
Binding ==
    {p \in [Object -> Address] :
        /\ \A a, b \in Object : p[a] = p[b] => a = b
        /\ \A o \in Object : place[o] # Unbound => p[o] = place[o]}

Wrong(p) == {k \in Relocated : presumed[k] # p[Lookup(target[k])]}
Skipped(p) == "no_reloc" \in flags /\ offset = p

\* the batch is written when it is idle only
Relocate(p) ==
    LET fixed == IF Skipped(p) THEN {} ELSE Wrong(p)
        Fix(f) == [k \in Entries |-> IF k \in fixed THEN p[Lookup(target[k])] ELSE f[k]]
    IN  /\ fixed # {} => queued = 0
        /\ word' = Fix(word) /\ presumed' = Fix(presumed)
        /\ place' = p
        /\ UNCHANGED target

Accept ==
    /\ NamesKnown
    /\ \E p \in Binding : Relocate(p) /\ offset' = p
    /\ queued' = queued + 1
    /\ UNCHANGED <<copied, flags, sizes>>

\* refused at once, or after the addresses were corrected
Refuse ==
    /\ \/ UNCHANGED <<relocs, word, place>>
       \/ NamesKnown /\ \E p \in Binding : Relocate(p)
    /\ UNCHANGED <<offset, engine, flags, sizes>>
-----------------------------------------------------------------------------
(* Faulty statements, to see that the properties below notice them.        *)

KeepWords ==
    /\ At("rewrite") /\ flags' = {} /\ Goto("resubmit")
    /\ UNCHANGED <<sizes, loop, relocs, offset, word, place, engine>>

KeepFlags ==
    /\ At("rewrite") /\ word' = [k \in Entries |-> 0] /\ Goto("resubmit")
    /\ UNCHANGED <<flags, sizes, loop, relocs, offset, place, engine>>

OnceMore == At("loop") /\ loop <= Loops /\ loop' = loop + 1 /\ Accept
            /\ UNCHANGED <<pc, verdict>>
-----------------------------------------------------------------------------
(* run()                                                                   *)

Die(call) ==
    /\ call \in Fallible /\ Exit("ioctl")
    /\ UNCHANGED <<flags, sizes, loop, relocs, offset, word, place, engine>>

Create ==
    /\ At("create")
    /\ \/ /\ Goto("build")
          /\ UNCHANGED <<flags, sizes, loop, relocs, offset, word, place, engine>>
       \/ Die("open") \/ Die("create")

\* Two parts are more than buf[] holds: the process goes on, or its stack is spoilt.
Build ==
    /\ At("build") /\ gem_linear_blt(0, 1)
    /\ \/ Goto("write")
       \/ Length(object_size) > Buffer /\ Exit("overflow")
    /\ UNCHANGED <<object_size, batch_len, flags, loop, offset, word, place, engine>>

gem_write == word' = [k \in Entries |-> 0]

\* and exec[] and execbuf are filled in
Write ==
    /\ At("write")
    /\ \/ /\ gem_write /\ batch_len' = len /\ flags' = {"lut", "no_reloc"}
          /\ offset' = [o \in Object |-> 0] /\ Goto("submit")
          /\ UNCHANGED <<object_size, len, loop, relocs, place, engine>>
       \/ Die("write")

Submit ==
    /\ At("submit") /\ UNCHANGED loop
    /\ \/ Accept /\ Goto("sync")
       \/ (~NamesKnown \/ "lut" \in Fallible) /\ Refuse /\ Goto("rebuild")

Rebuild ==
    /\ At("rebuild") /\ gem_linear_blt(Src, Dst)
    /\ \/ len' = batch_len /\ Goto("rewrite")
       \/ len' # batch_len /\ Exit("assert")
    /\ UNCHANGED <<object_size, batch_len, flags, loop, offset, word, place, engine>>

Rewrite ==
    /\ At("rewrite")
    /\ \/ /\ gem_write /\ flags' = {} /\ Goto("resubmit")
          /\ UNCHANGED <<sizes, loop, relocs, offset, place, engine>>
       \/ Die("write")

\* gem_execbuf(): the target of an entry is not known, or the ioctl fails
Resubmit ==
    /\ At("resubmit")
    /\ \/ Accept /\ Goto("sync") /\ UNCHANGED loop
       \/ ~NamesKnown /\ Exit("unknown")
          /\ UNCHANGED <<flags, sizes, loop, relocs, offset, word, place, engine>>
       \/ Die("exec")

Sync ==
    /\ At("sync")
    /\ \/ queued = 0 /\ Goto("loop")
          /\ UNCHANGED <<flags, sizes, loop, relocs, offset, word, place, engine>>
       \/ Die("wait")

Again ==
    /\ At("loop") /\ loop < Loops /\ Accept
    /\ loop' = loop + 1 /\ UNCHANGED <<pc, verdict>>

Loop ==
    \/ Again
    \/ At("loop") /\ loop < Loops /\ Die("exec")
    \/ At("loop") /\ loop = Loops /\ Goto("last")
       /\ UNCHANGED <<flags, sizes, loop, relocs, offset, word, place, engine>>

\* the second gem_sync(), after which the time is taken and printed
Last ==
    /\ At("last")
    /\ \/ queued = 0 /\ Exit("passed")
          /\ UNCHANGED <<flags, sizes, loop, relocs, offset, word, place, engine>>
       \/ Die("wait")

Program == Create \/ Build \/ Write \/ Submit \/ Rebuild \/ Rewrite \/ Resubmit
              \/ Sync \/ Loop \/ Last
-----------------------------------------------------------------------------
Copy ==
    /\ queued > 0 /\ queued' = queued - 1 /\ copied' = copied + 1
    /\ UNCHANGED <<pc, verdict, flags, sizes, loop, relocs, offset, word, place>>

\* other clients may push out what the engine does not use
Evict(o) ==
    /\ queued = 0 /\ place[o] # Unbound
    /\ place' = [place EXCEPT ![o] = Unbound]
    /\ UNCHANGED <<pc, verdict, flags, sizes, loop, relocs, offset, word, engine>>

Exited == verdict # "running" /\ UNCHANGED vars

Init ==
    /\ pc = "create" /\ verdict = "running"
    /\ object_size \in Sizes
    /\ flags = {} /\ len = 0 /\ batch_len = 0 /\ loop = 0
    /\ target = [k \in Entries |-> 0] /\ presumed = [k \in Entries |-> 0]
    /\ offset = [o \in Object |-> 0] /\ word = [k \in Entries |-> 0]
    /\ place = [o \in Object |-> Unbound]
    /\ queued = 0 /\ copied = 0

Next == Program \/ Copy \/ (\E o \in Object : Evict(o)) \/ Exited
Spec == Init /\ [][Next]_vars
-----------------------------------------------------------------------------
(* Properties.                                                             *)

Label == {"create", "build", "write", "submit", "rebuild", "rewrite", "resubmit",
          "sync", "loop", "last"}

\* Types of the state.
TypeOK ==
    /\ pc \in Label
    /\ verdict \in {"running", "passed", "ioctl", "assert", "overflow", "unknown"}
    /\ object_size \in Sizes /\ flags \subseteq {"lut", "no_reloc"}
    /\ len \in Nat /\ batch_len \in Nat /\ loop \in 0..Loops
    /\ target \in [Entries -> 0..3] /\ presumed \in [Entries -> Address]
    /\ offset \in [Object -> Address] /\ word \in [Entries -> Address]
    /\ place \in [Object -> Address \cup {Unbound}]
    /\ queued \in Nat /\ copied \in Nat

\* The rectangles are the object, not a byte less or more.
Covered(length) ==
    UNION {{y * ROW + b : y \in r.y1..(r.y2 - 1), b \in 0..(r.x2 * Pixel - 1)} :
              r \in Rectangles(length)}
CoversExactly == Covered(object_size) = 0..(object_size - 1)

\* Every submission the engine runs copies from src to dst, wherever they have
\* been moved and however the entries named them.
CopiesSrcToDst ==
    queued > 0 => \A k \in Entries : word[k] = place[IF ForDst(k) THEN Dst ELSE Src]

\* The entries name objects the driver finds, by index and by handle: it is for
\* another reason if the submission is refused, and no assert fails.
NamesFound == verdict \notin {"assert", "unknown"}
              /\ (pc \in {"submit", "resubmit", "loop"} => NamesKnown)

\* The time is taken when every copy has been made (gem_exec_blt.c:209).
TimedWhenDone == verdict = "passed" => queued = 0 /\ copied = Loops + 1
=============================================================================
