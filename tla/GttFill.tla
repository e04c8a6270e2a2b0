------------------------------ MODULE GttFill -------------------------------
(***************************************************************************)
(* gem_exec_gttfill.c: one batch more than the GTT has room for, so that   *)
(* every pass evicts some.  Each batch stores its own address into itself; *)
(* after a pass the program compares the address the driver wrote into the *)
(* batch with the one the batch stored.  All batches go to one ring and    *)
(* only the last is waited for.                                            *)
(*                                                                         *)
(* The driver finds a place for a batch when it is submitted and corrects  *)
(* the addresses in it only where the relocation entry's presumed offset   *)
(* is wrong.  The two entries of a batch have the same target and are      *)
(* always reset and corrected together: they are one here.                 *)
(***************************************************************************)
EXTENDS Integers

CONSTANTS
    Aperture,       \* bytes of GTT the kernel has
    Fallback,       \* what gem_aperture_size assumes when both ioctls fail
    Limit,          \* 4 GiB: the program does not ask for 48-bit addresses
    BatchSize,
    MaxPass,        \* bound: passes until_timeout allows
    Fallible        \* the calls that may fail

Call == {"open", "aperture", "create", "wc", "gtt", "mmap", "exec", "wait"}

ASSUME SizeAssumption ==
    /\ BatchSize \in Nat \ {0} /\ Fallback \in Nat
    /\ Aperture \in Nat /\ Limit \in Nat
    /\ BatchSize <= Aperture /\ BatchSize <= Limit
ASSUME PassAssumption == MaxPass \in Nat \ {0}
ASSUME FallibleAssumption == Fallible \subseteq Call

VARIABLES
    pc, verdict, fd,
    count,      \* batches, 0 before they are allocated
    i,          \* the loop index of the statement at pc
    cycles,     \* passes completed
    presumed,   \* presumed_offset of the relocation entries all batches share
    open,       \* batches whose handle is open
    ptr,        \* kind of mapping each batch has
    word,       \* the address in the batch
    stored,     \* what the batch's last dwords hold
    place,      \* where the driver put the batch
    inflight,   \* batches submitted and not complete
    before      \* what the ring still had to run when the batch was submitted

loop    == <<count, cycles>>
objects == <<open, ptr>>
device  == <<stored, place, inflight, before>>
vars    == <<pc, verdict, fd, count, i, cycles, presumed, open, ptr, word,
             stored, place, inflight, before>>

Card    == 3
Unbound == -1
Batch   == 1..count
Capped(size) == IF size > Limit THEN Limit ELSE size
Slot    == 0..(Capped(Aperture) \div BatchSize - 1)   \* in units of BatchSize

Verdict == {"running", "passed", "ioctl", "assert", "sigsegv"}
Label   == {"open", "allocate", "create", "map", "mapgtt", "again", "write",
            "exec", "sync", "check", "cleanup"}

At(label) == verdict = "running" /\ pc = label
MayFail(call) == fd # Card \/ call \in Fallible
Die(v) == verdict' = v /\ UNCHANGED <<pc, fd, count, i, cycles, presumed, open, ptr,
                                       word, stored, place, inflight, before>>

\* the next iteration of the loop, or what follows it
Step(again, after) ==
    /\ pc' = IF i < count THEN again ELSE after
    /\ i' = IF i < count THEN i + 1 ELSE 1
    /\ UNCHANGED <<verdict, fd>>
Goto(label) == pc' = label /\ UNCHANGED <<verdict, fd, i>>
-----------------------------------------------------------------------------
(* Faulty statements, to see that the properties below notice them.        *)

AllocateWith(n) ==
    /\ At("allocate") /\ Goto("create")
    /\ count' = n
    /\ ptr' = [b \in 1..n |-> "none"]
    /\ word' = [b \in 1..n |-> 0]
    /\ stored' = [b \in 1..n |-> 0]
    /\ place' = [b \in 1..n |-> Unbound]
    /\ before' = [b \in 1..n |-> {}]
    /\ UNCHANGED <<cycles, presumed, open, inflight>>

AllocateOneLess == AllocateWith(Capped(Aperture) \div BatchSize)

KeepPresumed ==
    /\ At("write") /\ word' = [word EXCEPT ![i] = 0] /\ Goto("exec")
    /\ UNCHANGED <<loop, presumed, objects, device>>

SyncFirst == At("sync") /\ 1 \notin inflight /\ Goto("check")
             /\ UNCHANGED <<loop, presumed, objects, word, device>>

RestartTimer ==
    /\ At("again") /\ cycles' = 0
    /\ \/ cycles < MaxPass /\ Goto("write")
       \/ cycles > 0 /\ Goto("cleanup")
    /\ UNCHANGED <<count, presumed, objects, word, device>>

KeepMapping ==
    /\ At("cleanup") /\ open' = open \ {i}
    /\ \/ i < count /\ Step("cleanup", "cleanup")
       \/ i = count /\ verdict' = "passed" /\ UNCHANGED <<pc, fd, i>>
    /\ UNCHANGED <<loop, presumed, ptr, word, device>>

CountEveryBatch ==
    /\ At("check") /\ cycles' = cycles + 1 /\ Step("check", "again")
    /\ UNCHANGED <<count, presumed, objects, word, device>>
-----------------------------------------------------------------------------
(* main() and fillgtt()                                                    *)

drm_open_driver ==
    /\ At("open") /\ pc' = "allocate"
    /\ \E file \in {Card} \cup (IF "open" \in Fallible THEN {-1} ELSE {}) : fd' = file
    /\ UNCHANGED <<verdict, i, loop, presumed, objects, word, device>>

\* if neither ioctl answers, the size is a guess
gem_aperture_size == (IF fd = Card THEN {Aperture} ELSE {})
                         \cup (IF MayFail("aperture") THEN {Fallback} ELSE {})

\* the limit, the count and calloc()
Allocate ==
    \E size \in gem_aperture_size : AllocateWith(Capped(size) \div BatchSize + 1)

Create ==
    /\ At("create")
    /\ \/ /\ fd = Card /\ open' = open \cup {i} /\ Goto("map")
          /\ UNCHANGED <<loop, presumed, ptr, word, device>>
       \/ MayFail("create") /\ Die("ioctl")

Map(kind) ==
    /\ ptr' = [ptr EXCEPT ![i] = kind]
    /\ Step("create", "again")
    /\ UNCHANGED <<loop, presumed, open, word, device>>

MapWC ==
    /\ At("map")
    /\ \/ Map("wc")
       \/ "wc" \in Fallible /\ Goto("mapgtt")
          /\ UNCHANGED <<loop, presumed, objects, word, device>>

\* the assert looks for NULL; mmap() reports failure as MAP_FAILED
gem_mmap__gtt ==
    \/ Map("gtt")
    \/ "gtt" \in Fallible /\ Die("ioctl")
    \/ "mmap" \in Fallible /\ Map("MAP_FAILED")

MapGTT == At("mapgtt") /\ gem_mmap__gtt

\* until_timeout(): the first reading of the clock starts it and returns 0
Again ==
    /\ At("again")
    /\ \/ cycles < MaxPass /\ Goto("write")
       \/ cycles > 0 /\ Goto("cleanup")
    /\ UNCHANGED <<loop, presumed, objects, word, device>>

\* submit(), one batch: the entries are reset, the batch is written anew
Write ==
    /\ At("write")
    /\ \/ /\ ptr[i] # "MAP_FAILED"
          /\ presumed' = 0
          /\ word' = [word EXCEPT ![i] = 0]
          /\ Goto("exec") /\ UNCHANGED <<loop, objects, device>>
       \/ ptr[i] = "MAP_FAILED" /\ Die("sigsegv")

\* places where nothing has to be waited for: i stays where it is bound, or
\* takes a place whose owner, if any, is idle and loses it
Choice ==
    IF place[i] # Unbound THEN {place[i]}
    ELSE {s \in Slot : \A b \in inflight : place[b] # s}

Relocate(s) ==
    /\ word' = IF presumed = s THEN word ELSE [word EXCEPT ![i] = s]
    /\ presumed' = s

Exec ==
    /\ At("exec")
    /\ \/ \E s \in Choice :
            /\ place' = [b \in Batch |-> IF b = i THEN s
                                         ELSE IF place[b] = s THEN Unbound ELSE place[b]]
            /\ Relocate(s)
            /\ inflight' = inflight \cup {i}
            /\ before' = [before EXCEPT ![i] = inflight]
            /\ Step("write", "sync")
            /\ UNCHANGED <<loop, objects, stored>>
       \/ "exec" \in Fallible /\ Die("ioctl")

\* obj.handle is the last batch's
Sync ==
    /\ At("sync")
    /\ \/ count \notin inflight /\ Goto("check")
          /\ UNCHANGED <<loop, presumed, objects, word, device>>
       \/ "wait" \in Fallible /\ Die("ioctl")

Check ==
    /\ At("check")
    /\ \/ /\ word[i] = stored[i]
          /\ cycles' = IF i < count THEN cycles ELSE cycles + 1
          /\ Step("check", "again")
          /\ UNCHANGED <<count, presumed, objects, word, device>>
       \/ word[i] # stored[i] /\ Die("assert")

Cleanup ==
    /\ At("cleanup")
    /\ open' = open \ {i}
    /\ ptr' = [ptr EXCEPT ![i] = "none"]
    /\ \/ i < count /\ Step("cleanup", "cleanup")
       \/ i = count /\ verdict' = "passed" /\ UNCHANGED <<pc, fd, i>>
    /\ UNCHANGED <<loop, presumed, word, device>>

Program ==
    \/ drm_open_driver \/ Allocate \/ Create \/ MapWC \/ MapGTT \/ Again
    \/ Write \/ Exec \/ Sync \/ Check \/ Cleanup
-----------------------------------------------------------------------------
(* The device.  The ring runs in order; a batch stores the address in it    *)
(* at that address, wherever that is.                                      *)

Execute(b) ==
    /\ b \in inflight /\ before[b] \cap inflight = {}
    /\ stored' = [o \in Batch |-> IF place[o] = word[b] THEN word[b] ELSE stored[o]]
    /\ inflight' = inflight \ {b}
    /\ UNCHANGED <<pc, verdict, fd, i, loop, presumed, objects, word, place, before>>

\* other clients of the GTT may push out any idle batch at any time
Evict(b) ==
    /\ b \notin inflight /\ place[b] # Unbound
    /\ place' = [place EXCEPT ![b] = Unbound]
    /\ UNCHANGED <<pc, verdict, fd, i, loop, presumed, objects, word, stored,
                   inflight, before>>

Exited == verdict # "running" /\ UNCHANGED vars

Init ==
    /\ pc = "open" /\ verdict = "running" /\ fd = -1
    /\ count = 0 /\ i = 1 /\ cycles = 0 /\ presumed = 0
    /\ open = {} /\ inflight = {}
    /\ ptr = [b \in {} |-> "none"] /\ before = [b \in {} |-> {}]
    /\ word = [b \in {} |-> 0] /\ stored = [b \in {} |-> 0]
    /\ place = [b \in {} |-> Unbound]

Next == Program \/ (\E b \in Batch : Execute(b) \/ Evict(b)) \/ Exited
Spec == Init /\ [][Next]_vars

\* The process is scheduled and the ring runs what it may; nobody has to evict.
FairSpec == Spec /\ WF_vars(Program) /\ WF_vars(\E b \in Batch : Execute(b))
-----------------------------------------------------------------------------
(* Properties.                                                             *)

\* Types of the state; the arrays have one entry for each batch allocated.
TypeOK ==
    /\ pc \in Label /\ verdict \in Verdict /\ fd \in {-1, Card}
    /\ count \in Nat /\ i \in Nat /\ cycles \in 0..MaxPass
    /\ presumed \in Slot
    /\ open \subseteq Batch /\ inflight \subseteq Batch
    /\ ptr \in [Batch -> {"none", "wc", "gtt", "MAP_FAILED"}]
    /\ word \in [Batch -> Slot] /\ stored \in [Batch -> Slot]
    /\ place \in [Batch -> Slot \cup {Unbound}]
    /\ before \in [Batch -> SUBSET Batch]

\* A batch on the ring holds the address it is bound at, so it stores into
\* itself and into nothing else, however often it has been moved.
StoresHome == \A b \in inflight : word[b] = place[b]

\* The program never rewrites a batch the engine may still read, although it
\* waited for one batch only (gem_exec_gttfill.c:76, 82).
IdleWhenWritten == At("write") => i \notin inflight

\* When the batches are read back every one of them has run: waiting for the
\* last one is enough on one ring.
CheckedAfterRun == At("check") => inflight = {}

\* assert(offset == delta) never fails (gem_exec_gttfill.c:130).
ChecksHold == verdict # "assert"

\* The GTT never holds all batches at once, so every pass evicts, whatever the
\* size and the 4 GiB limit are, as long as the kernel tells the size.
NeverAllResident == count > 0 => \E b \in Batch : place[b] = Unbound

\* A run that passes made at least one pass and gave everything back.
PassIsClean ==
    verdict = "passed" => /\ cycles > 0 /\ inflight = {} /\ open = {}
                          /\ \A b \in Batch : ptr[b] = "none"

\* A batch always finds a place in the end and the program ends.
Terminates == <>(verdict # "running")

\* "Like __gem_mmap__gtt() except we assert on failure" (gkit_lib.h:247): no
\* caller is left with a pointer it cannot use.
MappingIsUsable == \A b \in Batch : ptr[b] # "MAP_FAILED"
=============================================================================
