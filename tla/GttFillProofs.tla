--------------------------- MODULE GttFillProofs ----------------------------
(***************************************************************************)
(* Proofs about GttFill, for every GTT size, limit, batch size and set of  *)
(* calls that may fail.                                                    *)
(***************************************************************************)
EXTENDS GttFill, FiniteSetTheorems, TLAPS

Setup == {"open", "allocate"}
Quiet == {"create", "map", "mapgtt", "again", "check", "cleanup"}

\* The loop index points into the array once there is one.
IndexInv ==
    /\ pc \in Setup => count = 0 /\ i = 1
    /\ pc \notin Setup => i \in Batch
    /\ pc \in {"again", "sync"} => i = 1

\* The batches in flight are the last ones submitted, in the order of their
\* index; between passes there are none.
Submitted == IF pc \in {"write", "exec"} THEN 1..(i - 1) ELSE Batch

RingInv ==
    /\ pc \in Quiet => inflight = {}
    /\ inflight \subseteq Submitted
    /\ \A b \in inflight : \A c \in Submitted : b < c => c \in inflight
    /\ \A b \in inflight : \A c \in before[b] : c < b
    /\ \A b \in inflight : \A c \in inflight : c < b => c \in before[b]

\* No two batches share a place, and a batch in flight holds its own address.
PlaceInv ==
    /\ \A a, b \in Batch : place[a] = place[b] /\ place[a] # Unbound => a = b
    /\ StoresHome

\* A batch about to be submitted agrees with the entries about to be used.
ResetInv == pc = "exec" => presumed = 0 /\ word[i] = 0

\* A batch of this pass that is no longer in flight has stored its address.
ResultInv ==
    /\ pc \in {"write", "exec", "sync", "check"} =>
          \A b \in Submitted \ inflight : stored[b] = word[b]
    /\ verdict # "assert"

\* A pass starts while there is time; cleaning up follows one, and what lies
\* behind its index is given back.
EndInv ==
    /\ verdict = "passed" => pc = "cleanup" /\ open = {}
                             /\ \A b \in Batch : ptr[b] = "none"
    /\ pc \in {"write", "exec", "sync", "check"} => cycles < MaxPass
    /\ pc = "cleanup" => /\ cycles > 0
                         /\ \A b \in Batch : b < i => b \notin open /\ ptr[b] = "none"

IInv == TypeOK /\ IndexInv /\ RingInv /\ PlaceInv /\ ResetInv /\ ResultInv /\ EndInv
-----------------------------------------------------------------------------
LEMMA Sizes ==
    /\ 0 \in Slot /\ Unbound \notin Slot /\ Slot \subseteq Nat
    /\ \A size \in gem_aperture_size : Capped(size) \div BatchSize + 1 \in Nat \ {0}
  <1>1. \A size \in Nat : Capped(size) \div BatchSize \in Nat
    BY SizeAssumption DEF Capped
  <1>2. Capped(Aperture) \div BatchSize >= 1
    <2>1. Capped(Aperture) \in Nat /\ Capped(Aperture) >= BatchSize
      BY SizeAssumption DEF Capped
    <2>. QED BY <2>1, SizeAssumption
  <1>3. gem_aperture_size \subseteq Nat
    BY SizeAssumption DEF gem_aperture_size
  <1>. QED BY <1>1, <1>2, <1>3, SizeAssumption DEF Slot, Unbound

\* A dying process keeps everything but its verdict.
LEMMA DieKeeps ==
    ASSUME IInv, NEW v \in {"ioctl", "sigsegv"}, Die(v)
    PROVE  IInv'
  BY DEF IInv, Die, TypeOK, Verdict, Batch, IndexInv, RingInv, Submitted, PlaceInv,
         StoresHome, ResetInv, ResultInv, EndInv

\* What PlaceInv speaks of changes in Allocate, Write, Exec and on the device only.
LEMMA PlaceKept ==
    PlaceInv /\ UNCHANGED <<count, word, place, inflight>> => PlaceInv'
  BY DEF PlaceInv, StoresHome, Batch
-----------------------------------------------------------------------------
(* The statements of the program.                                          *)

LEMMA drm_open_driverKeeps == IInv /\ drm_open_driver => IInv'
  <1>. SUFFICES ASSUME IInv, drm_open_driver PROVE IInv'
    OBVIOUS
  <1>1. TypeOK'
    BY Sizes DEF IInv, TypeOK, Verdict, Label, IndexInv, Setup, drm_open_driver,
                 Card, At, Batch, loop, objects, device
  <1>2. IndexInv'
    BY DEF IInv, TypeOK, IndexInv, Setup, drm_open_driver, Card, At, Batch, loop,
           objects, device
  <1>3. RingInv'
    BY DEF IInv, TypeOK, IndexInv, Setup, RingInv, Quiet, Submitted,
           drm_open_driver, Card, At, Batch, loop, objects, device
  <1>4. PlaceInv'
    BY PlaceKept DEF IInv, drm_open_driver, Card, At, Batch, loop, objects, device
  <1>5. ResetInv'
    BY DEF IInv, TypeOK, IndexInv, Setup, ResetInv, drm_open_driver, Card, At,
           Batch, loop, objects, device
  <1>6. ResultInv'
    BY DEF IInv, TypeOK, IndexInv, Setup, RingInv, Quiet, ResultInv, Submitted,
           drm_open_driver, Card, At, Batch, loop, objects, device
  <1>7. EndInv'
    BY DEF IInv, TypeOK, IndexInv, Setup, EndInv, drm_open_driver, Card, At, Batch,
           loop, objects, device
  <1>. QED BY <1>1, <1>2, <1>3, <1>4, <1>5, <1>6, <1>7 DEF IInv

LEMMA AllocateKeeps == IInv /\ Allocate => IInv'
  <1>. SUFFICES ASSUME IInv, Allocate PROVE IInv'
    OBVIOUS
  <1>1. TypeOK'
    BY Sizes DEF IInv, TypeOK, Verdict, Label, IndexInv, Setup, Allocate,
                 AllocateWith, At, Goto, Batch
  <1>2. IndexInv'
    BY Sizes DEF IInv, TypeOK, IndexInv, Setup, Allocate, AllocateWith, At, Goto,
                 Batch
  <1>3. RingInv'
    BY DEF IInv, TypeOK, IndexInv, Setup, RingInv, Quiet, Submitted, Allocate,
           AllocateWith, At, Goto, Batch
  <1>4. PlaceInv'
    BY DEF IInv, TypeOK, IndexInv, Setup, PlaceInv, StoresHome, Unbound, Allocate,
           AllocateWith, At, Goto, Batch
  <1>5. ResetInv'
    BY DEF IInv, TypeOK, IndexInv, Setup, ResetInv, Allocate, AllocateWith, At,
           Goto, Batch
  <1>6. ResultInv'
    BY DEF IInv, TypeOK, IndexInv, Setup, RingInv, Quiet, ResultInv, Submitted,
           Allocate, AllocateWith, At, Goto, Batch
  <1>7. EndInv'
    BY DEF IInv, TypeOK, IndexInv, Setup, EndInv, Allocate, AllocateWith, At, Goto,
           Batch
  <1>. QED BY <1>1, <1>2, <1>3, <1>4, <1>5, <1>6, <1>7 DEF IInv

LEMMA CreateKeeps == IInv /\ Create => IInv'
  <1>. SUFFICES ASSUME IInv, Create PROVE IInv'
    OBVIOUS
  <1>a. CASE Die("ioctl")
    BY <1>a, DieKeeps
  <1>b. CASE ~Die("ioctl")
    <2>1. TypeOK'
      BY <1>b, Sizes DEF IInv, TypeOK, Verdict, Label, IndexInv, Setup, Create, At,
                         Goto, Batch, loop, device
    <2>2. IndexInv'
      BY <1>b DEF IInv, TypeOK, IndexInv, Setup, Create, At, Goto, Batch, loop,
                  device
    <2>3. RingInv'
      BY <1>b DEF IInv, TypeOK, IndexInv, Setup, RingInv, Quiet, Submitted, Create,
                  At, Goto, Batch, loop, device
    <2>4. PlaceInv'
      BY <1>b, PlaceKept DEF IInv, Create, At, Goto, Batch, loop, device
    <2>5. ResetInv'
      BY <1>b DEF IInv, TypeOK, IndexInv, Setup, ResetInv, Create, At, Goto, Batch,
                  loop, device
    <2>6. ResultInv'
      BY <1>b DEF IInv, TypeOK, IndexInv, Setup, RingInv, Quiet, ResultInv,
                  Submitted, Create, At, Goto, Batch, loop, device
    <2>7. EndInv'
      BY <1>b DEF IInv, TypeOK, IndexInv, Setup, EndInv, Create, At, Goto, Batch,
                  loop, device
    <2>. QED BY <2>1, <2>2, <2>3, <2>4, <2>5, <2>6, <2>7 DEF IInv
  <1>. QED BY <1>a, <1>b

LEMMA MapKeeps ==
    ASSUME IInv, At("map") \/ At("mapgtt"),
           NEW kind \in {"wc", "gtt", "MAP_FAILED"}, Map(kind)
    PROVE  IInv'
  <1>1. TypeOK'
    BY Sizes DEF IInv, TypeOK, Verdict, Label, IndexInv, Setup, Map, At, Step, Batch,
                 loop, device
  <1>2. IndexInv'
    BY DEF IInv, TypeOK, IndexInv, Setup, Map, At, Step, Batch, loop, device
  <1>3. RingInv'
    BY DEF IInv, TypeOK, IndexInv, Setup, RingInv, Quiet, Submitted, Map, At, Step,
           Batch, loop, device
  <1>4. PlaceInv'
    BY PlaceKept DEF IInv, Map, At, Step, Batch, loop, device
  <1>5. ResetInv'
    BY DEF IInv, TypeOK, IndexInv, Setup, ResetInv, Map, At, Step, Batch, loop, device
  <1>6. ResultInv'
    BY DEF IInv, TypeOK, IndexInv, Setup, RingInv, Quiet, ResultInv, Submitted, Map, At,
           Step, Batch, loop, device
  <1>7. EndInv'
    BY DEF IInv, TypeOK, IndexInv, Setup, EndInv, Map, At, Step, Batch, loop, device
  <1>. QED BY <1>1, <1>2, <1>3, <1>4, <1>5, <1>6, <1>7 DEF IInv

LEMMA MapWCKeeps == IInv /\ MapWC => IInv'
  <1>. SUFFICES ASSUME IInv, MapWC PROVE IInv'
    OBVIOUS
  <1>1. CASE Map("wc")
    BY <1>1, MapKeeps DEF MapWC
  <1>2. CASE ~Map("wc")
    <2>1. TypeOK'
      BY <1>2, Sizes DEF IInv, TypeOK, Verdict, Label, IndexInv, Setup, MapWC, At,
                         Goto, Step, Batch, loop, objects, device
    <2>2. IndexInv'
      BY <1>2 DEF IInv, TypeOK, IndexInv, Setup, MapWC, At, Goto, Step, Batch, loop,
                  objects, device
    <2>3. RingInv'
      BY <1>2 DEF IInv, TypeOK, IndexInv, Setup, RingInv, Quiet, Submitted, MapWC,
                  At, Goto, Step, Batch, loop, objects, device
    <2>4. PlaceInv'
      BY <1>2, PlaceKept DEF IInv, MapWC, At, Goto, Step, Batch, loop, objects,
                             device
    <2>5. ResetInv'
      BY <1>2 DEF IInv, TypeOK, IndexInv, Setup, ResetInv, MapWC, At, Goto, Step,
                  Batch, loop, objects, device
    <2>6. ResultInv'
      BY <1>2 DEF IInv, TypeOK, IndexInv, Setup, RingInv, Quiet, ResultInv,
                  Submitted, MapWC, At, Goto, Step, Batch, loop, objects, device
    <2>7. EndInv'
      BY <1>2 DEF IInv, TypeOK, IndexInv, Setup, EndInv, MapWC, At, Goto, Step,
                  Batch, loop, objects, device
    <2>. QED BY <2>1, <2>2, <2>3, <2>4, <2>5, <2>6, <2>7 DEF IInv
  <1>. QED BY <1>1, <1>2

LEMMA MapGTTKeeps == IInv /\ MapGTT => IInv'
  BY MapKeeps, DieKeeps DEF MapGTT, gem_mmap__gtt

LEMMA AgainKeeps == IInv /\ Again => IInv'
  <1>. SUFFICES ASSUME IInv, Again PROVE IInv'
    OBVIOUS
  <1>1. TypeOK'
    BY Sizes DEF IInv, TypeOK, Verdict, Label, IndexInv, Setup, Again, At, Goto,
                 Batch, loop, objects, device
  <1>2. IndexInv'
    BY DEF IInv, TypeOK, IndexInv, Setup, Again, At, Goto, Batch, loop, objects,
           device
  <1>3. RingInv'
    BY DEF IInv, TypeOK, IndexInv, Setup, RingInv, Quiet, Submitted, Again, At,
           Goto, Batch, loop, objects, device
  <1>4. PlaceInv'
    BY PlaceKept DEF IInv, Again, At, Goto, Batch, loop, objects, device
  <1>5. ResetInv'
    BY DEF IInv, TypeOK, IndexInv, Setup, ResetInv, Again, At, Goto, Batch, loop,
           objects, device
  <1>6. ResultInv'
    BY DEF IInv, TypeOK, IndexInv, Setup, RingInv, Quiet, ResultInv, Submitted,
           Again, At, Goto, Batch, loop, objects, device
  <1>7. EndInv'
    BY DEF IInv, TypeOK, IndexInv, Setup, EndInv, Again, At, Goto, Batch, loop,
           objects, device
  <1>. QED BY <1>1, <1>2, <1>3, <1>4, <1>5, <1>6, <1>7 DEF IInv

LEMMA WriteKeeps == IInv /\ Write => IInv'
  <1>. SUFFICES ASSUME IInv, Write PROVE IInv'
    OBVIOUS
  <1>a. CASE Die("sigsegv")
    BY <1>a, DieKeeps
  <1>b. CASE ~Die("sigsegv")
    <2>1. TypeOK'
      BY <1>b, Sizes DEF IInv, TypeOK, Verdict, Label, IndexInv, Setup, Write, At,
                         Goto, Batch, loop, objects, device
    <2>2. IndexInv'
      BY <1>b DEF IInv, TypeOK, IndexInv, Setup, Write, At, Goto, Batch, loop,
                  objects, device
    <2>3. RingInv'
      BY <1>b DEF IInv, TypeOK, IndexInv, Setup, RingInv, Quiet, Submitted, Write,
                  At, Goto, Batch, loop, objects, device
    <2>4. PlaceInv'
      <3>1. i \in Batch /\ i \notin inflight
        BY <1>b DEF IInv, IndexInv, Setup, RingInv, Submitted, Batch, Write, At
      <3>. QED BY <1>b, <3>1 DEF IInv, TypeOK, PlaceInv, StoresHome, Write, At,
                                 Goto, Batch, loop, objects, device
    <2>5. ResetInv'
      BY <1>b DEF IInv, TypeOK, IndexInv, Setup, ResetInv, Write, At, Goto, Batch,
                  loop, objects, device
    <2>6. ResultInv'
      BY <1>b DEF IInv, TypeOK, IndexInv, Setup, RingInv, Quiet, ResultInv,
                  Submitted, Write, At, Goto, Batch, loop, objects, device
    <2>7. EndInv'
      BY <1>b DEF IInv, TypeOK, IndexInv, Setup, EndInv, Write, At, Goto, Batch,
                  loop, objects, device
    <2>. QED BY <2>1, <2>2, <2>3, <2>4, <2>5, <2>6, <2>7 DEF IInv
  <1>. QED BY <1>a, <1>b

LEMMA ExecKeeps == IInv /\ Exec => IInv'
  <1>. SUFFICES ASSUME IInv, Exec PROVE IInv'
    OBVIOUS
  <1>a. CASE Die("ioctl")
    BY <1>a, DieKeeps
  <1>b. CASE ~Die("ioctl")
    <2>0. /\ i \in Batch /\ inflight \subseteq 1..(i - 1) /\ i \notin inflight
          /\ presumed = 0 /\ word[i] = 0
      BY <1>b DEF IInv, IndexInv, Setup, RingInv, Submitted, ResetInv, Batch, Exec,
                  At
    <2>s. PICK s \in Choice :
            /\ place' = [b \in Batch |-> IF b = i THEN s
                                         ELSE IF place[b] = s THEN Unbound ELSE place[b]]
            /\ Relocate(s)
            /\ inflight' = inflight \cup {i}
            /\ before' = [before EXCEPT ![i] = inflight]
            /\ Step("write", "sync")
            /\ UNCHANGED <<loop, objects, stored>>
      BY <1>b DEF Exec
    <2>c. s \in Slot /\ \A b \in inflight : place[b] # s
      BY <2>s, <2>0 DEF IInv, TypeOK, PlaceInv, Choice, Batch
    <2>w. presumed' = s /\ word' = [word EXCEPT ![i] = s]
      BY <2>s, <2>0 DEF Relocate, IInv, TypeOK
    <2>1. TypeOK'
      BY <1>b, <2>0, <2>s, <2>c, <2>w DEF IInv, TypeOK, Verdict, Label, Exec, At,
         Step, Batch, loop, objects
    <2>2. IndexInv'
      BY <1>b, <2>0, <2>s DEF IInv, TypeOK, IndexInv, Setup, Exec, At, Step, Batch,
                              loop, objects
    <2>3. RingInv'
      <3>1. Submitted' = 1..i
        BY <1>b, <2>0, <2>s DEF IInv, TypeOK, Submitted, Exec, At, Step, Batch,
                                loop, objects
      <3>2. \A b \in inflight' : \A c \in 1..i : b < c => c \in inflight'
        BY <1>b, <2>0, <2>s DEF IInv, TypeOK, RingInv, Submitted, Exec, At, Batch
      <3>3. \A b \in inflight' : /\ \A c \in before'[b] : c < b
                                 /\ \A c \in inflight' : c < b => c \in before'[b]
        <4>1. CASE before' = [before EXCEPT ![i] = inflight]
          BY <4>1, <2>0, <2>s DEF IInv, TypeOK, RingInv, Batch
        <4>. QED BY <4>1, <2>s
      <3>4. pc' \notin Quiet
        BY <2>s DEF Step, Quiet
      <3>. QED BY <2>0, <2>s, <3>1, <3>2, <3>3, <3>4 DEF IInv, TypeOK, RingInv,
         Batch
    <2>4. PlaceInv'
      BY <2>0, <2>s, <2>c, <2>w, Sizes DEF IInv, TypeOK, PlaceInv, StoresHome,
         Batch, loop
    <2>5. ResetInv'
      BY <2>s DEF ResetInv, Step
    <2>6. ResultInv'
      BY <1>b, <2>0, <2>s, <2>w DEF IInv, TypeOK, IndexInv, ResultInv, Submitted,
                                    Exec, At, Step, Batch, loop, objects
    <2>7. EndInv'
      BY <1>b, <2>0, <2>s DEF IInv, TypeOK, EndInv, Exec, At, Step, Batch, loop,
                              objects
    <2>. QED BY <2>1, <2>2, <2>3, <2>4, <2>5, <2>6, <2>7 DEF IInv
  <1>. QED BY <1>a, <1>b

LEMMA SyncKeeps == IInv /\ Sync => IInv'
  <1>. SUFFICES ASSUME IInv, Sync PROVE IInv'
    OBVIOUS
  <1>a. CASE Die("ioctl")
    BY <1>a, DieKeeps
  <1>b. CASE ~Die("ioctl")
    <2>0. inflight = {}
      <3>1. count \in Batch
        BY <1>b DEF IInv, IndexInv, Setup, Batch, Sync, At, TypeOK
      <3>2. \A b \in inflight : b < count => count \in inflight
        BY <1>b, <3>1 DEF IInv, RingInv, Submitted, Sync, At
      <3>. QED BY <1>b, <3>1, <3>2 DEF IInv, TypeOK, Batch, Sync
    <2>1. TypeOK'
      BY <1>b, Sizes DEF IInv, TypeOK, Verdict, Label, IndexInv, Setup, Sync, At,
                         Goto, Batch, loop, objects, device
    <2>2. IndexInv'
      BY <1>b DEF IInv, TypeOK, IndexInv, Setup, Sync, At, Goto, Batch, loop,
                  objects, device
    <2>3. RingInv'
      BY <1>b, <2>0 DEF IInv, TypeOK, IndexInv, Setup, RingInv, Quiet, Submitted,
                        Sync, At, Goto, Batch, loop, objects, device
    <2>4. PlaceInv'
      BY <1>b, PlaceKept DEF IInv, Sync, At, Goto, Batch, loop, objects, device
    <2>5. ResetInv'
      BY <1>b DEF IInv, TypeOK, IndexInv, Setup, ResetInv, Sync, At, Goto, Batch,
                  loop, objects, device
    <2>6. ResultInv'
      BY <1>b DEF IInv, TypeOK, IndexInv, Setup, RingInv, Quiet, ResultInv,
                  Submitted, Sync, At, Goto, Batch, loop, objects, device
    <2>7. EndInv'
      BY <1>b DEF IInv, TypeOK, IndexInv, Setup, EndInv, Sync, At, Goto, Batch,
                  loop, objects, device
    <2>. QED BY <2>1, <2>2, <2>3, <2>4, <2>5, <2>6, <2>7 DEF IInv
  <1>. QED BY <1>a, <1>b

LEMMA CheckKeeps == IInv /\ Check => IInv'
  <1>. SUFFICES ASSUME IInv, Check PROVE IInv'
    OBVIOUS
  <1>0. word[i] = stored[i]
    BY DEF IInv, TypeOK, IndexInv, Setup, RingInv, Quiet, ResultInv, Submitted,
           Check, At
  <1>1. TypeOK'
    <2>1. cycles' \in 0..MaxPass
      BY <1>0, PassAssumption DEF IInv, TypeOK, EndInv, Check, At
    <2>2. pc' \in Label /\ i' \in Nat
      BY <1>0 DEF IInv, TypeOK, Label, Check, Step
    <2>. QED BY <1>0, <2>1, <2>2 DEF IInv, TypeOK, Check, Step, Batch, objects,
                                     device
  <1>2. IndexInv'
    BY <1>0 DEF IInv, TypeOK, IndexInv, Setup, Check, At, Step, Batch, objects,
                device
  <1>3. RingInv'
    BY <1>0 DEF IInv, TypeOK, IndexInv, Setup, RingInv, Quiet, Submitted, Check, At,
                Step, Batch, objects, device
  <1>4. PlaceInv'
    BY <1>0, PlaceKept DEF IInv, Check, At, Step, Batch, objects, device
  <1>5. ResetInv'
    BY <1>0 DEF IInv, TypeOK, IndexInv, Setup, ResetInv, Check, At, Step, Batch,
                objects, device
  <1>6. ResultInv'
    BY <1>0 DEF IInv, TypeOK, IndexInv, Setup, RingInv, Quiet, ResultInv, Submitted,
                Check, At, Step, Batch, objects, device
  <1>7. EndInv'
    BY <1>0 DEF IInv, TypeOK, IndexInv, Setup, EndInv, Check, At, Step, Batch,
                objects, device
  <1>. QED BY <1>1, <1>2, <1>3, <1>4, <1>5, <1>6, <1>7 DEF IInv

LEMMA CleanupKeeps == IInv /\ Cleanup => IInv'
  <1>. SUFFICES ASSUME IInv, Cleanup PROVE IInv'
    OBVIOUS
  <1>1. TypeOK'
    BY Sizes DEF IInv, TypeOK, Verdict, Label, IndexInv, Setup, Cleanup, At, Step,
                 Batch, loop, device
  <1>2. IndexInv'
    BY DEF IInv, TypeOK, IndexInv, Setup, Cleanup, At, Step, Batch, loop, device
  <1>3. RingInv'
    BY DEF IInv, TypeOK, IndexInv, Setup, RingInv, Quiet, Submitted, Cleanup, At,
           Step, Batch, loop, device
  <1>4. PlaceInv'
    BY PlaceKept DEF IInv, Cleanup, At, Step, Batch, loop, device
  <1>5. ResetInv'
    BY DEF IInv, TypeOK, IndexInv, Setup, ResetInv, Cleanup, At, Step, Batch, loop,
           device
  <1>6. ResultInv'
    BY DEF IInv, TypeOK, IndexInv, Setup, RingInv, Quiet, ResultInv, Submitted,
           Cleanup, At, Step, Batch, loop, device
  <1>7. EndInv'
    BY DEF IInv, TypeOK, IndexInv, Setup, EndInv, Cleanup, At, Step, Batch, loop,
           device
  <1>. QED BY <1>1, <1>2, <1>3, <1>4, <1>5, <1>6, <1>7 DEF IInv
-----------------------------------------------------------------------------
(* The device.                                                             *)

LEMMA ExecuteKeeps == IInv /\ (\E b \in Batch : Execute(b)) => IInv'
  <1>. SUFFICES ASSUME IInv, (\E b \in Batch : Execute(b)) PROVE IInv'
    OBVIOUS
  <1>1. TypeOK'
    BY Sizes DEF IInv, TypeOK, Verdict, Label, IndexInv, Setup, Execute, Batch,
                 loop, objects
  <1>2. IndexInv'
    BY DEF IInv, TypeOK, IndexInv, Setup, Execute, Batch, loop, objects
  <1>3. RingInv'
    BY DEF IInv, TypeOK, IndexInv, Setup, RingInv, Quiet, Submitted, Execute, Batch,
           loop, objects
  <1>4. PlaceInv'
    BY DEF IInv, TypeOK, PlaceInv, StoresHome, Execute, Batch, loop, objects
  <1>5. ResetInv'
    BY DEF IInv, TypeOK, IndexInv, Setup, ResetInv, Execute, Batch, loop, objects
  <1>6. ResultInv'
    <2>. PICK b \in Batch : Execute(b)
      OBVIOUS
    <2>1. stored' = [stored EXCEPT ![b] = word[b]]
      <3>1. b \in inflight /\ place[b] = word[b] /\ place[b] # Unbound
        BY Sizes DEF IInv, TypeOK, PlaceInv, StoresHome, Execute
      <3>2. \A o \in Batch : place[o] = word[b] => o = b
        BY <3>1 DEF IInv, PlaceInv
      <3>. QED BY <3>1, <3>2 DEF IInv, TypeOK, Execute
    <2>2. Submitted' = Submitted /\ inflight' = inflight \ {b}
      BY DEF Execute, Submitted, Batch, loop
    <2>3. Submitted \subseteq Batch \/ pc \notin {"write", "exec", "sync", "check"}
      BY DEF IInv, IndexInv, Setup, Submitted, Batch, TypeOK
    <2>. QED BY <2>1, <2>2, <2>3 DEF IInv, TypeOK, ResultInv, Execute, loop
  <1>7. EndInv'
    BY DEF IInv, TypeOK, IndexInv, Setup, EndInv, Execute, Batch, loop, objects
  <1>. QED BY <1>1, <1>2, <1>3, <1>4, <1>5, <1>6, <1>7 DEF IInv

LEMMA EvictKeeps == IInv /\ (\E b \in Batch : Evict(b)) => IInv'
  <1>. SUFFICES ASSUME IInv, (\E b \in Batch : Evict(b)) PROVE IInv'
    OBVIOUS
  <1>1. TypeOK'
    BY Sizes DEF IInv, TypeOK, Verdict, Label, IndexInv, Setup, Evict, Batch, loop,
                 objects
  <1>2. IndexInv'
    BY DEF IInv, TypeOK, IndexInv, Setup, Evict, Batch, loop, objects
  <1>3. RingInv'
    BY DEF IInv, TypeOK, IndexInv, Setup, RingInv, Quiet, Submitted, Evict, Batch,
           loop, objects
  <1>4. PlaceInv'
    BY DEF IInv, TypeOK, PlaceInv, StoresHome, Unbound, Evict, Batch, loop, objects
  <1>5. ResetInv'
    BY DEF IInv, TypeOK, IndexInv, Setup, ResetInv, Evict, Batch, loop, objects
  <1>6. ResultInv'
    BY DEF IInv, TypeOK, IndexInv, Setup, RingInv, Quiet, ResultInv, Submitted,
           Evict, Batch, loop, objects
  <1>7. EndInv'
    BY DEF IInv, TypeOK, IndexInv, Setup, EndInv, Evict, Batch, loop, objects
  <1>. QED BY <1>1, <1>2, <1>3, <1>4, <1>5, <1>6, <1>7 DEF IInv
-----------------------------------------------------------------------------
(* The inductive invariant and what follows from it.                       *)

LEMMA InitHolds == Init => IInv
  <1>1. Init => Batch = {}
    BY DEF Init, Batch
  <1>2. Init => TypeOK
    BY <1>1, PassAssumption, Sizes DEF Init, TypeOK, Verdict, Label, Card
  <1>3. Init => /\ IndexInv /\ RingInv /\ PlaceInv /\ ResetInv /\ ResultInv /\ EndInv
    BY <1>1 DEF Init, IndexInv, Setup, RingInv, Quiet, PlaceInv, StoresHome,
                ResetInv, ResultInv, EndInv
  <1>. QED BY <1>2, <1>3 DEF IInv

LEMMA Inductive == IInv /\ [Next]_vars => IInv'
  <1>. SUFFICES ASSUME IInv, [Next]_vars PROVE IInv'
    OBVIOUS
  <1>1. CASE UNCHANGED vars
    BY <1>1 DEF vars, IInv, TypeOK, Batch, IndexInv, RingInv, Submitted, PlaceInv,
                StoresHome, ResetInv, ResultInv, EndInv
  <1>2. CASE Program
    BY <1>2, drm_open_driverKeeps, AllocateKeeps, CreateKeeps, MapWCKeeps, MapGTTKeeps,
       AgainKeeps, WriteKeeps, ExecKeeps, SyncKeeps, CheckKeeps, CleanupKeeps DEF Program
  <1>3. CASE \E b \in Batch : Execute(b) \/ Evict(b)
    BY <1>3, ExecuteKeeps, EvictKeeps
  <1>. QED BY <1>1, <1>2, <1>3 DEF Next, Exited

LEMMA Invariance == Spec => []IInv
  BY InitHolds, Inductive, PTL DEF Spec

\* The state keeps its types, whatever the sizes are and whichever calls fail.
THEOREM TypeCorrect == Spec => []TypeOK
  <1>1. IInv => TypeOK
    BY DEF IInv
  <1>. QED BY <1>1, Invariance, PTL

\* Every batch on the ring stores into itself, however often it was moved.
THEOREM BatchesStoreHome == Spec => []StoresHome
  <1>1. IInv => StoresHome
    BY DEF IInv, PlaceInv
  <1>. QED BY <1>1, Invariance, PTL

\* A batch the engine may still read is never written again.
THEOREM WritesIdleBatches == Spec => []IdleWhenWritten
  <1>1. IInv => IdleWhenWritten
    BY DEF IInv, TypeOK, IndexInv, Setup, RingInv, Submitted, IdleWhenWritten, At,
           Batch
  <1>. QED BY <1>1, Invariance, PTL

\* Waiting for the last batch waits for all.
THEOREM LastIsEnough == Spec => []CheckedAfterRun
  <1>1. IInv => CheckedAfterRun
    BY DEF IInv, RingInv, Quiet, CheckedAfterRun, At
  <1>. QED BY <1>1, Invariance, PTL

\* The address in a batch is the address it stored: the assert never fails.
THEOREM ChecksNeverFail == Spec => []ChecksHold
  <1>1. IInv => ChecksHold
    BY DEF IInv, ResultInv, ChecksHold
  <1>. QED BY <1>1, Invariance, PTL

\* A run that passes made a pass and gave everything back.
THEOREM PassingIsClean == Spec => []PassIsClean
  <1>1. IInv => PassIsClean
    BY DEF IInv, EndInv, RingInv, Quiet, PassIsClean
  <1>. QED BY <1>1, Invariance, PTL
-----------------------------------------------------------------------------
(* One batch too many.                                                     *)

\* The count follows the GTT's size; without a device nothing is ever bound.
CountInv ==
    /\ fd = Card /\ pc \notin Setup => count = Capped(Aperture) \div BatchSize + 1
    /\ pc \notin Setup \cup {"create"} => fd = Card
    /\ fd # Card => \A b \in Batch : place[b] = Unbound

LEMMA CountKept ==
    ASSUME "aperture" \notin Fallible
    PROVE  IInv /\ CountInv /\ [Next]_vars => CountInv'
  <1>. SUFFICES ASSUME IInv, CountInv, [Next]_vars PROVE CountInv'
    OBVIOUS
  <1>1. CASE drm_open_driver
    BY <1>1 DEF drm_open_driver, CountInv, Setup, IInv, IndexInv, Batch, At, loop, device
  <1>2. CASE Allocate
    <2>1. fd = Card => count' = Capped(Aperture) \div BatchSize + 1
      BY <1>2 DEF Allocate, AllocateWith, gem_aperture_size, MayFail
    <2>. QED BY <1>2, <2>1 DEF Allocate, AllocateWith, CountInv, Setup, Batch, At, Goto
  <1>3. CASE fd = Card /\ UNCHANGED <<fd, count>> /\ pc \notin Setup
    BY <1>3 DEF CountInv
  <1>4. CASE UNCHANGED <<fd, count, pc, place>>
    BY <1>4 DEF CountInv, Batch
  <1>5. ASSUME Program, ~drm_open_driver, ~Allocate
        PROVE  \/ fd = Card /\ UNCHANGED <<fd, count>> /\ pc \notin Setup
               \/ UNCHANGED <<fd, count, pc, place>>
    <2>1. CASE Create
      BY <2>1 DEF Create, Die, At, Goto, loop, Setup
    <2>2. CASE MapWC \/ MapGTT \/ Again \/ Write \/ Exec \/ Sync \/ Check \/ Cleanup
      <3>1. pc \notin Setup \cup {"create"}
        BY <2>2 DEF MapWC, MapGTT, Again, Write, Exec, Sync, Check, Cleanup, At, Setup
      <3>2. UNCHANGED <<fd, count>>
        BY <2>2 DEF MapWC, MapGTT, gem_mmap__gtt, Map, Again, Write, Exec, Sync, Check,
                    Cleanup, Die, Goto, Step, loop
      <3>. QED BY <3>1, <3>2 DEF CountInv
    <2>. QED BY <1>5, <2>1, <2>2 DEF Program
  <1>6. CASE \E b \in Batch : Execute(b) \/ Evict(b)
    BY <1>6 DEF Execute, Evict, CountInv, Batch, loop
  <1>. QED BY <1>1, <1>2, <1>3, <1>4, <1>5, <1>6 DEF Next, Exited, vars

\* If the kernel tells its size, the batches never fit all at once.
THEOREM NeverFits == "aperture" \notin Fallible => (Spec => []NeverAllResident)
  <1>. SUFFICES ASSUME "aperture" \notin Fallible PROVE Spec => []NeverAllResident
    OBVIOUS
  <1>1. Init => CountInv
    BY DEF Init, CountInv, Setup, Card, Batch
  <1>2. IInv /\ CountInv /\ [Next]_vars => CountInv'
    BY CountKept
  <1>3. IInv /\ CountInv => NeverAllResident
    <2>. SUFFICES ASSUME IInv, CountInv, count > 0, \A b \in Batch : place[b] # Unbound
                  PROVE  FALSE
      BY DEF NeverAllResident
    <2>1. count \in Nat /\ count - 1 = Capped(Aperture) \div BatchSize
      <3>1. pc \notin Setup
        BY DEF IInv, IndexInv
      <3>2. fd = Card
        BY DEF CountInv, Batch, IInv, TypeOK
      <3>3. Capped(Aperture) \div BatchSize \in Nat
        BY SizeAssumption DEF Capped
      <3>. QED BY <3>1, <3>2, <3>3 DEF CountInv
    <2>2. IsFiniteSet(Batch) /\ Cardinality(Batch) = count
      BY <2>1, FS_Interval DEF Batch
    <2>3. IsFiniteSet(Slot) /\ Cardinality(Slot) = count - 1
      <3>1. Slot = 0..(count - 2)
        BY <2>1 DEF Slot
      <3>. QED BY <2>1, <3>1, FS_Interval
    <2>4. place \in [Batch -> Slot]
      BY DEF IInv, TypeOK
    <2>5. \E a, b \in Batch : a # b /\ place[a] = place[b]
      BY <2>1, <2>2, <2>3, <2>4, FS_PigeonHole
    <2>. QED BY <2>5 DEF IInv, PlaceInv
  <1>. QED BY <1>1, <1>2, <1>3, Invariance, InitHolds, PTL DEF Spec
=============================================================================
