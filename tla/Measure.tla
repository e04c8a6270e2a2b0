------------------------------ MODULE Measure -------------------------------
(***************************************************************************)
(* From the device node to the figure that is printed: the programs that   *)
(* take a time, each with the batch it submits, over module DrmOpen (which *)
(* card they get), Timing (the clock they read) and CommandStream (the     *)
(* engine that runs their batch).                                          *)
(*                                                                         *)
(*   exec   gem_exec_latency    Rounds times Times samples, averaged       *)
(*   store  gem_store_latency   the same, from before the batch is built   *)
(*   blt    gem_exec_blt        one time for Loops submissions             *)
(*   fill   gem_exec_gttfill    a loop until Timeout seconds are over      *)
(*   busy   gem_fence_busy      a loop that must end before Timeout        *)
(*                                                                         *)
(* Only calls that fail for want of a device fail here; the others do so   *)
(* in Latency, Blt, GttFill and FenceBusy.                                 *)
(***************************************************************************)
EXTENDS DrmOpen, Timing, CommandStream

CONSTANTS
    Programs,       \* those of the above that may run
    Rounds,         \* 17 in the code, the first to warm up
    Times,          \* _TIMES, 128
    Loops,          \* 1 << 12
    Timeout,        \* 1
    MaxSample,      \* bound: nanoseconds that pass in one round of samples
    MaxLoop         \* bound: nanoseconds that pass in a loop with a limit

ASSUME MeasureAssumption ==
    /\ Programs \subseteq {"exec", "store", "blt", "fill", "busy"}
    /\ {Rounds, Times, Loops, Timeout} \subseteq Nat \ {0} /\ Timeout < Half
ASSUME LongEnough ==
    /\ MaxSample \in Nat /\ MaxLoop \in Nat
    /\ \A d \in Back : MaxLoop >= Giga * Timeout + MaxSets * d

\* No loop lasts 2^32 seconds, and the clock is not set by that much.
ASSUME ShortOfAWrap ==
    /\ MaxSample < Word
    /\ \A d \in Forward : MaxLoop + MaxSets * d < Half * Giga
    /\ MaxLoop < Half * Giga
    /\ \A d \in Back : MaxSets * d <= (Half - Timeout) * Giga

VARIABLES
    program,
    round,          \* calls of calc_average_latency()
    sample,         \* i of its loop, or loop of run()
    total_latency,
    shown,          \* what was computed for printing in this round: <<figure>>, or <<>>
    ran             \* the code block of until_timeout was executed

results == <<round, sample, total_latency, shown, ran>>
vars    == <<pc, verdict, openVars, timeVars, streamVars, program, results>>

Is(names) == program \in names /\ UNCHANGED program

\* statements that use the device, and statements that read the clock
Device(from, Effect, to) ==
    At(from) /\ Effect /\ Goto(to) /\ UNCHANGED <<openVars, timeVars, results>>
Clock(from, Effect, to) ==
    At(from) /\ Effect /\ Goto(to) /\ UNCHANGED <<openVars, streamVars, results>>

Sync(from, to) == Device(from, Idle /\ UNCHANGED streamVars, to)
-----------------------------------------------------------------------------
Open == (drm_get_card \/ drm_open_driver) /\ UNCHANGED <<timeVars, streamVars, results>>

\* The first ioctl whose failure ends a program; nobody looks at the file itself.
FirstUse(to) ==
    /\ At("opened") /\ UNCHANGED <<openVars, timeVars, streamVars, results>>
    /\ \/ fd # -1 /\ Goto(to)
       \/ fd = -1 /\ Exit("ioctl")
-----------------------------------------------------------------------------
(* Faulty statements, to see that the properties notice them.              *)

TakeOneMore(first) ==
    /\ At("stop") /\ total_latency' = (total_latency + nsec_elapsed) % Word
    /\ sample' = sample + 1 /\ start' = 0
    /\ Goto(IF sample <= Times THEN first ELSE "average")
    /\ UNCHANGED <<openVars, clock, sets, real, shift, streamVars, round, shown, ran>>
-----------------------------------------------------------------------------
(* gem_exec_latency and gem_store_latency                                  *)

StartRound(first) ==
    /\ At("round") /\ total_latency' = 0 /\ sample' = 0 /\ shown' = <<>> /\ Measure
    /\ Goto(first)
    /\ UNCHANGED <<openVars, clock, start, sets, streamVars, round, ran>>

\* latencies[num] = nsec_elapsed(&start); the next sample starts at first
Take(first) ==
    /\ At("stop") /\ total_latency' = (total_latency + nsec_elapsed) % Word
    /\ sample' = sample + 1 /\ start' = 0
    /\ Goto(IF sample' < Times THEN first ELSE "average")
    /\ UNCHANGED <<openVars, clock, sets, real, shift, streamVars, round, shown, ran>>

\* total_latency/_TIMES; that of the first round is not printed
Average ==
    /\ At("average") /\ round' = round + 1
    /\ shown' = IF round = 0 THEN <<>> ELSE <<total_latency \div Times>>
    /\ IF round' < Rounds THEN Goto("round") ELSE Exit("passed")
    /\ UNCHANGED <<openVars, timeVars, streamVars, sample, total_latency, ran>>

ExecLatency ==
    \/ FirstUse("round") \/ StartRound("create")
    \/ Device("create", BuildEnd, "clock")
    \/ Clock("clock", ReadClock, "submit")
    \/ Device("submit", Submit, "sync") \/ Sync("sync", "stop")
    \/ Take("create") \/ Average

StoreLatency ==
    \/ FirstUse("round") \/ StartRound("clock")
    \/ Clock("clock", ReadClock, "create")
    \/ Device("create", BuildStore(sample), "submit")
    \/ Device("submit", Submit, "sync") \/ Sync("sync", "stop")
    \/ Take("clock") \/ Average
-----------------------------------------------------------------------------
(* gem_exec_blt, run()                                                     *)

\* the loop of Loops submissions
Again ==
    /\ At("submit") /\ UNCHANGED <<openVars, timeVars, round, total_latency, shown, ran>>
    /\ \/ sample < Loops /\ Submit /\ sample' = sample + 1 /\ Stay
       \/ sample = Loops /\ Goto("sync") /\ UNCHANGED <<streamVars, sample>>

\* Bytes a second.  A duration of 0 prints as infinite, and a negative one, of a
\* clock set back, as negative: no figure is computed for these here.
Rate(duration) ==
    IF duration > 0 THEN bytes_per_sec((OBJECT_SIZE * USEC_PER_SEC) \div duration)
                    ELSE [figure |-> 0, unit |-> 5]

Report ==
    /\ At("stop") /\ Exit("passed")
    /\ LET duration == elapsed(start, clock)
       IN  shown' = <<duration, Rate(duration)>>
    /\ UNCHANGED <<openVars, timeVars, streamVars, round, sample, total_latency, ran>>

BltRun ==
    \/ FirstUse("build") \/ Device("build", BuildCopy, "warm")
    \/ Device("warm", Submit, "warmsync") \/ Sync("warmsync", "clock")
    \/ Clock("clock", ReadClock, "submit")
    \/ Again \/ Sync("sync", "stop") \/ Report
-----------------------------------------------------------------------------
(* gem_exec_gttfill, with one batch, and the loop of gem_fence_busy        *)

\* seconds_elapsed(&t) < timeout
WithinTimeout == seconds_elapsed(nsec_elapsed) < Timeout
ReadElapsed   == KeepStart /\ UNCHANGED <<clock, sets, real, shift>>

until_timeout(block, after) ==
    /\ At("until") /\ ReadElapsed /\ UNCHANGED <<openVars, streamVars, results>>
    /\ IF WithinTimeout THEN Goto(block) ELSE Goto(after)

\* assert(offset == delta): the dwords at the two entries, in the batch
CheckFill ==
    /\ At("check") /\ UNCHANGED <<openVars, timeVars, streamVars>>
    /\ ran' = TRUE /\ UNCHANGED <<round, sample, total_latency, shown>>
    /\ \/ /\ [op |-> "store", at |-> <<place["batch"] + BATCH_SIZE - 8, 0>>,
              value |-> <<batch[3], batch[4]>>] \in landed
          /\ Goto("until")
       \/ /\ \A w \in landed : w.value # <<batch[3], batch[4]>>
          /\ Exit("assert")

Return == At("cleanup") /\ Exit("passed") /\ UNCHANGED <<openVars, timeVars, streamVars, results>>

Fill ==
    \/ FirstUse("until") \/ until_timeout("write", "cleanup")
    \/ Device("write", BuildFill, "submit") \/ Device("submit", Submit, "sync")
    \/ Sync("sync", "check") \/ CheckFill \/ Return

\* while (fence_busy(fence)) assert(seconds_elapsed(&tv) < timeout);
WatchFence ==
    /\ At("watch") /\ UNCHANGED <<openVars, timeVars, streamVars, results>>
    /\ \/ queued > 0 /\ Goto("assert")
       \/ queued = 0 /\ Exit("passed")

WatchClock ==
    /\ At("assert") /\ ReadElapsed /\ UNCHANGED <<openVars, streamVars, results>>
    /\ \/ WithinTimeout /\ Goto("watch")
       \/ ~WithinTimeout /\ Exit("timeout")

Busy ==
    \/ FirstUse("spin") \/ Device("spin", BuildSpinner, "submit")
    \/ Device("submit", Submit, "release") \/ Device("release", Release, "watch")
    \/ WatchFence \/ WatchClock
-----------------------------------------------------------------------------
Step ==
    \/ Open /\ UNCHANGED program
    \/ Is({"exec"}) /\ ExecLatency
    \/ Is({"store"}) /\ StoreLatency
    \/ Is({"blt"}) /\ BltRun
    \/ Is({"fill"}) /\ Fill
    \/ Is({"busy"}) /\ Busy

Run == Engine /\ UNCHANGED <<pc, verdict, openVars, timeVars, program, results>>

\* Time matters once the clock has been read, and is let pass only then.
Measuring == verdict = "running" /\ start # 0
Limit     == IF program \in {"fill", "busy"} THEN MaxLoop ELSE MaxSample

Others == UNCHANGED <<pc, verdict, openVars, streamVars, program, results>>
Pass == Measuring /\ Tick(Limit) /\ Others
Set  == Measuring /\ SetClock /\ Others

Elsewhere == (\E n \in Node : ComeOrGo(n)) /\ UNCHANGED <<timeVars, streamVars, program, results>>

Exited == verdict # "running" /\ UNCHANGED vars

Init ==
    /\ program \in Programs
    /\ pc = IF program = "blt" THEN "card" ELSE "first"
    /\ verdict = "running"
    /\ round = 0 /\ sample = 0 /\ total_latency = 0 /\ shown = <<>> /\ ran = FALSE
    /\ OpenInit /\ TimeInit /\ StreamInit

Next == Step \/ Run \/ Pass \/ Set \/ Elsewhere \/ Exited
Spec == Init /\ [][Next]_vars

\* The program is scheduled, the engine runs what is queued, time goes on.
FairSpec == Spec /\ WF_vars(Step) /\ WF_vars(Run) /\ WF_vars(Pass)
-----------------------------------------------------------------------------
(* Properties.                                                             *)

Label == {"card", "first", "second", "opened", "round", "create", "clock", "submit", "sync",
          "stop", "average", "build", "warm", "warmsync", "until", "write", "check", "cleanup",
          "spin", "release", "watch", "assert"}

\* Types of the state; the loops end at their bounds.
TypeOK ==
    /\ pc \in Label /\ verdict \in {"running", "passed", "ioctl", "assert", "timeout"}
    /\ OpenTypeOK /\ TimeTypeOK /\ StreamTypeOK
    /\ program \in Programs /\ round \in 0..Rounds
    /\ sample \in 0..(IF program = "blt" THEN Loops ELSE Times)
    /\ total_latency \in 0..(Word - 1) /\ ran \in BOOLEAN

\* The batches do what their source says, where their objects are bound, and
\* have done it when the time is taken or memory is read: a spinner keeps the
\* engine until its first dword is overwritten, store() stores its number at its
\* index, each batch of gttfill its own address at its end, and the rectangles
\* of gem_exec_blt are the object (gem_exec_blt.c:205-209, gem_exec_gttfill.c:129-131).
EngineDoesAsMeant ==
    /\ verdict # "assert"
    /\ program \in {"exec", "busy"} => landed = {}
    /\ program = "busy" /\ pc = "release" => queued = 1
    /\ program = "store" /\ pc \in {"submit", "sync", "stop"} =>
           StoresOnly(place["target"] + 4 * sample, <<sample>>)
    /\ program = "fill" =>
           StoresOnly(place["batch"] + BATCH_SIZE - 8, <<place["batch"], 0>>)
    /\ program = "blt" => CopiesRows
    /\ pc \in {"stop", "check"} /\ verdict = "running" =>
           /\ queued = 0
           /\ program \in {"store", "fill"} => landed # {}
           /\ program = "blt" => CopiesObject

\* What the clock shows of the time that is measured.
Shown == real + shift

\* The figure of the rate, in its unit, is object_size per duration.
RateIsTrue(duration, rate) ==
    LET v == (OBJECT_SIZE * USEC_PER_SEC) \div duration
    IN  /\ v \in (rate.figure * scale[rate.unit])..((rate.figure + 1) * scale[rate.unit] - 1)
        /\ rate.figure = 0 => rate.unit = 0
        /\ rate.figure > Kilo => rate.unit = 5

\* The mean of the latencies is the mean of the times that really passed, if the
\* clock was not set.  If it was, the mean is off by that alone, although a single
\* sample may have wrapped around: the sum wraps back (gkit_lib.c:46,
\* gem_exec_latency.c:71-72).  elapsed() is right to the microsecond, and the rate
\* is that of OBJECT_SIZE bytes, in the unit that leaves a figure up to Kilo.
MeanIsTrue ==
    shown # <<>> =>
        IF program = "blt"
        THEN /\ Usec * shown[1] \in (Shown - Usec + 1)..(Shown + Usec - 1)
             /\ shown[1] > 0 => RateIsTrue(shown[1], shown[2])
        ELSE /\ shown[1] = (Shown % Word) \div Times
             /\ sets = 0 => shown[1] = real \div Times

\* "The code block will be executed at least once" (gkit_lib.h:119), even if the
\* clock is set; "approximate (8% error)" (gkit_lib.h:71): unless the clock is set
\* back past the start, no block begins more than 8% late, and neither the loop nor
\* gem_fence_busy gives up before Timeout seconds are over (gem_fence_busy.c:91).
GivesUp == \/ pc = "until" /\ pc' = "cleanup"
           \/ verdict = "running" /\ verdict' = "timeout"
LoopKeepsTime ==
    [][/\ GivesUp => Shown >= NSEC_PER_SEC * Timeout \/ Shown < 0
       /\ pc = "until" /\ pc' = "write" => 0 <= Shown /\ 100 * Shown < 108 * NSEC_PER_SEC * Timeout
       /\ pc = "until" /\ pc' = "cleanup" => ran]_vars

\* Every program ends: its searches, its waits and its loops.
Ends == <>(verdict # "running")

\* What is printed as the time to blt object_size bytes is the time of one such
\* copy (gem_exec_blt.c:212-214).
PrintsTimeOfOneCopy ==
    program = "blt" /\ shown # <<>> => Loops * Usec * (shown[1] - 1) <= real
=============================================================================
