------------------------------- MODULE Timing -------------------------------
(***************************************************************************)
(* The time helpers: nsec_elapsed() and seconds_elapsed() of gkit_lib over *)
(* CLOCK_REALTIME, elapsed() and bytes_per_sec() of gem_exec_blt.c.  The   *)
(* clock ticks with the time that really passes, but it is the time of     *)
(* day: an operator or NTP may set it, forward or back, in between.        *)
(*                                                                         *)
(* Sizes are scaled: what matters is that 1 << 30 is a little more than    *)
(* NSEC_PER_SEC, and that unsigned numbers wrap.                           *)
(***************************************************************************)
EXTENDS Integers

CONSTANTS
    NSEC_PER_SEC,   \* 10^9
    Giga,           \* 1 << 30: what seconds_elapsed() takes for a second
    Usec,           \* nanoseconds per microsecond, 1000
    Half,           \* 2^32, the values of a uint32_t
    Word,           \* 2^64, the values of a uint64_t
    Kilo,           \* 1024
    Epoch,          \* the clock at the start; it never shows 0, 1970
    Back, Forward,  \* by how much the clock may be set, in nanoseconds
    MaxSets         \* bound: how often it is set

\* gkit_lib.h:71, "8% error"
ASSUME GigaAssumption ==
    /\ {NSEC_PER_SEC, Giga, Usec} \subseteq Nat \ {0} /\ NSEC_PER_SEC % Usec = 0
    /\ NSEC_PER_SEC <= Giga /\ 100 * Giga <= 108 * NSEC_PER_SEC
ASSUME WordAssumption ==
    /\ Kilo \in Nat \ {0, 1} /\ Half \in Nat \ {0} /\ Word \in Nat
    /\ Word % (Half * Giga) = 0 /\ Word > Half * Giga
ASSUME ClockAssumption ==
    /\ Back \subseteq Nat /\ Forward \subseteq Nat /\ MaxSets \in Nat /\ Epoch \in Nat \ {0}
    /\ \A d \in Back : Epoch > d * MaxSets

VARIABLES
    clock,      \* CLOCK_REALTIME, in nanoseconds
    start,      \* the reading kept to measure from, 0 when it is not set
    sets,       \* how often the clock was set
    real,       \* history: the time that really passed while it was measured
    shift       \* history: by how much the clock was set meanwhile

timeVars == <<clock, start, sets, real, shift>>

tv_sec(t)  == t \div NSEC_PER_SEC
tv_nsec(t) == t % NSEC_PER_SEC
tv_usec(t) == tv_nsec(t) \div Usec
USEC_PER_SEC == NSEC_PER_SEC \div Usec

\* Faulty statements, to see that the properties notice them: the seconds are
\* lost; 1 << 31 is taken for a second.
nsec_only(t)    == (tv_nsec(clock) - tv_nsec(t)) % Word
TwoGiga(nsec)   == (nsec \div (2 * Giga)) % Half

\* nsec_elapsed(), of a start that is set
nsec_since(t) ==
    ((tv_nsec(clock) - tv_nsec(t)) + NSEC_PER_SEC * (tv_sec(clock) - tv_sec(t))) % Word

\* nsec_elapsed(): the first call sets the start
nsec_elapsed == IF start = 0 THEN 0 ELSE nsec_since(start)
KeepStart    == start' = IF start = 0 THEN clock ELSE start

seconds_elapsed(nsec) == (nsec \div Giga) % Half

\* elapsed(), in microseconds; a double keeps its sign
elapsed(from, to) == USEC_PER_SEC * (tv_sec(to) - tv_sec(from)) + (tv_usec(to) - tv_usec(from))

\* bytes_per_sec(): divided by Kilo until the figure is small, or order[5] is
\* reached, which has no next one
scale[o \in 0..6] == IF o = 0 THEN 1 ELSE Kilo * scale[o - 1]
order(v) == CHOOSE o \in 0..5 : /\ o = 5 \/ v <= scale[o + 1]
                                /\ \A k \in 0..(o - 1) : v > scale[k + 1]
bytes_per_sec(v) == [figure |-> v \div scale[order(v)], unit |-> order(v)]
-----------------------------------------------------------------------------
ReadClock == start' = clock /\ UNCHANGED <<clock, sets, real, shift>>

\* What is measured from here on.
Measure == real' = 0 /\ shift' = 0

Tick(bound) ==
    /\ real < bound /\ real' = real + 1 /\ clock' = clock + 1
    /\ UNCHANGED <<start, sets, shift>>

SetClock ==
    /\ sets < MaxSets /\ sets' = sets + 1
    /\ \E d \in Forward \cup {-b : b \in Back} : clock' = clock + d /\ shift' = shift + d
    /\ UNCHANGED <<start, real>>

TimeInit == clock = Epoch /\ start = 0 /\ sets = 0 /\ real = 0 /\ shift = 0

TimeTypeOK ==
    /\ clock \in Nat \ {0} /\ start \in Nat /\ sets \in 0..MaxSets
    /\ real \in Nat /\ shift \in Int
=============================================================================
