# TLA+ models of intel-gkit

intel-gkit is a set of small C programs that exercise the i915 kernel driver
through a shared library of ioctl wrappers. This directory holds TLA+ modules
of those programs, the TLC configurations that check them and TLAPS proofs about
them. All of it is translated from the C sources under `src/`.

## 1. Inventory: the system, its state and what is hard about it

| part | source | state it keeps | operations | how it interacts |
|---|---|---|---|---|
| library | `gkit_lib.c`, `gkit_lib.h` | `errno`, a static aperture size | one wrapper per ioctl, waits, busy queries, time helpers, device discovery | called by every program; talks to the driver |
| i915 device (external) | used through the library | objects, requests, rings, fences, syncobjs, the write-combining buffer | queue, execute, complete, wait, answer queries | runs beside the programs; shared by all processes |
| gem_fence_await | `gem_fence_await.c` | two objects, an out-fence, two mappings | spin, dependent store, release, wait | in-fence, ring order, `__sync_synchronize` |
| gem_fence_busy | `gem_fence_busy.c` | one object, an out-fence, a time limit | spin, query, release, spin or poll | two calls on one device file |
| gem_fencearr_sig | `gem_fencearr_sig.c` | one object, a syncobj | submit, query, sync, query | fence array, SIGNAL |
| gem_fencearr_wait | `gem_fencearr_wait.c` | two objects, a syncobj, a mapping | spin, dependent batch, query, release, sync | fence array, SIGNAL then WAIT |
| gem_exec_gttfill | `gem_exec_gttfill.c` | one more batch than the aperture holds | submit all, sync the last, read all | eviction, relocation |
| gem_exec_blt | `gem_exec_blt.c` | two frequency limits in sysfs, three objects | set, copy, measure, restore | other instances share the sysfs files |
| gem_exec_basic | `gem_exec_basic.c` | one batch and one execbuffer object per submission | submit from the stack, a GTT mapping, read-only memory | an object is closed while mapped |
| gem_exec_latency, gem_store_latency | same names | a context, latency sums | submit, sync, average | clock |
| gem_tiled_wc | `gem_tiled_wc.c` | a tiled object | fill, map ranges, compare | swizzle and tile arithmetic |
| device discovery | `gkit_lib.c` | the node the search is at | `drm_get_card`, `drm_open_driver` | nodes come and go meanwhile |
| time helpers | `gkit_lib.c`, `gkit_lib.h`, `gem_exec_blt.c` | the start of what is measured | `nsec_elapsed`, `seconds_elapsed`, `until_timeout`, `elapsed`, `bytes_per_sec` | the clock may be set |
| batches | `intel_reg.h` and each program | the dwords of a batch, relocation entries | write, relocate, fetch, execute | program, driver and engine must agree |

What makes each part correct:

- **fence programs**: nothing behind a fence runs before the program opens the
  way, busy queries tell the truth, a pass leaves nothing behind, and a failure
  anywhere leaves the engine free (or, where it cannot, it is known where).
- **gem_exec_gttfill**: a batch that was moved and relocated stores into itself,
  waiting for the last batch is enough, every pass evicts.
- **gem_exec_blt**: each measurement is made at the limits it is printed with, no
  write is refused, the limits found are restored; the copy covers the object.
- **gem_exec_basic, latency programs**: an object's mapping outlives its handle;
  a time is taken when the work it measures is complete.
- **gem_tiled_wc**: the expected value is the inverse of the hardware's tiling and
  swizzling, and every read lies inside the mapping.
- **device discovery**: the card is found if it is there, and is the one whose limits
  are set.
- **time helpers**: a mean is the mean of the times that passed, even over a clock
  that is set; a loop runs once, and ends neither early nor more than 8% late.
- **batches**: what the engine takes for a command is one, and does what the
  program means, where the objects are bound.

Hard behaviours: processes share one engine and interleave with its execution and
completion; a wrapper that fails calls `abort()`, and if a spinning batch is on
the engine then, nobody is left to stop it; stores through a write-combining
mapping become visible late; waits have no time limit; some results are ignored
and read as "idle" or "busy". `PROJECT.json` lists each such hazard at its line
with the properties that cover it.

## 2. Modules and the code they model

### Gkit: the library and the device

`Gkit` holds the state the programs on the render engine share. Processes (`Proc`) are straight
lines of statements counted by `pc`. Each operator of the same name as a C
function is that wrapper:

| state | code |
|---|---|
| `pc`, `verdict`, `fd` | the statement about to run, how the process ended, the device file |
| `fence` | the descriptor in `execbuf.rsvd2 >> 32`, or the syncobj in the fence array |
| `open`, `mapped` | GEM, syncobj and context handles, and mappings, held |
| `mem`, `wc` | what the device reads from an object; a store not yet drained |
| `rq`, `job` | the driver's request for a batch, what it writes and waits for |

A checked wrapper (`assert(__wrapper(...) == 0)`) is `Ioctl`: it takes effect, or
the process ends with verdict "ioctl". An unchecked one is `Unchecked`. `Check`
is an `assert` on something the device did. `Execute`, `Signal` and `Drain` are
the device's own steps. `Fallible` says which calls may fail in a run,
`SharedRing` whether contexts share a ring, `HonoursFence` whether the kernel
obeys fences a batch waits for.

Batches are abstracted to what they do: spin, end, or store to a target. Offsets,
relocations and times are left out of this module.

### The programs on the render engine, and Suite

| module | program | one process |
|---|---|---|
| `FenceAwait` | gem_fence_await | 23 statements: a spinner, `store()` behind its fence, the release |
| `FenceBusy` | gem_fence_busy | 37 statements: both calls of the test, with its time limit |
| `FencearrSig` | gem_fencearr_sig | 12 statements: an empty batch signals a syncobj |
| `FencearrWait` | gem_fencearr_wait | 17 statements: a batch waits for the spinner's syncobj |
| `ExecBasic` | gem_exec_basic | 23 statements per entry of the engine table: `noop`, `gtt`, `readonly` |
| `Latency` | gem_exec_latency, gem_store_latency | 5 or 7 statements per sample, a context per round |

Each EXTENDS `Gkit` and names its statements: an action per statement, or one per
C function whose disjuncts are its statements. `Program(p)` is their
disjunction. `FenceAwait` and `FencearrSig` also have a specification of their
own, in which every process runs that program.

`Suite` composes all of them: every process runs one of the seven programs, on
one card. This is where the hazards between programs are: an orphaned spinner of
one blocks the waits of another, a batch may be queued behind a stranger's, a
busy query sees other requests. Its properties are the programs' own promises,
taken together over all of them.

`GatedTask` is the abstract promise of the three programs with a spinner: a task
stays blocked behind a gate, the gate opens only when the task is pending, the
program passes only when the task has finished. `FenceAwait` and `Suite` implement
it (`KeepsPromise`, with INSTANCE ... WITH): the gate is the release of the
spinner, the task the request behind the fence.

### GttFill: gem_exec_gttfill

A module of its own, because it needs what `Gkit` abstracts: addresses. `count`,
`i`, `cycles` and `presumed` are the program's variables (the two relocation
entries that all batches share are one); `word` is the address the driver wrote
into a batch, `stored` the one the batch stored, `place` where it is bound.
`Exec` finds a place, pushing out an idle batch if need be, and corrects the
address only where the presumed offset is wrong. `Execute` runs the ring in
order, `Evict` is another client. The mapping is write-combining or, if that
fails, through the GTT, where a failed `mmap()` passes the assert.

### Frequency: the limits around gem_exec_blt

`gt_min` and `gt_max` are the two sysfs files, which belong to the card and are
shared by all instances. `set_auto_freq`, `set_min_freq`, `set_max_freq`, `Save`
and `Restore` are the functions and the two ends of `main()`, one disjunct per
sysfs access; each says whether the code aborts on a refused write or ignores it.
The driver refuses a limit out of the hardware's range or past the other one.
`Run` is `run()`: it may abort, and then nothing restores the limits.

### Blt: the copy gem_exec_blt measures

`run()` of `gem_exec_blt.c`, which `Frequency` takes as one step. `Rectangles` are what
`gem_linear_blt()` writes: the whole rows and the rest, with coordinates that keep
to their 16 bits. `target` and `presumed` are the relocation entries, `word` the address
in the batch each is for, `offset` is `exec[].offset` and `place` where the
driver has bound an object. `Accept` and `Refuse` are the driver's answers:
it looks the targets up by index or by handle as `flags` say (`Lookup`),
leaves the entries alone if it may and every object is where `exec[]` says
(`Skipped`), and else corrects the addresses presumed wrongly. A submission that
is refused may have been corrected before. `Evict` is another client. `Build`
includes that 22 dwords do not fit `buf[20]`: the process may go on or not.

### TiledWc: gem_tiled_wc

The arithmetic and the loop of gem_tiled_wc. `calc_swizzle_offset` and
`calculate_expected` are the functions of those names. The hardware's side uses
neither: `Tiled` is written from the definition of an X tile, and `Landed` from that
of the memory controller, which stores a line of 64 bytes in the half of its pair that
the exclusive or (`Parity`) of bit 6 and of the mode's other address bits (`MixedBits`,
`AddressBit`) selects. So a comparison (`Mismatches`) is between two independent
definitions, of the tiling and of the swizzling. `hw` is how the memory controller
swizzles, `swizzle` what the program believes. The kernel does not report the use of
bit 17 (`Reported`), and `high` are the pages whose physical address has it set. `ChooseRange` draws the two
random numbers and computes the range and the pages to map.

### DrmOpen, Timing, CommandStream and Measure: from the node to the figure

The modules above leave out which device is opened, what the clock shows and what
is in a batch. Three modules model these, and `Measure` puts them under the five
programs that take a time.

`DrmOpen`: `next` is the `i` of the searches, one step per `open()`. `drm_get_card`
searches once and forgets; `drm_open_driver` searches again if it has found nothing.
`ComeOrGo` makes and removes nodes between two calls. `steady` and `lasting` are
history: which nodes never changed, and which were there ever since the first search
failed.

`Timing`: `clock` is CLOCK_REALTIME, `start` the reading kept (0 is "not set", as in
the code). `nsec_since`, `seconds_elapsed`, `elapsed` and `bytes_per_sec` compute as
the code does: unsigned numbers wrap, a double keeps its sign. `SetClock` is an
operator or NTP. `real` and `shift` are history: the time that passed, and by how much
the clock was set.

`CommandStream`: `batch` holds the dwords. `BuildEnd`, `BuildSpinner`, `BuildStore`,
`BuildFill` and `BuildCopy` write the batches of the programs, headers put together
bit by bit as in the sources, with their relocation entries; `BuildStore` includes the
dwords of the array that were never set. `Submit` is the driver: it binds, writes
addresses where the presumed ones are wrong, and waits for a place on the ring
(`Room`). The engine fetches a header, looks it up in `Instructions`, the commands of
`intel_reg.h`, and takes its length from it; `landed` is what it stored and copied. A
header that is undefined, unknown or of the wrong length stops the model's engine,
and `DecodedAsMeant` says that this does not happen. `Operands`, how many dwords each
command takes, is from the hardware's definition, as are the fields of a copy.

`Measure`: `exec` and `store` are gem_exec_latency and gem_store_latency, `blt` is
`run()` of gem_exec_blt, `fill` gem_exec_gttfill with one batch, `busy` the spinning
call of gem_fence_busy. Each is the sequence of its library calls over the three
modules, with its own arithmetic (`Take`, `Average`, `Report`, `until_timeout`,
`WatchClock`). Calls fail only for want of a device; how the others fail is in `Latency`,
`Blt`, `GttFill` and `FenceBusy`.

### Faulty statements

The operators under "Faulty statements" are mistakes in one statement (a missing
barrier, a mapping made too late, a missing close). They are no part of any
specification; PROJECT.json pairs each property with one that breaks it.

## 3. Runs, bounds and fairness

| run | what it shows |
|---|---|
| Suite | Two processes, each running any of the seven programs, each of the thirteen calls named in `Gkit` may fail (`Fallible`). An assert on the device fails only at a busy query that failed, at one that came after completion, or at the check of a syncobj that could not be exported; the two asserts of gem_fence_busy on a limit of time fail only once the end of the spinner is in the memory the engine reads; an unmapped pointer is used only in gem_exec_basic (`AssertsHold`); the engine is left spinning only by the aborts listed (`OrphansExplained`); fences and busy states tell the truth among other programs' requests (`FencesHold`); times are taken, and tests end, when the work is complete (`WorkDone`); a pass leaves nothing, except the first batch of gem_fencearr_wait (`PassIsClean`); only an orphan can hang a process, and never gem_fence_busy (`Ends`), or keep the engine busy (`EngineFreed`) |
| FenceAwait | gem_fence_await alone, on a kernel that ignores in-fences and with a ring per context. The order of one ring is then all that keeps the store late, and it is enough (`NoEarlyStore`, `StoreAfterFence`); no assert fails, and every process ends, beside an orphan too, because rings are not shared |
| FencearrSig_busy | violation expected: without any fault, the asserts right after the submission race with the completion of an empty batch |
| GttFill | five of nine units usable below the limit, batches of two, so three batches for two places; two passes; any call but the size query may fail. Relocation is right, the last wait is enough, a pass evicts, and the program ends |
| GttFill_mapfail | violation expected: `gem_mmap__gtt` does not assert on a failed `mmap()` |
| Frequency | one instance, all pairs of limits found in 1..5; reads may fail and `run()` may abort |
| Frequency_two | violation expected: two instances and no fault; a write is refused and the assert aborts |
| Blt | objects of a rest, of whole rows and of both, up to the last row a coordinate can name; the driver may refuse the first submission and other clients evict. The rectangles are the object (`CoversExactly`), no address is stale (`CopiesSrcToDst`) and both forms of the entries name what they should (`NamesFound`). That the time is taken after the last copy is proved (`TimedAlways`) |
| TiledWc | four tiles, every swizzling, any pages with bit 17 set, any call may fail. A comparison fails only if the mode the program works with is not the memory controller's, after a failed query or where bit 17 swizzles, and then one of the first range does fail: the test passes exactly if the mode is true (`ChecksHold`); reads stay in the object and the mapping (`ReadsInside`) |
| TiledWc_range | violation expected: without any fault, the first range mapped ends a page behind the object |
| Measure | the five programs, nodes that come and go, a clock that is set, a ring with two places. The card is found if it is there, and sysfs and ioctls mean the same one (`FindsTheCard`); engine and program agree on every command (`DecodedAsMeant`) and on what it does, before a time is taken (`EngineDoesAsMeant`); a mean is true, and off by no more than the clock was set, even where one latency wrapped (`MeanIsTrue`); the loops with a limit run once, stop in time and not early (`LoopKeepsTime`); everything ends (`Ends`) |
| Measure_blt | violation expected: without any fault, the time gem_exec_blt prints for one copy is that of all of them |

Bounds. Two processes in `Suite`: they share only the card, and every hazard listed is
between one process and one other; `SuiteProofs` is for any number. `Suite` tries the
first three entries of the engine table (`Entries`: two on the programs' own engine, one on
another) and two rounds (`Rounds`) of two samples (`Times`) in `Latency`: the next entry,
round or sample repeats the statements on the same object names, and `SuiteProofs` is for
all seven entries and any number of rounds and samples. `MaxPass = 2` in `GttFill` makes
a second pass meet what the first left. `Aperture = 9`, `Limit = 5` and
`BatchSize = 2` put the 4 GiB limit below the aperture and leave a remainder in both
divisions. In `Blt` a row has 8 bytes, a pixel 2 and a coordinate 2 bits, so the sizes
reach the greatest height; four places for three objects let an object come back
elsewhere, and two submissions in the loop let one be queued behind the other.
`TiledWc` has 256 x 16 dwords, two tiles by two, and samples at the ends of pages and
of the object; the proofs are for every size.

In `Measure` sizes are scaled so that their relations stay: a "second" of 1 << 30
(`Giga = 15`) is 7% more than NSEC_PER_SEC = 14, a microsecond is 2, the unsigned
numbers wrap at `Half = 4` and `Word = 240`, both multiples of what they are in the
code, and a KiB is 10. The clock is set once, by -3 or +4: it goes back behind the start of a sample of
up to `MaxSample = 4`, which wraps, or within the loops with a limit, which last up
to `MaxLoop = 18`. Two nodes that change twice: one appears behind the search and one
vanishes before it. Two rounds of two samples, one of which is not the first of its
round; three submissions for two places on the ring; objects at either of two
addresses.

Fairness. A process is scheduled: weak fairness of its program. The device
executes and signals a request that may run (`DeviceFairness`), and the ring of
`GttFill` likewise. `Drain` has none: a write-combining buffer never has to
empty itself, which is why `__sync_synchronize` matters, and nothing has to
evict. `TimeOut` of gem_fence_busy is strongly fair: it is enabled each time the
loop reads the clock, and the clock reaches a second in the end. No property
assumes that the GPU is reset when it hangs: the driver's hangcheck is not
modelled, so an orphan spins for ever.

In `Measure` the program, the engine and the clock are weakly fair; nodes need not
change and the clock need not be set.

CHECK_DEADLOCK is FALSE in `Suite` only: a process behind another's orphan waits
for ever, as the real one does without hangcheck.

## 4. Findings

- `src/gem_fencearr_sig.c:89-90` assert that an empty batch is still busy just after its
  submission. Nothing keeps it from completing first (run FencearrSig_busy).
- `src/gkit_lib.h:247` says `gem_mmap__gtt` asserts on failure; `mmap()` fails with
  `MAP_FAILED`, and `src/gkit_lib.c:225` looks for NULL (run GttFill_mapfail). gem_exec_basic
  and gem_exec_gttfill then write through it; gem_exec_basic makes the same
  mistake at line 80 (`AssertsHold` allows just these places).
- `src/gem_exec_blt.c:279-280` and `287-288` assert that no limit is refused; with two instances on one
  card one is (run Frequency_two).
- `src/gem_tiled_wc.c:213` goes to the next page even when the range ends at the start of
  one, as in the first iteration: it maps a page behind the object it means to read
  "subsets of" (line 190; run TiledWc_range). Nothing reads there.
- `src/gem_exec_blt.c:212-214` print a time and a rate for one copy of the object; the time
  is that of all 1 << 12 of them (run Measure_blt).

Read while modelling, with no run of their own: the latency programs
(`src/gem_exec_latency.c:96`, `src/gem_store_latency.c:114`) divide nanoseconds by 1000 and print
"ms"; `src/gkit_lib.h:206` says `drm_open_driver` always returns a valid descriptor, and it
may return -1; `src/gkit_lib.h:194` promises an i915 card, and `drm_get_card` returns the first
node that opens, whatever driver is behind it.

Not a disagreement with anything written, but shown by the runs: an abort inside
`store()`, or of the second batch's wrappers in gem_fencearr_wait, leaves the engine
spinning; gem_fencearr_wait never closes its spinner's handle or unmaps it.

## 5. Proofs

TLAPS checks these for every value of the constants; liveness is beyond it.

`GkitProofs` has the lemmas that the wrappers and the device keep the types
and what each changes. The other proof modules have one theorem per property,
each from an inductive invariant (`IInv`, in `MeasureProofs` `AllInv`
and `BltTime`); every invariant is needed because the property alone does not survive a
step from an unreachable state.

`FenceAwaitProofs` assumes only that "spin", "store" and "scratch" are among
the names (`NameAssumption`). Per process, `ContentInv` says what each object can
hold at each statement; `JobInv` what the two requests write and on which ring;
`OrderInv` that the store's request waits for the spinner's until that is done, whether
through the fence or the ring; `HoldInv` which handles, mappings and descriptors are held;
`EndInv` where a process can have ended. `UnusedInv` says that no other object is ever
submitted. From these follow the absence of an early store (for kernels with
and without in-fences, shared and private rings), of failing asserts and of
orphans not made by `store()`, the clean pass, the action property
`StoreAfterFence`, and step by step the refinement of `GatedTask`.

`GttFillProofs` (any size, limit and number of batches): `IndexInv` ties the loop
index to the statement, `RingInv` says that the batches in flight are the last ones
submitted in order, `PlaceInv` that no two share a place and each in flight holds
its own address, `ResetInv` that batch and relocation entry agree when used,
`ResultInv` that a batch of this pass that has run stored its address, `EndInv` what
cleaning up has returned. `NeverFits` adds `CountInv` and a pigeonhole argument on the
places; it assumes that the size query does not fail, and is false without
(`Fallback`, 256 MiB in the code, may be less than the aperture).

`FrequencyProofs`: types and the order of the limits for any number of instances.
For one instance, `MeasuresPinned` (from `PinInv`, what has been written at each
statement) holds whatever fails. Unless writes themselves fail, no write is refused
(`AlonePassesWrites`), measurements are as announced (`AloneMeasuresAsSet`) and the limits
are restored (`AloneRestores`): all three from `SoundInv`, which relates the values saved,
those found and the current ones.

`TiledWcProofs`: `LandedLine` shows that the exclusive or of the address bits, counted
(`CountBits`), is where the program looks: `calc_swizzle_offset` for the mode of the memory
controller, with the line inverted on pages with bit 17. With `SwizzleTwice` (inverting
bit 6 keeps bits 9, 10 and 11) and `TilingUndone` (a dword is determined by tile,
row and column, for every size in whole tiles) nothing mismatches if the mode is true
(`NothingMismatches`), and if it is not, a dword of the object does, on the first
row of a tile (`SomethingMismatches`); `ReportInv` carries this to the statements of the
loop, whose first range is the whole object. `RangeInv` gives the bounds of each range for
any random numbers.

`BltProofs`: `Coverage` divides a byte's number into row and column to show that the
rectangles are the object, for every size below 65536 rows. The invariant relates the entries, the batch
and `exec[]` at the statements where a submission may follow: `NameInv` (by index exactly while the
driver is told so), `WordInv` (the batch holds the presumed addresses, which are those of
`exec[]` while the driver may skip the entries), `SizeInv` (both builds have one
length, and it gives the number of entries), `TimeInv` (copies made and queued
against submissions). `Corrected` shows that a submission leaves every address right.

`MeasureProofs`: `StepKinds` shows that no statement of the five programs touches the
search or leads back to it; `SearchInv` says what has been tried at each step of a
search (the nodes below `next` that lasted are none, `card` is a node that was there),
from which `CardFound` follows for any number of nodes, comings and goings.
`TimeInv` is the invariant of the clocks: `ClockInv` bounds how far the clock can have
been set (and that it never shows 0, which the code takes for "not started"), `StartInv`
and `SumInv` say that the reading kept, and the sum of the latencies modulo the width
of a word, are what the clock showed of the time measured. `NsecSince` shows that the
difference taken in seconds and nanoseconds is the difference, `ModSum` that a sum of
wrapped latencies wraps back (`MeanAlways`), `Seconds` and `LimitKept` that the shift
by 30 bits decides rightly before the start as well as after it (`KeepsTime`). They
assume that a loop and the settings of the clock stay below 2^32 seconds
(`ShortOfAWrap`), without which the conversion to `uint32_t` loses the seconds. For
gem_exec_blt, `BltTime` says that the clock read before the loop and the one read after
it are those of the time shown; `ElapsedIsNear` that seconds and microseconds give
their difference to less than a microsecond, and `Orders` and `RateHolds` that the unit
`bytes_per_sec` picks is the right one and its figure is the rate, rounded down.

`StreamInv` is the invariant of the batches and the engine, for any places, ring, and
numbers of samples. `StreamOK` holds for all programs: the registers are in range, no
two entries write the same dwords, and objects are bound at addresses there are. One part
per program (`ExecStream`, `StoreStream`, `FillStream`, `BusyStream`, `BltStream`) says
what the batch holds dword by dword between building and submission (presumed addresses) and
after it (those the driver wrote), where the engine is in it (`EngineAt`: between
batches, or at the start of a command, never within one), and what it has done by
then. `DecodedAsMeant` follows because `Headers`, the five headers the programs put
together bit by bit, are each matched by exactly one of `Instructions`
(`OneMatch`) and have its length. For `EngineDoesAsMeant` the parts say that an empty ring means the
last request has landed. `Built...` computes what each builder
writes, `SubmitView` what the driver changes in it, `ExecuteView` what the engine makes
of a command. `CopyIsWhole` divides a row's number to show that the rectangles of
gem_exec_blt, taken back out of the 16-bit fields of their dwords, have every row of the
object, its bytes and no others. It needs that the object is whole pixels and that the
number of rows fits in 16 bits (`SizeAssumption`): the assert in `gem_linear_blt()`
(`src/gem_exec_blt.c:45`) lets 2^16 rows pass, one too many for the field. The one
object the program copies has one row. `PlaceAssumption` asks for batches of two dwords or more in
gem_exec_gttfill, which stores 8 bytes before the end.
`CountInv` bounds rounds, samples and submissions, and completes `TypeCorrect`.

`SuiteProofs` proves every safety property the run of `Suite` checks, and that `Suite`
implements `GatedTask`, for any number of processes. Its invariant has one part per
program (`AwaitInv`, `BusyInv`, `SigInv`, `WaitInv`, `BasicInv`, `ExecInv`, `StoreInv`), which
speaks only of the objects of the process that runs it: what they hold at each statement,
which requests are in flight, what is held, and where the process can have ended.
`TargetInv` says that a batch writes only to an object of its own process. The argument
is then rely and guarantee: `Same(p)` is what a step of another process, or of the device for
one, leaves to p (its own objects, but for a buffered store that may land), every part
survives it, and each program's own steps and the device's steps for its requests keep
its part. The lemmas about the wrappers in `GkitProofs` say what each of them
changes. Where a program keeps a batch behind its spinner, both are on one ring and
in order, so the proofs need no assumption about `HonoursFence`: the fences of these
programs are redundant on a kernel that keeps a ring in order. For `AssertsAlwaysHold`,
`AwaitEnd`, `BusyEnd` and `WaitEnd`, and parts of `SigInv` and `BasicInv`, say where a process
can have ended with each verdict; `BusyContent` and `BusyHold` add that where a limit is checked the
end is in memory and the fence is the spinner's own, so that what overruns it is the
device. The loops of
gem_exec_basic and of the latency programs are dealt with by writing `pc` as a base
and the statement within an entry, a round or a sample.

Only model-checked: all liveness (`Ends`, `EngineFreed`, `Terminates`), since TLAPS has
no `ENABLED` here. Every invariant and action property that a passing run checks is the
subject of a theorem. `OrphanOnlyFromStore` and `TimedWhenDone` are proved
and no longer checked by a run: `OrphansExplained` and `EngineDoesAsMeant` say as much there.

## 6. Not modelled

- GPU hangcheck and reset (a driver's remedy the programs do not rely on).
- `intel_reg.h` beside the commands, BR09 to BR14 and the ring: registers of display,
  clocks, interrupts and ports that no program uses. `Makefile`, `README.md`: nothing
  that runs.
- `dcmp()` of gem_exec_blt.c, which nothing calls. What is printed is modelled where it is a figure.
- What a context's priority changes (its failure is ignored, and one ring runs in order).

## 7. Plan

1. A capture of the second builds of `Blt` in `CommandStream`: the refused submission
   and the entries that name handles, dword by dword.
