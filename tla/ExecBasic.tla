----------------------------- MODULE ExecBasic ------------------------------
(***************************************************************************)
(* gem_exec_basic.c: for every entry of intel_execution_engines[] three    *)
(* times the same empty batch.  noop() submits it from the stack; gtt()    *)
(* keeps the execbuffer in an object whose handle it closes while it is    *)
(* mapped; readonly() keeps it in memory it has made read-only.            *)
(***************************************************************************)
EXTENDS Gkit

CONSTANTS
    Entries,    \* the table has the entries 0..Entries-1
    RingOf(_)   \* the ring an entry's exec_id and flags select

Batch(p)  == <<p, "obj">>
Header(p) == <<p, "header">>

Width    == 23                      \* statements of the three tests
Noop(e)     == 2 + Width * e        \* the first statement of each
Gtt(e)      == Noop(e) + 5
Readonly(e) == Noop(e) + 17
End         == 2 + Width * Entries
-----------------------------------------------------------------------------
(* Faulty statements, to see that the properties notice them.              *)

UnmapFirst(p, e) == Unchecked(p, Gtt(e) + 3, munmap({Header(p)}))
SkipSync(p, n)   == \/ Unchecked(p, n, UNCHANGED effects)
                    \/ Unchecked(p, n + 1, gem_close(Batch(p)))
-----------------------------------------------------------------------------
OpenDevice(p) == drm_open_driver(p, 1)

batch_create(p, n) ==
    \/ Ioctl(p, n, "create", TRUE, gem_create(Batch(p)))
    \/ Ioctl(p, n + 1, "write", Batch(p) \in open, gem_write(Batch(p), "end"))

batch_fini(p, n) ==
    \/ gem_sync(p, n, Batch(p))
    \/ Unchecked(p, n + 1, gem_close(Batch(p)))

SubmitBatch(p, n, e) ==
    Ioctl(p, n, "exec", Batch(p) \in open, gem_execbuf(Batch(p), {}, RingOf(e), {}))

\* a use of memory that is mapped, or not
Touch(p, n, valid) ==
    /\ At(p, n) /\ UNCHANGED effects
    /\ \/ valid /\ Advance(p)
       \/ ~valid /\ Exit(p, "sigsegv")

noop(p, e) ==
    LET n == Noop(e)
    IN  batch_create(p, n) \/ SubmitBatch(p, n + 2, e) \/ batch_fini(p, n + 3)

\* A failure of mmap() is passed on as a pointer that is not NULL.
MapHeader(p, n) ==
    \/ Ioctl(p, n, "mmap", Header(p) \in open, gem_mmap__gtt(Header(p)))
    \/ "map" \in Fallible /\ fd[p] = Card /\ Unchecked(p, n, UNCHANGED effects)

CloseHeader(p, e) == Unchecked(p, Gtt(e) + 3, gem_close(Header(p)))

gtt(p, e) ==
    LET n == Gtt(e)
    IN  \/ Ioctl(p, n, "create", TRUE, gem_create(Header(p)))
        \/ Ioctl(p, n + 1, "domain", Header(p) \in open, gem_set_domain(Header(p), TRUE))
        \/ MapHeader(p, n + 2)
        \/ CloseHeader(p, e)
        \/ batch_create(p, n + 4)
        \/ Touch(p, n + 6, Header(p) \in mapped)    \* exec->handle = ...
        \/ SubmitBatch(p, n + 7, e)
        \/ Touch(p, n + 8, Header(p) \in mapped)    \* exec->handle is read again
        \/ batch_fini(p, n + 9)
        \/ Unchecked(p, n + 11, munmap({Header(p)}))

\* MAP_FAILED passes the assert and is then written through; memory that could not
\* be made read-only ends the process.  The execbuffer is in the process's own
\* memory: no object is mapped, and none unmapped after the submission.
MakeReadonly(p, n) ==
    /\ At(p, n) /\ UNCHANGED effects
    /\ \/ Advance(p)
       \/ "map" \in Fallible /\ Exit(p, "sigsegv")
       \/ "mprotect" \in Fallible /\ Exit(p, "ioctl")

readonly(p, e) ==
    LET n == Readonly(e)
    IN  \/ batch_create(p, n)
        \/ MakeReadonly(p, n + 2)
        \/ SubmitBatch(p, n + 3, e)
        \/ batch_fini(p, n + 4)

Program(p) ==
    \/ OpenDevice(p)
    \/ \E e \in 0..(Entries - 1) : noop(p, e) \/ gtt(p, e) \/ readonly(p, e)
    \/ Return(p, End, UNCHANGED effects)
-----------------------------------------------------------------------------
(* What the program promises of one of its processes; Suite checks it for  *)
(* processes of all programs on one card.                                  *)

\* The two places where a mapping that failed is used.
AtBadMapping(p) ==
    "map" \in Fallible /\ \E e \in 0..(Entries - 1) : pc[p] \in {Gtt(e) + 6, Readonly(e) + 2}

\* A test that is over has left nothing in flight.
DrainedBetweenTests(p) ==
    (\E e \in 0..Entries : pc[p] \in {Noop(e), Gtt(e), Readonly(e)}) => ~InFlight(Batch(p))

Clean(p) == \A o \in {Batch(p), Header(p)} : o \notin open \cup mapped /\ ~InFlight(o)
=============================================================================
