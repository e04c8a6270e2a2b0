-------------------------------- MODULE Gkit --------------------------------
(***************************************************************************)
(* gkit_lib.c: the wrappers every program of the kit calls, and the i915   *)
(* device they drive, as far as the programs observe it.                   *)
(*                                                                         *)
(* Proc is a set of processes of the kit that share one card.  Each runs a *)
(* straight line of statements counted by its pc; a program's module       *)
(* EXTENDS this one and names every statement as an action.  The device    *)
(* runs beside them: Execute, Signal and Drain interleave with everything. *)
(* A request is named by its batch object: no program submits a batch      *)
(* again before the last submission of it is complete.                     *)
(***************************************************************************)
EXTENDS Integers

CONSTANTS
    Proc,           \* the processes that use the card
    Name,           \* what a program calls its GEM objects
    Fallible,       \* the calls that may fail, see Call
    SharedRing,     \* TRUE: one ring per engine; FALSE: one per engine and context
    HonoursFence    \* FALSE: a kernel that ignores the fences a batch waits for

\* "mmap" is the ioctl behind a mapping, "map" the system call mmap(); "mprotect"
\* is a system call too, its assert counts with those of the ioctls
Call == {"open", "create", "write", "mmap", "map", "domain", "exec", "wait",
         "busy", "syncobj", "export", "context", "mprotect"}

ASSUME FallibleAssumption == Fallible \subseteq Call
ASSUME KernelAssumption == SharedRing \in BOOLEAN /\ HonoursFence \in BOOLEAN

VARIABLES
    pc,         \* the statement each process is about to execute
    verdict,    \* "running", "passed", or what ended the process
    fd,         \* the device file of each process: Card, or -1
    fence,      \* the request behind its out-fence file or syncobj: a singleton,
                \* or {} for a descriptor of -1 and a syncobj never signalled
    open,       \* objects whose handle is open
    mapped,     \* objects mapped into their process
    mem,        \* contents of each object, as the device sees it
    wc,         \* a CPU store still in the write-combining buffer, or "none"
    rq,         \* progress of the request whose batch is the object
    job         \* what that request writes, its ring, what it waits for

control == <<pc, verdict, fd>>
objects == <<open, mapped>>
memory  == <<mem, wc>>
effects == <<fence, open, mapped, mem, wc, rq, job>>
vars    == <<pc, verdict, fd, fence, open, mapped, mem, wc, rq, job>>

Object  == Proc \X Name         \* handles are private to a process
Card    == 3                    \* a valid file descriptor
Content == {"zero", "spin", "end", "store", "written"}
Verdict == {"running", "passed", "ioctl", "assert", "timeout", "sigsegv"}

InFlight(b) == rq[b] \in {"queued", "ran"}

\* What DRM_IOCTL_I915_GEM_BUSY and GEM_WAIT ask: is a request using o?
Busy(o) == \E b \in Object : InFlight(b) /\ (o = b \/ o \in job[b].target)
\* What a set_domain for reading waits for: a request that writes o.
WriteBusy(o) == \E b \in Object : InFlight(b) /\ o \in job[b].target

Landed == [o \in Object |-> IF wc[o] = "none" THEN mem[o] ELSE wc[o]]
Failed(call) == IF call \in Fallible THEN {FALSE} ELSE {}
-----------------------------------------------------------------------------
(* Control: one statement of process p, then the next.                     *)

At(p, n)   == verdict[p] = "running" /\ pc[p] = n
Advance(p) == pc' = [pc EXCEPT ![p] = @ + 1] /\ UNCHANGED <<verdict, fd>>
Exit(p, v) == verdict' = [verdict EXCEPT ![p] = v] /\ UNCHANGED <<pc, fd>>
Die(p, v)  == Exit(p, v) /\ UNCHANGED effects

\* assert(condition) between two statements
Check(p, n, condition) ==
    /\ At(p, n)
    /\ \/ condition /\ Advance(p) /\ UNCHANGED effects
       \/ ~condition /\ Die(p, "assert")

\* assert(__wrapper(...) == 0): Effect, or the ioctl fails and abort() is called
Ioctl(p, n, call, valid, Effect) ==
    /\ At(p, n)
    /\ \/ fd[p] = Card /\ valid /\ Effect /\ Advance(p)
       \/ (fd[p] # Card \/ ~valid \/ call \in Fallible) /\ Die(p, "ioctl")

\* a wrapper whose result nobody looks at
Unchecked(p, n, Effect) == At(p, n) /\ Effect /\ Advance(p)

Return(p, n, Effect) == At(p, n) /\ Effect /\ Exit(p, "passed")
-----------------------------------------------------------------------------
(* The wrappers.                                                           *)

drm_open_driver(p, n) ==
    /\ At(p, n)
    /\ \E found \in {TRUE} \cup Failed("open") :
          fd' = [fd EXCEPT ![p] = IF found THEN Card ELSE -1]
    /\ pc' = [pc EXCEPT ![p] = @ + 1]
    /\ UNCHANGED verdict /\ UNCHANGED effects

gem_create(o) ==
    /\ open' = open \cup {o}
    /\ mem' = [mem EXCEPT ![o] = "zero"]
    /\ UNCHANGED <<fence, mapped, wc, rq, job>>

gem_close(o) == open' = open \ {o} /\ UNCHANGED <<fence, mapped, memory, rq, job>>

gem_write(o, content) ==
    /\ ~Busy(o)
    /\ mem' = [mem EXCEPT ![o] = content]
    /\ UNCHANGED <<fence, objects, wc, rq, job>>

gem_mmap__wc(o) == mapped' = mapped \cup {o} /\ UNCHANGED <<fence, open, memory, rq, job>>

gem_mmap__gtt(o) == gem_mmap__wc(o)    \* if mmap() succeeds

munmap(objs) == mapped' = mapped \ objs /\ UNCHANGED <<fence, open, memory, rq, job>>

gem_set_domain(o, forWriting) ==
    /\ IF forWriting THEN ~Busy(o) ELSE ~WriteBusy(o)
    /\ UNCHANGED effects

SetFence(p, f) == fence' = [fence EXCEPT ![p] = f] /\ UNCHANGED <<objects, memory, rq, job>>

\* __gem_execbuf: the ioctl makes pending CPU stores visible and queues the
\* batch behind its ring's requests in flight and behind the fences it names.
Submit(b, target, ring, waits) ==
    LET earlier == {r \in Object \ {b} : /\ InFlight(r) /\ job[r].ring = ring
                                         /\ SharedRing \/ r[1] = b[1]}
        fences  == {r \in waits : HonoursFence /\ InFlight(r)}
    IN  /\ mem' = Landed
        /\ wc' = [o \in Object |-> "none"]
        /\ rq' = [rq EXCEPT ![b] = "queued"]
        /\ job' = [job EXCEPT ![b] = [target |-> target, ring |-> ring,
                                      after |-> earlier \cup fences]]
        /\ UNCHANGED objects

gem_execbuf(b, target, ring, waits) == Submit(b, target, ring, waits) /\ UNCHANGED fence

\* the _WR ioctl returns an out-fence; a SIGNAL entry of the fence array
\* replaces the fence of the syncobj
gem_execbuf_wr(p, b, ring) == Submit(b, {}, ring, {}) /\ fence' = [fence EXCEPT ![p] = {b}]

\* gem_wait without a timeout; if the ioctl fails, set_domain(GTT, GTT) waits
gem_sync(p, n, o) ==
    /\ At(p, n)
    /\ \/ ~Busy(o) /\ Advance(p) /\ UNCHANGED effects
       \/ {"wait", "domain"} \subseteq Fallible /\ Die(p, "ioctl")

\* what the call may return: on an error the zeroed argument says "idle"
gem_bo_busy(o) == {Busy(o)} \cup Failed("busy")

\* poll() on the fence; it ignores a negative descriptor and returns 0, "busy"
fence_busy(p) == \A b \in fence[p] : InFlight(b)

\* The result is not checked: a syncobj that was not created has handle 0, and
\* the first ioctl given that handle fails.
syncobj_create(p, n, s) ==
    /\ At(p, n)
    /\ \E created \in (IF fd[p] = Card THEN {TRUE} ELSE {FALSE}) \cup Failed("syncobj") :
          open' = IF created THEN open \cup {s} ELSE open
    /\ Advance(p) /\ UNCHANGED <<fence, mapped, memory, rq, job>>

syncobj_destroy(p, s) ==
    /\ open' = open \ {s}
    /\ fence' = [fence EXCEPT ![p] = {}]
    /\ UNCHANGED <<mapped, memory, rq, job>>

\* a store through the mapping goes to the write-combining buffer
Poke(p, n, o, content) ==
    /\ At(p, n)
    /\ \/ /\ o \in mapped
          /\ wc' = [wc EXCEPT ![o] = content]
          /\ Advance(p) /\ UNCHANGED <<fence, objects, mem, rq, job>>
       \/ o \notin mapped /\ Die(p, "sigsegv")

\* __sync_synchronize(): the process's own stores reach memory
Barrier(p, n) ==
    /\ At(p, n)
    /\ mem' = [o \in Object |-> IF o[1] = p THEN Landed[o] ELSE mem[o]]
    /\ wc' = [o \in Object |-> IF o[1] = p THEN "none" ELSE wc[o]]
    /\ Advance(p) /\ UNCHANGED <<fence, objects, rq, job>>
-----------------------------------------------------------------------------
(* The device.                                                             *)

\* A spinning batch jumps to its own start until the CPU stores an end there.
Execute(b) ==
    /\ rq[b] = "queued" /\ job[b].after = {}
    /\ mem[b] \in {"end", "store"}
    /\ rq' = [rq EXCEPT ![b] = "ran"]
    /\ mem' = [o \in Object |-> IF mem[b] = "store" /\ o \in job[b].target
                                THEN "written" ELSE mem[o]]
    /\ UNCHANGED <<control, fence, objects, wc, job>>

\* Completion: the fence signals, the objects go idle, whatever waited may run.
Signal(b) ==
    /\ rq[b] = "ran"
    /\ rq' = [rq EXCEPT ![b] = "done"]
    /\ job' = [r \in Object |-> [job[r] EXCEPT !.after = @ \ {b}]]
    /\ UNCHANGED <<control, fence, objects, memory>>

\* The write-combining buffer may empty itself at any time, and never has to.
Drain(o) ==
    /\ wc[o] # "none"
    /\ mem' = [mem EXCEPT ![o] = wc[o]]
    /\ wc' = [wc EXCEPT ![o] = "none"]
    /\ UNCHANGED <<control, fence, objects, rq, job>>

Device == \E o \in Object : Execute(o) \/ Signal(o) \/ Drain(o)

AllExited == (\A p \in Proc : verdict[p] # "running") /\ UNCHANGED vars

\* Queued work that may run is run and then signalled, one condition for both as
\* never both are possible for a batch; stores may stay buffered.
DeviceFairness == \A b \in Object : WF_vars(Execute(b) \/ Signal(b))
-----------------------------------------------------------------------------
GkitInit ==
    /\ pc = [p \in Proc |-> 1]
    /\ verdict = [p \in Proc |-> "running"]
    /\ fd = [p \in Proc |-> -1]
    /\ fence = [p \in Proc |-> {}]
    /\ open = {} /\ mapped = {}
    /\ mem = [o \in Object |-> "zero"]
    /\ wc = [o \in Object |-> "none"]
    /\ rq = [o \in Object |-> "none"]
    /\ job = [o \in Object |-> [target |-> {}, ring |-> 0, after |-> {}]]

Job == [target : SUBSET Object, ring : Nat, after : SUBSET Object]

ControlType ==
    /\ pc \in [Proc -> Nat]
    /\ verdict \in [Proc -> Verdict]
    /\ fd \in [Proc -> {-1, Card}]

EffectType ==
    /\ fence \in [Proc -> SUBSET Object]
    /\ open \subseteq Object /\ mapped \subseteq Object
    /\ mem \in [Object -> Content]
    /\ wc \in [Object -> Content \cup {"none"}]
    /\ rq \in [Object -> {"none", "queued", "ran", "done"}]
    /\ job \in [Object -> Job]

GkitTypeOK == ControlType /\ EffectType
=============================================================================
