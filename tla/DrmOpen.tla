------------------------------ MODULE DrmOpen -------------------------------
(***************************************************************************)
(* gkit_lib.c, device discovery: drm_get_card() looks for the first node   *)
(* /dev/dri/card<n> that opens, closes it and returns n, which             *)
(* gem_exec_blt puts into the paths of sysfs; drm_open_driver() looks for  *)
(* the first node again, twice if need be, and keeps it open.              *)
(*                                                                         *)
(* The nodes belong to the system: one may come or go between two calls of *)
(* open().  That an open file outlives its node is the kernel's affair.    *)
(***************************************************************************)
EXTENDS Integers

CONSTANTS
    Nodes,          \* how many nodes are tried, 16
    MaxChanges      \* bound: how often a node comes or goes

ASSUME NodesAssumption == Nodes \in Nat \ {0} /\ MaxChanges \in Nat

VARIABLES
    pc, verdict,    \* the statement the program is at, and how it ended
    next,           \* the loop variable of the search, i
    card,           \* what drm_get_card() returned last
    fd,             \* the node drm_open_driver() keeps open, or -1
    nodes,          \* the nodes that can be opened
    changes,        \* comings and goings so far
    steady,         \* history: the nodes that never came or went
    lasting         \* history: the nodes there ever since the first search failed

found    == <<next, card, fd>>
system   == <<nodes, changes, steady, lasting>>
openVars == <<next, card, fd, nodes, changes, steady, lasting>>

Node == 0..(Nodes - 1)

At(label)   == verdict = "running" /\ pc = label
Goto(label) == pc' = label /\ UNCHANGED verdict
Exit(v)     == verdict' = v /\ UNCHANGED pc
Stay        == UNCHANGED <<pc, verdict>>

Searching == pc \in {"card", "first", "second"} /\ verdict = "running"
-----------------------------------------------------------------------------
\* open() of the next node fails, and the loop goes on
TryNext == next \in Node \ nodes /\ next' = next + 1 /\ Stay /\ UNCHANGED <<card, fd>>

drm_get_card ==
    /\ At("card") /\ UNCHANGED system
    /\ \/ TryNext
       \/ /\ next \notin Node \ nodes
          /\ card' = IF next \in nodes THEN next ELSE -1
          /\ next' = 0 /\ Goto("first") /\ UNCHANGED fd

\* __search_and_open(); Failed is what follows its return of -1
search_and_open(pass, Failed) ==
    /\ At(pass) /\ UNCHANGED <<nodes, changes, steady>>
    /\ \/ TryNext /\ UNCHANGED lasting
       \/ /\ next \in nodes
          /\ fd' = next /\ Goto("opened") /\ UNCHANGED <<next, card, lasting>>
       \/ /\ next = Nodes /\ next' = 0 /\ UNCHANGED <<card, fd>>
          /\ lasting' = IF pass = "first" THEN nodes ELSE lasting
          /\ Failed

\* a faulty statement: the second search is forgotten
OpenOnce == search_and_open("first", Goto("opened"))

\* __open_driver(): a second search if the first one finds nothing
drm_open_driver ==
    \/ search_and_open("first", Goto("second"))
    \/ search_and_open("second", Goto("opened"))

\* Meanwhile, elsewhere: a driver is bound or unbound, a node's access changed.
ComeOrGo(n) ==
    /\ Searching /\ changes < MaxChanges /\ changes' = changes + 1
    /\ nodes' = IF n \in nodes THEN nodes \ {n} ELSE nodes \cup {n}
    /\ steady' = steady \ {n} /\ lasting' = lasting \ {n}
    /\ Stay /\ UNCHANGED found

OpenInit ==
    /\ next = 0 /\ card = -1 /\ fd = -1
    /\ nodes \in SUBSET Node /\ changes = 0
    /\ steady = Node /\ lasting = {}

OpenTypeOK ==
    /\ next \in 0..Nodes /\ card \in Node \cup {-1} /\ fd \in Node \cup {-1}
    /\ nodes \subseteq Node /\ changes \in 0..MaxChanges
    /\ steady \subseteq Node /\ lasting \subseteq nodes
-----------------------------------------------------------------------------
\* The search finds a card if one can be found: it gives up only if no node was
\* there from the end of the first search to the end of the second
\* (gkit_lib.c:322-325).  And sysfs and the ioctls address one card, unless one
\* of the two nodes came or went in between: card<n> of sysfs is then another.
FindsTheCard ==
    pc = "opened" =>
        /\ fd = -1 => lasting = {}
        /\ card # -1 /\ fd # -1 /\ {card, fd} \subseteq steady => fd = card
=============================================================================
