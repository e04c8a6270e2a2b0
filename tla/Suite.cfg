SPECIFICATION FairSpec
CONSTANTS
    Proc = {p1, p2}
    Name = {"spin", "store", "scratch", "obj", "wait", "syncobj", "header", "context"}
    Fallible = {"open", "create", "write", "mmap", "map", "domain", "exec", "wait",
                "busy", "syncobj", "export", "context", "mprotect"}
    Entries = 3
    Rounds = 2
    Times = 2
    SharedRing = TRUE
    HonoursFence = TRUE
INVARIANTS AssertsHold OrphansExplained FencesHold WorkDone PassIsClean
PROPERTIES KeepsPromise Ends EngineFreed
CHECK_DEADLOCK FALSE
