SPECIFICATION FairSpec
CONSTANTS
    Proc = {p1, p2}
    Name = {"spin", "store", "scratch"}
    Fallible = {"open", "create", "write", "mmap", "exec"}
    SharedRing = FALSE
    HonoursFence = FALSE
    Ring = 1
INVARIANTS TypeOK NoEarlyStore ChecksHold PassIsClean
PROPERTIES StoreAfterFence KeepsPromise Terminates
