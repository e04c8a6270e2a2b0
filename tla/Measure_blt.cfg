SPECIFICATION FairSpec
CONSTANTS
    Nodes = 2
    MaxChanges = 0
    NSEC_PER_SEC = 14
    Giga = 15
    Usec = 2
    Half = 4
    Word = 240
    Kilo = 10
    Epoch = 20
    Back = {3}
    Forward = {4}
    MaxSets = 0
    BATCH_SIZE = 4194304
    OBJECT_SIZE = 16384
    Address = {0, 4194304}
    RING_LEN = 3
    Programs = {"blt"}
    Rounds = 2
    Times = 2
    Loops = 3
    Timeout = 1
    MaxSample = 12
    MaxLoop = 18
INVARIANT PrintsTimeOfOneCopy
