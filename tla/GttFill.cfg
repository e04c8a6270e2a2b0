SPECIFICATION FairSpec
CONSTANTS
    Aperture = 9
    Fallback = 2
    Limit = 5
    BatchSize = 2
    MaxPass = 2
    Fallible = {"open", "create", "wc", "gtt", "mmap", "exec", "wait"}
INVARIANTS TypeOK StoresHome CheckedAfterRun ChecksHold PassIsClean NeverAllResident
PROPERTIES Terminates
