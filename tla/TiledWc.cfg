SPECIFICATION Spec
CONSTANTS
    WIDTH = 256
    HEIGHT = 16
    Dword = 4
    Iterations = 2
    Samples = {0, 4, 508, 4092, 4096, 16380}
    Fallible = {"open", "create", "tiling", "gtt", "mmap", "query", "wc"}
INVARIANTS TypeOK ChecksHold ReadsInside
