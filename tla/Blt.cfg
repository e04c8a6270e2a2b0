SPECIFICATION Spec
CONSTANTS
    Sizes = {2, 8, 12, 22}
    ROW = 8
    Pixel = 2
    Field = 4
    Buffer = 80
    Address = {0, 1, 2, 3}
    Loops = 2
    Fallible = {"open", "create", "write", "lut", "exec", "wait"}
INVARIANTS TypeOK CopiesSrcToDst CoversExactly NamesFound
