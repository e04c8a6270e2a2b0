SPECIFICATION Spec
CONSTANTS
    Aperture = 5
    Fallback = 2
    Limit = 6
    BatchSize = 2
    MaxPass = 1
    Fallible = {"wc", "mmap"}
INVARIANTS MappingIsUsable
