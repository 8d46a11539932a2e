\* Two calls of a builder overlap, while the key is rotated, files are saved
\* or fail to be, and the process crashes and starts again.
CONSTANTS
    c1 = c1
    c2 = c2
    None = None
    Calls <- TwoCalls
    MaxVersion = 3
    MaxSettings = 1
    MaxKeys = 3
    Faults = TRUE

SPECIFICATION Spec
SYMMETRY Symmetry
INVARIANTS
    EvidenceVerifies
    PublishedNotOlder
    SignedKeysKept
CHECK_DEADLOCK FALSE
