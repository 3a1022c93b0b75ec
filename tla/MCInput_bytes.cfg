CONSTANTS
    MaxBytes = 2
    Alphabet = {"n", "L2", "K", "BAD"}
    Buffers <- AnyBuffer
    WordMod = 3
    CounterMod = 3
    Offsets = {0, 2}
    Limits = {1, 2}
    Wanted = {"n"}
SPECIFICATION Spec
INVARIANTS TypeOK IndexInBounds
PROPERTIES ErrorMovesNothing PeekPredictsRead
CHECK_DEADLOCK FALSE
