CONSTANTS
    MaxBytes = 4
    Alphabet = {"a", "s", "n", "L2", "L3", "K"}
    Buffers <- WfBuffers
    WordMod = 64
    CounterMod = 8
    Offsets = {}
    Limits = {2, 63}
    Wanted = {"s", "0"}
SPECIFICATION CharSpec
PROPERTIES ImplementsCharStream WhiteSpaceRunExact CharRunMaximal LoopsTerminate
CHECK_DEADLOCK FALSE
