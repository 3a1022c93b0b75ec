CONSTANTS
    NoNode = NoNode
    NoSheet = NoSheet
    Nodes = {0, 1, 2, 3, 4, 5, 6, 7}
    Queried = {7}
    MaxSimple = 3
    MaxRules = 1
    MaxHandlers = 2
    Chunk = 2
    Instances <- LongList
    Entries <- Registrable
    Builtin <- BuiltinHandlers
    Matches <- SelMatchesNode
    Specificity <- SelSpecificity
SPECIFICATION Spec
PROPERTY QueriesEnd
