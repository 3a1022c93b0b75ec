CONSTANTS
    NoNode = NoNode
    NoSheet = NoSheet
    Nodes = {0, 1, 2, 3, 4, 5, 6, 7}
    Queried = {4, 7}
    MaxSimple = 3
    MaxRules = 3
    MaxHandlers = 2
    Chunk = 2
    Instances <- SmallInstances
    Entries <- Registrable
    Builtin <- BuiltinHandlers
    Matches <- SelMatchesNode
    Specificity <- SelSpecificity
SPECIFICATION Spec
INVARIANTS TypeOK CollectionIsComplete NothingRemembered CascadeOrder
    CSSMatchesAreFound OnlyCSSMatchesAreFound
PROPERTIES ImportantIsKept QueriesEnd
