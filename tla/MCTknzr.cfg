CONSTANTS
    Size = 4
    Lexers <- AllLexers
    NoToken = NoToken
SPECIFICATION Spec
INVARIANTS TypeOK CacheMatchesPosition
PROPERTIES ImplementsTokenCursor
