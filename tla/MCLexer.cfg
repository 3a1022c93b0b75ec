CONSTANTS
    Longest = 4
    Texts <- AllTexts
SPECIFICATION Spec
INVARIANTS TokensAreLongestMatches NothingIsTakenApart ALexerForTheCache
