CONSTANTS
    Pieces = {"media", "ruleset", "}", "at"}
    MaxPieces = 5
    HeadPieces = {}
    MaxSyntax = 0
    MaxHead = 0
    NoStmt = NoStmt
    NoContext = NoContext
    NoSheet = NoSheet
    Texts <- ClosedTexts
    Skip <- SkipBlanks
    Selector <- ParseSelector
    Declaration <- ParseDeclaration
    MediaPrelude <- ParseMediaPrelude
    PagePrelude <- ParsePagePrelude
    FontFacePrelude <- ParseFontFacePrelude
    Charset <- ParseCharset
    Import <- ParseImport
    AtruleCore <- ParseAtruleCore
    RulesetCore <- ParseRulesetCore
    StatementCore <- ParseStatementCore
SPECIFICATION OMSpec
PROPERTY ImplementsRuleSheet
CHECK_DEADLOCK FALSE
