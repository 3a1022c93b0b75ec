CONSTANTS
    Pieces = {"rule", "decl", "}"}
    MaxPieces = 2
    HeadPieces = {}
    MaxSyntax = 0
    MaxHead = 0
    Texts <- AllTexts
    Skip <- SkipBlanks
    Selector <- ParseSelector
    Declaration <- ParseDeclaration
    MediaPrelude <- ParseMediaPrelude
    PagePrelude <- ParsePagePrelude
    FontFacePrelude <- ParseFontFacePrelude
    Charset <- ParseCharset
    Import <- ParseImport
    AtruleCore <- ParseAtruleCore
    RulesetCore <- ParseRulesetCore
    StatementCore <- ParseStatementCore
SPECIFICATION Spec
PROPERTY Terminates
CHECK_DEADLOCK FALSE
