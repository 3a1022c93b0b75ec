CONSTANTS
    Pieces = {"rule", "decl", "ruleset", "media", "page", "font", "}", ";", "at", "COMMENT"}
    MaxPieces = 5
    HeadPieces = {"import", "charset", "CDO", "ruleset", "at", ";", ",", "name", "}"}
    MaxSyntax = 3
    MaxHead = 4
    NoStmt = NoStmt
    NoContext = NoContext
    NoSheet = NoSheet
    Texts <- ForTheBuilder
    Skip <- SkipBlanks
    Selector <- ParseSelector
    Declaration <- ParseDeclaration
    MediaPrelude <- ParseMediaPrelude
    PagePrelude <- ParsePagePrelude
    FontFacePrelude <- ParseFontFacePrelude
    Charset <- ParseCharset
    Import <- ParseImport
    AtruleCore <- ParseAtruleCore
    RulesetCore <- ParseRulesetCore
    StatementCore <- ParseStatementCore
SPECIFICATION OMFairSpec
INVARIANTS TypeOK AcceptsTheGrammar ResumesBetweenStatements OMTypeOK CurrentStatementIsOpenRule OneOwner
PROPERTIES ImplementsSacProtocol SheetFollowsRules Terminates
CHECK_DEADLOCK FALSE
