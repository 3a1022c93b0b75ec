# libcroco in TLA+

Models of libcroco, the CSS2 parsing library, with what TLC checks about them on
small instances and what TLAPS proves about them for every instance. Paths are
those of the repository; the library is in `src/src/`.

## 1. The system

libcroco reads a style sheet through a stack of objects, each calling the one
below it directly; everything runs in the caller's thread.

| component | file | state it keeps | operations | what makes it correct |
|---|---|---|---|---|
| CRInput | `cr-input.c`, decoder in `cr-utils.c` | byte buffer, index, line, column, end-of-line and end-of-input flags | read/peek a byte or a character, consume runs, seek, record and restore a position | the index stays in the buffer; a failure moves nothing; a peek announces the read; lines and columns are those of the text before the cursor |
| CRTknzr | `cr-tknzr.c` | one cached token, the position it started at | get and unget a token, the character functions, over an input that is ahead of the cache | tokens and characters come from one position, nothing is lost or repeated |
| CRToken | `cr-token.c` | a typed token with its contents | setters | one owner of the contents |
| CRParser | `cr-parser.c` | the local frames of a recursive descent; position in the tokenizer | one routine per production; `parse_stylesheet` drives them, calls the handler and recovers with the core grammar | the handler is told a well-nested story; recovery resumes between statements; a document comes to an end |
| CRDocHandler | `cr-doc-handler.c` | callbacks, context and result pointers | reference counting, get/set | the protocol its header documents |
| CROMParser | `cr-om-parser.c` | a context: sheet, current statement, current @media statement | fifteen callbacks, `parse_buf`, files, cascades | the sheet is the rules that were read; each statement has one owner |
| CRStatement, CRDeclaration | `cr-statement.c`, `cr-declaration.c` | doubly linked lists with pointers to their owners and reference counts | make, append, prepend, unlink, hand over, destroy | links agree in both directions, no node has two owners, none is freed twice or forgotten |
| CRTerm, CRSelector, CRSimpleSel, CRAdditionalSel, CRAttrSel, CRPseudo, CRPropList | one file each | lists of the same kind, appended to and given up as a whole | append, prepend, unlink, copy, print | the same |
| CRStyleSheet, CRCascade | `cr-stylesheet.c`, `cr-cascade.c` | the sheets of three origins, reference counts | set, get | each sheet is released once |
| CRSelEng | `cr-sel-eng.c` | pseudo-class handlers | match a selector against a node, collect the rules of a node, order them | matching is the CSS2 relation; the last of the most specific, most important declaration wins |
| CRStyle, CRNum, CRRgb, CRFonts | one file each | specified and computed values, parent, font families, a flag that it was resolved | fill from declarations, set one, resolve, copy, count | every property is set, inherited or initial, whatever the style was used for before |
| CREncHandler, CRString, CRParsingLocation, `cr-utils.c` | one file each | - | conversions, copies | lengths agree with what is written |
| csslint, tests, packaging | `csslint/`, `tests/`, `win32/`, `debian/` | - | command line, regression tests | not modelled |

How they interact: the parser holds a tokenizer, which holds an input; both are
reference counted and can be replaced. The parser calls back a CRDocHandler; the
object model parser is such a handler, and finds its context and leaves its
result in the handler. The selection engine reads the sheets of a cascade and a
libxml tree, writes the specificity it computes into the statements, and calls
handlers an application may have registered for pseudo-classes.

What is hard here is not concurrency but sequence: a cache in front of a
position that others move, error paths out of the middle of a rule that was
already announced, a recovery that uses another grammar than the one that
failed, macros that leave a routine without setting its status, state that
survives from one callback, query or use of a style to the next, pointers that
lists, owners and applications keep to the same nodes, a collection that is broken off
when its table is full and resumed, and counters and indices at the end of the
buffer. `PROJECT.json` lists these hazards line by line with the property
that covers each.

## 2. The models

| module | models | EXTENDS / INSTANCE |
|---|---|---|
| `CharStream` | abstract: a cursor over characters with its location | |
| `CRInput` | all reading functions of `cr-input.c` and the decoder | |
| `CRInputText` | CRInput on well-formed text, refining `CharStream` | CRInput, CharStream |
| `TokenCursor` | abstract: one position from which tokens are taken and given back | |
| `CRTknzr` | the token cache and every function that looks behind it | TokenCursor |
| `Derivations` | regular expressions as sets of positions | |
| `LexicalGrammar` | abstract: the regular expressions the comments of `cr-tknzr.c` give | Derivations |
| `CRLexer` | the lexical productions and `cr_tknzr_get_next_token` | LexicalGrammar |
| `CSSText` | tokens, texts, what a routine reports | |
| `CRGrammar` | the productions of `cr-parser.c` that call no handler, and the core grammar | CSSText |
| `SyntaxGrammar` | abstract: the grammar the comments of `cr-parser.c` give for selectors and declarations | CSSText, Derivations |
| `SacProtocol` | abstract: the order of handler calls of `cr-doc-handler.h` | |
| `CRParser` | `parse_stylesheet` and the routines that call the handler | CSSText, SacProtocol |
| `CRSyntax` | the parser with its productions, against that grammar | CRParser, CRGrammar, SyntaxGrammar |
| `RuleSheet` | abstract: what a handler that builds a sheet is for | |
| `CROMParser` | the callbacks of `cr-om-parser.c`, composed with CRParser | CRParser, RuleSheet |
| `CRSelMatch` | whether a selector matches a node, and its specificity, as operators; the relation of CSS2 | |
| `CRSelEng` | the registry of pseudo-class handlers, the collection of matching rulesets, the choice of declarations | |
| `CRSelection` | the engine with its own matching, against CSS2 | CRSelEng, CRSelMatch |
| `StyleValues` | the values of a style and how a declaration sets them, as operators | |
| `CRStyle` | styles that are filled, resolved, copied, counted, destroyed | StyleValues |
| `OwnedLists` | abstract: sequences of nodes, each in one place | |
| `CRStatement` | statements, declarations, sheets and a cascade on a heap, refining `OwnedLists` | OwnedLists |
| `MCInput`, `MCTknzr`, `MCLexer`, `MCParser`, `MCOMParser`, `MCSelEng`, `MCStyle`, `MCStatement` | small instances | the module of the component |
| `InductionLemmas` | least elements and induction with sets in the place of predicates, and recursive functions on 0..n; used by the next row | |
| `CRInputProofs`, `CRTknzrProofs`, `CRParserProofs`, `CROMProofs`, `CRSelEngProofs`, `CRStyleProofs`, `CRStatementProofs` | theorems | the module of the component; `CROMProofs` that of the parser too |

**CRInput.** `cur` is the set of mutable fields of `CRInputPriv`; `get_cur_pos`
copies all of it and `set_cur_pos` puts it back. A byte is represented by its
role in UTF-8 (`L2` a lead byte of a two-byte character, `K` a continuation,
`R2` the overlong lead 0xC0, `BAD` a byte that opens nothing), a character by
its lead byte. `Decode` keeps what the decoder does with bytes that are no
character: it returns `CR_OK` and writes nothing, so that the caller's variable
keeps what it held (`Written`), and where that variable was never initialised
(`consume_char`) any value. A call is one step, except that the two consuming
loops take one step per iteration. `gulong` and `guint32` wrap at `WordMod` and
`CounterMod`.

**CRTknzr.** What a token is, and where it ends, is given by a function from
positions to ends, and every such function is considered. `pos` is the input's
position, `prev` the one recorded when the last token was recognised. `Logical`
is where the parser believes to be. `Flush` is the five lines each character
function begins with; the three functions without them (`read_byte`,
`peek_byte2`, `get_parsing_location`) have the guard their callers establish,
the last one none. The end of the text is one position, whether the index or the
end-of-input flag says so. `SeekIndex` takes the offset that an origin and a
distance come to; since a seek may go anywhere, the history variable `sought`
tells it apart, so that the refinement lets no other function do so. `UngetToken`
is for the token the parser holds, and after any call that moves the input it
holds none: that is what every caller of `cr_tknzr_unget_token` in `cr-parser.c`
does, and no property here says anything of one that would not.

**CRLexer.** A production is an operator from a text and a position to the
position it ends at, or `None`. A character of the model is a byte or, where the
code compares a word byte by byte, the word; "7" stands for the digits, "f" and
"z" for the other letters, "N" for what is not ASCII. The operators keep the
order of the attempts in the switch of `cr_tknzr_get_next_token` and the peeks
that fail near the end of the text. `LexicalGrammar` is the other reading: the
expression above each production, as the set of positions a match may end at.
Where the code takes another language than its comment, the operator's comment
says so and the expression is that of the code. The tokens of all texts of
`MCLexer` and of random longer ones were compared with those of the compiled
library: no difference.

**CRGrammar, CRParser.** A style sheet is a sequence of tokens and the position
the number of tokens before it. Productions that call no handler are operators
that give a status and an end; they keep the code's own behaviour (a core value
fails at the end of the input whatever it has found; an operator without a term
after it stays consumed; `PEEK_NEXT_CHAR` makes `parse_import` and the prelude
of `parse_media` succeed without progress at the end of the input). In
`CRParser` a step runs up to the next handler call, loop iteration or return;
`sac` is the call of that step. `rule` is the frame of `parse_ruleset`,
`parse_page` or `parse_font_face`, `media` that of `parse_media` around it.
The productions are constant operators of `CRParser`, so that its theorems hold
for any grammar that stays in the text; `MCParser` gives them the operators of
`CRGrammar`. CDC, which the code treats as CDO everywhere, is not a token of its
own; numbers, units, `url()` and `rgb()` stand where an identifier stands, and are
not in the texts. `SyntaxGrammar` is the grammar of the comments, as sets of
positions, with what the code accepts beside it named in the comment of each
operator.

**CROMParser.** Each step of the parser is joined with the callback it calls
(`OMNext == Next /\ Handle`). The `g_return_if_fail` lines of a callback are the
condition of `Expect`; a callback that meets a call it refuses sets `refused`,
a variable the code does not have. A statement is its kind, the place it was
read from, the places of its declarations and, for @media, its rulesets.

The grammar and statement-level models were compared with the library by
generating short style sheets from the pieces of `MCParser` and a few more,
recording the handler calls of the compiled library and those of the model: no
difference in about 300 000 sheets, nor in 14 000 rulesets with attribute selectors,
pseudo-classes with arguments and nested functions.

**CRSelMatch.** Nodes are numbers in document order, attribute values sequences
of characters, a selector a sequence of simple selectors with the combinator in
front of each. `SelMatchesNode` is the walk of `sel_matches_node_real`, from the
last simple selector back, with its recursion over the ancestors; the loops over
attribute values are `ClassMatches`, `IncludesMatches` and `DashMatches`, each
with what it does to words that contain one another. `CSSMatches` is the
relation of the CSS2 text: nodes for all simple selectors, each related to the
next. Where the two differ is said by operators of their own: `Findable`
(selectors with a `|=` that the engine does not look for as CSS2 has it),
`Confused` (values it takes for a match, one disjunct for each of class, `~=` and
`|=`), and in `NearlyMatches` what stands in front of a pseudo-class.

**StyleValues, CRStyle.** A style is a function from fields to values, where a
field is a group of properties and a side (`<<"border-width", "left">>`), with
the computed values, the parent, the font family and the flag beside it. Lengths
are a unit and a number, colours members of a small table. `SetValues` is the
switch of `cr_style_set_style_from_decl` with all its routines: each keeps
what it has written when it meets a value it refuses. Font families are on a
heap, since several styles come to hold one; a family whose list was made
circular has `loop`, and an append to it or its release never returns (`stuck`).
`GetMatchedStyle` is `cr_sel_eng_get_matched_style` from the point where the
declarations are known. History variables (`declared`, `pending`, `settled`) say
which styles have been filled and resolved in an order that gives inheritance a
meaning. 2 688 declarations (every property with every kind of value, and
shorthands) were compared with the compiled library, field by field: no
difference.

**CRStatement.** `heap` has the pointers and counts the code keeps; `held` are
the lists and sheets the application has, `slots` those of the cascade. Every
function that links, unlinks, hands over or frees is an action; `Unlinked` has
the four pointer updates in their order, `StmtsDestroyed` the recursion of
`cr_statement_clear`, `SlotsUnrefed` the loop of `cr_cascade_destroy` over the
`NB_ORIGINS` origins. Of a ruleset the heap has the `sel_list` (whether there is
one) and the `parent_media_rule` (`media`), which `NewRulesetInMedia` and `NewMedia` set,
`AppendToMedia` does not, and nothing clears. The application is the rest of the library (the object
model parser builds its sheets in this way) and its users. Where the code has no
test and no comment for a call that would leave a dangling pointer, the rule is a
guard, named and commented as unwritten: `MayUnlink`, `MaySetDeclList`,
`NoOrphans`, `MadeFor`, `Given`, and the second conjunct of `SetSheet`. What
happens to the calls they exclude is listed below with the differences; the
properties say nothing of them.

**CRSelEng.** `sheet` and `cur_stmt` are the two fields the engine keeps from
one call of `get_matched_rulesets_real` to the next, `specificity` the field of
the statements. A step is one statement of a sheet (`Visit`), a growth of the
table, one statement of the table applied to the property list; the table is
`tab` with `room` entries left. An entry that is in the table more than twice
in a row is kept twice: a statement that has just been applied changes nothing
when it is applied again, so that the third copy could make no difference to
the list. Queries and registrations may follow one another for ever, so that
what a query leaves behind meets every other query. Matching and specificity are
operators the instance gives; `CRSelection` states what holds with those of
`CRSelMatch`. `unregister` reads the list node after it was freed and frees it
again; the model removes the entry, as the code does where a freed node keeps
its contents. An @media rule is found through its first ruleset and, in the
table, declares nothing.

The matching and the cascade were compared with the compiled library on 43 000
random documents and cascades, with the order of the property list: no
difference.

## 3. The runs

Runs expected to pass:

| run | instance and bounds | shows |
|---|---|---|
| `MCInput_text` | well-formed buffers of up to 4 bytes out of letter, space, newline, 2- and 3-byte characters; limits 2 and -1 | `ImplementsCharStream`, `WhiteSpaceRunExact`, `CharRunMaximal`, `LoopsTerminate` |
| `MCInput_bytes` | all buffers of up to 2 bytes with a byte that opens nothing; byte functions and seeks; counters wrap at 3 | `IndexInBounds`, `ErrorMovesNothing`, `PeekPredictsRead` |
| `MCTknzr` | all lexers of a text of 4 characters | `CacheMatchesPosition`, `ImplementsTokenCursor` |
| `MCLexer` | all texts of up to 3 to 8 characters over eleven small alphabets, one for each group of productions that compete for the same characters | `TokensAreLongestMatches`, `NothingIsTakenApart`, `ALexerForTheCache` |
| `MCOMParser` | parser and builder together: all sequences of up to 5 pieces that end with a brace (rulesets, declarations, @media, @page, @font-face, unknown at-rules, comments, stray braces and semicolons), and of up to 4 pieces of @charset, @import, CDO and media lists, ended anywhere; rulesets with all selectors of 3 pieces, all attribute selectors and values of 4 | `ResumesBetweenStatements`, `ImplementsSacProtocol`, `Terminates`, `AcceptsTheGrammar`, `CurrentStatementIsOpenRule`, `OneOwner`, `SheetFollowsRules` |
| `MCSelEng` | a tree of 7 nodes with every naming of 4 of them and selectors of up to 3 simple selectors; one tree with attributes and all pairs of 11 additional selectors, one of them on another node; 6 values of `class` and 8 of `lang`, at the node and at its parent, against 7 selectors; every cascade of 3 statements out of 3, and of fewer out of 4, over three origins; queries for two of the nodes, in any order; pieces of 2 entries; one handler of the application | `CollectionIsComplete`, `NothingRemembered`, `CascadeOrder`, `ImportantIsKept`, `CSSMatchesAreFound`, `OnlyCSSMatchesAreFound`, `QueriesEnd` |
| `MCStyle` | root, child and grandchild filled, refilled, resolved and copied in any order with one more call; a style on its own with every declaration of every property | `KeywordsAreInherited`, `BordersAreSpreadAsCSS`, `OnlyTheNamedFieldsChange`, `RefillingForgets` |
| `MCStatement` | 3 statements, 2 declarations and 2 sheets, of which 4 at a time; two origins; one reference of the application; symmetric in the addresses | `LinksAgree`, `OwnedExactlyOnce`, `ImplementsOwnedLists`, `MediaRuleIsKept` |

`MCInput_bytes`, `MCTknzr`, `MCOMParser`, `MCSelEng` and `MCStyle` check the type
invariant of their module too (`TypeOK`, `OMTypeOK`).

Each is large enough for what it asks. Four bytes hold a three-byte character
and something on either side of it, or a newline with text before and after;
two bytes hold every way a character can be cut short and still leave a byte to
seek to. The texts of the lexer are long enough for each production to succeed,
to be followed by a character that does not belong to it and to be cut short at
each of its peeks: eight characters for the six digits of an escape. A token cache has one token and one position before it, so a text in
which two tokens of two characters fit shows every overlap. Five pieces are
enough for a rule that fails inside an @media rule that is then skipped and is
followed by another statement. Three simple selectors with a blank before the
last two are the shortest for which the nearest ancestor is the wrong one; the
values of `class` and `lang` have the word alone, behind a longer one that begins
with it, inside one, at both its ends and at the end of the value, with and without
hyphens, and none; three
statements over three origins hold every pair of rivals with a third between
them; a node named a and one named b are asked for, which other selectors of the
same list match last, so that what one query stores in a statement is not what the next
should read; and with pieces of two entries the table is full in the middle of a sheet,
of a selector list and at the end of each. Three styles in a row let a value come from a
parent that inherits it. Four objects are a sheet with an @media rule, a ruleset
and a declaration, a sheet with three statements, the shortest list with a node in the
middle, or an @media rule with two rulesets and a declaration. No list of the selection run has more matching
selectors than a piece: what happens then is the subject of `MCSelEng_list`. `CHECK_DEADLOCK
FALSE` is given where a run may stop: a document that has been parsed, an input whose buffer allows no more.

Runs expected to be violated show where a comment or a header says something
else than the code does; each property quotes it. They are the findings of
`PROJECT.json`:

| run | what it shows |
|---|---|
| `MCParser_eof` | `a{b:c` at the end of the input is parsed for ever |
| `MCOMParser_media` | rulesets after an @media rule that failed go into it and are lost |
| `MCSelEng_list` | a selector list with more matching selectors than a piece of the table (8) keeps the query going for ever |
| `MCStyle_inherit` | a child that inherits a colour or a length takes the parent's computed value, which only resolving fills: of a root it is 0, whatever was declared |

Further differences between the code and what is written about it are kept in
the models, without a run of their own:

- After a space, a byte that opens no character keeps `consume_white_spaces`
  running: its counter has 32 bits and the limit -1 has 64.
- `a{b:c}/**/d{e:f}` loses the second ruleset, and a CDO between @import and a
  ruleset makes the parser give up (`cr-parser.c:2488`).
- `read_byte` keeps the end of the input in a flag that `end_of_input` does not
  look at and `seek_index` does not clear; `consume_chars` counts the character
  it could not consume.
- With a cached token `get_parsing_location` gives the location after that
  token; end locations of rulesets are taken so.
- `@font-face{b:c` at the end of the input is announced again and again, for the
  same reason as `MCParser_eof`.
- `[class~=foo]` matches `class="fo"`, and `.x` matches `class="xyx"`; a `|=`
  value matches the beginning of any part of the attribute between hyphens
  (`[lang|=en]` matches `fr-eng`), never matches if it has a hyphen itself
  (`cr-sel-eng.c:443`), and if it is empty matches any value but the empty one.
- A pseudo-class ends the evaluation of a simple selector: `b.zz:first-child`
  matches without the class. `:lang` accepts the language of any ancestor, not
  of the nearest that has one. `a .x` is read as `a.x`.
- A ruleset weighs what the last of its matching selectors weighs, not the
  heaviest; `:first-child` alone weighs nothing. Within an origin an important
  declaration does not override one that is not, unless it comes later and
  weighs as much; rules in @media are found and not applied.
- Tokens: an escape eats all the white space after it, not one character; a
  string that ends the input, or has the other quote in it, is a delimiter
  (`cr-tknzr.c:656`); `url("a"b)` is an address; any byte closes `rgb(`; `@importz`
  and `7pxz` are `@import` and `7px` with something after them; a name that starts
  with a hyphen is no function and one that does not start with ASCII no name;
  `7.` is no number.
- Selectors and values: any token between the name and the value of an attribute
  selector is taken for its operator (`[a b c]`); a blank before the parenthesis
  that closes `:lang(` makes the ruleset fail; a combinator or an operator may end
  a selector or a value (`a + {`, `f(a,)`).
- Values: the second number of `padding` and `margin` sets the bottom and the left
  too, and further ones nothing; `padding: 1px 2deg` sets all sides and fails;
  `border-left-color` sets the bottom; an unknown border colour is black and an
  error, an unknown font size xx-small; keywords are compared by their beginning,
  so that `inline-table` is `inline` and the words after it in the table are not
  reached.
- Inheritance: `font-family: inherit` is never resolved and names without quotes
  are passed over; `white-space` and `font-stretch` are not reset for another
  node, and `white-space` is not resolved; a node nothing matches keeps the style
  that is passed in; a style is resolved once, until it is filled again. A
  `font-family` with a term that names nothing has a circular list, and
  `serif 10px, cursive` hangs. A copy has the reference count and the families of
  the original.
- Lists: the first declaration of a list built with
  `cr_statement_ruleset_append_decl2` or
  `cr_statement_at_font_face_rule_add_decl`, and the first ruleset of an @media
  rule, do not name their owner, which keeps pointing to them when they are
  unlinked (`cr-declaration.c:312`, `MayUnlink`).
  `cr_statement_ruleset_set_decl_list` (`cr-statement.c:2061`) destroys the old
  list, forgets the selectors and sets nothing (`MaySetDeclList`).
  `cr_cascade_set_sheet` with the sheet that is there gives up its reference
  first (`SetSheet`). `cr_statement_unlink` leaves `parent_media_rule`: a ruleset of
  an @media rule made by `cr_statement_new_at_media_rule` (`cr-statement.c:1296`) that is
  taken out, other than the first, names that rule still, also after
  `cr_statement_destroy` has freed it. A ruleset and an @page rule destroy their declarations
  whatever their count, an @font-face rule gives up one reference; a declaration
  with a count that is unlinked from the front of a list takes the count with it;
  destroying a list from its middle frees what stands before as well (the model
  is always given the first node). The sheet of an @import rule is never given
  up, though the comment says so (`cr-statement.c:2145`).

`OnlyTheNamedFieldsChange` and `RefillingForgets` name these exceptions and no others.
`CSSMatchesAreFound` leaves out the selectors that are not `Findable` and
`OnlyCSSMatchesAreFound` allows what `NearlyMatches` does, and no more. `CascadeOrder`
is about candidates none of which is important, and takes the weight as the
engine does; where the last matching selector is the most specific that is the choice of CSS.
`LinksAgree` is about the pointers that lists are walked by; of `parent_media_rule`
`MediaRuleIsKept` says what is left: a ruleset stays in the rule it names until it is
unlinked. In the states of `MCStatement` a ruleset does name a freed rule: two rulesets in
a list, `NewMedia` with it, `Unlink` of the second, `DestroyStatement` of the rule.

**Fairness.** The parser and the consuming loops are sequential code that waits
for nothing; weak fairness of their next step (`WF_vars(Next)` in `CRParser`,
`WF_omVars(OMNext)` for the parser with its handler in `CROMParser`,
`WF_vars(LoopStep)` in `CharSpec`, `WF_vars(Step)` in `CRSelEng`) says that a C
function runs on. The callers of CRInput, of the selection engine, of styles and of statements are under
no obligation to call, so nothing else is fair.

## 4. What is proved

For every value of the constants that meets the hypotheses:

| theorem | says | hypothesis |
|---|---|---|
| `CRInputProofs!TypeCorrect` | `Spec => []TypeOK` | `InputAssumption` |
| `CRInputProofs!IndexStaysInBounds` | `Spec => []IndexInBounds` | same |
| `CRInputProofs!PeekAnnouncesRead` | `Spec => PeekPredictsRead` | same |
| `CRInputProofs!FailuresMoveNothing` | `Spec => ErrorMovesNothing` | and `ShortBuffers` |
| `CRInputProofs!InputIsCharStream` | `CharSpec => ImplementsCharStream` | `InputAssumption` and `WellFormedBuffers` |
| `CRInputProofs!WhiteSpacesAreExact` | `CharSpec => WhiteSpaceRunExact` | and `ShortBuffers` |
| `CRInputProofs!RunsAreMaximal` | `CharSpec => CharRunMaximal` | `InputAssumption` and `WellFormedBuffers` |
| `CRTknzrProofs!TypeCorrect` | `Spec => []TypeOK` | `TknzrAssumption` |
| `CRTknzrProofs!CacheIsConsistent` | `Spec => []CacheMatchesPosition` | same |
| `CRTknzrProofs!TknzrImplementsCursor` | `Spec => ImplementsTokenCursor` | same |
| `CRParserProofs!TypeCorrect` | `Spec => []TypeOK` | `ParserAssumption` |
| `CRParserProofs!ParserFollowsProtocol` | `Spec => ImplementsSacProtocol` | and `DeclarationsAreFollowed` |
| `CRParserProofs!ParsingResumesBetweenStatements` | `Spec => []ResumesBetweenStatements` | `ParserAssumption` and `BlocksAreRead` |
| `CROMProofs!OMTypeCorrect` | `OMSpec => []OMTypeOK` | `ParserAssumption` and `OMAssumption` |
| `CROMProofs!StatementIsOpenRule` | `OMSpec => []CurrentStatementIsOpenRule` | and `DeclarationsAreFollowed` |
| `CROMProofs!SheetIsThatOfTheRules` | `OMSpec => SheetFollowsRules` | same |
| `CROMProofs!StatementsHaveOneOwner` | `OMSpec => []OneOwner` | and `BlocksAreRead`, `StatementsMoveOn` |
| `CRSelEngProofs!TypeCorrect` | `Spec => []TypeOK` | `SelEngAssumption` |
| `CRSelEngProofs!NoSheetIsRemembered` | `Spec => []NothingRemembered` | same |
| `CRSelEngProofs!AllThatMatches` | `Spec => []CollectionIsComplete` | same |
| `CRSelEngProofs!TheCascadeFollowsTheWeights` | `Spec => []CascadeOrder` | same |
| `CRSelEngProofs!ImportantStays` | `Spec => ImportantIsKept` | same |
| `CRStyleProofs!StylesAreTyped` | `Spec => []TypeOK` | `StyleAssumption`, `TintsAssumption` |
| `CRStyleProofs!KeywordsFollowTheParent` | `Spec => []KeywordsAreInherited` | same |
| `CRStyleProofs!SidesGetTheirTerms` | `Spec => []BordersAreSpreadAsCSS` | same |
| `CRStyleProofs!NoOtherFieldChanges` | `Spec => OnlyTheNamedFieldsChange` | same |
| `CRStyleProofs!RefilledAsNew` | `Spec => RefillingForgets` | same |
| `CRStatementProofs!ListsAreApart` | `Spec => []IInv` | `StatementAssumption` |
| `CRStatementProofs!LinksAlwaysAgree` | `Spec => []LinksAgree` | same |
| `CRStatementProofs!OwnedAlwaysOnce` | `Spec => []OwnedExactlyOnce` | same |
| `CRStatementProofs!ListsAreImplemented` | `Spec => ImplementsOwnedLists` | same |
| `CRStatementProofs!RulesetsStayInTheirMediaRule` | `Spec => MediaRuleIsKept` | same |

TLC evaluates every hypothesis on the instances: the assumptions where they are
declared, `ShortBuffers` in `MCInput`, `DeclarationsAreFollowed`, `BlocksAreRead` and
`StatementsMoveOn` in `MCOMParser`, for every position of every text with the operators of
`CRGrammar`; the buffers of `MCInput_text` are built well-formed.

*Induction.* The theorems of the library that take a predicate cannot be used, so
`InductionLemmas` states the principles with a set in its place: a set of numbers
has a least element; a set with 0 in it that is closed under successors up to n
has 0..n in it; an equation that gives f[i] from f[i - 1] has a solution on 0..n.
A loop that the models write as a fold or a recursive function is reasoned about
through the sequence of its intermediate values, by induction on its length.

*CRInput.* `IndexInBounds` is inductive with `TypeOK` once one knows what the
decoder guarantees: a decoding that succeeds consumes no more bytes than are
left, and a consuming loop was entered at a position in the buffer.
`PeekAnnouncesRead` needs more: between a peek and the read after it nothing
else returns, and `ret`, `chr` and `cur` still agree (`PInv`).
`FailuresMoveNothing` needs that a loop which has counted nothing is where it was
entered (`MInv`), and that holds only while the counter of `consume_white_spaces`
has not come round to 0: without the hypothesis the theorem is false, since after
2^32 spaces the end of the input is reported as an error. `ShortBuffers` says that
the buffer is shorter than that; `in_buf_size` has 64 bits and the counter 32.
On well-formed text the invariant (`TInv`) is that every position the input holds
(`cur`, `mark` and that of a running loop) is a boundary between characters and
has the line and column the text before it gives. That the text up to a position
is a prefix of the text up to a later one, and that continuation bytes add nothing
to it, are inductions on the buffer (`CharsArePrefixes`, `ContinuationsAddNothing`);
`LocationCarriedOn` is the line and column over one more character. The two runs
then follow from what a loop has passed: `WhiteCounted` and `CharsCounted`.

*CRTknzr.* The inductive invariant is `CacheMatchesPosition` with
`HeldTokenIsLast`, each needing the other: a token that is given back becomes
the cached one. The second follows from the guard of `UngetToken` and is not a
property of a run. The refinement maps the abstract position to `Logical` and each
function to a step of the cursor or to none.

*CRParser.* `ParserAssumption` says of the productions that they stay in the
text, restore the position when they fail, and that the preludes of @page and
@font-face move forward; TLC evaluates it for the operators of `CRGrammar` in
every run of `MCParser` and `MCOMParser`. The invariant of `ParserFollowsProtocol` is
`Control`: which frames are active, and which rules are announced, at each
label of the code, with the position a routine has reached past the one it
began at. `DeclarationsAreFollowed` excludes texts a declaration ends: there the
theorem is false (`@font-face{b:c`).
`ParsingResumesBetweenStatements` counts braces. `BlocksAreRead` says what the productions
and the core grammar make of them: what stands within a statement has none, a
prelude that is read opens one block, and a core production that succeeds ends where as
many are open as where it began. Whether the core grammar goes as far as the rule it
replaces does not matter. The invariant (`Blocks`) is the number of open blocks at
every label, and at every place a routine may go back to: `rule.from` and
`media.from`; a failure inside @media goes back to a place that is still in its block,
and that is so because the block has not been closed since it was opened (`Above`).

*Statements behind the parser.* `OneOwner` needs that no place at which a statement
began is read as the beginning of another. `Reached` says, label by label, that the parser is past such
a place, or past it when it has recovered. The hard case is an @media rule
that fails after rulesets of it were handed over: `parse_media` goes back to its
first token, and the rulesets are in front of the parser again. `StatementsMoveOn`
says that the core at-rule then goes past the brace that opened the block; it ends with no
block open, and since every place up to the one where the rule failed is inside
that block, it ends beyond (`PassingMedia`). `EveryStepPasses` is the same for all
steps of the parser, and `Apart` says of the handler that what it keeps began in
places that are distinct and passed; a statement it is building began in front of them.

*CROMParser.* The invariant adds to `Control` the correspondence between frames
and statements (`CurrentStatementIsOpenRule`) at every label, including those
where an error has been reported by `parse_ruleset` and is about to be reported
again by `parse_stylesheet`. For the refinement of `RuleSheet` a second
correspondence is needed (`MediaIsKept`): while an @media rule is open the handler
keeps one, and what it keeps there is always one; that it keeps none when no rule is
open is the hypothesis within `SheetFollowsRules`, false after an @media rule failed
(`MCOMParser_media`). With both, every callback is a step of `RuleSheet` or leaves the
sheet alone, one step of the proof for each call of the protocol.

*CRSelEng.* `Control` relates the two fields the engine keeps to the loop that is
running, `Collection` says that the table holds what matches in front of the place
the collection has reached, in order, wherever a full table interrupted it. That is
what makes `NothingRemembered` and `CollectionIsComplete` hold for every
way of matching and every size of a piece. `Choice` says of the property list, after any number
of statements, that it has one declaration of each property and that no candidate
that was seen outranks it; its step is an induction over the declarations of one
statement, and over the list for the place where one declaration is replaced.

*CRStyle.* `History` says which styles have what was declared for them and which
have what their parent gives, for any tree of styles. `DeclarationSets` says of
each of the declarations, with one lemma for each setter, that it writes fields
of its property only, keeps the type of every field, and does the same to two
styles as far as they agree (`Moves`). The first is `NoOtherFieldChanges`, the
second `StylesAreTyped`, the third `RefilledAsNew`: the style that is used again
and a new one are filled in lock-step. `SidesGetTheirTerms` finds, for each side
and number of terms, the last write of the shorthand to that side.

*CRStatement.* `LinksAgree` and `OwnedExactlyOnce` are about single nodes and are not
inductive: joining two lists is right only if they are different lists that end. The
invariant (`IInv`) says that the pointers are sequences. `Chained` has them as a set of
sequences of nodes, no node in two places, whose links are the pointers; `Represents` gives
each owner one of them and each list the application holds another. With it
go `Sorted` (what a list may hold depends on its owner's kind), `Named` (a
parent that is named is alive, what is free is blank), `ListCounts` (the count
of a list that has an owner is its owner's) and `SheetCounts` (references of the
application and of the cascade). The counts are needed because the destructors look at
them: a ruleset frees its declarations whatever their count is, and that is right
only while nobody else counts. `Intact` is the same without the parents, for the states within
`cr_cascade_destroy` in which some sheets are gone.
Each operator on the heap is proved on heaps as values, apart from the steps:
what a change of pointers does to the sequences (`Chained`), then to the lists,
then to the invariant. A step of the specification then takes one lemma, which gives the
invariant and the step of `OwnedLists` together. That the recursive function `From`
finds the whole list from its first node (`ChainIsFound`) and what `cr_cascade_destroy` has
given up after each origin (`SlotsUnrefed`) are inductions with `InductionLemmas`; the
number of origins in them is the constant `NB_ORIGINS`, not a small instance of it. The list an abstract owner has is
that sequence, and `LinksAgree` and `OwnedExactlyOnce` follow from the invariant without
another step. What the three say is no more than this: `OwnedExactlyOnce` has one list
for each node and the counts of sheets, and nothing of which owner a node names (after
`cr_statement_ruleset_append_decl2` it names none) or of the counts of declarations.
For `MediaRuleIsKept` the invariant is extended by `Unnamed`: what is not allocated
names nothing. A step leaves the names, forgets those of what it frees, or names the
rule a ruleset has been put into (`Naming`); and a statement that is in a list stays
in it while it is allocated, but for `Unlink` (`ListsStay`).

Only model-checked, and why:

- `Terminates`, `LoopsTerminate` and `QueriesEnd` are liveness.
- `AcceptsTheGrammar`, `TokensAreLongestMatches`, `NothingIsTakenApart`,
  `ALexerForTheCache`, `CSSMatchesAreFound` and `OnlyCSSMatchesAreFound` compare
  operators that are recursive over a text, a tree or a selector with a grammar or a
  relation that is; their modules declare RECURSIVE operators, which the provers do not
  take.
- That the operators of `CRGrammar` meet `ParserAssumption`, `BlocksAreRead` and
  `StatementsMoveOn` on every text, for the same reason; TLC evaluates them on those of the
  runs. `DeclarationsAreFollowed` restricts the texts.
- The properties of the four violated runs are false.

## 5. What is not modelled, and the plan

In the order of what matters most:

1. Several documents on one object model parser, reference counts of input,
   tokenizer and terms, replacement of a tokenizer.
2. `CRPropList`, `CRTerm` and the selector lists: lists of the kind of
   `CRStatement`, with nothing but appending and giving up as a whole in use; the
   engine's property list is a sequence in `CRSelEng`.
3. The encoding conversions of `cr-utils.c`; the decoder is in `CRInput`.

Not modelled, and why: csslint, the tests and packaging (command line and I/O
around the library); the texts that `cr_*_to_string` and `cr_*_dump` write
(layout; nothing depends on it), which are about a third of `cr-statement.c` and
`cr-fonts.c`; CRString and CRParsingLocation (values without behaviour of their
own); enhanced encodings a user registers; allocation failures; file names.
