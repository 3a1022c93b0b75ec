\* Four objects at a time, of two declarations, three statements and two sheets.
CONSTANTS
    d1 = d1
    d2 = d2
    s1 = s1
    s2 = s2
    s3 = s3
    t1 = t1
    t2 = t2
    Decls = {d1, d2}
    Stmts = {s1, s2, s3}
    Sheets = {t1, t2}
    Null = Null
    NB_ORIGINS = 2
    MaxLive = 4
    MaxRefs = 1
SYMMETRY Addresses
SPECIFICATION Spec
INVARIANTS
    LinksAgree
    OwnedExactlyOnce
PROPERTIES
    ImplementsOwnedLists
    MediaRuleIsKept
