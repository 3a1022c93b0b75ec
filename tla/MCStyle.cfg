CONSTANTS
    NoStyle = NoStyle
    Root = Root
    Child = Child
    Leaf = Leaf
    Lone = Lone
    Styles = {Root, Child, Leaf, Lone}
    Tints = {"black", "red", "white"}
    MaxCalls = 1
    MaxFamilies = 2
    MaxRefs = 1
    ParentOf <- Parents
    InitialFor <- SmallInitial
    PropLists <- SmallLists
    Decls <- SmallDecls
SPECIFICATION Spec
INVARIANTS TypeOK KeywordsAreInherited BordersAreSpreadAsCSS
PROPERTIES OnlyTheNamedFieldsChange RefillingForgets
CONSTRAINT OnItsOwn
CHECK_DEADLOCK FALSE
