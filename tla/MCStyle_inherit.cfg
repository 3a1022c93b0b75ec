CONSTANTS
    NoStyle = NoStyle
    Root = Root
    Child = Child
    Leaf = Leaf
    Lone = Lone
    Styles = {Root, Child}
    Tints = {"black", "red", "white"}
    MaxCalls = 0
    MaxFamilies = 2
    MaxRefs = 0
    ParentOf <- Parents
    InitialFor <- SmallInitial
    PropLists <- SmallLists
    Decls <- SmallDecls
SPECIFICATION Spec
INVARIANT ValuesAreInherited
CHECK_DEADLOCK FALSE
