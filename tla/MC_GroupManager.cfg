CONSTANTS
    NoLabel = NoLabel
    Props = {"p1", "p2"}
    Nodes = {1, 2, 3}
    Parent <- MCParent
    TreeList <- MCTreeList
    MaxDoc = 2
    MaxThrown = 1
    DocValues <- MCDocValues
    ConfigLists <- MCConfigLists
    Lists <- MCLists
    PropLists <- MCPropLists
    Labels = {NoLabel, {2}}
SPECIFICATION Spec
INVARIANT TypeOK
INVARIANT IndexAligned
INVARIANT GroupRepMatchesIndex
INVARIANT RootCountIsGroupedDocs
