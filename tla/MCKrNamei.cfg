SPECIFICATION Spec
CONSTANTS
    Inos = {2, 3, 4, 5}
    Root = 2
    Names = {"a", "b"}
    MaxLinks = 4
    MaxOpen = 1
    Faults = {"alloc"}
INVARIANTS
    NoNameDangles
    LinksCounted
    TreeAndDentries
PROPERTY
    FailuresUndo
