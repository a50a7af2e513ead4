SPECIFICATION SmallSpec
CONSTANTS
    NAME_MAX = 2
    LinkMax = 1
    RdSize = 11
    RetSize = 5
    BufferSize = 2
    OpenMax = 4
    Files = {"a", "b"}
    Chars = {"x", "1", "2", "3"}
    Trees = {}
    Lengths = {1}
    ArgLists = {}
    Directories = {}
    Sources = {}
INVARIANT SameAsDup2
CHECK_DEADLOCK FALSE
