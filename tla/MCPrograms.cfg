SPECIFICATION ProgramsSpec
CONSTANTS
    NAME_MAX = 2
    LinkMax = 1
    RdSize = 11
    RetSize = 5
    BufferSize = 2
    OpenMax = 4
    Files = {"a", "b"}
    Chars = {"x", "1", "2", "3"}
    Trees <- MCTrees
    Lengths = {1, 2}
    ArgLists <- MCArgLists
    Directories <- MCDirectories
    Sources <- MCSources
    Num = 5
    Strays = 3
INVARIANTS WalkComplete OptionsKept ProcessesShown CopyFaithful ReplacedAsTold KillHitsChild
PROPERTIES LoopsEnd ComesToItsEnd
CHECK_DEADLOCK FALSE
