SPECIFICATION Spec
CONSTANTS
    Block = {"g", "a1", "a2", "b1"}
    Contract = {"c1", "c2"}
    Root = "root"
    Parent <- ForkParent
    Contents <- ForkContents
    Key = {"k", "l"}
    Value = {0, 1, 2}
    Zero = 0
    NoWrite = NoWrite
    NoCode = NoCode
INVARIANTS StateFollowsChain LastWriteStands
