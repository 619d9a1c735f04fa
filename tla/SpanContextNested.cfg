SPECIFICATION NestedSpec
CONSTANTS
    Tasks = {main, t2, t3}
    Main = main
    MaxHandles = 3
INVARIANTS CurrentIsInnermost LiveParent
