SPECIFICATION IterSpec
CONSTANTS
    U16 = 32
    NumItems = 4
    None = None
    Item = {x, y}
INVARIANT TypeOK
INVARIANT YieldsEachOnceInOrder
INVARIANT HintBracketsWhatRemains
PROPERTY ImplementsWindowMap
PROPERTY PushOverridesOnlyWhenTold
