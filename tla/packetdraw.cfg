SPECIFICATION FairSpec
CONSTANTS
    Shapes <- ThreeShapes
    Cap = 2
    MaxSends = 3
CHECK_DEADLOCK FALSE
INVARIANTS LogInOrder DrawnFromOneRequest
PROPERTIES EventuallyDrawn
