SPECIFICATION Spec
CONSTANTS
    Streams = {1, 2, 3}
    Zero = Zero
    NoFrame = NoFrame
    MaxClosedNodesInTree = 1
    MaxIdleNodesInTree = 1
    MaxPush = 2
INVARIANTS
    TreeSound
    KeptBounded
CHECK_DEADLOCK FALSE
