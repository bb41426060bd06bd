CONSTANTS
    FrameTypes <- MCFrameTypes
    MaxFrames = 4
SPECIFICATION Spec
INVARIANT TypeOK
INVARIANT RunsAreMaximal
INVARIANT HandedOnce
PROPERTY EveryFrameHandled
CHECK_DEADLOCK FALSE
