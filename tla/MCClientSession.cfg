SPECIFICATION Spec2
CONSTANTS
    Opener = opener
    Resumers = {r1}
    NoOne = none
    Streams = {stdout, stderr}
    BufferCapacity = 1
    EventCapacity = 1
    ReplyCapacity = 2
    MaxFrames = 2
SYMMETRY StreamSymmetry
CHECK_DEADLOCK FALSE
INVARIANTS
    AttachmentIsOwned BufferIsSuffix NoGap CursorIsSafe TokenIsCurrent
    ClosedSessionEnds
