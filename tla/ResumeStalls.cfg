SPECIFICATION Spec2
CONSTANTS
    Opener = opener
    Resumers = {r1}
    NoOne = none
    Streams = {stdout, stderr}
    BufferCapacity = 2
    EventCapacity = 1
    ReplyCapacity = 1
    MaxFrames = 2
SYMMETRY StreamSymmetry
CHECK_DEADLOCK FALSE
INVARIANT ResumeIsAcked
