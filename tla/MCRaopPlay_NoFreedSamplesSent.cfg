CONSTANTS
    MAX_NUM_OF_FDS <- MCMaxFds
    FrameLen <- MCFrameLen
    NoFd = NoFd
    NoAuds = NoAuds
    NoFrame = NoFrame
    Dfds = {d1, d2}
    UDP = FALSE
SPECIFICATION Spec
PROPERTY NoFreedSamplesSent
