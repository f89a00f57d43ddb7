CONSTANTS
    MAX_NUM_OF_FDS <- MCMaxFds
    NoFd = NoFd
    SigFd = SigFd
    Fds = {f0, f1, f2}
SPECIFICATION Spec
INVARIANT SignalRegistrationKept
