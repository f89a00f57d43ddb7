CONSTANTS
    MAX_NUM_OF_FDS <- MCMaxFds
    NoFd = NoFd
    Fds = {f1, f2, f3}
SPECIFICATION Spec
PROPERTY FdMapRefined
