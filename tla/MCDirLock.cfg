CONSTANTS
    p1 = p1
    p2 = p2
    p3 = p3
    NoPid = NoPid
    Procs <- MCProcs
    ReadOnly <- MCReadOnly

SPECIFICATION Spec

INVARIANT PidFileOwned
