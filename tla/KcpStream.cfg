SPECIFICATION Spec
CONSTANTS
    A = A
    B = B
    Wrap = 16
    First = 14
    SndWnd = 2
    RcvWnd = 3
    WndRcv = 3
    Counts = {2, 4}
    MaxMsgs <- A2
    MaxNet <- TwoToA
INVARIANTS
    TypeOK
    InOrderDelivery
    WindowKept
    RecvComplete
PROPERTIES
    ImplementsLink
