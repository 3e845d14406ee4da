SPECIFICATION FairSpec
CONSTANTS
    A = A
    B = B
    Wrap = 16
    First = 14
    SndWnd = 2
    RcvWnd = 2
    WndRcv = 2
    Counts = {1}
    MaxMsgs <- A3
    MaxNet <- Single
PROPERTIES
    Drains
