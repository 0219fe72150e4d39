\* Three proxied requests over one upstream.  The system stops when every
\* request is answered or hangs; AnsweredUnlessHung says that nothing else stops it.
SPECIFICATION FairSpec
CONSTANTS
    Proxied = {q1, q2, q3}
    Unrouted = {u1}
    MaxFaults = 2
    None = None
INVARIANTS OwnReply BadGatewayExplained ExecutedTwiceExplained SocketsBounded
PROPERTIES AnsweredUnlessHung
CHECK_DEADLOCK FALSE
