\* Two clients, two loops, and a process that may have one or two descriptors
\* left for connections: with one, the second client is turned away or gets the
\* descriptor the first one used.  No timer expires.  Clients may fall silent,
\* so the server may come to rest.
CONSTANTS
    Conns      = {a, b}
    NumLoops   = 2
    Pool       = {p}
    Limits     = {1, 2}
    MaxMsgs    = 1
    MaxExpired = 0
    Main       = main
    None       = None
SPECIFICATION Spec
INVARIANTS TypeOK DispatchFindsEntry OwnSocket ReplyWatched
PROPERTY ReplySent
CHECK_DEADLOCK FALSE
