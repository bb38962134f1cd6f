CONSTANTS
    MaxEvents = 4
SPECIFICATION Spec
INVARIANT SocketAnnouncesEvents
CHECK_DEADLOCK FALSE
