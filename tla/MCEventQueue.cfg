CONSTANTS
    MaxEvents = 4
SPECIFICATION Spec
PROPERTY EventuallyDelivered
CHECK_DEADLOCK FALSE
