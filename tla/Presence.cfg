CONSTANTS
    Debounce = 2
    Timeout = 8
    KeepaliveInterval = 3
SPECIFICATION PresenceSpec
PROPERTIES
    PressConfirmsOnce
    ConfirmationIsDebounced
    WaitEnds
