CONSTANTS
    MsgIds <- MCMsgIds
    Unused = Unused
    Pending = Pending
    Answered = Answered
    TimedOut = TimedOut
SPECIFICATION Spec
CHECK_DEADLOCK FALSE
PROPERTIES
    EntryRegisteredBeforeEvents
