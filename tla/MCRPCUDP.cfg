CONSTANTS
    MsgIds <- MCMsgIds
    Unused = Unused
    Pending = Pending
    Answered = Answered
    TimedOut = TimedOut
SPECIFICATION Spec
CHECK_DEADLOCK FALSE
INVARIANTS
    TypeOK
    RegisteredEntriesLive
PROPERTIES
    CallsComplete
