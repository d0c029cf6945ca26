SPECIFICATION Spec
CONSTANTS
    Base = 2
    Greeting <- MCGreeting
    Greetings <- MCGreetings
    Scripts <- MCScripts
    RecvMax = 7
    MsgSize = 2
    MaxReplies = 1
    Room = 2
INVARIANTS
    MessagesInOrder
    NoMessageLeftBehind
    WriteInterest
    PollSetCurrent
PROPERTIES
    QueuedIsSent
    EverythingHandled
CHECK_DEADLOCK FALSE
