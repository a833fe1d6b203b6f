SPECIFICATION Spec
CONSTANTS
    In = {i1}
    Out = {o1}
    Cap = 2
    MaxActs = 3
    None = None
INVARIANTS TrayIsRight ConversationIsRight
PROPERTIES ClickIsAnswered EventsAreHandled
CHECK_DEADLOCK FALSE
