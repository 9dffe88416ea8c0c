SPECIFICATION Spec
CONSTANTS
    Pages = 2
    Visible = 2
    Padding = 1
    Rules = {"lines", "calm"}
    MaxCalls = 2
    Calls <- MCCalls
    Message <- MCMessage
INVARIANTS PanelTrue
PROPERTIES ScreenFollows ImplementsTerminal
CHECK_DEADLOCK FALSE
