SPECIFICATION Spec
CONSTANTS
    Bricks = {b1, b2}
    TimedOut = {b1}
    Lengths = {1, 2}
    Rules = {"settled", "receptions", "undisturbed", "drained"}
    MaxCalls = 2
    MaxFaults = 1
INVARIANTS AnswersOwn WireTrue
PROPERTY SendsEnd
