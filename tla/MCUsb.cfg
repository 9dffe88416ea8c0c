SPECIFICATION Spec
CONSTANTS
    SizeOf <- Sizes
    Lengths = {4, 6}
    Addresses = {1}
    Writes = {1}
    Rules = {"whole_address", "short_config", "prompt", "in_turn", "awake"}
    MaxResets = 1
INVARIANTS
    ControlTrue
    StreamsWhole
PROPERTY TransfersEnd
