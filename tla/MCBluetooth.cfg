SPECIFICATION Spec
CONSTANTS
    d1 = d1
    d2 = d2
    None = None
    BufSize = 4
    Devices <- Remotes
    Peers = {d1}
    Programs <- All
    Rules = {"prompt", "punctual", "quiet", "fresh", "matched_ids", "one_thing", "drained"}
    MaxFaults = 1
INVARIANTS
    CallsTrue
    MessagesTrue
    StreamWhole
PROPERTIES
    CallsReturn
