SPECIFICATION PollersSpec
CONSTANT Channels = {a, b, c}
INVARIANTS SameEvents
