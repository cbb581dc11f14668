CONSTANTS
    Push = {p, q}
    Viewer = {v}
    MaxFrames = 2
    MaxInputs = 3
SPECIFICATION Spec
INVARIANTS TypeOK NoEndlessStream NewestFirst
PROPERTIES StreamEnds
CHECK_DEADLOCK FALSE
