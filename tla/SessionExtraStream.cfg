CONSTANTS
    Perspective = "server"
    Extra = {x1}
SPECIFICATION Spec
INVARIANT
    StreamCallbacksHaveDelegate
