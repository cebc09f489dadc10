\* Two sources, on either controller.
SPECIFICATION Spec
CONSTANTS
    Sources = {0, 1}
    USB = 1
    Priorities = {0, 1}
    Limits = {1, 8}
    Inverted = {{}, {0}}
    NoSource = NoSource
INVARIANT LinesTellPending
