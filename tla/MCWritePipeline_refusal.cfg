\* Two writes sent, the second one refused.
CONSTANTS
    Users = {ann}
    Keys = {k}
    Window = 2
    MaxWrites = 2
    Hello = Hello
SPECIFICATION Spec
INVARIANTS FailedWasRefused
