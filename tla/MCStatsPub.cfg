CONSTANTS
    MaxTicks = 2

SPECIFICATION Spec

PROPERTY CloseReturns

\* After Close returns nothing is left to run.
CHECK_DEADLOCK FALSE
