CONSTANT MaxSinks = 1
SPECIFICATION Spec
INVARIANT EveryKnobReaches
CHECK_DEADLOCK FALSE
