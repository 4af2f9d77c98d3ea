\* Both processes end: BothEnd says so, and is more than freedom from deadlock.
CONSTANT NUM_ITERATIONS = 25
SPECIFICATION Spec
INVARIANTS TypeOK RoundsInStep
PROPERTY BothEnd
CHECK_DEADLOCK FALSE
