SPECIFICATION CloudSpec
CONSTANT MaxNodes = 4
CHECK_DEADLOCK FALSE
INVARIANTS DeadHasReason ReadyIsComplete
PROPERTIES ConnectorIsNearest
