SPECIFICATION AdapterSpec
CONSTANT MaxLines = 2
PROPERTIES KeepsContract  NothingLeftRunning
CHECK_DEADLOCK FALSE
