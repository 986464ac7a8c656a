SPECIFICATION WholeSpec
PROPERTIES Reconnects MasksSettle  StopEnds Returns
CHECK_DEADLOCK FALSE
