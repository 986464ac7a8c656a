SPECIFICATION WholeSpec
PROPERTIES RouteHeals  NodesConverge DaemonCatchesUp RollsBack
CHECK_DEADLOCK FALSE
