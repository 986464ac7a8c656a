SPECIFICATION DeadSpec
PROPERTY DeadReaches
