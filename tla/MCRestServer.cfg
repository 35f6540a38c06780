SPECIFICATION Spec
INVARIANTS RejectedStops HandlersFindKeys 
CHECK_DEADLOCK FALSE
