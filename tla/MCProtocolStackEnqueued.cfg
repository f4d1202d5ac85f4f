CONSTANT MaxProtocols = 4
SPECIFICATION Spec
INVARIANT EnqueuedInputIsIgnored
CHECK_DEADLOCK FALSE
