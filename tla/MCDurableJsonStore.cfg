SPECIFICATION Spec
CONSTANTS
    u1 = u1
    u2 = u2
    u3 = u3
    p1 = p1
    p2 = p2
    Updates <- MCUpdates
    Processes <- MCProcesses
    ProcessOf <- MCProcessOf
    MaxRetries = 1
    MaxFailures = 2
    Missing = Missing
    Damaged = Damaged
PROPERTIES ImplementsAtomicDocument
CHECK_DEADLOCK FALSE
