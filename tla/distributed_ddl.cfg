SPECIFICATION Spec
CONSTANTS
    h1 = h1
    h2 = h2
    Host = {h1, h2}
    Alters = {1}
    MaxTasks = 2
    MaxFaults = 2
    max_tasks_in_queue = 1
CHECK_DEADLOCK FALSE

    
    
PROPERTIES
    InOrder
    
