SPECIFICATION Spec
CONSTANTS
    Executions = {x1, x2}
    Operators = {o1}
    None = None
    MaxFence = 2
PROPERTY StaleWorkersRejected
CHECK_DEADLOCK FALSE
