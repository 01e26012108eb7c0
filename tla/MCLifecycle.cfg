SPECIFICATION Spec
CONSTANTS
    Caller = {"main", "admin"}
    MaxLives = 2

    
PROPERTIES
    ShutdownCompletes
CHECK_DEADLOCK FALSE
