SPECIFICATION Spec
INVARIANTS
    TypeOK
    PartsAreThere
PROPERTIES
    OneEndEndsAll
    ImplementsLife
CHECK_DEADLOCK FALSE
