SPECIFICATION Spec
CONSTANTS
    Owners = {o1, o2}
    Nobody = Nobody
    Capacity = 2
    MaxStarts = 3
INVARIANTS TypeOK OneHandlerAtATime TableBounded
PROPERTIES AnswerKept OperationEnds OrphanRemoved
CHECK_DEADLOCK FALSE
