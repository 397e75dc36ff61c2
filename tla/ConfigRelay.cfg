CONSTANTS
    Slug = slug
    member = member
    key = key
    Children = {member}
    Members = {member}
    ApiKeys = {key}
    Owner <- MCOwner
    Batch = 2
    Bounds <- Disturbed
SPECIFICATION Spec
INVARIANTS
    TypeOK
    LastWordIsKept
    NoExtraAccess
    
PROPERTIES
    RevocationIsTerminal
    RevocationArrives
CHECK_DEADLOCK FALSE
