CONSTANTS
    Slug = slug
    member = member
    key = key
    Children = {member}
    Members = {member}
    ApiKeys = {key}
    Owner <- MCOwner
    Batch = 2
    Bounds <- Undisturbed
SPECIFICATION Spec
PROPERTY RetirementStands
CHECK_DEADLOCK FALSE
