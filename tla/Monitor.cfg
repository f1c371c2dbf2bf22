SPECIFICATION FairSpec
CONSTANTS
    chat = chat
    draw = draw
    vram = vram
    None = None
    Services = {chat, draw}
    Resources = {vram}
    Capacity <- MCCapacity
    Requirement <- MCRequirement
    Usage <- MCRequirement
    Others <- MCOthers
INVARIANTS
    TypeOK
    FirstCheckComes
    NoOrphanChannel
PROPERTIES
    GrantsAfterCheck
    Ends
    Quiesces
CHECK_DEADLOCK FALSE
