SPECIFICATION Spec
CONSTANTS
    chat = chat
    draw = draw
    vram = vram
    None = None
    Services = {chat, draw}
    Resources = {vram}
    Capacity <- MCCapacity
    Requirement <- MCRequirement
    Usage <- MCRequirement
    Others <- MCOthers
INVARIANT WaiterIsPolled
CHECK_DEADLOCK FALSE
