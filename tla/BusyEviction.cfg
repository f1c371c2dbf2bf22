SPECIFICATION Spec
CONSTANTS
    c1 = c1
    c2 = c2
    c3 = c3
    t1 = t1
    chat = chat
    draw = draw
    vram = vram
    None = None
    Connections = {c1, c3}
    Timers = {}
    Services = {chat, draw}
    Resources = {vram}
    Target <- MCTarget
    Amount <- MCAmount
    Requirement <- MCRequirement
    StoppedOnExit = {chat, draw}
    Restarting = {}
    Unkillable = {}
PROPERTY EvictsOnlyIdle
CHECK_DEADLOCK FALSE
