SPECIFICATION FairSpec
CONSTANTS
    chat = chat
    draw = draw
    idle = idle
    Services = {chat, draw}
    Detached = {draw}
    Callers = {idle}
    Victim <- MCVictim
    Handler = Handler
INVARIANTS
    TypeOK
    TokensHeld
    StoppedAtExit
PROPERTIES
    MapFrozen
    Terminates
CHECK_DEADLOCK FALSE
