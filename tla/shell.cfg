SPECIFICATION Spec
CONSTANTS
    MaxLines = 3
    MaxErrors = 1
    MaxChunk = 3
    MaxBuffer = 4
    MaxInline = 3
    HeaderReserve = 1
    PreviewHead = 2
    PreviewTail = 1
    Headers = {1, 4}
    Timeouts <- McTimeouts
    Env = {"aborts", "noSpawn", "noSave"}
 
PROPERTIES EveryCallAnswered
CHECK_DEADLOCK FALSE
