CONSTANTS
    Files = {chapter}
    Chapters = {chapter}
    LoadedFiles = {chapter}
    Passages = {opening, middle}
    Middle = {middle}
    MaxToolCalls = 3
    Saves = {a1}
    BatchLimit = 2
    RequiredFiles = {1}
    MaxRecoveries = 1
    NoFile = NoFile
SPECIFICATION AgentSpec
PROPERTY EditKeepsTheRest
CHECK_DEADLOCK FALSE
