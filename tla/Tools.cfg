CONSTANTS
    Programs = {"field", "scores", "checksum", "list", "zip", "weather", "tree", "columns"}
    COLS = 3
    ROWS = 3
    MineCounts = {1, 2}
    MaxFlags = 1
    MaxMinutes = 3
    MaxScores = 2
    MAX_INPUT_CHARS = 1
    Podium <- ThreePlaces
    Width = 4
    CharBits = 2
    Poly = 12
    BitXor <- ExclusiveOr
    PageSize = 2
    CHUNK_SIZE = 5
    MaxLength = 6
    data <- Lost
    Lengths = {0, 2}
    MaxEntries = 2
    MaxCells = 5
    MaxNames = 3
    Wrap = 1000
    Window = 12
    MaxBody = 4
    MaxHours = 3
    Entries = 4
    Numbers <- Figures
    MaxRows = 3
    MaxChanges = 2
    Rounding = 1
SPECIFICATION Spec
CHECK_DEADLOCK FALSE
INVARIANTS
    GameFair
    OutputRight
    EndsForCause
