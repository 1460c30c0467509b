\* The rows of a JPEG image, pixel by pixel.
CONSTANTS
    Parts = {"rows"}
    BufLen = 3
    Lengths <- ImageLengths
    Counts <- Requests
    MaxCalls = 4
    MaxLen = 4
    ByteBits = 2
    FastBits = 3
    Flag = 4
    FastMax = 1
    MaxCount = 3
    MaxBytes = 2
    LongCounts <- ManyCodes
    MaxLong = 5
    SmallInt = 12
    SmallShort = 7
    Args <- Extremes
    K = 4
    RunMax = 2
    Quant <- Quantizers
    Targets <- Pictures
    Scripts <- Progressions
    Edge = 2
    Ahead = 2
    Files <- GoodFiles
    OddFiles <- BadFrames
    MaxMallocs = 10
    Dims = {1, 2, 3, 4}
    Factors <- Stretches
    Values = {0, 10}
    Temp = 3
    First = {0, 15, 128, 200, 255}
    Second = {77}
    IntMax = 127
    ShortMax = 31
SPECIFICATION Spec
\* Every part ends.
CHECK_DEADLOCK FALSE
INVARIANT RowsCentred
