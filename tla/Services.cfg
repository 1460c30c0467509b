CONSTANTS
    Programs = {"serve", "race", "log", "daemon", "client", "hook"}
    Cores = 2
    IntSize = 1
    MaxSignals = 2
    Conns = {conn1, conn2}
    Fds = {3, 4}
    Requests <- Good
    Files = {file1}
    Pieces = {1}
    Entries <- FileOrNone
    OneConn = {conn1}
    OneFd = {3}
    AnyRequests <- GoodOrRefused
    AnyPieces = {1, 3}
    AnyEntries <- EveryEntry
    Threads = {thread1, thread2}
    Paths = {path1, path2}
    Frames = 1
    MaxRecords = 2
    MaxCreates = 2
    MaxClock = 1
    Misuse = TRUE
    Instances = {proc1, proc2}
    Clients = {cli1}
    Sizes = {"small", "missing"}
    MaxChanges = 1
    Faults = TRUE
    Documents <- Configs
    Hosts <- MCHosts
    Prompt <- Pre
    EndMark <- Dot
    BUF_SIZE = 5
    Width = 2
    And <- BitAnd
    PodCount = 2
    MaxMoves = 2
    conn1 = conn1
    conn2 = conn2
    file1 = file1
    thread1 = thread1
    thread2 = thread2
    path1 = path1
    path2 = path2
    proc1 = proc1
    proc2 = proc2
    cli1 = cli1
    cli2 = cli2
SPECIFICATION Spec
SYMMETRY Interchangeable
INVARIANTS
    TypeOK
    PipeSuffices
    DescriptorsKept
    RecordsWhole
    DaemonAnswers
    AnswerPrinted
    VerifiedByPod
PROPERTIES
    AnswersRight
