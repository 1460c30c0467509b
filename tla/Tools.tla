-------------------------------- MODULE Tools --------------------------------
(***************************************************************************)
(* The programs that work alone: the game, the checksum, the list library, *)
(* the zip finder, the weather client, the tree viewer and the column      *)
(* statistics.  They share nothing: a behaviour is that of one of them,    *)
(* `tool'.  A constant or a variable that two of them name alike is        *)
(* declared once, and the variables that only other programs have stay     *)
(* idle.                                                                   *)
(***************************************************************************)
EXTENDS Integers

CONSTANTS
    Programs,                                                            \* those of the run
    COLS, ROWS, MineCounts, MaxFlags, MaxMinutes, MaxScores,             \* the game
    MAX_INPUT_CHARS, Podium,
    Width, CharBits, Poly, BitXor(_, _), PageSize, CHUNK_SIZE, MaxLength,   \* the checksum
    data,                                                                \* the list library
    Lengths, MaxEntries, MaxCells, MaxNames, Window, Wrap,               \* the zip finder
    MaxBody, MaxHours,                                                   \* the weather client
    Entries,                                                             \* the tree viewer
    Numbers, MaxRows, MaxChanges, Rounding                               \* the column statistics

VARIABLES
    tool,
    currentState, minesToPlace, mines, game, minutes, finalTime, letterCount, topPlayers, entered,
    was, filesize, current_offset, mapping, crc,
    program, tail, heap, brk, at, head, printed, lost,
    entries, result, offset, held, names,
    body, document, sent, response, capacity, status,
    kind, dir, error, skipped, exit_status,
    dbms, type, column, changes, trouble, shown, answer,
    pc, i, file, calls, rows     \* of several programs

\* The variables that one program alone has.
gameOnly == <<currentState, minesToPlace, mines, game, minutes, finalTime, letterCount, topPlayers, entered>>
checksumOnly == <<was, filesize, current_offset, mapping, crc>>
listOnly == <<program, tail, heap, brk, at, head, printed, lost>>
zipOnly == <<entries, result, offset, held, names>>
forecastOnly == <<body, document, sent, response, capacity, status>>
treeOnly == <<kind, dir, error, skipped, exit_status>>
statsOnly == <<dbms, type, column, changes, trouble, shown, answer>>
vars == <<tool, gameOnly, checksumOnly, listOnly, zipOnly, forecastOnly, treeOnly, statsOnly,
          pc, i, file, calls, rows>>

\* What is not the program's own.
notGame == <<tool, checksumOnly, listOnly, zipOnly, forecastOnly, treeOnly, statsOnly, pc, i, file, calls, rows>>
notChecksum == <<tool, gameOnly, listOnly, zipOnly, forecastOnly, treeOnly, statsOnly, calls, rows>>
notList == <<tool, gameOnly, checksumOnly, zipOnly, forecastOnly, treeOnly, statsOnly, file, rows>>
notZip == <<tool, gameOnly, checksumOnly, listOnly, forecastOnly, treeOnly, statsOnly, i, calls, rows>>
notForecast == <<tool, gameOnly, checksumOnly, listOnly, zipOnly, treeOnly, statsOnly, file, calls>>
notTree == <<tool, gameOnly, checksumOnly, listOnly, zipOnly, forecastOnly, statsOnly, pc, i, file>>
notStats == <<tool, gameOnly, checksumOnly, listOnly, zipOnly, forecastOnly, treeOnly, i, file, calls, rows>>

Idle == "idle"
GameIdle ==
    /\ currentState = Idle /\ minesToPlace = Idle /\ mines = Idle /\ game = Idle /\ minutes = Idle
    /\ finalTime = Idle /\ letterCount = Idle /\ topPlayers = Idle /\ entered = Idle
ChecksumIdle == was = Idle /\ filesize = Idle /\ current_offset = Idle /\ mapping = Idle /\ crc = Idle
ListIdle ==
    /\ program = Idle /\ tail = Idle /\ heap = Idle /\ brk = Idle /\ at = Idle /\ head = Idle
    /\ printed = Idle /\ lost = Idle
ZipIdle == entries = Idle /\ result = Idle /\ offset = Idle /\ held = Idle /\ names = Idle
ForecastIdle ==
    /\ body = Idle /\ document = Idle /\ sent = Idle /\ response = Idle /\ capacity = Idle /\ status = Idle
TreeIdle == kind = Idle /\ dir = Idle /\ error = Idle /\ skipped = Idle /\ exit_status = Idle
StatsIdle ==
    /\ dbms = Idle /\ type = Idle /\ column = Idle /\ changes = Idle /\ trouble = Idle /\ shown = Idle
    /\ answer = Idle
GameAlone ==
    /\ ChecksumIdle /\ ListIdle /\ ZipIdle /\ ForecastIdle /\ TreeIdle /\ StatsIdle
    /\ pc = Idle /\ i = Idle /\ file = Idle /\ calls = Idle /\ rows = Idle
ChecksumAlone ==
    /\ GameIdle /\ ListIdle /\ ZipIdle /\ ForecastIdle /\ TreeIdle /\ StatsIdle /\ calls = Idle /\ rows = Idle
ListAlone ==
    /\ GameIdle /\ ChecksumIdle /\ ZipIdle /\ ForecastIdle /\ TreeIdle /\ StatsIdle /\ file = Idle /\ rows = Idle
ZipAlone ==
    /\ GameIdle /\ ChecksumIdle /\ ListIdle /\ ForecastIdle /\ TreeIdle /\ StatsIdle
    /\ i = Idle /\ calls = Idle /\ rows = Idle
ForecastAlone ==
    /\ GameIdle /\ ChecksumIdle /\ ListIdle /\ ZipIdle /\ TreeIdle /\ StatsIdle /\ file = Idle /\ calls = Idle
TreeAlone ==
    /\ GameIdle /\ ChecksumIdle /\ ListIdle /\ ZipIdle /\ ForecastIdle /\ StatsIdle
    /\ pc = Idle /\ i = Idle /\ file = Idle
StatsAlone ==
    /\ GameIdle /\ ChecksumIdle /\ ListIdle /\ ZipIdle /\ ForecastIdle /\ TreeIdle
    /\ i = Idle /\ file = Idle /\ calls = Idle /\ rows = Idle

-----------------------------------------------------------------------------
\* The game is looked at twice: its field, and the table of many short games.
Field == INSTANCE MinesweeperProofs WITH MaxMinutes <- 0, MaxScores <- 0
Scores == INSTANCE MinesweeperProofs WITH COLS <- 2, ROWS <- 2, MineCounts <- {3}, MaxFlags <- 0
Checksum == INSTANCE Crc32 WITH data <- mapping
List == INSTANCE AsmList
Finder == INSTANCE ZipFinder
Forecast == INSTANCE Weather
Tree == INSTANCE DirTree
Stats == INSTANCE ColumnStats

ASSUME ToolsAssumption ==
    /\ Field!GameAssumption /\ Scores!GameAssumption /\ Checksum!ChecksumAssumption
    /\ List!ListAssumption /\ Finder!ZipAssumption /\ Forecast!WeatherAssumption
    /\ Tree!EntriesAssumption /\ Stats!StatsAssumption

-----------------------------------------------------------------------------
Init ==
    /\ tool \in Programs
    /\ \/ tool = "field" /\ Field!Init /\ GameAlone
       \/ tool = "scores" /\ Scores!Init /\ GameAlone
       \/ tool = "checksum" /\ Checksum!Init /\ ChecksumAlone
       \/ tool = "list" /\ List!Init /\ ListAlone
       \/ tool = "zip" /\ Finder!Init /\ ZipAlone
       \/ tool = "weather" /\ Forecast!Init /\ ForecastAlone
       \/ tool = "tree" /\ Tree!Init /\ TreeAlone
       \/ tool = "columns" /\ Stats!Init /\ StatsAlone
Next ==
    \/ tool = "field" /\ Field!Next /\ UNCHANGED notGame
    \/ tool = "scores" /\ Scores!Next /\ UNCHANGED notGame
    \/ tool = "checksum" /\ Checksum!Next /\ UNCHANGED notChecksum
    \/ tool = "list" /\ List!Next /\ UNCHANGED notList
    \/ tool = "zip" /\ Finder!Next /\ UNCHANGED notZip
    \/ tool = "weather" /\ Forecast!Next /\ UNCHANGED notForecast
    \/ tool = "tree" /\ Tree!Next /\ UNCHANGED notTree
    \/ tool = "columns" /\ Stats!Next /\ UNCHANGED notStats
Spec == Init /\ [][Next]_vars

-----------------------------------------------------------------------------
\* The game opens no mine and no less than the empty cells' neighbours, is won
\* when every cell without a mine is open, and keeps the best scores
\* (src/17-minesweeper/main.c).
GameFair ==
    /\ tool = "field" =>
         Field!TypeOK /\ Field!MinesHidden /\ Field!RevealClosed /\ Field!WonWhenOpen
    /\ tool = "scores" => Scores!TypeOK /\ Scores!TopScores

\* What a program shows at its end is what its input holds, unless it says so:
\* the checksum of the whole file, the list's numbers, the archive's names, the
\* hours of the answer, the rows of every directory, the column's figures but
\* for their rounding.
OutputRight ==
    /\ tool = "checksum" => Checksum!TypeOK /\ Checksum!ReportsChecksum
    /\ tool = "list" => List!SameRows
    /\ tool = "zip" => Finder!Listed
    /\ tool = "weather" => Forecast!AnswerWhole /\ Forecast!HoursShown
    /\ tool = "tree" => Tree!RowsUnderDirectories /\ Tree!CompleteOnSuccess
    /\ tool = "columns" =>
         Stats!DispersionIsVariance /\ Stats!SilentForCause /\ Stats!TextBehindFirst

\* A program that is killed, follows a wild pointer, leaks or walks past the
\* end of its input does so for the causes that its module names.
EndsForCause ==
    /\ tool = "checksum" => Checksum!KilledOnlyIfCut
    /\ tool = "list" => List!NothingLeaks /\ List!NoWildPointer
    /\ tool = "zip" => Finder!WalkAdvances /\ Finder!EndsInFile
    /\ tool = "weather" => Forecast!CrashCause
=============================================================================
