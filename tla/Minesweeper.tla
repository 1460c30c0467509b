----------------------------- MODULE Minesweeper -----------------------------
(***************************************************************************)
(* src/17-minesweeper/main.c: a game in a window, one switch over the      *)
(* screen per frame.  A frame's input is a cell or a button under the      *)
(* mouse and the keys pressed in that frame; several can be pressed in the *)
(* same frame.  Time counts minutes, a name its letters.                   *)
(***************************************************************************)
EXTENDS Integers, Sequences, Functions, FiniteSets

CONSTANTS
    COLS, ROWS,
    MineCounts,       \* mines of the difficulties
    MAX_INPUT_CHARS,
    Podium,           \* the scores topPlayers starts with
    MaxFlags,         \* bound: flags set at once
    MaxMinutes,       \* bound: minutes of a game
    MaxScores         \* bound: scores entered

GameAssumption ==
    /\ COLS \in Nat \ {0} /\ ROWS \in Nat \ {0}
    /\ MineCounts \subseteq 0..(COLS * ROWS - 1)    \* initGame ends, and a cell is free
    /\ Podium \in Seq(Nat) /\ \A i, j \in DOMAIN Podium : i <= j => Podium[i] >= Podium[j]
    /\ MAX_INPUT_CHARS \in Nat

Cells == (0..COLS-1) \X (0..ROWS-1)

VARIABLES
    currentState, \* the screen
    minesToPlace,
    mines,        \* cells with hasMine
    game,         \* isRevealed and isFlagged cells, gameOver, gameWon
    minutes,      \* since startTime
    finalTime,    \* finalTimeInSeconds
    letterCount,
    topPlayers,   \* the scores of the table
    entered       \* history: the scores entered

table == <<topPlayers, entered>>
vars == <<currentState, minesToPlace, mines, game, minutes, finalTime, letterCount, table>>

NewGame == [revealed |-> {}, flagged |-> {}, over |-> FALSE, won |-> FALSE]

Init ==
    /\ currentState = "MENU" /\ minesToPlace = 0 /\ mines = {} /\ game = NewGame
    /\ minutes = 0 /\ finalTime = 0 /\ letterCount = 0
    /\ topPlayers = Podium /\ entered = <<>>

-----------------------------------------------------------------------------
\* The field.

Around(c) == {d \in Cells : d[1] - c[1] \in -1..1 /\ d[2] - c[2] \in -1..1}
\* Mutant: only the cells that share an edge are counted.
NeighborCross(c) == Cardinality({d \in Around(c) \cap mines : d[1] = c[1] \/ d[2] = c[2]})
\* neighborCount, which initGame leaves 0 for a mine.
NeighborCount(c) == IF c \in mines THEN 0 ELSE Cardinality(Around(c) \cap mines)
Zero(c) == NeighborCount(c) = 0 /\ c \notin mines

\* Mutant: a mine drawn twice counts twice.
InitGameTwice(count) ==
    /\ mines' \in {S \in SUBSET Cells : Cardinality(S) \in 1..count}
    /\ game' = NewGame
    /\ minutes' = 0
\* initGame: any placement rand can reach.
InitGame(count) ==
    /\ mines' \in {S \in SUBSET Cells : Cardinality(S) = count}
    /\ game' = NewGame
    /\ minutes' = 0

\* Mutant: flagged cells stop the recursion.
SpreadUnflagged(revealed, S) ==
    {d \in Cells \ revealed : d \in S \/ (d \notin game.flagged /\ \E c \in S : Zero(c) /\ d \in Around(c))}
Spread(revealed, S) ==
    {d \in Cells \ revealed : d \in S \/ \E c \in S : Zero(c) /\ d \in Around(c)}
\* revealCell: what the recursion from c adds.
RevealCell(revealed, c) ==
    LET from[S \in SUBSET Cells] == IF Spread(revealed, S) = S THEN S ELSE from[Spread(revealed, S)]
    IN from[{c} \ revealed]

\* Mutant: a flagged mine counts as revealed.
CheckWinFlags(revealed) == Cells \ mines \subseteq revealed \cup game.flagged
CheckWin(revealed) == Cells \ mines \subseteq revealed

RevealAllMines(revealed) == revealed \cup mines
Left(g, c) ==
    IF c \in g.flagged \cup g.revealed THEN g
    ELSE IF c \in mines THEN [g EXCEPT !.over = TRUE, !.revealed = RevealAllMines(@)]
    ELSE LET opened == g.revealed \cup RevealCell(g.revealed, c)
         IN [g EXCEPT !.revealed = opened, !.won = CheckWin(opened)]

Right(g, c) ==
    IF c \in g.revealed THEN g
    ELSE [g EXCEPT !.flagged = IF c \in @ THEN @ \ {c} ELSE @ \cup {c}]

-----------------------------------------------------------------------------
\* One frame on each screen; Escape is looked at after the mouse.

Menu ==
    /\ currentState = "MENU"
    /\ currentState' \in {"DIFFICULTY", "HIGHSCORES"}
    /\ UNCHANGED <<minesToPlace, mines, game, minutes, finalTime, letterCount, table>>

Difficulty ==
    /\ currentState = "DIFFICULTY"
    /\ \E escape \in BOOLEAN :
          \/ \E count \in MineCounts :
               /\ minesToPlace' = count /\ InitGame(count)
               /\ currentState' = IF escape THEN "MENU" ELSE "GAME"
          \/ escape /\ currentState' = "MENU" /\ UNCHANGED <<minesToPlace, mines, game, minutes>>
    /\ UNCHANGED <<finalTime, letterCount, table>>

\* Mouse buttons on a cell while the game runs; Escape wins over the name
\* input that a winning click has just asked for.
Play ==
    /\ currentState = "GAME" /\ ~game.over /\ ~game.won
    /\ \E c \in Cells, left, right, escape \in BOOLEAN :
       \E clicked \in {IF left THEN Left(game, c) ELSE game} :
          /\ game' = IF right THEN Right(clicked, c) ELSE clicked
          /\ finalTime' = IF clicked.won THEN minutes ELSE finalTime
          /\ currentState' = IF escape THEN "MENU" ELSE IF clicked.won THEN "INPUT" ELSE "GAME"
    /\ Cardinality(game'.flagged) <= MaxFlags
    /\ UNCHANGED <<minesToPlace, mines, minutes, letterCount, table>>

\* R deals the field again.
Restart ==
    /\ currentState = "GAME" /\ (game.over \/ game.won)
    /\ \E r, escape \in BOOLEAN :
          /\ IF r THEN InitGame(minesToPlace) ELSE UNCHANGED <<mines, game, minutes>>
          /\ currentState' = IF escape THEN "MENU" ELSE "GAME"
    /\ UNCHANGED <<minesToPlace, finalTime, letterCount, table>>

\* Mutant: the entries below are not moved down.
AddScoreOver(top, score) ==
    LET places == {i \in DOMAIN top : score > top[i]} IN
    IF places = {} THEN top
    ELSE [top EXCEPT ![CHOOSE i \in places : \A j \in places : i <= j] = score]
\* addScore: before the first smaller score; the last entry falls off.
AddScore(top, score) ==
    LET places == {i \in DOMAIN top : score > top[i]}
        i == CHOOSE p \in places : \A q \in places : p <= q
    IN IF places = {} THEN top
       ELSE [j \in DOMAIN top |-> IF j < i THEN top[j] ELSE IF j = i THEN score ELSE top[j - 1]]

FinalScore(m, t) == IF m - t < 0 THEN 0 ELSE m - t

\* Characters, then Backspace, then Enter.
Input ==
    /\ currentState = "INPUT"
    /\ \E typed \in 0..MAX_INPUT_CHARS + 1, backspace, enter \in BOOLEAN :
          LET full == IF letterCount + typed > MAX_INPUT_CHARS THEN MAX_INPUT_CHARS
                      ELSE letterCount + typed
              letters == IF backspace /\ full > 0 THEN full - 1 ELSE full
          IN IF enter /\ letters > 0
             THEN /\ Len(entered) < MaxScores
                  /\ topPlayers' = AddScore(topPlayers, FinalScore(minesToPlace, finalTime))
                  /\ entered' = Append(entered, FinalScore(minesToPlace, finalTime))
                  /\ currentState' = "HIGHSCORES"
                  /\ letterCount' = 0
             ELSE letterCount' = letters /\ UNCHANGED <<currentState, table>>
    /\ UNCHANGED <<minesToPlace, mines, game, minutes, finalTime>>

HighScores ==
    /\ currentState = "HIGHSCORES"
    /\ currentState' = "MENU"
    /\ UNCHANGED <<minesToPlace, mines, game, minutes, finalTime, letterCount, table>>

Clock ==
    /\ currentState = "GAME" /\ ~game.over /\ ~game.won /\ minutes < MaxMinutes
    /\ minutes' = minutes + 1
    /\ UNCHANGED <<currentState, minesToPlace, mines, game, finalTime, letterCount, table>>

Next == Menu \/ Difficulty \/ Play \/ Restart \/ Input \/ HighScores \/ Clock
Spec == Init /\ [][Next]_vars

-----------------------------------------------------------------------------
TypeOK ==
    /\ currentState \in {"MENU", "DIFFICULTY", "GAME", "INPUT", "HIGHSCORES"}
    /\ mines \subseteq Cells /\ Cardinality(mines) = minesToPlace
    /\ game.revealed \subseteq Cells /\ game.flagged \subseteq Cells
    /\ letterCount \in 0..MAX_INPUT_CHARS
    /\ topPlayers \in [1..Len(Podium) -> Nat]

\* The recursion of revealCell never reaches a mine: one is shown only when
\* the game is over (lines 66-75 and 86).
MinesHidden == ~game.over => game.revealed \cap mines = {}

\* A revealed cell without mines around it has all its neighbours revealed,
\* flagged ones too, whatever was open before the click.
RevealClosed == \A c \in game.revealed : Zero(c) => Around(c) \subseteq game.revealed

\* The game is won exactly when the last safe cell is open, and never goes on.
WonWhenOpen ==
    /\ game.won <=> CheckWin(game.revealed)
    /\ currentState = "INPUT" => game.won /\ ~game.over

\* The table holds the best scores there ever were, in order; ties keep the
\* earlier one, and only the smallest falls off.
Above(s, v) == Cardinality({i \in DOMAIN s : s[i] >= v})
TopScores ==
    LET all == Podium \o entered IN
    /\ \A i, j \in DOMAIN topPlayers : i <= j => topPlayers[i] >= topPlayers[j]
    /\ \A v \in Range(topPlayers) \cup Range(all) :
         Above(topPlayers, v) = IF Above(all, v) < Len(Podium) THEN Above(all, v) ELSE Len(Podium)
=============================================================================
