------------------------- MODULE MinesweeperProofs -------------------------
(***************************************************************************)
(* Proofs about the game: what a click opens, in a section on the flood    *)
(* fill, the invariant of the field, and the order of the table of scores. *)
(* Tools instantiates this module, once for the field and once for the     *)
(* table, and so has its theorems.                                         *)
(***************************************************************************)
EXTENDS Minesweeper, FiniteSetTheorems, WellFoundedInduction, TLAPS

\* A set of numbers that is not empty has a least one.
LEMMA Least ==
  ASSUME NEW S \in SUBSET Nat, S # {}
  PROVE  \E x \in S : \A y \in S : x <= y
<1> DEFINE R == { p \in Nat \X Nat : p[1] < p[2] }
<1>1. R = OpToRel(<, Nat)
  BY DEF OpToRel
<1>2. IsWellFoundedOn(R, Nat)
  BY <1>1, NatLessThanWellFounded
<1> HIDE DEF R
<1>3. PICK x \in S : \A y \in S : ~(<<y, x>> \in R)
  BY <1>2, WFMin
<1>4. \A y \in S : ~(y < x)
  BY <1>3 DEF R
<1> QED BY <1>4

-----------------------------------------------------------------------------
(* The field *)

\* The field is finite, with as many cells as it has places.
LEMMA CellsFinite ==
  ASSUME GameAssumption
  PROVE  IsFiniteSet(Cells) /\ Cardinality(Cells) = COLS * ROWS /\ COLS * ROWS \in Nat \ {0}
<1> DEFINE a == 0..COLS-1
           b == 0..ROWS-1
<1>1. IsFiniteSet(a) /\ Cardinality(a) = COLS /\ IsFiniteSet(b) /\ Cardinality(b) = ROWS
  <2>1. 0 \in Int /\ COLS-1 \in Int /\ ROWS-1 \in Int /\ COLS > 0 /\ ROWS > 0 /\ COLS \in Nat /\ ROWS \in Nat
    BY DEF GameAssumption
  <2>2. IsFiniteSet(a) /\ Cardinality(a) = IF 0 > COLS-1 THEN 0 ELSE COLS-1 - 0 + 1
    BY <2>1, FS_Interval
  <2>3. IsFiniteSet(b) /\ Cardinality(b) = IF 0 > ROWS-1 THEN 0 ELSE ROWS-1 - 0 + 1
    BY <2>1, FS_Interval
  <2> QED BY <2>1, <2>2, <2>3
<1> HIDE DEF a, b
<1>2. IsFiniteSet(a \X b) /\ Cardinality(a \X b) = Cardinality(a) * Cardinality(b)
  BY <1>1, FS_Product
<1>3. Cells = a \X b
  BY DEF Cells, a, b
<1>4. COLS * ROWS \in Nat \ {0}
  BY SMT DEF GameAssumption
<1> QED BY <1>1, <1>2, <1>3, <1>4

\* Fewer mines than cells leave a free one.
LEMMA FreeCell ==
  ASSUME GameAssumption, NEW S \in SUBSET Cells, Cardinality(S) < COLS * ROWS
  PROVE  ~(Cells \subseteq S)
<1>1. SUFFICES ASSUME Cells \subseteq S PROVE FALSE
  OBVIOUS
<1>2. S = Cells
  BY <1>1
<1> QED BY <1>2, CellsFinite

\* A cell without mines around it has none in its neighbours (lines 49-60).
LEMMA ZeroFree ==
  ASSUME GameAssumption, NEW c \in Cells, Zero(c)
  PROVE  Around(c) \cap mines = {}
<1>1. Around(c) \cap mines \in SUBSET Cells
  BY DEF Around
<1>2. IsFiniteSet(Around(c) \cap mines)
  BY <1>1, CellsFinite, FS_Subset
<1>3. Cardinality(Around(c) \cap mines) = 0
  BY DEF Zero, NeighborCount
<1> QED BY <1>2, <1>3, FS_EmptySet

-----------------------------------------------------------------------------
(* revealCell *)

\* The recursion of revealCell has a solution: the least set that holds S and
\* all the cells that open with it.
RevealEquation(revealed, f) ==
  f = [S \in SUBSET Cells |-> IF Spread(revealed, S) = S THEN S ELSE f[Spread(revealed, S)]]

LEMMA SpreadGrows ==
  ASSUME NEW revealed, NEW S \in SUBSET (Cells \ revealed), NEW T \in SUBSET (Cells \ revealed), S \subseteq T
  PROVE  /\ Spread(revealed, S) \in SUBSET (Cells \ revealed)
         /\ S \subseteq Spread(revealed, S)
         /\ Spread(revealed, S) \subseteq Spread(revealed, T)
BY DEF Spread

LEMMA RevealSolved ==
  ASSUME NEW revealed
  PROVE  \E f : RevealEquation(revealed, f)
<1> DEFINE U == Cells \ revealed
           G(S) == Spread(revealed, S)
           Closure(S) == {d \in U : \A T \in SUBSET U : S \subseteq T /\ G(T) = T => d \in T}
           f == [S \in SUBSET Cells |-> IF G(S) = S THEN S ELSE Closure(G(S))]
<1>1. \A S : G(S) \in SUBSET U
  BY DEF Spread
<1>2. \A S, T \in SUBSET U : S \subseteq T => S \subseteq G(S) /\ G(S) \subseteq G(T)
  BY SpreadGrows
<1> HIDE DEF G
<1>3. \A S \in SUBSET U : G(S) = S => Closure(S) = S
  OBVIOUS
<1>4. ASSUME NEW S \in SUBSET U PROVE Closure(G(S)) = Closure(S)
  <2>1. \A T \in SUBSET U : G(T) = T => (S \subseteq T <=> G(S) \subseteq T)
    <3> SUFFICES ASSUME NEW T \in SUBSET U, G(T) = T PROVE S \subseteq T <=> G(S) \subseteq T
      OBVIOUS
    <3>1. S \subseteq T => G(S) \subseteq G(T)
      BY <1>2
    <3>2. S \subseteq G(S)
      BY <1>2
    <3> QED BY <3>1, <3>2
  <2> QED BY <2>1
<1>5. ASSUME NEW S \in SUBSET Cells, G(S) # S PROVE f[G(S)] = Closure(G(S))
  <2>1. G(S) \in SUBSET U /\ G(S) \in SUBSET Cells
    BY <1>1
  <2> HIDE DEF Closure
  <2>2. f[G(S)] = IF G(G(S)) = G(S) THEN G(S) ELSE Closure(G(G(S)))
    BY <2>1
  <2>3. Closure(G(G(S))) = Closure(G(S))
    BY <2>1, <1>4
  <2>4. G(G(S)) = G(S) => Closure(G(S)) = G(S)
    BY <2>1, <1>3
  <2> QED BY <2>2, <2>3, <2>4
<1>6. f = [S \in SUBSET Cells |-> IF G(S) = S THEN S ELSE f[G(S)]]
  <2> HIDE DEF Closure
  <2>1. \A S \in SUBSET Cells : (IF G(S) = S THEN S ELSE Closure(G(S))) = (IF G(S) = S THEN S ELSE f[G(S)])
    BY <1>5
  <2> DEFINE g == [S \in SUBSET Cells |-> IF G(S) = S THEN S ELSE f[G(S)]]
  <2>2. DOMAIN f = SUBSET Cells /\ DOMAIN g = SUBSET Cells
    OBVIOUS
  <2>3. \A S \in SUBSET Cells : f[S] = g[S]
    BY <2>1
  <2>4. f = g
    BY <2>1, Zenon
  <2> QED BY <2>4
<1> HIDE DEF f
<1>7. RevealEquation(revealed, f)
  BY <1>6 DEF RevealEquation, G
<1> QED BY <1>7

\* So what revealCell adds is what some solution gives.
LEMMA RevealIs ==
  ASSUME NEW revealed, NEW c
  PROVE  \E h : RevealEquation(revealed, h) /\ RevealCell(revealed, c) = h[{c} \ revealed]
<1> DEFINE h == CHOOSE f : RevealEquation(revealed, f)
<1>1. RevealEquation(revealed, h)
  BY RevealSolved
<1>2. RevealCell(revealed, c) = h[{c} \ revealed]
  BY DEF RevealCell, RevealEquation
<1> QED BY <1>1, <1>2

\* Every solution leads from a set of cells to one that holds it, from which
\* nothing more opens, and which has a mine only if the first had.
Opens(revealed, S, R) ==
  /\ R \in SUBSET (Cells \ revealed) /\ S \subseteq R /\ Spread(revealed, R) = R
  /\ S \cap mines = {} => R \cap mines = {}

LEMMA SpreadSafe ==
  ASSUME GameAssumption, NEW revealed, NEW S \in SUBSET Cells, S \cap mines = {}
  PROVE  Spread(revealed, S) \cap mines = {}
BY ZeroFree DEF Spread

LEMMA SolutionOpens ==
  ASSUME GameAssumption, NEW revealed, NEW h, RevealEquation(revealed, h), NEW S \in SUBSET (Cells \ revealed)
  PROVE  Opens(revealed, S, h[S])
<1> DEFINE U == Cells \ revealed
           G(T) == Spread(revealed, T)
           Bad == {T \in SUBSET U : ~Opens(revealed, T, h[T])}
           Size(T) == Cardinality(Cells) - Cardinality(T)
           Sizes == {Size(T) : T \in Bad}
<1>1. \A T \in SUBSET U : IsFiniteSet(T) /\ Cardinality(T) \in Nat /\ Size(T) \in Nat
  <2> SUFFICES ASSUME NEW T \in SUBSET U PROVE IsFiniteSet(T) /\ Cardinality(T) \in Nat /\ Size(T) \in Nat
    OBVIOUS
  <2>1. IsFiniteSet(T) /\ Cardinality(T) <= Cardinality(Cells)
    BY CellsFinite, FS_Subset
  <2> QED BY <2>1, CellsFinite, FS_CardinalityType
<1>2. SUFFICES ASSUME Bad # {} PROVE FALSE
  OBVIOUS
<1>3. Sizes \in SUBSET Nat /\ Sizes # {}
  BY <1>1, <1>2
<1>4. PICK T \in Bad : \A V \in Bad : Size(T) <= Size(V)
  <2>1. PICK n \in Sizes : \A m \in Sizes : n <= m
    BY <1>3, Least
  <2> QED BY <2>1
<1>5. h[T] = IF G(T) = T THEN T ELSE h[G(T)]
  BY DEF RevealEquation
<1>6. G(T) \in SUBSET U /\ T \subseteq G(T)
  BY SpreadGrows
<1>7. CASE G(T) = T
  BY <1>5, <1>7 DEF Opens
<1>8. CASE G(T) # T
  <2> DEFINE V == G(T)
  <2>1. IsFiniteSet(V) /\ Cardinality(V) \in Nat /\ Size(V) \in Nat /\ T \in SUBSET V /\ T # V
    BY <1>1, <1>6, <1>8
  <2> HIDE DEF V
  <2>2. Cardinality(T) < Cardinality(V)
    BY <1>1, <2>1, FS_Subset
  <2>3. ~(Size(T) <= Size(V))
    BY <1>1, <2>1, <2>2, CellsFinite
  <2>4. V \notin Bad
    BY <1>4, <2>3
  <2>5. V \in SUBSET U
    BY <1>6 DEF V
  <2>6. Opens(revealed, V, h[V])
    BY <2>4, <2>5
  <2>7. T \cap mines = {} => V \cap mines = {}
    BY SpreadSafe DEF V
  <2>8. h[T] = h[V]
    BY <1>5, <1>8 DEF V
  <2>9. Opens(revealed, T, h[T])
    BY <1>6, <2>6, <2>7, <2>8 DEF Opens, V
  <2> QED BY <2>9
<1> QED BY <1>7, <1>8

\* revealCell opens the cell, no mine, and around every empty cell that it opens all.
LEMMA RevealOpens ==
  ASSUME GameAssumption, NEW revealed, NEW c \in Cells \ revealed
  PROVE  Opens(revealed, {c}, RevealCell(revealed, c))
<1>1. PICK h : RevealEquation(revealed, h) /\ RevealCell(revealed, c) = h[{c} \ revealed]
  BY RevealIs
<1>2. {c} \ revealed = {c} /\ {c} \in SUBSET (Cells \ revealed)
  OBVIOUS
<1> QED BY <1>1, <1>2, SolutionOpens

-----------------------------------------------------------------------------
(* The inductive invariant *)

Games == [revealed : SUBSET Cells, flagged : SUBSET Cells, over : BOOLEAN, won : BOOLEAN]

\* What a game is at any time between two clicks.
Playable(g) ==
  /\ g \in Games
  /\ ~g.over => g.revealed \cap mines = {}
  /\ \A c \in g.revealed : Zero(c) => Around(c) \subseteq g.revealed
  /\ g.won <=> CheckWin(g.revealed)
  /\ ~(g.over /\ g.won)

FieldInv ==
  /\ currentState \in {"MENU", "DIFFICULTY", "GAME", "INPUT", "HIGHSCORES"}
  /\ minesToPlace \in 0..(COLS * ROWS - 1)
  /\ mines \in SUBSET Cells /\ Cardinality(mines) = minesToPlace
  /\ Playable(game)
  /\ currentState = "INPUT" => game.won /\ ~game.over

Best(n) == IF n < Len(Podium) THEN n ELSE Len(Podium)

TableInv ==
  /\ minutes \in Nat /\ finalTime \in Nat /\ letterCount \in 0..MAX_INPUT_CHARS
  /\ entered \in Seq(Nat) /\ topPlayers \in [1..Len(Podium) -> Nat]
  /\ \A k, l \in 1..Len(Podium) : k <= l => topPlayers[k] >= topPlayers[l]
  /\ \A v \in Nat : Above(topPlayers, v) = Best(Above(Podium \o entered, v))

\* A click with the left button, on any cell.
LEMMA LeftPlayable ==
  ASSUME GameAssumption, mines \in SUBSET Cells, NEW g, Playable(g), ~g.over, ~g.won, NEW c \in Cells
  PROVE  Playable(Left(g, c))
<1>1. CASE c \in g.flagged \cup g.revealed
  BY <1>1 DEF Left
<1>2. CASE c \notin g.flagged \cup g.revealed /\ c \in mines
  <2> DEFINE d == Left(g, c)
  <2>1. d = [g EXCEPT !.over = TRUE, !.revealed = g.revealed \cup mines]
    BY <1>2 DEF Left, RevealAllMines
  <2>2. d \in Games /\ d.revealed = g.revealed \cup mines /\ d.over = TRUE /\ d.won = g.won
    BY <2>1 DEF Games, Playable
  <2> HIDE DEF d
  <2>3. \A e \in mines : ~Zero(e)
    BY DEF Zero
  <2>4. CheckWin(d.revealed) <=> CheckWin(g.revealed)
    BY <2>2 DEF CheckWin
  <2>5. d.won = FALSE
    BY <2>2 DEF Playable, Games
  <2> QED BY <2>2, <2>3, <2>4, <2>5 DEF Playable, d
<1>3. CASE c \notin g.flagged \cup g.revealed /\ c \notin mines
  <2> DEFINE R == RevealCell(g.revealed, c)
             opened == g.revealed \cup R
             d == Left(g, c)
  <2>1. d = [g EXCEPT !.revealed = opened, !.won = CheckWin(opened)]
    BY <1>3 DEF Left
  <2>2. Opens(g.revealed, {c}, R)
    BY <1>3, RevealOpens
  <2>3. R \in SUBSET (Cells \ g.revealed) /\ R \cap mines = {} /\ Spread(g.revealed, R) = R
    BY <1>3, <2>2 DEF Opens
  <2> HIDE DEF R, d
  <2>4. opened \in SUBSET Cells
    BY <2>3 DEF Playable, Games
  <2>5. CheckWin(opened) \in BOOLEAN
    BY DEF CheckWin
  <2>6. d \in Games /\ d.revealed = opened /\ d.won = CheckWin(opened) /\ d.over = FALSE
    BY <2>1, <2>4, <2>5 DEF Playable, Games
  <2>7. opened \cap mines = {}
    BY <2>3 DEF Playable
  <2>8. ASSUME NEW a \in opened, Zero(a) PROVE Around(a) \subseteq opened
    <3>1. CASE a \in g.revealed
      BY <2>8, <3>1 DEF Playable
    <3>2. CASE a \in R
      <4>1. Around(a) \subseteq Cells
        BY DEF Around
      <4>2. \A b \in Around(a) \ g.revealed : b \in Spread(g.revealed, R)
        BY <2>8, <3>2, <4>1 DEF Spread
      <4> QED BY <2>3, <4>2
    <3> QED BY <3>1, <3>2
  <2> HIDE DEF opened
  <2> QED BY <2>6, <2>7, <2>8 DEF Playable, d
<1> QED BY <1>1, <1>2, <1>3

\* A click with the right button changes flags only.
LEMMA RightPlayable ==
  ASSUME NEW g, Playable(g), NEW c \in Cells
  PROVE  Playable(Right(g, c)) /\ Right(g, c).won = g.won /\ Right(g, c).over = g.over
<1> DEFINE d == Right(g, c)
<1>1. CASE c \in g.revealed
  BY <1>1 DEF Right
<1>2. CASE c \notin g.revealed
  <2>1. PICK F \in SUBSET Cells : d = [g EXCEPT !.flagged = F]
    <3>1. d = [g EXCEPT !.flagged = IF c \in g.flagged THEN g.flagged \ {c} ELSE g.flagged \cup {c}]
      BY <1>2 DEF Right
    <3> QED BY <3>1 DEF Playable, Games
  <2> HIDE DEF d
  <2>2. d \in Games /\ d.revealed = g.revealed /\ d.over = g.over /\ d.won = g.won
    BY <2>1 DEF Playable, Games
  <2> QED BY <2>2 DEF Playable, d
<1> QED BY <1>1, <1>2

LEMMA PlayableKept ==
  ASSUME UNCHANGED mines, NEW g
  PROVE  Playable(g)' <=> Playable(g)
<1>1. \A c : Zero(c)' <=> Zero(c)
  BY DEF Zero, NeighborCount
<1>2. CheckWin(g.revealed)' <=> CheckWin(g.revealed)
  BY DEF CheckWin
<1> QED BY <1>1, <1>2 DEF Playable

\* A field that was just dealt; it has a free cell, so the game is not won.
LEMMA DealtPlayable ==
  ASSUME GameAssumption, NEW count \in 0..(COLS * ROWS - 1), InitGame(count)
  PROVE  /\ mines' \in SUBSET Cells /\ Cardinality(mines') = count
         /\ Playable(game)' /\ minutes' = 0
<1>1. mines' \in SUBSET Cells /\ Cardinality(mines') = count /\ game' = NewGame /\ minutes' = 0
  BY DEF InitGame
<1>2. ~(Cells \subseteq mines')
  BY <1>1, FreeCell, CellsFinite
<1>3. NewGame \in Games /\ NewGame.revealed = {} /\ NewGame.over = FALSE /\ NewGame.won = FALSE
  BY DEF NewGame, Games
<1>4. ~CheckWin({})'
  BY <1>2 DEF CheckWin
<1>5. Playable(NewGame)'
  BY <1>3, <1>4 DEF Playable, NewGame
<1> QED BY <1>1, <1>5 DEF NewGame

LEMMA InitField == ASSUME GameAssumption, Init PROVE FieldInv
<1>1. ~(Cells \subseteq {}) /\ 0 \in 0..(COLS * ROWS - 1) /\ Cardinality({}) = 0
  BY CellsFinite, FreeCell, FS_EmptySet
<1>2. NewGame \in Games /\ NewGame.revealed = {} /\ NewGame.over = FALSE /\ NewGame.won = FALSE
  BY DEF NewGame, Games
<1>3. ~CheckWin({})
  BY <1>1 DEF CheckWin, Init
<1>4. Playable(NewGame)
  BY <1>2, <1>3 DEF Playable
<1> QED BY <1>1, <1>4 DEF Init, FieldInv

LEMMA NextField == ASSUME GameAssumption, FieldInv, [Next]_vars PROVE FieldInv'
<1> USE DEF FieldInv
<1>0. UNCHANGED <<minesToPlace, mines, game>> => (Playable(game)' /\ minesToPlace' \in 0..(COLS * ROWS - 1)
         /\ mines' \in SUBSET Cells /\ Cardinality(mines') = minesToPlace')
  BY PlayableKept
<1>1. CASE Menu
  BY <1>0, <1>1 DEF Menu
<1>2. CASE Difficulty
  <2>1. currentState' \in {"MENU", "GAME"}
    BY <1>2 DEF Difficulty
  <2>2. ASSUME NEW count \in MineCounts, minesToPlace' = count, InitGame(count) PROVE FieldInv'
    <3>1. count \in 0..(COLS * ROWS - 1)
      BY <2>2 DEF GameAssumption
    <3>2. /\ mines' \in SUBSET Cells /\ Cardinality(mines') = count
          /\ Playable(game)' /\ minutes' = 0
      BY <2>2, <3>1, DealtPlayable
    <3> QED BY <2>1, <2>2, <3>1, <3>2
  <2>3. CASE UNCHANGED <<minesToPlace, mines, game, minutes>>
    BY <1>0, <2>1, <2>3
  <2> QED BY <1>2, <2>2, <2>3 DEF Difficulty
<1>3. CASE Play
  <2>1. PICK c \in Cells, left, right, escape \in BOOLEAN :
             /\ game' = IF right THEN Right(IF left THEN Left(game, c) ELSE game, c)
                  ELSE IF left THEN Left(game, c) ELSE game
             /\ currentState' = IF escape THEN "MENU"
                  ELSE IF (IF left THEN Left(game, c) ELSE game).won THEN "INPUT" ELSE "GAME"
    BY <1>3 DEF Play
  <2> DEFINE g == IF left THEN Left(game, c) ELSE game
  <2>2. ~game.over /\ ~game.won /\ UNCHANGED <<minesToPlace, mines>>
    BY <1>3 DEF Play
  <2>3. Playable(g)
    BY <2>2, LeftPlayable
  <2> HIDE DEF g
  <2>4. game' = (IF right THEN Right(g, c) ELSE g)
        /\ currentState' = (IF escape THEN "MENU" ELSE IF g.won THEN "INPUT" ELSE "GAME")
    BY <2>1 DEF g
  <2>5. Playable(game') /\ game'.won = g.won /\ game'.over = g.over
    BY <2>3, <2>4, RightPlayable
  <2>6. Playable(game)'
    BY <2>2, <2>5, PlayableKept
  <2>7. currentState' = "INPUT" => game'.won /\ ~game'.over
    BY <2>3, <2>4, <2>5 DEF Playable
  <2> QED BY <2>2, <2>4, <2>6, <2>7
<1>4. CASE Restart
  <2>1. currentState' \in {"MENU", "GAME"} /\ UNCHANGED minesToPlace
    BY <1>4 DEF Restart
  <2>2. CASE InitGame(minesToPlace)
    <3>1. /\ mines' \in SUBSET Cells /\ Cardinality(mines') = minesToPlace
          /\ Playable(game)' /\ minutes' = 0
      BY <2>2, DealtPlayable
    <3> QED BY <2>1, <3>1
  <2>3. CASE UNCHANGED <<mines, game, minutes>>
    BY <1>0, <2>1, <2>3
  <2> QED BY <1>4, <2>2, <2>3 DEF Restart
<1>5. CASE Input
  BY <1>0, <1>5 DEF Input
<1>6. CASE HighScores
  BY <1>0, <1>6 DEF HighScores
<1>7. CASE Clock
  BY <1>0, <1>7 DEF Clock
<1>8. CASE UNCHANGED vars
  BY <1>0, <1>8 DEF vars
<1> QED BY <1>1, <1>2, <1>3, <1>4, <1>5, <1>6, <1>7, <1>8 DEF Next

-----------------------------------------------------------------------------
(* The table of scores *)

Sorted(t, n) == \A k, l \in 1..n : k <= l => t[k] >= t[l]

\* How many of the first scores reach v, if these are the only ones that do.
LEMMA AboveGiven ==
  ASSUME NEW n \in Nat, NEW t, DOMAIN t = 1..n, NEW v, NEW m \in 0..n,
         \A k \in 1..n : t[k] >= v <=> k <= m
  PROVE  Above(t, v) = m
<1>1. {k \in DOMAIN t : t[k] >= v} = 1..m
  OBVIOUS
<1>2. Cardinality(1..m) = m
  BY FS_Interval
<1> QED BY <1>1, <1>2 DEF Above

\* In a table in order these are the first ones.
LEMMA AboveFirst ==
  ASSUME NEW n \in Nat, NEW t \in [1..n -> Nat], Sorted(t, n), NEW v \in Nat
  PROVE  Above(t, v) \in 0..n /\ \A k \in 1..n : t[k] >= v <=> k <= Above(t, v)
<1> DEFINE Less == {k \in 1..n : t[k] < v}
<1>1. PICK m \in 0..n : \A k \in 1..n : t[k] >= v <=> k <= m
  <2>1. CASE Less = {}
    <3>1. \A k \in 1..n : t[k] >= v <=> k <= n
      BY <2>1
    <3> QED BY <3>1
  <2>2. CASE Less # {}
    <3>1. Less \in SUBSET Nat
      OBVIOUS
    <3>2. PICK p \in Less : \A q \in Less : p <= q
      BY <2>2, <3>1, Least
    <3>3. ASSUME NEW k \in 1..n PROVE t[k] >= v <=> k <= p - 1
      BY <3>2 DEF Sorted
    <3>4. p - 1 \in 0..n
      BY <3>2
    <3> HIDE DEF Less
    <3> QED BY <3>3, <3>4
  <2> QED BY <2>1, <2>2
<1>2. Above(t, v) = m
  BY <1>1, AboveGiven
<1> QED BY <1>1, <1>2

\* One more score in a list of scores.
LEMMA AboveAppend ==
  ASSUME NEW s \in Seq(Nat), NEW x \in Nat, NEW v \in Nat
  PROVE  /\ Above(s, v) \in Nat
         /\ Above(Append(s, x), v) = Above(s, v) + (IF x >= v THEN 1 ELSE 0)
<1> DEFINE n == Len(s)
           u == Append(s, x)
           A == {k \in DOMAIN s : s[k] >= v}
           B == {k \in DOMAIN u : u[k] >= v}
<1>1. n \in Nat /\ DOMAIN s = 1..n /\ DOMAIN u = 1..n+1 /\ u[n+1] = x /\ \A k \in 1..n : u[k] = s[k]
  OBVIOUS
<1>2. A \in SUBSET (1..n) /\ IsFiniteSet(A) /\ Cardinality(A) \in Nat
  <2>1. A \in SUBSET (1..n) /\ IsFiniteSet(1..n)
    BY <1>1, FS_Interval
  <2> QED BY <2>1, FS_Subset, FS_CardinalityType
<1>3. n + 1 \notin A
  BY <1>2
<1> HIDE DEF u
<1>4. B = IF x >= v THEN A \cup {n + 1} ELSE A
  BY <1>1
<1> HIDE DEF A, B, n
<1>5. Cardinality(B) = Cardinality(A) + (IF x >= v THEN 1 ELSE 0)
  <2>1. Cardinality(A \cup {n + 1}) = Cardinality(A) + 1
    BY <1>2, <1>3, FS_AddElement
  <2> QED BY <1>2, <1>4, <2>1
<1> QED BY <1>2, <1>5 DEF Above, A, B, u

\* addScore keeps the order, and of the scores that reach v it has one more, if the
\* new one does and there is room for it.
LEMMA AddScoreIs ==
  ASSUME NEW n \in Nat, NEW t \in [1..n -> Nat], Sorted(t, n), NEW score \in Nat
  PROVE  /\ AddScore(t, score) \in [1..n -> Nat] /\ Sorted(AddScore(t, score), n)
         /\ \A v \in Nat : Above(AddScore(t, score), v) =
              IF score >= v /\ Above(t, v) < n THEN Above(t, v) + 1 ELSE Above(t, v)
<1> DEFINE places == {k \in DOMAIN t : score > t[k]}
           u == AddScore(t, score)
<1>1. CASE places = {}
  <2>1. u = t
    BY <1>1 DEF AddScore
  <2>2. ASSUME NEW v \in Nat, score >= v PROVE Above(t, v) = n
    <3>1. \A k \in 1..n : t[k] >= v <=> k <= n
      BY <1>1, <2>2
    <3> QED BY <3>1, AboveGiven
  <2> QED BY <2>1, <2>2
<1>2. CASE places # {}
  <2> DEFINE p == CHOOSE k \in places : \A l \in places : k <= l
  <2>1. p \in places /\ \A l \in places : p <= l
    <3>1. places \in SUBSET Nat
      OBVIOUS
    <3>2. \E k \in places : \A l \in places : k <= l
      BY <1>2, <3>1, Least
    <3> QED BY <3>2
  <2>2. u = [k \in DOMAIN t |-> IF k < p THEN t[k] ELSE IF k = p THEN score ELSE t[k - 1]]
    BY <1>2 DEF AddScore
  <2> HIDE DEF p, u
  <2>3. p \in 1..n /\ t[p] < score /\ \A k \in 1..n : k < p => t[k] >= score
    BY <2>1
  <2>4. u \in [1..n -> Nat]
    BY <2>2, <2>3
  <2>5. \A k \in 1..n : /\ k < p => u[k] = t[k]
                        /\ k = p => u[k] = score
                        /\ k > p => u[k] = t[k - 1] /\ k - 1 \in 1..n
    BY <2>2, <2>3
  <2>6. Sorted(u, n)
    BY <2>3, <2>4, <2>5 DEF Sorted
  <2>7. ASSUME NEW v \in Nat
        PROVE  Above(u, v) = IF score >= v /\ Above(t, v) < n THEN Above(t, v) + 1 ELSE Above(t, v)
    <3> DEFINE m == Above(t, v)
               q == IF score >= v /\ m < n THEN m + 1 ELSE m
    <3>1. m \in 0..n /\ \A k \in 1..n : t[k] >= v <=> k <= m
      BY AboveFirst
    <3> HIDE DEF m
    <3>2. q \in 0..n
      BY <3>1
    <3>3. ASSUME NEW k \in 1..n PROVE u[k] >= v <=> k <= q
      <4>1. CASE k < p
        BY <2>3, <2>5, <3>1, <4>1
      <4>2. CASE k = p
        <5>1. score >= v => p <= m + 1
          <6>1. p - 1 \in 1..n => t[p - 1] >= score
            BY <2>3
          <6> QED BY <2>3, <3>1, <6>1
        <5>2. ~(score >= v) => ~(t[p] >= v)
          BY <2>3
        <5> QED BY <2>3, <2>5, <3>1, <4>2, <5>1, <5>2
      <4>3. CASE k > p
        <5>1. ~(score >= v) => ~(t[p] >= v)
          BY <2>3
        <5> QED BY <2>3, <2>5, <3>1, <4>3, <5>1
      <4> QED BY <2>3, <4>1, <4>2, <4>3
    <3> HIDE DEF q
    <3>4. Above(u, v) = q
      BY <2>4, <3>2, <3>3, AboveGiven
    <3> QED BY <3>4 DEF q, m
  <2> QED BY <2>4, <2>6, <2>7 DEF u
<1> QED BY <1>1, <1>2

LEMMA InitTable == ASSUME GameAssumption, Init PROVE TableInv
<1> DEFINE n == Len(Podium)
<1>1. Podium \in Seq(Nat) /\ n \in Nat /\ Podium \in [1..n -> Nat] /\ Podium \o <<>> = Podium
        /\ DOMAIN Podium = 1..n
  BY DEF GameAssumption
<1>2. Sorted(Podium, n)
  BY <1>1 DEF Sorted, GameAssumption
<1> HIDE DEF n
<1>3. \A v \in Nat : Above(Podium, v) \in 0..n
  BY <1>1, <1>2, AboveFirst
<1>4. \A v \in Nat : Above(Podium, v) = Best(Above(Podium, v))
  BY <1>1, <1>3 DEF Best, n
<1>5. minutes \in Nat /\ finalTime \in Nat /\ letterCount \in 0..MAX_INPUT_CHARS
  BY DEF Init, GameAssumption
<1>6. topPlayers = Podium /\ entered = <<>>
  BY DEF Init
<1> QED BY <1>1, <1>2, <1>4, <1>5, <1>6 DEF TableInv, Sorted, n

\* Clicks, clocks and screens leave the table alone.
LEMMA TableKept ==
  ASSUME TableInv, UNCHANGED table, minutes' \in Nat, finalTime' \in Nat, letterCount' \in 0..MAX_INPUT_CHARS
  PROVE  TableInv'
BY DEF TableInv, table, Above

LEMMA NextTable == ASSUME GameAssumption, FieldInv, TableInv, [Next]_vars PROVE TableInv'
<1>1. minutes \in Nat /\ finalTime \in Nat /\ letterCount \in 0..MAX_INPUT_CHARS /\ minesToPlace \in Int
  BY CellsFinite DEF TableInv, FieldInv
<1>2. CASE Menu \/ HighScores
  BY <1>1, <1>2, TableKept DEF Menu, HighScores, table
<1>3. CASE Difficulty
  BY <1>1, <1>3, TableKept DEF Difficulty, InitGame
<1>4. CASE Play
  <2>1. UNCHANGED <<table, minutes, letterCount>> /\ finalTime' \in {minutes, finalTime}
    BY <1>4 DEF Play
  <2> QED BY <1>1, <2>1, TableKept
<1>5. CASE Restart
  BY <1>1, <1>5, TableKept DEF Restart, InitGame
<1>6. CASE Clock
  BY <1>1, <1>6, TableKept DEF Clock
<1>7. CASE UNCHANGED vars
  BY <1>1, <1>7, TableKept DEF vars
<1>8. CASE Input
  <2>1. UNCHANGED <<minutes, finalTime>>
    BY <1>8 DEF Input
  <2>2. letterCount' \in 0..MAX_INPUT_CHARS
    BY <1>1, <1>8 DEF Input, GameAssumption
  <2> DEFINE score == FinalScore(minesToPlace, finalTime)
             n == Len(Podium)
             all == Podium \o entered
  <2>3. CASE UNCHANGED table
    BY <1>1, <2>1, <2>2, <2>3, TableKept
  <2>4. CASE topPlayers' = AddScore(topPlayers, score) /\ entered' = Append(entered, score)
    <3>1. score \in Nat /\ n \in Nat /\ Podium \in Seq(Nat) /\ entered \in Seq(Nat) /\ all \in Seq(Nat)
      BY <1>1 DEF FinalScore, GameAssumption, TableInv
    <3>2. topPlayers \in [1..n -> Nat] /\ Sorted(topPlayers, n)
          /\ \A v \in Nat : Above(topPlayers, v) = Best(Above(all, v))
      BY DEF TableInv, Sorted
    <3>3. Podium \o Append(entered, score) = Append(all, score)
      BY <3>1
    <3> HIDE DEF score, all
    <3>4. /\ topPlayers' \in [1..n -> Nat] /\ Sorted(topPlayers', n)
          /\ \A v \in Nat : Above(topPlayers', v) =
               IF score >= v /\ Above(topPlayers, v) < n THEN Above(topPlayers, v) + 1
                 ELSE Above(topPlayers, v)
      BY <2>4, <3>1, <3>2, AddScoreIs
    <3>5. ASSUME NEW v \in Nat PROVE Above(topPlayers', v) = Best(Above(Podium \o entered', v))
      <4>1. Above(all, v) \in Nat /\ Above(Append(all, score), v)
              = Above(all, v) + (IF score >= v THEN 1 ELSE 0)
        BY <3>1, AboveAppend
      <4>2. Podium \o entered' = Append(all, score)
        BY <2>4, <3>3
      <4> QED BY <3>1, <3>2, <3>4, <4>1, <4>2 DEF Best
    <3>6. entered' \in Seq(Nat)
      BY <2>4, <3>1
    <3>7. \A v \in Nat : (Above(topPlayers, v) = Best(Above(Podium \o entered, v)))'
      BY <3>5
    <3> QED BY <1>1, <2>1, <2>2, <3>4, <3>6, <3>7 DEF TableInv, Sorted
  <2> QED BY <1>8, <2>3, <2>4 DEF Input, table
<1> QED BY <1>2, <1>3, <1>4, <1>5, <1>6, <1>7, <1>8 DEF Next

\* The strengthening is an invariant: an open cell is free, all around an open
\* zero is open, and the table has its scores in order (src/17-minesweeper/main.c).
THEOREM GameTypeCorrect == ASSUME GameAssumption PROVE Spec => [](FieldInv /\ TableInv)
<1>1. Init => FieldInv /\ TableInv
  BY InitField, InitTable
<1>2. FieldInv /\ TableInv /\ [Next]_vars => (FieldInv /\ TableInv)'
  BY NextField, NextTable
<1> QED BY <1>1, <1>2, PTL DEF Spec

\* No game opens a mine or stops short of a zero's neighbours, it is won exactly
\* when all cells without a mine are open, and the table keeps the best scores
\* ever entered, for every size of the field and the table and any number of
\* games (src/17-minesweeper/main.c:49-160).
THEOREM GameFairCorrect ==
  ASSUME GameAssumption
  PROVE  Spec => [](TypeOK /\ MinesHidden /\ RevealClosed /\ WonWhenOpen /\ TopScores)
<1>1. FieldInv /\ TableInv => TypeOK /\ MinesHidden /\ RevealClosed /\ WonWhenOpen
  BY DEF FieldInv, TableInv, Playable, Games, TypeOK, MinesHidden, RevealClosed, WonWhenOpen
<1>2. TableInv => TopScores
  <2> SUFFICES ASSUME TableInv PROVE TopScores
    OBVIOUS
  <2> DEFINE all == Podium \o entered
  <2>1. topPlayers \in [1..Len(Podium) -> Nat] /\ DOMAIN topPlayers = 1..Len(Podium) /\ all \in Seq(Nat)
    BY DEF TableInv, GameAssumption
  <2> HIDE DEF all
  <2>2. Range(topPlayers) \subseteq Nat /\ Range(all) \subseteq Nat
    BY <2>1 DEF Range
  <2> QED BY <2>1, <2>2 DEF TopScores, TableInv, Best, all
<1> QED BY <1>1, <1>2, GameTypeCorrect, PTL
=============================================================================
