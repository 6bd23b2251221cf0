---------------------------- MODULE Shell_proofs ----------------------------
(* Proofs about the command line: about Shell and its screen, for lines,     *)
(* words and screens of any size, and about WorkDir, for any tree and paths  *)
(* of any length.                                                            *)
EXTENDS Shell, WorkDir, SequenceTheorems, FiniteSetTheorems, WellFoundedInduction, TLAPS

-----------------------------------------------------------------------------
(* Recursion over places                                                     *)

LEMMA LeastElement ==
    ASSUME NEW S, S \subseteq Nat, S # {}
    PROVE  \E x \in S : \A y \in S : x =< y
<1>1. PICK x \in S : \A y \in S : ~ (<<y, x>> \in OpToRel(<, Nat))
  BY NatLessThanWellFounded, WFMin, Zenon
<1>2. \A y \in S : y \in Nat /\ ~ (y < x)
  BY <1>1 DEF OpToRel
<1>3. QED BY <1>2

\* What holds at the first place and goes on from each to the next
LEMMA AllPlaces ==
    ASSUME NEW n \in Nat, NEW P, 0 \in P, \A k \in 1 .. n : k - 1 \in P => k \in P
    PROVE  \A k \in 0 .. n : k \in P
<1> DEFINE Bad == {k \in 0 .. n : k \notin P}
<1>1. SUFFICES ASSUME Bad # {} PROVE FALSE
  OBVIOUS
<1>2. PICK k \in Bad : \A j \in Bad : k =< j
  <2>1. Bad \subseteq Nat
    OBVIOUS
  <2> HIDE DEF Bad
  <2>2. QED BY <1>1, <2>1, LeastElement
<1>3. k \in 1 .. n /\ k - 1 \in 0 .. n /\ ~ (k =< k - 1)
  BY <1>2
<1>4. k - 1 \in P
  BY <1>2, <1>3
<1>5. QED BY <1>2, <1>3, <1>4

\* A recursion over the first n places has a solution.
Recurs(g, n, b, F) == g[0] = b /\ \A k \in 1 .. n : g[k] = F[<<k, g[k - 1]>>]

LEMMA RecursionExists ==
    ASSUME NEW n \in Nat, NEW X, NEW b \in X, NEW F \in [(1 .. n) \X X -> X]
    PROVE  \E g \in [0 .. n -> X] : Recurs(g, n, b, F)
<1> DEFINE P == {m \in 0 .. n : \E g \in [0 .. m -> X] : Recurs(g, m, b, F)}
<1>1. 0 \in P
  <2>1. [k \in 0 .. 0 |-> b] \in [0 .. 0 -> X] /\ Recurs([k \in 0 .. 0 |-> b], 0, b, F)
    BY DEF Recurs
  <2>2. 0 \in 0 .. n
    OBVIOUS
  <2>3. QED BY <2>1, <2>2
<1>2. ASSUME NEW m \in 1 .. n, m - 1 \in P
      PROVE  m \in P
  <2>1. PICK g \in [0 .. m - 1 -> X] : Recurs(g, m - 1, b, F)
    BY <1>2
  <2> DEFINE h == [k \in 0 .. m |-> IF k = m THEN F[<<m, g[m - 1]>>] ELSE g[k]]
  <2>2. g[m - 1] \in X /\ F[<<m, g[m - 1]>>] \in X
    <3>1. m - 1 \in 0 .. m - 1
      OBVIOUS
    <3>2. g[m - 1] \in X
      BY <3>1
    <3>3. <<m, g[m - 1]>> \in (1 .. n) \X X
      BY <3>2
    <3>4. QED BY <3>2, <3>3
  <2>3. h \in [0 .. m -> X]
    BY <2>2
  <2>4. h[0] = b
    BY <2>1 DEF Recurs
  <2>5. ASSUME NEW k \in 1 .. m PROVE h[k] = F[<<k, h[k - 1]>>]
    <3>1. k - 1 \in 0 .. m - 1 /\ h[k - 1] = g[k - 1]
      OBVIOUS
    <3>2. CASE k = m
      <4>1. h[k] = F[<<m, g[m - 1]>>]
        BY <3>2
      <4>2. QED BY <3>1, <3>2, <4>1
    <3>3. CASE k # m
      <4>1. k \in 1 .. m - 1 /\ h[k] = g[k]
        BY <3>3
      <4>2. g[k] = F[<<k, g[k - 1]>>]
        BY <2>1, <4>1 DEF Recurs
      <4>3. QED BY <3>1, <4>1, <4>2
    <3>4. QED BY <3>2, <3>3
  <2> HIDE DEF h
  <2>6. Recurs(h, m, b, F)
    BY <2>4, <2>5 DEF Recurs
  <2>7. QED BY <2>3, <2>6
<1>3. \A k \in 0 .. n : k \in P
  <2> HIDE DEF P
  <2>1. QED BY <1>1, <1>2, AllPlaces
<1>4. n \in P
  <2> HIDE DEF P
  <2>1. QED BY <1>3
<1>5. QED BY <1>4

-----------------------------------------------------------------------------
(* The screen                                                                *)

Char == STRING \cup Key \cup {Blank, Tab, NewLine, Backspace}
AScreen == [cells : [Cell -> Char], x : 0 .. Columns - 1, y : 0 .. Rows - 1]

LEMMA ScreenSize == Columns \in Nat /\ Rows \in Nat /\ Columns > 0 /\ Rows > 0
  BY ScreenAssumption

LEMMA CharFacts ==
    /\ Blank \in Char /\ Key \subseteq Char
    /\ \A t \in Output \cup {Prompt, Message, <<>>} : t \in Seq(Char)
    /\ \A c \in Key \cup {Blank} : c \notin {NewLine, Return, Tab, Backspace, Cut}
<1>2. ASSUME NEW t \in Output \cup {Prompt, Message, <<>>} PROVE t \in Seq(Char)
  <2>1. t \in Seq(STRING)
    <3>1. CASE t = <<>>
      BY <3>1
    <3>2. CASE t \in Output \cup {Prompt, Message}
      BY <3>2, ShellAssumption
    <3>3. QED BY <3>1, <3>2
  <2>2. STRING \subseteq Char
    BY DEF Char
  <2>3. QED BY <2>1, <2>2, SeqMonotonic
<1>3. QED BY <1>2, ShellAssumption DEF Char, Blank, Cut, NewLine, Return, Tab, Backspace

\* Between moving, wrapping and scrolling the cursor may be off the screen.
OffScreen == [cells : [Cell -> Char], x : Nat, y : 0 .. Rows]

LEMMA DrawType ==
    ASSUME NEW s \in OffScreen, NEW x \in Nat, NEW c \in Char
    PROVE  Draw(s, x, c) \in OffScreen /\ Draw(s, x, c).x = s.x /\ Draw(s, x, c).y = s.y
  BY DEF Draw, OffScreen

LEMMA MoveType ==
    ASSUME NEW s \in AScreen, NEW c \in Char
    PROVE  Move(s, c) \in OffScreen /\ (Move(s, c).y = Rows => Move(s, c).x = 0)
<1>1. s \in OffScreen /\ s.x \in Nat /\ s.y + 1 =< Rows /\ s.y # Rows
  BY ScreenSize DEF AScreen, OffScreen
<1>2. CASE c = NewLine
  <2>1. PICK y \in 0 .. Rows : y = s.y + 1
    BY <1>1, ScreenSize DEF OffScreen
  <2>2. Move(s, c) = [s EXCEPT !.x = 0, !.y = y]
    BY <1>2, <2>1 DEF Move, NewLine, Return, Tab, Backspace
  <2>3. Move(s, c) = [cells |-> s.cells, x |-> 0, y |-> y] /\ s.cells \in [Cell -> Char]
    BY <1>1, <2>2 DEF OffScreen
  <2>4. QED BY <2>1, <2>3 DEF OffScreen
<1>3. CASE c = Return
  <2>1. Move(s, c) = [s EXCEPT !.x = 0]
    BY <1>3 DEF Move, NewLine, Return, Tab, Backspace
  <2>2. QED BY <1>1, <2>1 DEF OffScreen
<1>4. CASE c = Tab
  <2>1. PICK x \in Nat : x = ((s.x + TabSize) \div TabSize) * TabSize
    BY <1>1 DEF TabSize
  <2>2. Move(s, c) = [s EXCEPT !.x = x]
    BY <1>4, <2>1 DEF Move, NewLine, Return, Tab, Backspace
  <2>3. QED BY <1>1, <2>2 DEF OffScreen
<1>5. CASE c = Backspace
  <2>1. Move(s, c) = IF s.x = 0 THEN s ELSE [Draw(s, s.x - 1, Blank) EXCEPT !.x = @ - 1]
    BY <1>5 DEF Move, NewLine, Return, Tab, Backspace
  <2>2. CASE s.x = 0
    BY <1>1, <2>1, <2>2
  <2>3. CASE s.x # 0
    <3>1. PICK x \in Nat : x = s.x - 1
      BY <1>1, <2>3
    <3>2. PICK d \in OffScreen : d = Draw(s, x, Blank) /\ d.x = s.x /\ d.y = s.y
      BY <1>1, <3>1, DrawType, CharFacts
    <3>3. Move(s, c) = [d EXCEPT !.x = x]
      BY <2>1, <2>3, <3>1, <3>2
    <3>4. QED BY <1>1, <3>2, <3>3 DEF OffScreen
  <2>4. QED BY <2>2, <2>3
<1>6. CASE c \notin {NewLine, Return, Tab, Backspace}
  <2>1. Move(s, c) = [Draw(s, s.x, c) EXCEPT !.x = @ + 1]
    BY <1>6 DEF Move
  <2>2. PICK d \in OffScreen : d = Draw(s, s.x, c) /\ d.x = s.x /\ d.y = s.y
    BY <1>1, DrawType
  <2>3. Move(s, c) = [d EXCEPT !.x = s.x + 1]
    BY <2>1, <2>2
  <2>4. QED BY <1>1, <2>2, <2>3 DEF OffScreen
<1>7. QED BY <1>2, <1>3, <1>4, <1>5, <1>6

LEMMA WrapType ==
    ASSUME NEW s \in OffScreen, s.y = Rows => s.x = 0
    PROVE  Wrap(s) \in OffScreen /\ Wrap(s).x < Columns
<1>1. CASE s.x >= Columns
  <2>1. PICK y \in 0 .. Rows : y = s.y + 1
    BY <1>1, ScreenSize DEF OffScreen
  <2>2. Wrap(s) = [s EXCEPT !.x = 0, !.y = y]
    BY <1>1, <2>1 DEF Wrap
  <2>3. Wrap(s) = [cells |-> s.cells, x |-> 0, y |-> y] /\ s.cells \in [Cell -> Char]
    BY <2>2 DEF OffScreen
  <2>4. QED BY <2>1, <2>3, ScreenSize DEF OffScreen
<1>2. CASE ~(s.x >= Columns)
  BY <1>2, ScreenSize DEF Wrap, OffScreen
<1>3. QED BY <1>1, <1>2

LEMMA ScrollType ==
    ASSUME NEW s \in OffScreen, s.x < Columns
    PROVE  Scroll(s) \in AScreen
<1>1. CASE s.y < Rows
  BY <1>1, ScreenSize DEF Scroll, OffScreen, AScreen
<1>2. CASE ~(s.y < Rows)
  <2> DEFINE f == [c \in Cell |-> IF c[1] = Rows - 1 THEN Blank ELSE s.cells[<<c[1] + 1, c[2]>>]]
  <2>1. f \in [Cell -> Char]
    <3>1. ASSUME NEW c \in Cell, c[1] # Rows - 1 PROVE s.cells[<<c[1] + 1, c[2]>>] \in Char
      <4>1. <<c[1] + 1, c[2]>> \in Cell
        BY <3>1, ScreenSize DEF Cell
      <4>2. s.cells \in [Cell -> Char]
        BY DEF OffScreen
      <4>3. QED BY <4>1, <4>2
    <3>2. QED BY <3>1, CharFacts
  <2>2. Scroll(s) = [s EXCEPT !.y = Rows - 1, !.cells = f]
    BY <1>2 DEF Scroll
  <2> HIDE DEF f
  <2>3. PICK y \in 0 .. Rows - 1 : y = Rows - 1
    BY ScreenSize
  <2>4. s.x \in 0 .. Columns - 1
    BY ScreenSize DEF OffScreen
  <2>5. Scroll(s) = [s EXCEPT !.y = y, !.cells = f]
    BY <2>2, <2>3
  <2>6. Scroll(s) = [cells |-> f, x |-> s.x, y |-> y]
    BY <2>5 DEF OffScreen
  <2>7. QED BY <2>1, <2>3, <2>4, <2>6 DEF AScreen
<1>3. QED BY <1>1, <1>2

LEMMA PutType ==
    ASSUME NEW s \in AScreen, NEW c \in Char
    PROVE  Put(s, c) \in AScreen
<1>1. PICK m \in OffScreen : m = Move(s, c) /\ (m.y = Rows => m.x = 0)
  BY MoveType
<1>2. PICK w \in OffScreen : w = Wrap(m) /\ w.x < Columns
  BY <1>1, WrapType
<1>3. QED BY <1>1, <1>2, ScrollType DEF Put

LEMMA WriteType ==
    ASSUME NEW s \in AScreen, NEW t \in Seq(Char)
    PROVE  Write(s, t) \in AScreen
<1> DEFINE n == Len(t)
<1> DEFINE at[k \in 0 .. n] == IF k = 0 THEN s ELSE Put(at[k - 1], t[k])
<1> DEFINE F == [e \in (1 .. n) \X AScreen |-> Put(e[2], t[e[1]])]
<1>1. n \in Nat /\ \A k \in 1 .. n : t[k] \in Char
  OBVIOUS
<1>8. Write(s, t) = at[n]
  BY DEF Write
<1> HIDE DEF n
<1>2. F \in [(1 .. n) \X AScreen -> AScreen]
  BY <1>1, PutType
<1>3. \A k \in 1 .. n, x \in AScreen : F[<<k, x>>] = Put(x, t[k])
  OBVIOUS
<1> HIDE DEF F
<1>4. PICK g \in [0 .. n -> AScreen] : Recurs(g, n, s, F)
  BY <1>1, <1>2, RecursionExists
<1>5. g[0] = s /\ \A k \in 1 .. n : g[k] = Put(g[k - 1], t[k])
  <2>1. \A k \in 1 .. n : g[k - 1] \in AScreen
    BY <1>1
  <2>2. QED BY <1>3, <1>4, <2>1 DEF Recurs
<1>6. g = [k \in 0 .. n |-> IF k = 0 THEN s ELSE Put(g[k - 1], t[k])]
  <2>1. \A k \in 0 .. n : g[k] = IF k = 0 THEN s ELSE Put(g[k - 1], t[k])
    BY <1>1, <1>5
  <2>2. QED BY <2>1
<1>7. at = [k \in 0 .. n |-> IF k = 0 THEN s ELSE Put(at[k - 1], t[k])]
  BY <1>6, Zenon
<1> HIDE DEF at
<1>9. at[0] = s /\ \A k \in 1 .. n : at[k] = Put(at[k - 1], t[k])
  <2>1. \A k \in 0 .. n : at[k] = IF k = 0 THEN s ELSE Put(at[k - 1], t[k])
    BY <1>7, Zenon
  <2>2. QED BY <1>1, <2>1
<1> DEFINE P == {k \in 0 .. n : at[k] \in AScreen}
<1>10. 0 \in P
  BY <1>1, <1>9
<1>11. ASSUME NEW k \in 1 .. n, k - 1 \in P PROVE k \in P
  BY <1>1, <1>9, <1>11, PutType
<1>12. \A k \in 0 .. n : k \in P
  <2> HIDE DEF P
  <2>1. QED BY <1>1, <1>10, <1>11, AllPlaces
<1>13. QED BY <1>1, <1>8, <1>12

-----------------------------------------------------------------------------
(* The screen as a line of characters: the place q is in row q \div Columns  *)

CellAt(s, q) == s.cells[<<q \div Columns, q % Columns>>]
Full == Rows * Columns

LEMMA Rowwise ==
    ASSUME NEW y \in Nat, NEW x \in 0 .. Columns - 1
    PROVE  /\ y * Columns + x \in Nat
           /\ (y * Columns + x) \div Columns = y /\ (y * Columns + x) % Columns = x
           /\ (y + 1) * Columns = y * Columns + Columns
<1>1. Columns \in Nat /\ Columns > 0
  BY ScreenSize
<1>2. PICK p \in Nat : p = y * Columns + x
  BY <1>1
<1>3. p \div Columns \in Nat /\ p % Columns \in 0 .. Columns - 1
      /\ p = Columns * (p \div Columns) + (p % Columns)
  BY <1>1
<1>4. p \div Columns = y
  BY <1>1, <1>2, <1>3
<1>5. p % Columns = x
  BY <1>1, <1>2, <1>3, <1>4
<1>6. QED BY <1>1, <1>2, <1>4, <1>5

LEMMA RowsInOrder ==
    ASSUME NEW y \in Nat, NEW z \in Nat, y =< z
    PROVE  y * Columns =< z * Columns
  BY ScreenSize

\* A place on the screen is a row and a column.
LEMMA PlaceIsCell ==
    ASSUME NEW q \in Nat, q < Full
    PROVE  \E y \in 0 .. Rows - 1, x \in 0 .. Columns - 1 : q = y * Columns + x
<1>1. Columns \in Nat /\ Columns > 0 /\ Rows \in Nat
  BY ScreenSize
<1>2. q \div Columns \in Nat /\ q % Columns \in 0 .. Columns - 1
      /\ q = (q \div Columns) * Columns + (q % Columns)
  BY <1>1
<1>3. q \div Columns < Rows
  <2>1. SUFFICES ASSUME Rows =< q \div Columns PROVE FALSE
    BY <1>1, <1>2
  <2>2. Rows * Columns =< (q \div Columns) * Columns
    BY <1>1, <1>2, <2>1, RowsInOrder
  <2>3. PICK a \in Nat : a = (q \div Columns) * Columns
    BY <1>1, <1>2
  <2>4. PICK b \in Nat : b = Rows * Columns
    BY <1>1
  <2>5. QED BY <1>2, <2>2, <2>3, <2>4 DEF Full
<1>4. PICK y \in Nat, x \in Nat : y = q \div Columns /\ x = q % Columns
  BY <1>2
<1>5. y \in 0 .. Rows - 1 /\ x \in 0 .. Columns - 1 /\ q = y * Columns + x
  BY <1>1, <1>2, <1>3, <1>4
<1>6. QED BY <1>5

LEMMA FullIsLast ==
    /\ Full \in Nat /\ (Rows - 1) * Columns \in Nat
    /\ Full = (Rows - 1) * Columns + Columns
<1>1. Columns \in Nat /\ Rows \in Nat /\ Rows > 0 /\ Columns > 0
  BY ScreenSize
<1>2. Rows - 1 \in Nat /\ 0 \in 0 .. Columns - 1 /\ (Rows - 1) + 1 = Rows
  BY <1>1
<1>3. ((Rows - 1) + 1) * Columns = (Rows - 1) * Columns + Columns
  BY <1>2, Rowwise
<1>4. QED BY <1>1, <1>2, <1>3 DEF Full

LEMMA PlaceFacts ==
    ASSUME NEW s \in AScreen
    PROVE  /\ Place(s) \in Nat /\ Place(s) < Full
           /\ Place(s) \div Columns = s.y /\ Place(s) % Columns = s.x
           /\ s.x \in 0 .. Columns - 1 /\ s.y \in 0 .. Rows - 1
<1>1. s.x \in 0 .. Columns - 1 /\ s.y \in 0 .. Rows - 1 /\ s.y \in Nat
  BY ScreenSize DEF AScreen
<1>2. Place(s) \in Nat /\ Place(s) \div Columns = s.y /\ Place(s) % Columns = s.x
  BY <1>1, Rowwise DEF Place
<1>3. s.y * Columns =< (Rows - 1) * Columns
  BY <1>1, ScreenSize, RowsInOrder
<1>4. PICK a \in Nat, b \in Nat : a = s.y * Columns /\ b = (Rows - 1) * Columns
  BY <1>1, ScreenSize, FullIsLast
<1>5. Place(s) < Full
  BY <1>1, <1>3, <1>4, ScreenSize, FullIsLast DEF Place
<1>6. QED BY <1>1, <1>2, <1>5

LEMMA PlaceOfCell ==
    ASSUME NEW q \in Nat, q < Full
    PROVE  /\ <<q \div Columns, q % Columns>> \in Cell
           /\ q \div Columns \in 0 .. Rows - 1 /\ q % Columns \in 0 .. Columns - 1
           /\ q = (q \div Columns) * Columns + (q % Columns)
<1>1. PICK y \in 0 .. Rows - 1, x \in 0 .. Columns - 1 : q = y * Columns + x
  BY PlaceIsCell
<1>2. y \in Nat
  OBVIOUS
<1>3. q \div Columns = y /\ q % Columns = x
  BY <1>1, <1>2, Rowwise
<1>4. QED BY <1>1, <1>3 DEF Cell

\* A character drawn changes one place.
DrawnAt(f, g, y, x, c, q) ==
    g[<<q \div Columns, q % Columns>>] =
      IF q = y * Columns + x THEN c ELSE f[<<q \div Columns, q % Columns>>]

LEMMA DrawnCell ==
    ASSUME NEW f \in [Cell -> Char], NEW y \in 0 .. Rows - 1, NEW x \in 0 .. Columns - 1,
           NEW c, NEW g, g = [f EXCEPT ![<<y, x>>] = c], NEW q \in Nat, q < Full
    PROVE  DrawnAt(f, g, y, x, c, q)
<1>1. y \in Nat
  OBVIOUS
<1>2. CASE q = y * Columns + x
  <2>1. q \div Columns = y /\ q % Columns = x
    BY <1>1, <1>2, Rowwise
  <2>2. <<y, x>> \in Cell
    BY DEF Cell
  <2>3. QED BY <1>2, <2>1, <2>2 DEF DrawnAt
<1>3. CASE q # y * Columns + x
  <2>1. <<q \div Columns, q % Columns>> \in Cell /\ q = (q \div Columns) * Columns + (q % Columns)
    BY PlaceOfCell
  <2>2. <<q \div Columns, q % Columns>> # <<y, x>>
    BY <1>3, <2>1
  <2>3. QED BY <1>3, <2>1, <2>2 DEF DrawnAt
<1>4. QED BY <1>2, <1>3

\* What one character does to those before the cursor: all move by d places, that is
\* by a line if the screen scrolls, and c is the last of them.
Shifts(s, t, d, c) ==
    /\ d \in {0, Columns}
    /\ Place(t) + d = Place(s) + 1
    /\ d # 0 => Place(t) = (Rows - 1) * Columns
    /\ \A q \in Nat : q < Place(t) =>
         CellAt(t, q) = IF q + d = Place(s) THEN c ELSE CellAt(s, q + d)

LEMMA ScrollShifts ==
    ASSUME NEW s \in AScreen, NEW c \in Char, NEW w \in OffScreen,
           w.cells = [s.cells EXCEPT ![<<s.y, s.x>>] = c],
           w.x < Columns, Place(w) = Place(s) + 1
    PROVE  \E d : Shifts(s, Scroll(w), d, c)
<1>1. /\ s.cells \in [Cell -> Char] /\ s.x \in 0 .. Columns - 1 /\ s.y \in 0 .. Rows - 1
      /\ Place(s) \in Nat /\ Place(s) < Full /\ Place(s) = s.y * Columns + s.x
  BY PlaceFacts DEF AScreen, Place
<1>2. \A q \in Nat : q < Full => CellAt(w, q) = IF q = Place(s) THEN c ELSE CellAt(s, q)
  <2> SUFFICES ASSUME NEW q \in Nat, q < Full
               PROVE  CellAt(w, q) = IF q = Place(s) THEN c ELSE CellAt(s, q)
    OBVIOUS
  <2>1. DrawnAt(s.cells, w.cells, s.y, s.x, c, q)
    BY <1>1, DrawnCell
  <2>2. QED BY <1>1, <2>1 DEF CellAt, DrawnAt
<1>3. CASE w.y < Rows
  <2>1. Scroll(w) = w
    BY <1>3 DEF Scroll
  <2>2. w \in AScreen
    BY <2>1, ScrollType
  <2>3. Place(w) < Full
    BY <2>2, PlaceFacts
  <2>4. Shifts(s, w, 0, c)
    <3>1. ASSUME NEW q \in Nat, q < Place(w)
          PROVE  CellAt(w, q) = IF q + 0 = Place(s) THEN c ELSE CellAt(s, q + 0)
      <4>1. q < Full /\ q + 0 = q
        BY <1>1, <2>3, <3>1, FullIsLast
      <4>2. QED BY <1>2, <4>1
    <3>2. Place(w) + 0 = Place(s) + 1
      BY <1>1
    <3>3. QED BY <3>1, <3>2 DEF Shifts
  <2>5. QED BY <2>1, <2>4
<1>4. CASE ~(w.y < Rows)
  <2>1. w.y = Rows /\ w.x \in Nat
    BY <1>4, ScreenSize DEF OffScreen
  <2>2. Place(w) = Full + w.x
    BY <2>1 DEF Place, Full
  <2>3. Place(w) = Full /\ Place(s) + 1 = Full
    BY <1>1, <2>1, <2>2, FullIsLast
  <2> DEFINE t == Scroll(w)
  <2>4. t.cells = [k \in Cell |-> IF k[1] = Rows - 1 THEN Blank ELSE w.cells[<<k[1] + 1, k[2]>>]]
        /\ t.y = Rows - 1 /\ t.x = w.x
    BY <1>4 DEF Scroll, OffScreen
  <2> HIDE DEF t
  <2>5. t.x = 0
    BY <2>1, <2>2, <2>3, <2>4, FullIsLast
  <2>6. Place(t) = (Rows - 1) * Columns
    BY <2>4, <2>5, FullIsLast DEF Place
  <2>7. ASSUME NEW q \in Nat, q < Place(t)
        PROVE  CellAt(t, q) = CellAt(w, q + Columns) /\ q + Columns < Full
    <3>1. q < Full /\ q + Columns < Full /\ q + Columns \in Nat
      BY <2>6, <2>7, FullIsLast, ScreenSize
    <3>2. PICK y \in 0 .. Rows - 1, x \in 0 .. Columns - 1 : q = y * Columns + x
      BY <3>1, PlaceIsCell
    <3>3. y \in Nat /\ y + 1 \in Nat
      OBVIOUS
    <3>4. q \div Columns = y /\ q % Columns = x
      BY <3>2, <3>3, Rowwise
    <3>5. q + Columns = (y + 1) * Columns + x
      <4>1. (y + 1) * Columns = y * Columns + Columns
        BY <3>3, Rowwise
      <4>2. PICK a \in Nat : a = y * Columns
        BY <3>3, ScreenSize
      <4>3. QED BY <3>2, <4>1, <4>2, ScreenSize
    <3>6. (q + Columns) \div Columns = y + 1 /\ (q + Columns) % Columns = x
      BY <3>3, <3>5, Rowwise
    <3>7. y # Rows - 1
      <4>1. y + 1 \in 0 .. Rows - 1
        BY <3>1, <3>6, PlaceOfCell
      <4>2. QED BY <4>1, ScreenSize
    <3>8. <<y, x>> \in Cell
      BY DEF Cell
    <3>9. t.cells[<<y, x>>] = w.cells[<<y + 1, x>>]
      BY <2>4, <3>7, <3>8
    <3>10. QED BY <3>1, <3>4, <3>6, <3>9 DEF CellAt
  <2>8. Shifts(s, t, Columns, c)
    <3>1. ASSUME NEW q \in Nat, q < Place(t)
          PROVE  CellAt(t, q) = IF q + Columns = Place(s) THEN c ELSE CellAt(s, q + Columns)
      <4>1. q + Columns \in Nat
        BY ScreenSize
      <4>2. QED BY <1>2, <2>7, <3>1, <4>1
    <3>2. Place(t) + Columns = Place(s) + 1
      BY <2>3, <2>6, FullIsLast
    <3>3. QED BY <2>6, <3>1, <3>2 DEF Shifts
  <2>9. QED BY <2>8 DEF t
<1>5. QED BY <1>3, <1>4

LEMMA PlainShifts ==
    ASSUME NEW s \in AScreen, NEW c \in Char, c \notin {NewLine, Return, Tab, Backspace}
    PROVE  \E d : Shifts(s, Put(s, c), d, c)
<1> DEFINE f == [s.cells EXCEPT ![<<s.y, s.x>>] = c]
<1>1. /\ s.x \in 0 .. Columns - 1 /\ s.y \in 0 .. Rows - 1 /\ Place(s) = s.y * Columns + s.x
      /\ s = [cells |-> s.cells, x |-> s.x, y |-> s.y] /\ s.cells \in [Cell -> Char]
  BY DEF AScreen, Place
<1>2. f \in [Cell -> Char]
  BY <1>1
<1>3. PICK m : m = [cells |-> f, x |-> s.x + 1, y |-> s.y]
  OBVIOUS
<1>4. Move(s, c) = m
  <2>1. Move(s, c) = [Draw(s, s.x, c) EXCEPT !.x = @ + 1]
    BY DEF Move
  <2>2. Draw(s, s.x, c) = [cells |-> f, x |-> s.x, y |-> s.y]
    BY <1>1 DEF Draw
  <2> HIDE DEF f
  <2>3. QED BY <1>3, <2>1, <2>2
<1> HIDE DEF f
<1>5. PICK w \in OffScreen : w = Wrap(m) /\ w.cells = f /\ w.x < Columns /\ Place(w) = Place(s) + 1
  <2>1. CASE s.x + 1 < Columns
    <3>1. Wrap(m) = m
      BY <1>1, <1>3, <2>1, ScreenSize DEF Wrap
    <3>2. m \in OffScreen
      <4>1. s.x + 1 \in Nat /\ s.y \in 0 .. Rows
        BY <1>1, ScreenSize
      <4>2. QED BY <1>2, <1>3, <4>1 DEF OffScreen
    <3>3. Place(m) = Place(s) + 1
      <4>1. PICK a \in Nat : a = s.y * Columns
        BY <1>1, ScreenSize
      <4>2. QED BY <1>1, <1>3, <4>1, ScreenSize DEF Place
    <3>4. QED BY <1>3, <2>1, <3>1, <3>2, <3>3
  <2>2. CASE s.x + 1 = Columns
    <3>1. PICK y \in 0 .. Rows : y = s.y + 1
      BY <1>1, ScreenSize
    <3>2. Wrap(m) = [cells |-> f, x |-> 0, y |-> y]
      <4>1. m.x >= Columns /\ m.y + 1 = y
        BY <1>3, <2>2, <3>1, ScreenSize
      <4>2. Wrap(m) = [m EXCEPT !.x = 0, !.y = y]
        BY <4>1 DEF Wrap
      <4>3. QED BY <1>3, <4>2
    <3>3. Place([cells |-> f, x |-> 0, y |-> y]) = Place(s) + 1
      <4>1. s.y \in Nat /\ 0 \in 0 .. Columns - 1
        BY <1>1, ScreenSize
      <4>2. (s.y + 1) * Columns = s.y * Columns + Columns
        BY <4>1, Rowwise
      <4>3. PICK a \in Nat : a = s.y * Columns
        BY <1>1, ScreenSize
      <4>4. QED BY <1>1, <2>2, <3>1, <4>2, <4>3, ScreenSize DEF Place
    <3>4. [cells |-> f, x |-> 0, y |-> y] \in OffScreen
      BY <1>2 DEF OffScreen
    <3>5. QED BY <3>2, <3>3, <3>4, ScreenSize
  <2>3. QED BY <1>1, <2>1, <2>2, ScreenSize
<1>6. QED BY <1>4, <1>5, ScrollShifts DEF Put, f

-----------------------------------------------------------------------------
(* The echo of a line                                                        *)

Typed == Key \cup {Blank, Tab}
ShownIn(s, b, n) ==
    IF n <= Place(s) THEN CellAt(s, Place(s) - n) = b[Len(b) - n + 1]
    ELSE n > (Rows - 1) * Columns
Echoed(s, b) == \A n \in 1 .. Len(b) : ShownIn(s, b, n)

LEMMA EchoPlain ==
    ASSUME NEW s \in AScreen, NEW t \in AScreen, NEW b \in Seq(Typed), NEW c \in Typed, NEW d,
           Echoed(s, b), Shifts(s, t, d, c)
    PROVE  Echoed(t, Append(b, c))
<1> DEFINE e == Append(b, c)
<1>1. PICK l \in Nat : l = Len(b)
  OBVIOUS
<1>2. Len(e) = l + 1 /\ e[l + 1] = c /\ \A k \in 1 .. l : e[k] = b[k]
  BY <1>1, AppendProperties
<1> HIDE DEF e
<1>3. PICK p \in Nat, r \in Nat, m \in Nat : p = Place(s) /\ r = Place(t) /\ m = (Rows - 1) * Columns
  BY PlaceFacts, FullIsLast
<1>4. /\ d \in {0, Columns} /\ r + d = p + 1 /\ (d # 0 => r = m) /\ d \in Nat
      /\ \A q \in Nat : q < r => CellAt(t, q) = IF q + d = p THEN c ELSE CellAt(s, q + d)
  BY <1>3, ScreenSize DEF Shifts
<1>5. \A n \in 1 .. l : IF n <= p THEN CellAt(s, p - n) = b[l - n + 1] ELSE n > m
  BY <1>1, <1>3 DEF Echoed, ShownIn
<1> SUFFICES ASSUME NEW n \in 1 .. l + 1 PROVE ShownIn(t, e, n)
  BY <1>2 DEF Echoed, e
<1>6. CASE n <= r
  <2>1. PICK q \in Nat : q = r - n /\ q < r /\ q + d = p + 1 - n
    BY <1>4, <1>6
  <2>2. CASE n = 1
    <3>1. q + d = p
      BY <2>1, <2>2
    <3>2. CellAt(t, q) = c
      BY <1>4, <2>1, <3>1
    <3>3. e[(l + 1) - n + 1] = c
      BY <1>2, <2>2
    <3>4. QED BY <1>2, <1>3, <1>6, <2>1, <3>2, <3>3 DEF ShownIn
  <2>3. CASE n # 1
    <3>1. PICK k \in 1 .. l : k = n - 1
      BY <2>3
    <3>2. q + d # p /\ q + d = p - k /\ k <= p
      BY <1>4, <2>1, <3>1
    <3>3. CellAt(t, q) = CellAt(s, p - k)
      BY <1>4, <2>1, <3>2
    <3>4. CellAt(s, p - k) = b[l - k + 1]
      BY <1>5, <3>1, <3>2
    <3>5. l - k + 1 \in 1 .. l /\ l - k + 1 = (l + 1) - n + 1
      BY <3>1
    <3>6. e[(l + 1) - n + 1] = b[l - k + 1]
      BY <1>2, <3>5
    <3>7. QED BY <1>2, <1>3, <1>6, <2>1, <3>3, <3>4, <3>6 DEF ShownIn
  <2>4. QED BY <2>2, <2>3
<1>7. CASE ~(n <= r)
  <2>1. n > m
    <3>1. CASE d # 0
      BY <1>4, <1>7, <3>1
    <3>2. CASE d = 0
      <4>1. PICK k \in 1 .. l : k = n - 1 /\ ~(k <= p)
        BY <1>4, <1>7, <3>2
      <4>2. QED BY <1>5, <4>1
    <3>3. QED BY <3>1, <3>2
  <2>2. QED BY <1>3, <1>7, <2>1 DEF ShownIn
<1>8. QED BY <1>6, <1>7

\* Backspace clears the place before the cursor, as long as it is in the same row.
LEMMA BackspaceClears ==
    ASSUME NEW s \in AScreen, s.x # 0
    PROVE  /\ Place(s) - 1 \in Nat /\ Place(Put(s, Backspace)) = Place(s) - 1
           /\ \A q \in Nat : q < Place(s) - 1 => CellAt(Put(s, Backspace), q) = CellAt(s, q)
<1>1. /\ s.x \in 0 .. Columns - 1 /\ s.y \in 0 .. Rows - 1 /\ Place(s) = s.y * Columns + s.x
      /\ s = [cells |-> s.cells, x |-> s.x, y |-> s.y] /\ s.cells \in [Cell -> Char]
      /\ Place(s) \in Nat /\ Place(s) < Full
  BY PlaceFacts DEF AScreen, Place
<1>2. PICK x \in 0 .. Columns - 1 : x = s.x - 1 /\ x < Columns
  BY <1>1, ScreenSize
<1> DEFINE f == [s.cells EXCEPT ![<<s.y, x>>] = Blank]
<1>3. PICK t : t = [cells |-> f, x |-> x, y |-> s.y]
  OBVIOUS
<1>4. Put(s, Backspace) = t
  <2>1. Move(s, Backspace) = [Draw(s, s.x - 1, Blank) EXCEPT !.x = @ - 1]
    BY DEF Move, NewLine, Return, Tab, Backspace
  <2>2. Draw(s, s.x - 1, Blank) = [cells |-> f, x |-> s.x, y |-> s.y]
    BY <1>1, <1>2 DEF Draw
  <2> HIDE DEF f
  <2>3. Move(s, Backspace) = t
    BY <1>2, <1>3, <2>1, <2>2
  <2>4. Wrap(t) = t
    BY <1>2, <1>3, ScreenSize DEF Wrap
  <2>5. Scroll(t) = t
    BY <1>1, <1>3, ScreenSize DEF Scroll
  <2>6. QED BY <2>3, <2>4, <2>5 DEF Put
<1>5. PICK a \in Nat : a = s.y * Columns
  BY <1>1, ScreenSize
<1>6. Place(t) = Place(s) - 1 /\ Place(s) - 1 \in Nat /\ Place(s) - 1 = s.y * Columns + x
  BY <1>1, <1>2, <1>3, <1>5 DEF Place
<1>7. ASSUME NEW q \in Nat, q < Place(s) - 1
      PROVE  CellAt(t, q) = CellAt(s, q)
  <2>1. q < Full /\ q # s.y * Columns + x
    BY <1>1, <1>6, <1>7, FullIsLast
  <2>2. DrawnAt(s.cells, f, s.y, x, Blank, q)
    BY <1>1, <2>1, DrawnCell
  <2>3. t.cells = f
    BY <1>3
  <2> HIDE DEF f
  <2>4. QED BY <2>1, <2>2, <2>3 DEF DrawnAt, CellAt
<1>8. QED BY <1>4, <1>5, <1>6, <1>7

LEMMA EchoBackspace ==
    ASSUME NEW s \in AScreen, NEW b \in Seq(Typed), b # <<>>, Echoed(s, b), s.x # 0
    PROVE  Echoed(Put(s, Backspace), SubSeq(b, 1, Len(b) - 1))
<1> DEFINE e == SubSeq(b, 1, Len(b) - 1)
<1>1. PICK l \in Nat : l + 1 = Len(b)
  <2>1. Len(b) - 1 \in Nat /\ (Len(b) - 1) + 1 = Len(b)
    OBVIOUS
  <2>2. QED BY <2>1
<1>2. Len(e) = l /\ \A k \in 1 .. l : e[k] = b[k]
  <2>1. e = SubSeq(b, 1, l)
    BY <1>1
  <2> HIDE DEF e
  <2>2. QED BY <1>1, <2>1, SubSeqProperties
<1> HIDE DEF e
<1> DEFINE t == Put(s, Backspace)
<1>3. PICK p \in Nat, m \in Nat : p = Place(s) /\ m = (Rows - 1) * Columns
  BY PlaceFacts, FullIsLast
<1>4. p - 1 \in Nat /\ Place(t) = p - 1 /\ \A q \in Nat : q < p - 1 => CellAt(t, q) = CellAt(s, q)
  BY <1>3, BackspaceClears
<1> HIDE DEF t
<1>5. \A n \in 1 .. l + 1 : IF n <= p THEN CellAt(s, p - n) = b[(l + 1) - n + 1] ELSE n > m
  BY <1>1, <1>3 DEF Echoed, ShownIn
<1> SUFFICES ASSUME NEW n \in 1 .. l PROVE ShownIn(t, e, n)
  BY <1>2 DEF Echoed, e, t
<1>6. CASE n <= p - 1
  <2>1. PICK k \in 1 .. l + 1 : k = n + 1
    OBVIOUS
  <2>2. k <= p /\ (p - 1) - n = p - k /\ p - k \in Nat /\ p - k < p - 1
    BY <1>4, <1>6, <2>1
  <2>3. CellAt(t, p - k) = b[(l + 1) - k + 1]
    BY <1>4, <1>5, <2>1, <2>2
  <2>4. (l + 1) - k + 1 = l - n + 1 /\ l - n + 1 \in 1 .. l
    BY <2>1
  <2>5. e[l - n + 1] = b[(l + 1) - k + 1]
    BY <1>2, <2>4
  <2>6. CellAt(t, Place(t) - n) = e[Len(e) - n + 1]
    BY <1>2, <1>4, <2>2, <2>3, <2>5
  <2>7. QED BY <1>4, <1>6, <2>6 DEF ShownIn
<1>7. CASE ~(n <= p - 1)
  <2>1. n > m
    <3>1. CASE n > p
      BY <1>5, <3>1
    <3>2. CASE n = p
      <4>1. PICK k \in 1 .. l + 1 : k = n + 1
        OBVIOUS
      <4>2. k > m
        BY <1>5, <3>2, <4>1
      <4>3. p >= m
        BY <3>2, <4>1, <4>2
      <4>4. p # m
        <5>1. SUFFICES ASSUME p = m PROVE FALSE
          OBVIOUS
        <5>2. Rows - 1 \in Nat /\ 0 \in 0 .. Columns - 1
          BY ScreenSize
        <5>3. ((Rows - 1) * Columns + 0) % Columns = 0
          BY <5>2, Rowwise
        <5>4. Place(s) % Columns = 0
          BY <1>3, <5>1, <5>3
        <5>5. QED BY <5>4, PlaceFacts
      <4>5. QED BY <3>2, <4>3, <4>4
    <3>3. QED BY <1>4, <1>7, <3>1, <3>2
  <2>2. QED BY <1>3, <1>4, <1>7, <2>1 DEF ShownIn
<1>8. QED BY <1>6, <1>7

-----------------------------------------------------------------------------
(* The words of a line                                                       *)

Text == Seq(Typed \cup {Cut})

LEMMA TypedFacts ==
    /\ Typed \subseteq Typed \cup {Cut} /\ Cut \notin Typed /\ Cut # Blank /\ Blank \in Typed
    /\ Key \cup {Blank, Tab} = Typed
<1>1. Cut # Tab /\ Cut # Blank
  BY DEF Cut, Tab, Blank
<1>2. QED BY <1>1, CharFacts DEF Typed

\* The string at place i ends before place e.
Ends(t, i, e) ==
    /\ e \in i .. Len(t) + 1
    /\ \A k \in i .. e - 1 : t[k] \notin {Blank, Cut}
    /\ e =< Len(t) => t[e] \in {Blank, Cut}

\* A part of a sequence, with its length as a difference.
LEMMA Slice ==
    ASSUME NEW S, NEW s \in Seq(S), NEW b \in Nat \ {0}, NEW j \in Nat, b =< j, j =< Len(s)
    PROVE  /\ SubSeq(s, b, j) \in Seq(S) /\ Len(SubSeq(s, b, j)) = j - b + 1
           /\ \A k \in 1 .. j - b + 1 : SubSeq(s, b, j)[k] = s[b + k - 1]
<1>1. \A k \in b .. j : s[k] \in S
  <2>1. \A k \in b .. j : k \in 1 .. Len(s)
    OBVIOUS
  <2>2. QED BY <2>1, ElementOfSeq
<1>2. b \in Int /\ j \in Int
  OBVIOUS
<1> DEFINE p == SubSeq(s, b, j)
<1>3. /\ p \in Seq(S) /\ Len(p) = IF b =< j THEN j - b + 1 ELSE 0
      /\ \A k \in 1 .. j - b + 1 : p[k] = s[b + k - 1]
  BY <1>1, <1>2, SubSeqProperties
<1>4. QED BY <1>3

LEMMA EndsOnce ==
    ASSUME NEW t \in Text, NEW i \in 1 .. Len(t) + 1, NEW e, NEW f, Ends(t, i, e), Ends(t, i, f)
    PROVE  e = f
<1>1. PICK n \in Nat : n = Len(t)
  BY DEF Text
<1>2. e \in i .. n + 1 /\ f \in i .. n + 1
  BY <1>1 DEF Ends
<1>3. ~(e < f)
  BY <1>1, <1>2 DEF Ends
<1>4. ~(f < e)
  BY <1>1, <1>2 DEF Ends
<1>5. QED BY <1>1, <1>2, <1>3, <1>4

LEMMA LeastIs ==
    ASSUME NEW places, places \subseteq Nat, NEW m \in places, \A j \in places : m =< j
    PROVE  (CHOOSE k \in places : \A j \in places : k <= j) = m
<1> DEFINE P(k) == k \in places /\ \A j \in places : k <= j
<1>1. P(m)
  OBVIOUS
<1>2. P(CHOOSE k : P(k))
  BY <1>1, Zenon
<1>3. (CHOOSE k \in places : \A j \in places : k <= j) = CHOOSE k : P(k)
  OBVIOUS
<1>4. QED
  <2> DEFINE c == CHOOSE k : P(k)
  <2>1. P(c)
    BY <1>2
  <2>2. (CHOOSE k \in places : \A j \in places : k <= j) = c
    BY <1>3
  <2> HIDE DEF c
  <2>3. c \in Nat /\ m \in Nat /\ c <= m /\ m <= c
    BY <2>1
  <2>4. QED BY <2>2, <2>3

LEMMA EndExists ==
    ASSUME NEW t \in Text, NEW i \in 1 .. Len(t) + 1
    PROVE  \E e \in i .. Len(t) + 1 : Ends(t, i, e)
<1>1. PICK n \in Nat : n = Len(t)
  BY DEF Text
<1> DEFINE places == {k \in i .. n : t[k] \in {Blank, Cut}}
<1>2. CASE places = {}
  <2>1. Ends(t, i, n + 1)
    BY <1>1, <1>2 DEF Ends
  <2>2. QED BY <1>1, <2>1
<1>3. CASE places # {}
  <2>1. PICK m \in places : \A j \in places : m =< j
    <3>1. places \subseteq Nat
      BY <1>1
    <3> HIDE DEF places
    <3>2. QED BY <1>3, <3>1, LeastElement
  <2>2. m \in i .. n /\ t[m] \in {Blank, Cut}
    OBVIOUS
  <2>3. \A k \in i .. m - 1 : k \in i .. n /\ ~(m =< k)
    BY <1>1, <2>2
  <2>4. \A k \in i .. m - 1 : t[k] \notin {Blank, Cut}
    BY <2>1, <2>3
  <2>5. QED BY <1>1, <2>2, <2>4 DEF Ends
<1>4. QED BY <1>2, <1>3

\* WordEnd of the model is that place,
LEMMA WordEndIs ==
    ASSUME text \in Text, NEW i \in 1 .. Len(text) + 1, NEW e, Ends(text, i, e)
    PROVE  WordEnd(i) = e
<1>1. PICK n \in Nat : n = Len(text)
  BY DEF Text
<1> DEFINE places == {k \in i .. Len(text) : text[k] \in {Blank, Cut}}
<1>2. WordEnd(i) = IF places = {} THEN n + 1 ELSE CHOOSE k \in places : \A j \in places : k <= j
  BY <1>1 DEF WordEnd, Least, End
<1>3. CASE e = n + 1
  <2>1. places = {}
    BY <1>1, <1>3 DEF Ends
  <2>2. QED BY <1>2, <1>3, <2>1
<1>4. CASE e # n + 1
  <2>1. e \in places /\ places \subseteq Nat
    BY <1>1, <1>4 DEF Ends
  <2>2. \A j \in places : e =< j
    BY <1>1, <1>4 DEF Ends
  <2> HIDE DEF places
  <2>3. (CHOOSE k \in places : \A j \in places : k <= j) = e
    BY <2>1, <2>2, LeastIs
  <2>4. QED BY <1>2, <2>1, <2>3
<1>5. QED BY <1>3, <1>4

\* and WordFrom the next that is no blank, or the end.
Starts(t, i, b) ==
    /\ b \in i .. Len(t) + 1
    /\ \A k \in i .. b - 1 : t[k] = Blank
    /\ b =< Len(t) => t[b] # Blank

LEMMA WordFromStarts ==
    ASSUME text \in Text, NEW i \in 1 .. Len(text) + 1
    PROVE  Starts(text, i, WordFrom(i))
<1>1. PICK n \in Nat : n = Len(text)
  BY DEF Text
<1> DEFINE places == {k \in i .. Len(text) : text[k] # Blank}
<1>2. WordFrom(i) = IF places = {} THEN n + 1 ELSE CHOOSE k \in places : \A j \in places : k <= j
  BY <1>1 DEF WordFrom, Least, End
<1>3. CASE places = {}
  BY <1>1, <1>2, <1>3 DEF Starts
<1>4. CASE places # {}
  <2>1. places \subseteq Nat
    BY <1>1
  <2>2. PICK m \in places : \A j \in places : m =< j
    <3> HIDE DEF places
    <3>1. QED BY <1>4, <2>1, LeastElement
  <2>3. WordFrom(i) = m
    <3> HIDE DEF places
    <3>1. (CHOOSE k \in places : \A j \in places : k <= j) = m
      BY <2>1, <2>2, LeastIs
    <3>2. QED BY <1>2, <1>4, <3>1
  <2>4. m \in i .. n /\ text[m] # Blank
    BY <1>1
  <2>5. \A k \in i .. m - 1 : k \in i .. n /\ ~(m =< k)
    BY <1>1, <2>4
  <2>6. \A k \in i .. m - 1 : text[k] = Blank
    BY <1>1, <2>2, <2>5
  <2>7. QED BY <1>1, <2>3, <2>4, <2>6 DEF Starts
<1>5. QED BY <1>3, <1>4

\* A word begins after a blank or at the beginning,
LEMMA BeginsAre ==
    ASSUME NEW l \in Seq(Typed), NEW i \in 1 .. Len(l)
    PROVE  i \in Begins(l) <=> l[i] # Blank /\ (i > 1 => l[i - 1] = Blank)
<1>1. PICK n \in Nat : n = Len(l)
  OBVIOUS
<1>2. ASSUME i \in Begins(l) PROVE l[i] # Blank /\ (i > 1 => l[i - 1] = Blank)
  <2>1. PICK j \in i .. n : Word(l, i, j)
    BY <1>1, <1>2 DEF Begins
  <2>2. i \in i .. j
    BY <2>1
  <2>3. QED BY <2>1, <2>2 DEF Word
<1>3. ASSUME l[i] # Blank, i > 1 => l[i - 1] = Blank PROVE i \in Begins(l)
  <2>1. l \in Text
    BY TypedFacts, SeqMonotonic DEF Text
  <2>2. PICK e \in i .. n + 1 : Ends(l, i, e)
    BY <1>1, <2>1, EndExists
  <2>3. \A k \in 1 .. n : l[k] # Cut
    BY <1>1, TypedFacts
  <2>4. e # i
    BY <1>1, <1>3, <2>2, <2>3 DEF Ends
  <2>5. PICK j \in i .. n : j = e - 1
    BY <2>2, <2>4
  <2>6. e =< n => l[e] = Blank
    BY <1>1, <2>2, <2>3 DEF Ends
  <2>7. Word(l, i, j)
    BY <1>1, <1>3, <2>2, <2>5, <2>6 DEF Word, Ends
  <2>8. QED BY <1>1, <2>5, <2>7 DEF Begins
<1>4. QED BY <1>2, <1>3

\* and has one end.
LEMMA WordOnce ==
    ASSUME NEW l, NEW n \in Nat, n = Len(l), NEW i \in 1 .. n, NEW j \in i .. n, NEW k \in i .. n, Word(l, i, j), Word(l, i, k)
    PROVE  j = k
<1>1. ~(j < k)
  BY DEF Word
<1>2. ~(k < j)
  BY DEF Word
<1>3. QED BY <1>1, <1>2

LEMMA BeginsFinite ==
    ASSUME NEW l \in Seq(Typed)
    PROVE  /\ Begins(l) \subseteq 1 .. Len(l) /\ IsFiniteSet(Begins(l)) /\ Cardinality(Begins(l)) \in Nat
           /\ Begins(l) \subseteq Nat
<1>1. Begins(l) \subseteq 1 .. Len(l)
  BY DEF Begins
<1>2. IsFiniteSet(1 .. Len(l))
  BY FS_Interval
<1>3. QED BY <1>1, <1>2, FS_Subset, FS_CardinalityType

\* The n-th begin is the one with n begins up to it.
UpTo(l, i) == {k \in Begins(l) : k <= i}

LEMMA UpToFinite ==
    ASSUME NEW l \in Seq(Typed), NEW i
    PROVE  IsFiniteSet(UpTo(l, i)) /\ Cardinality(UpTo(l, i)) \in Nat /\ Cardinality(UpTo(l, i)) =< Cardinality(Begins(l))
<1>1. UpTo(l, i) \in SUBSET Begins(l)
  BY DEF UpTo
<1>2. QED BY <1>1, BeginsFinite, FS_Subset, FS_CardinalityType

LEMMA UpToGrows ==
    ASSUME NEW l \in Seq(Typed), NEW i \in Begins(l), NEW j \in Begins(l), i < j
    PROVE  Cardinality(UpTo(l, i)) # Cardinality(UpTo(l, j))
<1>1. i \in Nat /\ j \in Nat /\ Begins(l) \subseteq Nat
  BY BeginsFinite
<1>2. UpTo(l, i) \in SUBSET UpTo(l, j)
  BY <1>1 DEF UpTo
<1>3. j \in UpTo(l, j) /\ j \notin UpTo(l, i)
  BY <1>1 DEF UpTo
<1>4. QED BY <1>2, <1>3, UpToFinite, FS_Subset

LEMMA NthIs ==
    ASSUME NEW l \in Seq(Typed), NEW i \in Begins(l)
    PROVE  Nth(Begins(l), Cardinality(UpTo(l, i))) = i
<1> DEFINE P(x) == x \in Begins(l) /\ Cardinality(UpTo(l, x)) = Cardinality(UpTo(l, i))
<1>1. Nth(Begins(l), Cardinality(UpTo(l, i))) = CHOOSE x : P(x)
  BY DEF Nth, UpTo
<1>2. P(i)
  OBVIOUS
<1>3. P(CHOOSE x : P(x))
  BY <1>2, Zenon
<1>4. PICK c : c = Nth(Begins(l), Cardinality(UpTo(l, i))) /\ P(c)
  BY <1>1, <1>3
<1>5. c \in Nat /\ i \in Nat
  BY <1>4, BeginsFinite
<1>6. ~(c < i) /\ ~(i < c)
  BY <1>4, UpToGrows
<1>7. QED BY <1>4, <1>5, <1>6

-----------------------------------------------------------------------------
(* What strtok has found                                                     *)

\* The string at b is the word of the line at b.
WordAt(t, l, b, e) ==
    /\ Ends(t, b, e) /\ e > b
    /\ Word(l, b, e - 1)
    /\ \A k \in b .. e - 1 : t[k] = l[k]

\* The words v, up to the place s where strtok goes on; 0 if it does not.
Found(t, l, v, s) ==
    /\ t \in Text /\ Len(t) = Len(l)
    /\ v \in Seq(1 .. Len(l)) /\ Len(v) =< MaxArgs
    /\ \A n \in 1 .. Len(v) :
         /\ v[n] \in Begins(l) /\ Cardinality(UpTo(l, v[n])) = n
         /\ \E e \in 1 .. Len(l) + 1 : WordAt(t, l, v[n], e) /\ (s # 0 => e < s)

Behind(l, s) == {k \in Begins(l) : s = 0 \/ k < s}

\* From there on nothing is cut, and all words before are found.
Ahead(t, l, v, s) ==
    /\ s \in 0 .. Len(l) + 1
    /\ s # 0 => \A k \in s .. Len(l) : t[k] = l[k]
    /\ s > 1 => l[s - 1] = Blank
    /\ Cardinality(Behind(l, s)) = Len(v)

LEMMA NothingFound ==
    ASSUME NEW l \in Seq(Typed), l # <<>>
    PROVE  Found(l, l, <<>>, 1) /\ Ahead(l, l, <<>>, 1)
<1>1. l \in Text
  BY TypedFacts, SeqMonotonic DEF Text
<1>2. <<>> \in Seq(1 .. Len(l)) /\ Len(<<>>) = 0
  OBVIOUS
<1>3. MaxArgs \in Nat
  BY ShellAssumption
<1>4. Behind(l, 1) = {}
  BY BeginsFinite DEF Behind
<1>5. QED BY <1>1, <1>2, <1>3, <1>4, FS_EmptySet DEF Found, Ahead

\* All are found when strtok finds no more.
LEMMA AllFound ==
    ASSUME NEW l \in Seq(Typed), NEW t, NEW v, NEW s, Found(t, l, v, s), Ahead(t, l, v, s),
           s = 0 \/ Starts(t, s, Len(l) + 1)
    PROVE  Found(t, l, v, 0) /\ Len(v) = Cardinality(Begins(l)) /\ Cardinality(Behind(l, 0)) = Len(v)
<1>1. PICK n \in Nat : n = Len(l)
  OBVIOUS
<1>2. s \in 0 .. n + 1
  BY <1>1 DEF Ahead
<1>3. Behind(l, s) = Begins(l)
  <2>1. CASE s = 0
    BY <2>1 DEF Behind
  <2>2. CASE s # 0
    <3>1. \A k \in s .. n : l[k] = Blank
      BY <1>1, <2>2 DEF Ahead, Starts
    <3>2. ASSUME NEW k \in Begins(l) PROVE k < s
      <4>1. k \in 1 .. n /\ l[k] # Blank
        BY <1>1, BeginsFinite, BeginsAre
      <4>2. QED BY <1>2, <3>1, <4>1
    <3>3. QED BY <3>2 DEF Behind
  <2>3. QED BY <2>1, <2>2
<1>4. Behind(l, 0) = Begins(l)
  BY DEF Behind
<1>5. Found(t, l, v, 0)
  BY DEF Found
<1>6. QED BY <1>3, <1>4, <1>5 DEF Ahead

\* What strtok does to the text and to its position
CutAt(t, e) == IF e = Len(t) + 1 THEN t ELSE [t EXCEPT ![e] = Cut]
After(t, e) == IF e = Len(t) + 1 THEN 0 ELSE e + 1

LEMMA CutFacts ==
    ASSUME NEW t \in Text, NEW e \in 1 .. Len(t) + 1
    PROVE  /\ CutAt(t, e) \in Text /\ Len(CutAt(t, e)) = Len(t)
           /\ \A k \in 1 .. Len(t) : CutAt(t, e)[k] = IF k = e THEN Cut ELSE t[k]
<1>1. CASE e = Len(t) + 1
  <2>1. \A k \in 1 .. Len(t) : k # e
    BY <1>1 DEF Text
  <2>2. QED BY <1>1, <2>1 DEF CutAt
<1>2. CASE e # Len(t) + 1
  <2>1. e \in 1 .. Len(t) /\ Cut \in Typed \cup {Cut}
    BY <1>2 DEF Text
  <2>2. CutAt(t, e) = [t EXCEPT ![e] = Cut]
    BY <1>2 DEF CutAt
  <2>3. QED BY <2>1, <2>2, ExceptSeq DEF Text
<1>3. QED BY <1>1, <1>2

\* Cutting at e leaves the words alone that end before it.
LEMMA CutLeaves ==
    ASSUME NEW t \in Text, NEW l, NEW e \in 1 .. Len(t) + 1, NEW b \in Nat \ {0}, NEW f \in 1 .. Len(t), f < e,
           WordAt(t, l, b, f)
    PROVE  WordAt(CutAt(t, e), l, b, f)
<1>1. PICK n \in Nat : n = Len(t)
  BY DEF Text
<1>2. f \in b .. n + 1 /\ f \in 1 .. n
  BY <1>1 DEF WordAt, Ends
<1>3. \A k \in b .. f : k \in 1 .. n /\ k # e
  BY <1>1, <1>2
<1>4. Len(CutAt(t, e)) = n /\ \A k \in b .. f : CutAt(t, e)[k] = t[k]
  BY <1>1, <1>3, CutFacts
<1>5. Ends(CutAt(t, e), b, f)
  BY <1>1, <1>2, <1>4 DEF WordAt, Ends
<1>6. \A k \in b .. f - 1 : CutAt(t, e)[k] = l[k]
  <2>1. \A k \in b .. f - 1 : k \in b .. f
    BY <1>2
  <2>2. QED BY <1>4, <2>1 DEF WordAt
<1>7. QED BY <1>5, <1>6 DEF WordAt

LEMMA OneMore ==
    ASSUME NEW l \in Seq(Typed), NEW t, NEW v, NEW s, Found(t, l, v, s), Ahead(t, l, v, s), s # 0,
           NEW b \in 1 .. Len(l), Starts(t, s, b), NEW e, Ends(t, b, e)
    PROVE  /\ Found(CutAt(t, e), l, v, 0)
           /\ Len(v) < MaxArgs =>
                /\ Found(CutAt(t, e), l, Append(v, b), After(t, e))
                /\ Ahead(CutAt(t, e), l, Append(v, b), After(t, e))
<1>1. PICK n \in Nat : n = Len(l) /\ n = Len(t)
  BY DEF Found
<1>2. /\ t \in Text /\ s \in 1 .. n + 1 /\ b \in s .. n /\ e \in b .. n + 1
      /\ \A k \in s .. n : t[k] = l[k]
      /\ s > 1 => l[s - 1] = Blank
      /\ Cardinality(Behind(l, s)) = Len(v)
  <2>1. t \in Text /\ s \in 1 .. n + 1 /\ Cardinality(Behind(l, s)) = Len(v)
    BY <1>1 DEF Found, Ahead
  <2>2. b \in s .. n /\ e \in b .. n + 1
    BY <1>1, <2>1 DEF Starts, Ends
  <2>3. (\A k \in s .. n : t[k] = l[k]) /\ (s > 1 => l[s - 1] = Blank)
    BY <1>1 DEF Ahead
  <2>4. QED BY <2>1, <2>2, <2>3
<1>3. \A k \in 1 .. n : l[k] # Cut /\ l[k] \in Typed
  <2>1. \A k \in 1 .. n : l[k] \in Typed
    BY <1>1, ElementOfSeq
  <2>2. QED BY <2>1, TypedFacts
<1>4. (\A k \in s .. b - 1 : l[k] = Blank) /\ l[b] # Blank
  BY <1>1, <1>2 DEF Starts
<1>5. b \in Begins(l)
  <2>1. b > 1 => l[b - 1] = Blank
    <3>1. CASE b = s
      BY <1>2, <3>1
    <3>2. CASE b # s
      BY <1>2, <1>4, <3>2
    <3>3. QED BY <3>1, <3>2
  <2>2. QED BY <1>1, <1>2, <1>4, <2>1, BeginsAre
<1>6. /\ e # b /\ e \in b + 1 .. n + 1
      /\ \A k \in b .. e - 1 : k \in s .. n /\ t[k] = l[k] /\ l[k] # Blank
      /\ e =< n => l[e] = Blank
  <2>1. e # b
    BY <1>1, <1>2, <1>3, <1>4 DEF Ends
  <2>2. \A k \in b .. e - 1 : k \in s .. n /\ t[k] = l[k] /\ l[k] # Blank
    BY <1>1, <1>2 DEF Ends
  <2>3. e =< n => l[e] = Blank
    <3>1. SUFFICES ASSUME e =< n PROVE l[e] = Blank
      OBVIOUS
    <3>2. e \in s .. n /\ e \in 1 .. n
      BY <1>2, <3>1
    <3>3. t[e] \in {Blank, Cut}
      BY <1>1, <3>1 DEF Ends
    <3>4. QED BY <1>2, <1>3, <3>2, <3>3
  <2>4. QED BY <1>2, <2>1, <2>2, <2>3
<1>7. /\ CutAt(t, e) \in Text /\ Len(CutAt(t, e)) = n
      /\ \A k \in 1 .. n : CutAt(t, e)[k] = IF k = e THEN Cut ELSE t[k]
  BY <1>1, <1>2, CutFacts
<1>8. WordAt(CutAt(t, e), l, b, e)
  <2>1. \A k \in b .. e - 1 : CutAt(t, e)[k] = l[k] /\ l[k] \notin {Blank, Cut}
    <3> SUFFICES ASSUME NEW k \in b .. e - 1 PROVE CutAt(t, e)[k] = l[k] /\ l[k] \notin {Blank, Cut}
      OBVIOUS
    <3>1. k \in 1 .. n /\ k # e
      BY <1>2, <1>6
    <3>2. QED BY <1>3, <1>6, <1>7, <3>1
  <2>2. Ends(CutAt(t, e), b, e)
    <3>1. e \in b .. Len(CutAt(t, e)) + 1
      BY <1>2, <1>6, <1>7
    <3>2. \A k \in b .. e - 1 : CutAt(t, e)[k] \notin {Blank, Cut}
      BY <2>1
    <3>3. e =< Len(CutAt(t, e)) => CutAt(t, e)[e] \in {Blank, Cut}
      <4>1. e =< n => e \in 1 .. n
        BY <1>2, <1>6
      <4>2. QED BY <1>7, <4>1
    <3>4. QED BY <3>1, <3>2, <3>3 DEF Ends
  <2>3. Word(l, b, e - 1)
    <3>1. b > 1 => l[b - 1] = Blank
      BY <1>1, <1>5, BeginsAre
    <3>2. e - 1 < n => l[(e - 1) + 1] = Blank
      BY <1>6
    <3>3. QED BY <1>1, <1>6, <3>1, <3>2 DEF Word
  <2>4. QED BY <1>6, <2>1, <2>2, <2>3 DEF WordAt
<1>9. ASSUME NEW m \in 1 .. Len(v)
      PROVE  /\ v[m] \in Begins(l) /\ Cardinality(UpTo(l, v[m])) = m
             /\ \E f \in 1 .. n + 1 : WordAt(CutAt(t, e), l, v[m], f) /\ f < s
  <2>1. /\ v[m] \in Begins(l) /\ Cardinality(UpTo(l, v[m])) = m
        /\ \E f \in 1 .. n + 1 : WordAt(t, l, v[m], f) /\ f < s
    BY <1>1 DEF Found
  <2>2. PICK f \in 1 .. n + 1 : WordAt(t, l, v[m], f) /\ f < s
    BY <2>1
  <2>3. v[m] \in Nat \ {0} /\ f \in 1 .. Len(t) /\ f < e /\ e \in 1 .. Len(t) + 1
    <3>1. Begins(l) \subseteq 1 .. Len(l) /\ Len(l) = n /\ Len(t) = n
      BY <1>1, <1>2, BeginsFinite
    <3>2. v[m] \in 1 .. n
      BY <2>1, <3>1
    <3>3. f < e /\ e =< n + 1
      BY <1>2, <1>6, <2>2
    <3>4. QED BY <1>2, <1>6, <2>2, <3>1, <3>2, <3>3
  <2>4. WordAt(CutAt(t, e), l, v[m], f)
    <3>1. t \in Text
      BY <1>1 DEF Found
    <3>2. QED BY <2>2, <2>3, <3>1, CutLeaves, Zenon
  <2>5. QED BY <2>1, <2>2, <2>4
<1>10. Found(CutAt(t, e), l, v, 0)
  BY <1>1, <1>7, <1>9 DEF Found
<1>11. ASSUME Len(v) < MaxArgs
       PROVE  /\ Found(CutAt(t, e), l, Append(v, b), After(t, e))
              /\ Ahead(CutAt(t, e), l, Append(v, b), After(t, e))
  <2> DEFINE w == Append(v, b)
  <2>1. PICK m \in Nat : m = Len(v)
    BY DEF Found
  <2>2. w \in Seq(1 .. n) /\ Len(w) = m + 1 /\ w[m + 1] = b /\ \A k \in 1 .. m : w[k] = v[k]
    <3>1. v \in Seq(1 .. n) /\ b \in 1 .. n
      BY <1>1 DEF Found
    <3>2. QED BY <2>1, <3>1, AppendProperties
  <2> HIDE DEF w
  <2>3. PICK r \in 0 .. n + 1 : /\ r = After(t, e)
                                /\ r # 0 => e =< n /\ r = e + 1
                                /\ r = 0 => e = n + 1
    BY <1>1, <1>2 DEF After
  <2>4. UpTo(l, b) = Behind(l, s) \cup {b} /\ b \notin Behind(l, s)
    <3>1. ASSUME NEW k \in Begins(l), k <= b, ~(k < s) PROVE k = b
      <4>1. k \in 1 .. n /\ l[k] # Blank
        BY <1>1, <3>1, BeginsFinite, BeginsAre
      <4>2. k \in s .. b
        BY <1>2, <3>1, <4>1
      <4>3. QED BY <1>2, <1>4, <4>1, <4>2
    <3>2. \A k \in Begins(l) : k < s => k <= b
      BY <1>2, BeginsFinite
    <3>3. UpTo(l, b) = Behind(l, s) \cup {b}
      <4>1. b \in Begins(l) /\ b <= b /\ s # 0
        BY <1>2, <1>5
      <4>2. Behind(l, s) \cup {b} \subseteq UpTo(l, b)
        BY <3>2, <4>1 DEF UpTo, Behind
      <4>3. ASSUME NEW k \in UpTo(l, b) PROVE k \in Behind(l, s) \cup {b}
        BY <3>1, <4>3 DEF UpTo, Behind
      <4>4. QED BY <4>2, <4>3
    <3>4. b \notin Behind(l, s)
      BY <1>2 DEF Behind
    <3>5. QED BY <3>3, <3>4
  <2>5. Cardinality(Behind(l, s) \cup {b}) = m + 1
    <3>1. Behind(l, s) \in SUBSET Begins(l)
      BY DEF Behind
    <3>2. IsFiniteSet(Behind(l, s))
      BY <3>1, BeginsFinite, FS_Subset
    <3>3. QED BY <1>2, <2>1, <2>4, <3>2, FS_AddElement
  <2>6. Behind(l, r) = Behind(l, s) \cup {b}
    <3>1. ASSUME NEW k \in Begins(l), r = 0 \/ k < r PROVE k <= b
      <4>1. k \in 1 .. n /\ l[k] # Blank /\ (k > 1 => l[k - 1] = Blank)
        BY <1>1, <3>1, BeginsFinite, BeginsAre
      <4>2. k # e
        BY <1>6, <4>1
      <4>3. k < e
        BY <1>2, <2>3, <3>1, <4>1, <4>2
      <4>4. SUFFICES ASSUME ~(k <= b) PROVE FALSE
        OBVIOUS
      <4>5. k - 1 \in b .. e - 1 /\ k > 1
        BY <1>2, <4>1, <4>3, <4>4
      <4>6. QED BY <1>6, <4>1, <4>5
    <3>2. ASSUME NEW k \in Begins(l), k <= b PROVE r = 0 \/ k < r
      <4>1. k \in 1 .. n
        BY <1>1, <3>2, BeginsFinite
      <4>2. QED BY <1>2, <1>6, <2>3, <3>2, <4>1
    <3>3. Behind(l, r) = UpTo(l, b)
      BY <3>1, <3>2 DEF Behind, UpTo
    <3>4. QED BY <2>4, <3>3
  <2>7. Ahead(CutAt(t, e), l, w, r)
    <3>1. ASSUME r # 0, NEW k \in r .. n PROVE CutAt(t, e)[k] = l[k]
      <4>1. k \in 1 .. n /\ k # e /\ k \in s .. n
        BY <1>2, <2>3, <3>1
      <4>2. QED BY <1>2, <1>7, <4>1
    <3>2. r > 1 => l[r - 1] = Blank
      BY <1>2, <1>6, <2>3
    <3>3. QED BY <1>1, <2>2, <2>3, <2>5, <2>6, <3>1, <3>2 DEF Ahead
  <2>8. ASSUME NEW k \in 1 .. m + 1
        PROVE  /\ w[k] \in Begins(l) /\ Cardinality(UpTo(l, w[k])) = k
               /\ \E f \in 1 .. n + 1 : WordAt(CutAt(t, e), l, w[k], f) /\ (r # 0 => f < r)
    <3>1. CASE k = m + 1
      <4>1. w[k] = b /\ Cardinality(UpTo(l, b)) = k
        BY <2>2, <2>4, <2>5, <3>1
      <4>2. e \in 1 .. n + 1 /\ (r # 0 => e < r)
        BY <1>2, <2>3
      <4>3. QED BY <1>5, <1>8, <4>1, <4>2
    <3>2. CASE k # m + 1
      <4>1. k \in 1 .. m /\ w[k] = v[k]
        BY <2>2, <3>2
      <4>2. PICK f \in 1 .. n + 1 : WordAt(CutAt(t, e), l, v[k], f) /\ f < s
        BY <1>9, <2>1, <4>1
      <4>3. r # 0 => f < r
        BY <1>2, <2>3, <4>2
      <4>4. v[k] \in Begins(l) /\ Cardinality(UpTo(l, v[k])) = k
        BY <1>9, <2>1, <4>1
      <4>5. QED BY <4>1, <4>2, <4>3, <4>4
    <3>3. QED BY <3>1, <3>2
  <2>9. m + 1 =< MaxArgs
    BY <1>11, <2>1, ShellAssumption
  <2>10. Found(CutAt(t, e), l, w, r)
    BY <1>1, <1>7, <2>2, <2>8, <2>9 DEF Found
  <2>11. QED BY <2>3, <2>7, <2>10 DEF w
<1>12. QED BY <1>10, <1>11

-----------------------------------------------------------------------------
(* The time on the line                                                      *)

LEMMA NumberType ==
    ASSUME NEW word, NEW n \in Nat
    PROVE  Number(word, n) \in Nat
<1> DEFINE OneDigit(k, x) == IF word[k] \in DOMAIN Digit THEN x * 10 + Digit[word[k]] ELSE x
<1> DEFINE value[k \in 0 .. n] ==
      IF k = 0 THEN 0
      ELSE IF word[k] \in DOMAIN Digit THEN value[k - 1] * 10 + Digit[word[k]]
      ELSE value[k - 1]
<1> DEFINE F == [e \in (1 .. n) \X Nat |-> OneDigit(e[1], e[2])]
<1>1. Number(word, n) = value[n]
  BY DEF Number
<1>2. \A k \in 1 .. n, x \in Nat : OneDigit(k, x) \in Nat
  BY ShellAssumption
<1>3. value = [k \in 0 .. n |-> IF k = 0 THEN 0 ELSE OneDigit(k, value[k - 1])]
  <2>1. F \in [(1 .. n) \X Nat -> Nat] /\ \A k \in 1 .. n, x \in Nat : F[<<k, x>>] = OneDigit(k, x)
    <3> HIDE DEF OneDigit
    <3>1. QED BY <1>2
  <2> HIDE DEF F
  <2>2. PICK g \in [0 .. n -> Nat] : Recurs(g, n, 0, F)
    BY <2>1, RecursionExists
  <2>3. g[0] = 0 /\ \A k \in 1 .. n : g[k] = OneDigit(k, g[k - 1])
    <3>1. \A k \in 1 .. n : g[k - 1] \in Nat
      OBVIOUS
    <3> HIDE DEF OneDigit
    <3>2. QED BY <2>1, <2>2, <3>1 DEF Recurs
  <2>4. g = [k \in 0 .. n |-> IF k = 0 THEN 0 ELSE OneDigit(k, g[k - 1])]
    <3> HIDE DEF OneDigit
    <3>1. \A k \in 0 .. n : g[k] = IF k = 0 THEN 0 ELSE OneDigit(k, g[k - 1])
      BY <2>3
    <3>2. QED BY <3>1
  <2>5. QED BY <2>4, Zenon
<1> HIDE DEF value, OneDigit
<1>4. \A k \in 0 .. n : value[k] = IF k = 0 THEN 0 ELSE OneDigit(k, value[k - 1])
  BY <1>3, Zenon
<1> DEFINE P == {k \in 0 .. n : value[k] \in Nat}
<1>5. 0 \in P
  BY <1>4
<1>6. ASSUME NEW k \in 1 .. n, k - 1 \in P PROVE k \in P
  BY <1>2, <1>4, <1>6
<1>7. \A k \in 0 .. n : k \in P
  <2> HIDE DEF P
  <2>1. QED BY <1>5, <1>6, AllPlaces
<1>8. QED BY <1>1, <1>7

LEMMA ParseTimeType ==
    ASSUME NEW word \in Seq(Typed)
    PROVE  ParseTime(word) \in Nat
<1>1. CASE word = Now
  BY <1>1 DEF ParseTime
<1>2. CASE word # Now /\ (Len(word) < 2 \/ Last(word) \notin DOMAIN Unit)
  BY <1>2, ShellAssumption DEF ParseTime
<1>3. CASE word # Now /\ ~(Len(word) < 2) /\ Last(word) \in DOMAIN Unit
  <2>1. Len(word) - 1 \in Nat
    BY <1>3
  <2>2. PICK v \in Nat : v = Number(word, Len(word) - 1)
    BY <2>1, NumberType
  <2>3. PICK u \in Nat : u = Unit[Last(word)]
    BY <1>3, ShellAssumption
  <2>4. ParseTime(word) = (IF v = 0 THEN 1 ELSE v) * u
    BY <1>3, <2>2, <2>3 DEF ParseTime
  <2>5. QED BY <2>4
<1>4. QED BY <1>1, <1>2, <1>3

-----------------------------------------------------------------------------
(* The invariant                                                             *)

TypeInv ==
    /\ screen \in AScreen /\ buffer \in Seq(Typed)
    /\ pc \in {"line", "prompt", "split", "run", "stopped"} \cup Waiting
    /\ slipped \in BOOLEAN /\ save \in Nat

EchoInv == pc = "line" /\ ~slipped => Echoed(screen, buffer)

\* strtok keeps a place of this line whenever the loop goes on with it.
SplitInv == pc = "split" => buffer # <<>> /\ Found(text, buffer, argv, save) /\ Ahead(text, buffer, argv, save)

\* What a command finds in argv
Got(l, t, v) ==
    /\ Found(t, l, v, 0)
    /\ v # <<>>
    /\ Len(v) = Cardinality(Begins(l)) \/ Len(v) = MaxArgs

WordsInv == pc \in {"run"} \cup Waiting => Got(buffer, text, argv)

\* The target is so far from the tick the wait began with as the line says; the
\* counter does not run over while it is short of the target.
Timed(now, goal, from, since, asked) ==
    /\ now \in Nat /\ from \in Nat /\ since \in Nat /\ goal \in Nat
    /\ now < Turn /\ from < Turn
    /\ goal = (from + asked * Factor) % Turn
    /\ ((from <= now /\ since = now - from) \/ since >= Turn - from)

TimeInv == pc \in Waiting => Timed(ticks, target, begun, waited, Asked)

Inv == TypeInv /\ EchoInv /\ SplitInv /\ WordsInv /\ TimeInv

\* The words of the line, and their strings in the text
LEMMA WordsAre ==
    ASSUME buffer \in Seq(Typed), Got(buffer, text, argv), NEW n \in 1 .. Len(argv)
    PROVE  /\ n \in 1 .. Cardinality(Begins(buffer))
           /\ Arg(n) = Words(buffer)[n] /\ Arg(n) \in Seq(Typed)
<1>1. PICK m \in Nat : m = Len(buffer) /\ m = Len(text)
  BY DEF Got, Found
<1>2. PICK b : b = argv[n]
  OBVIOUS
<1>3. /\ text \in Text /\ b \in Begins(buffer) /\ Cardinality(UpTo(buffer, b)) = n
      /\ \E e \in 1 .. m + 1 : WordAt(text, buffer, b, e)
  BY <1>1, <1>2 DEF Got, Found
<1>4. PICK e \in 1 .. m + 1 : WordAt(text, buffer, b, e)
  BY <1>3
<1>5. b \in 1 .. m
  BY <1>1, <1>3, BeginsFinite
<1>6. PICK j \in b .. m : j = e - 1
  BY <1>4, <1>5 DEF WordAt
<1>7. WordEnd(b) = e
  <2>1. Ends(text, b, e) /\ b \in 1 .. Len(text) + 1
    BY <1>1, <1>4, <1>5 DEF WordAt
  <2>2. QED BY <1>3, <2>1, WordEndIs
<1>8. Word(buffer, b, j) /\ \A k \in b .. j : text[k] = buffer[k]
  BY <1>4, <1>6 DEF WordAt
<1>9. SubSeq(text, b, j) = SubSeq(buffer, b, j) /\ SubSeq(buffer, b, j) \in Seq(Typed)
  <2> DEFINE l == SubSeq(buffer, b, j)
             t == SubSeq(text, b, j)
  <2>2. l \in Seq(Typed) /\ Len(l) = j - b + 1 /\ \A k \in 1 .. j - b + 1 : l[k] = buffer[b + k - 1]
    <3>1. buffer \in Seq(Typed) /\ b \in Nat \ {0} /\ j \in Nat /\ b =< j /\ j =< Len(buffer)
      BY <1>1, <1>5, <1>6
    <3> HIDE DEF l, t
    <3>2. QED BY <3>1, Slice DEF l
  <2>3. t \in Seq(Typed \cup {Cut}) /\ Len(t) = j - b + 1 /\ \A k \in 1 .. j - b + 1 : t[k] = text[b + k - 1]
    <3>1. text \in Seq(Typed \cup {Cut}) /\ b \in Nat \ {0} /\ j \in Nat /\ b =< j /\ j =< Len(text)
      BY <1>1, <1>3, <1>5, <1>6 DEF Text
    <3> HIDE DEF l, t
    <3>2. QED BY <3>1, Slice DEF t
  <2>4. \A k \in 1 .. j - b + 1 : b + k - 1 \in b .. j
    BY <1>5, <1>6
  <2>5. \A k \in 1 .. j - b + 1 : t[k] = l[k]
    BY <1>8, <2>2, <2>3, <2>4
  <2>6. l \in Seq(Typed \cup {Cut})
    BY <2>2, TypedFacts, SeqMonotonic
  <2> HIDE DEF l, t
  <2>7. t = l
    BY <2>2, <2>3, <2>5, <2>6, SeqEqual
  <2>8. QED BY <2>2, <2>7 DEF l, t
<1>10. Arg(n) = SubSeq(buffer, b, j)
  BY <1>2, <1>6, <1>7, <1>9 DEF Arg
<1>11. n \in 1 .. Cardinality(Begins(buffer))
  <2>1. n \in Nat /\ n >= 1
    BY DEF Got, Found
  <2>2. QED BY <1>3, <2>1, BeginsFinite, UpToFinite
<1>12. Words(buffer)[n] = SubSeq(buffer, b, j)
  <2>1. Nth(Begins(buffer), n) = b
    BY <1>3, NthIs
  <2> DEFINE i == CHOOSE i \in b .. Len(buffer) : Word(buffer, b, i)
  <2>2. i \in b .. m /\ Word(buffer, b, i)
    BY <1>1, <1>8
  <2>3. Words(buffer)[n] = SubSeq(buffer, b, i)
    BY <1>11, <2>1 DEF Words
  <2> HIDE DEF i
  <2>4. i = j
    BY <1>1, <1>5, <1>8, <2>2, WordOnce
  <2>5. QED BY <2>3, <2>4
<1>13. QED BY <1>9, <1>10, <1>11, <1>12

LEMMA WordsLength ==
    ASSUME NEW l \in Seq(Typed)
    PROVE  Len(Words(l)) = Cardinality(Begins(l))
BY BeginsFinite DEF Words

LEMMA DelayIsAsked ==
    ASSUME buffer \in Seq(Typed), Got(buffer, text, argv)
    PROVE  Delay = Asked /\ Asked \in Nat
<1>1. PICK m \in Nat : m = Len(argv)
  BY DEF Got, Found
<1>2. m >= 1
  BY <1>1 DEF Got, Found
<1>3. PICK c \in Nat : c = Cardinality(Begins(buffer)) /\ c = Len(Words(buffer))
  BY BeginsFinite, WordsLength
<1>4. m = c \/ m = MaxArgs
  BY <1>1, <1>3 DEF Got
<1>5. CASE m = 1
  <2>1. c = 1
    BY <1>4, <1>5, ShellAssumption
  <2>2. QED BY <1>1, <1>3, <1>5, <2>1, ShellAssumption DEF Delay, Asked
<1>6. CASE m # 1
  <2>1. 2 \in 1 .. Len(argv) /\ ~(Len(argv) < 2)
    BY <1>1, <1>2, <1>6
  <2>2. 2 \in 1 .. c /\ Arg(2) = Words(buffer)[2] /\ Arg(2) \in Seq(Typed)
    BY <1>3, <2>1, WordsAre
  <2>3. Delay = ParseTime(Arg(2)) /\ Asked = ParseTime(Words(buffer)[2])
    BY <1>3, <2>1, <2>2 DEF Delay, Asked
  <2>4. QED BY <2>2, <2>3, ParseTimeType
<1>7. QED BY <1>5, <1>6

-----------------------------------------------------------------------------
(* Steps                                                                     *)

LEMMA SpecialChars == NewLine \in Char /\ Backspace \in Char /\ Typed \subseteq Char
  BY DEF Char, Typed

LEMMA WriteFacts ==
    /\ Clear \in AScreen
    /\ \A s \in AScreen, t \in Output \cup {Prompt, Message, <<>>} : Write(s, t) \in AScreen
<1>1. Clear \in AScreen
  BY ScreenSize, CharFacts DEF Clear, AScreen
<1>2. QED BY <1>1, CharFacts, WriteType

LEMMA InitInv == Init => Inv
<1> SUFFICES ASSUME Init PROVE Inv
  OBVIOUS
<1>1. TypeInv
  <2>1. <<>> \in Seq(Typed) /\ Write(Clear, Prompt) \in AScreen
    BY WriteFacts
  <2>2. QED BY <2>1 DEF Init, TypeInv
<1>2. EchoInv
  BY DEF Init, EchoInv, Echoed
<1>3. QED BY <1>1, <1>2 DEF Init, Inv, SplitInv, WordsInv, TimeInv, Waiting

LEMMA TypeKeyInv ==
    ASSUME Inv, NEW c \in Key \cup {Blank, Tab}, TypeKey(c)
    PROVE  Inv'
<1>1. c \in Typed /\ c \in Char
  BY TypedFacts, SpecialChars
<1>2. screen' \in AScreen /\ buffer' \in Seq(Typed) /\ slipped' \in BOOLEAN
  BY <1>1, PutType DEF Inv, TypeInv, TypeKey
<1>3. TypeInv'
  BY <1>2 DEF Inv, TypeInv, TypeKey
<1>4. ASSUME ~slipped' PROVE Echoed(screen', buffer')
  <2>1. ~slipped /\ c # Tab /\ Echoed(screen, buffer)
    BY <1>4 DEF Inv, EchoInv, TypeKey
  <2>2. c \notin {NewLine, Return, Tab, Backspace}
    BY <2>1, CharFacts
  <2>3. PICK d : Shifts(screen, screen', d, c)
    BY <1>1, <2>2, PlainShifts DEF Inv, TypeInv, TypeKey
  <2>4. buffer' = Append(buffer, c) /\ screen \in AScreen /\ buffer \in Seq(Typed)
    BY DEF Inv, TypeInv, TypeKey
  <2>5. QED BY <1>1, <1>2, <2>1, <2>3, <2>4, EchoPlain
<1>5. EchoInv'
  BY <1>4 DEF EchoInv
<1>6. QED BY <1>3, <1>5 DEF Inv, SplitInv, WordsInv, TimeInv, TypeKey, Waiting

LEMMA TypeBackspaceInv ==
    ASSUME Inv, TypeBackspace
    PROVE  Inv'
<1>1. Backspace \in Char
  BY SpecialChars
<1>2. screen' \in AScreen /\ slipped' \in BOOLEAN
  BY <1>1, PutType DEF Inv, TypeInv, TypeBackspace
<1>3. buffer' \in Seq(Typed)
  <2>1. buffer \in Seq(Typed) /\ buffer # <<>> /\ buffer' = SubSeq(buffer, 1, Len(buffer) - 1)
    BY DEF Inv, TypeInv, TypeBackspace
  <2>2. 1 \in 1 .. Len(buffer) + 1 /\ Len(buffer) - 1 \in 1 - 1 .. Len(buffer)
    BY <2>1
  <2>3. QED BY <2>1, <2>2, SubSeqProperties
<1>4. TypeInv'
  BY <1>2, <1>3 DEF Inv, TypeInv, TypeBackspace
<1>5. EchoInv'
  <2>1. ASSUME ~slipped' PROVE ~slipped /\ screen.x # 0 /\ Echoed(screen, buffer)
    BY <2>1 DEF Inv, EchoInv, TypeBackspace
  <2>2. QED BY <2>1, EchoBackspace DEF Inv, TypeInv, EchoInv, TypeBackspace
<1>6. QED BY <1>4, <1>5 DEF Inv, SplitInv, WordsInv, TimeInv, TypeBackspace, Waiting

LEMMA TypeEnterInv ==
    ASSUME Inv, TypeEnter
    PROVE  Inv'
<1>1. screen' \in AScreen
  <2>1. NewLine \in Char
    BY SpecialChars
  <2>2. QED BY <2>1, PutType DEF Inv, TypeInv, TypeEnter
<1>2. TypeInv'
  BY <1>1 DEF Inv, TypeInv, TypeEnter
<1>3. SplitInv'
  <2>1. ASSUME buffer # <<>> PROVE Found(text', buffer', argv', save') /\ Ahead(text', buffer', argv', save')
    <3>1. text' = buffer /\ buffer' = buffer /\ argv' = <<>> /\ save' = 1
      BY <2>1 DEF TypeEnter
    <3>2. Found(buffer, buffer, <<>>, 1) /\ Ahead(buffer, buffer, <<>>, 1)
      BY <2>1, NothingFound DEF Inv, TypeInv
    <3>3. QED BY <3>1, <3>2
  <2>2. QED BY <2>1 DEF SplitInv, TypeEnter
<1>4. QED BY <1>2, <1>3 DEF Inv, EchoInv, WordsInv, TimeInv, TypeEnter, Waiting

LEMMA ShowPromptInv ==
    ASSUME Inv, ShowPrompt
    PROVE  Inv'
<1>1. TypeInv'
  <2>1. <<>> \in Seq(Typed) /\ Write(screen, Prompt) \in AScreen
    BY WriteFacts DEF Inv, TypeInv
  <2>2. QED BY <2>1 DEF Inv, TypeInv, ShowPrompt
<1>2. EchoInv'
  BY DEF ShowPrompt, EchoInv, Echoed
<1>3. QED BY <1>1, <1>2 DEF Inv, SplitInv, WordsInv, TimeInv, ShowPrompt, Waiting

LEMMA StrtokInv ==
    ASSUME Inv, Strtok
    PROVE  Inv'
<1> DEFINE start == IF save = 0 THEN End ELSE WordFrom(save)
<1> DEFINE end == WordEnd(start)
<1>1. /\ save' = IF start = End THEN 0 ELSE StrtokNext(end)
      /\ text' = IF end = End THEN text ELSE [text EXCEPT ![end] = Cut]
      /\ \/ start # End /\ Len(argv) < MaxArgs /\ argv' = Append(argv, start) /\ pc' = pc
         \/ /\ start = End \/ Len(argv) = MaxArgs
            /\ pc' = (IF argv = <<>> THEN "prompt" ELSE "run") /\ argv' = argv
  BY DEF Strtok
<1>2. /\ pc = "split" /\ buffer # <<>> /\ buffer \in Seq(Typed)
      /\ Found(text, buffer, argv, save) /\ Ahead(text, buffer, argv, save)
      /\ screen' = screen /\ buffer' = buffer /\ slipped' = slipped
  BY DEF Inv, TypeInv, SplitInv, Strtok
<1>3. PICK n \in Nat : n = Len(text) /\ n = Len(buffer) /\ End = n + 1 /\ text \in Text
  BY <1>2 DEF Found, End
<1>4. save \in 0 .. n + 1
  BY <1>2, <1>3 DEF Ahead
<1>5. save # 0 => Starts(text, save, start)
  BY <1>3, <1>4, WordFromStarts
<1>6. start \in 1 .. n + 1
  <2>1. CASE save = 0
    BY <1>3, <2>1
  <2>2. CASE save # 0
    <3> HIDE DEF start
    <3>1. QED BY <1>3, <1>4, <1>5, <2>2 DEF Starts
  <2>3. QED BY <2>1, <2>2
<1>7. save = 0 => start = End
  OBVIOUS
<1> HIDE DEF start
<1>8. PICK e \in start .. n + 1 : Ends(text, start, e) /\ end = e
  <2>1. PICK e \in start .. n + 1 : Ends(text, start, e)
    BY <1>3, <1>6, EndExists
  <2>2. WordEnd(start) = e
    BY <1>3, <1>6, <2>1, WordEndIs
  <2>3. QED BY <2>1, <2>2
<1> HIDE DEF end
<1>9. /\ text' = CutAt(text, e)
      /\ start # End => save' = After(text, e)
      /\ start = End => save' = 0 /\ text' = text
  <2>1. e \in 1 .. n + 1 /\ (start = End => e = End)
    BY <1>3, <1>6, <1>8
  <2>2. QED BY <1>1, <1>3, <1>8, <2>1 DEF CutAt, After, StrtokNext
<1>10. save' \in Nat
  BY <1>3, <1>6, <1>8, <1>9 DEF After
<1>11. CASE start = End
  <2>1. Found(text', buffer', argv, 0) /\ Len(argv) = Cardinality(Begins(buffer'))
    <3>1. save = 0 \/ Starts(text, save, Len(buffer) + 1)
      BY <1>3, <1>5, <1>11
    <3>2. Found(text, buffer, argv, 0) /\ Len(argv) = Cardinality(Begins(buffer))
      BY <1>2, <3>1, AllFound
    <3>3. QED BY <1>2, <1>9, <1>11, <3>2
  <2>2. argv' = argv /\ pc' = IF argv = <<>> THEN "prompt" ELSE "run"
    BY <1>1, <1>11
  <2>3. WordsInv' /\ SplitInv' /\ EchoInv' /\ TimeInv'
    BY <2>1, <2>2 DEF WordsInv, Got, SplitInv, EchoInv, TimeInv, Waiting
  <2>4. TypeInv'
    BY <1>2, <1>10, <2>2 DEF Inv, TypeInv
  <2>5. QED BY <2>3, <2>4 DEF Inv
<1>12. CASE start # End
  <2>1. save # 0 /\ start \in 1 .. n
    BY <1>3, <1>6, <1>7, <1>12
  <2>2. /\ Found(text', buffer, argv, 0)
        /\ Len(argv) < MaxArgs => /\ Found(text', buffer, Append(argv, start), save')
                                  /\ Ahead(text', buffer, Append(argv, start), save')
    <3>1. /\ Found(CutAt(text, e), buffer, argv, 0)
          /\ Len(argv) < MaxArgs => /\ Found(CutAt(text, e), buffer, Append(argv, start), After(text, e))
                                    /\ Ahead(CutAt(text, e), buffer, Append(argv, start), After(text, e))
      BY <1>2, <1>3, <1>5, <1>8, <2>1, OneMore
    <3>2. QED BY <1>9, <1>12, <3>1
  <2>3. CASE Len(argv) < MaxArgs /\ argv' = Append(argv, start) /\ pc' = pc
    <3>1. SplitInv'
      BY <1>2, <2>2, <2>3 DEF SplitInv
    <3>2. TypeInv'
      BY <1>2, <1>10, <2>3 DEF Inv, TypeInv
    <3>3. QED BY <1>2, <2>3, <3>1, <3>2 DEF Inv, WordsInv, EchoInv, TimeInv, Waiting
  <2>4. CASE Len(argv) = MaxArgs /\ pc' = (IF argv = <<>> THEN "prompt" ELSE "run") /\ argv' = argv
    <3>1. WordsInv'
      BY <1>2, <2>2, <2>4 DEF WordsInv, Got, Waiting
    <3>2. TypeInv'
      BY <1>2, <1>10, <2>4 DEF Inv, TypeInv
    <3>3. QED BY <2>4, <3>1, <3>2 DEF Inv, SplitInv, EchoInv, TimeInv, Waiting
  <2>5. QED BY <1>1, <1>12, <2>3, <2>4
<1>13. QED BY <1>11, <1>12

\* What a command writes leaves the words alone.
LEMMA SaysKeeps ==
    ASSUME Inv, NEW cmds, NEW texts, texts \subseteq Output \cup {Prompt, Message, <<>>}, Says(cmds, texts)
    PROVE  /\ pc = "run" /\ screen' \in AScreen /\ buffer' \in Seq(Typed) /\ save' \in Nat
           /\ slipped' \in BOOLEAN /\ Got(buffer, text, argv)
           /\ buffer' = buffer /\ text' = text /\ argv' = argv
<1>1. pc = "run" /\ buffer' = buffer /\ text' = text /\ argv' = argv /\ save' = save /\ slipped' = slipped
  BY DEF Says
<1>2. PICK t \in texts : screen' = Write(screen, t)
  BY DEF Says
<1>3. QED BY <1>1, <1>2, WriteFacts DEF Inv, TypeInv, WordsInv, Waiting

LEMMA CommandInv ==
    ASSUME Inv, RunCd \/ RunProgram \/ RunEnd
    PROVE  Inv'
<1>1. PICK cmds, texts : texts \subseteq Output \cup {Prompt, Message, <<>>} /\ Says(cmds, texts)
  BY DEF RunCd, RunProgram, RunEnd
<1>2. screen' \in AScreen /\ buffer' \in Seq(Typed) /\ save' \in Nat /\ slipped' \in BOOLEAN
  BY <1>1, SaysKeeps
<1>3. pc' \in {"prompt", "stopped"}
  BY DEF RunCd, RunProgram, RunEnd
<1>4. QED BY <1>2, <1>3 DEF Inv, TypeInv, EchoInv, SplitInv, WordsInv, TimeInv, Waiting

LEMMA AskedStays ==
    ASSUME buffer' = buffer
    PROVE  Asked' = Asked
BY DEF Asked

LEMMA RunShutdownInv ==
    ASSUME Inv, RunShutdown
    PROVE  Inv'
<1>1. /\ pc = "run" /\ screen' \in AScreen /\ buffer' \in Seq(Typed) /\ save' \in Nat
      /\ slipped' \in BOOLEAN /\ Got(buffer, text, argv)
      /\ buffer' = buffer /\ text' = text /\ argv' = argv
  BY SaysKeeps DEF RunShutdown
<1>2. pc' \in {"stopped", "wait"} /\ (pc' \in Waiting => pc' = "wait") /\ "wait" \in Waiting
  BY DEF RunShutdown, Waiting
<1>3. TimeInv'
  <2>1. SUFFICES ASSUME pc' = "wait" PROVE Timed(ticks', target', begun', waited', Asked')
    BY <1>2 DEF TimeInv, Waiting
  <2>2. Delay = Asked /\ Asked' = Asked /\ Asked \in Nat
    BY <1>1, DelayIsAsked, AskedStays DEF Inv, TypeInv
  <2>3. ticks' \in StartTicks /\ target' = Target(ticks', Delay) /\ waited' = 0 /\ begun' = ticks'
    BY <2>1 DEF RunShutdown
  <2>4. PICK k \in Nat : k = ticks' /\ k < Turn
    BY <2>3, ShellAssumption
  <2>5. k - k = 0 /\ (k + Asked * Factor) \in Nat /\ (k + Asked * Factor) % Turn \in Nat
    BY <2>2, ShellAssumption
  <2>6. ticks' = k /\ begun' = k /\ waited' = 0 /\ target' = (k + Asked' * Factor) % Turn
    BY <2>2, <2>3, <2>4 DEF Target
  <2>7. k <= k /\ 0 = k - k /\ target' \in Nat
    BY <2>2, <2>5, <2>6
  <2>8. QED BY <2>4, <2>6, <2>7 DEF Timed
<1>4. TypeInv'
  BY <1>1, <1>2 DEF TypeInv
<1>5. WordsInv'
  BY <1>1 DEF WordsInv, Waiting
<1>6. QED BY <1>2, <1>3, <1>4, <1>5 DEF Inv, EchoInv, SplitInv

LEMMA TickInv ==
    ASSUME Inv, Tick
    PROVE  Inv'
<1>1. Timed(ticks, target, begun, waited, Asked) /\ Asked' = Asked /\ Asked \in Nat
  BY AskedStays, DelayIsAsked DEF Inv, TimeInv, Tick, TypeInv, WordsInv, Waiting
<1>2. Turn \in Nat /\ Turn > 0 /\ Factor \in Nat
  BY ShellAssumption
<1>3. PICK k \in Nat, w \in Nat, h \in Nat : /\ k = ticks /\ w = waited /\ h = begun /\ k < Turn /\ h < Turn
                                            /\ ((h <= k /\ w = k - h) \/ w >= Turn - h)
  BY <1>1 DEF Timed
<1>4. /\ ticks' = (k + 1) % Turn /\ waited' = (IF w < Turn THEN w + 1 ELSE w)
      /\ target' = target /\ begun' = h
  BY <1>3 DEF Tick
<1>5. ticks' \in Nat /\ ticks' < Turn /\ waited' \in Nat
  BY <1>2, <1>3, <1>4
<1>6. (h <= ticks' /\ waited' = ticks' - h) \/ waited' >= Turn - h
  <2>1. CASE w >= Turn - h
    BY <1>2, <1>3, <1>4, <2>1
  <2>2. CASE h <= k /\ w = k - h /\ k + 1 < Turn
    <3>1. ticks' = k + 1 /\ waited' = w + 1
      BY <1>2, <1>3, <1>4, <2>2
    <3>2. QED BY <1>3, <2>2, <3>1
  <2>3. CASE h <= k /\ w = k - h /\ k + 1 = Turn
    BY <1>2, <1>3, <1>4, <2>3
  <2>4. QED BY <1>2, <1>3, <2>1, <2>2, <2>3
<1>7. Timed(ticks', target', begun', waited', Asked')
  BY <1>1, <1>3, <1>4, <1>5, <1>6 DEF Timed
<1>8. TypeInv' /\ WordsInv'
  BY DEF Inv, TypeInv, WordsInv, Tick, Waiting
<1>9. QED BY <1>7, <1>8 DEF Inv, TimeInv, EchoInv, SplitInv, Tick, Waiting

LEMMA LookInv ==
    ASSUME Inv, Look
    PROVE  Inv'
<1>1. pc = "wait" /\ pc' = "hlt" /\ pc \in Waiting /\ pc' \in Waiting /\ buffer' = buffer /\ Asked' = Asked
  BY AskedStays DEF Look, Waiting
<1>2. QED BY <1>1 DEF Inv, TypeInv, EchoInv, SplitInv, WordsInv, TimeInv, Look, timer, Waiting

LEMMA HaltInv ==
    ASSUME Inv, Halt
    PROVE  Inv'
<1>1. TypeInv'
  BY WriteFacts DEF Inv, TypeInv, Halt
<1>2. QED BY <1>1 DEF Inv, EchoInv, SplitInv, WordsInv, TimeInv, Halt, Waiting

LEMMA StutterInv ==
    ASSUME Inv, UNCHANGED vars
    PROVE  Inv'
<1>1. buffer' = buffer /\ Asked' = Asked
  BY AskedStays DEF vars
<1>2. QED BY <1>1 DEF Inv, TypeInv, EchoInv, SplitInv, WordsInv, TimeInv, vars, timer

LEMMA StepInv == Inv /\ [Next]_vars => Inv'
<1> SUFFICES ASSUME Inv, [Next]_vars PROVE Inv'
  OBVIOUS
<1>1. CASE \E c \in Key \cup {Blank, Tab} : TypeKey(c)
  BY <1>1, TypeKeyInv
<1>2. CASE TypeBackspace
  BY <1>2, TypeBackspaceInv
<1>3. CASE TypeEnter
  BY <1>3, TypeEnterInv
<1>4. CASE Strtok
  BY <1>4, StrtokInv
<1>5. CASE RunCd \/ RunProgram \/ RunEnd
  BY <1>5, CommandInv
<1>6. CASE RunShutdown
  BY <1>6, RunShutdownInv
<1>7. CASE Look \/ Tick
  BY <1>7, LookInv, TickInv
<1>8. CASE Halt
  BY <1>8, HaltInv
<1>9. CASE ShowPrompt
  BY <1>9, ShowPromptInv
<1>10. CASE UNCHANGED vars
  BY <1>10, StutterInv
<1>11. QED BY <1>1, <1>2, <1>3, <1>4, <1>5, <1>6, <1>7, <1>8, <1>9, <1>10 DEF Next

\* The shell keeps its invariant.
THEOREM ShellInvariant == Spec => []Inv
<1>1. QED BY InitInv, StepInv, PTL DEF Spec

-----------------------------------------------------------------------------
(* Results                                                                   *)

\* The line on the screen is the line that Enter will run, for a screen of any size:
\* it wraps and scrolls without losing its place, until a tab or a backspace at the
\* left edge has made the echo slip.
THEOREM EchoOnScreen == Spec => []EchoIsRight
<1>1. Inv => EchoIsRight
  <2> SUFFICES ASSUME Inv, pc = "line", ~slipped, NEW n \in DOMAIN buffer PROVE Shown(n)
    BY DEF EchoIsRight
  <2>1. buffer \in Seq(Typed) /\ Echoed(screen, buffer)
    BY DEF Inv, TypeInv, EchoInv
  <2>2. n \in 1 .. Len(buffer)
    BY <2>1
  <2>3. ShownIn(screen, buffer, n)
    BY <2>1, <2>2 DEF Echoed
  <2>4. QED BY <2>3 DEF ShownIn, CellAt, Shown, Before
<1>2. QED BY <1>1, ShellInvariant, PTL

\* A command gets the words of its line and no others: strtok begins the line anew
\* whatever it has kept, and finds each word once and in order.
THEOREM ArgvIsTheLine == Spec => []ArgsAreWords
<1>1. Inv => ArgsAreWords
  <2> SUFFICES ASSUME Inv, pc = "run"
               PROVE  /\ [n \in DOMAIN argv |-> Arg(n)] = SubSeq(Words(buffer), 1, Len(argv))
                      /\ Len(argv) = Len(Words(buffer)) \/ Len(argv) = MaxArgs
    BY DEF ArgsAreWords
  <2>1. buffer \in Seq(Typed) /\ Got(buffer, text, argv)
    BY DEF Inv, TypeInv, WordsInv, Waiting
  <2>2. PICK m \in Nat : m = Len(argv) /\ DOMAIN argv = 1 .. m
    BY <2>1 DEF Got, Found
  <2>3. PICK c \in Nat : c = Cardinality(Begins(buffer)) /\ c = Len(Words(buffer))
    BY <2>1, BeginsFinite, WordsLength
  <2>4. \A n \in 1 .. m : n \in 1 .. c /\ Arg(n) = Words(buffer)[n]
    BY <2>1, <2>2, <2>3, WordsAre
  <2>5. SubSeq(Words(buffer), 1, m) = [n \in 1 .. m |-> Words(buffer)[n]]
    <3>1. SubSeq(Words(buffer), 1, m) = [n \in 1 .. (m - 1) + 1 |-> Words(buffer)[n + 1 - 1]]
      OBVIOUS
    <3>2. (m - 1) + 1 = m /\ \A n \in 1 .. m : n + 1 - 1 = n
      OBVIOUS
    <3>3. QED BY <3>1, <3>2
  <2>6. [n \in DOMAIN argv |-> Arg(n)] = [n \in 1 .. m |-> Words(buffer)[n]]
    BY <2>2, <2>4
  <2>7. QED BY <2>1, <2>2, <2>3, <2>5, <2>6 DEF Got
<1>2. QED BY <1>1, ShellInvariant, PTL

\* The wait of shutdown is not cut short: when it ends, at least the time given on the
\* line has been counted, if the target fits in the counter; also when the tick it
\* waits for is missed and the counter runs over.
THEOREM WaitIsLongEnough == Spec => NotEarly
<1>1. ASSUME Inv, [Next]_vars, pc = "wait", pc' = "stopped"
      PROVE  waited >= Asked * Frequency \/ begun + Asked * Factor >= Turn
  <2>1. Halt
    BY <1>1 DEF Next, TypeKey, TypeBackspace, TypeEnter, Strtok, RunCd, RunProgram, RunEnd, RunShutdown,
                Says, Look, Tick, ShowPrompt, vars
  <2>2. Timed(ticks, target, begun, waited, Asked) /\ Asked \in Nat
    BY <1>1, DelayIsAsked DEF Inv, TypeInv, WordsInv, TimeInv, Waiting
  <2>3. PICK a \in Nat, p \in Nat, q \in Nat : a = Asked /\ p = a * Factor /\ q = a * Frequency /\ q <= p
    <3>1. PICK d \in Nat : Factor = Frequency + d
      <4>1. Factor - Frequency \in Nat /\ Factor = Frequency + (Factor - Frequency)
        BY ShellAssumption
      <4>2. QED BY <4>1
    <3>2. PICK a \in Nat : a = Asked
      BY <2>2
    <3>3. a * Factor = a * Frequency + a * d /\ a * d \in Nat /\ a * Frequency \in Nat /\ a * Factor \in Nat
      BY <3>1, <3>2, ShellAssumption
    <3>4. a * Frequency <= a * Factor
      BY <3>3
    <3>5. QED BY <3>2, <3>3, <3>4
  <2>4. PICK k \in Nat, w \in Nat, h \in Nat, g \in Nat : /\ k = ticks /\ w = waited /\ h = begun /\ g = target
                                                         /\ h < Turn /\ g = (h + p) % Turn
                                                         /\ (w = k - h \/ w >= Turn - h)
    BY <2>2, <2>3 DEF Timed
  <2>5. k >= g
    BY <2>1, <2>4 DEF Halt, Reached
  <2>6. CASE h + p < Turn
    <3>1. g = h + p
      BY <2>4, <2>6, ShellAssumption
    <3>2. w >= q
      BY <2>3, <2>4, <2>5, <2>6, <3>1, ShellAssumption
    <3>3. QED BY <2>3, <2>4, <3>2
  <2>7. CASE ~(h + p < Turn)
    BY <2>3, <2>4, <2>7, ShellAssumption
  <2>8. QED BY <2>6, <2>7
<1>2. QED BY <1>1, ShellInvariant, PTL DEF Spec, NotEarly
-----------------------------------------------------------------------------
(* The tree                                                                  *)

FoundDir == Dir \cup {NoDir}

LEMMA TreeFacts ==
    /\ Root \in Dir /\ 0 \notin Dir /\ NoDir \notin Dir
    /\ Here \notin Seg /\ Back \notin Seg /\ Here # Back
    /\ MaxSegs \in Nat /\ MaxDepth \in Nat
  BY WorkDirAssumption DEF Here, Back

LEMMA ChildFound ==
    ASSUME NEW d \in Dir, NEW s \in Seg
    PROVE  Child[d][s] \in FoundDir /\ Child[d][s] # Root
<1>1. Child[d] \in [Seg -> (Dir \ {Root}) \cup {NoDir}]
  BY WorkDirAssumption
<1>2. QED BY <1>1, TreeFacts DEF FoundDir

UpFits(d, p) == Up[d] \in IF p = Root THEN {0, Root} ELSE {p}

LEMMA HangsInOne ==
    ASSUME NEW d \in Dir, d # Root
    PROVE  \E q \in Dir, t \in Seg :
             /\ Child[q][t] = d
             /\ \A r \in Dir, u \in Seg : Child[r][u] = d => r = q /\ u = t
             /\ UpFits(d, q)
<1>1. d \in Dir \ {Root}
  OBVIOUS
<1>2. QED BY <1>1, WorkDirAssumption, Zenon DEF UpFits

\* A directory that is not the root hangs in one place, and its ".." leads there.
LEMMA OneParent ==
    ASSUME NEW p \in Dir, NEW s \in Seg, NEW d \in Dir, Child[p][s] = d
    PROVE  d # Root /\ UpFits(d, p)
<1>1. d # Root
  BY ChildFound
<1>2. PICK q \in Dir, t \in Seg :
        /\ \A r \in Dir, u \in Seg : Child[r][u] = d => r = q /\ u = t
        /\ UpFits(d, q)
  BY <1>1, HangsInOne
<1>3. p = q
  BY <1>2
<1>4. QED BY <1>1, <1>2, <1>3

LEMMA UpIsDir ==
    ASSUME NEW d \in Dir, d # Root
    PROVE  Up[d] = 0 \/ Up[d] \in Dir
<1>1. PICK q \in Dir, t \in Seg : UpFits(d, q)
  BY HangsInOne
<1>2. QED BY <1>1, TreeFacts DEF UpFits

LEMMA FollowFound ==
    ASSUME NEW d \in FoundDir, NEW s \in Segment
    PROVE  Follow(d, s) \in FoundDir
<1>1. CASE d = NoDir \/ s = Here
  BY <1>1 DEF Follow
<1>2. CASE d # NoDir /\ s # Here /\ s = Back
  BY <1>2, UpIsDir, TreeFacts DEF Follow, Parent, FoundDir
<1>3. CASE d # NoDir /\ s # Here /\ s # Back
  <2>1. d \in Dir /\ s \in Seg
    BY <1>3 DEF FoundDir, Segment
  <2>2. QED BY <1>3, <2>1, ChildFound DEF Follow
<1>4. QED BY <1>1, <1>2, <1>3

\* What fat32_find_entry says of a directory is where the segment leads, once 0 is
\* taken for the root.
LEMMA LookupFollows ==
    ASSUME NEW d \in Dir, NEW s \in Segment, Lookup(d, s) # NoDir
    PROVE  /\ ClusterOf(Lookup(d, s)) = Follow(d, s)
           /\ ClusterOf(Lookup(d, s)) \in Dir
           /\ Lookup(d, s) = Follow(d, s) \/ Lookup(d, s) = 0
<1>1. d # NoDir
  BY TreeFacts
<1>2. CASE s \in Seg
  <2>1. Lookup(d, s) = Child[d][s] /\ s # Here /\ s # Back
    BY <1>2, TreeFacts DEF Lookup
  <2>2. Child[d][s] \in Dir
    BY <1>2, <2>1, ChildFound DEF FoundDir
  <2>3. QED BY <1>1, <2>1, <2>2, TreeFacts DEF ClusterOf, Follow
<1>3. CASE s = Here
  <2>1. d # Root /\ Lookup(d, s) = d
    BY <1>3, TreeFacts DEF Lookup
  <2>2. QED BY <1>3, <2>1, TreeFacts DEF ClusterOf, Follow
<1>4. CASE s = Back
  <2>1. d # Root /\ Lookup(d, s) = Up[d]
    BY <1>4, TreeFacts DEF Lookup
  <2>2. QED BY <1>1, <1>4, <2>1, UpIsDir, TreeFacts DEF ClusterOf, Follow, Parent
<1>5. QED BY <1>2, <1>3, <1>4 DEF Segment

LEMMA LookupOutside == ASSUME NEW d, d \notin Dir, NEW s PROVE Lookup(d, s) = NoDir
  BY DEF Lookup

-----------------------------------------------------------------------------
(* Where a path leads                                                        *)

\* The directories that a path passes
Track(g, d, segs) ==
    /\ g \in [0 .. Len(segs) -> FoundDir]
    /\ g[0] = d
    /\ \A k \in 1 .. Len(segs) : g[k] = Follow(g[k - 1], segs[k])

LEMMA LeadsTrack ==
    ASSUME NEW d \in FoundDir, NEW segs \in Seq(Segment)
    PROVE  \E g : Track(g, d, segs) /\ Leads(d, segs) = g[Len(segs)]
<1> DEFINE at[k \in 0 .. Len(segs)] == IF k = 0 THEN d ELSE Follow(at[k - 1], segs[k])
<1> DEFINE F == [e \in (1 .. Len(segs)) \X FoundDir |-> Follow(e[2], segs[e[1]])]
<1>1. Len(segs) \in Nat /\ \A k \in 1 .. Len(segs) : segs[k] \in Segment
  OBVIOUS
<1>2. F \in [(1 .. Len(segs)) \X FoundDir -> FoundDir]
  BY <1>1, FollowFound
<1>3. \A k \in 1 .. Len(segs), x \in FoundDir : F[<<k, x>>] = Follow(x, segs[k])
  OBVIOUS
<1> HIDE DEF F
<1>4. PICK g \in [0 .. Len(segs) -> FoundDir] : Recurs(g, Len(segs), d, F)
  BY <1>1, <1>2, RecursionExists
<1>5. g[0] = d /\ \A k \in 1 .. Len(segs) : g[k] = Follow(g[k - 1], segs[k])
  <2>1. \A k \in 1 .. Len(segs) : g[k - 1] \in FoundDir
    BY <1>1
  <2>2. QED BY <1>3, <1>4, <2>1 DEF Recurs
<1>6. g = [k \in 0 .. Len(segs) |-> IF k = 0 THEN d ELSE Follow(g[k - 1], segs[k])]
  <2>1. \A k \in 0 .. Len(segs) : g[k] = IF k = 0 THEN d ELSE Follow(g[k - 1], segs[k])
    BY <1>1, <1>5
  <2>2. QED BY <2>1
<1>7. at = [k \in 0 .. Len(segs) |-> IF k = 0 THEN d ELSE Follow(at[k - 1], segs[k])]
  BY <1>6, Zenon
<1>8. Leads(d, segs) = at[Len(segs)]
  BY DEF Leads
<1> HIDE DEF at
<1>9. at[0] = d /\ \A k \in 1 .. Len(segs) : at[k] = Follow(at[k - 1], segs[k])
  BY <1>1, <1>7
<1>10. \A k \in 0 .. Len(segs) : at[k] \in FoundDir
  <2> DEFINE P == {k \in 0 .. Len(segs) : at[k] \in FoundDir}
  <2>1. 0 \in P
    BY <1>1, <1>9
  <2>2. ASSUME NEW k \in 1 .. Len(segs), k - 1 \in P PROVE k \in P
    BY <1>1, <1>9, <2>2, FollowFound
  <2>3. \A k \in 0 .. Len(segs) : k \in P
    <3> HIDE DEF P
    <3>1. QED BY <1>1, <2>1, <2>2, AllPlaces
  <2>4. QED BY <2>3
<1>11. at \in [0 .. Len(segs) -> FoundDir]
  BY <1>7, <1>10
<1>12. QED BY <1>8, <1>9, <1>11 DEF Track

LEMMA TracksAgree ==
    ASSUME NEW d, NEW p \in Seq(Segment), NEW q \in Seq(Segment), Len(p) =< Len(q),
           \A k \in 1 .. Len(p) : p[k] = q[k],
           NEW g, NEW h, Track(g, d, p), Track(h, d, q)
    PROVE  g[Len(p)] = h[Len(p)]
<1> DEFINE P == {k \in 0 .. Len(p) : g[k] = h[k]}
<1>1. PICK n \in Nat, m \in Nat : n = Len(p) /\ m = Len(q) /\ n =< m
  OBVIOUS
<1>2. 0 \in P
  BY <1>1 DEF Track
<1>3. ASSUME NEW k \in 1 .. n, k - 1 \in P PROVE k \in P
  BY <1>1, <1>3 DEF Track
<1>4. \A k \in 0 .. n : k \in P
  <2> HIDE DEF P
  <2>1. QED BY <1>2, <1>3, AllPlaces
<1>5. QED BY <1>1, <1>4

LEMMA LeadsFound ==
    ASSUME NEW d \in FoundDir, NEW segs \in Seq(Segment)
    PROVE  Leads(d, segs) \in FoundDir
<1>1. PICK g : Track(g, d, segs) /\ Leads(d, segs) = g[Len(segs)]
  BY LeadsTrack
<1>2. Len(segs) \in 0 .. Len(segs)
  OBVIOUS
<1>3. QED BY <1>1, <1>2 DEF Track

LEMMA LeadsEmpty == ASSUME NEW d \in FoundDir PROVE Leads(d, <<>>) = d
<1>1. <<>> \in Seq(Segment) /\ Len(<<>>) = 0
  OBVIOUS
<1>2. PICK g : Track(g, d, <<>>) /\ Leads(d, <<>>) = g[Len(<<>>)]
  BY <1>1, LeadsTrack
<1>3. QED BY <1>1, <1>2 DEF Track

LEMMA LeadsOn ==
    ASSUME NEW d \in FoundDir, NEW segs \in Seq(Segment), NEW s \in Segment
    PROVE  Leads(d, Append(segs, s)) = Follow(Leads(d, segs), s)
<1> DEFINE more == Append(segs, s)
<1>1. PICK n \in Nat : n = Len(segs)
  OBVIOUS
<1>2. more \in Seq(Segment) /\ Len(more) = n + 1 /\ more[n + 1] = s /\ \A k \in 1 .. n : segs[k] = more[k]
  BY <1>1, AppendProperties
<1> HIDE DEF more
<1>3. PICK g : Track(g, d, segs) /\ Leads(d, segs) = g[n]
  BY <1>1, LeadsTrack
<1>4. PICK h : Track(h, d, more) /\ Leads(d, more) = h[n + 1]
  BY <1>2, LeadsTrack
<1>5. g[n] = h[n]
  BY <1>1, <1>2, <1>3, <1>4, TracksAgree
<1>6. n + 1 \in 1 .. n + 1 /\ (n + 1) - 1 = n
  OBVIOUS
<1>7. h[n + 1] = Follow(h[n], s)
  BY <1>2, <1>4, <1>6 DEF Track
<1>8. QED BY <1>3, <1>4, <1>5, <1>7 DEF more

-----------------------------------------------------------------------------
(* What fat32_change_dir finds                                               *)

WalkState == [dir : Dir, path : Seq(Segment), ok : BOOLEAN, over : BOOLEAN]

LEMMA StepFacts ==
    ASSUME NEW w \in WalkState, NEW s \in Segment
    PROVE  /\ Step(w, s) \in WalkState
           /\ Step(w, s).ok => w.ok /\ Lookup(w.dir, s) # NoDir /\ Step(w, s).dir = Follow(w.dir, s)
           /\ Len(w.path) =< MaxDepth =>
                /\ Len(Step(w, s).path) =< MaxDepth
                /\ Step(w, s).ok /\ ~Step(w, s).over => ~w.over /\ Step(w, s).path = Append(w.path, s)
<1>1. /\ w.dir \in Dir /\ w.path \in Seq(Segment) /\ Len(w.path) \in Nat
      /\ w.ok \in BOOLEAN /\ w.over \in BOOLEAN
  BY DEF WalkState
<1>2. CASE ~w.ok
  BY <1>2 DEF Step
<1>3. CASE w.ok /\ Lookup(w.dir, s) = NoDir
  <2>1. Step(w, s) = [w EXCEPT !.ok = FALSE]
    BY <1>3 DEF Step
  <2>2. QED BY <1>1, <2>1 DEF WalkState
<1>4. CASE w.ok /\ Lookup(w.dir, s) # NoDir
  <2>1. ClusterOf(Lookup(w.dir, s)) = Follow(w.dir, s) /\ ClusterOf(Lookup(w.dir, s)) \in Dir
    BY <1>1, <1>4, LookupFollows
  <2>2. Append(w.path, s) \in Seq(Segment) /\ Len(Append(w.path, s)) = Len(w.path) + 1
    BY <1>1, AppendProperties
  <2>3. PICK p \in Seq(Segment) : p = IF Len(w.path) < MaxDepth THEN Append(w.path, s) ELSE w.path
    BY <1>1, <2>2
  <2>4. PICK o \in BOOLEAN : o = (w.over \/ Len(w.path) = MaxDepth)
    OBVIOUS
  <2>5. Step(w, s) = [w EXCEPT !.dir = Follow(w.dir, s), !.path = p, !.over = o]
    BY <1>4, <2>1, <2>3, <2>4 DEF Step
  <2>6. /\ Step(w, s).dir = Follow(w.dir, s) /\ Step(w, s).path = p
        /\ Step(w, s).ok = w.ok /\ Step(w, s).over = o
        /\ Step(w, s) \in WalkState
    BY <2>1, <2>5 DEF WalkState
  <2>7. ~o => ~w.over /\ Len(w.path) # MaxDepth
    BY <2>4, Zenon
  <2>8. Len(w.path) =< MaxDepth => Len(p) =< MaxDepth
    <3>1. CASE Len(w.path) < MaxDepth
      BY <1>1, <2>2, <2>3, <3>1, TreeFacts
    <3>2. CASE ~(Len(w.path) < MaxDepth)
      BY <2>3, <3>2
    <3>3. QED BY <3>1, <3>2
  <2>9. Len(w.path) =< MaxDepth => (~o => ~w.over /\ p = Append(w.path, s))
    <3>1. PICK n \in Nat : n = Len(w.path)
      BY <1>1
    <3>2. QED BY <2>3, <2>7, <3>1, TreeFacts
  <2>10. QED BY <1>4, <2>6, <2>8, <2>9
<1>5. QED BY <1>2, <1>3, <1>4

Passage(g, arg) ==
    /\ g \in [0 .. Len(arg.segs) -> WalkState]
    /\ g[0] = Begin(arg)
    /\ \A k \in 1 .. Len(arg.segs) : g[k] = Step(g[k - 1], arg.segs[k])

\* An argument of any length
Argument == [abs : BOOLEAN, segs : Seq(Segment)]
Placed == dir \in Dir /\ path \in Seq(Segment) /\ Len(path) =< MaxDepth

LEMMA ArgIsArgument == ASSUME NEW arg \in PathArg PROVE arg \in Argument
<1>1. PICK k \in 0 .. MaxSegs : arg.segs \in [1 .. k -> Segment]
  BY DEF PathArg
<1>2. arg.segs \in Seq(Segment)
  BY <1>1, TreeFacts
<1>3. QED BY <1>2 DEF PathArg, Argument

LEMMA BeginFacts ==
    ASSUME Placed, NEW arg \in Argument
    PROVE  Begin(arg) \in WalkState /\ Begin(arg).ok /\ ~Begin(arg).over /\ Len(Begin(arg).path) =< MaxDepth
<1>1. <<>> \in Seq(Segment) /\ Len(<<>>) = 0
  OBVIOUS
<1>2. (IF arg.abs THEN Root ELSE dir) \in Dir
  BY TreeFacts DEF Placed
<1>3. (IF arg.abs THEN <<>> ELSE path) \in Seq(Segment)
  BY <1>1 DEF Placed
<1>4. Len(IF arg.abs THEN <<>> ELSE path) =< MaxDepth
  <2>1. CASE arg.abs
    BY <1>1, <2>1, TreeFacts
  <2>2. CASE ~arg.abs
    BY <2>2 DEF Placed
  <2>3. QED BY <2>1, <2>2
<1>5. QED BY <1>2, <1>3, <1>4 DEF Begin, WalkState

LEMMA WalkPassage ==
    ASSUME Placed, NEW arg \in Argument
    PROVE  \E g : Passage(g, arg) /\ Walk(arg) = g[Len(arg.segs)]
<1> DEFINE at[k \in 0 .. Len(arg.segs)] == IF k = 0 THEN Begin(arg) ELSE Step(at[k - 1], arg.segs[k])
<1> DEFINE F == [e \in (1 .. Len(arg.segs)) \X WalkState |-> Step(e[2], arg.segs[e[1]])]
<1>1. Len(arg.segs) \in Nat /\ \A k \in 1 .. Len(arg.segs) : arg.segs[k] \in Segment
  BY DEF Argument
<1>2. F \in [(1 .. Len(arg.segs)) \X WalkState -> WalkState]
  BY <1>1, StepFacts
<1>3. \A k \in 1 .. Len(arg.segs), x \in WalkState : F[<<k, x>>] = Step(x, arg.segs[k])
  OBVIOUS
<1> HIDE DEF F
<1>b. Begin(arg) \in WalkState
  BY BeginFacts
<1>4. PICK g \in [0 .. Len(arg.segs) -> WalkState] : Recurs(g, Len(arg.segs), Begin(arg), F)
  BY <1>1, <1>2, <1>b, RecursionExists
<1>5. g[0] = Begin(arg) /\ \A k \in 1 .. Len(arg.segs) : g[k] = Step(g[k - 1], arg.segs[k])
  <2>1. \A k \in 1 .. Len(arg.segs) : g[k - 1] \in WalkState
    BY <1>1
  <2>2. QED BY <1>3, <1>4, <2>1 DEF Recurs
<1>6. g = [k \in 0 .. Len(arg.segs) |-> IF k = 0 THEN Begin(arg) ELSE Step(g[k - 1], arg.segs[k])]
  <2>1. \A k \in 0 .. Len(arg.segs) : g[k] = IF k = 0 THEN Begin(arg) ELSE Step(g[k - 1], arg.segs[k])
    BY <1>1, <1>5
  <2>2. QED BY <2>1
<1>7. at = [k \in 0 .. Len(arg.segs) |-> IF k = 0 THEN Begin(arg) ELSE Step(at[k - 1], arg.segs[k])]
  BY <1>6, Zenon
<1>8. Walk(arg) = at[Len(arg.segs)]
  BY DEF Walk
<1> HIDE DEF at
<1>9. at[0] = Begin(arg) /\ \A k \in 1 .. Len(arg.segs) : at[k] = Step(at[k - 1], arg.segs[k])
  <2>1. \A k \in 0 .. Len(arg.segs) : at[k] = IF k = 0 THEN Begin(arg) ELSE Step(at[k - 1], arg.segs[k])
    BY <1>7, Zenon
  <2>2. QED BY <1>1, <2>1
<1>10. \A k \in 0 .. Len(arg.segs) : at[k] \in WalkState
  <2> DEFINE P == {k \in 0 .. Len(arg.segs) : at[k] \in WalkState}
  <2>1. 0 \in P
    BY <1>1, <1>9, <1>b
  <2>2. ASSUME NEW k \in 1 .. Len(arg.segs), k - 1 \in P PROVE k \in P
    BY <1>1, <1>9, <2>2, StepFacts
  <2>3. \A k \in 0 .. Len(arg.segs) : k \in P
    <3> HIDE DEF P
    <3>1. QED BY <1>1, <2>1, <2>2, AllPlaces
  <2>4. QED BY <2>3
<1>11. at \in [0 .. Len(arg.segs) -> WalkState]
  BY <1>7, <1>10
<1>12. QED BY <1>8, <1>9, <1>11 DEF Passage

\* The directory found is the one the argument leads to from where it starts.
LEMMA WalkLeads ==
    ASSUME Placed, NEW arg \in Argument, Walk(arg).ok
    PROVE  Walk(arg).dir = Leads(Begin(arg).dir, arg.segs)
<1>1. PICK g : Passage(g, arg) /\ Walk(arg) = g[Len(arg.segs)]
  BY WalkPassage
<1>2. Begin(arg).dir \in FoundDir /\ arg.segs \in Seq(Segment)
  BY BeginFacts DEF WalkState, FoundDir, Argument
<1>3. PICK h : Track(h, Begin(arg).dir, arg.segs) /\ Leads(Begin(arg).dir, arg.segs) = h[Len(arg.segs)]
  BY <1>2, LeadsTrack
<1>4. PICK n \in Nat : n = Len(arg.segs)
  BY <1>2
<1> DEFINE P == {k \in 0 .. n : g[k].ok => g[k].dir = h[k]}
<1>5. 0 \in P
  BY <1>1, <1>3, <1>4 DEF Passage, Track
<1>6. ASSUME NEW k \in 1 .. n, k - 1 \in P PROVE k \in P
  <2>1. g[k - 1] \in WalkState /\ arg.segs[k] \in Segment /\ g[k] = Step(g[k - 1], arg.segs[k])
    BY <1>1, <1>2, <1>4 DEF Passage
  <2>2. h[k] = Follow(h[k - 1], arg.segs[k])
    BY <1>3, <1>4 DEF Track
  <2>3. QED BY <1>6, <2>1, <2>2, StepFacts
<1>7. \A k \in 0 .. n : k \in P
  <2> HIDE DEF P
  <2>1. QED BY <1>5, <1>6, AllPlaces
<1>8. QED BY <1>1, <1>3, <1>4, <1>7

\* The path that is built beside it leads there too, if it led there before.
LEMMA WalkKeepsPath ==
    ASSUME Placed, NEW arg \in Argument, Walk(arg).ok, ~Walk(arg).over,
           Leads(Root, Begin(arg).path) = Begin(arg).dir
    PROVE  Leads(Root, Walk(arg).path) = Walk(arg).dir
<1>1. PICK g : Passage(g, arg) /\ Walk(arg) = g[Len(arg.segs)]
  BY WalkPassage
<1>2. arg.segs \in Seq(Segment) /\ Root \in FoundDir
  BY TreeFacts DEF FoundDir, Argument
<1>3. PICK n \in Nat : n = Len(arg.segs)
  BY <1>2
<1> DEFINE Right(w) == w.ok /\ ~w.over => Leads(Root, w.path) = w.dir
<1> DEFINE P == {k \in 0 .. n : Len(g[k].path) =< MaxDepth /\ Right(g[k])}
<1>4. 0 \in P
  BY <1>1, <1>3, BeginFacts DEF Passage
<1>5. ASSUME NEW k \in 1 .. n, k - 1 \in P PROVE k \in P
  <2>1. g[k - 1] \in WalkState /\ arg.segs[k] \in Segment /\ g[k] = Step(g[k - 1], arg.segs[k])
    BY <1>1, <1>2, <1>3 DEF Passage
  <2>2. g[k - 1].path \in Seq(Segment)
    BY <2>1 DEF WalkState
  <2>3. Len(g[k].path) =< MaxDepth
    BY <1>5, <2>1, StepFacts
  <2>4. ASSUME g[k].ok, ~g[k].over PROVE Leads(Root, g[k].path) = g[k].dir
    <3>1. g[k - 1].ok /\ ~g[k - 1].over /\ g[k].dir = Follow(g[k - 1].dir, arg.segs[k])
          /\ g[k].path = Append(g[k - 1].path, arg.segs[k])
      BY <1>5, <2>1, <2>4, StepFacts
    <3>2. Leads(Root, g[k - 1].path) = g[k - 1].dir
      BY <1>5, <3>1
    <3>3. QED BY <1>2, <2>1, <2>2, <3>1, <3>2, LeadsOn
  <2>5. QED BY <2>3, <2>4
<1>6. \A k \in 0 .. n : k \in P
  <2> HIDE DEF P
  <2>1. QED BY <1>4, <1>5, AllPlaces
<1>7. QED BY <1>1, <1>3, <1>6

LEMMA WalkType ==
    ASSUME Placed, NEW arg \in Argument
    PROVE  Walk(arg) \in WalkState /\ Len(Walk(arg).path) =< MaxDepth
<1>1. PICK g : Passage(g, arg) /\ Walk(arg) = g[Len(arg.segs)]
  BY WalkPassage
<1>2. PICK n \in Nat : n = Len(arg.segs)
  BY DEF Argument
<1> DEFINE P == {k \in 0 .. n : Len(g[k].path) =< MaxDepth}
<1>3. 0 \in P
  BY <1>1, <1>2, BeginFacts DEF Passage
<1>4. ASSUME NEW k \in 1 .. n, k - 1 \in P PROVE k \in P
  <2>1. arg.segs \in Seq(Segment)
    BY DEF Argument
  <2>2. k \in 1 .. Len(arg.segs) /\ k - 1 \in 0 .. Len(arg.segs)
    BY <1>2
  <2>3. g[k - 1] \in WalkState /\ arg.segs[k] \in Segment /\ g[k] = Step(g[k - 1], arg.segs[k])
    BY <1>1, <2>1, <2>2, ElementOfSeq DEF Passage
  <2>4. QED BY <1>4, <2>3, StepFacts
<1>5. \A k \in 0 .. n : k \in P
  <2> HIDE DEF P
  <2>1. QED BY <1>3, <1>4, AllPlaces
<1>6. QED BY <1>1, <1>2, <1>5 DEF Passage

-----------------------------------------------------------------------------
(* What parse_path finds                                                     *)

Parsed == Dir \cup {0, NoDir}

LEMMA LookupParsed ==
    ASSUME NEW d, NEW s \in Segment
    PROVE  /\ Lookup(d, s) \in Parsed
           /\ d \in Dir => Lookup(d, s) \in {Follow(d, s), 0, NoDir}
           /\ d \notin Dir => Lookup(d, s) = NoDir
<1>1. CASE d \notin Dir
  BY <1>1, LookupOutside DEF Parsed
<1>2. CASE d \in Dir /\ Lookup(d, s) = NoDir
  BY <1>2 DEF Parsed
<1>3. CASE d \in Dir /\ Lookup(d, s) # NoDir
  <2>1. ClusterOf(Lookup(d, s)) \in Dir /\ (Lookup(d, s) = Follow(d, s) \/ Lookup(d, s) = 0)
    BY <1>3, LookupFollows
  <2>2. Lookup(d, s) = 0 \/ Lookup(d, s) \in Dir
    BY <2>1 DEF ClusterOf
  <2>3. QED BY <1>3, <2>1, <2>2 DEF Parsed
<1>4. QED BY <1>1, <1>2, <1>3

Lookups(g, arg) ==
    /\ g \in [0 .. Len(arg.segs) - 1 -> Parsed]
    /\ g[0] = IF arg.abs THEN Root ELSE dir
    /\ \A k \in 1 .. Len(arg.segs) - 1 : g[k] = Lookup(g[k - 1], arg.segs[k])

LEMMA ParseLookups ==
    ASSUME dir \in Dir, NEW arg \in Argument, arg.segs # <<>>
    PROVE  \E g : Lookups(g, arg) /\ Parse(arg) = g[Len(arg.segs) - 1]
<1> DEFINE b == IF arg.abs THEN Root ELSE dir
<1> DEFINE n == Len(arg.segs) - 1
<1> DEFINE at[k \in 0 .. n] == IF k = 0 THEN b ELSE Lookup(at[k - 1], arg.segs[k])
<1> DEFINE F == [e \in (1 .. n) \X Parsed |-> Lookup(e[2], arg.segs[e[1]])]
<1>1. n \in Nat /\ \A k \in 1 .. n : arg.segs[k] \in Segment
  BY DEF Argument
<1>b. b \in Parsed
  BY TreeFacts DEF Parsed
<1>8. Parse(arg) = at[n]
  BY DEF Parse
<1> HIDE DEF n, b
<1>2. F \in [(1 .. n) \X Parsed -> Parsed]
  BY <1>1, LookupParsed
<1>3. \A k \in 1 .. n, x \in Parsed : F[<<k, x>>] = Lookup(x, arg.segs[k])
  OBVIOUS
<1> HIDE DEF F
<1>4. PICK g \in [0 .. n -> Parsed] : Recurs(g, n, b, F)
  BY <1>1, <1>2, <1>b, RecursionExists
<1>5. g[0] = b /\ \A k \in 1 .. n : g[k] = Lookup(g[k - 1], arg.segs[k])
  <2>1. \A k \in 1 .. n : g[k - 1] \in Parsed
    BY <1>1
  <2>2. QED BY <1>3, <1>4, <2>1 DEF Recurs
<1>6. g = [k \in 0 .. n |-> IF k = 0 THEN b ELSE Lookup(g[k - 1], arg.segs[k])]
  <2>1. \A k \in 0 .. n : g[k] = IF k = 0 THEN b ELSE Lookup(g[k - 1], arg.segs[k])
    BY <1>1, <1>5
  <2>2. QED BY <2>1
<1>7. at = [k \in 0 .. n |-> IF k = 0 THEN b ELSE Lookup(at[k - 1], arg.segs[k])]
  BY <1>6, Zenon
<1> HIDE DEF at
<1>9. at[0] = b /\ \A k \in 1 .. n : at[k] = Lookup(at[k - 1], arg.segs[k])
  <2>1. \A k \in 0 .. n : at[k] = IF k = 0 THEN b ELSE Lookup(at[k - 1], arg.segs[k])
    BY <1>7, Zenon
  <2>2. QED BY <1>1, <2>1
<1>10. \A k \in 0 .. n : at[k] \in Parsed
  <2> SUFFICES ASSUME NEW k \in 0 .. n PROVE at[k] \in Parsed
    OBVIOUS
  <2>1. CASE k = 0
    BY <1>9, <1>b, <2>1
  <2>2. CASE k # 0
    <3>1. k \in 1 .. n
      BY <1>1, <2>2
    <3>2. QED BY <1>1, <1>9, <3>1, LookupParsed
  <2>3. QED BY <2>1, <2>2
<1>11. at \in [0 .. n -> Parsed]
  BY <1>7, <1>10
<1>12. Lookups(at, arg)
  BY <1>9, <1>11 DEF Lookups, n, b
<1>13. QED BY <1>8, <1>12 DEF n

\* Before the last segment parse_path is where the name leads, or in cluster 0, or
\* nowhere any more.
LEMMA ParseLeads ==
    ASSUME dir \in Dir, NEW arg \in Argument, arg.segs # <<>>
    PROVE  Parse(arg) \in {ParsedDir(arg), 0, NoDir}
<1> DEFINE b == IF arg.abs THEN Root ELSE dir
<1> DEFINE front == Front(arg.segs)
<1>1. PICK n \in Nat : n = Len(arg.segs) - 1 /\ Len(arg.segs) = n + 1
  BY DEF Argument
<1>2. front \in Seq(Segment) /\ Len(front) = n /\ \A k \in 1 .. n : front[k] = arg.segs[k]
  <2>1. arg.segs \in Seq(Segment)
    BY DEF Argument
  <2>2. front = SubSeq(arg.segs, 1, n)
    BY <1>1 DEF Front
  <2> HIDE DEF front
  <2>3. QED BY <1>1, <2>1, <2>2, SubSeqProperties
<1>3. b \in FoundDir /\ b \in Dir
  BY TreeFacts DEF FoundDir
<1>4. PICK g : Lookups(g, arg) /\ Parse(arg) = g[n]
  BY <1>1, ParseLookups
<1>5. ParsedDir(arg) = Leads(b, front)
  BY DEF ParsedDir
<1>6. g[0] = b /\ \A k \in 1 .. n : g[k] = Lookup(g[k - 1], front[k])
  BY <1>1, <1>2, <1>4 DEF Lookups
<1> HIDE DEF b, front
<1>7. PICK h : Track(h, b, front) /\ Leads(b, front) = h[n]
  BY <1>2, <1>3, LeadsTrack
<1> DEFINE P == {k \in 0 .. n : g[k] \in {h[k], 0, NoDir}}
<1>8. 0 \in P
  BY <1>6, <1>7 DEF Track
<1>9. ASSUME NEW k \in 1 .. n, k - 1 \in P PROVE k \in P
  <2>1. h[k] = Follow(h[k - 1], front[k]) /\ front[k] \in Segment
    BY <1>2, <1>7 DEF Track
  <2>2. g[k] = Lookup(g[k - 1], front[k])
    BY <1>6
  <2>3. CASE g[k - 1] \in Dir
    <3>1. g[k - 1] = h[k - 1]
      BY <1>9, <2>3, TreeFacts
    <3>2. QED BY <2>1, <2>2, <2>3, <3>1, LookupParsed
  <2>4. CASE g[k - 1] \notin Dir
    BY <2>1, <2>2, <2>4, LookupParsed
  <2>5. QED BY <2>3, <2>4
<1>10. \A k \in 0 .. n : k \in P
  <2> HIDE DEF P
  <2>1. QED BY <1>8, <1>9, AllPlaces
<1>11. QED BY <1>4, <1>5, <1>7, <1>10

-----------------------------------------------------------------------------
(* The theorems                                                              *)

LEMMA DirInitInv == DirInit => TypeOK /\ PwdIsRight
<1> SUFFICES ASSUME DirInit PROVE TypeOK /\ PwdIsRight
  OBVIOUS
<1>1. <<>> \in Seq(Segment) /\ Len(<<>>) = 0
  OBVIOUS
<1>2. Root \in FoundDir
  BY TreeFacts DEF FoundDir
<1>3. QED BY <1>1, <1>2, TreeFacts, LeadsEmpty DEF DirInit, TypeOK, PwdIsRight

\* ".." takes the last name off and leads to the directory it was found in.
LEMMA BackIsRight ==
    ASSUME NEW q \in Seq(Segment), q # <<>>, Last(q) \in Seg, NEW d \in Dir, Leads(Root, q) = d
    PROVE  d # Root /\ Leads(Root, Front(q)) = Parent(d)
<1>1. PICK n \in Nat : n + 1 = Len(q)
  <2>1. Len(q) - 1 \in Nat /\ (Len(q) - 1) + 1 = Len(q)
    OBVIOUS
  <2>2. QED BY <2>1
<1>2. Front(q) \in Seq(Segment) /\ Last(q) \in Segment
  BY <1>1 DEF Front, Last
<1>3. q = Append(Front(q), Last(q))
  BY <1>1 DEF Front, Last
<1>4. Root \in FoundDir
  BY TreeFacts DEF FoundDir
<1>5. PICK p \in FoundDir : p = Leads(Root, Front(q))
  BY <1>2, <1>4, LeadsFound
<1>6. d = Follow(p, Last(q))
  BY <1>2, <1>3, <1>4, <1>5, LeadsOn
<1>7. p \in Dir /\ d = Child[p][Last(q)]
  BY <1>6, TreeFacts DEF Follow, FoundDir
<1>8. d # Root /\ UpFits(d, p)
  BY <1>7, OneParent
<1>9. QED BY <1>5, <1>7, <1>8, TreeFacts DEF UpFits, Parent

LEMMA DirStepInv == TypeOK /\ PwdIsRight /\ [DirNext]_dirVars => TypeOK' /\ PwdIsRight'
<1> SUFFICES ASSUME TypeOK, PwdIsRight, [DirNext]_dirVars
             PROVE  TypeOK' /\ PwdIsRight'
  OBVIOUS
<1>0. Placed /\ astray \subseteq Reason
  BY DEF TypeOK, Placed
<1>a. <<>> \in Seq(Segment) /\ Len(<<>>) = 0 /\ Root \in FoundDir
  BY TreeFacts DEF FoundDir
<1>1. ASSUME NEW arg \in PathArg, ChangeRoot(arg)
      PROVE  TypeOK' /\ PwdIsRight'
  BY <1>1, <1>a, TreeFacts, LeadsEmpty DEF ChangeRoot, TypeOK, PwdIsRight
<1>2. ASSUME NEW arg \in PathArg, ChangeBack(arg)
      PROVE  TypeOK' /\ PwdIsRight'
  <2>1. dir # Root /\ dir' = Parent(dir) /\ dir' \in Dir
    <3>1. Back \in Segment /\ Lookup(dir, Back) # NoDir /\ dir \in Dir
      BY <1>0, <1>2 DEF ChangeBack, Placed, Segment
    <3>2. dir # Root
      BY <3>1, TreeFacts DEF Lookup
    <3>3. dir' = Follow(dir, Back) /\ dir' \in Dir
      BY <1>2, <3>1, LookupFollows DEF ChangeBack
    <3>4. QED BY <3>1, <3>2, <3>3, TreeFacts DEF Follow
  <2>2. CASE path = <<>>
    <3>1. path' = <<>> /\ astray' = astray
      BY <1>2, <2>2 DEF ChangeBack
    <3>2. astray # {}
      BY <1>a, <2>1, <2>2, LeadsEmpty DEF PwdIsRight
    <3>3. QED BY <1>0, <1>a, <2>1, <3>1, <3>2, TreeFacts DEF TypeOK, PwdIsRight
  <2>3. CASE path # <<>>
    <3>1. path' = Front(path) /\ astray' = IF Last(path) \notin Seg THEN astray \cup {"dots"} ELSE astray
      BY <1>2, <2>3 DEF ChangeBack
    <3>2. path' \in Seq(Segment) /\ Len(path') =< MaxDepth
      <4>1. PICK n \in Nat : Len(path) = n + 1 /\ n = Len(path) - 1
        BY <1>0, <2>3 DEF Placed
      <4>2. Front(path) \in Seq(Segment) /\ Len(Front(path)) = n
        BY <1>0, <4>1 DEF Placed, Front
      <4>3. QED BY <1>0, <3>1, <4>1, <4>2, TreeFacts DEF Placed
    <3>3. TypeOK'
      BY <1>0, <2>1, <3>1, <3>2 DEF TypeOK, Reason
    <3>4. ASSUME astray' = {} PROVE Leads(Root, path') = dir'
      <4>1. Last(path) \in Seg /\ astray = {}
        BY <3>1, <3>4
      <4>2. Leads(Root, path) = dir
        BY <4>1 DEF PwdIsRight
      <4>3. QED BY <1>0, <2>1, <2>3, <3>1, <4>1, <4>2, BackIsRight DEF Placed
    <3>5. QED BY <3>3, <3>4 DEF PwdIsRight
  <2>4. QED BY <2>2, <2>3
<1>3. ASSUME NEW arg \in PathArg, Change(arg)
      PROVE  TypeOK' /\ PwdIsRight'
  <2>1. arg \in Argument
    BY ArgIsArgument
  <2>2. PICK w \in WalkState : w = Walk(arg) /\ Len(w.path) =< MaxDepth
    BY <1>0, <2>1, WalkType
  <2>3. /\ dir' = IF w.ok THEN w.dir ELSE dir
        /\ path' = w.path
        /\ astray' = (IF arg.abs /\ w.ok THEN {} ELSE astray)
                       \cup (IF w.over THEN {"depth"} ELSE {})
                       \cup (IF w.ok \/ (~arg.abs /\ w.path = path) THEN {} ELSE {"failed"})
    BY <1>3, <2>2 DEF Change
  <2>4. TypeOK'
    BY <1>0, <2>2, <2>3 DEF TypeOK, Placed, Reason, WalkState
  <2>5. ASSUME astray' = {} PROVE Leads(Root, path') = dir'
    <3>1. ~w.over /\ (w.ok \/ w.path = path) /\ ((arg.abs /\ w.ok) \/ astray = {})
      BY <2>3, <2>5
    <3>2. CASE w.ok
      <4>1. Leads(Root, Begin(arg).path) = Begin(arg).dir
        <5>1. CASE arg.abs
          BY <1>a, <5>1, LeadsEmpty DEF Begin
        <5>2. CASE ~arg.abs
          BY <3>1, <5>2 DEF Begin, PwdIsRight
        <5>3. QED BY <5>1, <5>2
      <4>2. QED BY <1>0, <2>1, <2>2, <2>3, <3>1, <3>2, <4>1, WalkKeepsPath
    <3>3. CASE ~w.ok
      BY <2>3, <3>1, <3>3 DEF PwdIsRight
    <3>4. QED BY <3>2, <3>3
  <2>6. QED BY <2>4, <2>5 DEF PwdIsRight
<1>4. CASE UNCHANGED dirVars
  BY <1>4 DEF dirVars, TypeOK, PwdIsRight
<1>5. QED BY <1>1, <1>2, <1>3, <1>4 DEF DirNext

LEMMA DirInvariance == DirSpec => [](TypeOK /\ PwdIsRight)
  BY DirInitInv, DirStepInv, PTL DEF DirSpec

\* What `pwd' shows leads to the current directory of fs, in a tree of any shape.
THEOREM PathIsRight == DirSpec => []PwdIsRight
  BY DirInvariance, PTL

\* fat32_change_dir ends where its argument leads, and never in cluster 0.
THEOREM ChangesAreRight == DirSpec => []ChangeIsRight
<1>1. TypeOK => ChangeIsRight
  <2> SUFFICES ASSUME TypeOK, NEW arg \in PathArg, Walk(arg).ok
               PROVE  Walk(arg).dir = Leads(IF arg.abs THEN Root ELSE dir, arg.segs)
    BY DEF ChangeIsRight
  <2>1. arg \in Argument /\ Placed
    BY ArgIsArgument DEF TypeOK, Placed
  <2>2. Begin(arg).dir = IF arg.abs THEN Root ELSE dir
    BY DEF Begin
  <2>3. QED BY <2>1, <2>2, WalkLeads
<1>2. QED BY <1>1, DirInvariance, PTL

\* parse_path finds the directory a file's name leads to, or one with nothing in it.
THEOREM NamesAreNeverTakenWrong == DirSpec => []ParseNeverWrong
<1>1. TypeOK => ParseNeverWrong
  <2> SUFFICES ASSUME TypeOK, NEW arg \in PathArg, arg.segs # <<>>
               PROVE  Parse(arg) \in {ParsedDir(arg), 0, NoDir}
    BY DEF ParseNeverWrong, NamedFile
  <2>1. arg \in Argument /\ dir \in Dir
    BY ArgIsArgument DEF TypeOK
  <2>2. QED BY <2>1, ParseLeads
<1>2. QED BY <1>1, DirInvariance, PTL
=============================================================================
