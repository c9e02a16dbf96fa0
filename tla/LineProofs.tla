----------------------------- MODULE LineProofs -----------------------------
(***************************************************************************)
(* More proofs about Tap, for every width of the tty, prompt, window and   *)
(* set of keys: what the tap reads off the screen at a prompt is the line  *)
(* that readline edits.  The argument is one invariant, LineInv: the rows  *)
(* of the screen from the prompt's on show readline's line, place by       *)
(* place, and are marked as one logical line.  Each key is followed        *)
(* through the chunk readline answers it with, character by character      *)
(* through the model's parser (Fed), on such a page (Page) and then on the *)
(* line (LinePage); the reading comes last.                                *)
(***************************************************************************)
EXTENDS TapProofs

-----------------------------------------------------------------------------
(***************************************************************************)
(* A page: the rows of the screen from readline's line on.  F is what is   *)
(* seen at readline's offsets, n the row the line ends on, and rows 1 .. m *)
(* are marked as the rest of the row above, which is full.                 *)
(***************************************************************************)
RowShows(c, r, F) ==
    NoHalf(c) /\ Len(c) <= Width /\ \A k \in 0..(Width - 1) : Look(c, k) = F[(Width * r) + k]

Sheets(n) == {F \in [Nat -> Plain] : \A o \in Nat : RowAt(o) > n => F[o] = " "}

Ready(s) ==
    /\ onMain(s) /\ s.wrap = TRUE /\ s.insert = FALSE /\ s.origin = FALSE /\ s.unsure = FALSE
    /\ s.top = 0 /\ s.bottom = s.rows - 1 /\ s.cols = Width
    /\ s.state = "GROUND" /\ s.context = "shell"

Paged(s, y, m, n, F) ==
    /\ y + n < s.rows /\ m <= n
    /\ ~line(s, y).wrapped
    /\ \A j \in 1..m : line(s, y + j).wrapped /\ Len(line(s, y + (j - 1)).cells) = Width
    /\ \A i \in Nat : y + i < s.rows => RowShows(line(s, y + i).cells, i, F)

Placed1(s, y, m, n, F, r, x) == Ready(s) /\ s.y = y + r /\ s.x = x /\ Paged(s, y, m, n, F)

Page(R, m, n, F, r, x) ==
    {s \in Screens : s.rows = R /\ \E y \in Nat : Placed1(s, y, m, n, F, r, x)}

\* What is so of a page is so of an alike screen with the same rows.
LEMMA ReadyAlike ==
    ASSUME NEW s, NEW t, Ready(s), Alike(s, t), onMain(t) PROVE Ready(t)
  BY AlikeFields DEF Ready

LEMMA LinesAlike ==
    ASSUME NEW s, NEW t, onMain(s), t.main = s.main, t.alt = s.alt
    PROVE  onMain(t) /\ \A k : line(t, k) = line(s, k)
  BY DEF onMain, line, buf

LEMMA PageSame ==
    ASSUME NEW s, NEW t, t.rows = s.rows, \A k : line(t, k) = line(s, k),
           NEW y, NEW m, NEW n, NEW F, Paged(s, y, m, n, F)
    PROVE  Paged(t, y, m, n, F)
  BY DEF Paged

\* Rows other than i are as they were; so is what is seen on rows other than r.
OnlyRow(s, t, i) == \A k \in 0..(s.rows - 1) : k # i => line(t, k) = line(s, k)
OnlyOn(F, G, r) ==
    \A i \in Nat : i # r => \A k \in 0..(Width - 1) : G[(Width * i) + k] = F[(Width * i) + k]

\* A page on which one row is replaced.
LEMMA PageRow ==
    ASSUME NEW s \in Screens, NEW t \in Screens, t.rows = s.rows,
           NEW y \in Nat, NEW m \in Nat, NEW n \in Nat, NEW F, NEW G, Paged(s, y, m, n, F),
           NEW r \in Nat, y + r < s.rows,
           OnlyRow(s, t, y + r), RowShows(line(t, y + r).cells, r, G), OnlyOn(F, G, r),
           r = 0 => ~line(t, y + r).wrapped,
           r \in 1..m => line(t, y + r).wrapped,
           r < m => Len(line(t, y + r).cells) = Width
    PROVE  Paged(t, y, m, n, G)
<1>1. s.rows \in Nat /\ y + n < s.rows /\ m <= n
  BY ScreenNumbers DEF Paged
<1>2. \A i \in Nat : y + i < s.rows /\ i # r => line(t, y + i) = line(s, y + i)
  BY <1>1 DEF OnlyRow
<1>3. ~line(t, y).wrapped
  <2>1. ~line(s, y).wrapped /\ y + 0 = y
    BY DEF Paged
  <2>2. CASE r = 0
    BY <2>1, <2>2
  <2>3. CASE r # 0
    <3>1. line(t, y + 0) = line(s, y + 0)
      BY <1>1, <1>2, <2>3
    <3> QED BY <2>1, <3>1
  <2> QED BY <2>2, <2>3
<1>4. ASSUME NEW j \in 1..m
      PROVE  line(t, y + j).wrapped /\ Len(line(t, y + (j - 1)).cells) = Width
  <2>1. line(s, y + j).wrapped /\ Len(line(s, y + (j - 1)).cells) = Width
    BY DEF Paged
  <2>2. j \in Nat /\ j - 1 \in Nat /\ y + j < s.rows /\ y + (j - 1) < s.rows
    BY <1>1
  <2>3. line(t, y + j).wrapped
    BY <1>2, <2>1, <2>2
  <2>4. Len(line(t, y + (j - 1)).cells) = Width
    <3>1. CASE j - 1 = r
      <4>1. r < m
        BY <3>1
      <4> QED BY <3>1, <4>1
    <3>2. CASE j - 1 # r
      BY <1>2, <2>1, <2>2, <3>2
    <3> QED BY <3>1, <3>2
  <2> QED BY <2>3, <2>4
<1>5. ASSUME NEW i \in Nat, y + i < s.rows PROVE RowShows(line(t, y + i).cells, i, G)
  <2>1. CASE i = r
    BY <2>1
  <2>2. CASE i # r
    <3>1. RowShows(line(s, y + i).cells, i, F) /\ line(t, y + i) = line(s, y + i)
      BY <1>2, <1>5, <2>2 DEF Paged
    <3> QED BY <2>2, <3>1 DEF RowShows, OnlyOn
  <2> QED BY <2>1, <2>2
<1> QED BY <1>1, <1>3, <1>4, <1>5 DEF Paged

\* A page with less said of it.
LEMMA PageLess ==
    ASSUME NEW s, NEW y, NEW m \in Nat, NEW n \in Nat, NEW F, Paged(s, y, m, n, F),
           NEW l \in Nat, l <= m
    PROVE  Paged(s, y, l, n, F)
<1>1. \A j \in 1..l : j \in 1..m
  OBVIOUS
<1>2. m <= n
  BY DEF Paged
<1>3. l <= n
  BY <1>2
<1> QED BY <1>1, <1>3 DEF Paged

\* The row the cursor is on.
LEMMA RowsSeen ==
    ASSUME NEW s \in Screens, NEW y \in Nat, NEW m \in Nat, NEW n \in Nat, NEW F, Paged(s, y, m, n, F),
           NEW r \in Nat, s.y = y + r
    PROVE  /\ y + r < s.rows /\ RowShows(cellsAt(s), r, F) /\ cellsAt(s) = line(s, y + r).cells
           /\ (r = 0 => ~line(s, y + r).wrapped) /\ (r \in 1..m => line(s, y + r).wrapped)
           /\ (r < m => Len(cellsAt(s)) = Width)
<1>1. y + r < s.rows
  BY ScreenNumbers
<1>2. r = 0 => ~line(s, y + r).wrapped
  <2>1. y + 0 = y
    OBVIOUS
  <2> QED BY <2>1 DEF Paged
<1>3. r < m => Len(cellsAt(s)) = Width
  <2>1. SUFFICES ASSUME r < m PROVE Len(cellsAt(s)) = Width
    OBVIOUS
  <2>2. r + 1 \in 1..m /\ (r + 1) - 1 = r
    BY <2>1
  <2>3. Len(line(s, y + ((r + 1) - 1)).cells) = Width
    BY <2>2 DEF Paged
  <2> QED BY <2>2, <2>3 DEF cellsAt
<1>4. cellsAt(s) = line(s, y + r).cells
  BY DEF cellsAt
<1> QED BY <1>1, <1>2, <1>3, <1>4 DEF Paged

\* Below the line nothing is seen.
LEMMA BlankRow ==
    ASSUME NEW n \in Nat, NEW F \in Sheets(n), NEW r \in Nat, r > n
    PROVE  RowShows(<<>>, r, F) /\ \A k \in 0..(Width - 1) : F[(Width * r) + k] = " "
<1>1. ASSUME NEW k \in 0..(Width - 1) PROVE F[(Width * r) + k] = " "
  <2>1. k \in Nat /\ k < Width
    BY WidthIs
  <2>2. (Width * r) + k \in Nat /\ RowAt((Width * r) + k) = r
    BY <2>1, OffsetOf
  <2> QED BY <2>2 DEF Sheets
<1>2. NoHalf(<<>>) /\ Len(<<>>) = 0
  BY EmptySeq DEF NoHalf
<1>3. \A k \in 0..(Width - 1) : Look(<<>>, k) = " "
  <2>1. PICK c : c = <<>>
    OBVIOUS
  <2>2. Len(c) = 0
    BY <1>2, <2>1
  <2>3. ASSUME NEW k \in 0..(Width - 1) PROVE Look(c, k) = " "
    <3>1. k \in Int /\ k \notin 0..(Len(c) - 1)
      BY <2>2, WidthIs
    <3> QED BY <3>1 DEF Look, Cell
  <2> QED BY <2>1, <2>3
<1>4. Len(<<>>) <= Width
  BY <1>2, WidthIs
<1> QED BY <1>1, <1>2, <1>3, <1>4 DEF RowShows
-----------------------------------------------------------------------------
(***************************************************************************)
(* The cursor goes down.                                                   *)
(***************************************************************************)
\* Scrolling by one row.
LEMMA ScrolledOnce ==
    ASSUME NEW s \in Screens PROVE scrollUp(s, 1) = scrollUp1(s)
<1> DEFINE D(f) == f = [k \in 0..1 |-> IF k = 0 THEN s ELSE scrollUp1(f[k - 1])]
           h == CHOOSE f : D(f)
           g == [k \in 0..1 |-> IF k = 0 THEN s ELSE scrollUp1(s)]
<1>1. D(g)
  <2>1. g[0] = s /\ g[1] = scrollUp1(s)
    OBVIOUS
  <2>2. ASSUME NEW k \in 0..1 PROVE g[k] = IF k = 0 THEN s ELSE scrollUp1(g[k - 1])
    <3>1. k = 0 \/ (k = 1 /\ k - 1 = 0)
      OBVIOUS
    <3> HIDE DEF g
    <3> QED BY <2>1, <3>1
  <2> QED BY <2>2
<1>2. D(h)
  <2> HIDE DEF g
  <2> QED BY <1>1
<1> HIDE DEF h
<1>3. h[0] = s /\ h[1] = scrollUp1(h[0])
  BY <1>2
<1>4. scrollUp(s, 1) = h[1]
  BY DEF scrollUp, Repeat, h
<1> QED BY <1>3, <1>4

\* The rows down to r are there as they were, now from z on.
RowsKept(s, t, y, z, r) == \A i \in 0..r : line(t, z + i) = line(s, y + i)

\* The cursor goes down on the page; on the bottom row the page goes up.
LEMMA BelowOnPage ==
    ASSUME NEW s \in Screens, NEW y \in Nat, NEW m \in Nat, NEW n \in Nat, NEW F \in Sheets(n),
           NEW r \in Nat, NEW x \in Nat, Placed1(s, y, m, n, F, r, x), r <= n, r + 1 < s.rows
    PROVE  /\ below(s) \in Screens /\ below(s).rows = s.rows
           /\ \E z \in Nat : /\ Placed1(below(s), z, m, Most(n, r + 1), F, r + 1, x)
                            /\ RowsKept(s, below(s), y, z, r)
<1>1. /\ Ready(s) /\ s.y = y + r /\ s.x = x /\ Paged(s, y, m, n, F) /\ onMain(s)
      /\ s.top = 0 /\ s.bottom = s.rows - 1
  BY DEF Placed1, Ready
<1>2. s.rows \in Nat /\ s.y < s.rows /\ y + n < s.rows /\ m <= n
  BY <1>1, ScreenNumbers DEF Paged
<1> DEFINE N == Most(n, r + 1)
           t == below(s)
<1>3. t \in Screens
  BY CursorBelow
<1>30. N \in Nat /\ n <= N /\ r + 1 <= N /\ (N = n \/ N = r + 1) /\ m <= N
  BY <1>2 DEF Most
<1> HIDE DEF N
<1>4. CASE s.y = s.bottom
  <2>1. t = scrollOff(s)
    BY <1>1, <1>4, ScrolledOnce DEF below, scrollUp1
  <2>20. onMain(s) /\ s.bottom = s.rows - 1
    BY <1>1
  <2>21. onMain(t) /\ Alike(s, t)
    BY <2>1, <2>20, RowsUp
  <2>22. t.x = s.x /\ t.y = s.y
    BY <2>1, <2>20, RowsUp
  <2>23. \A k \in 0..(s.rows - 2) : line(t, k) = line(s, k + 1)
    BY <2>1, <2>20, RowsUp
  <2>24. line(t, s.rows - 1) = newRow
    BY <2>1, <2>20, RowsUp
  <2>2. /\ onMain(t) /\ Alike(s, t) /\ t.x = s.x /\ t.y = s.y
        /\ \A k \in 0..(s.rows - 2) : line(t, k) = line(s, k + 1)
        /\ line(t, s.rows - 1) = newRow
    BY <2>21, <2>22, <2>23, <2>24
  <2> HIDE DEF t
  <2>3. y + r = s.rows - 1 /\ y >= 1 /\ n = r /\ N = r + 1
    BY <1>1, <1>2, <1>4, <1>30
  <2>4. t.rows = s.rows /\ Ready(t)
    BY <1>1, <2>2, AlikeFields, ReadyAlike
  <2> DEFINE z == y - 1
  <2>5. z \in Nat /\ z + 1 = y /\ t.y = z + (r + 1) /\ z + N < s.rows
    BY <1>1, <1>2, <2>2, <2>3
  <2> HIDE DEF z
  <2>6. ASSUME NEW i \in Nat, i <= n PROVE line(t, z + i) = line(s, y + i)
    <3>1. z + i \in 0..(s.rows - 2) /\ (z + i) + 1 = y + i
      BY <1>2, <2>3, <2>5, <2>6
    <3> QED BY <2>2, <3>1
  <2>7. Paged(t, z, m, N, F)
    <3>1. ~line(t, z).wrapped
      <4>1. z + 0 = z /\ y + 0 = y /\ 0 \in Nat /\ 0 <= n
        BY <2>5
      <4>2. line(t, z + 0) = line(s, y + 0)
        BY <2>6, <4>1
      <4>3. ~line(s, y).wrapped
        BY <1>1 DEF Paged
      <4> QED BY <4>1, <4>2, <4>3
    <3>2. ASSUME NEW j \in 1..m
          PROVE  line(t, z + j).wrapped /\ Len(line(t, z + (j - 1)).cells) = Width
      <4>1. line(s, y + j).wrapped /\ Len(line(s, y + (j - 1)).cells) = Width
        BY <1>1 DEF Paged
      <4>2. j \in Nat /\ j <= n /\ j - 1 \in Nat /\ j - 1 <= n
        BY <1>2
      <4> QED BY <2>6, <4>1, <4>2
    <3>3. ASSUME NEW i \in Nat, z + i < t.rows PROVE RowShows(line(t, z + i).cells, i, F)
      <4>1. CASE i <= n
        <5>1. y + i < s.rows
          BY <1>2, <4>1
        <5> QED BY <1>1, <2>6, <4>1, <5>1 DEF Paged
      <4>2. CASE ~(i <= n)
        <5>1. i > n /\ z + i = s.rows - 1
          BY <1>2, <2>3, <2>4, <2>5, <3>3, <4>2
        <5>2. line(t, z + i).cells = <<>>
          BY <2>2, <5>1 DEF newRow
        <5> QED BY <5>1, <5>2, BlankRow
      <4> QED BY <4>1, <4>2
    <3> QED BY <1>30, <2>4, <2>5, <3>1, <3>2, <3>3 DEF Paged
  <2>8. t.x = x
    BY <1>1, <2>2
  <2>9. Placed1(t, z, m, N, F, r + 1, x)
    BY <2>4, <2>5, <2>7, <2>8 DEF Placed1
  <2>10. RowsKept(s, t, y, z, r)
    BY <2>3, <2>6 DEF RowsKept
  <2> QED BY <1>3, <2>4, <2>5, <2>9, <2>10 DEF t, N
<1>5. CASE s.y # s.bottom
  <2>1. Least(s.y + 1, s.rows - 1) = s.y + 1 /\ s.y + 1 \in Nat /\ s.y + 1 < s.rows
    BY <1>1, <1>2, <1>5 DEF Least
  <2>2. t = [s EXCEPT !.y = s.y + 1]
    BY <1>5, <2>1 DEF below
  <2>30. PICK v \in Nat : v = s.y + 1
    BY <2>1
  <2>31. t = [s EXCEPT !.y = v]
    BY <2>2, <2>30
  <2> HIDE DEF t
  <2>3. Alike(s, t) /\ t.x = s.x /\ t.y = s.y + 1 /\ t.main = s.main /\ t.alt = s.alt
    BY <2>30, <2>31, RowAlike
  <2> HIDE DEF t
  <2>4. Ready(t) /\ t.rows = s.rows /\ \A k : line(t, k) = line(s, k)
    BY <1>1, <2>3, LinesAlike, ReadyAlike, AlikeFields
  <2>5. Paged(t, y, m, n, F)
    BY <1>1, <2>4, PageSame
  <2>6. y + N < t.rows
    BY <1>1, <1>2, <1>30, <2>1, <2>4
  <2>7. Paged(t, y, m, N, F)
    BY <1>30, <2>5, <2>6 DEF Paged
  <2>8. t.y = y + (r + 1) /\ t.x = x
    BY <1>1, <2>3
  <2>9. Placed1(t, y, m, N, F, r + 1, x)
    BY <2>4, <2>7, <2>8 DEF Placed1
  <2>10. RowsKept(s, t, y, y, r)
    BY <2>4 DEF RowsKept
  <2> QED BY <1>3, <2>4, <2>9, <2>10 DEF t, N
<1> QED BY <1>4, <1>5

-----------------------------------------------------------------------------
(***************************************************************************)
(* A character on the page.                                                *)
(***************************************************************************)
\* A plain character is one column wide and neither control nor half.
LEMMA PlainIs ==
    ASSUME NEW c \in Plain
    PROVE  c \in Chars /\ c \notin Controls /\ width(c) = 1 /\ c # Undefined /\ c # Half
<1>1. c \in Chars /\ c \notin Controls /\ c # WideChar /\ c # Mark
  BY DEF Plain
<1>2. width(c) = 1
  BY <1>1, Zenon DEF width
<1>3. c # Undefined /\ c # Half
  BY <1>1, ScreenAssumption DEF Undefined, Half
<1> QED BY <1>1, <1>2, <1>3

\* A space is plain.
LEMMA SpaceIsPlain == " " \in Plain
  BY Signs DEF Plain, Controls, C0, C1, WideChar, Mark

\* It is printed at the cursor.
LEMMA PlainFed ==
    ASSUME NEW s \in Screens, s.state = "GROUND", NEW c \in Plain
    PROVE  feed(s, c) = printAt(placed(s, 1), c, 1) /\ feed(s, c) \in Screens
<1>1. c \in Chars /\ c \notin Controls /\ width(c) = 1
  BY PlainIs
<1>2. feed(s, c) = ground(s, c)
  BY DEF feed
<1>3. c # "ESC" /\ c # "CSI" /\ c # "OSC" /\ c # "DCS"
  BY <1>1 DEF Controls, C1
<1>4. ground(s, c) = print(s, c)
  BY <1>1, <1>3, Zenon DEF ground
<1>5. print(s, c) = printAt(placed(s, 1), c, 1)
  BY <1>1 DEF print
<1> QED BY <1>1, <1>2, <1>4, <1>5, CharRead

\* One sheet, with c at column x of row r.
With(F, r, x, c) == [F EXCEPT ![(Width * r) + x] = c]

\* A character seen at one place: all else is seen as before.
LEMMA WithIs ==
    ASSUME NEW n \in Nat, NEW F \in Sheets(n), NEW r \in Nat, r <= n, NEW x \in Nat, x < Width,
           NEW c \in Plain
    PROVE  LET G == With(F, r, x, c) IN
           /\ G \in Sheets(n) /\ G[(Width * r) + x] = c
           /\ \A o \in Nat : o # (Width * r) + x => G[o] = F[o]
           /\ OnlyOn(F, G, r)
           /\ \A k \in 0..(Width - 1) : k # x => G[(Width * r) + k] = F[(Width * r) + k]
<1> DEFINE p == (Width * r) + x
           G == With(F, r, x, c)
<1>1. p \in Nat /\ RowAt(p) = r /\ ColAt(p) = x
  BY OffsetOf
<1>2. F \in [Nat -> Plain] /\ \A o \in Nat : RowAt(o) > n => F[o] = " "
  BY DEF Sheets
<1>3. G = [F EXCEPT ![p] = c]
  BY DEF With
<1> HIDE DEF p, G
<1>4. G \in [Nat -> Plain] /\ G[p] = c /\ \A o \in Nat : o # p => G[o] = F[o]
  BY <1>1, <1>2, <1>3
<1>5. ASSUME NEW o \in Nat, RowAt(o) > n PROVE G[o] = " "
  <2>1. o # p
    BY <1>1, <1>5
  <2> QED BY <1>2, <1>4, <1>5, <2>1
<1>6. ASSUME NEW i \in Nat, NEW k \in 0..(Width - 1), i # r \/ k # x
      PROVE  G[(Width * i) + k] = F[(Width * i) + k]
  <2>1. k \in Nat /\ k < Width
    BY WidthIs
  <2>2. (Width * i) + k \in Nat /\ RowAt((Width * i) + k) = i /\ ColAt((Width * i) + k) = k
    BY <2>1, OffsetOf
  <2>3. (Width * i) + k # p
    BY <1>1, <1>6, <2>2
  <2> QED BY <1>4, <2>2, <2>3
<1>7. G \in Sheets(n)
  BY <1>4, <1>5 DEF Sheets
<1> QED BY <1>4, <1>6, <1>7 DEF p, G, OnlyOn

\* The row it is written into.
LEMMA RowWith ==
    ASSUME NEW n \in Nat, NEW F \in Sheets(n), NEW r \in Nat, r <= n, NEW x \in Nat, x < Width,
           NEW ch \in Plain, NEW c, RowShows(c, r, F)
    PROVE  LET o == overwritten(c, x, ch, 1) IN
           RowShows(o, r, With(F, r, x, ch)) /\ Len(o) = Most(Len(c), x + 1)
<1> DEFINE o == overwritten(c, x, ch, 1)
           G == With(F, r, x, ch)
<1>1. NoHalf(c) /\ Len(c) <= Width /\ \A k \in 0..(Width - 1) : Look(c, k) = F[(Width * r) + k]
  BY DEF RowShows
<1>2. ch \in Chars /\ ch # Undefined
  BY PlainIs
<1>3. NoHalf(o)
  BY <1>1, <1>2, OverwrittenPlain
<1>4. Len(o) = Most(Len(c), x + 1)
  BY ONLY <1>1, <1>2, x \in Nat, OverwrittenPlain
<1>5. \A k \in Nat : Cell(o, k) = IF k = x THEN ch ELSE Cell(c, k)
  <2>1. NoHalf(c) /\ ch \in Chars
    BY <1>1, <1>2
  <2>2. Edited(c, o, x, ch)
    BY <2>1, OverwrittenPlain
  <2> QED BY <2>2 DEF Edited
<1>6. G[(Width * r) + x] = ch /\ \A k \in 0..(Width - 1) : k # x => G[(Width * r) + k] = F[(Width * r) + k]
  BY WithIs
<1> HIDE DEF o, G
<1>7. ASSUME NEW k \in 0..(Width - 1) PROVE Look(o, k) = G[(Width * r) + k]
  <2>0. k \in Nat
    BY WidthIs
  <2>1. CASE k = x
    <3>1. Cell(o, k) = ch
      BY <1>5, <2>0, <2>1
    <3>2. Look(o, k) = ch
      BY <1>2, <3>1 DEF Look
    <3> QED BY <1>6, <2>1, <3>2
  <2>2. CASE k # x
    <3>1. Cell(o, k) = Cell(c, k)
      BY <1>5, <2>0, <2>2
    <3>2. Look(o, k) = Look(c, k)
      BY <3>1 DEF Look
    <3> QED BY <1>1, <1>6, <2>2, <3>2
  <2> QED BY <2>1, <2>2
<1>8. Len(o) <= Width
  <2>1. Len(c) \in Nat
    BY <1>1, LenProperties DEF NoHalf
  <2> QED BY <1>1, <1>4, <2>1, WidthIs DEF Most
<1> QED BY <1>3, <1>4, <1>7, <1>8 DEF RowShows, o, G

\* What printing does to the rows.
LEMMA PutAt ==
    ASSUME NEW s \in Screens, Ready(s), s.x < Width, NEW c \in Plain
    PROVE  LET t == printAt(s, c, 1) IN
           /\ t \in Screens /\ onMain(t) /\ Alike(s, t) /\ t.x = s.x + 1 /\ t.y = s.y
           /\ line(t, s.y).cells = overwritten(cellsAt(s), s.x, c, 1)
           /\ line(t, s.y).wrapped = line(s, s.y).wrapped
           /\ OnlyRow(s, t, s.y)
<1> DEFINE o == overwritten(cellsAt(s), s.x, c, 1)
           l == [line(s, s.y) EXCEPT !.cells = o]
           u == withLine(s, s.y, l)
           t == printAt(s, c, 1)
<1>1. s.x \in Nat /\ s.y \in Nat /\ s.y < s.rows /\ s.cols = Width /\ s.insert = FALSE /\ onMain(s)
      /\ s.x + 1 <= s.cols
  BY ScreenNumbers, WidthIs DEF Ready
<1>2. c \in Chars
  BY PlainIs
<1>3. cellsAt(s) \in Cells /\ line(s, s.y) \in Row
  BY CellsMove
<1>4. o \in Cells
  BY <1>1, <1>2, <1>3, OverwrittenCells
<1>5. t = [u EXCEPT !.x = @ + 1]
  BY <1>1 DEF printAt, withCells
<1> HIDE DEF o
<1>6. l \in Row /\ l.cells = o /\ l.wrapped = line(s, s.y).wrapped
  BY <1>3, <1>4 DEF Row
<1> HIDE DEF l
<1>7. u \in Screens /\ onMain(u) /\ Alike(s, u)
  BY <1>1, <1>6, RowPut
<1>8. u.x = s.x /\ u.y = s.y
  BY <1>1, <1>6, RowPut
<1>9. line(u, s.y) = l
  BY <1>1, <1>6, RowPut
<1>10. \A k \in 0..(s.rows - 1) : k # s.y => line(u, k) = line(s, k)
  BY <1>1, <1>6, RowPut
<1> HIDE DEF u
<1>11. t = [u EXCEPT !.x = s.x + 1] /\ s.x + 1 \in Nat
  BY <1>1, <1>5, <1>8
<1>12. t \in Screens
  <2>2. s.x + 1 <= s.cols /\ 1 \in {1, 2} /\ (1 = 2 => c = WideChar)
    BY <1>1
  <2> QED BY <1>2, <2>2, PrintedAt
<1> HIDE DEF t
<1>13. Alike(u, t) /\ t.x = s.x + 1 /\ t.y = u.y /\ t.main = u.main /\ t.alt = u.alt
  BY <1>7, <1>11, ColumnAlike
<1>14. onMain(t) /\ \A k : line(t, k) = line(u, k)
  BY <1>7, <1>13, LinesAlike
<1>15. Alike(s, t)
  BY <1>7, <1>13, AlikeChain
<1>16. OnlyRow(s, t, s.y)
  BY <1>10, <1>14 DEF OnlyRow
<1> QED BY <1>6, <1>8, <1>9, <1>12, <1>13, <1>14, <1>15, <1>16 DEF t, o

\* Written at the cursor, the page shows it and the cursor is behind it.
LEMMA PutOnPage ==
    ASSUME NEW s \in Screens, NEW y \in Nat, NEW m \in Nat, NEW n \in Nat, NEW F \in Sheets(n),
           NEW r \in Nat, r <= n, NEW x \in Nat, x < Width, Placed1(s, y, m, n, F, r, x),
           NEW c \in Plain
    PROVE  LET t == printAt(s, c, 1) IN
           /\ t \in Screens /\ t.rows = s.rows
           /\ Placed1(t, y, m, n, With(F, r, x, c), r, x + 1)
           /\ Len(cellsAt(t)) = Most(Len(cellsAt(s)), x + 1)
<1> DEFINE t == printAt(s, c, 1)
           G == With(F, r, x, c)
           o == overwritten(cellsAt(s), x, c, 1)
<1>1. Ready(s) /\ s.y = y + r /\ s.x = x /\ Paged(s, y, m, n, F)
  BY DEF Placed1
<1>2. /\ t \in Screens /\ onMain(t) /\ Alike(s, t)
  BY <1>1, PutAt
<1>3. t.x = x + 1 /\ t.y = s.y
  BY <1>1, PutAt
<1>4. line(t, s.y).cells = o /\ line(t, s.y).wrapped = line(s, s.y).wrapped
  BY <1>1, PutAt
<1>5. OnlyRow(s, t, s.y)
  BY <1>1, PutAt
<1> HIDE DEF t
<1>6. /\ y + r < s.rows /\ RowShows(cellsAt(s), r, F)
      /\ (r = 0 => ~line(s, y + r).wrapped) /\ (r \in 1..m => line(s, y + r).wrapped)
      /\ (r < m => Len(cellsAt(s)) = Width)
  BY <1>1, RowsSeen
<1>7. RowShows(o, r, G) /\ Len(o) = Most(Len(cellsAt(s)), x + 1)
  BY <1>6, RowWith
<1>8. t.rows = s.rows /\ Ready(t)
  BY <1>1, <1>2, ReadyAlike, AlikeFields
<1>9. OnlyOn(F, G, r)
  BY WithIs
<1> HIDE DEF G, o
<1>10. r < m => Len(o) = Width
  BY <1>6, <1>7, WidthIs DEF Most
<1>11. Paged(t, y, m, n, G)
  <2>1. line(t, y + r).cells = o /\ line(t, y + r).wrapped = line(s, y + r).wrapped
    BY <1>1, <1>4
  <2>2. /\ RowShows(line(t, y + r).cells, r, G)
        /\ (r = 0 => ~line(t, y + r).wrapped) /\ (r \in 1..m => line(t, y + r).wrapped)
        /\ (r < m => Len(line(t, y + r).cells) = Width)
    BY <1>6, <1>7, <1>10, <2>1
  <2>3. OnlyRow(s, t, y + r)
    BY <1>1, <1>5
  <2>4. t \in Screens /\ t.rows = s.rows /\ Paged(s, y, m, n, F) /\ y + r < s.rows
    BY <1>1, <1>2, <1>6, <1>8
  <2>5. y \in Nat /\ m \in Nat /\ n \in Nat /\ r \in Nat /\ s \in Screens
    OBVIOUS
  <2> QED BY ONLY <1>9, <2>2, <2>3, <2>4, <2>5, PageRow
<1>12. Placed1(t, y, m, n, G, r, x + 1)
  BY <1>1, <1>3, <1>8, <1>11 DEF Placed1
<1>13. Len(cellsAt(t)) = Most(Len(cellsAt(s)), x + 1)
  BY <1>3, <1>4, <1>7 DEF cellsAt
<1> QED BY <1>2, <1>8, <1>12, <1>13 DEF t, G

-----------------------------------------------------------------------------
(***************************************************************************)
(* What is printed, on the page.                                           *)
(***************************************************************************)
\* What a page is, unfolded and folded.
LEMMA OnPage ==
    ASSUME NEW R, NEW m, NEW n, NEW F, NEW r, NEW x, NEW s, s \in Page(R, m, n, F, r, x)
    PROVE  /\ s \in Screens /\ s.rows = R
           /\ \E y \in Nat : Placed1(s, y, m, n, F, r, x)
  BY DEF Page

LEMMA ToPage ==
    ASSUME NEW R, NEW m, NEW n, NEW F, NEW r, NEW x, NEW s \in Screens, s.rows = R,
           NEW y \in Nat, Placed1(s, y, m, n, F, r, x)
    PROVE  s \in Page(R, m, n, F, r, x)
  BY DEF Page

\* A character that does not fill its row.
LEMMA CharOnPage ==
    ASSUME NEW R, NEW m \in Nat, NEW n \in Nat, NEW F \in Sheets(n), NEW r \in Nat, r <= n,
           NEW x \in Nat, x < Width, NEW c \in Plain, NEW s \in Page(R, m, n, F, r, x)
    PROVE  feed(s, c) \in Page(R, m, n, With(F, r, x, c), r, x + 1)
<1>1. s \in Screens /\ s.rows = R
  BY OnPage
<1>2. PICK y \in Nat : Placed1(s, y, m, n, F, r, x)
  BY OnPage
<1>3. Ready(s) /\ s.x = x
  BY <1>2 DEF Placed1
<1>4. s.state = "GROUND" /\ s.x + 1 <= s.cols
  BY <1>3, WidthIs DEF Ready
<1>5. feed(s, c) = printAt(s, c, 1)
  BY <1>1, <1>4, PlainFed DEF placed
<1> DEFINE t == printAt(s, c, 1)
           G == With(F, r, x, c)
<1>6. t \in Screens /\ t.rows = s.rows
  BY <1>1, <1>2, PutOnPage
<1>7. Placed1(t, y, m, n, G, r, x + 1)
  BY <1>1, <1>2, PutOnPage
<1> HIDE DEF t, G
<1>8. t \in Page(R, m, n, G, r, x + 1)
  BY <1>1, <1>6, <1>7, ToPage
<1> QED BY <1>5, <1>8 DEF t, G

\* The next row becomes the rest of a full one.
LEMMA WrapOnPage ==
    ASSUME NEW s \in Screens, NEW y \in Nat, NEW m \in Nat, NEW n \in Nat, NEW F \in Sheets(n),
           NEW r \in Nat, Placed1(s, y, m, n, F, r, Width), r <= m, r <= n, r + 1 < s.rows,
           Len(cellsAt(s)) = Width
    PROVE  LET t == placed(s, 1) IN
           /\ t \in Screens /\ t.rows = s.rows
           /\ \E z \in Nat : Placed1(t, z, Most(m, r + 1), Most(n, r + 1), F, r + 1, 0)
<1> DEFINE b == below(s)
           d == [b EXCEPT !.x = 0]
           l == [line(d, d.y) EXCEPT !.wrapped = TRUE]
           t == placed(s, 1)
           M == Most(m, r + 1)
           N == Most(n, r + 1)
<1>1. Ready(s) /\ s.x = Width /\ s.cols = Width /\ s.wrap = TRUE /\ Paged(s, y, m, n, F)
  BY DEF Placed1, Ready
<1>2. ~(s.x + 1 <= s.cols)
  BY <1>1, WidthIs
<1>3. t = withLine(d, d.y, l)
  BY <1>1, <1>2 DEF placed
<1>4. t \in Screens
  BY Placed, 1 \in {1, 2}
<1>5. Width \in Nat
  BY WidthIs
<1>6. b \in Screens /\ b.rows = s.rows
  BY <1>5, BelowOnPage
<1>7. PICK z \in Nat : Placed1(b, z, m, N, F, r + 1, Width) /\ RowsKept(s, b, y, z, r)
  BY <1>5, BelowOnPage
<1>70. m <= n
  BY <1>1 DEF Paged
<1>8. /\ N \in Nat /\ M \in Nat /\ r + 1 <= M /\ m <= M /\ M <= N /\ n <= N
      /\ (M = m \/ (M = r + 1 /\ m = r))
  BY <1>70 DEF Most
<1> HIDE DEF M, N, b, t, l
<1>9. Ready(b) /\ b.y = z + (r + 1) /\ Paged(b, z, m, N, F) /\ onMain(b)
  BY <1>7 DEF Placed1, Ready
<1>10. Alike(b, d) /\ d.x = 0 /\ d.y = b.y /\ d.main = b.main /\ d.alt = b.alt
  <2> HIDE DEF d
  <2>1. d = [b EXCEPT !.x = 0] /\ 0 \in Nat
    BY DEF d
  <2> QED BY <1>6, <2>1, ColumnAlike
<1>11. d \in Screens
  <2>1. 0 \in Nat /\ 0 <= b.cols
    BY <1>6, ScreenNumbers
  <2> QED BY <1>6, <2>1, CursorMoves
<1> HIDE DEF d
<1>12. onMain(d) /\ \A k : line(d, k) = line(b, k)
  BY <1>9, <1>10, LinesAlike
<1>13. Ready(d) /\ d.rows = s.rows
  BY <1>6, <1>9, <1>10, <1>12, ReadyAlike, AlikeFields
<1>14. Paged(d, z, m, N, F)
  <2>1. d.rows = b.rows
    BY <1>6, <1>13
  <2> QED BY <1>9, <1>12, <2>1, PageSame
<1>15. d.y \in Nat /\ d.y < d.rows /\ d.y = z + (r + 1)
  BY <1>9, <1>10, <1>11, ScreenNumbers
<1>16. /\ RowShows(cellsAt(d), r + 1, F) /\ cellsAt(d) = line(d, z + (r + 1)).cells
       /\ (r + 1 < m => Len(cellsAt(d)) = Width)
  <2>1. PICK q \in Nat : q = r + 1
    OBVIOUS
  <2>2. d.y = z + q
    BY <1>15, <2>1
  <2>3. RowShows(cellsAt(d), q, F)
    BY <1>8, <1>11, <1>14, <2>2, RowsSeen
  <2>4. cellsAt(d) = line(d, z + q).cells
    BY <2>2 DEF cellsAt
  <2>5. q < m => Len(cellsAt(d)) = Width
    BY <1>8, <1>11, <1>14, <2>2, RowsSeen
  <2> QED BY <2>1, <2>3, <2>4, <2>5
<1>17. line(d, d.y) \in Row
  BY <1>11, <1>15, LineOf
<1>18. l \in Row /\ l.wrapped = TRUE /\ l.cells = line(d, d.y).cells
  BY <1>17 DEF l, Row
<1>19. onMain(t) /\ Alike(d, t)
  BY <1>3, <1>11, <1>12, <1>15, <1>18, RowPut
<1>20. t.x = d.x /\ t.y = d.y /\ line(t, d.y) = l
  BY <1>3, <1>11, <1>12, <1>15, <1>18, RowPut
<1>21. \A k \in 0..(d.rows - 1) : k # d.y => line(t, k) = line(d, k)
  BY <1>3, <1>11, <1>12, <1>15, <1>18, RowPut
<1>22. t.rows = s.rows /\ Ready(t)
  BY <1>13, <1>19, ReadyAlike, AlikeFields
<1>23. Paged(t, z, m, N, F)
  <2>1. OnlyRow(d, t, z + (r + 1))
    BY <1>15, <1>21 DEF OnlyRow
  <2>2. RowShows(line(t, z + (r + 1)).cells, r + 1, F) /\ line(t, z + (r + 1)).wrapped
        /\ (r + 1 < m => Len(line(t, z + (r + 1)).cells) = Width)
    BY <1>15, <1>16, <1>18, <1>20
  <2>3. OnlyOn(F, F, r + 1)
    BY DEF OnlyOn
  <2>4. t.rows = d.rows /\ r + 1 \in Nat /\ z + (r + 1) < d.rows /\ r + 1 # 0
    BY <1>13, <1>15, <1>22
  <2> QED BY ONLY <1>4, <1>8, <1>11, <1>14, <2>1, <2>2, <2>3, <2>4, z \in Nat, m \in Nat, PageRow
<1>24. Len(line(t, z + r).cells) = Width /\ line(t, z + (r + 1)).wrapped
  <2>1. line(t, z + (r + 1)).wrapped
    BY <1>15, <1>18, <1>20
  <2>2. Len(line(t, z + r).cells) = Width
    <3>1. CASE r < m
      <4>1. r + 1 \in 1..m /\ (r + 1) - 1 = r
        BY <3>1
      <4>2. Len(line(t, z + ((r + 1) - 1)).cells) = Width
        BY <1>23, <4>1 DEF Paged
      <4> QED BY <4>1, <4>2
    <3>2. CASE ~(r < m)
      <4>1. line(b, z + r) = line(s, y + r) /\ s.y = y + r
        BY <1>7 DEF RowsKept, Placed1
      <4>2. Len(line(d, z + r).cells) = Width
        BY <1>12, <4>1 DEF cellsAt
      <4>3. z + r \in 0..(d.rows - 1) /\ z + r # d.y
        BY <1>13, <1>15, ScreenNumbers
      <4>4. line(t, z + r) = line(d, z + r)
        BY <1>21, <4>3
      <4> QED BY <4>2, <4>4
    <3> QED BY <3>1, <3>2
  <2> QED BY <2>1, <2>2
<1>25. Paged(t, z, M, N, F)
  <2>1. CASE M = m
    BY <1>23, <2>1
  <2>2. CASE M = r + 1 /\ m = r
    <3>1. ASSUME NEW j \in 1..M
          PROVE  line(t, z + j).wrapped /\ Len(line(t, z + (j - 1)).cells) = Width
      <4>1. CASE j \in 1..m
        BY <1>23, <4>1 DEF Paged
      <4>2. CASE j \notin 1..m
        <5>1. j = r + 1 /\ j - 1 = r
          BY <2>2, <4>2
        <5> QED BY <1>24, <5>1
      <4> QED BY <4>1, <4>2
    <3> QED BY <1>8, <1>23, <3>1 DEF Paged
  <2> QED BY <1>8, <2>1, <2>2
<1>26. Placed1(t, z, M, N, F, r + 1, 0)
  BY <1>10, <1>15, <1>20, <1>22, <1>25 DEF Placed1
<1> QED BY <1>4, <1>22, <1>26 DEF t, M, N

\* Three characters.
LEMMA FedThree ==
    ASSUME NEW a \in Screens, NEW b \in Chars, NEW c \in Chars, NEW d \in Chars
    PROVE  /\ <<b, c, d>> \in Texts /\ Fed(a, <<b, c, d>>) = feed(feed(feed(a, b), c), d)
           /\ feed(a, b) \in Screens /\ feed(feed(a, b), c) \in Screens
           /\ feed(feed(feed(a, b), c), d) \in Screens
<1> DEFINE x == <<b, c, d>>
<1>1. x \in Texts /\ Len(x) = 3 /\ x[1] = b /\ x[2] = c /\ x[3] = d
  BY DEF Texts
<1> HIDE DEF x
<1>2. PICK h : Passes(h, a, x)
  BY <1>1, FedPasses
<1>3. Fed(a, x) = h[3]
  BY <1>1, <1>2, FedIs
<1>4. h[0] = a /\ h[1] = feed(h[0], b) /\ h[2] = feed(h[1], c) /\ h[3] = feed(h[2], d)
  <2>1. 1 \in 1..Len(x) /\ 2 \in 1..Len(x) /\ 3 \in 1..Len(x) /\ 1 - 1 = 0 /\ 2 - 1 = 1 /\ 3 - 1 = 2
    BY <1>1
  <2>2. h[0] = a /\ \A k \in 1..Len(x) : h[k] = feed(h[k - 1], x[k])
    BY <1>2 DEF Passes
  <2> QED BY <1>1, <2>1, <2>2
<1>5. feed(a, b) \in Screens /\ feed(feed(a, b), c) \in Screens
      /\ feed(feed(feed(a, b), c), d) \in Screens
  BY CharRead
<1> QED BY <1>1, <1>3, <1>4, <1>5 DEF x

\* CR and LF.
LEMMA ControlFed ==
    ASSUME NEW s \in Screens, s.state = "GROUND", NEW c \in {"CR", "LF"}
    PROVE  /\ feed(s, c) = IF c = "CR" THEN [s EXCEPT !.x = 0] ELSE lineFeed(s)
           /\ feed(s, c) \in Screens
<1>1. feed(s, c) = ground(s, c)
  BY DEF feed
<1>2. c \in Controls /\ c # "ESC" /\ c # "CSI" /\ c # "OSC" /\ c # "DCS"
  BY DEF Controls, C0
<1>3. ground(s, c) = control(s, c)
  BY <1>2, Zenon DEF ground
<1>4. /\ c # "BS" /\ c # "HT" /\ c # "NEL" /\ c # "RI"
      /\ (c \in {"LF", "IND"} <=> c = "LF")
  OBVIOUS
<1>5. CASE c = "CR"
  <2>1. c \notin {"LF", "IND"}
    BY <1>5
  <2>2. control(s, c) = [s EXCEPT !.x = 0]
    BY <1>4, <1>5, <2>1, Zenon DEF control
  <2> QED BY <1>1, <1>3, <1>5, <2>2, CharRead, Signs
<1>6. CASE c = "LF"
  <2>1. c \in {"LF", "IND"} /\ c # "CR"
    BY <1>6
  <2>2. control(s, c) = lineFeed(s)
    BY <1>4, <2>1, Zenon DEF control
  <2> QED BY <1>1, <1>3, <1>6, <2>1, <2>2, CharRead, Signs
<1> QED BY <1>5, <1>6

\* The cursor goes to another column, or to another row.
LEMMA ColumnOnPage ==
    ASSUME NEW R, NEW m, NEW n, NEW F, NEW r, NEW x, NEW s \in Page(R, m, n, F, r, x),
           NEW z \in Nat, NEW t \in Screens, Alike(s, t), t.x = z, t.y = s.y,
           t.main = s.main, t.alt = s.alt
    PROVE  t \in Page(R, m, n, F, r, z)
<1>1. s \in Screens /\ s.rows = R
  BY OnPage
<1>2. PICK y \in Nat : Placed1(s, y, m, n, F, r, x)
  BY OnPage
<1>3. Ready(s) /\ s.y = y + r /\ Paged(s, y, m, n, F) /\ onMain(s)
  BY <1>2 DEF Placed1, Ready
<1>4. onMain(t) /\ \A k : line(t, k) = line(s, k)
  BY <1>3, LinesAlike
<1>5. Ready(t) /\ t.rows = s.rows
  BY <1>3, <1>4, ReadyAlike, AlikeFields
<1>6. Paged(t, y, m, n, F)
  BY <1>3, <1>4, <1>5, PageSame
<1>7. Placed1(t, y, m, n, F, r, z)
  BY <1>3, <1>5, <1>6 DEF Placed1
<1> QED BY <1>1, <1>5, <1>7, ToPage

\* The cursor a row higher.
LEMMA RowOnPage ==
    ASSUME NEW R, NEW m, NEW n, NEW F, NEW r \in Nat, NEW x, NEW s \in Page(R, m, n, F, r, x),
           r > 0, NEW t \in Screens, Alike(s, t), t.x = s.x, t.y = s.y - 1,
           t.main = s.main, t.alt = s.alt
    PROVE  t \in Page(R, m, n, F, r - 1, x)
<1>1. s \in Screens /\ s.rows = R
  BY OnPage
<1>2. PICK y \in Nat : Placed1(s, y, m, n, F, r, x)
  BY OnPage
<1>3. Ready(s) /\ s.y = y + r /\ s.x = x /\ Paged(s, y, m, n, F) /\ onMain(s)
  BY <1>2 DEF Placed1, Ready
<1>4. onMain(t) /\ \A k : line(t, k) = line(s, k)
  BY <1>3, LinesAlike
<1>5. Ready(t) /\ t.rows = s.rows
  BY <1>3, <1>4, ReadyAlike, AlikeFields
<1>6. Paged(t, y, m, n, F)
  BY <1>3, <1>4, <1>5, PageSame
<1>7. t.y = y + (r - 1)
  BY <1>3
<1>8. Placed1(t, y, m, n, F, r - 1, x)
  BY <1>3, <1>5, <1>6, <1>7 DEF Placed1
<1> QED BY <1>1, <1>5, <1>8, ToPage

\* CR leads to the first column, LF a row down.
LEMMA ReturnOnPage ==
    ASSUME NEW R, NEW m, NEW n, NEW F, NEW r, NEW x, NEW s \in Page(R, m, n, F, r, x)
    PROVE  feed(s, "CR") \in Page(R, m, n, F, r, 0)
<1>1. s \in Screens
  BY OnPage
<1>2. PICK y \in Nat : Placed1(s, y, m, n, F, r, x)
  BY OnPage
<1>3. s.state = "GROUND"
  BY <1>2 DEF Placed1, Ready
<1>4. PICK t : t = feed(s, "CR")
  OBVIOUS
<1>5. t \in Screens /\ t = [s EXCEPT !.x = 0] /\ 0 \in Nat
  BY <1>1, <1>3, <1>4, ControlFed
<1>6. Alike(s, t) /\ t.x = 0 /\ t.y = s.y /\ t.main = s.main /\ t.alt = s.alt
  BY <1>1, <1>5, ColumnAlike
<1> QED BY <1>4, <1>5, <1>6, ColumnOnPage

LEMMA FeedOnPage ==
    ASSUME NEW R, NEW m \in Nat, NEW n \in Nat, NEW F \in Sheets(n), NEW r \in Nat, r < n,
           NEW x \in Nat, x < Width, NEW s \in Page(R, m, n, F, r, x)
    PROVE  feed(s, "LF") \in Page(R, m, n, F, r + 1, x)
<1>1. s \in Screens /\ s.rows = R
  BY OnPage
<1>2. PICK y \in Nat : Placed1(s, y, m, n, F, r, x)
  BY OnPage
<1>3. Ready(s) /\ s.x = x /\ Paged(s, y, m, n, F)
  BY <1>2 DEF Placed1
<1>4. s.state = "GROUND" /\ s.cols = Width /\ s.unsure = FALSE /\ onMain(s)
  BY <1>3 DEF Ready
<1>5. PICK u : u = [inside(s) EXCEPT !.unsure = s.unsure /\ s.x # 0]
  OBVIOUS
<1>6. feed(s, "LF") = below(u)
  BY <1>1, <1>4, <1>5, ControlFed, CursorInside DEF lineFeed
<1>7. u = [s EXCEPT !.x = x, !.unsure = FALSE]
  <2>1. Least(s.x, s.cols - 1) = x
    BY <1>3, <1>4, WidthIs DEF Least
  <2> QED BY <1>4, <1>5, <2>1 DEF inside
<1>8. u \in Screens
  <2>1. [s EXCEPT !.x = x] \in Screens
    <3>1. x <= s.cols /\ 0 \in Nat
      BY <1>4, WidthIs
    <3> QED BY <1>1, <3>1, CursorMoves
  <2>2. u = [[s EXCEPT !.x = x] EXCEPT !.unsure = FALSE]
    BY <1>7
  <2> QED BY <2>1, <2>2, FlagsMove
<1>9. Alike(s, u) /\ u.x = s.x /\ u.y = s.y /\ u.main = s.main /\ u.alt = s.alt
  BY <1>1, <1>3, <1>4, <1>7 DEF Alike, Screens, ScreenType
<1>10. u \in Page(R, m, n, F, r, x)
  BY <1>3, <1>8, <1>9, ColumnOnPage
<1>11. u.rows = R
  BY <1>10, OnPage
<1>12. PICK v \in Nat : Placed1(u, v, m, n, F, r, x)
  BY <1>10, OnPage
<1>13. v + n < u.rows /\ u.rows \in Nat
  BY <1>8, <1>12, ScreenNumbers DEF Placed1, Paged
<1>14. r <= n /\ r + 1 < u.rows /\ Most(n, r + 1) = n
  <2>1. r + 1 <= n
    OBVIOUS
  <2> QED BY <1>13, <2>1 DEF Most
<1>15. below(u) \in Screens /\ below(u).rows = u.rows
  BY <1>8, <1>12, <1>14, BelowOnPage
<1>16. PICK z \in Nat : Placed1(below(u), z, m, Most(n, r + 1), F, r + 1, x)
  BY <1>8, <1>12, <1>14, BelowOnPage
<1> QED BY <1>6, <1>11, <1>14, <1>15, <1>16, ToPage

\* The last character of a row, and the space and CR that take the cursor to the next.
LEMMA FillOnPage ==
    ASSUME NEW R, NEW m \in Nat, NEW n \in Nat, NEW F \in Sheets(n), NEW r \in Nat, r <= m,
           r <= n, r + 1 < R, NEW c \in Plain, NEW s \in Page(R, m, n, F, r, Width - 1)
    PROVE  /\ With(F, r, Width - 1, c) \in Sheets(Most(n, r + 1))
           /\ Fed(s, <<c, " ", "CR">>) \in
                 Page(R, Most(m, r + 1), Most(n, r + 1),
                      With(With(F, r, Width - 1, c), r + 1, 0, " "), r + 1, 0)
<1> DEFINE x == Width - 1
           G == With(F, r, x, c)
           H == With(G, r + 1, 0, " ")
           M == Most(m, r + 1)
           N == Most(n, r + 1)
           t == printAt(s, c, 1)
           u == placed(t, 1)
           v == printAt(u, " ", 1)
<1>1. s \in Screens /\ s.rows = R
  BY OnPage
<1>2. PICK y \in Nat : Placed1(s, y, m, n, F, r, x)
  BY OnPage
<1>3. x \in Nat /\ x < Width /\ x + 1 = Width /\ Width \in Nat /\ 0 < Width
  BY WidthIs
<1>4. Ready(s) /\ s.x = x /\ s.state = "GROUND" /\ s.cols = Width
  BY <1>2 DEF Placed1, Ready
<1>5. feed(s, c) = t /\ t \in Screens
  <2>1. s.x + 1 <= s.cols
    BY <1>3, <1>4
  <2> QED BY <1>1, <1>4, <2>1, PlainFed DEF placed
<1>6. t.rows = s.rows
  BY <1>1, <1>2, <1>3, PutOnPage
<1>7. Placed1(t, y, m, n, G, r, x + 1)
  BY <1>1, <1>2, <1>3, PutOnPage
<1>8. Len(cellsAt(t)) = Most(Len(cellsAt(s)), x + 1)
  BY <1>1, <1>2, <1>3, PutOnPage
<1>9. Len(cellsAt(t)) = Width
  <2>1. RowShows(cellsAt(s), r, F)
    BY <1>1, <1>2, RowsSeen DEF Placed1
  <2>2. Len(cellsAt(s)) \in Nat /\ Len(cellsAt(s)) <= Width
    BY <2>1, LenProperties DEF RowShows, NoHalf
  <2> QED BY <1>3, <1>8, <2>2 DEF Most
<1>10. G \in Sheets(n)
  BY <1>3, WithIs
<1> HIDE DEF t, G
<1>11. u \in Screens /\ u.rows = t.rows
  <2>1. Placed1(t, y, m, n, G, r, Width) /\ r + 1 < t.rows
    BY <1>1, <1>3, <1>6, <1>7
  <2> QED BY <1>5, <1>9, <1>10, <2>1, WrapOnPage
<1>12. PICK z \in Nat : Placed1(u, z, M, N, G, r + 1, 0)
  <2>1. Placed1(t, y, m, n, G, r, Width) /\ r + 1 < t.rows
    BY <1>1, <1>3, <1>6, <1>7
  <2> QED BY <1>5, <1>9, <1>10, <2>1, WrapOnPage
<1>13. M \in Nat /\ N \in Nat /\ n <= N /\ r + 1 <= N
  BY DEF Most
<1> HIDE DEF u, M, N
<1>14. G \in Sheets(N)
  <2>1. \A o \in Nat : RowAt(o) > N => RowAt(o) > n
    BY <1>13, PlaceOf
  <2> QED BY <1>10, <2>1 DEF Sheets
<1>15. PICK q \in Nat : q = r + 1 /\ q <= N
  BY <1>13
<1>150. Placed1(u, z, M, N, G, q, 0) /\ 0 \in Nat /\ u \in Screens
  BY <1>11, <1>12, <1>15
<1>151. v \in Screens /\ v.rows = u.rows
  BY ONLY <1>3, <1>13, <1>14, <1>15, <1>150, SpaceIsPlain, PutOnPage, z \in Nat DEF v
<1>16. Placed1(v, z, M, N, H, r + 1, 0 + 1)
  <2>1. Placed1(v, z, M, N, With(G, q, 0, " "), q, 0 + 1)
    BY ONLY <1>3, <1>13, <1>14, <1>15, <1>150, SpaceIsPlain, PutOnPage, z \in Nat DEF v
  <2> QED BY <1>15, <2>1
<1>17. feed(t, " ") = v
  <2>1. t.state = "GROUND"
    BY <1>7 DEF Placed1, Ready
  <2> QED BY <1>5, <2>1, SpaceIsPlain, PlainFed DEF u
<1> HIDE DEF v, H
<1>18. v \in Page(R, M, N, H, r + 1, 1)
  BY <1>1, <1>6, <1>11, <1>151, <1>16, ToPage
<1>19. feed(v, "CR") \in Page(R, M, N, H, r + 1, 0)
  BY <1>18, ReturnOnPage
<1>20. Fed(s, <<c, " ", "CR">>) = feed(v, "CR")
  <2>1. c \in Chars /\ " " \in Chars /\ "CR" \in Chars
    BY PlainIs, Signs
  <2> QED BY <1>1, <1>5, <1>17, <2>1, FedThree
<1> QED BY <1>14, <1>19, <1>20 DEF G, H, M, N

-----------------------------------------------------------------------------
(***************************************************************************)
(* Control sequences, on the page.                                         *)
(***************************************************************************)
\* A control sequence without parameters.
LEMMA NoNumbers == numbers(<<>>) = <<0>>
<1> DEFINE a == [ps |-> <<0>>, reads |-> TRUE]
           D(f) == f = [k \in 0..0 |->
                          IF k = 0 THEN a
                          ELSE IF <<>>[k] = ";" THEN [ps |-> Append(f[k - 1].ps, 0), reads |-> TRUE]
                          ELSE IF f[k - 1].reads /\ <<>>[k] \in ToSet(Numerals)
                          THEN [f[k - 1] EXCEPT !.ps[Len(f[k - 1].ps)] =
                                    10 * @ + CHOOSE d \in 0..9 : Numerals[d + 1] = <<>>[k]]
                          ELSE [f[k - 1] EXCEPT !.reads = FALSE]]
           h == CHOOSE f : D(f)
           g == [k \in 0..0 |-> a]
<1>1. \A k \in 0..0 : k = 0
  OBVIOUS
<1>2. D(g)
  <2> HIDE DEF a
  <2> QED BY <1>1, Zenon
<1>3. D(h)
  BY <1>2
<1>4. numbers(<<>>) = h[0].ps
  BY EmptySeq DEF numbers
<1> HIDE DEF h
<1>5. h[0] = a
  <2>1. 0 \in 0..0
    OBVIOUS
  <2> HIDE DEF a
  <2> QED BY <1>3, <2>1, Zenon
<1> QED BY <1>4, <1>5

\* The finals that readline sends.
Finals == {"A", "C", "H", "J", "K"}

\* The letters that end readline's sequences are neither controls nor parameters.
LEMMA FinalIs ==
    ASSUME NEW f \in Finals
    PROVE  f \in Chars /\ f \notin C0 /\ f \notin C1 /\ f # "CAN" /\ f # "ESC" /\ f \notin Params /\ f \notin Inters
<1>1. f \in Chars
  BY Signs DEF Finals
<1>2. f \notin C0 /\ f \notin C1 /\ f # "CAN" /\ f # "ESC" /\ f \notin Inters
  BY DEF Finals, C0, C1, Inters
<1>3. f \notin Params
  <2>1. ToSet(Numerals) = {"0", "1", "2", "3", "4", "5", "6", "7", "8", "9"}
    <3>1. DOMAIN Numerals = 1..10
      BY DEF Numerals
    <3>2. \A i \in 1..10 : Numerals[i] \in {"0", "1", "2", "3", "4", "5", "6", "7", "8", "9"}
      BY DEF Numerals
    <3>3. \A c \in {"0", "1", "2", "3", "4", "5", "6", "7", "8", "9"} : \E i \in 1..10 : Numerals[i] = c
      BY DEF Numerals
    <3> QED BY <3>1, <3>2, <3>3 DEF ToSet
  <2> QED BY <2>1 DEF Finals, Params, Privates
<1> QED BY <1>1, <1>2, <1>3

\* A sequence without parameters reaches its operation.
LEMMA EscFed ==
    ASSUME NEW s \in Screens, s.state = "GROUND", NEW f \in Finals
    PROVE  LET g == [s EXCEPT !.params = <<>>, !.inter = <<>>] IN
           /\ g \in Screens /\ Alike(s, g) /\ g.x = s.x /\ g.y = s.y
           /\ g.main = s.main /\ g.alt = s.alt
           /\ Fed(s, Esc(f)) = public(g, f, <<0>>) /\ public(g, f, <<0>>) \in Screens
<1> DEFINE u == [s EXCEPT !.state = "ESC"]
           v == [u EXCEPT !.state = "CSI", !.params = <<>>, !.inter = <<>>]
           g == [s EXCEPT !.params = <<>>, !.inter = <<>>]
<1>0. s \in ScreenType
  BY DEF Screens
<1>1. feed(s, "ESC") = u
  <2>1. feed(s, "ESC") = ground(s, "ESC")
    BY DEF feed
  <2>2. "ESC" \in Controls
    BY DEF Controls
  <2>3. ground(s, "ESC") = u
    BY <2>2, Zenon DEF ground
  <2> QED BY <2>1, <2>3
<1>2. u.state = "ESC"
  BY <1>0 DEF ScreenType
<1>3. feed(u, "[") = v
  <2> HIDE DEF u
  <2>1. "[" \notin C0
    BY DEF C0
  <2>2. feed(u, "[") = inSequence(u, "[")
    BY <1>2, <2>1 DEF feed
  <2>3. inSequence(u, "[") = escape(u, "[")
    BY <1>2, Zenon DEF inSequence
  <2>4. escape(u, "[") = sequence(u)
    <3>1. /\ "[" # "]" /\ "[" \notin {"P", "X", "^", "_"} /\ "[" # "7" /\ "[" # "8" /\ "[" # "D"
          /\ "[" # "E" /\ "[" # "M" /\ "[" # "c" /\ "[" \notin Inters
      BY DEF Inters
    <3> QED BY <3>1, Zenon DEF escape
  <2>5. sequence(u) = v
    BY DEF sequence
  <2> QED BY <2>2, <2>3, <2>4, <2>5
<1>4. v.state = "CSI" /\ v.params = <<>> /\ v.inter = <<>> /\ [v EXCEPT !.state = "GROUND"] = g
  BY <1>0 DEF ScreenType
<1>5. feed(v, f) = dispatch(g, f)
  <2> HIDE DEF u, v, g
  <2>1. feed(v, f) = inSequence(v, f)
    BY <1>4, FinalIs DEF feed
  <2>2. v.state \notin {"ESC", "STR_ESC"} /\ v.state # "ESC_INTER"
    BY <1>4
  <2>3. inSequence(v, f) = IF f \in Params /\ v.inter = <<>> THEN [v EXCEPT !.params = Append(@, f)]
            ELSE IF f \in Inters THEN [v EXCEPT !.inter = Append(@, f)]
            ELSE IF f \in C1 THEN [v EXCEPT !.state = "GROUND"]
            ELSE dispatch([v EXCEPT !.state = "GROUND"], f)
    BY <2>2, Zenon DEF inSequence
  <2> QED BY <1>4, <2>1, <2>3, FinalIs
<1>6. g.params = <<>> /\ g.inter = <<>>
  BY <1>0 DEF ScreenType
<1>7. g \in Screens
  <2>1. <<>> \in Seq(Chars) /\ "GROUND" \in States /\ TRUE \in BOOLEAN
    BY EmptySeq DEF States
  <2>2. [s EXCEPT !.params = <<>>] \in Screens
    BY <2>1, ParserMoves
  <2>3. g = [[s EXCEPT !.params = <<>>] EXCEPT !.inter = <<>>]
    OBVIOUS
  <2> QED BY <2>1, <2>2, <2>3, ParserMoves
<1>8. dispatch(g, f) = public(g, f, <<0>>)
  <2> HIDE DEF g
  <2> QED BY <1>6, NoNumbers DEF dispatch
<1>9. Fed(s, Esc(f)) = feed(feed(feed(s, "ESC"), "["), f)
  <2>1. "ESC" \in Chars /\ "[" \in Chars /\ f \in Chars
    BY FinalIs, Signs
  <2>2. Fed(s, <<"ESC", "[", f>>) = feed(feed(feed(s, "ESC"), "["), f)
    BY <2>1, FedThree
  <2> QED BY <2>2 DEF Esc
<1>10. Alike(s, g) /\ g.x = s.x /\ g.y = s.y /\ g.main = s.main /\ g.alt = s.alt
  BY <1>0 DEF Alike, ScreenType
<1>11. feed(s, "ESC") \in Screens /\ feed(feed(s, "ESC"), "[") \in Screens
  BY CharRead, Signs
<1>12. feed(feed(feed(s, "ESC"), "["), f) \in Screens
  BY <1>11, FinalIs, CharRead
<1> HIDE DEF u, v
<1> QED BY <1>1, <1>3, <1>5, <1>7, <1>8, <1>9, <1>10, <1>12

\* What a final does, from a page: g is the screen when it is read.
LEMMA EscOnPage ==
    ASSUME NEW R, NEW m, NEW n, NEW F, NEW r, NEW x \in Nat, NEW s \in Page(R, m, n, F, r, x),
           NEW f \in Finals
    PROVE  \E g \in Page(R, m, n, F, r, x) :
              Fed(s, Esc(f)) = public(g, f, <<0>>) /\ public(g, f, <<0>>) \in Screens
<1>1. s \in Screens
  BY OnPage
<1>2. PICK y \in Nat : Placed1(s, y, m, n, F, r, x)
  BY OnPage
<1>3. s.state = "GROUND" /\ s.x = x
  BY <1>2 DEF Placed1, Ready
<1>4. PICK g : g = [s EXCEPT !.params = <<>>, !.inter = <<>>]
  OBVIOUS
<1>5. /\ g \in Screens /\ Alike(s, g) /\ g.x = s.x /\ g.y = s.y /\ g.main = s.main /\ g.alt = s.alt
      /\ Fed(s, Esc(f)) = public(g, f, <<0>>) /\ public(g, f, <<0>>) \in Screens
  BY <1>1, <1>3, <1>4, EscFed
<1>6. g \in Page(R, m, n, F, r, x)
  BY <1>3, <1>5, ColumnOnPage
<1> QED BY <1>5, <1>6

\* Its count is then one.
LEMMA OneAtLeast == Most(1, <<0>>[1]) = 1 /\ <<0>>[1] = 0 /\ Len(<<0>>) = 1
  BY DEF Most

\* The cursor's place on a page.
LEMMA PlaceOnPage ==
    ASSUME NEW R, NEW m, NEW n, NEW F, NEW r \in Nat, NEW x \in Nat, x < Width,
           NEW s \in Page(R, m, n, F, r, x)
    PROVE  /\ s \in Screens /\ s.x = x /\ s.top = 0 /\ s.cols = Width /\ inside(s) = s
           /\ s.y \in Nat /\ s.y >= r /\ ~s.origin /\ s.state = "GROUND"
<1>1. s \in Screens
  BY OnPage
<1>2. PICK y \in Nat : Placed1(s, y, m, n, F, r, x)
  BY OnPage
<1>3. Ready(s) /\ s.y = y + r /\ s.x = x
  BY <1>2 DEF Placed1
<1>4. s.top = 0 /\ s.cols = Width /\ s.origin = FALSE /\ s.state = "GROUND"
  BY <1>3 DEF Ready
<1>5. inside(s) = s
  <2>1. Least(s.x, s.cols - 1) = s.x
    BY <1>3, <1>4, WidthIs DEF Least
  <2>2. s \in ScreenType
    BY <1>1 DEF Screens
  <2>3. inside(s) = [s EXCEPT !.x = s.x]
    BY <2>1 DEF inside
  <2> QED BY <2>2, <2>3 DEF ScreenType
<1>6. s.y \in Nat /\ s.y >= r
  BY <1>3
<1> QED BY <1>1, <1>3, <1>4, <1>5, <1>6

\* The cursor up, and to the right.
LEMMA UpOnPage ==
    ASSUME NEW R, NEW m, NEW n, NEW F, NEW r \in Nat, r > 0, NEW x \in Nat, x < Width,
           NEW s \in Page(R, m, n, F, r, x)
    PROVE  Fed(s, Esc("A")) \in Page(R, m, n, F, r - 1, x)
<1>1. "A" \in Finals
  BY DEF Finals
<1>2. PICK g \in Page(R, m, n, F, r, x) :
         Fed(s, Esc("A")) = public(g, "A", <<0>>) /\ public(g, "A", <<0>>) \in Screens
  BY <1>1, EscOnPage
<1>3. public(g, "A", <<0>>) = cursorUp(g, 1)
  BY OneAtLeast, Zenon DEF public
<1>4. g \in Screens /\ g.top = 0 /\ inside(g) = g /\ g.y \in Nat /\ g.y >= r
  BY PlaceOnPage
<1>5. PICK k \in Nat : k = g.y - 1
  BY <1>4
<1>6. cursorUp(g, 1) = [g EXCEPT !.y = k]
  <2>1. Most(IF g.y >= g.top THEN g.top ELSE 0, g.y - 1) = k
    BY <1>4, <1>5 DEF Most
  <2> QED BY <1>4, <2>1 DEF cursorUp
<1>7. PICK t : t = [g EXCEPT !.y = k]
  OBVIOUS
<1>8. Alike(g, t) /\ t.x = g.x /\ t.y = k /\ t.main = g.main /\ t.alt = g.alt
  BY <1>4, <1>7, RowAlike
<1>9. t \in Page(R, m, n, F, r - 1, x)
  BY <1>2, <1>3, <1>5, <1>6, <1>7, <1>8, RowOnPage
<1> QED BY <1>2, <1>3, <1>6, <1>7, <1>9

LEMMA RightOnPage ==
    ASSUME NEW R, NEW m, NEW n, NEW F, NEW r \in Nat, NEW x \in Nat, x + 1 < Width,
           NEW s \in Page(R, m, n, F, r, x)
    PROVE  Fed(s, Esc("C")) \in Page(R, m, n, F, r, x + 1)
<1>1. "C" \in Finals
  BY DEF Finals
<1>2. PICK g \in Page(R, m, n, F, r, x) :
         Fed(s, Esc("C")) = public(g, "C", <<0>>) /\ public(g, "C", <<0>>) \in Screens
  BY <1>1, EscOnPage
<1>3. public(g, "C", <<0>>) = [g EXCEPT !.x = Least(g.cols - 1, @ + 1)]
  BY OneAtLeast, Zenon DEF public
<1>4. g \in Screens /\ g.x = x /\ g.cols = Width
  <2>1. x < Width
    BY WidthIs
  <2> QED BY <2>1, PlaceOnPage
<1>5. PICK k \in Nat : k = x + 1
  OBVIOUS
<1>6. public(g, "C", <<0>>) = [g EXCEPT !.x = k]
  <2>1. Least(g.cols - 1, g.x + 1) = k
    BY <1>4, <1>5, WidthIs DEF Least
  <2> QED BY <1>3, <2>1
<1>7. PICK t : t = [g EXCEPT !.x = k]
  OBVIOUS
<1>8. Alike(g, t) /\ t.x = k /\ t.y = g.y /\ t.main = g.main /\ t.alt = g.alt
  BY <1>4, <1>7, ColumnAlike
<1>9. t \in Page(R, m, n, F, r, k)
  BY <1>2, <1>6, <1>7, <1>8, ColumnOnPage
<1> QED BY <1>2, <1>5, <1>6, <1>7, <1>9

-----------------------------------------------------------------------------
(***************************************************************************)
(* What is erased of a page.                                               *)
(***************************************************************************)
Blanked(F, r, x) == [o \in Nat |-> IF RowAt(o) = r /\ ColAt(o) >= x THEN " " ELSE F[o]]

\* A row blanked from a column on.
LEMMA BlankedIs ==
    ASSUME NEW n \in Nat, NEW F \in Sheets(n), NEW r \in Nat, NEW x \in Nat
    PROVE  LET G == Blanked(F, r, x) IN
           /\ G \in Sheets(n) /\ OnlyOn(F, G, r)
           /\ \A k \in 0..(Width - 1) : G[(Width * r) + k] = IF k >= x THEN " " ELSE F[(Width * r) + k]
<1> DEFINE G == Blanked(F, r, x)
<1>1. F \in [Nat -> Plain] /\ \A o \in Nat : RowAt(o) > n => F[o] = " "
  BY DEF Sheets
<1>2. \A o \in Nat : G[o] = IF RowAt(o) = r /\ ColAt(o) >= x THEN " " ELSE F[o]
  BY DEF Blanked
<1>3. G \in [Nat -> Plain]
  BY <1>1, SpaceIsPlain DEF Blanked
<1> HIDE DEF G
<1>4. G \in Sheets(n)
  BY <1>1, <1>2, <1>3 DEF Sheets
<1>5. ASSUME NEW i \in Nat, NEW k \in 0..(Width - 1)
      PROVE  G[(Width * i) + k] = IF i = r /\ k >= x THEN " " ELSE F[(Width * i) + k]
  <2>1. k \in Nat /\ k < Width
    BY WidthIs
  <2>2. (Width * i) + k \in Nat /\ RowAt((Width * i) + k) = i /\ ColAt((Width * i) + k) = k
    BY <2>1, OffsetOf
  <2> QED BY ONLY <1>2, <2>2
<1>6. OnlyOn(F, G, r)
  BY <1>5 DEF OnlyOn
<1>7. \A k \in 0..(Width - 1) : G[(Width * r) + k] = IF k >= x THEN " " ELSE F[(Width * r) + k]
  BY <1>5
<1> QED BY <1>4, <1>6, <1>7 DEF G

\* The row it is erased on.
LEMMA RowErased ==
    ASSUME NEW n \in Nat, NEW F \in Sheets(n), NEW r \in Nat, NEW x \in Nat, x < Width,
           NEW c, RowShows(c, r, F)
    PROVE  RowShows(erase(c, x, Len(c)), r, Blanked(F, r, x))
<1> DEFINE e == erase(c, x, Len(c))
           G == Blanked(F, r, x)
<1>1. NoHalf(c) /\ Len(c) <= Width /\ \A k \in 0..(Width - 1) : Look(c, k) = F[(Width * r) + k]
  BY DEF RowShows
<1>2. Len(c) \in Nat
  BY <1>1, LenProperties DEF NoHalf
<1>3. NoHalf(e)
  BY <1>1, <1>2, ErasedPlain
<1>4. Len(e) = Least(Len(c), x)
  BY <1>1, <1>2, ErasedPlain
<1>5. \A i \in Nat : Cell(e, i) = IF x <= i /\ i < Len(c) THEN Undefined ELSE Cell(c, i)
  BY <1>1, <1>2, ErasedPlain
<1>6. \A k \in 0..(Width - 1) : G[(Width * r) + k] = IF k >= x THEN " " ELSE F[(Width * r) + k]
  BY BlankedIs
<1> HIDE DEF e, G
<1>7. Len(e) <= Width
  <2>1. PICK i \in Nat : i = Len(c)
    BY <1>2
  <2>2. Least(i, x) <= i
    BY DEF Least
  <2>3. i <= Width /\ Width \in Nat /\ Least(i, x) \in Nat
    BY <1>1, <2>1, WidthIs DEF Least
  <2> QED BY <1>4, <2>1, <2>2, <2>3
<1>8. ASSUME NEW k \in 0..(Width - 1) PROVE Look(e, k) = G[(Width * r) + k]
  <2>0. k \in Nat
    BY WidthIs
  <2>1. CASE k >= x
    <3>1. Cell(e, k) = Undefined
      <4>1. CASE k < Len(c)
        BY <1>5, <2>0, <2>1, <4>1
      <4>2. CASE ~(k < Len(c))
        <5>1. k \notin 0..(Len(c) - 1)
          BY <1>2, <2>0, <4>2
        <5>2. Cell(c, k) = Undefined
          BY <5>1 DEF Cell
        <5> QED BY <1>5, <2>0, <5>2
      <4> QED BY <4>1, <4>2
    <3>2. Look(e, k) = " "
      BY <3>1 DEF Look
    <3> QED BY <1>6, <2>1, <3>2
  <2>2. CASE ~(k >= x)
    <3>1. Cell(e, k) = Cell(c, k)
      BY <1>5, <2>0, <2>2
    <3>2. Look(e, k) = Look(c, k)
      BY <3>1 DEF Look
    <3> QED BY <1>1, <1>6, <2>2, <3>2
  <2> QED BY <2>1, <2>2
<1> QED BY <1>3, <1>7, <1>8 DEF RowShows, e, G

\* ESC [ K: the row is no longer full, so that the next does not go on with it.
LEMMA EraseOnPage ==
    ASSUME NEW R, NEW m \in Nat, NEW n \in Nat, NEW F \in Sheets(n), NEW r \in Nat,
           NEW x \in Nat, x < Width, NEW s \in Page(R, m, n, F, r, x)
    PROVE  Fed(s, Esc("K")) \in Page(R, Least(m, r), n, Blanked(F, r, x), r, x)
<1> DEFINE G == Blanked(F, r, x)
           l == Least(m, r)
<1>1. "K" \in Finals
  BY DEF Finals
<1>2. PICK g \in Page(R, m, n, F, r, x) :
         Fed(s, Esc("K")) = public(g, "K", <<0>>) /\ public(g, "K", <<0>>) \in Screens
  BY <1>1, EscOnPage
<1>3. public(g, "K", <<0>>) = eraseLine(g, 0)
  BY OneAtLeast, Zenon DEF public
<1>4. g \in Screens /\ g.x = x /\ g.cols = Width
  BY PlaceOnPage
<1>40. g.rows = R
  BY OnPage
<1>5. PICK y \in Nat : Placed1(g, y, m, n, F, r, x)
  BY OnPage
<1>6. Ready(g) /\ onMain(g) /\ g.y = y + r /\ Paged(g, y, m, n, F)
  BY <1>5 DEF Placed1, Ready
<1>7. y + r < g.rows /\ RowShows(cellsAt(g), r, F)
  BY <1>4, <1>6, RowsSeen
<1>8. (r = 0 => ~line(g, y + r).wrapped) /\ (r \in 1..m => line(g, y + r).wrapped)
  BY <1>4, <1>6, RowsSeen
<1> DEFINE e == erase(cellsAt(g), x, Len(cellsAt(g)))
           k == [line(g, g.y) EXCEPT !.cells = e]
           t == withLine(g, g.y, k)
<1>9. Least(g.x, g.cols) = x
  BY <1>4, WidthIs DEF Least
<1>10. eraseLine(g, 0) = t
  <2>1. eraseLine(g, 0) = withCells(g, e)
    <3>1. 0 # 1 /\ 0 # 2
      OBVIOUS
    <3> QED BY <1>9, <3>1, Zenon DEF eraseLine
  <2> QED BY <2>1 DEF withCells
<1>11. RowShows(e, r, G)
  BY <1>7, RowErased
<1>12. e \in Cells
  BY <1>4, <1>9, ErasedAtCursor, 0 \in Nat
<1> HIDE DEF e, G
<1>13. k \in Row /\ k.cells = e /\ k.wrapped = line(g, g.y).wrapped
  <2>1. line(g, g.y) \in Row
    BY <1>4, CellsMove
  <2> QED BY <1>12, <2>1 DEF Row
<1> HIDE DEF k
<1>14. g.y \in Nat /\ g.y < g.rows
  BY <1>6, <1>7
<1>15. t \in Screens /\ onMain(t) /\ Alike(g, t)
  BY <1>4, <1>6, <1>13, <1>14, RowPut
<1>16. t.x = g.x /\ t.y = g.y
  BY <1>4, <1>6, <1>13, <1>14, RowPut
<1>17. line(t, g.y) = k
  BY <1>4, <1>6, <1>13, <1>14, RowPut
<1>18. OnlyRow(g, t, y + r)
  <2>1. \A j \in 0..(g.rows - 1) : j # g.y => line(t, j) = line(g, j)
    BY <1>4, <1>6, <1>13, <1>14, RowPut
  <2> QED BY <1>6, <2>1 DEF OnlyRow
<1> HIDE DEF t
<1>19. Ready(t) /\ t.rows = g.rows
  BY <1>6, <1>15, ReadyAlike, AlikeFields
<1>20. l \in Nat /\ l <= m /\ l <= r
  BY DEF Least
<1> HIDE DEF l
<1>21. Paged(g, y, l, n, F)
  BY <1>6, <1>20, PageLess
<1>22. OnlyOn(F, G, r)
  BY BlankedIs DEF G
<1>23. /\ r = 0 => ~line(t, y + r).wrapped
       /\ r \in 1..l => line(t, y + r).wrapped
       /\ r < l => Len(line(t, y + r).cells) = Width
       /\ RowShows(line(t, y + r).cells, r, G)
  <2>1. line(t, y + r) = k
    BY <1>6, <1>17
  <2>2. k.wrapped = line(g, y + r).wrapped
    BY <1>6, <1>13
  <2>3. r \in 1..l => r \in 1..m
    BY <1>20
  <2>4. ~(r < l)
    BY <1>20
  <2> QED BY <1>8, <1>11, <1>13, <2>1, <2>2, <2>3, <2>4
<1>24. Paged(t, y, l, n, G)
  BY <1>4, <1>7, <1>15, <1>18, <1>19, <1>20, <1>21, <1>22, <1>23, PageRow
<1>25. Placed1(t, y, l, n, G, r, x)
  BY <1>4, <1>6, <1>16, <1>19, <1>24 DEF Placed1
<1>26. t \in Page(R, l, n, G, r, x)
  BY <1>15, <1>19, <1>25, <1>40, ToPage
<1> QED BY <1>2, <1>3, <1>10, <1>26 DEF G, l

\* All rows replaced.
LEMMA RowsPut ==
    ASSUME NEW s \in Screens, onMain(s), NEW new \in Seq(Row), Len(new) = Len(s.main.lines)
    PROVE  LET t == withLines(s, new) IN
           /\ t \in Screens /\ onMain(t) /\ Alike(s, t) /\ t.x = s.x /\ t.y = s.y
           /\ \A k : line(t, k) = new[s.main.base + k + 1]
<1> DEFINE t == withLines(s, new)
<1>1. s \in ScreenType /\ buf(s) = s.main /\ s.main \in Buffer
  BY DEF Screens, ScreenType, buf
<1>2. t \in Screens
  BY <1>1, LinesMove
<1>3. t = [s EXCEPT !.main = [s.main EXCEPT !.lines = new]]
  BY <1>1 DEF withLines, withBuf
<1>4. t.main.lines = new /\ t.main.base = s.main.base /\ t.alt = s.alt /\ t.x = s.x /\ t.y = s.y
  BY <1>1, <1>3 DEF ScreenType, Buffer
<1>5. Alike(s, t)
  BY <1>1, <1>3 DEF ScreenType, Alike
<1>6. onMain(t) /\ buf(t) = t.main
  BY <1>4 DEF onMain, buf
<1>7. \A k : line(t, k) = new[s.main.base + k + 1]
  BY <1>4, <1>6 DEF line
<1> QED BY <1>2, <1>4, <1>5, <1>6, <1>7

\* Nothing is seen.
Nothing == [o \in Nat |-> " "]

\* Nothing is seen on blank rows.
LEMMA NothingSeen == Nothing \in Sheets(0) /\ \A r \in Nat : RowShows(<<>>, r, Nothing)
<1>1. Nothing \in [Nat -> Plain] /\ \A o \in Nat : Nothing[o] = " "
  BY SpaceIsPlain DEF Nothing
<1>2. Nothing \in Sheets(0)
  BY <1>1 DEF Sheets
<1>3. ASSUME NEW r \in Nat PROVE RowShows(<<>>, r, Nothing)
  <2>1. 1 \in Nat /\ 1 > 0 /\ 0 \in Nat
    OBVIOUS
  <2>2. RowShows(<<>>, 1, Nothing)
    BY <1>2, <2>1, BlankRow
  <2>3. ASSUME NEW i \in Nat, NEW k \in 0..(Width - 1) PROVE Nothing[(Width * i) + k] = " "
    <3>1. k \in Nat /\ k < Width
      BY WidthIs
    <3>2. (Width * i) + k \in Nat
      BY <3>1, OffsetOf
    <3> QED BY <1>1, <3>2
  <2>4. NoHalf(<<>>) /\ Len(<<>>) <= Width /\ \A k \in 0..(Width - 1) : Look(<<>>, k) = Nothing[(Width * 1) + k]
    BY <2>2 DEF RowShows
  <2>5. \A k \in 0..(Width - 1) : Look(<<>>, k) = Nothing[(Width * r) + k]
    BY <2>1, <2>3, <2>4
  <2> QED BY <2>4, <2>5 DEF RowShows
<1> QED BY <1>2, <1>3

\* The whole screen is cleared, from its first cell on.
LEMMA DisplayCleared ==
    ASSUME NEW s \in Screens, Ready(s), s.x = 0, s.y = 0
    PROVE  eraseDisplay(s, 0) \in Page(s.rows, 0, 0, Nothing, 0, 0)
<1> DEFINE l1  == [line(s, 0) EXCEPT !.wrapped = FALSE]
           a   == withLine(s, 0, l1)
           l2  == [line(a, 0) EXCEPT !.cells = <<>>]
           row == withLine(a, 0, l2)
           off == {i \in 0..(s.rows - 1) : i > 0}
           b   == buf(row)
           new == [k \in 1..Len(b.lines) |-> IF k - b.base - 1 \in off THEN newRow ELSE b.lines[k]]
           v   == withLines(row, new)
           t   == eraseDisplay(s, 0)
<1>1. onMain(s) /\ s.rows \in Nat /\ 0 < s.rows /\ 0 \in Nat /\ s.unsure = FALSE
  BY ScreenNumbers DEF Ready
<1>2. l1 \in Row /\ l1.wrapped = FALSE
  <2>1. line(s, 0) \in Row
    BY <1>1, LineOf
  <2> QED BY <2>1 DEF Row
<1> HIDE DEF l1
<1>3. a \in Screens /\ onMain(a) /\ Alike(s, a) /\ a.x = 0 /\ a.y = 0
  BY <1>1, <1>2, RowPut
<1>4. line(a, 0) = l1
  BY <1>1, <1>2, RowPut
<1>5. afresh(s) = a
  BY DEF afresh, l1
<1>6. erase(cellsAt(s), Least(s.x, s.cols), Len(cellsAt(s))) = <<>>
  <2>1. cellsAt(s) \in Cells
    BY CellsMove
  <2>2. Len(cellsAt(s)) \in Nat
    BY <2>1, LenProperties DEF Cells
  <2>3. Least(s.x, s.cols) = 0
    BY <1>1, WidthIs DEF Least, Ready
  <2>4. \A c, n : n = 0 => [k \in 1..n |-> c[k]] = <<>>
    OBVIOUS
  <2>5. Least(Len(cellsAt(s)), 0) = 0
    BY <2>2 DEF Least
  <2>6. erase(cellsAt(s), 0, Len(cellsAt(s))) = <<>>
    <3> DEFINE c == cellsAt(s)
               gone(i) == \/ i \in 0..(Len(c) - 1)
                          \/ i = 0 - 1 /\ Cell(c, 0) = Half
                          \/ i = Len(c) /\ Cell(c, Len(c)) = Half
    <3>1. erase(c, 0, Len(c)) = [k \in 1..0 |-> IF gone(k - 1) THEN Undefined ELSE c[k]]
      BY <2>2, <2>5 DEF erase
    <3> HIDE DEF c
    <3>2. [k \in 1..0 |-> IF gone(k - 1) THEN Undefined ELSE c[k]] = <<>>
      OBVIOUS
    <3> QED BY <3>1, <3>2 DEF c
  <2> QED BY <2>3, <2>6
<1>7. l2 \in Row /\ l2.cells = <<>> /\ l2.wrapped = FALSE
  BY <1>2, <1>4, NoCells DEF Row
<1> HIDE DEF a, l2
<1>8. row \in Screens /\ onMain(row) /\ Alike(a, row) /\ row.x = 0 /\ row.y = 0
  <2>1. a.rows = s.rows
    BY <1>3, AlikeFields
  <2> QED BY <1>1, <1>3, <1>7, <2>1, RowPut
<1>9. line(row, 0) = l2
  <2>1. a.rows = s.rows
    BY <1>3, AlikeFields
  <2> QED BY <1>1, <1>3, <1>7, <2>1, RowPut
<1>10. withCells(a, <<>>) = row
  BY <1>3 DEF withCells, l2
<1> HIDE DEF row
<1>11. Alike(s, row) /\ row.rows = s.rows /\ buf(row) = row.main
  BY <1>3, <1>8, AlikeChain, AlikeFields DEF buf
<1>12. /\ b.lines \in Seq(Row) /\ b.base \in Nat /\ Len(b.lines) = b.base + s.rows /\ Len(b.lines) \in Nat
       /\ line(row, 0) = b.lines[b.base + 1]
  <2>1. buf(row).lines \in Seq(Row) /\ Len(buf(row).lines) = buf(row).base + row.rows
    BY <1>1, <1>8, <1>11, LineOf
  <2>2. buf(row) \in Buffer
    BY <1>8, BufOf
  <2>3. line(row, 0) = b.lines[b.base + 0 + 1] /\ b.base \in Nat
    BY <1>11, <2>2 DEF line, Buffer
  <2> QED BY <1>1, <1>11, <2>1, <2>3, LenProperties
<1> HIDE DEF b
<1>13. new \in Seq(Row) /\ Len(new) = Len(b.lines)
  <2>1. new \in [1..Len(b.lines) -> Row]
    BY <1>12, NoCells, ElementOfSeq
  <2> HIDE DEF new
  <2> QED BY <1>12, <2>1, FunctionIsSeq
<1>14. \A i \in 0..(s.rows - 1) : new[b.base + i + 1] = IF i = 0 THEN l2 ELSE newRow
  <2>1. ASSUME NEW i \in 0..(s.rows - 1) PROVE new[b.base + i + 1] = IF i = 0 THEN l2 ELSE newRow
    <3>1. PICK k \in Nat : k = b.base + i + 1
      BY <1>1, <1>12
    <3>2. k \in 1..Len(b.lines) /\ k - b.base - 1 = i
      BY <1>1, <1>12, <3>1
    <3>3. new[k] = IF i \in off THEN newRow ELSE b.lines[k]
      BY <3>2
    <3>4. i \in off <=> i # 0
      BY <1>1
    <3>5. i = 0 => b.lines[k] = l2
      BY <1>9, <1>12, <3>1
    <3> HIDE DEF new, off
    <3> QED BY <3>1, <3>3, <3>4, <3>5
  <2> QED BY <2>1
<1>15. eraseDisplay(s, 0) = [v EXCEPT !.unsure = FALSE]
  <2> DEFINE onto0 == IF 0 = 0 /\ s.x = 0 THEN afresh(s) ELSE s
             row0  == CASE 0 = 0 -> withCells(onto0, erase(cellsAt(s), Least(s.x, s.cols), Len(cellsAt(s))))
                        [] 0 = 1 -> withCells(onto0, erase(cellsAt(s), 0, Least(s.x, s.cols - 1) + 1))
                        [] OTHER -> onto0
             off0  == {i \in 0..(s.rows - 1) : 0 = 2 \/ (0 = 0 /\ i > s.y) \/ (0 = 1 /\ i < s.y)}
             gone0 == 0 = 2 \/ (0 = 0 /\ s.x = 0 /\ s.y = 0)
             W(r, o) == withLines(r, [k \in 1..Len(buf(r).lines) |->
                            IF k - buf(r).base - 1 \in o THEN newRow ELSE buf(r).lines[k]])
  <2>1. eraseDisplay(s, 0) = [W(row0, off0) EXCEPT !.unsure = @ /\ ~gone0]
    BY Zenon DEF eraseDisplay
  <2>2. onto0 = a
    BY <1>5
  <2>3. off0 = off
    OBVIOUS
  <2>30. gone0 = TRUE
    OBVIOUS
  <2> HIDE DEF off0, onto0, gone0
  <2>31. row0 = row
    <3>1. 0 # 1
      OBVIOUS
    <3> QED BY <1>6, <1>10, <2>2, <3>1, Zenon
  <2> HIDE DEF row0
  <2>32. W(row0, off0) = W(row, off)
    BY <2>3, <2>31
  <2>33. W(row, off) = v
    BY DEF v, new, b
  <2> HIDE DEF W
  <2>4. eraseDisplay(s, 0) = [v EXCEPT !.unsure = @ /\ ~TRUE]
    BY <2>1, <2>30, <2>32, <2>33
  <2>5. (v.unsure /\ ~TRUE) = FALSE
    OBVIOUS
  <2> QED BY <2>4, <2>5
<1> HIDE DEF new
<1>16. v \in Screens /\ onMain(v) /\ Alike(row, v) /\ v.x = 0 /\ v.y = 0
  BY <1>8, <1>11, <1>13, RowsPut DEF b
<1>17. \A k : line(v, k) = new[b.base + k + 1]
  BY <1>8, <1>11, <1>13, RowsPut DEF b
<1> HIDE DEF v
<1>18. PICK u : u = [v EXCEPT !.unsure = FALSE]
  OBVIOUS
<1>19. u = v /\ Alike(s, v)
  <2>1. Alike(s, v)
    BY <1>11, <1>16, AlikeChain
  <2>2. v.unsure = FALSE
    BY <1>1, <2>1, AlikeFields
  <2>3. v \in ScreenType
    BY <1>16 DEF Screens
  <2> QED BY <1>18, <2>1, <2>2, <2>3 DEF ScreenType
<1>20. Ready(v) /\ v.rows = s.rows
  BY <1>1, <1>16, <1>19, ReadyAlike, AlikeFields
<1>21. \A i \in 0..(s.rows - 1) : line(v, i).cells = <<>>
  BY <1>7, <1>14, <1>17 DEF newRow
<1>22. Paged(v, 0, 0, 0, Nothing)
  <2>1. ~line(v, 0).wrapped
    BY <1>1, <1>7, <1>14, <1>17
  <2>2. ASSUME NEW i \in Nat, 0 + i < v.rows PROVE RowShows(line(v, 0 + i).cells, i, Nothing)
    <3>1. i \in 0..(s.rows - 1) /\ 0 + i = i
      BY <1>1, <1>20, <2>2
    <3> QED BY <1>21, <3>1, NothingSeen
  <2>3. 0 + 0 < v.rows
    BY <1>1, <1>20
  <2> QED BY <2>1, <2>2, <2>3 DEF Paged
<1>23. Placed1(v, 0, 0, 0, Nothing, 0, 0)
  BY <1>16, <1>20, <1>22 DEF Placed1
<1>24. v \in Page(s.rows, 0, 0, Nothing, 0, 0)
  BY <1>16, <1>20, <1>23, ToPage, 0 \in Nat
<1> QED BY <1>15, <1>18, <1>19, <1>24

\* Home, and all that is below.
LEMMA ClearedOnPage ==
    ASSUME NEW R, NEW m, NEW n, NEW F, NEW r \in Nat, NEW x \in Nat, x < Width,
           NEW s \in Page(R, m, n, F, r, x)
    PROVE  /\ Fed(s, Esc("H")) \in Screens
           /\ Fed(Fed(s, Esc("H")), Esc("J")) \in Page(R, 0, 0, Nothing, 0, 0)
<1>1. "H" \in Finals /\ "J" \in Finals
  BY DEF Finals
<1>2. PICK g \in Page(R, m, n, F, r, x) :
         Fed(s, Esc("H")) = public(g, "H", <<0>>) /\ public(g, "H", <<0>>) \in Screens
  BY <1>1, EscOnPage
<1>3. g \in Screens /\ g.cols = Width /\ g.origin = FALSE /\ Ready(g) /\ g.rows = R
  <2>1. PICK y \in Nat : Placed1(g, y, m, n, F, r, x)
    BY OnPage
  <2> QED BY <2>1, OnPage DEF Placed1, Ready
<1>4. g.rows \in Nat /\ g.rows >= 1
  BY <1>3, ScreenNumbers
<1>5. PICK h : h = public(g, "H", <<0>>)
  OBVIOUS
<1>6. h = [g EXCEPT !.y = 0, !.x = 0]
  <2>1. h = [g EXCEPT !.y = toRow(g, 1 - 1), !.x = Least(g.cols, Most(1, 0)) - 1]
    <3>1. ~(Len(<<0>>) > 1)
      BY OneAtLeast
    <3> QED BY <1>5, <3>1, OneAtLeast, Zenon DEF public
  <2>2. toRow(g, 1 - 1) = 0
    BY <1>3, <1>4 DEF toRow, Least
  <2>3. Least(g.cols, Most(1, 0)) - 1 = 0
    BY <1>3, WidthIs DEF Least, Most
  <2> QED BY <2>1, <2>2, <2>3
<1>7. h \in Screens /\ Alike(g, h) /\ h.x = 0 /\ h.y = 0 /\ h.main = g.main /\ h.alt = g.alt
  <2>1. h \in Screens /\ g \in ScreenType
    BY <1>2, <1>3, <1>5 DEF Screens
  <2> QED BY <1>6, <2>1 DEF Alike, ScreenType
<1>8. Ready(h) /\ h.rows = R
  <2>1. onMain(g)
    BY <1>3 DEF Ready
  <2>2. onMain(h)
    BY <1>7, <2>1, LinesAlike
  <2> QED BY <1>3, <1>7, <2>2, ReadyAlike, AlikeFields
<1>9. h.state = "GROUND"
  BY <1>8 DEF Ready
<1>10. PICK k : k = [h EXCEPT !.params = <<>>, !.inter = <<>>]
  OBVIOUS
<1>11. /\ k \in Screens /\ Alike(h, k) /\ k.x = h.x /\ k.y = h.y /\ k.main = h.main /\ k.alt = h.alt
       /\ Fed(h, Esc("J")) = public(k, "J", <<0>>)
  BY <1>1, <1>7, <1>9, <1>10, EscFed
<1>12. public(k, "J", <<0>>) = eraseDisplay(k, 0)
  <2>1. <<0>>[1] = 0 /\ 0 # 3
    BY OneAtLeast
  <2> QED BY <2>1, Zenon DEF public
<1>13. Ready(k) /\ k.rows = R
  <2>1. onMain(h)
    BY <1>8 DEF Ready
  <2>2. onMain(k)
    BY <1>11, <2>1, LinesAlike
  <2> QED BY <1>8, <1>11, <2>2, ReadyAlike, AlikeFields
<1>14. eraseDisplay(k, 0) \in Page(R, 0, 0, Nothing, 0, 0)
  BY <1>7, <1>11, <1>13, DisplayCleared
<1> QED BY <1>2, <1>5, <1>7, <1>11, <1>12, <1>14

-----------------------------------------------------------------------------
(***************************************************************************)
(* What readline sends, on the page.                                       *)
(***************************************************************************)
Leads(S, n, q) ==
    /\ \A k \in 0..n : S[k] \subseteq Screens
    /\ \A k \in 1..n : \A s \in S[k - 1] : Fed(s, q[k]) \in S[k]

\* Chunks that lead from one set of screens to the next lead through them all.
LEMMA LoopFed ==
    ASSUME NEW n \in Nat, NEW q \in Seq(Texts), Len(q) = n, NEW S, Leads(S, n, q), NEW a \in S[0]
    PROVE  FlattenSeq(q) \in Texts /\ Fed(a, FlattenSeq(q)) \in S[n]
<1>1. \A k \in 0..n : S[k] \subseteq Screens
  BY DEF Leads
<1>2. \A k \in 1..n : \A s \in S[k - 1] : Fed(s, q[k]) \in S[k]
  BY DEF Leads
<1>3. S[0] \subseteq Screens /\ \A k \in 1..n : S[k] \subseteq Screens
  BY <1>1
<1> QED BY <1>2, <1>3, FedLoop

Same1(c, n) == [k \in 1..n |-> c]

\* The same chunk many times.
LEMMA TimesFed ==
    ASSUME NEW n \in Nat, NEW c \in Texts, NEW S, Leads(S, n, Same1(c, n)), NEW a \in S[0]
    PROVE  Times(c, n) \in Texts /\ Fed(a, Times(c, n)) \in S[n]
<1> DEFINE q == Same1(c, n)
<1>1. q \in [1..n -> Texts]
  BY DEF Same1
<1>2. Times(c, n) = FlattenSeq(q)
  BY DEF Times, Same1
<1> HIDE DEF q
<1>3. q \in Seq(Texts) /\ Len(q) = n
  BY <1>1, FunctionIsSeq
<1>4. Leads(S, n, q)
  BY DEF q
<1> QED BY <1>2, <1>3, <1>4, LoopFed

\* Two characters.
LEMMA FedTwo ==
    ASSUME NEW a \in Screens, NEW b \in Chars, NEW c \in Chars
    PROVE  /\ <<b, c>> \in Texts /\ Fed(a, <<b, c>>) = feed(feed(a, b), c)
           /\ feed(a, b) \in Screens /\ feed(feed(a, b), c) \in Screens
<1> DEFINE x == <<b, c>>
<1>1. x \in Texts /\ Len(x) = 2 /\ x[1] = b /\ x[2] = c
  BY DEF Texts
<1> HIDE DEF x
<1>2. PICK h : Passes(h, a, x)
  BY <1>1, FedPasses
<1>3. Fed(a, x) = h[2]
  BY <1>1, <1>2, FedIs
<1>4. h[0] = a /\ h[1] = feed(h[0], b) /\ h[2] = feed(h[1], c)
  <2>1. 1 \in 1..Len(x) /\ 2 \in 1..Len(x) /\ 1 - 1 = 0 /\ 2 - 1 = 1
    BY <1>1
  <2>2. h[0] = a /\ \A k \in 1..Len(x) : h[k] = feed(h[k - 1], x[k])
    BY <1>2 DEF Passes
  <2> QED BY <1>1, <2>1, <2>2
<1>5. feed(a, b) \in Screens /\ feed(feed(a, b), c) \in Screens
  BY CharRead
<1> QED BY <1>1, <1>3, <1>4, <1>5 DEF x

\* Pages are screens.
LEMMA PageScreens ==
    ASSUME NEW R, NEW m, NEW n, NEW F, NEW r, NEW x PROVE Page(R, m, n, F, r, x) \subseteq Screens
  BY OnPage

\* CR LF; many of them; many times up, and to the right.
LEMMA NewLineOnPage ==
    ASSUME NEW R, NEW m \in Nat, NEW n \in Nat, NEW F \in Sheets(n), NEW r \in Nat, r < n,
           NEW x \in Nat, NEW s \in Page(R, m, n, F, r, x)
    PROVE  Fed(s, NewLine) \in Page(R, m, n, F, r + 1, 0)
<1>1. s \in Screens
  BY OnPage
<1>2. feed(s, "CR") \in Page(R, m, n, F, r, 0)
  BY ReturnOnPage
<1>3. feed(feed(s, "CR"), "LF") \in Page(R, m, n, F, r + 1, 0)
  <2>1. 0 \in Nat /\ 0 < Width
    BY WidthIs
  <2> QED BY <1>2, <2>1, FeedOnPage
<1> QED BY <1>1, <1>3, Signs, FedTwo DEF NewLine

LEMMA DownOnPage ==
    ASSUME NEW R, NEW m \in Nat, NEW n \in Nat, NEW F \in Sheets(n), NEW r \in Nat, NEW d \in Nat,
           r + d <= n, NEW x \in Nat, NEW s \in Page(R, m, n, F, r, x)
    PROVE  /\ Times(NewLine, d) \in Texts
           /\ \E z \in Nat : Fed(s, Times(NewLine, d)) \in Page(R, m, n, F, r + d, z)
<1> DEFINE X(k) == IF k = 0 THEN x ELSE 0
           S == [k \in 0..d |-> Page(R, m, n, F, r + k, X(k))]
           q == Same1(NewLine, d)
<1>1. \A k \in 0..d : S[k] = Page(R, m, n, F, r + k, X(k)) /\ X(k) \in Nat
  OBVIOUS
<1>2. \A k \in 1..d : q[k] = NewLine
  BY DEF Same1
<1> HIDE DEF S, q, X
<1>3. \A k \in 0..d : S[k] \subseteq Screens
  BY <1>1, PageScreens
<1>4. ASSUME NEW k \in 1..d, NEW t \in S[k - 1] PROVE Fed(t, q[k]) \in S[k]
  <2>1. PICK j \in Nat : j = k - 1 /\ j \in 0..d /\ k \in 0..d /\ k = j + 1
    OBVIOUS
  <2>2. t \in Page(R, m, n, F, r + j, X(j)) /\ X(j) \in Nat
    BY <1>1, <2>1
  <2>3. r + j \in Nat /\ r + j < n /\ (r + j) + 1 = r + k /\ X(k) = 0
    BY <2>1 DEF X
  <2>4. Fed(t, NewLine) \in Page(R, m, n, F, (r + j) + 1, 0)
    BY <2>2, <2>3, NewLineOnPage
  <2> QED BY <1>1, <1>2, <2>1, <2>3, <2>4
<1>5. Leads(S, d, q)
  BY <1>3, <1>4 DEF Leads
<1>6. s \in S[0]
  <2>1. X(0) = x /\ r + 0 = r /\ 0 \in 0..d
    BY DEF X
  <2> QED BY <1>1, <2>1
<1>7. Times(NewLine, d) \in Texts /\ Fed(s, Times(NewLine, d)) \in S[d]
  BY <1>5, <1>6, TimesFed, WordsSent DEF q
<1>8. d \in 0..d
  OBVIOUS
<1> QED BY <1>1, <1>7, <1>8

LEMMA UpsOnPage ==
    ASSUME NEW R, NEW m, NEW n, NEW F, NEW r \in Nat, NEW d \in Nat, d <= r, NEW x \in Nat, x < Width,
           NEW s \in Page(R, m, n, F, r, x)
    PROVE  /\ Times(Esc("A"), d) \in Texts
           /\ Fed(s, Times(Esc("A"), d)) \in Page(R, m, n, F, r - d, x)
<1> DEFINE S == [k \in 0..d |-> Page(R, m, n, F, r - k, x)]
           q == Same1(Esc("A"), d)
<1>1. \A k \in 0..d : S[k] = Page(R, m, n, F, r - k, x)
  OBVIOUS
<1>2. \A k \in 1..d : q[k] = Esc("A")
  BY DEF Same1
<1> HIDE DEF S, q
<1>3. \A k \in 0..d : S[k] \subseteq Screens
  BY <1>1, PageScreens
<1>4. ASSUME NEW k \in 1..d, NEW t \in S[k - 1] PROVE Fed(t, q[k]) \in S[k]
  <2>1. PICK j \in Nat : j = k - 1 /\ j \in 0..d /\ k \in 0..d /\ k = j + 1
    OBVIOUS
  <2>2. t \in Page(R, m, n, F, r - j, x)
    BY <1>1, <2>1
  <2>3. r - j \in Nat /\ r - j > 0 /\ (r - j) - 1 = r - k
    BY <2>1
  <2>4. Fed(t, Esc("A")) \in Page(R, m, n, F, (r - j) - 1, x)
    BY <2>2, <2>3, UpOnPage
  <2> QED BY <1>1, <1>2, <2>1, <2>3, <2>4
<1>5. Leads(S, d, q)
  BY <1>3, <1>4 DEF Leads
<1>6. s \in S[0]
  <2>1. r - 0 = r /\ 0 \in 0..d
    OBVIOUS
  <2> QED BY <1>1, <2>1
<1>7. Times(Esc("A"), d) \in Texts /\ Fed(s, Times(Esc("A"), d)) \in S[d]
  BY <1>5, <1>6, TimesFed, WordsSent DEF q
<1>8. d \in 0..d
  OBVIOUS
<1> QED BY <1>1, <1>7, <1>8

LEMMA RightsOnPage ==
    ASSUME NEW R, NEW m, NEW n, NEW F, NEW r \in Nat, NEW d \in Nat, d < Width,
           NEW s \in Page(R, m, n, F, r, 0)
    PROVE  /\ Times(Esc("C"), d) \in Texts
           /\ Fed(s, Times(Esc("C"), d)) \in Page(R, m, n, F, r, d)
<1> DEFINE S == [k \in 0..d |-> Page(R, m, n, F, r, k)]
           q == Same1(Esc("C"), d)
<1>1. \A k \in 0..d : S[k] = Page(R, m, n, F, r, k)
  OBVIOUS
<1>2. \A k \in 1..d : q[k] = Esc("C")
  BY DEF Same1
<1> HIDE DEF S, q
<1>3. \A k \in 0..d : S[k] \subseteq Screens
  BY <1>1, PageScreens
<1>4. ASSUME NEW k \in 1..d, NEW t \in S[k - 1] PROVE Fed(t, q[k]) \in S[k]
  <2>1. PICK j \in Nat : j = k - 1 /\ j \in 0..d /\ k \in 0..d /\ k = j + 1
    OBVIOUS
  <2>2. t \in Page(R, m, n, F, r, j)
    BY <1>1, <2>1
  <2>3. j + 1 < Width
    BY <2>1, WidthIs
  <2>4. Fed(t, Esc("C")) \in Page(R, m, n, F, r, j + 1)
    BY <2>2, <2>3, RightOnPage
  <2> QED BY <1>1, <1>2, <2>1, <2>4
<1>5. Leads(S, d, q)
  BY <1>3, <1>4 DEF Leads
<1>6. s \in S[0]
  <2>1. 0 \in 0..d
    OBVIOUS
  <2> QED BY <1>1, <2>1
<1>7. Times(Esc("C"), d) \in Texts /\ Fed(s, Times(Esc("C"), d)) \in S[d]
  BY <1>5, <1>6, TimesFed, WordsSent DEF q
<1>8. d \in 0..d
  OBVIOUS
<1> QED BY <1>1, <1>7, <1>8

\* Readline's way from one offset to another, whatever column it starts from.
LEMMA MovedOnPage ==
    ASSUME NEW R, NEW m \in Nat, NEW n \in Nat, NEW F \in Sheets(n), NEW p \in Nat, NEW q \in Nat,
           RowAt(q) <= n, NEW x \in Nat, x < Width, NEW s \in Page(R, m, n, F, RowAt(p), x)
    PROVE  Fed(s, Moved(p, q)) \in Page(R, m, n, F, RowAt(q), ColAt(q))
<1> DEFINE down == RowAt(q) - RowAt(p)
           rows == IF down < 0 THEN Times(Esc("A"), -down) ELSE Times(NewLine, down)
           right == Times(Esc("C"), ColAt(q))
<1>1. /\ RowAt(p) \in Nat /\ ColAt(p) \in Nat /\ ColAt(p) < Width
      /\ RowAt(q) \in Nat /\ ColAt(q) \in Nat /\ ColAt(q) < Width
  BY PlaceOf
<1>2. Moved(p, q) = rows \o <<"CR">> \o right
  BY DEF Moved, RowAt, ColAt, Width
<1>3. s \in Screens
  BY OnPage
<1>4. rows \in Texts /\ \E z \in Nat : Fed(s, rows) \in Page(R, m, n, F, RowAt(q), z)
  <2>1. CASE down < 0
    <3>1. PICK d \in Nat : d = -down
      BY <1>1, <2>1
    <3>2. d <= RowAt(p) /\ RowAt(p) - d = RowAt(q)
      BY <1>1, <3>1
    <3>3. rows = Times(Esc("A"), d)
      BY <2>1, <3>1
    <3> QED BY <1>1, <3>2, <3>3, UpsOnPage
  <2>2. CASE ~(down < 0)
    <3>1. PICK d \in Nat : d = down
      BY <1>1, <2>2
    <3>2. RowAt(p) + d = RowAt(q)
      BY <1>1, <3>1
    <3>3. rows = Times(NewLine, d)
      BY <2>2, <3>1
    <3> HIDE DEF rows, down
    <3>4. RowAt(p) + d <= n
      BY <3>2
    <3>5. Times(NewLine, d) \in Texts /\ \E z \in Nat : Fed(s, Times(NewLine, d)) \in Page(R, m, n, F, RowAt(p) + d, z)
      BY <1>1, <3>4, DownOnPage
    <3> QED BY <3>2, <3>3, <3>5
  <2> QED BY <2>1, <2>2
<1> HIDE DEF rows
<1>5. PICK z \in Nat : Fed(s, rows) \in Page(R, m, n, F, RowAt(q), z)
  BY <1>4
<1>6. PICK t : t = Fed(s, rows)
  OBVIOUS
<1>7. t \in Page(R, m, n, F, RowAt(q), z) /\ t \in Screens
  BY <1>5, <1>6, PageScreens
<1>8. <<"CR">> \in Texts /\ Fed(t, <<"CR">>) = feed(t, "CR")
  BY <1>7, Signs, FedOne
<1>9. PICK u : u = feed(t, "CR")
  OBVIOUS
<1>10. u \in Page(R, m, n, F, RowAt(q), 0) /\ u \in Screens
  BY <1>7, <1>9, ReturnOnPage, PageScreens
<1>11. right \in Texts /\ Fed(u, right) \in Page(R, m, n, F, RowAt(q), ColAt(q))
  BY <1>1, <1>10, RightsOnPage
<1> HIDE DEF right
<1>12. rows \o <<"CR">> \in Texts /\ Fed(s, rows \o <<"CR">>) = u
  BY <1>3, <1>4, <1>6, <1>8, <1>9, FedBoth
<1>13. Fed(s, (rows \o <<"CR">>) \o right) = Fed(u, right)
  BY <1>3, <1>11, <1>12, FedBoth
<1> QED BY <1>2, <1>11, <1>13

\* k characters of t have been printed from offset p on; where they end a row, a space follows.
Over(F, t, p, k) ==
    [o \in Nat |-> IF p <= o /\ o < p + k THEN t[o - p + 1]
                   ELSE IF k > 0 /\ o = p + k /\ ColAt(o) = 0 THEN Space ELSE F[o]]

\* What is printed reaches as far down as it is long.
LEMMA OverIs ==
    ASSUME NEW n \in Nat, NEW F \in Sheets(n), NEW t \in Seq(Plain), NEW p \in Nat,
           NEW k \in 0..Len(t)
    PROVE  Over(F, t, p, k) \in Sheets(Most(n, RowAt(p + k)))
<1> DEFINE G == Over(F, t, p, k)
           N == Most(n, RowAt(p + k))
<1>1. F \in [Nat -> Plain] /\ \A o \in Nat : RowAt(o) > n => F[o] = " "
  BY DEF Sheets
<1>2. Len(t) \in Nat /\ \A i \in 1..Len(t) : t[i] \in Plain
  BY LenProperties, ElementOfSeq
<1>3. k \in Nat /\ p + k \in Nat /\ RowAt(p + k) \in Nat
  <2>1. k \in Nat /\ p + k \in Nat
    BY <1>2
  <2> QED BY <2>1, PlaceOf
<1>4. N \in Nat /\ n <= N /\ RowAt(p + k) <= N
  BY <1>3 DEF Most
<1> HIDE DEF N
<1>5. ASSUME NEW o \in Nat
      PROVE  /\ G[o] \in Plain
             /\ RowAt(o) > N => G[o] = " "
  <2>1. G[o] = IF p <= o /\ o < p + k THEN t[o - p + 1]
               ELSE IF k > 0 /\ o = p + k /\ ColAt(o) = 0 THEN " " ELSE F[o]
    BY DEF Over, Space
  <2> HIDE DEF G
  <2>2. CASE p <= o /\ o < p + k
    <3>1. o - p + 1 \in 1..Len(t)
      BY <1>2, <1>3, <2>2
    <3>2. RowAt(o) <= RowAt(p + k) /\ RowAt(o) \in Nat
      <4>1. PICK j \in Nat : j = p + k /\ o <= j
        BY <1>3, <2>2
      <4>2. RowAt(o) <= RowAt(j)
        BY <4>1, PlacesRise
      <4> QED BY <4>1, <4>2, PlaceOf
    <3>3. ~(RowAt(o) > N)
      BY <1>3, <1>4, <3>2
    <3> QED BY <1>2, <2>1, <2>2, <3>1, <3>3
  <2>3. CASE ~(p <= o /\ o < p + k)
    <3>1. RowAt(o) > N => RowAt(o) > n
      BY <1>4, PlaceOf
    <3>2. G[o] \in {" ", F[o]}
      BY <2>1, <2>3
    <3> QED BY <1>1, <3>1, <3>2, SpaceIsPlain
  <2> QED BY <2>2, <2>3
<1>6. G \in [Nat -> Plain]
  <2>1. G = [o \in Nat |-> G[o]]
    BY DEF Over
  <2> HIDE DEF G
  <2> QED BY <1>5, <2>1
<1> QED BY <1>5, <1>6 DEF Sheets, G, N

\* One more of them.
LEMMA OverNext ==
    ASSUME NEW n \in Nat, NEW F \in Sheets(n), NEW t \in Seq(Plain), NEW p \in Nat,
           NEW k \in 1..Len(t), NEW c, c = t[k], NEW o \in Nat, o = p + (k - 1),
           NEW E, E = Over(F, t, p, k - 1)
    PROVE  /\ ColAt(o) + 1 < Width => Over(F, t, p, k) = With(E, RowAt(o), ColAt(o), c)
           /\ ~(ColAt(o) + 1 < Width) =>
                Over(F, t, p, k) = With(With(E, RowAt(o), ColAt(o), c), RowAt(o) + 1, 0, Space)
<1> DEFINE G == With(E, RowAt(o), ColAt(o), c)
           H == Over(F, t, p, k)
<1>1. k \in Nat /\ k - 1 \in Nat /\ o \in Nat /\ p + k = o + 1 /\ k > 0
  BY LenProperties
<1>2. (Width * RowAt(o)) + ColAt(o) = o
  BY <1>1, PlaceOf
<1>3. \A i \in Nat : E[i] = IF p <= i /\ i < o THEN t[i - p + 1]
                            ELSE IF k - 1 > 0 /\ i = o /\ ColAt(i) = 0 THEN Space ELSE F[i]
  BY DEF Over
<1>4. \A i \in Nat : H[i] = IF p <= i /\ i < p + k THEN t[i - p + 1]
                            ELSE IF k > 0 /\ i = p + k /\ ColAt(i) = 0 THEN Space ELSE F[i]
  BY DEF Over
<1>5. DOMAIN E = Nat /\ DOMAIN H = Nat /\ H = [i \in Nat |-> H[i]] /\ E = [i \in Nat |-> E[i]]
  BY DEF Over
<1>6. G = [E EXCEPT ![o] = c]
  BY <1>2 DEF With
<1> HIDE DEF H
<1>7. G = [i \in Nat |-> IF i = o THEN c ELSE E[i]]
  BY <1>1, <1>5, <1>6
<1>8. \A i \in Nat : G[i] = IF i = o THEN c ELSE E[i]
  BY <1>7
<1> HIDE DEF G
<1>9. ASSUME NEW i \in Nat, i # o + 1 PROVE H[i] = G[i]
  <2>1. CASE i = o
    <3>1. p <= i /\ i < p + k /\ i - p + 1 = k
      BY <1>1, <2>1
    <3> QED BY <1>4, <1>8, <2>1, <3>1
  <2>2. CASE i # o
    <3>1. (p <= i /\ i < p + k) <=> (p <= i /\ i < o)
      BY <1>1, <2>2
    <3>2. i # p + k
      BY <1>1, <1>9
    <3> QED BY <1>3, <1>4, <1>8, <2>2, <3>1, <3>2
  <2> QED BY <2>1, <2>2
<1>10. G[o + 1] = F[o + 1]
  <2>1. o + 1 \in Nat /\ o + 1 # o /\ ~(o + 1 < o)
    BY <1>1
  <2> QED BY <1>3, <1>8, <2>1
<1>11. H[o + 1] = IF ColAt(o + 1) = 0 THEN Space ELSE F[o + 1]
  <2>1. o + 1 \in Nat /\ ~(o + 1 < p + k) /\ o + 1 = p + k
    BY <1>1
  <2> QED BY <1>1, <1>4, <2>1
<1>12. CASE ColAt(o) + 1 < Width
  <2>1. ColAt(o + 1) # 0
    <3>1. ColAt(o + 1) = ColAt(o) + 1 /\ ColAt(o) \in Nat
      BY <1>1, <1>12, NextPlace, PlaceOf
    <3> QED BY <3>1
  <2>2. \A i \in Nat : H[i] = G[i]
    BY <1>9, <1>10, <1>11, <2>1
  <2>3. G = [i \in Nat |-> G[i]]
    BY <1>7, <1>8
  <2>4. H = G
    BY <1>5, <2>2, <2>3
  <2> QED BY <1>12, <2>4 DEF H, G
<1>13. CASE ~(ColAt(o) + 1 < Width)
  <2>1. ColAt(o + 1) = 0 /\ RowAt(o + 1) = RowAt(o) + 1
    BY <1>1, <1>13, NextPlace
  <2>2. (Width * (RowAt(o) + 1)) + 0 = o + 1
    <3>1. o + 1 = (Width * RowAt(o + 1)) + ColAt(o + 1)
      BY <1>1, PlaceOf
    <3> QED BY <2>1, <3>1
  <2>3. With(G, RowAt(o) + 1, 0, Space) = [G EXCEPT ![o + 1] = Space]
    BY <2>2 DEF With
  <2>4. [G EXCEPT ![o + 1] = Space] = [i \in Nat |-> IF i = o + 1 THEN Space ELSE G[i]]
    BY <1>1, <1>7
  <2>5. \A i \in Nat : H[i] = IF i = o + 1 THEN Space ELSE G[i]
    BY <1>9, <1>11, <2>1
  <2>6. H = With(G, RowAt(o) + 1, 0, Space)
    BY <1>5, <2>3, <2>4, <2>5
  <2> QED BY <1>13, <2>6 DEF H, G
<1> QED BY <1>12, <1>13

\* The larger of three.
LEMMA MostTwice ==
    ASSUME NEW a \in Nat, NEW b \in Nat, NEW c \in Nat, b <= c
    PROVE  Most(Most(a, b), c) = Most(a, c) /\ Most(a, b) \in Nat /\ Most(a, b) >= b /\ Most(a, b) >= a
  BY DEF Most

\* One character: where it fills the row, the space and the CR follow.
Sent(t, p, k) == IF (p + k) % First.cols = 0 THEN <<t[k], " ", "CR">> ELSE <<t[k]>>

\* One character printed, and a full row's end: the row is full and the next goes on with it.
LEMMA SentOnPage ==
    ASSUME NEW R \in Nat, NEW m \in Nat, NEW n \in Nat, NEW F \in Sheets(n), NEW t \in Seq(Plain),
           NEW p \in Nat, NEW k \in 1..Len(t), RowAt(p + k) < R,
           NEW s \in Page(R, Most(m, RowAt(p + (k - 1))), Most(n, RowAt(p + (k - 1))),
                          Over(F, t, p, k - 1), RowAt(p + (k - 1)), ColAt(p + (k - 1)))
    PROVE  Fed(s, Sent(t, p, k)) \in Page(R, Most(m, RowAt(p + k)), Most(n, RowAt(p + k)),
                                          Over(F, t, p, k), RowAt(p + k), ColAt(p + k))
<1>1. PICK o \in Nat : o = p + (k - 1) /\ p + k = o + 1
  BY LenProperties
<1>2. PICK r \in Nat : r = RowAt(o)
  BY PlaceOf
<1>3. PICK x \in Nat : x = ColAt(o) /\ x < Width
  BY PlaceOf
<1>4. PICK E : E = Over(F, t, p, k - 1)
  OBVIOUS
<1>5. PICK M \in Nat : M = Most(m, r) /\ r <= M
  BY <1>2 DEF Most
<1>6. PICK N \in Nat : N = Most(n, r) /\ r <= N
  BY <1>2 DEF Most
<1>7. s \in Page(R, M, N, E, r, x) /\ s \in Screens
  BY <1>1, <1>2, <1>3, <1>4, <1>5, <1>6, OnPage
<1>8. E \in Sheets(N)
  <2>1. k - 1 \in 0..Len(t)
    BY LenProperties
  <2> QED BY <1>1, <1>2, <1>4, <1>6, <2>1, OverIs
<1>9. PICK c \in Plain : c = t[k]
  BY ElementOfSeq
<1>10. CASE x + 1 < Width
  <2>1. RowAt(o + 1) = r /\ ColAt(o + 1) = x + 1
    BY <1>2, <1>3, <1>10, NextPlace
  <2>2. Over(F, t, p, k) = With(E, r, x, c)
    <3>1. ColAt(o) + 1 < Width => Over(F, t, p, k) = With(E, RowAt(o), ColAt(o), c)
      BY <1>1, <1>4, <1>9, OverNext
    <3> QED BY <1>2, <1>3, <1>10, <3>1
  <2>3. Sent(t, p, k) = <<c>>
    <3>1. ColAt(p + k) # 0
      BY <1>1, <2>1
    <3> QED BY <1>9, <3>1 DEF Sent, ColAt, Width
  <2>4. feed(s, c) \in Page(R, M, N, With(E, r, x, c), r, x + 1)
    BY <1>3, <1>6, <1>7, <1>8, CharOnPage
  <2>5. Fed(s, <<c>>) = feed(s, c)
    BY <1>7, PlainIs, FedOne
  <2> QED BY <1>1, <1>5, <1>6, <2>1, <2>2, <2>3, <2>4, <2>5
<1>11. CASE ~(x + 1 < Width)
  <2>1. RowAt(o + 1) = r + 1 /\ ColAt(o + 1) = 0 /\ x = Width - 1
    BY <1>2, <1>3, <1>11, NextPlace, WidthIs
  <2>2. Over(F, t, p, k) = With(With(E, r, x, c), r + 1, 0, " ")
    <3>1. ~(ColAt(o) + 1 < Width) =>
             Over(F, t, p, k) = With(With(E, RowAt(o), ColAt(o), c), RowAt(o) + 1, 0, Space)
      BY <1>1, <1>4, <1>9, OverNext
    <3> QED BY <1>2, <1>3, <1>11, <3>1 DEF Space
  <2>3. Sent(t, p, k) = <<c, " ", "CR">>
    <3>1. ColAt(p + k) = 0
      BY <1>1, <2>1
    <3> QED BY <1>9, <3>1 DEF Sent, ColAt, Width
  <2>4. r + 1 < R
    BY <1>1, <2>1
  <2>5. s \in Page(R, M, N, E, r, Width - 1)
    BY <1>7, <2>1
  <2>6. Fed(s, <<c, " ", "CR">>) \in
           Page(R, Most(M, r + 1), Most(N, r + 1), With(With(E, r, Width - 1, c), r + 1, 0, " "), r + 1, 0)
    BY <1>5, <1>6, <1>8, <2>4, <2>5, FillOnPage
  <2>7. Most(M, r + 1) = Most(m, r + 1) /\ Most(N, r + 1) = Most(n, r + 1)
    <3>1. PICK j \in Nat : j = r + 1 /\ r <= j
      OBVIOUS
    <3>2. Most(M, j) = Most(m, j) /\ Most(N, j) = Most(n, j)
      <4>1. Most(Most(m, r), j) = Most(m, j)
        BY <3>1, MostTwice
      <4>2. Most(Most(n, r), j) = Most(n, j)
        BY <3>1, MostTwice
      <4> QED BY <1>5, <1>6, <4>1, <4>2
    <3> QED BY <3>1, <3>2
  <2> QED BY <1>1, <2>1, <2>2, <2>3, <2>6, <2>7
<1> QED BY <1>10, <1>11

\* A text printed.
LEMMA PrintedOnPage ==
    ASSUME NEW R \in Nat, NEW m \in Nat, NEW n \in Nat, NEW F \in Sheets(n), NEW t \in Seq(Plain),
           NEW p \in Nat, RowAt(p) <= m, m <= n, RowAt(p + Len(t)) < R,
           NEW s \in Page(R, m, n, F, RowAt(p), ColAt(p))
    PROVE  /\ Printed(t, p) \in Texts
           /\ Fed(s, Printed(t, p)) \in
                 Page(R, Most(m, RowAt(p + Len(t))), Most(n, RowAt(p + Len(t))),
                      Over(F, t, p, Len(t)), RowAt(p + Len(t)), ColAt(p + Len(t)))
<1> DEFINE L == Len(t)
           P(k) == Page(R, Most(m, RowAt(p + k)), Most(n, RowAt(p + k)), Over(F, t, p, k),
                        RowAt(p + k), ColAt(p + k))
           S == [k \in 0..L |-> P(k)]
           q == [k \in 1..L |-> Sent(t, p, k)]
<1>1. L \in Nat /\ t \in Texts
  BY LenProperties, PlainChars DEF Texts
<1>2. Printed(t, p) = FlattenSeq(q)
  BY DEF Printed, Sent
<1>3. q \in Seq(Texts) /\ Len(q) = L
  <2>1. ASSUME NEW k \in 1..L PROVE Sent(t, p, k) \in Texts
    <3>1. t[k] \in Chars
      BY <1>1, ElementOfSeq DEF Texts
    <3> QED BY <3>1, WordsSent DEF Sent
  <2>2. q \in [1..L -> Texts]
    BY <2>1
  <2> HIDE DEF q
  <2> QED BY <1>1, <2>2, FunctionIsSeq
<1>4. \A k \in 0..L : S[k] = P(k)
  OBVIOUS
<1>5. \A k \in 1..L : q[k] = Sent(t, p, k)
  OBVIOUS
<1> HIDE DEF S, q
<1>6. \A k \in 0..L : S[k] \subseteq Screens
  BY <1>4, PageScreens
<1>7. ASSUME NEW k \in 1..L, NEW u \in S[k - 1] PROVE Fed(u, q[k]) \in S[k]
  <2>1. k - 1 \in 0..L /\ k \in 0..L
    BY <1>1
  <2>2. RowAt(p + k) < R
    <3>1. p + k \in Nat /\ p + L \in Nat /\ p + k <= p + L
      BY <1>1
    <3>2. RowAt(p + k) <= RowAt(p + L) /\ RowAt(p + k) \in Nat /\ RowAt(p + L) \in Nat
      BY <3>1, PlacesRise, PlaceOf
    <3> QED BY <3>2
  <2>3. u \in P(k - 1)
    BY <1>4, <2>1
  <2>4. Fed(u, Sent(t, p, k)) \in P(k)
    BY <2>2, <2>3, SentOnPage
  <2> HIDE DEF P
  <2> QED BY <1>4, <1>5, <2>1, <2>4
<1>8. Leads(S, L, q)
  BY <1>6, <1>7 DEF Leads
<1>9. s \in S[0]
  <2>1. p + 0 = p /\ 0 \in 0..L /\ RowAt(p) \in Nat
    BY <1>1, PlaceOf
  <2>2. Most(m, RowAt(p)) = m /\ Most(n, RowAt(p)) = n
    BY <2>1 DEF Most
  <2>3. Over(F, t, p, 0) = F
    <3>1. F \in [Nat -> Plain]
      BY DEF Sheets
    <3>2. \A o \in Nat : ~(p <= o /\ o < p + 0) /\ ~(0 > 0)
      OBVIOUS
    <3> QED BY <3>1, <3>2 DEF Over
  <2>4. P(0) = Page(R, m, n, F, RowAt(p), ColAt(p))
    BY <2>1, <2>2, <2>3
  <2> QED BY <1>4, <2>1, <2>4
<1>10. FlattenSeq(q) \in Texts /\ Fed(s, FlattenSeq(q)) \in S[L]
  BY <1>1, <1>3, <1>8, <1>9, LoopFed
<1>11. L \in 0..L
  BY <1>1
<1> QED BY <1>2, <1>4, <1>10, <1>11

-----------------------------------------------------------------------------
(***************************************************************************)
(* What a chunk leaves of the parser's state: readline's own end in        *)
(* "GROUND" on any screen, tidy or not.                                    *)
(***************************************************************************)
Steady(s, t) == t.state = s.state /\ t.unsure = s.unsure

\* Steady steps make a steady one; rows and cursor have no part in it.
LEMMA SteadyChain ==
    ASSUME NEW s, NEW t, NEW u, Steady(s, t), Steady(t, u) PROVE Steady(s, u)
  BY DEF Steady

LEMMA SteadyRows ==
    ASSUME NEW s \in Screens, NEW b, NEW l, NEW i, NEW c, NEW x, NEW y
    PROVE  /\ Steady(s, withBuf(s, b)) /\ Steady(s, moved(withBuf(s, b)))
           /\ Steady(s, withLines(s, l)) /\ Steady(s, withLine(s, i, l)) /\ Steady(s, withCells(s, c))
           /\ Steady(s, [s EXCEPT !.x = x]) /\ Steady(s, [s EXCEPT !.y = y])
           /\ Steady(s, [s EXCEPT !.x = x, !.y = y]) /\ Steady(s, [s EXCEPT !.y = y, !.x = x])
<1>1. s \in ScreenType
  BY DEF Screens
<1>2. \A d : Steady(s, withBuf(s, d))
  BY <1>1 DEF ScreenType, withBuf, Steady
<1>3. Steady(s, moved(withBuf(s, b)))
  BY <1>1 DEF ScreenType, withBuf, moved, Steady
<1>4. \A d : Steady(s, withLines(s, d))
  BY <1>2 DEF withLines
<1>5. \A j, d : Steady(s, withLine(s, j, d))
  BY <1>4 DEF withLine
<1>6. Steady(s, withCells(s, c))
  BY <1>5 DEF withCells
<1>7. /\ Steady(s, [s EXCEPT !.x = x]) /\ Steady(s, [s EXCEPT !.y = y])
      /\ Steady(s, [s EXCEPT !.x = x, !.y = y]) /\ Steady(s, [s EXCEPT !.y = y, !.x = x])
  BY <1>1 DEF ScreenType, Steady
<1> QED BY <1>2, <1>3, <1>4, <1>5, <1>6, <1>7

\* Going down, a line feed and a print leave the parser where it is.
LEMMA SteadyBelow ==
    ASSUME NEW s \in Screens PROVE Steady(s, below(s))
<1>1. CASE s.y = s.bottom /\ s.top = 0
  <2>1. below(s) = scrollOff(s)
    BY <1>1, ScrolledOnce DEF below, scrollUp1
  <2> QED BY <2>1, SteadyRows DEF scrollOff
<1>2. CASE s.y = s.bottom /\ s.top # 0
  <2>1. below(s) = pullUp(s, s.top)
    BY <1>2, ScrolledOnce DEF below, scrollUp1
  <2> QED BY <2>1, SteadyRows DEF pullUp
<1>3. CASE s.y # s.bottom
  BY <1>3, SteadyRows DEF below
<1> QED BY <1>1, <1>2, <1>3

LEMMA SteadyFeed ==
    ASSUME NEW s \in Screens
    PROVE  lineFeed(s).state = s.state /\ (lineFeed(s).unsure <=> s.unsure /\ s.x # 0)
<1> DEFINE u == s.unsure /\ s.x # 0
           t == [inside(s) EXCEPT !.unsure = u]
<1>1. inside(s) \in Screens /\ inside(s).unsure = s.unsure /\ inside(s).state = s.state
  <2>1. Steady(s, inside(s))
    BY SteadyRows DEF inside
  <2> QED BY <2>1, CursorInside DEF Steady
<1>2. t \in Screens
  <2>1. u \in BOOLEAN
    OBVIOUS
  <2> HIDE DEF u
  <2> QED BY <1>1, <2>1, FlagsMove
<1>3. lineFeed(s) = below(t)
  BY <1>1 DEF lineFeed
<1>4. t.state = s.state /\ t.unsure = u
  <2> HIDE DEF u
  <2> QED BY <1>1 DEF Screens, ScreenType
<1> HIDE DEF t, u
<1>5. lineFeed(s).state = s.state /\ lineFeed(s).unsure = u
  BY <1>2, <1>3, <1>4, SteadyBelow DEF Steady
<1> QED BY <1>5 DEF u

LEMMA SteadyPrint ==
    ASSUME NEW s \in Screens, NEW c
    PROVE  Steady(s, printAt(placed(s, 1), c, 1))
<1>1. Steady(s, placed(s, 1)) /\ placed(s, 1) \in Screens
  <2>0. placed(s, 1) \in Screens
    BY Placed, 1 \in {1, 2}
  <2>1. CASE s.x + 1 <= s.cols
    BY <2>0, <2>1 DEF placed, Steady
  <2>2. CASE ~(s.x + 1 <= s.cols) /\ ~s.wrap
    BY <2>0, <2>2, SteadyRows DEF placed
  <2>3. CASE ~(s.x + 1 <= s.cols) /\ s.wrap
    <3>1. PICK d : d = [below(s) EXCEPT !.x = 0]
      OBVIOUS
    <3>2. placed(s, 1) = withLine(d, d.y, [line(d, d.y) EXCEPT !.wrapped = TRUE])
      BY <2>3, <3>1 DEF placed
    <3>3. below(s) \in Screens
      BY CursorBelow
    <3>4. d \in Screens
      <4>1. 0 \in Nat /\ 0 <= below(s).cols
        BY <3>3, ScreenNumbers
      <4> QED BY <3>1, <3>3, <4>1, CursorMoves
    <3>5. Steady(s, below(s)) /\ Steady(below(s), d)
      BY <3>1, <3>3, SteadyBelow, SteadyRows
    <3>6. Steady(d, placed(s, 1))
      BY <3>2, <3>4, SteadyRows
    <3> QED BY <2>0, <3>5, <3>6, SteadyChain
  <2> QED BY <2>1, <2>2, <2>3
<1>2. ASSUME NEW t \in Screens PROVE Steady(t, printAt(t, c, 1))
  <2>1. PICK d : d = IF t.insert THEN shift(cellsAt(t), t.x, 1, t.cols) ELSE cellsAt(t)
    OBVIOUS
  <2>2. printAt(t, c, 1) = [withCells(t, overwritten(d, t.x, c, 1)) EXCEPT !.x = @ + 1]
    BY <2>1 DEF printAt
  <2>3. withCells(t, overwritten(d, t.x, c, 1)) =
           withLine(t, t.y, [line(t, t.y) EXCEPT !.cells = overwritten(d, t.x, c, 1)])
    BY DEF withCells
  <2>4. \A e : [withCells(t, e) EXCEPT !.x = @ + 1].state = t.state
               /\ [withCells(t, e) EXCEPT !.x = @ + 1].unsure = t.unsure
    BY DEF withCells, withLine, withLines, withBuf, Screens, ScreenType
  <2> QED BY <2>2, <2>4 DEF Steady
<1> QED BY <1>1, <1>2, SteadyChain
-----------------------------------------------------------------------------
Grounded == {s \in Screens : s.state = "GROUND"}

Calm(c) == c \in Texts /\ \A s \in Grounded : Fed(s, c) \in Grounded

\* Nothing is calm, and calm chunks make a calm one.
LEMMA CalmNone == Calm(<<>>)
  BY EmptyLine, FedNone DEF Calm, Grounded

LEMMA CalmBoth == ASSUME NEW u, NEW v, Calm(u), Calm(v) PROVE Calm(u \o v)
<1>1. ASSUME NEW s \in Grounded PROVE Fed(s, u \o v) \in Grounded
  <2>1. s \in Screens /\ Fed(s, u) \in Grounded
    BY DEF Calm, Grounded
  <2>2. Fed(s, u \o v) = Fed(Fed(s, u), v)
    BY <2>1, FedBoth DEF Calm
  <2> QED BY <2>1, <2>2 DEF Calm
<1>2. u \o v \in Texts
  BY EmptyLine, FedBoth, ConcatProperties DEF Calm, Texts
<1> QED BY <1>1, <1>2 DEF Calm

\* One character.
LEMMA CalmPlain == ASSUME NEW s \in Grounded, NEW c \in Plain PROVE feed(s, c) \in Grounded
  BY PlainFed, SteadyPrint DEF Steady, Grounded

\* CR and LF.
LEMMA CalmControl ==
    ASSUME NEW s \in Grounded, NEW c \in {"CR", "LF"}
    PROVE  feed(s, c) \in Grounded /\ (c = "CR" => feed(s, c).x = 0 /\ feed(s, c).unsure = s.unsure)
<1>1. s \in Screens /\ s.state = "GROUND"
  BY DEF Grounded
<1>2. feed(s, c) = (IF c = "CR" THEN [s EXCEPT !.x = 0] ELSE lineFeed(s)) /\ feed(s, c) \in Screens
  BY <1>1, ControlFed
<1>3. CASE c = "CR"
  <2>1. feed(s, c) = [s EXCEPT !.x = 0]
    BY <1>2, <1>3
  <2> QED BY <1>1, <1>2, <2>1 DEF Grounded, Screens, ScreenType
<1>4. CASE c # "CR"
  <2>1. feed(s, c) = lineFeed(s)
    BY <1>2, <1>4
  <2> QED BY <1>1, <1>2, <1>4, <2>1, SteadyFeed DEF Grounded
<1> QED BY <1>3, <1>4

\* What readline prints a character with.
LEMMA CalmSent ==
    ASSUME NEW t \in Seq(Plain), NEW p, NEW k \in 1..Len(t) PROVE Calm(Sent(t, p, k))
<1>1. PICK c \in Plain : c = t[k]
  BY ElementOfSeq
<1>2. c \in Chars /\ " " \in Chars /\ "CR" \in Chars /\ " " \in Plain
  BY PlainIs, Signs, SpaceIsPlain
<1>3. Calm(<<c>>)
  <2>1. \A s \in Grounded : Fed(s, <<c>>) \in Grounded
    BY <1>2, CalmPlain, FedOne DEF Grounded
  <2>2. <<c>> \in Texts
    BY <1>2, WordsSent
  <2> QED BY <2>1, <2>2 DEF Calm
<1>4. Calm(<<c, " ", "CR">>)
  <2>1. ASSUME NEW s \in Grounded PROVE Fed(s, <<c, " ", "CR">>) \in Grounded
    <3>1. Fed(s, <<c, " ", "CR">>) = feed(feed(feed(s, c), " "), "CR")
      BY <1>2, FedThree DEF Grounded
    <3>2. PICK u \in Grounded : u = feed(s, c)
      BY CalmPlain
    <3>3. PICK v \in Grounded : v = feed(u, " ")
      BY <1>2, CalmPlain
    <3> QED BY <3>1, <3>2, <3>3, CalmControl
  <2>2. <<c, " ", "CR">> \in Texts
    BY <1>2, WordsSent
  <2> QED BY <2>1, <2>2 DEF Calm
<1> QED BY <1>1, <1>3, <1>4 DEF Sent

\* A CR LF leaves the cursor where the model is sure of it.
LEMMA CalmNewLine ==
    /\ Calm(NewLine) /\ Calm(<<"CR">>)
    /\ \A s \in Grounded : Fed(s, NewLine).unsure = FALSE
<1>1. ASSUME NEW s \in Grounded
      PROVE  /\ Fed(s, NewLine) \in Grounded /\ Fed(s, NewLine).unsure = FALSE
             /\ Fed(s, <<"CR">>) \in Grounded
  <2>1. PICK u \in Grounded : u = feed(s, "CR") /\ u.x = 0
    BY CalmControl
  <2>2. Fed(s, NewLine) = feed(u, "LF") /\ Fed(s, <<"CR">>) = u
    <3>1. s \in Screens /\ "CR" \in Chars /\ "LF" \in Chars
      BY Signs DEF Grounded
    <3>2. Fed(s, <<"CR">>) = u
      BY <2>1, <3>1, FedOne
    <3>3. Fed(s, <<"CR", "LF">>) = feed(u, "LF")
      BY <2>1, <3>1, FedTwo
    <3> QED BY <3>2, <3>3 DEF NewLine
  <2>3. feed(u, "LF") = lineFeed(u) /\ u \in Screens
    BY ControlFed DEF Grounded
  <2>4. feed(u, "LF") \in Grounded
    BY CalmControl
  <2>5. lineFeed(u).unsure <=> FALSE
    BY <2>1, <2>3, SteadyFeed
  <2>6. lineFeed(u).unsure \in BOOLEAN
    BY <2>3, <2>4 DEF Grounded, Screens, ScreenType
  <2> QED BY <2>1, <2>2, <2>3, <2>4, <2>5, <2>6
<1> QED BY <1>1, WordsSent, Signs DEF Calm, Texts

\* Many calm chunks.
LEMMA CalmFlat ==
    ASSUME NEW n \in Nat, NEW q \in Seq(Texts), Len(q) = n, \A k \in 1..n : Calm(q[k])
    PROVE  Calm(FlattenSeq(q))
<1> DEFINE S == [k \in 0..n |-> Grounded]
<1>1. \A k \in 0..n : S[k] = Grounded
  OBVIOUS
<1> HIDE DEF S
<1>2. Leads(S, n, q)
  <2>1. \A k \in 0..n : S[k] \subseteq Screens
    BY <1>1 DEF Grounded
  <2>2. ASSUME NEW k \in 1..n, NEW s \in S[k - 1] PROVE Fed(s, q[k]) \in S[k]
    <3>1. k \in 0..n /\ k - 1 \in 0..n
      OBVIOUS
    <3> QED BY <1>1, <3>1 DEF Calm
  <2> QED BY <2>1, <2>2 DEF Leads
<1>3. \A s \in Grounded : s \in S[0] /\ n \in 0..n
  BY <1>1
<1>4. \A s \in Grounded : FlattenSeq(q) \in Texts /\ Fed(s, FlattenSeq(q)) \in Grounded
  BY <1>1, <1>2, <1>3, LoopFed
<1>5. FlattenSeq(q) \in Texts
  BY Joined
<1> QED BY <1>4, <1>5 DEF Calm

\* Erasing leaves the parser where it is.
LEMMA SteadyErase ==
    ASSUME NEW s \in Screens, NEW p
    PROVE  eraseDisplay(s, p).state = s.state
<1> DEFINE onto == IF p = 0 /\ s.x = 0 THEN afresh(s) ELSE s
           e0   == withCells(onto, erase(cellsAt(s), Least(s.x, s.cols), Len(cellsAt(s))))
           e1   == withCells(onto, erase(cellsAt(s), 0, Least(s.x, s.cols - 1) + 1))
           row  == CASE p = 0 -> e0 [] p = 1 -> e1 [] OTHER -> onto
           off  == {i \in 0..(s.rows - 1) : p = 2 \/ (p = 0 /\ i > s.y) \/ (p = 1 /\ i < s.y)}
           b    == buf(row)
           t    == withLines(row, [k \in 1..Len(b.lines) |->
                                     IF k - b.base - 1 \in off THEN newRow ELSE b.lines[k]])
<1>1. onto \in Screens /\ onto.state = s.state
  <2>1. afresh(s) \in Screens
    BY StartsAfresh
  <2>2. Steady(s, afresh(s))
    BY SteadyRows DEF afresh
  <2> QED BY <2>1, <2>2 DEF Steady
<1> HIDE DEF onto
<1>2. e0 \in Screens /\ e1 \in Screens
  BY <1>1, ErasedAtCursor, CellsMove, 0 \in Nat
<1>3. e0.state = s.state /\ e1.state = s.state
  <2>1. Steady(onto, e0) /\ Steady(onto, e1)
    BY <1>1, SteadyRows
  <2> QED BY <1>1, <2>1 DEF Steady
<1> HIDE DEF e0, e1
<1>4. row \in Screens /\ row.state = s.state
  BY <1>1, <1>2, <1>3, Zenon
<1> HIDE DEF row, off
<1>5. t.state = s.state /\ t.unsure = row.unsure /\ DOMAIN t = DOMAIN row
  <2>1. Steady(row, t)
    BY <1>4, SteadyRows
  <2>2. DOMAIN t = DOMAIN row
    BY DEF withLines, withBuf
  <2> QED BY <1>4, <2>1, <2>2 DEF Steady
<1>6. "state" \in DOMAIN t /\ "unsure" # "state"
  BY <1>4, <1>5 DEF Screens, ScreenType
<1> HIDE DEF t, b
<1>7. eraseDisplay(s, p) = [t EXCEPT !.unsure = @ /\ ~(p = 2 \/ (p = 0 /\ s.x = 0 /\ s.y = 0))]
  BY Zenon DEF eraseDisplay, t, off, b, row, e0, e1, onto
<1>8. \A v : [t EXCEPT !.unsure = v].state = t.state
  BY <1>6
<1> QED BY <1>5, <1>7, <1>8

\* Readline's control sequences, repetitions, prints and moves are calm.
LEMMA CalmEsc == ASSUME NEW f \in Finals PROVE Calm(Esc(f))
<1>1. ASSUME NEW s \in Grounded PROVE Fed(s, Esc(f)) \in Grounded
  <2>1. s \in Screens /\ s.state = "GROUND"
    BY DEF Grounded
  <2>2. PICK g : g = [s EXCEPT !.params = <<>>, !.inter = <<>>]
    OBVIOUS
  <2>3. /\ g \in Screens /\ Alike(s, g)
        /\ Fed(s, Esc(f)) = public(g, f, <<0>>) /\ public(g, f, <<0>>) \in Screens
    BY <2>1, <2>2, EscFed
  <2>4. g.state = "GROUND"
    BY <2>1, <2>3, AlikeFields
  <2>5. inside(g) \in Screens /\ inside(g).state = "GROUND"
    BY <2>3, <2>4, CursorInside, SteadyRows DEF inside, Steady
  <2>6. public(g, f, <<0>>).state = "GROUND"
    <3>1. CASE f = "A"
      <4>1. public(g, f, <<0>>) = cursorUp(g, 1)
        BY <3>1, OneAtLeast, Zenon DEF public
      <4>2. Steady(inside(g), cursorUp(g, 1))
        BY <2>5, SteadyRows DEF cursorUp
      <4> QED BY <2>5, <4>1, <4>2 DEF Steady
    <3>2. CASE f = "C"
      <4>1. public(g, f, <<0>>) = [g EXCEPT !.x = Least(g.cols - 1, @ + 1)]
        BY <3>2, OneAtLeast, Zenon DEF public
      <4>2. Steady(g, [g EXCEPT !.x = Least(g.cols - 1, @ + 1)])
        BY <2>3, SteadyRows
      <4> QED BY <2>4, <4>1, <4>2 DEF Steady
    <3>3. CASE f = "H"
      <4>1. ~(Len(<<0>>) > 1)
        BY OneAtLeast
      <4>2. public(g, f, <<0>>) = [g EXCEPT !.y = toRow(g, 1 - 1), !.x = Least(g.cols, Most(1, 0)) - 1]
        BY <3>3, <4>1, OneAtLeast, Zenon DEF public
      <4>3. Steady(g, [g EXCEPT !.y = toRow(g, 1 - 1), !.x = Least(g.cols, Most(1, 0)) - 1])
        BY <2>3, SteadyRows
      <4> QED BY <2>4, <4>2, <4>3 DEF Steady
    <3>4. CASE f = "J"
      <4>1. <<0>>[1] = 0 /\ 0 # 3
        BY OneAtLeast
      <4>2. public(g, f, <<0>>) = eraseDisplay(g, 0)
        BY <3>4, <4>1, Zenon DEF public
      <4> QED BY <2>3, <2>4, <4>2, SteadyErase
    <3>5. CASE f = "K"
      <4>1. public(g, f, <<0>>) = eraseLine(g, 0)
        BY <3>5, OneAtLeast, Zenon DEF public
      <4>2. \E c : eraseLine(g, 0) = withCells(g, c)
        BY DEF eraseLine
      <4>3. Steady(g, eraseLine(g, 0))
        BY <2>3, <4>2, SteadyRows
      <4> QED BY <2>4, <4>1, <4>3 DEF Steady
    <3> QED BY <3>1, <3>2, <3>3, <3>4, <3>5 DEF Finals
  <2> QED BY <2>3, <2>6 DEF Grounded
<1>2. Esc(f) \in Texts
  BY WordsSent DEF Finals
<1> QED BY <1>1, <1>2 DEF Calm

LEMMA CalmTimes == ASSUME NEW c, Calm(c), NEW n \in Nat PROVE Calm(Times(c, n))
<1> DEFINE q == [k \in 1..n |-> c]
<1>1. c \in Texts
  BY DEF Calm
<1>2. q \in [1..n -> Texts] /\ \A k \in 1..n : Calm(q[k])
  BY <1>1
<1>3. Times(c, n) = FlattenSeq(q)
  BY DEF Times
<1> HIDE DEF q
<1>4. q \in Seq(Texts) /\ Len(q) = n
  BY <1>2, FunctionIsSeq
<1> QED BY <1>2, <1>3, <1>4, CalmFlat

LEMMA CalmPrinted == ASSUME NEW t \in Seq(Plain), NEW p PROVE Calm(Printed(t, p))
<1> DEFINE n == Len(t)
           q == [k \in 1..n |-> Sent(t, p, k)]
<1>1. n \in Nat
  BY LenProperties
<1>2. Printed(t, p) = FlattenSeq(q)
  BY DEF Printed, Sent
<1>3. \A k \in 1..n : Calm(q[k])
  BY CalmSent
<1>4. q \in [1..n -> Texts]
  <2>1. \A k \in 1..n : Sent(t, p, k) \in Texts
    BY CalmSent DEF Calm
  <2> QED BY <2>1
<1> HIDE DEF q
<1>5. q \in Seq(Texts) /\ Len(q) = n
  BY <1>1, <1>4, FunctionIsSeq
<1> QED BY <1>1, <1>2, <1>3, <1>5, CalmFlat

LEMMA CalmMoved == ASSUME NEW p \in Nat, NEW q \in Nat PROVE Calm(Moved(p, q))
<1> DEFINE down == RowAt(q) - RowAt(p)
           rows == IF down < 0 THEN Times(Esc("A"), -down) ELSE Times(NewLine, down)
           right == Times(Esc("C"), ColAt(q))
<1>1. RowAt(p) \in Nat /\ RowAt(q) \in Nat /\ ColAt(q) \in Nat
  BY PlaceOf
<1>2. Moved(p, q) = rows \o <<"CR">> \o right
  BY DEF Moved, RowAt, ColAt, Width
<1>3. Calm(Esc("A")) /\ Calm(Esc("C"))
  BY CalmEsc DEF Finals
<1>4. Calm(rows)
  <2>1. CASE down < 0
    <3>1. -down \in Nat
      BY <1>1, <2>1
    <3> HIDE DEF down
    <3> QED BY <1>3, <2>1, <3>1, CalmTimes
  <2>2. CASE ~(down < 0)
    <3>1. down \in Nat
      BY <1>1, <2>2
    <3> HIDE DEF down
    <3> QED BY <2>2, <3>1, CalmNewLine, CalmTimes
  <2> QED BY <2>1, <2>2
<1>5. Calm(right)
  BY <1>1, <1>3, CalmTimes
<1> HIDE DEF rows, right
<1>6. Calm(rows \o <<"CR">>)
  BY <1>4, CalmNewLine, CalmBoth
<1> QED BY <1>2, <1>5, <1>6, CalmBoth

\* Two words, one after the other.
LEMMA PairOf ==
    ASSUME NEW S, NEW x \in S, NEW y \in S PROVE Append(Append(<<>>, x), y) = <<x, y>>
<1> DEFINE e == <<x>>
           p == <<x, y>>
           a == Append(e, y)
<1>1. Append(<<>>, x) = e
  <2>1. \A z : Append(<<>>, z) = <<z>>
    OBVIOUS
  <2> QED BY <2>1
<1>2. e \in Seq(S) /\ Len(e) = 1 /\ e[1] = x
  OBVIOUS
<1>3. p \in Seq(S) /\ Len(p) = 2 /\ p[1] = x /\ p[2] = y
  OBVIOUS
<1> HIDE DEF e, p
<1>4. a \in Seq(S) /\ Len(a) = 2 /\ a[2] = y /\ a[1] = e[1]
  <2>1. a \in Seq(S)
    BY <1>2, AppendProperties
  <2>2. Len(a) = Len(e) + 1 /\ a[Len(e) + 1] = y
    BY <1>2, AppendProperties
  <2>3. \A i \in 1..Len(e) : a[i] = e[i]
    BY <1>2, AppendProperties
  <2>4. 1 \in 1..Len(e) /\ Len(e) + 1 = 2
    BY <1>2
  <2> QED BY <2>1, <2>2, <2>3, <2>4
<1> HIDE DEF a
<1>5. \A i \in 1..2 : a[i] = p[i]
  BY <1>2, <1>3, <1>4
<1>6. a = p
  BY <1>3, <1>4, <1>5, SeqEqual
<1> QED BY <1>1, <1>6 DEF a, p

\* Two triples.
LEMMA SixOf ==
    ASSUME NEW S, NEW a \in S, NEW b \in S, NEW c \in S, NEW d \in S, NEW e \in S, NEW f \in S
    PROVE  <<a, b, c>> \o <<d, e, f>> = <<a, b, c, d, e, f>>
<1> DEFINE u == <<a, b, c>>
           v == <<d, e, f>>
           p == <<a, b, c, d, e, f>>
           w == u \o v
<1>1. u \in Seq(S) /\ Len(u) = 3 /\ u[1] = a /\ u[2] = b /\ u[3] = c
  OBVIOUS
<1>2. v \in Seq(S) /\ Len(v) = 3 /\ v[1] = d /\ v[2] = e /\ v[3] = f
  OBVIOUS
<1>3. p \in Seq(S) /\ Len(p) = 6 /\ p[1] = a /\ p[2] = b /\ p[3] = c
      /\ p[4] = d /\ p[5] = e /\ p[6] = f
  OBVIOUS
<1> HIDE DEF u, v, p
<1>4. w \in Seq(S) /\ Len(w) = 3 + 3 /\ (\A k \in 1..3 : w[k] = u[k])
                          /\ (\A k \in 1..3 : w[3 + k] = v[k])
  <2>1. w \in Seq(S) /\ Len(w) = Len(u) + Len(v)
    BY <1>1, <1>2, ConcatParts
  <2>2. \A k \in 1..Len(u) : w[k] = u[k]
    BY <1>1, <1>2, ConcatParts
  <2>3. \A k \in 1..Len(v) : w[Len(u) + k] = v[k]
    <3>1. u \in Seq(S) /\ v \in Seq(S)
      BY <1>1, <1>2
    <3> QED BY ONLY <3>1, ConcatParts
  <2> HIDE DEF w
  <2> QED BY <1>1, <1>2, <2>1, <2>2, <2>3
<1> HIDE DEF w
<1>5. /\ w[1] = a /\ w[2] = b /\ w[3] = c /\ w[3 + 1] = d /\ w[3 + 2] = e /\ w[3 + 3] = f
  BY <1>1, <1>2, <1>4
<1>6. \A i \in 1..6 : w[i] = p[i]
  <2>1. \A i \in 1..6 : i = 1 \/ i = 2 \/ i = 3 \/ i = 3 + 1 \/ i = 3 + 2 \/ i = 3 + 3
    OBVIOUS
  <2>2. 3 + 1 = 4 /\ 3 + 2 = 5 /\ 3 + 3 = 6
    OBVIOUS
  <2> QED BY <1>3, <1>5, <2>1, <2>2
<1>7. w = p
  BY <1>3, <1>4, <1>6, SeqEqual
<1> QED BY <1>7 DEF w, u, v, p
-----------------------------------------------------------------------------
(***************************************************************************)
(* What the shell says of the terminal, whatever it interrupts.            *)
(***************************************************************************)
\* Only the parser's state and the context differ.
Kin(s, t) ==
    \A f \in {"cols", "rows", "top", "bottom", "wrap", "origin", "insert", "unsure",
              "x", "y", "main", "alt"} : t[f] = s[f]

\* Kin of kin; what they have in common.
LEMMA KinChain ==
    ASSUME NEW s, NEW t, NEW u, Kin(s, t), Kin(t, u) PROVE Kin(s, u)
  BY DEF Kin

LEMMA KinFields ==
    ASSUME NEW s, NEW t, Kin(s, t)
    PROVE  /\ t.cols = s.cols /\ t.rows = s.rows /\ t.top = s.top /\ t.bottom = s.bottom
           /\ t.wrap = s.wrap /\ t.origin = s.origin /\ t.insert = s.insert
           /\ t.unsure = s.unsure /\ t.x = s.x /\ t.y = s.y /\ t.main = s.main /\ t.alt = s.alt
  BY DEF Kin

\* ESC, from any state.
LEMMA EscapeFed ==
    ASSUME NEW s \in Screens
    PROVE  LET t == feed(s, "ESC") IN
           t \in Screens /\ Kin(s, t) /\ t.state \in {"ESC", "STR_ESC"} /\ t.osc = s.osc /\ t.hears = s.hears
                /\ (s.state = "OSC" => t.state = "STR_ESC")
<1> DEFINE t == feed(s, "ESC")
<1>1. s \in ScreenType /\ s.state \in States
  BY DEF Screens, ScreenType
<1>2. t \in Screens
  BY CharRead, Signs
<1>3. \E st \in {"ESC", "STR_ESC"} : t = [s EXCEPT !.state = st] /\ (s.state = "OSC" => st = "STR_ESC")
  <2>1. CASE s.state = "GROUND"
    <3>1. t = ground(s, "ESC")
      BY <2>1 DEF feed
    <3>2. "ESC" \in Controls
      BY DEF Controls
    <3>3. ground(s, "ESC") = [s EXCEPT !.state = "ESC"]
      BY <3>2, Zenon DEF ground
    <3> QED BY <2>1, <3>1, <3>3
  <2>2. CASE s.state \in {"OSC", "STR"}
    <3>1. t = inString(s, "ESC")
      BY <2>2 DEF feed
    <3>2. inString(s, "ESC") = [s EXCEPT !.state = "STR_ESC"]
      BY DEF inString
    <3> QED BY <3>1, <3>2
  <2>3. CASE s.state \notin {"GROUND", "OSC", "STR"}
    <3>1. t = [s EXCEPT !.state = "ESC"]
      BY <2>3 DEF feed
    <3> QED BY <2>3, <3>1
  <2> QED BY <2>1, <2>2, <2>3
<1> HIDE DEF t
<1>4. Kin(s, t) /\ t.state \in {"ESC", "STR_ESC"} /\ t.osc = s.osc /\ t.hears = s.hears
  BY <1>1, <1>3 DEF ScreenType, Kin
<1>5. s.state = "OSC" => t.state = "STR_ESC"
  BY <1>1, <1>3 DEF ScreenType
<1> QED BY <1>2, <1>4, <1>5 DEF t

\* The start of an OSC.
LEMMA StringFed ==
    ASSUME NEW s \in Screens, s.state \in {"ESC", "STR_ESC"}
    PROVE  LET t == feed(s, "]") IN
           t \in Screens /\ Kin(s, t) /\ t.state = "OSC" /\ t.osc = <<>> /\ t.hears = TRUE
<1> DEFINE t == feed(s, "]")
<1>1. s \in ScreenType
  BY DEF Screens
<1>2. t \in Screens
  BY CharRead, Signs
<1>3. t = inSequence(s, "]")
  <2>1. "]" \notin C0
    BY DEF C0
  <2> QED BY <2>1 DEF feed
<1>4. inSequence(s, "]") = escape(s, "]")
  BY Zenon DEF inSequence
<1>5. escape(s, "]") = string(s)
  <2>1. /\ "]" # "[" /\ "]" \notin {"P", "X", "^", "_"} /\ "]" # "7" /\ "]" # "8" /\ "]" # "D"
        /\ "]" # "E" /\ "]" # "M" /\ "]" # "c" /\ "]" \notin Inters
    BY DEF Inters
  <2> QED BY <2>1, Zenon DEF escape
<1>6. t = [s EXCEPT !.state = "OSC", !.osc = <<>>, !.hears = TRUE]
  BY <1>3, <1>4, <1>5 DEF string
<1> HIDE DEF t
<1>7. Kin(s, t) /\ t.state = "OSC" /\ t.osc = <<>> /\ t.hears = TRUE
  BY <1>1, <1>6 DEF ScreenType, Kin
<1> QED BY <1>2, <1>7 DEF t

\* The words of an OSC.
Words == {StartWord, ShellType, "type=command"}

\* A word of it is kept.
LEMMA WordFed ==
    ASSUME NEW s \in Screens, s.state = "OSC", s.hears = TRUE, NEW w \in Words
    PROVE  LET t == feed(s, w) IN
           t \in Screens /\ Kin(s, t) /\ t.state = "OSC" /\ t.osc = Append(s.osc, w) /\ t.hears = TRUE
<1> DEFINE t == feed(s, w)
<1>1. s \in ScreenType
  BY DEF Screens
<1>2. t \in Screens
  BY CharRead, Signs DEF Words
<1>3. w # "ST" /\ w # "BEL" /\ w # "ESC" /\ w # "CAN" /\ w \notin C0
  BY DEF Words, StartWord, ShellType, C0
<1>4. t = inString(s, w)
  BY <1>3 DEF feed
<1>5. t = [s EXCEPT !.osc = Append(s.osc, w)]
  BY <1>3, <1>4 DEF inString
<1> HIDE DEF t
<1>6. Kin(s, t) /\ t.state = "OSC" /\ t.osc = Append(s.osc, w) /\ t.hears = TRUE
  BY <1>1, <1>5 DEF ScreenType, Kin
<1> QED BY <1>2, <1>6 DEF t

\* Its end: the context is what was said.
LEMMA SaidFed ==
    ASSUME NEW s \in Screens, s.state = "STR_ESC", s.hears = TRUE, NEW w \in {ShellType, "type=command"},
           s.osc = <<StartWord, w>>
    PROVE  LET t == feed(s, "\\") IN
           t \in Screens /\ Kin(s, t) /\ t.state = "GROUND"
             /\ t.context = IF w = ShellType THEN "shell" ELSE "command"
<1> DEFINE t == feed(s, "\\")
           g == [s EXCEPT !.state = "GROUND"]
<1>1. s \in ScreenType
  BY DEF Screens
<1>2. t \in Screens
  BY CharRead, Signs
<1>3. t = said(g)
  BY DEF feed
<1>4. g.hears = TRUE /\ g.osc = <<StartWord, w>> /\ g.state = "GROUND" /\ Kin(s, g)
      /\ DOMAIN g = DOMAIN s
  BY <1>1 DEF ScreenType, Kin
<1> HIDE DEF g
<1>5. g.osc # <<>> /\ Head(g.osc) = StartWord
  <2>1. PICK o : o = <<StartWord, w>>
    OBVIOUS
  <2>2. Len(o) = 2 /\ o[1] = StartWord /\ Head(o) = StartWord
    BY <2>1
  <2> QED BY <1>4, <2>1, <2>2, EmptySeq
<1>6. ShellType \in ToSet(g.osc) <=> w = ShellType
  <2>1. ToSet(<<StartWord, w>>) = {StartWord, w}
    BY DEF ToSet
  <2>2. StartWord # ShellType
    BY DEF StartWord, ShellType
  <2> QED BY <1>4, <2>1, <2>2
<1>7. t = [g EXCEPT !.context = IF w = ShellType THEN "shell" ELSE "command"]
  BY <1>3, <1>4, <1>5, <1>6 DEF said
<1> HIDE DEF t
<1>8. PICK v : v = IF w = ShellType THEN "shell" ELSE "command"
  OBVIOUS
<1>9. t = [g EXCEPT !.context = v]
  BY <1>7, <1>8
<1>10. t.context = v /\ t.state = "GROUND" /\ Kin(g, t)
  BY <1>1, <1>4, <1>9 DEF ScreenType, Kin
<1>11. Kin(s, t)
  BY <1>4, <1>10, KinChain
<1> QED BY <1>2, <1>8, <1>10, <1>11 DEF t

\* The shell says whose the terminal is: all else is as it was, and the parser is at rest.
LEMMA WordsFed ==
    ASSUME NEW s \in Screens, NEW w \in {ShellType, "type=command"}
    PROVE  LET t == Fed(s, Word(w)) IN
           /\ Word(w) \in Texts /\ t \in Grounded /\ Kin(s, t)
           /\ t.context = IF w = ShellType THEN "shell" ELSE "command"
<1>0. /\ "ESC" \in Chars /\ "]" \in Chars /\ StartWord \in Chars /\ w \in Chars /\ "\\" \in Chars
      /\ StartWord \in Words /\ w \in Words
  BY Signs DEF Words
<1>1. PICK a \in Screens : a = feed(s, "ESC") /\ Kin(s, a) /\ a.state \in {"ESC", "STR_ESC"}
  BY EscapeFed
<1>2. PICK b \in Screens : b = feed(a, "]") /\ Kin(a, b) /\ b.state = "OSC" /\ b.osc = <<>> /\ b.hears = TRUE
  BY <1>1, StringFed
<1>3. PICK c \in Screens : c = feed(b, StartWord) /\ Kin(b, c) /\ c.state = "OSC"
                           /\ c.osc = Append(b.osc, StartWord) /\ c.hears = TRUE
  BY <1>0, <1>2, WordFed
<1>4. PICK d \in Screens : d = feed(c, w) /\ Kin(c, d) /\ d.state = "OSC"
                           /\ d.osc = Append(c.osc, w) /\ d.hears = TRUE
  BY <1>0, <1>3, WordFed
<1>5. PICK e \in Screens : e = feed(d, "ESC") /\ Kin(d, e) /\ e.state = "STR_ESC" /\ e.osc = d.osc
                           /\ e.hears = TRUE
  BY <1>4, EscapeFed
<1>6. e.osc = <<StartWord, w>>
  <2>1. Append(Append(<<>>, StartWord), w) = <<StartWord, w>>
    BY <1>0, PairOf
  <2> QED BY <1>2, <1>3, <1>4, <1>5, <2>1
<1>7. PICK t \in Screens : t = feed(e, "\\") /\ Kin(e, t) /\ t.state = "GROUND"
                           /\ t.context = IF w = ShellType THEN "shell" ELSE "command"
  BY <1>5, <1>6, SaidFed
<1>8. Kin(s, t)
  <2>1. Kin(s, b)
    BY <1>1, <1>2, KinChain
  <2>2. Kin(s, c)
    BY <1>3, <2>1, KinChain
  <2>3. Kin(s, d)
    BY <1>4, <2>2, KinChain
  <2>4. Kin(s, e)
    BY <1>5, <2>3, KinChain
  <2> QED BY <1>7, <2>4, KinChain
<1>9. Fed(s, Word(w)) = t
  <2> DEFINE u == <<"ESC", "]", StartWord>>
             v == <<w, "ESC", "\\">>
  <2>1. u \in Texts /\ Fed(s, u) = c
    BY <1>0, <1>1, <1>2, <1>3, FedThree
  <2>2. v \in Texts /\ Fed(c, v) = t
    BY <1>0, <1>4, <1>5, <1>7, FedThree
  <2>3. u \o v = Word(w)
    <3>1. u \o v = <<"ESC", "]", StartWord, w, "ESC", "\\">>
      BY <1>0, SixOf
    <3> QED BY <3>1 DEF Word
  <2> HIDE DEF u, v
  <2>4. Fed(s, u \o v) = Fed(Fed(s, u), v)
    BY <2>1, <2>2, FedBoth
  <2> QED BY <2>1, <2>2, <2>3, <2>4
<1>10. Word(w) \in Texts
  BY WordsSent
<1> QED BY <1>7, <1>8, <1>9, <1>10 DEF Grounded

-----------------------------------------------------------------------------
(***************************************************************************)
(* Readline's line as it is seen.                                          *)
(***************************************************************************)
LineSeen(t) ==
    [o \in Nat |-> IF o < Len(PS1) THEN PS1[o + 1]
                   ELSE IF o < End(t) THEN t[o - Len(PS1) + 1] ELSE Space]

LastRowOf(t) == RowAt(End(t))

\* What is seen of the line ends on its last row.
LEMMA LineSeenIs ==
    ASSUME NEW t \in Seq(Plain)
    PROVE  /\ LineSeen(t) \in Sheets(LastRowOf(t)) /\ LastRowOf(t) \in Nat /\ End(t) \in Nat
           /\ Len(PS1) \in Nat /\ Len(t) \in Nat
<1> DEFINE F == LineSeen(t)
<1>1. PS1 \in Seq(Plain) /\ Len(PS1) \in Nat /\ Len(t) \in Nat
  BY TapAssumption, LenProperties
<1>2. End(t) \in Nat /\ End(t) = Len(PS1) + Len(t)
  BY <1>1 DEF End
<1>3. LastRowOf(t) \in Nat
  BY <1>2, PlaceOf DEF LastRowOf
<1>4. ASSUME NEW o \in Nat
      PROVE  F[o] \in Plain /\ (RowAt(o) > LastRowOf(t) => F[o] = Space)
  <2>1. F[o] = IF o < Len(PS1) THEN PS1[o + 1]
               ELSE IF o < End(t) THEN t[o - Len(PS1) + 1] ELSE Space
    BY DEF LineSeen
  <2> HIDE DEF F
  <2>2. o < End(t) => ~(RowAt(o) > LastRowOf(t))
    <3>1. ASSUME o < End(t) PROVE RowAt(o) <= LastRowOf(t) /\ RowAt(o) \in Nat
      BY <1>2, <3>1, PlacesRise, PlaceOf DEF LastRowOf
    <3> QED BY <1>3, <3>1
  <2>3. CASE o < Len(PS1)
    <3>1. o + 1 \in 1..Len(PS1) /\ o < End(t)
      BY <1>1, <1>2, <2>3
    <3>2. PS1[o + 1] \in Plain
      BY <1>1, <3>1, ElementOfSeq
    <3> QED BY <2>1, <2>2, <2>3, <3>1, <3>2
  <2>4. CASE ~(o < Len(PS1)) /\ o < End(t)
    <3>1. o - Len(PS1) + 1 \in 1..Len(t)
      BY <1>1, <1>2, <2>4
    <3>2. t[o - Len(PS1) + 1] \in Plain
      BY <3>1, ElementOfSeq
    <3> QED BY <2>1, <2>2, <2>4, <3>2
  <2>5. CASE ~(o < Len(PS1)) /\ ~(o < End(t))
    <3>1. Space \in Plain
      BY SpaceIsPlain DEF Space
    <3> QED BY <2>1, <2>5, <3>1
  <2> QED BY <2>3, <2>4, <2>5
<1>5. F = [o \in Nat |-> F[o]]
  BY DEF LineSeen
<1> HIDE DEF F
<1>6. F \in [Nat -> Plain]
  BY <1>4, <1>5
<1>7. \A o \in Nat : RowAt(o) > LastRowOf(t) => F[o] = " "
  BY <1>4 DEF Space
<1>8. F \in Sheets(LastRowOf(t))
  BY <1>6, <1>7 DEF Sheets
<1> QED BY <1>1, <1>2, <1>3, <1>8 DEF F

\* What is seen of the line, place by place.
LEMMA SeenAt ==
    ASSUME NEW t \in Seq(Plain), NEW o \in Nat
    PROVE  LineSeen(t)[o] = IF o < Len(PS1) THEN PS1[o + 1]
                            ELSE IF o < End(t) THEN t[o - Len(PS1) + 1] ELSE Space
BY DEF LineSeen

\* Sheets on which the same is seen everywhere are one.
Agree(F, G) == \A o \in Nat : F[o] = G[o]

\* Two accounts of what is seen that agree everywhere.
LEMMA SheetsAgree ==
    ASSUME NEW m, NEW n, NEW F \in Sheets(m), NEW G \in Sheets(n), Agree(F, G) PROVE F = G
<1>1. F \in [Nat -> Plain] /\ G \in [Nat -> Plain]
  BY DEF Sheets
<1> QED BY <1>1 DEF Agree

\* A page of fewer rows, when there is nothing on the others; and one the cursor is on.
LEMMA FewerOnPage ==
    ASSUME NEW R, NEW m \in Nat, NEW n \in Nat, NEW k \in Nat, m <= k, k <= n, NEW F, NEW r, NEW x,
           NEW s \in Page(R, m, n, F, r, x)
    PROVE  s \in Page(R, m, k, F, r, x)
<1>1. s \in Screens /\ s.rows = R
  BY OnPage
<1>2. PICK y \in Nat : Placed1(s, y, m, n, F, r, x)
  BY OnPage
<1>3. s.rows \in Nat
  BY <1>1, ScreenNumbers
<1>4. y + k < s.rows
  BY <1>2, <1>3 DEF Placed1, Paged
<1>5. Placed1(s, y, m, k, F, r, x)
  BY <1>2, <1>4 DEF Placed1, Paged
<1> QED BY <1>1, <1>5, ToPage

-----------------------------------------------------------------------------
(***************************************************************************)
(* The line, edited.                                                       *)
(***************************************************************************)
\* A character added to the line, one taken out, and the rest of it.
LEMMA AddedAt ==
    ASSUME NEW t \in Seq(Plain), NEW n \in 0..Len(t), NEW c \in Plain
    PROVE  LET a == InsertAt(t, n + 1, c) IN
           /\ a \in Seq(Plain) /\ Len(a) = Len(t) + 1 /\ a[n + 1] = c
           /\ \A k \in 1..n : a[k] = t[k]
           /\ \A k \in 1..(Len(t) - n) : a[n + 1 + k] = t[n + k]
<1> DEFINE u == SubSeq(t, 1, n)
           v == SubSeq(t, n + 1, Len(t))
<1>1. Len(t) \in Nat /\ n \in Nat /\ n <= Len(t)
  BY LenProperties
<1>2. InsertAt(t, n + 1, c) = u \o <<c>> \o v
  <2>1. (n + 1) - 1 = n
    BY <1>1
  <2> QED BY <2>1 DEF InsertAt
<1>3. u \in Seq(Plain) /\ Len(u) = n /\ \A k \in 1..n : u[k] = t[k]
  BY <1>1, SubSeqProperties
<1>4. v \in Seq(Plain) /\ Len(v) = Len(t) - n /\ \A k \in 1..(Len(t) - n) : v[k] = t[n + k]
  BY <1>1, SubSeqProperties
<1>5. <<c>> \in Seq(Plain) /\ Len(<<c>>) = 1 /\ <<c>>[1] = c
  OBVIOUS
<1> HIDE DEF u, v
<1> DEFINE w == u \o <<c>>
           a == w \o v
<1>6. w \in Seq(Plain) /\ Len(w) = n + 1 /\ w[n + 1] = c /\ \A k \in 1..n : w[k] = t[k]
  BY <1>1, <1>3, <1>5, ConcatProperties
<1> HIDE DEF w
<1>7. a \in Seq(Plain) /\ Len(a) = Len(t) + 1
  <2>1. a \in Seq(Plain) /\ Len(a) = Len(w) + Len(v)
    BY <1>4, <1>6, ConcatParts
  <2> QED BY <1>1, <1>4, <1>6, <2>1
<1>8. \A k \in 1..(n + 1) : a[k] = w[k]
  BY <1>4, <1>6, ConcatParts
<1>9. \A k \in 1..(Len(t) - n) : a[n + 1 + k] = v[k]
  BY <1>4, <1>6, ConcatParts
<1> HIDE DEF a
<1>10. a[n + 1] = c
  BY <1>1, <1>6, <1>8
<1>11. \A k \in 1..n : a[k] = t[k]
  BY <1>1, <1>6, <1>8
<1>12. \A k \in 1..(Len(t) - n) : a[n + 1 + k] = t[n + k]
  BY <1>4, <1>9
<1>13. InsertAt(t, n + 1, c) = a
  BY <1>2 DEF a, w
<1> QED BY <1>7, <1>10, <1>11, <1>12, <1>13

LEMMA TakenAt ==
    ASSUME NEW t \in Seq(Plain), NEW n \in 1..Len(t)
    PROVE  LET a == RemoveAt(t, n) IN
           /\ a \in Seq(Plain) /\ Len(a) = Len(t) - 1
           /\ \A k \in 1..(n - 1) : a[k] = t[k]
           /\ \A k \in 1..(Len(t) - n) : a[n - 1 + k] = t[n + k]
<1> DEFINE u == SubSeq(t, 1, n - 1)
           v == SubSeq(t, n + 1, Len(t))
           a == u \o v
<1>1. Len(t) \in Nat /\ n \in Nat /\ n <= Len(t) /\ n >= 1 /\ n - 1 \in Nat
  BY LenProperties
<1>2. RemoveAt(t, n) = a
  BY DEF RemoveAt
<1>3. u \in Seq(Plain) /\ Len(u) = n - 1 /\ \A k \in 1..(n - 1) : u[k] = t[k]
  BY <1>1, SubSeqProperties
<1>4. v \in Seq(Plain) /\ Len(v) = Len(t) - n /\ \A k \in 1..(Len(t) - n) : v[k] = t[n + k]
  BY <1>1, SubSeqProperties
<1> HIDE DEF u, v
<1>5. a \in Seq(Plain) /\ Len(a) = Len(t) - 1
  <2>1. a \in Seq(Plain) /\ Len(a) = Len(u) + Len(v)
    BY <1>3, <1>4, ConcatParts
  <2> HIDE DEF a
  <2> QED BY <1>1, <1>3, <1>4, <2>1
<1>6. \A k \in 1..(n - 1) : a[k] = u[k]
  BY <1>3, <1>4, ConcatParts
<1>7. \A k \in 1..(Len(t) - n) : a[n - 1 + k] = v[k]
  BY <1>3, <1>4, ConcatParts
<1> HIDE DEF a
<1> QED BY <1>2, <1>3, <1>4, <1>5, <1>6, <1>7

LEMMA RestIs ==
    ASSUME NEW t \in Seq(Plain), NEW n \in 0..Len(t)
    PROVE  /\ Rest(t, n) \in Seq(Plain) /\ Len(Rest(t, n)) = Len(t) - n
           /\ \A k \in 1..(Len(t) - n) : Rest(t, n)[k] = t[n + k]
<1>1. Len(t) \in Nat /\ n \in Nat /\ n <= Len(t)
  BY LenProperties
<1> QED BY <1>1, SubSeqProperties DEF Rest

\* The screens that show the line t, with the cursor at its n-th place.
LinePage(R, t, n) ==
    Page(R, LastRowOf(t), LastRowOf(t), LineSeen(t), RowAt(At(n)), ColAt(At(n)))

\* The places of a line.
LEMMA PlacesOfLine ==
    ASSUME NEW t \in Seq(Plain), NEW n \in 0..Len(t)
    PROVE  /\ At(n) \in Nat /\ At(n) <= End(t) /\ At(Len(t)) = End(t) /\ End(t) \in Nat
           /\ At(n) + (Len(t) - n) = End(t)
           /\ RowAt(At(n)) \in Nat /\ ColAt(At(n)) \in Nat /\ ColAt(At(n)) < Width
           /\ RowAt(At(n)) <= LastRowOf(t) /\ LastRowOf(t) \in Nat
<1>1. Len(PS1) \in Nat /\ Len(t) \in Nat /\ End(t) \in Nat /\ LastRowOf(t) \in Nat
  BY LineSeenIs
<1>2. At(n) \in Nat /\ At(n) <= End(t) /\ At(Len(t)) = End(t) /\ At(n) + (Len(t) - n) = End(t)
  BY <1>1 DEF At, End
<1>3. RowAt(At(n)) \in Nat /\ ColAt(At(n)) \in Nat /\ ColAt(At(n)) < Width
  BY <1>2, PlaceOf
<1>4. RowAt(At(n)) <= RowAt(End(t))
  BY <1>1, <1>2, PlacesRise
<1> QED BY <1>1, <1>2, <1>3, <1>4 DEF LastRowOf

\* The cursor goes to another place of the line.
LEMMA MovedOnLine ==
    ASSUME NEW R, NEW t \in Seq(Plain), NEW n \in 0..Len(t), NEW q \in 0..Len(t),
           NEW s \in LinePage(R, t, n)
    PROVE  Fed(s, Moved(At(n), At(q))) \in LinePage(R, t, q)
<1> DEFINE N == LastRowOf(t)
           F == LineSeen(t)
<1>1. F \in Sheets(N) /\ N \in Nat
  BY LineSeenIs
<1>2. At(n) \in Nat /\ ColAt(At(n)) \in Nat /\ ColAt(At(n)) < Width
  BY PlacesOfLine
<1>3. At(q) \in Nat /\ RowAt(At(q)) <= N
  BY PlacesOfLine
<1>4. s \in Page(R, N, N, F, RowAt(At(n)), ColAt(At(n)))
  BY DEF LinePage
<1> HIDE DEF N, F
<1>5. Fed(s, Moved(At(n), At(q))) \in Page(R, N, N, F, RowAt(At(q)), ColAt(At(q)))
  BY <1>1, <1>2, <1>3, <1>4, MovedOnPage
<1> QED BY <1>5 DEF LinePage, N, F

\* From p on, where F shows something else, k places of G show u; the next one shows a
\* space if it begins a row.
Overlaid(F, G, u, p, k) ==
    /\ \A o \in Nat : o < p \/ o > p + k => G[o] = F[o]
    /\ \A i \in 1..k : G[p + (i - 1)] = u[i]
    /\ G[p + k] = IF k > 0 /\ ColAt(p + k) = 0 THEN Space ELSE F[p + k]

\* What is printed over a line, seen place by place.
LEMMA OverlaidIs ==
    ASSUME NEW F, NEW G, NEW u, NEW p \in Nat, NEW k \in Nat, Overlaid(F, G, u, p, k)
    PROVE  Agree(Over(F, u, p, k), G)
<1> DEFINE H == Over(F, u, p, k)
<1>1. ASSUME NEW o \in Nat PROVE H[o] = G[o]
  <2>1. H[o] = IF p <= o /\ o < p + k THEN u[o - p + 1]
               ELSE IF k > 0 /\ o = p + k /\ ColAt(o) = 0 THEN Space ELSE F[o]
    BY DEF Over
  <2> HIDE DEF H
  <2>2. CASE p <= o /\ o < p + k
    <3>1. PICK i \in 1..k : i = o - p + 1 /\ p + (i - 1) = o
      <4>1. o - p + 1 \in 1..k /\ p + ((o - p + 1) - 1) = o
        BY <2>2
      <4> QED BY <4>1
    <3>2. G[p + (i - 1)] = u[i]
      BY DEF Overlaid
    <3> QED BY <2>1, <2>2, <3>1, <3>2
  <2>3. CASE o = p + k
    <3>1. ~(o < p + k)
      BY <2>3
    <3>2. G[o] = IF k > 0 /\ ColAt(o) = 0 THEN Space ELSE F[o]
      BY <2>3 DEF Overlaid
    <3> QED BY <2>1, <2>3, <3>1, <3>2
  <2>4. CASE o < p \/ o > p + k
    <3>1. ~(p <= o /\ o < p + k) /\ o # p + k
      BY <2>4
    <3>2. G[o] = F[o]
      BY <2>4 DEF Overlaid
    <3> QED BY <2>1, <3>1, <3>2
  <2> QED BY <2>2, <2>3, <2>4
<1> QED BY <1>1 DEF Agree

\* A character is put into the line, which is printed from there on.
LEMMA TypedOnLine ==
    ASSUME NEW R \in Nat, NEW t \in Seq(Plain), NEW n \in 0..Len(t), NEW c \in Plain,
           NEW a, a = InsertAt(t, n + 1, c), LastRowOf(a) < R, NEW s \in LinePage(R, t, n)
    PROVE  /\ Printed(<<c>> \o Rest(t, n), At(n)) \in Texts
           /\ Fed(s, Printed(<<c>> \o Rest(t, n), At(n))) \in LinePage(R, a, Len(a))
<1> DEFINE N == LastRowOf(t)
           F == LineSeen(t)
           M == LastRowOf(a)
           G == LineSeen(a)
           v == Rest(t, n)
           u == <<c>> \o v
           p == At(n)
<1>1. a \in Seq(Plain) /\ Len(a) = Len(t) + 1 /\ a[n + 1] = c
  BY AddedAt
<1>2. \A k \in 1..n : a[k] = t[k]
  BY AddedAt
<1>3. \A k \in 1..(Len(t) - n) : a[n + 1 + k] = t[n + k]
  BY AddedAt
<1>4. v \in Seq(Plain) /\ Len(v) = Len(t) - n /\ \A k \in 1..(Len(t) - n) : v[k] = t[n + k]
  BY RestIs
<1>5. F \in Sheets(N) /\ N \in Nat /\ End(t) \in Nat /\ Len(PS1) \in Nat /\ Len(t) \in Nat
  BY LineSeenIs
<1>6. G \in Sheets(M) /\ M \in Nat /\ End(a) \in Nat
  BY <1>1, LineSeenIs
<1>7. p \in Nat /\ p = Len(PS1) + n /\ End(t) = Len(PS1) + Len(t) /\ End(a) = Len(PS1) + Len(a)
  BY PlacesOfLine DEF At, End
<1>8. RowAt(p) \in Nat /\ RowAt(p) <= N
  BY PlacesOfLine
<1>9. s \in Page(R, N, N, F, RowAt(p), ColAt(p))
  BY DEF LinePage
<1>10. \A o \in Nat : F[o] = IF o < Len(PS1) THEN PS1[o + 1]
                             ELSE IF o < End(t) THEN t[o - Len(PS1) + 1] ELSE Space
  BY SeenAt
<1>11. \A o \in Nat : G[o] = IF o < Len(PS1) THEN PS1[o + 1]
                             ELSE IF o < End(a) THEN a[o - Len(PS1) + 1] ELSE Space
  BY <1>1, SeenAt
<1> HIDE DEF F, G, N, M, p, v
<1>12. u \in Seq(Plain) /\ u[1] = c
  <2>1. <<c>> \in Seq(Plain) /\ Len(<<c>>) = 1 /\ <<c>>[1] = c
    OBVIOUS
  <2> QED BY <1>4, <2>1, ConcatParts
<1>13. Len(u) = (Len(t) - n) + 1 /\ \A k \in 1..(Len(t) - n) : u[k + 1] = t[n + k]
  <2>1. <<c>> \in Seq(Plain) /\ Len(<<c>>) = 1
    OBVIOUS
  <2>2. Len(u) = Len(<<c>>) + Len(v)
    BY <1>4, <2>1, ConcatParts
  <2>3. \A k \in 1..Len(v) : u[Len(<<c>>) + k] = v[k]
    BY <1>4, <2>1, ConcatParts
  <2> HIDE DEF u
  <2>4. Len(u) = (Len(t) - n) + 1
    BY <1>4, <1>5, <2>1, <2>2
  <2>5. ASSUME NEW k \in 1..(Len(t) - n) PROVE u[k + 1] = t[n + k]
    <3>1. 1 + k = k + 1
      OBVIOUS
    <3> QED BY <1>4, <2>1, <2>3, <3>1
  <2> QED BY <2>4, <2>5
<1> HIDE DEF u
<1>14. PICK L \in Nat : L = Len(u) /\ p + L = End(a) /\ L > 0 /\ p + L = End(t) + 1
  <2>1. Len(u) \in Nat /\ p + Len(u) = End(a) /\ Len(u) > 0 /\ p + Len(u) = End(t) + 1
    <3>1. PICK d \in Nat : d = Len(t) - n /\ n + d = Len(t)
      <4>1. Len(t) - n \in Nat /\ n + (Len(t) - n) = Len(t)
        BY <1>5
      <4> QED BY <4>1
    <3>2. Len(u) = d + 1
      BY <1>13, <3>1
    <3>3. p = Len(PS1) + n /\ n \in Nat
      BY <1>5, <1>7
    <3>4. End(t) = Len(PS1) + (n + d) /\ End(a) = Len(PS1) + ((n + d) + 1)
      BY <1>1, <1>7, <3>1
    <3> QED BY <1>5, <3>2, <3>3, <3>4
  <2> QED BY <2>1
<1>15. Overlaid(F, G, u, p, L)
  <2>1. ASSUME NEW o \in Nat, o < p PROVE G[o] = F[o]
    <3>1. CASE o < Len(PS1)
      BY <1>10, <1>11, <3>1
    <3>2. CASE ~(o < Len(PS1))
      <4>1. PICK k \in 1..n : k = o - Len(PS1) + 1
        <5>1. o - Len(PS1) + 1 \in 1..n
          BY <1>5, <1>7, <2>1, <3>2
        <5> QED BY <5>1
      <4>2. o < End(t) /\ o < End(a)
        BY <1>1, <1>5, <1>7, <2>1
      <4> QED BY <1>2, <1>10, <1>11, <3>2, <4>1, <4>2
    <3> QED BY <3>1, <3>2
  <2>2. ASSUME NEW o \in Nat, o > p + L PROVE G[o] = F[o]
    <3>1. ~(o < Len(PS1)) /\ ~(o < End(t)) /\ ~(o < End(a))
      BY <1>5, <1>6, <1>7, <1>14, <2>2
    <3> QED BY <1>10, <1>11, <3>1
  <2>3. ASSUME NEW i \in 1..L PROVE G[p + (i - 1)] = u[i]
    <3>1. PICK o \in Nat : o = p + (i - 1)
      BY <1>7
    <3>2. ~(o < Len(PS1)) /\ o < End(a) /\ o - Len(PS1) + 1 = n + i
      BY <1>5, <1>7, <1>14, <3>1
    <3>3. G[o] = a[n + i]
      BY <1>11, <3>2
    <3>4. CASE i = 1
      BY <1>1, <1>12, <3>1, <3>3, <3>4
    <3>5. CASE i # 1
      <4>1. PICK k \in 1..(Len(t) - n) : k = i - 1 /\ n + i = n + 1 + k /\ i = k + 1
        <5>1. i - 1 \in 1..(Len(t) - n) /\ n + i = n + 1 + (i - 1) /\ i = (i - 1) + 1
          BY <1>5, <1>13, <1>14, <3>5
        <5> QED BY <5>1
      <4> QED BY <1>3, <1>13, <3>1, <3>3, <4>1
    <3> QED BY <3>4, <3>5
  <2>4. G[p + L] = Space /\ F[p + L] = Space
    <3>1. PICK o \in Nat : o = p + L
      BY <1>7
    <3>2. ~(o < Len(PS1)) /\ ~(o < End(t)) /\ ~(o < End(a))
      BY <1>5, <1>6, <1>7, <1>14, <3>1
    <3> QED BY <1>10, <1>11, <3>1, <3>2
  <2>5. \A o \in Nat : o < p \/ o > p + L => G[o] = F[o]
    BY <2>1, <2>2
  <2> QED BY <2>3, <2>4, <2>5 DEF Overlaid
<1>16. Over(F, u, p, L) \in Sheets(Most(N, RowAt(p + L)))
  <2>1. L \in 0..Len(u)
    BY <1>14
  <2> QED BY <1>5, <1>7, <1>12, <2>1, OverIs
<1>17. Over(F, u, p, L) = G
  BY <1>6, <1>7, <1>15, <1>16, OverlaidIs, SheetsAgree
<1>18. RowAt(p + L) = M /\ Most(N, M) = M
  <2>1. RowAt(p + L) = M
    BY <1>14 DEF M, LastRowOf
  <2>2. N <= M
    <3>1. End(t) <= End(a)
      BY <1>5, <1>6, <1>14
    <3> QED BY <1>5, <1>6, <3>1, PlacesRise DEF N, M, LastRowOf
  <2> QED BY <1>5, <1>6, <2>1, <2>2 DEF Most
<1>19. RowAt(p + Len(u)) < R
  BY <1>14, <1>18 DEF M
<1>20. /\ Printed(u, p) \in Texts
       /\ Fed(s, Printed(u, p)) \in Page(R, Most(N, RowAt(p + Len(u))), Most(N, RowAt(p + Len(u))),
                                        Over(F, u, p, Len(u)), RowAt(p + Len(u)), ColAt(p + Len(u)))
  <2>1. N <= N
    BY <1>5
  <2> QED BY <1>5, <1>7, <1>8, <1>9, <1>12, <1>19, <2>1, PrintedOnPage
<1>21. Fed(s, Printed(u, p)) \in Page(R, M, M, G, RowAt(p + L), ColAt(p + L))
  BY <1>14, <1>17, <1>18, <1>20
<1>22. p + L = At(Len(a))
  BY <1>7, <1>14 DEF At
<1>23. Fed(s, Printed(u, p)) \in LinePage(R, a, Len(a))
  BY <1>21, <1>22 DEF LinePage, M, G
<1> QED BY <1>20, <1>23 DEF u, v, p

\* A character is taken out of the line, which is printed from there on, and what is
\* left of the row is erased.
LEMMA ErasedOnLine ==
    ASSUME NEW R \in Nat, NEW t \in Seq(Plain), NEW n \in 1..Len(t), NEW a, a = RemoveAt(t, n),
           LastRowOf(t) < R, NEW s \in LinePage(R, t, n - 1)
    PROVE  /\ Printed(Rest(t, n), At(n - 1)) \in Texts
           /\ Fed(Fed(s, Printed(Rest(t, n), At(n - 1))), Esc("K")) \in LinePage(R, a, Len(a))
<1> DEFINE N == LastRowOf(t)
           F == LineSeen(t)
           M == LastRowOf(a)
           G == LineSeen(a)
           u == Rest(t, n)
           p == At(n - 1)
           e == End(a)
<1>1. a \in Seq(Plain) /\ Len(a) = Len(t) - 1
  BY TakenAt
<1>2. \A k \in 1..(n - 1) : a[k] = t[k]
  BY TakenAt
<1>3. \A k \in 1..(Len(t) - n) : a[n - 1 + k] = t[n + k]
  BY TakenAt
<1>4. F \in Sheets(N) /\ N \in Nat /\ End(t) \in Nat /\ Len(PS1) \in Nat /\ Len(t) \in Nat
  BY LineSeenIs
<1>5. G \in Sheets(M) /\ M \in Nat /\ e \in Nat
  BY <1>1, LineSeenIs
<1>6. PICK m \in Nat : m = n - 1 /\ m \in 0..Len(t) /\ n = m + 1 /\ n \in 0..Len(t)
  <2>1. n - 1 \in Nat /\ n - 1 \in 0..Len(t) /\ n = (n - 1) + 1 /\ n \in 0..Len(t)
    BY <1>4
  <2> QED BY <2>1
<1>7. u \in Seq(Plain) /\ Len(u) = Len(t) - n /\ \A k \in 1..(Len(t) - n) : u[k] = t[n + k]
  BY <1>6, RestIs
<1>8. p \in Nat /\ p = Len(PS1) + m /\ End(t) = Len(PS1) + Len(t) /\ e = Len(PS1) + Len(a)
  BY <1>6, PlacesOfLine DEF At, End
<1>9. RowAt(p) \in Nat /\ RowAt(p) <= N
  BY <1>6, PlacesOfLine
<1>10. s \in Page(R, N, N, F, RowAt(p), ColAt(p))
  BY DEF LinePage
<1>11. \A o \in Nat : F[o] = IF o < Len(PS1) THEN PS1[o + 1]
                             ELSE IF o < End(t) THEN t[o - Len(PS1) + 1] ELSE Space
  BY SeenAt
<1>12. \A o \in Nat : G[o] = IF o < Len(PS1) THEN PS1[o + 1]
                             ELSE IF o < e THEN a[o - Len(PS1) + 1] ELSE Space
  BY <1>1, SeenAt
<1>13. M = RowAt(e)
  BY DEF LastRowOf
<1> HIDE DEF F, G, N, M, p, u, e
<1>14. PICK k \in Nat : k = Len(u) /\ k = Len(t) - n /\ p + k = e /\ End(t) = e + 1
  <2>1. PICK d \in Nat : d = Len(t) - n /\ n + d = Len(t)
    <3>1. Len(t) - n \in Nat /\ n + (Len(t) - n) = Len(t)
      BY <1>4
    <3> QED BY <3>1
  <2>2. e = Len(PS1) + (m + d) /\ End(t) = Len(PS1) + ((m + 1) + d)
    BY <1>1, <1>6, <1>8, <2>1
  <2>3. d = Len(u) /\ d = Len(t) - n
    BY <1>7, <2>1
  <2>4. p + d = e /\ p = Len(PS1) + m
    BY <1>4, <1>8, <2>2
  <2>5. End(t) = e + 1
    BY <1>4, <2>2
  <2> QED BY <2>3, <2>4, <2>5
<1>15. M <= N /\ Most(N, M) = N /\ Least(N, M) = M
  <2>1. RowAt(e) <= RowAt(End(t))
    <3>1. e <= End(t)
      BY <1>5, <1>14
    <3> QED BY <1>4, <1>5, <3>1, PlacesRise
  <2>2. M <= N
    BY <1>13, <2>1 DEF N, LastRowOf
  <2> QED BY <1>4, <1>5, <2>2 DEF Most, Least
<1> DEFINE E == Over(F, u, p, k)
<1>16. E \in Sheets(N)
  <2>1. k \in 0..Len(u)
    BY <1>14
  <2>2. E \in Sheets(Most(N, RowAt(p + k)))
    BY <1>4, <1>7, <1>8, <2>1, OverIs
  <2> QED BY <1>13, <1>14, <1>15, <2>2
<1>17. \A o \in Nat : E[o] = IF p <= o /\ o < p + k THEN u[o - p + 1]
                             ELSE IF k > 0 /\ o = p + k /\ ColAt(o) = 0 THEN Space ELSE F[o]
  BY DEF Over
<1>18. /\ Printed(u, p) \in Texts
       /\ Fed(s, Printed(u, p)) \in Page(R, N, N, E, M, ColAt(e))
  <2>1. N <= N
    BY <1>4
  <2>2. RowAt(p + Len(u)) < R
    <3>1. RowAt(p + Len(u)) = M
      BY <1>13, <1>14
    <3> QED BY <1>4, <1>5, <1>15, <3>1 DEF N
  <2> HIDE DEF E
  <2>3. /\ Printed(u, p) \in Texts
        /\ Fed(s, Printed(u, p)) \in Page(R, Most(N, RowAt(p + Len(u))), Most(N, RowAt(p + Len(u))),
                                         Over(F, u, p, Len(u)), RowAt(p + Len(u)), ColAt(p + Len(u)))
    BY <1>4, <1>7, <1>8, <1>9, <1>10, <2>1, <2>2, PrintedOnPage
  <2> QED BY <1>13, <1>14, <1>15, <2>3 DEF E
<1> HIDE DEF E
<1> DEFINE B == Blanked(E, M, ColAt(e))
           x == ColAt(e)
<1>19. x \in Nat /\ x < Width
  BY <1>5, PlaceOf
<1>20. Fed(Fed(s, Printed(u, p)), Esc("K")) \in Page(R, M, N, B, M, x)
  <2> HIDE DEF x
  <2>1. Fed(Fed(s, Printed(u, p)), Esc("K")) \in Page(R, Least(N, M), N, Blanked(E, M, x), M, x)
    BY <1>4, <1>5, <1>16, <1>18, <1>19, EraseOnPage DEF x
  <2> QED BY <1>15, <2>1 DEF x
<1>21. B \in Sheets(N)
  BY <1>4, <1>5, <1>16, <1>19, BlankedIs
<1>22. \A o \in Nat : B[o] = IF RowAt(o) = RowAt(e) /\ ColAt(o) >= ColAt(e) THEN Space ELSE E[o]
  BY <1>13 DEF Blanked, Space
<1> HIDE DEF B, x
<1>23. ASSUME NEW o \in Nat PROVE B[o] = G[o]
  <2>1. CASE o < e
    <3>1. ~(RowAt(o) = RowAt(e) /\ ColAt(o) >= ColAt(e))
      <4>1. RowAt(o) = RowAt(e) => ColAt(o) < ColAt(e)
        BY <1>5, <2>1, PlacesRise
      <4>2. ColAt(o) \in Nat /\ ColAt(e) \in Nat
        BY <1>5, PlaceOf
      <4> QED BY <4>1, <4>2
    <3>2. B[o] = E[o]
      BY <1>22, <3>1
    <3>3. CASE o < p
      <4>1. ~(p <= o /\ o < p + k) /\ o # p + k
        BY <1>8, <3>3
      <4>2. E[o] = F[o]
        BY <1>17, <4>1
      <4>3. CASE o < Len(PS1)
        BY <1>11, <1>12, <3>2, <4>2, <4>3
      <4>4. CASE ~(o < Len(PS1))
        <5>1. o - Len(PS1) + 1 \in 1..(n - 1) /\ o < End(t)
          BY <1>4, <1>5, <1>6, <1>8, <1>14, <2>1, <3>3, <4>4
        <5>2. a[o - Len(PS1) + 1] = t[o - Len(PS1) + 1]
          BY <1>2, <5>1
        <5> QED BY <1>11, <1>12, <2>1, <3>2, <4>2, <4>4, <5>1, <5>2
      <4> QED BY <4>3, <4>4
    <3>4. CASE ~(o < p)
      <4>1. p <= o /\ o < p + k /\ ~(o < Len(PS1))
        BY <1>4, <1>8, <1>14, <2>1, <3>4
      <4>2. PICK i \in 1..k : i = o - p + 1 /\ o - Len(PS1) + 1 = n - 1 + i
        <5>1. o - p + 1 \in 1..k /\ o - Len(PS1) + 1 = n - 1 + (o - p + 1)
          BY <1>4, <1>6, <1>8, <4>1
        <5> QED BY <5>1
      <4>3. E[o] = u[i]
        BY <1>17, <4>1, <4>2
      <4>4. G[o] = a[n - 1 + i]
        BY <1>12, <2>1, <4>1, <4>2
      <4>5. u[i] = a[n - 1 + i]
        BY <1>3, <1>7, <1>14
      <4> QED BY <3>2, <4>3, <4>4, <4>5
    <3> QED BY <3>3, <3>4
  <2>2. CASE o = e
    <3>1. ColAt(o) >= ColAt(e)
      BY <2>2, <1>5, PlaceOf
    <3>2. B[o] = Space
      BY <1>22, <2>2, <3>1
    <3>3. ~(o < Len(PS1)) /\ ~(o < e)
      BY <1>4, <1>5, <1>8, <1>14, <2>2
    <3> QED BY <1>12, <3>2, <3>3
  <2>3. CASE o > e
    <3>1. ~(o < Len(PS1)) /\ ~(o < e) /\ ~(o < End(t)) /\ ~(o < p + k) /\ o # p + k
      BY <1>4, <1>5, <1>8, <1>14, <2>3
    <3>2. E[o] = F[o]
      BY <1>17, <3>1
    <3>3. F[o] = Space /\ G[o] = Space
      BY <1>11, <1>12, <3>1
    <3> QED BY <1>22, <3>2, <3>3
  <2> QED BY <1>5, <2>1, <2>2, <2>3
<1>24. B = G
  BY <1>5, <1>21, <1>23, SheetsAgree DEF Agree
<1>25. Fed(Fed(s, Printed(u, p)), Esc("K")) \in Page(R, M, M, G, M, x)
  <2>1. M <= M
    BY <1>5
  <2> QED BY <1>4, <1>5, <1>15, <1>20, <1>24, <2>1, FewerOnPage
<1>26. At(Len(a)) = e
  BY <1>8 DEF At
<1>27. Fed(Fed(s, Printed(u, p)), Esc("K")) \in LinePage(R, a, Len(a))
  BY <1>13, <1>25, <1>26 DEF LinePage, M, G, x
<1> QED BY <1>18, <1>27 DEF u, p

\* From p on, and k rows down, nothing is seen.
Wiped(F, p, k) == [o \in Nat |-> IF p <= o /\ RowAt(o) <= RowAt(p) + k THEN Space ELSE F[o]]

\* Rows wiped, one more each time.
LEMMA WipedIs ==
    ASSUME NEW n \in Nat, NEW F \in Sheets(n), NEW p \in Nat, NEW k \in Nat
    PROVE  Wiped(F, p, k) \in Sheets(n)
<1> DEFINE W == Wiped(F, p, k)
<1>1. F \in [Nat -> Plain] /\ \A o \in Nat : RowAt(o) > n => F[o] = " "
  BY DEF Sheets
<1>2. \A o \in Nat : W[o] \in {Space, F[o]}
  BY DEF Wiped
<1>3. W = [o \in Nat |-> W[o]]
  BY DEF Wiped
<1> HIDE DEF W
<1>4. Space \in Plain /\ Space = " "
  BY SpaceIsPlain DEF Space
<1>5. W \in [Nat -> Plain]
  BY <1>1, <1>2, <1>3, <1>4
<1>6. \A o \in Nat : RowAt(o) > n => W[o] = " "
  BY <1>1, <1>2, <1>4
<1> QED BY <1>5, <1>6 DEF Sheets, W

\* The rest of the first row, and then one row after the other.
LEMMA WipedFirst ==
    ASSUME NEW n \in Nat, NEW F \in Sheets(n), NEW p \in Nat
    PROVE  Blanked(F, RowAt(p), ColAt(p)) = Wiped(F, p, 0)
<1> DEFINE B == Blanked(F, RowAt(p), ColAt(p))
           W == Wiped(F, p, 0)
<1>1. RowAt(p) \in Nat /\ ColAt(p) \in Nat
  BY PlaceOf
<1>2. B \in Sheets(n)
  BY <1>1, BlankedIs
<1>3. W \in Sheets(n)
  BY WipedIs
<1>4. ASSUME NEW o \in Nat PROVE B[o] = W[o]
  <2>1. RowAt(o) \in Nat /\ ColAt(o) \in Nat
    BY PlaceOf
  <2>2. B[o] = IF RowAt(o) = RowAt(p) /\ ColAt(o) >= ColAt(p) THEN Space ELSE F[o]
    BY DEF Blanked, Space
  <2>3. W[o] = IF p <= o /\ RowAt(o) <= RowAt(p) + 0 THEN Space ELSE F[o]
    BY DEF Wiped
  <2> HIDE DEF B, W
  <2>4. (RowAt(o) = RowAt(p) /\ ColAt(o) >= ColAt(p)) <=> (p <= o /\ RowAt(o) <= RowAt(p) + 0)
    <3>1. p <= o => RowAt(p) <= RowAt(o)
      BY PlacesRise
    <3>2. RowAt(o) = RowAt(p) => (o < p <=> ColAt(o) < ColAt(p))
      BY PlacesRise
    <3> QED BY <1>1, <2>1, <3>1, <3>2
  <2> QED BY <2>2, <2>3, <2>4
<1> HIDE DEF B, W
<1>5. B = W
  BY <1>2, <1>3, <1>4, SheetsAgree DEF Agree
<1> QED BY <1>5 DEF B, W

LEMMA WipedNext ==
    ASSUME NEW n \in Nat, NEW F \in Sheets(n), NEW p \in Nat, NEW k \in Nat
    PROVE  Blanked(Wiped(F, p, k), RowAt(p) + (k + 1), 0) = Wiped(F, p, k + 1)
<1> DEFINE E == Wiped(F, p, k)
           r == RowAt(p) + (k + 1)
           B == Blanked(E, r, 0)
           W == Wiped(F, p, k + 1)
<1>1. RowAt(p) \in Nat /\ r \in Nat
  BY PlaceOf
<1>2. E \in Sheets(n)
  BY WipedIs
<1>3. B \in Sheets(n)
  <2> HIDE DEF E, r
  <2> QED BY <1>1, <1>2, BlankedIs
<1>4. W \in Sheets(n)
  BY WipedIs
<1>5. ASSUME NEW o \in Nat PROVE B[o] = W[o]
  <2>1. RowAt(o) \in Nat /\ ColAt(o) \in Nat
    BY PlaceOf
  <2>2. B[o] = IF RowAt(o) = r /\ ColAt(o) >= 0 THEN Space ELSE E[o]
    BY DEF Blanked, Space
  <2>3. W[o] = IF p <= o /\ RowAt(o) <= RowAt(p) + (k + 1) THEN Space ELSE F[o]
    BY DEF Wiped
  <2>4. E[o] = IF p <= o /\ RowAt(o) <= RowAt(p) + k THEN Space ELSE F[o]
    BY DEF Wiped
  <2> HIDE DEF B, W, E
  <2>5. RowAt(o) = r => p <= o
    <3>1. ASSUME RowAt(o) = r PROVE RowAt(p) < RowAt(o)
      BY <1>1, <3>1
    <3>2. RowAt(p) < RowAt(o) => p < o
      BY PlacesRise
    <3> QED BY <3>1, <3>2
  <2>6. CASE RowAt(o) = r
    <3>1. ColAt(o) >= 0 /\ p <= o /\ RowAt(o) <= RowAt(p) + (k + 1)
      BY <1>1, <2>1, <2>5, <2>6
    <3> QED BY <2>2, <2>3, <2>6, <3>1
  <2>7. CASE RowAt(o) # r
    <3>1. RowAt(o) <= RowAt(p) + (k + 1) <=> RowAt(o) <= RowAt(p) + k
      BY <1>1, <2>1, <2>7
    <3> QED BY <2>2, <2>3, <2>4, <2>7, <3>1
  <2> QED BY <2>6, <2>7
<1> HIDE DEF B, W
<1>6. B = W
  BY <1>3, <1>4, <1>5, SheetsAgree DEF Agree
<1> QED BY <1>6 DEF B, W

\* All that was typed is wiped.
LEMMA WipedLast ==
    ASSUME NEW t \in Seq(Plain), NEW d \in Nat, RowAt(At(0)) + d = LastRowOf(t)
    PROVE  Wiped(LineSeen(t), At(0), d) = LineSeen(<<>>)
<1> DEFINE W == Wiped(LineSeen(t), At(0), d)
           F == LineSeen(t)
           G == LineSeen(<<>>)
<1>1. <<>> \in Seq(Plain) /\ Len(<<>>) = 0
  OBVIOUS
<1>2. F \in Sheets(LastRowOf(t)) /\ LastRowOf(t) \in Nat /\ End(t) \in Nat /\ Len(PS1) \in Nat
      /\ Len(t) \in Nat
  BY LineSeenIs
<1>3. G \in Sheets(LastRowOf(<<>>))
  BY <1>1, LineSeenIs
<1>4. At(0) = Len(PS1) /\ End(<<>>) = Len(PS1) /\ At(0) \in Nat /\ End(t) = Len(PS1) + Len(t)
  BY <1>1, <1>2 DEF At, End
<1>5. W \in Sheets(LastRowOf(t))
  BY <1>2, <1>4, WipedIs
<1>6. ASSUME NEW o \in Nat PROVE W[o] = G[o]
  <2>1. W[o] = IF At(0) <= o /\ RowAt(o) <= RowAt(At(0)) + d THEN Space ELSE F[o]
    BY DEF Wiped
  <2>2. F[o] = IF o < Len(PS1) THEN PS1[o + 1]
               ELSE IF o < End(t) THEN t[o - Len(PS1) + 1] ELSE Space
    BY SeenAt
  <2>3. G[o] = IF o < Len(PS1) THEN PS1[o + 1]
               ELSE IF o < End(<<>>) THEN <<>>[o - Len(PS1) + 1] ELSE Space
    BY <1>1, SeenAt
  <2> HIDE DEF W, F, G
  <2>4. CASE o < Len(PS1)
    <3>1. ~(At(0) <= o)
      BY <1>2, <1>4, <2>4
    <3> QED BY <2>1, <2>2, <2>3, <2>4, <3>1
  <2>5. CASE ~(o < Len(PS1))
    <3>1. ~(o < End(<<>>))
      BY <1>4, <2>5
    <3>2. G[o] = Space
      BY <2>3, <2>5, <3>1
    <3>3. o < End(t) => RowAt(o) <= RowAt(At(0)) + d
      <4>1. ASSUME o < End(t) PROVE RowAt(o) <= RowAt(End(t))
        BY <1>2, <4>1, PlacesRise
      <4> QED BY <4>1 DEF LastRowOf
    <3>4. CASE RowAt(o) <= RowAt(At(0)) + d
      <4>1. At(0) <= o
        BY <1>2, <1>4, <2>5
      <4> QED BY <2>1, <3>2, <3>4, <4>1
    <3>5. CASE ~(RowAt(o) <= RowAt(At(0)) + d)
      <4>1. ~(o < End(t))
        BY <3>3, <3>5
      <4> QED BY <2>1, <2>2, <2>5, <3>2, <3>5, <4>1
    <3> QED BY <3>4, <3>5
  <2> QED BY <2>4, <2>5
<1> HIDE DEF W, G
<1>7. W = G
  BY <1>3, <1>5, <1>6, SheetsAgree DEF Agree
<1> QED BY <1>7 DEF W, G

\* One row further down, from its start, the row is erased.
Wipe == NewLine \o <<"CR">> \o Esc("K")

\* Readline wipes the next row.
LEMMA WipeOnPage ==
    ASSUME NEW R, NEW m \in Nat, NEW n \in Nat, NEW F \in Sheets(n), NEW r \in Nat, r < n, m <= r,
           NEW x \in Nat, NEW s \in Page(R, m, n, F, r, x)
    PROVE  /\ Wipe \in Texts
           /\ Fed(s, Wipe) \in Page(R, m, n, Blanked(F, r + 1, 0), r + 1, 0)
<1>1. NewLine \in Texts /\ <<"CR">> \in Texts /\ Esc("K") \in Texts
  BY WordsSent
<1>2. PICK t : t = Fed(s, NewLine)
  OBVIOUS
<1>3. t \in Page(R, m, n, F, r + 1, 0) /\ t \in Screens /\ s \in Screens
  BY <1>2, NewLineOnPage, PageScreens
<1>4. Fed(t, <<"CR">>) = feed(t, "CR")
  BY <1>3, Signs, FedOne
<1>5. PICK u : u = feed(t, "CR")
  OBVIOUS
<1>6. u \in Page(R, m, n, F, r + 1, 0) /\ u \in Screens
  BY <1>3, <1>5, ReturnOnPage, PageScreens
<1>7. Fed(u, Esc("K")) \in Page(R, m, n, Blanked(F, r + 1, 0), r + 1, 0)
  <2>1. 0 < Width /\ r + 1 \in Nat /\ Least(m, r + 1) = m
    BY WidthIs DEF Least
  <2>2. Fed(u, Esc("K")) \in Page(R, Least(m, r + 1), n, Blanked(F, r + 1, 0), r + 1, 0)
    BY <1>6, <2>1, EraseOnPage
  <2> QED BY <2>1, <2>2
<1>8. NewLine \o <<"CR">> \in Texts /\ Fed(s, NewLine \o <<"CR">>) = u
  BY <1>1, <1>2, <1>3, <1>4, <1>5, FedBoth
<1>9. (NewLine \o <<"CR">>) \o Esc("K") \in Texts
      /\ Fed(s, (NewLine \o <<"CR">>) \o Esc("K")) = Fed(u, Esc("K"))
  BY <1>1, <1>3, <1>8, FedBoth
<1> QED BY <1>7, <1>9 DEF Wipe

\* The rows below the first, one after the other.
LEMMA WipesOnPage ==
    ASSUME NEW R, NEW n \in Nat, NEW F \in Sheets(n), NEW p \in Nat, NEW d \in Nat, RowAt(p) + d <= n,
           NEW s \in Page(R, RowAt(p), n, Wiped(F, p, 0), RowAt(p), ColAt(p))
    PROVE  /\ Times(Wipe, d) \in Texts
           /\ \E z \in Nat : z < Width /\ Fed(s, Times(Wipe, d)) \in
                    Page(R, RowAt(p), n, Wiped(F, p, d), RowAt(p) + d, z)
<1> DEFINE m == RowAt(p)
           X(k) == IF k = 0 THEN ColAt(p) ELSE 0
           S == [k \in 0..d |-> Page(R, m, n, Wiped(F, p, k), m + k, X(k))]
           q == Same1(Wipe, d)
<1>1. m \in Nat /\ ColAt(p) \in Nat /\ ColAt(p) < Width /\ 0 < Width
  BY PlaceOf, WidthIs
<1>2. \A k \in 0..d : S[k] = Page(R, m, n, Wiped(F, p, k), m + k, X(k)) /\ X(k) \in Nat /\ X(k) < Width
  BY <1>1
<1>3. \A k \in 1..d : q[k] = Wipe
  BY DEF Same1
<1>4. Wipe \in Texts
  BY WordsSent, Concatenated DEF Wipe
<1> HIDE DEF S, q, X, m
<1>5. \A k \in 0..d : S[k] \subseteq Screens
  BY <1>2, PageScreens
<1>6. ASSUME NEW k \in 1..d, NEW t \in S[k - 1] PROVE Fed(t, q[k]) \in S[k]
  <2>1. PICK j \in Nat : j = k - 1 /\ j \in 0..d /\ k \in 0..d /\ k = j + 1
    OBVIOUS
  <2>2. t \in Page(R, m, n, Wiped(F, p, j), m + j, X(j)) /\ X(j) \in Nat
    BY <1>2, <2>1
  <2>3. m + j \in Nat /\ m + j < n /\ m <= m + j /\ (m + j) + 1 = m + k
    BY <1>1, <2>1 DEF m
  <2>4. X(k) = 0
    BY DEF X
  <2>5. Wiped(F, p, j) \in Sheets(n)
    BY <2>1, WipedIs
  <2> DEFINE E == Wiped(F, p, j)
             r == m + j
  <2> HIDE DEF E, r
  <2>6. Fed(t, Wipe) \in Page(R, m, n, Blanked(E, r + 1, 0), r + 1, 0)
    BY <1>1, <2>2, <2>3, <2>5, WipeOnPage DEF E, r
  <2>7. Blanked(E, r + 1, 0) = Wiped(F, p, k)
    <3>1. Blanked(Wiped(F, p, j), RowAt(p) + (j + 1), 0) = Wiped(F, p, j + 1)
      BY <2>1, WipedNext
    <3>2. RowAt(p) + (j + 1) = r + 1
      BY <1>1, <2>1 DEF r, m
    <3> QED BY <2>1, <3>1, <3>2 DEF E
  <2>8. r + 1 = m + k
    BY <2>3 DEF r
  <2>9. Fed(t, Wipe) \in Page(R, m, n, Wiped(F, p, k), m + k, X(k))
    BY <2>4, <2>6, <2>7, <2>8
  <2> QED BY <1>2, <1>3, <2>1, <2>9
<1>7. Leads(S, d, q)
  BY <1>5, <1>6 DEF Leads
<1>8. s \in S[0]
  <2>1. X(0) = ColAt(p) /\ m + 0 = m /\ 0 \in 0..d
    BY <1>1 DEF X
  <2> QED BY <1>2, <2>1 DEF m
<1>9. Times(Wipe, d) \in Texts /\ Fed(s, Times(Wipe, d)) \in S[d]
  BY <1>4, <1>7, <1>8, TimesFed DEF q
<1>10. d \in 0..d
  OBVIOUS
<1>11. X(d) \in Nat /\ X(d) < Width /\ Fed(s, Times(Wipe, d)) \in Page(R, m, n, Wiped(F, p, d), m + d, X(d))
  BY <1>2, <1>9, <1>10
<1> HIDE DEF X
<1> QED BY <1>9, <1>11 DEF m

\* All that was typed is erased, row after row, and the cursor goes back.
LEMMA KilledOnLine ==
    ASSUME NEW R, NEW t \in Seq(Plain), NEW d \in Nat, RowAt(At(0)) + d = LastRowOf(t),
           NEW s \in LinePage(R, t, 0)
    PROVE  /\ Times(Wipe, d) \in Texts
           /\ Fed(Fed(Fed(s, Esc("K")), Times(Wipe, d)), Moved(At(0) + (d * Width), At(0)))
                 \in LinePage(R, <<>>, 0)
<1> DEFINE p == At(0)
           F == LineSeen(t)
           N == LastRowOf(t)
           m == RowAt(p)
           x == ColAt(p)
           G == LineSeen(<<>>)
<1>1. F \in Sheets(N) /\ N \in Nat /\ Len(PS1) \in Nat
  BY LineSeenIs
<1>2. p \in Nat /\ m \in Nat /\ x \in Nat /\ x < Width /\ m <= N /\ m + d = N
  <2>1. 0 \in 0..Len(t)
    BY LenProperties
  <2> QED BY <2>1, PlacesOfLine
<1>3. s \in Page(R, N, N, F, m, x)
  BY DEF LinePage
<1>4. m = LastRowOf(<<>>)
  BY <1>1 DEF LastRowOf, End, At
<1>5. Wiped(F, p, 0) = Blanked(F, m, x)
  BY <1>1, <1>2, WipedFirst
<1>6. Wiped(F, p, d) = G
  BY WipedLast
<1>7. Wiped(F, p, d) \in Sheets(N)
  BY <1>1, <1>2, WipedIs
<1>8. p = (Width * m) + x
  BY <1>2, PlaceOf
<1> HIDE DEF F, N, G
<1>9. Fed(s, Esc("K")) \in Page(R, m, N, Wiped(F, p, 0), m, x)
  <2>1. Least(N, m) = m
    BY <1>1, <1>2 DEF Least
  <2> HIDE DEF p, m, x
  <2>2. Fed(s, Esc("K")) \in Page(R, Least(N, m), N, Blanked(F, m, x), m, x)
    BY <1>1, <1>2, <1>3, EraseOnPage
  <2> QED BY <1>5, <2>1, <2>2
<1>10. PICK u : u = Fed(s, Esc("K"))
  OBVIOUS
<1>11. Times(Wipe, d) \in Texts /\ \E z \in Nat : z < Width /\ Fed(u, Times(Wipe, d)) \in
          Page(R, m, N, Wiped(F, p, d), m + d, z)
  <2>1. RowAt(p) + d <= N
    BY <1>1, <1>2
  <2>2. u \in Page(R, RowAt(p), N, Wiped(F, p, 0), RowAt(p), ColAt(p))
    BY <1>9, <1>10
  <2> HIDE DEF p
  <2> QED BY <1>1, <1>2, <2>1, <2>2, WipesOnPage
<1>18. PICK v : v = Fed(u, Times(Wipe, d))
  OBVIOUS
<1>12. PICK z \in Nat : z < Width /\ v \in Page(R, m, N, G, m + d, z)
  BY <1>6, <1>11, <1>18
<1>13. PICK o \in Nat : o = p + (d * Width) /\ RowAt(o) = m + d
  <2>1. p + (d * Width) = (Width * (m + d)) + x
    BY <1>2, <1>8, WidthIs
  <2>2. m + d \in Nat
    BY <1>2
  <2>3. (Width * (m + d)) + x \in Nat /\ RowAt((Width * (m + d)) + x) = m + d
    BY <1>2, <2>2, OffsetOf
  <2> QED BY <2>1, <2>3
<1>14. v \in Page(R, m, N, G, RowAt(o), z)
  BY <1>12, <1>13
<1> HIDE DEF m, p, x
<1>15. Fed(v, Moved(o, p)) \in Page(R, m, N, G, RowAt(p), ColAt(p))
  <2>1. RowAt(p) <= N
    BY <1>2 DEF m
  <2> QED BY <1>1, <1>2, <1>6, <1>7, <1>12, <1>14, <2>1, MovedOnPage
<1>16. Fed(v, Moved(o, p)) \in Page(R, m, m, G, RowAt(p), ColAt(p))
  <2>1. m <= m
    BY <1>2
  <2> QED BY <1>1, <1>2, <1>15, <2>1, FewerOnPage
<1>17. Fed(v, Moved(o, p)) \in LinePage(R, <<>>, 0)
  BY <1>4, <1>16 DEF LinePage, G, p
<1> QED BY <1>10, <1>11, <1>12, <1>13, <1>17, <1>18 DEF p

\* Printed on an empty page.
LEMMA PrintedAfresh ==
    ASSUME NEW R \in Nat, NEW t \in Seq(Plain), LastRowOf(t) < R, NEW s \in Page(R, 0, 0, Nothing, 0, 0)
    PROVE  /\ Printed(PS1 \o t, 0) \in Texts
           /\ Fed(s, Printed(PS1 \o t, 0)) \in LinePage(R, t, Len(t))
<1> DEFINE u == PS1 \o t
           N == LastRowOf(t)
           G == LineSeen(t)
           e == End(t)
<1>1. G \in Sheets(N) /\ N \in Nat /\ e \in Nat /\ Len(PS1) \in Nat /\ Len(t) \in Nat
      /\ e = Len(PS1) + Len(t)
  BY LineSeenIs DEF End
<1>2. PS1 \in Seq(Plain)
  BY TapAssumption
<1>3. u \in Seq(Plain) /\ Len(u) = Len(PS1) + Len(t)
  BY <1>2, ConcatParts
<1>4. \A k \in 1..Len(PS1) : u[k] = PS1[k]
  BY <1>2, ConcatParts
<1>5. \A k \in 1..Len(t) : u[Len(PS1) + k] = t[k]
  BY <1>2, ConcatParts
<1>6. \A o \in Nat : G[o] = IF o < Len(PS1) THEN PS1[o + 1]
                            ELSE IF o < e THEN t[o - Len(PS1) + 1] ELSE Space
  BY SeenAt
<1>7. N = RowAt(e)
  BY DEF LastRowOf
<1>8. Nothing \in Sheets(0) /\ \A o \in Nat : Nothing[o] = Space
  BY NothingSeen DEF Nothing, Space
<1> HIDE DEF u, N, G, e
<1>9. Overlaid(Nothing, G, u, 0, e)
  <2>1. ASSUME NEW o \in Nat, o < 0 \/ o > 0 + e PROVE G[o] = Nothing[o]
    <3>1. ~(o < Len(PS1)) /\ ~(o < e)
      BY <1>1, <2>1
    <3> QED BY <1>6, <1>8, <3>1
  <2>2. ASSUME NEW i \in 1..e PROVE G[0 + (i - 1)] = u[i]
    <3>1. PICK o \in Nat : o = 0 + (i - 1) /\ o < e /\ o + 1 = i
      BY <1>1
    <3>2. CASE o < Len(PS1)
      <4>1. i \in 1..Len(PS1)
        BY <1>1, <3>1, <3>2
      <4> QED BY <1>4, <1>6, <3>1, <3>2, <4>1
    <3>3. CASE ~(o < Len(PS1))
      <4>1. PICK k \in 1..Len(t) : k = o - Len(PS1) + 1 /\ i = Len(PS1) + k
        <5>1. o - Len(PS1) + 1 \in 1..Len(t) /\ i = Len(PS1) + (o - Len(PS1) + 1)
          BY <1>1, <3>1, <3>3
        <5> QED BY <5>1
      <4> QED BY <1>5, <1>6, <3>1, <3>3, <4>1
    <3> QED BY <3>2, <3>3
  <2>3. G[0 + e] = Space /\ Nothing[0 + e] = Space
    <3>1. PICK o \in Nat : o = 0 + e
      BY <1>1
    <3>2. ~(o < Len(PS1)) /\ ~(o < e)
      BY <1>1, <3>1
    <3> QED BY <1>6, <1>8, <3>1, <3>2
  <2> QED BY <2>1, <2>2, <2>3 DEF Overlaid
<1>10. RowAt(0) = 0 /\ ColAt(0) = 0
  <2>1. 0 < Width /\ (Width * 0) + 0 = 0
    BY WidthIs
  <2> QED BY <2>1, OffsetOf
<1>11. Over(Nothing, u, 0, e) = G
  <2>1. e \in 0..Len(u) /\ 0 \in Nat
    BY <1>1, <1>3
  <2>2. Over(Nothing, u, 0, e) \in Sheets(Most(0, RowAt(0 + e)))
    BY <1>3, <1>8, <2>1, OverIs
  <2> QED BY <1>1, <1>9, <2>2, OverlaidIs, SheetsAgree
<1>12. 0 + Len(u) = e /\ Most(0, N) = N
  BY <1>1, <1>3 DEF Most
<1>13. /\ Printed(u, 0) \in Texts
       /\ Fed(s, Printed(u, 0)) \in Page(R, Most(0, RowAt(0 + Len(u))), Most(0, RowAt(0 + Len(u))),
                                        Over(Nothing, u, 0, Len(u)), RowAt(0 + Len(u)), ColAt(0 + Len(u)))
  <2>1. s \in Page(R, 0, 0, Nothing, RowAt(0), ColAt(0))
    BY <1>10
  <2>2. RowAt(0 + Len(u)) < R
    BY <1>7, <1>12 DEF N
  <2>3. RowAt(0) <= 0 /\ 0 <= 0 /\ 0 \in Nat
    BY <1>10
  <2> QED BY <1>3, <1>8, <2>1, <2>2, <2>3, PrintedOnPage
<1>14. e = Len(u)
  BY <1>1, <1>3
<1>15. Fed(s, Printed(u, 0)) \in Page(R, N, N, G, RowAt(e), ColAt(e))
  BY <1>7, <1>11, <1>12, <1>13, <1>14
<1>16. At(Len(t)) = e
  BY DEF At, End, e
<1> QED BY <1>13, <1>15, <1>16 DEF LinePage, N, G, u

-----------------------------------------------------------------------------
(***************************************************************************)
(* What each key has readline draw.                                        *)
(***************************************************************************)
\* What is so of every screen that shows a line.
LEMMA LineScreens ==
    ASSUME NEW R, NEW t, NEW n, NEW s \in LinePage(R, t, n)
    PROVE  s \in Screens /\ s.rows = R /\ s.cols = Width /\ Ready(s)
<1>1. s \in Page(R, LastRowOf(t), LastRowOf(t), LineSeen(t), RowAt(At(n)), ColAt(At(n)))
  BY DEF LinePage
<1>2. s \in Screens /\ s.rows = R
  BY <1>1, OnPage
<1>3. PICK y \in Nat : Placed1(s, y, LastRowOf(t), LastRowOf(t), LineSeen(t), RowAt(At(n)), ColAt(At(n)))
  BY <1>1, OnPage
<1> QED BY <1>2, <1>3 DEF Placed1, Ready

\* What is drawn, and then the cursor's way back, if it is not there.
Back(t, n, here) == IF here THEN <<>> ELSE Moved(End(t), At(n))

\* The cursor goes back to its place.
LEMMA BackOnLine ==
    ASSUME NEW R, NEW t \in Seq(Plain), NEW n \in 0..Len(t), NEW here \in BOOLEAN, here => n = Len(t),
           NEW s \in LinePage(R, t, Len(t))
    PROVE  /\ Back(t, n, here) \in Texts /\ Calm(Back(t, n, here))
           /\ Fed(s, Back(t, n, here)) \in LinePage(R, t, n)
<1>1. Len(t) \in 0..Len(t) /\ Len(t) \in Nat
  BY LenProperties
<1>2. At(n) \in Nat /\ At(Len(t)) = End(t) /\ End(t) \in Nat
  BY PlacesOfLine
<1>3. s \in Screens
  BY LineScreens
<1>4. CASE here
  <2>1. Back(t, n, here) = <<>>
    BY <1>4 DEF Back
  <2>2. Fed(s, <<>>) = s
    BY <1>3, FedNone
  <2> QED BY <1>4, <2>1, <2>2, CalmNone, WordsSent
<1>5. CASE ~here
  <2>1. Back(t, n, here) = Moved(At(Len(t)), At(n))
    BY <1>2, <1>5 DEF Back
  <2>2. Fed(s, Moved(At(Len(t)), At(n))) \in LinePage(R, t, n)
    BY <1>1, MovedOnLine
  <2>3. Moved(At(Len(t)), At(n)) \in Texts /\ Calm(Moved(At(Len(t)), At(n)))
    BY <1>2, CursorMoved, CalmMoved
  <2> QED BY <2>1, <2>2, <2>3
<1> QED BY <1>4, <1>5

\* A key that adds a character, anywhere in the line.
LEMMA TypesShown ==
    ASSUME NEW R \in Nat, NEW t \in Seq(Plain), NEW n \in 0..Len(t), NEW c \in Plain,
           NEW a, a = InsertAt(t, n + 1, c), LastRowOf(a) < R, NEW s \in LinePage(R, t, n)
    PROVE  Fed(s, Printed(<<c>> \o Rest(t, n), At(n)) \o Back(a, n + 1, n = Len(t)))
              \in LinePage(R, a, n + 1)
<1> DEFINE u == Printed(<<c>> \o Rest(t, n), At(n))
           v == Back(a, n + 1, n = Len(t))
<1>1. a \in Seq(Plain) /\ Len(a) = Len(t) + 1 /\ Len(t) \in Nat
  BY AddedAt, LenProperties
<1>2. u \in Texts /\ Fed(s, u) \in LinePage(R, a, Len(a))
  BY TypedOnLine
<1>3. n + 1 \in 0..Len(a) /\ (n = Len(t) => n + 1 = Len(a))
  BY <1>1
<1> HIDE DEF u
<1>4. v \in Texts /\ Fed(Fed(s, u), v) \in LinePage(R, a, n + 1)
  <2> DEFINE here == n = Len(t)
  <2>1. here \in BOOLEAN
    OBVIOUS
  <2>2. here => n + 1 = Len(a)
    BY <1>3
  <2> HIDE DEF here
  <2>3. Back(a, n + 1, here) \in Texts /\ Fed(Fed(s, u), Back(a, n + 1, here)) \in LinePage(R, a, n + 1)
    BY <1>1, <1>2, <1>3, <2>1, <2>2, BackOnLine
  <2> QED BY <2>3 DEF here
<1> HIDE DEF v
<1>5. s \in Screens
  BY LineScreens
<1>6. Fed(s, u \o v) = Fed(Fed(s, u), v)
  BY <1>2, <1>4, <1>5, FedBoth
<1> QED BY <1>4, <1>6 DEF u, v

\* Backspace, anywhere in the line.
LEMMA ErasesShown ==
    ASSUME NEW R \in Nat, NEW t \in Seq(Plain), NEW n \in 1..Len(t), NEW a, a = RemoveAt(t, n),
           LastRowOf(t) < R, NEW s \in LinePage(R, t, n)
    PROVE  Fed(s, Moved(At(n), At(n - 1)) \o Printed(Rest(t, n), At(n - 1)) \o Esc("K")
                    \o Back(a, n - 1, n = Len(t)))
              \in LinePage(R, a, n - 1)
<1> DEFINE u == Moved(At(n), At(n - 1))
           v == Printed(Rest(t, n), At(n - 1))
           w == Esc("K")
           z == Back(a, n - 1, n = Len(t))
<1>1. a \in Seq(Plain) /\ Len(a) = Len(t) - 1 /\ Len(t) \in Nat
  BY TakenAt, LenProperties
<1>2. n \in 0..Len(t) /\ n - 1 \in 0..Len(t) /\ n - 1 \in 0..Len(a) /\ (n = Len(t) => n - 1 = Len(a))
  BY <1>1
<1>3. u \in Texts
  BY <1>2, PlacesOfLine, CursorMoved
<1>4. Fed(s, u) \in LinePage(R, t, n - 1)
  BY <1>2, MovedOnLine
<1> HIDE DEF u
<1>5. v \in Texts /\ Fed(Fed(Fed(s, u), v), w) \in LinePage(R, a, Len(a))
  BY <1>4, ErasedOnLine
<1>6. w \in Texts
  BY WordsSent
<1> HIDE DEF v, w
<1> DEFINE q == Fed(Fed(Fed(s, u), v), w)
<1>7. z \in Texts /\ Fed(q, z) \in LinePage(R, a, n - 1)
  <2> DEFINE here == n = Len(t)
  <2>1. here \in BOOLEAN
    OBVIOUS
  <2>2. here => n - 1 = Len(a)
    BY <1>2
  <2> HIDE DEF here, q
  <2>3. Back(a, n - 1, here) \in Texts /\ Fed(q, Back(a, n - 1, here)) \in LinePage(R, a, n - 1)
    BY <1>1, <1>2, <1>5, <2>1, <2>2, BackOnLine DEF q
  <2> QED BY <2>3 DEF here
<1> HIDE DEF z
<1>8. s \in Screens
  BY LineScreens
<1>9. u \o v \in Texts /\ Fed(s, u \o v) = Fed(Fed(s, u), v)
  BY <1>3, <1>5, <1>8, FedBoth
<1>10. (u \o v) \o w \in Texts /\ Fed(s, (u \o v) \o w) = q
  BY <1>6, <1>8, <1>9, FedBoth
<1>11. Fed(s, ((u \o v) \o w) \o z) = Fed(q, z)
  BY <1>7, <1>8, <1>10, FedBoth
<1> QED BY <1>7, <1>11 DEF u, v, w, z

\* Ctrl-U at the end of the line.
LEMMA KillsShown ==
    ASSUME NEW R, NEW t \in Seq(Plain), NEW d, d = RowAt(End(t)) - RowAt(At(0)),
           NEW s \in LinePage(R, t, Len(t))
    PROVE  Fed(s, Moved(End(t), At(0)) \o Esc("K") \o Times(Wipe, d) \o Moved(At(0) + (d * Width), At(0)))
              \in LinePage(R, <<>>, 0)
<1> DEFINE u == Moved(End(t), At(0))
           v == Esc("K")
           w == Times(Wipe, d)
           z == Moved(At(0) + (d * Width), At(0))
<1>1. 0 \in 0..Len(t) /\ Len(t) \in 0..Len(t)
  BY LenProperties
<1>2. At(0) \in Nat /\ RowAt(At(0)) \in Nat /\ RowAt(At(0)) <= LastRowOf(t) /\ LastRowOf(t) \in Nat
      /\ At(Len(t)) = End(t) /\ End(t) \in Nat
  BY <1>1, PlacesOfLine
<1>3. d \in Nat /\ RowAt(At(0)) + d = LastRowOf(t)
  BY <1>2 DEF LastRowOf
<1>4. u \in Texts
  BY <1>2, CursorMoved
<1>5. Fed(s, u) \in LinePage(R, t, 0)
  <2>1. Fed(s, Moved(At(Len(t)), At(0))) \in LinePage(R, t, 0)
    BY <1>1, MovedOnLine
  <2> QED BY <1>2, <2>1
<1> HIDE DEF u
<1>6. w \in Texts /\ Fed(Fed(Fed(Fed(s, u), v), w), z) \in LinePage(R, <<>>, 0)
  BY <1>3, <1>5, KilledOnLine
<1>7. v \in Texts
  BY WordsSent
<1>8. z \in Texts
  <2>1. At(0) + (d * Width) \in Nat
    BY <1>2, <1>3, WidthIs
  <2> QED BY <1>2, <2>1, CursorMoved
<1> HIDE DEF v, w, z
<1>9. s \in Screens
  BY LineScreens
<1>10. u \o v \in Texts /\ Fed(s, u \o v) = Fed(Fed(s, u), v)
  BY <1>4, <1>7, <1>9, FedBoth
<1>11. (u \o v) \o w \in Texts /\ Fed(s, (u \o v) \o w) = Fed(Fed(Fed(s, u), v), w)
  BY <1>6, <1>9, <1>10, FedBoth
<1>12. Fed(s, ((u \o v) \o w) \o z) = Fed(Fed(Fed(Fed(s, u), v), w), z)
  BY <1>8, <1>9, <1>11, FedBoth
<1> QED BY <1>6, <1>12 DEF u, v, w, z

\* Ctrl-L.
LEMMA ClearsShown ==
    ASSUME NEW R \in Nat, NEW t \in Seq(Plain), NEW n \in 0..Len(t), LastRowOf(t) < R,
           NEW s \in LinePage(R, t, n)
    PROVE  Fed(s, Esc("H") \o Esc("J") \o Printed(PS1 \o t, 0) \o Moved(End(t), At(n)))
              \in LinePage(R, t, n)
<1> DEFINE u == Esc("H")
           v == Esc("J")
           w == Printed(PS1 \o t, 0)
           z == Moved(End(t), At(n))
<1>1. At(n) \in Nat /\ At(Len(t)) = End(t) /\ End(t) \in Nat /\ RowAt(At(n)) \in Nat
      /\ ColAt(At(n)) \in Nat /\ ColAt(At(n)) < Width
  BY PlacesOfLine
<1>2. s \in Page(R, LastRowOf(t), LastRowOf(t), LineSeen(t), RowAt(At(n)), ColAt(At(n)))
  BY DEF LinePage
<1>3. Fed(Fed(s, u), v) \in Page(R, 0, 0, Nothing, 0, 0)
  BY <1>1, <1>2, ClearedOnPage
<1>4. u \in Texts /\ v \in Texts
  BY WordsSent
<1> HIDE DEF u, v
<1>5. w \in Texts /\ Fed(Fed(Fed(s, u), v), w) \in LinePage(R, t, Len(t))
  BY <1>3, PrintedAfresh
<1> HIDE DEF w
<1>6. z \in Texts
  BY <1>1, CursorMoved
<1>7. Fed(Fed(Fed(Fed(s, u), v), w), z) \in LinePage(R, t, n)
  <2> DEFINE q == Fed(Fed(Fed(s, u), v), w)
  <2> HIDE DEF q
  <2>1. Len(t) \in 0..Len(t)
    BY LenProperties
  <2>2. Fed(q, Moved(At(Len(t)), At(n))) \in LinePage(R, t, n)
    BY <1>5, <2>1, MovedOnLine DEF q
  <2> QED BY <1>1, <2>2 DEF q
<1> HIDE DEF z
<1>9. s \in Screens
  BY LineScreens
<1>10. u \o v \in Texts /\ Fed(s, u \o v) = Fed(Fed(s, u), v)
  BY <1>4, <1>9, FedBoth
<1>11. (u \o v) \o w \in Texts /\ Fed(s, (u \o v) \o w) = Fed(Fed(Fed(s, u), v), w)
  BY <1>5, <1>9, <1>10, FedBoth
<1>12. Fed(s, ((u \o v) \o w) \o z) = Fed(Fed(Fed(Fed(s, u), v), w), z)
  BY <1>6, <1>9, <1>11, FedBoth
<1> QED BY <1>7, <1>12 DEF u, v, w, z

\* The prompt on a tidy screen.
LEMMA PromptShown ==
    ASSUME NEW s \in Screens, Tidy(s), s.unsure = FALSE, LastRowOf(<<>>) < s.rows
    PROVE  Fed(s, Prompted) \in LinePage(s.rows, <<>>, 0)
<1> DEFINE t == Fed(s, Word(ShellType))
<1>1. Word(ShellType) \in Texts /\ t \in Grounded /\ Kin(s, t) /\ t.context = "shell"
  BY WordsFed
<1> HIDE DEF t
<1>2. t \in Screens /\ t.state = "GROUND"
  BY <1>1 DEF Grounded
<1>3. /\ t.cols = s.cols /\ t.rows = s.rows /\ t.top = s.top /\ t.bottom = s.bottom
      /\ t.wrap = s.wrap /\ t.origin = s.origin /\ t.insert = s.insert
      /\ t.unsure = s.unsure /\ t.x = s.x /\ t.y = s.y /\ t.main = s.main /\ t.alt = s.alt
  BY <1>1, KinFields
<1>4. /\ onMain(s) /\ s.wrap /\ ~s.insert /\ ~s.origin /\ s.top = 0 /\ s.bottom = s.rows - 1
      /\ s.x = 0 /\ ~line(s, s.y).wrapped /\ s.cols = Width
  BY DEF Tidy, Width
<1>5. onMain(t) /\ \A k : line(t, k) = line(s, k)
  BY <1>3, <1>4, LinesAlike
<1>6. Ready(t)
  <2>1. s.wrap \in BOOLEAN /\ s.insert \in BOOLEAN /\ s.origin \in BOOLEAN
    BY DEF Screens, ScreenType
  <2> QED BY <1>1, <1>2, <1>3, <1>4, <1>5, <2>1 DEF Ready
<1>7. s.y \in Nat /\ s.rows \in Nat /\ s.y < s.rows
  BY ScreenNumbers
<1>8. ASSUME NEW i \in Nat, s.y + i < s.rows PROVE RowShows(line(s, s.y + i).cells, i, Nothing)
  <2> DEFINE c == line(s, s.y + i).cells
  <2>1. s.y + i \in s.y..(s.rows - 1) /\ s.y + i \in Nat
    BY <1>7, <1>8
  <2>2. blank(whole(c)) /\ Len(c) <= s.cols
    BY <2>1 DEF Tidy
  <2>3. c \in Cells
    <3>1. line(s, s.y + i) \in Row
      BY <1>8, <2>1, LineOf
    <3> QED BY <3>1 DEF Row
  <2> HIDE DEF c
  <2>4. NoHalf(c) /\ SeesBlank(c)
    BY <2>2, <2>3, BlankCells
  <2>5. \A k \in 0..(Width - 1) : (Width * i) + k \in Nat
    BY WidthIs
  <2>6. \A o \in Nat : Nothing[o] = " "
    BY DEF Nothing
  <2>7. \A k \in 0..(Width - 1) : Look(c, k) = Nothing[(Width * i) + k]
    BY <2>4, <2>5, <2>6 DEF SeesBlank
  <2> QED BY <1>4, <2>2, <2>4, <2>7 DEF RowShows, c
<1>9. Paged(s, s.y, 0, 0, Nothing)
  <2>1. s.y + 0 < s.rows /\ 1..0 = {} /\ 0 <= 0
    BY <1>7
  <2> QED BY <1>4, <1>8, <2>1 DEF Paged
<1>10. Paged(t, s.y, 0, 0, Nothing)
  BY <1>3, <1>5, <1>9, PageSame
<1>11. Placed1(t, s.y, 0, 0, Nothing, 0, 0)
  <2>1. t.y = s.y + 0
    BY <1>3, <1>7
  <2> QED BY <1>3, <1>4, <1>6, <1>10, <2>1 DEF Placed1
<1>12. t \in Page(s.rows, 0, 0, Nothing, 0, 0)
  BY <1>2, <1>3, <1>7, <1>11, ToPage
<1>13. <<>> \in Seq(Plain) /\ Len(<<>>) = 0
  OBVIOUS
<1>14. Printed(PS1 \o <<>>, 0) \in Texts /\ Fed(t, Printed(PS1 \o <<>>, 0)) \in LinePage(s.rows, <<>>, 0)
  BY <1>7, <1>12, <1>13, PrintedAfresh
<1>15. PS1 \o <<>> = PS1
  <2>1. PS1 \in Seq(Plain)
    BY TapAssumption
  <2> QED BY <2>1, ConcatEmptySeq
<1>16. Fed(s, Prompted) = Fed(t, Printed(PS1, 0))
  BY <1>1, <1>14, <1>15, FedBoth DEF Prompted, t
<1> QED BY <1>14, <1>15, <1>16

-----------------------------------------------------------------------------
(***************************************************************************)
(* The invariant: as long as the prompt is clean, the screen shows the     *)
(* line, from a row of its own on, split into rows where readline does.    *)
(***************************************************************************)
LineInv ==
    /\ typed \in Seq(Plain)
    /\ owner # "shell" => typed = <<>>
    /\ owner = "shell" => scr.state = "GROUND"
    /\ owner # "shell" /\ fresh => scr.unsure = FALSE
    /\ owner = "shell" /\ clean =>
           /\ term = [cols |-> scr.cols, rows |-> scr.rows] /\ LastRowOf(typed) < scr.rows
           /\ scr \in LinePage(scr.rows, typed, point)

\* Following the window leaves the parser where it is; the same window changes nothing.
LEMMA FitSteady ==
    ASSUME NEW s \in Screens, NEW g \in [cols : Nat \ {0, 1}, rows : Nat \ {0}]
    PROVE  /\ fit(s, g) \in Screens /\ Steady(s, fit(s, g))
           /\ fit(s, g).cols = g.cols /\ fit(s, g).rows = g.rows
           /\ g = [cols |-> s.cols, rows |-> s.rows] => fit(s, g) = s
<1>1. fit(s, g) \in Screens /\ fit(s, g).rows = g.rows
  BY ScreenFits, FitKept
<1>2. CASE g = [cols |-> s.cols, rows |-> s.rows]
  <2>1. fit(s, g) = s /\ g.cols = s.cols
    BY <1>2 DEF fit
  <2> QED BY <1>1, <2>1 DEF Steady
<1>3. CASE g # [cols |-> s.cols, rows |-> s.rows]
  <2> DEFINE m == fitted(s.main, g.rows, s.y, onMain(s))
             a == fitted(s.alt, g.rows, s.y, TRUE)
             alt == IF onMain(s) THEN NoBuffer ELSE a.b
             x == Least(s.x, g.cols)
             y == rides(s.y, IF onMain(s) THEN m.d ELSE a.d, g.rows)
             new == [s EXCEPT !.cols = g.cols, !.rows = g.rows, !.main = m.b, !.alt = alt,
                              !.top = 0, !.bottom = g.rows - 1, !.x = x, !.y = y]
  <2>1. fit(s, g) = moved(new)
    BY <1>3 DEF fit
  <2>2. s \in ScreenType
    BY DEF Screens
  <2> HIDE DEF m, a, alt, x, y
  <2>3. new.state = s.state /\ new.unsure = s.unsure /\ new.cols = g.cols
        /\ DOMAIN new = DOMAIN s
    BY <2>2 DEF ScreenType
  <2> HIDE DEF new
  <2>4. moved(new).state = new.state /\ moved(new).unsure = new.unsure /\ moved(new).cols = new.cols
    BY DEF moved
  <2> QED BY <1>1, <1>3, <2>1, <2>3, <2>4 DEF Steady
<1> QED BY <1>2, <1>3

\* What was read of a sequence that is over has no part in it.
LEMMA ForgottenSteady ==
    ASSUME NEW s \in Screens
    PROVE  LET t == forgotten(s) IN
           /\ t \in Screens /\ Alike(s, t) /\ t.x = s.x /\ t.y = s.y /\ t.main = s.main /\ t.alt = s.alt
<1>1. forgotten(s) \in Screens
  BY Parsed
<1>2. s \in ScreenType
  BY DEF Screens
<1> QED BY <1>1, <1>2 DEF forgotten, Alike, ScreenType

LEMMA ForgottenLine ==
    ASSUME NEW R, NEW t, NEW n, At(n) \in Nat, NEW s \in LinePage(R, t, n)
    PROVE  forgotten(s) \in LinePage(R, t, n)
<1> DEFINE u == forgotten(s)
<1>1. s \in Page(R, LastRowOf(t), LastRowOf(t), LineSeen(t), RowAt(At(n)), ColAt(At(n)))
  BY DEF LinePage
<1>2. s \in Screens /\ ColAt(At(n)) \in Nat
  BY LineScreens, PlaceOf
<1>3. u \in Screens /\ Alike(s, u) /\ u.x = s.x /\ u.y = s.y /\ u.main = s.main /\ u.alt = s.alt
  BY <1>2, ForgottenSteady
<1>4. s.x = ColAt(At(n))
  BY <1>1, OnPage DEF Placed1
<1> HIDE DEF u
<1>5. u \in Page(R, LastRowOf(t), LastRowOf(t), LineSeen(t), RowAt(At(n)), ColAt(At(n)))
  BY <1>1, <1>2, <1>3, <1>4, ColumnOnPage
<1> QED BY <1>5 DEF LinePage, u

\* What is said, in the three cases: at all, by readline, and by it on a clean prompt.
LEMMA Spoken ==
    ASSUME TapInv, NEW chunk \in Texts, Says(chunk)
    PROVE  LET f == fit(scr, term)
               d == Fed(f, chunk)
           IN  /\ f \in Screens /\ Steady(scr, f) /\ f.cols = term.cols /\ f.rows = term.rows
               /\ (term = [cols |-> scr.cols, rows |-> scr.rows] => f = scr)
               /\ d \in Screens /\ scr' = forgotten(d) /\ Alike(d, scr')
<1>1. scr \in Screens /\ term \in [cols : Nat \ {0, 1}, rows : Nat \ {0}]
  BY GeometryOf DEF TapInv
<1>2. fit(scr, term) \in Screens
  BY <1>1, FitSteady
<1>3. scr' = forgotten(Fed(fit(scr, term), chunk))
  BY WriteFeeds DEF Says
<1>4. Fed(fit(scr, term), chunk) \in Screens
  BY <1>2, FedScreen
<1>5. Alike(Fed(fit(scr, term), chunk), scr')
  BY <1>3, <1>4, ForgottenSteady
<1> QED BY <1>1, <1>2, <1>3, <1>4, <1>5, FitSteady

\* What readline draws on any screen, and on a clean one.
LEMMA DrawnCalmly ==
    ASSUME TapInv, LineInv, owner = "shell", NEW chunk, Calm(chunk), Says(chunk)
    PROVE  scr'.state = "GROUND"
<1> DEFINE f == fit(scr, term)
           d == Fed(f, chunk)
<1>1. chunk \in Texts
  BY DEF Calm
<1>2. f \in Screens /\ Steady(scr, f) /\ d \in Screens /\ Alike(d, scr')
  BY <1>1, Spoken
<1>3. f \in Grounded
  BY <1>2 DEF Grounded, Steady, LineInv
<1> HIDE DEF f
<1>4. d \in Grounded
  BY <1>3 DEF Calm
<1> HIDE DEF d
<1>5. d.state = "GROUND"
  BY <1>4 DEF Grounded
<1> QED BY <1>2, <1>5, AlikeFields

LEMMA DrawnCleanly ==
    ASSUME TapInv, LineInv, owner = "shell", clean, NEW chunk, Calm(chunk), Says(chunk), term' = term,
           NEW t \in Seq(Plain), NEW n \in 0..Len(t), Fed(scr, chunk) \in LinePage(scr.rows, t, n)
    PROVE  /\ term' = [cols |-> scr'.cols, rows |-> scr'.rows] /\ scr'.rows = scr.rows
           /\ scr' \in LinePage(scr'.rows, t, n)
<1> DEFINE d == Fed(scr, chunk)
<1>1. chunk \in Texts
  BY DEF Calm
<1>2. term = [cols |-> scr.cols, rows |-> scr.rows] /\ scr \in LinePage(scr.rows, typed, point)
  BY DEF LineInv
<1>3. scr' = forgotten(d) /\ d \in Screens /\ Alike(d, scr')
  <2>1. fit(scr, term) = scr
    BY <1>1, <1>2, Spoken
  <2>2. scr' = forgotten(Fed(fit(scr, term), chunk)) /\ Fed(fit(scr, term), chunk) \in Screens
        /\ Alike(Fed(fit(scr, term), chunk), scr')
    BY <1>1, Spoken
  <2> QED BY <2>1, <2>2
<1> HIDE DEF d
<1>4. At(n) \in Nat
  BY PlacesOfLine
<1>5. scr' \in LinePage(scr.rows, t, n)
  BY <1>3, <1>4, ForgottenLine DEF d
<1>6. scr'.rows = scr.rows /\ scr'.cols = Width
  BY <1>5, LineScreens
<1>7. scr.cols = Width
  BY <1>2, LineScreens
<1> QED BY <1>2, <1>5, <1>6, <1>7

\* The rest of the invariant after a key that leaves the terminal to readline.
LEMMA LineStays ==
    ASSUME TapInv, LineInv, owner = "shell", owner' = owner, term' = term, clean' => clean,
           NEW chunk, Calm(chunk), Says(chunk), typed' \in Seq(Plain), point' \in 0..Len(typed'),
           clean' => LastRowOf(typed') < scr.rows
                     /\ Fed(scr, chunk) \in LinePage(scr.rows, typed', point')
    PROVE  LineInv'
<1>1. scr'.state = "GROUND"
  BY DrawnCalmly
<1>2. ASSUME clean'
      PROVE  /\ term' = [cols |-> scr'.cols, rows |-> scr'.rows] /\ LastRowOf(typed') < scr'.rows
             /\ scr' \in LinePage(scr'.rows, typed', point')
  <2>1. clean /\ Fed(scr, chunk) \in LinePage(scr.rows, typed', point') /\ LastRowOf(typed') < scr.rows
    BY <1>2
  <2>2. /\ term' = [cols |-> scr'.cols, rows |-> scr'.rows] /\ scr'.rows = scr.rows
        /\ scr' \in LinePage(scr'.rows, typed', point')
    BY <2>1, DrawnCleanly
  <2> QED BY <2>1, <2>2
<1> QED BY <1>1, <1>2 DEF LineInv, LinePage, LastRowOf, LineSeen

\* The cursor's way back is calm.
LEMMA CalmBack ==
    ASSUME NEW t \in Seq(Plain), NEW n \in 0..Len(t), NEW here \in BOOLEAN PROVE Calm(Back(t, n, here))
<1>1. At(n) \in Nat /\ End(t) \in Nat
  BY PlacesOfLine
<1>2. Calm(Moved(End(t), At(n))) /\ Calm(<<>>)
  BY <1>1, CalmMoved, CalmNone
<1> QED BY <1>2 DEF Back

\* The rows of a line that is on show, and of a shorter one.
LEMMA RowsShown ==
    ASSUME LineInv, owner = "shell", clean, NEW t, Shown(t) PROVE LastRowOf(t) < scr.rows
<1>1. term.rows = scr.rows
  BY DEF LineInv
<1> QED BY <1>1 DEF Shown, LastRowOf, RowAt, Width

\* A shorter line has no more rows.
LEMMA RowsOfLess ==
    ASSUME NEW t \in Seq(Plain), NEW a \in Seq(Plain), Len(a) <= Len(t), NEW R \in Nat, LastRowOf(t) < R
    PROVE  LastRowOf(a) < R
<1>1. End(t) \in Nat /\ LastRowOf(t) \in Nat /\ End(a) \in Nat /\ LastRowOf(a) \in Nat
      /\ Len(PS1) \in Nat /\ Len(t) \in Nat /\ Len(a) \in Nat
  BY LineSeenIs
<1>2. End(a) <= End(t)
  BY <1>1 DEF End
<1>3. RowAt(End(a)) <= RowAt(End(t))
  BY <1>1, <1>2, PlacesRise
<1> QED BY <1>1, <1>3 DEF LastRowOf

\* The invariant at the prompt.
LEMMA LineNow ==
    ASSUME TapInv, LineInv, owner = "shell"
    PROVE  /\ typed \in Seq(Plain) /\ point \in 0..Len(typed) /\ Len(typed) \in Nat
           /\ scr \in Screens /\ scr.rows \in Nat
           /\ clean => LastRowOf(typed) < scr.rows /\ scr \in LinePage(scr.rows, typed, point)
<1>1. typed \in Seq(Plain) /\ point \in 0..Len(typed) /\ Len(typed) \in Nat /\ scr \in Screens
  BY LenProperties DEF LineInv, TapInv
<1>2. scr.rows \in Nat
  BY <1>1, ScreenNumbers
<1> QED BY <1>1, <1>2 DEF LineInv

\* The invariant is kept by each key at the prompt.
LEMMA TypesLine ==
    ASSUME TapInv, LineInv, NEW c \in Keys, Types(c) PROVE LineInv'
<1> DEFINE u == Printed(<<c>> \o Rest(typed, point), At(point))
           v == Back(typed', point + 1, point = Len(typed))
           chunk == u \o v
<1>1. /\ owner = "shell" /\ typed' = InsertAt(typed, point + 1, c) /\ point' = point + 1
      /\ owner' = owner /\ term' = term /\ (clean' => clean /\ Shown(typed'))
  BY DEF Types
<1>2. Says(chunk)
  <2>1. chunk = u \o (IF point = Len(typed) THEN <<>> ELSE Moved(End(typed'), At(point')))
    BY <1>1 DEF Back
  <2> QED BY <2>1 DEF Types, Draws
<1>3. c \in Plain
  BY TapAssumption
<1>4. /\ typed \in Seq(Plain) /\ point \in 0..Len(typed) /\ Len(typed) \in Nat
      /\ scr \in Screens /\ scr.rows \in Nat
      /\ clean => LastRowOf(typed) < scr.rows /\ scr \in LinePage(scr.rows, typed, point)
  BY <1>1, LineNow
<1>5. typed' \in Seq(Plain) /\ Len(typed') = Len(typed) + 1
  BY <1>1, <1>3, <1>4, AddedAt
<1>6. point + 1 \in 0..Len(typed') /\ point' \in 0..Len(typed')
  BY <1>1, <1>4, <1>5
<1>7. Calm(u)
  <2>1. <<c>> \in Seq(Plain)
    BY <1>3
  <2>2. <<c>> \o Rest(typed, point) \in Seq(Plain)
    BY <1>4, <2>1, RestIs, ConcatProperties
  <2> QED BY <2>2, CalmPrinted
<1>8. Calm(v)
  <2> DEFINE here == point = Len(typed)
  <2>1. here \in BOOLEAN
    OBVIOUS
  <2> HIDE DEF here
  <2>2. Calm(Back(typed', point + 1, here))
    BY <1>5, <1>6, <2>1, CalmBack
  <2> QED BY <2>2 DEF here
<1>9. ASSUME clean' PROVE LastRowOf(typed') < scr.rows /\ Fed(scr, chunk) \in LinePage(scr.rows, typed', point')
  <2>1. clean /\ Shown(typed')
    BY <1>1, <1>9
  <2>2. LastRowOf(typed') < scr.rows
    BY <1>1, <2>1, RowsShown
  <2>3. Fed(scr, chunk) \in LinePage(scr.rows, typed', point + 1)
    BY <1>1, <1>3, <1>4, <2>1, <2>2, TypesShown
  <2> QED BY <1>1, <2>2, <2>3
<1> HIDE DEF u, v
<1>10. Calm(chunk)
  BY <1>7, <1>8, CalmBoth
<1> HIDE DEF chunk
<1> QED BY <1>1, <1>2, <1>5, <1>6, <1>9, <1>10, LineStays

LEMMA ErasesLine ==
    ASSUME TapInv, LineInv, Erases PROVE LineInv'
<1> DEFINE u == Moved(At(point), At(point - 1))
           v == Printed(Rest(typed, point), At(point - 1))
           w == Esc("K")
           z == Back(typed', point - 1, point = Len(typed))
           chunk == u \o v \o w \o z
<1>1. /\ owner = "shell" /\ point > 0 /\ typed' = RemoveAt(typed, point) /\ point' = point - 1
      /\ owner' = owner /\ term' = term /\ (clean' => clean)
  BY DEF Erases
<1>2. Says(chunk)
  <2>1. chunk = Moved(At(point), At(point')) \o Printed(Rest(typed, point), At(point'))
              \o Esc("K") \o (IF point = Len(typed) THEN <<>> ELSE Moved(End(typed'), At(point')))
    BY <1>1 DEF Back
  <2> QED BY <2>1 DEF Erases, Draws
<1>4. /\ typed \in Seq(Plain) /\ point \in 0..Len(typed) /\ Len(typed) \in Nat
      /\ scr \in Screens /\ scr.rows \in Nat
      /\ clean => LastRowOf(typed) < scr.rows /\ scr \in LinePage(scr.rows, typed, point)
  BY <1>1, LineNow
<1>3. point \in 1..Len(typed) /\ point - 1 \in 0..Len(typed)
  BY <1>1, <1>4
<1>5. typed' \in Seq(Plain) /\ Len(typed') = Len(typed) - 1
  BY <1>1, <1>3, <1>4, TakenAt
<1>6. point - 1 \in 0..Len(typed') /\ point' \in 0..Len(typed')
  BY <1>1, <1>3, <1>4, <1>5
<1>7. Calm(u) /\ Calm(v) /\ Calm(w)
  <2>1. At(point) \in Nat /\ At(point - 1) \in Nat
    BY <1>3, <1>4, PlacesOfLine
  <2>2. Rest(typed, point) \in Seq(Plain)
    BY <1>4, RestIs
  <2>3. Calm(w)
    BY CalmEsc DEF Finals
  <2> QED BY <2>1, <2>2, <2>3, CalmPrinted, CalmMoved
<1>8. Calm(z)
  <2> DEFINE here == point = Len(typed)
  <2>1. here \in BOOLEAN
    OBVIOUS
  <2> HIDE DEF here
  <2>2. Calm(Back(typed', point - 1, here))
    BY <1>5, <1>6, <2>1, CalmBack
  <2> QED BY <2>2 DEF here
<1>9. ASSUME clean' PROVE LastRowOf(typed') < scr.rows /\ Fed(scr, chunk) \in LinePage(scr.rows, typed', point')
  <2>1. clean /\ LastRowOf(typed) < scr.rows /\ scr \in LinePage(scr.rows, typed, point)
    BY <1>1, <1>4, <1>9
  <2>2. LastRowOf(typed') < scr.rows
    <3>1. Len(typed') <= Len(typed)
      BY <1>4, <1>5
    <3> QED BY <1>4, <1>5, <2>1, <3>1, RowsOfLess
  <2>3. Fed(scr, chunk) \in LinePage(scr.rows, typed', point - 1)
    BY <1>1, <1>3, <1>4, <2>1, ErasesShown
  <2> QED BY <1>1, <2>2, <2>3
<1> HIDE DEF u, v, w, z
<1>10. Calm(chunk)
  <2>1. Calm(u \o v)
    BY <1>7, CalmBoth
  <2>2. Calm((u \o v) \o w)
    BY <1>7, <2>1, CalmBoth
  <2> QED BY <1>8, <2>2, CalmBoth
<1> HIDE DEF chunk
<1> QED BY <1>1, <1>2, <1>5, <1>6, <1>9, <1>10, LineStays

LEMMA GoesLine ==
    ASSUME TapInv, LineInv, NEW n \in {0, Len(typed)}, Goes(n) PROVE LineInv'
<1> DEFINE chunk == Moved(At(point), At(n))
<1>1. /\ owner = "shell" /\ point' = n /\ typed' = typed
      /\ owner' = owner /\ term' = term /\ (clean' => clean) /\ Says(chunk)
  BY DEF Goes, Draws
<1>2. /\ typed \in Seq(Plain) /\ point \in 0..Len(typed) /\ Len(typed) \in Nat
      /\ scr \in Screens /\ scr.rows \in Nat
      /\ clean => LastRowOf(typed) < scr.rows /\ scr \in LinePage(scr.rows, typed, point)
  BY <1>1, LineNow
<1>3. n \in 0..Len(typed)
  BY <1>2
<1>4. Calm(chunk)
  BY <1>2, <1>3, PlacesOfLine, CalmMoved
<1>5. ASSUME clean' PROVE LastRowOf(typed') < scr.rows /\ Fed(scr, chunk) \in LinePage(scr.rows, typed', point')
  <2>1. Fed(scr, chunk) \in LinePage(scr.rows, typed, n)
    BY <1>1, <1>2, <1>3, <1>5, MovedOnLine
  <2> QED BY <1>1, <1>2, <1>5, <2>1
<1> HIDE DEF chunk
<1>6. typed' \in Seq(Plain) /\ point' \in 0..Len(typed')
  BY <1>1, <1>2, <1>3
<1> QED BY <1>1, <1>4, <1>5, <1>6, LineStays

LEMMA KillsLine ==
    ASSUME TapInv, LineInv, Kills PROVE LineInv'
<1> DEFINE d == RowAt(End(typed)) - RowAt(At(0))
           u == Moved(End(typed), At(0))
           v == Esc("K")
           w == Times(Wipe, d)
           z == Moved(At(0) + (d * Width), At(0))
           chunk == u \o v \o w \o z
<1>1. /\ owner = "shell" /\ point = Len(typed) /\ typed' = <<>> /\ point' = 0
      /\ owner' = owner /\ term' = term /\ (clean' => clean)
  BY DEF Kills
<1>2. Says(chunk)
  BY DEF Kills, Draws, Wipe, RowAt, Width
<1>3. /\ typed \in Seq(Plain) /\ point \in 0..Len(typed) /\ Len(typed) \in Nat
      /\ scr \in Screens /\ scr.rows \in Nat
      /\ clean => LastRowOf(typed) < scr.rows /\ scr \in LinePage(scr.rows, typed, point)
  BY <1>1, LineNow
<1>4. /\ At(0) \in Nat /\ End(typed) \in Nat /\ RowAt(At(0)) \in Nat
      /\ RowAt(At(0)) <= LastRowOf(typed) /\ LastRowOf(typed) \in Nat
  <2>1. 0 \in 0..Len(typed)
    BY <1>3
  <2> QED BY <1>3, <2>1, PlacesOfLine
<1>5. d \in Nat
  BY <1>4 DEF LastRowOf
<1>6. <<>> \in Seq(Plain) /\ Len(<<>>) = 0
  OBVIOUS
<1>7. ASSUME clean' PROVE LastRowOf(typed') < scr.rows /\ Fed(scr, chunk) \in LinePage(scr.rows, typed', point')
  <2>1. clean /\ LastRowOf(typed) < scr.rows /\ scr \in LinePage(scr.rows, typed, Len(typed))
    BY <1>1, <1>3, <1>7
  <2>2. LastRowOf(<<>>) < scr.rows
    <3>1. Len(<<>>) <= Len(typed)
      BY <1>3
    <3> QED BY <1>3, <1>6, <2>1, <3>1, RowsOfLess
  <2>3. Fed(scr, chunk) \in LinePage(scr.rows, <<>>, 0)
    BY <1>3, <2>1, KillsShown
  <2> QED BY <1>1, <2>2, <2>3
<1>8. Calm(u) /\ Calm(v) /\ Calm(w) /\ Calm(z)
  <2>1. Calm(u)
    BY <1>4, CalmMoved
  <2>2. Calm(v)
    BY CalmEsc DEF Finals
  <2>3. Calm(Wipe)
    BY <2>2, CalmNewLine, CalmBoth DEF Wipe
  <2>4. Calm(w)
    <3> HIDE DEF d
    <3> QED BY <1>5, <2>3, CalmTimes
  <2>5. Calm(z)
    <3>1. At(0) + (d * Width) \in Nat
      <4> HIDE DEF d
      <4> QED BY <1>4, <1>5, WidthIs
    <3> QED BY <1>4, <3>1, CalmMoved
  <2> QED BY <2>1, <2>2, <2>4, <2>5
<1> HIDE DEF u, v, w, z
<1>10. Calm(chunk)
  <2>1. Calm(u \o v)
    BY <1>8, CalmBoth
  <2>2. Calm((u \o v) \o w)
    BY <1>8, <2>1, CalmBoth
  <2> QED BY <1>8, <2>2, CalmBoth
<1> HIDE DEF chunk
<1>11. typed' \in Seq(Plain) /\ point' \in 0..Len(typed')
  BY <1>1, <1>6
<1> QED BY <1>1, <1>2, <1>7, <1>10, <1>11, LineStays

LEMMA ClearsLine ==
    ASSUME TapInv, LineInv, Clears PROVE LineInv'
<1> DEFINE u == Esc("H")
           v == Esc("J")
           w == Printed(PS1 \o typed, 0)
           z == Moved(End(typed), At(point))
           chunk == u \o v \o w \o z
<1>1. /\ owner = "shell" /\ typed' = typed /\ point' = point
      /\ owner' = owner /\ term' = term /\ (clean' => clean) /\ Says(chunk)
  BY DEF Clears, Draws
<1>3. /\ typed \in Seq(Plain) /\ point \in 0..Len(typed) /\ Len(typed) \in Nat
      /\ scr \in Screens /\ scr.rows \in Nat
      /\ clean => LastRowOf(typed) < scr.rows /\ scr \in LinePage(scr.rows, typed, point)
  BY <1>1, LineNow
<1>7. ASSUME clean' PROVE LastRowOf(typed') < scr.rows /\ Fed(scr, chunk) \in LinePage(scr.rows, typed', point')
  <2>1. clean /\ LastRowOf(typed) < scr.rows /\ scr \in LinePage(scr.rows, typed, point)
    BY <1>1, <1>3, <1>7
  <2>3. Fed(scr, chunk) \in LinePage(scr.rows, typed, point)
    BY <1>3, <2>1, ClearsShown
  <2> QED BY <1>1, <2>1, <2>3
<1>8. Calm(u) /\ Calm(v) /\ Calm(w) /\ Calm(z)
  <2>1. End(typed) \in Nat /\ At(point) \in Nat
    BY <1>3, PlacesOfLine
  <2>2. PS1 \o typed \in Seq(Plain)
    BY <1>3, TapAssumption, ConcatProperties
  <2>3. Calm(u) /\ Calm(v)
    BY CalmEsc DEF Finals
  <2> QED BY <2>1, <2>2, <2>3, CalmMoved, CalmPrinted
<1> HIDE DEF u, v, w, z
<1>10. Calm(chunk)
  <2>1. Calm(u \o v)
    BY <1>8, CalmBoth
  <2>2. Calm((u \o v) \o w)
    BY <1>8, <2>1, CalmBoth
  <2> QED BY <1>8, <2>2, CalmBoth
<1> HIDE DEF chunk
<1>11. typed' \in Seq(Plain) /\ point' \in 0..Len(typed')
  BY <1>1, <1>3
<1> QED BY <1>1, <1>7, <1>10, <1>11, LineStays

\* The invariant holds at first.
LEMMA LineInit == Init => LineInv
<1> SUFFICES ASSUME Init PROVE LineInv
  OBVIOUS
<1>1. scr = makeScreen(First) /\ owner = "boot" /\ typed = <<>>
  BY DEF Init
<1>2. makeScreen(First).unsure = FALSE
  BY DEF makeScreen, reset
<1>3. typed \in Seq(Plain)
  BY <1>1
<1> QED BY <1>1, <1>2, <1>3 DEF LineInv

\* Enter, and what commands write.
LEMMA EntersLine ==
    ASSUME TapInv, LineInv, Enters PROVE LineInv'
<1> DEFINE u == Moved(At(point), End(typed))
           w == Word("type=command")
           f == fit(scr, term)
           chunk == u \o NewLine \o w
<1>1. owner = "shell" /\ owner' = "command" /\ typed' = <<>> /\ Says(chunk)
  BY DEF Enters, Draws
<1>2. typed \in Seq(Plain) /\ point \in 0..Len(typed)
  BY <1>1, LineNow
<1>3. At(point) \in Nat /\ End(typed) \in Nat
  BY <1>2, PlacesOfLine
<1>4. Calm(u)
  BY <1>3, CalmMoved
<1>5. u \in Texts /\ NewLine \in Texts /\ w \in Texts
  <2>1. u \in Texts
    BY <1>4 DEF Calm
  <2> QED BY <2>1, WordsSent
<1> HIDE DEF u
<1>6. chunk \in Texts
  BY <1>5, Concatenated
<1>7. f \in Screens /\ Steady(scr, f) /\ Alike(Fed(f, chunk), scr')
  BY <1>1, <1>6, Spoken
<1>8. f \in Grounded
  BY <1>1, <1>7 DEF Grounded, Steady, LineInv
<1> HIDE DEF f
<1>9. Fed(f, u) \in Grounded
  BY <1>4, <1>8 DEF Calm
<1>10. Fed(Fed(f, u), NewLine).unsure = FALSE
  BY <1>9, CalmNewLine
<1>11. Fed(Fed(f, u), NewLine) \in Screens
  BY <1>5, <1>9, FedScreen DEF Grounded
<1>12. Fed(f, chunk) = Fed(Fed(Fed(f, u), NewLine), w)
  <2>1. Fed(f, chunk) = Fed(Fed(f, u \o NewLine), w)
    <3>1. u \o NewLine \in Texts
      BY <1>5, Concatenated
    <3> QED BY <1>5, <1>7, <3>1, FedBoth
  <2>2. Fed(f, u \o NewLine) = Fed(Fed(f, u), NewLine)
    BY <1>5, <1>7, FedBoth
  <2> QED BY <2>1, <2>2
<1>13. Fed(f, chunk).unsure = FALSE
  <2>1. Kin(Fed(Fed(f, u), NewLine), Fed(Fed(Fed(f, u), NewLine), w))
    BY <1>11, WordsFed
  <2> QED BY <1>10, <1>12, <2>1, KinFields
<1> HIDE DEF chunk
<1>14. scr'.unsure = FALSE
  BY <1>7, <1>13, AlikeFields
<1>15. typed' \in Seq(Plain)
  BY <1>1
<1> QED BY <1>1, <1>14, <1>15 DEF LineInv

\* A command's output: only a CR LF may leave the screen fit for a clean prompt.
LEMMA WritesLine ==
    ASSUME TapInv, LineInv, NEW o \in Outputs, Writes(o) PROVE LineInv'
<1> DEFINE f == fit(scr, term)
<1>1. /\ owner # "shell" /\ Says(o) /\ owner' = owner /\ typed' = typed
      /\ fresh' => o = NewLine /\ scr.state = "GROUND"
  BY DEF Writes
<1>2. o \in Texts
  BY TapAssumption DEF Texts
<1>3. f \in Screens /\ Steady(scr, f) /\ Alike(Fed(f, o), scr')
  BY <1>1, <1>2, Spoken
<1> HIDE DEF f
<1>4. ASSUME fresh' PROVE scr'.unsure = FALSE
  <2>1. f \in Grounded
    BY <1>1, <1>3, <1>4 DEF Grounded, Steady
  <2>2. Fed(f, o).unsure = FALSE
    BY <1>1, <1>4, <2>1, CalmNewLine
  <2> QED BY <1>3, <2>2, AlikeFields
<1> QED BY <1>1, <1>4 DEF LineInv

\* The next prompt.
LEMMA EndsLine ==
    ASSUME TapInv, LineInv, Ends PROVE LineInv'
<1> DEFINE f == fit(scr, term)
           d == Fed(f, Prompted)
<1>1. /\ owner # "shell" /\ owner' = "shell" /\ Says(Prompted) /\ term' = term /\ typed' = typed /\ point' = point
      /\ clean' => fresh /\ Tidy(f) /\ Shown(<<>>)
  BY DEF Ends
<1>2. typed = <<>> /\ typed \in Seq(Plain) /\ point = 0
  BY <1>1 DEF LineInv, TapInv
<1>3. Prompted \in Texts /\ Printed(PS1, 0) \in Texts /\ Word(ShellType) \in Texts
  <2>1. Calm(Printed(PS1, 0))
    <3>1. PS1 \in Seq(Plain)
      BY TapAssumption
    <3> QED BY <3>1, CalmPrinted
  <2> QED BY <2>1, PromptSent, WordsSent DEF Calm
<1>4. /\ f \in Screens /\ Steady(scr, f) /\ f.cols = term.cols /\ f.rows = term.rows
      /\ d \in Screens /\ scr' = forgotten(d) /\ Alike(d, scr')
  BY <1>1, <1>3, Spoken
<1>5. term \in [cols : Nat \ {0, 1}, rows : Nat \ {0}]
  BY GeometryOf DEF TapInv
<1> HIDE DEF f
<1>6. scr'.state = "GROUND"
  <2>1. d = Fed(Fed(f, Word(ShellType)), Printed(PS1, 0))
    BY <1>3, <1>4, FedBoth DEF Prompted
  <2>2. Fed(f, Word(ShellType)) \in Grounded
    BY <1>4, WordsFed
  <2>3. Calm(Printed(PS1, 0))
    <3>1. PS1 \in Seq(Plain)
      BY TapAssumption
    <3> QED BY <3>1, CalmPrinted
  <2>4. d \in Grounded
    BY <2>1, <2>2, <2>3 DEF Calm
  <2> HIDE DEF d
  <2>5. d.state = "GROUND"
    BY <2>4 DEF Grounded
  <2> QED BY <1>4, <2>5, AlikeFields
<1>7. ASSUME clean'
      PROVE  /\ term = [cols |-> scr'.cols, rows |-> scr'.rows] /\ LastRowOf(<<>>) < scr'.rows
             /\ scr' \in LinePage(scr'.rows, <<>>, 0)
  <2>1. fresh /\ Tidy(f) /\ Shown(<<>>)
    BY <1>1, <1>7
  <2>2. f.unsure = FALSE
    BY <1>1, <1>4, <2>1 DEF LineInv, Steady
  <2>3. LastRowOf(<<>>) < f.rows
    BY <1>4, <2>1 DEF Shown, LastRowOf, RowAt, Width
  <2>4. d \in LinePage(f.rows, <<>>, 0)
    BY <1>4, <2>1, <2>2, <2>3, PromptShown
  <2> HIDE DEF d
  <2>5. At(0) \in Nat
    <3>1. 0 \in 0..Len(<<>>) /\ <<>> \in Seq(Plain)
      BY EmptyLine
    <3> QED BY <3>1, PlacesOfLine
  <2>6. scr' \in LinePage(f.rows, <<>>, 0)
    BY <1>4, <2>4, <2>5, ForgottenLine
  <2>7. scr'.rows = f.rows /\ scr'.cols = Width
    BY <2>6, LineScreens
  <2>8. f.cols = Width
    BY <2>1 DEF Tidy, Width
  <2> QED BY <1>4, <1>5, <2>3, <2>6, <2>7, <2>8
<1> HIDE DEF d
<1>8. owner' = "shell" /\ typed' = <<>> /\ point' = 0 /\ term' = term /\ typed' \in Seq(Plain)
  BY <1>1, <1>2
<1> QED BY <1>6, <1>7, <1>8 DEF LineInv

\* The window.
LEMMA FitsLine ==
    ASSUME TapInv, LineInv, Fits PROVE LineInv'
<1> DEFINE f == fit(scr, term)
<1>1. /\ term # [cols |-> scr.cols, rows |-> scr.rows] /\ Says(<<>>)
      /\ UNCHANGED <<term, owner, typed, point, fresh, clean>>
  BY DEF Fits, Draws
<1>2. <<>> \in Texts
  BY EmptyLine
<1>3. f \in Screens /\ Steady(scr, f) /\ Alike(Fed(f, <<>>), scr')
  BY <1>1, <1>2, Spoken
<1> HIDE DEF f
<1>4. Fed(f, <<>>) = f
  BY <1>3, FedNone
<1>5. scr'.state = scr.state /\ scr'.unsure = scr.unsure
  BY <1>3, <1>4, AlikeFields DEF Steady
<1>6. ~(owner = "shell" /\ clean)
  BY <1>1 DEF LineInv
<1> QED BY <1>1, <1>5, <1>6 DEF LineInv

\* The invariant is kept by every step, and so it always holds.
LEMMA LineNext == TapInv /\ LineInv /\ [Next]_vars => LineInv'
<1> SUFFICES ASSUME TapInv, LineInv, [Next]_vars PROVE LineInv'
  OBVIOUS
<1>1. ASSUME NEW c \in Keys, Types(c) PROVE LineInv'
  BY <1>1, TypesLine
<1>2. ASSUME NEW n \in {0, Len(typed)}, Goes(n) PROVE LineInv'
  BY <1>2, GoesLine
<1>3. CASE Erases \/ Kills \/ Clears \/ Enters
  BY <1>3, ErasesLine, KillsLine, ClearsLine, EntersLine
<1>4. ASSUME NEW o \in Outputs, Writes(o) PROVE LineInv'
  BY <1>4, WritesLine
<1>5. CASE Ends \/ Fits
  BY <1>5, EndsLine, FitsLine
<1>6. ASSUME NEW g \in Geometries, Resizes(g) PROVE LineInv'
  <2>1. clean' = FALSE /\ UNCHANGED <<scr, owner, typed, point, fresh>>
    BY <1>6 DEF Resizes
  <2> QED BY <2>1 DEF LineInv
<1>7. CASE UNCHANGED vars
  BY <1>7 DEF vars, LineInv
<1> QED BY <1>1, <1>2, <1>3, <1>4, <1>5, <1>6, <1>7 DEF Next

LEMMA LineAlways == Spec => []LineInv
  BY LineInit, LineNext, TapAlways, PTL DEF Spec

-----------------------------------------------------------------------------
(***************************************************************************)
(* What the tap reads off the line.                                        *)
(***************************************************************************)
\* Some columns of a row; a row of the last ones on; one below the line.
LEMMA RowRuns ==
    ASSUME NEW c, NEW j \in Nat, NEW F, RowShows(c, j, F), NEW x \in Nat, NEW to \in Nat, x <= to, to <= Width
    PROVE  Runs(text(c, x, to), F, (Width * j) + x, (Width * j) + to)
<1>1. PICK n \in Nat : n = to - x
  <2>1. to - x \in Nat
    OBVIOUS
  <2> QED BY <2>1
<1>2. n = Most(0, to - x)
  BY <1>1 DEF Most
<1>3. NoHalf(c) /\ \A k \in 0..(Width - 1) : Look(c, k) = F[(Width * j) + k]
  BY DEF RowShows
<1> DEFINE t == text(c, x, to)
<1>4. t \in Texts /\ Len(t) = n /\ Looks(t, c, x, n)
  BY <1>2, <1>3, TextLooks
<1> HIDE DEF t
<1>5. PICK w \in Nat : w = Width * j
  <2>1. Width * j \in Nat
    BY WidthIs
  <2> QED BY <2>1
<1>6. ASSUME NEW k \in 1..n PROVE t[k] = F[((Width * j) + x) + (k - 1)]
  <2>1. t[k] = Look(c, x + (k - 1))
    BY <1>4 DEF Looks
  <2>2. x + (k - 1) \in 0..(Width - 1)
    BY <1>1, WidthIs
  <2>3. Look(c, x + (k - 1)) = F[(Width * j) + (x + (k - 1))]
    BY <1>3, <2>2
  <2>4. w + (x + (k - 1)) = (w + x) + (k - 1)
    OBVIOUS
  <2> QED BY <1>5, <2>1, <2>3, <2>4
<1>7. ((Width * j) + to) - ((Width * j) + x) = n
  <2>1. (w + to) - (w + x) = n
    BY <1>1
  <2> QED BY <1>5, <2>1
<1>8. Runs(t, F, (Width * j) + x, (Width * j) + to)
  BY <1>4, <1>6, <1>7 DEF Runs
<1> QED BY <1>8 DEF t

\* The last row of the line, or one below it, to its end.
LEMMA RowCovers ==
    ASSUME NEW n \in Nat, NEW F \in Sheets(n), NEW c, NEW j \in Nat, n <= j, RowShows(c, j, F),
           NEW x \in Nat, x < Width
    PROVE  Covers(text(c, x, Len(c)), F, (Width * j) + x)
<1>0. NoHalf(c) /\ Len(c) <= Width /\ \A k \in 0..(Width - 1) : Look(c, k) = F[(Width * j) + k]
  BY DEF RowShows
<1>1. Len(c) \in Nat /\ Width \in Nat
  BY <1>0, LenProperties, WidthIs DEF NoHalf
<1>2. PICK m \in Nat : m = Most(0, Len(c) - x)
  <2>1. Most(0, Len(c) - x) \in Nat
    BY <1>1 DEF Most
  <2> QED BY <2>1
<1> DEFINE t == text(c, x, Len(c))
<1>4. t \in Texts /\ Len(t) = m /\ Looks(t, c, x, m)
  <2>1. PICK l \in Nat : l = Len(c)
    BY <1>1
  <2>2. m = Most(0, l - x)
    BY <1>2, <2>1
  <2>3. text(c, x, l) \in Texts /\ Len(text(c, x, l)) = m /\ Looks(text(c, x, l), c, x, m)
    BY <1>0, <2>2, TextLooks
  <2> QED BY <2>1, <2>3
<1> HIDE DEF t
<1>5. PICK w \in Nat : w = Width * j
  <2>1. Width * j \in Nat
    BY <1>1
  <2> QED BY <2>1
<1>6. ASSUME NEW k \in Nat \ {0} PROVE Seen(t, k) = F[((Width * j) + x) + (k - 1)]
  <2>1. PICK i \in Nat : i = x + (k - 1)
    <3>1. x + (k - 1) \in Nat
      OBVIOUS
    <3> QED BY <3>1
  <2>2. (w + x) + (k - 1) = w + i
    BY <2>1
  <2>3. CASE i < Width
    <3>1. Look(c, i) = F[w + i]
      <4>1. i \in 0..(Width - 1)
        BY <1>1, <2>3
      <4> QED BY <1>0, <1>5, <4>1
    <3>2. Seen(t, k) = Look(c, i)
      <4>1. CASE k \in 1..m
        BY <1>4, <2>1, <4>1 DEF Looks, Seen
      <4>2. CASE k \notin 1..m
        <5>1. i \notin 0..(Len(c) - 1)
          BY <1>1, <1>2, <2>1, <4>2 DEF Most
        <5>2. Cell(c, i) = Undefined
          BY <5>1 DEF Cell
        <5> QED BY <1>4, <4>2, <5>2 DEF Look, Seen, Space
      <4> QED BY <4>1, <4>2
    <3> QED BY <1>5, <2>2, <3>1, <3>2
  <2>4. CASE ~(i < Width)
    <3>1. k \notin 1..m
      BY <1>0, <1>1, <1>2, <2>1, <2>4 DEF Most
    <3>2. Seen(t, k) = Space
      BY <1>4, <3>1 DEF Seen
    <3>3. F[w + i] = Space
      <4>1. RowAt(w + i) > n
        <5>1. (Width * (j + 1)) + 0 \in Nat /\ RowAt((Width * (j + 1)) + 0) = j + 1
          <6>1. j + 1 \in Nat /\ 0 < Width
            BY WidthIs
          <6> QED BY <6>1, OffsetOf
        <5>2. (Width * (j + 1)) + 0 = w + Width
          BY <1>1, <1>5
        <5>3. w + Width \in Nat /\ RowAt(w + Width) = j + 1 /\ w + i \in Nat /\ w + Width <= w + i
          BY <1>1, <2>4, <5>1, <5>2
        <5>4. RowAt(w + Width) <= RowAt(w + i)
          BY <5>3, PlacesRise
        <5>5. RowAt(w + i) \in Nat
          BY <5>3, PlaceOf
        <5> QED BY <5>3, <5>4, <5>5
      <4>2. w + i \in Nat
        OBVIOUS
      <4> QED BY <4>1, <4>2 DEF Sheets, Space
    <3> QED BY <1>5, <2>2, <3>2, <3>3
  <2> QED BY <1>1, <2>3, <2>4
<1>7. Covers(t, F, (Width * j) + x)
  BY <1>4, <1>6 DEF Covers
<1> QED BY <1>7 DEF t

\* A row below the line is blank.
LEMMA RowBlank ==
    ASSUME NEW n \in Nat, NEW F \in Sheets(n), NEW c, NEW j \in Nat, n < j, RowShows(c, j, F)
    PROVE  blank(whole(c)) /\ whole(c) \in Texts
<1>1. (Width * j) + 0 \in Nat /\ 0 < Width
  BY WidthIs
<1>2. Covers(text(c, 0, Len(c)), F, (Width * j) + 0)
  BY <1>1, RowCovers
<1> DEFINE t == text(c, 0, Len(c))
<1> HIDE DEF t
<1>3. ASSUME NEW k \in 1..Len(t) PROVE t[k] = Space
  <2>0. t \in Seq(Chars)
    BY <1>2 DEF Covers, Texts, t
  <2>1. k \in Nat \ {0}
    BY <2>0, LenProperties
  <2>2. t[k] = F[((Width * j) + 0) + (k - 1)]
    BY <1>2, <2>1 DEF Covers, Seen, t
  <2>3. RowAt((Width * j) + 0) = j
    BY <1>1, OffsetOf
  <2>4. PICK w \in Nat : w = (Width * j) + 0
    BY <1>1
  <2>5. w + (k - 1) \in Nat /\ w <= w + (k - 1)
    BY <2>1
  <2>6. RowAt(w) <= RowAt(w + (k - 1)) /\ RowAt(w + (k - 1)) \in Nat
    <3>1. PICK v \in Nat : v = w + (k - 1)
      BY <2>5
    <3>2. RowAt(w) <= RowAt(v)
      BY <2>5, <3>1, PlacesRise
    <3>3. RowAt(v) \in Nat
      BY PlaceOf
    <3> QED BY <3>1, <3>2, <3>3
  <2>7. RowAt(w + (k - 1)) > n
    BY <2>3, <2>4, <2>6
  <2> QED BY <2>2, <2>4, <2>5, <2>7 DEF Sheets, Space
<1>4. whole(c) = t /\ t \in Texts
  BY <1>2 DEF whole, t, Covers
<1> QED BY <1>3, <1>4 DEF blank, Space

\* The buffer's rows from p on hold what is seen: the first starts a line, those down to
\* the n-th go on with it, and all before the last are full.
RowOf(s, p, j) == buf(s).lines[p + j + 1]

Lays(s, p, n, F) ==
    /\ p \in Nat /\ p + n < Len(buf(s).lines)
    /\ ~RowOf(s, p, 0).wrapped
    /\ \A j \in 1..n : RowOf(s, p, j).wrapped /\ Len(RowOf(s, p, j - 1).cells) = Width
    /\ \A j \in Nat : p + j < Len(buf(s).lines) => RowShows(RowOf(s, p, j).cells, j, F)

\* The rows of a page in the buffer.
LEMMA PageLays ==
    ASSUME NEW s \in Screens, NEW n \in Nat, NEW F, NEW r \in Nat, NEW x, NEW y \in Nat, Placed1(s, y, n, n, F, r, x),
           NEW p \in Nat, CursorRow(s) = p + r
    PROVE  Lays(s, p, n, F)
<1>1. /\ buf(s).base \in Nat /\ s.rows \in Nat /\ s.y = y + r
      /\ Len(buf(s).lines) = buf(s).base + s.rows /\ CursorRow(s) = buf(s).base + s.y
  <2>1. buf(s).base \in Nat /\ s.rows \in Nat /\ Len(buf(s).lines) = buf(s).base + s.rows
    BY CursorRowIs
  <2> QED BY <2>1 DEF Placed1, CursorRow
<1>2. PICK b \in Nat : b = buf(s).base
  BY <1>1
<1>3. p = b + y
  BY <1>1, <1>2
<1>4. Paged(s, y, n, n, F)
  BY DEF Placed1
<1> DEFINE l == Len(buf(s).lines)
<1>10. l = b + s.rows /\ l \in Nat /\ s.rows \in Nat
  BY <1>1, <1>2
<1> HIDE DEF l
<1>5. p + n < l
  <2>1. y + n < s.rows
    BY <1>4 DEF Paged
  <2> QED BY <1>3, <1>10, <2>1
<1>6. ASSUME NEW j \in Nat PROVE RowOf(s, p, j) = line(s, y + j)
  <2>1. p + j + 1 = b + (y + j) + 1
    BY <1>3
  <2> QED BY <1>2, <2>1 DEF RowOf, line
<1>7. ~RowOf(s, p, 0).wrapped
  <2>1. RowOf(s, p, 0) = line(s, y + 0) /\ y + 0 = y
    BY <1>6
  <2> QED BY <1>4, <2>1 DEF Paged
<1>8. ASSUME NEW j \in 1..n PROVE RowOf(s, p, j).wrapped /\ Len(RowOf(s, p, j - 1).cells) = Width
  <2>1. j \in Nat /\ j - 1 \in Nat
    OBVIOUS
  <2>2. RowOf(s, p, j) = line(s, y + j) /\ RowOf(s, p, j - 1) = line(s, y + (j - 1))
    BY <1>6, <2>1
  <2> QED BY <1>4, <2>2 DEF Paged
<1>9. ASSUME NEW j \in Nat, p + j < l PROVE RowShows(RowOf(s, p, j).cells, j, F)
  <2>1. y + j < s.rows
    BY <1>3, <1>9, <1>10
  <2> QED BY <1>4, <1>6, <2>1 DEF Paged
<1> QED BY <1>5, <1>7, <1>8, <1>9 DEF Lays, l

\* The tap finds the line's first row, and no row of it is below the last one it reads.
LEMMA LaidLine ==
    ASSUME NEW s \in Screens, NEW n \in Nat, NEW F, NEW r \in 0..n, NEW p, Lays(s, p, n, F), CursorRow(s) = p + r
    PROVE  /\ lineStart(s) = p /\ lineEnd(s) \in Nat
           /\ p + n <= lineEnd(s) /\ lineEnd(s) < Len(buf(s).lines)
<1> DEFINE L == buf(s).lines
           a == lineStart(s)
           e == lineEnd(s)
<1>1. p \in Nat /\ p + n < Len(L) /\ r \in Nat /\ Len(L) \in Nat
  BY CursorRowIs DEF Lays
<1>2. a \in Starts(s) /\ (\A i \in Starts(s) : i <= a) /\ e \in EndsOf(s)
  BY LineBounds
<1>3. a \in 0..(p + r) /\ (a = 0 \/ ~L[a + 1].wrapped)
  BY <1>2 DEF Starts
<1>4. e \in (p + r)..(Len(L) - 1) /\ (e = Len(L) - 1 \/ ~L[e + 2].wrapped)
  BY <1>2 DEF EndsOf
<1> HIDE DEF a, e
<1>5. ASSUME NEW j \in 1..n PROVE L[p + j + 1].wrapped
  BY <1>5 DEF Lays, RowOf
<1>6. p <= a
  <2>1. ~L[p + 0 + 1].wrapped /\ p + 0 + 1 = p + 1
    BY <1>1 DEF Lays, RowOf
  <2>2. p \in Starts(s)
    BY <1>1, <2>1 DEF Starts
  <2> QED BY <1>2, <2>2
<1> HIDE DEF L
<1>7. a = p
  <2> SUFFICES ASSUME a # p PROVE FALSE
    OBVIOUS
  <2>1. PICK j \in 1..n : j = a - p
    <3>1. a - p \in 1..n
      BY <1>1, <1>3, <1>6
    <3> QED BY <3>1
  <2>2. p + j + 1 = a + 1 /\ a # 0
    BY <1>1, <1>3, <2>1
  <2>3. L[a + 1].wrapped
    BY <1>5, <2>2
  <2> QED BY <1>3, <2>2, <2>3
<1>8. p + n <= e
  <2> SUFFICES ASSUME ~(p + n <= e) PROVE FALSE
    OBVIOUS
  <2>1. PICK j \in 1..n : j = e + 1 - p
    <3>1. e + 1 - p \in 1..n
      BY <1>1, <1>4
    <3> QED BY <3>1
  <2>2. p + j + 1 = e + 2 /\ e # Len(L) - 1
    BY <1>1, <1>4, <2>1
  <2>3. L[e + 2].wrapped
    BY <1>5, <2>2
  <2> QED BY <1>4, <2>2, <2>3
<1>9. e \in Nat /\ e < Len(L)
  BY <1>1, <1>4
<1> QED BY <1>7, <1>8, <1>9 DEF a, e, L

\* What is read above the cursor's row.
LEMMA RowsAbove ==
    ASSUME NEW s \in Screens, NEW n \in Nat, NEW F, NEW r \in 0..n, NEW p, Lays(s, p, n, F)
    PROVE  Runs(joined(s, p, p + r - 1), F, 0, Width * r)
<1>1. p \in Nat /\ r \in Nat /\ Width \in Nat /\ p + r <= Len(buf(s).lines)
  BY WidthIs, CursorRowIs DEF Lays
<1> DEFINE q == RowTexts(s, p, r)
<1>2. joined(s, p, p + r - 1) = FlattenSeq(q)
  <2>1. Most(0, (p + r - 1) - p + 1) = r
    BY <1>1 DEF Most
  <2> QED BY <2>1 DEF joined, RowTexts
<1>3. q \in Seq(Seq(Chars)) /\ Len(q) = r
  BY <1>1, RowTextsAre DEF Texts
<1>4. ASSUME NEW k \in Nat, k < r PROVE Runs(q[k + 1], F, Width * k, Width * (k + 1))
  <2>1. k + 1 \in 1..r /\ k + 1 \in 1..n /\ (k + 1) - 1 = k
    BY <1>4, <1>1
  <2>2. q[k + 1] = whole(buf(s).lines[p + (k + 1)].cells)
    BY <2>1 DEF RowTexts
  <2>3. PICK c : c = RowOf(s, p, k).cells
    OBVIOUS
  <2>4. q[k + 1] = whole(c)
    <3>1. p + k + 1 = p + (k + 1)
      BY <1>1
    <3> QED BY <2>2, <2>3, <3>1 DEF RowOf
  <2>5. Len(c) = Width
    BY <2>1, <2>3 DEF Lays
  <2>6. RowShows(c, k, F)
    <3>1. p + k < Len(buf(s).lines)
      BY <1>1, <1>4, CursorRowIs
    <3> QED BY <2>3, <3>1 DEF Lays
  <2>7. Runs(text(c, 0, Width), F, (Width * k) + 0, (Width * k) + Width)
    <3>1. 0 \in Nat /\ Width \in Nat /\ 0 <= Width /\ Width <= Width
      BY <1>1
    <3> QED BY <2>6, <3>1, RowRuns
  <2>8. (Width * k) + 0 = Width * k /\ (Width * k) + Width = Width * (k + 1)
    BY <1>1
  <2> QED BY <2>4, <2>5, <2>7, <2>8 DEF whole
<1> HIDE DEF q
<1>5. PICK h \in [0..Len(q) -> Seq(Chars)] : h[0] = <<>> /\ \A k \in 1..Len(q) : h[k] = h[k - 1] \o q[k]
  BY <1>3, JoinedSteps
<1>6. FlattenSeq(q) = h[r]
  BY <1>1, <1>3, <1>5, JoinedIs
<1> DEFINE T == {k \in Nat : k <= r => Runs(h[k], F, 0, Width * k)}
<1>7. 0 \in T
  <2>1. Runs(<<>>, F, 0, 0)
    BY EmptyLine DEF Runs
  <2>2. Width * 0 = 0
    BY <1>1
  <2> QED BY <1>5, <2>1, <2>2
<1>8. ASSUME NEW k \in Nat, k \in T PROVE k + 1 \in T
  <2> SUFFICES ASSUME k + 1 <= r PROVE Runs(h[k + 1], F, 0, Width * (k + 1))
    OBVIOUS
  <2>1. Runs(h[k], F, 0, Width * k)
    BY <1>1, <1>8
  <2>2. h[k + 1] = h[k] \o q[k + 1]
    <3>1. k + 1 \in 1..Len(q) /\ (k + 1) - 1 = k
      BY <1>1, <1>3
    <3> QED BY <1>5, <3>1
  <2>3. Runs(q[k + 1], F, Width * k, Width * (k + 1))
    BY <1>1, <1>4
  <2>4. Width * k \in Nat /\ Width * (k + 1) \in Nat
    BY <1>1
  <2> HIDE DEF T
  <2>5. Runs(h[k] \o q[k + 1], F, 0, Width * (k + 1))
    <3>1. PICK u : u = h[k]
      OBVIOUS
    <3>2. PICK v : v = q[k + 1]
      OBVIOUS
    <3>3. PICK b \in Nat : b = Width * k
      BY <2>4
    <3>4. PICK d \in Nat : d = Width * (k + 1)
      BY <2>4
    <3>5. Runs(u, F, 0, b) /\ Runs(v, F, b, d)
      BY <2>1, <2>3, <3>1, <3>2, <3>3, <3>4
    <3>6. Runs(u \o v, F, 0, d)
      BY <3>5, RunsBoth
    <3> QED BY <3>1, <3>2, <3>4, <3>6
  <2> QED BY <2>2, <2>5
<1> HIDE DEF T
<1>9. r \in T
  BY <1>1, <1>7, <1>8, AllNumbers
<1> USE DEF T
<1> QED BY <1>1, <1>2, <1>6, <1>9

\* What is read from the offset o down to the end of row j.
Reads(t, F, o, j, n) == IF j < n THEN Runs(t, F, o, Width * (j + 1)) ELSE Covers(t, F, o)

\* One row more is read.
LEMMA ReadsOn ==
    ASSUME NEW n \in Nat, NEW F \in Sheets(n), NEW o \in Nat, NEW j \in Nat, NEW t, Reads(t, F, o, j, n),
           NEW c, RowShows(c, j + 1, F), j + 1 < n => Len(c) = Width
    PROVE  Reads(t \o whole(c), F, o, j + 1, n)
<1>1. Width \in Nat /\ j + 1 \in Nat /\ 0 \in Nat /\ 0 < Width /\ 0 <= Width /\ Width <= Width
  BY WidthIs
<1>2. PICK i \in Nat : i = j + 1
  BY <1>1
<1>3. PICK b \in Nat : b = Width * i
  <2>1. Width * i \in Nat
    BY <1>1
  <2> QED BY <2>1
<1>4. RowShows(c, i, F) /\ (i < n => Len(c) = Width) /\ (j < n => Runs(t, F, o, b)) /\ (~(j < n) => Covers(t, F, o))
  BY <1>2, <1>3 DEF Reads
<1>5. CASE i < n
  <2>1. Runs(text(c, 0, Width), F, (Width * i) + 0, (Width * i) + Width)
    BY <1>1, <1>4, RowRuns
  <2>2. PICK d \in Nat : d = Width * (i + 1)
    <3>1. Width * (i + 1) \in Nat
      BY <1>1
    <3> QED BY <3>1
  <2>3. (Width * i) + 0 = b /\ (Width * i) + Width = d
    <3>1. Width * (i + 1) = (Width * i) + Width
      BY <1>1
    <3> QED BY <1>3, <2>2, <3>1
  <2>4. Runs(whole(c), F, b, d)
    BY <1>4, <1>5, <2>1, <2>3 DEF whole
  <2>5. Runs(t, F, o, b)
    BY <1>2, <1>4, <1>5
  <2>6. Runs(t \o whole(c), F, o, d)
    BY <2>4, <2>5, RunsBoth
  <2> QED BY <1>2, <1>5, <2>2, <2>6 DEF Reads
<1>6. CASE i = n
  <2>1. Covers(text(c, 0, Len(c)), F, (Width * i) + 0)
    <3>1. n <= i
      BY <1>6
    <3> QED BY <1>1, <1>4, <3>1, RowCovers
  <2>2. (Width * i) + 0 = b
    BY <1>3
  <2>3. Covers(whole(c), F, b)
    BY <2>1, <2>2 DEF whole
  <2>4. Runs(t, F, o, b)
    BY <1>2, <1>4, <1>6
  <2>5. Covers(t \o whole(c), F, o)
    BY <2>3, <2>4, RunsThenCovers
  <2> QED BY <1>2, <1>6, <2>5 DEF Reads
<1>7. CASE i > n
  <2>1. blank(whole(c)) /\ whole(c) \in Texts
    BY <1>4, <1>7, RowBlank
  <2>2. Covers(t, F, o)
    BY <1>2, <1>4, <1>7
  <2>3. Covers(t \o whole(c), F, o)
    BY <2>1, <2>2, CoversBlank
  <2> QED BY <1>2, <1>7, <2>3 DEF Reads
<1> QED BY <1>5, <1>6, <1>7

\* Three texts, one after the other.
LEMMA ThreeTexts ==
    ASSUME NEW a \in Seq(Chars), NEW u \in Seq(Chars), NEW v \in Seq(Chars) PROVE a \o (u \o v) = (a \o u) \o v
<1>1. (a \o u) \o v = a \o (u \o v)
  BY ConcatAssociative, Z3
<1> QED BY <1>1

\* What is read from the cursor on.
LEMMA RowsOn ==
    ASSUME NEW s \in Screens, NEW n \in Nat, NEW F \in Sheets(n), NEW r \in 0..n, NEW p, Lays(s, p, n, F),
           NEW o \in Nat, NEW a \in Texts, Reads(a, F, o, r, n),
           NEW e \in Nat, p + n <= e, e < Len(buf(s).lines)
    PROVE  Covers(a \o joined(s, p + r + 1, e), F, o)
<1>1. p \in Nat /\ r \in Nat /\ Len(buf(s).lines) \in Nat
  BY CursorRowIs DEF Lays
<1>2. PICK m \in Nat : m = e - (p + r)
  <2>1. e - (p + r) \in Nat
    BY <1>1
  <2> QED BY <2>1
<1>3. PICK i \in Nat : i = p + r + 1
  BY <1>1
<1> DEFINE q == RowTexts(s, i, m)
<1>4. joined(s, i, e) = FlattenSeq(q)
  <2>1. Most(0, e - i + 1) = m
    BY <1>1, <1>2, <1>3 DEF Most
  <2> QED BY <2>1 DEF joined, RowTexts
<1>5. q \in Seq(Seq(Chars)) /\ Len(q) = m
  <2>1. i + m <= Len(buf(s).lines)
    BY <1>1, <1>2, <1>3
  <2> QED BY <2>1, RowTextsAre DEF Texts
<1>6. ASSUME NEW k \in Nat, k + 1 <= m, NEW t, Reads(t, F, o, r + k, n)
      PROVE  Reads(t \o q[k + 1], F, o, r + (k + 1), n)
  <2>1. PICK j \in Nat : j = r + k
    BY <1>1
  <2>2. PICK c : c = RowOf(s, p, j + 1).cells
    OBVIOUS
  <2>3. q[k + 1] = whole(c)
    <3>1. k + 1 \in 1..m
      BY <1>6
    <3>2. q[k + 1] = whole(buf(s).lines[i + (k + 1)].cells)
      BY <3>1 DEF RowTexts
    <3>3. i + (k + 1) = p + (j + 1) + 1
      BY <1>1, <1>3, <2>1
    <3> QED BY <2>2, <3>2, <3>3 DEF RowOf
  <2>4. RowShows(c, j + 1, F)
    <3>1. p + (j + 1) < Len(buf(s).lines) /\ j + 1 \in Nat
      BY <1>1, <1>2, <1>6, <2>1
    <3> QED BY <2>2, <3>1 DEF Lays
  <2>5. ASSUME j + 1 < n PROVE Len(c) = Width
    <3>1. (j + 1) + 1 \in 1..n /\ ((j + 1) + 1) - 1 = j + 1
      BY <2>5
    <3> QED BY <2>2, <3>1 DEF Lays
  <2> HIDE DEF q
  <2>6. Reads(t \o whole(c), F, o, j + 1, n)
    BY <1>6, <2>1, <2>4, <2>5, ReadsOn
  <2>7. r + (k + 1) = j + 1
    BY <1>1, <2>1
  <2> QED BY <2>3, <2>6, <2>7
<1> HIDE DEF q
<1>7. PICK h \in [0..Len(q) -> Seq(Chars)] : h[0] = <<>> /\ \A k \in 1..Len(q) : h[k] = h[k - 1] \o q[k]
  BY <1>5, JoinedSteps
<1>8. FlattenSeq(q) = h[m]
  BY <1>5, <1>7, JoinedIs
<1> DEFINE T == {k \in Nat : k <= m => Reads(a \o h[k], F, o, r + k, n)}
<1>9. 0 \in T
  <2>1. a \in Seq(Chars)
    BY DEF Texts
  <2>2. a \o h[0] = a
    BY <1>7, <2>1, ConcatEmptySeq
  <2>3. r + 0 = r
    BY <1>1
  <2> QED BY <2>2, <2>3
<1>10. ASSUME NEW k \in Nat, k \in T PROVE k + 1 \in T
  <2> SUFFICES ASSUME k + 1 <= m PROVE Reads(a \o h[k + 1], F, o, r + (k + 1), n)
    OBVIOUS
  <2>1. Reads(a \o h[k], F, o, r + k, n)
    BY <1>10
  <2>2. h[k + 1] = h[k] \o q[k + 1] /\ h[k] \in Seq(Chars) /\ q[k + 1] \in Seq(Chars)
    <3>1. k + 1 \in 1..Len(q) /\ (k + 1) - 1 = k /\ k \in 0..Len(q)
      BY <1>5
    <3>2. q[k + 1] \in Seq(Chars)
      BY <1>5, <3>1, ElementOfSeq
    <3>3. h[k] \in Seq(Chars)
      BY <1>7, <3>1
    <3> QED BY <1>7, <3>1, <3>2, <3>3
  <2> HIDE DEF T
  <2>3. PICK u \in Seq(Chars) : u = h[k]
    BY <2>2
  <2>4. PICK v \in Seq(Chars) : v = q[k + 1]
    BY <2>2
  <2>5. a \in Seq(Chars)
    BY DEF Texts
  <2>6. a \o (u \o v) = (a \o u) \o v
    BY <2>3, <2>4, <2>5, ThreeTexts
  <2>7. Reads((a \o u) \o v, F, o, r + (k + 1), n)
    BY <1>6, <2>1, <2>3, <2>4
  <2> QED BY <2>2, <2>3, <2>4, <2>6, <2>7
<1> HIDE DEF T
<1>11. m \in T
  BY <1>9, <1>10, AllNumbers
<1> USE DEF T
<1>12. Reads(a \o h[m], F, o, r + m, n)
  BY <1>11
<1>13. ~(r + m < n)
  BY <1>1, <1>2
<1> QED BY <1>3, <1>4, <1>8, <1>12, <1>13 DEF Reads

\* Nothing is read below the line.
LEMMA RowsUnder ==
    ASSUME NEW s \in Screens, NEW n \in Nat, NEW F \in Sheets(n), NEW p, Lays(s, p, n, F),
           NEW e \in Nat, p + n <= e, e < Len(buf(s).lines)
    PROVE  blank(joined(s, e + 1, Len(buf(s).lines) - 1))
<1>1. p \in Nat /\ Len(buf(s).lines) \in Nat
  BY CursorRowIs DEF Lays
<1>2. PICK l \in Nat : l = Len(buf(s).lines)
  BY <1>1
<1>3. PICK m \in Nat : m = l - (e + 1)
  <2>1. l - (e + 1) \in Nat
    BY <1>2
  <2> QED BY <2>1
<1>4. PICK i \in Nat : i = e + 1
  OBVIOUS
<1> DEFINE q == RowTexts(s, i, m)
<1>5. joined(s, i, l - 1) = FlattenSeq(q)
  <2>1. Most(0, (l - 1) - i + 1) = m
    BY <1>3, <1>4 DEF Most
  <2> QED BY <2>1 DEF joined, RowTexts
<1>6. q \in Seq(Texts) /\ Len(q) = m
  <2>0. i + m = l
    BY <1>3, <1>4
  <2>1. i + m <= Len(buf(s).lines)
    BY <1>2, <2>0
  <2> QED BY <2>1, RowTextsAre
<1>7. ASSUME NEW k \in 1..m PROVE blank(q[k])
  <2>1. PICK j \in Nat : j = i + k - 1 - p
    <3>1. i + k - 1 - p \in Nat
      BY <1>1, <1>4
    <3> QED BY <3>1
  <2>2. PICK c : c = RowOf(s, p, j).cells
    OBVIOUS
  <2>3. q[k] = whole(c)
    <3>1. q[k] = whole(buf(s).lines[i + k].cells)
      BY DEF RowTexts
    <3>2. i + k = p + j + 1
      BY <1>1, <2>1
    <3> QED BY <2>2, <3>1, <3>2 DEF RowOf
  <2>4. n < j /\ p + j < l
    BY <1>1, <1>2, <1>3, <1>4, <2>1
  <2>5. RowShows(c, j, F)
    BY <1>2, <2>2, <2>4 DEF Lays
  <2>6. blank(whole(c))
    BY <2>4, <2>5, RowBlank
  <2> QED BY <2>3, <2>6
<1> HIDE DEF q
<1>8. blank(FlattenSeq(q))
  BY <1>6, <1>7, FlatBlank DEF AllBlank
<1> QED BY <1>2, <1>4, <1>5, <1>8

\* Two texts of the same stretch are one.
LEMMA RunsSame ==
    ASSUME NEW t, NEW u, NEW F, NEW a, NEW b, Runs(t, F, a, b), Runs(u, F, a, b) PROVE t = u
<1>1. t \in Seq(Chars) /\ u \in Seq(Chars) /\ Len(t) = Len(u) /\ \A k \in 1..Len(t) : t[k] = u[k]
  BY DEF Runs, Texts
<1> QED BY <1>1, SeqEqual

\* The parts of readline's line, as they are seen.
LEMMA PartsSeen ==
    ASSUME NEW t \in Seq(Plain), NEW n \in 0..Len(t)
    PROVE  /\ Runs(PS1 \o SubSeq(t, 1, n), LineSeen(t), 0, At(n))
           /\ Covers(Rest(t, n), LineSeen(t), At(n))
<1> DEFINE F == LineSeen(t)
           u == SubSeq(t, 1, n)
           v == Rest(t, n)
<1>1. Len(PS1) \in Nat /\ Len(t) \in Nat /\ n \in Nat /\ PS1 \in Texts /\ n <= Len(t)
  BY LineSeenIs, PromptSent
<1>2. t \in Seq(Chars)
  BY PlainChars
<1>3. u \in Seq(Chars) /\ Len(u) = n /\ \A k \in 1..n : u[k] = t[k]
  <2>1. \A k \in 1..n : t[k] \in Chars
    BY <1>1, <1>2, ElementOfSeq
  <2>2. /\ SubSeq(t, 1, n) \in Seq(Chars)
        /\ Len(SubSeq(t, 1, n)) = IF 1 <= n THEN n - 1 + 1 ELSE 0
        /\ \A k \in 1..(n - 1 + 1) : SubSeq(t, 1, n)[k] = t[1 + k - 1]
    BY <1>1, <2>1, SubSeqProperties
  <2> QED BY <1>1, <2>2
<1>4. v \in Seq(Plain) /\ Len(v) = Len(t) - n /\ \A k \in 1..(Len(t) - n) : v[k] = t[n + k]
  BY RestIs
<1>5. \A o \in Nat : F[o] = IF o < Len(PS1) THEN PS1[o + 1]
                            ELSE IF o < End(t) THEN t[o - Len(PS1) + 1] ELSE Space
  BY SeenAt
<1> HIDE DEF F, u, v
<1>6. End(t) = Len(PS1) + Len(t) /\ At(n) = Len(PS1) + n
  BY DEF End, At
<1>7. Runs(PS1, F, 0, Len(PS1))
  <2>1. ASSUME NEW k \in 1..Len(PS1) PROVE PS1[k] = F[0 + (k - 1)]
    <3>1. k - 1 \in Nat /\ k - 1 < Len(PS1) /\ (k - 1) + 1 = k /\ 0 + (k - 1) = k - 1
      BY <1>1
    <3> QED BY <1>5, <3>1
  <2> QED BY <1>1, <2>1 DEF Runs
<1>8. Runs(u, F, Len(PS1), At(n))
  <2>1. ASSUME NEW k \in 1..n PROVE u[k] = F[Len(PS1) + (k - 1)]
    <3>1. PICK o \in Nat : o = Len(PS1) + (k - 1)
      <4>1. Len(PS1) + (k - 1) \in Nat
        BY <1>1
      <4> QED BY <4>1
    <3>2. ~(o < Len(PS1)) /\ o < End(t) /\ o - Len(PS1) + 1 = k
      BY <1>1, <1>6, <3>1
    <3>3. F[o] = t[k]
      BY <1>5, <3>2
    <3> QED BY <1>3, <3>1, <3>3
  <2>2. At(n) - Len(PS1) = n
    BY <1>1, <1>6
  <2> QED BY <1>3, <2>1, <2>2 DEF Runs, Texts
<1>9. Runs(PS1 \o u, F, 0, At(n))
  <2>1. At(n) \in Nat /\ 0 \in Nat
    BY <1>1, <1>6
  <2>2. PICK l \in Nat : l = Len(PS1)
    BY <1>1
  <2>3. Runs(PS1, F, 0, l) /\ Runs(u, F, l, At(n))
    BY <1>7, <1>8, <2>2
  <2> QED BY <2>1, <2>3, RunsBoth
<1>10. Covers(v, F, At(n))
  <2>1. ASSUME NEW k \in Nat \ {0} PROVE Seen(v, k) = F[At(n) + (k - 1)]
    <3>1. PICK o \in Nat : o = At(n) + (k - 1)
      <4>1. At(n) + (k - 1) \in Nat
        BY <1>1, <1>6
      <4> QED BY <4>1
    <3>2. ~(o < Len(PS1)) /\ (o < End(t) <=> k <= Len(t) - n) /\ o - Len(PS1) + 1 = n + k
      BY <1>1, <1>6, <3>1
    <3>3. F[o] = IF k <= Len(t) - n THEN t[n + k] ELSE Space
      BY <1>5, <3>2
    <3>4. Seen(v, k) = IF k <= Len(t) - n THEN t[n + k] ELSE Space
      <4>1. k \in 1..(Len(t) - n) <=> k <= Len(t) - n
        BY <1>1
      <4> QED BY <1>4, <4>1 DEF Seen
    <3> QED BY <3>1, <3>3, <3>4
  <2>2. v \in Texts
    BY <1>4, PlainChars DEF Texts
  <2> QED BY <2>1, <2>2 DEF Covers
<1> QED BY <1>9, <1>10 DEF F, u, v

\* What the tap says of the line at the cursor.
LEMMA LineRead ==
    ASSUME NEW R, NEW t \in Seq(Plain), NEW n \in 0..Len(t), NEW s \in LinePage(R, t, n)
    PROVE  /\ cursorLine(s).before = PS1 \o SubSeq(t, 1, n)
           /\ Covers(cursorLine(s).after, LineSeen(t), At(n))
           /\ ~cursorLine(s).below /\ cursorLine(s).sure
<1> DEFINE F == LineSeen(t)
           m == LastRowOf(t)
           r == RowAt(At(n))
           x == ColAt(At(n))
           p == CursorRow(s) - r
           e == lineEnd(s)
           L == buf(s).lines
           c == cellsAt(s)
<1>1. F \in Sheets(m) /\ m \in Nat /\ Len(PS1) \in Nat /\ At(n) \in Nat /\ At(n) <= End(t) /\ End(t) \in Nat
  BY LineSeenIs, PlacesOfLine
<1>2. r \in Nat /\ x \in Nat /\ x < Width /\ At(n) = (Width * r) + x /\ Width \in Nat
  BY <1>1, PlaceOf, WidthIs
<1>3. r <= m
  BY <1>1, PlacesRise DEF LastRowOf
<1>4. s \in Screens /\ Ready(s)
  BY LineScreens
<1>5. PICK y \in Nat : Placed1(s, y, m, m, F, r, x)
  BY DEF LinePage, Page
<1>6. s.x = x /\ s.y = y + r
  BY <1>5 DEF Placed1
<1> HIDE DEF F, m, r, x
<1>7. CursorRow(s) = p + r /\ p \in Nat /\ Len(L) \in Nat /\ Len(L) = buf(s).base + s.rows
      /\ CursorRow(s) = buf(s).base + s.y /\ CursorRow(s) < Len(L)
      /\ buf(s).base \in Nat /\ s.rows \in Nat /\ s.y \in Nat
  <2>1. buf(s).base \in Nat /\ s.rows \in Nat /\ s.y \in Nat /\ Len(L) \in Nat /\ Len(L) = buf(s).base + s.rows
        /\ CursorRow(s) < Len(L)
    BY <1>4, CursorRowIs
  <2>2. CursorRow(s) = buf(s).base + s.y
    BY DEF CursorRow
  <2> QED BY <1>2, <1>6, <2>1, <2>2
<1> HIDE DEF p, L
<1>8. Lays(s, p, m, F)
  BY <1>1, <1>2, <1>4, <1>5, <1>7, PageLays
<1>9. lineStart(s) = p /\ e \in Nat /\ p + m <= e /\ e < Len(L)
  <2>1. r \in 0..m
    BY <1>1, <1>2, <1>3
  <2> QED BY <1>1, <1>4, <1>7, <1>8, <2>1, LaidLine DEF L
<1> HIDE DEF e
<1>10. RowShows(c, r, F) /\ c = RowOf(s, p, r).cells
  <2>1. c = RowOf(s, p, r).cells
    <3>1. buf(s).base + s.y + 1 = p + r + 1
      BY <1>7
    <3> QED BY <3>1 DEF cellsAt, line, RowOf
  <2>2. p + r < Len(L)
    BY <1>7
  <2> QED BY <1>2, <1>8, <2>1, <2>2 DEF Lays, L
<1> HIDE DEF c
<1>11. r < m => Len(c) = Width
  <2> SUFFICES ASSUME r < m PROVE Len(c) = Width
    OBVIOUS
  <2>1. r + 1 \in 1..m /\ (r + 1) - 1 = r
    BY <1>1, <1>2
  <2> QED BY <1>8, <1>10, <2>1 DEF Lays
<1>12. cursorLine(s).before = PS1 \o SubSeq(t, 1, n)
  <2>1. cursorLine(s).before = joined(s, p, p + r - 1) \o text(c, 0, x)
    <3>0. /\ buf(s).base + s.y = p + r /\ p \in Nat /\ r \in Nat
          /\ buf(s).base \in Nat /\ s.y \in Nat
      BY <1>2, <1>7
    <3>1. (buf(s).base + s.y) - 1 = p + r - 1
      BY ONLY <3>0
    <3> QED BY <1>6, <1>9, <3>1 DEF cursorLine, c
  <2>2. Runs(joined(s, p, p + r - 1), F, 0, Width * r)
    <3>1. r \in 0..m
      BY <1>1, <1>2, <1>3
    <3> QED BY <1>1, <1>4, <1>8, <3>1, RowsAbove
  <2>3. Runs(text(c, 0, x), F, (Width * r) + 0, (Width * r) + x)
    <3>1. 0 \in Nat /\ 0 <= x /\ x <= Width
      BY <1>2
    <3> QED BY <1>2, <1>10, <3>1, RowRuns
  <2>4. PICK w \in Nat : w = Width * r
    <3>1. Width * r \in Nat
      BY <1>2
    <3> QED BY <3>1
  <2>5. Runs(joined(s, p, p + r - 1), F, 0, w) /\ Runs(text(c, 0, x), F, w, At(n))
    <3>1. w + 0 = w
      OBVIOUS
    <3> QED BY <1>2, <2>2, <2>3, <2>4, <3>1
  <2>6. PICK u : u = joined(s, p, p + r - 1)
    OBVIOUS
  <2>7. PICK v : v = text(c, 0, x)
    OBVIOUS
  <2>8. Runs(u, F, 0, w) /\ Runs(v, F, w, At(n))
    BY <2>5, <2>6, <2>7
  <2>9. 0 \in Nat
    OBVIOUS
  <2>10. Runs(u \o v, F, 0, At(n))
    BY <1>1, <2>8, <2>9, RunsBoth
  <2>11. Runs(PS1 \o SubSeq(t, 1, n), F, 0, At(n))
    BY PartsSeen DEF F
  <2>12. u \o v = PS1 \o SubSeq(t, 1, n)
    BY <2>10, <2>11, RunsSame
  <2> QED BY <2>1, <2>6, <2>7, <2>12
<1>13. Covers(cursorLine(s).after, F, At(n))
  <2>1. cursorLine(s).after = text(c, x, Len(c)) \o joined(s, p + r + 1, e)
    BY <1>6, <1>7 DEF cursorLine, CursorRow, c, e
  <2>2. Reads(text(c, x, Len(c)), F, At(n), r, m)
    <3>1. CASE r < m
      <4>1. Runs(text(c, x, Width), F, (Width * r) + x, (Width * r) + Width)
        <5>1. x <= Width /\ Width <= Width
          BY <1>2
        <5> QED BY <1>2, <1>10, <5>1, RowRuns
      <4>2. (Width * r) + Width = Width * (r + 1)
        BY <1>2
      <4> QED BY <1>2, <1>11, <3>1, <4>1, <4>2 DEF Reads
    <3>2. CASE ~(r < m)
      <4>1. m <= r
        BY <1>1, <1>2, <3>2
      <4>2. Covers(text(c, x, Len(c)), F, (Width * r) + x)
        BY <1>1, <1>2, <1>10, <4>1, RowCovers
      <4> QED BY <1>2, <3>2, <4>2 DEF Reads
    <3> QED BY <3>1, <3>2
  <2>3. text(c, x, Len(c)) \in Texts
    BY <2>2, <1>1, <1>2 DEF Reads, Runs, Covers
  <2>4. r \in 0..m
    BY <1>1, <1>2, <1>3
  <2>5. PICK a \in Texts : a = text(c, x, Len(c))
    BY <2>3
  <2>6. Reads(a, F, At(n), r, m) /\ e < Len(buf(s).lines)
    BY <1>9, <2>2, <2>5 DEF L
  <2>7. Covers(a \o joined(s, p + r + 1, e), F, At(n))
    BY <1>1, <1>4, <1>8, <1>9, <2>4, <2>6, RowsOn
  <2> QED BY <2>1, <2>5, <2>7
<1>14. ~cursorLine(s).below
  <2>1. cursorLine(s).below = ~blank(joined(s, e + 1, buf(s).base + s.rows - 1))
    BY DEF cursorLine, e
  <2>2. blank(joined(s, e + 1, Len(L) - 1))
    BY <1>1, <1>4, <1>8, <1>9, RowsUnder DEF L
  <2>3. Len(L) - 1 = buf(s).base + s.rows - 1
    <3>1. Len(L) = buf(s).base + s.rows /\ buf(s).base \in Nat /\ s.rows \in Nat
      BY <1>7
    <3> QED BY ONLY <3>1
  <2> QED BY <2>1, <2>2, <2>3
<1>15. cursorLine(s).sure
  <2>1. cursorLine(s).sure = (onMain(s) /\ ~s.unsure /\ ~buf(s).lines[p + 1].wrapped)
    BY <1>9 DEF cursorLine
  <2>2. ~buf(s).lines[p + 1].wrapped
    <3>1. p + 0 + 1 = p + 1
      BY <1>7
    <3> QED BY <1>8, <3>1 DEF Lays, RowOf
  <2>3. onMain(s) /\ ~s.unsure
    BY <1>4 DEF Ready
  <2> QED BY <2>1, <2>2, <2>3
<1> QED BY <1>12, <1>13, <1>14, <1>15 DEF F

-----------------------------------------------------------------------------
\* "At a prompt, the prompt and what is typed" (lastLine in web/serialtap.js): at a prompt
\* that began on a tidy screen and was not resized since, the logical line at the cursor is
\* the prompt and readline's line, split where readline has its cursor, and the tap vouches
\* for it, for every tty, prompt, line and sequence of keys, however often the line wrapped
\* and the screen scrolled.
THEOREM LineIsWhatIsTyped == Spec => []LineIsTyped
<1>1. TapInv /\ LineInv => LineIsTyped
  <2> SUFFICES ASSUME TapInv, LineInv, owner = "shell", clean
               PROVE  /\ cursorLine(scr).sure
                      /\ cursorLine(scr).before = PS1 \o SubSeq(typed, 1, point)
                      /\ Trimmed(cursorLine(scr).after) = Trimmed(Rest(typed, point))
    BY DEF LineIsTyped
  <2>1. typed \in Seq(Plain) /\ point \in 0..Len(typed) /\ scr \in LinePage(scr.rows, typed, point)
    BY LineNow
  <2>2. /\ cursorLine(scr).before = PS1 \o SubSeq(typed, 1, point)
        /\ Covers(cursorLine(scr).after, LineSeen(typed), At(point)) /\ cursorLine(scr).sure
    BY <2>1, LineRead
  <2>3. Covers(Rest(typed, point), LineSeen(typed), At(point)) /\ At(point) \in Nat
    BY <2>1, PartsSeen, PlacesOfLine
  <2> QED BY <2>2, <2>3, CoversSame
<1> QED BY <1>1, TapAlways, LineAlways, PTL

\* Such a prompt with nothing typed is seen as an idle one (atPrompt in web/serialtap.js),
\* whatever the commands before it wrote, for every prompt of the shape it looks for.
THEOREM PromptIsSeen == Spec => []PromptSeen
<1>1. TapInv /\ LineInv => PromptSeen
  <2> SUFFICES ASSUME TapInv, LineInv, owner = "shell", clean, typed = <<>>
               PROVE  atPrompt(scr)
    BY DEF PromptSeen
  <2>1. typed \in Seq(Plain) /\ point \in 0..Len(typed) /\ scr \in LinePage(scr.rows, typed, point)
    BY LineNow
  <2>2. point = 0 /\ point \in Nat
    BY <2>1
  <2> DEFINE c == cursorLine(scr)
  <2>3. /\ c.before = PS1 \o SubSeq(typed, 1, point)
        /\ Covers(c.after, LineSeen(typed), At(point)) /\ c.sure /\ ~c.below
    BY <2>1, LineRead
  <2>4. Covers(Rest(typed, point), LineSeen(typed), At(point)) /\ At(point) \in Nat
    BY <2>1, PartsSeen, PlacesOfLine
  <2> HIDE DEF c
  <2>5. promptShaped(c.before)
    <3>0. SubSeq(typed, 1, point) = <<>>
      <4>1. 1 \in Int /\ point \in Int /\ point < 1
        BY <2>2
      <4> QED BY <4>1, SubSeqEmpty
    <3>1. SubSeq(typed, 1, point) = <<>> /\ PS1 \in Seq(Plain) /\ promptShaped(PS1)
      BY <3>0, TapAssumption
    <3>2. PS1 \o <<>> = PS1
      BY <3>1, ConcatEmptySeq
    <3> QED BY <2>3, <3>1, <3>2
  <2>6. blank(c.after)
    <3>1. Rest(typed, point) = <<>>
      <4>0. Len(typed) = 0
        OBVIOUS
      <4>1. Len(Rest(typed, point)) = 0 /\ Rest(typed, point) \in Seq(Plain)
        <5>1. Len(Rest(typed, point)) = Len(typed) - point /\ Rest(typed, point) \in Seq(Plain)
          BY <2>1, RestIs
        <5> QED BY <2>2, <4>0, <5>1
      <4> QED BY <4>1, EmptySeq
    <3>2. ASSUME NEW k \in 1..Len(c.after) PROVE c.after[k] = " "
      <4>1. Len(c.after) \in Nat /\ k \in Nat \ {0}
        BY <2>3, LenProperties DEF Covers, Texts
      <4>2. Seen(<<>>, k) = Seen(c.after, k)
        BY <2>3, <2>4, <3>1, <4>1 DEF Covers
      <4>3. Seen(<<>>, k) = Space
        BY <4>1 DEF Seen
      <4> QED BY <4>2, <4>3 DEF Seen, Space
    <3> QED BY <3>2 DEF blank
  <2>7. scr.context # "command"
    <3>1. Ready(scr)
      BY <2>1, LineScreens
    <3> QED BY <3>1 DEF Ready
  <2> QED BY <2>3, <2>5, <2>6, <2>7 DEF atPrompt, c
<1> QED BY <1>1, TapAlways, LineAlways, PTL
=============================================================================
