------------------------------ MODULE TapProofs ------------------------------
(***************************************************************************)
(* Proofs about the model of the screen and the tap that reads it, for     *)
(* every chunk of output, whatever sequences it holds, complete or not,    *)
(* every shape of the terminal and every depth of the scrollback.          *)
(***************************************************************************)
EXTENDS Tap, SequenceTheorems, NaturalsInduction, WellFoundedInduction, TLAPS

(***************************************************************************)
(* Induction over the natural numbers, and what is defined step by step    *)
(* along a sequence.                                                       *)
(***************************************************************************)
\* A set with 0 in it, and with every number the next, has them all.
LEMMA AllNumbers ==
    ASSUME NEW S, 0 \in S, \A n \in Nat : n \in S => n + 1 \in S
    PROVE  Nat \subseteq S
<1> DEFINE R == OpToRel(<, Nat)
           T == Nat \ S
<1> SUFFICES ASSUME T # {} PROVE FALSE
  OBVIOUS
<1>1. PICK x \in T : \A y \in T : ~(<<y, x>> \in R)
  BY WFMin, NatLessThanWellFounded
<1>2. x \in Nat /\ x # 0
  OBVIOUS
<1>3. x - 1 \in Nat /\ <<x - 1, x>> \in R
  BY <1>2 DEF OpToRel
<1>4. x - 1 \in S /\ (x - 1) + 1 = x
  <2>1. x - 1 \notin T
    BY <1>1, <1>3
  <2>2. x - 1 \in Nat /\ (x - 1) + 1 = x
    BY <1>2
  <2> QED BY <2>1, <2>2
<1>5. x \in S
  BY <1>3, <1>4
<1> QED BY <1>5

\* What every step keeps holds to the end.
LEMMA StepsStay ==
    ASSUME NEW S, NEW n \in Nat, NEW h, h[0] \in S,
           \A k \in 1..n : h[k - 1] \in S => h[k] \in S
    PROVE  \A k \in 0..n : h[k] \in S
<1> DEFINE T == {m \in Nat : m <= n => h[m] \in S}
<1>1. 0 \in T
  OBVIOUS
<1>2. ASSUME NEW m \in Nat, m \in T PROVE m + 1 \in T
  <2>1. CASE m + 1 <= n
    <3>1. m + 1 \in 1..n /\ (m + 1) - 1 = m /\ h[m] \in S
      BY <1>2, <2>1
    <3>2. h[m + 1] \in S
      BY <3>1
    <3> QED BY <3>2
  <2>2. CASE ~(m + 1 <= n)
    BY <2>2
  <2> QED BY <2>1, <2>2
<1> HIDE DEF T
<1>3. Nat \subseteq T
  BY <1>1, <1>2, AllNumbers
<1> QED BY <1>3 DEF T

\* A function that is defined step by step exists.
LEMMA StepsExist ==
    ASSUME NEW S, NEW a \in S, NEW n \in Nat, NEW F \in [1..n -> [S -> S]]
    PROVE  \E f \in [0..n -> S] : f[0] = a /\ \A k \in 1..n : f[k] = F[k][f[k - 1]]
<1> DEFINE G(m) == \E f \in [0..m -> S] : f[0] = a /\ \A k \in 1..m : f[k] = F[k][f[k - 1]]
           T == {m \in Nat : m <= n => G(m)}
<1>1. G(0)
  <2> DEFINE f == [k \in 0..0 |-> a]
  <2>1. f \in [0..0 -> S] /\ f[0] = a
    OBVIOUS
  <2>2. \A k \in 1..0 : f[k] = F[k][f[k - 1]]
    OBVIOUS
  <2> QED BY <2>1, <2>2
<1>2. ASSUME NEW m \in Nat, m < n, G(m) PROVE G(m + 1)
  <2>1. PICK f \in [0..m -> S] : f[0] = a /\ \A k \in 1..m : f[k] = F[k][f[k - 1]]
    BY <1>2
  <2> DEFINE g == [k \in 0..(m + 1) |-> IF k = m + 1 THEN F[m + 1][f[m]] ELSE f[k]]
  <2>2. F[m + 1][f[m]] \in S
    BY <1>2
  <2>3. g \in [0..(m + 1) -> S] /\ g[0] = a
    BY <2>1, <2>2
  <2>4. ASSUME NEW k \in 1..(m + 1) PROVE g[k] = F[k][g[k - 1]]
    <3>1. g[k - 1] = f[k - 1]
      OBVIOUS
    <3>2. CASE k = m + 1
      BY <3>1, <3>2
    <3>3. CASE k # m + 1
      BY <2>1, <3>1, <3>3
    <3> QED BY <3>2, <3>3
  <2> QED BY <2>3, <2>4
<1> HIDE DEF G
<1>3. Nat \subseteq T
  <2>1. 0 \in T
    BY <1>1
  <2>2. \A m \in Nat : m \in T => m + 1 \in T
    BY <1>2
  <2> HIDE DEF T
  <2> QED BY <2>1, <2>2, AllNumbers
<1>4. G(n)
  BY <1>3
<1> QED BY <1>4 DEF G

LEMMA FunctionIsSeq ==
    ASSUME NEW S, NEW n \in Nat, NEW f \in [1..n -> S] PROVE f \in Seq(S) /\ Len(f) = n
  BY SeqDef
-----------------------------------------------------------------------------
(***************************************************************************)
(* Rows.                                                                   *)
(***************************************************************************)
Glyphs == Chars \cup {Undefined, Half}

\* The cells of a row: no right half without its left one.
Cells == {c \in Seq(Glyphs) :
             \A i \in 1..Len(c) : c[i] = Half => i > 1 /\ c[i - 1] = WideChar}

Row == [cells : Cells, wrapped : BOOLEAN]

LEMMA NoCells == <<>> \in Cells /\ newRow \in Row
  BY EmptySeq DEF Cells, Row, newRow

\* Erasing leaves no half behind, at either edge or within; it makes none.
LEMMA ErasedCells ==
    ASSUME NEW c \in Cells, NEW from \in Nat, NEW to \in Nat, from <= to \/ to = Len(c)
    PROVE  LET e == erase(c, from, to) IN
           /\ e \in Cells /\ Len(e) <= Len(c)
           /\ to < Len(c) => Len(e) = Len(c)
           /\ \A i \in from..to : Cell(e, i) # Half
           /\ \A i \in Nat : Cell(e, i) = Half => Cell(c, i) = Half
<1> DEFINE N == IF to >= Len(c) THEN Least(Len(c), from) ELSE Len(c)
           gone(i) == \/ i \in from..(to - 1)
                      \/ i = from - 1 /\ Cell(c, from) = Half
                      \/ i = to /\ Cell(c, to) = Half
           e == [k \in 1..N |-> IF gone(k - 1) THEN Undefined ELSE c[k]]
<1>1. erase(c, from, to) = e
  BY DEF erase
<1>2. c \in Seq(Glyphs) /\ Len(c) \in Nat /\ (\A k \in 1..Len(c) : c[k] \in Glyphs)
      /\ \A i \in 1..Len(c) : c[i] = Half => i > 1 /\ c[i - 1] = WideChar
  BY ElementOfSeq, LenProperties DEF Cells
<1>3. N \in Nat /\ N <= Len(c) /\ (to < Len(c) => N = Len(c)) /\ (to >= Len(c) => N <= from)
  BY <1>2 DEF Least
<1> HIDE DEF N, gone
<1>4. e \in [1..N -> Glyphs]
  <2>1. ASSUME NEW k \in 1..N PROVE (IF gone(k - 1) THEN Undefined ELSE c[k]) \in Glyphs
    <3>1. c[k] \in Glyphs
      BY <1>2, <1>3
    <3> QED BY <3>1 DEF Glyphs
  <2> QED BY <2>1
<1>5. e \in Seq(Glyphs) /\ Len(e) = N
  <2> HIDE DEF e
  <2> QED BY <1>3, <1>4, FunctionIsSeq
<1>6. \A i \in 0..(Len(c) - 1) : Cell(c, i) = c[i + 1]
  BY <1>2 DEF Cell
<1>7. \A i \in 0..(N - 1) : Cell(e, i) = e[i + 1]
  BY <1>3, <1>5 DEF Cell
<1>8. \A k \in 1..N : e[k] = IF gone(k - 1) THEN Undefined ELSE c[k]
  OBVIOUS
<1> HIDE DEF e
<1> USE DEF gone
<1>9. \A k \in 1..N : e[k] = Half => ~gone(k - 1) /\ c[k] = Half
  BY <1>8 DEF Undefined, Half
<1>10. ASSUME NEW k \in 1..N, e[k] = Half PROVE k > 1 /\ e[k - 1] = WideChar
  <2>1. ~gone(k - 1) /\ c[k] = Half /\ k > 1 /\ c[k - 1] = WideChar
    BY <1>2, <1>3, <1>9, <1>10
  <2>2. Cell(c, k - 1) = Half /\ Cell(c, k - 2) = WideChar
    BY <1>2, <1>3, <1>6, <2>1
  <2>3. ~gone(k - 2)
    BY <1>2, <1>3, <2>1, <2>2 DEF Half, WideChar
  <2> QED BY <1>3, <1>8, <2>1, <2>3
<1>11. e \in Cells
  BY <1>5, <1>10 DEF Cells
<1>12. ASSUME NEW i \in Nat, Cell(e, i) = Half
       PROVE  i \in 0..(N - 1) /\ ~gone(i) /\ Cell(c, i) = Half
  <2>1. i \in 0..(N - 1)
    BY <1>5, <1>12 DEF Cell, Undefined, Half
  <2>2. e[i + 1] = Half /\ i + 1 \in 1..N /\ (i + 1) - 1 = i
    BY <1>3, <1>7, <1>12, <2>1
  <2> QED BY <1>3, <1>6, <1>9, <2>1, <2>2
<1>13. ASSUME NEW i \in from..to, Cell(e, i) = Half PROVE FALSE
  <2>1. i \in 0..(N - 1) /\ ~gone(i) /\ Cell(c, i) = Half
    BY <1>12, <1>13
  <2> QED BY <1>3, <2>1
<1> QED BY <1>1, <1>3, <1>5, <1>11, <1>12, <1>13

\* A cell is written over, with half of a wide character only beside the other, and
\* never the left one of a right half that stays.
LEMMA PutCells ==
    ASSUME NEW c \in Cells, NEW i \in Nat, NEW ch \in Glyphs, Cell(c, i + 1) # Half,
           ch = Half => i > 0 /\ Cell(c, i - 1) = WideChar
    PROVE  /\ Put(c, i, ch) \in Cells
           /\ \A j \in Nat : Cell(Put(c, i, ch), j) = IF j = i THEN ch ELSE Cell(c, j)
<1> DEFINE N == Most(Len(c), i + 1)
           p == [k \in 1..N |-> IF k = i + 1 THEN ch ELSE Cell(c, k - 1)]
<1>1. Put(c, i, ch) = p
  BY DEF Put
<1>2. c \in Seq(Glyphs) /\ Len(c) \in Nat /\ (\A k \in 1..Len(c) : c[k] \in Glyphs)
      /\ \A k \in 1..Len(c) : c[k] = Half => k > 1 /\ c[k - 1] = WideChar
  BY ElementOfSeq, LenProperties DEF Cells
<1>3. N \in Nat /\ N >= Len(c) /\ N >= i + 1
  BY <1>2 DEF Most
<1> HIDE DEF N
<1>4. ASSUME NEW j \in Nat PROVE Cell(c, j) \in Glyphs /\ (j >= Len(c) => Cell(c, j) = Undefined)
  BY <1>2 DEF Cell, Glyphs
<1>5. p \in [1..N -> Glyphs]
  BY <1>3, <1>4
<1>6. \A k \in 1..N : p[k] = IF k = i + 1 THEN ch ELSE Cell(c, k - 1)
  OBVIOUS
<1> HIDE DEF p
<1>7. p \in Seq(Glyphs) /\ Len(p) = N
  BY <1>3, <1>5, FunctionIsSeq
<1>8. ASSUME NEW j \in Nat PROVE Cell(p, j) = IF j = i THEN ch ELSE Cell(c, j)
  <2>1. CASE j < N
    <3>1. Cell(p, j) = p[j + 1] /\ j + 1 \in 1..N /\ (j + 1) - 1 = j
      BY <1>3, <1>7, <2>1 DEF Cell
    <3> QED BY <1>6, <3>1
  <2>2. CASE ~(j < N)
    <3>1. Cell(p, j) = Undefined
      BY <1>3, <1>7, <2>2 DEF Cell
    <3>2. j # i /\ j >= Len(c)
      BY <1>2, <1>3, <2>2
    <3> QED BY <1>4, <3>1, <3>2
  <2> QED BY <2>1, <2>2
<1>9. ASSUME NEW k \in 1..N, p[k] = Half PROVE k > 1 /\ p[k - 1] = WideChar
  <2>1. CASE k = i + 1
    <3>1. i > 0 /\ Cell(c, i - 1) = WideChar
      BY <1>6, <1>9, <2>1
    <3>2. k - 1 \in 1..N /\ k - 1 # i + 1 /\ (k - 1) - 1 = i - 1
      BY <1>3, <2>1, <3>1
    <3> QED BY <1>6, <2>1, <3>1, <3>2
  <2>2. CASE k # i + 1
    <3>1. Cell(c, k - 1) = Half
      BY <1>6, <1>9, <2>2
    <3>2. k <= Len(c) /\ c[k] = Half
      BY <1>2, <1>4, <3>1 DEF Cell, Undefined, Half
    <3>3. k > 1 /\ c[k - 1] = WideChar
      BY <1>2, <3>2
    <3>4. k - 1 \in 1..N /\ k - 1 # i + 1 /\ Cell(c, (k - 1) - 1) = c[k - 1]
      BY <1>2, <1>3, <3>1, <3>2, <3>3 DEF Cell
    <3> QED BY <1>6, <3>3, <3>4
  <2> QED BY <2>1, <2>2
<1> QED BY <1>1, <1>7, <1>8, <1>9 DEF Cells

LEMMA OverwrittenCells ==
    ASSUME NEW c \in Cells, NEW i \in Nat, NEW ch \in Chars, NEW w \in {1, 2},
           w = 2 => ch = WideChar
    PROVE  overwritten(c, i, ch, w) \in Cells
<1> DEFINE e == erase(c, i, i + w)
           p == Put(e, i, ch)
<1>1. e \in Cells /\ \A j \in i..(i + w) : Cell(e, j) # Half
  BY ErasedCells
<1>2. ch \in Glyphs /\ ch # Half
  BY ScreenAssumption DEF Glyphs, Half
<1>3. Cell(e, i + 1) # Half
  BY <1>1
<1> HIDE DEF e
<1>4. p \in Cells /\ \A j \in Nat : Cell(p, j) = IF j = i THEN ch ELSE Cell(e, j)
  BY <1>1, <1>2, <1>3, PutCells
<1> HIDE DEF p
<1>5. CASE w = 1
  BY <1>4, <1>5 DEF overwritten, e, p
<1>6. CASE w = 2
  <2>1. Cell(p, i) = WideChar /\ Cell(p, i + 2) # Half
    BY <1>1, <1>4, <1>6
  <2>2. (i + 1) + 1 = i + 2 /\ (i + 1) - 1 = i /\ i + 1 \in Nat /\ i + 1 > 0 /\ Half \in Glyphs
    BY DEF Glyphs
  <2>3. Put(p, i + 1, Half) \in Cells
    BY <1>4, <2>1, <2>2, PutCells
  <2> QED BY <1>6, <2>3 DEF overwritten, e, p
<1> QED BY <1>5, <1>6

\* Rows are cut and joined where no wide character is cut in two.
LEMMA CutCells ==
    ASSUME NEW c \in Cells, NEW m \in Nat \ {0}, NEW n \in Nat, n <= Len(c),
           Cell(c, m - 1) # Half
    PROVE  SubSeq(c, m, n) \in Cells
<1>1. c \in Seq(Glyphs) /\ Len(c) \in Nat /\ (\A k \in 1..Len(c) : c[k] \in Glyphs)
      /\ \A k \in 1..Len(c) : c[k] = Half => k > 1 /\ c[k - 1] = WideChar
  BY ElementOfSeq, LenProperties DEF Cells
<1> DEFINE s == SubSeq(c, m, n)
<1>2. /\ s \in Seq(Glyphs) /\ Len(s) = (IF m <= n THEN n - m + 1 ELSE 0)
      /\ \A i \in 1..(n - m + 1) : s[i] = c[m + i - 1]
  BY <1>1, SubSeqProperties
<1> HIDE DEF s
<1>3. m <= n => c[m] # Half
  BY <1>1 DEF Cell
<1>4. ASSUME NEW k \in 1..Len(s) PROVE s[k] = c[m + k - 1] /\ m <= n /\ m + k - 1 \in 1..Len(c)
  BY <1>1, <1>2
<1>5. ASSUME NEW k \in 1..Len(s), s[k] = Half PROVE k > 1 /\ s[k - 1] = WideChar
  <2>1. c[m + k - 1] = Half /\ m + k - 1 \in 1..Len(c) /\ k # 1
    BY <1>3, <1>4, <1>5
  <2>2. c[(m + k - 1) - 1] = WideChar
    BY <1>1, <2>1
  <2>3. k - 1 \in 1..Len(s) /\ m + (k - 1) - 1 = (m + k - 1) - 1
    BY <1>2, <2>1
  <2> QED BY <1>4, <2>1, <2>2, <2>3
<1> QED BY <1>2, <1>5 DEF Cells, s

LEMMA JoinedCells ==
    ASSUME NEW a \in Cells, NEW b \in Cells PROVE a \o b \in Cells
<1>1. /\ a \in Seq(Glyphs) /\ Len(a) \in Nat
      /\ \A k \in 1..Len(a) : a[k] = Half => k > 1 /\ a[k - 1] = WideChar
      /\ b \in Seq(Glyphs) /\ Len(b) \in Nat
      /\ \A k \in 1..Len(b) : b[k] = Half => k > 1 /\ b[k - 1] = WideChar
  BY LenProperties DEF Cells
<1> DEFINE s == a \o b
<1>2. /\ s \in Seq(Glyphs) /\ Len(s) = Len(a) + Len(b)
      /\ \A i \in 1..(Len(a) + Len(b)) : s[i] = IF i <= Len(a) THEN a[i] ELSE b[i - Len(a)]
  BY <1>1, ConcatProperties
<1> HIDE DEF s
<1>3. ASSUME NEW k \in 1..Len(s), s[k] = Half PROVE k > 1 /\ s[k - 1] = WideChar
  <2>1. CASE k <= Len(a)
    <3>1. k > 1 /\ a[k - 1] = WideChar
      BY <1>1, <1>2, <1>3, <2>1
    <3>2. k - 1 \in 1..(Len(a) + Len(b)) /\ k - 1 <= Len(a)
      BY <1>1, <2>1, <3>1
    <3> QED BY <1>2, <3>1, <3>2
  <2>2. CASE ~(k <= Len(a))
    <3>1. k - Len(a) \in 1..Len(b) /\ b[k - Len(a)] = Half
      BY <1>1, <1>2, <1>3, <2>2
    <3>2. k - Len(a) > 1 /\ b[(k - Len(a)) - 1] = WideChar
      BY <1>1, <3>1
    <3>3. k - 1 \in 1..(Len(a) + Len(b)) /\ ~(k - 1 <= Len(a))
          /\ (k - 1) - Len(a) = (k - Len(a)) - 1 /\ k > 1
      BY <1>1, <1>2, <2>2, <3>1, <3>2
    <3> QED BY <1>2, <3>2, <3>3
  <2> QED BY <2>1, <2>2
<1> QED BY <1>2, <1>3 DEF Cells, s

\* Room is made for columns, and columns are taken out, at the cursor.
LEMMA ShiftedCells ==
    ASSUME NEW c \in Cells, NEW i \in Nat, NEW n \in Nat, NEW cols \in Nat
    PROVE  shift(c, i, n, cols) \in Cells
<1> DEFINE e == erase(c, i, i)
           u == [k \in 1..n |-> Undefined]
           all == SubSeq(e, 1, i) \o u \o SubSeq(e, i + 1, Len(e))
           cut == SubSeq(all, 1, Least(Len(all), cols))
<1>1. CASE ~(i < Len(c))
  BY <1>1 DEF shift
<1>2. CASE i < Len(c)
  <2>1. Len(c) \in Nat
    BY LenProperties DEF Cells
  <2>2. e \in Cells /\ Len(e) = Len(c) /\ Cell(e, i) # Half
    BY <1>2, ErasedCells
  <2>3. e \in Seq(Glyphs) /\ Cell(e, 0) # Half
    BY <2>1, <2>2 DEF Cells, Cell, Half, Undefined
  <2> HIDE DEF e
  <2>4. SubSeq(e, 1, i) \in Cells
    BY <1>2, <2>1, <2>2, <2>3, CutCells
  <2>5. SubSeq(e, i + 1, Len(e)) \in Cells
    <3>1. i + 1 \in Nat \ {0} /\ (i + 1) - 1 = i /\ Len(e) \in Nat /\ Len(e) <= Len(e)
      BY <2>1, <2>2
    <3> QED BY <2>2, <3>1, CutCells
  <2>6. u \in Cells
    <3>1. u \in [1..n -> Glyphs]
      BY DEF Glyphs
    <3>2. u \in Seq(Glyphs) /\ Len(u) = n /\ \A k \in 1..n : u[k] = Undefined
      <4>1. \A k \in 1..n : u[k] = Undefined
        OBVIOUS
      <4> HIDE DEF u
      <4> QED BY <3>1, <4>1, FunctionIsSeq
    <3> HIDE DEF u
    <3> QED BY <3>2 DEF Cells, Undefined, Half
  <2> HIDE DEF u
  <2>7. all \in Cells
    <3>1. SubSeq(e, 1, i) \o u \in Cells
      BY <2>4, <2>6, JoinedCells
    <3> QED BY <2>5, <3>1, JoinedCells
  <2> HIDE DEF all
  <2>8. cut \in Cells
    <3>1. Len(all) \in Nat /\ all \in Seq(Glyphs)
      BY <2>7, LenProperties DEF Cells
    <3>2. Least(Len(all), cols) \in Nat /\ Least(Len(all), cols) <= Len(all)
      BY <3>1 DEF Least
    <3>3. Cell(all, 0) # Half
      BY <2>7, <3>1 DEF Cells, Cell, Half, Undefined
    <3> QED BY <2>7, <3>2, <3>3, CutCells
  <2>9. shift(c, i, n, cols) = cut
    BY <1>2 DEF shift, e, u, all
  <2> QED BY <2>8, <2>9
<1> QED BY <1>1, <1>2

LEMMA DeletedCells ==
    ASSUME NEW c \in Cells, NEW x \in Nat, NEW n \in Nat
    PROVE  LET e == erase(erase(c, x, x), x + n, x + n)
           IN  SubSeq(e, 1, Least(x, Len(e))) \o SubSeq(e, x + n + 1, Len(e)) \in Cells
<1> DEFINE d == erase(c, x, x)
           e == erase(d, x + n, x + n)
<1>1. d \in Cells /\ Cell(d, x) # Half
  BY ErasedCells
<1> HIDE DEF d
<1>2. e \in Cells /\ Cell(e, x + n) # Half /\ (Cell(e, x) = Half => Cell(d, x) = Half)
  BY <1>1, ErasedCells
<1> HIDE DEF e
<1>3. Len(e) \in Nat /\ e \in Seq(Glyphs) /\ Cell(e, 0) # Half
  <2>1. Len(e) \in Nat /\ e \in Seq(Glyphs)
    BY <1>2, LenProperties DEF Cells
  <2> QED BY <1>2, <2>1 DEF Cells, Cell, Half, Undefined
<1>4. SubSeq(e, 1, Least(x, Len(e))) \in Cells
  <2>1. Least(x, Len(e)) \in Nat /\ Least(x, Len(e)) <= Len(e)
    BY <1>3 DEF Least
  <2> QED BY <1>2, <1>3, <2>1, CutCells
<1>5. SubSeq(e, x + n + 1, Len(e)) \in Cells
  <2>1. x + n + 1 \in Nat \ {0} /\ (x + n + 1) - 1 = x + n /\ Len(e) <= Len(e)
    BY <1>3
  <2> QED BY <1>2, <1>3, <2>1, CutCells
<1>6. SubSeq(e, 1, Least(x, Len(e))) \o SubSeq(e, x + n + 1, Len(e)) \in Cells
  BY <1>4, <1>5, JoinedCells
<1> QED BY <1>6 DEF d, e
-----------------------------------------------------------------------------
(***************************************************************************)
(* The screen.                                                             *)
(***************************************************************************)
Saved  == [set : BOOLEAN, x : Nat, y : Nat, origin : BOOLEAN, moved : BOOLEAN, row : Nat]
Buffer == [lines : Seq(Row), base : Nat, saved : Saved]
States == {"GROUND", "ESC", "ESC_INTER", "CSI", "OSC", "STR", "STR_ESC"}

\* The rows from `base` on are those of the screen.
Holds(b, rows) == Len(b.lines) = b.base + rows

\* A saved cursor names its row, or is marked.
NamesRow(b) == b.saved.set /\ ~b.saved.moved => b.saved.row = b.base + b.saved.y

ScreenType ==
    [cols : Nat, rows : Nat, main : Buffer, alt : Buffer, x : Nat, y : Nat, top : Nat, bottom : Nat,
     wrap : BOOLEAN, origin : BOOLEAN, insert : BOOLEAN, unsure : BOOLEAN, state : States,
     params : Seq(Chars), inter : Seq(Chars), osc : Seq(Chars), hears : BOOLEAN,
     context : {"null", "shell", "command"}]

Sized(s) ==
    /\ s.cols >= 2 /\ s.rows >= 1
    /\ Holds(s.main, s.rows)
    /\ onMain(s) \/ Holds(s.alt, s.rows)
    /\ s.x <= s.cols /\ s.y < s.rows /\ s.top <= s.bottom /\ s.bottom < s.rows

Shaped(s) == Sized(s) /\ NamesRow(s.main)

Screens == {s \in ScreenType : Shaped(s)}

Same(s, t) == \A f \in {"cols", "rows", "x", "y", "top", "bottom", "wrap", "origin"} : t[f] = s[f]

\* The cursor goes anywhere on the screen, or past the last column.
LEMMA CursorMoves ==
    ASSUME NEW s \in Screens, NEW x \in Nat, NEW y \in Nat
    PROVE  /\ x <= s.cols => [s EXCEPT !.x = x] \in Screens
           /\ y < s.rows => [s EXCEPT !.y = y] \in Screens
           /\ x <= s.cols /\ y < s.rows => /\ [s EXCEPT !.x = x, !.y = y] \in Screens
                                           /\ [s EXCEPT !.y = y, !.x = x] \in Screens
  BY DEF Screens, ScreenType, Shaped, Sized, onMain

\* What says nothing of rows and columns may be anything.
LEMMA FlagsMove ==
    ASSUME NEW s \in Screens, NEW b \in BOOLEAN, NEW c \in BOOLEAN
    PROVE  /\ [s EXCEPT !.wrap = b] \in Screens /\ [s EXCEPT !.insert = b] \in Screens
           /\ [s EXCEPT !.unsure = b] \in Screens /\ [s EXCEPT !.origin = b] \in Screens
  BY DEF Screens, ScreenType, Shaped, Sized, onMain

LEMMA ParserMoves ==
    ASSUME NEW s \in Screens, NEW st \in States, NEW p \in Seq(Chars), NEW q \in Seq(Chars),
           NEW o \in Seq(Chars), NEW h \in BOOLEAN
    PROVE  /\ [s EXCEPT !.state = st] \in Screens
           /\ [s EXCEPT !.params = p] \in Screens /\ [s EXCEPT !.inter = p] \in Screens
           /\ [s EXCEPT !.osc = o] \in Screens
           /\ [s EXCEPT !.state = st, !.params = p, !.inter = q] \in Screens
           /\ [s EXCEPT !.state = st, !.osc = o, !.hears = h] \in Screens
           /\ [s EXCEPT !.params = p, !.inter = q, !.osc = o, !.hears = h] \in Screens
           /\ [s EXCEPT !.context = IF h THEN "shell" ELSE "command"] \in Screens
  BY DEF Screens, ScreenType, Shaped, Sized, onMain

\* The buffer that is shown.
LEMMA BufOf ==
    ASSUME NEW s \in Screens
    PROVE  buf(s) \in Buffer /\ Holds(buf(s), s.rows) /\ (onMain(s) => NamesRow(buf(s)))
  BY DEF Screens, ScreenType, Shaped, Sized, onMain, buf

\* It may be replaced by one of as many rows.
LEMMA BufMoves ==
    ASSUME NEW s \in Screens, NEW b \in Buffer, Holds(b, s.rows), onMain(s) => NamesRow(b)
    PROVE  /\ withBuf(s, b) \in Screens /\ buf(withBuf(s, b)) = b
           /\ onMain(withBuf(s, b)) <=> onMain(s)
           /\ Same(s, withBuf(s, b))
<1>1. CASE onMain(s)
  BY <1>1 DEF Screens, ScreenType, Shaped, Sized, onMain, buf, withBuf, Same
<1>2. CASE ~onMain(s)
  <2>1. b.lines # <<>>
    <3>1. s.rows \in Nat /\ s.rows >= 1
      BY DEF Screens, ScreenType, Shaped, Sized
    <3>2. b.lines \in Seq(Row) /\ b.base \in Nat /\ Len(b.lines) = b.base + s.rows
      BY DEF Buffer, Holds
    <3>3. Len(b.lines) # 0
      BY <3>1, <3>2
    <3> QED BY <3>2, <3>3, EmptySeq
  <2> QED BY <1>2, <2>1 DEF Screens, ScreenType, Shaped, Sized, onMain, buf, withBuf, Same
<1> QED BY <1>1, <1>2

\* One that rows were taken from or added to must have its saved cursor marked.
LEMMA MovedIsShaped ==
    ASSUME NEW s \in ScreenType, Sized(s)
    PROVE  /\ moved(s) \in Screens
           /\ Same(s, moved(s))
<1>1. moved(s) \in ScreenType
  BY DEF ScreenType, moved, Buffer, Saved
<1>2. Same(s, moved(s)) /\ moved(s).main.lines = s.main.lines /\ moved(s).main.base = s.main.base
      /\ moved(s).alt.lines = s.alt.lines /\ moved(s).alt.base = s.alt.base
  BY DEF ScreenType, moved, Buffer, Same
<1>3. moved(s).main.saved.moved = moved(s).main.saved.set
  BY DEF ScreenType, moved, Buffer, Saved
<1>4. moved(s).rows = s.rows /\ moved(s).bottom = s.bottom /\ moved(s).top = s.top
      /\ moved(s).x = s.x /\ moved(s).y = s.y /\ moved(s).cols = s.cols
  BY <1>2 DEF Same
<1>5. Sized(moved(s))
  BY <1>2, <1>4 DEF Sized, onMain, Holds
<1> QED BY <1>1, <1>2, <1>3, <1>5 DEF Screens, Shaped, NamesRow

LEMMA BufReplaced ==
    ASSUME NEW s \in Screens, NEW b \in Buffer, Holds(b, s.rows)
    PROVE  /\ withBuf(s, b) \in ScreenType /\ Sized(withBuf(s, b))
           /\ Same(s, withBuf(s, b))
<1>1. CASE onMain(s)
  BY <1>1 DEF Screens, ScreenType, Shaped, Sized, onMain, withBuf, Same
<1>2. CASE ~onMain(s)
  <2>1. b.lines # <<>>
    <3>1. s.rows \in Nat /\ s.rows >= 1
      BY DEF Screens, ScreenType, Shaped, Sized
    <3>2. b.lines \in Seq(Row) /\ b.base \in Nat /\ Len(b.lines) = b.base + s.rows
      BY DEF Buffer, Holds
    <3>3. Len(b.lines) # 0
      BY <3>1, <3>2
    <3> QED BY <3>2, <3>3, EmptySeq
  <2> QED BY <1>2, <2>1 DEF Screens, ScreenType, Shaped, Sized, onMain, withBuf, Same
<1> QED BY <1>1, <1>2

\* Its rows may be replaced by as many.
LEMMA LinesMove ==
    ASSUME NEW s \in Screens, NEW l \in Seq(Row), Len(l) = Len(buf(s).lines)
    PROVE  /\ withLines(s, l) \in Screens /\ buf(withLines(s, l)).lines = l
           /\ buf(withLines(s, l)).base = buf(s).base
           /\ Same(s, withLines(s, l))
<1> DEFINE b == [buf(s) EXCEPT !.lines = l]
<1>1. buf(s) \in Buffer /\ Holds(buf(s), s.rows) /\ (onMain(s) => NamesRow(buf(s)))
  BY BufOf
<1>2. b \in Buffer /\ Holds(b, s.rows) /\ (onMain(s) => NamesRow(b)) /\ b.lines = l
      /\ b.base = buf(s).base
  BY <1>1 DEF Buffer, Holds, NamesRow
<1> HIDE DEF b
<1> QED BY <1>2, BufMoves DEF withLines, b

LEMMA LineOf ==
    ASSUME NEW s \in Screens, NEW i \in Nat, i < s.rows
    PROVE  /\ line(s, i) \in Row
           /\ buf(s).lines \in Seq(Row)
           /\ buf(s).base + i + 1 \in 1..Len(buf(s).lines)
           /\ Len(buf(s).lines) = buf(s).base + s.rows
<1>1. buf(s) \in Buffer /\ Holds(buf(s), s.rows) /\ s.rows \in Nat
  BY BufOf DEF Screens, ScreenType
<1>2. /\ buf(s).lines \in Seq(Row) /\ buf(s).base \in Nat
      /\ Len(buf(s).lines) = buf(s).base + s.rows
  BY <1>1 DEF Buffer, Holds
<1>3. buf(s).base + i + 1 \in 1..Len(buf(s).lines)
  BY <1>1, <1>2
<1>4. buf(s).lines[buf(s).base + i + 1] \in Row
  BY <1>2, <1>3, ElementOfSeq
<1> QED BY <1>2, <1>3, <1>4 DEF line

LEMMA LineMoves ==
    ASSUME NEW s \in Screens, NEW i \in Nat, i < s.rows, NEW l \in Row
    PROVE  /\ withLine(s, i, l) \in Screens
           /\ Same(s, withLine(s, i, l))
<1> DEFINE new == [buf(s).lines EXCEPT ![buf(s).base + i + 1] = l]
<1>1. new \in Seq(Row) /\ Len(new) = Len(buf(s).lines)
  BY LineOf, ExceptSeq
<1> HIDE DEF new
<1> QED BY <1>1, LinesMove DEF withLine, new

\* The cursor's row, and its cells.
LEMMA CellsMove ==
    ASSUME NEW s \in Screens
    PROVE  /\ cellsAt(s) \in Cells
           /\ line(s, s.y) \in Row
           /\ \A c \in Cells :
                  /\ withCells(s, c) \in Screens
                  /\ Same(s, withCells(s, c))
<1>1. s.y \in Nat /\ s.y < s.rows
  BY DEF Screens, ScreenType, Shaped, Sized
<1>2. line(s, s.y) \in Row
  BY <1>1, LineOf
<1>3. cellsAt(s) \in Cells
  BY <1>2 DEF cellsAt, Row
<1>4. ASSUME NEW c \in Cells PROVE [line(s, s.y) EXCEPT !.cells = c] \in Row
  BY <1>2 DEF Row
<1> QED BY <1>1, <1>2, <1>3, <1>4, LineMoves DEF withCells
-----------------------------------------------------------------------------
(***************************************************************************)
(* Scrolling.                                                              *)
(***************************************************************************)
LEMMA RowTaken ==
    ASSUME NEW S, NEW l \in Seq(S), NEW i \in 1..Len(l)
    PROVE  RemoveAt(l, i) \in Seq(S) /\ Len(RemoveAt(l, i)) = Len(l) - 1
<1>1. Len(l) \in Nat /\ \A k \in 1..Len(l) : l[k] \in S
  BY LenProperties, ElementOfSeq
<1> DEFINE a == SubSeq(l, 1, i - 1)
           b == SubSeq(l, i + 1, Len(l))
<1>2. a \in Seq(S) /\ Len(a) = i - 1
  BY <1>1, SubSeqProperties
<1>3. b \in Seq(S) /\ Len(b) = Len(l) - i
  BY <1>1, SubSeqProperties
<1>4. RemoveAt(l, i) = a \o b
  BY DEF RemoveAt
<1> HIDE DEF a, b
<1>5. a \o b \in Seq(S) /\ Len(a \o b) = Len(a) + Len(b)
  BY <1>2, <1>3, ConcatProperties
<1> QED BY <1>1, <1>2, <1>3, <1>4, <1>5

LEMMA RowAdded ==
    ASSUME NEW S, NEW l \in Seq(S), NEW i \in 1..(Len(l) + 1), NEW e \in S
    PROVE  InsertAt(l, i, e) \in Seq(S) /\ Len(InsertAt(l, i, e)) = Len(l) + 1
<1>1. Len(l) \in Nat /\ \A k \in 1..Len(l) : l[k] \in S
  BY LenProperties, ElementOfSeq
<1> DEFINE a == SubSeq(l, 1, i - 1)
           b == SubSeq(l, i, Len(l))
           c == a \o <<e>>
<1>2. a \in Seq(S) /\ Len(a) = i - 1
  BY <1>1, SubSeqProperties
<1>3. b \in Seq(S) /\ Len(b) = Len(l) - i + 1
  BY <1>1, SubSeqProperties
<1>4. InsertAt(l, i, e) = c \o b
  BY DEF InsertAt
<1> HIDE DEF a, b
<1>5. <<e>> \in Seq(S) /\ Len(<<e>>) = 1
  OBVIOUS
<1>6. c \in Seq(S) /\ Len(c) = i
  BY <1>2, <1>5, ConcatProperties
<1> HIDE DEF c
<1>7. c \o b \in Seq(S) /\ Len(c \o b) = Len(c) + Len(b)
  BY <1>3, <1>6, ConcatProperties
<1> QED BY <1>1, <1>3, <1>4, <1>6, <1>7

\* A row goes and a new one comes: the screen keeps its height.
LEMMA RowsPush ==
    ASSUME NEW s \in Screens, NEW from \in Nat, from <= s.bottom
    PROVE  /\ pushDown(s, from) \in Screens /\ Same(s, pushDown(s, from))
           /\ pullUp(s, from) \in Screens /\ Same(s, pullUp(s, from))
<1> DEFINE l == buf(s).lines
           i == buf(s).base + s.bottom + 1
           j == buf(s).base + from + 1
<1>1. s.bottom \in Nat /\ s.bottom < s.rows /\ from < s.rows /\ s.rows \in Nat
  BY DEF Screens, ScreenType, Shaped, Sized
<1>2. l \in Seq(Row) /\ i \in 1..Len(l) /\ j \in 1..Len(l) /\ Len(l) \in Nat
  BY <1>1, LineOf, LenProperties
<1>3. newRow \in Row
  BY NoCells
<1> HIDE DEF l, i, j
<1>4. ASSUME NEW a \in 1..Len(l), NEW b \in 1..Len(l)
      PROVE  /\ InsertAt(RemoveAt(l, a), b, newRow) \in Seq(Row)
             /\ Len(InsertAt(RemoveAt(l, a), b, newRow)) = Len(l)
  <2>1. RemoveAt(l, a) \in Seq(Row) /\ Len(RemoveAt(l, a)) = Len(l) - 1
    BY <1>2, RowTaken
  <2>2. b \in 1..(Len(RemoveAt(l, a)) + 1)
    BY <1>2, <2>1
  <2> QED BY <1>2, <1>3, <2>1, <2>2, RowAdded
<1>5. Len(InsertAt(RemoveAt(l, i), j, newRow)) = Len(buf(s).lines)
      /\ InsertAt(RemoveAt(l, i), j, newRow) \in Seq(Row)
  BY <1>2, <1>4 DEF l
<1>6. Len(InsertAt(RemoveAt(l, j), i, newRow)) = Len(buf(s).lines)
      /\ InsertAt(RemoveAt(l, j), i, newRow) \in Seq(Row)
  BY <1>2, <1>4 DEF l
<1>7. pushDown(s, from) = withLines(s, InsertAt(RemoveAt(l, i), j, newRow))
      /\ pullUp(s, from) = withLines(s, InsertAt(RemoveAt(l, j), i, newRow))
  BY DEF pushDown, pullUp, l, i, j
<1> QED BY <1>5, <1>6, <1>7, LinesMove

\* The top row goes into the scrollback, and what the scrollback cannot keep is cut.
LEMMA RowsScrollOff ==
    ASSUME NEW s \in Screens PROVE scrollOff(s) \in Screens /\ Same(s, scrollOff(s))
<1> DEFINE b == buf(s)
           all == InsertAt(b.lines, b.base + s.bottom + 2, newRow)
           over == b.base + 1 > keep(s) + Slack
           new == [b EXCEPT
                     !.base  = IF over THEN keep(s) ELSE b.base + 1,
                     !.lines = IF over THEN SubSeq(all, b.base + 2 - keep(s), Len(all)) ELSE all]
<1>1. s.bottom \in Nat /\ s.bottom < s.rows /\ s.rows \in Nat
  BY DEF Screens, ScreenType, Shaped, Sized
<1>2. b \in Buffer /\ b.lines \in Seq(Row) /\ b.base \in Nat /\ Len(b.lines) = b.base + s.rows
  BY BufOf DEF Buffer, Holds
<1>3. keep(s) \in Nat /\ Slack \in Nat
  BY ScreenAssumption DEF keep
<1> HIDE DEF b
<1>4. all \in Seq(Row) /\ Len(all) = b.base + s.rows + 1
  <2>1. b.base + s.bottom + 2 \in 1..(Len(b.lines) + 1)
    BY <1>1, <1>2
  <2> QED BY <1>1, <1>2, <2>1, NoCells, RowAdded
<1> HIDE DEF all
<1>5. new \in Buffer /\ Holds(new, s.rows)
  <2>1. CASE over
    <3>1. b.base + 2 - keep(s) \in Int /\ b.base + 2 - keep(s) >= 1
          /\ Len(all) \in Int /\ b.base + 2 - keep(s) <= Len(all)
      <4>1. \A i, j, k, m \in Nat : i + 1 > j + m /\ k >= 1
               => i + 2 - j \in Int /\ i + 2 - j >= 1 /\ i + 2 - j <= i + k + 1 /\ i + k + 1 \in Int
        OBVIOUS
      <4>2. s.rows >= 1
        BY <1>1
      <4> QED BY <1>1, <1>2, <1>3, <1>4, <2>1, <4>1, <4>2
    <3>2. \A k \in 1..Len(all) : all[k] \in Row
      BY <1>4, ElementOfSeq
    <3>3. SubSeq(all, b.base + 2 - keep(s), Len(all)) \in Seq(Row)
          /\ Len(SubSeq(all, b.base + 2 - keep(s), Len(all))) = Len(all) - (b.base + 2 - keep(s)) + 1
      BY <3>1, <3>2, SubSeqProperties
    <3>4. Len(SubSeq(all, b.base + 2 - keep(s), Len(all))) = keep(s) + s.rows
      <4>1. \A i, j, k \in Int : (i + k + 1) - (i + 2 - j) + 1 = j + k
        OBVIOUS
      <4>2. b.base \in Int /\ keep(s) \in Int /\ s.rows \in Int
        BY <1>1, <1>2, <1>3
      <4>3. (b.base + s.rows + 1) - (b.base + 2 - keep(s)) + 1 = keep(s) + s.rows
        BY <4>1, <4>2
      <4> QED BY <1>4, <3>3, <4>3
    <3> QED BY <1>2, <1>3, <2>1, <3>3, <3>4 DEF Buffer, Holds
  <2>2. CASE ~over
    <3>1. Len(all) = (b.base + 1) + s.rows /\ b.base + 1 \in Nat
      BY <1>1, <1>2, <1>4
    <3> QED BY <1>2, <1>4, <2>2, <3>1 DEF Buffer, Holds
  <2> QED BY <2>1, <2>2
<1>6. scrollOff(s) = IF onMain(s) THEN moved(withBuf(s, new)) ELSE withBuf(s, new)
  BY DEF scrollOff, b, all
<1> HIDE DEF new
<1>7. CASE onMain(s)
  <2>1. withBuf(s, new) \in ScreenType /\ Sized(withBuf(s, new)) /\ Same(s, withBuf(s, new))
    BY <1>5, BufReplaced
  <2>2. moved(withBuf(s, new)) \in Screens /\ Same(withBuf(s, new), moved(withBuf(s, new)))
    BY <2>1, MovedIsShaped
  <2>3. Same(s, moved(withBuf(s, new)))
    BY <2>1, <2>2 DEF Same
  <2> QED BY <1>6, <1>7, <2>2, <2>3
<1>8. CASE ~onMain(s)
  BY <1>5, <1>6, <1>8, BufMoves
<1> QED BY <1>7, <1>8

\* A step that keeps a set can be taken again and again.
LEMMA RepeatExists ==
    ASSUME NEW S, NEW a \in S, NEW n \in Nat, NEW F \in [S -> S]
    PROVE  \E f \in [0..n -> S] : f[0] = a /\ \A k \in 1..n : f[k] = F[f[k - 1]]
<1> DEFINE G == [k \in 1..n |-> F]
<1>1. G \in [1..n -> [S -> S]] /\ \A k \in 1..n : G[k] = F
  OBVIOUS
<1> HIDE DEF G
<1>2. PICK f \in [0..n -> S] : f[0] = a /\ \A k \in 1..n : f[k] = G[k][f[k - 1]]
  BY <1>1, StepsExist
<1> QED BY <1>1, <1>2

\* The screen scrolls by any number of rows.
LEMMA ScrolledUp ==
    ASSUME NEW s \in Screens, NEW n \in Nat
    PROVE  scrollUp(s, n) \in Screens
<1> DEFINE S == Screens
           F == [t \in S |-> scrollUp1(t)]
           D(f) == f = [k \in 0..n |-> IF k = 0 THEN s ELSE scrollUp1(f[k - 1])]
           h == CHOOSE f : D(f)
<1>1. s \in S /\ \A t \in S : scrollUp1(t) \in S
  <2>1. ASSUME NEW t \in Screens PROVE scrollUp1(t) \in Screens
    <3>1. t.top \in Nat /\ t.top <= t.bottom
      BY DEF Screens, ScreenType, Shaped, Sized
    <3> QED BY <3>1, RowsScrollOff, RowsPush DEF scrollUp1
  <2> QED BY <2>1
<1> HIDE DEF S
<1>2. \E f : D(f)
  <2>0. F \in [S -> S]
    BY <1>1
  <2>1. \A t \in S : F[t] = scrollUp1(t)
    OBVIOUS
  <2> HIDE DEF F
  <2>2. PICK f \in [0..n -> S] : f[0] = s /\ \A k \in 1..n : f[k] = F[f[k - 1]]
    BY <1>1, <2>0, RepeatExists
  <2>3. ASSUME NEW k \in 0..n PROVE f[k] = IF k = 0 THEN s ELSE scrollUp1(f[k - 1])
    <3>1. k # 0 => f[k - 1] \in S
      OBVIOUS
    <3> QED BY <2>1, <2>2, <3>1
  <2>4. D(f)
    BY <2>2, <2>3
  <2> QED BY <2>4
<1>3. D(h)
  BY <1>2
<1> HIDE DEF h
<1>4. h[0] \in S /\ \A k \in 1..n : h[k - 1] \in S => h[k] \in S
  BY <1>1, <1>3
<1>5. h[n] \in S
  BY <1>4, StepsStay
<1>6. scrollUp(s, n) = h[n]
  BY DEF scrollUp, Repeat, h
<1> QED BY <1>5, <1>6 DEF S

LEMMA ScrolledDown ==
    ASSUME NEW s \in Screens, NEW n \in Nat
    PROVE  scrollDown(s, n) \in Screens
<1> DEFINE S == Screens
           F == [t \in S |-> scrollDown1(t)]
           D(f) == f = [k \in 0..n |-> IF k = 0 THEN s ELSE scrollDown1(f[k - 1])]
           h == CHOOSE f : D(f)
<1>1. s \in S /\ \A t \in S : scrollDown1(t) \in S
  <2>1. ASSUME NEW t \in Screens PROVE scrollDown1(t) \in Screens
    <3>1. t.top \in Nat /\ t.top <= t.bottom
      BY DEF Screens, ScreenType, Shaped, Sized
    <3> QED BY <3>1, RowsPush DEF scrollDown1
  <2> QED BY <2>1
<1> HIDE DEF S
<1>2. \E f : D(f)
  <2>0. F \in [S -> S]
    BY <1>1
  <2>1. \A t \in S : F[t] = scrollDown1(t)
    OBVIOUS
  <2> HIDE DEF F
  <2>2. PICK f \in [0..n -> S] : f[0] = s /\ \A k \in 1..n : f[k] = F[f[k - 1]]
    BY <1>1, <2>0, RepeatExists
  <2>3. ASSUME NEW k \in 0..n PROVE f[k] = IF k = 0 THEN s ELSE scrollDown1(f[k - 1])
    <3>1. k # 0 => f[k - 1] \in S
      OBVIOUS
    <3> QED BY <2>1, <2>2, <3>1
  <2>4. D(f)
    BY <2>2, <2>3
  <2> QED BY <2>4
<1>3. D(h)
  BY <1>2
<1> HIDE DEF h
<1>4. h[0] \in S /\ \A k \in 1..n : h[k - 1] \in S => h[k] \in S
  BY <1>1, <1>3
<1>5. h[n] \in S
  BY <1>4, StepsStay
<1>6. scrollDown(s, n) = h[n]
  BY DEF scrollDown, Repeat, h
<1> QED BY <1>5, <1>6 DEF S

\* Rows are inserted and deleted within the scroll region.
LEMMA RowsInserted ==
    ASSUME NEW s \in Screens, NEW n \in Nat, s.y <= s.bottom
    PROVE  Repeat(LAMBDA t : pushDown(t, s.y), s, n) \in Screens
<1> DEFINE S == {t \in Screens : s.y <= t.bottom}
           F == [t \in S |-> pushDown(t, s.y)]
           D(f) == f = [k \in 0..n |-> IF k = 0 THEN s ELSE pushDown(f[k - 1], s.y)]
           h == CHOOSE f : D(f)
<1>1. s \in S /\ \A t \in S : pushDown(t, s.y) \in S
  <2>1. ASSUME NEW t \in Screens, s.y <= t.bottom
        PROVE  pushDown(t, s.y) \in Screens /\ s.y <= pushDown(t, s.y).bottom
    <3>1. s.y \in Nat
      BY DEF Screens, ScreenType
    <3> QED BY <2>1, <3>1, RowsPush DEF Same
  <2> QED BY <2>1
<1> HIDE DEF S
<1>2. \E f : D(f)
  <2>0. F \in [S -> S]
    BY <1>1
  <2>1. \A t \in S : F[t] = pushDown(t, s.y)
    OBVIOUS
  <2> HIDE DEF F
  <2>2. PICK f \in [0..n -> S] : f[0] = s /\ \A k \in 1..n : f[k] = F[f[k - 1]]
    <3>1. s \in S
      BY <1>1
    <3> QED BY <2>0, <3>1, RepeatExists, SMTT(10)
  <2>3. ASSUME NEW k \in 0..n PROVE f[k] = IF k = 0 THEN s ELSE pushDown(f[k - 1], s.y)
    <3>1. k # 0 => f[k - 1] \in S
      OBVIOUS
    <3> QED BY <2>1, <2>2, <3>1
  <2>4. D(f)
    BY <2>2, <2>3
  <2> QED BY <2>4
<1>3. D(h)
  BY <1>2
<1> HIDE DEF h
<1>4. h[0] \in S /\ \A k \in 1..n : h[k - 1] \in S => h[k] \in S
  BY <1>1, <1>3
<1>5. h[n] \in S
  BY <1>4, StepsStay
<1>6. Repeat(LAMBDA t : pushDown(t, s.y), s, n) = h[n]
  BY DEF Repeat, h
<1> QED BY <1>5, <1>6 DEF S

LEMMA RowsDeleted ==
    ASSUME NEW s \in Screens, NEW n \in Nat, s.y <= s.bottom
    PROVE  Repeat(LAMBDA t : pullUp(t, s.y), s, n) \in Screens
<1> DEFINE S == {t \in Screens : s.y <= t.bottom}
           F == [t \in S |-> pullUp(t, s.y)]
           D(f) == f = [k \in 0..n |-> IF k = 0 THEN s ELSE pullUp(f[k - 1], s.y)]
           h == CHOOSE f : D(f)
<1>1. s \in S /\ \A t \in S : pullUp(t, s.y) \in S
  <2>1. ASSUME NEW t \in Screens, s.y <= t.bottom
        PROVE  pullUp(t, s.y) \in Screens /\ s.y <= pullUp(t, s.y).bottom
    <3>1. s.y \in Nat
      BY DEF Screens, ScreenType
    <3> QED BY <2>1, <3>1, RowsPush DEF Same
  <2> QED BY <2>1
<1> HIDE DEF S
<1>2. \E f : D(f)
  <2>0. F \in [S -> S]
    BY <1>1
  <2>1. \A t \in S : F[t] = pullUp(t, s.y)
    OBVIOUS
  <2> HIDE DEF F
  <2>2. PICK f \in [0..n -> S] : f[0] = s /\ \A k \in 1..n : f[k] = F[f[k - 1]]
    <3>1. s \in S
      BY <1>1
    <3> QED BY <2>0, <3>1, RepeatExists, SMTT(10)
  <2>3. ASSUME NEW k \in 0..n PROVE f[k] = IF k = 0 THEN s ELSE pullUp(f[k - 1], s.y)
    <3>1. k # 0 => f[k - 1] \in S
      OBVIOUS
    <3> QED BY <2>1, <2>2, <3>1
  <2>4. D(f)
    BY <2>2, <2>3
  <2> QED BY <2>4
<1>3. D(h)
  BY <1>2
<1> HIDE DEF h
<1>4. h[0] \in S /\ \A k \in 1..n : h[k - 1] \in S => h[k] \in S
  BY <1>1, <1>3
<1>5. h[n] \in S
  BY <1>4, StepsStay
<1>6. Repeat(LAMBDA t : pullUp(t, s.y), s, n) = h[n]
  BY DEF Repeat, h
<1> QED BY <1>5, <1>6 DEF S
-----------------------------------------------------------------------------
(***************************************************************************)
(* The cursor, and the shape of the terminal.                              *)
(***************************************************************************)
LEMMA ScreenNumbers ==
    ASSUME NEW s \in Screens
    PROVE  /\ s.cols \in Nat /\ s.rows \in Nat /\ s.x \in Nat /\ s.y \in Nat
           /\ s.top \in Nat /\ s.bottom \in Nat
           /\ s.cols >= 2 /\ s.rows >= 1 /\ s.x <= s.cols /\ s.y < s.rows
           /\ s.top <= s.bottom /\ s.bottom < s.rows
  BY DEF Screens, ScreenType, Shaped, Sized

LEMMA BlankBuffer ==
    ASSUME NEW n \in Nat
    PROVE  /\ buffer(n) \in Buffer /\ buffer(n).base = 0 /\ buffer(n).saved = NoSave
           /\ buffer(n).lines \in Seq(Row) /\ Len(buffer(n).lines) = n
           /\ NoBuffer \in Buffer /\ NoBuffer.lines = <<>>
<1> DEFINE l == [i \in 1..n |-> newRow]
<1>1. l \in [1..n -> Row]
  BY NoCells
<1> HIDE DEF l
<1>2. l \in Seq(Row) /\ Len(l) = n
  BY <1>1, FunctionIsSeq
<1>3. NoSave \in Saved
  BY DEF NoSave, Saved
<1>4. NoBuffer \in Buffer
  BY <1>3, EmptySeq DEF NoBuffer, Buffer
<1> QED BY <1>2, <1>3, <1>4 DEF buffer, l, NoBuffer, Buffer

LEMMA CursorInside ==
    ASSUME NEW s \in Screens
    PROVE  /\ inside(s) \in Screens /\ inside(s).x < s.cols /\ inside(s).x \in Nat
           /\ inside(s).y = s.y /\ inside(s).rows = s.rows /\ inside(s).cols = s.cols
           /\ inside(s).top = s.top /\ inside(s).bottom = s.bottom
           /\ inside(s).wrap = s.wrap /\ inside(s).unsure = s.unsure
<1>1. Least(s.x, s.cols - 1) \in Nat /\ Least(s.x, s.cols - 1) < s.cols
  BY ScreenNumbers DEF Least
<1>2. inside(s) = [s EXCEPT !.x = Least(s.x, s.cols - 1)]
  BY DEF inside
<1>3. [s EXCEPT !.x = Least(s.x, s.cols - 1)] \in Screens
  <2>1. Least(s.x, s.cols - 1) <= s.cols /\ s.y \in Nat
    BY <1>1, ScreenNumbers
  <2> QED BY <1>1, <2>1, CursorMoves
<1> QED BY <1>1, <1>2, <1>3 DEF Screens, ScreenType

LEMMA CursorBelow ==
    ASSUME NEW s \in Screens
    PROVE  below(s) \in Screens
<1>1. CASE s.y = s.bottom
  BY <1>1, ScrolledUp, 1 \in Nat DEF below
<1>2. CASE s.y # s.bottom
  <2>1. Least(s.y + 1, s.rows - 1) \in Nat /\ Least(s.y + 1, s.rows - 1) < s.rows
    BY ScreenNumbers DEF Least
  <2>2. below(s) = [s EXCEPT !.y = Least(s.y + 1, s.rows - 1)]
    BY <1>2 DEF below
  <2>3. s.x \in Nat
    BY ScreenNumbers
  <2>4. [s EXCEPT !.y = Least(s.y + 1, s.rows - 1)] \in Screens
    BY <2>1, <2>3, CursorMoves
  <2> QED BY <2>2, <2>4
<1> QED BY <1>1, <1>2

LEMMA LineFed ==
    ASSUME NEW s \in Screens
    PROVE  lineFeed(s) \in Screens
<1> DEFINE u == s.unsure /\ s.x # 0
           t == [inside(s) EXCEPT !.unsure = u]
<1>1. inside(s) \in Screens /\ inside(s).unsure = s.unsure
  BY CursorInside
<1>2. t \in Screens
  <2>1. u \in BOOLEAN
    OBVIOUS
  <2> HIDE DEF u
  <2> QED BY <1>1, <2>1, FlagsMove
<1>3. lineFeed(s) = below(t)
  BY <1>1 DEF lineFeed
<1> HIDE DEF t
<1> QED BY <1>2, <1>3, CursorBelow

LEMMA LineUnfed ==
    ASSUME NEW s \in Screens
    PROVE  reverseIndex(s) \in Screens
<1>1. inside(s) \in Screens /\ inside(s).y = s.y /\ inside(s).rows = s.rows
  BY CursorInside
<1>2. CASE s.y = s.top
  BY <1>1, <1>2, ScrolledDown, 1 \in Nat DEF reverseIndex
<1>3. CASE s.y # s.top
  <2>1. Most(s.y - 1, 0) \in Nat /\ Most(s.y - 1, 0) < s.rows /\ 0 \in Nat
    BY ScreenNumbers DEF Most
  <2>2. [inside(s) EXCEPT !.y = Most(s.y - 1, 0)] \in Screens
    BY <1>1, <2>1, CursorMoves
  <2>3. reverseIndex(s) = [inside(s) EXCEPT !.y = Most(s.y - 1, 0)]
    BY <1>1, <1>3 DEF reverseIndex
  <2> QED BY <2>2, <2>3
<1> QED BY <1>2, <1>3

\* Where a character is printed, there is room for it.
LEMMA Placed ==
    ASSUME NEW s \in Screens, NEW w \in {1, 2}
    PROVE  placed(s, w) \in Screens /\ placed(s, w).x + w <= placed(s, w).cols
<1>1. CASE s.x + w <= s.cols
  BY <1>1 DEF placed
<1>2. CASE ~(s.x + w <= s.cols) /\ ~s.wrap
  <2>1. s.cols - w \in Nat /\ s.cols - w <= s.cols /\ (s.cols - w) + w <= s.cols /\ 0 \in Nat
    BY ScreenNumbers
  <2>2. [s EXCEPT !.x = s.cols - w] \in Screens
    BY <2>1, CursorMoves
  <2>3. placed(s, w) = [s EXCEPT !.x = s.cols - w]
    BY <1>2 DEF placed
  <2> QED BY <2>1, <2>2, <2>3 DEF Screens, ScreenType
<1>3. CASE ~(s.x + w <= s.cols) /\ s.wrap
  <2> DEFINE d == [below(s) EXCEPT !.x = 0]
             l == [line(d, d.y) EXCEPT !.wrapped = TRUE]
  <2>1. below(s) \in Screens /\ 0 \in Nat /\ 0 <= below(s).cols
    BY CursorBelow, ScreenNumbers
  <2>2. d \in Screens
    BY <2>1, CursorMoves
  <2>3. d.x = 0
    BY <2>1 DEF Screens, ScreenType
  <2> HIDE DEF d
  <2>4. d.y \in Nat /\ d.y < d.rows /\ d.cols >= 2 /\ d.cols \in Nat
    BY <2>2, ScreenNumbers
  <2>5. l \in Row
    <3>1. line(d, d.y) \in Row
      BY <2>2, <2>4, LineOf
    <3> QED BY <3>1 DEF Row
  <2> HIDE DEF l
  <2>6. withLine(d, d.y, l) \in Screens /\ Same(d, withLine(d, d.y, l))
    BY <2>2, <2>4, <2>5, LineMoves
  <2>7. placed(s, w) = withLine(d, d.y, l)
    BY <1>3 DEF placed, d, l
  <2>8. withLine(d, d.y, l).x = 0 /\ withLine(d, d.y, l).cols = d.cols
    BY <2>3, <2>6 DEF Same
  <2> QED BY <2>4, <2>6, <2>7, <2>8
<1> QED BY <1>1, <1>2, <1>3

\* A combining character takes no cell, and never one half of a wide character.
LEMMA Combined ==
    ASSUME NEW s \in Screens, NEW ch \in Chars
    PROVE  combine(s, ch) \in Screens
<1> DEFINE c == cellsAt(s)
           i == Least(s.x, s.cols) - 1
           j == IF i > 0 /\ Cell(c, i) = Half THEN i - 1 ELSE i
<1>1. c \in Cells /\ \A d \in Cells : withCells(s, d) \in Screens
  BY CellsMove
<1>2. i \in Int
  BY ScreenNumbers DEF Least
<1>3. combine(s, ch) = IF Cell(c, j) \in {Undefined, Half, WideChar} THEN s
                       ELSE withCells(s, Put(c, j, ch))
  BY DEF combine
<1> HIDE DEF i, c
<1>4. CASE Cell(c, j) \in {Undefined, Half, WideChar}
  BY <1>3, <1>4
<1>5. CASE Cell(c, j) \notin {Undefined, Half, WideChar}
  <2>1. j \in Int
    BY <1>2
  <2> HIDE DEF j
  <2>2. j \in Nat /\ j < Len(c) /\ c[j + 1] # WideChar /\ Len(c) \in Nat
    <3>1. Len(c) \in Nat
      BY <1>1, LenProperties DEF Cells
    <3>2. j \in 0..(Len(c) - 1) /\ Cell(c, j) = c[j + 1]
      BY <1>5 DEF Cell
    <3> QED BY <1>5, <3>1, <3>2
  <2>3. Cell(c, j + 1) # Half
    <3>1. SUFFICES ASSUME Cell(c, j + 1) = Half PROVE FALSE
      OBVIOUS
    <3>2. j + 1 \in 0..(Len(c) - 1) /\ c[(j + 1) + 1] = Half
      BY <3>1 DEF Cell, Undefined, Half
    <3>3. (j + 1) + 1 \in 1..Len(c) /\ ((j + 1) + 1) - 1 = j + 1
      BY <2>2, <3>2
    <3>4. c[((j + 1) + 1) - 1] = WideChar
      BY <1>1, <3>2, <3>3 DEF Cells
    <3> QED BY <2>2, <3>3, <3>4
  <2>4. ch \in Glyphs /\ ch # Half
    BY ScreenAssumption DEF Glyphs, Half
  <2>5. Put(c, j, ch) \in Cells
    BY <1>1, <2>2, <2>3, <2>4, PutCells
  <2> QED BY <1>1, <1>3, <1>5, <2>5
<1> QED BY <1>4, <1>5

LEMMA PrintedAt ==
    ASSUME NEW s \in Screens, NEW ch \in Chars, NEW w \in {1, 2}, w = 2 => ch = WideChar,
           s.x + w <= s.cols
    PROVE  printAt(s, ch, w) \in Screens
<1> DEFINE c    == cellsAt(s)
           room == IF s.insert THEN shift(c, s.x, w, s.cols) ELSE c
           o    == overwritten(room, s.x, ch, w)
           t    == withCells(s, o)
<1>1. c \in Cells /\ \A d \in Cells : withCells(s, d) \in Screens /\ Same(s, withCells(s, d))
  BY CellsMove
<1>2. s.x \in Nat /\ s.cols \in Nat /\ w \in Nat
  BY ScreenNumbers
<1> HIDE DEF c
<1>3. room \in Cells
  BY <1>1, <1>2, ShiftedCells
<1> HIDE DEF room
<1>4. o \in Cells
  BY <1>2, <1>3, OverwrittenCells
<1> HIDE DEF o
<1>5. t \in Screens /\ Same(s, t)
  BY <1>1, <1>4
<1>6. printAt(s, ch, w) = [t EXCEPT !.x = @ + w]
  BY DEF printAt, t, o, room, c
<1> HIDE DEF t
<1>7. t.x = s.x /\ t.cols = s.cols /\ s.x + w \in Nat /\ 0 \in Nat
  BY <1>2, <1>5 DEF Same
<1>8. [t EXCEPT !.x = s.x + w] \in Screens
  BY <1>5, <1>7, CursorMoves
<1> QED BY <1>6, <1>7, <1>8

LEMMA CharPrinted ==
    ASSUME NEW s \in Screens, NEW ch \in Chars
    PROVE  print(s, ch) \in Screens
<1>1. width(ch) \in {0, 1, 2} /\ (width(ch) = 2 => ch = WideChar)
  <2>1. CASE ch = WideChar
    BY <2>1, Zenon DEF width
  <2>2. CASE ch # WideChar /\ ch = Mark
    <3>1. width(ch) = 0
      BY <2>2, Zenon DEF width, WideChar, Mark
    <3> QED BY <3>1
  <2>3. CASE ch # WideChar /\ ch # Mark
    <3>1. width(ch) = 1
      BY <2>3, Zenon DEF width
    <3> QED BY <3>1
  <2> QED BY <2>1, <2>2, <2>3
<1>2. CASE width(ch) = 0
  BY <1>2, Combined DEF print
<1>3. CASE width(ch) # 0
  <2>1. width(ch) \in {1, 2}
    BY <1>1, <1>3
  <2>2. placed(s, width(ch)) \in Screens
        /\ placed(s, width(ch)).x + width(ch) <= placed(s, width(ch)).cols
    BY <2>1, Placed
  <2>3. printAt(placed(s, width(ch)), ch, width(ch)) \in Screens
    BY <1>1, <2>1, <2>2, PrintedAt
  <2> QED BY <1>3, <2>3 DEF print
<1> QED BY <1>2, <1>3

\* A cursor is saved with the row it is on, which is not marked as moved.
LEMMA CursorSaved ==
    ASSUME NEW s \in Screens
    PROVE  save(s) \in Screens /\ (onMain(save(s)) <=> onMain(s)) /\ Same(s, save(s))
<1> DEFINE v == [set |-> TRUE, x |-> s.x, y |-> s.y, origin |-> s.origin, moved |-> FALSE,
                 row |-> buf(s).base + s.y]
           b == [buf(s) EXCEPT !.saved = v]
<1>1. buf(s) \in Buffer /\ Holds(buf(s), s.rows)
  BY BufOf
<1>2. v \in Saved /\ v.row = buf(s).base + v.y
  <2>1. s.x \in Nat /\ s.y \in Nat /\ s.origin \in BOOLEAN
    BY DEF Screens, ScreenType
  <2>2. buf(s).base + s.y \in Nat
    BY <1>1, <2>1 DEF Buffer
  <2> QED BY <2>1, <2>2 DEF Saved
<1> HIDE DEF v
<1>3. b \in Buffer /\ Holds(b, s.rows) /\ NamesRow(b)
  BY <1>1, <1>2 DEF Buffer, Holds, NamesRow
<1>4. save(s) = withBuf(s, b)
  BY DEF save, v
<1> HIDE DEF b
<1> QED BY <1>3, <1>4, BufMoves

LEMMA CursorRestored ==
    ASSUME NEW s \in Screens
    PROVE  restore(s) \in Screens
<1> DEFINE v == buf(s).saved
           u == s.unsure \/ v.moved
           x == Least(v.x, s.cols - 1)
           y == Least(v.y, s.rows - 1)
           t == [s EXCEPT !.unsure = u]
           r == [t EXCEPT !.x = x, !.y = y]
<1>1. v \in Saved
  BY BufOf DEF Buffer
<1> HIDE DEF v
<1>2. u \in BOOLEAN /\ v.origin \in BOOLEAN
  BY <1>1 DEF Saved, Screens, ScreenType
<1>3. x \in Nat /\ y \in Nat /\ x <= s.cols /\ y < s.rows
  BY <1>1, ScreenNumbers DEF Saved, Least
<1>4. restore(s) = [r EXCEPT !.origin = v.origin]
  BY DEF restore, v
<1> HIDE DEF u, x, y
<1>5. t \in Screens /\ t.cols = s.cols /\ t.rows = s.rows
  <2>1. t \in Screens
    BY <1>2, FlagsMove
  <2> QED BY <2>1 DEF Screens, ScreenType
<1> HIDE DEF t
<1>6. r \in Screens
  BY <1>3, <1>5, CursorMoves
<1> HIDE DEF r
<1> QED BY <1>2, <1>4, <1>6, FlagsMove

LEMMA ScreenReset ==
    ASSUME NEW s \in ScreenType, s.cols >= 2, s.rows >= 1
    PROVE  reset(s) \in Screens
<1> DEFINE b == buffer(s.rows)
           r == [s EXCEPT !.main = b, !.alt = NoBuffer, !.x = 0, !.y = 0,
                      !.top = 0, !.bottom = s.rows - 1,
                      !.wrap = TRUE, !.origin = FALSE, !.insert = FALSE, !.unsure = FALSE]
<1>1. b \in Buffer /\ b.base = 0 /\ b.saved = NoSave /\ Len(b.lines) = s.rows
      /\ NoBuffer \in Buffer /\ NoBuffer.lines = <<>> /\ s.rows \in Nat /\ s.cols \in Nat
  BY BlankBuffer DEF ScreenType
<1>2. reset(s) = r
  BY DEF reset
<1> HIDE DEF b
<1>3. r \in ScreenType /\ r.main = b /\ r.alt = NoBuffer /\ r.x = 0 /\ r.y = 0 /\ r.top = 0
      /\ r.bottom = s.rows - 1 /\ r.rows = s.rows /\ r.cols = s.cols
  <2>1. s.rows - 1 \in Nat
    BY <1>1
  <2> DEFINE t == [s EXCEPT !.main = b, !.alt = NoBuffer, !.x = 0, !.y = 0,
                      !.top = 0, !.bottom = s.rows - 1]
  <2>2. t \in ScreenType /\ t.main = b /\ t.alt = NoBuffer /\ t.x = 0 /\ t.y = 0 /\ t.top = 0
        /\ t.bottom = s.rows - 1 /\ t.rows = s.rows /\ t.cols = s.cols
    BY <1>1, <2>1 DEF ScreenType
  <2>3. r = [t EXCEPT !.wrap = TRUE, !.origin = FALSE, !.insert = FALSE, !.unsure = FALSE]
    OBVIOUS
  <2> HIDE DEF r, t
  <2> QED BY <2>2, <2>3 DEF ScreenType
<1> HIDE DEF r
<1>4. Sized(r)
  BY <1>1, <1>3 DEF Sized, Holds, onMain
<1>5. NamesRow(r.main)
  BY <1>1, <1>3 DEF NamesRow, NoSave
<1> QED BY <1>2, <1>3, <1>4, <1>5 DEF Screens, Shaped

LEMMA ScreenMade ==
    ASSUME NEW g \in [cols : Nat \ {0, 1}, rows : Nat \ {0}]
    PROVE  makeScreen(g) \in Screens
<1> DEFINE s == [cols |-> g.cols, rows |-> g.rows, main |-> NoBuffer, alt |-> NoBuffer,
                 x |-> 0, y |-> 0, top |-> 0, bottom |-> 0,
                 wrap |-> TRUE, origin |-> FALSE, insert |-> FALSE, unsure |-> FALSE,
                 state |-> "GROUND", params |-> <<>>, inter |-> <<>>,
                 osc |-> <<>>, hears |-> FALSE, context |-> "null"]
<1>1. NoBuffer \in Buffer /\ <<>> \in Seq(Chars) /\ "GROUND" \in States
  BY BlankBuffer, 0 \in Nat, EmptySeq DEF States
<1>2. s \in ScreenType /\ s.cols >= 2 /\ s.rows >= 1
  BY <1>1 DEF ScreenType
<1>3. makeScreen(g) = reset(s)
  BY DEF makeScreen
<1> HIDE DEF s
<1> QED BY <1>2, <1>3, ScreenReset

LEMMA Controlled ==
    ASSUME NEW s \in Screens, NEW c
    PROVE  control(s, c) \in Screens
<1> DEFINE bs == [s EXCEPT !.x = Most(0, Least(@, s.cols - 1) - 1)]
           ht == [s EXCEPT !.x = Least(s.cols - 1, (Least(@, s.cols - 1) \div 8 + 1) * 8)]
           cr == [s EXCEPT !.x = 0]
<1>1. bs \in Screens
  <2>1. Most(0, Least(s.x, s.cols - 1) - 1) \in Nat /\ Most(0, Least(s.x, s.cols - 1) - 1) <= s.cols
    BY ScreenNumbers DEF Least, Most
  <2> QED BY <2>1, CursorMoves, 0 \in Nat
<1>2. ht \in Screens
  <2>1. Least(s.x, s.cols - 1) \in Nat
    BY ScreenNumbers DEF Least
  <2>2. \A n \in Nat : (n \div 8 + 1) * 8 \in Nat
    OBVIOUS
  <2>3. (Least(s.x, s.cols - 1) \div 8 + 1) * 8 \in Nat
    BY <2>1, <2>2
  <2>4. \A n \in Nat : Least(s.cols - 1, n) \in Nat /\ Least(s.cols - 1, n) <= s.cols
    BY ScreenNumbers DEF Least
  <2> QED BY <2>3, <2>4, CursorMoves, 0 \in Nat
<1>3. cr \in Screens
  <2>1. 0 \in Nat /\ 0 <= s.cols
    BY ScreenNumbers
  <2> QED BY <2>1, CursorMoves
<1>4. lineFeed(s) \in Screens /\ reverseIndex(s) \in Screens
  BY LineFed, LineUnfed
<1>5. lineFeed(cr) \in Screens
  BY <1>3, LineFed
<1> QED BY <1>1, <1>2, <1>3, <1>4, <1>5, Zenon DEF control

\* A buffer follows the window: the rows from its base on are as many as the window's.
LEMMA BufferFits ==
    ASSUME NEW b \in Buffer, NEW h \in Nat \ {0}, Len(b.lines) = b.base + h, NEW rows \in Nat \ {0},
           NEW y \in Nat, NEW active \in BOOLEAN, active => y < h
    PROVE  /\ fitted(b, rows, y, active).b \in Buffer
           /\ Holds(fitted(b, rows, y, active).b, rows)
           /\ fitted(b, rows, y, active).d \in Int
<1> DEFINE pull == IF active /\ y = h - 1 THEN Least(b.base, rows - h) ELSE 0
           drop == IF active THEN Least(h - rows, h - 1 - y) ELSE 0
           more == buffer(rows - h - pull).lines
           less == SubSeq(b.lines, 1, Len(b.lines) - drop)
           grown == [b EXCEPT !.base = b.base - pull, !.lines = b.lines \o more]
           cut == [b EXCEPT !.base = b.base + (h - rows - drop), !.lines = less]
<1>1. b.lines \in Seq(Row) /\ b.base \in Nat /\ Len(b.lines) \in Nat /\ Len(b.lines) - b.base = h
  BY LenProperties DEF Buffer
<1>2. fitted(b, rows, y, active) = IF rows >= h THEN [b |-> grown, d |-> pull]
                                                ELSE [b |-> cut, d |-> drop + rows - h]
  BY <1>1 DEF fitted
<1>3. CASE rows >= h
  <2>1. pull \in Nat /\ pull <= b.base /\ pull <= rows - h
    BY <1>1, <1>3 DEF Least
  <2> HIDE DEF pull
  <2>2. rows - h - pull \in Nat /\ b.base - pull \in Nat
    BY <1>1, <1>3, <2>1
  <2>3. more \in Seq(Row) /\ Len(more) = rows - h - pull
    BY <2>2, BlankBuffer
  <2> HIDE DEF more
  <2>4. b.lines \o more \in Seq(Row) /\ Len(b.lines \o more) = (b.base - pull) + rows
    <3>1. b.lines \o more \in Seq(Row) /\ Len(b.lines \o more) = Len(b.lines) + Len(more)
      BY <1>1, <2>3, ConcatProperties
    <3>2. \A i, j, k, m \in Int : (i + j) + (k - j - m) = (i - m) + k
      OBVIOUS
    <3>3. (b.base + h) + (rows - h - pull) = (b.base - pull) + rows
      BY <1>1, <2>1, <3>2
    <3> QED BY <2>3, <3>1, <3>3
  <2>5. grown \in Buffer /\ grown.base = b.base - pull /\ grown.lines = b.lines \o more
    BY <2>2, <2>4 DEF Buffer
  <2> HIDE DEF grown
  <2>6. fitted(b, rows, y, active) = [b |-> grown, d |-> pull]
    BY <1>2, <1>3
  <2>7. Holds(grown, rows)
    BY <2>4, <2>5 DEF Holds
  <2> QED BY <2>1, <2>5, <2>6, <2>7
<1>4. CASE ~(rows >= h)
  <2>1. drop \in Nat /\ drop <= h - rows
    BY <1>1, <1>4 DEF Least
  <2> HIDE DEF drop
  <2>2. h - rows - drop \in Nat /\ b.base + (h - rows - drop) \in Nat
        /\ Len(b.lines) - drop \in Nat /\ Len(b.lines) - drop <= Len(b.lines)
        /\ drop + rows - h \in Int
    BY <1>1, <1>4, <2>1
  <2>3. less \in Seq(Row) /\ Len(less) = Len(b.lines) - drop
    <3>1. \A k \in 1..Len(b.lines) : b.lines[k] \in Row
      BY <1>1, ElementOfSeq
    <3>2. less \in Seq(Row)
          /\ Len(less) = IF 1 <= Len(b.lines) - drop THEN (Len(b.lines) - drop) - 1 + 1 ELSE 0
      <4>1. \A i \in 1..(Len(b.lines) - drop) : b.lines[i] \in Row
        BY <1>1, <2>1, <3>1
      <4>2. 1 \in Int /\ Len(b.lines) - drop \in Int
        BY <2>2
      <4> QED BY <4>1, <4>2, SubSeqProperties, <1>1, <2>2
    <3> QED BY <2>2, <3>2
  <2>4. Len(less) = (b.base + (h - rows - drop)) + rows
    <3>1. \A i, j, k, m \in Int : (i + j) - m = (i + (j - k - m)) + k
      OBVIOUS
    <3>2. (b.base + h) - drop = (b.base + (h - rows - drop)) + rows
      BY <1>1, <2>1, <3>1
    <3> QED BY <2>3, <3>2
  <2> HIDE DEF less
  <2>5. cut \in Buffer /\ cut.base = b.base + (h - rows - drop) /\ cut.lines = less
    BY <2>2, <2>3 DEF Buffer
  <2> HIDE DEF cut
  <2>6. fitted(b, rows, y, active) = [b |-> cut, d |-> drop + rows - h]
    BY <1>2, <1>4
  <2>7. Holds(cut, rows)
    BY <2>4, <2>5 DEF Holds
  <2> QED BY <2>2, <2>5, <2>6, <2>7
<1> QED BY <1>3, <1>4

\* The screen follows the window.
LEMMA ScreenFits ==
    ASSUME NEW s \in Screens, NEW g \in [cols : Nat \ {0, 1}, rows : Nat \ {0}]
    PROVE  fit(s, g) \in Screens
<1> DEFINE m == fitted(s.main, g.rows, s.y, onMain(s))
           a == fitted(s.alt, g.rows, s.y, TRUE)
           alt == IF onMain(s) THEN NoBuffer ELSE a.b
           x == Least(s.x, g.cols)
           y == rides(s.y, IF onMain(s) THEN m.d ELSE a.d, g.rows)
           new == [s EXCEPT !.cols = g.cols, !.rows = g.rows, !.main = m.b, !.alt = alt,
                            !.top = 0, !.bottom = g.rows - 1, !.x = x, !.y = y]
<1>1. g.rows \in Nat \ {0} /\ g.cols \in Nat /\ g.cols >= 2 /\ g.rows - 1 \in Nat
  OBVIOUS
<1>2. /\ s.main \in Buffer /\ s.alt \in Buffer /\ s.rows \in Nat \ {0} /\ s.y \in Nat /\ s.y < s.rows
      /\ Len(s.main.lines) = s.main.base + s.rows /\ s.x \in Nat
      /\ ~onMain(s) => Len(s.alt.lines) = s.alt.base + s.rows
  BY DEF Screens, ScreenType, Shaped, Sized, Holds
<1>3. onMain(s) \in BOOLEAN
  BY DEF onMain
<1>4. m.b \in Buffer /\ Holds(m.b, g.rows) /\ m.d \in Int
  BY <1>1, <1>2, <1>3, BufferFits
<1>5. ~onMain(s) => a.b \in Buffer /\ Holds(a.b, g.rows) /\ a.d \in Int
  BY <1>1, <1>2, BufferFits
<1> HIDE DEF m, a
<1>6. alt \in Buffer /\ (alt.lines = <<>> \/ Holds(alt, g.rows))
  BY <1>5, BlankBuffer, 0 \in Nat
<1>7. x \in Nat /\ x <= g.cols
  BY <1>1, <1>2 DEF Least
<1>8. y \in Nat /\ y < g.rows
  <2>1. \A d \in Int : rides(s.y, d, g.rows) \in Nat /\ rides(s.y, d, g.rows) < g.rows
    BY <1>1, <1>2 DEF rides, Most, Least
  <2> QED BY <1>4, <1>5, <2>1
<1>9. fit(s, g) = IF g = [cols |-> s.cols, rows |-> s.rows] THEN s ELSE moved(new)
  BY DEF fit, m, a
<1> HIDE DEF alt, x, y
<1>10. new \in ScreenType /\ new.cols = g.cols /\ new.rows = g.rows /\ new.main = m.b /\ new.alt = alt
       /\ new.top = 0 /\ new.bottom = g.rows - 1 /\ new.x = x /\ new.y = y
  <2>1. s \in ScreenType
    BY DEF Screens
  <2> QED BY <1>1, <1>4, <1>6, <1>7, <1>8, <2>1 DEF ScreenType
<1> HIDE DEF new
<1>11. Sized(new)
  BY <1>1, <1>4, <1>6, <1>7, <1>8, <1>10 DEF Sized, onMain
<1>12. moved(new) \in Screens
  BY <1>10, <1>11, MovedIsShaped
<1> QED BY <1>9, <1>12
-----------------------------------------------------------------------------
(***************************************************************************)
(* Control sequences.                                                      *)
(***************************************************************************)
LEMMA AltMoves ==
    ASSUME NEW s \in Screens, NEW b \in Buffer, b.lines = <<>> \/ Holds(b, s.rows)
    PROVE  [s EXCEPT !.alt = b] \in Screens
  BY DEF Screens, ScreenType, Shaped, Sized, onMain

LEMMA ModeSet ==
    ASSUME NEW s \in Screens, NEW p, NEW on \in BOOLEAN
    PROVE  mode(s, p, on) \in Screens
<1> DEFINE v    == IF p = AltSaved THEN save(s) ELSE s
           over == IF onMain(s) THEN [v EXCEPT !.alt = buffer(s.rows)] ELSE v
           m    == [s EXCEPT !.alt = NoBuffer]
           back == IF p = AltSaved THEN restore(m) ELSE m
           y    == IF on THEN s.top ELSE 0
           o    == [s EXCEPT !.origin = on]
           home == [s EXCEPT !.origin = on, !.x = 0, !.y = y]
           wrap == [s EXCEPT !.wrap = on]
<1>1. over \in Screens
  <2>1. v \in Screens /\ v.rows = s.rows
    BY CursorSaved DEF Same
  <2> HIDE DEF v
  <2>2. buffer(s.rows) \in Buffer /\ Holds(buffer(s.rows), s.rows)
    BY BlankBuffer, ScreenNumbers DEF Holds
  <2> QED BY <2>1, <2>2, AltMoves
<1>2. back \in Screens
  <2>1. m \in Screens
    BY BlankBuffer, 0 \in Nat, AltMoves
  <2> HIDE DEF m
  <2> QED BY <2>1, CursorRestored
<1>3. home \in Screens
  <2>1. y \in Nat /\ y < s.rows /\ 0 \in Nat /\ 0 <= s.cols
    BY ScreenNumbers
  <2> HIDE DEF y
  <2>2. o \in Screens
    BY FlagsMove
  <2>3. o.cols = s.cols /\ o.rows = s.rows
    BY <2>2 DEF Screens, ScreenType
  <2>4. home = [o EXCEPT !.x = 0, !.y = y]
    OBVIOUS
  <2> HIDE DEF o
  <2> QED BY <2>1, <2>2, <2>3, <2>4, CursorMoves
<1>4. wrap \in Screens
  BY FlagsMove
<1> QED BY <1>1, <1>2, <1>3, <1>4, Zenon DEF mode

LEMMA ModesSet ==
    ASSUME NEW s \in Screens, NEW ps, NEW on \in BOOLEAN, NEW n \in Nat
    PROVE  n = Len(ps) => modes(s, ps, on) \in Screens
<1> DEFINE S == Screens
           F == [k \in 1..n |-> [t \in S |-> mode(t, ps[k], on)]]
           D(f) == f = [k \in 0..n |-> IF k = 0 THEN s ELSE mode(f[k - 1], ps[k], on)]
           h == CHOOSE f : D(f)
<1>1. s \in S /\ \A t \in S : \A k \in 1..n : mode(t, ps[k], on) \in S
  BY ModeSet
<1> HIDE DEF S
<1>2. \E f : D(f)
  <2>0. F \in [1..n -> [S -> S]]
    BY <1>1
  <2>1. \A k \in 1..n : \A t \in S : F[k][t] = mode(t, ps[k], on)
    OBVIOUS
  <2> HIDE DEF F
  <2>2. PICK f \in [0..n -> S] : f[0] = s /\ \A k \in 1..n : f[k] = F[k][f[k - 1]]
    <3>1. s \in S
      BY <1>1
    <3> QED BY <2>0, <3>1, StepsExist
  <2>3. ASSUME NEW k \in 0..n PROVE f[k] = IF k = 0 THEN s ELSE mode(f[k - 1], ps[k], on)
    <3>1. k # 0 => f[k - 1] \in S /\ k \in 1..n
      OBVIOUS
    <3> QED BY <2>1, <2>2, <3>1
  <2>4. D(f)
    BY <2>2, <2>3
  <2> QED BY <2>4
<1>3. D(h)
  BY <1>2
<1> HIDE DEF h
<1>4. h[0] \in S /\ \A k \in 1..n : h[k - 1] \in S => h[k] \in S
  BY <1>1, <1>3
<1>5. h[n] \in S
  BY <1>4, StepsStay
<1>6. n = Len(ps) => modes(s, ps, on) = h[n]
  BY DEF modes, h
<1> QED BY <1>5, <1>6 DEF S

\* A sequence has at least one number.
LEMMA NumbersRead ==
    ASSUME NEW params, NEW n \in Nat
    PROVE  n = Len(params) =>
             numbers(params) \in Seq(Nat) /\ Len(numbers(params)) >= 1 /\ numbers(params)[1] \in Nat
<1> DEFINE S == {r \in [ps : Seq(Nat), reads : BOOLEAN] : Len(r.ps) >= 1}
           a == [ps |-> <<0>>, reads |-> TRUE]
           digit(c) == CHOOSE d \in 0..9 : Numerals[d + 1] = c
           step(r, c) == IF c = ";" THEN [ps |-> Append(r.ps, 0), reads |-> TRUE]
                         ELSE IF r.reads /\ c \in ToSet(Numerals)
                         THEN [r EXCEPT !.ps[Len(r.ps)] = 10 * @ + digit(c)]
                         ELSE [r EXCEPT !.reads = FALSE]
           F == [k \in 1..n |-> [r \in S |-> step(r, params[k])]]
           D(f) == f = [k \in 0..n |->
                          IF k = 0 THEN a
                          ELSE IF params[k] = ";" THEN [ps |-> Append(f[k - 1].ps, 0), reads |-> TRUE]
                          ELSE IF f[k - 1].reads /\ params[k] \in ToSet(Numerals)
                          THEN [f[k - 1] EXCEPT !.ps[Len(f[k - 1].ps)] =
                                    10 * @ + CHOOSE d \in 0..9 : Numerals[d + 1] = params[k]]
                          ELSE [f[k - 1] EXCEPT !.reads = FALSE]]
           h == CHOOSE f : D(f)
<1>1. a \in S
  <2>1. <<0>> \in Seq(Nat) /\ Len(<<0>>) = 1
    OBVIOUS
  <2> QED BY <2>1
<1>2. ASSUME NEW r \in S, NEW c PROVE step(r, c) \in S
  <2>1. r.ps \in Seq(Nat) /\ Len(r.ps) \in Nat /\ Len(r.ps) >= 1 /\ r.reads \in BOOLEAN
        /\ r \in [ps : Seq(Nat), reads : BOOLEAN]
    BY LenProperties
  <2>2. CASE c = ";"
    <3>1. Append(r.ps, 0) \in Seq(Nat) /\ Len(Append(r.ps, 0)) = Len(r.ps) + 1
      BY <2>1, AppendProperties
    <3>2. step(r, c) = [ps |-> Append(r.ps, 0), reads |-> TRUE]
      BY <2>2
    <3> HIDE DEF step
    <3>3. [ps |-> Append(r.ps, 0), reads |-> TRUE] \in S
      BY <2>1, <3>1
    <3> QED BY <3>2, <3>3
  <2>3. CASE c # ";" /\ r.reads /\ c \in ToSet(Numerals)
    <3>1. \E d \in 0..9 : Numerals[d + 1] = c
      <4>1. PICK i \in DOMAIN Numerals : Numerals[i] = c
        BY <2>3 DEF ToSet
      <4>2. i \in 1..10
        BY DEF Numerals
      <4>3. i - 1 \in 0..9 /\ (i - 1) + 1 = i
        BY <4>2
      <4> QED BY <4>1, <4>3
    <3>2. digit(c) \in 0..9
      BY <3>1
    <3> HIDE DEF digit
    <3>3. r.ps[Len(r.ps)] \in Nat
      BY <2>1, ElementOfSeq
    <3>4. 10 * r.ps[Len(r.ps)] + digit(c) \in Nat
      BY <3>2, <3>3
    <3> DEFINE q == [r.ps EXCEPT ![Len(r.ps)] = 10 * r.ps[Len(r.ps)] + digit(c)]
    <3>5. q \in Seq(Nat) /\ Len(q) = Len(r.ps)
      BY <2>1, <3>4, ExceptSeq
    <3>6. step(r, c) = [r EXCEPT !.ps = q]
      BY <2>1, <2>3
    <3> HIDE DEF q
    <3>7. [r EXCEPT !.ps = q] \in S
      BY <2>1, <3>5
    <3> QED BY <3>6, <3>7
  <2>4. CASE c # ";" /\ ~(r.reads /\ c \in ToSet(Numerals))
    <3>1. step(r, c) = [r EXCEPT !.reads = FALSE]
      BY <2>4
    <3> QED BY <2>1, <3>1
  <2> QED BY <2>2, <2>3, <2>4
<1> HIDE DEF S, a
<1>3. \E f : D(f)
  <2>0. F \in [1..n -> [S -> S]] /\ \A k \in 1..n : \A r \in S : F[k][r] = step(r, params[k])
    <3> HIDE DEF step
    <3> QED BY <1>2
  <2> HIDE DEF F
  <2>2. PICK f \in [0..n -> S] : f[0] = a /\ \A k \in 1..n : f[k] = F[k][f[k - 1]]
    <3> HIDE DEF step
    <3>1. a \in S
      BY <1>1
    <3>2. F \in [1..n -> [S -> S]]
      BY <2>0
    <3> QED BY <3>1, <3>2, StepsExist
  <2>3. ASSUME NEW k \in 0..n, k # 0 PROVE f[k] = step(f[k - 1], params[k])
    <3>1. f[k - 1] \in S /\ k \in 1..n
      BY <2>3
    <3> HIDE DEF step
    <3> QED BY <2>0, <2>2, <3>1
  <2>4. f = [k \in 0..n |-> IF k = 0 THEN a ELSE step(f[k - 1], params[k])]
    <3> HIDE DEF step
    <3> QED BY <2>2, <2>3
  <2>5. D(f)
    BY <2>4
  <2> QED BY <2>5
<1>4. D(h)
  BY <1>3
<1> HIDE DEF h
<1>12. h = [k \in 0..n |-> IF k = 0 THEN a ELSE step(h[k - 1], params[k])]
  BY <1>4, Zenon
<1> HIDE DEF step
<1>5. ASSUME NEW k \in 1..n, h[k - 1] \in S PROVE h[k] \in S
  <2>1. h[k] = step(h[k - 1], params[k])
    BY <1>12
  <2> QED BY <1>2, <1>5, <2>1
<1>6. h[0] = a
  BY <1>12
<1>7. h[n] \in S
  BY <1>1, <1>5, <1>6, StepsStay
<1>8. n = Len(params) => numbers(params) = h[n].ps
  BY DEF numbers, h, a
<1>9. h[n].ps \in Seq(Nat) /\ Len(h[n].ps) >= 1
  BY <1>7 DEF S
<1>10. 1 \in 1..Len(h[n].ps)
  BY <1>9, LenProperties
<1>11. h[n].ps[1] \in Nat
  BY <1>9, <1>10, ElementOfSeq
<1> QED BY <1>8, <1>9, <1>11

LEMMA StartsAfresh ==
    ASSUME NEW s \in Screens
    PROVE  afresh(s) \in Screens /\ Same(s, afresh(s))
<1> DEFINE l == [line(s, s.y) EXCEPT !.wrapped = FALSE]
<1>1. s.y \in Nat /\ s.y < s.rows
  BY ScreenNumbers
<1>2. l \in Row
  BY <1>1, LineOf DEF Row
<1>3. afresh(s) = withLine(s, s.y, l)
  BY DEF afresh
<1> HIDE DEF l
<1> QED BY <1>1, <1>2, <1>3, LineMoves

\* Parts of the cursor's row are erased.
LEMMA ErasedAtCursor ==
    ASSUME NEW s \in Screens, NEW n \in Nat
    PROVE  /\ cellsAt(s) \in Cells
           /\ erase(cellsAt(s), Least(s.x, s.cols), Len(cellsAt(s))) \in Cells
           /\ erase(cellsAt(s), 0, Least(s.x, s.cols - 1) + 1) \in Cells
           /\ erase(cellsAt(s), 0, inside(s).x + 1) \in Cells
           /\ erase(cellsAt(s), inside(s).x, inside(s).x + n) \in Cells
<1> DEFINE c == cellsAt(s)
<1>1. c \in Cells
  BY CellsMove
<1>2. Len(c) \in Nat
  BY <1>1, LenProperties DEF Cells
<1>3. Least(s.x, s.cols) \in Nat /\ Least(s.x, s.cols - 1) + 1 \in Nat
  BY ScreenNumbers DEF Least
<1>4. inside(s).x \in Nat /\ inside(s).x + 1 \in Nat /\ inside(s).x + n \in Nat
      /\ inside(s).x <= inside(s).x + n
  BY CursorInside
<1> HIDE DEF c
<1>5. \A i, j \in Nat : i <= j \/ j = Len(c) => erase(c, i, j) \in Cells
  BY <1>1, ErasedCells
<1>6. erase(c, Least(s.x, s.cols), Len(c)) \in Cells
  BY <1>2, <1>3, <1>5
<1>7. erase(c, 0, Least(s.x, s.cols - 1) + 1) \in Cells /\ erase(c, 0, inside(s).x + 1) \in Cells
  BY <1>3, <1>4, <1>5
<1>8. erase(c, inside(s).x, inside(s).x + n) \in Cells
  BY <1>4, <1>5
<1> QED BY <1>1, <1>6, <1>7, <1>8 DEF c

LEMMA DisplayErased ==
    ASSUME NEW s \in Screens, NEW p
    PROVE  eraseDisplay(s, p) \in Screens
<1> DEFINE onto == IF p = 0 /\ s.x = 0 THEN afresh(s) ELSE s
           e0   == withCells(onto, erase(cellsAt(s), Least(s.x, s.cols), Len(cellsAt(s))))
           e1   == withCells(onto, erase(cellsAt(s), 0, Least(s.x, s.cols - 1) + 1))
           row  == CASE p = 0 -> e0 [] p = 1 -> e1 [] OTHER -> onto
           off  == {i \in 0..(s.rows - 1) : p = 2 \/ (p = 0 /\ i > s.y) \/ (p = 1 /\ i < s.y)}
           b    == buf(row)
           new  == [k \in 1..Len(b.lines) |->
                      IF k - b.base - 1 \in off THEN newRow ELSE b.lines[k]]
           t    == withLines(row, new)
           u    == t.unsure /\ ~(p = 2 \/ (p = 0 /\ s.x = 0 /\ s.y = 0))
<1>1. onto \in Screens
  BY StartsAfresh
<1> HIDE DEF onto
<1>2. e0 \in Screens /\ e1 \in Screens
  BY <1>1, ErasedAtCursor, CellsMove, 0 \in Nat
<1> HIDE DEF e0, e1
<1>3. row \in Screens
  BY <1>1, <1>2, Zenon
<1> HIDE DEF row
<1>4. b.lines \in Seq(Row) /\ Len(b.lines) \in Nat
  BY <1>3, BufOf, LenProperties DEF Buffer
<1> HIDE DEF b, off
<1>5. new \in Seq(Row) /\ Len(new) = Len(b.lines)
  <2>1. new \in [1..Len(b.lines) -> Row]
    BY <1>4, NoCells, ElementOfSeq
  <2> HIDE DEF new
  <2> QED BY <1>4, <2>1, FunctionIsSeq
<1> HIDE DEF new
<1>6. t \in Screens
  BY <1>3, <1>5, LinesMove DEF b
<1> HIDE DEF t
<1>7. u \in BOOLEAN
  OBVIOUS
<1>8. [t EXCEPT !.unsure = u] \in Screens
  <2> HIDE DEF u
  <2> QED BY <1>6, <1>7, FlagsMove
<1>9. eraseDisplay(s, p) = [t EXCEPT !.unsure = u]
  BY Zenon DEF eraseDisplay, u, t, new, off, b, row, e0, e1, onto
<1> QED BY <1>8, <1>9

LEMMA ScrollbackDropped ==
    ASSUME NEW s \in Screens
    PROVE  dropScrollback(s) \in Screens
<1> DEFINE l == SubSeq(s.main.lines, s.main.base + 1, Len(s.main.lines))
           b == [s.main EXCEPT !.lines = l, !.base = 0]
<1>1. s.main \in Buffer /\ Len(s.main.lines) = s.main.base + s.rows /\ s.rows \in Nat
      /\ s.main.base \in Nat /\ s.main.lines \in Seq(Row) /\ s.rows >= 1
  BY DEF Screens, ScreenType, Shaped, Sized, Holds, Buffer
<1>2. \A k \in 1..Len(s.main.lines) : s.main.lines[k] \in Row
  BY <1>1, ElementOfSeq
<1>3. s.main.base + 1 \in Int /\ Len(s.main.lines) \in Int
      /\ s.main.base + 1 <= Len(s.main.lines)
      /\ Len(s.main.lines) - (s.main.base + 1) + 1 = s.rows
  BY <1>1
<1>4. l \in Seq(Row) /\ Len(l) = s.rows
  <2>1. \A k \in (s.main.base + 1)..Len(s.main.lines) : s.main.lines[k] \in Row
    BY <1>1, <1>2
  <2> QED BY <1>3, <2>1, SubSeqProperties
<1> HIDE DEF l
<1>5. b \in Buffer /\ Holds(b, s.rows)
  <2>1. b \in Buffer /\ b.lines = l /\ b.base = 0
    BY <1>1, <1>4 DEF Buffer
  <2>2. s.rows = 0 + s.rows
    BY <1>1
  <2> HIDE DEF b
  <2> QED BY <1>4, <2>1, <2>2 DEF Holds
<1>6. dropScrollback(s) = IF onMain(s) THEN moved(withBuf(s, b)) ELSE s
  BY DEF dropScrollback, l
<1> HIDE DEF b
<1> QED BY <1>5, <1>6, BufReplaced, MovedIsShaped

\* The cursor is moved: it stays on the screen.
LEMMA CursorSent ==
    ASSUME NEW s \in Screens, NEW n \in Nat \ {0}, NEW p2 \in Nat
    PROVE  /\ cursorUp(s, n) \in Screens /\ [cursorUp(s, n) EXCEPT !.x = 0] \in Screens
           /\ cursorDown(s, n) \in Screens /\ [cursorDown(s, n) EXCEPT !.x = 0] \in Screens
           /\ [s EXCEPT !.x = Least(s.cols - 1, @ + n)] \in Screens
           /\ [s EXCEPT !.x = Most(0, inside(s).x - n)] \in Screens
           /\ [s EXCEPT !.x = Least(s.cols, n) - 1] \in Screens
           /\ [inside(s) EXCEPT !.y = toRow(s, n - 1)] \in Screens
           /\ [s EXCEPT !.y = toRow(s, n - 1), !.x = Least(s.cols, Most(1, p2)) - 1] \in Screens
<1> DEFINE N == Least(s.cols - 1, s.x + n)
           u == Most(IF s.y >= s.top THEN s.top ELSE 0, s.y - n)
           d == Least(IF s.y <= s.bottom THEN s.bottom ELSE s.rows - 1, s.y + n)
           r == toRow(s, n - 1)
           back == Most(0, inside(s).x - n)
           to == Least(s.cols, n) - 1
           col == Least(s.cols, Most(1, p2)) - 1
<1>1. /\ s.cols \in Nat /\ s.rows \in Nat /\ s.x \in Nat /\ s.y \in Nat
      /\ s.top \in Nat /\ s.bottom \in Nat
      /\ s.cols >= 2 /\ s.rows >= 1 /\ s.x <= s.cols /\ s.y < s.rows
      /\ s.top <= s.bottom /\ s.bottom < s.rows
  BY ScreenNumbers
<1>2. N \in Nat /\ N <= s.cols
  BY <1>1 DEF Least
<1>3. u \in Nat /\ u < s.rows
  BY <1>1 DEF Most
<1>4. d \in Nat /\ d < s.rows
  BY <1>1 DEF Least
<1>5. r \in Nat /\ r < s.rows
  BY <1>1 DEF Least, toRow
<1>6. back \in Nat /\ back <= s.cols
  BY <1>1, CursorInside DEF Most
<1>7. to \in Nat /\ to <= s.cols
  BY <1>1 DEF Least
<1>8. col \in Nat /\ col <= s.cols
  BY <1>1 DEF Least, Most
<1>9. cursorUp(s, n) = [inside(s) EXCEPT !.y = u] /\ cursorDown(s, n) = [inside(s) EXCEPT !.y = d]
  <2>1. inside(s).y = s.y
    BY CursorInside
  <2> QED BY <2>1 DEF cursorUp, cursorDown
<1> HIDE DEF N, u, d, r, back, to, col
<1>10. inside(s) \in Screens /\ inside(s).rows = s.rows
  BY CursorInside
<1>11. \A y \in Nat : y < s.rows => [inside(s) EXCEPT !.y = y] \in Screens
  BY <1>10, CursorMoves, 0 \in Nat
<1>12. cursorUp(s, n) \in Screens /\ cursorDown(s, n) \in Screens
  BY <1>3, <1>4, <1>9, <1>11
<1>13. \A t \in Screens : [t EXCEPT !.x = 0] \in Screens
  <2>1. \A t \in Screens : 0 <= t.cols /\ 0 \in Nat
    BY ScreenNumbers
  <2> QED BY <2>1, CursorMoves
<1>14. \A x \in Nat : x <= s.cols => [s EXCEPT !.x = x] \in Screens
  BY CursorMoves, 0 \in Nat
<1>15. [s EXCEPT !.x = N] \in Screens /\ [s EXCEPT !.x = back] \in Screens
       /\ [s EXCEPT !.x = to] \in Screens
  BY <1>2, <1>6, <1>7, <1>14
<1>16. [inside(s) EXCEPT !.y = r] \in Screens
  BY <1>5, <1>11
<1>17. [s EXCEPT !.y = r, !.x = col] \in Screens
  BY <1>5, <1>8, CursorMoves
<1> QED BY <1>12, <1>13, <1>15, <1>16, <1>17 DEF N, back, to, r, col

LEMMA RowEdited ==
    ASSUME NEW s \in Screens, NEW n \in Nat, NEW p
    PROVE  /\ eraseLine(s, p) \in Screens
           /\ insertChars(s, n) \in Screens
           /\ deleteChars(s, n) \in Screens
           /\ inside(withCells(s, erase(cellsAt(s), inside(s).x, inside(s).x + n))) \in Screens
<1>1. cellsAt(s) \in Cells /\ \A c \in Cells : withCells(s, c) \in Screens
  BY CellsMove
<1>2. inside(s).x \in Nat
  BY CursorInside
<1>3. \A t \in Screens : inside(t) \in Screens
  BY CursorInside
<1>4. eraseLine(s, p) \in Screens
  <2> DEFINE c == CASE p = 0 -> erase(cellsAt(s), Least(s.x, s.cols), Len(cellsAt(s)))
                    [] p = 1 -> erase(cellsAt(s), 0, inside(s).x + 1)
                    [] p = 2 -> <<>>
                    [] OTHER -> cellsAt(s)
  <2>1. erase(cellsAt(s), Least(s.x, s.cols), Len(cellsAt(s))) \in Cells
        /\ erase(cellsAt(s), 0, inside(s).x + 1) \in Cells /\ <<>> \in Cells /\ cellsAt(s) \in Cells
    BY ErasedAtCursor, NoCells, 0 \in Nat
  <2>2. c \in Cells
    BY <2>1, Zenon
  <2>3. eraseLine(s, p) = withCells(s, c)
    BY Zenon DEF eraseLine
  <2> HIDE DEF c
  <2> QED BY <1>1, <2>2, <2>3
<1>5. insertChars(s, n) \in Screens
  <2> DEFINE c == shift(cellsAt(s), inside(s).x, Least(n, s.cols), s.cols)
  <2>1. Least(n, s.cols) \in Nat /\ s.cols \in Nat
    BY ScreenNumbers DEF Least
  <2>2. c \in Cells
    BY <1>1, <1>2, <2>1, ShiftedCells
  <2>3. insertChars(s, n) = inside(withCells(s, c))
    BY DEF insertChars
  <2> HIDE DEF c
  <2> QED BY <1>1, <1>3, <2>2, <2>3
<1>6. deleteChars(s, n) \in Screens
  <2> DEFINE x == inside(s).x
             e == erase(erase(cellsAt(s), x, x), x + n, x + n)
             c == SubSeq(e, 1, Least(x, Len(e))) \o SubSeq(e, x + n + 1, Len(e))
  <2>1. c \in Cells
    BY <1>1, <1>2, DeletedCells
  <2>2. deleteChars(s, n) = inside(withCells(s, c))
    BY DEF deleteChars
  <2> HIDE DEF c
  <2> QED BY <1>1, <1>3, <2>1, <2>2
<1>7. inside(withCells(s, erase(cellsAt(s), inside(s).x, inside(s).x + n))) \in Screens
  BY <1>1, <1>3, ErasedAtCursor
<1> QED BY <1>4, <1>5, <1>6, <1>7

LEMMA RowsEdited ==
    ASSUME NEW s \in Screens, NEW n \in Nat, s.y \in s.top..s.bottom
    PROVE  insertRows(s, n) \in Screens /\ deleteRows(s, n) \in Screens
<1> DEFINE m == Least(n, s.bottom - s.y + 1)
           in == Repeat(LAMBDA t : pushDown(t, s.y), s, m)
           out == Repeat(LAMBDA t : pullUp(t, s.y), s, m)
<1>1. m \in Nat /\ s.y <= s.bottom
  BY ScreenNumbers DEF Least
<1>2. insertRows(s, n) = [in EXCEPT !.x = 0] /\ deleteRows(s, n) = [out EXCEPT !.x = 0]
  BY Zenon DEF insertRows, deleteRows
<1> HIDE DEF m
<1>3. in \in Screens
  BY <1>1, RowsInserted
<1>4. out \in Screens
  BY <1>1, RowsDeleted
<1> HIDE DEF in, out
<1>5. \A t \in Screens : [t EXCEPT !.x = 0] \in Screens
  <2>1. \A t \in Screens : 0 <= t.cols /\ 0 \in Nat
    BY ScreenNumbers
  <2> QED BY <2>1, CursorMoves
<1> QED BY <1>2, <1>3, <1>4, <1>5

LEMMA RegionMoves ==
    ASSUME NEW s \in Screens, NEW t \in Nat, NEW b \in Nat, t <= b, b < s.rows
    PROVE  [s EXCEPT !.top = t, !.bottom = b] \in Screens
  BY DEF Screens, ScreenType, Shaped, Sized, onMain

LEMMA RegionSet ==
    ASSUME NEW s \in Screens, NEW p1 \in Nat, NEW p2 \in Nat
    PROVE  scrollRegion(s, p1, p2) \in Screens
<1> DEFINE t == Most(1, p1) - 1
           b == Least(s.rows, IF p2 = 0 THEN s.rows ELSE p2) - 1
           y == IF s.origin THEN t ELSE 0
           r == [s EXCEPT !.top = t, !.bottom = b]
<1>1. t \in Nat /\ b \in Int /\ b < s.rows /\ s.rows \in Nat /\ s.rows >= 1
  BY ScreenNumbers DEF Most, Least
<1>2. scrollRegion(s, p1, p2) = IF t < b THEN [r EXCEPT !.x = 0, !.y = y] ELSE s
  BY DEF scrollRegion
<1> HIDE DEF t, b
<1>3. CASE t < b
  <2>1. b \in Nat /\ t <= b
    BY <1>1, <1>3
  <2>2. r \in Screens /\ r.rows = s.rows /\ r.cols = s.cols
    <3>1. r \in Screens
      BY <1>1, <2>1, RegionMoves
    <3> QED BY <3>1 DEF Screens, ScreenType
  <2>3. y \in Nat /\ y < r.rows /\ 0 \in Nat /\ 0 <= r.cols
    <3>1. r.cols \in Nat
      BY <2>2, ScreenNumbers
    <3> QED BY <1>1, <1>3, <2>1, <2>2, <3>1
  <2> HIDE DEF r, y
  <2>4. [r EXCEPT !.x = 0, !.y = y] \in Screens
    BY <2>2, <2>3, CursorMoves
  <2> QED BY <1>2, <1>3, <2>4
<1>4. CASE ~(t < b)
  BY <1>2, <1>4
<1> QED BY <1>3, <1>4

LEMMA SoftlyReset ==
    ASSUME NEW s \in Screens
    PROVE  softReset(s) \in Screens
<1> DEFINE r == [s EXCEPT !.top = 0, !.bottom = s.rows - 1]
           t == [s EXCEPT !.top = 0, !.bottom = s.rows - 1, !.wrap = TRUE,
                          !.origin = FALSE, !.insert = FALSE]
           b == [buf(s) EXCEPT !.saved = NoSave]
<1>1. r \in Screens
  <2>1. 0 \in Nat /\ s.rows - 1 \in Nat /\ 0 <= s.rows - 1 /\ s.rows - 1 < s.rows
    BY ScreenNumbers
  <2> QED BY <2>1, RegionMoves
<1>2. t = [r EXCEPT !.wrap = TRUE, !.origin = FALSE, !.insert = FALSE]
  BY DEF Screens, ScreenType
<1>3. t.rows = s.rows /\ (onMain(t) <=> onMain(s))
  BY DEF onMain, Screens, ScreenType
<1> HIDE DEF r
<1>4. t \in Screens
  <2> HIDE DEF t
  <2> QED BY <1>1, <1>2 DEF Screens, ScreenType, Shaped, Sized, onMain
<1>5. b \in Buffer /\ Holds(b, s.rows) /\ NamesRow(b)
  BY BufOf DEF Buffer, Holds, NamesRow, NoSave, Saved
<1>6. softReset(s) = withBuf(t, b)
  BY DEF softReset
<1> HIDE DEF t, b
<1> QED BY <1>3, <1>4, <1>5, <1>6, BufMoves

\* A sequence leaves a screen, whatever its last character and its numbers.
LEMMA PublicSequence ==
    ASSUME NEW s \in Screens, NEW final, NEW ps, ps \in Seq(Nat), Len(ps) >= 1, ps[1] \in Nat
    PROVE  public(s, final, ps) \in Screens
<1> DEFINE n  == Most(1, ps[1])
           p2 == IF Len(ps) > 1 THEN ps[2] ELSE 0
           up == cursorUp(s, n)
           down == cursorDown(s, n)
           by == Least(n, s.rows)
<1>1. n \in Nat \ {0}
  BY DEF Most
<1>2. p2 \in Nat
  <2>1. CASE Len(ps) > 1
    <3>1. 2 \in 1..Len(ps)
      BY <2>1, LenProperties
    <3> QED BY <2>1, <3>1, ElementOfSeq
  <2>2. CASE ~(Len(ps) > 1)
    BY <2>2
  <2> QED BY <2>1, <2>2
<1>3. ps[1] \in Nat
  OBVIOUS
<1> HIDE DEF n, p2
<1>4. /\ cursorUp(s, n) \in Screens /\ [cursorUp(s, n) EXCEPT !.x = 0] \in Screens
      /\ cursorDown(s, n) \in Screens /\ [cursorDown(s, n) EXCEPT !.x = 0] \in Screens
      /\ [s EXCEPT !.x = Least(s.cols - 1, @ + n)] \in Screens
      /\ [s EXCEPT !.x = Most(0, inside(s).x - n)] \in Screens
      /\ [s EXCEPT !.x = Least(s.cols, n) - 1] \in Screens
      /\ [inside(s) EXCEPT !.y = toRow(s, n - 1)] \in Screens
      /\ [s EXCEPT !.y = toRow(s, n - 1), !.x = Least(s.cols, Most(1, p2)) - 1] \in Screens
  BY <1>1, <1>2, CursorSent
<1>5. dropScrollback(s) \in Screens /\ eraseDisplay(s, ps[1]) \in Screens
  BY DisplayErased, ScrollbackDropped
<1>6. n \in Nat
  BY <1>1
<1>7. /\ eraseLine(s, ps[1]) \in Screens /\ insertChars(s, n) \in Screens
      /\ deleteChars(s, n) \in Screens
      /\ inside(withCells(s, erase(cellsAt(s), inside(s).x, inside(s).x + n))) \in Screens
  BY <1>6, RowEdited
<1>8. s.y \in s.top..s.bottom => insertRows(s, n) \in Screens /\ deleteRows(s, n) \in Screens
  BY <1>6, RowsEdited
<1>9. scrollUp(s, by) \in Screens /\ scrollDown(s, by) \in Screens
  <2>1. by \in Nat
    BY <1>6, ScreenNumbers DEF Least
  <2> HIDE DEF by
  <2> QED BY <2>1, ScrolledUp, ScrolledDown
<1>10. scrollRegion(s, ps[1], p2) \in Screens
  BY <1>2, <1>3, RegionSet
<1>11. save(s) \in Screens /\ restore(s) \in Screens
  BY CursorSaved, CursorRestored
<1>12. [s EXCEPT !.insert = (final = "h")] \in Screens
  BY FlagsMove
<1> DEFINE within == s.y \in s.top..s.bottom
<1>13. \/ public(s, final, ps) \in
            {up, [up EXCEPT !.x = 0], down, [down EXCEPT !.x = 0],
             [s EXCEPT !.x = Least(s.cols - 1, @ + n)], [s EXCEPT !.x = Most(0, inside(s).x - n)],
             [s EXCEPT !.x = Least(s.cols, n) - 1], [inside(s) EXCEPT !.y = toRow(s, n - 1)],
             [s EXCEPT !.y = toRow(s, n - 1), !.x = Least(s.cols, Most(1, p2)) - 1],
             dropScrollback(s), eraseDisplay(s, ps[1])}
       \/ public(s, final, ps) \in
            {eraseLine(s, ps[1]), insertChars(s, n), deleteChars(s, n),
             inside(withCells(s, erase(cellsAt(s), inside(s).x, inside(s).x + n))),
             scrollUp(s, by), scrollDown(s, by), scrollRegion(s, ps[1], p2), save(s), restore(s),
             [s EXCEPT !.insert = (final = "h")], s}
       \/ within /\ public(s, final, ps) \in {insertRows(s, n), deleteRows(s, n)}
  BY Zenon DEF public, n, p2
<1> HIDE DEF up, down, by, within
<1> QED BY <1>4, <1>5, <1>7, <1>8, <1>9, <1>10, <1>11, <1>12, <1>13 DEF up, down, by, within

LEMMA Dispatched ==
    ASSUME NEW s \in Screens, NEW final
    PROVE  dispatch(s, final) \in Screens
<1> DEFINE all  == numbers(s.params)
           rest == numbers(Tail(s.params))
           on   == final = "h"
<1>1. s.params \in Seq(Chars)
  BY DEF Screens, ScreenType
<1>2. all \in Seq(Nat) /\ Len(all) >= 1 /\ all[1] \in Nat
  <2>1. Len(s.params) \in Nat
    BY <1>1, LenProperties
  <2> QED BY <2>1, NumbersRead
<1>3. s.params # <<>> => rest \in Seq(Nat) /\ Len(rest) \in Nat
  <2>1. SUFFICES ASSUME s.params # <<>> PROVE rest \in Seq(Nat)
    BY LenProperties
  <2>2. Tail(s.params) \in Seq(Chars)
    BY <1>1, <2>1
  <2>3. Len(Tail(s.params)) \in Nat
    BY <2>2, LenProperties
  <2> QED BY <2>3, NumbersRead
<1> HIDE DEF all, rest, on
<1>4. public(s, final, all) \in Screens
  BY <1>2, PublicSequence
<1>5. s.params # <<>> => modes(s, rest, on) \in Screens
  <2>1. on \in BOOLEAN
    BY DEF on
  <2> QED BY <1>3, <2>1, ModesSet
<1>6. softReset(s) \in Screens
  BY SoftlyReset
<1>7. \/ dispatch(s, final) \in {softReset(s), s, public(s, final, all)}
      \/ s.params # <<>> /\ dispatch(s, final) = modes(s, rest, on)
  BY DEF dispatch, all, rest, on
<1> QED BY <1>4, <1>5, <1>6, <1>7
-----------------------------------------------------------------------------
(***************************************************************************)
(* A character, and a chunk.                                               *)
(***************************************************************************)
LEMMA Parsed ==
    ASSUME NEW s \in Screens
    PROVE  /\ \A st \in States : [s EXCEPT !.state = st] \in Screens
           /\ said(s) \in Screens /\ sequence(s) \in Screens /\ string(s) \in Screens
           /\ ignored(s) \in Screens /\ forgotten(s) \in Screens
           /\ s.params \in Seq(Chars) /\ s.inter \in Seq(Chars) /\ s.osc \in Seq(Chars)
<1>1. <<>> \in Seq(Chars) /\ "CSI" \in States /\ "OSC" \in States /\ "STR" \in States
  BY EmptySeq DEF States
<1>2. s.params \in Seq(Chars) /\ s.inter \in Seq(Chars) /\ s.osc \in Seq(Chars)
  BY DEF Screens, ScreenType
<1>3. \A st \in States : [s EXCEPT !.state = st] \in Screens
  BY <1>1, ParserMoves
<1>4. sequence(s) \in Screens
  BY <1>1, ParserMoves DEF sequence
<1>5. string(s) \in Screens
  BY <1>1, ParserMoves DEF string
<1>6. ignored(s) \in Screens
  BY <1>1, ParserMoves DEF ignored
<1>7. forgotten(s) \in Screens
  BY <1>1, ParserMoves DEF forgotten
<1>8. said(s) \in Screens
  <2> DEFINE h == ShellType \in ToSet(s.osc)
  <2>1. h \in BOOLEAN
    OBVIOUS
  <2>2. said(s) \in {[s EXCEPT !.context = IF h THEN "shell" ELSE "command"], s}
    BY DEF said
  <2> HIDE DEF h
  <2>3. [s EXCEPT !.context = IF h THEN "shell" ELSE "command"] \in Screens
    BY <1>1, <2>1, ParserMoves
  <2> QED BY <2>2, <2>3
<1> QED BY <1>2, <1>3, <1>4, <1>5, <1>6, <1>7, <1>8

LEMMA Escaped ==
    ASSUME NEW s \in Screens, NEW ch
    PROVE  escape(s, ch) \in Screens
<1> DEFINE g == [s EXCEPT !.state = "GROUND"]
           e == [s EXCEPT !.state = "ESC_INTER"]
<1>1. g \in Screens /\ e \in Screens
  <2>1. "GROUND" \in States /\ "ESC_INTER" \in States
    BY DEF States
  <2> QED BY <2>1, Parsed
<1>2. reset(g) \in Screens
  <2> HIDE DEF g
  <2>1. g \in ScreenType /\ g.cols >= 2 /\ g.rows >= 1
    BY <1>1 DEF Screens, Shaped, Sized
  <2> QED BY <2>1, ScreenReset
<1>3. lineFeed([g EXCEPT !.x = 0]) \in Screens
  <2> HIDE DEF g
  <2>1. 0 \in Nat /\ 0 <= g.cols
    BY <1>1, ScreenNumbers
  <2>2. [g EXCEPT !.x = 0] \in Screens
    BY <1>1, <2>1, CursorMoves
  <2> QED BY <2>2, LineFed
<1>4. save(g) \in Screens /\ restore(g) \in Screens /\ lineFeed(g) \in Screens
      /\ reverseIndex(g) \in Screens
  <2> HIDE DEF g
  <2> QED BY <1>1, CursorSaved, CursorRestored, LineFed, LineUnfed
<1>5. sequence(s) \in Screens /\ string(s) \in Screens /\ ignored(s) \in Screens
  BY Parsed
<1>6. escape(s, ch) \in {sequence(s), string(s), ignored(s), save(g), restore(g), lineFeed(g),
                         lineFeed([g EXCEPT !.x = 0]), reverseIndex(g), reset(g), e, g}
  BY Zenon DEF escape
<1> HIDE DEF g, e
<1> QED BY <1>1, <1>2, <1>3, <1>4, <1>5, <1>6

LEMMA StringRead ==
    ASSUME NEW s \in Screens, NEW ch \in Chars
    PROVE  inString(s, ch) \in Screens
<1> DEFINE g == [s EXCEPT !.state = "GROUND"]
           e == [s EXCEPT !.state = "STR_ESC"]
           o == [s EXCEPT !.osc = Append(@, ch)]
<1>1. g \in Screens /\ e \in Screens
  <2>1. "GROUND" \in States /\ "STR_ESC" \in States
    BY DEF States
  <2> QED BY <2>1, Parsed
<1>2. said(g) \in Screens
  <2> HIDE DEF g
  <2> QED BY <1>1, Parsed
<1>3. o \in Screens
  <2>1. Append(s.osc, ch) \in Seq(Chars) /\ <<>> \in Seq(Chars) /\ "CSI" \in States
    BY Parsed, AppendProperties, EmptySeq DEF States
  <2> QED BY <2>1, ParserMoves
<1>4. inString(s, ch) \in {said(g), e, s, o}
  BY Zenon DEF inString
<1> HIDE DEF g, e, o
<1> QED BY <1>1, <1>2, <1>3, <1>4

LEMMA GroundRead ==
    ASSUME NEW s \in Screens, NEW ch \in Chars
    PROVE  ground(s, ch) \in Screens
<1> DEFINE e == [s EXCEPT !.state = "ESC"]
<1>1. e \in Screens
  <2>1. "ESC" \in States
    BY DEF States
  <2> QED BY <2>1, Parsed
<1>2. sequence(s) \in Screens /\ string(s) \in Screens /\ ignored(s) \in Screens
  BY Parsed
<1>3. print(s, ch) \in Screens /\ control(s, ch) \in Screens
  BY CharPrinted, Controlled
<1>4. ground(s, ch) \in {print(s, ch), e, sequence(s), string(s), ignored(s), control(s, ch)}
  BY Zenon DEF ground
<1> HIDE DEF e
<1> QED BY <1>1, <1>2, <1>3, <1>4

LEMMA CharRead ==
    ASSUME NEW s \in Screens, NEW ch \in Chars
    PROVE  feed(s, ch) \in Screens
<1> DEFINE g == [s EXCEPT !.state = "GROUND"]
           e == [s EXCEPT !.state = "ESC"]
           c == IF s.state = "STR_ESC" THEN e ELSE s
           p == [s EXCEPT !.params = Append(@, ch)]
           i == [s EXCEPT !.inter = Append(@, ch)]
<1>1. g \in Screens /\ e \in Screens
  <2>1. "GROUND" \in States /\ "ESC" \in States
    BY DEF States
  <2> QED BY <2>1, Parsed
<1>2. p \in Screens /\ i \in Screens
  <2>1. /\ Append(s.params, ch) \in Seq(Chars) /\ Append(s.inter, ch) \in Seq(Chars)
        /\ <<>> \in Seq(Chars) /\ "CSI" \in States
    BY Parsed, AppendProperties, EmptySeq DEF States
  <2> QED BY <2>1, ParserMoves
<1>3. said(g) \in Screens /\ dispatch(g, ch) \in Screens
  <2> HIDE DEF g
  <2> QED BY <1>1, Parsed, Dispatched
<1>4. control(c, ch) \in Screens
  <2>1. c \in Screens
    BY <1>1
  <2> HIDE DEF c
  <2> QED BY <2>1, Controlled
<1>5. ground(s, ch) \in Screens /\ inString(s, ch) \in Screens /\ escape(s, ch) \in Screens
  BY GroundRead, StringRead, Escaped
<1>6. inSequence(s, ch) \in {escape(s, ch), s, g, p, i, dispatch(g, ch)}
  BY Zenon DEF inSequence
<1>7. feed(s, ch) \in {ground(s, ch), g, inString(s, ch), said(g), e, control(c, ch),
                       inSequence(s, ch)}
  BY Zenon DEF feed
<1> HIDE DEF g, e, c, p, i
<1>8. inSequence(s, ch) \in Screens
  BY <1>1, <1>2, <1>3, <1>5, <1>6
<1> QED BY <1>1, <1>3, <1>4, <1>5, <1>7, <1>8

\* A chunk leaves a screen, whatever it holds and wherever it is cut.
LEMMA CharsRead ==
    ASSUME NEW a \in Screens, NEW chunk, NEW n \in Nat
    PROVE  (\A k \in 1..n : chunk[k] \in Chars) =>
               LET f[k \in 0..n] == IF k = 0 THEN a ELSE feed(f[k - 1], chunk[k])
               IN  f[n] \in Screens
<1> DEFINE S == Screens
           F == [k \in 1..n |-> [t \in S |-> feed(t, chunk[k])]]
           D(f) == f = [k \in 0..n |-> IF k = 0 THEN a ELSE feed(f[k - 1], chunk[k])]
           h == CHOOSE f : D(f)
<1>0. SUFFICES ASSUME \A k \in 1..n : chunk[k] \in Chars PROVE h[n] \in S
  BY Zenon
<1>1. a \in S /\ \A t \in S : \A k \in 1..n : feed(t, chunk[k]) \in S
  BY <1>0, CharRead
<1> HIDE DEF S
<1>2. \E f : D(f)
  <2>0. F \in [1..n -> [S -> S]]
    BY <1>1
  <2>1. \A k \in 1..n : \A t \in S : F[k][t] = feed(t, chunk[k])
    OBVIOUS
  <2> HIDE DEF F
  <2>2. PICK f \in [0..n -> S] : f[0] = a /\ \A k \in 1..n : f[k] = F[k][f[k - 1]]
    <3>1. a \in S
      BY <1>1
    <3> QED BY <2>0, <3>1, StepsExist
  <2>3. ASSUME NEW k \in 0..n PROVE f[k] = IF k = 0 THEN a ELSE feed(f[k - 1], chunk[k])
    <3>1. k # 0 => f[k - 1] \in S /\ k \in 1..n
      OBVIOUS
    <3> QED BY <2>1, <2>2, <3>1
  <2>4. D(f)
    BY <2>2, <2>3
  <2> QED BY <2>4
<1>3. D(h)
  BY <1>2
<1> HIDE DEF h
<1>4. h[0] \in S /\ \A k \in 1..n : h[k - 1] \in S => h[k] \in S
  BY <1>1, <1>3
<1> QED BY <1>4, StepsStay

LEMMA ChunkRead ==
    ASSUME NEW s \in Screens, NEW g \in [cols : Nat \ {0, 1}, rows : Nat \ {0}],
           NEW chunk \in Seq(Chars)
    PROVE  write(s, g, chunk) \in Screens
<1> DEFINE n == Len(chunk)
           a == fit(s, g)
           h == CHOOSE f : f = [k \in 0..n |-> IF k = 0 THEN a ELSE feed(f[k - 1], chunk[k])]
<1>1. n \in Nat /\ \A k \in 1..n : chunk[k] \in Chars
  BY LenProperties, ElementOfSeq
<1>2. a \in Screens
  BY ScreenFits
<1>3. write(s, g, chunk) = forgotten(h[n])
  BY DEF write
<1> HIDE DEF n, a
<1>4. h[n] \in Screens
  BY <1>1, <1>2, CharsRead
<1> HIDE DEF h
<1> QED BY <1>3, <1>4, Parsed
-----------------------------------------------------------------------------
(***************************************************************************)
(* What the guest sends is made of characters.                             *)
(***************************************************************************)
Texts == Seq(Chars)

\* Sequences of characters, one after the other, are one.
LEMMA Flattened ==
    ASSUME NEW q, NEW m \in Nat
    PROVE  (\A k \in 1..(m + 1) : q[k] \in Texts) /\ Len(q) = m + 1 => FlattenSeq(q) \in Texts
<1> DEFINE n == m + 1
           a == q[1]
           F == [k \in 1..m |-> [t \in Texts |-> t \o q[k + 1]]]
           D(f) == f = [i \in 1..n |-> IF i = 1 THEN q[i] ELSE f[i - 1] \o q[i]]
           h == CHOOSE f : D(f)
           g == [k \in 0..m |-> h[k + 1]]
<1>0. SUFFICES ASSUME \A k \in 1..(m + 1) : q[k] \in Texts PROVE Len(q) = m + 1 => FlattenSeq(q) \in Texts
  OBVIOUS
<1>1. a \in Texts /\ \A t \in Texts : \A k \in 1..m : t \o q[k + 1] \in Texts
  <2>1. 1 \in 1..(m + 1) /\ \A k \in 1..m : k + 1 \in 1..(m + 1)
    OBVIOUS
  <2>2. a \in Texts /\ \A k \in 1..m : q[k + 1] \in Texts
    BY <1>0, <2>1
  <2> HIDE DEF a
  <2> QED BY <2>2, ConcatProperties DEF Texts
<1> HIDE DEF a
<1>2. \E f : D(f)
  <2>1. F \in [1..m -> [Texts -> Texts]]
    BY <1>1
  <2>2. \A k \in 1..m : \A t \in Texts : F[k][t] = t \o q[k + 1]
    OBVIOUS
  <2> HIDE DEF F
  <2>3. PICK f \in [0..m -> Texts] : f[0] = a /\ \A k \in 1..m : f[k] = F[k][f[k - 1]]
    <3>1. a \in Texts
      BY <1>1
    <3> QED BY <2>1, <3>1, StepsExist
  <2> DEFINE e == [i \in 1..n |-> f[i - 1]]
  <2>4. ASSUME NEW i \in 1..n PROVE e[i] = IF i = 1 THEN q[i] ELSE e[i - 1] \o q[i]
    <3>1. CASE i = 1
      <4>1. e[i] = f[0]
        BY <3>1
      <4> QED BY <2>3, <3>1, <4>1 DEF a
    <3>2. CASE i # 1
      <4>1. i - 1 \in 1..m /\ (i - 1) + 1 = i /\ i - 1 \in 1..n /\ (i - 1) - 1 \in 0..m
        BY <3>2
      <4>2. e[i] = f[i - 1] /\ e[i - 1] = f[(i - 1) - 1]
        BY <4>1
      <4> HIDE DEF e
      <4>3. f[(i - 1) - 1] \in Texts
        BY <4>1
      <4>4. f[i - 1] = F[i - 1][f[(i - 1) - 1]]
        BY <2>3, <4>1
      <4>5. F[i - 1][f[(i - 1) - 1]] = f[(i - 1) - 1] \o q[(i - 1) + 1]
        BY <2>2, <4>1, <4>3
      <4> QED BY <3>2, <4>1, <4>2, <4>4, <4>5
    <3> QED BY <3>1, <3>2
  <2>5. e = [i \in 1..n |-> IF i = 1 THEN q[i] ELSE e[i - 1] \o q[i]]
    BY <2>4
  <2> HIDE DEF e
  <2> QED BY <2>5
<1>3. D(h)
  BY <1>2
<1> HIDE DEF h
<1>4. h[1] = a /\ \A k \in 1..m : h[k + 1] = h[k] \o q[k + 1]
  <2>1. 1 \in 1..n /\ h[1] = q[1]
    BY <1>3
  <2>2. ASSUME NEW k \in 1..m PROVE h[k + 1] = h[k] \o q[k + 1]
    <3>1. k + 1 \in 1..n /\ k + 1 # 1 /\ (k + 1) - 1 = k
      OBVIOUS
    <3> QED BY <1>3, <3>1
  <2> QED BY <2>1, <2>2 DEF a
<1>5. g[0] \in Texts /\ \A k \in 1..m : g[k - 1] \in Texts => g[k] \in Texts
  <2>1. g[0] = a
    <3>1. g[0] = h[1]
      OBVIOUS
    <3> QED BY <1>4, <3>1
  <2>2. ASSUME NEW k \in 1..m, g[k - 1] \in Texts PROVE g[k] \in Texts
    <3>1. g[k] = h[k + 1] /\ g[k - 1] = h[k]
      OBVIOUS
    <3> HIDE DEF g
    <3> QED BY <1>1, <1>4, <2>2, <3>1
  <2> QED BY <1>1, <2>1, <2>2
<1>6. g[m] \in Texts /\ g[m] = h[n]
  <2>1. g[m] = h[n]
    OBVIOUS
  <2> HIDE DEF g, n
  <2>2. g[m] \in Texts
    BY <1>5, StepsStay
  <2> QED BY <2>1, <2>2
<1>7. Len(q) = m + 1 => FlattenSeq(q) = h[n]
  BY DEF FlattenSeq, h
<1> QED BY <1>6, <1>7

LEMMA Joined ==
    ASSUME NEW q \in Seq(Texts)
    PROVE  FlattenSeq(q) \in Texts
<1> DEFINE n == Len(q)
<1>1. n \in Nat /\ \A k \in 1..n : q[k] \in Texts
  BY LenProperties, ElementOfSeq
<1>2. CASE n = 0
  <2>1. q = <<>> /\ <<>> \in Texts
    BY <1>2, EmptySeq DEF Texts
  <2> QED BY <1>2, <2>1 DEF FlattenSeq
<1>3. CASE n # 0
  <2> DEFINE m == n - 1
  <2>1. m \in Nat /\ m + 1 = n
    BY <1>1, <1>3
  <2>2. (\A k \in 1..(m + 1) : q[k] \in Texts) /\ n = m + 1
    BY <1>1, <2>1
  <2> HIDE DEF m
  <2>3. (\A k \in 1..(m + 1) : q[k] \in Texts) /\ Len(q) = m + 1 => FlattenSeq(q) \in Texts
    BY <2>1, Flattened
  <2> QED BY <2>2, <2>3
<1> QED BY <1>2, <1>3

LEMMA Signs ==
    /\ "ESC" \in Chars /\ "CR" \in Chars /\ "LF" \in Chars /\ "[" \in Chars /\ "]" \in Chars
    /\ "\\" \in Chars /\ " " \in Chars /\ "A" \in Chars /\ "C" \in Chars /\ "H" \in Chars
    /\ "J" \in Chars /\ "K" \in Chars /\ StartWord \in Chars /\ ShellType \in Chars
    /\ "type=command" \in Chars
  BY TapAssumption

LEMMA Concatenated ==
    ASSUME NEW t \in Texts, NEW u \in Texts PROVE t \o u \in Texts
  BY ConcatProperties DEF Texts

LEMMA WordsSent ==
    /\ NewLine \in Texts /\ <<"CR">> \in Texts /\ <<>> \in Texts
    /\ Esc("A") \in Texts /\ Esc("C") \in Texts /\ Esc("H") \in Texts /\ Esc("J") \in Texts
    /\ Esc("K") \in Texts
    /\ Word(ShellType) \in Texts /\ Word("type=command") \in Texts
    /\ \A c \in Chars : <<c>> \in Texts /\ <<c, " ", "CR">> \in Texts
<1>1. \A a, b \in Chars : <<a>> \in Seq(Chars) /\ <<a, b>> \in Seq(Chars)
  OBVIOUS
<1>2. \A a, b, c \in Chars : <<a, b, c>> \in Seq(Chars)
  OBVIOUS
<1>3. \A a, b, c, d, e, f \in Chars : <<a, b, c, d, e, f>> \in Seq(Chars)
  OBVIOUS
<1>4. NewLine \in Texts /\ <<"CR">> \in Texts
  BY <1>1, Signs, Zenon DEF NewLine, Texts
<1>5. Esc("A") \in Texts /\ Esc("C") \in Texts /\ Esc("H") \in Texts /\ Esc("J") \in Texts
      /\ Esc("K") \in Texts
  BY <1>2, Signs, Zenon DEF Esc, Texts
<1>6. Word(ShellType) \in Texts /\ Word("type=command") \in Texts
  BY <1>3, Signs, Zenon DEF Word, Texts
<1>7. \A c \in Chars : <<c>> \in Texts /\ <<c, " ", "CR">> \in Texts
  BY <1>1, <1>2, Signs, Zenon DEF Texts
<1>8. <<>> \in Texts
  BY EmptySeq DEF Texts
<1> QED BY <1>4, <1>5, <1>6, <1>7, <1>8

LEMMA Repeated ==
    ASSUME NEW c \in Texts, NEW n \in Nat PROVE Times(c, n) \in Texts
<1> DEFINE q == [k \in 1..n |-> c]
<1>1. q \in [1..n -> Texts]
  OBVIOUS
<1>2. Times(c, n) = FlattenSeq(q)
  BY DEF Times
<1> HIDE DEF q
<1>3. q \in Seq(Texts)
  BY <1>1, FunctionIsSeq
<1> QED BY <1>2, <1>3, Joined

LEMMA LinePrinted ==
    ASSUME NEW t \in Texts, NEW p \in Nat PROVE Printed(t, p) \in Texts
<1> DEFINE n == Len(t)
           q == [k \in 1..n |-> IF (p + k) % First.cols = 0 THEN <<t[k], " ", "CR">> ELSE <<t[k]>>]
<1>1. n \in Nat /\ \A k \in 1..n : t[k] \in Chars
  BY LenProperties, ElementOfSeq DEF Texts
<1>2. Printed(t, p) = FlattenSeq(q)
  BY DEF Printed
<1> HIDE DEF n
<1>3. q \in [1..n -> Texts]
  <2>1. \A k \in 1..n : <<t[k], " ", "CR">> \in Texts /\ <<t[k]>> \in Texts
    BY <1>1, WordsSent
  <2>2. \A k \in 1..n :
           (IF (p + k) % First.cols = 0 THEN <<t[k], " ", "CR">> ELSE <<t[k]>>) \in Texts
    BY <2>1, Zenon
  <2> QED BY <2>2, Zenon
<1> HIDE DEF q
<1>4. q \in Seq(Texts)
  BY <1>1, <1>3, FunctionIsSeq
<1> QED BY <1>2, <1>4, Joined

LEMMA CursorMoved ==
    ASSUME NEW p \in Nat, NEW q \in Nat PROVE Moved(p, q) \in Texts
<1> DEFINE N == First.cols
           down == q \div N - p \div N
           right == q % N
<1>1. N \in Nat /\ N > 0
  <2>1. First \in [cols : Nat \ {0, 1}, rows : Nat \ {0}]
    BY TapAssumption
  <2>2. N \in Nat \ {0, 1}
    BY <2>1
  <2> HIDE DEF N
  <2> QED BY <2>2
<1> HIDE DEF N
<1>2. down \in Int
  <2>1. q \div N \in Int /\ p \div N \in Int
    BY <1>1
  <2> QED BY <2>1
<1>3. right \in Nat
  BY <1>1
<1>4. Moved(p, q) = (IF down < 0 THEN Times(Esc("A"), -down) ELSE Times(NewLine, down))
                      \o <<"CR">> \o Times(Esc("C"), right)
  BY DEF Moved, N
<1> HIDE DEF down, right
<1>5. \A t \in Texts : t \o <<"CR">> \o Times(Esc("C"), right) \in Texts
  <2>1. <<"CR">> \in Texts /\ Times(Esc("C"), right) \in Texts
    BY <1>3, WordsSent, Repeated
  <2> QED BY <2>1, Concatenated
<1>6. CASE down < 0
  <2>1. -down \in Nat
    BY <1>2, <1>6
  <2>2. Times(Esc("A"), -down) \in Texts
    BY <2>1, WordsSent, Repeated
  <2> QED BY <1>4, <1>6, <1>5, <2>2
<1>7. CASE ~(down < 0)
  <2>1. down \in Nat
    BY <1>2, <1>7
  <2>2. Times(NewLine, down) \in Texts
    BY <2>1, WordsSent, Repeated
  <2> QED BY <1>4, <1>7, <1>5, <2>2
<1> QED BY <1>6, <1>7

LEMMA PlainChars == Plain \subseteq Chars
BY DEF Plain

LEMMA PromptSent == PS1 \in Texts /\ Len(PS1) \in Nat /\ Prompted \in Texts
<1>1. PS1 \in Texts
  <2>1. PS1 \in Seq(Plain)
    BY TapAssumption
  <2> QED BY <2>1, PlainChars DEF Texts
<1>2. Len(PS1) \in Nat
  BY <1>1, LenProperties DEF Texts
<1>3. Printed(PS1, 0) \in Texts
  BY <1>1, LinePrinted, 0 \in Nat
<1> QED BY <1>1, <1>2, <1>3, WordsSent, Concatenated DEF Prompted

\* The line readline edits, and its parts.
LEMMA LineParts ==
    ASSUME NEW t \in Texts, NEW n \in 0..Len(t)
    PROVE  /\ Len(t) \in Nat /\ End(t) \in Nat /\ At(n) \in Nat
           /\ Rest(t, n) \in Texts
           /\ \A c \in Chars : /\ InsertAt(t, n + 1, c) \in Texts
                               /\ Len(InsertAt(t, n + 1, c)) = Len(t) + 1
           /\ n > 0 => RemoveAt(t, n) \in Texts /\ Len(RemoveAt(t, n)) = Len(t) - 1
<1>1. Len(t) \in Nat /\ t \in Seq(Chars)
  BY LenProperties DEF Texts
<1>2. End(t) \in Nat /\ At(n) \in Nat
  BY <1>1, PromptSent DEF End, At
<1>3. Rest(t, n) \in Texts
  <2>1. \A k \in (n + 1)..Len(t) : t[k] \in Chars
    BY <1>1, ElementOfSeq
  <2>2. n + 1 \in Int /\ Len(t) \in Int
    BY <1>1
  <2>3. SubSeq(t, n + 1, Len(t)) \in Seq(Chars)
    BY <2>1, <2>2, SubSeqProperties
  <2> QED BY <2>3 DEF Rest, Texts
<1>4. ASSUME NEW c \in Chars
      PROVE  InsertAt(t, n + 1, c) \in Texts /\ Len(InsertAt(t, n + 1, c)) = Len(t) + 1
  <2>1. n + 1 \in 1..(Len(t) + 1)
    BY <1>1
  <2> QED BY <1>1, <2>1, RowAdded DEF Texts
<1>5. n > 0 => RemoveAt(t, n) \in Texts /\ Len(RemoveAt(t, n)) = Len(t) - 1
  <2>1. n > 0 => n \in 1..Len(t)
    BY <1>1
  <2> QED BY <1>1, <2>1, RowTaken DEF Texts
<1> QED BY <1>1, <1>2, <1>3, <1>4, <1>5
-----------------------------------------------------------------------------
(***************************************************************************)
(* The tap, and what writes to it.                                         *)
(***************************************************************************)
TapInv ==
    /\ scr \in Screens /\ term \in Geometries /\ owner \in {"boot", "shell", "command"}
    /\ typed \in Texts /\ point \in 0..Len(typed)

LEMMA GeometryOf ==
    ASSUME NEW g \in Geometries PROVE g \in [cols : Nat \ {0, 1}, rows : Nat \ {0}]
  BY TapAssumption

\* Whatever is said leaves a screen.
LEMMA SaysScreen ==
    ASSUME TapInv, NEW chunk \in Texts, Says(chunk) PROVE scr' \in Screens
<1>1. scr \in Screens /\ term \in [cols : Nat \ {0, 1}, rows : Nat \ {0}] /\ chunk \in Seq(Chars)
  BY GeometryOf DEF TapInv, Texts
<1>2. scr' = write(scr, term, chunk)
  BY DEF Says
<1> QED BY <1>1, <1>2, ChunkRead

LEMMA DrawsScreen ==
    ASSUME TapInv, NEW chunk \in Texts, Draws(chunk) PROVE scr' \in Screens
  BY SaysScreen DEF Draws

LEMMA EmptyLine == <<>> \in Texts /\ 0 \in 0..Len(<<>>)
<1>1. <<>> \in Texts
  BY WordsSent
<1>2. Len(<<>>) = 0
  OBVIOUS
<1> QED BY <1>1, <1>2

LEMMA TapInit == Init => TapInv
<1> SUFFICES ASSUME Init PROVE TapInv
  OBVIOUS
<1>1. First \in Geometries /\ First \in [cols : Nat \ {0, 1}, rows : Nat \ {0}]
  BY TapAssumption
<1>2. makeScreen(First) \in Screens
  BY <1>1, ScreenMade
<1>3. <<>> \in Texts /\ 0 \in 0..Len(<<>>)
  BY EmptyLine
<1> QED BY <1>1, <1>2, <1>3 DEF Init, TapInv

LEMMA TypesStep ==
    ASSUME TapInv, NEW c \in Keys, Types(c) PROVE TapInv'
<1> DEFINE back == IF point = Len(typed) THEN <<>> ELSE Moved(End(typed'), At(point'))
           shown == Printed(<<c>> \o Rest(typed, point), At(point))
<1>1. c \in Chars
  BY TapAssumption, PlainChars
<1>2. /\ typed' = InsertAt(typed, point + 1, c) /\ point' = point + 1
      /\ Draws(shown \o back) /\ UNCHANGED <<term, owner>>
  BY DEF Types
<1>3. typed \in Texts /\ point \in 0..Len(typed)
  BY DEF TapInv
<1>4. /\ Rest(typed, point) \in Texts /\ typed' \in Texts /\ Len(typed') = Len(typed) + 1
      /\ Len(typed) \in Nat /\ At(point) \in Nat
  BY <1>1, <1>2, <1>3, LineParts
<1>5. point' \in 0..Len(typed')
  BY <1>2, <1>3, <1>4
<1>6. End(typed') \in Nat /\ At(point') \in Nat
  BY <1>4, <1>5, LineParts
<1>7. shown \in Texts
  <2>1. <<c>> \in Texts
    BY <1>1, WordsSent
  <2>2. <<c>> \o Rest(typed, point) \in Texts
    BY <1>4, <2>1, Concatenated
  <2> QED BY <1>4, <2>2, LinePrinted
<1>8. back \in Texts
  BY <1>6, CursorMoved, WordsSent
<1> HIDE DEF shown, back
<1>9. scr' \in Screens
  BY <1>2, <1>7, <1>8, Concatenated, DrawsScreen
<1> QED BY <1>2, <1>4, <1>5, <1>9 DEF TapInv

LEMMA ErasesStep ==
    ASSUME TapInv, Erases PROVE TapInv'
<1> DEFINE back == IF point = Len(typed) THEN <<>> ELSE Moved(End(typed'), At(point'))
           there == Moved(At(point), At(point'))
           shown == Printed(Rest(typed, point), At(point'))
<1>1. /\ point > 0 /\ typed' = RemoveAt(typed, point) /\ point' = point - 1
      /\ Draws(there \o shown \o Esc("K") \o back) /\ UNCHANGED <<term, owner>>
  BY DEF Erases
<1>2. typed \in Texts /\ point \in 0..Len(typed)
  BY DEF TapInv
<1>3. /\ Rest(typed, point) \in Texts /\ typed' \in Texts /\ Len(typed') = Len(typed) - 1
      /\ Len(typed) \in Nat /\ At(point) \in Nat
  BY <1>1, <1>2, LineParts
<1>4. point' \in 0..Len(typed')
  BY <1>1, <1>2, <1>3
<1>5. End(typed') \in Nat /\ At(point') \in Nat
  BY <1>3, <1>4, LineParts
<1>6. there \in Texts /\ shown \in Texts /\ back \in Texts
  BY <1>3, <1>5, CursorMoved, LinePrinted, WordsSent
<1> HIDE DEF shown, back, there
<1>7. there \o shown \o Esc("K") \o back \in Texts
  BY <1>6, WordsSent, Concatenated
<1>8. scr' \in Screens
  BY <1>1, <1>7, DrawsScreen
<1> QED BY <1>1, <1>3, <1>4, <1>8 DEF TapInv

LEMMA GoesStep ==
    ASSUME TapInv, NEW n \in {0, Len(typed)}, Goes(n) PROVE TapInv'
<1>1. point' = n /\ Draws(Moved(At(point), At(n))) /\ UNCHANGED <<term, owner, typed>>
  BY DEF Goes
<1>2. typed \in Texts /\ point \in 0..Len(typed)
  BY DEF TapInv
<1>3. n \in 0..Len(typed)
  BY <1>2, LineParts
<1>4. Moved(At(point), At(n)) \in Texts
  BY <1>2, <1>3, LineParts, CursorMoved
<1>5. scr' \in Screens
  BY <1>1, <1>4, DrawsScreen
<1> QED BY <1>1, <1>2, <1>3, <1>5 DEF TapInv

LEMMA KillsStep ==
    ASSUME TapInv, Kills PROVE TapInv'
<1> DEFINE N == First.cols
           down == End(typed) \div N - At(0) \div N
           up == Moved(End(typed), At(0))
           wipe == NewLine \o <<"CR">> \o Esc("K")
           all == Times(wipe, down)
           back == Moved(At(0) + down * N, At(0))
<1>1. /\ point = Len(typed) /\ typed' = <<>> /\ point' = 0
      /\ Draws(up \o Esc("K") \o all \o back) /\ UNCHANGED <<term, owner>>
  BY DEF Kills
<1>2. typed \in Texts /\ point \in 0..Len(typed)
  BY DEF TapInv
<1>3. End(typed) \in Nat /\ At(0) \in Nat /\ End(typed) >= At(0) /\ 0 \in 0..Len(typed)
  <2>1. Len(typed) \in Nat /\ End(typed) \in Nat
    BY <1>2, LineParts
  <2>2. 0 \in 0..Len(typed)
    BY <2>1
  <2>3. At(0) \in Nat
    BY <1>2, <2>2, LineParts
  <2>4. End(typed) >= At(0)
    BY <2>1, PromptSent DEF End, At
  <2> QED BY <2>1, <2>2, <2>3, <2>4
<1>4. N \in Nat /\ N > 0
  <2>1. First \in [cols : Nat \ {0, 1}, rows : Nat \ {0}]
    BY TapAssumption
  <2>2. N \in Nat \ {0, 1}
    BY <2>1
  <2> HIDE DEF N
  <2> QED BY <2>2
<1> HIDE DEF N
<1>5. down \in Nat
  <2> DEFINE a == End(typed)
             b == At(0)
  <2>1. a \in Nat /\ b \in Nat /\ a >= b
    BY <1>3
  <2> HIDE DEF a, b
  <2>2. a \div N \in Int /\ b \div N \in Int /\ a \div N >= b \div N
    BY <1>4, <2>1
  <2> QED BY <2>2 DEF a, b
<1> HIDE DEF down
<1>6. up \in Texts
  BY <1>3, CursorMoved
<1>7. back \in Texts
  <2>1. At(0) + down * N \in Nat
    <3>1. \A i, j, k \in Nat : i + j * k \in Nat
      OBVIOUS
    <3> QED BY <1>3, <1>4, <1>5, <3>1
  <2> QED BY <1>3, <2>1, CursorMoved
<1>8. all \in Texts
  <2>1. wipe \in Texts
    BY WordsSent, Concatenated
  <2> HIDE DEF wipe
  <2> QED BY <1>5, <2>1, Repeated
<1> HIDE DEF up, all, back
<1>9. up \o Esc("K") \o all \o back \in Texts
  BY <1>6, <1>7, <1>8, WordsSent, Concatenated
<1>10. scr' \in Screens
  BY <1>1, <1>9, DrawsScreen
<1>11. <<>> \in Texts /\ 0 \in 0..Len(<<>>)
  BY EmptyLine
<1> QED BY <1>1, <1>10, <1>11 DEF TapInv

LEMMA ClearsStep ==
    ASSUME TapInv, Clears PROVE TapInv'
<1> DEFINE shown == Printed(PS1 \o typed, 0)
           back == Moved(End(typed), At(point))
<1>1. Draws(Esc("H") \o Esc("J") \o shown \o back) /\ UNCHANGED <<term, owner, typed, point>>
  BY DEF Clears
<1>2. typed \in Texts /\ point \in 0..Len(typed)
  BY DEF TapInv
<1>3. shown \in Texts
  <2>1. PS1 \o typed \in Texts
    BY <1>2, PromptSent, Concatenated
  <2> QED BY <2>1, LinePrinted, 0 \in Nat
<1>4. back \in Texts
  BY <1>2, LineParts, CursorMoved
<1> HIDE DEF shown, back
<1>5. Esc("H") \o Esc("J") \o shown \o back \in Texts
  BY <1>3, <1>4, WordsSent, Concatenated
<1>6. scr' \in Screens
  BY <1>1, <1>5, DrawsScreen
<1> QED BY <1>1, <1>6 DEF TapInv

LEMMA EntersStep ==
    ASSUME TapInv, Enters PROVE TapInv'
<1> DEFINE there == Moved(At(point), End(typed))
<1>1. /\ owner' = "command" /\ typed' = <<>> /\ point' = 0
      /\ Draws(there \o NewLine \o Word("type=command")) /\ term' = term
  BY DEF Enters
<1>2. typed \in Texts /\ point \in 0..Len(typed)
  BY DEF TapInv
<1>3. there \in Texts
  BY <1>2, LineParts, CursorMoved
<1> HIDE DEF there
<1>4. there \o NewLine \o Word("type=command") \in Texts
  BY <1>3, WordsSent, Concatenated
<1>5. scr' \in Screens
  BY <1>1, <1>4, DrawsScreen
<1>6. <<>> \in Texts /\ 0 \in 0..Len(<<>>)
  BY EmptyLine
<1> QED BY <1>1, <1>5, <1>6 DEF TapInv

LEMMA OthersStep ==
    ASSUME TapInv,
           \/ \E o \in Outputs : Writes(o)
           \/ Ends \/ Fits
           \/ \E g \in Geometries : Resizes(g)
    PROVE  TapInv'
<1>1. ASSUME NEW o \in Outputs, Writes(o) PROVE TapInv'
  <2>1. o \in Texts
    BY TapAssumption DEF Texts
  <2>2. Says(o) /\ UNCHANGED <<term, owner, typed, point>>
    BY <1>1 DEF Writes
  <2>3. scr' \in Screens
    BY <2>1, <2>2, SaysScreen
  <2> QED BY <2>2, <2>3 DEF TapInv
<1>2. ASSUME Ends PROVE TapInv'
  <2>1. Says(Prompted) /\ owner' = "shell" /\ UNCHANGED <<term, typed, point>>
    BY <1>2 DEF Ends
  <2>2. scr' \in Screens
    BY <2>1, PromptSent, SaysScreen
  <2> QED BY <2>1, <2>2 DEF TapInv
<1>3. ASSUME Fits PROVE TapInv'
  <2>1. Draws(<<>>) /\ UNCHANGED <<term, owner, typed, point>>
    BY <1>3 DEF Fits
  <2>2. scr' \in Screens
    BY <2>1, EmptyLine, DrawsScreen
  <2> QED BY <2>1, <2>2 DEF TapInv
<1>4. ASSUME NEW g \in Geometries, Resizes(g) PROVE TapInv'
  <2>1. term' = g /\ UNCHANGED <<scr, owner, typed, point>>
    BY <1>4 DEF Resizes
  <2> QED BY <2>1 DEF TapInv
<1> QED BY <1>1, <1>2, <1>3, <1>4

LEMMA TapNext == TapInv /\ [Next]_vars => TapInv'
<1> SUFFICES ASSUME TapInv, [Next]_vars PROVE TapInv'
  OBVIOUS
<1>1. ASSUME NEW c \in Keys, Types(c) PROVE TapInv'
  BY <1>1, TypesStep
<1>2. ASSUME NEW n \in {0, Len(typed)}, Goes(n) PROVE TapInv'
  BY <1>2, GoesStep
<1>3. CASE Erases \/ Kills \/ Clears \/ Enters
  BY <1>3, ErasesStep, KillsStep, ClearsStep, EntersStep
<1>4. CASE UNCHANGED vars
  BY <1>4 DEF vars, TapInv
<1> QED BY <1>1, <1>2, <1>3, <1>4, OthersStep DEF Next

LEMMA TapAlways == Spec => []TapInv
  BY TapInit, TapNext, PTL DEF Spec

\* Types: both buffers hold exactly the screen's rows from their base on, the cursor is
\* on one of them, and the scroll region within them, whatever the guest has written and
\* wherever its chunks were cut (makeScreen in web/serialtap.js).
THEOREM TapTypes == Spec => []TypeOK
<1>1. ASSUME TapInv PROVE TypeOK
  <2>1. scr \in Screens
    BY <1>1 DEF TapInv
  <2>2. \A b \in Buffer : Holds(b, scr.rows) => BufferOK(b)
    <3>1. ASSUME NEW b \in Buffer, Holds(b, scr.rows) PROVE BufferOK(b)
      <4>1. b.lines \in Seq(Row) /\ b.base \in Nat /\ Len(b.lines) = b.base + scr.rows
        BY <3>1 DEF Buffer, Holds
      <4>2. \A k \in 1..Len(b.lines) : b.lines[k] \in Row
        BY <4>1, ElementOfSeq
      <4>3. \A k \in 1..Len(b.lines) : b.lines[k].wrapped \in BOOLEAN
        BY <4>2 DEF Row
      <4>4. Len(b.lines) - b.base = scr.rows
        BY <2>1, <4>1, ScreenNumbers
      <4> QED BY <4>1, <4>3, <4>4 DEF BufferOK
    <3> QED BY <3>1
  <2>3. BufferOK(scr.main) /\ (onMain(scr) \/ BufferOK(scr.alt))
    BY <2>1, <2>2 DEF Screens, ScreenType, Shaped, Sized
  <2>4. scr.x \in 0..scr.cols /\ scr.y \in 0..(scr.rows - 1)
        /\ 0 <= scr.top /\ scr.top <= scr.bottom /\ scr.bottom < scr.rows
    BY <2>1, ScreenNumbers
  <2>5. scr.state \in States /\ scr.context \in {"null", "shell", "command"}
    BY <2>1 DEF Screens, ScreenType
  <2> QED BY <1>1, <2>3, <2>4, <2>5 DEF TypeOK, TapInv, States
<1> QED BY <1>1, TapAlways, PTL

\* A saved cursor that is not marked as moved names the row it was saved on: every
\* operation that puts rows above it, or takes them away, marks it (`moves`).
THEOREM SavedRowsHold == Spec => []SavedRowHolds
<1>1. ASSUME TapInv PROVE SavedRowHolds
  BY <1>1 DEF TapInv, Screens, Shaped, NamesRow, SavedRowHolds
<1> QED BY <1>1, TapAlways, PTL

\* No right half of a wide character stands without its left one, after any erasing,
\* shifting, overwriting and scrolling (`erase`, `shift` and print).
THEOREM WideStaysWhole == Spec => []WholeWide
<1>1. ASSUME TapInv PROVE WholeWide
  <2>1. scr.main \in Buffer /\ scr.alt \in Buffer
    BY <1>1 DEF TapInv, Screens, ScreenType
  <2>2. ASSUME NEW b \in Buffer, NEW k \in 1..Len(b.lines) PROVE b.lines[k].cells \in Cells
    <3>1. b.lines \in Seq(Row)
      BY DEF Buffer
    <3>2. b.lines[k] \in Row
      BY <3>1, ElementOfSeq
    <3> QED BY <3>2 DEF Row
  <2>3. ASSUME NEW c \in Cells, NEW i \in 1..Len(c), c[i] = Half PROVE i > 1 /\ c[i - 1] = WideChar
    BY <2>3 DEF Cells
  <2> QED BY <2>1, <2>2, <2>3 DEF WholeWide
<1> QED BY <1>1, TapAlways, PTL
-----------------------------------------------------------------------------
(***************************************************************************)
(* The least and the greatest of a set, and sequences one after the other. *)
(***************************************************************************)
LEMMA LeastIs ==
    ASSUME NEW T, T \subseteq Nat, T # {} PROVE Min(T) \in T /\ \A i \in T : Min(T) <= i
<1> DEFINE R == OpToRel(<, Nat)
<1>1. PICK x \in T : \A y \in T : ~(<<y, x>> \in R)
  BY WFMin, NatLessThanWellFounded
<1>2. \A y \in T : x <= y
  <2>1. ASSUME NEW y \in T PROVE ~(y < x)
    <3>1. x \in Nat /\ y \in Nat
      OBVIOUS
    <3>2. y < x => <<y, x>> \in R
      BY <3>1 DEF OpToRel
    <3> QED BY <1>1, <3>2
  <2> QED BY <2>1
<1>3. \E z \in T : \A y \in T : z <= y
  BY <1>2
<1> QED BY <1>3 DEF Min

LEMMA GreatestIs ==
    ASSUME NEW n \in Nat, NEW T, T \subseteq 0..n, T # {}
    PROVE  Max(T) \in T /\ \A i \in T : i <= Max(T)
<1> DEFINE U == {n - i : i \in T}
<1>1. U \subseteq Nat /\ U # {}
  <2>1. \A i \in T : i \in 0..n /\ n - i \in Nat
    OBVIOUS
  <2> QED BY <2>1
<1>2. Min(U) \in U /\ \A u \in U : Min(U) <= u
  BY <1>1, LeastIs
<1>3. PICK x \in T : Min(U) = n - x
  BY <1>2
<1>4. \A y \in T : x >= y
  <2>1. ASSUME NEW y \in T PROVE x >= y
    <3>1. n - y \in U /\ n - x <= n - y
      BY <1>2, <1>3
    <3>2. x \in Nat /\ y \in Nat
      OBVIOUS
    <3> QED BY <3>1, <3>2
  <2> QED BY <2>1
<1>5. \E z \in T : \A y \in T : z >= y
  BY <1>4
<1>6. Max(T) \in T /\ \A y \in T : Max(T) >= y
  BY <1>5 DEF Max
<1> QED BY <1>6

\* What is joined so far: an account of FlattenSeq, part by part.
Joins(T, a, q, h) ==
    h \in [0..Len(q) -> T] /\ h[0] = a /\ \A k \in 1..Len(q) : h[k] = h[k - 1] \o q[k]
CanJoin(T, a, q) == \E h : Joins(T, a, q, h)

LEMMA JoinsExist ==
    ASSUME NEW T, NEW a \in T, NEW n \in Nat, NEW q, Len(q) = n,
           \A t \in T : \A k \in 1..n : t \o q[k] \in T
    PROVE  CanJoin(T, a, q)
<1> DEFINE F == [k \in 1..n |-> [t \in T |-> t \o q[k]]]
<1>1. F \in [1..n -> [T -> T]]
  OBVIOUS
<1>2. \A k \in 1..n : \A t \in T : F[k][t] = t \o q[k]
  OBVIOUS
<1> HIDE DEF F
<1>3. PICK h \in [0..n -> T] : h[0] = a /\ \A k \in 1..n : h[k] = F[k][h[k - 1]]
  BY <1>1, StepsExist
<1>4. ASSUME NEW k \in 1..n PROVE h[k] = h[k - 1] \o q[k]
  <2>1. h[k - 1] \in T
    OBVIOUS
  <2> QED BY <1>2, <1>3, <2>1
<1>5. Joins(T, a, q, h)
  BY <1>3, <1>4 DEF Joins
<1> QED BY <1>5 DEF CanJoin

LEMMA JoinedSteps ==
    ASSUME NEW S, NEW q \in Seq(Seq(S))
    PROVE  \E h \in [0..Len(q) -> Seq(S)] :
               h[0] = <<>> /\ \A k \in 1..Len(q) : h[k] = h[k - 1] \o q[k]
<1>1. Len(q) \in Nat /\ \A k \in 1..Len(q) : q[k] \in Seq(S)
  BY LenProperties, ElementOfSeq
<1>2. <<>> \in Seq(S) /\ \A t \in Seq(S) : \A k \in 1..Len(q) : t \o q[k] \in Seq(S)
  BY <1>1, EmptySeq, ConcatProperties
<1>3. CanJoin(Seq(S), <<>>, q)
  BY <1>1, <1>2, JoinsExist
<1>4. PICK h : Joins(Seq(S), <<>>, q, h)
  BY <1>3 DEF CanJoin
<1> QED BY <1>4 DEF Joins

LEMMA JoinedIs ==
    ASSUME NEW S, NEW n \in Nat, NEW q \in Seq(Seq(S)), Len(q) = n,
           NEW h, h[0] = <<>>, \A k \in 1..n : h[k] = h[k - 1] \o q[k]
    PROVE  FlattenSeq(q) = h[n]
<1> DEFINE D(f) == f = [i \in 1..n |-> IF i = 1 THEN q[i] ELSE f[i - 1] \o q[i]]
           e == CHOOSE f : D(f)
<1>1. CASE n = 0
  <2>1. q = <<>>
    BY <1>1, EmptySeq
  <2> QED BY <1>1, <2>1 DEF FlattenSeq
<1>2. CASE n # 0
  <2>0. \A k \in 1..n : q[k] \in Seq(S)
    BY ElementOfSeq
  <2>1. h[1] = q[1]
    <3>1. 1 \in 1..n /\ 1 - 1 = 0
      BY <1>2
    <3>2. h[1] = h[0] \o q[1] /\ q[1] \in Seq(S)
      BY <2>0, <3>1
    <3> QED BY <3>2, ConcatEmptySeq
  <2> DEFINE g == [i \in 1..n |-> h[i]]
  <2>2. D(g)
    <3>1. ASSUME NEW i \in 1..n PROVE g[i] = IF i = 1 THEN q[i] ELSE g[i - 1] \o q[i]
      <4>1. CASE i = 1
        BY <2>1, <4>1
      <4>2. CASE i # 1
        <5>1. i - 1 \in 1..n
          BY <4>2
        <5>2. g[i] = h[i] /\ g[i - 1] = h[i - 1]
          BY <5>1
        <5> QED BY <4>2, <5>2
      <4> QED BY <4>1, <4>2
    <3> QED BY <3>1
  <2> HIDE DEF g
  <2>3. D(e)
    BY <2>2
  <2> HIDE DEF e
  <2> DEFINE T == {m \in Nat : m + 1 <= n => e[m + 1] = h[m + 1]}
  <2>4. 0 \in T
    <3>1. 1 \in 1..n /\ e[1] = q[1]
      BY <1>2, <2>3
    <3> QED BY <2>1, <3>1
  <2>5. ASSUME NEW m \in Nat, m \in T PROVE m + 1 \in T
    <3>1. CASE (m + 1) + 1 <= n
      <4>1. PICK i \in 1..n : i = (m + 1) + 1
        BY <3>1
      <4>2. i # 1 /\ i - 1 = m + 1 /\ m + 1 <= n
        BY <4>1
      <4>3. e[i] = e[i - 1] \o q[i]
        BY <2>3, <4>2
      <4>4. h[i] = h[i - 1] \o q[i]
        OBVIOUS
      <4>5. e[m + 1] = h[m + 1]
        BY <2>5, <4>2
      <4>6. e[(m + 1) + 1] = h[(m + 1) + 1]
        BY <4>1, <4>2, <4>3, <4>4, <4>5
      <4> QED BY <4>6
    <3>2. CASE ~((m + 1) + 1 <= n)
      BY <3>2
    <3> QED BY <3>1, <3>2
  <2> HIDE DEF T
  <2>6. Nat \subseteq T
    BY <2>4, <2>5, AllNumbers
  <2> USE DEF T
  <2>7. n - 1 \in T /\ (n - 1) + 1 = n
    <3>1. n - 1 \in Nat /\ (n - 1) + 1 = n
      BY <1>2
    <3> HIDE DEF T
    <3> QED BY <2>6, <3>1
  <2>8. e[n] = h[n]
    BY <2>7
  <2>9. FlattenSeq(q) = e[n]
    BY <1>2 DEF FlattenSeq, e
  <2> QED BY <2>8, <2>9
<1> QED BY <1>1, <1>2

LEMMA ConcatParts ==
    ASSUME NEW S, NEW s \in Seq(S), NEW t \in Seq(S)
    PROVE  /\ s \o t \in Seq(S) /\ Len(s \o t) = Len(s) + Len(t) /\ Len(s) \in Nat /\ Len(t) \in Nat
           /\ \A k \in 1..Len(s) : (s \o t)[k] = s[k]
           /\ \A k \in 1..Len(t) : (s \o t)[Len(s) + k] = t[k]
           /\ \A k \in 1..Len(s \o t) : k > Len(s) => /\ k - Len(s) \in 1..Len(t)
                                                    /\ (s \o t)[k] = t[k - Len(s)]
<1>1. /\ s \o t \in Seq(S) /\ Len(s \o t) = Len(s) + Len(t)
      /\ \A k \in 1..(Len(s) + Len(t)) : (s \o t)[k] = IF k <= Len(s) THEN s[k] ELSE t[k - Len(s)]
  BY ConcatProperties
<1>2. Len(s) \in Nat /\ Len(t) \in Nat
  BY LenProperties
<1>3. ASSUME NEW k \in 1..Len(s) PROVE (s \o t)[k] = s[k]
  <2>1. k \in 1..(Len(s) + Len(t)) /\ k <= Len(s)
    BY <1>2
  <2> QED BY <1>1, <2>1
<1>4. ASSUME NEW k \in 1..Len(t) PROVE (s \o t)[Len(s) + k] = t[k]
  <2>1. Len(s) + k \in 1..(Len(s) + Len(t)) /\ ~(Len(s) + k <= Len(s)) /\ (Len(s) + k) - Len(s) = k
    BY <1>2
  <2> QED BY <1>1, <2>1
<1>5. ASSUME NEW k \in 1..Len(s \o t), k > Len(s)
      PROVE  k - Len(s) \in 1..Len(t) /\ (s \o t)[k] = t[k - Len(s)]
  <2>1. k \in 1..(Len(s) + Len(t)) /\ ~(k <= Len(s)) /\ k - Len(s) \in 1..Len(t)
    BY <1>1, <1>2, <1>5
  <2> QED BY <1>1, <2>1
<1> QED BY <1>1, <1>2, <1>3, <1>4, <1>5

LEMMA PrefixOfConcat ==
    ASSUME NEW S, NEW s \in Seq(S), NEW t \in Seq(S), NEW n \in Nat, n <= Len(s)
    PROVE  SubSeq(s \o t, 1, n) = SubSeq(s, 1, n)
<1>1. Len(s) \in Nat
  BY LenProperties
<1>2. CASE n = 0
  BY <1>2, SubSeqEmpty
<1>3. CASE n # 0
  <2>1. 1 \in 1..Len(s) /\ n \in 1..Len(s)
    BY <1>1, <1>3
  <2> QED BY <2>1, SubSeqOfConcat1
<1> QED BY <1>2, <1>3

\* The first parts make the first of the whole.
LEMMA JoinedPrefix ==
    ASSUME NEW S, NEW p \in Seq(Seq(S)), NEW q \in Seq(Seq(S)), Len(p) <= Len(q),
           \A k \in 1..Len(p) : p[k] = q[k]
    PROVE  IsPrefix(FlattenSeq(p), FlattenSeq(q))
<1> DEFINE m == Len(p)
           n == Len(q)
<1>1. m \in Nat /\ n \in Nat /\ m <= n
  BY LenProperties
<1>2. PICK h \in [0..n -> Seq(S)] : h[0] = <<>> /\ \A k \in 1..n : h[k] = h[k - 1] \o q[k]
  BY JoinedSteps
<1>0. Len(p) = m /\ Len(q) = n /\ \A k \in 1..m : p[k] = q[k]
  OBVIOUS
<1> HIDE DEF m, n
<1>3. FlattenSeq(q) = h[n]
  <2>1. n \in Nat /\ Len(q) = n /\ h[0] = <<>> /\ \A k \in 1..n : h[k] = h[k - 1] \o q[k]
    BY <1>0, <1>1, <1>2
  <2>2. q \in Seq(Seq(S))
    OBVIOUS
  <2> QED BY ONLY <2>1, <2>2, JoinedIs
<1>4. FlattenSeq(p) = h[m]
  <2>1. ASSUME NEW k \in 1..m PROVE h[k] = h[k - 1] \o p[k]
    <3>1. k \in 1..n
      BY <1>1
    <3> QED BY <1>0, <1>2, <3>1
  <2>2. m \in Nat /\ Len(p) = m /\ h[0] = <<>>
    BY <1>0, <1>1, <1>2
  <2>3. \A k \in 1..m : h[k] = h[k - 1] \o p[k]
    BY ONLY <2>1
  <2>4. p \in Seq(Seq(S))
    OBVIOUS
  <2> QED BY ONLY <2>2, <2>3, <2>4, JoinedIs
<1>5. \A k \in 1..n : q[k] \in Seq(S)
  BY <1>0, ElementOfSeq
<1>6. \A k \in 0..n : h[k] \in Seq(S)
  BY <1>2
<1> DEFINE T == {i \in Nat : m + i <= n => IsPrefix(h[m], h[m + i])}
<1>7. 0 \in T
  <2>1. h[m] \in Seq(S) /\ m + 0 = m
    BY <1>1, <1>6
  <2>2. IsPrefix(h[m], h[m])
    BY <2>1, SubSeqFull DEF IsPrefix
  <2> QED BY <2>1, <2>2
<1>8. ASSUME NEW i \in Nat, i \in T PROVE i + 1 \in T
  <2>1. CASE m + (i + 1) <= n
    <3> DEFINE k == m + i
    <3>1. k \in 0..n /\ k + 1 \in 1..n /\ (k + 1) - 1 = k /\ m + (i + 1) = k + 1 /\ m \in 0..n
      BY <1>1, <2>1
    <3> HIDE DEF k
    <3>2. h[k + 1] = h[k] \o q[k + 1] /\ h[k] \in Seq(S) /\ q[k + 1] \in Seq(S) /\ h[m] \in Seq(S)
      BY <1>2, <1>5, <1>6, <3>1
    <3>3. IsPrefix(h[m], h[k])
      BY <1>8, <2>1, <3>1 DEF k
    <3>4. IsPrefix(h[m], h[k + 1])
      <4>1. Len(h[m]) \in Nat /\ Len(h[k]) \in Nat /\ Len(q[k + 1]) \in Nat
            /\ Len(h[k + 1]) = Len(h[k]) + Len(q[k + 1])
        BY <3>2, LenProperties, ConcatProperties
      <4>2. Len(h[m]) <= Len(h[k]) /\ SubSeq(h[m], 1, Len(h[m])) = SubSeq(h[k], 1, Len(h[m]))
        BY <3>3 DEF IsPrefix
      <4>3. SubSeq(h[k + 1], 1, Len(h[m])) = SubSeq(h[k], 1, Len(h[m]))
        <5>1. SubSeq(h[k] \o q[k + 1], 1, Len(h[m])) = SubSeq(h[k], 1, Len(h[m]))
          BY <3>2, <4>1, <4>2, PrefixOfConcat
        <5> QED BY <3>2, <5>1
      <4>4. Len(h[m]) <= Len(h[k + 1])
        <5>1. \A u, v, w \in Nat : u <= v => u <= v + w
          OBVIOUS
        <5>2. Len(h[m]) <= Len(h[k]) + Len(q[k + 1])
          BY <4>1, <4>2, <5>1
        <5> QED BY <4>1, <5>2
      <4> QED BY <4>2, <4>3, <4>4 DEF IsPrefix
    <3> QED BY <3>1, <3>4
  <2>2. CASE ~(m + (i + 1) <= n)
    BY <2>2
  <2> QED BY <2>1, <2>2
<1> HIDE DEF T
<1>9. Nat \subseteq T
  BY <1>7, <1>8, AllNumbers
<1>10. n - m \in T /\ m + (n - m) = n
  <2>1. n - m \in Nat /\ m + (n - m) = n
    BY <1>1
  <2> QED BY <1>9, <2>1
<1>11. IsPrefix(h[m], h[n])
  <2>1. m + (n - m) <= n => IsPrefix(h[m], h[m + (n - m)])
    BY <1>10 DEF T
  <2>2. m + (n - m) <= n
    BY <1>1, <1>10
  <2> QED BY <1>10, <2>1, <2>2
<1> QED BY <1>3, <1>4, <1>11
-----------------------------------------------------------------------------
(***************************************************************************)
(* What the tap reads when the screen has followed the window.             *)
(***************************************************************************)
CursorRow(s) == buf(s).base + s.y

\* The rows of s and t: the cursor's is the same, each has what the other has, and
\* what only t has is blank.
Kept(s, t) ==
    LET L == buf(s).lines
        M == buf(t).lines
    IN  /\ CursorRow(t) = CursorRow(s)
        /\ \A k \in 1..Len(L) : k <= Len(M) => M[k] = L[k]
        /\ \A k \in 1..Len(M) : k > Len(L) => M[k] = newRow

LEMMA CursorRowIs ==
    ASSUME NEW s \in Screens
    PROVE  /\ CursorRow(s) \in Nat /\ CursorRow(s) < Len(buf(s).lines)
           /\ Len(buf(s).lines) \in Nat /\ Len(buf(s).lines) = buf(s).base + s.rows
           /\ buf(s).base \in Nat /\ s.rows \in Nat /\ s.y \in Nat /\ s.x \in Nat
           /\ \A k \in 1..Len(buf(s).lines) : buf(s).lines[k] \in Row
<1>1. buf(s) \in Buffer /\ Holds(buf(s), s.rows)
  BY BufOf
<1>2. s.rows \in Nat /\ s.y \in Nat /\ s.x \in Nat /\ s.y < s.rows
  BY DEF Screens, ScreenType, Shaped, Sized
<1>3. buf(s).lines \in Seq(Row) /\ buf(s).base \in Nat /\ Len(buf(s).lines) = buf(s).base + s.rows
  BY <1>1 DEF Buffer, Holds
<1>4. \A k \in 1..Len(buf(s).lines) : buf(s).lines[k] \in Row
  BY <1>3, ElementOfSeq
<1> QED BY <1>2, <1>3, <1>4 DEF CursorRow

\* Rows that are the same read the same.
LEMMA JoinedSame ==
    ASSUME NEW s, NEW t, NEW i \in Int, NEW j \in Int,
           \A k \in (i + 1)..(j + 1) : buf(t).lines[k] = buf(s).lines[k]
    PROVE  joined(t, i, j) = joined(s, i, j)
<1>1. \A k \in 1..Most(0, j - i + 1) : buf(t).lines[i + k] = buf(s).lines[i + k]
  BY DEF Most
<1>2. [k \in 1..Most(0, j - i + 1) |-> whole(buf(t).lines[i + k].cells)]
        = [k \in 1..Most(0, j - i + 1) |-> whole(buf(s).lines[i + k].cells)]
  BY <1>1
<1> QED BY <1>2 DEF joined

\* What a cell shows, what cells show, and what rows show.
LEMMA GlyphIs == \A c \in Glyphs : glyph(c) \in Texts
<1>1. " " \in Chars /\ <<>> \in Texts /\ \A c \in Chars : <<c>> \in Texts
  BY Signs, WordsSent
<1>2. Undefined # Half
  BY DEF Undefined, Half
<1> QED BY <1>1, <1>2 DEF glyph, Glyphs

LEMMA CellIs ==
    ASSUME NEW c \in Seq(Glyphs), NEW i \in Int
    PROVE  Cell(c, i) \in Glyphs
<1>1. Len(c) \in Nat /\ \A k \in 1..Len(c) : c[k] \in Glyphs
  BY LenProperties, ElementOfSeq
<1>2. CASE i \in 0..(Len(c) - 1)
  <2>1. i + 1 \in 1..Len(c)
    BY <1>1, <1>2
  <2> QED BY <1>1, <1>2, <2>1 DEF Cell
<1>3. CASE i \notin 0..(Len(c) - 1)
  BY <1>3 DEF Cell, Glyphs
<1> QED BY <1>2, <1>3

LEMMA TextIs ==
    ASSUME NEW c \in Seq(Glyphs), NEW i \in Int, NEW j \in Int
    PROVE  text(c, i, j) \in Texts
<1> DEFINE n == Most(0, j - i)
           q == [k \in 1..n |-> glyph(Cell(c, i + k - 1))]
<1>1. n \in Nat
  BY DEF Most
<1>2. text(c, i, j) = FlattenSeq(q)
  BY DEF text
<1> HIDE DEF n
<1>3. \A k \in 1..n : glyph(Cell(c, i + k - 1)) \in Texts
  <2>1. \A k \in 1..n : i + k - 1 \in Int
    BY <1>1
  <2>2. \A k \in 1..n : Cell(c, i + k - 1) \in Glyphs
    BY <2>1, CellIs
  <2> QED BY <2>2, GlyphIs
<1>4. q \in [1..n -> Texts]
  BY <1>3
<1> HIDE DEF q
<1>5. q \in Seq(Texts)
  BY <1>1, <1>4, FunctionIsSeq
<1> QED BY <1>2, <1>5, Joined

LEMMA WholeIs ==
    ASSUME NEW r \in Row PROVE whole(r.cells) \in Texts
<1>1. r.cells \in Seq(Glyphs) /\ Len(r.cells) \in Int
  BY LenProperties DEF Row, Cells
<1> QED BY <1>1, TextIs, 0 \in Int DEF whole

\* The rows of a stretch of the buffer, as texts.
RowTexts(s, i, n) == [k \in 1..n |-> whole(buf(s).lines[i + k].cells)]

LEMMA RowTextsAre ==
    ASSUME NEW s \in Screens, NEW i \in Nat, NEW n \in Nat, i + n <= Len(buf(s).lines)
    PROVE  RowTexts(s, i, n) \in Seq(Texts) /\ Len(RowTexts(s, i, n)) = n
<1>1. Len(buf(s).lines) \in Nat /\ \A k \in 1..Len(buf(s).lines) : buf(s).lines[k] \in Row
  BY CursorRowIs
<1>2. \A k \in 1..n : buf(s).lines[i + k] \in Row
  <2>1. \A k \in 1..n : i + k \in 1..Len(buf(s).lines)
    BY <1>1
  <2> QED BY <1>1, <2>1
<1>3. \A k \in 1..n : whole(buf(s).lines[i + k].cells) \in Texts
  BY <1>2, WholeIs
<1>4. RowTexts(s, i, n) \in [1..n -> Texts]
  BY <1>3 DEF RowTexts
<1> QED BY <1>4, FunctionIsSeq

\* The first rows of a stretch show the first of what all show.
LEMMA JoinedLess ==
    ASSUME NEW s \in Screens, NEW i \in Nat, NEW d \in Int, NEW e \in Int,
           i <= d + 1, d <= e, e < Len(buf(s).lines)
    PROVE  IsPrefix(joined(s, i, d), joined(s, i, e))
<1> DEFINE m == Most(0, d - i + 1)
           n == Most(0, e - i + 1)
           p == RowTexts(s, i, m)
           q == RowTexts(s, i, n)
<1>0. Len(buf(s).lines) \in Nat
  BY CursorRowIs
<1>1. m \in Nat /\ n \in Nat /\ m <= n /\ i + n <= Len(buf(s).lines)
  BY <1>0 DEF Most
<1>2. joined(s, i, d) = FlattenSeq(p) /\ joined(s, i, e) = FlattenSeq(q)
  BY DEF joined, RowTexts
<1>3. \A k \in 1..m : p[k] = q[k]
  BY <1>1 DEF RowTexts
<1> HIDE DEF m, n
<1>4. i + m <= Len(buf(s).lines)
  BY <1>0, <1>1
<1>5. p \in Seq(Texts) /\ Len(p) = m /\ q \in Seq(Texts) /\ Len(q) = n
  BY <1>1, <1>4, RowTextsAre
<1> HIDE DEF p, q
<1>6. IsPrefix(FlattenSeq(p), FlattenSeq(q))
  <2>1. p \in Seq(Seq(Chars)) /\ q \in Seq(Seq(Chars)) /\ Len(p) <= Len(q)
        /\ \A k \in 1..Len(p) : p[k] = q[k]
    BY <1>1, <1>3, <1>5 DEF Texts
  <2> QED BY <2>1, JoinedPrefix
<1> QED BY <1>2, <1>6

\* The first and the last row of the line at the cursor.
Starts(s) == {i \in 0..CursorRow(s) : i = 0 \/ ~buf(s).lines[i + 1].wrapped}
EndsOf(s)  == {i \in CursorRow(s)..(Len(buf(s).lines) - 1) :
                 i = Len(buf(s).lines) - 1 \/ ~buf(s).lines[i + 2].wrapped}

LEMMA LineBounds ==
    ASSUME NEW s \in Screens
    PROVE  /\ lineStart(s) \in Starts(s) /\ \A i \in Starts(s) : i <= lineStart(s)
           /\ lineEnd(s) \in EndsOf(s) /\ \A i \in EndsOf(s) : lineEnd(s) <= i
<1>1. CursorRow(s) \in Nat /\ CursorRow(s) < Len(buf(s).lines) /\ Len(buf(s).lines) \in Nat
  BY CursorRowIs
<1>2. lineStart(s) = Max(Starts(s)) /\ lineEnd(s) = Min(EndsOf(s))
  BY DEF lineStart, lineEnd, Starts, EndsOf, CursorRow
<1>3. Starts(s) \subseteq 0..CursorRow(s) /\ Starts(s) # {}
  <2>1. 0 \in Starts(s)
    BY <1>1 DEF Starts
  <2> QED BY <2>1 DEF Starts
<1>4. EndsOf(s) \subseteq Nat /\ EndsOf(s) # {}
  <2>1. Len(buf(s).lines) - 1 \in EndsOf(s)
    BY <1>1 DEF EndsOf
  <2>2. EndsOf(s) \subseteq Nat
    BY <1>1 DEF EndsOf
  <2> QED BY <2>1, <2>2
<1>5. Max(Starts(s)) \in Starts(s) /\ \A i \in Starts(s) : i <= Max(Starts(s))
  BY <1>1, <1>3, GreatestIs
<1>6. Min(EndsOf(s)) \in EndsOf(s) /\ \A i \in EndsOf(s) : Min(EndsOf(s)) <= i
  BY <1>4, LeastIs
<1> QED BY <1>2, <1>5, <1>6

LEMMA KeptRows ==
    ASSUME NEW s \in Screens, NEW t \in Screens, Kept(s, t)
    PROVE  /\ CursorRow(t) = CursorRow(s) /\ CursorRow(s) \in Nat
           /\ CursorRow(s) < Len(buf(s).lines) /\ CursorRow(s) < Len(buf(t).lines)
           /\ Len(buf(s).lines) \in Nat /\ Len(buf(t).lines) \in Nat
           /\ \A k \in 1..Len(buf(s).lines) :
                  k <= Len(buf(t).lines) => buf(t).lines[k] = buf(s).lines[k]
           /\ \A k \in 1..Len(buf(t).lines) :
                  k > Len(buf(s).lines) => buf(t).lines[k] = newRow
<1>1. CursorRow(t) = CursorRow(s)
  BY DEF Kept
<1>2. /\ CursorRow(s) \in Nat /\ CursorRow(s) < Len(buf(s).lines) /\ Len(buf(s).lines) \in Nat
      /\ CursorRow(t) < Len(buf(t).lines) /\ Len(buf(t).lines) \in Nat
  BY CursorRowIs
<1> QED BY <1>1, <1>2 DEF Kept

LEMMA StartSame ==
    ASSUME NEW s \in Screens, NEW t \in Screens, Kept(s, t)
    PROVE  lineStart(t) = lineStart(s)
<1>1. \A i \in 0..CursorRow(s) : buf(t).lines[i + 1] = buf(s).lines[i + 1]
  <2>1. ASSUME NEW i \in 0..CursorRow(s) PROVE buf(t).lines[i + 1] = buf(s).lines[i + 1]
    <3>1. i + 1 \in 1..Len(buf(s).lines) /\ i + 1 <= Len(buf(t).lines)
      BY KeptRows
    <3> QED BY <3>1, KeptRows
  <2> QED BY <2>1
<1>2. Starts(t) = Starts(s)
  BY <1>1, KeptRows DEF Starts
<1> QED BY <1>2 DEF lineStart, Starts, CursorRow

LEMMA EndLess ==
    ASSUME NEW s \in Screens, NEW t \in Screens, Kept(s, t)
    PROVE  lineEnd(t) <= lineEnd(s) /\ lineEnd(t) < Len(buf(t).lines) /\ lineEnd(t) \in Nat
           /\ lineEnd(s) \in Nat /\ lineEnd(s) < Len(buf(s).lines)
           /\ CursorRow(s) <= lineEnd(t)
<1> DEFINE L == buf(s).lines
           M == buf(t).lines
           e == lineEnd(s)
<1>1. e \in EndsOf(s) /\ lineEnd(t) \in EndsOf(t) /\ \A i \in EndsOf(t) : lineEnd(t) <= i
  BY LineBounds
<1>2. /\ e \in Nat /\ CursorRow(s) <= e /\ e < Len(L) /\ (e = Len(L) - 1 \/ ~L[e + 2].wrapped)
      /\ lineEnd(t) \in Nat /\ lineEnd(t) < Len(M) /\ CursorRow(s) <= lineEnd(t)
  BY <1>1, KeptRows DEF EndsOf
<1>3. lineEnd(t) <= e
  <2>1. CASE e < Len(M)
    <3>1. e = Len(M) - 1 \/ ~M[e + 2].wrapped
      <4>1. CASE e + 2 <= Len(M) /\ e + 2 <= Len(L)
        <5>1. M[e + 2] = L[e + 2] /\ e # Len(L) - 1
          BY <1>2, <4>1, KeptRows
        <5> QED BY <1>2, <5>1
      <4>2. CASE e + 2 <= Len(M) /\ e + 2 > Len(L)
        <5>1. M[e + 2] = newRow
          BY <1>2, <4>2, KeptRows
        <5> QED BY <5>1 DEF newRow
      <4>3. CASE e + 2 > Len(M)
        BY <1>2, <2>1, <4>3, KeptRows
      <4> QED BY <1>2, <4>1, <4>2, <4>3, KeptRows
    <3>2. e \in EndsOf(t)
      BY <1>2, <2>1, <3>1, KeptRows DEF EndsOf
    <3> QED BY <1>1, <3>2
  <2>2. CASE ~(e < Len(M))
    BY <1>2, <2>2, KeptRows
  <2> QED BY <2>1, <2>2
<1> QED BY <1>2, <1>3

LEMMA HeldLess ==
    ASSUME NEW s \in Screens, NEW t \in Screens, Kept(s, t)
    PROVE  IsPrefix(Held(t), Held(s))
<1> DEFINE i == lineStart(s)
           d == lineEnd(t)
           e == lineEnd(s)
<1>1. i \in Nat /\ i <= CursorRow(s) /\ CursorRow(s) \in Nat
  BY LineBounds, KeptRows DEF Starts
<1>2. d \in Nat /\ e \in Nat /\ d <= e /\ d < Len(buf(t).lines) /\ e < Len(buf(s).lines)
      /\ CursorRow(s) <= d
  BY EndLess
<1>3. lineStart(t) = i
  BY StartSame
<1> HIDE DEF i, d, e
<1>4. \A k \in (i + 1)..(d + 1) : buf(t).lines[k] = buf(s).lines[k]
  <2>1. ASSUME NEW k \in (i + 1)..(d + 1) PROVE buf(t).lines[k] = buf(s).lines[k]
    <3>1. k \in 1..Len(buf(s).lines) /\ k <= Len(buf(t).lines)
      BY <1>1, <1>2, KeptRows
    <3> QED BY <3>1, KeptRows
  <2> QED BY <2>1
<1>5. joined(t, i, d) = joined(s, i, d)
  BY <1>1, <1>2, <1>4, JoinedSame
<1>6. IsPrefix(joined(s, i, d), joined(s, i, e))
  <2>1. i <= d + 1 /\ d \in Int /\ e \in Int
    BY <1>1, <1>2
  <2> QED BY <1>1, <1>2, <2>1, JoinedLess
<1>7. Held(t) = joined(t, i, d) /\ Held(s) = joined(s, i, e)
  BY <1>3 DEF Held, i, d, e
<1> QED BY <1>5, <1>6, <1>7

LEMMA BeforeSame ==
    ASSUME NEW s \in Screens, NEW t \in Screens, Kept(s, t), t.x = s.x
    PROVE  cursorLine(t).before = cursorLine(s).before
<1> DEFINE i == lineStart(s)
           c == CursorRow(s)
<1>1. i \in Nat /\ i <= c /\ c \in Nat /\ lineStart(t) = i /\ CursorRow(t) = c
  BY LineBounds, KeptRows, StartSame DEF Starts
<1>2. cursorLine(s).before = joined(s, i, c - 1) \o text(cellsAt(s), 0, s.x)
  BY DEF cursorLine, CursorRow
<1>3. cursorLine(t).before = joined(t, lineStart(t), CursorRow(t) - 1) \o text(cellsAt(t), 0, t.x)
  BY DEF cursorLine, CursorRow
<1> HIDE DEF i, c
<1>4. \A k \in 1..(c + 1) : buf(t).lines[k] = buf(s).lines[k]
  <2>1. ASSUME NEW k \in 1..(c + 1) PROVE buf(t).lines[k] = buf(s).lines[k]
    <3>1. k \in 1..Len(buf(s).lines) /\ k <= Len(buf(t).lines)
      BY <1>1, KeptRows DEF c
    <3> QED BY <3>1, KeptRows
  <2> QED BY <2>1
<1>5. joined(t, i, c - 1) = joined(s, i, c - 1)
  <2>1. \A k \in (i + 1)..((c - 1) + 1) : buf(t).lines[k] = buf(s).lines[k]
    BY <1>1, <1>4
  <2> QED BY <1>1, <2>1, JoinedSame
<1>6. cellsAt(t) = cellsAt(s)
  <2>1. cellsAt(s) = buf(s).lines[c + 1].cells /\ cellsAt(t) = buf(t).lines[CursorRow(t) + 1].cells
    BY DEF cellsAt, line, c, CursorRow
  <2>2. buf(t).lines[c + 1] = buf(s).lines[c + 1]
    BY <1>1, <1>4
  <2> QED BY <1>1, <2>1, <2>2
<1> QED BY <1>1, <1>2, <1>3, <1>5, <1>6

\* The rows that lines() reads: down to the cursor or the last row that is not blank.
Shows(s)   == {CursorRow(s)} \cup {i \in 0..(Len(buf(s).lines) - 1) :
                                      ~blank(whole(buf(s).lines[i + 1].cells))}
LastRow(s) == Max(Shows(s))
Heads(s)   == {i \in 0..LastRow(s) : i = 0 \/ ~buf(s).lines[i + 1].wrapped}
TailOf(s, i) == Min({LastRow(s)} \cup {j - 1 : j \in {h \in Heads(s) : h > i}})

LEMMA NothingShown == whole(newRow.cells) = <<>> /\ blank(whole(newRow.cells))
<1> DEFINE q == [k \in 1..0 |-> glyph(Cell(<<>>, 0 + k - 1))]
<1>1. text(<<>>, 0, 0) = FlattenSeq(q)
  BY DEF text, Most
<1>2. q = <<>>
  OBVIOUS
<1> HIDE DEF q
<1>4. FlattenSeq(q) = <<>>
  BY <1>2 DEF FlattenSeq
<1>5. whole(newRow.cells) = text(<<>>, 0, 0)
  BY DEF whole, newRow
<1>6. blank(<<>>)
  <2>1. Len(<<>>) = 0
    OBVIOUS
  <2>2. 1..0 = {}
    OBVIOUS
  <2> QED BY <2>1, <2>2, Zenon DEF blank
<1> QED BY <1>1, <1>4, <1>5, <1>6

LEMMA LastRowIs ==
    ASSUME NEW s \in Screens
    PROVE  LastRow(s) \in Nat /\ LastRow(s) < Len(buf(s).lines)
<1> DEFINE n == Len(buf(s).lines)
<1>1. CursorRow(s) \in Nat /\ CursorRow(s) < n /\ n \in Nat
  BY CursorRowIs
<1> HIDE DEF n
<1>2. Shows(s) \subseteq 0..(n - 1) /\ Shows(s) # {} /\ n - 1 \in Nat
  BY <1>1 DEF Shows, n
<1>3. Max(Shows(s)) \in Shows(s)
  BY <1>2, GreatestIs
<1>4. LastRow(s) \in 0..(n - 1)
  BY <1>2, <1>3 DEF LastRow
<1> QED BY <1>1, <1>4 DEF n

LEMMA TailIs ==
    ASSUME NEW s \in Screens, NEW i \in Heads(s)
    PROVE  TailOf(s, i) \in Nat /\ TailOf(s, i) <= LastRow(s)
<1> DEFINE T == {LastRow(s)} \cup {j - 1 : j \in {h \in Heads(s) : h > i}}
<1>1. LastRow(s) \in Nat /\ Heads(s) \subseteq Nat /\ i \in Nat
  BY LastRowIs DEF Heads
<1>2. T \subseteq Nat /\ LastRow(s) \in T
  <2>1. \A j \in Heads(s) : j > i => j - 1 \in Nat
    BY <1>1
  <2> QED BY <1>1, <2>1
<1> HIDE DEF T
<1>3. Min(T) \in T /\ Min(T) <= LastRow(s)
  BY <1>2, LeastIs
<1>4. TailOf(s, i) = Min(T)
  BY DEF TailOf, T
<1> QED BY <1>2, <1>3, <1>4

LEMMA LinesSame ==
    ASSUME NEW s \in Screens, NEW t \in Screens, Kept(s, t),
           Len(buf(s).lines) <= Len(buf(t).lines)
    PROVE  lines(t) = lines(s)
<1> DEFINE L == buf(s).lines
           M == buf(t).lines
<1>1. Len(L) \in Nat /\ Len(M) \in Nat /\ Len(L) <= Len(M) /\ CursorRow(t) = CursorRow(s)
  BY KeptRows
<1>2. \A i \in 0..(Len(L) - 1) : M[i + 1] = L[i + 1]
  <2>1. ASSUME NEW i \in 0..(Len(L) - 1) PROVE M[i + 1] = L[i + 1]
    <3>1. i + 1 \in 1..Len(L) /\ i + 1 <= Len(M)
      BY <1>1
    <3> QED BY <3>1, KeptRows
  <2> QED BY <2>1
<1>3. \A i \in 0..(Len(M) - 1) : i >= Len(L) => M[i + 1] = newRow
  <2>1. ASSUME NEW i \in 0..(Len(M) - 1), i >= Len(L) PROVE M[i + 1] = newRow
    <3>1. i + 1 \in 1..Len(M) /\ i + 1 > Len(L)
      BY <1>1, <2>1
    <3> QED BY <3>1, KeptRows
  <2> QED BY <2>1
<1>4. Shows(t) = Shows(s)
  <2>1. ASSUME NEW i \in 0..(Len(M) - 1), ~blank(whole(M[i + 1].cells))
        PROVE  i \in 0..(Len(L) - 1) /\ ~blank(whole(L[i + 1].cells))
    <3>1. ~(i >= Len(L))
      BY <1>3, <2>1, NothingShown
    <3>2. i \in 0..(Len(L) - 1)
      BY <1>1, <3>1
    <3> QED BY <1>2, <2>1, <3>2
  <2>2. ASSUME NEW i \in 0..(Len(L) - 1), ~blank(whole(L[i + 1].cells))
        PROVE  i \in 0..(Len(M) - 1) /\ ~blank(whole(M[i + 1].cells))
    BY <1>1, <1>2, <2>2
  <2> QED BY <1>1, <2>1, <2>2 DEF Shows
<1>5. LastRow(t) = LastRow(s)
  BY <1>4 DEF LastRow
<1>6. LastRow(s) \in Nat /\ LastRow(s) < Len(L)
  BY LastRowIs
<1>7. Heads(t) = Heads(s)
  <2>1. \A i \in 0..LastRow(s) : M[i + 1] = L[i + 1]
    BY <1>1, <1>2, <1>6
  <2> QED BY <1>5, <2>1 DEF Heads
<1>8. ASSUME NEW i \in Heads(s)
      PROVE  <<i, joined(t, i, TailOf(t, i))>> = <<i, joined(s, i, TailOf(s, i))>>
  <2>1. TailOf(t, i) = TailOf(s, i)
    BY <1>5, <1>7 DEF TailOf
  <2>2. TailOf(s, i) \in Nat /\ TailOf(s, i) <= LastRow(s)
    BY TailIs
  <2>3. i \in Nat
    BY DEF Heads
  <2>4. \A k \in (i + 1)..(TailOf(s, i) + 1) : M[k] = L[k]
    <3>1. ASSUME NEW k \in (i + 1)..(TailOf(s, i) + 1) PROVE M[k] = L[k]
      <4>1. k \in 1..Len(L) /\ k <= Len(M)
        BY <1>1, <1>6, <2>2, <2>3
      <4> QED BY <4>1, KeptRows
    <3> QED BY <3>1
  <2>5. joined(t, i, TailOf(s, i)) = joined(s, i, TailOf(s, i))
    BY <2>2, <2>3, <2>4, JoinedSame
  <2> QED BY <2>1, <2>5
<1>9. lines(s) = {<<i, joined(s, i, TailOf(s, i))>> : i \in Heads(s)}
      /\ lines(t) = {<<i, joined(t, i, TailOf(t, i))>> : i \in Heads(t)}
  BY DEF lines, Heads, TailOf, LastRow, Shows, CursorRow
<1> QED BY <1>7, <1>8, <1>9
-----------------------------------------------------------------------------
\* A buffer that follows the window keeps its rows and takes the cursor along.
LEMMA FittedKeeps ==
    ASSUME NEW b \in Buffer, NEW h \in Nat \ {0}, Len(b.lines) = b.base + h, NEW rows \in Nat \ {0},
           NEW y \in Nat, y < h
    PROVE  LET r == fitted(b, rows, y, TRUE) IN
           /\ r.b.base + rides(y, r.d, rows) = b.base + y
           /\ \A k \in 1..Len(b.lines) : k <= Len(r.b.lines) => r.b.lines[k] = b.lines[k]
           /\ \A k \in 1..Len(r.b.lines) : k > Len(b.lines) => r.b.lines[k] = newRow
           /\ rows >= h => Len(b.lines) <= Len(r.b.lines)
<1> DEFINE pull == IF y = h - 1 THEN Least(b.base, rows - h) ELSE 0
           drop == Least(h - rows, h - 1 - y)
           more == buffer(rows - h - pull).lines
           less == SubSeq(b.lines, 1, Len(b.lines) - drop)
           grown == [b EXCEPT !.base = b.base - pull, !.lines = b.lines \o more]
           cut == [b EXCEPT !.base = b.base + (h - rows - drop), !.lines = less]
           r == fitted(b, rows, y, TRUE)
<1>1. b.lines \in Seq(Row) /\ b.base \in Nat /\ Len(b.lines) \in Nat /\ Len(b.lines) - b.base = h
  BY LenProperties DEF Buffer
<1>2. r = IF rows >= h THEN [b |-> grown, d |-> pull] ELSE [b |-> cut, d |-> drop + rows - h]
  BY <1>1 DEF fitted
<1>3. CASE rows >= h
  <2>1. pull \in Nat /\ pull <= b.base /\ pull <= rows - h /\ (pull # 0 => y = h - 1)
    BY <1>1, <1>3 DEF Least
  <2> HIDE DEF pull
  <2>2. rows - h - pull \in Nat /\ b.base - pull \in Nat
    BY <1>1, <1>3, <2>1
  <2>3. more \in Seq(Row) /\ Len(more) = rows - h - pull
    BY <2>2, BlankBuffer
  <2>4. \A k \in 1..Len(more) : more[k] = newRow
    BY <2>2, <2>3 DEF buffer, NoBuffer
  <2> HIDE DEF more
  <2>51. b.lines \in Seq(Row) /\ more \in Seq(Row)
    BY <1>1, <2>3
  <2>5. /\ Len(b.lines \o more) = Len(b.lines) + Len(more)
        /\ \A k \in 1..Len(b.lines) : (b.lines \o more)[k] = b.lines[k]
        /\ \A k \in 1..Len(b.lines \o more) :
               k > Len(b.lines) => /\ k - Len(b.lines) \in 1..Len(more)
                                   /\ (b.lines \o more)[k] = more[k - Len(b.lines)]
    BY ONLY <2>51, ConcatParts
  <2>6. grown.base = b.base - pull /\ grown.lines = b.lines \o more
    BY DEF Buffer
  <2>7. r.b = grown /\ r.d = pull
    <3> HIDE DEF grown, r
    <3>1. r = [b |-> grown, d |-> pull]
      BY <1>2, <1>3
    <3> QED BY <3>1
  <2> HIDE DEF grown, r
  <2>8. rides(y, pull, rows) = y + pull
    BY <1>3, <2>1 DEF rides, Most, Least
  <2>9. ASSUME NEW k \in 1..Len(b.lines \o more), k > Len(b.lines)
        PROVE  (b.lines \o more)[k] = newRow
    <3>1. k - Len(b.lines) \in 1..Len(more)
      BY <2>5, <2>9
    <3> QED BY <2>4, <2>5, <2>9, <3>1
  <2>10. (b.base - pull) + (y + pull) = b.base + y
    BY <1>1, <2>1
  <2>11. Len(b.lines) <= Len(b.lines \o more)
    BY <1>1, <2>2, <2>3, <2>5
  <2> QED BY <2>5, <2>6, <2>7, <2>8, <2>9, <2>10, <2>11 DEF r
<1>4. CASE ~(rows >= h)
  <2>1. drop \in Nat /\ drop <= h - rows /\ drop <= h - 1 - y
        /\ (drop = h - rows \/ drop = h - 1 - y)
    BY <1>1, <1>4 DEF Least
  <2> HIDE DEF drop
  <2>2. Len(b.lines) - drop \in Nat /\ Len(b.lines) - drop <= Len(b.lines)
    BY <1>1, <1>4, <2>1
  <2>3. Len(less) = Len(b.lines) - drop /\ \A k \in 1..Len(less) : less[k] = b.lines[k]
    <3>1. \A k \in 1..(Len(b.lines) - drop) : b.lines[k] \in Row
      <4>1. \A k \in 1..Len(b.lines) : b.lines[k] \in Row
        BY <1>1, ElementOfSeq
      <4> QED BY <1>1, <2>2, <4>1
    <3>2. 1 \in Int /\ Len(b.lines) - drop \in Int
      BY <2>2
    <3>3. Len(less) = IF 1 <= Len(b.lines) - drop THEN (Len(b.lines) - drop) - 1 + 1 ELSE 0
      BY <1>1, <2>2, <3>1, <3>2, SubSeqProperties
    <3>4. Len(less) = Len(b.lines) - drop
      BY <2>2, <3>3
    <3>5. \A k \in 1..((Len(b.lines) - drop) - 1 + 1) : less[k] = b.lines[1 + k - 1]
      BY <1>1, <2>2, <3>1, <3>2, SubSeqProperties
    <3> QED BY <2>2, <3>4, <3>5
  <2> HIDE DEF less
  <2>4. cut.base = b.base + (h - rows - drop) /\ cut.lines = less
    BY DEF Buffer
  <2>5. r.b = cut /\ r.d = drop + rows - h
    <3> HIDE DEF cut, r
    <3>1. r = [b |-> cut, d |-> drop + rows - h]
      BY <1>2, <1>4
    <3> QED BY <3>1
  <2> HIDE DEF cut, r
  <2>6. rides(y, drop + rows - h, rows) = y + (drop + rows - h)
    BY <1>4, <2>1 DEF rides, Most, Least
  <2>7. (b.base + (h - rows - drop)) + (y + (drop + rows - h)) = b.base + y
    BY <1>1, <2>1
  <2>8. \A k \in 1..Len(b.lines) : k <= Len(less) => less[k] = b.lines[k]
    BY <1>1, <2>2, <2>3
  <2>9. \A k \in 1..Len(less) : ~(k > Len(b.lines))
    BY <1>1, <2>2, <2>3
  <2> QED BY <1>4, <2>4, <2>5, <2>6, <2>7, <2>8, <2>9 DEF r
<1> QED BY <1>3, <1>4

\* The screen that has followed the window has kept its rows, and its cursor the row.
LEMMA FitKept ==
    ASSUME NEW s \in Screens, NEW g \in [cols : Nat \ {0, 1}, rows : Nat \ {0}]
    PROVE  LET t == fit(s, g) IN
           /\ Kept(s, t) /\ t.x = Least(s.x, g.cols) /\ t.rows = g.rows
           /\ g.rows >= s.rows => Len(buf(s).lines) <= Len(buf(t).lines)
<1> DEFINE m == fitted(s.main, g.rows, s.y, onMain(s))
           a == fitted(s.alt, g.rows, s.y, TRUE)
           f == fitted(buf(s), g.rows, s.y, TRUE)
           alt == IF onMain(s) THEN NoBuffer ELSE a.b
           x == Least(s.x, g.cols)
           y == rides(s.y, IF onMain(s) THEN m.d ELSE a.d, g.rows)
           new == [s EXCEPT !.cols = g.cols, !.rows = g.rows, !.main = m.b, !.alt = alt,
                            !.top = 0, !.bottom = g.rows - 1, !.x = x, !.y = y]
<1>1. /\ s.rows \in Nat \ {0} /\ s.y \in Nat /\ s.y < s.rows /\ s.x \in Nat /\ s.x <= s.cols
      /\ s.cols \in Nat /\ g.rows \in Nat \ {0} /\ g.cols \in Nat
  BY DEF Screens, ScreenType, Shaped, Sized
<1>2. buf(s) \in Buffer /\ Len(buf(s).lines) = buf(s).base + s.rows
  BY BufOf DEF Holds
<1>3. /\ f.b.base + rides(s.y, f.d, g.rows) = buf(s).base + s.y
      /\ \A k \in 1..Len(buf(s).lines) : k <= Len(f.b.lines) => f.b.lines[k] = buf(s).lines[k]
      /\ \A k \in 1..Len(f.b.lines) : k > Len(buf(s).lines) => f.b.lines[k] = newRow
      /\ g.rows >= s.rows => Len(buf(s).lines) <= Len(f.b.lines)
  BY <1>1, <1>2, FittedKeeps
<1>4. onMain(s) => m = f
  BY DEF buf
<1>5. ~onMain(s) => a = f
  BY DEF buf
<1>6. CASE g = [cols |-> s.cols, rows |-> s.rows]
  <2>1. fit(s, g) = s /\ g.cols = s.cols /\ g.rows = s.rows
    BY <1>6 DEF fit
  <2>2. Kept(s, s)
    BY LenProperties, <1>2 DEF Kept, Buffer
  <2> QED BY <1>1, <1>2, <2>1, <2>2 DEF Least
<1>7. CASE g # [cols |-> s.cols, rows |-> s.rows]
  <2>1. fit(s, g) = moved(new)
    BY <1>7 DEF fit
  <2>2. fit(s, g) \in Screens
    BY ScreenFits
  <2> DEFINE t == fit(s, g)
  <2>3. s \in ScreenType
    BY DEF Screens
  <2>4. y = rides(s.y, f.d, g.rows)
    BY <1>4, <1>5
  <2>5. onMain(s) => alt.lines = <<>>
    BY DEF NoBuffer
  <2>50. s.alt \in Buffer /\ s.main \in Buffer /\ f.b \in Buffer /\ (~onMain(s) => a.b \in Buffer)
         /\ m.b \in Buffer /\ Len(f.b.lines) = f.b.base + g.rows /\ NoBuffer \in Buffer /\ f.b.base \in Nat
    <3>1. s.alt \in Buffer /\ s.main \in Buffer /\ onMain(s) \in BOOLEAN
          /\ Len(s.main.lines) = s.main.base + s.rows
      BY DEF Screens, ScreenType, Shaped, Sized, Holds, onMain
    <3>2. f.b \in Buffer /\ Holds(f.b, g.rows)
      BY <1>1, <1>2, BufferFits
    <3>3. m.b \in Buffer
      BY <1>1, <3>1, BufferFits
    <3>4. NoBuffer \in Buffer
      BY BlankBuffer, 0 \in Nat
    <3> QED BY <1>5, <3>1, <3>2, <3>3, <3>4 DEF Holds, Buffer
  <2> HIDE DEF m, a, f, x, y
  <2>6. /\ alt \in Buffer
        /\ ~onMain(s) => alt = f.b
        /\ onMain(s) => m.b = f.b
    BY <1>4, <1>5, <2>50
  <2>7. ~onMain(s) => alt.lines # <<>>
    <3>1. f.b.lines # <<>>
      BY <1>1, <2>50, EmptySeq
    <3> QED BY <2>6, <3>1
  <2> HIDE DEF alt
  <2>8. /\ new.main = m.b /\ new.alt = alt /\ new.x = x /\ new.y = y /\ new.rows = g.rows
    BY <2>3 DEF ScreenType
  <2> HIDE DEF new
  <2>9. /\ t.x = new.x /\ t.y = new.y /\ t.rows = new.rows
        /\ t.main.lines = new.main.lines /\ t.main.base = new.main.base
        /\ t.alt.lines = new.alt.lines /\ t.alt.base = new.alt.base
    <3>1. new \in ScreenType
      <4> USE DEF new
      <4>1. x \in Nat /\ y \in Nat
        BY <1>1, <2>4, <2>50 DEF x, Least, rides, Most
      <4>2. g.rows - 1 \in Nat /\ 0 \in Nat
        BY <1>1
      <4> HIDE DEF x, y, alt
      <4> QED BY <1>1, <2>3, <2>50, <2>6, <4>1, <4>2 DEF ScreenType
    <3> QED BY <2>1, <3>1 DEF ScreenType, moved, Buffer
  <2>10. onMain(t) <=> onMain(s)
    BY <2>5, <2>7, <2>8, <2>9 DEF onMain
  <2>11. buf(t).lines = f.b.lines /\ buf(t).base = f.b.base
    BY <2>6, <2>8, <2>9, <2>10 DEF buf
  <2>12. Kept(s, t)
    <3>1. CursorRow(t) = CursorRow(s)
      BY <1>3, <2>4, <2>8, <2>9, <2>11 DEF CursorRow
    <3> HIDE DEF t
    <3> QED BY <1>3, <2>11, <3>1 DEF Kept
  <2> QED BY <1>3, <2>8, <2>9, <2>11, <2>12 DEF x
<1> QED BY <1>6, <1>7

\* A chunk that is only the first half of a character leaves the screen as it fits.
LEMMA NothingWritten ==
    ASSUME NEW s, NEW g PROVE write(s, g, <<>>) = forgotten(fit(s, g))
<1> DEFINE F(h) == [k \in 0..0 |-> IF k = 0 THEN fit(s, g) ELSE feed(h[k - 1], <<>>[k])]
           h == CHOOSE q : q = F(q)
           u == [k \in 0..0 |-> fit(s, g)]
<1>1. u = F(u)
  OBVIOUS
<1>2. h = F(h)
  <2> HIDE DEF F, u
  <2> QED BY <1>1
<1>3. h[0] = fit(s, g)
  <2> HIDE DEF h
  <2> QED BY <1>2
<1>4. Len(<<>>) = 0
  OBVIOUS
<1>5. write(s, g, <<>>) = forgotten(h[0])
  BY <1>4, Zenon DEF write, F, h
<1> QED BY <1>3, <1>5

LEMMA ForgottenReads ==
    ASSUME NEW s \in Screens
    PROVE  LET t == forgotten(s) IN
           /\ t.main = s.main /\ t.alt = s.alt /\ t.x = s.x /\ t.y = s.y /\ t.rows = s.rows
           /\ buf(t) = buf(s) /\ CursorRow(t) = CursorRow(s)
<1>1. LET t == forgotten(s) IN
      t.main = s.main /\ t.alt = s.alt /\ t.x = s.x /\ t.y = s.y /\ t.rows = s.rows
  BY DEF forgotten, Screens, ScreenType
<1> QED BY <1>1 DEF buf, onMain, CursorRow

\* Following the window leaves the cursor on its row and every line held as it was, but
\* for the rows below the cursor that a lower window drops (fit).
LEMMA FitsStep ==
    ASSUME TapInv, Fits
    PROVE  /\ buf(scr').base + scr'.y = buf(scr).base + scr.y
           /\ scr'.rows >= scr.rows => lines(scr') = lines(scr)
           /\ IsPrefix(Held(scr'), Held(scr))
           /\ scr.x <= term.cols => cursorLine(scr').before = cursorLine(scr).before
<1> DEFINE t == fit(scr, term)
<1>1. scr \in Screens /\ term \in [cols : Nat \ {0, 1}, rows : Nat \ {0}]
  BY GeometryOf DEF TapInv
<1>2. t \in Screens
  BY <1>1, ScreenFits
<1>3. Kept(scr, t) /\ t.x = Least(scr.x, term.cols) /\ t.rows = term.rows
      /\ (term.rows >= scr.rows => Len(buf(scr).lines) <= Len(buf(t).lines))
  BY <1>1, FitKept
<1>4. scr' = forgotten(t)
  BY NothingWritten DEF Fits, Draws, Says
<1> HIDE DEF t
<1>5. scr' \in Screens /\ buf(scr') = buf(t) /\ CursorRow(scr') = CursorRow(t)
      /\ scr'.x = t.x /\ scr'.rows = t.rows
  <2>1. scr' \in Screens
    BY <1>2, <1>4, Parsed
  <2> QED BY <1>2, <1>4, <2>1, ForgottenReads
<1>6. Kept(scr, scr')
  BY <1>3, <1>5 DEF Kept
<1>7. buf(scr').base + scr'.y = buf(scr).base + scr.y
  BY <1>6 DEF Kept, CursorRow
<1>8. scr'.rows >= scr.rows => lines(scr') = lines(scr)
  BY <1>1, <1>3, <1>5, <1>6, LinesSame
<1>9. IsPrefix(Held(scr'), Held(scr))
  BY <1>1, <1>5, <1>6, HeldLess
<1>10. scr.x <= term.cols => cursorLine(scr').before = cursorLine(scr).before
  <2>1. scr.x <= term.cols => scr'.x = scr.x
    <3>1. scr.x \in Nat /\ term.cols \in Nat
      BY <1>1 DEF Screens, ScreenType
    <3> QED BY <1>3, <1>5, <3>1 DEF Least
  <2> QED BY <1>1, <1>5, <1>6, <2>1, BeforeSame
<1> QED BY <1>7, <1>8, <1>9, <1>10

\* "Rows keep what they hold" (fit): when the window changes, the cursor stays on its row
\* of the buffer, a window as high or higher loses no line, a lower one drops only rows
\* below the cursor, and the line up to the cursor reads the same.
THEOREM FittingKeepsTheLine == Spec => FitKeepsLine
<1>1. TapInv /\ [Next]_vars =>
        [Fits => /\ buf(scr').base + scr'.y = buf(scr).base + scr.y
                 /\ scr'.rows >= scr.rows => lines(scr') = lines(scr)
                 /\ IsPrefix(Held(scr'), Held(scr))
                 /\ scr.x <= term.cols => cursorLine(scr').before = cursorLine(scr).before]_vars
  BY FitsStep
<1> QED BY <1>1, TapAlways, PTL DEF Spec, FitKeepsLine
-----------------------------------------------------------------------------
(***************************************************************************)
(* A chunk read character by character, and one chunk after the other.     *)
(***************************************************************************)
Fed(a, chunk) ==
    LET f[k \in 0..Len(chunk)] == IF k = 0 THEN a ELSE feed(f[k - 1], chunk[k])
    IN  f[Len(chunk)]

\* The screens on the way.
Passes(h, a, chunk) ==
    /\ h \in [0..Len(chunk) -> Screens] /\ h[0] = a
    /\ \A k \in 1..Len(chunk) : h[k] = feed(h[k - 1], chunk[k])

\* A chunk is read by the screen that has followed the window.
LEMMA WriteFeeds ==
    ASSUME NEW s, NEW g, NEW chunk PROVE write(s, g, chunk) = forgotten(Fed(fit(s, g), chunk))
  BY DEF write, Fed

\* There is a screen after every character of a chunk.
LEMMA FedPasses ==
    ASSUME NEW a \in Screens, NEW chunk \in Texts
    PROVE  \E h : Passes(h, a, chunk)
<1> DEFINE n == Len(chunk)
           F == [k \in 1..n |-> [t \in Screens |-> feed(t, chunk[k])]]
<1>1. n \in Nat /\ \A k \in 1..n : chunk[k] \in Chars
  BY LenProperties, ElementOfSeq DEF Texts
<1>2. F \in [1..n -> [Screens -> Screens]]
  BY <1>1, CharRead
<1>3. \A k \in 1..n : \A t \in Screens : F[k][t] = feed(t, chunk[k])
  OBVIOUS
<1> HIDE DEF F, n
<1>4. PICK h \in [0..n -> Screens] : h[0] = a /\ \A k \in 1..n : h[k] = F[k][h[k - 1]]
  BY <1>1, <1>2, StepsExist
<1>5. ASSUME NEW k \in 1..n PROVE h[k] = feed(h[k - 1], chunk[k])
  <2>1. k - 1 \in 0..n
    BY <1>1
  <2> QED BY <1>3, <1>4, <2>1
<1>6. Passes(h, a, chunk)
  BY <1>4, <1>5 DEF Passes, n
<1> QED BY <1>6

\* The last of them is what the chunk leaves.
LEMMA FedIs ==
    ASSUME NEW a \in Screens, NEW chunk \in Texts, NEW h, Passes(h, a, chunk)
    PROVE  Fed(a, chunk) = h[Len(chunk)] /\ Fed(a, chunk) \in Screens
<1> DEFINE n == Len(chunk)
           D(f) == f = [k \in 0..n |-> IF k = 0 THEN a ELSE feed(f[k - 1], chunk[k])]
           e == CHOOSE f : D(f)
           T == {m \in Nat : m <= n => e[m] = h[m]}
<1>1. n \in Nat
  BY LenProperties DEF Texts
<1>2. /\ h \in [0..n -> Screens] /\ h[0] = a
      /\ \A k \in 1..n : h[k] = feed(h[k - 1], chunk[k])
  BY DEF Passes
<1>3. D(h)
  <2>1. \A k \in 0..n : h[k] = IF k = 0 THEN a ELSE feed(h[k - 1], chunk[k])
    BY <1>1, <1>2
  <2> QED BY <1>2, <2>1
<1>4. D(e)
  BY <1>3
<1>5. Fed(a, chunk) = e[n]
  BY DEF Fed
<1> HIDE DEF e, n
<1>6. e[0] = a /\ \A k \in 1..n : e[k] = feed(e[k - 1], chunk[k])
  BY <1>1, <1>4
<1> HIDE DEF D
<1>7. 0 \in T
  BY <1>2, <1>6
<1>8. ASSUME NEW m \in Nat, m \in T PROVE m + 1 \in T
  <2>1. CASE m + 1 <= n
    <3>1. m + 1 \in 1..n /\ (m + 1) - 1 = m /\ e[m] = h[m]
      BY <1>1, <1>8, <2>1
    <3>2. e[m + 1] = h[m + 1]
      BY <1>2, <1>6, <3>1
    <3> QED BY <3>2
  <2>2. CASE ~(m + 1 <= n)
    BY <2>2
  <2> QED BY <2>1, <2>2
<1>9. Nat \subseteq T
  <2> HIDE DEF T
  <2> QED BY <1>7, <1>8, AllNumbers
<1>10. e[n] = h[n] /\ h[n] \in Screens
  BY <1>1, <1>2, <1>9
<1> QED BY <1>5, <1>10 DEF n

\* It is a screen.
LEMMA FedScreen ==
    ASSUME NEW a \in Screens, NEW chunk \in Texts PROVE Fed(a, chunk) \in Screens
<1>1. PICK h : Passes(h, a, chunk)
  BY FedPasses
<1> QED BY <1>1, FedIs

\* Nothing read, nothing changed; one character; two chunks, one after the other.
LEMMA FedNone ==
    ASSUME NEW a \in Screens PROVE Fed(a, <<>>) = a
<1>1. <<>> \in Texts /\ Len(<<>>) = 0
  BY EmptyLine
<1>2. PICK h : Passes(h, a, <<>>)
  BY <1>1, FedPasses
<1>3. Fed(a, <<>>) = h[0]
  BY <1>1, <1>2, FedIs
<1> QED BY <1>2, <1>3 DEF Passes

LEMMA FedOne ==
    ASSUME NEW a \in Screens, NEW c \in Chars PROVE <<c>> \in Texts /\ Fed(a, <<c>>) = feed(a, c)
<1>1. <<c>> \in Texts /\ Len(<<c>>) = 1 /\ <<c>>[1] = c
  BY DEF Texts
<1>2. PICK h : Passes(h, a, <<c>>)
  BY <1>1, FedPasses
<1>3. Fed(a, <<c>>) = h[1]
  BY <1>1, <1>2, FedIs
<1> QED BY <1>1, <1>2, <1>3 DEF Passes

LEMMA FedBoth ==
    ASSUME NEW a \in Screens, NEW u \in Texts, NEW v \in Texts
    PROVE  u \o v \in Texts /\ Fed(a, u \o v) = Fed(Fed(a, u), v)
<1> DEFINE m == Len(u)
           n == Len(v)
           b == Fed(a, u)
<1>1. /\ u \o v \in Texts /\ Len(u \o v) = m + n /\ m \in Nat /\ n \in Nat
      /\ \A k \in 1..m : (u \o v)[k] = u[k]
      /\ \A k \in 1..n : (u \o v)[m + k] = v[k]
  BY ConcatParts DEF Texts
<1>2. b \in Screens
  BY FedScreen
<1>3. PICK f : Passes(f, a, u)
  BY FedPasses
<1>4. PICK g : Passes(g, b, v)
  BY <1>2, FedPasses
<1>5. b = f[m] /\ Fed(b, v) = g[n]
  BY <1>2, <1>3, <1>4, FedIs
<1> HIDE DEF m, n, b
<1>6. /\ f \in [0..m -> Screens] /\ f[0] = a
      /\ \A k \in 1..m : f[k] = feed(f[k - 1], u[k])
      /\ g \in [0..n -> Screens] /\ g[0] = b
      /\ \A k \in 1..n : g[k] = feed(g[k - 1], v[k])
  BY <1>3, <1>4 DEF Passes, m, n
<1> DEFINE w == [k \in 0..(m + n) |-> IF k <= m THEN f[k] ELSE g[k - m]]
<1>7. w \in [0..(m + n) -> Screens] /\ w[0] = a /\ w[m + n] = g[n]
  <2>1. \A k \in 0..(m + n) : (k <= m => k \in 0..m) /\ (~(k <= m) => k - m \in 0..n)
    BY <1>1
  <2>2. w \in [0..(m + n) -> Screens]
    BY <1>6, <2>1
  <2>3. w[0] = a
    BY <1>1, <1>6
  <2>4. CASE n = 0
    BY <1>1, <1>5, <1>6, <2>4
  <2>5. CASE n # 0
    <3>1. m + n \in 0..(m + n) /\ ~(m + n <= m) /\ (m + n) - m = n
      BY <1>1, <2>5
    <3>2. w[m + n] = IF m + n <= m THEN f[m + n] ELSE g[(m + n) - m]
      BY <3>1
    <3> HIDE DEF w
    <3> QED BY <2>2, <2>3, <3>1, <3>2
  <2> QED BY <2>2, <2>3, <2>4, <2>5
<1>8. ASSUME NEW k \in 1..(m + n) PROVE w[k] = feed(w[k - 1], (u \o v)[k])
  <2>1. CASE k <= m
    <3>1. k \in 1..m /\ k - 1 <= m /\ k \in 0..(m + n) /\ k - 1 \in 0..(m + n)
      BY <1>1, <2>1
    <3>2. w[k] = f[k] /\ w[k - 1] = f[k - 1]
      BY <2>1, <3>1
    <3> QED BY <1>1, <1>6, <3>1, <3>2
  <2>2. CASE ~(k <= m)
    <3>1. k - m \in 1..n /\ k \in 0..(m + n) /\ k - 1 \in 0..(m + n) /\ m + (k - m) = k
          /\ (k - m) - 1 = (k - 1) - m
      BY <1>1, <2>2
    <3>2. w[k] = g[k - m]
      BY <2>2, <3>1
    <3>3. w[k - 1] = g[(k - m) - 1]
      <4>1. CASE k - 1 <= m
        <5>1. k - 1 = m /\ (k - m) - 1 = 0
          BY <1>1, <2>2, <4>1
        <5> QED BY <1>1, <1>5, <1>6, <3>1, <5>1
      <4>2. CASE ~(k - 1 <= m)
        BY <3>1, <4>2
      <4> QED BY <4>1, <4>2
    <3>4. (u \o v)[k] = v[k - m]
      BY <1>1, <3>1
    <3> QED BY <1>6, <3>1, <3>2, <3>3, <3>4
  <2> QED BY <2>1, <2>2
<1> HIDE DEF w
<1>9. Passes(w, a, u \o v)
  BY <1>1, <1>7, <1>8 DEF Passes
<1>10. Fed(a, u \o v) = w[m + n]
  <2>1. PICK x : x = u \o v
    OBVIOUS
  <2>2. x \in Texts /\ Passes(w, a, x) /\ Len(x) = m + n
    BY <1>1, <1>9, <2>1
  <2>3. Fed(a, x) = w[Len(x)]
    BY <2>2, FedIs
  <2> QED BY <2>1, <2>2, <2>3
<1> QED BY <1>1, <1>5, <1>7, <1>10 DEF b

\* Chunk after chunk, from one set of screens to the next.
LEMMA FedLoop ==
    ASSUME NEW n \in Nat, NEW q \in Seq(Texts), Len(q) = n, NEW S, S[0] \subseteq Screens,
           \A k \in 1..n : \A s \in S[k - 1] : Fed(s, q[k]) \in S[k],
           \A k \in 1..n : S[k] \subseteq Screens,
           NEW a \in S[0]
    PROVE  FlattenSeq(q) \in Texts /\ Fed(a, FlattenSeq(q)) \in S[n]
<1>1. \A k \in 1..n : q[k] \in Texts
  BY ElementOfSeq
<1>2. PICK h \in [0..n -> Texts] : h[0] = <<>> /\ \A k \in 1..n : h[k] = h[k - 1] \o q[k]
  <2>1. q \in Seq(Seq(Chars))
    BY DEF Texts
  <2> QED BY <2>1, JoinedSteps DEF Texts
<1>3. FlattenSeq(q) = h[n]
  <2>1. \A k \in 1..n : h[k] = h[k - 1] \o q[k]
    BY <1>2
  <2>2. q \in Seq(Seq(Chars)) /\ h[0] = <<>> /\ Len(q) = n /\ n \in Nat
    BY <1>2 DEF Texts
  <2> QED BY ONLY <2>1, <2>2, JoinedIs
<1> DEFINE T == {m \in Nat : m <= n => Fed(a, h[m]) \in S[m]}
<1>4. 0 \in T
  BY <1>2, FedNone
<1>5. ASSUME NEW m \in Nat, m \in T PROVE m + 1 \in T
  <2>1. CASE m + 1 <= n
    <3>1. m + 1 \in 1..n /\ (m + 1) - 1 = m /\ m \in 0..n /\ a \in Screens
      BY <2>1
    <3>2. Fed(a, h[m]) \in S[m]
      BY <1>5, <2>1
    <3>3. h[m + 1] = h[m] \o q[m + 1] /\ h[m] \in Texts /\ q[m + 1] \in Texts
      BY <1>1, <1>2, <3>1
    <3>4. Fed(a, h[m + 1]) = Fed(Fed(a, h[m]), q[m + 1])
      BY <3>1, <3>3, FedBoth
    <3>5. Fed(Fed(a, h[m]), q[m + 1]) \in S[m + 1]
      BY <3>1, <3>2
    <3> QED BY <3>4, <3>5
  <2>2. CASE ~(m + 1 <= n)
    BY <2>2
  <2> QED BY <2>1, <2>2
<1>6. Nat \subseteq T
  <2> HIDE DEF T
  <2> QED BY <1>4, <1>5, AllNumbers
<1>7. Fed(a, h[n]) \in S[n] /\ h[n] \in Texts
  BY <1>2, <1>6
<1> QED BY <1>3, <1>7

-----------------------------------------------------------------------------
(***************************************************************************)
(* Where readline's offsets are on rows of the tty's width.                *)
(***************************************************************************)
Width    == First.cols
RowAt(o) == o \div Width
ColAt(o) == o % Width

\* The tty has two columns at least.
LEMMA WidthIs == Width \in Nat /\ Width >= 2
<1>1. First \in [cols : Nat \ {0, 1}, rows : Nat \ {0}]
  BY GeometryOf, TapAssumption
<1> QED BY <1>1 DEF Width

\* An offset of readline's line has a row and a column, and these have their offset.
LEMMA PlaceOf ==
    ASSUME NEW o \in Nat
    PROVE  RowAt(o) \in Nat /\ ColAt(o) \in Nat /\ ColAt(o) < Width
           /\ o = (Width * RowAt(o)) + ColAt(o)
<1>1. ASSUME NEW c \in Nat, c >= 2
      PROVE  o \div c \in Nat /\ o % c \in Nat /\ o % c < c /\ o = (c * (o \div c)) + (o % c)
  <2>1. o % c \in Nat /\ o % c < c
    BY <1>1
  <2>2. o \div c \in Nat
    BY <1>1
  <2>3. o = (c * (o \div c)) + (o % c)
    BY <1>1
  <2> QED BY <2>1, <2>2, <2>3
<1> QED BY <1>1, WidthIs DEF RowAt, ColAt

LEMMA OffsetOf ==
    ASSUME NEW r \in Nat, NEW x \in Nat, x < Width
    PROVE  (Width * r) + x \in Nat /\ RowAt((Width * r) + x) = r /\ ColAt((Width * r) + x) = x
<1>1. ASSUME NEW c \in Nat, c >= 2, NEW o \in Nat, x < c, o = (c * r) + x
      PROVE  o \div c = r /\ o % c = x
  BY <1>1
<1>2. (Width * r) + x \in Nat
  BY WidthIs
<1> QED BY <1>1, <1>2, WidthIs DEF RowAt, ColAt

\* The next offset is in the next column, or starts the next row.
LEMMA NextPlace ==
    ASSUME NEW o \in Nat
    PROVE  /\ ColAt(o) + 1 < Width => RowAt(o + 1) = RowAt(o) /\ ColAt(o + 1) = ColAt(o) + 1
           /\ ~(ColAt(o) + 1 < Width) => RowAt(o + 1) = RowAt(o) + 1 /\ ColAt(o + 1) = 0
<1>1. /\ RowAt(o) \in Nat /\ ColAt(o) \in Nat /\ ColAt(o) < Width
      /\ o = (Width * RowAt(o)) + ColAt(o) /\ Width \in Nat /\ Width >= 2
  BY PlaceOf, WidthIs
<1>2. CASE ColAt(o) + 1 < Width
  <2>1. o + 1 = (Width * RowAt(o)) + (ColAt(o) + 1) /\ ColAt(o) + 1 \in Nat
    BY <1>1
  <2> QED BY <1>1, <1>2, <2>1, OffsetOf
<1>3. CASE ~(ColAt(o) + 1 < Width)
  <2>1. ColAt(o) + 1 = Width
    BY <1>1, <1>3
  <2>2. ASSUME NEW w \in Nat, NEW r \in Nat, NEW c \in Nat, c + 1 = w, o = (w * r) + c
        PROVE  o + 1 = (w * (r + 1)) + 0
    <3>1. w * (r + 1) = (w * r) + w
      OBVIOUS
    <3> QED BY <2>2, <3>1
  <2>3. o + 1 = (Width * (RowAt(o) + 1)) + 0
    BY <1>1, <2>1, <2>2
  <2>4. RowAt(o) + 1 \in Nat /\ 0 \in Nat /\ 0 < Width
    BY <1>1
  <2> QED BY <1>3, <2>3, <2>4, OffsetOf
<1> QED BY <1>2, <1>3

\* Offsets go down the rows, and along each.
LEMMA PlacesRise ==
    ASSUME NEW o \in Nat, NEW p \in Nat
    PROVE  /\ o <= p => RowAt(o) <= RowAt(p)
           /\ RowAt(o) < RowAt(p) => o < p
           /\ RowAt(o) = RowAt(p) => (o < p <=> ColAt(o) < ColAt(p))
           /\ RowAt(o) = RowAt(p) /\ ColAt(o) = ColAt(p) => o = p
<1>1. /\ RowAt(o) \in Nat /\ ColAt(o) \in Nat /\ ColAt(o) < Width
      /\ o = (Width * RowAt(o)) + ColAt(o) /\ Width \in Nat /\ Width >= 2
      /\ RowAt(p) \in Nat /\ ColAt(p) \in Nat /\ ColAt(p) < Width
      /\ p = (Width * RowAt(p)) + ColAt(p)
  BY PlaceOf, WidthIs
<1>2. \A w, a, b \in Nat : a < b => (w * a) + w <= w * b
  OBVIOUS
<1>3. RowAt(o) < RowAt(p) => o < p
  <2>1. RowAt(o) < RowAt(p) => (Width * RowAt(o)) + Width <= Width * RowAt(p)
    BY <1>1, <1>2
  <2> QED BY <1>1, <2>1
<1>4. RowAt(p) < RowAt(o) => p < o
  <2>1. RowAt(p) < RowAt(o) => (Width * RowAt(p)) + Width <= Width * RowAt(o)
    BY <1>1, <1>2
  <2> QED BY <1>1, <2>1
<1>5. RowAt(o) = RowAt(p) => Width * RowAt(o) = Width * RowAt(p)
  OBVIOUS
<1> QED BY <1>1, <1>3, <1>4, <1>5
-----------------------------------------------------------------------------
(***************************************************************************)
(* What a step leaves alone: all but rows, the cursor, saved cursors and   *)
(* what the parser has read.                                               *)
(***************************************************************************)
Alike(s, t) ==
    \A f \in {"cols", "rows", "top", "bottom", "wrap", "origin", "insert", "unsure", "state", "context"} :
        t[f] = s[f]

\* Screens alike to one screen; what they have in common.
LEMMA AlikeChain ==
    ASSUME NEW s, NEW t, NEW u, Alike(s, t), Alike(t, u) PROVE Alike(s, u)
  BY DEF Alike

LEMMA AlikeFields ==
    ASSUME NEW s, NEW t, Alike(s, t)
    PROVE  /\ t.cols = s.cols /\ t.rows = s.rows /\ t.top = s.top /\ t.bottom = s.bottom
           /\ t.wrap = s.wrap /\ t.origin = s.origin /\ t.insert = s.insert
           /\ t.unsure = s.unsure /\ t.state = s.state /\ t.context = s.context
  BY DEF Alike

\* The cursor alone moves.
LEMMA ColumnAlike ==
    ASSUME NEW s \in Screens, NEW x \in Nat, NEW t, t = [s EXCEPT !.x = x]
    PROVE  Alike(s, t) /\ t.x = x /\ t.y = s.y /\ t.main = s.main /\ t.alt = s.alt
  BY DEF Alike, Screens, ScreenType

LEMMA RowAlike ==
    ASSUME NEW s \in Screens, NEW y \in Nat, NEW t, t = [s EXCEPT !.y = y]
    PROVE  Alike(s, t) /\ t.x = s.x /\ t.y = y /\ t.main = s.main /\ t.alt = s.alt
  BY DEF Alike, Screens, ScreenType

\* One row alone is replaced.
LEMMA RowPut ==
    ASSUME NEW s \in Screens, onMain(s), NEW i \in Nat, i < s.rows, NEW l \in Row
    PROVE  LET t == withLine(s, i, l) IN
           /\ t \in Screens /\ onMain(t) /\ Alike(s, t) /\ t.x = s.x /\ t.y = s.y
           /\ line(t, i) = l
           /\ \A k \in 0..(s.rows - 1) : k # i => line(t, k) = line(s, k)
<1> DEFINE L == s.main.lines
           B == s.main.base
           new == [L EXCEPT ![B + i + 1] = l]
           t == withLine(s, i, l)
<1>1. t \in Screens
  BY LineMoves
<1>2. s \in ScreenType /\ buf(s) = s.main /\ s.main \in Buffer /\ s.rows \in Nat
  BY DEF Screens, ScreenType, buf
<1>3. L \in Seq(Row) /\ B \in Nat /\ Len(L) \in Nat /\ B + i + 1 \in 1..Len(L)
      /\ Len(L) = B + s.rows
  BY <1>2, LineOf, LenProperties DEF Buffer
<1>4. new[B + i + 1] = l /\ \A k \in 1..Len(L) : k # B + i + 1 => new[k] = L[k]
  BY <1>3
<1>5. t = [s EXCEPT !.main = [s.main EXCEPT !.lines = new]]
  BY <1>2 DEF withLine, withLines, withBuf
<1> HIDE DEF new, L
<1>6. /\ t.main.lines = new /\ t.main.base = B /\ t.alt = s.alt /\ t.x = s.x /\ t.y = s.y
  BY <1>2, <1>5 DEF ScreenType, Buffer
<1>7. Alike(s, t)
  BY <1>2, <1>5 DEF ScreenType, Alike
<1>8. onMain(t) /\ buf(t) = t.main
  BY <1>6 DEF onMain, buf
<1>9. line(t, i) = l
  BY <1>4, <1>6, <1>8 DEF line
<1>10. ASSUME NEW k \in 0..(s.rows - 1), k # i PROVE line(t, k) = line(s, k)
  <2>1. B + k + 1 \in 1..Len(L) /\ B + k + 1 # B + i + 1
    <3> HIDE DEF B
    <3> QED BY <1>2, <1>3, <1>10
  <2>2. new[B + k + 1] = L[B + k + 1]
    BY <1>4, <2>1
  <2> QED BY <1>2, <1>6, <1>8, <2>2 DEF line, L
<1> QED BY <1>1, <1>6, <1>7, <1>8, <1>9, <1>10

\* A row added at the end.
LEMMA RowLast ==
    ASSUME NEW S, NEW l \in Seq(S), NEW e \in S
    PROVE  LET a == InsertAt(l, Len(l) + 1, e) IN
           /\ a \in Seq(S) /\ Len(a) = Len(l) + 1 /\ a[Len(l) + 1] = e
           /\ \A k \in 1..Len(l) : a[k] = l[k]
<1>0. PICK n \in Nat : n = Len(l)
  BY LenProperties
<1>1. \A k \in 1..n : l[k] \in S
  BY <1>0, ElementOfSeq
<1> DEFINE p == SubSeq(l, 1, (n + 1) - 1)
           q == SubSeq(l, n + 1, Len(l))
           c == p \o <<e>>
<1>2. p \in Seq(S) /\ Len(p) = n /\ \A k \in 1..n : p[k] = l[k]
  <2>1. (n + 1) - 1 = n
    OBVIOUS
  <2>2. CASE n = 0
    BY <2>1, <2>2, SubSeqEmpty, EmptySeq
  <2>3. CASE n # 0
    BY <1>1, <2>1, <2>3, SubSeqProperties
  <2> QED BY <2>2, <2>3
<1>3. q = <<>>
  BY <1>0, SubSeqEmpty
<1>4. InsertAt(l, Len(l) + 1, e) = c \o q
  BY <1>0 DEF InsertAt
<1> HIDE DEF p, q
<1>5. <<e>> \in Seq(S) /\ Len(<<e>>) = 1 /\ <<e>>[1] = e
  OBVIOUS
<1>6. c \in Seq(S) /\ Len(c) = n + 1 /\ (\A k \in 1..n : c[k] = l[k]) /\ c[n + 1] = e
  <2>1. /\ c \in Seq(S) /\ Len(c) = Len(p) + Len(<<e>>)
        /\ (\A k \in 1..Len(p) : c[k] = p[k])
        /\ \A k \in 1..Len(<<e>>) : c[Len(p) + k] = <<e>>[k]
    BY <1>2, <1>5, ConcatParts
  <2> QED BY <1>2, <1>5, <2>1
<1> HIDE DEF c
<1>7. c \o q = c
  BY <1>3, <1>6, ConcatEmptySeq
<1> QED BY <1>0, <1>4, <1>6, <1>7

\* The whole screen goes up by one row, and a new one comes from below.
LEMMA RowsUp ==
    ASSUME NEW s \in Screens, onMain(s), s.bottom = s.rows - 1
    PROVE  LET t == scrollOff(s) IN
           /\ t \in Screens /\ onMain(t) /\ Alike(s, t) /\ t.x = s.x /\ t.y = s.y
           /\ \A k \in 0..(s.rows - 2) : line(t, k) = line(s, k + 1)
           /\ line(t, s.rows - 1) = newRow
<1> DEFINE b == buf(s)
           all == InsertAt(b.lines, b.base + s.bottom + 2, newRow)
           over == b.base + 1 > keep(s) + Slack
           base == IF over THEN keep(s) ELSE b.base + 1
           rows == IF over THEN SubSeq(all, b.base + 2 - keep(s), Len(all)) ELSE all
           new == [b EXCEPT !.base = base, !.lines = rows]
           t == scrollOff(s)
<1>1. t \in Screens
  BY RowsScrollOff
<1>2. s \in ScreenType /\ b = s.main /\ s.main \in Buffer /\ s.rows \in Nat \ {0} /\ keep(s) \in Nat
      /\ Slack \in Nat
  BY ScreenAssumption DEF Screens, ScreenType, Shaped, Sized, buf, keep
<1>3. b.lines \in Seq(Row) /\ b.base \in Nat /\ Len(b.lines) = b.base + s.rows
  BY BufOf DEF Buffer, Holds
<1>4. t = moved([s EXCEPT !.main = new])
  BY DEF scrollOff, withBuf
<1> HIDE DEF b
<1>5. /\ all \in Seq(Row) /\ Len(all) = b.base + s.rows + 1 /\ all[b.base + s.rows + 1] = newRow
      /\ \A k \in 1..(b.base + s.rows) : all[k] = b.lines[k]
  <2>1. PICK n : n = b.base + s.rows
    OBVIOUS
  <2>2. b.base + s.bottom + 2 = n + 1 /\ n \in Nat /\ n = Len(b.lines) /\ b.base + s.rows + 1 = n + 1
    BY <1>2, <1>3, <2>1
  <2>3. b.lines \in Seq(Row) /\ newRow \in Row
    BY <1>3, NoCells
  <2>4. PICK l : l = b.lines
    OBVIOUS
  <2>7. PICK a : a = InsertAt(l, n + 1, newRow)
    OBVIOUS
  <2>8. l \in Seq(Row) /\ newRow \in Row /\ n \in Nat /\ n = Len(l)
    BY <2>2, <2>3, <2>4
  <2>5. a \in Seq(Row) /\ Len(a) = n + 1 /\ a[n + 1] = newRow /\ \A k \in 1..n : a[k] = l[k]
    <3>1. a = InsertAt(l, Len(l) + 1, newRow)
      BY <2>7, <2>8
    <3>20. a \in Seq(Row)
      BY ONLY <2>8, <3>1, RowLast
    <3>21. Len(a) = Len(l) + 1
      BY ONLY <2>8, <3>1, RowLast
    <3>22. a[Len(l) + 1] = newRow
      BY ONLY <2>8, <3>1, RowLast
    <3>23. \A k \in 1..Len(l) : a[k] = l[k]
      BY ONLY <2>8, <3>1, RowLast
    <3> QED BY <2>8, <3>20, <3>21, <3>22, <3>23
  <2>6. all = a /\ l = b.lines
    BY <2>2, <2>4, <2>7
  <2> HIDE DEF all
  <2> QED BY <2>1, <2>2, <2>5, <2>6
<1> HIDE DEF all
<1>6. /\ base \in Nat /\ rows \in Seq(Row)
      /\ \A k \in 0..(s.rows - 1) : rows[base + k + 1] = all[b.base + k + 2]
  <2>1. CASE ~over
    <3>1. \A k \in 0..(s.rows - 1) : (b.base + 1) + k + 1 = b.base + k + 2
      BY <1>3
    <3>2. base = b.base + 1 /\ rows = all /\ b.base + 1 \in Nat
      BY <1>3, <2>1
    <3> HIDE DEF base, rows, over
    <3> QED BY <1>3, <1>5, <3>1, <3>2
  <2>2. CASE over
    <3> DEFINE u == b.base + 2 - keep(s)
    <3>1. u \in Int /\ u >= 1 /\ u <= Len(all) /\ Len(all) \in Int
      <4> HIDE DEF over
      <4>1. b.base + 1 > keep(s) + Slack
        BY <2>2 DEF over
      <4>2. \A i, j, k, m \in Nat : i + 1 > j + m /\ k # 0
               => i + 2 - j \in Int /\ i + 2 - j >= 1 /\ i + 2 - j <= i + k + 1 /\ i + k + 1 \in Int
        OBVIOUS
      <4> HIDE DEF u
      <4>3. u = b.base + 2 - keep(s)
        BY DEF u
      <4> QED BY <1>2, <1>3, <1>5, <4>1, <4>2, <4>3
    <3>2. \A k \in 1..Len(all) : all[k] \in Row
      BY <1>5, ElementOfSeq
    <3>3. /\ SubSeq(all, u, Len(all)) \in Seq(Row)
          /\ \A k \in 1..(Len(all) - u + 1) : SubSeq(all, u, Len(all))[k] = all[u + k - 1]
      BY <3>1, <3>2, SubSeqProperties
    <3>4. ASSUME NEW k \in 0..(s.rows - 1)
          PROVE  /\ keep(s) + k + 1 \in 1..(Len(all) - u + 1)
                 /\ u + (keep(s) + k + 1) - 1 = b.base + k + 2
      <4>1. \A i, j, r \in Nat : k <= r - 1 =>
               /\ j + k + 1 \in 1..((i + r + 1) - (i + 2 - j) + 1)
               /\ (i + 2 - j) + (j + k + 1) - 1 = i + k + 2
        OBVIOUS
      <4>2. k <= s.rows - 1
        BY <1>2
      <4> QED BY <1>2, <1>3, <1>5, <4>1, <4>2
    <3>5. ASSUME NEW k \in 0..(s.rows - 1)
          PROVE  SubSeq(all, u, Len(all))[keep(s) + k + 1] = all[b.base + k + 2]
      BY <3>3, <3>4
    <3>6. base = keep(s) /\ rows = SubSeq(all, u, Len(all))
      BY <2>2
    <3> HIDE DEF base, rows, u
    <3> QED BY <1>2, <3>3, <3>5, <3>6
  <2> QED BY <2>1, <2>2
<1> HIDE DEF base, rows
<1>7. /\ t.main.lines = rows /\ t.main.base = base /\ t.alt.lines = s.alt.lines
      /\ t.x = s.x /\ t.y = s.y
  <2>1. PICK w : w = new
    OBVIOUS
  <2>2. w.lines = rows /\ w.base = base
    BY <1>2, <2>1 DEF Buffer
  <2>3. t = moved([s EXCEPT !.main = w])
    BY <1>4, <2>1
  <2>4. DOMAIN w.saved = DOMAIN w.saved /\ w \in Buffer
    BY <1>2, <1>6, <2>1 DEF Buffer
  <2> HIDE DEF t
  <2> QED BY <1>2, <2>2, <2>3, <2>4 DEF ScreenType, Buffer, moved
<1>8. Alike(s, t)
  BY <1>2, <1>4 DEF ScreenType, Buffer, b, buf, moved, Alike
<1> HIDE DEF t
<1>9. onMain(t) /\ buf(t) = t.main
  BY <1>7 DEF onMain, buf
<1>10. \A k \in 0..(s.rows - 1) : line(t, k) = all[b.base + k + 2]
  BY <1>6, <1>7, <1>9 DEF line
<1>11. ASSUME NEW k \in 0..(s.rows - 2) PROVE line(t, k) = line(s, k + 1)
  <2>1. b.base + k + 2 \in 1..(b.base + s.rows) /\ k \in 0..(s.rows - 1)
        /\ b.base + k + 2 = b.base + (k + 1) + 1
    <3>1. PICK i \in Nat, r \in Nat : i = b.base /\ r = s.rows
      BY <1>2, <1>3
    <3>2. k \in 0..(r - 2)
      BY <3>1
    <3>3. i + k + 2 \in 1..(i + r) /\ k \in 0..(r - 1) /\ i + k + 2 = i + (k + 1) + 1
      BY <3>2
    <3> QED BY <3>1, <3>3
  <2> QED BY <1>5, <1>10, <2>1 DEF line, b
<1>12. line(t, s.rows - 1) = newRow
  <2>1. s.rows - 1 \in 0..(s.rows - 1) /\ b.base + (s.rows - 1) + 2 = b.base + s.rows + 1
    <3>1. \A i, r \in Nat : r # 0 => i + (r - 1) + 2 = i + r + 1 /\ r - 1 \in 0..(r - 1)
      OBVIOUS
    <3> QED BY <1>2, <1>3, <3>1
  <2> QED BY <1>5, <1>10, <2>1
<1> QED BY <1>1, <1>7, <1>8, <1>9, <1>11, <1>12 DEF t
-----------------------------------------------------------------------------
(***************************************************************************)
(* The cells of a row without wide characters.                             *)
(***************************************************************************)
NoHalf(c) == c \in Seq(Glyphs) /\ \A k \in 1..Len(c) : c[k] # Half

\* Without a wide character there is no half of one.
LEMMA CellNoHalf ==
    ASSUME NEW c, NoHalf(c), NEW i PROVE Cell(c, i) # Half
<1>1. Undefined # Half /\ Len(c) \in Nat
  BY LenProperties DEF Undefined, Half, NoHalf
<1>2. i \in 0..(Len(c) - 1) => i + 1 \in 1..Len(c)
  BY <1>1
<1> QED BY <1>1, <1>2 DEF Cell, NoHalf

\* Erased, put into and written over, such a row has none either.
LEMMA ErasedPlain ==
    ASSUME NEW c, NoHalf(c), NEW from \in Nat, NEW to \in Nat
    PROVE  LET e == erase(c, from, to) IN
           /\ NoHalf(e)
           /\ Len(e) = IF to >= Len(c) THEN Least(Len(c), from) ELSE Len(c)
           /\ \A i \in Nat : Cell(e, i) = IF from <= i /\ i < to THEN Undefined ELSE Cell(c, i)
<1> DEFINE N == IF to >= Len(c) THEN Least(Len(c), from) ELSE Len(c)
           e == [k \in 1..N |-> IF k - 1 \in from..(to - 1) THEN Undefined ELSE c[k]]
<1>1. c \in Seq(Glyphs) /\ Len(c) \in Nat /\ \A k \in 1..Len(c) : c[k] \in Glyphs /\ c[k] # Half
  BY LenProperties, ElementOfSeq DEF NoHalf
<1>2. Cell(c, from) # Half /\ Cell(c, to) # Half
  BY CellNoHalf
<1>3. erase(c, from, to) = e
  BY <1>2 DEF erase
<1>4. N \in Nat /\ N <= Len(c) /\ (to < Len(c) => N = Len(c)) /\ (to >= Len(c) => N <= from /\ (N = from \/ N = Len(c)))
  BY <1>1 DEF Least
<1>40. erase(c, from, to) = e /\ N = IF to >= Len(c) THEN Least(Len(c), from) ELSE Len(c)
  BY <1>3
<1> HIDE DEF N
<1>5. \A k \in 1..N : e[k] \in Glyphs /\ e[k] # Half
  <2>1. Undefined \in Glyphs /\ Undefined # Half
    BY DEF Glyphs, Undefined, Half
  <2>2. \A k \in 1..N : k \in 1..Len(c)
    BY <1>1, <1>4
  <2> QED BY <1>1, <2>1, <2>2
<1>6. e \in Seq(Glyphs) /\ Len(e) = N
  <2>1. e \in [1..N -> Glyphs]
    BY <1>5
  <2> HIDE DEF e
  <2> QED BY <1>4, <2>1, FunctionIsSeq
<1>7. ASSUME NEW i \in Nat
      PROVE  Cell(e, i) = IF from <= i /\ i < to THEN Undefined ELSE Cell(c, i)
  <2>1. CASE i \in 0..(N - 1)
    <3>1. i + 1 \in 1..N /\ (i + 1) - 1 = i /\ i \in 0..(Len(c) - 1)
      BY <1>1, <1>4, <2>1
    <3>2. Cell(e, i) = e[i + 1] /\ Cell(c, i) = c[i + 1]
      <4> HIDE DEF e
      <4> QED BY <1>6, <2>1, <3>1 DEF Cell
    <3>3. e[i + 1] = IF i \in from..(to - 1) THEN Undefined ELSE c[i + 1]
      BY <3>1
    <3>4. i \in from..(to - 1) <=> from <= i /\ i < to
      OBVIOUS
    <3> HIDE DEF e
    <3> QED BY <3>2, <3>3, <3>4
  <2>2. CASE i \notin 0..(N - 1)
    <3>1. Cell(e, i) = Undefined
      <4> HIDE DEF e
      <4> QED BY <1>6, <2>2 DEF Cell
    <3>2. ~(from <= i /\ i < to) => i \notin 0..(Len(c) - 1)
      BY <1>1, <1>4, <2>2
    <3> QED BY <3>1, <3>2 DEF Cell
  <2> QED BY <2>1, <2>2
<1> HIDE DEF e
<1> QED BY <1>5, <1>6, <1>7, <1>40 DEF NoHalf

\* The cells p are those of c, with ch in cell i.
Edited(c, p, i, ch) == \A k \in Nat : Cell(p, k) = IF k = i THEN ch ELSE Cell(c, k)

LEMMA PutPlain ==
    ASSUME NEW c, NoHalf(c), NEW i \in Nat, NEW ch \in Chars
    PROVE  LET p == Put(c, i, ch) IN
           NoHalf(p) /\ Len(p) = Most(Len(c), i + 1) /\ Edited(c, p, i, ch)
<1> DEFINE N == Most(Len(c), i + 1)
           p == [k \in 1..N |-> IF k = i + 1 THEN ch ELSE Cell(c, k - 1)]
<1>1. Put(c, i, ch) = p
  BY DEF Put
<1>2. Len(c) \in Nat /\ N \in Nat /\ N >= Len(c) /\ N >= i + 1
  BY LenProperties DEF NoHalf, Most
<1>20. N = Most(Len(c), i + 1)
  OBVIOUS
<1> HIDE DEF N
<1>3. ch \in Glyphs /\ ch # Half
  BY ScreenAssumption DEF Glyphs, Half
<1>4. \A k \in 1..N : p[k] \in Glyphs /\ p[k] # Half
  <2>1. \A k \in Int : Cell(c, k) \in Glyphs /\ Cell(c, k) # Half
    BY CellIs, CellNoHalf DEF NoHalf
  <2> QED BY <1>3, <2>1
<1>5. p \in Seq(Glyphs) /\ Len(p) = N
  <2>1. p \in [1..N -> Glyphs]
    BY <1>4
  <2> HIDE DEF p
  <2> QED BY <1>2, <2>1, FunctionIsSeq
<1>6. ASSUME NEW k \in Nat PROVE Cell(p, k) = IF k = i THEN ch ELSE Cell(c, k)
  <2>1. CASE k \in 0..(N - 1)
    <3>1. k + 1 \in 1..N /\ (k + 1) - 1 = k /\ (k + 1 = i + 1 <=> k = i)
      BY <1>2, <2>1
    <3>2. Cell(p, k) = p[k + 1]
      <4> HIDE DEF p
      <4> QED BY <1>5, <2>1 DEF Cell
    <3>3. p[k + 1] = IF k = i THEN ch ELSE Cell(c, k)
      BY <3>1
    <3> HIDE DEF p
    <3> QED BY <3>2, <3>3
  <2>2. CASE k \notin 0..(N - 1)
    <3>1. Cell(p, k) = Undefined
      <4> HIDE DEF p
      <4> QED BY <1>5, <2>2 DEF Cell
    <3>2. k # i /\ k \notin 0..(Len(c) - 1)
      BY <1>2, <2>2
    <3> HIDE DEF p
    <3> QED BY <3>1, <3>2 DEF Cell
  <2> QED BY <2>1, <2>2
<1> HIDE DEF p
<1> QED BY <1>1, <1>4, <1>5, <1>6, <1>20 DEF NoHalf, Edited

LEMMA OverwrittenPlain ==
    ASSUME NEW c, NoHalf(c), NEW i \in Nat, NEW ch \in Chars
    PROVE  LET p == overwritten(c, i, ch, 1) IN
           NoHalf(p) /\ Len(p) = Most(Len(c), i + 1) /\ Edited(c, p, i, ch)
<1> DEFINE e == erase(c, i, i + 1)
<1>1. Len(c) \in Nat
  BY LenProperties DEF NoHalf
<1>2. /\ NoHalf(e) /\ Len(e) = IF i + 1 >= Len(c) THEN Least(Len(c), i) ELSE Len(c)
      /\ \A k \in Nat : Cell(e, k) = IF i <= k /\ k < i + 1 THEN Undefined ELSE Cell(c, k)
  BY ErasedPlain, i + 1 \in Nat, i <= i + 1
<1>3. overwritten(c, i, ch, 1) = Put(e, i, ch)
  BY DEF overwritten
<1> HIDE DEF e
<1>4. Most(Len(e), i + 1) = Most(Len(c), i + 1)
  BY <1>1, <1>2 DEF Most, Least
<1>5. /\ NoHalf(Put(e, i, ch)) /\ Len(Put(e, i, ch)) = Most(Len(e), i + 1)
      /\ Edited(e, Put(e, i, ch), i, ch)
  <2>1. NoHalf(e)
    BY <1>2
  <2> QED BY ONLY <2>1, i \in Nat, ch \in Chars, PutPlain
<1>6. \A k \in Nat : k # i => ~(i <= k /\ k < i + 1)
  OBVIOUS
<1>7. Edited(c, Put(e, i, ch), i, ch)
  BY <1>2, <1>5, <1>6 DEF Edited
<1> QED BY <1>3, <1>4, <1>5, <1>7

-----------------------------------------------------------------------------
(***************************************************************************)
(* What rows show, as texts.                                               *)
(***************************************************************************)
\* What a cell is seen to be.
Look(c, k) == IF Cell(c, k) = Undefined THEN " " ELSE Cell(c, k)
Space == " "

\* Two texts, or many, are blank when each of them is.
LEMMA BothBlank ==
    ASSUME NEW u \in Texts, NEW v \in Texts
    PROVE  blank(u \o v) <=> blank(u) /\ blank(v)
<1> DEFINE w == u \o v
<1>1. Len(u) \in Nat /\ Len(v) \in Nat /\ Len(w) = Len(u) + Len(v)
  BY ConcatParts DEF Texts
<1>2. \A k \in 1..Len(u) : w[k] = u[k]
  BY ConcatParts DEF Texts
<1>3. \A k \in 1..Len(v) : w[Len(u) + k] = v[k]
  BY ConcatParts DEF Texts
<1>4. \A k \in 1..Len(w) : k > Len(u) => k - Len(u) \in 1..Len(v) /\ w[k] = v[k - Len(u)]
  BY ConcatParts DEF Texts
<1> HIDE DEF w
<1>5. ASSUME blank(w) PROVE blank(u) /\ blank(v)
  <2>1. \A k \in 1..Len(w) : w[k] = Space
    BY <1>5 DEF blank, Space
  <2>2. ASSUME NEW k \in 1..Len(u) PROVE u[k] = Space
    <3>1. k \in 1..Len(w)
      BY <1>1
    <3> QED BY <1>2, <2>1, <3>1
  <2>3. ASSUME NEW k \in 1..Len(v) PROVE v[k] = Space
    <3>1. Len(u) + k \in 1..Len(w)
      BY <1>1
    <3> QED BY <1>3, <2>1, <3>1
  <2> QED BY <2>2, <2>3 DEF blank, Space
<1>6. ASSUME blank(u), blank(v) PROVE blank(w)
  <2>1. (\A k \in 1..Len(u) : u[k] = Space) /\ (\A k \in 1..Len(v) : v[k] = Space)
    BY <1>6 DEF blank, Space
  <2>2. ASSUME NEW k \in 1..Len(w) PROVE w[k] = Space
    <3>1. CASE k <= Len(u)
      <4>1. k \in 1..Len(u)
        BY <1>1, <3>1
      <4> QED BY <1>2, <2>1, <4>1
    <3>2. CASE ~(k <= Len(u))
      <4>1. k > Len(u)
        BY <1>1, <3>2
      <4> QED BY <1>4, <2>1, <4>1
    <3> QED BY <3>1, <3>2
  <2> QED BY <2>2 DEF blank, Space
<1> QED BY <1>5, <1>6 DEF w

AllBlank(q, n) == \A k \in 1..n : blank(q[k])

LEMMA FlatBlank ==
    ASSUME NEW n \in Nat, NEW q \in Seq(Texts), Len(q) = n
    PROVE  blank(FlattenSeq(q)) <=> AllBlank(q, n)
<1>1. PICK h \in [0..n -> Texts] : h[0] = <<>> /\ \A k \in 1..n : h[k] = h[k - 1] \o q[k]
  BY JoinedSteps DEF Texts
<1>2. FlattenSeq(q) = h[n]
  BY <1>1, JoinedIs DEF Texts
<1>3. \A k \in 1..n : q[k] \in Texts
  BY ElementOfSeq
<1> DEFINE T == {j \in Nat : j <= n => (blank(h[j]) <=> AllBlank(q, j))}
<1>4. 0 \in T
  <2>1. blank(<<>>)
    <3>1. whole(newRow.cells) = <<>> /\ blank(whole(newRow.cells))
      BY NothingShown
    <3> QED BY <3>1
  <2>2. AllBlank(q, 0)
    BY DEF AllBlank
  <2> QED BY <1>1, <2>1, <2>2
<1>5. ASSUME NEW j \in Nat, j \in T PROVE j + 1 \in T
  <2>1. SUFFICES ASSUME j + 1 <= n PROVE blank(h[j + 1]) <=> AllBlank(q, j + 1)
    OBVIOUS
  <2>2. PICK k \in 1..n : k = j + 1 /\ k - 1 = j /\ j \in 0..n
    <3>1. j + 1 \in 1..n /\ (j + 1) - 1 = j /\ j \in 0..n
      BY <2>1
    <3> QED BY <3>1
  <2>3. h[k] = h[j] \o q[k] /\ h[j] \in Texts /\ q[k] \in Texts
    BY <1>1, <1>3, <2>2
  <2>4. blank(h[k]) <=> blank(h[j]) /\ blank(q[k])
    BY <2>3, BothBlank
  <2>5. blank(h[j]) <=> AllBlank(q, j)
    BY <1>5, <2>2
  <2>6. AllBlank(q, k) <=> AllBlank(q, j) /\ blank(q[k])
    <3>1. 1..k = 1..j \cup {k}
      BY <2>2
    <3> QED BY <3>1 DEF AllBlank
  <2> QED BY <2>2, <2>4, <2>5, <2>6
<1> HIDE DEF T
<1>6. Nat \subseteq T
  BY <1>4, <1>5, AllNumbers
<1>7. n \in T
  BY <1>6
<1>8. n <= n
  OBVIOUS
<1> QED BY <1>2, <1>7, <1>8 DEF T

\* The glyphs of a stretch of cells.
GlyphsOf(c, from, n) == [k \in 1..n |-> glyph(Cell(c, from + k - 1))]

\* The text of a stretch of cells is their glyphs.
LEMMA GlyphsOfAre ==
    ASSUME NEW c \in Seq(Glyphs), NEW from \in Nat, NEW to \in Nat, NEW n, n = Most(0, to - from)
    PROVE  /\ GlyphsOf(c, from, n) \in Seq(Texts) /\ Len(GlyphsOf(c, from, n)) = n /\ n \in Nat
           /\ text(c, from, to) = FlattenSeq(GlyphsOf(c, from, n))
<1> DEFINE q == GlyphsOf(c, from, n)
<1>1. n \in Nat
  BY DEF Most
<1>2. \A k \in 1..n : glyph(Cell(c, from + k - 1)) \in Texts
  <2>1. \A k \in 1..n : from + k - 1 \in Int
    BY <1>1
  <2>2. \A k \in 1..n : Cell(c, from + k - 1) \in Glyphs
    BY <2>1, CellIs
  <2> QED BY <2>2, GlyphIs
<1>3. q \in [1..n -> Texts]
  BY <1>2 DEF GlyphsOf
<1>4. text(c, from, to) = FlattenSeq(q)
  BY DEF text, GlyphsOf
<1> HIDE DEF q
<1>5. q \in Seq(Texts) /\ Len(q) = n
  BY <1>1, <1>3, FunctionIsSeq
<1> QED BY <1>1, <1>4, <1>5 DEF q

\* A row that shows nothing has nothing but spaces in it.
SeesBlank(c) == \A k : Look(c, k) = " "

\* A row that reads blank has nothing but blank cells.
LEMMA BlankCells ==
    ASSUME NEW c \in Cells, blank(whole(c))
    PROVE  NoHalf(c) /\ SeesBlank(c)
<1> DEFINE n == Len(c)
           q == GlyphsOf(c, 0, n)
<1>1. c \in Seq(Glyphs) /\ n \in Nat /\ (\A k \in 1..n : c[k] \in Glyphs)
      /\ (\A i \in 1..n : c[i] = Half => i > 1 /\ c[i - 1] = WideChar)
  BY LenProperties, ElementOfSeq DEF Cells
<1>2. n = Most(0, n - 0)
  BY <1>1 DEF Most
<1>3. q \in Seq(Texts) /\ Len(q) = n /\ whole(c) = FlattenSeq(q)
  BY <1>1, <1>2, GlyphsOfAre DEF whole
<1>4. \A k \in 1..n : q[k] = glyph(Cell(c, 0 + k - 1))
  BY DEF GlyphsOf
<1> HIDE DEF q
<1>5. AllBlank(q, n)
  BY <1>1, <1>3, FlatBlank
<1>6. ASSUME NEW k \in 1..n PROVE blank(glyph(c[k]))
  <2>1. Cell(c, 0 + k - 1) = c[k]
    <3>1. 0 + k - 1 \in 0..(Len(c) - 1) /\ (0 + k - 1) + 1 = k
      BY <1>1
    <3> QED BY <3>1 DEF Cell
  <2> QED BY <1>4, <1>5, <2>1 DEF AllBlank
<1>7. ASSUME NEW k \in 1..n, c[k] # Half PROVE c[k] \in {Undefined, " "}
  <2> DEFINE g == IF c[k] = Undefined THEN " " ELSE c[k]
  <2>1. glyph(c[k]) = <<g>>
    BY <1>7 DEF glyph
  <2>2. blank(<<g>>)
    BY <1>6, <2>1
  <2>3. g = " "
    <3>1. Len(<<g>>) = 1 /\ <<g>>[1] = g /\ 1 \in 1..1
      OBVIOUS
    <3> HIDE DEF g
    <3> QED BY <2>2, <3>1 DEF blank
  <2> QED BY <2>3
<1>8. ASSUME NEW k \in 1..n PROVE c[k] # Half
  <2>1. SUFFICES ASSUME c[k] = Half PROVE FALSE
    OBVIOUS
  <2>2. k > 1 /\ c[k - 1] = WideChar
    BY <1>1, <2>1
  <2>3. k - 1 \in 1..n
    BY <2>2
  <2>4. WideChar # Half /\ WideChar # Undefined /\ WideChar # " "
    BY DEF WideChar, Half, Undefined
  <2>5. c[k - 1] # Half
    BY <2>2, <2>4
  <2>6. c[k - 1] \in {Undefined, " "}
    BY <1>7, <2>3, <2>5
  <2> QED BY <2>2, <2>4, <2>6
<1>9. NoHalf(c)
  BY <1>1, <1>8 DEF NoHalf
<1>10. ASSUME NEW k PROVE Look(c, k) = " "
  <2>1. CASE k \in 0..(Len(c) - 1)
    <3>1. Cell(c, k) = c[k + 1] /\ k + 1 \in 1..n
      BY <1>1, <2>1 DEF Cell
    <3>2. c[k + 1] \in {Undefined, " "}
      BY <1>7, <1>8, <3>1
    <3> QED BY <3>1, <3>2 DEF Look
  <2>2. CASE k \notin 0..(Len(c) - 1)
    BY <2>2 DEF Cell, Look
  <2> QED BY <2>1, <2>2
<1> QED BY <1>9, <1>10 DEF SeesBlank

\* Sequences of one, one after the other.
Ones(q, n) == \A k \in 1..n : Len(q[k]) = 1
FirstsOf(t, q, n) == \A k \in 1..n : t[k] = q[k][1]

\* Texts of one character each.
LEMMA FlatOnes ==
    ASSUME NEW n \in Nat, NEW q \in Seq(Texts), Len(q) = n, Ones(q, n)
    PROVE  /\ FlattenSeq(q) \in Texts /\ Len(FlattenSeq(q)) = n
           /\ FirstsOf(FlattenSeq(q), q, n)
<1>1. PICK h \in [0..n -> Texts] : h[0] = <<>> /\ \A k \in 1..n : h[k] = h[k - 1] \o q[k]
  BY JoinedSteps DEF Texts
<1>2. FlattenSeq(q) = h[n]
  BY <1>1, JoinedIs DEF Texts
<1>3. \A k \in 1..n : q[k] \in Texts /\ Len(q[k]) = 1
  BY ElementOfSeq DEF Ones
<1> DEFINE T == {j \in Nat : j <= n => Len(h[j]) = j /\ FirstsOf(h[j], q, j)}
<1>4. 0 \in T
  <2>1. Len(<<>>) = 0 /\ FirstsOf(<<>>, q, 0)
    BY DEF FirstsOf
  <2> QED BY <1>1, <2>1
<1>5. ASSUME NEW j \in Nat, j \in T PROVE j + 1 \in T
  <2>1. SUFFICES ASSUME j + 1 <= n PROVE Len(h[j + 1]) = j + 1 /\ FirstsOf(h[j + 1], q, j + 1)
    OBVIOUS
  <2>2. PICK k \in 1..n : k = j + 1 /\ k - 1 = j /\ j \in 0..n
    <3>1. j + 1 \in 1..n /\ (j + 1) - 1 = j /\ j \in 0..n
      BY <2>1
    <3> QED BY <3>1
  <2>3. h[k] = h[j] \o q[k] /\ h[j] \in Texts /\ q[k] \in Texts /\ Len(q[k]) = 1
    BY <1>1, <1>3, <2>2
  <2>4. Len(h[j]) = j /\ FirstsOf(h[j], q, j)
    BY <1>5, <2>2
  <2> PICK u \in Texts : u = h[j]
    BY <2>3
  <2> PICK v \in Texts : v = q[k]
    BY <2>3
  <2> PICK w : w = u \o v
    OBVIOUS
  <2>9. h[k] = w /\ Len(u) = j /\ Len(v) = 1
    BY <2>3, <2>4
  <2>5. Len(h[k]) = k
    <3>1. Len(w) = Len(u) + Len(v)
      BY ConcatParts DEF Texts
    <3> QED BY <2>2, <2>9, <3>1
  <2>6. \A i \in 1..j : h[k][i] = h[j][i]
    <3>1. \A i \in 1..Len(u) : w[i] = u[i]
      BY ConcatParts DEF Texts
    <3> QED BY <2>9, <3>1
  <2>7. h[k][k] = q[k][1]
    <3>1. \A i \in 1..Len(v) : w[Len(u) + i] = v[i]
      BY ConcatParts DEF Texts
    <3>3. Len(u) + 1 = k
      BY <2>2, <2>9
    <3>4. 1 \in 1..Len(v)
      <4>1. 1 \in 1..1
        OBVIOUS
      <4> QED BY <2>9, <4>1
    <3>2. 1 \in 1..Len(v) /\ Len(u) + 1 = k
      BY <3>3, <3>4
    <3> QED BY <2>9, <3>1, <3>2
  <2>8. FirstsOf(h[k], q, k)
    <3>1. 1..k = 1..j \cup {k}
      BY <2>2
    <3> QED BY <2>4, <2>6, <2>7, <3>1 DEF FirstsOf
  <2> QED BY <2>2, <2>5, <2>8
<1> HIDE DEF T
<1>6. Nat \subseteq T
  BY <1>4, <1>5, AllNumbers
<1>7. n \in T
  BY <1>6
<1>8. n <= n /\ n \in 0..n
  OBVIOUS
<1> QED BY <1>1, <1>2, <1>7, <1>8 DEF T

\* The text of cells without wide characters: what each is seen to be.
Looks(t, c, from, n) == \A k \in 1..n : t[k] = Look(c, from + (k - 1))

\* The text of plain cells.
LEMMA TextLooks ==
    ASSUME NEW c, NoHalf(c), NEW from \in Nat, NEW to \in Nat, NEW n, n = Most(0, to - from)
    PROVE  LET t == text(c, from, to) IN
           t \in Texts /\ Len(t) = n /\ n \in Nat /\ Looks(t, c, from, n)
<1> DEFINE q == GlyphsOf(c, from, n)
           t == text(c, from, to)
<1>1. c \in Seq(Glyphs)
  BY DEF NoHalf
<1>2. q \in Seq(Texts) /\ Len(q) = n /\ n \in Nat /\ t = FlattenSeq(q)
  BY <1>1, GlyphsOfAre
<1>3. ASSUME NEW k \in 1..n PROVE q[k] = <<Look(c, from + (k - 1))>>
  <2>1. q[k] = glyph(Cell(c, from + k - 1)) /\ from + k - 1 = from + (k - 1)
    BY <1>2 DEF GlyphsOf
  <2>2. Cell(c, from + (k - 1)) # Half
    BY CellNoHalf
  <2> QED BY <2>1, <2>2 DEF glyph, Look
<1> HIDE DEF q, t
<1>4. \A k \in 1..n : Len(q[k]) = 1 /\ q[k][1] = Look(c, from + (k - 1))
  BY <1>3
<1>5. Ones(q, n)
  BY <1>4 DEF Ones
<1>6. t \in Texts /\ Len(t) = n /\ FirstsOf(t, q, n)
  BY <1>2, <1>5, FlatOnes
<1>7. Looks(t, c, from, n)
  BY <1>4, <1>6 DEF FirstsOf, Looks
<1> QED BY <1>2, <1>6, <1>7 DEF t

\* The text t is what is seen from offset a to b; or from o on, and then spaces.
Runs(t, F, a, b)  == t \in Texts /\ Len(t) = b - a /\ \A k \in 1..Len(t) : t[k] = F[a + (k - 1)]
Seen(t, k)        == IF k \in 1..Len(t) THEN t[k] ELSE Space
Covers(t, F, o)   == t \in Texts /\ \A k \in Nat \ {0} : Seen(t, k) = F[o + (k - 1)]

\* Texts that go on with one another.
LEMMA RunsBoth ==
    ASSUME NEW u, NEW v, NEW F, NEW a \in Nat, NEW b \in Nat, NEW c \in Nat,
           Runs(u, F, a, b), Runs(v, F, b, c)
    PROVE  Runs(u \o v, F, a, c)
<1>1. u \in Seq(Chars) /\ v \in Seq(Chars) /\ Len(u) = b - a /\ Len(v) = c - b
  BY DEF Runs, Texts
<1> DEFINE w == u \o v
<1>2. w \in Seq(Chars) /\ Len(w) = Len(u) + Len(v)
  BY <1>1, ConcatParts
<1>3. Len(u) \in Nat /\ Len(v) \in Nat
  BY <1>1, LenProperties
<1>4. \A k \in 1..Len(u) : w[k] = u[k]
  BY <1>1, ConcatParts
<1>5. \A k \in 1..Len(w) : k > Len(u) => k - Len(u) \in 1..Len(v) /\ w[k] = v[k - Len(u)]
  BY <1>1, ConcatParts
<1> HIDE DEF w
<1>6. ASSUME NEW k \in 1..Len(w) PROVE w[k] = F[a + (k - 1)]
  <2>1. CASE k <= Len(u)
    <3>1. k \in 1..Len(u)
      BY <1>3, <2>1
    <3> QED BY <1>4, <3>1 DEF Runs
  <2>2. CASE k > Len(u)
    <3>1. PICK i \in 1..Len(v) : i = k - Len(u)
      BY <1>5, <2>2
    <3>2. w[k] = v[i] /\ v[i] = F[b + (i - 1)]
      BY <1>5, <2>2, <3>1 DEF Runs
    <3>3. b + (i - 1) = a + (k - 1)
      BY <1>1, <3>1
    <3> QED BY <3>2, <3>3
  <2> QED BY <1>3, <2>1, <2>2
<1> QED BY <1>1, <1>2, <1>6 DEF Runs, Texts, w

LEMMA RunsThenCovers ==
    ASSUME NEW u, NEW v, NEW F, NEW a \in Nat, NEW b \in Nat, Runs(u, F, a, b), Covers(v, F, b)
    PROVE  Covers(u \o v, F, a)
<1>1. u \in Seq(Chars) /\ v \in Seq(Chars) /\ Len(u) = b - a
  BY DEF Runs, Covers, Texts
<1> DEFINE w == u \o v
<1>2. w \in Seq(Chars) /\ Len(w) = Len(u) + Len(v)
  BY <1>1, ConcatParts
<1>3. Len(u) \in Nat /\ Len(v) \in Nat
  BY <1>1, LenProperties
<1>4. \A k \in 1..Len(u) : w[k] = u[k]
  BY <1>1, ConcatParts
<1>5. \A k \in 1..Len(w) : k > Len(u) => k - Len(u) \in 1..Len(v) /\ w[k] = v[k - Len(u)]
  BY <1>1, ConcatParts
<1> HIDE DEF w
<1>6. ASSUME NEW k \in Nat \ {0} PROVE Seen(w, k) = F[a + (k - 1)]
  <2>1. CASE k <= Len(u)
    <3>1. k \in 1..Len(u) /\ k \in 1..Len(w)
      BY <1>2, <1>3, <2>1
    <3>2. w[k] = u[k] /\ u[k] = F[a + (k - 1)]
      BY <1>4, <3>1 DEF Runs
    <3> QED BY <3>1, <3>2 DEF Seen
  <2>2. CASE k > Len(u)
    <3>0. k - Len(u) \in Nat \ {0}
      BY <1>3, <2>2
    <3>1. PICK i \in Nat \ {0} : i = k - Len(u)
      BY <3>0
    <3>2. Seen(v, i) = F[b + (i - 1)]
      BY DEF Covers
    <3>3. b + (i - 1) = a + (k - 1)
      BY <1>1, <3>1
    <3>4. Seen(w, k) = Seen(v, i)
      <4>1. (k \in 1..Len(w)) <=> (i \in 1..Len(v))
        BY <1>2, <1>3, <3>1
      <4>2. k \in 1..Len(w) => w[k] = v[i]
        BY <1>5, <2>2, <3>1
      <4> QED BY <4>1, <4>2 DEF Seen
    <3> QED BY <3>2, <3>3, <3>4
  <2> QED BY <1>3, <2>1, <2>2
<1>7. w \in Texts
  BY <1>2 DEF Texts
<1> QED BY <1>6, <1>7 DEF Covers, w

LEMMA CoversBlank ==
    ASSUME NEW u, NEW v \in Texts, NEW F, NEW a \in Nat, Covers(u, F, a), blank(v)
    PROVE  Covers(u \o v, F, a)
<1>1. u \in Seq(Chars) /\ v \in Seq(Chars)
  BY DEF Covers, Texts
<1> DEFINE w == u \o v
<1>2. w \in Seq(Chars) /\ Len(w) = Len(u) + Len(v)
  BY <1>1, ConcatParts
<1>3. Len(u) \in Nat /\ Len(v) \in Nat
  BY <1>1, LenProperties
<1>4. \A k \in 1..Len(u) : w[k] = u[k]
  BY <1>1, ConcatParts
<1>5. \A k \in 1..Len(w) : k > Len(u) => k - Len(u) \in 1..Len(v) /\ w[k] = v[k - Len(u)]
  BY <1>1, ConcatParts
<1>6. \A i \in 1..Len(v) : v[i] = Space
  BY DEF blank, Space
<1> HIDE DEF w
<1>7. ASSUME NEW k \in Nat \ {0} PROVE Seen(w, k) = F[a + (k - 1)]
  <2>0. Seen(u, k) = F[a + (k - 1)]
    BY DEF Covers
  <2>1. CASE k <= Len(u)
    <3>1. k \in 1..Len(u) /\ k \in 1..Len(w)
      BY <1>2, <1>3, <2>1
    <3> QED BY <1>4, <2>0, <3>1 DEF Seen
  <2>2. CASE k > Len(u)
    <3>1. Seen(u, k) = Space
      BY <1>3, <2>2 DEF Seen
    <3>2. k \in 1..Len(w) => w[k] = Space
      BY <1>5, <1>6, <2>2
    <3> QED BY <2>0, <3>1, <3>2 DEF Seen
  <2> QED BY <1>3, <2>1, <2>2
<1>8. w \in Texts
  BY <1>2 DEF Texts
<1> QED BY <1>7, <1>8 DEF Covers, w

\* Texts that cover the same are the same but for the spaces they end in.
LEMMA CoversSame ==
    ASSUME NEW t, NEW u, NEW F, NEW a \in Nat, Covers(t, F, a), Covers(u, F, a)
    PROVE  Trimmed(t) = Trimmed(u)
<1> DEFINE M == {k \in Nat \ {0} : F[a + (k - 1)] # Space}
<1>1. ASSUME NEW v, Covers(v, F, a)
      PROVE  /\ {k \in 1..Len(v) : v[k] # " "} = M
             /\ Max({0} \cup M) \in Nat /\ Max({0} \cup M) <= Len(v)
             /\ \A k \in 1..Max({0} \cup M) : v[k] = F[a + (k - 1)] /\ v[k] \in Chars
  <2>1. Len(v) \in Nat /\ v \in Seq(Chars)
    BY <1>1, LenProperties DEF Covers, Texts
  <2>2. ASSUME NEW k \in Nat \ {0}
        PROVE  (k \in 1..Len(v) => v[k] = F[a + (k - 1)]) /\ (k \notin 1..Len(v) => F[a + (k - 1)] = Space)
    BY <1>1 DEF Covers, Seen
  <2>3. {k \in 1..Len(v) : v[k] # " "} = M
    <3>1. ASSUME NEW k \in 1..Len(v) PROVE k \in Nat \ {0} /\ v[k] = F[a + (k - 1)]
      BY <2>1, <2>2
    <3> QED BY <2>2, <3>1 DEF Space
  <2>4. M \subseteq 1..Len(v)
    BY <2>3
  <2> HIDE DEF M
  <2>5. {0} \cup M \subseteq 0..Len(v) /\ {0} \cup M # {}
    BY <2>1, <2>4
  <2>6. Max({0} \cup M) \in {0} \cup M
    BY <2>1, <2>5, GreatestIs
  <2>7. Max({0} \cup M) \in 0..Len(v)
    BY <2>5, <2>6
  <2>8. ASSUME NEW k \in 1..Max({0} \cup M) PROVE v[k] = F[a + (k - 1)] /\ v[k] \in Chars
    <3>1. k \in 1..Len(v)
      BY <2>1, <2>7
    <3> QED BY <2>1, <2>2, <3>1, ElementOfSeq
  <2>9. Max({0} \cup M) \in Nat /\ Max({0} \cup M) <= Len(v)
    BY <2>1, <2>7
  <2> QED BY <2>3, <2>8, <2>9
<1> HIDE DEF M
<1>2. PICK m \in Nat : m = Max({0} \cup M)
  BY <1>1
<1>3. ASSUME NEW v, Covers(v, F, a)
      PROVE  /\ Trimmed(v) \in Seq(Chars) /\ Len(Trimmed(v)) = m
             /\ \A k \in 1..m : Trimmed(v)[k] = F[a + (k - 1)]
  <2>1. Trimmed(v) = SubSeq(v, 1, m)
    BY <1>1, <1>2, <1>3 DEF Trimmed
  <2>2. \A k \in 1..m : v[k] = F[a + (k - 1)] /\ v[k] \in Chars
    BY <1>1, <1>2, <1>3
  <2>3. /\ SubSeq(v, 1, m) \in Seq(Chars)
        /\ Len(SubSeq(v, 1, m)) = IF 1 <= m THEN m - 1 + 1 ELSE 0
        /\ \A k \in 1..(m - 1 + 1) : SubSeq(v, 1, m)[k] = v[1 + k - 1]
    BY <2>2, SubSeqProperties
  <2> QED BY <2>1, <2>2, <2>3
<1>4. \A k \in 1..Len(Trimmed(t)) : Trimmed(t)[k] = Trimmed(u)[k]
  BY <1>3
<1>5. Trimmed(t) \in Seq(Chars) /\ Trimmed(u) \in Seq(Chars) /\ Len(Trimmed(t)) = Len(Trimmed(u))
  BY <1>3
<1> QED BY <1>4, <1>5, SeqEqual
=============================================================================
