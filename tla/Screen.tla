------------------------------- MODULE Screen -------------------------------
(***************************************************************************)
(* The model of the terminal that web/serialtap.js keeps beside the mirror *)
(* of the console (makeScreen), as operators on one record: what a chunk   *)
(* of the guest's output does to it (Write), and what is read off it       *)
(* (cursorLine, lines, and the prompt's shape that atPrompt asks for).     *)
(*                                                                         *)
(* A character is a string; control characters go by their names.  The     *)
(* words the shell says about the terminal (OSC 3008) are characters of    *)
(* their own: StartWord, and ShellType or another type.  Columns and rows  *)
(* count from 0 as in the code, sequences from 1.  The guards of a CASE    *)
(* exclude each other; where the order of the code's tests matters, IF     *)
(* keeps it.                                                               *)
(***************************************************************************)
EXTENDS Integers, Sequences, SequencesExt, FiniteSetsExt

CONSTANTS
    Chars,        \* the characters there are
    Scrollback,   \* rows kept above the main screen (SCROLLBACK)
    Slack         \* rows over it before they are dropped (64 in the code)

ASSUME ScreenAssumption ==
    Scrollback \in Nat /\ Slack \in Nat /\ {"undefined", "half"} \cap Chars = {}

Least(a, b) == IF a < b THEN a ELSE b
Most(a, b)  == IF a > b THEN a ELSE b

\* Op, n times over.
Repeat(Op(_), s, n) == LET f[k \in 0..n] == IF k = 0 THEN s ELSE Op(f[k - 1]) IN f[n]

C0        == {"NUL", "BEL", "BS", "HT", "LF", "CR"}
C1        == {"IND", "NEL", "RI", "DCS", "CSI", "OSC", "ST"}
Controls  == C0 \cup C1 \cup {"ESC", "CAN"}
Numerals  == <<"0", "1", "2", "3", "4", "5", "6", "7", "8", "9">>
Privates  == {"<", "=", ">", "?"}
Params    == ToSet(Numerals) \cup Privates \cup {";", ":"}
Inters    == {" ", "!", "\"", "#", "$", "%", "&", "'", "(", ")", "*", "+", ",", "-", ".", "/"}
StartWord == "3008;start"
ShellType == "type=shell"

\* A character two columns wide, and a combining one.
WideChar == "W"
Mark     == "M"
width(c) == CASE c = WideChar -> 2 [] c = Mark -> 0 [] OTHER -> 1
-----------------------------------------------------------------------------
(***************************************************************************)
(* Rows.                                                                   *)
(***************************************************************************)
Undefined == "undefined"   \* a cell nothing has been written to
Half      == "half"        \* the right half of a wide character

newRow == [cells |-> <<>>, wrapped |-> FALSE]

Cell(cells, i) == IF i \in 0..(Len(cells) - 1) THEN cells[i + 1] ELSE Undefined

Put(cells, i, c) == [k \in 1..Most(Len(cells), i + 1) |->
                        IF k = i + 1 THEN c ELSE Cell(cells, k - 1)]

glyph(c) == IF c = Half THEN <<>> ELSE <<IF c = Undefined THEN " " ELSE c>>

text(cells, from, to) ==
    FlattenSeq([k \in 1..Most(0, to - from) |-> glyph(Cell(cells, from + k - 1))])

whole(cells) == text(cells, 0, Len(cells))

blank(t) == \A k \in 1..Len(t) : t[k] = " "

\* Mutant of erase: the halves at the edges stay.
eraseBluntly(cells, from, to) ==
    [k \in 1..(IF to >= Len(cells) THEN Least(Len(cells), from) ELSE Len(cells)) |->
        IF from < k /\ k <= to THEN Undefined ELSE cells[k]]

\* Blank [from, to), and with it the wide character that either edge cuts in two.
erase(cells, from, to) ==
    LET gone(i) == \/ i \in from..(to - 1)
                   \/ i = from - 1 /\ Cell(cells, from) = Half
                   \/ i = to /\ Cell(cells, to) = Half
    IN  [k \in 1..(IF to >= Len(cells) THEN Least(Len(cells), from) ELSE Len(cells)) |->
            IF gone(k - 1) THEN Undefined ELSE cells[k]]

\* Make room for n columns at i: what is pushed past the margin is lost.
shift(cells, i, n, cols) ==
    LET c   == erase(cells, i, i)
        all == SubSeq(c, 1, i) \o [k \in 1..n |-> Undefined] \o SubSeq(c, i + 1, Len(c))
    IN  IF i < Len(cells) THEN SubSeq(all, 1, Least(Len(all), cols)) ELSE cells
-----------------------------------------------------------------------------
(***************************************************************************)
(* The screen.  The code counts what moves the rows of the main screen     *)
(* (`moves`) and compares a saved count with it; kept here is what the     *)
(* comparison tells, `moved`.  `row` is history: the saved cursor's row    *)
(* counted from the top of the whole buffer.                               *)
(***************************************************************************)
NoSave == [set |-> FALSE, x |-> 0, y |-> 0, origin |-> FALSE, moved |-> FALSE, row |-> 0]
NoBuffer == [lines |-> <<>>, base |-> 0, saved |-> NoSave]
buffer(rows) == [NoBuffer EXCEPT !.lines = [i \in 1..rows |-> newRow]]

onMain(s)     == s.alt.lines = <<>>
buf(s)        == IF onMain(s) THEN s.main ELSE s.alt
keep(s)       == IF onMain(s) THEN Scrollback ELSE 0
withBuf(s, b) == IF onMain(s) THEN [s EXCEPT !.main = b] ELSE [s EXCEPT !.alt = b]
withLines(s, l) == withBuf(s, [buf(s) EXCEPT !.lines = l])
line(s, i)    == buf(s).lines[buf(s).base + i + 1]
withLine(s, i, l) == withLines(s, [buf(s).lines EXCEPT ![buf(s).base + i + 1] = l])
cellsAt(s)    == line(s, s.y).cells
withCells(s, c) == withLine(s, s.y, [line(s, s.y) EXCEPT !.cells = c])

\* Mutant of moved: nothing is counted.
stayed(s) == s

moved(s) == [s EXCEPT !.main.saved.moved = s.main.saved.set,
                      !.alt.saved.moved  = s.alt.saved.set]

reset(s) == [s EXCEPT !.main = buffer(s.rows), !.alt = NoBuffer, !.x = 0, !.y = 0,
                      !.top = 0, !.bottom = s.rows - 1,
                      !.wrap = TRUE, !.origin = FALSE, !.insert = FALSE, !.unsure = FALSE]

makeScreen(g) ==
    reset([cols |-> g.cols, rows |-> g.rows, main |-> NoBuffer, alt |-> NoBuffer,
           x |-> 0, y |-> 0, top |-> 0, bottom |-> 0,
           wrap |-> TRUE, origin |-> FALSE, insert |-> FALSE, unsure |-> FALSE,
           state |-> "GROUND", params |-> <<>>, inter |-> <<>>,
           osc |-> <<>>, hears |-> FALSE, context |-> "null"])

\* One buffer of fit(): growing pulls rows back out of the scrollback while the
\* cursor is on the bottom row, else adds blank ones; shrinking drops rows below the
\* cursor, then pushes rows off the top.  `d` is how far the rows move down.
fitted(b, rows, y, active) ==
    LET h     == Len(b.lines) - b.base
        pull  == IF active /\ y = h - 1 THEN Least(b.base, rows - h) ELSE 0
        drop  == IF active THEN Least(h - rows, h - 1 - y) ELSE 0
    IN  IF rows >= h
        THEN [b |-> [b EXCEPT !.base = @ - pull,
                              !.lines = @ \o buffer(rows - h - pull).lines],
              d |-> pull]
        ELSE [b |-> [b EXCEPT !.base = @ + (h - rows - drop),
                              !.lines = SubSeq(@, 1, Len(@) - drop)],
              d |-> drop + rows - h]

\* Mutant of rides: the cursor keeps its place on the window.
stays(y, d, rows) == Least(y, rows - 1)

\* The cursor goes along with its row.
rides(y, d, rows) == Most(0, Least(y + d, rows - 1))

\* Follow the terminal's geometry.
fit(s, g) ==
    LET m == fitted(s.main, g.rows, s.y, onMain(s))
        a == fitted(s.alt, g.rows, s.y, TRUE)
    IN  IF g = [cols |-> s.cols, rows |-> s.rows] THEN s
        ELSE moved([s EXCEPT !.cols = g.cols, !.rows = g.rows, !.main = m.b,
                             !.alt = IF onMain(s) THEN NoBuffer ELSE a.b,
                             !.top = 0, !.bottom = g.rows - 1,
                             !.x = Least(s.x, g.cols),
                             !.y = rides(s.y, IF onMain(s) THEN m.d ELSE a.d, g.rows)])

\* Rows in and out of [from, bottom]: how IL, DL and the regions below the top scroll.

\* Mutant of pushDown: no row goes for the new one.
pushDownAdds(s, from) ==
    withLines(s, InsertAt(buf(s).lines, buf(s).base + from + 1, newRow))

pushDown(s, from) ==
    withLines(s, InsertAt(RemoveAt(buf(s).lines, buf(s).base + s.bottom + 1),
                          buf(s).base + from + 1, newRow))
pullUp(s, from) ==
    withLines(s, InsertAt(RemoveAt(buf(s).lines, buf(s).base + from + 1),
                          buf(s).base + s.bottom + 1, newRow))

\* A region from the top row on scrolls into the scrollback, which is cut at `keep`.
scrollOff(s) ==
    LET b    == buf(s)
        all  == InsertAt(b.lines, b.base + s.bottom + 2, newRow)
        over == b.base + 1 > keep(s) + Slack
        new  == withBuf(s, [b EXCEPT
                    !.base  = IF over THEN keep(s) ELSE b.base + 1,
                    !.lines = IF over THEN SubSeq(all, b.base + 2 - keep(s), Len(all)) ELSE all])
    IN  IF onMain(s) THEN moved(new) ELSE new

scrollUp1(s)     == IF s.top = 0 THEN scrollOff(s) ELSE pullUp(s, s.top)
scrollDown1(s)   == pushDown(s, s.top)
scrollUp(s, n)   == Repeat(scrollUp1, s, n)
scrollDown(s, n) == Repeat(scrollDown1, s, n)

inside(s) == [s EXCEPT !.x = Least(@, s.cols - 1)]
below(s)  == IF s.y = s.bottom THEN scrollUp(s, 1)
             ELSE [s EXCEPT !.y = Least(@ + 1, s.rows - 1)]

\* Mutants of lineFeed: it unmarks the row it lands on, as xterm.js does; it leaves the
\* doubt about a restored cursor.
lineFeedUnmarks(s) ==
    LET d == below(inside(s)) IN withLine(d, d.y, [line(d, d.y) EXCEPT !.wrapped = FALSE])
lineFeedDoubts(s) == below(inside(s))

lineFeed(s) == below([inside(s) EXCEPT !.unsure = @ /\ s.x # 0])

reverseIndex(s) == IF s.y = s.top THEN scrollDown(inside(s), 1)
                   ELSE [inside(s) EXCEPT !.y = Most(@ - 1, 0)]

\* Where a character goes: the deferred wrap, or a wide one that no longer fits.
placed(s, w) ==
    IF s.x + w <= s.cols THEN s
    ELSE IF ~s.wrap THEN [s EXCEPT !.x = s.cols - w]
    ELSE LET d == [below(s) EXCEPT !.x = 0]
         IN  withLine(d, d.y, [line(d, d.y) EXCEPT !.wrapped = TRUE])

\* A combining character joins the cell before it (a wide one stays a wide one).
combine(s, ch) ==
    LET i == Least(s.x, s.cols) - 1
        j == IF i > 0 /\ Cell(cellsAt(s), i) = Half THEN i - 1 ELSE i
    IN  IF Cell(cellsAt(s), j) \in {Undefined, Half, WideChar} THEN s
        ELSE withCells(s, Put(cellsAt(s), j, ch))

\* The cells of a row, with a character of width w at i.
overwritten(cells, i, ch, w) ==
    LET c == Put(erase(cells, i, i + w), i, ch) IN IF w = 2 THEN Put(c, i + 1, Half) ELSE c

printAt(s, ch, w) ==
    LET room == IF s.insert THEN shift(cellsAt(s), s.x, w, s.cols) ELSE cellsAt(s)
    IN  [withCells(s, overwritten(room, s.x, ch, w)) EXCEPT !.x = @ + w]

print(s, ch) == IF width(ch) = 0 THEN combine(s, ch)
                ELSE printAt(placed(s, width(ch)), ch, width(ch))

control(s, c) ==
    CASE c = "BS"            -> [s EXCEPT !.x = Most(0, Least(@, s.cols - 1) - 1)]
      [] c = "HT"            -> [s EXCEPT !.x = Least(s.cols - 1,
                                                      (Least(@, s.cols - 1) \div 8 + 1) * 8)]
      [] c \in {"LF", "IND"} -> lineFeed(s)
      [] c = "CR"            -> [s EXCEPT !.x = 0]
      [] c = "NEL"           -> lineFeed([s EXCEPT !.x = 0])
      [] c = "RI"            -> reverseIndex(s)
      [] OTHER               -> s

save(s) == withBuf(s, [buf(s) EXCEPT !.saved =
              [set |-> TRUE, x |-> s.x, y |-> s.y, origin |-> s.origin, moved |-> FALSE,
               row |-> buf(s).base + s.y]])

restore(s) ==
    LET v == buf(s).saved
    IN  [s EXCEPT !.unsure = @ \/ v.moved, !.x = Least(v.x, s.cols - 1),
                  !.y = Least(v.y, s.rows - 1), !.origin = v.origin]
-----------------------------------------------------------------------------
(***************************************************************************)
(* Control sequences.                                                      *)
(***************************************************************************)
\* The modes that switch to the alternate screen, and the one that saves the cursor too.
AltModes == {47, 1047, 1049}
AltSaved == 1049

mode(s, p, on) ==
    CASE p = 7 -> [s EXCEPT !.wrap = on]
      [] p = 6 -> [s EXCEPT !.origin = on, !.x = 0, !.y = IF on THEN s.top ELSE 0]
      [] p \in AltModes /\ on ->
             LET v == IF p = AltSaved THEN save(s) ELSE s
             IN  IF onMain(s) THEN [v EXCEPT !.alt = buffer(s.rows)] ELSE v
      [] p \in AltModes /\ ~on ->
             LET m == [s EXCEPT !.alt = NoBuffer] IN IF p = AltSaved THEN restore(m) ELSE m
      [] OTHER -> s

\* Mutant of afresh: the row stays part of the line above.
joinedOn(s) == s

\* The cursor's row, erased from its first column, is no longer the rest of a line.
afresh(s) == withLine(s, s.y, [line(s, s.y) EXCEPT !.wrapped = FALSE])

\* ED: what of the screen is erased, and what the model may be sure of again.
eraseDisplay(s, p) ==
    LET onto == IF p = 0 /\ s.x = 0 THEN afresh(s) ELSE s
        row  == CASE p = 0 -> withCells(onto, erase(cellsAt(s), Least(s.x, s.cols), Len(cellsAt(s))))
                  [] p = 1 -> withCells(onto, erase(cellsAt(s), 0, Least(s.x, s.cols - 1) + 1))
                  [] OTHER -> onto
        off  == {i \in 0..(s.rows - 1) : p = 2 \/ (p = 0 /\ i > s.y) \/ (p = 1 /\ i < s.y)}
        b    == buf(row)
    IN  [withLines(row, [k \in 1..Len(b.lines) |->
                            IF k - b.base - 1 \in off THEN newRow ELSE b.lines[k]])
            EXCEPT !.unsure = @ /\ ~(p = 2 \/ (p = 0 /\ s.x = 0 /\ s.y = 0))]

dropScrollback(s) ==
    IF onMain(s) THEN moved(withBuf(s, [s.main EXCEPT
                          !.lines = SubSeq(@, s.main.base + 1, Len(@)), !.base = 0]))
    ELSE s

\* The numbers of a sequence: each is read as far as it is one; none is 0.
numbers(params) ==
    LET f[k \in 0..Len(params)] ==
            IF k = 0 THEN [ps |-> <<0>>, reads |-> TRUE]
            ELSE IF params[k] = ";" THEN [ps |-> Append(f[k - 1].ps, 0), reads |-> TRUE]
            ELSE IF f[k - 1].reads /\ params[k] \in ToSet(Numerals)
            THEN [f[k - 1] EXCEPT !.ps[Len(f[k - 1].ps)] =
                      10 * @ + CHOOSE n \in 0..9 : Numerals[n + 1] = params[k]]
            ELSE [f[k - 1] EXCEPT !.reads = FALSE]
    IN  f[Len(params)].ps

\* Rows, counted from the scroll region's top in origin mode; the cursor stops at its edges.
toRow(s, r)      == IF s.origin THEN Least(s.bottom, s.top + r) ELSE Least(s.rows - 1, r)
cursorUp(s, n)   == [inside(s) EXCEPT !.y = Most(IF @ >= s.top THEN s.top ELSE 0, @ - n)]
cursorDown(s, n) == [inside(s) EXCEPT !.y = Least(IF @ <= s.bottom THEN s.bottom ELSE s.rows - 1,
                                                  @ + n)]

\* EL, ICH and DCH.
eraseLine(s, p) ==
    withCells(s, CASE p = 0 -> erase(cellsAt(s), Least(s.x, s.cols), Len(cellsAt(s)))
                   [] p = 1 -> erase(cellsAt(s), 0, inside(s).x + 1)
                   [] p = 2 -> <<>>
                   [] OTHER -> cellsAt(s))

insertChars(s, n) == inside(withCells(s, shift(cellsAt(s), inside(s).x, Least(n, s.cols), s.cols)))

deleteChars(s, n) ==
    LET x == inside(s).x
        c == erase(erase(cellsAt(s), x, x), x + n, x + n)
    IN  inside(withCells(s, SubSeq(c, 1, Least(x, Len(c))) \o SubSeq(c, x + n + 1, Len(c))))

\* IL and DL, on a row of the scroll region.
insertRows(s, n) == LET down1(t) == pushDown(t, s.y)
                    IN  [Repeat(down1, s, Least(n, s.bottom - s.y + 1)) EXCEPT !.x = 0]
deleteRows(s, n) == LET up1(t) == pullUp(t, s.y)
                    IN  [Repeat(up1, s, Least(n, s.bottom - s.y + 1)) EXCEPT !.x = 0]

\* DECSTBM.
scrollRegion(s, p1, p2) ==
    LET t == Most(1, p1) - 1
        b == Least(s.rows, IF p2 = 0 THEN s.rows ELSE p2) - 1
    IN  IF t < b THEN [s EXCEPT !.top = t, !.bottom = b, !.x = 0, !.y = IF s.origin THEN t ELSE 0]
        ELSE s

\* DECSTR.
softReset(s) == withBuf([s EXCEPT !.top = 0, !.bottom = s.rows - 1, !.wrap = TRUE,
                                  !.origin = FALSE, !.insert = FALSE],
                        [buf(s) EXCEPT !.saved = NoSave])

modes(s, ps, on) ==
    LET f[k \in 0..Len(ps)] == IF k = 0 THEN s ELSE mode(f[k - 1], ps[k], on) IN f[Len(ps)]

\* A sequence that is nobody's private one, with its numbers.
public(s, final, ps) ==
    LET n  == Most(1, ps[1])
        p2 == IF Len(ps) > 1 THEN ps[2] ELSE 0
        within == s.y \in s.top..s.bottom
    IN CASE final = "A" -> cursorUp(s, n)
         [] final \in {"B", "e"} -> cursorDown(s, n)
         [] final \in {"C", "a"} -> [s EXCEPT !.x = Least(s.cols - 1, @ + n)]
         [] final = "D" -> [s EXCEPT !.x = Most(0, inside(s).x - n)]
         [] final = "E" -> [cursorDown(s, n) EXCEPT !.x = 0]
         [] final = "F" -> [cursorUp(s, n) EXCEPT !.x = 0]
         [] final = "G" -> [s EXCEPT !.x = Least(s.cols, n) - 1]
         [] final = "d" -> [inside(s) EXCEPT !.y = toRow(s, n - 1)]
         [] final \in {"H", "f"} -> [s EXCEPT !.y = toRow(s, n - 1),
                                              !.x = Least(s.cols, Most(1, p2)) - 1]
         [] final = "J" -> IF ps[1] = 3 THEN dropScrollback(s) ELSE eraseDisplay(s, ps[1])
         [] final = "K" -> eraseLine(s, ps[1])
         [] final = "@" -> insertChars(s, n)
         [] final = "P" -> deleteChars(s, n)
         [] final = "X" -> inside(withCells(s, erase(cellsAt(s), inside(s).x, inside(s).x + n)))
         [] final = "L" /\ within -> insertRows(s, n)
         [] final = "M" /\ within -> deleteRows(s, n)
         [] final = "S" -> scrollUp(s, Least(n, s.rows))
         [] final = "T" /\ Len(ps) = 1 -> scrollDown(s, Least(n, s.rows))
         [] final = "r" -> scrollRegion(s, ps[1], p2)
         [] final = "s" /\ s.params = <<>> -> save(s)
         [] final = "u" /\ s.params = <<>> -> restore(s)
         [] final \in {"h", "l"} /\ 4 \in ToSet(ps) -> [s EXCEPT !.insert = (final = "h")]
         [] OTHER -> s

dispatch(s, final) ==
    LET private == s.params # <<>> /\ Head(s.params) \in Privates
        isMode  == Head(s.params) = "?" /\ final \in {"h", "l"}
    IN  IF s.inter # <<>> THEN IF s.inter = <<"!">> /\ final = "p" THEN softReset(s) ELSE s
        ELSE IF private THEN IF isMode THEN modes(s, numbers(Tail(s.params)), final = "h") ELSE s
        ELSE public(s, final, numbers(s.params))

\* OSC 3008: the shell says whose the terminal is.  `hears` is osc # null.
said(s) ==
    IF s.hears /\ s.osc # <<>> /\ Head(s.osc) = StartWord
    THEN [s EXCEPT !.context = IF ShellType \in ToSet(s.osc) THEN "shell" ELSE "command"]
    ELSE s

sequence(s) == [s EXCEPT !.state = "CSI", !.params = <<>>, !.inter = <<>>]
string(s)   == [s EXCEPT !.state = "OSC", !.osc = <<>>, !.hears = TRUE]
ignored(s)  == [s EXCEPT !.state = "STR", !.osc = <<>>, !.hears = FALSE]

escape(s, ch) ==
    LET g == [s EXCEPT !.state = "GROUND"]
    IN CASE ch = "["              -> sequence(s)
         [] ch = "]"              -> string(s)
         [] ch \in {"P", "X", "^", "_"} -> ignored(s)
         [] ch = "7"              -> save(g)
         [] ch = "8"              -> restore(g)
         [] ch = "D"              -> lineFeed(g)
         [] ch = "E"              -> lineFeed([g EXCEPT !.x = 0])
         [] ch = "M"              -> reverseIndex(g)
         [] ch = "c"              -> reset(g)
         [] ch \in Inters         -> [s EXCEPT !.state = "ESC_INTER"]
         [] OTHER                 -> g

\* A character inside an OSC, or inside a string that nobody reads (BEL does not end it).
inString(s, ch) ==
    IF ch = "ST" \/ (ch = "BEL" /\ s.state = "OSC") THEN said([s EXCEPT !.state = "GROUND"])
    ELSE IF ch = "ESC" THEN [s EXCEPT !.state = "STR_ESC"]
    ELSE IF ch \in C0 \/ ~s.hears THEN s
    ELSE [s EXCEPT !.osc = Append(@, ch)]

\* One that is no control character inside an escape or a control sequence.
inSequence(s, ch) ==
    CASE s.state \in {"ESC", "STR_ESC"} -> escape(s, ch)
      [] s.state = "ESC_INTER"          -> IF ch \in Inters THEN s ELSE [s EXCEPT !.state = "GROUND"]
      [] OTHER                          ->
            IF ch \in Params /\ s.inter = <<>> THEN [s EXCEPT !.params = Append(@, ch)]
            ELSE IF ch \in Inters THEN [s EXCEPT !.inter = Append(@, ch)]
            ELSE IF ch \in C1 THEN [s EXCEPT !.state = "GROUND"]
            ELSE dispatch([s EXCEPT !.state = "GROUND"], ch)

ground(s, ch) ==
    CASE ch \notin Controls -> print(s, ch)
      [] ch = "ESC"         -> [s EXCEPT !.state = "ESC"]
      [] ch = "CSI"         -> sequence(s)
      [] ch = "OSC"         -> string(s)
      [] ch = "DCS"         -> ignored(s)
      [] OTHER              -> control(s, ch)

\* One character of write().
feed(s, ch) ==
    IF s.state = "GROUND" THEN ground(s, ch)
    ELSE IF ch = "CAN" THEN [s EXCEPT !.state = "GROUND"]
    ELSE IF s.state \in {"OSC", "STR"} THEN inString(s, ch)
    ELSE IF s.state = "STR_ESC" /\ ch = "\\" THEN said([s EXCEPT !.state = "GROUND"])
    ELSE IF ch = "ESC" THEN [s EXCEPT !.state = "ESC"]
    ELSE IF ch \in C0 THEN control(IF s.state = "STR_ESC" THEN [s EXCEPT !.state = "ESC"] ELSE s, ch)
    ELSE inSequence(s, ch)

\* What was read of a sequence that is over is not looked at again.
forgotten(s) == IF s.state = "GROUND"
                THEN [s EXCEPT !.params = <<>>, !.inter = <<>>, !.osc = <<>>, !.hears = FALSE]
                ELSE s

\* A chunk.
write(s, g, chunk) ==
    LET f[k \in 0..Len(chunk)] == IF k = 0 THEN fit(s, g) ELSE feed(f[k - 1], chunk[k])
    IN  forgotten(f[Len(chunk)])
-----------------------------------------------------------------------------
(***************************************************************************)
(* Reading it.                                                             *)
(***************************************************************************)
\* The rows of the logical line the cursor is on, as indices into the buffer.
lineStart(s) ==
    LET L == buf(s).lines
    IN  Max({i \in 0..(buf(s).base + s.y) : i = 0 \/ ~L[i + 1].wrapped})
lineEnd(s) ==
    LET L == buf(s).lines
    IN  Min({i \in (buf(s).base + s.y)..(Len(L) - 1) : i = Len(L) - 1 \/ ~L[i + 2].wrapped})

\* Rows i .. j, as text.
joined(s, i, j) ==
    FlattenSeq([k \in 1..Most(0, j - i + 1) |-> whole(buf(s).lines[i + k].cells)])

cursorLine(s) ==
    LET at == buf(s).base + s.y
        st == lineStart(s)
        e  == lineEnd(s)
    IN  [before |-> joined(s, st, at - 1) \o text(cellsAt(s), 0, s.x),
         after  |-> text(cellsAt(s), s.x, Len(cellsAt(s))) \o joined(s, at + 1, e),
         below  |-> ~blank(joined(s, e + 1, buf(s).base + s.rows - 1)),
         sure   |-> onMain(s) /\ ~s.unsure /\ ~buf(s).lines[st + 1].wrapped]

\* Every logical line held, down to the cursor or the last row that is not blank.
lines(s) ==
    LET L    == buf(s).lines
        last == Max({buf(s).base + s.y} \cup {i \in 0..(Len(L) - 1) : ~blank(whole(L[i + 1].cells))})
        heads == {i \in 0..last : i = 0 \/ ~L[i + 1].wrapped}
        tail(i) == Min({last} \cup {j - 1 : j \in {h \in heads : h > i}})
    IN  {<<i, joined(s, i, tail(i))>> : i \in heads}

\* PROMPT: one word, or user@host:dir where only dir may hold spaces, then the only
\* $ or # of the line, then a space.
promptShaped(t) ==
    LET n == Len(t)
        Plain(i, j, out) == \A k \in i..j : t[k] \notin out
    IN  /\ n >= 2 /\ t[n] = " " /\ t[n - 1] \in {"$", "#"}
        /\ \/ Plain(1, n - 2, {" "})
           \/ \E a, c \in 2..(n - 2) :
                 /\ a + 1 < c /\ t[a] = "@" /\ t[c] = ":"
                 /\ Plain(1, a - 1, {" ", "@", "$", "#"})
                 /\ Plain(a + 1, c - 1, {" ", ":", "$", "#"})
                 /\ Plain(c + 1, n - 2, {"$", "#"})

atPrompt(s) ==
    LET c == cursorLine(s)
    IN  s.context # "command" /\ c.sure /\ promptShaped(c.before) /\ blank(c.after) /\ ~c.below
=============================================================================
