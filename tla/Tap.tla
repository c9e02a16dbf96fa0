-------------------------------- MODULE Tap --------------------------------
(***************************************************************************)
(* The tap on the console (web/serialtap.js) beside what writes to it: the *)
(* login shell with systemd's shell integration, GNU readline editing a    *)
(* line, and the commands that the shell hands the terminal to.  Every     *)
(* chunk is written to the model of the screen at the geometry xterm has   *)
(* at that moment; the guest's tty keeps the width it was told.            *)
(*                                                                         *)
(* Readline is modelled from what web/test/console-captures.mjs records of *)
(* it.  The tap knows none of the shell's state: the properties compare    *)
(* what it reads off the screen with what is really so.                    *)
(***************************************************************************)
EXTENDS Screen

CONSTANTS
    PS1,          \* the prompt
    Keys,         \* characters the user types
    Outputs,      \* chunks a command writes
    Geometries,   \* shapes of the terminal
    First,        \* the one it has at first, and whose width the tty keeps
    MaxKeys,      \* bound on the keys that add to a line or end it
    MaxEvents     \* bound on chunks of output and resizes

\* Characters that are one column wide.
Plain == Chars \ (Controls \cup {WideChar, Mark})

ASSUME TapAssumption ==
    /\ First \in Geometries
    /\ Geometries \subseteq [cols : Nat \ {0, 1}, rows : Nat \ {0}]
    /\ PS1 \in Seq(Plain) /\ promptShaped(PS1)
    /\ Keys \subseteq Plain /\ Outputs \subseteq Seq(Chars)
    /\ {"ESC", "CR", "LF", "[", "]", "\\", " ", "A", "C", "H", "J", "K",
        StartWord, ShellType, "type=command"} \subseteq Chars
    /\ {MaxKeys, MaxEvents} \subseteq Nat

VARIABLES
    scr,            \* the model of the screen
    term,           \* xterm's geometry
    owner,          \* whose the terminal is: the boot's, a command's, or the shell's, at its prompt
    typed, point,   \* readline's line, and the cursor in it
    fresh,          \* the command has just ended a line, as the terminal sees it
    clean,          \* history: the prompt began on a tidy screen, not resized since,
                    \* and it never had more rows than the window
    fair,           \* history: readline's line is on the terminal it takes it for, and whole
    keys, events

vars == <<scr, term, owner, typed, point, fresh, clean, fair, keys, events>>

Says(chunk) == scr' = write(scr, term, chunk)

\* What readline takes the terminal for: as wide as the tty, wrapping, and scrolling
\* into its scrollback.
AsTold(s) == s.cols = First.cols /\ s.wrap /\ s.top = 0

\* A terminal made lower drops the rows below the cursor.
Cut == term.rows < scr.rows /\ point < Len(typed)

Draws(chunk) == Says(chunk) /\ fair' = (fair /\ AsTold(fit(scr, term)) /\ ~Cut)
-----------------------------------------------------------------------------
(***************************************************************************)
(* What the guest sends.                                                   *)
(***************************************************************************)
NewLine    == <<"CR", "LF">>
Esc(f)     == <<"ESC", "[", f>>
Word(type) == <<"ESC", "]", StartWord, type, "ESC", "\\">>
Times(c, n) == FlattenSeq([k \in 1..n |-> c])

\* Readline prints t from offset p of its line; where that fills the tty's row it goes
\* to the next one at once, with a space and a CR.
Printed(t, p) ==
    FlattenSeq([k \in 1..Len(t) |->
                  IF (p + k) % First.cols = 0 THEN <<t[k], " ", "CR">> ELSE <<t[k]>>])

\* It moves from offset p to offset q.
Moved(p, q) ==
    LET down == q \div First.cols - p \div First.cols
    IN  (IF down < 0 THEN Times(Esc("A"), -down) ELSE Times(NewLine, down))
          \o <<"CR">> \o Times(Esc("C"), q % First.cols)

End(t)     == Len(PS1) + Len(t)
At(n)      == Len(PS1) + n
Shown(t)   == End(t) \div First.cols < term.rows
Prompted   == Word(ShellType) \o Printed(PS1, 0)
Rest(t, n) == SubSeq(t, n + 1, Len(t))

\* The cursor at the start of a row of its own, and nothing from there on, nor past
\* the margin, where a wider window may have left spaces.
Tidy(s) ==
    /\ onMain(s) /\ s.wrap /\ ~s.insert /\ ~s.origin /\ s.top = 0 /\ s.bottom = s.rows - 1
    /\ s.x = 0 /\ ~line(s, s.y).wrapped /\ s.cols = First.cols
    /\ \A i \in s.y..(s.rows - 1) : LET c == line(s, i).cells
                                   IN  blank(whole(c)) /\ Len(c) <= s.cols

Init ==
    /\ term = First /\ scr = makeScreen(First)
    /\ owner = "boot" /\ typed = <<>> /\ point = 0
    /\ fresh = TRUE /\ clean = FALSE /\ fair = FALSE
    /\ keys = 0 /\ events = 0
-----------------------------------------------------------------------------
(***************************************************************************)
(* The user at the prompt.                                                 *)
(***************************************************************************)
Types(c) ==
    /\ owner = "shell" /\ keys < MaxKeys /\ keys' = keys + 1
    /\ typed' = InsertAt(typed, point + 1, c) /\ point' = point + 1
    /\ Draws(Printed(<<c>> \o Rest(typed, point), At(point))
              \o (IF point = Len(typed) THEN <<>> ELSE Moved(End(typed'), At(point'))))
    /\ clean' = (clean /\ Shown(typed'))
    /\ UNCHANGED <<term, owner, fresh, events>>

Erases ==
    /\ owner = "shell" /\ point > 0
    /\ typed' = RemoveAt(typed, point) /\ point' = point - 1
    /\ Draws(Moved(At(point), At(point')) \o Printed(Rest(typed, point), At(point'))
              \o Esc("K") \o (IF point = Len(typed) THEN <<>> ELSE Moved(End(typed'), At(point'))))
    /\ UNCHANGED <<term, owner, fresh, clean, keys, events>>

Goes(n) ==
    /\ owner = "shell" /\ point # n
    /\ point' = n
    /\ Draws(Moved(At(point), At(n)))
    /\ UNCHANGED <<term, owner, typed, fresh, clean, keys, events>>

\* Ctrl-U at the end of the line.
Kills ==
    /\ owner = "shell" /\ typed # <<>> /\ point = Len(typed)
    /\ typed' = <<>> /\ point' = 0
    /\ LET down == End(typed) \div First.cols - At(0) \div First.cols
       IN  Draws(Moved(End(typed), At(0)) \o Esc("K")
                  \o Times(NewLine \o <<"CR">> \o Esc("K"), down)
                  \o Moved(At(0) + down * First.cols, At(0)))
    /\ UNCHANGED <<term, owner, fresh, clean, keys, events>>

\* Ctrl-L.
Clears ==
    /\ owner = "shell"
    /\ Draws(Esc("H") \o Esc("J") \o Printed(PS1 \o typed, 0) \o Moved(End(typed), At(point)))
    /\ UNCHANGED <<term, owner, typed, point, fresh, clean, keys, events>>

\* Enter: the terminal is the command's.
Enters ==
    /\ owner = "shell" /\ keys < MaxKeys /\ keys' = keys + 1
    /\ owner' = "command" /\ fresh' = TRUE
    /\ Draws(Moved(At(point), End(typed)) \o NewLine \o Word("type=command"))
    /\ typed' = <<>> /\ point' = 0
    /\ UNCHANGED <<term, clean, events>>
-----------------------------------------------------------------------------
(***************************************************************************)
(* Commands, and the window.                                               *)
(***************************************************************************)
Writes(o) ==
    /\ owner # "shell" /\ events < MaxEvents /\ events' = events + 1
    /\ Says(o)
    /\ fresh' = (o = NewLine /\ scr.state = "GROUND")
    /\ UNCHANGED <<term, owner, typed, point, clean, fair, keys>>

Ends ==
    /\ owner # "shell"
    /\ owner' = "shell"
    /\ clean' = (fresh /\ Tidy(fit(scr, term)) /\ Shown(<<>>)) /\ fair' = AsTold(fit(scr, term))
    /\ Says(Prompted)
    /\ UNCHANGED <<term, typed, point, fresh, keys, events>>

Resizes(g) ==
    /\ events < MaxEvents /\ events' = events + 1
    /\ g # term
    /\ term' = g /\ clean' = FALSE
    /\ UNCHANGED <<scr, owner, typed, point, fresh, fair, keys>>

\* A chunk that is the first half of a character: the decoder keeps it, the screen fits.
Fits ==
    /\ term # [cols |-> scr.cols, rows |-> scr.rows]
    /\ Draws(<<>>)
    /\ UNCHANGED <<term, owner, typed, point, fresh, clean, keys, events>>

Next ==
    \/ \E c \in Keys : Types(c)
    \/ Erases \/ Kills \/ Clears \/ Enters
    \/ \E n \in {0, Len(typed)} : Goes(n)
    \/ \E o \in Outputs : Writes(o)
    \/ Ends \/ Fits
    \/ \E g \in Geometries : Resizes(g)

Spec == Init /\ [][Next]_vars
-----------------------------------------------------------------------------
\* Types; "a buffer always holds exactly `rows` screen lines from `base` on", the
\* cursor is on one of them, and the scroll region within them.
BufferOK(b) ==
    /\ Len(b.lines) - b.base = scr.rows
    /\ b.base \in Nat
    /\ \A k \in 1..Len(b.lines) : b.lines[k].wrapped \in BOOLEAN
TypeOK ==
    /\ term \in Geometries /\ owner \in {"boot", "shell", "command"} /\ point \in 0..Len(typed)
    /\ BufferOK(scr.main) /\ (onMain(scr) \/ BufferOK(scr.alt))
    /\ scr.x \in 0..scr.cols /\ scr.y \in 0..(scr.rows - 1)
    /\ 0 <= scr.top /\ scr.top <= scr.bottom /\ scr.bottom < scr.rows
    /\ scr.state \in {"GROUND", "ESC", "ESC_INTER", "CSI", "OSC", "STR", "STR_ESC"}
    /\ scr.context \in {"null", "shell", "command"}

\* A wrong "idle" types into whatever owns the keyboard: the tap calls the console an
\* idle prompt only if the shell has it and nothing but spaces is on its line.
NeverFalseIdle ==
    owner # "boot" /\ fair /\ atPrompt(scr) => owner = "shell" /\ blank(typed)

\* "At a prompt, the prompt and what is typed" (lastLine): the tap vouches for the
\* logical line at the cursor, and it is readline's, split where readline has its
\* cursor, however it was wrapped, edited and scrolled.
Trimmed(t) == SubSeq(t, 1, Max({0} \cup {k \in 1..Len(t) : t[k] # " "}))
LineIsTyped ==
    LET c == cursorLine(scr)
    IN  owner = "shell" /\ clean =>
            /\ c.sure
            /\ c.before = PS1 \o SubSeq(typed, 1, point)
            /\ Trimmed(c.after) = Trimmed(Rest(typed, point))

\* A prompt that begins on a tidy screen is seen, whatever the commands before it did.
PromptSeen ==
    owner = "shell" /\ clean /\ typed = <<>> => atPrompt(scr)

\* A saved cursor that is not marked as moved still names the row it was saved on,
\* counted from the top of the buffer as xterm.js counts.
SavedRowHolds ==
    LET v == scr.main.saved
    IN  v.set /\ ~v.moved => v.row = scr.main.base + v.y

\* No half of a wide character without the other, but where an insertion pushed the
\* right one over the margin.
WholeWide ==
    \A b \in {scr.main, scr.alt} : \A k \in 1..Len(b.lines) :
        LET c == b.lines[k].cells IN
        \A i \in 1..Len(c) : c[i] = Half => i > 1 /\ c[i - 1] = WideChar

\* "Rows keep what they hold": following the window leaves the cursor on its row, and
\* every line held as it was, but that a lower one drops the rows below the cursor.
Held(s) == joined(s, lineStart(s), lineEnd(s))
FitKeepsLine ==
    [][Fits =>
         /\ buf(scr').base + scr'.y = buf(scr).base + scr.y
         /\ scr'.rows >= scr.rows => lines(scr') = lines(scr)
         /\ IsPrefix(Held(scr'), Held(scr))
         /\ scr.x <= term.cols => cursorLine(scr').before = cursorLine(scr).before
      ]_vars
=============================================================================
