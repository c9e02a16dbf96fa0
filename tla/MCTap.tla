------------------------------- MODULE MCTap -------------------------------
(***************************************************************************)
(* A prompt that fills almost two rows of four columns, a window that may  *)
(* grow by a row or become one row of five; and chunks of output that      *)
(* leave something behind: text, a wrapped row, half a wide character, a   *)
(* row pushed away, a cursor saved, a mode, a scroll region, a string that *)
(* is not over.                                                            *)
(***************************************************************************)
EXTENDS Tap
MCPS1 == <<"u", "@", "h", ":", "~", "$", " ">>
Shape(c, r) == [cols |-> c, rows |-> r]
MCFirst == Shape(4, 3)
MCGeometries == {Shape(4, 3), Shape(4, 4), Shape(5, 1)}
C(f) == <<"ESC", "[">> \o f
MCOutputs == {NewLine, <<"$", " ">>,
              <<"a", "a", "a", "W", "M", "HT">> \o C(<<"D">>) \o C(<<"@">>) \o C(<<"2", "G">>)
                 \o C(<<"P">>),
              C(<<"A">>) \o C(<<"L">>) \o <<"ESC", "M">> \o C(<<"S">>) \o C(<<"E">>),
              C(<<"!", "p">>) \o <<"ESC", "8">> \o C(<<"J">>), C(<<"3", "J">>),
              <<"ESC", "7">>, C(<<"?", "1", "0", "4", "9", "l">>),
              C(<<"?", "1", "0", "4", "9", "h">>) \o C(<<"?", "7", "l">>),
              C(<<"2", "r">>) \o C(<<"?", "6", "h">>) \o C(<<"4", "h">>) \o C(<<"2", "d">>)
                 \o C(<<"X">>) \o C(<<"T">>),
              <<"ESC", "]", StartWord, ShellType, "CAN", "DCS", StartWord, ShellType, "BEL">>}
MCChars == Keys \cup UNION {ToSet(o) : o \in {MCPS1} \cup MCOutputs}
             \cup Controls \cup {"[", "]", "\\", "A", "C", "H", "J", "K", StartWord, "type=command"}
=============================================================================
