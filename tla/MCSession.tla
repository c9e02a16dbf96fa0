----------------------------- MODULE MCSession -----------------------------
(***************************************************************************)
(* Instances of Session: two system roots, one of them with a package      *)
(* directory that holds a file and a skipped file, as /etc/ssh does, and   *)
(* one tree outside them; the same with a directory in the other root that *)
(* holds nothing skip() names; and one root alone where several builds are *)
(* involved.                                                               *)
(***************************************************************************)
EXTENDS Session

CONSTANTS old, new1, new2, noBuild

MCOrder == << <<"opt">>, <<"opt", "pkg">>, <<"opt", "pkg", "a">>, <<"opt", "pkg", "id">>,
              <<"srv">>, <<"srv", "pkg">>, <<"srv", "pkg", "a">>, <<"srv", "pkg", "id">>,
              <<"usr">>, <<"usr", "pkg">>, <<"usr", "pkg", "a">>, <<"usr", "pkg", "id">> >>

\* The other root ships a directory too.
TwoDirs == << <<"opt">>, <<"opt", "pkg">>, <<"opt", "pkg", "a">>, <<"opt", "pkg", "id">>,
              <<"srv">>, <<"srv", "lib">>, <<"srv", "lib", "a">>, <<"srv", "lib", "id">>,
              <<"usr">>, <<"usr", "pkg">>, <<"usr", "pkg", "a">>, <<"usr", "pkg", "id">> >>

\* Without the places a directory can move to.
FewPaths == << <<"opt">>, <<"opt", "pkg">>, <<"opt", "pkg", "a">>, <<"opt", "pkg", "id">> >>

MCNames == {"opt", "srv", "usr", "id", "lib", "pkg", "a"}

MCSkipped == { <<"opt", "pkg", "id">> }

\* Directories and files have stamps of their own.
Shipped(b, kind) == [kind |-> kind, to |-> <<>>,
                     ver |-> [by |-> b, n |-> IF kind = "file" THEN MaxEdits + 2 ELSE 0]]

MCImage ==
    [b \in Builds |-> [p \in Range(Order) |->
        CASE p \in {<<"opt">>, <<"opt", "pkg">>, <<"srv">>, <<"srv", "lib">>, <<"usr">>}
                   -> Shipped(b, "dir")
          [] p \in {<<"opt", "pkg", "a">>, <<"opt", "pkg", "id">>, <<"srv", "lib", "a">>}
                   -> Shipped(b, "file")
          [] OTHER -> Shipped(b, "none")]]
=============================================================================
