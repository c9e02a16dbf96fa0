------------------------------ MODULE Session ------------------------------
(***************************************************************************)
(* Saving and restoring a session inside the guest: bashtion-pack and      *)
(* bashtion-unpack (image/seed/usr/local/lib/bashtion/state.py), and the   *)
(* format-1 pair that older images still run                               *)
(* (image/test/fixtures/state-format1.py).                                 *)
(*                                                                         *)
(* A machine boots from one of several builds of the image, root edits its *)
(* file tree, an archive is packed (a walk, then tar, with background jobs *)
(* editing in between), and an archive is unpacked on any machine.  What   *)
(* tar does when members meet what is already on the disk is external and  *)
(* follows GNU tar as unpack calls it.                                     *)
(*                                                                         *)
(* A path is the sequence of its names: a root, an entry of the root, an   *)
(* entry of such a directory.  An entry keeps, besides its kind, ver: what *)
(* the stamp (size, mode, mtime) tells apart, with the build it was        *)
(* written on.  Owners and ACLs, which the stamp does not see, are left    *)
(* out.                                                                    *)
(***************************************************************************)
EXTENDS Naturals, SequencesExt

CONSTANTS
    Builds,      \* builds of the image
    OldBuilds,   \* the ones that still run the format-1 code
    NoBuild,     \* the build id None
    Names,       \* the names there are
    Order,       \* every path, in the order sorted() and walk() give them
    Roots,       \* the names of SYSTEM_ROOTS; the other top names are outside
    Skipped,     \* the paths skip() names
    Image,       \* Image[b][p]: the tree a build ships
    MaxEdits,    \* bound on edits
    MaxBoots,    \* bound on boots
    Racing       \* may background jobs edit while a pack runs?

Paths  == Range(Order)
Kinds  == {"none", "dir", "file", "link"}
Vers   == [by : Builds, n : Nat]
Nowhere == <<>>

Entries == [kind : Kinds, ver : Vers, to : Paths \cup {Nowhere}]
Trees   == [Paths -> Entries]

Present(t, p) == t[p].kind # "none"
Below(p)      == {q \in Paths : Len(q) > Len(p) /\ SubSeq(q, 1, Len(p)) = p}
Absent(b)     == [kind |-> "none", ver |-> [by |-> b, n |-> 0], to |-> Nowhere]
Same(x, y)    == x.kind = y.kind /\ (x.kind \in {"file", "link"} => x.ver = y.ver /\ x.to = y.to)

\* What is there has a directory above it, the tops are directories, and a link
\* leads somewhere below them.
TreeOK(t) ==
    /\ t \in Trees
    /\ \A p \in Paths : Present(t, p) => IF Len(p) > 1 THEN t[Front(p)].kind = "dir"
                                                     ELSE t[p].kind = "dir"
    /\ \A p \in Paths : t[p].kind = "link" => t[p].to # Nowhere

\* skip() names a directory with all that is in it (SKIP_PREFIX).
ASSUME SessionAssumption ==
    /\ OldBuilds \subseteq Builds /\ NoBuild \notin Builds
    /\ Order \in Seq(Seq(Names)) /\ \A p \in Skipped \cap Paths : Below(p) \subseteq Skipped
    /\ \A p \in Paths : Len(p) \in 1..3 /\ (Len(p) > 1 => Front(p) \in Paths)
    /\ \A i, j \in DOMAIN Order : Order[i] = Front(Order[j]) => i < j
    /\ MaxEdits \in Nat /\ MaxBoots \in Nat /\ Racing \in BOOLEAN
    /\ \A b \in Builds : TreeOK(Image[b])
    /\ \A b \in Builds, p \in Paths : Image[b][p].ver.by = b
    /\ \A b \in Builds, p \in Paths : Image[b][p].kind = "none" => Image[b][p] = Absent(b)

\* What a build ships has stamps no edit and no unpack gives, which tell it apart.
ASSUME StampAssumption ==
    \A b \in Builds, p \in Paths : Present(Image[b], p) =>
        /\ Image[b][p].ver.n \notin 1..(MaxEdits + 1)
        /\ \A q \in Paths : Present(Image[b], q) /\ Image[b][q].ver = Image[b][p].ver
                              => Same(Image[b][q], Image[b][p])

VARIABLES
    build,   \* the build this machine booted from
    tree,    \* its file tree, home apart
    home,    \* its home directory: 0 as shipped, else the edit that wrote it
    base,    \* the baseline file is there
    edits,   \* edits so far, on all machines
    boots,   \* boots so far
    pend,    \* the pack under way, after its walk
    arch,    \* the archive the page keeps
    report,  \* what the last unpack reported
    clean,   \* history: since boot, only unpacks of arch changed this machine
    still    \* history: nothing has changed since arch was packed here

vars == <<build, tree, home, base, edits, boots, pend, arch, report, clean, still>>

None    == [none |-> TRUE]
Reports == {"none", "refused", "failed", "homeonly", "restored"}

New(kind, n, to) == [kind |-> kind, ver |-> [by |-> build, n |-> n], to |-> to]

Init ==
    /\ build \in Builds /\ tree = Image[build] /\ home = 0 /\ base = TRUE
    /\ edits = 0 /\ boots = 0 /\ pend = None /\ arch = None
    /\ report = "none" /\ clean = TRUE /\ still = FALSE
-----------------------------------------------------------------------------
(***************************************************************************)
(* The file system.                                                        *)
(***************************************************************************)
Children(t, p) == {q \in Below(p) : Len(q) = Len(p) + 1 /\ Present(t, q)}
IsDir(t, p)    == IF p = Nowhere THEN TRUE ELSE t[p].kind = "dir"

\* The directory a directory name resolves to: a symlink is followed.
RealDir(t, d) == IF d # Nowhere /\ t[d].kind = "link" THEN t[d].to ELSE d

\* Where a path ends up once the links above it are followed.
RealPath(t, p) == Append(RealDir(t, Front(p)), Last(p))

\* A change in a directory gives the directory a new mtime.
Bumped(t, p, n) == IF Len(p) = 1 THEN t
                   ELSE [t EXCEPT ![Front(p)].ver = [by |-> build, n |-> n]]

Removed(t, p, n) ==
    Bumped([q \in Paths |-> IF q = p \/ q \in Below(p) THEN Absent(build) ELSE t[q]], p, n)
-----------------------------------------------------------------------------
(***************************************************************************)
(* pack.                                                                   *)
(***************************************************************************)
skip(p) == p \in Skipped

\* Mutant of walk: nothing is skipped.
walkAll(t) == {p \in Paths : p[1] \in Roots /\ Present(t, p)}

\* Every path under the system roots that is there and not skipped.
walk(t) == {p \in Paths : p[1] \in Roots /\ Present(t, p) /\ ~skip(p)}

\* The paths of the baseline, recorded by walking the image when it was built.
baseline == IF base THEN walk(Image[build]) ELSE {}

\* The paths whose stamp is not the baseline's, and the baseline's paths that
\* are gone.
changed_system_paths(t) ==
    [keep    |-> {p \in walk(t) : p \notin baseline \/ t[p].ver # Image[build][p].ver},
     deleted |-> baseline \ walk(t)]

\* The id at the head of the baseline: a digest of the whole tree it describes,
\* so one per build.  Format-1 images have none.
build_id == IF base /\ build \notin OldBuilds THEN build ELSE NoBuild

\* pack walks the roots and the home, and stages the metadata.
PackWalk ==
    /\ pend = None
    /\ LET c == changed_system_paths(tree)
       IN  pend' = [members |-> c.keep, deleted |-> c.deleted, then |-> tree, id |-> build_id]
    /\ report' = "none"
    /\ UNCHANGED <<build, tree, home, base, edits, boots, arch, clean, still>>

\* Mutant of PackTar: a member that is gone is listed all the same.
PackTarListsGone ==
    /\ pend # None
    /\ arch' = [files |-> [p \in pend.members |-> tree[p]], deleted |-> pend.deleted,
                home |-> home, id |-> pend.id,
                marked |-> (build \notin OldBuilds), session |-> "ok",
                then |-> pend.then, saved |-> tree, by |-> build]
    /\ pend' = None /\ report' = "none" /\ clean' = FALSE /\ still' = TRUE
    /\ UNCHANGED <<build, tree, home, base, edits, boots>>

\* tar reads the members as they are by then; one that is gone is left out.
\* Format 2 adds the marker.
PackTar ==
    /\ pend # None
    /\ LET there == {p \in pend.members : Present(tree, p)}
       IN  arch' = [files |-> [p \in there |-> tree[p]], deleted |-> pend.deleted,
                    home |-> home, id |-> pend.id,
                    marked |-> (build \notin OldBuilds), session |-> "ok",
                    then |-> pend.then, saved |-> tree, by |-> build]
    /\ pend' = None /\ report' = "none" /\ clean' = FALSE /\ still' = TRUE
    /\ UNCHANGED <<build, tree, home, base, edits, boots>>
-----------------------------------------------------------------------------
(***************************************************************************)
(* unpack: tar, then the deletions.                                        *)
(***************************************************************************)
Unpacked == MaxEdits + 1    \* the mtime of what unpack itself touches

\* tar puts one member in place: it makes missing directories, follows links
\* above the member, replaces what is there, and fails on a directory that is
\* not empty.
Extract1(s, p, e) ==
    LET up   == [q \in Paths |-> IF p \in Below(q) /\ ~Present(s.tree, q)
                                 THEN New("dir", Unpacked, Nowhere) ELSE s.tree[q]]
        dir  == RealDir(up, Front(p))
        q    == RealPath(up, p)
        fits == /\ IsDir(up, dir)
                /\ q \in Paths
                /\ up[q].kind = "dir" => e.kind = "dir" \/ Children(up, q) = {}
        put  == IF Present(up, q) THEN [up EXCEPT ![q] = e]
                                  ELSE Bumped([up EXCEPT ![q] = e], q, Unpacked)
    IN  IF fits THEN [s EXCEPT !.tree = put] ELSE [s EXCEPT !.ok = FALSE]

\* In archive order, the members among the first n paths.
Extract(t, files, n) ==
    LET f[k \in 0..n] == IF k = 0 THEN [tree |-> t, ok |-> TRUE]
                         ELSE IF Order[k] \in DOMAIN files
                         THEN Extract1(f[k - 1], Order[k], files[Order[k]])
                         ELSE f[k - 1]
    IN  f[n]

\* Mutant of contained: the prefix test alone.
containedByName(t, p) == p[1] \in Roots

\* Both the path and what its parent resolves to are inside a system root.
contained(t, p) ==
    /\ p[1] \in Roots
    /\ LET parent == RealDir(t, Front(p)) IN parent # Nowhere /\ parent[1] \in Roots

Delete1(t, p) ==
    LET q == RealPath(t, p)
    IN  IF /\ ~skip(p) /\ contained(t, p)
           /\ q \in Paths /\ Present(t, q)
           /\ t[q].kind = "dir" => Children(t, q) = {}
        THEN Removed(t, q, Unpacked) ELSE t

\* Mutant of Delete: in the order of the list.
DeleteInOrder(t, deleted) ==
    LET f[k \in 0..Len(Order)] == IF k = 0 THEN t
                                  ELSE IF Order[k] \in deleted THEN Delete1(f[k - 1], Order[k])
                                  ELSE f[k - 1]
    IN  f[Len(Order)]

\* Deepest first.
Delete(t, deleted) ==
    LET f[k \in 0..Len(Order)] ==
            IF k = 0 THEN t
            ELSE LET p == Order[Len(Order) + 1 - k]
                 IN  IF p \in deleted THEN Delete1(f[k - 1], p) ELSE f[k - 1]
    IN  f[Len(Order)]

\* The checks made before anything is written.  The format-1 code knows one: no
\* member outside the trees it may write, and the marker is one.
Refuses(a) ==
    IF build \in OldBuilds THEN a.marked
    ELSE \/ a.marked /\ a.session = "none"
         \/ a.session \in {"unreadable", "newer"}

\* Mutant of Full: the archive has a build, and that is enough.
FullAnyBuild(a) == build \in OldBuilds \/ (a.session = "ok" /\ a.id # NoBuild)

\* The system half applies: both sides name the same build.  The format-1 code
\* always applies it.
Full(a) == build \in OldBuilds \/ (a.session = "ok" /\ a.id # NoBuild /\ a.id = build_id)

\* The format-1 code applies whatever list it can read, format or no format.
Deletions(a) == IF a.session \in {"ok", "newer"} THEN a.deleted ELSE {}

UnpackRefused ==
    /\ pend = None /\ arch # None /\ Refuses(arch)
    /\ report' = "refused"
    /\ UNCHANGED <<build, tree, home, base, edits, boots, pend, arch, clean, still>>

UnpackHome ==
    /\ pend = None /\ arch # None /\ ~Refuses(arch) /\ ~Full(arch)
    /\ home' = arch.home
    /\ report' = "homeonly"
    /\ still' = (still /\ home = arch.home)
    /\ UNCHANGED <<build, tree, base, edits, boots, pend, arch, clean>>

UnpackFull ==
    /\ pend = None /\ arch # None /\ ~Refuses(arch) /\ Full(arch)
    /\ home' = arch.home
    /\ LET s == Extract(tree, arch.files, Len(Order))
       IN  IF s.ok THEN tree' = Delete(s.tree, Deletions(arch)) /\ report' = "restored"
                   ELSE tree' = s.tree /\ report' = "failed"
    /\ UNCHANGED <<build, base, edits, boots, pend, arch, clean, still>>

\* tar stops before a member: the disk is full.
UnpackDies ==
    /\ pend = None /\ arch # None /\ ~Refuses(arch)
    /\ IF Full(arch)
       THEN \E n \in DOMAIN Order :
              /\ Order[n] \in DOMAIN arch.files
              /\ tree' = Extract(tree, arch.files, n - 1).tree
       ELSE UNCHANGED tree
    /\ home' \in {home, arch.home}
    /\ report' = "failed" /\ still' = FALSE
    /\ UNCHANGED <<build, base, edits, boots, pend, arch, clean>>

Unpack == UnpackRefused \/ UnpackHome \/ UnpackFull \/ UnpackDies
-----------------------------------------------------------------------------
(***************************************************************************)
(* Around them: root's edits, boots, and what becomes of an archive.       *)
(***************************************************************************)
Edit(t) ==
    /\ edits < MaxEdits
    /\ edits' = edits + 1
    /\ tree' = t
    /\ report' = "none" /\ clean' = FALSE /\ still' = FALSE
    /\ UNCHANGED <<build, home, base, boots, pend, arch>>

\* A background job keeps to files while a pack runs.
MayEdit(p) == pend = None \/ (Racing /\ tree[p].kind = "file")

\* A file written, or written anew.
Write(p) ==
    /\ Len(p) > 1 /\ MayEdit(p) /\ IsDir(tree, Front(p))
    /\ tree[p].kind \in {"none", "file"}
    /\ LET t == [tree EXCEPT ![p] = New("file", edits + 1, Nowhere)]
       IN  Edit(IF Present(tree, p) THEN t ELSE Bumped(t, p, edits + 1))

Mkdir(p) ==
    /\ Len(p) < 3 /\ pend = None /\ IsDir(tree, Front(p)) /\ ~Present(tree, p)
    /\ Edit(Bumped([tree EXCEPT ![p] = New("dir", edits + 1, Nowhere)], p, edits + 1))

\* rm -r.
RemoveAll(p) ==
    /\ Present(tree, p) /\ MayEdit(p)
    /\ Edit(Removed(tree, p, edits + 1))

\* mv d e; ln -s e d.
MoveAndLink(d, e) ==
    /\ Len(d) = 2 /\ Len(e) = 2 /\ pend = None
    /\ tree[d].kind = "dir" /\ ~Present(tree, e) /\ IsDir(tree, Front(e))
    /\ LET moved == [p \in Paths |->
                       IF p = d THEN New("link", edits + 1, e)
                       ELSE IF p = e THEN tree[d]
                       ELSE IF p \in Below(d) THEN Absent(build)
                       ELSE IF p \in Below(e) /\ Append(d, Last(p)) \in Paths
                            THEN tree[Append(d, Last(p))]
                       ELSE tree[p]]
       IN  Edit(Bumped(Bumped(moved, d, edits + 1), e, edits + 1))

EditHome ==
    /\ edits < MaxEdits /\ pend = None
    /\ edits' = edits + 1 /\ home' = edits + 1
    /\ report' = "none" /\ clean' = FALSE /\ still' = FALSE
    /\ UNCHANGED <<build, tree, base, boots, pend, arch>>

\* The baseline is lost with the helpers' directory.
LoseBaseline ==
    /\ base /\ pend = None
    /\ base' = FALSE /\ report' = "none" /\ still' = FALSE
    /\ UNCHANGED <<build, tree, home, edits, boots, pend, arch, clean>>

\* The tab is closed at any moment, and another opened on some build.
Boot ==
    /\ boots < MaxBoots
    /\ boots' = boots + 1
    /\ build' \in Builds /\ tree' = Image[build'] /\ home' = 0 /\ base' = TRUE
    /\ pend' = None /\ report' = "none" /\ clean' = TRUE /\ still' = FALSE
    /\ UNCHANGED <<edits, arch>>

\* The archive loses its metadata, or a newer bashtion wrote it.
SpoilArchive ==
    /\ arch # None /\ pend = None /\ arch.session = "ok"
    /\ \E s \in {"none", "unreadable", "newer"} : arch' = [arch EXCEPT !.session = s]
    /\ report' = "none"
    /\ UNCHANGED <<build, tree, home, base, edits, boots, pend, clean, still>>

Next ==
    \/ PackWalk \/ PackTar
    \/ UnpackRefused \/ UnpackHome \/ UnpackFull \/ UnpackDies
    \/ \E p \in Paths : Write(p) \/ Mkdir(p) \/ RemoveAll(p)
    \/ \E d, e \in Paths : MoveAndLink(d, e)
    \/ EditHome \/ LoseBaseline \/ Boot \/ SpoilArchive

Spec == Init /\ [][Next]_vars
-----------------------------------------------------------------------------
\* Every tree is one a file system can hold: what is there has a directory above
\* it, whatever an unpack put into it or took out of it; and every member of an
\* archive was there when tar read it (cmd_pack, cmd_unpack).
TypeOK ==
    /\ build \in Builds /\ base \in BOOLEAN /\ clean \in BOOLEAN /\ still \in BOOLEAN
    /\ home \in 0..MaxEdits /\ edits \in 0..MaxEdits /\ boots \in 0..MaxBoots
    /\ report \in Reports
    /\ TreeOK(tree)
    /\ arch # None => /\ DOMAIN arch.files \subseteq Paths
                      /\ \A p \in DOMAIN arch.files : arch.files[p].kind # "none"
                      /\ arch.deleted \subseteq Paths
                      /\ arch.session \in {"ok", "none", "unreadable", "newer"}
    /\ pend # None => pend.members \subseteq Paths

\* No file of another build ever lands in the system roots: neither the new
\* unpack nor a format-1 one lets it, through any chain of saves, updates,
\* rollbacks of the deployed build and restores (cmd_unpack's build check, and
\* the marker a format-1 unpack trips over).  Only among themselves the format-1
\* builds, which have no names, do not tell.
NoForeignFiles ==
    \A p \in Paths : Present(tree, p) =>
        tree[p].ver.by = build \/ {tree[p].ver.by, build} \subseteq OldBuilds

\* On a machine as its build ships it, a restore that reports success brings back
\* every file, link and removal that the stamps can see, as the walk or tar saw
\* it; also when earlier restores of the archive failed part way.  A removed root
\* stays, as contained() refuses it; a removed directory stays where the build ships
\* something skip() names in it, as rmdir refuses that; and a file that goes away
\* between the two passes of pack comes back as shipped (cmd_pack, cmd_unpack).
RoundTrip ==
    report = "restored" /\ clean /\ build \notin OldBuilds =>
        /\ home = arch.home
        /\ \A p \in Paths : Len(p) > 1 /\ p[1] \in Roots /\ ~skip(p) =>
              \/ Same(tree[p], arch.saved[p])
              \/ Same(tree[p], arch.then[p])
              \/ /\ ~Present(arch.saved, p) /\ Same(tree[p], Image[build][p])
                 /\ \/ Present(arch.then, p)
                    \/ \E q \in Below(p) \cap Skipped : Present(Image[build], q)

\* A restore never takes away a file outside the system roots, whatever links
\* stand where its deletion list points (contained() resolves the parent).
KeepsOutside ==
    [][Unpack => \A p \in Paths : p[1] \notin Roots /\ Present(tree, p)
                                      => Present(tree', p)]_vars

\* A link of the tree or of the archive leads to the directory of the path, or
\* into the path.
Linked(p) ==
    \E q \in {p} \cup Below(p) :
        \/ \E l \in Paths : tree[l].kind = "link" /\ tree[l].to = Front(q)
        \/ \E l \in DOMAIN arch.files : arch.files[l].kind = "link" /\ arch.files[l].to = Front(q)

\* Machine identity never travels: a restore leaves the skipped paths alone
\* (skip() in walk(), and in the deletions), where no link gives them a second
\* name that skip() does not know.
KeepsIdentity ==
    [][Unpack => \A p \in Skipped \cap Paths : ~Linked(p) => tree'[p] = tree[p]]_vars

\* "Applied to the same build it restores the session exactly" (cmd_unpack): a
\* restore into the very machine that made the save, unchanged since, changes
\* nothing.
InPlaceKeeps ==
    report = "restored" /\ still =>
        \A p \in Paths : Same(tree[p], arch.saved[p])
=============================================================================
