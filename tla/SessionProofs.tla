--------------------------- MODULE SessionProofs ---------------------------
(***************************************************************************)
(* Proofs about saving and restoring a session: what a chain of edits,     *)
(* saves, boots of any builds and restores, whole or cut short, leaves in  *)
(* the file tree, for every tree a build may ship.                         *)
(***************************************************************************)
EXTENDS Session, SequenceTheorems, NaturalsInduction, WellFoundedInduction, TLAPS

(***************************************************************************)
(* Induction over the natural numbers, and what is defined step by step    *)
(* along a sequence.                                                       *)
(***************************************************************************)
\* A set with 0 in it, and with every number the next, has them all.
LEMMA AllNumbers ==
    ASSUME NEW S, 0 \in S, \A n \in Nat : n \in S => n + 1 \in S
    PROVE  Nat \subseteq S
<1> DEFINE R == OpToRel(<, Nat)
           T == Nat \ S
<1> SUFFICES ASSUME T # {} PROVE FALSE
  OBVIOUS
<1>1. PICK x \in T : \A y \in T : ~(<<y, x>> \in R)
  BY WFMin, NatLessThanWellFounded
<1>2. x \in Nat /\ x # 0
  OBVIOUS
<1>3. x - 1 \in Nat /\ <<x - 1, x>> \in R
  BY <1>2 DEF OpToRel
<1>4. x - 1 \in S /\ (x - 1) + 1 = x
  <2>1. x - 1 \notin T
    BY <1>1, <1>3
  <2>2. x - 1 \in Nat /\ (x - 1) + 1 = x
    BY <1>2
  <2> QED BY <2>1, <2>2
<1>5. x \in S
  BY <1>3, <1>4
<1> QED BY <1>5

\* What every step keeps holds to the end.
LEMMA StepsStay ==
    ASSUME NEW S, NEW n \in Nat, NEW h, h[0] \in S,
           \A k \in 1..n : h[k - 1] \in S => h[k] \in S
    PROVE  \A k \in 0..n : h[k] \in S
<1> DEFINE T == {m \in Nat : m <= n => h[m] \in S}
<1>1. 0 \in T
  OBVIOUS
<1>2. ASSUME NEW m \in Nat, m \in T PROVE m + 1 \in T
  <2>1. CASE m + 1 <= n
    <3>1. m + 1 \in 1..n /\ (m + 1) - 1 = m /\ h[m] \in S
      BY <1>2, <2>1
    <3>2. h[m + 1] \in S
      BY <3>1
    <3> QED BY <3>2
  <2>2. CASE ~(m + 1 <= n)
    BY <2>2
  <2> QED BY <2>1, <2>2
<1> HIDE DEF T
<1>3. Nat \subseteq T
  BY <1>1, <1>2, AllNumbers
<1> QED BY <1>3 DEF T

\* A function that is defined step by step exists.
LEMMA StepsExist ==
    ASSUME NEW S, NEW a \in S, NEW n \in Nat, NEW F \in [1..n -> [S -> S]]
    PROVE  \E f \in [0..n -> S] : f[0] = a /\ \A k \in 1..n : f[k] = F[k][f[k - 1]]
<1> DEFINE G(m) == \E f \in [0..m -> S] : f[0] = a /\ \A k \in 1..m : f[k] = F[k][f[k - 1]]
           T == {m \in Nat : m <= n => G(m)}
<1>1. G(0)
  <2> DEFINE f == [k \in 0..0 |-> a]
  <2>1. f \in [0..0 -> S] /\ f[0] = a
    OBVIOUS
  <2>2. \A k \in 1..0 : f[k] = F[k][f[k - 1]]
    OBVIOUS
  <2> QED BY <2>1, <2>2
<1>2. ASSUME NEW m \in Nat, m < n, G(m) PROVE G(m + 1)
  <2>1. PICK f \in [0..m -> S] : f[0] = a /\ \A k \in 1..m : f[k] = F[k][f[k - 1]]
    BY <1>2
  <2> DEFINE g == [k \in 0..(m + 1) |-> IF k = m + 1 THEN F[m + 1][f[m]] ELSE f[k]]
  <2>2. F[m + 1][f[m]] \in S
    BY <1>2
  <2>3. g \in [0..(m + 1) -> S] /\ g[0] = a
    BY <2>1, <2>2
  <2>4. ASSUME NEW k \in 1..(m + 1) PROVE g[k] = F[k][g[k - 1]]
    <3>1. g[k - 1] = f[k - 1]
      OBVIOUS
    <3>2. CASE k = m + 1
      BY <3>1, <3>2
    <3>3. CASE k # m + 1
      BY <2>1, <3>1, <3>3
    <3> QED BY <3>2, <3>3
  <2> QED BY <2>3, <2>4
<1> HIDE DEF G
<1>3. Nat \subseteq T
  <2>1. 0 \in T
    BY <1>1
  <2>2. \A m \in Nat : m \in T => m + 1 \in T
    BY <1>2
  <2> HIDE DEF T
  <2> QED BY <2>1, <2>2, AllNumbers
<1>4. G(n)
  BY <1>3
<1> QED BY <1>4 DEF G

-----------------------------------------------------------------------------
(***************************************************************************)
(* Paths.                                                                  *)
(***************************************************************************)
LEMMA PathIs ==
    ASSUME NEW p \in Paths
    PROVE  p \in Seq(Names) /\ Len(p) \in 1..3 /\ (Len(p) > 1 => Front(p) \in Paths)
<1>1. PICK i \in DOMAIN Order : p = Order[i]
  BY DEF Paths, Range
<1>2. i \in 1..Len(Order) /\ p \in Seq(Names)
  BY <1>1, SessionAssumption
<1> QED BY <1>2, SessionAssumption

\* A top, an entry of it, or an entry of that.
LEMMA Depths == \A p \in Paths : Len(p) = 1 \/ Len(p) = 2 \/ Len(p) = 3
<1>1. \A k \in 1..3 : k = 1 \/ k = 2 \/ k = 3
  OBVIOUS
<1> QED BY <1>1, PathIs

\* A name is its front with its last part after it.
LEMMA FrontLast ==
    ASSUME NEW p \in Seq(Names), Len(p) >= 1
    PROVE  /\ Front(p) \in Seq(Names) /\ Len(Front(p)) = Len(p) - 1
           /\ \A i \in 1..(Len(p) - 1) : Front(p)[i] = p[i]
           /\ Last(p) \in Names /\ Last(p) = p[Len(p)]
           /\ Len(p) = 1 <=> Front(p) = <<>>
<1>1. Len(p) \in Nat /\ p[Len(p)] \in Names
  OBVIOUS
<1> DEFINE n == Len(p) - 1
<1>2. /\ Front(p) \in Seq(Names) /\ Len(Front(p)) = n
      /\ \A i \in 1..n : Front(p)[i] = p[i]
  <2>1. n \in Nat /\ \A i \in 1..n : p[i] \in Names
    OBVIOUS
  <2>2. Front(p) = SubSeq(p, 1, n)
    BY DEF Front
  <2> HIDE DEF n
  <2>3. /\ SubSeq(p, 1, n) \in Seq(Names)
        /\ Len(SubSeq(p, 1, n)) = IF 1 <= n THEN n - 1 + 1 ELSE 0
        /\ \A i \in 1..(n - 1 + 1) : SubSeq(p, 1, n)[i] = p[1 + i - 1]
    <3>1. 1 \in Int /\ n \in Int /\ \A i \in 1..n : p[i] \in Names
      BY <2>1
    <3> QED BY <3>1, SubSeqProperties
  <2>4. n - 1 + 1 = n /\ \A i \in 1..n : 1 + i - 1 = i
    BY <2>1
  <2> QED BY <2>1, <2>2, <2>3, <2>4
<1>4. Front(p) = <<>> <=> Len(Front(p)) = 0
  BY <1>2, EmptySeq
<1> QED BY <1>1, <1>2, <1>4 DEF Last

\* What Append makes of a path.
LEMMA Named ==
    ASSUME NEW d \in Seq(Names), NEW x \in Names
    PROVE  /\ Append(d, x) \in Seq(Names) /\ Len(Append(d, x)) = Len(d) + 1
           /\ Front(Append(d, x)) = d /\ Last(Append(d, x)) = x
           /\ d # <<>> => Append(d, x)[1] = d[1]
<1> DEFINE p == Append(d, x)
<1>1. p \in Seq(Names) /\ Len(p) = Len(d) + 1 /\ p[Len(p)] = x
  OBVIOUS
<1>2. \A i \in 1..Len(d) : p[i] = d[i]
  OBVIOUS
<1>3. d # <<>> => 1 \in 1..Len(d)
  OBVIOUS
<1>4. d # <<>> => p[1] = d[1]
  BY <1>2, <1>3
<1> HIDE DEF p
<1>5. Front(p) \in Seq(Names) /\ Len(Front(p)) = Len(d) /\ \A i \in 1..Len(d) : Front(p)[i] = p[i]
  <2>1. Len(p) >= 1 /\ Len(p) - 1 = Len(d)
    BY <1>1
  <2> QED BY <1>1, <2>1, FrontLast
<1>6. Front(p) = d
  BY <1>2, <1>5
<1>7. Last(p) = x
  BY <1>1 DEF Last
<1> QED BY <1>1, <1>4, <1>6, <1>7 DEF p

\* Two paths of one directory and one name are one path.
LEMMA FrontMakes ==
    ASSUME NEW p \in Seq(Names), Len(p) >= 1
    PROVE  Append(Front(p), Last(p)) = p
  BY DEF Front, Last

LEMMA BelowIs ==
    ASSUME NEW p \in Seq(Names), NEW q \in Paths
    PROVE  q \in Below(p) <=> Len(q) > Len(p) /\ \A i \in 1..Len(p) : q[i] = p[i]
<1>1. q \in Seq(Names)
  BY PathIs
<1>2. Len(q) > Len(p) => /\ SubSeq(q, 1, Len(p)) \in Seq(Names)
                         /\ Len(SubSeq(q, 1, Len(p))) = Len(p)
                         /\ \A i \in 1..Len(p) : SubSeq(q, 1, Len(p))[i] = q[i]
  BY <1>1
<1>3. ASSUME Len(q) > Len(p), \A i \in 1..Len(p) : q[i] = p[i] PROVE SubSeq(q, 1, Len(p)) = p
  BY <1>1, <1>2, <1>3
<1>4. ASSUME Len(q) > Len(p), SubSeq(q, 1, Len(p)) = p PROVE \A i \in 1..Len(p) : q[i] = p[i]
  BY <1>2, <1>4
<1> QED BY <1>3, <1>4 DEF Below

\* What lies below a path lies in it, or in what lies below it.
LEMMA BelowFront ==
    ASSUME NEW p \in Paths, NEW q \in Paths
    PROVE  q \in Below(p) <=> Len(q) > 1 /\ Front(q) \in {p} \cup Below(p)
<1>1. p \in Seq(Names) /\ Len(p) \in 1..3 /\ q \in Seq(Names) /\ Len(q) \in 1..3
  BY PathIs
<1>2. /\ Front(q) \in Seq(Names) /\ Len(Front(q)) = Len(q) - 1
      /\ \A i \in 1..(Len(q) - 1) : Front(q)[i] = q[i]
  BY <1>1, FrontLast
<1>3. Len(q) > 1 => Front(q) \in Paths
  BY PathIs
<1>4. ASSUME q \in Below(p) PROVE Len(q) > 1 /\ Front(q) \in {p} \cup Below(p)
  <2>1. Len(q) > Len(p) /\ \A i \in 1..Len(p) : q[i] = p[i]
    BY <1>1, <1>4, BelowIs
  <2>2. CASE Len(q) = Len(p) + 1
    BY <1>1, <1>2, <2>1, <2>2
  <2>3. CASE Len(q) # Len(p) + 1
    <3>1. Len(q) > 1 /\ Len(Front(q)) > Len(p) /\ \A i \in 1..Len(p) : Front(q)[i] = p[i]
      BY <1>1, <1>2, <2>1, <2>3
    <3> QED BY <1>1, <1>3, <3>1, BelowIs
  <2> QED BY <2>2, <2>3
<1>5. ASSUME Len(q) > 1, Front(q) \in {p} \cup Below(p) PROVE q \in Below(p)
  <2>1. Len(Front(q)) >= Len(p) /\ \A i \in 1..Len(p) : Front(q)[i] = p[i]
    BY <1>1, <1>3, <1>5, BelowIs
  <2>2. Len(q) > Len(p) /\ \A i \in 1..Len(p) : q[i] = p[i]
    BY <1>1, <1>2, <2>1
  <2> QED BY <1>1, <2>2, BelowIs
<1> QED BY <1>4, <1>5

\* A path and its directory.
LEMMA FrontOther ==
    ASSUME NEW p \in Paths, Len(p) > 1
    PROVE  Front(p) \in Paths /\ Front(p) # p /\ Len(p) = Len(Front(p)) + 1
<1>1. p \in Seq(Names) /\ Len(p) \in 1..3 /\ Front(p) \in Paths
  BY PathIs
<1>2. Len(Front(p)) = Len(p) - 1
  <2>1. Len(p) >= 1
    BY <1>1
  <2> QED BY <1>1, <2>1, FrontLast
<1>3. Front(p) # p
  BY <1>1, <1>2
<1> QED BY <1>1, <1>2, <1>3

\* Nothing lies below itself, and what lies below a path lies under its top.
LEMMA BelowTop ==
    ASSUME NEW p \in Paths, NEW q \in Below(p)
    PROVE  q \in Paths /\ q # p /\ q[1] = p[1] /\ Len(q) > Len(p)
<1>1. q \in Paths /\ p \in Seq(Names) /\ Len(p) \in 1..3
  BY PathIs DEF Below
<1>2. Len(q) > Len(p) /\ \A i \in 1..Len(p) : q[i] = p[i]
  BY <1>1, BelowIs
<1>3. q[1] = p[1] /\ q # p
  BY <1>1, <1>2
<1> QED BY <1>1, <1>2, <1>3
-----------------------------------------------------------------------------
(***************************************************************************)
(* Trees.                                                                  *)
(***************************************************************************)
\* A file written on build v belongs on a machine of build b.
Ours(b, v) == v = b \/ {v, b} \subseteq OldBuilds

\* The trees a machine of build b may have.
Sound(b) == {t \in Trees :
                /\ TreeOK(t)
                /\ \A p \in Paths : Present(t, p) => Ours(b, t[p].ver.by)
                /\ \A p \in Paths : ~Present(t, p) => t[p] = Absent(b)}

Times == 0..(MaxEdits + 1)

\* The parts of an entry.
LEMMA EntryIs ==
    ASSUME NEW e \in Entries
    PROVE  e.kind \in Kinds /\ e.ver \in Vers /\ e.ver.by \in Builds /\ e.to \in Paths \cup {Nowhere}
  BY DEF Entries, Vers

LEMMA AbsentIs ==
    ASSUME NEW b \in Builds
    PROVE  /\ Absent(b) \in Entries /\ Absent(b).kind = "none"
           /\ Absent(b).ver.by = b
  BY SessionAssumption DEF Absent, Entries, Vers, Kinds

\* What an edit writes is an entry of this build.
LEMMA NewIs ==
    ASSUME build \in Builds, NEW kind \in Kinds, NEW n \in Times, NEW to \in Paths \cup {Nowhere}
    PROVE  /\ New(kind, n, to) \in Entries /\ New(kind, n, to).kind = kind
           /\ New(kind, n, to).ver.by = build /\ New(kind, n, to).to = to
  BY DEF New, Entries, Vers, Times

\* A new mtime changes nothing else.
LEMMA TouchedIs ==
    ASSUME build \in Builds, NEW e \in Entries, NEW n \in Times
    PROVE  LET f == [e EXCEPT !.ver = [by |-> build, n |-> n]]
           IN  f \in Entries /\ f.kind = e.kind /\ f.to = e.to /\ f.ver.by = build
  BY DEF Entries, Vers, Times

\* What a sound tree is, without its names.
LEMMA SoundIs ==
    ASSUME NEW b, NEW t
    PROVE  t \in Sound(b) <=>
              /\ t \in [Paths -> Entries]
              /\ \A p \in Paths : t[p].kind # "none" =>
                    /\ Len(p) > 1 => t[Front(p)].kind = "dir"
                    /\ ~(Len(p) > 1) => t[p].kind = "dir"
                    /\ Ours(b, t[p].ver.by)
              /\ \A p \in Paths : t[p].kind = "link" => t[p].to # Nowhere
              /\ \A p \in Paths : t[p].kind = "none" => t[p] = Absent(b)
  BY DEF Sound, TreeOK, Trees, Present

\* A directory that gets a new mtime.
LEMMA BumpSound ==
    ASSUME build \in Builds, NEW t \in Sound(build), NEW q \in Paths, NEW n \in Times,
           Len(q) > 1 => Present(t, Front(q))
    PROVE  LET u == Bumped(t, q, n)
           IN  /\ u \in Sound(build)
               /\ \A p \in Paths : u[p].kind = t[p].kind /\ u[p].to = t[p].to
               /\ \A p \in Paths : p # Front(q) => u[p] = t[p]
<1>1. CASE Len(q) = 1
  BY <1>1 DEF Bumped
<1>2. CASE Len(q) # 1
  <2> DEFINE d == Front(q)
             e == [t[d] EXCEPT !.ver = [by |-> build, n |-> n]]
             u == [t EXCEPT ![d] = e]
  <2>1. d \in Paths /\ Len(q) > 1
    <3>1. Len(q) \in 1..3 /\ (Len(q) > 1 => d \in Paths)
      BY PathIs
    <3> QED BY <1>2, <3>1
  <2>2. t \in [Paths -> Entries]
    BY SoundIs
  <2>3. e \in Entries /\ e.kind = t[d].kind /\ e.to = t[d].to /\ e.ver.by = build
    BY <2>1, <2>2, TouchedIs
  <2>4. Bumped(t, q, n) = u
    BY <1>2 DEF Bumped
  <2>5. t[d].kind # "none"
    BY <2>1 DEF Present
  <2> HIDE DEF e
  <2>6. u \in [Paths -> Entries] /\ u[d] = e /\ \A p \in Paths : p # d => u[p] = t[p]
    BY <2>1, <2>2, <2>3
  <2> HIDE DEF u
  <2>7. \A p \in Paths : u[p].kind = t[p].kind /\ u[p].to = t[p].to
    BY <2>3, <2>6
  <2>8. \A p \in Paths : u[p].kind # "none" => Ours(build, u[p].ver.by)
    <3>1. Ours(build, build)
      BY DEF Ours
    <3> QED BY <2>3, <2>6, <3>1, SoundIs
  <2>9. \A p \in Paths : u[p].kind = "none" => u[p] = Absent(build)
    BY <2>3, <2>5, <2>6, SoundIs
  <2>10. \A p \in Paths : u[p].kind # "none" =>
            /\ Len(p) > 1 => u[Front(p)].kind = "dir"
            /\ ~(Len(p) > 1) => u[p].kind = "dir"
    BY <2>7, SoundIs, PathIs
  <2>11. \A p \in Paths : u[p].kind = "link" => u[p].to # Nowhere
    BY <2>7, SoundIs
  <2>12. u \in Sound(build)
    BY <2>6, <2>8, <2>9, <2>10, <2>11, SoundIs
  <2> QED BY <2>4, <2>6, <2>7, <2>12
<1> QED BY <1>1, <1>2

\* An entry that may stand at a path.
Fits(b, q, e) ==
    /\ e \in Entries /\ e.kind # "none" /\ Ours(b, e.ver.by)
    /\ e.kind = "link" => e.to # Nowhere
    /\ ~(Len(q) > 1) => e.kind = "dir"

\* An entry put where there is room for it.
LEMMA PutSound ==
    ASSUME NEW b \in Builds, NEW t \in Sound(b), NEW q \in Paths, NEW e, Fits(b, q, e),
           Len(q) > 1 => t[Front(q)].kind = "dir",
           t[q].kind = "dir" => e.kind = "dir" \/ Children(t, q) = {}
    PROVE  [t EXCEPT ![q] = e] \in Sound(b)
<1> DEFINE u == [t EXCEPT ![q] = e]
<1>1. t \in [Paths -> Entries] /\ e \in Entries
  BY SoundIs DEF Fits
<1>2. u \in [Paths -> Entries] /\ u[q] = e /\ \A p \in Paths : p # q => u[p] = t[p]
  BY <1>1
<1> HIDE DEF u
<1>3. ASSUME NEW p \in Paths, u[p].kind # "none", Len(p) > 1 PROVE u[Front(p)].kind = "dir"
  <2>1. Front(p) \in Paths /\ Front(p) # p
    BY <1>3, FrontOther
  <2>2. CASE p = q
    BY <1>2, <2>1, <2>2, <1>3
  <2>3. CASE p # q /\ Front(p) # q
    BY <1>2, <1>3, <2>1, <2>3, SoundIs
  <2>4. CASE p # q /\ Front(p) = q
    <3>1. t[p].kind # "none" /\ t[q].kind = "dir"
      BY <1>2, <1>3, <2>4, SoundIs
    <3>2. p \in Below(q)
      BY <1>3, <2>4, BelowFront
    <3>3. Len(p) = Len(q) + 1
      BY <1>3, <2>4, FrontOther
    <3>4. p \in Children(t, q)
      BY <3>1, <3>2, <3>3 DEF Children, Present
    <3> QED BY <1>2, <2>4, <3>1, <3>4
  <2> QED BY <2>2, <2>3, <2>4
<1>4. \A p \in Paths : u[p].kind # "none" =>
         (~(Len(p) > 1) => u[p].kind = "dir") /\ Ours(b, u[p].ver.by)
  BY <1>2, SoundIs DEF Fits
<1>5. \A p \in Paths : u[p].kind = "link" => u[p].to # Nowhere
  BY <1>2, SoundIs DEF Fits
<1>6. \A p \in Paths : u[p].kind = "none" => u[p] = Absent(b)
  BY <1>2, SoundIs DEF Fits
<1>7. u \in Sound(b)
  BY <1>2, <1>3, <1>4, <1>5, <1>6, SoundIs
<1> QED BY <1>7 DEF u

\* A path that is there goes away with what is below it.
LEMMA RemoveSound ==
    ASSUME build \in Builds, NEW t \in Sound(build), NEW q \in Paths, NEW n \in Times,
           Present(t, q)
    PROVE  LET u == Removed(t, q, n)
           IN  /\ u \in Sound(build)
               /\ \A p \in {q} \cup Below(q) : u[p] = Absent(build)
               /\ \A p \in Paths \ ({q} \cup Below(q)) : u[p].kind = t[p].kind /\ u[p].to = t[p].to
               /\ \A p \in Paths \ ({q} \cup Below(q)) : p # Front(q) => u[p] = t[p]
<1> DEFINE v == [p \in Paths |-> IF p = q \/ p \in Below(q) THEN Absent(build) ELSE t[p]]
           u == Bumped(v, q, n)
<1>1. t \in [Paths -> Entries] /\ Absent(build) \in Entries /\ Absent(build).kind = "none"
  BY SoundIs, AbsentIs
<1>2. /\ v \in [Paths -> Entries] /\ \A p \in {q} \cup Below(q) : v[p] = Absent(build)
      /\ \A p \in Paths \ ({q} \cup Below(q)) : v[p] = t[p]
  BY <1>1 DEF Below
<1> HIDE DEF v
<1>3. ASSUME NEW p \in Paths, v[p].kind # "none"
      PROVE  /\ Len(p) > 1 => v[Front(p)].kind = "dir"
             /\ ~(Len(p) > 1) => v[p].kind = "dir"
             /\ Ours(build, v[p].ver.by)
  <2>1. p \notin {q} \cup Below(q) /\ v[p] = t[p]
    BY <1>1, <1>2, <1>3
  <2>2. Len(p) > 1 => Front(p) \in Paths /\ Front(p) \notin {q} \cup Below(q)
    BY <2>1, BelowFront, FrontOther
  <2> QED BY <1>2, <1>3, <2>1, <2>2, SoundIs
<1>4. \A p \in Paths : v[p].kind = "link" => v[p].to # Nowhere
  BY <1>1, <1>2, SoundIs
<1>5. \A p \in Paths : v[p].kind = "none" => v[p] = Absent(build)
  BY <1>1, <1>2, SoundIs
<1>6. v \in Sound(build)
  BY <1>2, <1>3, <1>4, <1>5, SoundIs
<1>7. Front(q) \notin {q} \cup Below(q) /\ (Len(q) > 1 => Front(q) \in Paths)
  <2>1. CASE Len(q) > 1
    <3>1. Front(q) \in Paths /\ Front(q) # q /\ Len(q) = Len(Front(q)) + 1 /\ Len(q) \in 1..3
      BY <2>1, FrontOther, PathIs
    <3>2. Front(q) \in Below(q) => Len(Front(q)) > Len(q)
      BY BelowTop
    <3> QED BY <3>1, <3>2
  <2>2. CASE ~(Len(q) > 1)
    <3>1. q \in Seq(Names) /\ Len(q) \in 1..3
      BY PathIs
    <3>2. Len(Front(q)) = 0
      <4>1. Len(q) = 1 /\ Len(q) >= 1
        BY <2>2, Depths
      <4> QED BY <3>1, <4>1, FrontLast
    <3>3. Front(q) \notin Paths
      <4>1. Front(q) \in Paths => Len(Front(q)) \in 1..3
        BY PathIs
      <4> QED BY <3>2, <4>1
    <3> QED BY <2>2, <3>3 DEF Below
  <2> QED BY <2>1, <2>2
<1>8. Len(q) > 1 => Present(v, Front(q))
  BY <1>2, <1>7, SoundIs DEF Present
<1>9. /\ u \in Sound(build)
      /\ \A p \in Paths : u[p].kind = v[p].kind /\ u[p].to = v[p].to
      /\ \A p \in Paths : p # Front(q) => u[p] = v[p]
  BY <1>6, <1>8, BumpSound
<1>10. Removed(t, q, n) = u
  BY DEF Removed, v
<1> HIDE DEF u
<1>11. \A p \in {q} \cup Below(q) : u[p] = Absent(build)
  BY <1>2, <1>7, <1>9 DEF Below
<1> QED BY <1>2, <1>9, <1>10, <1>11

\* A path without children has nothing below it.
LEMMA NothingBelow ==
    ASSUME NEW b, NEW t \in Sound(b), NEW q \in Paths, t[q].kind = "dir" => Children(t, q) = {}
    PROVE  \A p \in Below(q) : t[p] = Absent(b)
<1>1. ASSUME NEW p \in Below(q), Front(p) = q PROVE t[p].kind = "none"
  <2>1. p \in Paths /\ Len(p) > Len(q)
    BY BelowTop
  <2>2. Len(p) > 1
    BY <2>1, PathIs
  <2>3. Len(p) = Len(q) + 1
    BY <1>1, <2>1, <2>2, FrontOther
  <2>4. p \in Children(t, q) <=> t[p].kind # "none"
    BY <2>1, <2>3 DEF Children, Present
  <2>5. t[p].kind # "none" => t[q].kind = "dir"
    BY <1>1, <2>1, <2>2, SoundIs
  <2> QED BY <2>4, <2>5
<1>2. ASSUME NEW p \in Below(q) PROVE t[p].kind = "none"
  <2>1. p \in Paths /\ Len(p) > 1 /\ Front(p) \in {q} \cup Below(q) /\ Len(p) \in 1..3
    BY BelowTop, BelowFront, PathIs
  <2>2. CASE Front(p) = q
    BY <1>1, <2>2
  <2>3. CASE Front(p) # q
    <3>1. Front(p) \in Below(q) /\ Front(p) \in Paths /\ Len(Front(p)) > Len(q)
      BY <2>1, <2>3, BelowTop
    <3>2. Len(Front(p)) > 1 /\ Len(Front(p)) + 1 = Len(p) /\ Len(q) \in 1..3
      BY <2>1, <3>1, FrontOther, PathIs
    <3>3. Front(Front(p)) = q
      <4>1. Front(Front(p)) \in {q} \cup Below(q) /\ Len(Front(Front(p))) = Len(Front(p)) - 1
        BY <3>1, <3>2, BelowFront, FrontOther
      <4>2. Front(Front(p)) \in Below(q) => Len(Front(Front(p))) > Len(q)
        BY BelowTop
      <4>3. ~(Len(Front(Front(p))) > Len(q))
        <5> DEFINE m == Len(Front(Front(p)))
                   n == Len(Front(p))
        <5>1. n = 2
          <6>1. n \in {1, 2, 3} /\ n > 1
            BY <3>1, <3>2, Depths
          <6>2. n + 1 \in {1, 2, 3}
            BY <2>1, <3>2, Depths
          <6>3. \A k \in {1, 2, 3} : k > 1 /\ k + 1 \in {1, 2, 3} => k = 2
            OBVIOUS
          <6> QED BY <6>1, <6>2, <6>3, Zenon
        <5>2. m = 1
          BY <4>1, <5>1
        <5>3. ~(m > Len(q))
          BY <5>2, Depths
        <5> QED BY <5>3 DEF m
      <4> QED BY <4>1, <4>2, <4>3
    <3>4. t[Front(p)].kind = "none"
      BY <1>1, <3>1, <3>3
    <3> QED BY <2>1, <3>4, SoundIs
  <2> QED BY <2>2, <2>3
<1> QED BY <1>2, SoundIs DEF Below
-----------------------------------------------------------------------------
(***************************************************************************)
(* One member extracted, one path deleted.                                 *)
(***************************************************************************)
LEMMA BelowBelow ==
    ASSUME NEW p \in Paths, NEW q \in Below(p), NEW r \in Below(q)
    PROVE  r \in Below(p)
<1>1. /\ p \in Seq(Names) /\ q \in Paths /\ q \in Seq(Names) /\ r \in Paths
      /\ Len(p) \in Int /\ Len(q) \in Int /\ Len(r) \in Int
  BY PathIs DEF Below
<1>2. /\ Len(q) > Len(p) /\ \A i \in 1..Len(p) : q[i] = p[i]
      /\ Len(r) > Len(q) /\ \A i \in 1..Len(q) : r[i] = q[i]
  BY <1>1, BelowIs
<1>3. Len(r) > Len(p) /\ \A i \in 1..Len(p) : r[i] = p[i]
  BY <1>1, <1>2
<1> QED BY <1>1, <1>3, BelowIs

\* The directories above a path.
Over(t, p) == [q \in Paths |-> IF p \in Below(q) /\ ~Present(t, q)
                               THEN New("dir", Unpacked, Nowhere) ELSE t[q]]

LEMMA OverSound ==
    ASSUME build \in Builds, NEW t \in Sound(build), NEW p \in Paths
    PROVE  /\ Over(t, p) \in Sound(build)
           /\ \A q \in Paths : Present(t, q) => Over(t, p)[q] = t[q]
           /\ \A q \in Paths : p \notin Below(q) => Over(t, p)[q] = t[q]
           /\ \A q \in Paths : Over(t, p)[q].kind = "link" => Over(t, p)[q] = t[q]
<1> DEFINE u == Over(t, p)
           e == New("dir", Unpacked, Nowhere)
<1>1. t \in [Paths -> Entries]
  BY SoundIs
<1>2. e \in Entries /\ e.kind = "dir" /\ e.ver.by = build
  BY SessionAssumption, NewIs DEF Unpacked, Times, Kinds
<1> HIDE DEF e
<1>3. /\ u \in [Paths -> Entries]
      /\ \A q \in Paths : u[q] = IF p \in Below(q) /\ t[q].kind = "none" THEN e ELSE t[q]
  BY <1>1, <1>2 DEF Over, Present, e
<1> HIDE DEF u
<1>4. ASSUME NEW r \in Paths, u[r].kind # "none"
      PROVE  /\ Len(r) > 1 => u[Front(r)].kind = "dir"
             /\ ~(Len(r) > 1) => u[r].kind = "dir"
             /\ Ours(build, u[r].ver.by)
  <2>1. CASE t[r].kind # "none"
    <3>1. u[r] = t[r]
      BY <1>3, <2>1
    <3>2. Len(r) > 1 => Front(r) \in Paths /\ t[Front(r)].kind = "dir"
      BY <2>1, SoundIs, FrontOther
    <3>3. Len(r) > 1 => u[Front(r)] = t[Front(r)]
      BY <1>3, <3>2
    <3> QED BY <2>1, <3>1, <3>2, <3>3, SoundIs
  <2>2. CASE t[r].kind = "none"
    <3>1. p \in Below(r) /\ u[r] = e
      BY <1>3, <1>4, <2>2
    <3>2. Ours(build, build)
      BY DEF Ours
    <3>3. ASSUME Len(r) > 1 PROVE u[Front(r)].kind = "dir"
      <4>1. Front(r) \in Paths /\ Len(r) = Len(Front(r)) + 1
        BY <3>3, FrontOther
      <4>2. p \in Below(Front(r))
        <5>1. r \in Below(Front(r))
          BY <3>3, <4>1, BelowFront
        <5> QED BY <3>1, <4>1, <5>1, BelowBelow
      <4>3. ~(Len(Front(r)) > 1)
        <5>1. Len(p) > Len(r)
          BY <3>1, BelowTop
        <5>2. Len(p) \in {1, 2, 3} /\ Len(r) \in {1, 2, 3} /\ Len(Front(r)) \in {1, 2, 3}
          BY <4>1, Depths
        <5>3. \A i, j, k \in {1, 2, 3} : i > j /\ j = k + 1 => ~(k > 1)
          OBVIOUS
        <5> QED BY <4>1, <5>1, <5>2, <5>3, Zenon
      <4>4. t[Front(r)].kind # "none" => t[Front(r)].kind = "dir"
        BY <4>1, <4>3, SoundIs
      <4> QED BY <1>2, <1>3, <4>1, <4>2, <4>4
    <3> QED BY <1>2, <3>1, <3>2, <3>3
  <2> QED BY <2>1, <2>2
<1>5. \A q \in Paths : u[q].kind = "link" => u[q] = t[q]
  BY <1>2, <1>3
<1>6. \A q \in Paths : u[q].kind = "link" => u[q].to # Nowhere
  BY <1>5, SoundIs
<1>7. \A q \in Paths : u[q].kind = "none" => u[q] = Absent(build)
  BY <1>2, <1>3, SoundIs
<1>8. u \in Sound(build)
  BY <1>3, <1>4, <1>6, <1>7, SoundIs
<1>9. \A q \in Paths : (t[q].kind # "none" \/ p \notin Below(q)) => u[q] = t[q]
  BY <1>3
<1> QED BY <1>5, <1>8, <1>9 DEF u, Present

\* A path is its own, or what a link makes of it.
LEMMA Resolved ==
    ASSUME NEW b, NEW t \in Sound(b), NEW p \in Paths
    PROVE  /\ RealPath(t, p) = p \/ ( /\ Front(p) \in Paths /\ t[Front(p)].kind = "link"
                                      /\ Front(RealPath(t, p)) = t[Front(p)].to
                                      /\ Len(RealPath(t, p)) > 1)
           /\ Front(RealPath(t, p)) = RealDir(t, Front(p))
           /\ RealDir(t, Front(p)) # Nowhere => RealPath(t, p)[1] = RealDir(t, Front(p))[1]
           /\ Len(RealPath(t, p)) > 1 <=> RealDir(t, Front(p)) # Nowhere
<1> DEFINE d == RealDir(t, Front(p))
           q == RealPath(t, p)
<1>1. p \in Seq(Names) /\ Len(p) >= 1
  BY PathIs, Depths
<1>2. Last(p) \in Names /\ Front(p) \in Seq(Names)
  BY <1>1, FrontLast
<1>3. \/ d = Front(p)
      \/ d = t[Front(p)].to /\ Front(p) # Nowhere /\ t[Front(p)].kind = "link"
  BY DEF RealDir
<1>4. Front(p) # Nowhere => Front(p) \in Paths
  <2>1. Len(p) # 1 => Front(p) \in Paths
    <3>1. Len(p) # 1 => Len(p) > 1
      BY Depths
    <3> QED BY <3>1, PathIs
  <2> QED BY <1>1, <2>1, FrontLast DEF Nowhere
<1>5. d # Front(p) => d \in Paths
  <2>1. ASSUME Front(p) \in Paths, t[Front(p)].kind = "link" PROVE t[Front(p)].to \in Paths
    BY <2>1, SoundIs, EntryIs
  <2> QED BY <1>3, <1>4, <2>1
<1>6. d \in Seq(Names)
  BY <1>2, <1>5, PathIs
<1> HIDE DEF d
<1>7. q = Append(d, Last(p))
  BY DEF RealPath, d
<1>8. /\ q \in Seq(Names) /\ Len(q) = Len(d) + 1 /\ Front(q) = d
      /\ d # <<>> => q[1] = d[1]
  BY <1>2, <1>6, <1>7, Named
<1>9. d = Front(p) => q = p
  BY <1>1, <1>7, FrontMakes
<1>10. Len(q) > 1 <=> d # <<>>
  <2>1. d # <<>> => Len(d) \in Nat \ {0}
    BY <1>6, EmptySeq
  <2>2. d = <<>> => Len(d) = 0
    BY EmptySeq
  <2> QED BY <1>8, <2>1, <2>2
<1>11. d # Front(p) => d # <<>>
  <2>1. d \in Paths => Len(d) # 0
    BY Depths
  <2> QED BY <1>5, <2>1, EmptySeq
<1> QED BY <1>3, <1>4, <1>8, <1>9, <1>10, <1>11 DEF d, Nowhere

\* The skipped paths that no link of L leads to.
Spared(L) == {p \in Skipped \cap Paths : \A q \in {p} \cup Below(p) : Front(q) \notin L}

\* What may become of a tree of build b, with links to L, by members and deletions.
After(b, t0, L) ==
    {t \in Sound(b) :
        /\ \A p \in Paths : t[p].kind = "link" => t[p].to \in L
        /\ \A p \in Spared(L) : t[p] = t0[p]
        /\ \A p \in Paths : p[1] \notin Roots /\ t0[p].kind # "none" => t[p].kind # "none"}

\* What is below a skipped path is skipped; nothing that is not leads to a spared one.
LEMMA SparedFar ==
    ASSUME NEW L, NEW r \in Spared(L), NEW p \in Paths \ Skipped, NEW q \in Paths,
           q = p \/ Front(q) \in L
    PROVE  q # r /\ Front(q) # r /\ p # r /\ p \notin Below(r)
<1>1. /\ r \in Paths /\ r \in Skipped /\ Front(r) \notin L
      /\ \A s \in Below(r) : Front(s) \notin L /\ s \in Skipped
  BY SessionAssumption DEF Spared
<1>2. p # r /\ p \notin Below(r)
  BY <1>1
<1>3. Front(q) = r => q \in Below(r)
  <2>1. ASSUME Front(q) = r PROVE Len(q) > 1
    <3>1. q \in Seq(Names) /\ Len(q) >= 1
      BY PathIs, Depths
    <3>2. Len(Front(q)) = Len(q) - 1 /\ Len(q) \in Nat
      BY <3>1, FrontLast
    <3>3. Len(r) \in {1, 2, 3}
      BY <1>1, Depths
    <3> QED BY <2>1, <3>1, <3>2, <3>3
  <2> QED BY <1>1, <2>1, BelowFront
<1>4. CASE q = p
  BY <1>2, <1>3, <1>4
<1>5. CASE Front(q) \in L
  BY <1>1, <1>3, <1>5
<1> QED BY <1>2, <1>4, <1>5

\* tar puts one member in place: the tree stays sound, what is outside the roots is
\* there still, and a spared path is untouched.
LEMMA MemberAfter ==
    ASSUME build \in Builds, NEW t0, NEW L, NEW s \in [tree : After(build, t0, L), ok : BOOLEAN],
           NEW p \in Paths \ Skipped, NEW e, Fits(build, p, e), e.kind = "link" => e.to \in L
    PROVE  Extract1(s, p, e) \in [tree : After(build, t0, L), ok : BOOLEAN]
<1> DEFINE A == After(build, t0, L)
           t == s.tree
           up == Over(t, p)
           dir == RealDir(up, Front(p))
           q == RealPath(up, p)
           fits == /\ IsDir(up, dir) /\ q \in Paths
                   /\ up[q].kind = "dir" => e.kind = "dir" \/ Children(up, q) = {}
           put == IF Present(up, q) THEN [up EXCEPT ![q] = e]
                                    ELSE Bumped([up EXCEPT ![q] = e], q, Unpacked)
<1>1. Extract1(s, p, e) = IF fits THEN [s EXCEPT !.tree = put] ELSE [s EXCEPT !.ok = FALSE]
  BY DEF Extract1, Over
<1>2. t \in A /\ t \in Sound(build)
  BY DEF After
<1>3. /\ up \in Sound(build)
      /\ \A r \in Paths : Present(t, r) => up[r] = t[r]
      /\ \A r \in Paths : p \notin Below(r) => up[r] = t[r]
      /\ \A r \in Paths : up[r].kind = "link" => up[r] = t[r]
  BY <1>2, OverSound
<1> HIDE DEF up
<1>4. /\ q = p \/ (Front(p) \in Paths /\ up[Front(p)].kind = "link" /\ Len(q) > 1
                   /\ Front(q) = up[Front(p)].to)
      /\ Front(q) = dir
      /\ Len(q) > 1 <=> dir # Nowhere
  BY <1>3, Resolved
<1> HIDE DEF q, dir
<1>5. ASSUME fits PROVE put \in A
  <2>1. Fits(build, q, e) /\ q \in Paths
    BY <1>4, <1>5 DEF Fits
  <2>2. Len(q) > 1 => up[Front(q)].kind = "dir"
    BY <1>4, <1>5 DEF IsDir
  <2>3. up[q].kind = "dir" => e.kind = "dir" \/ Children(up, q) = {}
    BY <1>5
  <2>4. Unpacked \in Times
    BY SessionAssumption DEF Unpacked, Times
  <2>5. /\ put \in Sound(build)
        /\ \A r \in Paths \ {q} : put[r].kind = up[r].kind /\ put[r].to = up[r].to
        /\ \A r \in Paths \ {q} : r # Front(q) => put[r] = up[r]
        /\ put[q].kind = e.kind /\ put[q].to = e.to
    <3> DEFINE w == [up EXCEPT ![q] = e]
               u == Bumped(w, q, Unpacked)
    <3>1. w \in Sound(build)
      BY <1>3, <2>1, <2>2, <2>3, PutSound
    <3>2. w[q] = e /\ \A r \in Paths \ {q} : w[r] = up[r]
      BY <1>3, <2>1, SoundIs
    <3>3. put = IF Present(up, q) THEN w ELSE u
      OBVIOUS
    <3> HIDE DEF w, put
    <3>4. Len(q) > 1 => Present(w, Front(q))
      BY <2>1, <2>2, <3>2, FrontOther DEF Present
    <3>5. /\ u \in Sound(build)
          /\ \A r \in Paths : u[r].kind = w[r].kind /\ u[r].to = w[r].to
          /\ \A r \in Paths : r # Front(q) => u[r] = w[r]
      BY <2>1, <2>4, <3>1, <3>4, BumpSound
    <3> HIDE DEF u
    <3> QED BY <2>1, <3>1, <3>2, <3>3, <3>5
  <2> HIDE DEF put
  <2>6. \A r \in Paths : put[r].kind = "link" => put[r].to \in L
    BY <1>2, <1>3, <2>1, <2>5 DEF After
  <2>7. ASSUME NEW r \in Spared(L) PROVE put[r] = t0[r]
    <3>1. r \in Paths
      BY DEF Spared
    <3>2. q = p \/ Front(q) \in L
      BY <1>2, <1>3, <1>4 DEF After
    <3>3. q # r /\ Front(q) # r /\ p \notin Below(r)
      BY <2>1, <3>2, SparedFar
    <3> QED BY <1>2, <1>3, <2>5, <3>1, <3>3 DEF After
  <2>8. \A r \in Paths : r[1] \notin Roots /\ t0[r].kind # "none" => put[r].kind # "none"
    BY <1>2, <1>3, <2>1, <2>5 DEF After, Present, Fits
  <2> QED BY <2>5, <2>6, <2>7, <2>8 DEF After
<1> HIDE DEF A, fits, put
<1>6. s = [tree |-> s.tree, ok |-> s.ok] /\ s.tree \in A /\ s.ok \in BOOLEAN
  BY DEF A
<1>7. [s EXCEPT !.ok = FALSE] \in [tree : A, ok : BOOLEAN]
  BY <1>6
<1>8. fits => [s EXCEPT !.tree = put] \in [tree : A, ok : BOOLEAN]
  BY <1>5, <1>6
<1> QED BY <1>1, <1>7, <1>8 DEF A

\* One entry of the deletion list, likewise.
LEMMA DeletionAfter ==
    ASSUME build \in Builds, NEW t0, NEW L, NEW t \in After(build, t0, L), NEW p \in Paths
    PROVE  Delete1(t, p) \in After(build, t0, L)
<1> DEFINE q == RealPath(t, p)
           goes == /\ ~skip(p) /\ contained(t, p)
                   /\ q \in Paths /\ Present(t, q)
                   /\ t[q].kind = "dir" => Children(t, q) = {}
           u == Removed(t, q, Unpacked)
<1>1. Delete1(t, p) = IF goes THEN u ELSE t
  BY DEF Delete1
<1>2. t \in Sound(build)
  BY DEF After
<1>3. /\ q = p \/ (Front(p) \in Paths /\ t[Front(p)].kind = "link"
                   /\ Front(q) = t[Front(p)].to)
      /\ RealDir(t, Front(p)) # Nowhere => q[1] = RealDir(t, Front(p))[1]
  BY <1>2, Resolved
<1> HIDE DEF q
<1> SUFFICES ASSUME goes PROVE u \in After(build, t0, L)
  BY <1>1
<1>4. q \in Paths /\ p \notin Skipped /\ q[1] \in Roots
  BY <1>3 DEF contained, skip
<1>5. Unpacked \in Times
  BY SessionAssumption DEF Unpacked, Times
<1>6. /\ u \in Sound(build)
      /\ \A r \in {q} \cup Below(q) : u[r] = Absent(build)
      /\ \A r \in Paths \ ({q} \cup Below(q)) : u[r].kind = t[r].kind /\ u[r].to = t[r].to
      /\ \A r \in Paths \ ({q} \cup Below(q)) : r # Front(q) => u[r] = t[r]
  BY <1>2, <1>5, RemoveSound
<1> HIDE DEF u
<1>7. \A r \in Below(q) : t[r] = Absent(build)
  BY <1>2, <1>4, NothingBelow
<1>8. \A r \in Paths : u[r].kind = "link" => u[r].to \in L
  BY <1>6, AbsentIs DEF After
<1>9. ASSUME NEW r \in Spared(L) PROVE u[r] = t0[r]
  <2>1. r \in Paths
    BY DEF Spared
  <2>2. q = p \/ Front(q) \in L
    BY <1>3 DEF After
  <2>3. q # r /\ Front(q) # r
    BY <1>4, <2>2, SparedFar
  <2>4. u[r] = t[r]
    BY <1>6, <1>7, <2>1, <2>3
  <2> QED BY <2>4 DEF After
<1>10. ASSUME NEW r \in Paths, r[1] \notin Roots, t0[r].kind # "none" PROVE u[r].kind # "none"
  <2>1. r \notin {q} \cup Below(q)
    BY <1>4, <1>10, BelowTop
  <2> QED BY <1>6, <1>10, <2>1 DEF After
<1> QED BY <1>6, <1>8, <1>9, <1>10 DEF After
-----------------------------------------------------------------------------
(***************************************************************************)
(* A whole archive, or the head of it.                                     *)
(***************************************************************************)
\* Members that a machine of build b may be given.
Carries(b, files) ==
    /\ DOMAIN files \subseteq Paths \ Skipped
    /\ \A p \in DOMAIN files : Fits(b, p, files[p])

\* The archive's order goes over the paths.
LEMMA OrderIs == Len(Order) \in Nat /\ \A k \in 1..Len(Order) : Order[k] \in Paths
  BY SessionAssumption DEF Paths, Range

\* The states tar goes through with the members among the first n paths.
Extracting(h, t, L, files, n) ==
    /\ h[0] = [tree |-> t, ok |-> TRUE]
    /\ \A k \in 1..n : h[k] = IF Order[k] \in DOMAIN files
                             THEN Extract1(h[k - 1], Order[k], files[Order[k]])
                             ELSE h[k - 1]
    /\ \A k \in 0..n : h[k] \in [tree : After(build, t, L), ok : BOOLEAN]
    /\ Extract(t, files, n) = h[n]

LEMMA ExtractSteps ==
    ASSUME build \in Builds, NEW L, NEW t, t \in After(build, t, L), NEW files, Carries(build, files),
           \A l \in DOMAIN files : files[l].kind = "link" => files[l].to \in L,
           NEW n \in Nat
    PROVE  \E h : Extracting(h, t, L, files, n)
<1> DEFINE S == [tree : After(build, t, L), ok : BOOLEAN]
           a == [tree |-> t, ok |-> TRUE]
           Step(k, s) == IF Order[k] \in DOMAIN files
                         THEN Extract1(s, Order[k], files[Order[k]]) ELSE s
           F == [k \in 1..n |-> [s \in S |-> Step(k, s)]]
           D(f) == f = [k \in 0..n |-> IF k = 0 THEN a
                                       ELSE IF Order[k] \in DOMAIN files
                                       THEN Extract1(f[k - 1], Order[k], files[Order[k]])
                                       ELSE f[k - 1]]
           h == CHOOSE f : D(f)
<1>1. a \in S /\ \A s \in S : \A k \in 1..n : Step(k, s) \in S
  <2>1. a \in S
    OBVIOUS
  <2>2. ASSUME NEW s \in S, NEW k \in 1..n PROVE Step(k, s) \in S
    <3>1. CASE Order[k] \in DOMAIN files
      <4>1. Order[k] \in Paths \ Skipped /\ Fits(build, Order[k], files[Order[k]])
        BY <3>1 DEF Carries
      <4>2. files[Order[k]].kind = "link" => files[Order[k]].to \in L
        BY <3>1
      <4>3. Extract1(s, Order[k], files[Order[k]]) \in S
        BY <4>1, <4>2, MemberAfter
      <4> QED BY <3>1, <4>3
    <3>2. CASE Order[k] \notin DOMAIN files
      BY <3>2
    <3> QED BY <3>1, <3>2
  <2> QED BY <2>1, <2>2
<1> HIDE DEF S, a
<1>2. \E f : D(f)
  <2>0. F \in [1..n -> [S -> S]]
    BY <1>1
  <2>1. \A k \in 1..n : \A s \in S : F[k][s] = Step(k, s)
    OBVIOUS
  <2> HIDE DEF F
  <2>2. PICK f \in [0..n -> S] : f[0] = a /\ \A k \in 1..n : f[k] = F[k][f[k - 1]]
    <3>1. a \in S
      BY <1>1
    <3> QED BY <2>0, <3>1, StepsExist
  <2>3. ASSUME NEW k \in 0..n PROVE f[k] = IF k = 0 THEN a ELSE Step(k, f[k - 1])
    <3>1. k # 0 => f[k - 1] \in S /\ k \in 1..n
      OBVIOUS
    <3> QED BY <2>1, <2>2, <3>1
  <2>4. D(f)
    BY <2>2, <2>3
  <2> QED BY <2>4
<1>3. D(h)
  BY <1>2
<1> HIDE DEF h
<1>4. h[0] = a /\ \A k \in 1..n : h[k] = Step(k, h[k - 1])
  BY <1>3
<1>5. h[0] \in S /\ \A k \in 1..n : h[k - 1] \in S => h[k] \in S
  BY <1>1, <1>4
<1>6. \A k \in 0..n : h[k] \in S
  BY <1>5, StepsStay
<1>7. Extract(t, files, n) = h[n]
  BY DEF Extract, h, a
<1>8. \A k \in 1..n : h[k] = IF Order[k] \in DOMAIN files
                           THEN Extract1(h[k - 1], Order[k], files[Order[k]]) ELSE h[k - 1]
  BY <1>4
<1>9. h[0] = [tree |-> t, ok |-> TRUE] /\ \A k \in 0..n : h[k] \in [tree : After(build, t, L), ok : BOOLEAN]
  BY <1>4, <1>6 DEF S, a
<1>10. Extracting(h, t, L, files, n)
  BY <1>7, <1>8, <1>9 DEF Extracting
<1> QED BY <1>10

LEMMA ExtractAfter ==
    ASSUME build \in Builds, NEW L, NEW t, t \in After(build, t, L), NEW files, Carries(build, files),
           \A l \in DOMAIN files : files[l].kind = "link" => files[l].to \in L,
           NEW n \in Nat
    PROVE  Extract(t, files, n) \in [tree : After(build, t, L), ok : BOOLEAN]
<1>1. PICK h : Extracting(h, t, L, files, n)
  BY ExtractSteps
<1>2. n \in 0..n
  OBVIOUS
<1> QED BY <1>1, <1>2 DEF Extracting

\* The trees the deletions go through, deepest first.
Deleting(h, t0, L, t, deleted, n) ==
    /\ h[0] = t
    /\ \A k \in 1..n : h[k] = IF Order[n + 1 - k] \in deleted
                             THEN Delete1(h[k - 1], Order[n + 1 - k]) ELSE h[k - 1]
    /\ \A k \in 0..n : h[k] \in After(build, t0, L)
    /\ Delete(t, deleted) = h[n]

LEMMA DeleteSteps ==
    ASSUME build \in Builds, NEW t0, NEW L, NEW t \in After(build, t0, L), NEW deleted
    PROVE  \E h : Deleting(h, t0, L, t, deleted, Len(Order))
<1>1. PICK n \in Nat : n = Len(Order)
  BY OrderIs
<1> DEFINE S == After(build, t0, L)
           P(k) == Order[n + 1 - k]
           Step(k, s) == IF P(k) \in deleted THEN Delete1(s, P(k)) ELSE s
           F == [k \in 1..n |-> [s \in S |-> Step(k, s)]]
           D(f) == f = [k \in 0..n |-> IF k = 0 THEN t
                                       ELSE IF P(k) \in deleted THEN Delete1(f[k - 1], P(k))
                                       ELSE f[k - 1]]
           h == CHOOSE f : D(f)
<1>2. Delete(t, deleted) = h[n]
  BY <1>1 DEF Delete
<1>3. \A k \in 1..n : P(k) \in Paths
  BY <1>1, OrderIs
<1> HIDE DEF P
<1>4. t \in S /\ \A s \in S : \A k \in 1..n : Step(k, s) \in S
  BY <1>3, DeletionAfter
<1> HIDE DEF S
<1>5. \E f : D(f)
  <2>1. F \in [1..n -> [S -> S]]
    BY <1>4
  <2>2. \A k \in 1..n : \A s \in S : F[k][s] = Step(k, s)
    OBVIOUS
  <2> HIDE DEF F
  <2>3. PICK f \in [0..n -> S] : f[0] = t /\ \A k \in 1..n : f[k] = F[k][f[k - 1]]
    <3>1. t \in S
      BY <1>4
    <3> QED BY <2>1, <3>1, StepsExist
  <2>4. ASSUME NEW k \in 0..n PROVE f[k] = IF k = 0 THEN t ELSE Step(k, f[k - 1])
    <3>1. k # 0 => f[k - 1] \in S /\ k \in 1..n
      OBVIOUS
    <3> QED BY <2>2, <2>3, <3>1
  <2>5. D(f)
    BY <2>3, <2>4
  <2> QED BY <2>5
<1>6. D(h)
  BY <1>5
<1> HIDE DEF h
<1>7. h[0] = t /\ \A k \in 1..n : h[k] = Step(k, h[k - 1])
  BY <1>6
<1>8. h[0] \in S /\ \A k \in 1..n : h[k - 1] \in S => h[k] \in S
  BY <1>4, <1>7
<1>9. \A k \in 0..n : h[k] \in S
  BY <1>8, StepsStay
<1>10. \A k \in 1..n : h[k] = IF P(k) \in deleted THEN Delete1(h[k - 1], P(k)) ELSE h[k - 1]
  BY <1>7
<1>11. h[0] = t /\ \A k \in 0..n : h[k] \in After(build, t0, L)
  BY <1>7, <1>9 DEF S
<1>12. Deleting(h, t0, L, t, deleted, n)
  BY <1>2, <1>10, <1>11 DEF P, Deleting
<1> QED BY <1>1, <1>12

LEMMA DeleteAfter ==
    ASSUME build \in Builds, NEW t0, NEW L, NEW t \in After(build, t0, L), NEW deleted
    PROVE  Delete(t, deleted) \in After(build, t0, L)
<1>1. PICK n : n = Len(Order) /\ n \in 0..n
  BY OrderIs
<1>2. PICK h : Deleting(h, t0, L, t, deleted, Len(Order))
  BY DeleteSteps
<1> QED BY <1>1, <1>2 DEF Deleting
-----------------------------------------------------------------------------
(***************************************************************************)
(* Edits.                                                                  *)
(***************************************************************************)
LEMMA NoTop == Len(Nowhere) = 0 /\ Nowhere \notin Paths
<1>1. Len(Nowhere) = 0
  BY EmptySeq DEF Nowhere
<1>2. Nowhere \in Paths => Len(Nowhere) # 0
  BY Depths
<1> QED BY <1>1, <1>2

\* The second level: the directories that are moved.
LEMMA SecondLevel ==
    ASSUME NEW d \in Paths, Len(d) = 2
    PROVE  /\ d # Nowhere /\ Front(d) \in Paths /\ Len(Front(d)) = 1
           /\ \A p \in Paths : Len(p) \in {1, 2} => p \notin Below(d)
           /\ \A p \in Below(d) : Front(p) = d
           /\ \A p \in Paths : Append(d, Last(p)) \in Paths => Append(d, Last(p)) \in Below(d)
<1>1. d # Nowhere
  BY NoTop
<1>2. Front(d) \in Paths /\ Len(Front(d)) = 1
  <2>1. Len(d) > 1
    OBVIOUS
  <2>2. Front(d) \in Paths /\ Len(d) = Len(Front(d)) + 1
    BY <2>1, FrontOther
  <2>3. Len(Front(d)) \in {1, 2, 3}
    BY <2>2, Depths
  <2>4. \A k \in {1, 2, 3} : 2 = k + 1 => k = 1
    OBVIOUS
  <2> QED BY <2>2, <2>3, <2>4, Zenon
<1>3. ASSUME NEW p \in Paths, Len(p) \in {1, 2} PROVE p \notin Below(d)
  <2>1. p \in Below(d) => Len(p) > Len(d)
    BY BelowTop
  <2>2. \A k \in {1, 2} : ~(k > 2)
    OBVIOUS
  <2> QED BY <1>3, <2>1, <2>2, Zenon
<1>4. ASSUME NEW p \in Below(d) PROVE Front(p) = d
  <2>1. p \in Paths /\ Len(p) > 1 /\ Front(p) \in {d} \cup Below(d)
    BY BelowTop, BelowFront
  <2>2. Front(p) \in Paths /\ Len(p) = Len(Front(p)) + 1
    BY <2>1, FrontOther
  <2>3. Len(Front(p)) \in {1, 2}
    <3>1. Len(p) \in {1, 2, 3} /\ Len(Front(p)) \in {1, 2, 3}
      BY <2>1, <2>2, Depths
    <3>2. \A i, j \in {1, 2, 3} : i = j + 1 => j \in {1, 2}
      OBVIOUS
    <3> QED BY <2>2, <3>1, <3>2, Zenon
  <2> QED BY <1>3, <2>1, <2>2, <2>3
<1>5. ASSUME NEW p \in Paths, Append(d, Last(p)) \in Paths PROVE Append(d, Last(p)) \in Below(d)
  <2>1. d \in Seq(Names)
    BY PathIs
  <2>2. Last(p) \in Names
    BY Depths, PathIs, FrontLast
  <2>3. Len(Append(d, Last(p))) = Len(d) + 1 /\ Front(Append(d, Last(p))) = d
    BY <2>1, <2>2, Named
  <2>4. Len(Append(d, Last(p))) > 1
    BY <2>3
  <2> QED BY <1>5, <2>3, <2>4, BelowFront
<1> QED BY <1>1, <1>2, <1>3, <1>4, <1>5

\* Something put where there is nothing, or a file over a file.
LEMMA WrittenSound ==
    ASSUME build \in Builds, NEW t \in Sound(build), NEW p \in Paths, NEW kind \in {"file", "dir"},
           NEW n \in Times, IsDir(t, Front(p)), t[p].kind \in {"none", "file"},
           Len(p) > 1 \/ kind = "dir"
    PROVE  /\ [t EXCEPT ![p] = New(kind, n, Nowhere)] \in Sound(build)
           /\ Bumped([t EXCEPT ![p] = New(kind, n, Nowhere)], p, n) \in Sound(build)
<1> DEFINE e == New(kind, n, Nowhere)
           w == [t EXCEPT ![p] = e]
<1>1. kind \in Kinds /\ Nowhere \in Paths \cup {Nowhere}
  BY DEF Kinds
<1>2. e \in Entries /\ e.kind = kind /\ e.ver.by = build
  BY <1>1, NewIs
<1>3. Fits(build, p, e)
  BY <1>2 DEF Fits, Ours
<1> HIDE DEF e
<1>4. Len(p) > 1 => t[Front(p)].kind = "dir"
  <2>1. Len(p) > 1 => Front(p) \in Paths
    BY FrontOther
  <2> QED BY <2>1, NoTop DEF IsDir
<1>5. w \in Sound(build)
  <2>1. t[p].kind # "dir"
    OBVIOUS
  <2> QED BY <1>3, <1>4, <2>1, PutSound
<1>6. \A q \in Paths \ {p} : w[q] = t[q]
  BY SoundIs
<1> HIDE DEF w
<1>7. Len(p) > 1 => Present(w, Front(p))
  BY <1>4, <1>6, FrontOther DEF Present
<1>8. Bumped(w, p, n) \in Sound(build)
  BY <1>5, <1>7, BumpSound
<1> QED BY <1>5, <1>8 DEF w, e

\* mv d e; ln -s e d.
LEMMA MovedSound ==
    ASSUME build \in Builds, NEW t \in Sound(build), NEW d \in Paths, NEW e \in Paths,
           Len(d) = 2, Len(e) = 2, NEW n \in Times,
           t[d].kind = "dir", ~Present(t, e), IsDir(t, Front(e)),
           NEW v, v = [p \in Paths |->
                         IF p = d THEN New("link", n, e)
                         ELSE IF p = e THEN t[d]
                         ELSE IF p \in Below(d) THEN Absent(build)
                         ELSE IF p \in Below(e) /\ Append(d, Last(p)) \in Paths
                              THEN t[Append(d, Last(p))]
                         ELSE t[p]]
    PROVE  Bumped(Bumped(v, d, n), e, n) \in Sound(build)
<1> DEFINE l == New("link", n, e)
<1>1. /\ t \in [Paths -> Entries] /\ Absent(build) \in Entries /\ Absent(build).kind = "none"
      /\ d # e /\ t[e].kind = "none"
  BY SoundIs, AbsentIs DEF Present
<1>2. l \in Entries /\ l.kind = "link" /\ l.ver.by = build /\ l.to = e
  <2>1. "link" \in Kinds
    BY DEF Kinds
  <2> QED BY <2>1, NewIs
<1> HIDE DEF l
<1>3. /\ v \in [Paths -> Entries] /\ v[d] = l /\ v[e] = t[d]
      /\ \A p \in Paths \ {d, e} : p \in Below(d) => v[p] = Absent(build)
      /\ \A p \in Paths \ {d, e} : p \notin Below(d) =>
            \/ v[p] = t[p]
            \/ p \in Below(e) /\ \E q \in Paths : v[p] = t[q] /\ q \in Below(d)
      /\ \A p \in Paths \ {d, e} : p \notin Below(d) \cup Below(e) => v[p] = t[p]
  <2>1. v \in [Paths -> Entries] /\ v[d] = l /\ v[e] = t[d]
    BY <1>1, <1>2 DEF l
  <2>2. ASSUME NEW p \in Paths, p \in Below(e), Append(d, Last(p)) \in Paths
        PROVE  Append(d, Last(p)) \in Below(d)
    BY <2>2, SecondLevel
  <2> QED BY <1>1, <2>1, <2>2
<1>4. /\ Front(d) \in Paths /\ Front(e) \in Paths
      /\ t[Front(d)].kind = "dir" /\ t[Front(e)].kind = "dir"
  <2>1. Front(d) \in Paths /\ Front(e) \in Paths
    BY SecondLevel
  <2>3. t[Front(e)].kind = "dir"
    BY <2>1, NoTop DEF IsDir
  <2>4. Len(d) > 1 /\ t[d].kind # "none"
    OBVIOUS
  <2> QED BY <2>1, <2>3, <2>4, SoundIs
<1>5. \A p \in Paths : Len(p) \in {1, 2} => p \notin Below(d) \cup Below(e)
  BY SecondLevel
<1>6. v[Front(d)] = t[Front(d)] /\ v[Front(e)] = t[Front(e)]
  <2>1. Len(Front(d)) = 1 /\ Len(Front(e)) = 1
    BY SecondLevel
  <2>2. Front(d) \notin {d, e} /\ Front(e) \notin {d, e}
    BY <2>1
  <2> QED BY <1>3, <1>4, <1>5, <2>1, <2>2
<1>7. \A p \in Below(e) : t[p].kind = "none"
  BY <1>1, NothingBelow
<1>8. ASSUME NEW p \in Paths, v[p].kind # "none", Len(p) > 1 PROVE v[Front(p)].kind = "dir"
  <2>1. CASE p \in {d, e}
    BY <1>4, <1>6, <2>1
  <2>2. CASE p \in Below(d) /\ p \notin {d, e}
    BY <1>1, <1>3, <1>8, <2>2
  <2>3. CASE p \notin Below(d) /\ p \notin {d, e} /\ p \in Below(e)
    <3>1. Front(p) = e
      BY <2>3, SecondLevel
    <3> QED BY <1>3, <3>1
  <2>4. CASE p \notin Below(d) \cup Below(e) /\ p \notin {d, e}
    <3>1. v[p] = t[p] /\ t[Front(p)].kind = "dir" /\ Front(p) \in Paths
      BY <1>3, <1>8, <2>4, SoundIs, FrontOther
    <3>2. Front(p) \notin {d, e} \cup Below(d) \cup Below(e)
      BY <1>8, <2>4, BelowFront
    <3> QED BY <1>3, <3>1, <3>2
  <2> QED BY <2>1, <2>2, <2>3, <2>4
<1>9. ASSUME NEW p \in Paths, v[p].kind # "none" PROVE Ours(build, v[p].ver.by)
  <2>1. Ours(build, build)
    BY DEF Ours
  <2>2. \A q \in Paths : t[q].kind # "none" => Ours(build, t[q].ver.by)
    BY SoundIs
  <2>3. v[p] = l \/ v[p] = Absent(build) \/ \E q \in Paths : v[p] = t[q]
    BY <1>3
  <2> QED BY <1>1, <1>2, <1>9, <2>1, <2>2, <2>3
<1>10. ASSUME NEW p \in Paths, v[p].kind # "none", ~(Len(p) > 1) PROVE v[p].kind = "dir"
  <2>1. Len(p) = 1
    BY <1>10, Depths
  <2>2. v[p] = t[p]
    BY <1>3, <1>5, <2>1
  <2> QED BY <1>10, <2>2, SoundIs
<1>11. ASSUME NEW p \in Paths, v[p].kind = "link" PROVE v[p].to # Nowhere
  <2>1. \A q \in Paths : t[q].kind = "link" => t[q].to # Nowhere
    BY SoundIs
  <2>2. v[p] = l \/ v[p] = Absent(build) \/ \E q \in Paths : v[p] = t[q]
    BY <1>3
  <2>3. e # Nowhere
    BY SecondLevel
  <2> QED BY <1>1, <1>2, <1>11, <2>1, <2>2, <2>3
<1>12. ASSUME NEW p \in Paths, v[p].kind = "none" PROVE v[p] = Absent(build)
  <2>1. \A q \in Paths : t[q].kind = "none" => t[q] = Absent(build)
    BY SoundIs
  <2>2. v[p] = l \/ v[p] = Absent(build) \/ \E q \in Paths : v[p] = t[q]
    BY <1>3
  <2> QED BY <1>2, <1>12, <2>1, <2>2
<1>13. v \in Sound(build)
  BY <1>3, <1>8, <1>9, <1>10, <1>11, <1>12, SoundIs
<1> DEFINE w == Bumped(v, d, n)
<1>14. w \in Sound(build) /\ w[Front(e)].kind = "dir"
  <2>1. Present(v, Front(d))
    BY <1>4, <1>6 DEF Present
  <2> QED BY <1>4, <1>6, <1>13, <2>1, BumpSound
<1> HIDE DEF w
<1>15. Present(w, Front(e))
  BY <1>14 DEF Present
<1>16. Bumped(w, e, n) \in Sound(build)
  BY <1>14, <1>15, BumpSound
<1> QED BY <1>16 DEF w
-----------------------------------------------------------------------------
(***************************************************************************)
(* The invariant: the tree is one of this build's, the archive is one its  *)
(* build made, and the pack under way is this build's.                     *)
(***************************************************************************)
CountsInv ==
    /\ build \in Builds /\ base \in BOOLEAN /\ clean \in BOOLEAN /\ still \in BOOLEAN
    /\ home \in 0..MaxEdits /\ edits \in 0..MaxEdits /\ boots \in 0..MaxBoots
    /\ report \in Reports

PendInv ==
    pend # None => /\ pend.members \subseteq Paths \ Skipped /\ pend.deleted \subseteq Paths
                   /\ pend.id # NoBuild => pend.id = build

ArchInv ==
    arch # None =>
        /\ arch = [files |-> arch.files, deleted |-> arch.deleted, home |-> arch.home,
                   id |-> arch.id, marked |-> arch.marked, session |-> arch.session,
                   then |-> arch.then, saved |-> arch.saved, by |-> arch.by]
        /\ arch.by \in Builds /\ Carries(arch.by, arch.files) /\ arch.deleted \subseteq Paths
        /\ arch.home \in 0..MaxEdits /\ arch.session \in {"ok", "none", "unreadable", "newer"}
        /\ arch.marked <=> arch.by \notin OldBuilds
        /\ arch.id # NoBuild => arch.id = arch.by

TreeInv == tree \in Sound(build)

SessionInv == CountsInv /\ PendInv /\ ArchInv /\ TreeInv

\* The checks of unpack, whichever of the two it is, pass only an archive whose
\* members this build may be given.
LEMMA PassesOwn ==
    ASSUME CountsInv, ArchInv, arch # None, ~Refuses(arch), Full(arch)
    PROVE  Carries(build, arch.files)
<1>1. ASSUME NEW v, Ours(arch.by, v) PROVE Ours(build, v)
  <2>1. CASE build \in OldBuilds
    <3>1. arch.by \in OldBuilds
      BY <2>1 DEF Refuses, ArchInv
    <3> QED BY <1>1, <2>1, <3>1 DEF Ours
  <2>2. CASE build \notin OldBuilds
    <3>1. arch.by = build
      BY <2>2 DEF Full, ArchInv, build_id
    <3> QED BY <1>1, <3>1
  <2> QED BY <2>1, <2>2
<1>2. Carries(arch.by, arch.files)
  BY DEF ArchInv
<1>3. ASSUME NEW p \in DOMAIN arch.files PROVE Fits(build, p, arch.files[p])
  BY <1>1, <1>2 DEF Carries, Fits
<1> QED BY <1>2, <1>3 DEF Carries

\* Where the links of the tree and of the archive lead.
Targets == {tree[l].to : l \in {m \in Paths : tree[m].kind = "link"}}
             \cup {arch.files[l].to : l \in {m \in DOMAIN arch.files : arch.files[m].kind = "link"}}

\* Nothing was done yet.
LEMMA ItselfAfter ==
    ASSUME SessionInv PROVE tree \in After(build, tree, Targets)
  BY DEF SessionInv, TreeInv, After, Targets

\* What an unpack, whole, refused or cut short, does to the tree.
LEMMA UnpackAfter ==
    ASSUME SessionInv, Unpack
    PROVE  tree' \in After(build, tree, Targets) /\ build' = build
<1> DEFINE A == After(build, tree, Targets)
           N == Len(Order)
<1>1. tree \in A /\ build \in Builds
  BY ItselfAfter DEF SessionInv, CountsInv
<1>2. ASSUME arch # None, ~Refuses(arch), Full(arch), NEW n \in Nat
      PROVE  Extract(tree, arch.files, n) \in [tree : A, ok : BOOLEAN]
  <2>1. Carries(build, arch.files)
    BY <1>2, PassesOwn DEF SessionInv
  <2>2. \A l \in DOMAIN arch.files : arch.files[l].kind = "link" => arch.files[l].to \in Targets
    BY DEF Targets
  <2> HIDE DEF A
  <2>3. tree \in After(build, tree, Targets)
    BY <1>1 DEF A
  <2> QED BY <1>1, <2>1, <2>2, <2>3, ExtractAfter DEF A
<1>3. ASSUME NEW t \in A, NEW deleted PROVE Delete(t, deleted) \in A
  BY <1>1, <1>3, DeleteAfter
<1> HIDE DEF A
<1>4. CASE UnpackRefused
  BY <1>1, <1>4 DEF UnpackRefused, A
<1>5. CASE UnpackHome
  BY <1>1, <1>5 DEF UnpackHome, A
<1>6. CASE UnpackFull
  <2> DEFINE s == Extract(tree, arch.files, N)
  <2>1. s \in [tree : A, ok : BOOLEAN]
    BY <1>2, <1>6, OrderIs DEF UnpackFull
  <2>2. tree' = s.tree \/ tree' = Delete(s.tree, Deletions(arch))
    BY <1>6 DEF UnpackFull
  <2> HIDE DEF s
  <2>3. s.tree \in A
    BY <2>1
  <2>4. tree' \in A
    BY <1>3, <2>2, <2>3
  <2> QED BY <1>6, <2>4 DEF UnpackFull, A
<1>7. CASE UnpackDies
  <2>1. CASE Full(arch)
    <3>1. PICK n \in DOMAIN Order : tree' = Extract(tree, arch.files, n - 1).tree
      BY <1>7, <2>1 DEF UnpackDies
    <3>2. n - 1 \in Nat
      <4>1. n \in 1..Len(Order)
        BY SessionAssumption
      <4> QED BY <4>1, OrderIs
    <3>3. Extract(tree, arch.files, n - 1) \in [tree : A, ok : BOOLEAN]
      BY <1>2, <1>7, <2>1, <3>2 DEF UnpackDies
    <3> QED BY <1>7, <3>1, <3>3 DEF UnpackDies, A
  <2>2. CASE ~Full(arch)
    BY <1>1, <1>7, <2>2 DEF UnpackDies, A
  <2> QED BY <2>1, <2>2
<1> QED BY <1>4, <1>5, <1>6, <1>7 DEF Unpack

LEMMA Bounds == MaxEdits \in Nat /\ MaxBoots \in Nat
  BY SessionAssumption

\* What an image ships is sound, so every machine starts with a sound tree.
LEMMA ShippedSound == \A b \in Builds : Image[b] \in Sound(b)
<1> SUFFICES ASSUME NEW b \in Builds PROVE Image[b] \in Sound(b)
  OBVIOUS
<1>1. TreeOK(Image[b])
  BY SessionAssumption
<1>2. \A p \in Paths : Image[b][p].ver.by = b
  BY SessionAssumption
<1>3. \A p \in Paths : Image[b][p].kind = "none" => Image[b][p] = Absent(b)
  BY SessionAssumption
<1> QED BY <1>1, <1>2, <1>3 DEF Sound, TreeOK, Present, Ours

LEMMA SessionInit == Init => SessionInv
<1> SUFFICES ASSUME Init PROVE SessionInv
  OBVIOUS
<1>1. Image[build] \in Sound(build)
  BY ShippedSound DEF Init
<1>2. CountsInv
  <2>1. home \in 0..MaxEdits /\ edits \in 0..MaxEdits /\ boots \in 0..MaxBoots
    BY Bounds DEF Init
  <2> QED BY <2>1 DEF Init, CountsInv, Reports
<1> QED BY <1>1, <1>2 DEF Init, SessionInv, PendInv, ArchInv, TreeInv

\* pack: the archive carries only what its build may have.
LEMMA PackStep ==
    ASSUME SessionInv, PackWalk \/ PackTar
    PROVE  SessionInv'
<1>1. CASE PackWalk
  <2>1. /\ walk(tree) \subseteq Paths \ Skipped
        /\ baseline \subseteq Paths
    BY DEF walk, baseline, skip
  <2>2. PendInv'
    BY <1>1, <2>1 DEF PackWalk, PendInv, changed_system_paths, build_id
  <2> QED BY <1>1, <2>2 DEF PackWalk, SessionInv, CountsInv, ArchInv, TreeInv, Reports
<1>2. CASE PackTar
  <2> DEFINE there == {p \in pend.members : Present(tree, p)}
             files == [p \in there |-> tree[p]]
  <2>1. there \subseteq Paths \ Skipped
    BY <1>2 DEF PackTar, SessionInv, PendInv
  <2>2. ASSUME NEW p \in there PROVE Fits(build, p, tree[p])
    <3>1. p \in Paths /\ tree[p].kind # "none"
      BY <2>1 DEF Present
    <3>2. tree \in Sound(build)
      BY DEF SessionInv, TreeInv
    <3> QED BY <3>1, <3>2, SoundIs DEF Fits
  <2>3. Carries(build, files)
    BY <2>1, <2>2 DEF Carries
  <2>4. ArchInv'
    BY <1>2, <2>3 DEF PackTar, ArchInv, SessionInv, PendInv, CountsInv
  <2> QED BY <1>2, <2>4 DEF PackTar, SessionInv, CountsInv, PendInv, TreeInv, Reports
<1> QED BY <1>1, <1>2

\* unpack, whole, refused or cut short.
LEMMA UnpackStep ==
    ASSUME SessionInv, Unpack
    PROVE  SessionInv'
<1>1. TreeInv'
  BY UnpackAfter DEF After, TreeInv
<1>2. arch # None => arch.home \in 0..MaxEdits
  BY DEF SessionInv, ArchInv
<1>3. CountsInv'
  BY <1>2 DEF Unpack, UnpackRefused, UnpackHome, UnpackFull, UnpackDies, SessionInv, CountsInv, Reports
<1>4. PendInv' /\ ArchInv'
  BY DEF Unpack, UnpackRefused, UnpackHome, UnpackFull, UnpackDies, SessionInv, PendInv, ArchInv
<1> QED BY <1>1, <1>3, <1>4 DEF SessionInv

\* Any edit that leaves a sound tree.
LEMMA EditStep ==
    ASSUME SessionInv, NEW t, t \in Sound(build), Edit(t)
    PROVE  SessionInv'
<1>1. CountsInv'
  <2>1. home' \in 0..MaxEdits /\ edits' \in 0..MaxEdits /\ boots' \in 0..MaxBoots
    BY Bounds DEF Edit, SessionInv, CountsInv
  <2> QED BY <2>1 DEF Edit, SessionInv, CountsInv, Reports
<1> QED BY <1>1 DEF Edit, SessionInv, PendInv, ArchInv, TreeInv

\* write, mkdir, rm -r.
LEMMA EditsStep ==
    ASSUME SessionInv, NEW p \in Paths, Write(p) \/ Mkdir(p) \/ RemoveAll(p)
    PROVE  SessionInv'
<1>1. build \in Builds /\ tree \in Sound(build)
  BY DEF SessionInv, CountsInv, TreeInv
<1>2. edits < MaxEdits => edits + 1 \in Times
  BY Bounds DEF SessionInv, CountsInv, Times
<1>3. CASE Write(p)
  <2> DEFINE n == edits + 1
             t == [tree EXCEPT ![p] = New("file", n, Nowhere)]
  <2>1. PICK u \in {t, Bumped(t, p, n)} : Edit(u)
    BY <1>3 DEF Write
  <2>2. n \in Times
    BY <1>2, <2>1 DEF Edit
  <2>3. u \in Sound(build)
    BY <1>1, <1>3, <2>2, WrittenSound DEF Write
  <2> QED BY <2>1, <2>3, EditStep
<1>4. CASE Mkdir(p)
  <2> DEFINE n == edits + 1
             u == Bumped([tree EXCEPT ![p] = New("dir", n, Nowhere)], p, n)
  <2>1. Edit(u)
    BY <1>4 DEF Mkdir
  <2>2. n \in Times
    BY <1>2, <2>1 DEF Edit
  <2>3. tree[p].kind = "none" /\ IsDir(tree, Front(p))
    BY <1>4 DEF Mkdir, Present
  <2>4. u \in Sound(build)
    BY <1>1, <2>2, <2>3, WrittenSound
  <2> QED BY <2>1, <2>4, EditStep
<1>5. CASE RemoveAll(p)
  <2> DEFINE n == edits + 1
             u == Removed(tree, p, n)
  <2>1. Edit(u) /\ Present(tree, p)
    BY <1>5 DEF RemoveAll
  <2>2. n \in Times
    BY <1>2, <2>1 DEF Edit
  <2>3. u \in Sound(build)
    BY <1>1, <2>1, <2>2, RemoveSound
  <2> QED BY <2>1, <2>3, EditStep
<1> QED BY <1>3, <1>4, <1>5

LEMMA MoveStep ==
    ASSUME SessionInv, NEW d \in Paths, NEW e \in Paths, MoveAndLink(d, e)
    PROVE  SessionInv'
<1> DEFINE n == edits + 1
           v == [p \in Paths |->
                   IF p = d THEN New("link", n, e)
                   ELSE IF p = e THEN tree[d]
                   ELSE IF p \in Below(d) THEN Absent(build)
                   ELSE IF p \in Below(e) /\ Append(d, Last(p)) \in Paths
                        THEN tree[Append(d, Last(p))]
                   ELSE tree[p]]
           u == Bumped(Bumped(v, d, n), e, n)
<1>1. build \in Builds /\ tree \in Sound(build)
  BY DEF SessionInv, CountsInv, TreeInv
<1>2. Edit(u)
  BY DEF MoveAndLink
<1>3. n \in Times
  BY <1>2, Bounds DEF Edit, SessionInv, CountsInv, Times
<1>4. u \in Sound(build)
  BY <1>1, <1>3, MovedSound DEF MoveAndLink
<1> QED BY <1>2, <1>4, EditStep

\* The home, the baseline, boots, a spoilt archive.
LEMMA OthersStep ==
    ASSUME SessionInv, EditHome \/ LoseBaseline \/ Boot \/ SpoilArchive
    PROVE  SessionInv'
<1>1. CASE EditHome
  <2>1. CountsInv'
    <3>1. home' \in 0..MaxEdits /\ edits' \in 0..MaxEdits /\ boots' \in 0..MaxBoots
      BY <1>1, Bounds DEF EditHome, SessionInv, CountsInv
    <3> QED BY <1>1, <3>1 DEF EditHome, SessionInv, CountsInv, Reports
  <2> QED BY <1>1, <2>1 DEF EditHome, SessionInv, PendInv, ArchInv, TreeInv
<1>2. CASE LoseBaseline
  BY <1>2 DEF LoseBaseline, SessionInv, CountsInv, PendInv, ArchInv, TreeInv, Reports
<1>3. CASE Boot
  <2>1. build' \in Builds /\ tree' = Image[build']
    BY <1>3 DEF Boot
  <2>2. CountsInv'
    <3>1. home' \in 0..MaxEdits /\ edits' \in 0..MaxEdits /\ boots' \in 0..MaxBoots
      BY <1>3, Bounds DEF Boot, SessionInv, CountsInv
    <3> QED BY <1>3, <3>1 DEF Boot, SessionInv, CountsInv, Reports
  <2>3. TreeInv'
    BY <2>1, ShippedSound DEF TreeInv
  <2> QED BY <1>3, <2>2, <2>3 DEF Boot, SessionInv, PendInv, ArchInv
<1>4. CASE SpoilArchive
  <2>1. PICK s \in {"none", "unreadable", "newer"} : arch' = [arch EXCEPT !.session = s]
    BY <1>4 DEF SpoilArchive
  <2>2. arch # None
    BY <1>4 DEF SpoilArchive
  <2>3. ArchInv'
    BY <2>1, <2>2 DEF SessionInv, ArchInv
  <2> QED BY <1>4, <2>3 DEF SpoilArchive, SessionInv, CountsInv, PendInv, TreeInv, Reports
<1> QED BY <1>1, <1>2, <1>3, <1>4

LEMMA SessionNext == SessionInv /\ [Next]_vars => SessionInv'
<1> SUFFICES ASSUME SessionInv, [Next]_vars PROVE SessionInv'
  OBVIOUS
<1>1. CASE PackWalk \/ PackTar
  BY <1>1, PackStep
<1>2. CASE UnpackRefused \/ UnpackHome \/ UnpackFull \/ UnpackDies
  BY <1>2, UnpackStep DEF Unpack
<1>3. CASE \E p \in Paths : Write(p) \/ Mkdir(p) \/ RemoveAll(p)
  BY <1>3, EditsStep
<1>4. CASE \E d, e \in Paths : MoveAndLink(d, e)
  BY <1>4, MoveStep
<1>5. CASE EditHome \/ LoseBaseline \/ Boot \/ SpoilArchive
  BY <1>5, OthersStep
<1>6. CASE UNCHANGED vars
  BY <1>6 DEF vars, SessionInv, CountsInv, PendInv, ArchInv, TreeInv
<1> QED BY <1>1, <1>2, <1>3, <1>4, <1>5, <1>6 DEF Next

LEMMA SessionAlways == Spec => []SessionInv
  BY SessionInit, SessionNext, PTL DEF Spec
-----------------------------------------------------------------------------
\* Every machine always has a tree that a file system can hold, and every archive
\* lists only what was there, for any builds, trees, edits and restores.
THEOREM SessionTypes == Spec => []TypeOK
<1>1. SessionInv => TypeOK
  <2> SUFFICES ASSUME SessionInv PROVE TypeOK
    OBVIOUS
  <2>1. TreeOK(tree)
    BY DEF SessionInv, TreeInv, Sound
  <2>2. arch # None => /\ DOMAIN arch.files \subseteq Paths
                       /\ \A p \in DOMAIN arch.files : arch.files[p].kind # "none"
    BY DEF SessionInv, ArchInv, Carries, Fits
  <2> QED BY <2>1, <2>2 DEF SessionInv, CountsInv, PendInv, ArchInv, TypeOK
<1> QED BY <1>1, SessionAlways, PTL

\* No machine of a build that has a name ever holds a file written on another, and
\* none of a format-1 build one of a build that has a name.
THEOREM NoneIsForeign == Spec => []NoForeignFiles
<1>1. SessionInv => NoForeignFiles
  BY DEF SessionInv, TreeInv, Sound, Ours, NoForeignFiles
<1> QED BY <1>1, SessionAlways, PTL

\* No restore, whole or cut short, of any archive on any machine takes away what is
\* outside the system roots.
THEOREM OutsideIsKept == Spec => KeepsOutside
<1>1. SessionInv /\ [Next]_vars =>
        [Unpack => \A p \in Paths : p[1] \notin Roots /\ Present(tree, p) => Present(tree', p)]_vars
  BY UnpackAfter DEF After, Present
<1> QED BY <1>1, SessionAlways, PTL DEF Spec, KeepsOutside

\* No restore touches a path that skip() names, where no link leads to it.
THEOREM IdentityIsKept == Spec => KeepsIdentity
<1>1. SessionInv /\ [Next]_vars =>
        [Unpack => \A p \in Skipped \cap Paths : ~Linked(p) => tree'[p] = tree[p]]_vars
  <2> SUFFICES ASSUME SessionInv, Unpack, NEW p \in Skipped \cap Paths, ~Linked(p)
               PROVE  tree'[p] = tree[p]
    OBVIOUS
  <2>1. p \in Spared(Targets)
    BY DEF Linked, Spared, Targets
  <2> QED BY <2>1, UnpackAfter DEF After
<1> QED BY <1>1, SessionAlways, PTL DEF Spec, KeepsIdentity
-----------------------------------------------------------------------------
(***************************************************************************)
(* The round trip: what a restore makes of a machine as shipped.           *)
(***************************************************************************)
LEMMA SameIs ==
    /\ \A x : Same(x, x)
    /\ \A x, y : Same(x, y) => Same(y, x) /\ x.kind = y.kind
    /\ \A x, y, z : Same(x, y) /\ Same(y, z) => Same(x, z)
    /\ \A x, y : x.kind = y.kind /\ x.kind \notin {"file", "link"} => Same(x, y)
  BY DEF Same

\* A path has a directory, or is a top.
LEMMA TopOrNot ==
    ASSUME NEW p \in Paths
    PROVE  /\ p \in Seq(Names) /\ Len(p) >= 1 /\ Front(p) # p
           /\ (Len(p) > 1 /\ Front(p) \in Paths) \/ (Len(p) = 1 /\ Front(p) = Nowhere)
           /\ Front(p) \in Paths => Len(p) > 1
<1>1. p \in Seq(Names) /\ Len(p) \in {1, 2, 3}
  BY PathIs, Depths
<1>2. \A k \in {1, 2, 3} : k >= 1 /\ (k > 1 \/ k = 1) /\ k - 1 # k
  OBVIOUS
<1>3. Len(p) >= 1 /\ (Len(p) > 1 \/ Len(p) = 1) /\ Len(p) - 1 # Len(p)
  BY <1>1, <1>2, Zenon
<1>4. Len(Front(p)) = Len(p) - 1 /\ (Len(p) = 1 <=> Front(p) = <<>>)
  BY <1>1, <1>3, FrontLast
<1>5. Front(p) # p
  BY <1>3, <1>4
<1>6. Len(p) > 1 => Front(p) \in Paths
  BY PathIs
<1>7. Front(p) \in Paths => Len(p) > 1
  BY <1>3, <1>4, NoTop DEF Nowhere
<1> QED BY <1>1, <1>3, <1>4, <1>5, <1>6, <1>7 DEF Nowhere

\* A path of the tree whose directory is a directory is where it says.
LEMMA Straight ==
    ASSUME NEW b, NEW t \in Sound(b), NEW p \in Paths,
           Len(p) > 1 => t[Front(p)].kind # "link"
    PROVE  RealDir(t, Front(p)) = Front(p) /\ RealPath(t, p) = p
<1>1. RealDir(t, Front(p)) = Front(p)
  BY TopOrNot DEF RealDir
<1>2. Append(Front(p), Last(p)) = p
  BY TopOrNot, FrontMakes
<1> QED BY <1>1, <1>2 DEF RealPath

\* There is nothing to make above a path whose directory stands.
LEMMA NothingOver ==
    ASSUME build \in Builds, NEW t \in Sound(build), NEW p \in Paths,
           Len(p) > 1 => t[Front(p)].kind = "dir"
    PROVE  Over(t, p) = t
<1>1. ASSUME NEW q \in Paths, p \in Below(q) PROVE t[q].kind # "none"
  <2>1. Len(p) > 1 /\ Front(p) \in {q} \cup Below(q) /\ t[Front(p)].kind = "dir"
    BY <1>1, BelowFront
  <2>2. CASE Front(p) = q
    BY <2>1, <2>2
  <2>3. CASE Front(p) \in Below(q)
    <3>1. t[q].kind = "none" => t[Front(p)] = Absent(build)
      BY <2>3, NothingBelow
    <3> QED BY <2>1, <3>1, AbsentIs
  <2> QED BY <2>1, <2>2, <2>3
<1>2. t \in [Paths -> Entries]
  BY SoundIs
<1>3. \A q \in Paths : Over(t, p)[q] = t[q]
  BY <1>1, OverSound DEF Present
<1>4. Over(t, p) \in [Paths -> Entries]
  BY OverSound, SoundIs
<1> QED BY <1>2, <1>3, <1>4

\* One member where its directory stands: it meets a directory that is not empty, or it
\* is put in place and nothing else is told apart.
Meets(t, p, e) == t[p].kind = "dir" /\ e.kind # "dir" /\ Children(t, p) # {}

LEMMA MemberPlaced ==
    ASSUME build \in Builds, NEW s, s = [tree |-> s.tree, ok |-> s.ok], s.tree \in Sound(build),
           NEW p \in Paths, NEW e, Fits(build, p, e),
           Len(p) > 1 => s.tree[Front(p)].kind = "dir"
    PROVE  \/ /\ Meets(s.tree, p, e)
              /\ Extract1(s, p, e).tree = s.tree /\ Extract1(s, p, e).ok = FALSE
           \/ /\ ~Meets(s.tree, p, e)
              /\ Extract1(s, p, e).ok = s.ok /\ Same(Extract1(s, p, e).tree[p], e)
              /\ \A q \in Paths \ {p} : Same(Extract1(s, p, e).tree[q], s.tree[q])
<1> DEFINE t == s.tree
           fits == /\ IsDir(t, Front(p)) /\ p \in Paths
                   /\ t[p].kind = "dir" => e.kind = "dir" \/ Children(t, p) = {}
           w == [t EXCEPT ![p] = e]
           u == Bumped(w, p, Unpacked)
           put == IF Present(t, p) THEN w ELSE u
<1>1. Over(t, p) = t
  BY NothingOver
<1>2. RealDir(t, Front(p)) = Front(p) /\ RealPath(t, p) = p
  BY Straight
<1>3. Extract1(s, p, e) = IF fits THEN [s EXCEPT !.tree = put] ELSE [s EXCEPT !.ok = FALSE]
  <2> DEFINE up == [q \in Paths |-> IF p \in Below(q) /\ ~Present(s.tree, q)
                                   THEN New("dir", Unpacked, Nowhere) ELSE s.tree[q]]
  <2>1. up = t
    BY <1>1 DEF Over
  <2> HIDE DEF up
  <2>2. RealDir(up, Front(p)) = Front(p) /\ RealPath(up, p) = p
    BY <1>2, <2>1
  <2> QED BY <2>1, <2>2 DEF Extract1, up
<1>4. IsDir(t, Front(p))
  BY TopOrNot DEF IsDir
<1>5. fits <=> ~Meets(t, p, e)
  BY <1>4 DEF Meets
<1> HIDE DEF fits
<1>6. t \in [Paths -> Entries]
  BY SoundIs
<1>7. w[p] = e /\ \A q \in Paths \ {p} : w[q] = t[q]
  BY <1>6
<1>8. ASSUME fits PROVE w \in Sound(build)
  BY <1>8, PutSound DEF fits
<1> HIDE DEF w
<1>9. Unpacked \in Times
  BY SessionAssumption DEF Unpacked, Times
<1>10. ASSUME fits
       PROVE  /\ \A q \in Paths : u[q].kind = w[q].kind /\ u[q].to = w[q].to
              /\ \A q \in Paths : q # Front(p) => u[q] = w[q]
  <2>1. Len(p) > 1 => Present(w, Front(p))
    BY <1>7, FrontOther DEF Present
  <2> QED BY <1>8, <1>9, <1>10, <2>1, BumpSound
<1> HIDE DEF u
<1>11. ASSUME fits PROVE Same(put[p], e) /\ \A q \in Paths \ {p} : Same(put[q], t[q])
  <2>1. Front(p) # p
    BY TopOrNot
  <2>2. u[p] = e /\ w[p] = e
    BY <1>7, <1>10, <1>11, <2>1
  <2>3. ASSUME NEW q \in Paths \ {p} PROVE Same(u[q], t[q]) /\ Same(w[q], t[q])
    <3>1. CASE q # Front(p)
      BY <1>7, <1>10, <1>11, <3>1, SameIs
    <3>2. CASE q = Front(p)
      <4>1. t[q].kind = "dir"
        BY <3>2, TopOrNot
      <4>2. w[q] = t[q] /\ u[q].kind = "dir"
        BY <1>7, <1>10, <1>11, <4>1
      <4> QED BY <4>1, <4>2, SameIs
    <3> QED BY <3>1, <3>2
  <2> QED BY <2>2, <2>3, SameIs
<1> HIDE DEF put
<1>12. CASE fits
  BY <1>3, <1>5, <1>11, <1>12
<1>13. CASE ~fits
  BY <1>3, <1>5, <1>13
<1> QED BY <1>12, <1>13
-----------------------------------------------------------------------------
\* Since the tree t, files at most were written anew or removed.
Lost(t, u) == \A p \in Paths : \/ u[p].kind = t[p].kind
                               \/ t[p].kind = "file" /\ u[p].kind = "none"

AsShipped(b, t, p) == p \in walk(Image[b]) /\ Same(t[p], Image[b][p])

\* What pack's walk found on a machine of build b.
Found(b, then, members, deleted) ==
    /\ then \in Sound(b)
    /\ members \subseteq walk(then)
    /\ \A p \in walk(then) : p \in members \/ AsShipped(b, then, p)
    /\ deleted = walk(Image[b]) \ walk(then)

\* What an archive of build b tells of the machine it was made on.
Told(a, b) ==
    /\ a.then \in Sound(b) /\ a.saved \in Sound(b) /\ Lost(a.then, a.saved)
    /\ DOMAIN a.files \subseteq walk(a.then)
    /\ \A p \in DOMAIN a.files : Present(a.saved, p) /\ a.files[p] = a.saved[p]
    /\ \A p \in walk(a.then) : \/ p \in DOMAIN a.files \/ ~Present(a.saved, p)
                               \/ AsShipped(b, a.then, p)
    /\ a.deleted = walk(Image[b]) \ walk(a.then)

\* A member that is no directory meets a shipped directory that is not empty: tar fails at
\* it on a machine as shipped, and the deletions that would make room never come.
Stuck(a, b) == \E d \in DOMAIN a.files : a.files[d].kind # "dir" /\ Children(Image[b], d) # {}

\* Path by path a machine is as shipped or as the archive has it.
Between(a, b, t) ==
    \A p \in Paths : \/ Same(t[p], Image[b][p])
                     \/ p \in DOMAIN a.files /\ Same(t[p], a.files[p])
                     \/ p \in a.deleted /\ ~Present(t, p) /\ ~Stuck(a, b)

\* A walk that goes over a path goes over its directory.
LEMMA WalkedAbove ==
    ASSUME NEW b, NEW t \in Sound(b), NEW p \in Paths, Len(p) > 1,
           p[1] \in Roots, ~skip(p), Present(t, p)
    PROVE  Front(p) \in walk(t) /\ t[Front(p)].kind = "dir"
<1>1. Front(p) \in Paths /\ p \in Below(Front(p))
  BY FrontOther, BelowFront
<1>2. t[Front(p)].kind = "dir"
  BY SoundIs DEF Present
<1>3. Front(p)[1] = p[1]
  BY <1>1, BelowTop
<1>4. Front(p) \notin Skipped
  BY <1>1, SessionAssumption DEF skip
<1> QED BY <1>1, <1>2, <1>3, <1>4 DEF walk, skip, Present

\* The directory of a member was there: it is a member too, or as shipped.
LEMMA MemberAbove ==
    ASSUME NEW b, NEW a, Told(a, b), NEW p \in DOMAIN a.files, Len(p) > 1
    PROVE  /\ p \in Paths /\ Front(p) \in Paths /\ Front(p) \notin a.deleted
           /\ Front(p) \in DOMAIN a.files => a.files[Front(p)].kind = "dir"
           /\ Front(p) \notin DOMAIN a.files => Image[b][Front(p)].kind = "dir"
<1> DEFINE d == Front(p)
<1>1. p \in walk(a.then) /\ a.then \in Sound(b) /\ a.saved \in Sound(b)
  BY DEF Told
<1>2. p \in Paths /\ p[1] \in Roots /\ ~skip(p) /\ Present(a.then, p) /\ Present(a.saved, p)
  BY <1>1 DEF walk, Told
<1>3. d \in walk(a.then) /\ a.then[d].kind = "dir"
  BY <1>1, <1>2, WalkedAbove
<1>4. a.saved[d].kind = "dir"
  BY <1>1, <1>2, WalkedAbove
<1>5. d \in Paths
  BY <1>2, FrontOther
<1>6. Present(a.saved, d)
  BY <1>4 DEF Present
<1>7. d \in DOMAIN a.files => a.files[d] = a.saved[d]
  BY DEF Told
<1>8. d \notin DOMAIN a.files => AsShipped(b, a.then, d)
  BY <1>3, <1>6 DEF Told
<1>9. AsShipped(b, a.then, d) => Image[b][d].kind = "dir"
  BY <1>3, SameIs DEF AsShipped
<1>10. d \notin a.deleted
  BY <1>3 DEF Told
<1> QED BY <1>2, <1>4, <1>5, <1>7, <1>8, <1>9, <1>10

\* So it stands on every machine between the two, once it has been its own turn.
LEMMA MemberStands ==
    ASSUME NEW b, NEW a, Told(a, b), NEW t, Between(a, b, t),
           NEW p \in DOMAIN a.files, Len(p) > 1,
           Front(p) \in DOMAIN a.files => Same(t[Front(p)], a.files[Front(p)])
    PROVE  t[Front(p)].kind = "dir"
<1> DEFINE d == Front(p)
<1>1. /\ d \in Paths /\ d \notin a.deleted
      /\ d \in DOMAIN a.files => a.files[d].kind = "dir"
      /\ d \notin DOMAIN a.files => Image[b][d].kind = "dir"
  BY MemberAbove
<1>2. d \notin DOMAIN a.files => Same(t[d], Image[b][d])
  BY <1>1 DEF Between
<1> QED BY <1>1, <1>2, SameIs

\* A child of a path.
LEMMA ChildIs ==
    ASSUME NEW b, NEW t \in Sound(b), NEW p \in Paths, NEW c \in Children(t, p)
    PROVE  /\ c \in Paths /\ c \in Below(p) /\ Front(c) = p /\ Len(c) > 1
           /\ t[c].kind # "none" /\ t[p].kind = "dir" /\ c[1] = p[1]
<1>1. c \in Below(p) /\ Len(c) = Len(p) + 1 /\ t[c].kind # "none"
  BY DEF Children, Present
<1>2. c \in Paths /\ c[1] = p[1]
  BY <1>1, BelowTop
<1>3. Len(c) > 1 /\ Front(c) \in {p} \cup Below(p)
  BY <1>1, <1>2, BelowFront
<1>4. Len(c) = Len(Front(c)) + 1 /\ Front(c) \in Paths
  BY <1>2, <1>3, FrontOther
<1>5. Front(c) = p
  <2>1. Len(Front(c)) \in {1, 2, 3} /\ Len(p) \in {1, 2, 3}
    BY <1>4, Depths
  <2>2. \A i, j \in {1, 2, 3} : i + 1 = j + 1 => ~(i > j)
    OBVIOUS
  <2>3. ~(Len(Front(c)) > Len(p))
    BY <1>1, <1>4, <2>1, <2>2, Zenon
  <2> QED BY <1>3, <2>3, BelowTop
<1> QED BY <1>1, <1>2, <1>3, <1>5, SoundIs

\* A member that is no directory, where the image ships a directory with something in
\* it, meets that directory on every machine between the two.
LEMMA StuckMeets ==
    ASSUME build \in Builds, NEW a, Told(a, build), NEW t \in Sound(build), Between(a, build, t),
           NEW p \in DOMAIN a.files, a.files[p].kind # "dir", Children(Image[build], p) # {}
    PROVE  Meets(t, p, a.files[p])
<1>1. p \in Paths
  BY DEF Told, walk
<1>2. PICK c : c \in Children(Image[build], p)
  OBVIOUS
<1>3. /\ c \in Paths /\ c \in Below(p) /\ Front(c) = p /\ Len(c) > 1
      /\ Image[build][c].kind # "none"
  BY <1>1, <1>2, ShippedSound, ChildIs
<1>4. c \notin DOMAIN a.files
  BY <1>3, MemberAbove
<1>5. Stuck(a, build)
  BY DEF Stuck
<1>6. Same(t[c], Image[build][c])
  BY <1>3, <1>4, <1>5 DEF Between
<1>7. t[c].kind # "none"
  BY <1>3, <1>6, SameIs
<1>8. t[p].kind = "dir"
  BY <1>3, <1>7, SoundIs
<1>9. c \in Children(t, p)
  BY <1>2, <1>7 DEF Children, Present
<1> QED BY <1>8, <1>9 DEF Meets
\* What tar has done about a member, when it has come past it.
Dealt(a, b, s, p) ==
    /\ a.files[p].kind = "dir" \/ s.ok => Same(s.tree[p], a.files[p])
    /\ s.ok => a.files[p].kind = "dir" \/ Children(Image[b], p) = {}

\* One member, when its directory has been its turn.
LEMMA MemberDealt ==
    ASSUME build \in Builds, NEW a, Told(a, build),
           NEW s, s = [tree |-> s.tree, ok |-> s.ok], s.tree \in Sound(build), s.ok \in BOOLEAN,
           Between(a, build, s.tree), NEW p \in DOMAIN a.files, Fits(build, p, a.files[p]),
           Len(p) > 1 /\ Front(p) \in DOMAIN a.files => Dealt(a, build, s, Front(p)),
           NEW r, r = Extract1(s, p, a.files[p])
    PROVE  /\ Between(a, build, r.tree) /\ Dealt(a, build, r, p)
           /\ \A q \in DOMAIN a.files \ {p} : Dealt(a, build, s, q) => Dealt(a, build, r, q)
<1> DEFINE e == a.files[p]
<1>1. p \in Paths /\ DOMAIN a.files \subseteq Paths
  BY DEF Told, walk
<1>2. Len(p) > 1 => s.tree[Front(p)].kind = "dir"
  <2> SUFFICES ASSUME Len(p) > 1 PROVE s.tree[Front(p)].kind = "dir"
    OBVIOUS
  <2>1. ASSUME Front(p) \in DOMAIN a.files PROVE Same(s.tree[Front(p)], a.files[Front(p)])
    <3>1. a.files[Front(p)].kind = "dir"
      BY <2>1, MemberAbove
    <3> QED BY <2>1, <3>1 DEF Dealt
  <2> QED BY <2>1, MemberStands
<1>3. \/ Meets(s.tree, p, e) /\ r.tree = s.tree /\ r.ok = FALSE
      \/ /\ ~Meets(s.tree, p, e) /\ r.ok = s.ok /\ Same(r.tree[p], e)
         /\ \A q \in Paths \ {p} : Same(r.tree[q], s.tree[q])
  BY <1>1, <1>2, MemberPlaced
<1>4. CASE Meets(s.tree, p, e) /\ r.tree = s.tree /\ r.ok = FALSE
  BY <1>4 DEF Dealt, Meets
<1>5. CASE /\ ~Meets(s.tree, p, e) /\ r.ok = s.ok /\ Same(r.tree[p], e)
           /\ \A q \in Paths \ {p} : Same(r.tree[q], s.tree[q])
  <2>1. Between(a, build, r.tree)
    <3> SUFFICES ASSUME NEW q \in Paths
                 PROVE  \/ Same(r.tree[q], Image[build][q])
                        \/ q \in DOMAIN a.files /\ Same(r.tree[q], a.files[q])
                        \/ q \in a.deleted /\ ~Present(r.tree, q) /\ ~Stuck(a, build)
      BY DEF Between
    <3>1. q # p => Same(r.tree[q], s.tree[q])
      BY <1>5
    <3>2. \/ Same(s.tree[q], Image[build][q])
          \/ q \in DOMAIN a.files /\ Same(s.tree[q], a.files[q])
          \/ q \in a.deleted /\ ~Present(s.tree, q) /\ ~Stuck(a, build)
      BY DEF Between
    <3> QED BY <1>5, <3>1, <3>2, SameIs DEF Present
  <2>2. Dealt(a, build, r, p)
    <3>1. e.kind # "dir" => Children(Image[build], p) = {}
      BY <1>5, StuckMeets
    <3> QED BY <1>5, <3>1 DEF Dealt
  <2>3. ASSUME NEW q \in DOMAIN a.files \ {p}, Dealt(a, build, s, q) PROVE Dealt(a, build, r, q)
    <3>1. Same(r.tree[q], s.tree[q])
      BY <1>1, <1>5
    <3> QED BY <1>5, <2>3, <3>1, SameIs DEF Dealt
  <2> QED BY <2>1, <2>2, <2>3
<1> QED BY <1>3, <1>4, <1>5

\* Tar among the first k paths of the archive.
Going(a, b, s, k) ==
    Between(a, b, s.tree) /\ \A j \in 1..k : Order[j] \in DOMAIN a.files => Dealt(a, b, s, Order[j])

LEMMA ExtractGoes ==
    ASSUME build \in Builds, NEW a, Told(a, build), Carries(build, a.files),
           NEW L, NEW t, t \in After(build, t, L), Between(a, build, t),
           \A l \in DOMAIN a.files : a.files[l].kind = "link" => a.files[l].to \in L,
           NEW n \in 0..Len(Order)
    PROVE  Going(a, build, Extract(t, a.files, n), n)
<1>1. n \in Nat /\ Len(Order) \in Nat
  BY OrderIs
<1>2. PICK h : Extracting(h, t, L, a.files, n)
  BY <1>1, ExtractSteps
<1>3. h[0].tree = t /\ Going(a, build, h[0], 0)
  BY <1>2 DEF Extracting, Going
<1> DEFINE T == {k \in Nat : k <= n => Going(a, build, h[k], k)}
<1>4. ASSUME NEW k \in Nat, k + 1 <= n, Going(a, build, h[k], k)
      PROVE  Going(a, build, h[k + 1], k + 1)
  <2> DEFINE s == h[k]
             r == h[k + 1]
             p == Order[k + 1]
  <2>1. k + 1 \in 1..n /\ k \in 0..n /\ (k + 1) - 1 = k /\ k + 1 \in 1..Len(Order)
    BY <1>1, <1>4
  <2>2. r = IF p \in DOMAIN a.files THEN Extract1(s, p, a.files[p]) ELSE s
    BY <1>2, <2>1 DEF Extracting
  <2>3. s \in [tree : After(build, t, L), ok : BOOLEAN]
    BY <1>2, <2>1 DEF Extracting
  <2>4. s = [tree |-> s.tree, ok |-> s.ok] /\ s.tree \in Sound(build) /\ s.ok \in BOOLEAN
    BY <2>3 DEF After
  <2>5. Between(a, build, s.tree)
        /\ \A j \in 1..k : Order[j] \in DOMAIN a.files => Dealt(a, build, s, Order[j])
    BY <1>4 DEF Going
  <2>6. p \in Paths
    BY <2>1, OrderIs
  <2> HIDE DEF s, r, p
  <2>7. CASE p \notin DOMAIN a.files
    <3>1. r = s
      BY <2>2, <2>7
    <3>2. \A j \in 1..(k + 1) : j \in 1..k \/ Order[j] = p
      BY DEF p
    <3>3. Going(a, build, r, k + 1)
      BY <2>5, <2>7, <3>1, <3>2 DEF Going
    <3> QED BY <3>3 DEF r
  <2>8. CASE p \in DOMAIN a.files
    <3>1. ASSUME Len(p) > 1, Front(p) \in DOMAIN a.files PROVE Dealt(a, build, s, Front(p))
      <4>1. Front(p) \in Paths
        BY <2>6, <3>1, FrontOther
      <4>2. PICK i \in 1..Len(Order) : Order[i] = Front(p)
        BY <4>1, SessionAssumption DEF Paths, Range
      <4>3. i \in DOMAIN Order /\ k + 1 \in DOMAIN Order
        BY <2>1, <4>2, SessionAssumption
      <4>4. i < k + 1
        BY <4>2, <4>3, SessionAssumption DEF p
      <4>5. i \in 1..k
        BY <4>2, <4>4
      <4> QED BY <2>5, <3>1, <4>2, <4>5
    <3>2. Fits(build, p, a.files[p])
      BY <2>8 DEF Carries
    <3>3. r = Extract1(s, p, a.files[p])
      BY <2>2, <2>8
    <3>4. /\ Between(a, build, r.tree) /\ Dealt(a, build, r, p)
          /\ \A q \in DOMAIN a.files \ {p} : Dealt(a, build, s, q) => Dealt(a, build, r, q)
      BY <2>4, <2>5, <2>8, <3>1, <3>2, <3>3, MemberDealt
    <3>5. \A j \in 1..(k + 1) : j \in 1..k \/ Order[j] = p
      BY DEF p
    <3>6. Going(a, build, r, k + 1)
      BY <2>5, <3>4, <3>5 DEF Going
    <3> QED BY <3>6 DEF r
  <2> QED BY <2>7, <2>8
<1>5. Nat \subseteq T
  <2>1. 0 \in T
    BY <1>3
  <2>2. ASSUME NEW k \in Nat, k \in T PROVE k + 1 \in T
    <3>1. k + 1 <= n => k <= n
      BY <1>1
    <3> QED BY <1>4, <2>2, <3>1
  <2> HIDE DEF T
  <2> QED BY <2>1, <2>2, AllNumbers
<1>6. Going(a, build, h[n], n)
  BY <1>1, <1>5
<1> QED BY <1>2, <1>6 DEF Extracting

\* A machine between the two stays there, whatever is unpacked; when tar gets through,
\* every member is in place and none met a directory.
LEMMA ExtractBetween ==
    ASSUME build \in Builds, NEW a, Told(a, build), Carries(build, a.files),
           NEW L, NEW t, t \in After(build, t, L), Between(a, build, t),
           \A l \in DOMAIN a.files : a.files[l].kind = "link" => a.files[l].to \in L,
           NEW r, r = Extract(t, a.files, Len(Order)), r.ok
    PROVE  /\ Between(a, build, r.tree) /\ ~Stuck(a, build)
           /\ \A p \in DOMAIN a.files : Same(r.tree[p], a.files[p])
<1>1. Len(Order) \in 0..Len(Order)
  BY OrderIs
<1>2. Going(a, build, r, Len(Order))
  BY <1>1, ExtractGoes
<1>3. ASSUME NEW p \in DOMAIN a.files PROVE Dealt(a, build, r, p)
  <2>1. p \in Paths
    BY DEF Told, walk
  <2>2. PICK i \in 1..Len(Order) : Order[i] = p
    BY <2>1, SessionAssumption DEF Paths, Range
  <2> QED BY <1>2, <2>2 DEF Going
<1> QED BY <1>2, <1>3 DEF Going, Dealt, Stuck-----------------------------------------------------------------------------
\* The deletions have nothing left to do about a path: it is gone, or it is a root, or
\* something the image ships and skip() names keeps it.
Settled(a, b, t, p) ==
    p \in a.deleted /\ Len(p) > 1 /\ (\A q \in Below(p) \cap Skipped : ~Present(Image[b], q))
        => ~Present(t, p)

\* The members are in place.
InPlace(a, t) == \A p \in DOMAIN a.files : Same(t[p], a.files[p])

\* A path of the deletion list is where it says: no member put a link above it.
LEMMA DeletedStraight ==
    ASSUME build \in Builds, NEW a, Told(a, build), ~Stuck(a, build),
           NEW t \in Sound(build), Between(a, build, t), NEW p \in a.deleted
    PROVE  /\ p \in Paths /\ p \notin DOMAIN a.files /\ ~skip(p) /\ p[1] \in Roots
           /\ RealPath(t, p) = p /\ RealDir(t, Front(p)) = Front(p)
<1>1. p \in walk(Image[build]) /\ p \notin walk(a.then)
  BY DEF Told
<1>2. p \in Paths /\ ~skip(p) /\ p[1] \in Roots /\ Present(Image[build], p)
  BY <1>1 DEF walk
<1>3. p \notin DOMAIN a.files
  BY <1>1 DEF Told
<1>4. ASSUME Len(p) > 1 PROVE t[Front(p)].kind # "link"
  <2> DEFINE d == Front(p)
  <2>1. d \in Paths /\ p \in Below(d) /\ Len(p) = Len(d) + 1
    BY <1>2, <1>4, FrontOther, BelowFront
  <2>2. p \in Children(Image[build], d) /\ Image[build][d].kind = "dir"
    BY <1>2, <1>4, <2>1, ShippedSound, SoundIs DEF Children, Present
  <2>3. d \in DOMAIN a.files => a.files[d].kind = "dir"
    BY <2>2 DEF Stuck
  <2>4. \/ Same(t[d], Image[build][d])
        \/ d \in DOMAIN a.files /\ Same(t[d], a.files[d])
        \/ t[d].kind = "none"
    BY <2>1 DEF Between, Present
  <2> QED BY <2>2, <2>3, <2>4, SameIs
<1>5. RealPath(t, p) = p /\ RealDir(t, Front(p)) = Front(p)
  BY <1>2, <1>4, Straight
<1> QED BY <1>2, <1>3, <1>5

\* What is in the way of a deletion is something skip() names, when what is listed below
\* it has been its turn.
LEMMA NothingLeft ==
    ASSUME build \in Builds, NEW a, Told(a, build), NEW t \in Sound(build), Between(a, build, t),
           NEW p \in a.deleted, \A q \in Below(p) \cap Skipped : ~Present(Image[build], q),
           \A c \in Below(p) : c \in a.deleted /\ Front(c) = p => Settled(a, build, t, c)
    PROVE  Children(t, p) = {}
<1> SUFFICES ASSUME NEW c \in Children(t, p) PROVE FALSE
  OBVIOUS
<1>1. p \in walk(Image[build]) /\ p \notin walk(a.then) /\ a.then \in Sound(build)
  BY DEF Told
<1>2. p \in Paths /\ ~skip(p) /\ p[1] \in Roots /\ Present(Image[build], p)
  BY <1>1 DEF walk
<1>3. /\ c \in Paths /\ c \in Below(p) /\ Front(c) = p /\ Len(c) > 1
      /\ t[c].kind # "none" /\ c[1] = p[1]
  BY <1>2, ChildIs
<1>4. c \notin walk(a.then)
  <2> SUFFICES ASSUME c \in walk(a.then) PROVE FALSE
    OBVIOUS
  <2>1. c[1] \in Roots /\ ~skip(c) /\ Present(a.then, c)
    BY DEF walk
  <2> QED BY <1>1, <1>3, <2>1, WalkedAbove
<1>5. c \notin DOMAIN a.files
  BY <1>4 DEF Told
<1>6. Same(t[c], Image[build][c])
  BY <1>3, <1>5 DEF Between, Present
<1>7. Present(Image[build], c)
  BY <1>3, <1>6, SameIs DEF Present
<1>8. ~skip(c)
  BY <1>3, <1>7 DEF skip
<1>9. c \in a.deleted
  BY <1>2, <1>3, <1>4, <1>7, <1>8 DEF Told, walk
<1>10. \A q \in Below(c) : q \in Below(p)
  BY <1>2, <1>3, BelowBelow
<1>11. Settled(a, build, t, c)
  BY <1>3, <1>9
<1>12. ~Present(t, c)
  BY <1>3, <1>9, <1>10, <1>11 DEF Settled
<1> QED BY <1>3, <1>12 DEF Present

\* One deletion: the path goes, or stays, and nothing else is told apart.
LEMMA DeletionStep ==
    ASSUME build \in Builds, NEW t \in Sound(build), NEW p \in Paths,
           RealPath(t, p) = p, RealDir(t, Front(p)) = Front(p), ~skip(p), p[1] \in Roots,
           NEW u, u = Delete1(t, p)
    PROVE  /\ \A q \in Paths \ {p} : Same(u[q], t[q])
           /\ Same(u[p], t[p]) \/ ~Present(u, p)
           /\ Len(p) > 1 /\ Children(t, p) = {} => ~Present(u, p)
<1> DEFINE goes == /\ contained(t, p) /\ Present(t, p)
                   /\ t[p].kind = "dir" => Children(t, p) = {}
           v == Removed(t, p, Unpacked)
<1>1. u = IF goes THEN v ELSE t
  BY DEF Delete1
<1>2. ASSUME Len(p) > 1 PROVE contained(t, p)
  <2>1. Front(p) \in Paths /\ p \in Below(Front(p))
    BY <1>2, FrontOther, BelowFront
  <2>2. Front(p)[1] = p[1] /\ Front(p) # Nowhere
    BY <2>1, BelowTop, NoTop
  <2> QED BY <2>2 DEF contained
<1>3. CASE ~goes
  BY <1>1, <1>2, <1>3, SameIs
<1>4. CASE goes
  <2>1. Unpacked \in Times
    BY SessionAssumption DEF Unpacked, Times
  <2>2. /\ v \in Sound(build)
        /\ \A r \in {p} \cup Below(p) : v[r] = Absent(build)
        /\ \A r \in Paths \ ({p} \cup Below(p)) : v[r].kind = t[r].kind /\ v[r].to = t[r].to
        /\ \A r \in Paths \ ({p} \cup Below(p)) : r # Front(p) => v[r] = t[r]
    BY <1>4, <2>1, RemoveSound
  <2> HIDE DEF v
  <2>3. \A r \in Below(p) : t[r] = Absent(build)
    BY <1>4, NothingBelow
  <2>4. ~Present(v, p)
    BY <2>2, AbsentIs DEF Present
  <2>5. ASSUME NEW q \in Paths \ {p} PROVE Same(v[q], t[q])
    <3>1. CASE q \in Below(p)
      BY <2>2, <2>3, <3>1, SameIs
    <3>2. CASE q \notin Below(p) /\ q # Front(p)
      BY <2>2, <3>2, SameIs
    <3>3. CASE q \notin Below(p) /\ q = Front(p)
      <4>1. Len(p) > 1 /\ t[p].kind # "none"
        BY <1>4, <3>3, TopOrNot DEF Present
      <4>2. t[q].kind = "dir"
        BY <3>3, <4>1, SoundIs
      <4>3. v[q].kind = "dir"
        BY <2>2, <3>3, <4>2
      <4> QED BY <4>2, <4>3, SameIs
    <3> QED BY <3>1, <3>2, <3>3
  <2> QED BY <1>1, <1>4, <2>4, <2>5
<1> QED BY <1>3, <1>4

\* The deletions, come as far as the k-th path from the end.
Clearing(a, b, t, n, k) ==
    /\ Between(a, b, t) /\ InPlace(a, t)
    /\ \A j \in 1..k : Settled(a, b, t, Order[n + 1 - j])

LEMMA DeleteClears ==
    ASSUME build \in Builds, NEW a, Told(a, build), ~Stuck(a, build),
           NEW t0, NEW L, NEW t \in After(build, t0, L), Between(a, build, t), InPlace(a, t)
    PROVE  Clearing(a, build, Delete(t, a.deleted), Len(Order), Len(Order))
<1>1. PICK n \in Nat : n = Len(Order)
  BY OrderIs
<1>2. PICK h : Deleting(h, t0, L, t, a.deleted, n)
  BY <1>1, DeleteSteps
<1>3. h[0] = t /\ Clearing(a, build, h[0], n, 0)
  BY <1>2 DEF Deleting, Clearing
<1> DEFINE T == {k \in Nat : k <= n => Clearing(a, build, h[k], n, k)}
<1>4. ASSUME NEW k \in Nat, k + 1 <= n, Clearing(a, build, h[k], n, k)
      PROVE  Clearing(a, build, h[k + 1], n, k + 1)
  <2> DEFINE s == h[k]
             u == h[k + 1]
             i == n + 1 - (k + 1)
             p == Order[i]
  <2>1. k + 1 \in 1..n /\ k \in 0..n /\ (k + 1) - 1 = k /\ i \in 1..n
    BY <1>4
  <2>2. u = IF p \in a.deleted THEN Delete1(s, p) ELSE s
    BY <1>2, <2>1 DEF Deleting
  <2>3. s \in Sound(build)
    BY <1>2, <2>1 DEF Deleting, After
  <2>4. /\ Between(a, build, s) /\ InPlace(a, s)
        /\ \A j \in 1..k : Settled(a, build, s, Order[n + 1 - j])
    BY <1>4 DEF Clearing
  <2>5. p \in Paths /\ i \in DOMAIN Order
    BY <1>1, <2>1, OrderIs, SessionAssumption
  <2>6. \A j \in 1..(k + 1) : j \in 1..k \/ Order[n + 1 - j] = p
    OBVIOUS
  <2>7. ASSUME NEW c \in Below(p), Front(c) = p PROVE Settled(a, build, s, c)
    <3>1. c \in Paths
      BY <2>5, BelowTop
    <3>2. PICK m \in 1..n : Order[m] = c
      BY <1>1, <3>1, SessionAssumption DEF Paths, Range
    <3>3. m \in DOMAIN Order
      BY <1>1, <3>2, SessionAssumption
    <3>4. i < m
      BY <2>5, <2>7, <3>2, <3>3, SessionAssumption
    <3>5. n + 1 - m \in 1..k /\ n + 1 - (n + 1 - m) = m
      BY <3>2, <3>4
    <3> QED BY <2>4, <3>2, <3>5
  <2> HIDE DEF s, u, p, i
  <2>8. CASE p \notin a.deleted
    <3>1. u = s
      BY <2>2, <2>8
    <3>2. Settled(a, build, s, p)
      BY <2>8 DEF Settled
    <3>3. Clearing(a, build, u, n, k + 1)
      BY <2>4, <2>6, <3>1, <3>2 DEF Clearing
    <3> QED BY <3>3 DEF u
  <2>9. CASE p \in a.deleted
    <3>1. /\ p \notin DOMAIN a.files /\ ~skip(p) /\ p[1] \in Roots
          /\ RealPath(s, p) = p /\ RealDir(s, Front(p)) = Front(p)
      BY <2>3, <2>4, <2>9, DeletedStraight
    <3>2. u = Delete1(s, p)
      BY <2>2, <2>9
    <3>3. /\ \A q \in Paths \ {p} : Same(u[q], s[q])
          /\ Same(u[p], s[p]) \/ ~Present(u, p)
          /\ Len(p) > 1 /\ Children(s, p) = {} => ~Present(u, p)
      BY <2>3, <2>5, <3>1, <3>2, DeletionStep
    <3>4. Between(a, build, u)
      <4> SUFFICES ASSUME NEW q \in Paths
                   PROVE  \/ Same(u[q], Image[build][q])
                          \/ q \in DOMAIN a.files /\ Same(u[q], a.files[q])
                          \/ q \in a.deleted /\ ~Present(u, q) /\ ~Stuck(a, build)
        BY DEF Between
      <4>1. \/ Same(s[q], Image[build][q])
            \/ q \in DOMAIN a.files /\ Same(s[q], a.files[q])
            \/ q \in a.deleted /\ ~Present(s, q) /\ ~Stuck(a, build)
        BY <2>4 DEF Between
      <4>2. Same(u[q], s[q]) \/ (q = p /\ ~Present(u, q))
        BY <3>3
      <4> QED BY <2>9, <4>1, <4>2, SameIs DEF Present
    <3>5. InPlace(a, u)
      <4>1. DOMAIN a.files \subseteq Paths
        BY DEF Told, walk
      <4> QED BY <2>4, <3>1, <3>3, <4>1, SameIs DEF InPlace
    <3>6. Settled(a, build, u, p)
      <4> SUFFICES ASSUME Len(p) > 1, \A q \in Below(p) \cap Skipped : ~Present(Image[build], q)
                   PROVE  ~Present(u, p)
        BY DEF Settled
      <4>1. Children(s, p) = {}
        BY <2>3, <2>4, <2>7, <2>9, NothingLeft
      <4> QED BY <3>3, <4>1
    <3>7. ASSUME NEW q \in Paths, q # p, Settled(a, build, s, q) PROVE Settled(a, build, u, q)
      <4>1. Same(u[q], s[q])
        BY <3>3, <3>7
      <4> QED BY <3>7, <4>1, SameIs DEF Settled, Present
    <3>8. \A j \in 1..k : Order[n + 1 - j] \in Paths
      <4>1. \A j \in 1..k : n + 1 - j \in 1..n
        BY <2>1
      <4> QED BY <1>1, <4>1, OrderIs
    <3>9. \A j \in 1..(k + 1) : Settled(a, build, u, Order[n + 1 - j])
      BY <2>4, <2>6, <3>6, <3>7, <3>8
    <3>10. Clearing(a, build, u, n, k + 1)
      BY <3>4, <3>5, <3>9 DEF Clearing
    <3> QED BY <3>10 DEF u
  <2> QED BY <2>8, <2>9
<1>5. Nat \subseteq T
  <2>1. 0 \in T
    BY <1>3
  <2>2. ASSUME NEW k \in Nat, k \in T PROVE k + 1 \in T
    <3>1. k + 1 <= n => k <= n
      BY <1>1
    <3> QED BY <1>4, <2>2, <3>1
  <2> HIDE DEF T
  <2> QED BY <2>1, <2>2, AllNumbers
<1>6. Clearing(a, build, h[n], n, n)
  BY <1>5
<1> QED BY <1>1, <1>2, <1>6 DEF Deleting
\* A machine that is settled has what the archive tells, path by path.
LEMMA BroughtBack ==
    ASSUME build \in Builds, NEW a, Told(a, build), NEW u, Between(a, build, u), InPlace(a, u),
           NEW p \in Paths, Len(p) > 1, p[1] \in Roots, ~skip(p), Settled(a, build, u, p)
    PROVE  \/ Same(u[p], a.saved[p])
           \/ Same(u[p], a.then[p])
           \/ /\ ~Present(a.saved, p) /\ Same(u[p], Image[build][p])
              /\ \/ Present(a.then, p)
                 \/ \E q \in Below(p) \cap Skipped : Present(Image[build], q)
<1>1. \/ Same(u[p], Image[build][p])
      \/ p \in DOMAIN a.files /\ Same(u[p], a.files[p])
      \/ p \in a.deleted /\ ~Present(u, p)
  BY DEF Between
<1>2. CASE p \in walk(a.then)
  <2>1. p \notin a.deleted /\ Present(a.then, p)
    BY <1>2 DEF Told, walk
  <2>2. CASE p \in DOMAIN a.files
    BY <2>2 DEF InPlace, Told
  <2>3. CASE p \notin DOMAIN a.files /\ ~Present(a.saved, p)
    BY <1>1, <2>1, <2>3
  <2>4. CASE p \notin DOMAIN a.files /\ AsShipped(build, a.then, p)
    <3>1. Same(u[p], Image[build][p]) /\ Same(a.then[p], Image[build][p])
      BY <1>1, <2>1, <2>4 DEF AsShipped
    <3> QED BY <3>1, SameIs
  <2> QED BY <1>2, <2>2, <2>3, <2>4 DEF Told
<1>3. CASE p \notin walk(a.then)
  <2>1. p \notin DOMAIN a.files /\ ~Present(a.then, p)
    BY <1>3 DEF Told, walk
  <2>2. ~Present(a.saved, p)
    BY <2>1 DEF Told, Lost, Present
  <2>3. ~Present(u, p) => Same(u[p], a.saved[p])
    BY <2>2, SameIs DEF Present
  <2>4. CASE Present(u, p)
    <3>1. Same(u[p], Image[build][p])
      BY <1>1, <2>1, <2>4
    <3>2. Present(Image[build], p)
      BY <2>4, <3>1, SameIs DEF Present
    <3>3. p \in a.deleted
      BY <1>3, <3>2 DEF Told, walk
    <3>4. \E q \in Below(p) \cap Skipped : Present(Image[build], q)
      BY <2>4, <3>3 DEF Settled
    <3> QED BY <2>2, <3>1, <3>4
  <2> QED BY <2>3, <2>4
<1> QED BY <1>2, <1>3
-----------------------------------------------------------------------------
(***************************************************************************)
(* Stamps: one of the image's tells what was there.                        *)
(***************************************************************************)
\* What an entry with a stamp of the image is.
Known(e) == e.kind # "none" /\ e.ver.n \notin 1..(MaxEdits + 1) =>
                \E b \in Builds, q \in Paths : e = Image[b][q]

AllKnown(t) == \A p \in Paths : Known(t[p])

LEMMA KnownIs ==
    /\ \A b : Known(Absent(b))
    /\ \A kind, to : \A n \in 1..(MaxEdits + 1) : Known(New(kind, n, to))
    /\ Unpacked \in 1..(MaxEdits + 1)
<1>1. Unpacked \in 1..(MaxEdits + 1)
  BY Bounds DEF Unpacked
<1> QED BY <1>1 DEF Known, Absent, New

LEMMA BumpKnown ==
    ASSUME NEW t \in [Paths -> Entries], AllKnown(t), NEW p, NEW n \in 1..(MaxEdits + 1)
    PROVE  AllKnown(Bumped(t, p, n))
<1>1. CASE Len(p) = 1
  BY <1>1 DEF Bumped
<1>2. CASE Len(p) # 1
  <2> DEFINE d == Front(p)
             v == [by |-> build, n |-> n]
             u == [t EXCEPT ![d].ver = v]
  <2>1. Bumped(t, p, n) = u
    BY <1>2 DEF Bumped
  <2>2. v.n = n
    OBVIOUS
  <2> HIDE DEF v
  <2>3. \A q \in Paths : u[q] = t[q] \/ u[q].ver = v
    BY DEF Entries
  <2>4. AllKnown(u)
    BY <2>2, <2>3 DEF AllKnown, Known
  <2> QED BY <2>1, <2>4
<1> QED BY <1>1, <1>2

LEMMA RemoveKnown ==
    ASSUME build \in Builds, NEW t \in [Paths -> Entries], AllKnown(t), NEW p, NEW n \in 1..(MaxEdits + 1)
    PROVE  AllKnown(Removed(t, p, n))
<1> DEFINE v == [q \in Paths |-> IF q = p \/ q \in Below(p) THEN Absent(build) ELSE t[q]]
<1>1. v \in [Paths -> Entries]
  BY AbsentIs
<1>2. \A q \in Paths : v[q] = Absent(build) \/ v[q] = t[q]
  OBVIOUS
<1>3. Removed(t, p, n) = Bumped(v, p, n)
  BY DEF Removed
<1> HIDE DEF v
<1>4. AllKnown(v)
  BY <1>2, KnownIs DEF AllKnown
<1> QED BY <1>1, <1>3, <1>4, BumpKnown

LEMMA PutKnown ==
    ASSUME NEW t \in [Paths -> Entries], AllKnown(t), NEW p, NEW e \in Entries, Known(e)
    PROVE  [t EXCEPT ![p] = e] \in [Paths -> Entries] /\ AllKnown([t EXCEPT ![p] = e])
<1> DEFINE u == [t EXCEPT ![p] = e]
<1>1. u \in [Paths -> Entries] /\ \A q \in Paths : u[q] = e \/ u[q] = t[q]
  OBVIOUS
<1> HIDE DEF u
<1>2. AllKnown(u)
  BY <1>1 DEF AllKnown
<1> QED BY <1>1, <1>2 DEF u

LEMMA MemberKnown ==
    ASSUME build \in Builds, NEW s, s = [tree |-> s.tree, ok |-> s.ok], s.tree \in Sound(build),
           AllKnown(s.tree), NEW p \in Paths, NEW e \in Entries, Known(e)
    PROVE  AllKnown(Extract1(s, p, e).tree)
<1> DEFINE up == Over(s.tree, p)
           q == RealPath(up, p)
           w == [up EXCEPT ![q] = e]
<1>1. Extract1(s, p, e).tree \in {s.tree, w, Bumped(w, q, Unpacked)}
  BY DEF Extract1, Over
<1>2. up \in [Paths -> Entries]
  BY OverSound, SoundIs
<1>3. \A r \in Paths : up[r] = s.tree[r] \/ up[r] = New("dir", Unpacked, Nowhere)
  BY DEF Over
<1> HIDE DEF up, q
<1>4. AllKnown(up)
  BY <1>3, KnownIs DEF AllKnown
<1>5. w \in [Paths -> Entries] /\ AllKnown(w)
  BY <1>2, <1>4, PutKnown
<1> HIDE DEF w
<1>6. AllKnown(Bumped(w, q, Unpacked))
  BY <1>5, KnownIs, BumpKnown
<1> QED BY <1>1, <1>5, <1>6

LEMMA DeletionKnown ==
    ASSUME build \in Builds, NEW t \in Sound(build), AllKnown(t), NEW p
    PROVE  AllKnown(Delete1(t, p))
<1> DEFINE q == RealPath(t, p)
<1>1. Delete1(t, p) \in {t, Removed(t, q, Unpacked)}
  BY DEF Delete1
<1> HIDE DEF q
<1>2. AllKnown(Removed(t, q, Unpacked))
  BY KnownIs, RemoveKnown, SoundIs
<1> QED BY <1>1, <1>2

LEMMA ExtractKnown ==
    ASSUME build \in Builds, NEW L, NEW t, t \in After(build, t, L), AllKnown(t),
           NEW files, Carries(build, files), \A l \in DOMAIN files : Known(files[l]),
           \A l \in DOMAIN files : files[l].kind = "link" => files[l].to \in L,
           NEW n \in 0..Len(Order)
    PROVE  AllKnown(Extract(t, files, n).tree)
<1>1. n \in Nat /\ Len(Order) \in Nat
  BY OrderIs
<1>2. PICK h : Extracting(h, t, L, files, n)
  BY <1>1, ExtractSteps
<1> DEFINE S == {s \in [tree : Sound(build), ok : BOOLEAN] : AllKnown(s.tree)}
<1>3. h[0] \in S
  BY <1>2 DEF Extracting, After
<1>4. ASSUME NEW k \in 1..n, h[k - 1] \in S PROVE h[k] \in S
  <2> DEFINE s == h[k - 1]
             r == h[k]
             p == Order[k]
  <2>1. r = IF p \in DOMAIN files THEN Extract1(s, p, files[p]) ELSE s
    BY <1>2 DEF Extracting
  <2>2. r \in [tree : After(build, t, L), ok : BOOLEAN]
    <3>1. k \in 0..n
      OBVIOUS
    <3> QED BY <1>2, <3>1 DEF Extracting
  <2>3. r \in [tree : Sound(build), ok : BOOLEAN]
    BY <2>2 DEF After
  <2>4. s \in S
    BY <1>4
  <2>5. s = [tree |-> s.tree, ok |-> s.ok] /\ s.tree \in Sound(build) /\ AllKnown(s.tree)
    BY <2>4
  <2>6. p \in Paths
    BY <1>1, OrderIs
  <2> HIDE DEF s, p
  <2>7. AllKnown(r.tree)
    <3>1. CASE p \in DOMAIN files
      <4>1. files[p] \in Entries /\ Known(files[p])
        BY <3>1 DEF Carries, Fits
      <4>2. r = Extract1(s, p, files[p])
        BY <2>1, <3>1
      <4> QED BY <2>5, <2>6, <4>1, <4>2, MemberKnown
    <3>2. CASE p \notin DOMAIN files
      BY <2>1, <2>5, <3>2
    <3> QED BY <3>1, <3>2
  <2> QED BY <2>3, <2>7
<1> HIDE DEF S
<1>5. h[n] \in S
  <2>1. \A k \in 0..n : h[k] \in S
    BY <1>1, <1>3, <1>4, StepsStay
  <2> QED BY <1>1, <2>1
<1> QED BY <1>2, <1>5 DEF S, Extracting

LEMMA DeleteKnown ==
    ASSUME build \in Builds, NEW t0, NEW L, NEW t \in After(build, t0, L), AllKnown(t), NEW deleted
    PROVE  AllKnown(Delete(t, deleted))
<1>1. PICK n \in Nat : n = Len(Order)
  BY OrderIs
<1>2. PICK h : Deleting(h, t0, L, t, deleted, n)
  BY <1>1, DeleteSteps
<1> DEFINE S == {u \in Sound(build) : AllKnown(u)}
<1>3. h[0] \in S
  BY <1>2 DEF Deleting, After
<1>4. ASSUME NEW k \in 1..n, h[k - 1] \in S PROVE h[k] \in S
  <2> DEFINE s == h[k - 1]
             p == Order[n + 1 - k]
  <2>1. h[k] = IF p \in deleted THEN Delete1(s, p) ELSE s
    BY <1>2 DEF Deleting
  <2>2. h[k] \in Sound(build)
    <3>1. k \in 0..n
      OBVIOUS
    <3> QED BY <1>2, <3>1 DEF Deleting, After
  <2>3. s \in Sound(build) /\ AllKnown(s)
    BY <1>4
  <2> HIDE DEF s, p
  <2>4. AllKnown(h[k])
    BY <2>1, <2>3, DeletionKnown
  <2> QED BY <2>2, <2>4
<1> HIDE DEF S
<1>5. h[n] \in S
  <2>1. \A k \in 0..n : h[k] \in S
    BY <1>3, <1>4, StepsStay
  <2> QED BY <2>1
<1> QED BY <1>1, <1>2, <1>5 DEF S, Deleting-----------------------------------------------------------------------------
(***************************************************************************)
(* The invariant: stamps tell what they should, a pack under way and an    *)
(* archive tell of the machine they were made on, and what only unpacks    *)
(* changed since it was shipped lies between the image and the archive.    *)
(***************************************************************************)
StampInv ==
    AllKnown(tree) /\ (arch # None => \A p \in DOMAIN arch.files : Known(arch.files[p]))

WalkInv ==
    pend # None /\ pend.id # NoBuild =>
        /\ build \notin OldBuilds
        /\ Found(build, pend.then, pend.members, pend.deleted)
        /\ Lost(pend.then, tree)

MadeInv ==
    arch # None /\ arch.id # NoBuild => arch.id \in Builds \ OldBuilds /\ Told(arch, arch.id)

FreshInv == clean /\ arch # None /\ arch.id = build => Between(arch, build, tree)

RestoreInv == StampInv /\ WalkInv /\ MadeInv /\ FreshInv /\ RoundTrip

LEMMA RestoreInit == Init => RestoreInv
<1> SUFFICES ASSUME Init PROVE RestoreInv
  OBVIOUS
<1>1. AllKnown(tree)
  BY DEF Init, AllKnown, Known
<1>2. pend = None /\ arch = None /\ report # "restored"
  BY DEF Init
<1> QED BY <1>1, <1>2 DEF RestoreInv, StampInv, WalkInv, MadeInv, FreshInv, RoundTrip

\* What changes neither the archive nor the pack, and leaves the tree or marks it.
LEMMA Aside ==
    ASSUME RestoreInv, arch' = arch, build' = build, report' # "restored", AllKnown(tree'),
           pend' = pend, pend # None => Lost(tree, tree'),
           (tree' = tree /\ clean' = clean) \/ ~clean'
    PROVE  RestoreInv'
<1>1. StampInv'
  BY DEF RestoreInv, StampInv
<1>2. WalkInv'
  BY DEF RestoreInv, WalkInv, Lost
<1>3. MadeInv' /\ RoundTrip'
  BY DEF RestoreInv, MadeInv, RoundTrip
<1>4. FreshInv'
  BY DEF RestoreInv, FreshInv
<1> QED BY <1>1, <1>2, <1>3, <1>4 DEF RestoreInv

\* The walk: what the stamps do not tell from the baseline is as shipped.
LEMMA WalkRestore ==
    ASSUME SessionInv, RestoreInv, PackWalk
    PROVE  RestoreInv'
<1>1. build \in Builds /\ tree \in Sound(build) /\ AllKnown(tree)
  BY DEF SessionInv, CountsInv, TreeInv, RestoreInv, StampInv
<1>2. ASSUME NEW p \in walk(Image[build]), p \in walk(tree), tree[p].ver = Image[build][p].ver
      PROVE  Same(tree[p], Image[build][p])
  <2>1. p \in Paths /\ Present(Image[build], p) /\ tree[p].kind # "none"
    BY <1>2 DEF walk, Present
  <2>2. Image[build][p].ver.n \notin 1..(MaxEdits + 1)
    BY <1>1, <2>1, StampAssumption
  <2>3. Known(tree[p])
    BY <1>1, <2>1 DEF AllKnown
  <2>4. PICK b \in Builds, q \in Paths : tree[p] = Image[b][q]
    BY <1>2, <2>1, <2>2, <2>3 DEF Known
  <2>5. Image[b][q].ver.by = b /\ Image[build][p].ver.by = build
    BY <1>1, <2>1, SessionAssumption
  <2>6. b = build
    BY <1>2, <2>4, <2>5
  <2>7. Present(Image[build], q) /\ Image[build][q].ver = Image[build][p].ver
    BY <1>2, <2>1, <2>4, <2>6 DEF Present
  <2>8. Same(Image[build][q], Image[build][p])
    BY <1>1, <2>1, <2>7, StampAssumption
  <2> QED BY <2>4, <2>6, <2>8
<1>3. WalkInv'
  <2> SUFFICES ASSUME pend'.id # NoBuild
               PROVE  /\ build \notin OldBuilds
                      /\ Found(build, pend'.then, pend'.members, pend'.deleted)
                      /\ Lost(pend'.then, tree)
    BY DEF WalkInv, PackWalk
  <2>1. /\ pend'.then = tree /\ pend'.deleted = baseline \ walk(tree) /\ pend'.id = build_id
        /\ pend'.members = {p \in walk(tree) : p \notin baseline \/ tree[p].ver # Image[build][p].ver}
    BY DEF PackWalk, changed_system_paths
  <2>2. base /\ build \notin OldBuilds
    BY <2>1 DEF build_id
  <2>3. baseline = walk(Image[build])
    BY <2>2 DEF baseline
  <2>4. \A p \in walk(tree) : p \in pend'.members \/ AsShipped(build, tree, p)
    BY <1>2, <2>1, <2>3 DEF AsShipped
  <2> QED BY <1>1, <2>1, <2>2, <2>3, <2>4 DEF Found, Lost
<1>4. StampInv' /\ MadeInv' /\ FreshInv' /\ RoundTrip'
  BY DEF PackWalk, RestoreInv, StampInv, MadeInv, FreshInv, RoundTrip
<1> QED BY <1>3, <1>4 DEF RestoreInv

\* tar: the archive tells of this machine.
LEMMA TarRestore ==
    ASSUME SessionInv, RestoreInv, PackTar
    PROVE  RestoreInv'
<1> DEFINE there == {p \in pend.members : Present(tree, p)}
<1>1. /\ arch'.files = [p \in there |-> tree[p]] /\ arch'.deleted = pend.deleted
      /\ arch'.id = pend.id /\ arch'.then = pend.then /\ arch'.saved = tree
      /\ pend # None /\ pend' = None /\ tree' = tree /\ build' = build /\ ~clean' /\ report' # "restored"
  BY DEF PackTar
<1>2. build \in Builds /\ tree \in Sound(build) /\ AllKnown(tree) /\ there \subseteq Paths
  BY <1>1 DEF SessionInv, CountsInv, TreeInv, PendInv, RestoreInv, StampInv
<1>3. StampInv'
  BY <1>1, <1>2 DEF StampInv, AllKnown
<1>4. MadeInv'
  <2> SUFFICES ASSUME pend.id # NoBuild
               PROVE  pend.id \in Builds \ OldBuilds /\ Told(arch', pend.id)
    BY <1>1 DEF MadeInv
  <2>1. /\ pend.id = build /\ build \notin OldBuilds
        /\ Found(build, pend.then, pend.members, pend.deleted) /\ Lost(pend.then, tree)
    BY <1>1 DEF RestoreInv, WalkInv, SessionInv, PendInv
  <2>2. DOMAIN arch'.files = there /\ \A p \in there : arch'.files[p] = tree[p]
    BY <1>1
  <2> HIDE DEF there
  <2>3. there \subseteq pend.members /\ \A p \in pend.members : p \in there \/ ~Present(tree, p)
    BY DEF there
  <2>4. \A p \in there : Present(tree, p)
    BY DEF there
  <2>5. Told(arch', build)
    BY <1>1, <1>2, <2>1, <2>2, <2>3, <2>4 DEF Told, Found
  <2> QED BY <1>2, <2>1, <2>5
<1>5. WalkInv' /\ FreshInv' /\ RoundTrip'
  BY <1>1 DEF WalkInv, FreshInv, RoundTrip
<1> QED BY <1>3, <1>4, <1>5 DEF RestoreInv

\* An unpack knows the stamps it writes.
LEMMA UnpackKnown ==
    ASSUME SessionInv, RestoreInv, Unpack
    PROVE  AllKnown(tree')
<1>1. /\ build \in Builds /\ AllKnown(tree) /\ tree \in After(build, tree, Targets)
      /\ arch # None => \A p \in DOMAIN arch.files : Known(arch.files[p])
  BY ItselfAfter DEF SessionInv, CountsInv, RestoreInv, StampInv
<1>2. ASSUME arch # None, ~Refuses(arch), Full(arch), NEW n \in 0..Len(Order)
      PROVE  /\ AllKnown(Extract(tree, arch.files, n).tree)
             /\ Extract(tree, arch.files, n).tree \in After(build, tree, Targets)
  <2>1. Carries(build, arch.files)
    BY <1>2, PassesOwn DEF SessionInv
  <2>2. \A l \in DOMAIN arch.files : arch.files[l].kind = "link" => arch.files[l].to \in Targets
    BY DEF Targets
  <2>3. AllKnown(Extract(tree, arch.files, n).tree)
    BY <1>1, <1>2, <2>1, <2>2, ExtractKnown
  <2>4. Extract(tree, arch.files, n) \in [tree : After(build, tree, Targets), ok : BOOLEAN]
    <3>1. n \in Nat
      BY OrderIs
    <3> QED BY <1>1, <2>1, <2>2, <3>1, ExtractAfter
  <2> QED BY <2>3, <2>4
<1>3. CASE UnpackRefused \/ UnpackHome
  BY <1>1, <1>3 DEF UnpackRefused, UnpackHome
<1>4. CASE UnpackFull
  <2>1. PICK s : s = Extract(tree, arch.files, Len(Order))
    OBVIOUS
  <2>2. AllKnown(s.tree) /\ s.tree \in After(build, tree, Targets)
    <3>1. Len(Order) \in 0..Len(Order)
      BY OrderIs
    <3> QED BY <1>2, <1>4, <2>1, <3>1 DEF UnpackFull
  <2>3. tree' \in {s.tree, Delete(s.tree, Deletions(arch))}
    BY <1>4, <2>1 DEF UnpackFull
  <2>4. AllKnown(Delete(s.tree, Deletions(arch)))
    BY <1>1, <2>2, DeleteKnown
  <2> QED BY <2>2, <2>3, <2>4
<1>5. CASE UnpackDies
  <2>1. CASE Full(arch)
    <3>1. PICK n \in DOMAIN Order : tree' = Extract(tree, arch.files, n - 1).tree
      BY <1>5, <2>1 DEF UnpackDies
    <3>2. n - 1 \in 0..Len(Order)
      <4>1. n \in 1..Len(Order)
        BY SessionAssumption
      <4> QED BY <4>1, OrderIs
    <3> QED BY <1>2, <1>5, <2>1, <3>1, <3>2 DEF UnpackDies
  <2>2. CASE ~Full(arch)
    BY <1>1, <1>5, <2>2 DEF UnpackDies
  <2> QED BY <2>1, <2>2
<1> QED BY <1>3, <1>4, <1>5 DEF Unpack

\* On a machine as shipped an unpack keeps between the two, and one that reports success
\* brings everything back.
LEMMA FreshUnpack ==
    ASSUME SessionInv, RestoreInv, clean, arch # None, arch.id = build, ~Refuses(arch), Full(arch)
    PROVE  /\ build \notin OldBuilds
           /\ \A n \in 0..Len(Order) : Between(arch, build, Extract(tree, arch.files, n).tree)
           /\ LET s == Extract(tree, arch.files, Len(Order))
              IN  s.ok => Clearing(arch, build, Delete(s.tree, Deletions(arch)), Len(Order), Len(Order))
<1>1. /\ build \in Builds /\ arch.id # NoBuild /\ tree \in After(build, tree, Targets)
  BY ItselfAfter, SessionAssumption DEF SessionInv, CountsInv
<1>2. build \notin OldBuilds /\ Told(arch, build) /\ Between(arch, build, tree)
  BY <1>1 DEF RestoreInv, MadeInv, FreshInv
<1>3. Carries(build, arch.files)
  BY PassesOwn DEF SessionInv
<1>4. \A l \in DOMAIN arch.files : arch.files[l].kind = "link" => arch.files[l].to \in Targets
  BY DEF Targets
<1>5. ASSUME NEW n \in 0..Len(Order) PROVE Between(arch, build, Extract(tree, arch.files, n).tree)
  <2>1. Going(arch, build, Extract(tree, arch.files, n), n)
    BY <1>1, <1>2, <1>3, <1>4, ExtractGoes
  <2> QED BY <2>1 DEF Going
<1>6. PICK s : s = Extract(tree, arch.files, Len(Order))
  OBVIOUS
<1>7. ASSUME s.ok
      PROVE  Clearing(arch, build, Delete(s.tree, Deletions(arch)), Len(Order), Len(Order))
  <2>1. /\ Between(arch, build, s.tree) /\ ~Stuck(arch, build) /\ InPlace(arch, s.tree)
    BY <1>1, <1>2, <1>3, <1>4, <1>6, <1>7, ExtractBetween DEF InPlace
  <2>2. s.tree \in After(build, tree, Targets)
    <3>1. s \in [tree : After(build, tree, Targets), ok : BOOLEAN]
      BY <1>1, <1>3, <1>4, <1>6, OrderIs, ExtractAfter
    <3> QED BY <3>1
  <2>3. Deletions(arch) = arch.deleted
    BY <1>2 DEF Deletions, Full
  <2>4. Clearing(arch, build, Delete(s.tree, arch.deleted), Len(Order), Len(Order))
    BY <1>1, <1>2, <2>1, <2>2, DeleteClears
  <2> QED BY <2>3, <2>4
<1> QED BY <1>2, <1>5, <1>6, <1>7

LEMMA FullRestore ==
    ASSUME SessionInv, RestoreInv, UnpackFull
    PROVE  RestoreInv'
<1>1. PICK s : s = Extract(tree, arch.files, Len(Order))
  OBVIOUS
<1>2. /\ \/ s.ok /\ tree' = Delete(s.tree, Deletions(arch)) /\ report' = "restored"
         \/ ~s.ok /\ tree' = s.tree /\ report' = "failed"
      /\ pend = None /\ arch # None /\ ~Refuses(arch) /\ Full(arch) /\ home' = arch.home
      /\ build' = build /\ pend' = pend /\ arch' = arch /\ clean' = clean
  BY <1>1 DEF UnpackFull
<1>3. StampInv' /\ WalkInv' /\ MadeInv'
  <2>1. AllKnown(tree')
    BY UnpackKnown DEF Unpack
  <2> QED BY <1>2, <2>1 DEF RestoreInv, StampInv, WalkInv, MadeInv
<1>4. ASSUME clean, arch.id = build
      PROVE  /\ Between(arch, build, tree')
             /\ s.ok => Clearing(arch, build, tree', Len(Order), Len(Order))
  <2>1. /\ \A n \in 0..Len(Order) : Between(arch, build, Extract(tree, arch.files, n).tree)
        /\ s.ok => Clearing(arch, build, Delete(s.tree, Deletions(arch)), Len(Order), Len(Order))
    BY <1>1, <1>2, <1>4, FreshUnpack
  <2>2. Between(arch, build, s.tree)
    <3>1. Len(Order) \in 0..Len(Order)
      BY OrderIs
    <3> QED BY <1>1, <2>1, <3>1
  <2> QED BY <1>2, <2>1, <2>2 DEF Clearing
<1>5. FreshInv'
  BY <1>2, <1>4 DEF FreshInv
<1>6. ASSUME report' = "restored", clean, build \notin OldBuilds,
             NEW p \in Paths, Len(p) > 1, p[1] \in Roots, ~skip(p)
      PROVE  \/ Same(tree'[p], arch.saved[p])
             \/ Same(tree'[p], arch.then[p])
             \/ /\ ~Present(arch.saved, p) /\ Same(tree'[p], Image[build][p])
                /\ \/ Present(arch.then, p)
                   \/ \E q \in Below(p) \cap Skipped : Present(Image[build], q)
  <2>1. arch.id = build /\ arch.id # NoBuild
    <3>1. build_id \in {build, NoBuild}
      BY DEF build_id
    <3> QED BY <1>2, <1>6, <3>1 DEF Full
  <2>2. Clearing(arch, build, tree', Len(Order), Len(Order))
    BY <1>2, <1>4, <1>6, <2>1
  <2>3. build \in Builds /\ Told(arch, build)
    BY <1>2, <2>1 DEF RestoreInv, MadeInv, SessionInv, CountsInv
  <2>4. Between(arch, build, tree') /\ InPlace(arch, tree')
    BY <2>2 DEF Clearing
  <2>5. Settled(arch, build, tree', p)
    <3>1. PICK n \in Nat : n = Len(Order)
      BY OrderIs
    <3>2. PICK i \in 1..n : Order[i] = p
      BY <3>1, SessionAssumption DEF Paths, Range
    <3>3. n + 1 - i \in 1..n /\ n + 1 - (n + 1 - i) = i
      OBVIOUS
    <3>4. \A j \in 1..n : Settled(arch, build, tree', Order[n + 1 - j])
      BY <2>2, <3>1 DEF Clearing
    <3>5. Settled(arch, build, tree', Order[n + 1 - (n + 1 - i)])
      BY <3>3, <3>4
    <3> QED BY <3>2, <3>3, <3>5
  <2> QED BY <1>6, <2>3, <2>4, <2>5, BroughtBack
<1>7. RoundTrip'
  <2>1. (arch.home)' = arch.home /\ (arch.saved)' = arch.saved /\ (arch.then)' = arch.then
    BY <1>2
  <2> QED BY <1>2, <1>6, <2>1 DEF RoundTrip, Present
<1> QED BY <1>3, <1>5, <1>7 DEF RestoreInv

LEMMA DiesRestore ==
    ASSUME SessionInv, RestoreInv, UnpackDies
    PROVE  RestoreInv'
<1>1. /\ pend = None /\ arch # None /\ ~Refuses(arch) /\ report' # "restored"
      /\ build' = build /\ pend' = pend /\ arch' = arch /\ clean' = clean
  BY DEF UnpackDies
<1>2. AllKnown(tree')
  BY UnpackKnown DEF Unpack
<1>3. StampInv' /\ WalkInv' /\ MadeInv' /\ RoundTrip'
  BY <1>1, <1>2 DEF RestoreInv, StampInv, WalkInv, MadeInv, RoundTrip
<1>4. ASSUME clean, arch.id = build PROVE Between(arch, build, tree')
  <2>1. CASE Full(arch)
    <3>1. PICK n \in DOMAIN Order : tree' = Extract(tree, arch.files, n - 1).tree
      BY <2>1 DEF UnpackDies
    <3>2. n - 1 \in 0..Len(Order)
      <4>1. n \in 1..Len(Order)
        BY SessionAssumption
      <4> QED BY <4>1, OrderIs
    <3> QED BY <1>1, <1>4, <2>1, <3>1, <3>2, FreshUnpack
  <2>2. CASE ~Full(arch)
    <3>1. tree' = tree
      BY <2>2 DEF UnpackDies
    <3> QED BY <1>1, <1>4, <3>1 DEF RestoreInv, FreshInv
  <2> QED BY <2>1, <2>2
<1>5. FreshInv'
  BY <1>1, <1>4 DEF FreshInv
<1> QED BY <1>3, <1>5 DEF RestoreInv
\* The edits: each marks the tree, and while a pack runs each keeps to files.
LEMMA EditsRestore ==
    ASSUME SessionInv, RestoreInv, NEW p \in Paths, Write(p) \/ Mkdir(p) \/ RemoveAll(p)
    PROVE  RestoreInv'
<1> DEFINE n == edits + 1
<1>1. /\ build \in Builds /\ tree \in Sound(build) /\ AllKnown(tree)
      /\ tree \in [Paths -> Entries]
  BY SoundIs DEF SessionInv, CountsInv, TreeInv, RestoreInv, StampInv
<1>2. edits < MaxEdits => n \in 1..(MaxEdits + 1) /\ n \in Times
  BY Bounds DEF SessionInv, CountsInv, Times
<1> HIDE DEF n
<1>3. ASSUME NEW t, Edit(t), AllKnown(t), pend # None => Lost(tree, t) PROVE RestoreInv'
  <2>1. /\ arch' = arch /\ build' = build /\ pend' = pend /\ ~clean' /\ tree' = t
        /\ report' # "restored"
    BY <1>3 DEF Edit
  <2> QED BY <1>3, <2>1, Aside
<1>4. ASSUME NEW kind \in {"file", "dir"}, NEW t, n \in 1..(MaxEdits + 1), n \in Times,
             t = [tree EXCEPT ![p] = New(kind, n, Nowhere)]
      PROVE  AllKnown(t) /\ AllKnown(Bumped(t, p, n)) /\ t[p].kind = kind
             /\ \A q \in Paths \ {p} : t[q] = tree[q]
  <2>1. PICK e : e = New(kind, n, Nowhere)
    OBVIOUS
  <2>2. e \in Entries /\ Known(e) /\ e.kind = kind
    <3>1. kind \in Kinds /\ Nowhere \in Paths \cup {Nowhere}
      BY DEF Kinds
    <3> QED BY <1>1, <1>4, <2>1, <3>1, NewIs, KnownIs
  <2>3. t = [tree EXCEPT ![p] = e]
    BY <1>4, <2>1
  <2>4. t \in [Paths -> Entries] /\ AllKnown(t)
    BY <1>1, <2>2, <2>3, PutKnown
  <2>5. AllKnown(Bumped(t, p, n))
    BY <1>4, <2>4, BumpKnown
  <2> QED BY <1>1, <2>2, <2>3, <2>4, <2>5
<1>5. CASE Write(p)
  <2>1. PICK t : t = [tree EXCEPT ![p] = New("file", n, Nowhere)]
    OBVIOUS
  <2>2. PICK u : Edit(u) /\ u = IF Present(tree, p) THEN t ELSE Bumped(t, p, n)
    BY <1>5, <2>1 DEF Write, n
  <2>3. n \in 1..(MaxEdits + 1) /\ n \in Times
    BY <1>2, <2>2 DEF Edit
  <2>4. /\ AllKnown(t) /\ AllKnown(Bumped(t, p, n)) /\ t[p].kind = "file"
        /\ \A q \in Paths \ {p} : t[q] = tree[q]
    BY <1>4, <2>1, <2>3
  <2>5. pend # None => Lost(tree, u)
    <3>1. pend # None => tree[p].kind = "file"
      BY <1>5 DEF Write, MayEdit
    <3>2. pend # None => u = t
      BY <2>2, <3>1 DEF Present
    <3> QED BY <2>4, <3>1, <3>2 DEF Lost
  <2> QED BY <1>3, <2>2, <2>4, <2>5
<1>6. CASE Mkdir(p)
  <2>1. PICK t : t = [tree EXCEPT ![p] = New("dir", n, Nowhere)]
    OBVIOUS
  <2>2. Edit(Bumped(t, p, n)) /\ pend = None
    BY <1>6, <2>1 DEF Mkdir, n
  <2>3. n \in 1..(MaxEdits + 1) /\ n \in Times
    BY <1>2, <2>2 DEF Edit
  <2>4. AllKnown(Bumped(t, p, n))
    BY <1>4, <2>1, <2>3
  <2> QED BY <1>3, <2>2, <2>4
<1>7. CASE RemoveAll(p)
  <2>1. PICK u : u = Removed(tree, p, n)
    OBVIOUS
  <2>2. Edit(u) /\ Present(tree, p) /\ MayEdit(p)
    BY <1>7, <2>1 DEF RemoveAll, n
  <2>3. n \in 1..(MaxEdits + 1) /\ n \in Times
    BY <1>2, <2>2 DEF Edit
  <2>4. AllKnown(u)
    BY <1>1, <2>1, <2>3, RemoveKnown
  <2>5. ASSUME pend # None PROVE Lost(tree, u)
    <3>1. tree[p].kind = "file"
      BY <2>2, <2>5 DEF MayEdit
    <3>2. \A q \in Below(p) : tree[q] = Absent(build)
      BY <1>1, <3>1, NothingBelow
    <3>3. /\ \A q \in {p} \cup Below(p) : u[q] = Absent(build)
          /\ \A q \in Paths \ ({p} \cup Below(p)) : u[q].kind = tree[q].kind
      BY <1>1, <2>1, <2>2, <2>3, RemoveSound
    <3> QED BY <1>1, <3>1, <3>2, <3>3, AbsentIs DEF Lost
  <2> QED BY <1>3, <2>2, <2>4, <2>5
<1> QED BY <1>5, <1>6, <1>7

LEMMA MoveRestore ==
    ASSUME SessionInv, RestoreInv, NEW d \in Paths, NEW e \in Paths, MoveAndLink(d, e)
    PROVE  RestoreInv'
<1> DEFINE n == edits + 1
<1>1. PICK v : v = [p \in Paths |->
                   IF p = d THEN New("link", n, e)
                   ELSE IF p = e THEN tree[d]
                   ELSE IF p \in Below(d) THEN Absent(build)
                   ELSE IF p \in Below(e) /\ Append(d, Last(p)) \in Paths
                        THEN tree[Append(d, Last(p))]
                   ELSE tree[p]]
  OBVIOUS
<1>2. PICK u : u = Bumped(Bumped(v, d, n), e, n) /\ Edit(u) /\ pend = None
  BY <1>1 DEF MoveAndLink
<1>3. /\ build \in Builds /\ tree \in Sound(build) /\ AllKnown(tree)
      /\ tree \in [Paths -> Entries]
  BY SoundIs DEF SessionInv, CountsInv, TreeInv, RestoreInv, StampInv
<1>4. n \in 1..(MaxEdits + 1) /\ n \in Times
  BY <1>2, Bounds DEF Edit, SessionInv, CountsInv, Times
<1> HIDE DEF n
<1>5. PICK l : l = New("link", n, e)
  OBVIOUS
<1>6. l \in Entries /\ Known(l)
  <2>1. "link" \in Kinds
    BY DEF Kinds
  <2> QED BY <1>3, <1>4, <1>5, <2>1, NewIs, KnownIs
<1>7. \A p \in Paths : v[p] = l \/ v[p] = Absent(build) \/ \E q \in Paths : v[p] = tree[q]
  BY <1>1, <1>5
<1>8. v \in [Paths -> Entries]
  <2>1. \A p \in Paths : v[p] \in Entries
    BY <1>3, <1>6, <1>7, AbsentIs
  <2> QED BY <1>1, <2>1
<1>9. AllKnown(v)
  BY <1>3, <1>6, <1>7, KnownIs DEF AllKnown
<1>10. PICK w : w = Bumped(v, d, n)
  OBVIOUS
<1>11. w \in [Paths -> Entries] /\ AllKnown(w)
  <2>1. AllKnown(w)
    BY <1>4, <1>8, <1>9, <1>10, BumpKnown
  <2>2. w = v \/ w = [v EXCEPT ![Front(d)].ver = [by |-> build, n |-> n]]
    BY <1>10 DEF Bumped
  <2>3. [v EXCEPT ![Front(d)].ver = [by |-> build, n |-> n]] \in [Paths -> Entries]
    <3>1. PICK x : x = [by |-> build, n |-> n]
      OBVIOUS
    <3>2. x \in Vers
      BY <1>3, <1>4, <3>1 DEF Vers
    <3>3. [v EXCEPT ![Front(d)].ver = x] \in [Paths -> Entries]
      BY <1>8, <3>2 DEF Entries
    <3> QED BY <3>1, <3>3
  <2> QED BY <1>8, <2>1, <2>2, <2>3
<1>12. AllKnown(u)
  BY <1>2, <1>4, <1>10, <1>11, BumpKnown
<1>13. /\ arch' = arch /\ build' = build /\ pend' = pend /\ ~clean' /\ tree' = u
       /\ report' # "restored"
  BY <1>2 DEF Edit
<1> QED BY <1>2, <1>12, <1>13, Aside

LEMMA OthersRestore ==
    ASSUME SessionInv, RestoreInv,
           UnpackRefused \/ UnpackHome \/ EditHome \/ LoseBaseline \/ Boot \/ SpoilArchive
    PROVE  RestoreInv'
<1>1. AllKnown(tree) /\ Lost(tree, tree)
  BY DEF RestoreInv, StampInv, Lost
<1>2. CASE UnpackRefused \/ UnpackHome \/ EditHome \/ LoseBaseline
  <2>1. /\ arch' = arch /\ build' = build /\ pend' = pend /\ tree' = tree
        /\ clean' = clean \/ ~clean'
        /\ report' # "restored"
    BY <1>2 DEF UnpackRefused, UnpackHome, EditHome, LoseBaseline
  <2> QED BY <1>1, <2>1, Aside
<1>3. CASE Boot
  <2>1. /\ build' \in Builds /\ tree' = Image[build'] /\ pend' = None /\ arch' = arch
        /\ report' # "restored"
    BY <1>3 DEF Boot
  <2>2. StampInv' /\ FreshInv'
    BY <2>1, SameIs DEF RestoreInv, StampInv, AllKnown, Known, FreshInv, Between
  <2>3. WalkInv' /\ MadeInv' /\ RoundTrip'
    BY <2>1 DEF RestoreInv, WalkInv, MadeInv, RoundTrip
  <2> QED BY <2>2, <2>3 DEF RestoreInv
<1>4. CASE SpoilArchive
  <2>1. PICK s : arch' = [arch EXCEPT !.session = s]
    BY <1>4 DEF SpoilArchive
  <2>2. /\ arch # None /\ pend = None /\ pend' = pend /\ build' = build /\ tree' = tree /\ clean' = clean
        /\ report' # "restored"
    BY <1>4 DEF SpoilArchive
  <2>3. /\ arch'.files = arch.files /\ arch'.deleted = arch.deleted /\ arch'.id = arch.id
        /\ arch'.then = arch.then /\ arch'.saved = arch.saved
    BY <2>1, <2>2 DEF SessionInv, ArchInv
  <2>4. \A b : Told(arch, b) => Told(arch', b)
    BY <2>3 DEF Told
  <2>5. Between(arch, build, tree) => Between(arch', build, tree)
    BY <2>3 DEF Between, Stuck
  <2>6. StampInv' /\ WalkInv' /\ RoundTrip'
    BY <2>2, <2>3 DEF RestoreInv, StampInv, WalkInv, RoundTrip
  <2>7. MadeInv' /\ FreshInv'
    BY <2>2, <2>3, <2>4, <2>5 DEF RestoreInv, MadeInv, FreshInv
  <2> QED BY <2>6, <2>7 DEF RestoreInv
<1> QED BY <1>2, <1>3, <1>4

LEMMA RestoreNext == SessionInv /\ RestoreInv /\ [Next]_vars => RestoreInv'
<1> SUFFICES ASSUME SessionInv, RestoreInv, [Next]_vars PROVE RestoreInv'
  OBVIOUS
<1>1. CASE PackWalk
  BY <1>1, WalkRestore
<1>2. CASE PackTar
  BY <1>2, TarRestore
<1>3. CASE UnpackFull
  BY <1>3, FullRestore
<1>4. CASE UnpackDies
  BY <1>4, DiesRestore
<1>5. CASE \E p \in Paths : Write(p) \/ Mkdir(p) \/ RemoveAll(p)
  BY <1>5, EditsRestore
<1>6. CASE \E d, e \in Paths : MoveAndLink(d, e)
  BY <1>6, MoveRestore
<1>7. CASE UnpackRefused \/ UnpackHome \/ EditHome \/ LoseBaseline \/ Boot \/ SpoilArchive
  BY <1>7, OthersRestore
<1>8. CASE UNCHANGED vars
  BY <1>8 DEF vars, RestoreInv, StampInv, WalkInv, MadeInv, FreshInv, RoundTrip
<1> QED BY <1>1, <1>2, <1>3, <1>4, <1>5, <1>6, <1>7, <1>8 DEF Next

\* A restore that reports success on a machine as shipped brings back every file, link
\* and removal that the archive tells of, for any trees a build ships, any edits, packs
\* with jobs editing under them, and restores of the archive that stopped before it.
THEOREM SessionComesBack == Spec => []RoundTrip
<1>1. RestoreInv => RoundTrip
  BY DEF RestoreInv
<1> QED BY <1>1, RestoreInit, RestoreNext, SessionAlways, PTL DEF Spec
=============================================================================
