---------------------------- MODULE AssetsProofs ----------------------------
(***************************************************************************)
(* No page is given a file of another release, for every number of         *)
(* releases and visitors and whatever the releases hold; and a range is    *)
(* exactly what was asked for.                                             *)
(***************************************************************************)
EXTENDS Assets, Sequences, TLAPS

\* Every function is one of its arguments: what an update needs to know.
Shape ==
    /\ page = [v \in Visitors |-> page[v]]
    /\ browser = [v \in Visitors |-> browser[v]]
    /\ got = [v \in Visitors |-> got[v]]
    /\ \A v \in Visitors : got[v] = [f \in Files |-> got[v][f]]

\* What a release means by a name.
Means(n, b) == \A f \in Files, r \in 1..Last : n = Name(f, r) => b = Bytes(f, r)

\* A cache holds under a name the whole of what every release means by it.
TrueCopies(c) ==
    \A n \in DOMAIN c : \A f \in Files, r \in 1..Last : n = Name(f, r) => c[n] = Whole(Bytes(f, r))

\* Releases are the ones that are made, and so for the bucket, the edge, the copies on
\* the way there and every browser: the reason why no copy is ever stale.
Truth ==
    /\ served \in 0..Last /\ \A v \in Visitors : page[v] \in 0..Last
    /\ \A n \in DOMAIN bucket : Means(n, bucket[n])
    /\ TrueCopies(edge)
    /\ \A p \in puts : \A f \in Files, r \in 1..Last : p[1] = Name(f, r) => p[2] = Whole(Bytes(f, r))
    /\ \A v \in Visitors : TrueCopies(browser[v])

IInv == Shape /\ Truth /\ OneRelease

\* A name stands for the same bytes in every release that has it: the engine's by its
\* content, the set's by the rule about its tag.
LEMMA NamesTell ==
    ASSUME NEW f \in Files, NEW r \in 1..Last PROVE Means(Name(f, r), Bytes(f, r))
  <1> SUFFICES ASSUME NEW g \in Files, NEW s \in 1..Last, Name(f, r) = Name(g, s)
               PROVE  Bytes(f, r) = Bytes(g, s)
    BY DEF Means
  <1>1. f = g
    BY DEF Name
  <1>2. CASE f = "engine"
    BY <1>1, <1>2 DEF Name, Bytes
  <1>3. CASE f # "engine"
    <2>1. Tag[r] = Tag[s]
      BY <1>1, <1>3 DEF Name
    <2> QED BY <1>1, <1>3, <2>1, TagRule DEF Bytes
  <1> QED BY <1>2, <1>3

\* One more true copy, or some copies less, leaves the copies true.
LEMMA WithKeeps ==
    ASSUME NEW c, NEW f \in Files, NEW r \in 1..Last, TrueCopies(c)
    PROVE  TrueCopies(With(c, Name(f, r), Whole(Bytes(f, r))))
  BY NamesTell DEF TrueCopies, With, Means

LEMMA LessKeeps == ASSUME NEW c, NEW S, S \subseteq DOMAIN c, TrueCopies(c)
                   PROVE  TrueCopies(Restrict(c, S))
  BY DEF TrueCopies, Restrict

LEMMA TruthInit == Init => IInv
  BY AssetsAssumption DEF Init, IInv, Shape, Truth, OneRelease, TrueCopies

\* A body that is the whole of what is meant may come to a loader.
LEMMA ComesKeeps ==
    ASSUME NEW v \in Visitors, NEW f \in Files, NEW body, IInv,
           page[v] # 0, body = Whole(Bytes(f, page[v])), Comes(v, f, body)
    PROVE  /\ Shape' /\ OneRelease' /\ UNCHANGED <<bucket, edge>>
           /\ \A u \in Visitors : TrueCopies(browser'[u])
  <1> USE DEF IInv, Shape
  <1>1. page' = page /\ UNCHANGED <<bucket, edge>>
    BY DEF Comes, site
  <1>2. got' = [got EXCEPT ![v][f] = {body}]
    BY DEF Comes
  <1>3. browser' = [browser EXCEPT ![v] = With(browser[v], Name(f, page[v]), body)]
    BY DEF Comes
  <1>4. Shape'
    BY <1>1, <1>2, <1>3
  <1>5. OneRelease'
    BY <1>1, <1>2 DEF OneRelease
  <1>6. ASSUME NEW u \in Visitors PROVE TrueCopies(browser'[u])
    <2>1. TrueCopies(With(browser[v], Name(f, page[v]), body))
      BY WithKeeps DEF Truth
    <2> QED BY <1>3, <2>1 DEF Truth
  <1> QED BY <1>1, <1>4, <1>5, <1>6

LEMMA TruthNext == IInv /\ [Next]_vars => IInv'
  <1> SUFFICES ASSUME IInv, [Next]_vars PROVE IInv'
    OBVIOUS
  <1>1. ASSUME NEW f \in Files, Upload(f) PROVE IInv'
    <2>1. \A n \in DOMAIN bucket' : Means(n, bucket'[n])
      <3>1. Means(Name(f, served + 1), Bytes(f, served + 1))
        BY <1>1, NamesTell, AssetsAssumption DEF Upload, IInv, Truth
      <3> QED BY <1>1, <3>1 DEF Upload, With, IInv, Truth
    <2> QED BY <1>1, <2>1 DEF Upload, caches, IInv, Shape, Truth, OneRelease
  <1>2. CASE Deploy
    <2>1. served' \in 0..Last
      BY <1>2, AssetsAssumption DEF Deploy, IInv, Truth
    <2> QED BY <1>2, <2>1 DEF Deploy, caches, IInv, Shape, Truth, OneRelease
  <1>3. CASE Delete
    <2>1. \A n \in DOMAIN bucket' : Means(n, bucket'[n])
      BY <1>3 DEF Delete, Restrict, IInv, Truth
    <2> QED BY <1>3, <2>1 DEF Delete, caches, IInv, Shape, Truth, OneRelease
  <1>4. CASE PutSettled
    <2>1. PICK p \in puts : puts' = puts \ {p} /\ edge' \in {edge, With(edge, p[1], p[2])}
      BY <1>4 DEF PutSettled
    <2>2. TrueCopies(edge')
      BY <2>1 DEF TrueCopies, With, IInv, Truth
    <2> QED BY <1>4, <2>1, <2>2 DEF PutSettled, site, IInv, Shape, Truth, OneRelease
  <1>5. CASE Evicted
    <2>1. CASE /\ \E n \in DOMAIN edge : edge' = Restrict(edge, DOMAIN edge \ {n})
               /\ UNCHANGED browser
      <3>1. TrueCopies(edge')
        BY <2>1, LessKeeps DEF IInv, Truth
      <3> QED BY <1>5, <2>1, <3>1 DEF Evicted, site, IInv, Shape, Truth, OneRelease
    <2>2. CASE /\ \E v \in Visitors : \E n \in DOMAIN browser[v] :
                      browser' = [browser EXCEPT ![v] = Restrict(@, DOMAIN @ \ {n})]
               /\ UNCHANGED edge
      <3>0. PICK v \in Visitors : \E n \in DOMAIN browser[v] :
               browser' = [browser EXCEPT ![v] = Restrict(browser[v], DOMAIN browser[v] \ {n})]
        BY <2>2
      <3>1. PICK n \in DOMAIN browser[v] :
               browser' = [browser EXCEPT ![v] = Restrict(browser[v], DOMAIN browser[v] \ {n})]
        BY <3>0
      <3>2. TrueCopies(Restrict(browser[v], DOMAIN browser[v] \ {n}))
        BY LessKeeps DEF IInv, Truth
      <3>3. \A u \in Visitors : TrueCopies(browser'[u])
        BY <3>1, <3>2 DEF IInv, Shape, Truth
      <3>4. Shape'
        BY <1>5, <3>1 DEF Evicted, IInv, Shape
      <3> QED BY <1>5, <2>2, <3>3, <3>4 DEF Evicted, site, IInv, Truth, OneRelease
    <2> QED BY <1>5, <2>1, <2>2 DEF Evicted
  <1>6. ASSUME NEW v \in Visitors, Load(v) PROVE IInv'
    <2>1. got' = [got EXCEPT ![v] = [f \in Files |-> {}]] /\ page' = [page EXCEPT ![v] = served]
      BY <1>6 DEF Load
    <2>2. Shape'
      <3>1. ASSUME NEW u \in Visitors PROVE got'[u] = [f \in Files |-> got'[u][f]]
        <4>1. got'[v] = [f \in Files |-> {}] /\ (u # v => got'[u] = got[u])
          BY <2>1 DEF IInv, Shape
        <4>2. CASE u = v
          <5> DEFINE g == [f \in Files |-> {}]
          <5>1. g = [f \in Files |-> g[f]]
            OBVIOUS
          <5> QED BY <4>1, <4>2, <5>1
        <4>3. CASE u # v
          BY <4>1, <4>3 DEF IInv, Shape
        <4> QED BY <4>2, <4>3
      <3> QED BY <1>6, <2>1, <3>1 DEF Load, caches, IInv, Shape
    <2>3. ASSUME NEW u \in Visitors, NEW f \in Files, NEW b \in got'[u][f]
          PROVE  b = Whole(Bytes(f, page'[u]))
      <3>1. u # v /\ b \in got[u][f] /\ page'[u] = page[u]
        BY <2>1, <2>3 DEF IInv, Shape
      <3> QED BY <3>1 DEF IInv, OneRelease
    <2> QED BY <1>6, <2>2, <2>3 DEF Load, site, caches, IInv, Truth, OneRelease
  <1>7. ASSUME NEW v \in Visitors, NEW f \in Files, Loading(v, f) PROVE IInv'
    <2> DEFINE n == Name(f, page[v])
    <2> DEFINE b == Bytes(f, page[v])
    <2>0. page[v] # 0 /\ page[v] \in 1..Last
      BY <1>7, AssetsAssumption DEF Loading, IInv, Truth
    <2>1. ASSUME Refused(v, f) \/ \E await : Waits(v, f, await) PROVE IInv'
      BY <2>1 DEF Refused, Waits, site, caches, IInv, Shape, Truth, OneRelease
    <2>2. ASSUME n \in DOMAIN browser[v], Comes(v, f, browser[v][n]), UNCHANGED puts PROVE IInv'
      <3>1. browser[v][n] = Whole(b)
        BY <2>0, <2>2 DEF IInv, Truth, TrueCopies
      <3> QED BY <2>0, <2>2, <3>1, ComesKeeps DEF Comes, site, IInv, Truth
    <2>3. ASSUME n \in DOMAIN edge, Comes(v, f, edge[n]), UNCHANGED puts PROVE IInv'
      <3>1. edge[n] = Whole(b)
        BY <2>0, <2>3 DEF IInv, Truth, TrueCopies
      <3> QED BY <2>0, <2>3, <3>1, ComesKeeps DEF Comes, site, IInv, Truth
    <2>4. ASSUME n \in DOMAIN bucket, Comes(v, f, Whole(bucket[n])),
                 puts' \in {puts, puts \cup {<<n, Whole(bucket[n])>>}}
          PROVE  IInv'
      <3>1. bucket[n] = b
        BY <2>0, <2>4 DEF IInv, Truth, Means
      <3>2. Means(n, b)
        BY <2>0, NamesTell
      <3>3. \A p \in puts' : \A g \in Files, r \in 1..Last :
                p[1] = Name(g, r) => p[2] = Whole(Bytes(g, r))
        <4> SUFFICES ASSUME NEW p \in puts', NEW g \in Files, NEW r \in 1..Last, p[1] = Name(g, r)
                     PROVE  p[2] = Whole(Bytes(g, r))
          OBVIOUS
        <4>1. CASE p \in puts
          BY <4>1 DEF IInv, Truth
        <4>2. CASE p = <<n, Whole(b)>>
          BY <3>2, <4>2 DEF Means
        <4> QED BY <2>4, <3>1, <4>1, <4>2
      <3>4. UNCHANGED <<served, page>> /\ Shape' /\ OneRelease' /\ UNCHANGED <<bucket, edge>>
            /\ \A u \in Visitors : TrueCopies(browser'[u])
        BY <2>0, <2>4, <3>1, ComesKeeps DEF Comes, site
      <3> QED BY <3>3, <3>4 DEF IInv, Truth
    <2>5. CASE Fetch(v, f)
      BY <2>5, <2>1, <2>2 DEF Fetch
    <2>6. CASE Matched(v, f)
      BY <2>6, <2>1, <2>3 DEF Matched
    <2>7. CASE Got(v, f)
      BY <2>7, <2>1, <2>4 DEF Got
    <2> QED BY <1>7, <2>5, <2>6, <2>7 DEF Loading
  <1>8. CASE UNCHANGED vars
    BY <1>8 DEF vars, site, caches, IInv, Shape, Truth, OneRelease
  <1> QED BY <1>1, <1>2, <1>3, <1>4, <1>5, <1>6, <1>7, <1>8 DEF Next

\* What a page's loaders get is the whole of what they were built for: over every
\* history of deploys, uploads, deletions, evictions and late copies to the edge.
THEOREM NoStaleFile == Spec => []OneRelease
  <1>1. IInv => OneRelease
    BY DEF IInv
  <1> QED BY TruthInit, TruthNext, <1>1, PTL DEF Spec
-----------------------------------------------------------------------------
(***************************************************************************)
(* Ranges.                                                                 *)
(***************************************************************************)
\* What parseRange() makes of a header with digits, read by the bucket, begins and ends
\* where the header asks, cut at the object's end.
LEMMA RangeIsCut ==
    ASSUME NEW h \in Ranges \ {Malformed}
    PROVE  LET r == R2Range(parseRange(h)) IN
           /\ r.offset \in Int /\ r.length \in Int
           /\ r.length > 0 => r.offset..(r.offset + r.length - 1) = Asked(h)
           /\ r.length <= 0 => Asked(h) = {}
<1> DEFINE r == R2Range(parseRange(h))
           s == h[1]
           e == h[2]
<1>t. /\ Size \in Nat \ {0}
      /\ s = Blank \/ s \in Nat
      /\ e = Blank \/ e \in Nat
      /\ Blank \in Int /\ Blank < 0 /\ ~(s = Blank /\ e = Blank)
  <2>1. h \in (Nat \cup {Blank}) \X (Nat \cup {Blank}) /\ h # <<Blank, Blank>>
    BY AssetsAssumption DEF Malformed
  <2> QED BY <2>1, AssetsAssumption DEF Blank
<1>i. Asked(h) \subseteq Int
  BY DEF Asked
<1>1. CASE s = Blank
  <2>1. parseRange(h) = [suffix |-> e]
    BY <1>1 DEF parseRange
  <2>2. r = [offset |-> Size - Lesser(e, Size), length |-> Size - (Size - Lesser(e, Size))]
    <3>1. "suffix" \in DOMAIN [suffix |-> e] /\ "length" \notin DOMAIN [suffix |-> e]
          /\ [suffix |-> e].suffix = e
      OBVIOUS
    <3> QED BY <2>1, <3>1 DEF R2Range
  <2>3. Asked(h) = {i \in 0..(Size - 1) : i >= Size - e}
    BY <1>1 DEF Asked
  <2>4. r.offset = Size - Lesser(e, Size) /\ r.length = Lesser(e, Size) /\ e \in Nat
    BY <1>t, <1>1, <2>2 DEF Lesser
  <2> HIDE DEF r, s, e
  <2>5. r.length > 0 => \A i \in Int : i \in r.offset..(r.offset + r.length - 1) <=> i \in Asked(h)
    BY <1>t, <2>3, <2>4 DEF Lesser
  <2>6. r.length <= 0 => \A i \in Int : i \notin Asked(h)
    BY <1>t, <2>3, <2>4 DEF Lesser
  <2>7. r.offset \in Int /\ r.length \in Int
    BY <1>t, <2>4 DEF Lesser
  <2>8. r.length > 0 => r.offset..(r.offset + r.length - 1) = Asked(h)
    <3> SUFFICES ASSUME r.length > 0 PROVE r.offset..(r.offset + r.length - 1) = Asked(h)
      OBVIOUS
    <3>1. r.offset..(r.offset + r.length - 1) \subseteq Int
      BY <2>7
    <3>2. \A i \in Int : i \in r.offset..(r.offset + r.length - 1) <=> i \in Asked(h)
      BY <2>5
    <3> QED BY <1>i, <3>1, <3>2, Zenon
  <2>9. r.length <= 0 => Asked(h) = {}
    BY <1>i, <2>6
  <2> QED BY <2>7, <2>8, <2>9 DEF r
<1>2. CASE s # Blank /\ e = Blank
  <2>1. parseRange(h) = [offset |-> s]
    BY <1>2 DEF parseRange
  <2>2. r = [offset |-> s, length |-> Size - s]
    <3>1. "suffix" \notin DOMAIN [offset |-> s] /\ "length" \notin DOMAIN [offset |-> s]
          /\ [offset |-> s].offset = s
      OBVIOUS
    <3> QED BY <2>1, <3>1 DEF R2Range
  <2>3. Asked(h) = {i \in 0..(Size - 1) : s <= i}
    BY <1>2 DEF Asked
  <2>4. r.offset = s /\ r.length = Size - s /\ s \in Nat
    BY <1>t, <1>2, <2>2
  <2> HIDE DEF r, s, e
  <2>5. r.length > 0 => \A i \in Int : i \in r.offset..(r.offset + r.length - 1) <=> i \in Asked(h)
    BY <1>t, <2>3, <2>4
  <2>6. r.length <= 0 => \A i \in Int : i \notin Asked(h)
    BY <1>t, <2>3, <2>4
  <2>7. r.offset \in Int /\ r.length \in Int
    BY <1>t, <2>4 DEF Lesser
  <2>8. r.length > 0 => r.offset..(r.offset + r.length - 1) = Asked(h)
    <3> SUFFICES ASSUME r.length > 0 PROVE r.offset..(r.offset + r.length - 1) = Asked(h)
      OBVIOUS
    <3>1. r.offset..(r.offset + r.length - 1) \subseteq Int
      BY <2>7
    <3>2. \A i \in Int : i \in r.offset..(r.offset + r.length - 1) <=> i \in Asked(h)
      BY <2>5
    <3> QED BY <1>i, <3>1, <3>2, Zenon
  <2>9. r.length <= 0 => Asked(h) = {}
    BY <1>i, <2>6
  <2> QED BY <2>7, <2>8, <2>9 DEF r
<1>3. CASE s # Blank /\ e # Blank
  <2>1. parseRange(h) = [offset |-> s, length |-> e - s + 1]
    BY <1>3 DEF parseRange
  <2>2. r = [offset |-> s, length |-> Lesser(s + (e - s + 1), Size) - s]
    <3> DEFINE q == [offset |-> s, length |-> e - s + 1]
    <3>1. "suffix" \notin DOMAIN q /\ "length" \in DOMAIN q /\ q.offset = s /\ q.length = e - s + 1
      OBVIOUS
    <3> QED BY <2>1, <3>1 DEF R2Range
  <2>3. Asked(h) = {i \in 0..(Size - 1) : s <= i /\ i <= e}
    BY <1>3 DEF Asked
  <2>4. r.offset = s /\ r.length = Lesser(e + 1, Size) - s /\ s \in Nat /\ e \in Nat
    BY <1>t, <1>3, <2>2 DEF Lesser
  <2> HIDE DEF r, s, e
  <2>5. r.length > 0 => \A i \in Int : i \in r.offset..(r.offset + r.length - 1) <=> i \in Asked(h)
    BY <1>t, <2>3, <2>4 DEF Lesser
  <2>6. r.length <= 0 => \A i \in Int : i \notin Asked(h)
    BY <1>t, <2>3, <2>4 DEF Lesser
  <2>7. r.offset \in Int /\ r.length \in Int
    BY <1>t, <2>4 DEF Lesser
  <2>8. r.length > 0 => r.offset..(r.offset + r.length - 1) = Asked(h)
    <3> SUFFICES ASSUME r.length > 0 PROVE r.offset..(r.offset + r.length - 1) = Asked(h)
      OBVIOUS
    <3>1. r.offset..(r.offset + r.length - 1) \subseteq Int
      BY <2>7
    <3>2. \A i \in Int : i \in r.offset..(r.offset + r.length - 1) <=> i \in Asked(h)
      BY <2>5
    <3> QED BY <1>i, <3>1, <3>2, Zenon
  <2>9. r.length <= 0 => Asked(h) = {}
    BY <1>i, <2>6
  <2> QED BY <2>7, <2>8, <2>9 DEF r
<1> QED BY <1>1, <1>2, <1>3

\* What the reply is where it has a body, and where it is an error of the Worker's.
LEMMA ReplyIs ==
    ASSUME NEW b, NEW method, NEW h, NEW same, h # <<>>,
           NEW r, r = R2Range(parseRange(h)), NEW a, a = Reply(b, method, h, same)
    PROVE  /\ a.status = 206 =>
                  /\ ~same /\ method # "HEAD"
                  /\ ~(r.length <= 0)
                  /\ a.says = <<r.offset, r.offset + r.length - 1>>
                  /\ a.body = {Part(o, r.offset, r.offset + r.length) : o \in b}
           /\ a.status = 500 => r.length <= 0
<1>1. a = IF method = "POST" THEN [status |-> 405, says |-> <<>>, body |-> {}]
          ELSE IF h = Malformed THEN [status |-> 416, says |-> <<>>, body |-> {}]
          ELSE IF b = {} THEN [status |-> 404, says |-> <<>>, body |-> {}]
          ELSE IF same THEN [status |-> 304, says |-> <<>>, body |-> {}]
          ELSE IF r.length <= 0 THEN [status |-> 500, says |-> <<>>, body |-> {}]
          ELSE IF method = "HEAD" THEN [status |-> 200, says |-> <<>>, body |-> {}]
          ELSE [status |-> 206,
                says   |-> <<r.offset, r.offset + r.length - 1>>,
                body   |-> {Part(o, r.offset, r.offset + r.length) : o \in b}]
  BY DEF Reply
<1> QED BY <1>1

\* For objects and ranges of every size: serveFromR2() and parseRange() of
\* deploy/worker.js send exactly the bytes that a Range header asks for, of the file of the
\* release the page is of, and say which they are.
THEOREM RangesAreExact == Spec => []RangeIsExact
<1>1. IInv => RangeIsExact
  <2> SUFFICES ASSUME IInv, NEW v \in Visitors, NEW f \in Files, NEW h \in Ranges \ {Malformed},
                      NEW method \in {"GET", "HEAD"}, NEW same \in BOOLEAN, page[v] # 0
               PROVE  LET a == Direct(v, f, method, h, same) IN
                      /\ a.status = 206 =>
                             /\ method = "GET" /\ ~same
                             /\ a.says[1]..a.says[2] = Asked(h)
                             /\ \A b \in a.body : b.of = Bytes(f, page[v])
                                                  /\ b.first..(b.last - 1) = Asked(h)
                      /\ a.status = 500 => Asked(h) = {}
    BY DEF RangeIsExact
  <2> DEFINE a == Direct(v, f, method, h, same)
             n == Name(f, page[v])
             held == {bucket[m] : m \in DOMAIN bucket \cap {n}}
             r == R2Range(parseRange(h))
  <2>1. \A o \in held : o = Bytes(f, page[v])
    <3>1. page[v] \in 1..Last
      BY AssetsAssumption DEF IInv, Truth
    <3> QED BY <3>1 DEF IInv, Truth, Means
  <2>2. h # <<>>
    <3>1. h \in (Nat \cup {Blank}) \X (Nat \cup {Blank})
      BY AssetsAssumption
    <3>2. Len(h) = 2
      BY <3>1
    <3> QED BY <3>2
  <2>3. /\ r.offset \in Int /\ r.length \in Int
        /\ r.length > 0 => r.offset..(r.offset + r.length - 1) = Asked(h)
        /\ r.length <= 0 => Asked(h) = {}
    BY RangeIsCut
  <2>4. a = Reply(held, method, h, same)
    BY DEF Direct
  <2>r. r = R2Range(parseRange(h))
    OBVIOUS
  <2> HIDE DEF a, r, held
  <2>5. /\ a.status = 206 =>
               /\ ~same /\ method # "HEAD"
               /\ ~(r.length <= 0)
               /\ a.says = <<r.offset, r.offset + r.length - 1>>
               /\ a.body = {Part(o, r.offset, r.offset + r.length) : o \in held}
        /\ a.status = 500 => r.length <= 0
    BY <2>2, <2>4, <2>r, ReplyIs
  <2>6. ASSUME a.status = 206
        PROVE  /\ method = "GET" /\ ~same
               /\ a.says[1]..a.says[2] = Asked(h)
               /\ \A b \in a.body : b.of = Bytes(f, page[v]) /\ b.first..(b.last - 1) = Asked(h)
    <3>1. r.offset..(r.offset + r.length - 1) = Asked(h) /\ r.length > 0
      BY <2>3, <2>5, <2>6
    <3>2. a.says[1]..a.says[2] = Asked(h)
      BY <2>5, <2>6, <3>1
    <3>3. ASSUME NEW b \in a.body PROVE b.of = Bytes(f, page[v]) /\ b.first..(b.last - 1) = Asked(h)
      <4>1. PICK o \in held : b = Part(o, r.offset, r.offset + r.length)
        BY <2>5, <2>6, <3>3
      <4> QED BY <2>1, <2>3, <3>1, <4>1 DEF Part
    <3> QED BY <2>5, <2>6, <3>2, <3>3
  <2>7. a.status = 500 => Asked(h) = {}
    BY <2>3, <2>5
  <2> QED BY <2>6, <2>7 DEF a
<1> QED BY <1>1, TruthInit, TruthNext, PTL DEF Spec
=============================================================================
