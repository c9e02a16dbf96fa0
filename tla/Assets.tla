------------------------------- MODULE Assets -------------------------------
(***************************************************************************)
(* The deployed site (deploy/worker.js): the three large files of a        *)
(* release, kept in an R2 bucket and served by a Worker through            *)
(* Cloudflare's edge cache and the visitors' own.  All the rest is static  *)
(* and is deployed together with the Worker.                               *)
(*                                                                         *)
(* A release is a number; uploading, deploying and deleting follow         *)
(* deploy/README.md.  Between the awaits of one request anything may       *)
(* happen: a deploy, an upload, a deletion, a cache that forgets.          *)
(***************************************************************************)
EXTENDS Integers, FiniteSets, Functions

CONSTANTS
    Files,       \* "engine", "state" and "rootfs", or some of them
    Last,        \* releases 1 .. Last are made
    Content,     \* what a file of a release holds: something new, or the same
    Tag,         \* the tag in the names of a release's set, the files but the engine
    Visitors,
    Size,        \* bytes in an object
    Ranges       \* Range headers: <<s, e>>, Blank where the digits are missing

Blank == -1

ASSUME AssetsAssumption ==
    /\ Last \in Nat \ {0} /\ Size \in Nat \ {0}
    /\ \A f \in Files, r \in 1..Last : Content[f][r] \in Nat
    /\ Ranges \subseteq (Nat \cup {Blank}) \X (Nat \cup {Blank})

\* "Bump the suffix whenever the bytes change", "to a tag never uploaded before".
ASSUME TagRule ==
    \A f \in Files \ {"engine"}, r, s \in 1..Last : Tag[r] = Tag[s] => Content[f][r] = Content[f][s]

VARIABLES
    bucket,      \* name -> the bytes under it
    served,      \* the release that is deployed, 0 before the first
    edge,        \* the edge cache: name -> body
    puts,        \* copies on their way to it (waitUntil)
    page,        \* the release whose page a visitor has loaded, 0 before any
    browser,     \* a visitor's cache: name -> body
    req,         \* a loader's request: "none" yet, at an await of fetch(), "done"
    got          \* what it came to: {a body}, or {}

site   == <<bucket, served>>
caches == <<edge, puts, browser>>
vars   == <<site, caches, page, req, got>>

Malformed == <<Blank, Blank>>

\* The bytes a release has for a file: the loaders are built for exactly these.
Bytes(f, r) == <<f, Content[f][r]>>

\* Bytes `first` up to `last` of what lies under a name.
Part(b, first, last) == [of |-> b, first |-> first, last |-> last]
Whole(b) == Part(b, 0, Size)

\* Mutant of Name: one name for every release.
NameFixed(f, r) == <<f, 0>>

\* The engine is named by its content, the set by its tag.
Name(f, r) == <<f, IF f = "engine" THEN Content[f][r] ELSE Tag[r]>>
R2_FILES(r) == IF r = 0 THEN {} ELSE {Name(f, r) : f \in Files}

With(c, n, b) == [m \in DOMAIN c \cup {n} |-> IF m = n THEN b ELSE c[m]]

Init ==
    /\ bucket = <<>> /\ served = 0 /\ edge = <<>> /\ puts = {}
    /\ page = [v \in Visitors |-> 0] /\ browser = [v \in Visitors |-> <<>>]
    /\ req = [v \in Visitors |-> [f \in Files |-> "none"]]
    /\ got = [v \in Visitors |-> [f \in Files |-> {}]]
-----------------------------------------------------------------------------
(***************************************************************************)
(* Releases.                                                               *)
(***************************************************************************)
Upload(f) ==
    /\ served < Last
    /\ bucket' = With(bucket, Name(f, served + 1), Bytes(f, served + 1))
    /\ bucket' # bucket
    /\ UNCHANGED <<served, caches, page, req, got>>

\* Page and Worker switch together, once the objects are up.
Deploy ==
    /\ served < Last
    /\ \A f \in Files : LET n == Name(f, served + 1)
                        IN  n \in DOMAIN bucket /\ bucket[n] = Bytes(f, served + 1)
    /\ served' = served + 1
    /\ UNCHANGED <<bucket, caches, page, req, got>>

\* Mutant of Old: whatever an earlier release named.
OldBlindly == UNION {R2_FILES(r) : r \in 1..(served - 1)}

\* Objects of earlier releases; an engine that did not change keeps its name.
Old == UNION {R2_FILES(r) : r \in 1..(served - 1)}
         \ (R2_FILES(served) \cup (IF served < Last THEN R2_FILES(served + 1) ELSE {}))

Delete ==
    /\ \E n \in Old \cap DOMAIN bucket : bucket' = Restrict(bucket, DOMAIN bucket \ {n})
    /\ UNCHANGED <<served, caches, page, req, got>>
-----------------------------------------------------------------------------
(***************************************************************************)
(* A page and its loaders, and fetch() for a full GET.                     *)
(***************************************************************************)
\* A visitor comes, comes back after a deploy, or reloads once all is in or refused.
Load(v) ==
    /\ page[v] = served => page[v] # 0 /\ \A f \in Files : req[v][f] = "done"
    /\ page' = [page EXCEPT ![v] = served]
    /\ req' = [req EXCEPT ![v] = [f \in Files |-> "none"]]
    /\ got' = [got EXCEPT ![v] = [f \in Files |-> {}]]
    /\ UNCHANGED <<site, caches>>

Waits(v, f, await) ==
    /\ req' = [req EXCEPT ![v][f] = await]
    /\ UNCHANGED <<site, caches, page, got>>

Refused(v, f) ==
    /\ req' = [req EXCEPT ![v][f] = "done"]
    /\ UNCHANGED <<site, caches, page, got>>

Comes(v, f, body) ==
    /\ got' = [got EXCEPT ![v][f] = {body}]
    /\ req' = [req EXCEPT ![v][f] = "done"]
    /\ browser' = [browser EXCEPT ![v] = With(@, Name(f, page[v]), body)]
    /\ UNCHANGED <<site, edge, page>>

\* The browser's own copy, which is immutable; or the request reaches the Worker of
\* the moment: a name that is not on its list is a static asset, and there is none.
Fetch(v, f) ==
    /\ req[v][f] = "none"
    /\ LET n == Name(f, page[v]) IN
       IF n \in DOMAIN browser[v] THEN Comes(v, f, browser[v][n]) /\ UNCHANGED puts
       ELSE IF n \in R2_FILES(served) THEN Waits(v, f, "match")
       ELSE Refused(v, f)

\* cache.match: a hit, or on to the bucket.
Matched(v, f) ==
    /\ req[v][f] = "match"
    /\ LET n == Name(f, page[v]) IN
       IF n \in DOMAIN edge THEN Comes(v, f, edge[n]) /\ UNCHANGED puts
       ELSE Waits(v, f, "get")

\* CACHE_MAX_BYTES: the disk is over it.
Cacheable(f) == f # "rootfs"

\* BUCKET.get: the object, and a copy for the edge; or 404.
Got(v, f) ==
    /\ req[v][f] = "get"
    /\ LET n == Name(f, page[v]) IN
       IF n \in DOMAIN bucket
       THEN /\ Comes(v, f, Whole(bucket[n]))
            /\ puts' = IF Cacheable(f) THEN puts \cup {<<n, Whole(bucket[n])>>} ELSE puts
       ELSE Refused(v, f)

\* cache.put is done, or failed ("swallow any cache error").
PutSettled ==
    /\ \E p \in puts : puts' = puts \ {p} /\ edge' \in {edge, With(edge, p[1], p[2])}
    /\ UNCHANGED <<site, browser, page, req, got>>

\* The edge, or a browser, lets a copy go.
Evicted ==
    /\ \/ /\ \E n \in DOMAIN edge : edge' = Restrict(edge, DOMAIN edge \ {n})
          /\ UNCHANGED browser
       \/ /\ \E v \in Visitors : \E n \in DOMAIN browser[v] :
                browser' = [browser EXCEPT ![v] = Restrict(@, DOMAIN @ \ {n})]
          /\ UNCHANGED edge
    /\ UNCHANGED <<site, puts, page, req, got>>
-----------------------------------------------------------------------------
(***************************************************************************)
(* serveFromR2: HEAD and ranged requests, which bypass the edge.  What the *)
(* bucket does with a range: it cuts it at the object's end, says what it  *)
(* sends, and throws where that is nothing.                                *)
(***************************************************************************)
\* Mutant of parseRange: the last byte is left out.
parseRangeShort(h) ==
    IF h[1] = Blank THEN [suffix |-> h[2]]
    ELSE IF h[2] = Blank THEN [offset |-> h[1]]
    ELSE [offset |-> h[1], length |-> h[2] - h[1]]

parseRange(h) ==
    IF h[1] = Blank THEN [suffix |-> h[2]]
    ELSE IF h[2] = Blank THEN [offset |-> h[1]]
    ELSE [offset |-> h[1], length |-> h[2] - h[1] + 1]

Lesser(a, b) == IF a < b THEN a ELSE b

R2Range(r) ==
    LET first == IF "suffix" \in DOMAIN r THEN Size - Lesser(r.suffix, Size) ELSE r.offset
        last  == IF "length" \in DOMAIN r THEN Lesser(first + r.length, Size) ELSE Size
    IN  [offset |-> first, length |-> last - first]

\* `range` is <<>> where there is no header.  `same`: the client names the object it
\* has in a condition, and it is this one.
Reply(b, method, range, same) ==
    LET r == R2Range(parseRange(range))
        Status(k) == [status |-> k, says |-> <<>>, body |-> {}]
    IN IF method = "POST" THEN Status(405)
       ELSE IF range = Malformed THEN Status(416)
       ELSE IF b = {} THEN Status(404)
       ELSE IF same THEN Status(304)
       ELSE IF range # <<>> /\ r.length <= 0 THEN Status(500)
       ELSE IF method = "HEAD" THEN Status(200)
       ELSE [status |-> 206,
             says   |-> <<r.offset, r.offset + r.length - 1>>,
             body   |-> {Part(o, r.offset, r.offset + r.length) : o \in b}]

\* What a visitor's request for a file of the page comes to; no state is changed.
Direct(v, f, method, range, same) ==
    LET n == Name(f, page[v])
    IN  Reply({bucket[m] : m \in DOMAIN bucket \cap {n}}, method, range, same)
-----------------------------------------------------------------------------
Loading(v, f) == page[v] # 0 /\ (Fetch(v, f) \/ Matched(v, f) \/ Got(v, f))

Next ==
    \/ \E f \in Files : Upload(f)
    \/ Deploy \/ Delete \/ PutSettled \/ Evicted
    \/ \E v \in Visitors : Load(v) \/ \E f \in Files : Loading(v, f)

Spec == Init /\ [][Next]_vars

\* Every request is answered.
Fairness == \A v \in Visitors, f \in Files : WF_vars(Loading(v, f))
FairSpec == Spec /\ Fairness
-----------------------------------------------------------------------------
\* "A stale object is not an error - it is a silently truncated disk or memory image":
\* what a page's loaders get, from whichever cache and across whatever deploys, uploads
\* and deletions, is the whole of what they were built for, or nothing.
OneRelease ==
    \A v \in Visitors, f \in Files : \A b \in got[v][f] : b = Whole(Bytes(f, page[v]))

Asked(h) == {i \in 0..(Size - 1) :
                IF h[1] = Blank THEN i >= Size - h[2]
                ELSE h[1] <= i /\ (h[2] = Blank \/ i <= h[2])}

\* A 206 carries the bytes that were asked for, of the file that was meant, says which
\* they are, and answers a GET; a range that has bytes is never refused.
RangeIsExact ==
    \A v \in Visitors, f \in Files, range \in Ranges \ {Malformed},
       method \in {"GET", "HEAD"}, same \in BOOLEAN :
        page[v] # 0 => LET a == Direct(v, f, method, range, same) IN
            /\ a.status = 206 =>
                   /\ method = "GET" /\ ~same
                   /\ a.says[1]..a.says[2] = Asked(range)
                   /\ \A b \in a.body : b.of = Bytes(f, page[v])
                                        /\ b.first..(b.last - 1) = Asked(range)
            /\ a.status = 500 => Asked(range) = {}

\* "Nothing points at the new keys until the page does": the page of the last release
\* gets all its files, whatever is deleted behind it.
Arrives ==
    \A v \in Visitors :
        page[v] = Last ~> \A f \in Files : got[v][f] = {Whole(Bytes(f, Last))}
=============================================================================
