---- MODULE WorkspaceCache_proof ----
(* No request is answered from the knowledge of another workspace, and none   *)
(* that nothing overlaps from an old one, for any number of workspaces,       *)
(* requests, saves and stores, and any size of cache.                         *)
EXTENDS WorkspaceCache, TLAPS

Slot == [workspace : Workspace, store : Store, second : 0 .. MaxSecond]

\* A workspace has one entry, and a store is in one entry.
Distinct(q) ==
    \A i, j \in 1 .. Len(q) :
        i # j => q[i].workspace # q[j].workspace /\ q[i].store # q[j].store

\* What the API holds of a workspace was written for it.
KnowledgeIsOwn == \A w \in Workspace : knowledge[w].content \in ContentOf(w)

\* A cached store holds a text of the workspace it is cached for.
CacheIsOwn ==
    /\ Distinct(workspaceStores)
    /\ \A i \in 1 .. Len(workspaceStores) :
          text[workspaceStores[i].store] \in ContentOf(workspaceStores[i].workspace)

\* What a request fetched, and the store it found, are of its workspace, whether the
\* store is still cached or not; and if it is, it is so for the same workspace: what
\* another request sets in it will be of that one too.
RequestIsOwn(r) ==
    LET q == request[r] IN
    /\ q.at # "idle" => q.client \in Workspace
    /\ q.at = "fetched" => q.version.content \in ContentOf(q.client)
    /\ q.at = "found" =>
          /\ q.store \in Store /\ text[q.store] \in ContentOf(q.client)
          /\ \A i \in 1 .. Len(workspaceStores) :
                workspaceStores[i].store = q.store => workspaceStores[i].workspace = q.client
    /\ q.answer # Nothing => q.answer \in ContentOf(q.client)

\* The inductive invariant.
IInv == TypeOK /\ KnowledgeIsOwn /\ CacheIsOwn /\ \A r \in Request : RequestIsOwn(r)

----------------------------------------------------------------------------
(* The cache as a sequence                                                    *)

LEMMA Joined ==
    ASSUME NEW S, NEW a \in Seq(S), NEW b \in Seq(S)
    PROVE  /\ a \o b \in Seq(S) /\ Len(a \o b) = Len(a) + Len(b)
           /\ \A j \in 1 .. Len(a) : (a \o b)[j] = a[j]
           /\ \A j \in 1 .. Len(b) : (a \o b)[Len(a) + j] = b[j]
  OBVIOUS

\* Taking an element out keeps the order and the distinctness of the others.
LEMMA WithoutOne ==
    ASSUME NEW q \in Seq(Slot), Distinct(q), NEW k \in 1 .. Len(q)
    PROVE  LET o == SubSeq(q, 1, k - 1) \o SubSeq(q, k + 1, Len(q))
           IN /\ o \in Seq(Slot) /\ Distinct(o)
              /\ \A j \in 1 .. Len(o) : \E i \in 1 .. Len(q) : i # k /\ o[j] = q[i]
<1> DEFINE a == SubSeq(q, 1, k - 1)
           b == SubSeq(q, k + 1, Len(q))
           o == a \o b
           at(j) == IF j < k THEN j ELSE j + 1
<1>1. Len(q) \in Nat /\ k - 1 \in 0 .. Len(q) /\ k + 1 \in 1 .. Len(q) + 1
  OBVIOUS
<1>2. a \in Seq(Slot) /\ Len(a) = k - 1 /\ \A j \in 1 .. k - 1 : a[j] = q[j]
  BY <1>1
<1>3. b \in Seq(Slot) /\ Len(b) = Len(q) - k /\ \A j \in 1 .. Len(q) - k : b[j] = q[k + j]
  BY <1>1
<1> HIDE DEF a, b
<1>a. a \in Seq(Slot) /\ b \in Seq(Slot)
  BY <1>2, <1>3, Zenon
<1>4. o \in Seq(Slot) /\ Len(o) = Len(a) + Len(b)
  BY <1>a
<1>5. \A j \in 1 .. Len(a) : o[j] = a[j]
  BY <1>a, Joined, Zenon
<1>6. \A j \in 1 .. Len(b) : o[Len(a) + j] = b[j]
  BY <1>a
<1> HIDE DEF o
<1>7. Len(o) = Len(q) - 1
  BY <1>1, <1>2, <1>3, <1>4
<1>8. \A j \in 1 .. Len(o) : at(j) \in 1 .. Len(q) /\ at(j) # k /\ o[j] = q[at(j)]
  <2> SUFFICES ASSUME NEW j \in 1 .. Len(o)
               PROVE  at(j) \in 1 .. Len(q) /\ at(j) # k /\ o[j] = q[at(j)]
    OBVIOUS
  <2>1. CASE j < k
    <3>1. j \in 1 .. k - 1 /\ at(j) = j /\ j \in 1 .. Len(q) /\ j # k
      BY <1>1, <1>7, <2>1
    <3> HIDE DEF at
    <3>2. o[j] = a[j] /\ a[j] = q[j]
      BY <1>2, <1>5, <3>1, Zenon
    <3> QED
      BY <3>1, <3>2, Zenon
  <2>2. CASE ~ (j < k)
    <3> DEFINE d == j + 1 - k
    <3>1. /\ d \in 1 .. Len(q) - k /\ at(j) = j + 1 /\ j + 1 \in 1 .. Len(q) /\ j + 1 # k
          /\ (k - 1) + d = j /\ k + d = j + 1
      BY <1>1, <1>7, <2>2
    <3> HIDE DEF at, d
    <3>2. o[Len(a) + d] = b[d] /\ b[d] = q[k + d] /\ Len(a) + d = j
      BY <1>2, <1>3, <1>6, <3>1, Zenon
    <3> QED
      BY <3>1, <3>2, Zenon
  <2> QED
    BY <2>1, <2>2, Zenon
<1>9. \A i, j \in 1 .. Len(o) : i # j => at(i) # at(j)
  BY <1>1, <1>7
<1> HIDE DEF at
<1>10. Distinct(o)
  <2> SUFFICES ASSUME NEW i \in 1 .. Len(o), NEW j \in 1 .. Len(o), i # j
               PROVE  o[i].workspace # o[j].workspace /\ o[i].store # o[j].store
    BY Zenon DEF Distinct
  <2>1. at(i) # at(j) /\ at(i) \in 1 .. Len(q) /\ at(j) \in 1 .. Len(q)
        /\ o[i] = q[at(i)] /\ o[j] = q[at(j)]
    BY <1>8, <1>9
  <2> QED
    BY <2>1, Zenon DEF Distinct
<1>11. \A j \in 1 .. Len(o) : \E i \in 1 .. Len(q) : i # k /\ o[j] = q[i]
  BY <1>8, Zenon
<1> QED
  BY <1>4, <1>10, <1>11, Zenon DEF o, a, b

\* What is left when the first elements are dropped.
LEMMA WithoutFirst ==
    ASSUME NEW q \in Seq(Slot), Distinct(q), NEW n \in 0 .. Len(q)
    PROVE  LET o == SubSeq(q, n + 1, Len(q))
           IN /\ o \in Seq(Slot) /\ Len(o) = Len(q) - n /\ Distinct(o)
              /\ \A j \in 1 .. Len(o) : \E i \in 1 .. Len(q) : o[j] = q[i]
<1> DEFINE o == SubSeq(q, n + 1, Len(q))
<1>1. Len(q) \in Nat /\ n + 1 \in 1 .. Len(q) + 1
  OBVIOUS
<1>2. o \in Seq(Slot) /\ Len(o) = Len(q) - n /\ \A j \in 1 .. Len(q) - n : o[j] = q[n + j]
  BY <1>1
<1> HIDE DEF o
<1>3. \A j \in 1 .. Len(o) : n + j \in 1 .. Len(q) /\ o[j] = q[n + j]
  BY <1>1, <1>2
<1>4. \A i, j \in 1 .. Len(o) : i # j => n + i # n + j
  BY <1>2
<1>5. Distinct(o)
  <2> SUFFICES ASSUME NEW i \in 1 .. Len(o), NEW j \in 1 .. Len(o), i # j
               PROVE  o[i].workspace # o[j].workspace /\ o[i].store # o[j].store
    BY Zenon DEF Distinct
  <2>1. n + i # n + j /\ n + i \in 1 .. Len(q) /\ n + j \in 1 .. Len(q)
        /\ o[i] = q[n + i] /\ o[j] = q[n + j]
    BY <1>3, <1>4, Zenon
  <2> QED
    BY <2>1, Zenon DEF Distinct
<1> QED
  BY <1>2, <1>3, <1>5, Zenon DEF o

\* An entry of another workspace, with another store, is added at the end.
LEMMA WithEntry ==
    ASSUME NEW q \in Seq(Slot), Distinct(q), NEW e \in Slot,
           \A i \in 1 .. Len(q) : q[i].workspace # e.workspace /\ q[i].store # e.store
    PROVE  /\ Append(q, e) \in Seq(Slot) /\ Len(Append(q, e)) = Len(q) + 1
           /\ Distinct(Append(q, e))
           /\ \A j \in 1 .. Len(q) + 1 :
                 Append(q, e)[j] = e \/ \E i \in 1 .. Len(q) : Append(q, e)[j] = q[i]
<1> DEFINE o == Append(q, e)
<1>1. o \in Seq(Slot) /\ Len(o) = Len(q) + 1 /\ Len(q) \in Nat
      /\ o[Len(q) + 1] = e /\ \A i \in 1 .. Len(q) : o[i] = q[i]
  OBVIOUS
<1> HIDE DEF o
<1>2. \A j \in 1 .. Len(o) : j \in 1 .. Len(q) \/ j = Len(q) + 1
  BY <1>1
<1>3. Distinct(o)
  <2> SUFFICES ASSUME NEW i \in 1 .. Len(o), NEW j \in 1 .. Len(o), i # j
               PROVE  o[i].workspace # o[j].workspace /\ o[i].store # o[j].store
    BY DEF Distinct
  <2>1. CASE i \in 1 .. Len(q) /\ j \in 1 .. Len(q)
    BY <1>1, <2>1, Zenon DEF Distinct
  <2>2. CASE i \in 1 .. Len(q) /\ j = Len(q) + 1
    BY <1>1, <2>2, Zenon
  <2>3. CASE j \in 1 .. Len(q) /\ i = Len(q) + 1
    BY <1>1, <2>3, Zenon
  <2> QED
    BY <1>2, <2>1, <2>2, <2>3
<1> QED
  BY <1>1, <1>2, <1>3 DEF o

\* What a hit and an installation make of the cache: this entry and some of those of
\* other workspaces, if its store was in none of these.
LEMMA UsedKeeps ==
    ASSUME TypeOK, Distinct(workspaceStores), NEW e \in Slot,
           \A i \in 1 .. Len(workspaceStores) :
               workspaceStores[i].store = e.store => workspaceStores[i].workspace = e.workspace
    PROVE  /\ Used(e) \in Seq(Slot) /\ Len(Used(e)) <= MAX_WORKSPACE_STORES /\ Distinct(Used(e))
           /\ \A j \in 1 .. Len(Used(e)) :
                 Used(e)[j] = e \/ \E i \in 1 .. Len(workspaceStores) :
                                      /\ Used(e)[j] = workspaceStores[i]
                                      /\ workspaceStores[i].workspace # e.workspace
<1> DEFINE ws == workspaceStores
           o == OthersThan(e.workspace)
           k == CHOOSE i \in Entries(e.workspace) : TRUE
<1>1. ws \in Seq(Slot) /\ Len(ws) \in Nat /\ DOMAIN ws = 1 .. Len(ws)
  BY DEF TypeOK, Slot
<1>2. /\ o \in Seq(Slot) /\ Distinct(o)
      /\ \A j \in 1 .. Len(o) :
            \E i \in 1 .. Len(ws) : o[j] = ws[i] /\ ws[i].workspace # e.workspace
  <2>1. CASE Entries(e.workspace) = {}
    <3>1. o = ws
      BY <2>1 DEF OthersThan
    <3>2. \A i \in 1 .. Len(ws) : ws[i].workspace # e.workspace
      BY <1>1, <2>1 DEF Entries
    <3> HIDE DEF o, ws
    <3> QED
      BY <1>1, <3>1, <3>2 DEF ws
  <2>2. CASE Entries(e.workspace) # {}
    <3>1. k \in 1 .. Len(ws) /\ ws[k].workspace = e.workspace
      BY <1>1, <2>2 DEF Entries
    <3>2. o = SubSeq(ws, 1, k - 1) \o SubSeq(ws, k + 1, Len(ws))
      BY <2>2 DEF OthersThan
    <3> HIDE DEF o, k
    <3>3. /\ o \in Seq(Slot) /\ Distinct(o)
          /\ \A j \in 1 .. Len(o) : \E i \in 1 .. Len(ws) : i # k /\ o[j] = ws[i]
      BY <1>1, <3>1, <3>2, WithoutOne, Zenon
    <3>4. \A i \in 1 .. Len(ws) : i # k => ws[i].workspace # e.workspace
      BY <3>1, Zenon DEF Distinct
    <3> QED
      BY <3>3, <3>4, Zenon
  <2> QED
    BY <2>1, <2>2
<1>3. \A j \in 1 .. Len(o) : o[j].workspace # e.workspace /\ o[j].store # e.store
  BY <1>2, Zenon
<1> HIDE DEF o
<1> DEFINE all == Append(o, e)
           excess == IF Len(all) > MAX_WORKSPACE_STORES THEN Len(all) - MAX_WORKSPACE_STORES ELSE 0
<1>4. /\ all \in Seq(Slot) /\ Distinct(all)
      /\ \A j \in 1 .. Len(o) + 1 : all[j] = e \/ \E i \in 1 .. Len(o) : all[j] = o[i]
      /\ Len(all) = Len(o) + 1
  BY <1>2, <1>3, WithEntry, Zenon
<1>5. Used(e) = SubSeq(all, excess + 1, Len(all))
  BY DEF Used, o
<1> HIDE DEF all
<1>6. Len(all) \in Nat /\ MAX_WORKSPACE_STORES \in Nat
  BY <1>4, CacheAssumption
<1>7. excess \in 0 .. Len(all) /\ Len(all) - excess <= MAX_WORKSPACE_STORES
  BY <1>6
<1> HIDE DEF excess
<1>8. /\ Used(e) \in Seq(Slot) /\ Len(Used(e)) = Len(all) - excess /\ Distinct(Used(e))
      /\ \A j \in 1 .. Len(Used(e)) : \E i \in 1 .. Len(all) : Used(e)[j] = all[i]
  <2> DEFINE cut == SubSeq(all, excess + 1, Len(all))
  <2>1. /\ cut \in Seq(Slot) /\ Len(cut) = Len(all) - excess /\ Distinct(cut)
        /\ \A j \in 1 .. Len(cut) : \E i \in 1 .. Len(all) : cut[j] = all[i]
    BY <1>4, <1>7, WithoutFirst, Zenon
  <2> HIDE DEF cut
  <2>2. Used(e) = cut
    BY <1>5 DEF cut
  <2> QED
    BY <2>1, <2>2, Zenon
<1>9. Len(Used(e)) <= MAX_WORKSPACE_STORES
  BY <1>7, <1>8
<1>10. \A j \in 1 .. Len(Used(e)) :
           Used(e)[j] = e \/ \E i \in 1 .. Len(ws) :
                                Used(e)[j] = ws[i] /\ ws[i].workspace # e.workspace
  <2>1. \A i \in 1 .. Len(all) : all[i] = e \/ \E j \in 1 .. Len(o) : all[i] = o[j]
    BY <1>4, Zenon
  <2>2. ASSUME NEW j \in 1 .. Len(Used(e))
        PROVE  Used(e)[j] = e \/ \E i \in 1 .. Len(ws) :
                                    Used(e)[j] = ws[i] /\ ws[i].workspace # e.workspace
    <3>1. PICK i \in 1 .. Len(all) : Used(e)[j] = all[i]
      BY <1>8, Zenon
    <3>2. CASE all[i] = e
      BY <3>1, <3>2
    <3>3. ASSUME NEW n \in 1 .. Len(o), all[i] = o[n]
          PROVE  \E x \in 1 .. Len(ws) : Used(e)[j] = ws[x] /\ ws[x].workspace # e.workspace
      BY <1>2, <3>1, <3>3, Zenon
    <3> QED
      BY <2>1, <3>2, <3>3, Zenon
  <2> QED
    BY <2>2, Zenon
<1> QED
  BY <1>8, <1>9, <1>10, Zenon

----------------------------------------------------------------------------
(* Requests and texts                                                         *)

RequestRec == [at : {"idle", "fetch", "fetched", "found"},
               client : Workspace \cup {Nothing},
               version : Version,
               store : Store \cup {Nothing},
               answer : Content \cup {Nothing},
               disturbed : BOOLEAN]

LEMMA Contents ==
    /\ Nothing \notin Content /\ Blank \in Content
    /\ \A w \in Workspace : Blank \in ContentOf(w) /\ ContentOf(w) \subseteq Content
    /\ \A w \in Workspace : Nothing \notin ContentOf(w)
  BY CacheAssumption DEF Content, ContentOf

\* TypeOK with names for its records.
LEMMA Types ==
    ASSUME TypeOK
    PROVE  /\ knowledge \in [Workspace -> Version]
           /\ request \in [Request -> RequestRec]
           /\ text \in [Store -> Content \cup {Nothing}]
           /\ workspaceStores \in Seq(Slot)
  BY Zenon DEF TypeOK, RequestRec, Slot

LEMMA Blanks == NoVersion \in Version /\ NoRequest \in RequestRec
<1>1. NoVersion \in Version
  BY Contents, CacheAssumption DEF NoVersion, Version
<1> QED
  BY <1>1 DEF NoRequest, RequestRec

\* The records of requests, by the steps that make them.
WithVersion(a, v) == [a EXCEPT !.at = "fetched", !.version = v]
WithStore(a, s) == [a EXCEPT !.at = "found", !.store = s, !.version = NoVersion]
Answered(c, n, d) == [NoRequest EXCEPT !.client = c, !.answer = n, !.disturbed = d]
Received(w, d) == [NoRequest EXCEPT !.at = "fetch", !.client = w, !.disturbed = d]

LEMMA Fetches ==
    ASSUME NEW a \in RequestRec, NEW v \in Version
    PROVE  LET b == WithVersion(a, v) IN
           /\ b \in RequestRec /\ b.at = "fetched" /\ b.version = v
           /\ b.client = a.client /\ b.store = a.store /\ b.answer = a.answer
           /\ b.disturbed = a.disturbed
<1> DEFINE m == [a EXCEPT !.at = "fetched"]
<1>1. /\ m \in RequestRec /\ m.at = "fetched"
      /\ m.client = a.client /\ m.store = a.store /\ m.answer = a.answer
      /\ m.disturbed = a.disturbed
  BY DEF RequestRec
<1>2. WithVersion(a, v) = [m EXCEPT !.version = v]
  BY DEF WithVersion
<1> HIDE DEF m
<1> QED
  BY <1>1, <1>2 DEF RequestRec

LEMMA Finds ==
    ASSUME NEW a \in RequestRec, NEW s \in Store
    PROVE  LET b == WithStore(a, s) IN
           /\ b \in RequestRec /\ b.at = "found" /\ b.store = s
           /\ b.client = a.client /\ b.answer = a.answer /\ b.disturbed = a.disturbed
<1> DEFINE m == [a EXCEPT !.at = "found"]
           n == [m EXCEPT !.store = s]
<1>1. m \in RequestRec /\ m.at = "found" /\ m.client = a.client /\ m.answer = a.answer
      /\ m.disturbed = a.disturbed
  BY DEF RequestRec
<1>2. WithStore(a, s) = [n EXCEPT !.version = NoVersion]
  BY DEF WithStore
<1> HIDE DEF m
<1>3. n \in RequestRec /\ n.at = "found" /\ n.store = s /\ n.client = a.client /\ n.answer = a.answer
      /\ n.disturbed = a.disturbed
  BY <1>1 DEF RequestRec
<1> HIDE DEF n
<1> QED
  BY <1>2, <1>3, Blanks DEF RequestRec

LEMMA IsAnswered ==
    ASSUME NEW c \in Workspace \cup {Nothing}, NEW n \in Content \cup {Nothing},
           NEW d \in BOOLEAN
    PROVE  LET b == Answered(c, n, d) IN
           b \in RequestRec /\ b.at = "idle" /\ b.client = c /\ b.answer = n
<1> DEFINE k == [NoRequest EXCEPT !.client = c]
           m == [k EXCEPT !.answer = n]
<1>1. k \in RequestRec /\ k.at = "idle" /\ k.client = c
  BY Blanks DEF RequestRec, NoRequest
<1>2. Answered(c, n, d) = [m EXCEPT !.disturbed = d]
  BY DEF Answered
<1> HIDE DEF k
<1>3. m \in RequestRec /\ m.at = "idle" /\ m.client = c /\ m.answer = n
  BY <1>1 DEF RequestRec
<1> HIDE DEF m
<1> QED
  BY <1>2, <1>3 DEF RequestRec

LEMMA IsReceived ==
    ASSUME NEW w \in Workspace, NEW d \in BOOLEAN
    PROVE  LET b == Received(w, d) IN
           b \in RequestRec /\ b.at = "fetch" /\ b.client = w /\ b.answer = Nothing
<1> DEFINE k == [NoRequest EXCEPT !.at = "fetch"]
           m == [k EXCEPT !.client = w]
<1>1. k \in RequestRec /\ k.at = "fetch" /\ k.answer = Nothing
  BY Blanks DEF RequestRec, NoRequest
<1>2. Received(w, d) = [m EXCEPT !.disturbed = d]
  BY DEF Received
<1> HIDE DEF k
<1>3. m \in RequestRec /\ m.at = "fetch" /\ m.client = w /\ m.answer = Nothing
  BY <1>1 DEF RequestRec
<1> HIDE DEF m
<1> QED
  BY <1>2, <1>3 DEF RequestRec

LEMMA DisturbKeeps ==
    ASSUME TypeOK, NEW rs
    PROVE  /\ Disturb(rs) \in [Request -> RequestRec]
           /\ \A x \in Request :
                 /\ Disturb(rs)[x].at = request[x].at
                 /\ Disturb(rs)[x].client = request[x].client
                 /\ Disturb(rs)[x].version = request[x].version
                 /\ Disturb(rs)[x].store = request[x].store
                 /\ Disturb(rs)[x].answer = request[x].answer
<1>1. request \in [Request -> RequestRec]
  BY Types
<1>2. \A x \in Request : Disturb(rs)[x] = IF x \in rs THEN [request[x] EXCEPT !.disturbed = TRUE]
                                                    ELSE request[x]
  BY DEF Disturb
<1>3. \A x \in Request :
         /\ Disturb(rs)[x] \in RequestRec
         /\ Disturb(rs)[x].at = request[x].at
         /\ Disturb(rs)[x].client = request[x].client
         /\ Disturb(rs)[x].version = request[x].version
         /\ Disturb(rs)[x].store = request[x].store
         /\ Disturb(rs)[x].answer = request[x].answer
  BY <1>1, <1>2 DEF RequestRec
<1>4. Disturb(rs) \in [Request -> RequestRec]
  BY <1>3 DEF Disturb
<1> QED
  BY <1>3, <1>4

\* A request that changes nothing but "disturbed", while no store changes.
LEMMA Undisturbed ==
    ASSUME NEW x \in Request, RequestIsOwn(x), text' = text, workspaceStores' = workspaceStores,
           request'[x].at = request[x].at, request'[x].client = request[x].client,
           request'[x].version = request[x].version, request'[x].store = request[x].store,
           request'[x].answer = request[x].answer
    PROVE  RequestIsOwn(x)'
  BY Zenon DEF RequestIsOwn

LEMMA OneRequest ==
    ASSUME TypeOK, NEW r \in Request, NEW q \in RequestRec, request' = [request EXCEPT ![r] = q]
    PROVE  /\ request' \in [Request -> RequestRec] /\ request'[r] = q
           /\ \A x \in Request : x # r => request'[x] = request[x]
  BY Types

----------------------------------------------------------------------------
(* The steps                                                                  *)

LEMMA InitIInv == Init => IInv
<1> SUFFICES ASSUME Init PROVE IInv
  OBVIOUS
<1>1. /\ knowledge \in [Workspace -> Version] /\ request \in [Request -> RequestRec]
      /\ \A w \in Workspace : knowledge[w].content = Blank
      /\ \A r \in Request : request[r] = NoRequest
  BY Blanks DEF Init, NoVersion
<1>2. /\ text \in [Store -> Content \cup {Nothing}] /\ workspaceStores \in Seq(Slot)
      /\ Len(workspaceStores) = 0
  BY DEF Init
<1>3. TypeOK
  <2>1. now \in 0 .. MaxSecond /\ saves \in 0 .. MaxSaves /\ Len(workspaceStores) <= MAX_WORKSPACE_STORES
    BY <1>2, CacheAssumption DEF Init
  <2>p. published \in [Workspace -> SUBSET Version]
    BY Blanks DEF Init
  <2>2. received \in 0 .. MaxRequests
    BY CacheAssumption DEF Init
  <2> QED
    BY <1>1, <1>2, <2>1, <2>p, <2>2, Zenon DEF TypeOK, RequestRec, Slot
<1>4. KnowledgeIsOwn
  BY <1>1, Contents, Zenon DEF KnowledgeIsOwn
<1>5. CacheIsOwn
  BY <1>2 DEF CacheIsOwn, Distinct
<1>6. ASSUME NEW r \in Request PROVE RequestIsOwn(r)
  <2>1. request[r].at = "idle" /\ request[r].answer = Nothing
    BY <1>1 DEF NoRequest
  <2> QED
    BY <2>1 DEF RequestIsOwn
<1> QED
  BY <1>3, <1>4, <1>5, <1>6 DEF IInv

LEMMA SaveKeeps ==
    ASSUME IInv, NEW w \in Workspace, NEW content \in ContentOf(w), NEW second \in 0 .. MaxSecond,
           SaveWorkspace(w, content, second)
    PROVE  IInv'
<1> DEFINE v == [content |-> content, second |-> second]
<1>1. /\ request' = Disturb(Active(w)) /\ text' = text /\ workspaceStores' = workspaceStores
      /\ now' = now /\ received' = received /\ saves < MaxSaves /\ saves' = saves + 1
      /\ published' = [published EXCEPT ![w] = @ \cup {v}]
      /\ knowledge' = [knowledge EXCEPT ![w] = v]
  BY DEF SaveWorkspace
<1>2. /\ request' \in [Request -> RequestRec]
      /\ \A x \in Request : RequestIsOwn(x)'
  BY <1>1, DisturbKeeps, Undisturbed, Zenon DEF IInv
<1>v. v \in Version
  <2>1. content \in Content
    BY Contents
  <2> QED
    BY <2>1 DEF Version
<1>3. knowledge' \in [Workspace -> Version] /\ KnowledgeIsOwn'
  <2>1. knowledge \in [Workspace -> Version]
    BY Types DEF IInv
  <2> QED
    BY <1>1, <1>v, <2>1 DEF IInv, KnowledgeIsOwn
<1>4. TypeOK'
  <2>1. saves' \in 0 .. MaxSaves
    BY <1>1, CacheAssumption DEF IInv, TypeOK
  <2>2. published \in [Workspace -> SUBSET Version]
    BY DEF IInv, TypeOK
  <2> HIDE DEF v
  <2>3. published' \in [Workspace -> SUBSET Version]
    BY <1>1, <1>v, <2>2
  <2> QED
    BY <1>1, <1>2, <1>3, <2>1, <2>3, Zenon DEF IInv, TypeOK, RequestRec
<1>5. CacheIsOwn'
  BY <1>1, Zenon DEF IInv, CacheIsOwn
<1> QED
  BY <1>2, <1>3, <1>4, <1>5, Zenon DEF IInv

\* A step of one request that leaves the stores alone.
LEMMA StoresAlone ==
    ASSUME IInv, NEW r \in Request, NEW q \in RequestRec, request' = [request EXCEPT ![r] = q],
           UNCHANGED <<apiVars, received, text, workspaceStores>>,
           q.at = "fetched" => q.version.content \in ContentOf(q.client),
           q.at # "idle" => q.client \in Workspace,
           q.at # "found", q.answer # Nothing => q.answer \in ContentOf(q.client)
    PROVE  IInv'
<1>1. /\ request' \in [Request -> RequestRec] /\ request'[r] = q
      /\ \A x \in Request : x # r => request'[x] = request[x]
  BY OneRequest, Zenon DEF IInv
<1>2. /\ text' = text /\ workspaceStores' = workspaceStores /\ knowledge' = knowledge
      /\ received' = received /\ now' = now /\ saves' = saves /\ published' = published
  BY DEF apiVars
<1>3. TypeOK' /\ KnowledgeIsOwn' /\ CacheIsOwn'
  BY <1>1, <1>2, Zenon DEF IInv, TypeOK, RequestRec, KnowledgeIsOwn, CacheIsOwn
<1>4. RequestIsOwn(r)'
  BY <1>1, Zenon DEF RequestIsOwn
<1>5. ASSUME NEW x \in Request, x # r PROVE RequestIsOwn(x)'
  BY <1>1, <1>2, <1>5, Undisturbed, Zenon DEF IInv
<1> QED
  BY <1>3, <1>4, <1>5, Zenon DEF IInv

LEMMA ReceiveKeeps ==
    ASSUME IInv, NEW r \in Request, NEW w \in Workspace, Receive(r, w) PROVE IInv'
<1> DEFINE others == Active(w)
           d == others # {}
           q == Received(w, d)
<1>1. /\ request' = [Disturb(others) EXCEPT ![r] = q] /\ text' = text
      /\ workspaceStores' = workspaceStores /\ knowledge' = knowledge /\ now' = now
      /\ saves' = saves /\ published' = published /\ received < MaxRequests /\ received' = received + 1
  BY DEF Receive, Received, apiVars
<1>d. d \in BOOLEAN
  OBVIOUS
<1> HIDE DEF d
<1>2. q \in RequestRec /\ q.at = "fetch" /\ q.client = w /\ q.answer = Nothing
  BY <1>d, IsReceived, Zenon
<1> HIDE DEF q
<1>3. /\ Disturb(others) \in [Request -> RequestRec]
      /\ \A x \in Request :
            /\ Disturb(others)[x].at = request[x].at
            /\ Disturb(others)[x].client = request[x].client
            /\ Disturb(others)[x].version = request[x].version
            /\ Disturb(others)[x].store = request[x].store
            /\ Disturb(others)[x].answer = request[x].answer
  BY DisturbKeeps, Zenon DEF IInv
<1>4. /\ request' \in [Request -> RequestRec] /\ request'[r] = q
      /\ \A x \in Request : x # r => request'[x] = Disturb(others)[x]
  BY <1>1, <1>2, <1>3
<1>5. TypeOK' /\ KnowledgeIsOwn' /\ CacheIsOwn'
  <2>1. received' \in 0 .. MaxRequests
    BY <1>1, CacheAssumption DEF IInv, TypeOK
  <2> QED
    BY <1>1, <1>4, <2>1, Zenon DEF IInv, TypeOK, RequestRec, KnowledgeIsOwn, CacheIsOwn
<1>6. RequestIsOwn(r)'
  <2>1. request'[r].at = "fetch" /\ request'[r].client \in Workspace /\ request'[r].answer = Nothing
    BY <1>2, <1>4, Zenon
  <2> QED
    BY <2>1 DEF RequestIsOwn
<1>7. ASSUME NEW x \in Request, x # r PROVE RequestIsOwn(x)'
  BY <1>1, <1>3, <1>4, <1>7, Undisturbed, Zenon DEF IInv
<1> QED
  BY <1>5, <1>6, <1>7, Zenon DEF IInv

LEMMA ApiAnswersKeeps == ASSUME IInv, NEW r \in Request, ApiAnswers(r) PROVE IInv'
<1> DEFINE v == knowledge[request[r].client]
           q == WithVersion(request[r], v)
<1>1. request[r] \in RequestRec /\ request[r].client \in Workspace /\ v \in Version
      /\ v.content \in ContentOf(request[r].client)
  <2>1. request[r].at # "idle"
    BY DEF ApiAnswers
  <2>2. request[r].client \in Workspace
    BY <2>1, Zenon DEF IInv, RequestIsOwn
  <2> QED
    BY <2>2, Types DEF IInv, KnowledgeIsOwn
<1>2. request' = [request EXCEPT ![r] = q]
      /\ UNCHANGED <<apiVars, received, text, workspaceStores>>
  BY DEF ApiAnswers, WithVersion
<1> HIDE DEF v
<1>3. q \in RequestRec /\ q.at = "fetched" /\ q.version = v
      /\ q.client = request[r].client /\ q.answer = request[r].answer
  BY <1>1, Fetches, Zenon
<1> HIDE DEF q
<1>4. q.answer # Nothing => q.answer \in ContentOf(q.client)
  BY <1>3, Zenon DEF IInv, RequestIsOwn
<1>5. q.at # "found" /\ q.client \in Workspace /\ q.version.content \in ContentOf(q.client)
  BY <1>1, <1>3
<1> QED
  BY <1>2, <1>3, <1>4, <1>5, StoresAlone, Zenon

\* A request ends, with an answer of its workspace or with none.
LEMMA AnswerKeeps ==
    ASSUME IInv, NEW r \in Request, NEW c \in Content \cup {Nothing}, Answer(r, c),
           c # Nothing => c \in ContentOf(request[r].client),
           UNCHANGED <<apiVars, received, text, workspaceStores>>
    PROVE  IInv'
<1> DEFINE q == Answered(request[r].client, c, request[r].disturbed)
<1>1. request[r].client \in Workspace \cup {Nothing} /\ request[r].disturbed \in BOOLEAN
  <2>1. request[r] \in RequestRec
    BY Types DEF IInv
  <2> QED
    BY <2>1 DEF RequestRec
<1>2. request' = [request EXCEPT ![r] = q]
  BY DEF Answer, Answered
<1>3. q \in RequestRec /\ q.at = "idle" /\ q.client = request[r].client /\ q.answer = c
  BY <1>1, IsAnswered
<1> HIDE DEF q
<1>4. q.at # "fetched" /\ q.at # "found" /\ q.at = "idle"
      /\ (q.answer # Nothing => q.answer \in ContentOf(q.client))
  BY <1>3
<1> QED
  BY <1>2, <1>3, <1>4, StoresAlone, Zenon

LEMMA FetchFailsKeeps == ASSUME IInv, NEW r \in Request, FetchFails(r) PROVE IInv'
  BY AnswerKeeps, Zenon DEF FetchFails

LEMMA ServeKeeps == ASSUME IInv, NEW r \in Request, Serve(r) PROVE IInv'
<1>1. request[r].at = "found" /\ Answer(r, text[request[r].store])
      /\ UNCHANGED <<apiVars, received, text, workspaceStores>>
  BY DEF Serve
<1>2. request[r].store \in Store /\ text[request[r].store] \in ContentOf(request[r].client)
  BY <1>1, Zenon DEF IInv, RequestIsOwn
<1>3. text[request[r].store] \in Content \cup {Nothing}
  BY <1>2, Types DEF IInv
<1> QED
  BY <1>1, <1>2, <1>3, AnswerKeeps, Zenon

\* The entry of a workspace is in the cache, and nobody else has its store.
LEMMA CachedEntry ==
    ASSUME TypeOK, Distinct(workspaceStores), NEW w, Entries(w) # {}
    PROVE  \E i \in 1 .. Len(workspaceStores) :
              /\ Cached(w) = workspaceStores[i] /\ Cached(w).workspace = w /\ Cached(w) \in Slot
              /\ \A j \in 1 .. Len(workspaceStores) :
                    workspaceStores[j].store = Cached(w).store => workspaceStores[j].workspace = w
<1> DEFINE i == CHOOSE i \in Entries(w) : TRUE
<1>1. workspaceStores \in Seq(Slot)
  BY Types
<1>2. Entries(w) \subseteq 1 .. Len(workspaceStores)
  BY <1>1 DEF Entries
<1>3. i \in Entries(w) /\ Cached(w) = workspaceStores[i]
  BY DEF Cached
<1>4. i \in 1 .. Len(workspaceStores) /\ workspaceStores[i].workspace = w
  BY <1>2, <1>3 DEF Entries
<1> HIDE DEF i
<1>5. workspaceStores[i] \in Slot
  BY <1>1, <1>4
<1>6. \A j \in 1 .. Len(workspaceStores) :
         workspaceStores[j].store = Cached(w).store => workspaceStores[j].workspace = w
  BY <1>3, <1>4, Zenon DEF Distinct
<1> QED
  BY <1>3, <1>4, <1>5, <1>6, Zenon

\* A request is given a store of its workspace by a step that may set the text of this
\* store, and that leaves of the cache an entry for it and some of the other entries.
FoundStep(r, e) ==
    /\ request[r].at = "fetched" /\ e.workspace = request[r].client /\ Found(r, e.store)
    /\ \A i \in 1 .. Len(workspaceStores) :
          workspaceStores[i].store = e.store => workspaceStores[i].workspace = e.workspace
    /\ \A x \in Request :
          request[x].at = "found" /\ request[x].store = e.store => request[x].client = e.workspace
    /\ workspaceStores' = Used(e) /\ UNCHANGED <<apiVars, received>>
    /\ text' \in [Store -> Content \cup {Nothing}]
    /\ text'[e.store] \in ContentOf(e.workspace)
    /\ \A s \in Store : s # e.store => text'[s] = text[s]

LEMMA FoundKeeps ==
    ASSUME IInv, NEW r \in Request, NEW e \in Slot, FoundStep(r, e)
    PROVE  IInv'
<1> DEFINE w == request[r].client
           q == WithStore(request[r], e.store)
<1> /\ e.workspace = w /\ Found(r, e.store)
    /\ \A i \in 1 .. Len(workspaceStores) :
          workspaceStores[i].store = e.store => workspaceStores[i].workspace = e.workspace
    /\ \A x \in Request :
          request[x].at = "found" /\ request[x].store = e.store => request[x].client = e.workspace
    /\ workspaceStores' = Used(e) /\ UNCHANGED <<apiVars, received>>
    /\ text' \in [Store -> Content \cup {Nothing}]
    /\ text'[e.store] \in ContentOf(e.workspace)
    /\ \A s \in Store : s # e.store => text'[s] = text[s]
  BY Zenon DEF FoundStep
<1>1. e.store \in Store /\ w \in Workspace
  BY DEF Slot
<1>2. request' = [request EXCEPT ![r] = q] /\ request[r] \in RequestRec
  BY Types DEF Found, WithStore, IInv
<1>3. /\ q \in RequestRec /\ q.at = "found" /\ q.store = e.store
      /\ q.client = w /\ q.answer = request[r].answer
  BY <1>1, <1>2, Finds, Zenon
<1> HIDE DEF q
<1>4. /\ request' \in [Request -> RequestRec] /\ request'[r] = q
      /\ \A x \in Request : x # r => request'[x] = request[x]
  BY <1>2, <1>3, OneRequest, Zenon DEF IInv
<1>5. /\ workspaceStores' \in Seq(Slot) /\ Len(workspaceStores') <= MAX_WORKSPACE_STORES
      /\ Distinct(workspaceStores')
      /\ \A j \in 1 .. Len(workspaceStores') :
            workspaceStores'[j] = e \/ \E i \in 1 .. Len(workspaceStores) :
                                          /\ workspaceStores'[j] = workspaceStores[i]
                                          /\ workspaceStores[i].workspace # e.workspace
  BY UsedKeeps, Zenon DEF IInv, CacheIsOwn
<1>6. /\ knowledge' = knowledge /\ received' = received /\ now' = now /\ saves' = saves
      /\ published' = published
  BY DEF apiVars
<1>7. TypeOK' /\ KnowledgeIsOwn'
  BY <1>4, <1>5, <1>6, Zenon DEF IInv, TypeOK, RequestRec, Slot, KnowledgeIsOwn
<1>8. \A i \in 1 .. Len(workspaceStores) : workspaceStores[i].store \in Store
  <2>1. workspaceStores \in Seq(Slot)
    BY Types DEF IInv
  <2>2. \A i \in 1 .. Len(workspaceStores) : workspaceStores[i] \in Slot
    BY <2>1
  <2> QED
    BY <2>2 DEF Slot
<1>9. CacheIsOwn'
  <2>1. Distinct(workspaceStores)'
    BY <1>5, Zenon DEF Distinct
  <2>2. ASSUME NEW j \in 1 .. Len(workspaceStores')
        PROVE  text'[workspaceStores'[j].store] \in ContentOf(workspaceStores'[j].workspace)
    <3>1. CASE workspaceStores'[j] = e
      BY <3>1, Zenon
    <3>2. ASSUME NEW i \in 1 .. Len(workspaceStores), workspaceStores'[j] = workspaceStores[i],
                 workspaceStores[i].workspace # e.workspace
          PROVE  text'[workspaceStores'[j].store] \in ContentOf(workspaceStores'[j].workspace)
      <4>1. workspaceStores[i].store # e.store /\ workspaceStores[i].store \in Store
        BY <1>8, <3>2, Zenon
      <4>2. text'[workspaceStores[i].store] = text[workspaceStores[i].store]
        BY <4>1, Zenon
      <4>3. text[workspaceStores[i].store] \in ContentOf(workspaceStores[i].workspace)
        BY Zenon DEF IInv, CacheIsOwn
      <4> QED
        BY <3>2, <4>2, <4>3, Zenon
    <3> QED
      BY <1>5, <3>1, <3>2, Zenon
  <2> QED
    BY <2>1, <2>2, Zenon DEF CacheIsOwn
<1>10. \A j \in 1 .. Len(workspaceStores') :
           \/ workspaceStores'[j] = e
           \/ \E i \in 1 .. Len(workspaceStores) : workspaceStores'[j] = workspaceStores[i]
  BY <1>5, Zenon
<1>11. RequestIsOwn(r)'
  <2>1. \A j \in 1 .. Len(workspaceStores') :
           workspaceStores'[j].store = e.store => workspaceStores'[j].workspace = w
    <3> SUFFICES ASSUME NEW j \in 1 .. Len(workspaceStores'), workspaceStores'[j].store = e.store
                 PROVE  workspaceStores'[j].workspace = w
      BY Zenon
    <3>1. CASE workspaceStores'[j] = e
      BY <3>1, Zenon
    <3>2. ASSUME NEW i \in 1 .. Len(workspaceStores), workspaceStores'[j] = workspaceStores[i]
          PROVE  workspaceStores'[j].workspace = w
      BY <3>2, Zenon
    <3> QED
      BY <1>10, <3>1, <3>2, Zenon
  <2>2. q.answer # Nothing => q.answer \in ContentOf(q.client)
    BY <1>3, Zenon DEF IInv, RequestIsOwn
  <2>3. q.at # "fetched"
    BY <1>3
  <2> QED
    BY <1>1, <1>3, <1>4, <2>1, <2>2, <2>3, Zenon DEF RequestIsOwn
<1>12. ASSUME NEW x \in Request, x # r PROVE RequestIsOwn(x)'
  <2>1. request'[x] = request[x] /\ RequestIsOwn(x)
    BY <1>4, <1>12, Zenon DEF IInv
  <2>2. ASSUME request[x].at = "found"
        PROVE  /\ request[x].store \in Store
               /\ text'[request[x].store] \in ContentOf(request[x].client)
               /\ \A j \in 1 .. Len(workspaceStores') :
                     workspaceStores'[j].store = request[x].store =>
                         workspaceStores'[j].workspace = request[x].client
    <3>1. /\ request[x].store \in Store
          /\ text[request[x].store] \in ContentOf(request[x].client)
          /\ \A i \in 1 .. Len(workspaceStores) :
                workspaceStores[i].store = request[x].store =>
                    workspaceStores[i].workspace = request[x].client
      BY <2>1, <2>2, Zenon DEF RequestIsOwn
    <3>2. request[x].store = e.store => request[x].client = e.workspace
      BY <2>2, Zenon
    <3>3. text'[request[x].store] \in ContentOf(request[x].client)
      BY <3>1, <3>2, Zenon
    <3>4. \A j \in 1 .. Len(workspaceStores') :
              workspaceStores'[j].store = request[x].store =>
                  workspaceStores'[j].workspace = request[x].client
      <4> SUFFICES ASSUME NEW j \in 1 .. Len(workspaceStores'),
                          workspaceStores'[j].store = request[x].store
                   PROVE  workspaceStores'[j].workspace = request[x].client
        BY Zenon
      <4>1. CASE workspaceStores'[j] = e
        BY <3>2, <4>1, Zenon
      <4>2. ASSUME NEW i \in 1 .. Len(workspaceStores), workspaceStores'[j] = workspaceStores[i]
            PROVE  workspaceStores'[j].workspace = request[x].client
        BY <3>1, <4>2, Zenon
      <4> QED
        BY <1>10, <4>1, <4>2, Zenon
    <3> QED
      BY <3>1, <3>3, <3>4, Zenon
  <2> QED
    BY <2>1, <2>2, Zenon DEF RequestIsOwn
<1> QED
  BY <1>7, <1>9, <1>11, <1>12, Zenon DEF IInv

\* A hit finds the entry that is labelled with the second that was fetched.
LEMMA HitFinds ==
    ASSUME IInv, NEW r \in Request, Hit(r)
    PROVE  \E i \in 1 .. Len(workspaceStores) :
              /\ workspaceStores[i] \in Slot /\ FoundStep(r, workspaceStores[i])
              /\ workspaceStores[i].second = request[r].version.second /\ text' = text
<1> DEFINE w == request[r].client
           e == Cached(w)
<1>1. /\ request[r].at = "fetched"
      /\ Entries(w) # {} /\ e.second = request[r].version.second
      /\ workspaceStores' = Used(e) /\ Found(r, e.store)
      /\ UNCHANGED <<apiVars, received>> /\ text' = text
  BY DEF Hit, apiVars
<1> HIDE DEF e
<1>2. PICK i \in 1 .. Len(workspaceStores) :
          /\ e = workspaceStores[i] /\ e.workspace = w /\ e \in Slot
          /\ \A j \in 1 .. Len(workspaceStores) :
                workspaceStores[j].store = e.store => workspaceStores[j].workspace = w
  BY <1>1, CachedEntry, Zenon DEF IInv, CacheIsOwn, e
<1>3. text \in [Store -> Content \cup {Nothing}]
  BY Types DEF IInv
<1>4. text[e.store] \in ContentOf(e.workspace)
  BY <1>2, Zenon DEF IInv, CacheIsOwn
<1>5. \A x \in Request : request[x].at = "found" /\ request[x].store = e.store
                             => request[x].client = e.workspace
  BY <1>2, Zenon DEF IInv, RequestIsOwn
<1>6. FoundStep(r, e)
  BY <1>1, <1>2, <1>3, <1>4, <1>5, Zenon DEF FoundStep
<1> QED
  BY <1>1, <1>2, <1>6, Zenon

LEMMA HitKeeps == ASSUME IInv, NEW r \in Request, Hit(r) PROVE IInv'
  BY HitFinds, FoundKeeps, Zenon

\* An installation labels the text that was fetched with its second.
LEMMA InstallFinds ==
    ASSUME IInv, NEW r \in Request, Install(r)
    PROVE  \E e \in Slot :
              /\ FoundStep(r, e) /\ e.second = request[r].version.second
              /\ text'[e.store] = request[r].version.content
<1> DEFINE w == request[r].client
           v == request[r].version
           s == IF Entries(w) = {} THEN NewStore ELSE Cached(w).store
           e == [workspace |-> w, store |-> s, second |-> v.second]
<1>1. /\ request[r].at = "fetched" /\ workspaceStores' = Used(e) /\ Found(r, s)
      /\ Entries(w) = {} => \E x \in Store : text[x] = Nothing
      /\ text' = [text EXCEPT ![s] = v.content]
      /\ UNCHANGED <<apiVars, received>>
  BY DEF Install
<1>2. w \in Workspace /\ v.content \in ContentOf(w)
  <2>1. RequestIsOwn(r) /\ request[r].at # "idle"
    BY <1>1 DEF IInv
  <2> QED
    BY <1>1, <2>1, Zenon DEF RequestIsOwn
<1>3. v.second \in 0 .. MaxSecond /\ text \in [Store -> Content \cup {Nothing}]
  <2>1. request[r] \in RequestRec /\ text \in [Store -> Content \cup {Nothing}]
    BY Types DEF IInv
  <2> QED
    BY <2>1 DEF RequestRec, Version
<1>4. /\ s \in Store
      /\ \A i \in 1 .. Len(workspaceStores) :
            workspaceStores[i].store = s => workspaceStores[i].workspace = w
      /\ \A x \in Request :
            request[x].at = "found" /\ request[x].store = s => request[x].client = w
  <2>1. CASE Entries(w) = {}
    <3>1. s \in Store /\ text[s] = Nothing
      BY <1>1, <2>1 DEF NewStore
    <3> HIDE DEF s
    <3>2. workspaceStores \in Seq(Slot)
      BY Types DEF IInv
    <3>3. \A i \in 1 .. Len(workspaceStores) : workspaceStores[i].workspace \in Workspace
      <4>1. \A i \in 1 .. Len(workspaceStores) : workspaceStores[i] \in Slot
        BY <3>2
      <4> QED
        BY <4>1 DEF Slot
    <3>4. \A i \in 1 .. Len(workspaceStores) : workspaceStores[i].store # s
      BY <3>1, <3>3, Contents, Zenon DEF IInv, CacheIsOwn
    <3>5. ASSUME NEW x \in Request, request[x].at = "found" PROVE request[x].store # s
      <4>1. request[x].at # "idle" /\ RequestIsOwn(x)
        BY <3>5 DEF IInv
      <4>2. request[x].client \in Workspace /\ text[request[x].store] \in ContentOf(request[x].client)
        BY <3>5, <4>1, Zenon DEF RequestIsOwn
      <4> QED
        BY <3>1, <4>2, Contents, Zenon
    <3> QED
      BY <3>1, <3>4, <3>5, Zenon
  <2>2. CASE Entries(w) # {}
    <3>1. PICK i \in 1 .. Len(workspaceStores) :
              /\ Cached(w) = workspaceStores[i] /\ Cached(w).workspace = w /\ Cached(w) \in Slot
              /\ \A j \in 1 .. Len(workspaceStores) :
                    workspaceStores[j].store = Cached(w).store => workspaceStores[j].workspace = w
      BY <2>2, CachedEntry, Zenon DEF IInv, CacheIsOwn
    <3>2. s = Cached(w).store /\ s = workspaceStores[i].store /\ workspaceStores[i].workspace = w
      BY <2>2, <3>1, Zenon
    <3>3. s \in Store
      BY <3>1, <3>2 DEF Slot
    <3> HIDE DEF s
    <3>4. \A x \in Request : request[x].at = "found" /\ request[x].store = s => request[x].client = w
      BY <3>2, Zenon DEF IInv, RequestIsOwn
    <3> QED
      BY <3>1, <3>2, <3>3, <3>4, Zenon
  <2> QED
    BY <2>1, <2>2
<1> HIDE DEF s
<1>5. e \in Slot /\ e.workspace = w /\ e.store = s /\ e.second = v.second
  BY <1>2, <1>3, <1>4 DEF Slot
<1>6. /\ text' \in [Store -> Content \cup {Nothing}] /\ text'[s] = v.content
      /\ \A x \in Store : x # s => text'[x] = text[x]
  <2>1. v.content \in Content
    BY <1>2, Contents, Zenon
  <2> HIDE DEF w, v
  <2> QED
    BY <1>1, <1>3, <1>4, <2>1
<1> HIDE DEF e
<1>7. FoundStep(r, e)
  BY <1>1, <1>2, <1>4, <1>5, <1>6, Zenon DEF FoundStep
<1> QED
  BY <1>5, <1>6, <1>7, Zenon

LEMMA InstallKeeps == ASSUME IInv, NEW r \in Request, Install(r) PROVE IInv'
  BY InstallFinds, FoundKeeps, Zenon

LEMMA NextIInv == ASSUME IInv, [Next]_vars PROVE IInv'
<1>1. ASSUME NEW w \in Workspace, NEW content \in ContentOf(w), NEW second \in 0 .. MaxSecond,
             SaveWorkspace(w, content, second)
      PROVE  IInv'
  BY <1>1, SaveKeeps
<1>2. ASSUME Tick \/ UNCHANGED vars PROVE IInv'
  <2>1. /\ knowledge' = knowledge /\ published' = published /\ saves' = saves /\ received' = received
        /\ request' = request /\ text' = text /\ workspaceStores' = workspaceStores
        /\ now' \in 0 .. MaxSecond
    BY <1>2, CacheAssumption DEF Tick, vars, apiVars, IInv, TypeOK
  <2> QED
    BY <2>1, Zenon DEF IInv, TypeOK, KnowledgeIsOwn, CacheIsOwn, RequestIsOwn
<1>3. ASSUME NEW r \in Request, NEW w \in Workspace, Receive(r, w) PROVE IInv'
  BY <1>3, ReceiveKeeps
<1>4. ASSUME NEW r \in Request, Handle(r) PROVE IInv'
  BY <1>4, ApiAnswersKeeps, FetchFailsKeeps, HitKeeps, InstallKeeps, ServeKeeps, Zenon DEF Handle
<1> QED
  BY <1>1, <1>2, <1>3, <1>4, Zenon DEF Next

LEMMA Inductive == Spec => []IInv
  BY InitIInv, NextIInv, PTL DEF Spec

----------------------------------------------------------------------------
(* What a request is answered that nothing overlaps                           *)

\* The API has published this text with this second.
LabelIsTrue(w, second, content) == [content |-> content, second |-> second] \in published[w]

KnowledgeIsPublished == \A w \in Workspace : knowledge[w] \in published[w]

LabelsAreTrue ==
    \A i \in 1 .. Len(workspaceStores) :
        LabelIsTrue(workspaceStores[i].workspace, workspaceStores[i].second,
                    text[workspaceStores[i].store])

IsAlone(r) ==
    \A x \in Request : request[x].at # "idle" /\ request[x].client = request[r].client => x = r

\* What a request fetched is labelled truly; one that nothing has overlapped is alone,
\* and what it fetched or found is what the API still publishes.
RequestIsFresh(r) ==
    LET q == request[r] IN
    /\ q.at = "fetched" => LabelIsTrue(q.client, q.version.second, q.version.content)
    /\ q.at # "idle" /\ ~ q.disturbed =>
          /\ IsAlone(r)
          /\ q.at = "fetched" => q.version = knowledge[q.client]
          /\ q.at = "found" /\ ~ Ambiguous(published[q.client]) => text[q.store] = knowledge[q.client].content

FreshInv == IInv /\ KnowledgeIsPublished /\ LabelsAreTrue /\ \A r \in Request : RequestIsFresh(r)

LEMMA Entry ==
    ASSUME TypeOK, NEW i \in 1 .. Len(workspaceStores)
    PROVE  /\ workspaceStores[i].workspace \in Workspace /\ workspaceStores[i].store \in Store
           /\ workspaceStores[i].second \in 0 .. MaxSecond
<1>1. workspaceStores \in Seq(Slot)
  BY Types
<1>2. workspaceStores[i] \in Slot
  BY <1>1
<1> QED
  BY <1>2 DEF Slot

\* The fetched versions have seconds, and belong to workspaces.
LEMMA Fetched ==
    ASSUME IInv, NEW r \in Request, request[r].at = "fetched"
    PROVE  request[r].client \in Workspace /\ request[r].version.second \in 0 .. MaxSecond
<1>1. request[r] \in RequestRec /\ RequestIsOwn(r) /\ request[r].at # "idle"
  BY Types DEF IInv
<1>2. request[r].client \in Workspace
  BY <1>1, Zenon DEF RequestIsOwn
<1>3. request[r].version \in Version
  BY <1>1 DEF RequestRec
<1> QED
  BY <1>2, <1>3 DEF Version

LEMMA AloneKept ==
    ASSUME NEW x \in Request, IsAlone(x), request'[x].client = request[x].client,
           \A y \in Request : request'[y].at # "idle" =>
               request[y].at # "idle" /\ request'[y].client = request[y].client
    PROVE  IsAlone(x)'
  BY Zenon DEF IsAlone

\* What was published stays so, and two contents of one second stay two.
LEMMA Saved ==
    ASSUME IInv, NEW w \in Workspace, NEW content \in ContentOf(w), NEW second \in 0 .. MaxSecond,
           SaveWorkspace(w, content, second)
    PROVE  /\ \A c \in Workspace : published[c] \subseteq published'[c]
           /\ \A c \in Workspace : c # w => published'[c] = published[c] /\ knowledge'[c] = knowledge[c]
           /\ knowledge'[w] \in published'[w]
<1> DEFINE v == [content |-> content, second |-> second]
<1>1. /\ published' = [published EXCEPT ![w] = @ \cup {v}]
      /\ knowledge' = [knowledge EXCEPT ![w] = v]
  BY DEF SaveWorkspace
<1>2. knowledge \in [Workspace -> Version] /\ published \in [Workspace -> SUBSET Version]
  BY Types DEF IInv, TypeOK
<1> HIDE DEF v
<1> QED
  BY <1>1, <1>2

\* A text that has the revision the API publishes is the one it publishes.
LEMMA OneContent ==
    ASSUME NEW w \in Workspace, NEW n, NEW t, LabelIsTrue(w, n, t), KnowledgeIsPublished,
           ~ Ambiguous(published[w]), n = knowledge[w].second
    PROVE  t = knowledge[w].content
<1> DEFINE v == [content |-> t, second |-> n]
<1>1. v.content = t /\ v.second = n /\ v \in published[w]
  BY DEF LabelIsTrue
<1> HIDE DEF v
<1>2. knowledge[w] \in published[w]
  BY DEF KnowledgeIsPublished
<1> QED
  BY <1>1, <1>2 DEF Ambiguous

LEMMA DisturbMarks ==
    ASSUME TypeOK, NEW rs
    PROVE  \A x \in Request : ~ Disturb(rs)[x].disturbed => x \notin rs /\ Disturb(rs)[x] = request[x]
<1>1. \A x \in Request : request[x] \in RequestRec
  BY Types
<1>2. \A x \in Request : Disturb(rs)[x] = IF x \in rs THEN [request[x] EXCEPT !.disturbed = TRUE]
                                                    ELSE request[x]
  BY DEF Disturb
<1>3. \A x \in Request : x \in rs => Disturb(rs)[x].disturbed
  BY <1>1, <1>2 DEF RequestRec
<1> QED
  BY <1>2, <1>3

LEMMA InitFresh == Init => FreshInv
<1> SUFFICES ASSUME Init PROVE FreshInv
  OBVIOUS
<1>1. IInv
  BY InitIInv
<1>2. /\ \A w \in Workspace : knowledge[w] \in published[w]
      /\ \A r \in Request : request[r].at = "idle"
      /\ Len(workspaceStores) = 0 /\ now = 0
  BY DEF Init, NoVersion, NoRequest
<1>3. KnowledgeIsPublished
  BY <1>2, Zenon DEF KnowledgeIsPublished
<1>4. LabelsAreTrue
  BY <1>2 DEF LabelsAreTrue
<1>5. \A r \in Request : RequestIsFresh(r)
  BY <1>2 DEF RequestIsFresh
<1> QED
  BY <1>1, <1>3, <1>4, <1>5, Zenon DEF FreshInv

LEMMA SaveFresh ==
    ASSUME FreshInv, NEW w \in Workspace, NEW content \in ContentOf(w), NEW second \in 0 .. MaxSecond,
           SaveWorkspace(w, content, second)
    PROVE  FreshInv'
<1> DEFINE rs == Active(w)
<1>1. request' = Disturb(rs) /\ text' = text /\ workspaceStores' = workspaceStores
  BY DEF SaveWorkspace
<1>2. IInv /\ IInv' /\ TypeOK
  BY SaveKeeps, Zenon DEF FreshInv, IInv
<1>p. /\ \A c \in Workspace : published[c] \subseteq published'[c]
      /\ \A c \in Workspace : c # w => published'[c] = published[c] /\ knowledge'[c] = knowledge[c]
      /\ knowledge'[w] \in published'[w]
  BY <1>2, Saved
<1>l. ASSUME NEW c \in Workspace, NEW n, NEW t, LabelIsTrue(c, n, t)
      PROVE  [content |-> t, second |-> n] \in published'[c]
  BY <1>p, <1>l, Zenon DEF LabelIsTrue
<1>3. KnowledgeIsPublished'
  BY <1>p, Zenon DEF FreshInv, KnowledgeIsPublished
<1>4. LabelsAreTrue'
  <2> SUFFICES ASSUME NEW i \in 1 .. Len(workspaceStores)
               PROVE  LabelIsTrue(workspaceStores[i].workspace, workspaceStores[i].second,
                                  text[workspaceStores[i].store])'
    BY <1>1, Zenon DEF LabelsAreTrue
  <2>1. /\ workspaceStores[i].workspace \in Workspace
        /\ LabelIsTrue(workspaceStores[i].workspace, workspaceStores[i].second,
                       text[workspaceStores[i].store])
    BY <1>2, Entry, Zenon DEF FreshInv, LabelsAreTrue
  <2> QED
    <3> DEFINE c == workspaceStores[i].workspace
               n == workspaceStores[i].second
               t == text[workspaceStores[i].store]
    <3>1. c' = c /\ n' = n /\ t' = t
      BY <1>1, Zenon
    <3>2. c \in Workspace /\ LabelIsTrue(c, n, t)
      BY <2>1, Zenon
    <3> HIDE DEF c, n, t
    <3>3. [content |-> t, second |-> n] \in published'[c]
      BY <1>l, <3>2, Zenon
    <3>4. LabelIsTrue(c, n, t)'
      BY <3>1, <3>3, Zenon DEF LabelIsTrue
    <3> QED
      BY <3>4, Zenon DEF c, n, t
<1>5. ASSUME NEW x \in Request PROVE RequestIsFresh(x)'
  <2>1. \A y \in Request : /\ request'[y].at = request[y].at
                            /\ request'[y].client = request[y].client
                            /\ request'[y].version = request[y].version
    BY <1>1, <1>2, DisturbKeeps, Zenon
  <2>m. ~ request'[x].disturbed => x \notin rs /\ request'[x] = request[x]
    BY <1>1, <1>2, DisturbMarks, Zenon
  <2>2. RequestIsFresh(x)
    BY DEF FreshInv
  <2>3. ASSUME request'[x].at = "fetched"
        PROVE  LabelIsTrue(request[x].client, request[x].version.second, request[x].version.content)'
    <3>1. /\ request[x].client \in Workspace
          /\ LabelIsTrue(request[x].client, request[x].version.second, request[x].version.content)
      BY <1>2, <2>1, <2>2, <2>3, Fetched DEF RequestIsFresh
    <3> QED
      BY <1>l, <2>1, <3>1, Zenon DEF LabelIsTrue
  <2>4. ASSUME request'[x].at # "idle", ~ request'[x].disturbed
        PROVE  /\ IsAlone(x)'
               /\ request'[x].at = "fetched" => request'[x].version = knowledge'[request'[x].client]
               /\ request'[x].at = "found" /\ ~ Ambiguous(published'[request'[x].client]) =>
                     text'[request'[x].store] = knowledge'[request'[x].client].content
    <3>1. request'[x] = request[x] /\ x \notin rs /\ request[x].at # "idle" /\ ~ request[x].disturbed
      BY <2>1, <2>m, <2>4
    <3>2. request[x].client # w
      BY <3>1 DEF Active
    <3>3. request[x].client \in Workspace
      BY <1>2, <3>1, Zenon DEF IInv, RequestIsOwn
    <3>4. /\ knowledge'[request[x].client] = knowledge[request[x].client]
          /\ published'[request[x].client] = published[request[x].client]
      BY <1>p, <3>2, <3>3, Zenon
    <3>5. IsAlone(x)'
      <4>1. IsAlone(x)
        BY <2>2, <3>1 DEF RequestIsFresh
      <4> QED
        BY <2>1, <4>1, AloneKept, Zenon
    <3> QED
      BY <1>1, <2>2, <3>1, <3>4, <3>5, Zenon DEF RequestIsFresh
  <2> QED
    BY <2>1, <2>3, <2>4, Zenon DEF RequestIsFresh
<1> QED
  BY <1>2, <1>3, <1>4, <1>5, Zenon DEF FreshInv

\* Steps after which the labels and the other requests are what they were.
LEMMA SameKnowledge ==
    ASSUME FreshInv, knowledge' = knowledge, published' = published
    PROVE  KnowledgeIsPublished'
  BY Zenon DEF FreshInv, KnowledgeIsPublished

LEMMA LabelsAlone ==
    ASSUME FreshInv, knowledge' = knowledge, published' = published, text' = text,
           workspaceStores' = workspaceStores
    PROVE  LabelsAreTrue'
  BY Zenon DEF FreshInv, LabelsAreTrue, LabelIsTrue

LEMMA TickFresh == ASSUME FreshInv, IInv', Tick \/ UNCHANGED vars PROVE FreshInv'
<1>1. /\ knowledge' = knowledge /\ published' = published /\ request' = request /\ text' = text
      /\ workspaceStores' = workspaceStores
  BY DEF Tick, vars, apiVars
<1>2. \A r \in Request : RequestIsFresh(r)'
  BY <1>1, Zenon DEF FreshInv, RequestIsFresh, IsAlone, LabelIsTrue
<1> QED
  BY <1>1, <1>2, SameKnowledge, LabelsAlone, Zenon DEF FreshInv

LEMMA ReceiveFresh ==
    ASSUME FreshInv, NEW r \in Request, NEW w \in Workspace, Receive(r, w) PROVE FreshInv'
<1> DEFINE others == Active(w)
           d == others # {}
           q == Received(w, d)
<1>1. /\ request' = [Disturb(others) EXCEPT ![r] = q] /\ text' = text
      /\ workspaceStores' = workspaceStores /\ knowledge' = knowledge /\ now' = now /\ published' = published
  BY DEF Receive, Received, apiVars
<1>2. IInv /\ IInv' /\ TypeOK
  BY ReceiveKeeps, Zenon DEF FreshInv, IInv
<1>d. d \in BOOLEAN
  OBVIOUS
<1>3. q \in RequestRec /\ q.at = "fetch" /\ q.client = w /\ (~ q.disturbed => others = {})
  <2>1. q.disturbed = d
    BY Blanks DEF Received, RequestRec, NoRequest
  <2> HIDE DEF d
  <2>2. q \in RequestRec /\ q.at = "fetch" /\ q.client = w
    BY <1>d, IsReceived, Zenon
  <2> HIDE DEF q
  <2> QED
    BY <2>1, <2>2 DEF d
<1> HIDE DEF q
<1>4. Disturb(others) \in [Request -> RequestRec]
  BY <1>2, DisturbKeeps, Zenon
<1>5. request'[r] = q /\ \A x \in Request : x # r => request'[x] = Disturb(others)[x]
  BY <1>1, <1>4
<1>6. \A x \in Request : x # r =>
          /\ request'[x].at = request[x].at /\ request'[x].client = request[x].client
          /\ request'[x].version = request[x].version
  <2>1. \A x \in Request : /\ Disturb(others)[x].at = request[x].at
                            /\ Disturb(others)[x].client = request[x].client
                            /\ Disturb(others)[x].version = request[x].version
    BY <1>2, DisturbKeeps, Zenon
  <2> HIDE DEF others
  <2> QED
    BY <1>5, <2>1, Zenon
<1>m. \A x \in Request : x # r =>
          (~ request'[x].disturbed => x \notin others /\ request'[x] = request[x])
  BY <1>2, <1>5, DisturbMarks, Zenon
<1>7. RequestIsFresh(r)'
  <2>1. ASSUME ~ q.disturbed PROVE IsAlone(r)'
    <3> SUFFICES ASSUME NEW y \in Request, y # r, request'[y].at # "idle",
                        request'[y].client = w
                 PROVE  FALSE
      BY <1>3, <1>5, Zenon DEF IsAlone
    <3>1. y \in Active(w)
      BY <1>6 DEF Active
    <3> QED
      BY <1>3, <2>1, <3>1
  <2>2. q.at # "fetched" /\ q.at # "found"
    BY <1>3
  <2> QED
    BY <1>5, <2>1, <2>2, Zenon DEF RequestIsFresh
<1>8. ASSUME NEW x \in Request, x # r PROVE RequestIsFresh(x)'
  <2>1. RequestIsFresh(x)
    BY DEF FreshInv
  <2>2. request'[x].at = "fetched" =>
            LabelIsTrue(request[x].client, request[x].version.second, request[x].version.content)'
    <3>1. request[x].at = "fetched" =>
              LabelIsTrue(request[x].client, request[x].version.second, request[x].version.content)
      BY <2>1, Zenon DEF RequestIsFresh
    <3>2. /\ request'[x].at = request[x].at /\ request'[x].client = request[x].client
          /\ request'[x].version = request[x].version
      BY <1>6, <1>8, Zenon
    <3> QED
      BY <1>1, <3>1, <3>2, Zenon DEF LabelIsTrue
  <2>3. ASSUME request'[x].at # "idle", ~ request'[x].disturbed
        PROVE  /\ request'[x] = request[x] /\ ~ request[x].disturbed /\ IsAlone(x)'
    <3>1. request'[x] = request[x] /\ x \notin Active(w)
      BY <1>m, <1>8, <2>3
    <3>2. request[x].client # w
      BY <2>3, <3>1 DEF Active
    <3>3. IsAlone(x)
      BY <2>1, <2>3, <3>1 DEF RequestIsFresh
    <3>4. IsAlone(x)'
      BY <1>3, <1>5, <1>6, <3>1, <3>2, <3>3, Zenon DEF IsAlone
    <3> QED
      BY <2>3, <3>1, <3>4, Zenon
  <2> QED
    <3>1. request[x].at # "idle" /\ ~ request[x].disturbed =>
              /\ request[x].at = "fetched" => request[x].version = knowledge[request[x].client]
              /\ request[x].at = "found" /\ ~ Ambiguous(published[request[x].client]) =>
                    text[request[x].store] = knowledge[request[x].client].content
      BY <2>1, Zenon DEF RequestIsFresh
    <3>2. ASSUME request'[x].at # "idle", ~ request'[x].disturbed
          PROVE  /\ IsAlone(x)'
                 /\ request'[x].at = "fetched" => request'[x].version = knowledge'[request'[x].client]
                 /\ request'[x].at = "found" /\ ~ Ambiguous(published'[request'[x].client]) =>
                       text'[request'[x].store] = knowledge'[request'[x].client].content
      BY <1>1, <2>3, <3>1, <3>2
    <3> QED
      BY <2>2, <3>2, Zenon DEF RequestIsFresh
<1> QED
  BY <1>1, <1>2, <1>7, <1>8, SameKnowledge, LabelsAlone, Zenon DEF FreshInv

\* An active request goes on, and the stores are left alone.
\* A request that does not change, with the store it found, while others go on.
LEMMA OthersFresh ==
    ASSUME NEW x \in Request, RequestIsFresh(x), request'[x] = request[x],
           knowledge' = knowledge, published' = published, IsAlone(x) => IsAlone(x)',
           request[x].at = "found" /\ IsAlone(x) => text'[request[x].store] = text[request[x].store]
    PROVE  RequestIsFresh(x)'
<1> DEFINE q == request[x]
<1>1. q.at = "fetched" => LabelIsTrue(q.client, q.version.second, q.version.content)'
  BY Zenon DEF RequestIsFresh, LabelIsTrue
<1>2. ASSUME q.at # "idle", ~ q.disturbed
      PROVE  /\ IsAlone(x)'
             /\ q.at = "fetched" => q.version = knowledge'[q.client]
             /\ q.at = "found" /\ ~ Ambiguous(published'[q.client]) => text'[q.store] = knowledge'[q.client].content
  BY <1>2, Zenon DEF RequestIsFresh
<1> QED
  BY <1>1, <1>2, Zenon DEF RequestIsFresh

LEMMA GoesOnFresh ==
    ASSUME FreshInv, IInv', NEW r \in Request, NEW q \in RequestRec, request[r].at # "idle",
           request' = [request EXCEPT ![r] = q],
           UNCHANGED <<apiVars, text, workspaceStores>>,
           q.client = request[r].client, q.at # "found",
           q.at = "fetched" => q.version = knowledge[q.client],
           q.at # "idle" /\ ~ q.disturbed => ~ request[r].disturbed
    PROVE  FreshInv'
<1>1. /\ request'[r] = q /\ \A x \in Request : x # r => request'[x] = request[x]
  BY OneRequest, Zenon DEF FreshInv, IInv
<1>2. /\ text' = text /\ workspaceStores' = workspaceStores /\ knowledge' = knowledge
      /\ now' = now /\ published' = published
  BY DEF apiVars
<1>3. \A y \in Request : request'[y].at # "idle" =>
          request[y].at # "idle" /\ request'[y].client = request[y].client
  BY <1>1, Zenon
<1>4. RequestIsFresh(r)'
  <2>1. q.at = "fetched" => LabelIsTrue(q.client, q.version.second, q.version.content)
    <3> SUFFICES ASSUME q.at = "fetched"
                 PROVE  LabelIsTrue(q.client, q.version.second, q.version.content)
      OBVIOUS
    <3>1. q.client \in Workspace
      BY Zenon DEF FreshInv, IInv, RequestIsOwn
    <3>2. q.version \in Version
      BY DEF RequestRec
    <3>3. q.version = [content |-> q.version.content, second |-> q.version.second]
      BY <3>2 DEF Version
    <3>4. q.version \in published[q.client]
      BY <3>1, Zenon DEF FreshInv, KnowledgeIsPublished
    <3> QED
      BY <3>3, <3>4, Zenon DEF LabelIsTrue
  <2>2. q.at # "idle" /\ ~ q.disturbed => IsAlone(r)'
    BY <1>1, <1>3, AloneKept, Zenon DEF FreshInv, RequestIsFresh
  <2> QED
    BY <1>1, <1>2, <2>1, <2>2, Zenon DEF RequestIsFresh, LabelIsTrue
<1>5. ASSUME NEW x \in Request, x # r PROVE RequestIsFresh(x)'
  <2>1. RequestIsFresh(x) /\ request'[x] = request[x]
    BY <1>1, <1>5, Zenon DEF FreshInv
  <2>2. IsAlone(x) => IsAlone(x)'
    BY <1>3, <2>1, AloneKept, Zenon
  <2> QED
    BY <1>2, <2>1, <2>2, OthersFresh, Zenon
<1> QED
  BY <1>2, <1>4, <1>5, SameKnowledge, LabelsAlone, Zenon DEF FreshInv

LEMMA ApiAnswersFresh == ASSUME FreshInv, NEW r \in Request, ApiAnswers(r) PROVE FreshInv'
<1> DEFINE v == knowledge[request[r].client]
           q == WithVersion(request[r], v)
<1>1. IInv /\ IInv'
  BY ApiAnswersKeeps, Zenon DEF FreshInv
<1>2. request[r] \in RequestRec /\ request[r].at # "idle" /\ v \in Version
  <2>1. request[r].at # "idle"
    BY DEF ApiAnswers
  <2>2. request[r].client \in Workspace
    BY <1>1, <2>1, Zenon DEF IInv, RequestIsOwn
  <2> QED
    BY <1>1, <2>1, <2>2, Types DEF IInv
<1>3. request' = [request EXCEPT ![r] = q] /\ UNCHANGED <<apiVars, text, workspaceStores>>
  BY DEF ApiAnswers, WithVersion
<1>4. q \in RequestRec /\ q.at = "fetched" /\ q.version = v /\ q.client = request[r].client
      /\ q.disturbed = request[r].disturbed
  BY <1>2, Fetches
<1> HIDE DEF q
<1>5. q.at # "found" /\ q.version = knowledge[q.client] /\ (~ q.disturbed => ~ request[r].disturbed)
  BY <1>4
<1> QED
  BY <1>1, <1>2, <1>3, <1>4, <1>5, GoesOnFresh, Zenon

LEMMA AnswerFresh ==
    ASSUME FreshInv, IInv', NEW r \in Request, request[r].at # "idle",
           NEW c \in Content \cup {Nothing}, Answer(r, c),
           UNCHANGED <<apiVars, text, workspaceStores>>
    PROVE  FreshInv'
<1> DEFINE q == Answered(request[r].client, c, request[r].disturbed)
<1>1. request[r].client \in Workspace \cup {Nothing} /\ request[r].disturbed \in BOOLEAN
  <2>1. request[r] \in RequestRec
    BY Types DEF FreshInv, IInv
  <2> QED
    BY <2>1 DEF RequestRec
<1>2. request' = [request EXCEPT ![r] = q]
  BY DEF Answer, Answered
<1>3. q \in RequestRec /\ q.at = "idle" /\ q.client = request[r].client
  BY <1>1, IsAnswered
<1> HIDE DEF q
<1>4. q.at # "fetched" /\ q.at # "found"
  BY <1>3
<1> QED
  BY <1>2, <1>3, <1>4, GoesOnFresh, Zenon

LEMMA FetchFailsFresh == ASSUME FreshInv, NEW r \in Request, FetchFails(r) PROVE FreshInv'
<1>1. request[r].at # "idle" /\ Answer(r, Nothing) /\ UNCHANGED <<apiVars, text, workspaceStores>>
  BY DEF FetchFails
<1>2. IInv'
  BY FetchFailsKeeps, Zenon DEF FreshInv
<1> QED
  BY <1>1, <1>2, AnswerFresh, Zenon

\* What a request answers with is a content.
LEMMA ServesContent ==
    ASSUME IInv, NEW r \in Request, request[r].at = "found"
    PROVE  text[request[r].store] \in Content \cup {Nothing}
<1>1. request[r].store \in Store
  BY Zenon DEF IInv, RequestIsOwn
<1> QED
  BY <1>1, Types DEF IInv

LEMMA ServeFresh == ASSUME FreshInv, NEW r \in Request, Serve(r) PROVE FreshInv'
<1>1. /\ request[r].at = "found" /\ request[r].at # "idle" /\ Answer(r, text[request[r].store])
      /\ UNCHANGED <<apiVars, text, workspaceStores>>
  BY DEF Serve
<1>2. IInv /\ IInv'
  BY ServeKeeps, Zenon DEF FreshInv
<1>3. text[request[r].store] \in Content \cup {Nothing}
  BY <1>1, <1>2, ServesContent, Zenon
<1> QED
  BY <1>1, <1>2, <1>3, AnswerFresh, Zenon

\* A request is given a store: what it holds is labelled truly, and if nothing has
\* overlapped the request it is what the API publishes.
LEMMA FoundFresh ==
    ASSUME FreshInv, NEW r \in Request, NEW e \in Slot, FoundStep(r, e),
           LabelIsTrue(e.workspace, e.second, text'[e.store]),
           ~ request[r].disturbed /\ ~ Ambiguous(published[e.workspace]) =>
               text'[e.store] = knowledge[e.workspace].content
    PROVE  FreshInv'
<1> DEFINE w == request[r].client
           q == WithStore(request[r], e.store)
<1>1. /\ request[r].at = "fetched" /\ request[r].at # "idle"
      /\ e.workspace = w /\ Found(r, e.store)
      /\ \A x \in Request :
            request[x].at = "found" /\ request[x].store = e.store => request[x].client = e.workspace
      /\ workspaceStores' = Used(e)
      /\ \A s \in Store : s # e.store => text'[s] = text[s]
  BY DEF FoundStep
<1>2. IInv /\ IInv' /\ TypeOK /\ Distinct(workspaceStores) /\ e.store \in Store
  BY FoundKeeps DEF FreshInv, IInv, CacheIsOwn, Slot
<1>3. knowledge' = knowledge /\ published' = published /\ now' = now
  BY DEF FoundStep, apiVars
<1>4. request' = [request EXCEPT ![r] = q] /\ request[r] \in RequestRec
  BY <1>1, <1>2, Types DEF Found, WithStore
<1>5. /\ q \in RequestRec /\ q.at = "found" /\ q.store = e.store /\ q.client = w
      /\ q.disturbed = request[r].disturbed
  BY <1>2, <1>4, Finds
<1> HIDE DEF q
<1>6. /\ request'[r] = q /\ \A x \in Request : x # r => request'[x] = request[x]
  BY <1>2, <1>4, <1>5, OneRequest, Zenon
<1>7. \A y \in Request : request'[y].at # "idle" =>
          request[y].at # "idle" /\ request'[y].client = request[y].client
  BY <1>1, <1>5, <1>6, Zenon
<1>8. LabelsAreTrue'
  <2>1. \A i \in 1 .. Len(workspaceStores) :
            workspaceStores[i].store = e.store => workspaceStores[i].workspace = e.workspace
    BY DEF FoundStep
  <2>2. \A j \in 1 .. Len(workspaceStores') :
            workspaceStores'[j] = e \/ \E i \in 1 .. Len(workspaceStores) :
                                          /\ workspaceStores'[j] = workspaceStores[i]
                                          /\ workspaceStores[i].workspace # e.workspace
    BY <1>1, <1>2, <2>1, UsedKeeps, Zenon
  <2> SUFFICES ASSUME NEW j \in 1 .. Len(workspaceStores')
               PROVE  LabelIsTrue(workspaceStores[j].workspace, workspaceStores[j].second,
                                  text[workspaceStores[j].store])'
    BY Zenon DEF LabelsAreTrue
  <2>3. CASE workspaceStores'[j] = e
    BY <1>3, <2>3, Zenon DEF LabelIsTrue
  <2>4. ASSUME NEW i \in 1 .. Len(workspaceStores), workspaceStores'[j] = workspaceStores[i],
               workspaceStores[i].workspace # e.workspace
        PROVE  LabelIsTrue(workspaceStores[j].workspace, workspaceStores[j].second,
                           text[workspaceStores[j].store])'
    <3>1. workspaceStores[i].store # e.store /\ workspaceStores[i].store \in Store
      BY <1>2, <2>1, <2>4, Entry, Zenon
    <3>2. text'[workspaceStores[i].store] = text[workspaceStores[i].store]
      BY <1>1, <3>1, Zenon
    <3>3. LabelIsTrue(workspaceStores[i].workspace, workspaceStores[i].second,
                      text[workspaceStores[i].store])
      BY Zenon DEF FreshInv, LabelsAreTrue
    <3> QED
      BY <1>3, <2>4, <3>2, <3>3, Zenon DEF LabelIsTrue
  <2> QED
    BY <2>2, <2>3, <2>4, Zenon
<1>9. RequestIsFresh(r)'
  <2>1. q.at # "fetched" /\ (~ q.disturbed => ~ request[r].disturbed)
    BY <1>5
  <2>2. ~ q.disturbed => IsAlone(r)'
    BY <1>1, <1>5, <1>6, <1>7, <2>1, AloneKept, Zenon DEF FreshInv, RequestIsFresh
  <2> QED
    BY <1>1, <1>3, <1>5, <1>6, <2>1, <2>2, Zenon DEF RequestIsFresh
<1>10. ASSUME NEW x \in Request, x # r PROVE RequestIsFresh(x)'
  <2>1. RequestIsFresh(x) /\ request'[x] = request[x]
    BY <1>6, <1>10, Zenon DEF FreshInv
  <2>2. IsAlone(x) => IsAlone(x)'
    BY <1>7, <2>1, AloneKept, Zenon
  <2>3. ASSUME request[x].at = "found", IsAlone(x)
        PROVE  text'[request[x].store] = text[request[x].store]
    <3>1. request[x].client # e.workspace
      BY <1>1, <1>10, <2>3, Zenon DEF IsAlone
    <3>2. request[x].store # e.store
      BY <1>1, <2>3, <3>1, Zenon
    <3>3. request[x].store \in Store
      BY <1>2, <2>3, Zenon DEF IInv, RequestIsOwn
    <3> QED
      BY <1>1, <3>2, <3>3, Zenon
  <2> QED
    BY <1>3, <2>1, <2>2, <2>3, OthersFresh, Zenon
<1> QED
  BY <1>2, <1>3, <1>8, <1>9, <1>10, SameKnowledge, Zenon DEF FreshInv

LEMMA HitFresh == ASSUME FreshInv, NEW r \in Request, Hit(r) PROVE FreshInv'
<1>1. PICK i \in 1 .. Len(workspaceStores) :
          /\ workspaceStores[i] \in Slot /\ FoundStep(r, workspaceStores[i])
          /\ workspaceStores[i].second = request[r].version.second /\ text' = text
  BY HitFinds, Zenon DEF FreshInv
<1> DEFINE e == workspaceStores[i]
<1>2. request[r].at = "fetched" /\ request[r].at # "idle" /\ e.workspace = request[r].client
  BY <1>1 DEF FoundStep
<1>3. LabelIsTrue(e.workspace, e.second, text'[e.store])
  BY <1>1, Zenon DEF FreshInv, LabelsAreTrue
<1>4. ~ request[r].disturbed => request[r].version = knowledge[e.workspace]
  BY <1>2, Zenon DEF FreshInv, RequestIsFresh
<1>5. ~ request[r].disturbed /\ ~ Ambiguous(published[e.workspace]) =>
          text'[e.store] = knowledge[e.workspace].content
  <2> SUFFICES ASSUME ~ request[r].disturbed, ~ Ambiguous(published[e.workspace])
               PROVE  text'[e.store] = knowledge[e.workspace].content
    OBVIOUS
  <2>1. e.second = knowledge[e.workspace].second
    BY <1>1, <1>4
  <2>2. e.workspace \in Workspace
    BY <1>1 DEF Slot
  <2> QED
    BY <1>1, <1>3, <2>1, <2>2, OneContent, Zenon DEF FreshInv
<1> HIDE DEF e
<1> QED
  BY <1>1, <1>3, <1>5, FoundFresh, Zenon DEF e

LEMMA InstallFresh == ASSUME FreshInv, NEW r \in Request, Install(r) PROVE FreshInv'
<1>1. PICK e \in Slot :
          /\ FoundStep(r, e) /\ e.second = request[r].version.second
          /\ text'[e.store] = request[r].version.content
  BY InstallFinds, Zenon DEF FreshInv
<1>2. request[r].at = "fetched" /\ request[r].at # "idle" /\ e.workspace = request[r].client
  BY <1>1 DEF FoundStep
<1>3. LabelIsTrue(e.workspace, e.second, text'[e.store])
  BY <1>1, <1>2, Zenon DEF FreshInv, RequestIsFresh
<1>4. ~ request[r].disturbed => request[r].version = knowledge[e.workspace]
  BY <1>2, Zenon DEF FreshInv, RequestIsFresh
<1>5. ~ request[r].disturbed /\ ~ Ambiguous(published[e.workspace]) =>
          text'[e.store] = knowledge[e.workspace].content
  BY <1>1, <1>4, Zenon
<1> QED
  BY <1>1, <1>3, <1>5, FoundFresh, Zenon

LEMMA NextFresh == ASSUME FreshInv, [Next]_vars PROVE FreshInv'
<1>1. IInv'
  BY NextIInv, Zenon DEF FreshInv
<1>2. ASSUME NEW w \in Workspace, NEW content \in ContentOf(w), NEW second \in 0 .. MaxSecond,
             SaveWorkspace(w, content, second)
      PROVE  FreshInv'
  BY <1>2, SaveFresh
<1>3. ASSUME Tick \/ UNCHANGED vars PROVE FreshInv'
  BY <1>1, <1>3, TickFresh, Zenon
<1>4. ASSUME NEW r \in Request, NEW w \in Workspace, Receive(r, w) PROVE FreshInv'
  BY <1>4, ReceiveFresh
<1>5. ASSUME NEW r \in Request, Handle(r) PROVE FreshInv'
  BY <1>5, ApiAnswersFresh, FetchFailsFresh, HitFresh, InstallFresh, ServeFresh, Zenon DEF Handle
<1> QED
  BY <1>2, <1>3, <1>4, <1>5, Zenon DEF Next

LEMMA FreshInductive == Spec => []FreshInv
  BY InitFresh, NextFresh, PTL DEF Spec

\* Only Serve ends a request with an answer.
LEMMA OthersGoOn ==
    ASSUME IInv, NEW r \in Request, NEW x \in Request, x # r, Handle(x)
    PROVE  request'[r] = request[r]
<1>1. request \in [Request -> RequestRec]
  BY Types DEF IInv
<1>2. \E q : request' = [request EXCEPT ![x] = q]
  BY Zenon DEF Handle, ApiAnswers, FetchFails, Hit, Install, Serve, Answer, Found
<1> QED
  BY <1>1, <1>2

LEMMA HandleAnswers ==
    ASSUME IInv, NEW r \in Request, Handle(r), request'[r].at = "idle",
           request'[r].answer # Nothing
    PROVE  Serve(r)
<1>1. request[r] \in RequestRec /\ request \in [Request -> RequestRec]
  BY Types DEF IInv
<1>2. ASSUME ApiAnswers(r) PROVE FALSE
  BY <1>1, <1>2 DEF ApiAnswers, RequestRec
<1>3. ASSUME FetchFails(r) PROVE FALSE
  BY <1>1, <1>3 DEF FetchFails, Answer, NoRequest
<1>4. ASSUME NEW s, Found(r, s) PROVE FALSE
  BY <1>1, <1>4 DEF Found, RequestRec
<1>5. ASSUME Hit(r) \/ Install(r) PROVE FALSE
  BY <1>4, <1>5, Zenon DEF Hit, Install
<1> QED
  BY <1>2, <1>3, <1>5, Zenon DEF Handle

LEMMA AnswersBy ==
    ASSUME IInv, Next, NEW r \in Request, request[r].at # "idle", request'[r].at = "idle",
           request'[r].answer # Nothing
    PROVE  Serve(r)
<1>1. TypeOK /\ \A rs : Disturb(rs)[r].at = request[r].at
  BY DisturbKeeps, Zenon DEF IInv
<1>2. ASSUME NEW w \in Workspace, NEW content \in ContentOf(w), NEW second \in 0 .. MaxSecond,
             SaveWorkspace(w, content, second)
      PROVE  FALSE
  BY <1>1, <1>2, Zenon DEF SaveWorkspace
<1>3. ASSUME Tick PROVE FALSE
  BY <1>3 DEF Tick
<1>4. ASSUME NEW x \in Request, NEW w \in Workspace, Receive(x, w) PROVE FALSE
  <2>1. x # r
    BY <1>4 DEF Receive
  <2>2. Disturb(Active(w)) \in [Request -> RequestRec]
    BY <1>1, DisturbKeeps
  <2>3. request'[r] = Disturb(Active(w))[r]
    BY <1>4, <2>1, <2>2 DEF Receive
  <2> QED
    BY <1>1, <2>3, Zenon
<1>5. ASSUME NEW x \in Request, Handle(x) PROVE x = r
  BY <1>5, OthersGoOn, Zenon
<1> QED
  BY <1>2, <1>3, <1>4, <1>5, HandleAnswers, Zenon DEF Next

LEMMA ServedRecord ==
    ASSUME IInv, NEW r \in Request, Serve(r)
    PROVE  /\ request[r].at = "found" /\ request'[r].client = request[r].client
           /\ request'[r].answer = text[request[r].store]
           /\ request'[r].disturbed = request[r].disturbed
<1>1. request \in [Request -> RequestRec]
  BY Types DEF IInv
<1> QED
  BY <1>1 DEF Serve, Answer, NoRequest

----------------------------------------------------------------------------
(* The theorems                                                               *)

\* Type correctness of the requests and the cache, which is never longer than
\* MAX_WORKSPACE_STORES.
THEOREM TypeCorrect == Spec => []TypeOK
<1>1. IInv => TypeOK
  BY DEF IInv
<1> QED
  BY <1>1, Inductive, PTL

\* However requests race, stores are evicted or reused and workspaces are saved, what
\* do_POST answers a query for a workspace with was written for that workspace.
THEOREM WorkspacesAreIsolated == Spec => []Isolation
<1>1. IInv => Isolation
  BY Zenon DEF IInv, RequestIsOwn, Isolation
<1> QED
  BY <1>1, Inductive, PTL

\* A request that no other request and no save of its workspace overlaps is answered
\* with what the API publishes, whatever races have left in the cache, unless two contents
\* of the workspace had one updated_at, to the second.
THEOREM FreshWhenNothingOverlaps == Spec => FreshWhenAlone
<1>1. ASSUME FreshInv, [Next]_vars
      PROVE  [\A r \in Request :
                 LET q == request'[r]
                 IN /\ request[r].at # "idle" /\ q.at = "idle"
                    /\ q.answer # Nothing
                    /\ ~ q.disturbed
                    /\ ~ Ambiguous(published[q.client])
                    => q.answer = knowledge[q.client].content]_vars
  <2> SUFFICES ASSUME Next, NEW r \in Request, request[r].at # "idle", request'[r].at = "idle",
                      request'[r].answer # Nothing, ~ request'[r].disturbed,
                      ~ Ambiguous(published[request'[r].client])
               PROVE  request'[r].answer = knowledge[request'[r].client].content
    BY <1>1, Zenon
  <2>1. Serve(r)
    BY <1>1, AnswersBy DEF FreshInv
  <2>2. /\ request[r].at = "found" /\ request'[r].client = request[r].client
        /\ request'[r].answer = text[request[r].store]
        /\ request'[r].disturbed = request[r].disturbed
    BY <1>1, <2>1, ServedRecord DEF FreshInv
  <2> QED
    BY <1>1, <2>2, Zenon DEF FreshInv, RequestIsFresh
<1> QED
  BY <1>1, FreshInductive, PTL DEF Spec, FreshWhenAlone
====
