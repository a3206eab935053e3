---- MODULE WorkspaceCache ----
(* The requests of rag-service, each in a thread of its own, the LRU cache of *)
(* workspace stores, and the knowledge they fetch from the API while the      *)
(* dashboard saves workspaces. The revision of a knowledge is the updated_at  *)
(* of its workspace, which the API sends with a granularity of one second. A  *)
(* store is a TextStore, as RagStore is: it holds a text and answers from it; *)
(* builds change neither.                                                     *)
EXTENDS Naturals, Sequences

CONSTANTS
    Store,                  \* bound: the RagStore objects that are made for workspaces
    Workspace,
    Request,                \* the threads that serve requests
    Text,                   \* the texts of each workspace
    Blank,                  \* a text without words: what the API sends of a draft
    Nothing,                \* no store, no answer, nobody
    MAX_WORKSPACE_STORES,
    MaxRequests,            \* bound: requests that are received
    MaxSaves,               \* bound: saves of workspaces
    MaxSecond               \* bound: seconds that pass

\* A text names the workspace it was written for.
ContentOf(c) == [of : {c}, text : Text] \cup {Blank}
Content == UNION {ContentOf(c) : c \in Workspace}
Version == [content : Content, second : 0 .. MaxSecond]

ASSUME CacheAssumption ==
    /\ MAX_WORKSPACE_STORES \in Nat \ {0}
    /\ MaxRequests \in Nat /\ MaxSaves \in Nat /\ MaxSecond \in Nat
    /\ Workspace # {}
    /\ Nothing \notin Store \cup Workspace \cup Content

VARIABLES
    knowledge,          \* [Workspace -> [content, second]]: what the API answers
    published,          \* [Workspace -> set of them]: what it ever answered (history)
    now, saves, received,
    request,            \* [Request -> where it is and what it holds]
    text,               \* [Store -> its text], Nothing before the store exists
    workspaceStores     \* the OrderedDict, least recently used first

apiVars == <<knowledge, published, now, saves>>
vars == <<apiVars, received, request, text, workspaceStores>>

TypeOK ==
    /\ knowledge \in [Workspace -> Version]
    /\ published \in [Workspace -> SUBSET Version]
    /\ now \in 0 .. MaxSecond
    /\ saves \in 0 .. MaxSaves
    /\ received \in 0 .. MaxRequests
    /\ request \in [Request -> [at : {"idle", "fetch", "fetched", "found"},
                                client : Workspace \cup {Nothing},
                                version : Version,
                                store : Store \cup {Nothing},
                                answer : Content \cup {Nothing},
                                disturbed : BOOLEAN]]
    /\ text \in [Store -> Content \cup {Nothing}]
    /\ workspaceStores \in Seq([workspace : Workspace, store : Store, second : 0 .. MaxSecond])
    /\ Len(workspaceStores) <= MAX_WORKSPACE_STORES

NoVersion == [content |-> Blank, second |-> 0]

NoRequest == [at |-> "idle", client |-> Nothing, version |-> NoVersion,
              store |-> Nothing, answer |-> Nothing, disturbed |-> FALSE]

Init ==
    /\ knowledge = [w \in Workspace |-> NoVersion]
    /\ published = [w \in Workspace |-> {NoVersion}]
    /\ now = 0 /\ saves = 0 /\ received = 0
    /\ request = [r \in Request |-> NoRequest]
    /\ text = [s \in Store |-> Nothing]
    /\ workspaceStores = <<>>

----------------------------------------------------------------------------
(* The dashboard, and time                                                    *)

Active(w) == {r \in Request : request[r].client = w /\ request[r].at # "idle"}

Disturb(rs) == [r \in Request |-> IF r \in rs THEN [request[r] EXCEPT !.disturbed = TRUE]
                                              ELSE request[r]]

\* The row of a workspace is saved: with new knowledge, published, taken back (Blank)
\* or as it was, when a draft or only the name, the address, the time zone or the
\* locale is changed. Every save renews updated_at, with a clock that is read before
\* the row is written: a save that waits, for another one or for a booking's lock, may
\* be overtaken, and the revision go back.
SaveWorkspace(w, content, second) ==
    /\ saves < MaxSaves
    /\ second <= now
    /\ knowledge' = [knowledge EXCEPT ![w] = [content |-> content, second |-> second]]
    /\ published' = [published EXCEPT ![w] = @ \cup {[content |-> content, second |-> second]}]
    /\ saves' = saves + 1
    /\ request' = Disturb(Active(w))
    /\ UNCHANGED <<now, received, text, workspaceStores>>

Tick ==
    /\ now < MaxSecond
    /\ now' = now + 1
    /\ UNCHANGED <<knowledge, published, saves, received, request, text, workspaceStores>>

----------------------------------------------------------------------------
(* A request                                                                  *)

\* A thread receives a query or a rebuild and asks the API, without a lock.
Receive(r, w) ==
    /\ request[r].at = "idle"
    /\ received < MaxRequests
    /\ received' = received + 1
    /\ LET others == Active(w)
       IN request' = [Disturb(others) EXCEPT ![r] =
              [NoRequest EXCEPT !.at = "fetch", !.client = w, !.disturbed = others # {}]]
    /\ UNCHANGED <<apiVars, text, workspaceStores>>

\* The API reads the workspace; its answer may be overtaken by others.
ApiAnswers(r) ==
    /\ request[r].at = "fetch"
    /\ request' = [request EXCEPT
           ![r] = [@ EXCEPT !.at = "fetched", !.version = knowledge[request[r].client]]]
    /\ UNCHANGED <<apiVars, received, text, workspaceStores>>

\* The thread is free; the answer is kept for the properties.
Answer(r, content) ==
    request' = [request EXCEPT ![r] = [NoRequest EXCEPT !.client = request[r].client,
                                                        !.answer = content,
                                                        !.disturbed = request[r].disturbed]]

\* The API fails or takes more than 5 s: the request is answered with an error.
FetchFails(r) ==
    /\ request[r].at = "fetch"
    /\ Answer(r, Nothing)
    /\ UNCHANGED <<apiVars, received, text, workspaceStores>>

Entries(w) == {i \in DOMAIN workspaceStores : workspaceStores[i].workspace = w}

Cached(w) == workspaceStores[CHOOSE i \in Entries(w) : TRUE]

\* The cache without the entry of w.
OthersThan(w) ==
    LET i == CHOOSE i \in Entries(w) : TRUE
    IN IF Entries(w) = {} THEN workspaceStores
       ELSE SubSeq(workspaceStores, 1, i - 1)
            \o SubSeq(workspaceStores, i + 1, Len(workspaceStores))

\* Slip: the cache is never cut.
UsedUncut(entry) == Append(OthersThan(entry.workspace), entry)

\* The cache with this entry the most recently used one, cut to its size.
Used(entry) ==
    LET all == Append(OthersThan(entry.workspace), entry)
        excess == IF Len(all) > MAX_WORKSPACE_STORES THEN Len(all) - MAX_WORKSPACE_STORES ELSE 0
    IN SubSeq(all, excess + 1, Len(all))

Found(r, s) ==
    request' = [request EXCEPT ![r] = [@ EXCEPT !.at = "found", !.store = s, !.version = NoVersion]]

\* Under the lock: the cached store has the revision that was fetched.
Hit(r) ==
    LET w == request[r].client IN
    /\ request[r].at = "fetched"
    /\ Entries(w) # {}
    /\ Cached(w).second = request[r].version.second
    /\ workspaceStores' = Used(Cached(w))
    /\ Found(r, Cached(w).store)
    /\ UNCHANGED <<apiVars, received, text>>

\* RagStore(), an object nobody had before.
NewStore == CHOOSE x \in Store : text[x] = Nothing

\* Slip: when the cache is full, the store that is dropped from it is used again.
InstallReused(r) ==
    LET w == request[r].client
        version == request[r].version
        s == IF Entries(w) # {} THEN Cached(w).store
             ELSE IF Len(workspaceStores) = MAX_WORKSPACE_STORES THEN workspaceStores[1].store
             ELSE NewStore
    IN
    /\ request[r].at = "fetched"
    /\ Entries(w) # {} => Cached(w).second # version.second
    /\ text' = [text EXCEPT ![s] = version.content]
    /\ workspaceStores' = Used([workspace |-> w, store |-> s, second |-> version.second])
    /\ Found(r, s)
    /\ UNCHANGED <<apiVars, received>>

\* Slip: the revision is not renewed with the content.
InstallOldLabel(r) ==
    LET w == request[r].client
        version == request[r].version
        s == IF Entries(w) = {} THEN NewStore ELSE Cached(w).store
    IN
    /\ request[r].at = "fetched"
    /\ Entries(w) # {} => Cached(w).second # version.second
    /\ text' = [text EXCEPT ![s] = version.content]
    /\ workspaceStores' = Used([workspace |-> w, store |-> s,
           second |-> IF Entries(w) = {} THEN version.second ELSE Cached(w).second])
    /\ Found(r, s)
    /\ UNCHANGED <<apiVars, received>>

\* Under the lock: it has another one, or there is none. The content is set and
\* the store cached with the revision, and the least recently used ones dropped.
Install(r) ==
    LET w == request[r].client
        version == request[r].version
        s == IF Entries(w) = {} THEN NewStore ELSE Cached(w).store
    IN
    /\ request[r].at = "fetched"
    /\ Entries(w) = {} => \E x \in Store : text[x] = Nothing
    /\ Entries(w) # {} => Cached(w).second # version.second
    /\ text' = [text EXCEPT ![s] = version.content]
    /\ workspaceStores' = Used([workspace |-> w, store |-> s, second |-> version.second])
    /\ Found(r, s)
    /\ UNCHANGED <<apiVars, received>>

\* The store answers (or is rebuilt), in the cache or dropped from it meanwhile.
Serve(r) ==
    /\ request[r].at = "found"
    /\ Answer(r, text[request[r].store])
    /\ UNCHANGED <<apiVars, received, text, workspaceStores>>

Handle(r) ==
    \/ ApiAnswers(r)
    \/ FetchFails(r)
    \/ Hit(r)
    \/ Install(r)
    \/ Serve(r)

Next ==
    \/ \E w \in Workspace : \E content \in ContentOf(w), second \in 0 .. MaxSecond :
           SaveWorkspace(w, content, second)
    \/ Tick
    \/ \E r \in Request, w \in Workspace : Receive(r, w)
    \/ \E r \in Request : Handle(r)

Spec == Init /\ [][Next]_vars /\ \A r \in Request : WF_vars(Handle(r))

----------------------------------------------------------------------------
(* Properties                                                                 *)

\* A caller is answered from the knowledge of the workspace that was called,
\* whatever is evicted, saved and reused meanwhile.
Isolation ==
    \A r \in Request :
        request[r].answer # Nothing => request[r].answer \in ContentOf(request[r].client)

\* Two contents have had one revision.
Ambiguous(versions) ==
    \E v \in versions : \E x \in versions : v.second = x.second /\ v.content # x.content

\* A query that no other request and no save of the workspace overlaps is
\* answered from what the API publishes, whatever races left in the cache
\* before: stale content is served while requests race and not afterwards. The
\* exception is a workspace of which two contents have had one updated_at, to the
\* second: the revision that do_POST compares cannot tell them apart.
FreshWhenAlone ==
    [][\A r \in Request :
          LET q == request'[r]
          IN /\ request[r].at # "idle" /\ q.at = "idle"
             /\ q.answer # Nothing
             /\ ~ q.disturbed
             /\ ~ Ambiguous(published[q.client])
             => q.answer = knowledge[q.client].content]_vars
====
