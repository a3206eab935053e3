---- MODULE RagStore ----
(* A store of rag-service (src/rag-service/main.py, class RagStore): the text *)
(* it answers from, the index a background thread builds, and the revision by *)
(* which the thread sees that the text has changed under it. A store is a     *)
(* workspace's, whose text is set by get_workspace_store, or reads a FAQ file *)
(* that anybody may edit. A text stands for itself and for the chunks it is   *)
(* split into; embeddings are published and read with the chunks.             *)
EXTENDS Naturals

CONSTANTS
    Text,           \* the texts that have words in them
    Blank,          \* a text without words, and the list of no chunks
    FromFile,       \* no text is set, the FAQ file is read (None)
    Nothing,        \* no answer
    MaxRevision,    \* bound: how often the text is set
    MaxEdits        \* bound: how often the FAQ file is edited

ASSUME StoreAssumption ==
    /\ Blank \notin Text
    /\ FromFile \notin Text \cup {Blank}
    /\ MaxRevision \in Nat
    /\ MaxEdits \in Nat

VARIABLES
    override,   \* _text_override
    revision,   \* _content_revision
    file,       \* what the FAQ file holds
    edits,
    chunks,     \* the text that _chunks was split from
    state,      \* _state
    builder,    \* the thread that holds _build_lock: where it is, what it has read
    setter,     \* a request that has set the text and not yet asked for a build
    query,      \* a query: idle, or without an index and about to load the text
    answer,     \* the last answer
    missed      \* a build was refused after the thread's last look (history)

vars == <<override, revision, file, edits, chunks, state, builder, setter, query, answer, missed>>

Content == Text \cup {Blank}

\* The places of _run and build: about to read the revision, to mark the store
\* as building, to load the text, to publish it, to look whether the text has
\* changed, and to release the lock.
Places == {"idle", "loop", "begin", "load", "publish", "check", "release"}

NoThread == [at |-> "idle", seen |-> 0, revision |-> 0, text |-> Blank]

TypeOK ==
    /\ override \in Content \cup {FromFile}
    /\ revision \in 0 .. MaxRevision
    /\ file \in Content
    /\ edits \in 0 .. MaxEdits
    /\ chunks \in Content
    /\ state \in {"empty", "building", "ready"}
    /\ builder \in [at : Places, seen : 0 .. MaxRevision,
                    revision : 0 .. MaxRevision, text : Content]
    /\ setter \in {"idle", "changed"}
    /\ query \in {"idle", "load"}
    /\ answer \in Content \cup {Nothing}
    /\ missed \in BOOLEAN

\* A new store; of a workspace's it is the state once it was first filled.
Init ==
    /\ override \in Content \cup {FromFile}
    /\ revision = 0
    /\ file \in Content
    /\ edits = 0
    /\ chunks = Blank
    /\ state = "empty"
    /\ builder = NoThread
    /\ setter = IF override = FromFile THEN "idle" ELSE "changed"
    /\ query = "idle"
    /\ answer = Nothing
    /\ missed = FALSE

OfWorkspace == override # FromFile

\* Slip: a set text without words falls back on the file, which may be missing.
LoadTextOrNone == IF OfWorkspace THEN IF override = Blank THEN Nothing ELSE override ELSE file

LoadText == IF OfWorkspace THEN override ELSE file

\* Slip: the index of the old text is kept until the new one is built.
SetContentKeeps(text) ==
    /\ OfWorkspace
    /\ setter = "idle"
    /\ revision < MaxRevision
    /\ override # text
    /\ override' = text
    /\ revision' = revision + 1
    /\ setter' = "changed"
    /\ UNCHANGED <<file, edits, chunks, state, builder, query, answer, missed>>

\* get_workspace_store sets a new text, which empties the index, and asks for a
\* build in a second step; its lock keeps other requests out in between.
SetContent(text) ==
    /\ OfWorkspace
    /\ setter = "idle"
    /\ revision < MaxRevision
    /\ override # text
    /\ override' = text
    /\ revision' = revision + 1
    /\ chunks' = Blank
    /\ state' = "empty"
    /\ setter' = "changed"
    /\ UNCHANGED <<file, edits, builder, query, answer, missed>>

\* Somebody edits the FAQ file. No revision moves.
EditFile(text) ==
    /\ ~ OfWorkspace
    /\ edits < MaxEdits
    /\ file # text
    /\ file' = text
    /\ edits' = edits + 1
    /\ UNCHANGED <<override, revision, chunks, state, builder, setter, query, answer, missed>>

----------------------------------------------------------------------------
(* The build thread                                                           *)

\* build_in_background gets the build lock and starts the thread, or finds it
\* taken and returns False.
BuildInBackground ==
    \/ /\ builder.at = "idle"
       /\ builder' = [builder EXCEPT !.at = "loop"]
       /\ missed' = FALSE
    \/ /\ builder.at # "idle"
       /\ missed' = (missed \/ builder.at = "release")
       /\ UNCHANGED builder

\* Asked for by the request that has set the text, ...
BuildChanged ==
    /\ setter = "changed"
    /\ BuildInBackground
    /\ setter' = "idle"
    /\ UNCHANGED <<override, revision, file, edits, chunks, state, query, answer>>

\* ... or by POST /rebuild and, for a FAQ, when the store is created.
Rebuild ==
    /\ BuildInBackground
    /\ UNCHANGED <<override, revision, file, edits, chunks, state, setter, query, answer>>

\* The loop of _run reads the revision it is going to build.
ReadRevision ==
    /\ builder.at = "loop"
    /\ builder' = [builder EXCEPT !.at = "begin", !.seen = revision]
    /\ UNCHANGED <<override, revision, file, edits, chunks, state, setter, query, answer, missed>>

BeginBuild ==
    /\ builder.at = "begin"
    /\ state' = "building"
    /\ builder' = [builder EXCEPT !.at = "load", !.revision = revision]
    /\ UNCHANGED <<override, revision, file, edits, chunks, setter, query, answer, missed>>

\* The text is loaded and split (and a FAQ embedded) without the store's lock.
Load ==
    /\ builder.at = "load"
    /\ builder' = [builder EXCEPT !.at = "publish", !.text = LoadText]
    /\ UNCHANGED <<override, revision, file, edits, chunks, state, setter, query, answer, missed>>

\* The file cannot be read: the exception ends the build and the loop.
LoadFails ==
    /\ builder.at = "load"
    /\ ~ OfWorkspace
    /\ state' = "empty"
    /\ builder' = [NoThread EXCEPT !.at = "release"]
    /\ UNCHANGED <<override, revision, file, edits, chunks, setter, query, answer, missed>>

\* Slip: what was loaded is published, whatever happened since.
PublishAnyway ==
    /\ builder.at = "publish"
    /\ chunks' = builder.text
    /\ state' = IF builder.text = Blank THEN "empty" ELSE "ready"
    /\ builder' = [builder EXCEPT !.at = "check", !.revision = 0, !.text = Blank]
    /\ UNCHANGED <<override, revision, file, edits, setter, query, answer, missed>>

\* The index is published under the lock, unless the text has changed meanwhile.
Publish ==
    /\ builder.at = "publish"
    /\ LET stale == builder.revision # revision
       IN /\ chunks' = IF stale THEN chunks ELSE builder.text
          /\ state' = IF stale \/ builder.text = Blank THEN "empty" ELSE "ready"
    /\ builder' = [builder EXCEPT !.at = "check", !.revision = 0, !.text = Blank]
    /\ UNCHANGED <<override, revision, file, edits, setter, query, answer, missed>>

\* Slip: one build per thread.
CheckNothing ==
    /\ builder.at = "check"
    /\ builder' = [NoThread EXCEPT !.at = "release"]
    /\ UNCHANGED <<override, revision, file, edits, chunks, state, setter, query, answer, missed>>

\* After a build, _run looks whether there is something else to build.
CheckRevision ==
    /\ builder.at = "check"
    /\ LET done == builder.seen = revision \/ LoadText = Blank
       IN builder' = [NoThread EXCEPT !.at = IF done THEN "release" ELSE "loop"]
    /\ UNCHANGED <<override, revision, file, edits, chunks, state, setter, query, answer, missed>>

\* The finally clause: the build lock is released and the thread is gone.
Release ==
    /\ builder.at = "release"
    /\ builder' = NoThread
    /\ UNCHANGED <<override, revision, file, edits, chunks, state, setter, query, answer, missed>>

BuildStep ==
    \/ ReadRevision
    \/ BeginBuild
    \/ Load
    \/ LoadFails
    \/ Publish
    \/ CheckRevision
    \/ Release

----------------------------------------------------------------------------
(* Queries                                                                    *)

\* query copies the index under the lock and answers from it, or finds none ...
QueryIndex ==
    /\ query = "idle"
    /\ IF chunks = Blank THEN query' = "load" /\ UNCHANGED answer
                         ELSE answer' = chunks /\ UNCHANGED query
    /\ UNCHANGED <<override, revision, file, edits, chunks, state, builder, setter, missed>>

\* ... and then splits the text, without the lock.
QueryText ==
    /\ query = "load"
    /\ answer' = LoadText
    /\ query' = "idle"
    /\ UNCHANGED <<override, revision, file, edits, chunks, state, builder, setter, missed>>

Next ==
    \/ \E text \in Content : SetContent(text) \/ EditFile(text)
    \/ BuildChanged
    \/ Rebuild
    \/ BuildStep
    \/ QueryIndex
    \/ QueryText

\* Threads run: a build goes on, and a request asks for the build it has to.
Spec ==
    /\ Init /\ [][Next]_vars
    /\ WF_vars(BuildStep) /\ WF_vars(BuildChanged) /\ WF_vars(QueryText)

----------------------------------------------------------------------------
(* Properties                                                                 *)

\* The index of a workspace's store is empty or that of its text: a build that
\* was overtaken by set_content never publishes what it had loaded, however long
\* it took. Queries rely on it: they answer from the index without looking at
\* the text.
IndexIsCurrent == OfWorkspace => chunks \in {Blank, override}

\* To those who query a workspace's store it is a TextStore: an answer is the text
\* the store held at one moment of the query, with or without an index.
Promise == INSTANCE TextStore WITH
    text <- IF OfWorkspace THEN override ELSE Blank,
    answer <- IF OfWorkspace THEN answer ELSE Nothing

ImplementsTextStore == Promise!Spec

\* A text that is set is indexed in the end, unless its build was refused between
\* the thread's last look at the revision and the release of the lock: every other
\* interleaving of set_content and the loop builds it, however often the text
\* changes, and the loop neither turns for ever nor keeps the lock.
IndexedInTheEnd == OfWorkspace /\ override # Blank ~> state = "ready" \/ missed \/ override = Blank
====
