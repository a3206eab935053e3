---- MODULE RagStore_proof ----
(* What a store answers from, for any texts, any number of changes and of     *)
(* edits, and however the build thread and the requests interleave.           *)
EXTENDS RagStore, TLAPS

\* What the build thread has read is of its revision, and no revision is newer than
\* the store's: set_content outdates all that was read before.
ThreadIsHonest ==
    /\ builder.at \in {"load", "publish"} => builder.revision <= revision
    /\ OfWorkspace /\ builder.at = "publish" /\ builder.revision = revision
          => builder.text = override

\* The inductive invariant.
IInv == TypeOK /\ IndexIsCurrent /\ ThreadIsHonest

LEMMA ContentIs == Blank \in Content /\ FromFile \notin Content
  BY StoreAssumption DEF Content

LEMMA InitIInv == Init => IInv
<1> SUFFICES ASSUME Init PROVE IInv
  OBVIOUS
<1>1. /\ builder \in [at : Places, seen : 0 .. MaxRevision,
                      revision : 0 .. MaxRevision, text : Content]
      /\ setter \in {"idle", "changed"}
  BY StoreAssumption, ContentIs DEF Init, NoThread, Places
<1>2. missed \in BOOLEAN
  BY DEF Init
<1>3. TypeOK
  BY StoreAssumption, ContentIs, <1>1, <1>2 DEF Init, TypeOK
<1> QED
  BY <1>3 DEF Init, IInv, IndexIsCurrent, ThreadIsHonest, NoThread

----------------------------------------------------------------------------

BuilderRecord ==
    [at : Places, seen : 0 .. MaxRevision, revision : 0 .. MaxRevision, text : Content]

LEMMA NextIInv == IInv /\ [Next]_vars => IInv'
<1> SUFFICES ASSUME IInv, [Next]_vars PROVE IInv'
  OBVIOUS
<1> USE DEF IInv
<1>0. /\ MaxRevision \in Nat /\ MaxEdits \in Nat /\ revision \in 0 .. MaxRevision
      /\ builder \in BuilderRecord /\ NoThread \in BuilderRecord
      /\ override \in Content \cup {FromFile} /\ file \in Content /\ chunks \in Content
      /\ OfWorkspace => override \in Content
      /\ LoadText \in Content
      /\ \A p \in Places : [NoThread EXCEPT !.at = p] \in BuilderRecord
  BY StoreAssumption, ContentIs
  DEF TypeOK, BuilderRecord, NoThread, OfWorkspace, LoadText, Places
<1>1. ASSUME NEW text \in Content, SetContent(text) PROVE IInv'
  <2>1. override' \in Content /\ OfWorkspace' /\ revision' = revision + 1
        /\ revision' \in 0 .. MaxRevision /\ chunks' = Blank /\ builder' = builder
    BY <1>0, <1>1, ContentIs DEF SetContent, OfWorkspace
  <2>2. TypeOK'
    BY <1>0, <1>1, <2>1, ContentIs DEF SetContent, TypeOK
  <2>3. ThreadIsHonest'
    BY <1>0, <2>1 DEF ThreadIsHonest, BuilderRecord
  <2> QED
    BY <2>1, <2>2, <2>3 DEF IndexIsCurrent
<1>2. ASSUME NEW text \in Content, EditFile(text) PROVE IInv'
  <2>1. TypeOK'
    BY <1>0, <1>2 DEF EditFile, TypeOK
  <2> QED
    BY <1>2, <2>1 DEF EditFile, IndexIsCurrent, ThreadIsHonest, OfWorkspace
\* Steps that leave the text, its revision and the index alone.
<1>3. ASSUME UNCHANGED <<override, revision, chunks>>,
             builder' \in BuilderRecord,
             builder'.at \notin {"load", "publish"} \/ builder' = builder,
             TypeOK'
      PROVE  IInv'
  BY <1>3 DEF IndexIsCurrent, ThreadIsHonest, OfWorkspace
<1>4. ASSUME BuildInBackground
      PROVE  /\ builder' \in BuilderRecord /\ missed' \in BOOLEAN
             /\ builder'.at \notin {"load", "publish"} \/ builder' = builder
  <2>1. CASE builder.at = "idle" /\ builder' = [builder EXCEPT !.at = "loop"] /\ missed' = FALSE
    BY <1>0, <2>1 DEF BuilderRecord, Places
  <2>2. CASE /\ missed' = (missed \/ builder.at = "release")
             /\ UNCHANGED builder
    <3>1. missed' \in BOOLEAN
      BY <2>2
    <3> QED
      BY <1>0, <2>2, <3>1
  <2> QED
    BY <1>4, <2>1, <2>2 DEF BuildInBackground
<1>5. CASE BuildChanged \/ Rebuild
  <2>1. /\ builder' \in BuilderRecord /\ missed' \in BOOLEAN
        /\ builder'.at \notin {"load", "publish"} \/ builder' = builder
        /\ UNCHANGED <<override, revision, file, edits, chunks, state, query, answer>>
        /\ setter' \in {"idle", setter}
    BY <1>4, <1>5 DEF BuildChanged, Rebuild
  <2>2. TypeOK'
    BY <2>1 DEF TypeOK, BuilderRecord
  <2> QED
    BY <1>3, <2>1, <2>2
<1>6. CASE ReadRevision \/ CheckRevision \/ Release \/ LoadFails
  <2>1. /\ builder' \in BuilderRecord /\ builder'.at \notin {"load", "publish"}
        /\ UNCHANGED <<override, revision, file, edits, chunks, setter, query, answer, missed>>
        /\ state' \in {"empty", state}
    <3>1. CASE ReadRevision
      BY <1>0, <3>1 DEF ReadRevision, BuilderRecord, Places
    <3>2. CASE CheckRevision
      BY <1>0, <3>2 DEF CheckRevision, BuilderRecord, Places, NoThread
    <3>3. CASE Release \/ LoadFails
      BY <1>0, <3>3 DEF Release, LoadFails, BuilderRecord, Places, NoThread
    <3> QED
      BY <1>6, <3>1, <3>2, <3>3
  <2>2. TypeOK'
    BY <2>1 DEF TypeOK, BuilderRecord
  <2> QED
    BY <1>3, <2>1, <2>2
<1>7. CASE BeginBuild
  <2>1. builder' \in BuilderRecord /\ builder'.at = "load" /\ builder'.revision = revision
    <3>1. builder' = [builder EXCEPT !.at = "load", !.revision = revision]
      BY <1>7 DEF BeginBuild
    <3>2. builder \in BuilderRecord /\ revision \in 0 .. MaxRevision
      BY <1>0
    <3> QED
      BY ONLY <3>1, <3>2 DEF BuilderRecord, Places
  <2>2. TypeOK'
    BY <1>7, <2>1 DEF BeginBuild, TypeOK, BuilderRecord
  <2> QED
    BY <1>0, <1>7, <2>1, <2>2 DEF BeginBuild, IndexIsCurrent, ThreadIsHonest, OfWorkspace
<1>8. CASE Load
  <2>1. /\ builder' \in BuilderRecord /\ builder'.at = "publish"
        /\ builder'.revision = builder.revision /\ builder'.text = LoadText
        /\ builder.at = "load"
    <3>1. builder' = [builder EXCEPT !.at = "publish", !.text = LoadText] /\ builder.at = "load"
      BY <1>8 DEF Load
    <3>2. builder \in BuilderRecord /\ LoadText \in Content
      BY <1>0
    <3> QED
      BY ONLY <3>1, <3>2 DEF BuilderRecord, Places
  <2>2. TypeOK'
    BY <1>8, <2>1 DEF Load, TypeOK, BuilderRecord
  <2> QED
    BY <1>8, <2>1, <2>2 DEF Load, IndexIsCurrent, ThreadIsHonest, OfWorkspace, LoadText
<1>9. CASE Publish
  <2>1. builder' \in BuilderRecord /\ builder'.at = "check" /\ builder.at = "publish"
    <3>1. /\ builder' = [builder EXCEPT !.at = "check", !.revision = 0, !.text = Blank]
          /\ builder.at = "publish"
      BY <1>9 DEF Publish
    <3>2. builder \in BuilderRecord /\ Blank \in Content /\ 0 \in 0 .. MaxRevision
      BY <1>0, ContentIs
    <3> QED
      BY ONLY <3>1, <3>2 DEF BuilderRecord, Places
  <2>2. /\ chunks' \in Content /\ state' \in {"empty", "ready"}
        /\ OfWorkspace => chunks' \in {Blank, override}
    BY <1>0, <1>9, <2>1 DEF Publish, IndexIsCurrent, ThreadIsHonest, BuilderRecord
  <2>3. TypeOK'
    BY <1>9, <2>1, <2>2 DEF Publish, TypeOK, BuilderRecord
  <2> QED
    BY <1>9, <2>1, <2>2, <2>3 DEF Publish, IndexIsCurrent, ThreadIsHonest, OfWorkspace
<1>10. CASE QueryIndex \/ QueryText
  <2>1. /\ UNCHANGED <<override, revision, file, edits, chunks, state, builder, setter, missed>>
        /\ query' \in {"idle", "load"} /\ answer' \in Content \cup {Nothing}
    BY <1>0, <1>10 DEF QueryIndex, QueryText, TypeOK
  <2>2. TypeOK'
    BY <2>1 DEF TypeOK
  <2> QED
    BY <1>0, <1>3, <2>1, <2>2
<1>11. CASE UNCHANGED vars
  BY <1>11 DEF vars, TypeOK, IndexIsCurrent, ThreadIsHonest, OfWorkspace
<1> QED
  BY <1>1, <1>2, <1>5, <1>6, <1>7, <1>8, <1>9, <1>10, <1>11 DEF Next, BuildStep

LEMMA Inductive == Spec => []IInv
  BY InitIInv, NextIInv, PTL DEF Spec

\* Every variable of a store keeps its type.
THEOREM TypeCorrect == Spec => []TypeOK
  BY Inductive, PTL DEF IInv

\* The index of a workspace's store is empty or that of its text, so that a build
\* overtaken by set_content never brings an old text back.
THEOREM IndexStaysCurrent == Spec => []IndexIsCurrent
  BY Inductive, PTL DEF IInv

----------------------------------------------------------------------------

\* Every query of a workspace's store is answered from the text the store holds when
\* it is answered, with or without an index.
THEOREM AnswersFromItsText == Spec => ImplementsTextStore
<1>1. Init => Promise!Init
  BY DEF Init, Promise!Init, OfWorkspace, Content
<1>2. IInv /\ [Next]_vars => [Promise!Next]_Promise!vars
  <2> SUFFICES ASSUME IInv, [Next]_vars PROVE [Promise!Next]_Promise!vars
    OBVIOUS
  <2>1. ASSUME UNCHANGED <<override, answer>> PROVE UNCHANGED Promise!vars
    BY <2>1 DEF Promise!vars, OfWorkspace
  <2>2. ASSUME NEW t \in Content, SetContent(t) PROVE Promise!Put(t)
    BY <2>2, ContentIs DEF SetContent, OfWorkspace, Promise!Put
  <2>3. ASSUME NEW t \in Content, EditFile(t) PROVE UNCHANGED Promise!vars
    BY <2>1, <2>3 DEF EditFile
  <2>4. CASE BuildChanged \/ Rebuild \/ BuildStep
    BY <2>1, <2>4 DEF BuildChanged, Rebuild, BuildStep, ReadRevision, BeginBuild, Load,
      LoadFails, Publish, CheckRevision, Release
  <2>5. CASE QueryIndex
    <3>1. override' = override /\ answer' \in {answer, chunks} /\ (answer' # answer => chunks # Blank)
      BY <2>5 DEF QueryIndex
    <3>2. OfWorkspace => answer' \in {answer, override}
      BY <3>1 DEF IInv, IndexIsCurrent
    <3> QED
      BY <3>1, <3>2 DEF Promise!Next, Promise!Ask, Promise!vars, OfWorkspace
  <2>6. CASE QueryText
    BY <2>6 DEF QueryText, LoadText, Promise!Next, Promise!Ask, Promise!vars, OfWorkspace
  <2>7. CASE UNCHANGED vars
    BY <2>1, <2>7 DEF vars
  <2> QED
    BY <2>2, <2>3, <2>4, <2>5, <2>6, <2>7 DEF Next, Promise!Next
<1> QED
  BY <1>1, <1>2, Inductive, PTL DEF Spec, ImplementsTextStore, Promise!Spec
====
