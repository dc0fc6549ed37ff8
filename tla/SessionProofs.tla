---------------------------- MODULE SessionProofs ----------------------------
(***************************************************************************)
(* Theorems about Session, for every set of ids, names, files and patterns *)
(* and every number of overlapping drops and outstanding requests.         *)
(***************************************************************************)
EXTENDS Session, SequenceTheorems, FiniteSetTheorems, TLAPS

(***************************************************************************)
(* What the helpers return                                                 *)
(***************************************************************************)
\* An empty file map is a file map, and a good one.
LEMMA EmptyFilesType == EmptyFiles \in FileMap /\ EmptyFiles \in GoodMap
BY DEF EmptyFiles, FileMap, GoodMap

\* A good map is a file map.
LEMMA GoodIsFileMap == GoodMap \subseteq FileMap
BY DEF GoodMap, FileMap

\* Filtering leaves no rejected file (FileRegistry.getAll).
LEMMA GoodType ==
  ASSUME NEW files \in FileMap
  PROVE  Good(files) \in GoodMap
BY SessionAssumption DEF Good, GoodMap, FileMap

\* Merging file maps gives a file map.
LEMMA MergeType ==
  ASSUME NEW files \in FileMap, NEW loaded \in FileMap
  PROVE  Merge(files, loaded) \in FileMap
BY DEF Merge, FileMap

\* Removing a file gives a file map.
LEMMA WithoutType ==
  ASSUME NEW files \in FileMap, NEW n \in FileNames
  PROVE  Without(files, n) \in FileMap
BY DEF Without, FileMap

\* An open application is an application.
LEMMA OpenApp ==
  ASSUME NEW as \in AppStates, NEW id \in Open(as)
  PROVE  id \in AppIds /\ as[id] \in App /\ as[id].files \in FileMap
BY DEF AppStates, Open, App

\* A fresh application is an application.
LEMMA FreshType ==
  ASSUME NEW id \in AppIds
  PROVE  NewApp \in App /\ FreshSession(id) \in AppStates
BY SessionAssumption, EmptyFilesType DEF NewApp, App, FreshSession, AppStates

\* What saveSession writes is an image of the store.
LEMMA ImageType ==
  ASSUME NEW as \in AppStates, NEW ext \in GoodMap
  PROVE  ImageOf(as, ext) \in Image
BY EmptyFilesType DEF ImageOf, Image, AppStates, App

\* So is the store that clearSession leaves.
LEMMA EmptyImageType == EmptyImage \in Image
BY EmptyFilesType DEF EmptyImage, Image

\* What saveAppMeta writes is an application list.
LEMMA MetaType ==
  ASSUME NEW as \in AppStates
  PROVE  MetaOf(as) \in Meta
BY DEF MetaOf, Meta, AppStates, App

\* An analysis is stored, or its absence.
LEMMA OutcomeType ==
  ASSUME TypeOK, NEW files \in FileMap, NEW ext \in GoodMap
  PROVE  Outcome(files, ext) \in Analysis \cup {NoAnalysis}
<1>1. Good(files) \in GoodMap
  BY GoodType
<1>2. [n \in FileNames |-> IF files[n] = NoFile THEN ext[n] ELSE NoFile] \in GoodMap
  BY DEF GoodMap
<1>3. patterns \in SUBSET Patterns
  BY DEF TypeOK
<1>. QED
  BY <1>1, <1>2, <1>3 DEF Outcome, AnalysisInput, Analysis

\* Storing one analysis keeps the applications well-formed.
LEMMA AnalysedType ==
  ASSUME TypeOK, NEW as \in AppStates, NEW id \in AppIds,
         NEW files \in FileMap, NEW ext \in GoodMap
  PROVE  Analysed(as, id, files, ext) \in AppStates
<1>1. Outcome(files, ext) \in Analysis \cup {NoAnalysis}
  BY OutcomeType
<1>. QED
  BY <1>1 DEF Analysed, AppStates, App, Open

\* So does storing all of them.
LEMMA ReanalysedType ==
  ASSUME TypeOK, NEW as \in AppStates, NEW seen \in AppStates, NEW ext \in GoodMap
  PROVE  ReanalysedAll(as, seen, ext) \in AppStates
<1>1. ASSUME NEW id \in Open(as) \cap Open(seen)
      PROVE  [as[id] EXCEPT !.analysis = Outcome(seen[id].files, ext)] \in App
  <2>1. Outcome(seen[id].files, ext) \in Analysis \cup {NoAnalysis}
    BY OpenApp, OutcomeType
  <2>2. as[id] \in App
    BY OpenApp
  <2>. QED
    BY <2>1, <2>2 DEF App
<1>. QED
  BY <1>1 DEF ReanalysedAll, AppStates

\* And so does restoring a saved session.
LEMMA RestoredType ==
  ASSUME TypeOK, NEW m \in Meta, NEW image \in Image
  PROVE  RestoredApps(m, image) \in AppStates
<1>1. ASSUME NEW id \in AppIds, m[id] # NoApp
      PROVE  [name |-> m[id], files |-> image.apps[id],
              analysis |-> Outcome(image.apps[id], image.ext)] \in App
  <2>1. m[id] \in Names /\ image.apps[id] \in FileMap /\ image.ext \in GoodMap
    BY <1>1 DEF Meta, Image
  <2>2. Outcome(image.apps[id], image.ext) \in Analysis \cup {NoAnalysis}
    BY <2>1, OutcomeType
  <2>. QED
    BY <2>1, <2>2 DEF App
<1>. QED
  BY <1>1 DEF RestoredApps, AppStates

\* An application on the list that was stored is an application again.
LEMMA RestoredOpen ==
  ASSUME TypeOK, NEW m \in Meta, NEW image \in Image, NEW id \in AppIds, m[id] # NoApp
  PROVE  RestoredApps(m, image)[id] # NoApp
<1>1. m[id] \in Names /\ image.apps[id] \in FileMap /\ image.ext \in GoodMap
  BY DEF Meta, Image
<1>2. Outcome(image.apps[id], image.ext) \in Analysis \cup {NoAnalysis}
  BY <1>1, OutcomeType
<1>3. RestoredApps(m, image)[id] \in App
  BY <1>1, <1>2 DEF RestoredApps, App
<1>. QED
  BY <1>3, SessionAssumption

\* A queued request keeps the queue well-formed.
LEMMA SaveType ==
  ASSUME TypeOK, NEW as \in AppStates, NEW ext \in GoodMap, SaveSession(as, ext)
  PROVE  queue' \in Seq(Request)
<1>1. [op |-> "write", image |-> ImageOf(as, ext)] \in Request
  BY ImageType DEF Request
<1>2. queue \in Seq(Request)
  BY DEF TypeOK
<1>. QED
  BY <1>1, <1>2, AppendProperties DEF SaveSession

(***************************************************************************)
(* Types                                                                   *)
(***************************************************************************)
\* A drop being read is a drop.
LEMMA DropType ==
  ASSUME TypeOK, NEW d \in Drops, drops[d] # NoDrop
  PROVE  /\ drops[d] \in Drop
         /\ drops[d].loaded \in FileMap
         /\ drops[d].seen \in AppStates
         /\ drops[d].zone = "string" => drops[d].app \in Open(drops[d].seen)
BY DEF TypeOK, Drop

\* The first request is a request; the others stay one.
LEMMA HeadType ==
  ASSUME TypeOK, queue # <<>>
  PROVE  /\ Head(queue) \in Request
         /\ Tail(queue) \in Seq(Request)
         /\ Head(queue).op = "write" => Head(queue).image \in Image
         /\ Head(queue).op = "read" => Head(queue).meta \in Meta
<1>1. queue \in Seq(Request)
  BY DEF TypeOK
<1>2. Head(queue) \in Request /\ Tail(queue) \in Seq(Request)
  BY <1>1, HeadTailProperties
<1>. QED
  BY <1>2 DEF Request

\* A step on the list of applications keeps the types.
LEMMA AppStepsType ==
  ASSUME TypeOK, NEW id \in AppIds,
         \/ AddApp(id)
         \/ RemoveApp(id)
         \/ ClearApp(id)
         \/ \E name \in Names : RenameApp(id, name)
         \/ \E n \in FileNames : RemoveAppFile(id, n)
  PROVE  TypeOK'
<1>1. apps \in AppStates /\ externalFiles \in GoodMap /\ Good(extReg) \in GoodMap
  BY GoodType DEF TypeOK
<1>2. CASE AddApp(id)
  <2>1. apps' \in AppStates
    BY <1>1, <1>2, FreshType DEF AddApp, AppStates
  <2>2. meta' \in Meta
    BY <1>2, <2>1, MetaType DEF AddApp
  <2>. QED
    BY <1>2, <2>1, <2>2 DEF AddApp, TypeOK
<1>3. CASE RemoveApp(id)
  <2>1. apps' \in AppStates
    BY <1>1, <1>3 DEF RemoveApp, AppStates
  <2>2. meta' \in Meta
    BY <1>3, <2>1, MetaType DEF RemoveApp
  <2>3. queue' \in Seq(Request)
    BY <1>1, <1>3, <2>1, SaveType DEF RemoveApp
  <2>. QED
    BY <1>3, <2>1, <2>2, <2>3 DEF RemoveApp, TypeOK
<1>4. CASE ClearApp(id)
  <2>1. apps' \in AppStates
    BY <1>1, <1>4, OpenApp, EmptyFilesType DEF ClearApp, AppStates, App
  <2>2. queue' \in Seq(Request)
    BY <1>1, <1>4, <2>1, SaveType DEF ClearApp
  <2>. QED
    BY <1>4, <2>1, <2>2 DEF ClearApp, TypeOK
<1>5. ASSUME NEW name \in Names, RenameApp(id, name)
      PROVE  TypeOK'
  <2>1. apps' \in AppStates
    BY <1>1, <1>5, OpenApp DEF RenameApp, AppStates, App
  <2>2. meta' \in Meta
    BY <1>5, <2>1, MetaType DEF RenameApp
  <2>. QED
    BY <1>5, <2>1, <2>2 DEF RenameApp, TypeOK
<1>6. ASSUME NEW n \in FileNames, RemoveAppFile(id, n)
      PROVE  TypeOK'
  <2>. DEFINE files   == Without(apps[id].files, n)
              updated == [apps EXCEPT ![id].files = files]
  <2>1. files \in FileMap /\ updated \in AppStates
    BY <1>1, <1>6, OpenApp, WithoutType DEF RemoveAppFile, AppStates, App
  <2>2. apps' \in AppStates
    BY <1>1, <1>6, <2>1, AnalysedType DEF RemoveAppFile
  <2>3. queue' \in Seq(Request)
    BY <1>1, <1>6, <2>1, SaveType DEF RemoveAppFile
  <2>. QED
    BY <1>6, <2>2, <2>3 DEF RemoveAppFile, TypeOK
<1>. QED
  BY <1>2, <1>3, <1>4, <1>5, <1>6

\* A drop, and its landing, keep the types.
LEMMA DropStepsType ==
  ASSUME TypeOK, NEW d \in Drops,
         \/ \E id \in AppIds, loaded \in AppLoads : DropAppFiles(d, id, loaded)
         \/ \E loaded \in ExtLoads : DropExternal(d, loaded)
         \/ FinishAppDrop(d)
         \/ FinishExternalDrop(d)
  PROVE  TypeOK'
<1>1. apps \in AppStates /\ extReg \in FileMap /\ Good(extReg) \in GoodMap
  BY GoodType DEF TypeOK
<1>2. ASSUME NEW id \in AppIds, NEW loaded \in AppLoads, DropAppFiles(d, id, loaded)
      PROVE  TypeOK'
  <2>1. [zone |-> "string", app |-> id, loaded |-> loaded, seen |-> apps] \in Drop
    BY <1>1, <1>2, SessionAssumption DEF Drop, DropAppFiles
  <2>. QED
    BY <1>2, <2>1 DEF DropAppFiles, TypeOK, memory
<1>3. ASSUME NEW loaded \in ExtLoads, DropExternal(d, loaded)
      PROVE  TypeOK'
  <2>1. [zone |-> "external", app |-> NoApp, loaded |-> loaded, seen |-> apps] \in Drop
    BY <1>1, SessionAssumption DEF Drop
  <2>. QED
    BY <1>3, <2>1 DEF DropExternal, TypeOK, memory
<1>4. CASE FinishAppDrop(d)
  <2>. DEFINE id      == drops[d].app
              files   == Merge(drops[d].seen[id].files, drops[d].loaded)
              updated == [drops[d].seen EXCEPT ![id].files = files]
  <2>1. drops[d].seen \in AppStates /\ drops[d].loaded \in FileMap
    BY <1>4, DropType DEF FinishAppDrop
  <2>2. id \in Open(drops[d].seen)
    BY <1>4, DropType DEF FinishAppDrop
  <2>3. files \in FileMap /\ updated \in AppStates /\ id \in AppIds
    BY <2>1, <2>2, OpenApp, MergeType DEF AppStates, App
  <2>4. apps' \in AppStates
    BY <1>1, <1>4, <2>3, AnalysedType DEF FinishAppDrop
  <2>5. queue' \in Seq(Request)
    BY <1>1, <1>4, <2>3, SaveType DEF FinishAppDrop
  <2>6. meta' \in Meta
    BY <1>4, <2>3, MetaType DEF FinishAppDrop
  <2>7. drops' \in [Drops -> Drop \cup {NoDrop}]
    BY <1>4 DEF FinishAppDrop, TypeOK
  <2>. QED
    BY <1>4, <2>4, <2>5, <2>6, <2>7 DEF FinishAppDrop, TypeOK
<1>5. CASE FinishExternalDrop(d)
  <2>1. drops[d].seen \in AppStates /\ drops[d].loaded \in FileMap
    BY <1>5, DropType DEF FinishExternalDrop
  <2>2. extReg' \in FileMap /\ Good(extReg') \in GoodMap
    BY <1>1, <1>5, <2>1, MergeType, GoodType DEF FinishExternalDrop
  <2>3. apps' \in AppStates
    BY <1>1, <1>5, <2>1, <2>2, ReanalysedType DEF FinishExternalDrop
  <2>4. queue' \in Seq(Request)
    BY <1>5, <2>1, <2>2, SaveType DEF FinishExternalDrop
  <2>. QED
    BY <1>5, <2>2, <2>3, <2>4 DEF FinishExternalDrop, TypeOK
<1>. QED
  BY <1>2, <1>3, <1>4, <1>5

\* A step on the external headers, the whole session or the patterns keeps
\* the types.
LEMMA OtherUserStepsType ==
  ASSUME TypeOK,
         \/ \E n \in FileNames : RemoveExternal(n)
         \/ ClearExternal
         \/ \E id \in AppIds : ClearSession(id)
         \/ \E edited \in SUBSET Patterns : EditPatterns(edited)
         \/ Reanalyze
  PROVE  TypeOK'
<1>1. apps \in AppStates /\ extReg \in FileMap /\ externalFiles \in GoodMap
  BY DEF TypeOK
<1>2. ASSUME NEW n \in FileNames, RemoveExternal(n)
      PROVE  TypeOK'
  <2>1. extReg' \in FileMap /\ Good(extReg') \in GoodMap
    BY <1>1, <1>2, WithoutType, GoodType DEF RemoveExternal
  <2>2. apps' \in AppStates
    BY <1>1, <1>2, <2>1, ReanalysedType DEF RemoveExternal
  <2>3. queue' \in Seq(Request)
    BY <1>1, <1>2, <2>1, SaveType DEF RemoveExternal
  <2>. QED
    BY <1>2, <2>1, <2>2, <2>3 DEF RemoveExternal, TypeOK
<1>3. CASE ClearExternal
  <2>1. apps' \in AppStates
    BY <1>1, <1>3, EmptyFilesType, ReanalysedType DEF ClearExternal
  <2>2. queue' \in Seq(Request)
    BY <1>1, <1>3, EmptyFilesType, SaveType DEF ClearExternal
  <2>. QED
    BY <1>3, <2>1, <2>2, EmptyFilesType DEF ClearExternal, TypeOK
<1>4. ASSUME NEW id \in AppIds, ClearSession(id)
      PROVE  TypeOK'
  <2>1. [op |-> "write", image |-> EmptyImage] \in Request
    BY EmptyImageType DEF Request
  <2>2. queue' \in Seq(Request)
    BY <1>4, <2>1, AppendProperties DEF ClearSession, TypeOK
  <2>3. NoMeta \in Meta
    BY DEF NoMeta, Meta
  <2>. QED
    BY <1>4, <2>2, <2>3, FreshType, EmptyFilesType DEF ClearSession, TypeOK
<1>5. ASSUME NEW edited \in SUBSET Patterns, EditPatterns(edited)
      PROVE  TypeOK'
  BY <1>5 DEF EditPatterns, TypeOK, memory
<1>6. CASE Reanalyze
  <2>1. apps' \in AppStates
    BY <1>1, <1>6, ReanalysedType DEF Reanalyze
  <2>. QED
    BY <1>6, <2>1 DEF Reanalyze, TypeOK
<1>. QED
  BY <1>2, <1>3, <1>4, <1>5, <1>6

\* Start-up, storage and reload keep the types.
LEMMA SystemStepsType ==
  ASSUME TypeOK,
         \/ StartUp \/ CommitWrite \/ StorageFails
         \/ \E d \in Drops : ReadFails(d)
         \/ \E id \in AppIds : Reload(id)
  PROVE  TypeOK'
<1>1. CASE ParserLoads
  <2>1. [op |-> "read", meta |-> meta] \in Request
    BY DEF Request, TypeOK
  <2>2. queue' \in Seq(Request)
    BY <1>1, <2>1, AppendProperties DEF ParserLoads, TypeOK
  <2>. QED
    BY <1>1, <2>2 DEF ParserLoads, TypeOK, memory
<1>2. CASE ParserFails
  BY <1>2 DEF ParserFails, TypeOK, memory
<1>3. CASE RestoreSession
  <2>1. /\ Head(queue).meta \in Meta /\ Tail(queue) \in Seq(Request)
        /\ disk \in Image /\ disk.ext \in GoodMap /\ disk.ext \in FileMap
    BY <1>3, HeadType, GoodIsFileMap DEF RestoreSession, TypeOK, Image
  <2>2. RestoredApps(Head(queue).meta, disk) \in AppStates
    BY <2>1, RestoredType
  <2>3. apps' \in AppStates
    BY <1>3, <2>2 DEF RestoreSession, TypeOK
  <2>4. extReg' \in FileMap
    BY <1>3, <2>1, MergeType DEF RestoreSession, TypeOK
  <2>. QED
    BY <1>3, <2>1, <2>3, <2>4 DEF RestoreSession, TypeOK
<1>4. CASE CommitWrite
  BY <1>4, HeadType DEF CommitWrite, TypeOK, memory
<1>5. CASE StorageFails
  BY <1>5, HeadType DEF StorageFails, TypeOK, memory
<1>6. ASSUME NEW id \in AppIds, Reload(id)
      PROVE  TypeOK'
  BY <1>6, FreshType, EmptyFilesType, EmptySeq DEF Reload, TypeOK
<1>7. ASSUME NEW d \in Drops, ReadFails(d)
      PROVE  TypeOK'
  BY <1>7 DEF ReadFails, TypeOK, memory
<1>. QED
  BY <1>1, <1>2, <1>3, <1>4, <1>5, <1>6, <1>7 DEF StartUp

\* Every step of the code keeps the types.
LEMMA TypeStep == TypeOK /\ [Next]_vars => TypeOK'
<1>. SUFFICES ASSUME TypeOK, [Next]_vars
              PROVE  TypeOK'
  OBVIOUS
<1>1. CASE UserStep
  BY <1>1, AppStepsType, DropStepsType, OtherUserStepsType DEF UserStep
<1>2. CASE Landing
  BY <1>2, DropStepsType DEF Landing
<1>3. CASE \/ StartUp \/ CommitWrite \/ StorageFails
           \/ \E d \in Drops : ReadFails(d)
           \/ \E id \in AppIds : Reload(id)
  BY <1>3, SystemStepsType
<1>4. CASE UNCHANGED vars
  BY <1>4 DEF vars, memory, TypeOK
<1>. QED
  BY <1>1, <1>2, <1>3, <1>4 DEF Next, SystemStep

\* The first visit is well-typed.
LEMMA TypeInit == Init => TypeOK
BY FreshType, EmptyFilesType, EmptyImageType, EmptySeq DEF Init, TypeOK, NoMeta, Meta

\* Every state the code can reach has the types TypeOK gives it, whatever
\* operations overlap and whichever requests the browser refuses.
THEOREM TypeCorrect == Spec => []TypeOK
BY TypeInit, TypeStep, PTL DEF Spec

(***************************************************************************)
(* External headers survive overlapping operations                         *)
(***************************************************************************)
\* A save is the last image, and the queue still holds nothing but writes.
LEMMA SaveLast ==
  ASSUME TypeOK, StartUpInv, phase = "ready", phase' = phase,
         NEW as, NEW ext, SaveSession(as, ext)
  PROVE  /\ LastImage' = ImageOf(as, ext)
         /\ LastImage'.ext = ext
         /\ \A i \in DOMAIN queue' : queue'[i].op = "write"
<1>. DEFINE r == [op |-> "write", image |-> ImageOf(as, ext)]
<1>1. queue \in Seq(Request) /\ \A i \in DOMAIN queue : queue[i].op = "write"
  BY DEF TypeOK, StartUpInv
<1>2. queue' = Append(queue, r)
  BY DEF SaveSession
<1>3. /\ Len(queue) \in Nat /\ DOMAIN queue = 1..Len(queue)
      /\ Len(queue') = Len(queue) + 1 /\ DOMAIN queue' = 1..(Len(queue) + 1)
      /\ queue'[Len(queue) + 1] = r
      /\ \A i \in 1..Len(queue) : queue'[i] = queue[i]
  BY <1>1, <1>2
<1>4. queue' # <<>>
  BY <1>3
<1>5. LastImage' = ImageOf(as, ext)
  BY <1>3, <1>4 DEF LastImage
<1>. QED
  BY <1>1, <1>3, <1>5 DEF ImageOf

\* Committing the oldest write leaves the last image what it was.
LEMMA CommitLast ==
  ASSUME TypeOK, StartUpInv, CommitWrite
  PROVE  /\ phase = "ready" /\ LastImage' = LastImage
         /\ \A i \in DOMAIN queue' : queue'[i].op = "write"
<1>1. queue \in Seq(Request) /\ queue # <<>> /\ queue' = Tail(queue)
  BY DEF TypeOK, CommitWrite
<1>2. /\ Len(queue) \in Nat \ {0} /\ DOMAIN queue = 1..Len(queue)
      /\ Len(queue') = Len(queue) - 1 /\ DOMAIN queue' = 1..(Len(queue) - 1)
      /\ \A i \in 1..(Len(queue) - 1) : queue'[i] = queue[i + 1]
      /\ Head(queue) = queue[1]
  BY <1>1
<1>3. phase = "ready"
  BY <1>1, <1>2 DEF StartUpInv, TypeOK, CommitWrite
<1>4. CASE Len(queue) = 1
  BY <1>1, <1>2, <1>3, <1>4 DEF LastImage, CommitWrite
<1>5. CASE Len(queue) # 1
  <2>1. queue' # <<>> /\ queue'[Len(queue')] = queue[Len(queue)]
    BY <1>2, <1>5
  <2>. QED
    BY <1>1, <1>2, <1>3, <2>1 DEF LastImage, CommitWrite, StartUpInv
<1>. QED
  BY <1>4, <1>5

\* The first visit.
LEMMA ExternalInit == Init => ExternalInv
BY DEF Init, ExternalInv, StartUpInv, LastImage

\* A user's step on a restored session keeps the headers on screen, in the
\* registry and in the last image together.
LEMMA ExternalUser ==
  ASSUME TypeOK, ExternalInv, phase = "ready", UserStep
  PROVE  ExternalInv'
<1>1. /\ StartUpInv /\ externalFiles = Good(extReg) /\ LastImage.ext = externalFiles
      /\ \A i \in DOMAIN queue : queue[i].op = "write"
  BY DEF ExternalInv, StartUpInv
<1>2. ASSUME phase' = "ready", externalFiles' = Good(extReg'),
             LastImage'.ext = externalFiles', \A i \in DOMAIN queue' : queue'[i].op = "write"
      PROVE  ExternalInv'
  BY <1>2 DEF ExternalInv, StartUpInv
<1>3. ASSUME queue' = queue, disk' = disk, phase' = phase
      PROVE  LastImage' = LastImage
  BY <1>3 DEF LastImage
<1>4. ASSUME NEW id \in AppIds, AddApp(id)
      PROVE  ExternalInv'
  BY <1>1, <1>2, <1>3, <1>4 DEF AddApp
<1>5. ASSUME NEW id \in AppIds, RemoveApp(id)
      PROVE  ExternalInv'
  BY <1>1, <1>2, <1>5, SaveLast DEF RemoveApp
<1>6. ASSUME NEW id \in AppIds, ClearApp(id)
      PROVE  ExternalInv'
  BY <1>1, <1>2, <1>6, SaveLast DEF ClearApp
<1>7. ASSUME NEW id \in AppIds, ClearSession(id)
      PROVE  ExternalInv'
  <2>1. EmptyImage = ImageOf([i \in AppIds |-> NoApp], EmptyFiles)
    BY DEF EmptyImage, ImageOf
  <2>2. SaveSession([i \in AppIds |-> NoApp], EmptyFiles)
    BY <1>7, <2>1 DEF ClearSession, SaveSession
  <2>3. Good(EmptyFiles) = EmptyFiles
    BY SessionAssumption DEF Good, EmptyFiles
  <2>. QED
    BY <1>1, <1>2, <1>7, <2>2, <2>3, SaveLast DEF ClearSession
<1>8. ASSUME NEW id \in AppIds, NEW name \in Names, RenameApp(id, name)
      PROVE  ExternalInv'
  BY <1>1, <1>2, <1>3, <1>8 DEF RenameApp
<1>9. ASSUME NEW id \in AppIds, NEW n \in FileNames, RemoveAppFile(id, n)
      PROVE  ExternalInv'
  <2>1. PICK updated : SaveSession(updated, Good(extReg))
    BY <1>9 DEF RemoveAppFile
  <2>. QED
    BY <1>1, <1>2, <1>9, <2>1, SaveLast DEF RemoveAppFile
<1>10. ASSUME NEW d \in Drops, NEW id \in AppIds, NEW loaded \in AppLoads,
              DropAppFiles(d, id, loaded)
       PROVE  ExternalInv'
  BY <1>1, <1>2, <1>3, <1>10 DEF DropAppFiles, memory
<1>11. ASSUME NEW d \in Drops, NEW loaded \in ExtLoads, DropExternal(d, loaded)
       PROVE  ExternalInv'
  BY <1>1, <1>2, <1>3, <1>11 DEF DropExternal, memory
<1>12. ASSUME NEW n \in FileNames, RemoveExternal(n)
       PROVE  ExternalInv'
  BY <1>1, <1>2, <1>12, SaveLast DEF RemoveExternal
<1>13. CASE ClearExternal
  <2>1. Good(EmptyFiles) = EmptyFiles
    BY SessionAssumption DEF Good, EmptyFiles
  <2>. QED
    BY <1>1, <1>2, <1>13, <2>1, SaveLast DEF ClearExternal
<1>14. ASSUME NEW edited \in SUBSET Patterns, EditPatterns(edited)
       PROVE  ExternalInv'
  BY <1>1, <1>2, <1>3, <1>14 DEF EditPatterns, memory
<1>15. CASE Reanalyze
  BY <1>1, <1>2, <1>3, <1>15 DEF Reanalyze
<1>. QED
  BY <1>4, <1>5, <1>6, <1>7, <1>8, <1>9, <1>10, <1>11, <1>12, <1>13, <1>14, <1>15
  DEF UserStep

\* So do the landing of a drop, start-up, commits and reloads.
LEMMA ExternalSystem ==
  ASSUME TypeOK, ExternalInv, SystemStep
  PROVE  ExternalInv'
<1>1. StartUpInv
  BY DEF ExternalInv
<1>2. ASSUME NEW d \in Drops, FinishAppDrop(d)
      PROVE  ExternalInv'
  <2>1. phase = "ready" /\ phase' = "ready"
    BY <1>1, <1>2 DEF FinishAppDrop, StartUpInv
  <2>2. PICK updated : SaveSession(updated, Good(extReg))
    BY <1>2 DEF FinishAppDrop
  <2>. QED
    BY <1>1, <1>2, <2>1, <2>2, SaveLast DEF FinishAppDrop, ExternalInv, StartUpInv
<1>3. ASSUME NEW d \in Drops, FinishExternalDrop(d)
      PROVE  ExternalInv'
  <2>1. phase = "ready" /\ phase' = "ready"
    BY <1>1, <1>3 DEF FinishExternalDrop, StartUpInv
  <2>. QED
    BY <1>1, <1>3, <2>1, SaveLast DEF FinishExternalDrop, ExternalInv, StartUpInv
<1>4. CASE ParserLoads
  <2>1. queue = <<>>
    BY <1>1, <1>4 DEF ParserLoads, StartUpInv
  <2>2. queue' = <<[op |-> "read", meta |-> meta]>>
    BY <1>4, <2>1 DEF ParserLoads
  <2>. QED
    BY <1>1, <1>4, <2>2 DEF ParserLoads, ExternalInv, StartUpInv, memory
<1>5. CASE ParserFails
  BY <1>1, <1>5 DEF ParserFails, ExternalInv, StartUpInv, memory
<1>6. CASE RestoreSession
  <2>1. queue \in Seq(Request) /\ disk.ext \in GoodMap
    BY DEF TypeOK, Image
  <2>2. phase = "loading"
    BY <1>1, <1>6, <2>1 DEF RestoreSession, StartUpInv, TypeOK
  <2>3. Len(queue) = 1 /\ queue' = <<>>
    BY <1>1, <1>6, <2>1, <2>2 DEF RestoreSession, StartUpInv
  <2>4. Merge(EmptyFiles, disk.ext) = disk.ext /\ Good(disk.ext) = disk.ext
    BY <2>1, SessionAssumption DEF Merge, Good, EmptyFiles, GoodMap
  <2>. QED
    BY <1>1, <1>6, <2>2, <2>3, <2>4
    DEF RestoreSession, ExternalInv, StartUpInv, LastImage
<1>7. CASE CommitWrite
  BY <1>1, <1>7, CommitLast DEF CommitWrite, ExternalInv, StartUpInv, memory
<1>8. ASSUME NEW id \in AppIds, Reload(id)
      PROVE  ExternalInv'
  BY <1>8 DEF Reload, ExternalInv, StartUpInv
<1>9. ASSUME NEW d \in Drops, ReadFails(d)
      PROVE  ExternalInv'
  BY <1>1, <1>9 DEF ReadFails, ExternalInv, StartUpInv, LastImage, memory
<1>. QED
  BY <1>2, <1>3, <1>4, <1>5, <1>6, <1>7, <1>8, <1>9 DEF SystemStep, Landing, StartUp

\* The inductive invariant of a session whose user waits for the restore.
LEMMA BusyInvariant == BusySpec => [](TypeOK /\ ExternalInv)
<1>1. Init => TypeOK /\ ExternalInv
  BY TypeInit, ExternalInit
<1>2. TypeOK /\ ExternalInv /\ [BusyNext]_vars => (TypeOK /\ ExternalInv)'
  <2>. SUFFICES ASSUME TypeOK, ExternalInv, [BusyNext]_vars
                PROVE  (TypeOK /\ ExternalInv)'
    OBVIOUS
  <2>1. TypeOK'
    BY TypeStep DEF BusyNext, Next
  <2>2. CASE BusyNext
    BY <2>1, <2>2, ExternalUser, ExternalSystem DEF BusyNext
  <2>3. CASE UNCHANGED vars
    BY <2>1, <2>3 DEF vars, memory, ExternalInv, StartUpInv, LastImage
  <2>. QED
    BY <2>2, <2>3
<1>. QED
  BY <1>1, <1>2, PTL DEF BusySpec

\* The header list two handlers save from the screen is the registry's, which
\* the others save, in every state a user who waited for the restore can reach.
THEOREM ExternalViewCorrect == BusySpec => []ExternalView
<1>1. ExternalInv => ExternalView
  BY DEF ExternalInv, ExternalView
<1>. QED
  BY <1>1, BusyInvariant, PTL

\* Once the writes are done the object store holds the headers on screen,
\* however many drops and operations overlapped.
THEOREM ExternalHeadersSurvive == BusySpec => []ExternalDurable
<1>1. ExternalInv => ExternalDurable
  BY DEF ExternalInv, ExternalDurable, LastImage
<1>. QED
  BY <1>1, BusyInvariant, PTL

(***************************************************************************)
(* A patient user's session survives a reload                              *)
(***************************************************************************)
\* Two lists with the same ids, names and files: analysis may differ.
SameButAnalysis(as, bs) ==
  /\ Open(as) = Open(bs)
  /\ \A id \in Open(as) : as[id].name = bs[id].name /\ as[id].files = bs[id].files

\* Storing an analysis changes nothing else.
LEMMA AnalysedKeeps ==
  ASSUME TypeOK, NEW as \in AppStates, NEW id \in AppIds,
         NEW files \in FileMap, NEW ext \in GoodMap
  PROVE  SameButAnalysis(Analysed(as, id, files, ext), as)
<1>. DEFINE bs == [as EXCEPT ![id].analysis = Outcome(files, ext)]
<1>1. ASSUME NEW i \in AppIds, id \in Open(as)
      PROVE  /\ bs[i] = NoApp <=> as[i] = NoApp
             /\ bs[i] # NoApp => bs[i].name = as[i].name /\ bs[i].files = as[i].files
  <2>1. CASE i # id
    BY <2>1 DEF AppStates
  <2>2. CASE i = id
    <3>1. as[i] \in App /\ as[i] # NoApp
      BY <1>1, <2>2, OpenApp DEF Open
    <3>2. bs[i] \in App
      BY <2>2, <3>1, OutcomeType DEF App, AppStates
    <3>3. bs[i] # NoApp
      BY <3>2, SessionAssumption
    <3>. QED
      BY <2>2, <3>1, <3>3 DEF App, AppStates
  <2>. QED
    BY <2>1, <2>2
<1>. QED
  BY <1>1 DEF Analysed, SameButAnalysis, Open

\* Nor does storing all of them.
LEMMA ReanalysedKeeps ==
  ASSUME TypeOK, NEW as \in AppStates, NEW seen \in AppStates, NEW ext \in GoodMap
  PROVE  SameButAnalysis(ReanalysedAll(as, seen, ext), as)
<1>. DEFINE bs == ReanalysedAll(as, seen, ext)
<1>1. ASSUME NEW i \in AppIds
      PROVE  /\ bs[i] = NoApp <=> as[i] = NoApp
             /\ bs[i] # NoApp => bs[i].name = as[i].name /\ bs[i].files = as[i].files
  <2>1. CASE ~(ParserReady /\ i \in Open(as) \cap Open(seen))
    BY <2>1 DEF ReanalysedAll
  <2>2. CASE ParserReady /\ i \in Open(as) \cap Open(seen)
    <3>1. as[i] \in App /\ as[i] # NoApp
      BY <2>2, OpenApp DEF Open
    <3>2. bs[i] = [as[i] EXCEPT !.analysis = Outcome(seen[i].files, ext)]
      BY <2>2 DEF ReanalysedAll
    <3>3. bs \in AppStates
      BY ReanalysedType
    <3>4. bs[i].name = as[i].name /\ bs[i].files = as[i].files
      BY <3>1, <3>2 DEF App
    <3>5. bs[i] \in App
      <4>1. Outcome(seen[i].files, ext) \in Analysis \cup {NoAnalysis}
        BY <2>2, OpenApp, OutcomeType
      <4>. QED
        BY <3>1, <3>2, <4>1 DEF App
    <3>6. bs[i] # NoApp
      BY <3>5, SessionAssumption
    <3>. QED
      BY <3>1, <3>4, <3>6
  <2>. QED
    BY <2>1, <2>2
<1>. QED
  BY <1>1 DEF SameButAnalysis, Open

\* Lists that differ in analysis only are saved alike.
LEMMA SameSaved ==
  ASSUME NEW as, NEW bs, SameButAnalysis(as, bs)
  PROVE  MetaOf(as) = MetaOf(bs) /\ (HasFiles(as) <=> HasFiles(bs))
BY DEF SameButAnalysis, MetaOf, HasFiles, Open

\* The last image is an image of the store, which knows no fresh id.
LEMMA LastImageKnown ==
  ASSUME TypeOK, StartUpInv, NEW id \in AppIds, id \notin Known
  PROVE  LastImage.apps[id] = EmptyFiles
<1>1. CASE phase # "ready" \/ queue = <<>>
  BY <1>1 DEF LastImage, Known, Stored
<1>2. CASE phase = "ready" /\ queue # <<>>
  <2>1. Len(queue) \in DOMAIN queue
    BY <1>2 DEF TypeOK
  <2>2. queue[Len(queue)].op = "write"
    BY <1>2, <2>1 DEF StartUpInv
  <2>3. \A i \in DOMAIN queue : queue[i].op = "write" => queue[i].image.apps[id] = EmptyFiles
    BY DEF Known, Queued
  <2>. QED
    BY <1>2, <2>1, <2>2, <2>3 DEF LastImage
<1>. QED
  BY <1>1, <1>2

\* The conjuncts of PatientInv about a restored session, as one fact.
LEMMA PatientReady ==
  ASSUME ExternalInv', phase' = "ready",
         \A d, e \in Drops : drops'[d] # NoDrop /\ drops'[e] # NoDrop => d = e,
         \A d \in Drops : drops'[d] # NoDrop => drops'[d].seen = apps',
         \A id \in Open(apps') : LastImage'.apps[id] = apps'[id].files,
         HasFiles(apps') => meta' = MetaOf(apps')
  PROVE  PatientInv'
BY DEF PatientInv

\* After a save of a list that differs in analysis only, what is on screen is
\* the last image.
LEMMA SavedOnScreen ==
  ASSUME TypeOK, StartUpInv, phase = "ready", phase' = phase,
         NEW as \in AppStates, NEW ext, SaveSession(as, ext), SameButAnalysis(apps', as)
  PROVE  \A id \in Open(apps') : LastImage'.apps[id] = apps'[id].files
<1>1. LastImage' = ImageOf(as, ext)
  BY SaveLast
<1>2. \A id \in Open(apps') : id \in AppIds /\ as[id] # NoApp /\ apps'[id].files = as[id].files
  BY DEF SameButAnalysis, Open
<1>. QED
  BY <1>1, <1>2 DEF ImageOf

\* A patient user's step on the applications.
LEMMA PatientAppSteps ==
  ASSUME TypeOK, PatientInv, Settled, ExternalInv', NEW id \in AppIds,
         \/ AddApp(id)
         \/ RemoveApp(id)
         \/ ClearApp(id)
         \/ \E name \in Names : RenameApp(id, name)
         \/ \E n \in FileNames : RemoveAppFile(id, n)
  PROVE  PatientInv'
<1>1. /\ StartUpInv /\ phase = "ready" /\ apps \in AppStates
      /\ \A d \in Drops : drops[d] = NoDrop
      /\ \A i \in Open(apps) : LastImage.apps[i] = apps[i].files
      /\ HasFiles(apps) => meta = MetaOf(apps)
  BY DEF PatientInv, ExternalInv, Settled, TypeOK
<1>2. ASSUME queue' = queue, disk' = disk, phase' = phase
      PROVE  LastImage' = LastImage
  BY <1>2 DEF LastImage
<1>3. apps' \in AppStates
  BY AppStepsType DEF TypeOK
<1>4. CASE AddApp(id)
  <2>1. LastImage.apps[id] = EmptyFiles
    BY <1>1, <1>4, LastImageKnown DEF AddApp
  <2>2. \A i \in Open(apps') : LastImage'.apps[i] = apps'[i].files
    BY <1>1, <1>2, <1>4, <2>1 DEF AddApp, NewApp, Open, AppStates
  <2>. QED
    BY <1>1, <1>4, <2>2, PatientReady DEF AddApp
<1>5. CASE RemoveApp(id)
  <2>1. \A i \in Open(apps') : LastImage'.apps[i] = apps'[i].files
    BY <1>1, <1>3, <1>5, SavedOnScreen DEF RemoveApp, SameButAnalysis
  <2>. QED
    BY <1>1, <1>5, <2>1, PatientReady DEF RemoveApp
<1>6. CASE ClearApp(id)
  <2>1. \A i \in Open(apps') : LastImage'.apps[i] = apps'[i].files
    BY <1>1, <1>3, <1>6, SavedOnScreen DEF ClearApp, SameButAnalysis
  <2>2. HasFiles(apps)
    BY <1>6 DEF ClearApp, HasFiles
  <2>3. apps[id] \in App /\ apps[id] # NoApp
    BY <1>1, <1>6, OpenApp DEF ClearApp, Open
  <2>4. apps'[id] \in App /\ apps'[id] # NoApp /\ apps'[id].name = apps[id].name
    BY <1>1, <1>6, <2>3, EmptyFilesType, SessionAssumption DEF ClearApp, App, AppStates
  <2>5. \A i \in AppIds : i # id => apps'[i] = apps[i]
    BY <1>1, <1>6 DEF ClearApp, AppStates
  <2>6. MetaOf(apps') = MetaOf(apps)
    BY <2>3, <2>4, <2>5 DEF MetaOf
  <2>. QED
    BY <1>1, <1>6, <2>1, <2>2, <2>6, PatientReady DEF ClearApp
<1>7. ASSUME NEW name \in Names, RenameApp(id, name)
      PROVE  PatientInv'
  <2>1. apps[id] \in App /\ apps[id] # NoApp
    BY <1>1, <1>7, OpenApp DEF RenameApp, Open
  <2>2. \A i \in Open(apps') : i \in Open(apps) /\ apps'[i].files = apps[i].files
    BY <1>1, <1>7, <2>1 DEF RenameApp, Open, App, AppStates
  <2>. QED
    BY <1>1, <1>2, <1>7, <2>2, PatientReady DEF RenameApp
<1>8. ASSUME NEW n \in FileNames, RemoveAppFile(id, n)
      PROVE  PatientInv'
  <2>. DEFINE files   == Without(apps[id].files, n)
              updated == [apps EXCEPT ![id].files = files]
              ext     == Good(extReg)
  <2>1. apps[id] \in App /\ apps[id] # NoApp /\ files \in FileMap /\ ext \in GoodMap
    BY <1>1, <1>8, OpenApp, WithoutType, GoodType DEF RemoveAppFile, Open, TypeOK
  <2>2. updated[id] \in App /\ updated[id] # NoApp /\ updated[id].name = apps[id].name
    BY <1>1, <2>1, SessionAssumption DEF App, AppStates
  <2>3. updated \in AppStates /\ \A i \in AppIds : i # id => updated[i] = apps[i]
    BY <1>1, <2>2 DEF AppStates
  <2>4. MetaOf(updated) = MetaOf(apps)
    BY <2>1, <2>2, <2>3 DEF MetaOf
  <2>5. SameButAnalysis(apps', updated) /\ SaveSession(updated, ext)
    BY <1>8, <2>1, <2>3, AnalysedKeeps DEF RemoveAppFile
  <2>6. \A i \in Open(apps') : LastImage'.apps[i] = apps'[i].files
    BY <1>1, <1>8, <2>3, <2>5, SavedOnScreen DEF RemoveAppFile
  <2>7. HasFiles(apps)
    <3>1. apps[id].files # EmptyFiles
      BY <1>8 DEF RemoveAppFile, EmptyFiles
    <3>. QED
      BY <1>8, <3>1 DEF RemoveAppFile, HasFiles
  <2>8. MetaOf(apps') = MetaOf(apps)
    BY <2>4, <2>5, SameSaved
  <2>. QED
    BY <1>1, <1>8, <2>6, <2>7, <2>8, PatientReady DEF RemoveAppFile
<1>. QED
  BY <1>4, <1>5, <1>6, <1>7, <1>8

\* A patient user's other steps.
LEMMA PatientOtherSteps ==
  ASSUME TypeOK, PatientInv, Settled, ExternalInv',
         \/ \E d \in Drops, id \in AppIds, loaded \in AppLoads : DropAppFiles(d, id, loaded)
         \/ \E d \in Drops, loaded \in ExtLoads : DropExternal(d, loaded)
         \/ \E n \in FileNames : RemoveExternal(n)
         \/ ClearExternal
         \/ \E id \in AppIds : ClearSession(id)
         \/ \E edited \in SUBSET Patterns : EditPatterns(edited)
         \/ Reanalyze
  PROVE  PatientInv'
<1>1. /\ StartUpInv /\ phase = "ready" /\ apps \in AppStates
      /\ \A d \in Drops : drops[d] = NoDrop
      /\ \A i \in Open(apps) : LastImage.apps[i] = apps[i].files
      /\ HasFiles(apps) => meta = MetaOf(apps)
      /\ extReg \in FileMap /\ externalFiles \in GoodMap /\ drops \in [Drops -> Drop \cup {NoDrop}]
  BY DEF PatientInv, ExternalInv, Settled, TypeOK
<1>2. ASSUME queue' = queue, disk' = disk, phase' = phase
      PROVE  LastImage' = LastImage
  BY <1>2 DEF LastImage
<1>3. ASSUME NEW d \in Drops, NEW id \in AppIds, NEW loaded \in AppLoads,
             DropAppFiles(d, id, loaded)
      PROVE  PatientInv'
  BY <1>1, <1>2, <1>3, PatientReady DEF DropAppFiles, memory
<1>4. ASSUME NEW d \in Drops, NEW loaded \in ExtLoads, DropExternal(d, loaded)
      PROVE  PatientInv'
  BY <1>1, <1>2, <1>4, PatientReady DEF DropExternal, memory
<1>5. ASSUME NEW ext \in GoodMap, apps' = ReanalysedAll(apps, apps, ext),
             SaveSession(apps, ext), UNCHANGED <<phase, drops, meta>>
      PROVE  PatientInv'
  <2>1. SameButAnalysis(apps', apps)
    BY <1>1, <1>5, ReanalysedKeeps
  <2>2. \A i \in Open(apps') : LastImage'.apps[i] = apps'[i].files
    BY <1>1, <1>5, <2>1, SavedOnScreen
  <2>3. HasFiles(apps') => meta' = MetaOf(apps')
    BY <1>1, <1>5, <2>1, SameSaved
  <2>. QED
    BY <1>1, <1>5, <2>2, <2>3, PatientReady
<1>6. ASSUME NEW n \in FileNames, RemoveExternal(n)
      PROVE  PatientInv'
  <2>1. Good(extReg') \in GoodMap
    BY <1>1, <1>6, WithoutType, GoodType DEF RemoveExternal
  <2>. QED
    BY <1>5, <1>6, <2>1 DEF RemoveExternal
<1>7. CASE ClearExternal
  BY <1>5, <1>7, EmptyFilesType DEF ClearExternal
<1>8. ASSUME NEW id \in AppIds, ClearSession(id)
      PROVE  PatientInv'
  <2>. DEFINE none == [i \in AppIds |-> NoApp]
  <2>1. EmptyImage = ImageOf(none, EmptyFiles)
    BY DEF EmptyImage, ImageOf
  <2>2. SaveSession(none, EmptyFiles)
    BY <1>8, <2>1 DEF ClearSession, SaveSession
  <2>3. LastImage' = EmptyImage
    BY <1>1, <1>8, <2>1, <2>2, SaveLast DEF ClearSession
  <2>4. \A i \in Open(apps') : apps'[i].files = EmptyFiles
    BY <1>8 DEF ClearSession, FreshSession, NewApp, Open
  <2>5. \A i \in Open(apps') : LastImage'.apps[i] = apps'[i].files
    BY <2>3, <2>4 DEF EmptyImage, Open
  <2>6. ~HasFiles(apps')
    BY <2>4 DEF HasFiles
  <2>. QED
    BY <1>1, <1>8, <2>5, <2>6, PatientReady DEF ClearSession
<1>9. ASSUME NEW edited \in SUBSET Patterns, EditPatterns(edited)
      PROVE  PatientInv'
  BY <1>1, <1>2, <1>9, PatientReady DEF EditPatterns, memory
<1>10. CASE Reanalyze
  <2>1. SameButAnalysis(apps', apps)
    BY <1>1, <1>10, ReanalysedKeeps DEF Reanalyze
  <2>2. HasFiles(apps') => meta' = MetaOf(apps')
    BY <1>1, <1>10, <2>1, SameSaved DEF Reanalyze
  <2>3. \A i \in Open(apps') : LastImage'.apps[i] = apps'[i].files
    BY <1>1, <1>2, <1>10, <2>1 DEF Reanalyze, SameButAnalysis
  <2>. QED
    BY <1>1, <1>10, <2>2, <2>3, PatientReady DEF Reanalyze
<1>. QED
  BY <1>3, <1>4, <1>6, <1>7, <1>8, <1>9, <1>10

\* The landing of the only drop, of which nothing changed since it began.
LEMMA PatientLanding ==
  ASSUME TypeOK, PatientInv, Landing, ExternalInv'
  PROVE  PatientInv'
<1>1. StartUpInv /\ apps \in AppStates /\ extReg \in FileMap /\ Good(extReg) \in GoodMap
  BY GoodType DEF PatientInv, ExternalInv, TypeOK
<1>2. ASSUME NEW d \in Drops, drops[d] # NoDrop, drops' = [drops EXCEPT ![d] = NoDrop]
      PROVE  /\ phase = "ready" /\ drops[d].seen = apps
             /\ \A e \in Drops : drops'[e] = NoDrop
  BY <1>1, <1>2 DEF PatientInv, StartUpInv, TypeOK
<1>3. ASSUME NEW d \in Drops, FinishAppDrop(d)
      PROVE  PatientInv'
  <2>. DEFINE id      == drops[d].app
              files   == Merge(drops[d].seen[id].files, drops[d].loaded)
              updated == [drops[d].seen EXCEPT ![id].files = files]
              ext     == Good(extReg)
  <2>1. phase = "ready" /\ phase' = phase /\ \A e \in Drops : drops'[e] = NoDrop
    BY <1>2, <1>3 DEF FinishAppDrop
  <2>2. /\ drops[d].seen \in AppStates /\ drops[d].loaded \in FileMap
        /\ id \in Open(drops[d].seen)
    BY <1>3, DropType DEF FinishAppDrop
  <2>3. files \in FileMap /\ updated \in AppStates /\ id \in AppIds
    BY <2>2, OpenApp, MergeType DEF AppStates, App
  <2>4. SameButAnalysis(apps', updated)
    BY <1>1, <1>3, <2>3, AnalysedKeeps DEF FinishAppDrop
  <2>5. \A i \in Open(apps') : LastImage'.apps[i] = apps'[i].files
    BY <1>1, <1>3, <2>1, <2>3, <2>4, SavedOnScreen DEF FinishAppDrop
  <2>6. meta' = MetaOf(apps')
    BY <1>3, <2>4, SameSaved DEF FinishAppDrop
  <2>. QED
    BY <2>1, <2>5, <2>6, PatientReady
<1>4. ASSUME NEW d \in Drops, FinishExternalDrop(d)
      PROVE  PatientInv'
  <2>1. /\ phase = "ready" /\ phase' = phase /\ drops[d].seen = apps
        /\ \A e \in Drops : drops'[e] = NoDrop
    BY <1>2, <1>4 DEF FinishExternalDrop
  <2>2. Good(extReg') \in GoodMap
    BY <1>1, <1>4, DropType, MergeType, GoodType DEF FinishExternalDrop
  <2>3. SameButAnalysis(apps', apps)
    BY <1>1, <1>4, <2>1, <2>2, ReanalysedKeeps DEF FinishExternalDrop
  <2>4. \A i \in Open(apps') : LastImage'.apps[i] = apps'[i].files
    BY <1>1, <1>4, <2>1, <2>3, SavedOnScreen DEF FinishExternalDrop
  <2>5. HasFiles(apps') => meta' = MetaOf(apps')
    BY <1>4, <2>1, <2>3, SameSaved DEF FinishExternalDrop, PatientInv
  <2>. QED
    BY <2>1, <2>4, <2>5, PatientReady
<1>. QED
  BY <1>3, <1>4 DEF Landing

\* Start-up, commits and reloads.
LEMMA PatientSystem ==
  ASSUME TypeOK, PatientInv, ExternalInv',
         \/ StartUp \/ CommitWrite
         \/ \E d \in Drops : ReadFails(d)
         \/ \E id \in AppIds : Reload(id)
  PROVE  PatientInv'
<1>1. StartUpInv
  BY DEF PatientInv, ExternalInv
<1>2. CASE ParserLoads
  <2>1. queue = <<>>
    BY <1>1, <1>2 DEF ParserLoads, StartUpInv
  <2>2. queue'[1].meta = meta
    BY <1>2, <2>1 DEF ParserLoads
  <2>. QED
    BY <1>1, <1>2, <2>2 DEF ParserLoads, PatientInv, memory, LastImage
<1>3. CASE ParserFails
  BY <1>1, <1>3 DEF ParserFails, PatientInv, memory, LastImage
<1>4. CASE RestoreSession
  <2>1. phase = "loading" /\ Head(queue) = queue[1]
    BY <1>1, <1>4 DEF RestoreSession, StartUpInv, TypeOK
  <2>2. LastImage = disk /\ LastImage' = disk
    BY <1>1, <1>4, <2>1 DEF RestoreSession, StartUpInv, LastImage, TypeOK
  <2>3. \A d \in Drops : drops'[d] = NoDrop
    BY <1>1, <1>4, <2>1 DEF RestoreSession, StartUpInv
  <2>4. CASE Restorable(meta, disk)
    <3>1. apps' = RestoredApps(meta, disk)
      BY <1>4, <2>1, <2>4 DEF RestoreSession, PatientInv
    <3>2. \A i \in AppIds : meta[i] # NoApp => apps'[i] # NoApp
      BY <3>1, RestoredOpen DEF TypeOK
    <3>3. \A i \in Open(apps') : disk.apps[i] = apps'[i].files
      BY <3>1 DEF RestoredApps, Open
    <3>4. MetaOf(apps') = meta
      BY <3>1, <3>2 DEF MetaOf, RestoredApps, TypeOK, Meta
    <3>. QED
      BY <1>4, <2>2, <2>3, <3>3, <3>4, PatientReady DEF RestoreSession
  <2>5. CASE ~Restorable(meta, disk)
    <3>1. apps' = apps
      BY <1>4, <2>1, <2>5 DEF RestoreSession, PatientInv
    <3>2. ~HasFiles(apps')
      BY <2>1, <3>1 DEF PatientInv, HasFiles
    <3>. QED
      BY <1>4, <2>2, <2>3, <3>1, <3>2, PatientReady DEF RestoreSession, PatientInv
  <2>. QED
    BY <2>4, <2>5
<1>5. CASE CommitWrite
  BY <1>1, <1>5, CommitLast DEF CommitWrite, PatientInv, memory
<1>6. ASSUME NEW id \in AppIds, Reload(id)
      PROVE  PatientInv'
  <2>1. Open(apps') \subseteq {id} /\ apps'[id] = NewApp
    BY <1>6 DEF Reload, FreshSession, Open
  <2>2. \A i \in Open(apps') : apps'[i].files = EmptyFiles
    BY <2>1 DEF NewApp
  <2>3. disk.apps[id] = EmptyFiles /\ LastImage' = disk
    BY <1>6 DEF Reload, Stored, LastImage
  <2>. QED
    BY <1>6, <2>1, <2>2, <2>3 DEF Reload, PatientInv
<1>7. ASSUME NEW d \in Drops, ReadFails(d)
      PROVE  PatientInv'
  <2>1. drops[d] # NoDrop /\ \A e \in Drops \ {d} : drops'[e] = drops[e]
    BY <1>7 DEF ReadFails, TypeOK
  <2>2. \A e \in Drops : drops'[e] = NoDrop
    BY <1>7, <2>1 DEF ReadFails, PatientInv, TypeOK
  <2>. QED
    BY <1>7, <2>2 DEF ReadFails, PatientInv, LastImage, HasFiles, memory
<1>. QED
  BY <1>2, <1>3, <1>4, <1>5, <1>6, <1>7 DEF StartUp

\* The inductive invariant of a session whose user waits for each operation.
LEMMA PatientInvariant == PatientSpec => [](TypeOK /\ PatientInv)
<1>1. Init => TypeOK /\ PatientInv
  <2>1. ASSUME Init
        PROVE  \A id \in Open(apps) : apps[id].files = EmptyFiles
    BY <2>1 DEF Init, FreshSession, NewApp, Open
  <2>. QED
    BY <2>1, TypeInit, ExternalInit DEF Init, PatientInv, LastImage, EmptyImage, Open
<1>2. TypeOK /\ PatientInv /\ [PatientNext]_vars => (TypeOK /\ PatientInv)'
  <2>. SUFFICES ASSUME TypeOK, PatientInv, [PatientNext]_vars
                PROVE  (TypeOK /\ PatientInv)'
    OBVIOUS
  <2>1. TypeOK'
    BY TypeStep DEF PatientNext, Next
  <2>2. CASE Settled /\ UserStep
    <3>1. ExternalInv'
      BY <2>2, ExternalUser DEF Settled, PatientInv
    <3>. QED
      BY <2>1, <2>2, <3>1, PatientAppSteps, PatientOtherSteps DEF UserStep
  <2>3. CASE SystemStep
    <3>1. ExternalInv'
      BY <2>3, ExternalSystem DEF PatientInv
    <3>. QED
      BY <2>1, <2>3, <3>1, PatientLanding, PatientSystem DEF SystemStep
  <2>4. CASE UNCHANGED vars
    BY <2>1, <2>4 DEF vars, memory, PatientInv, ExternalInv, StartUpInv, LastImage,
       HasFiles
  <2>. QED
    BY <2>2, <2>3, <2>4 DEF PatientNext
<1>. QED
  BY <1>1, <1>2, PTL DEF PatientSpec

(***************************************************************************)
(* There is always an application                                          *)
(***************************************************************************)
\* Storing analyses opens and closes no application.
LEMMA SameOpen ==
  ASSUME TypeOK, NEW as \in AppStates, NEW ext \in GoodMap
  PROVE  /\ \A id \in AppIds, files \in FileMap : Open(Analysed(as, id, files, ext)) = Open(as)
         /\ \A seen \in AppStates : Open(ReanalysedAll(as, seen, ext)) = Open(as)
BY AnalysedKeeps, ReanalysedKeeps DEF SameButAnalysis

\* A step of everything the code allows leaves an application open: the guard
\* of RemoveApp, a snapshot that has the application its drop is for, and a
\* restored list that is not empty.
LEMMA SomeAppStep ==
  ASSUME TypeOK, SomeApp, [Next]_vars
  PROVE  SomeApp'
<1>1. /\ apps \in AppStates /\ extReg \in FileMap /\ externalFiles \in GoodMap
      /\ Good(extReg) \in GoodMap /\ Open(apps) # {} /\ EmptyFiles \in GoodMap
  BY GoodType, EmptyFilesType DEF TypeOK, SomeApp
<1>2. ASSUME NEW id \in AppIds, AddApp(id)
      PROVE  SomeApp'
  <2>1. NewApp # NoApp
    BY FreshType, SessionAssumption
  <2>. QED
    BY <1>1, <1>2, <2>1 DEF AddApp, SomeApp, Open, AppStates
<1>3. ASSUME NEW id \in AppIds, RemoveApp(id)
      PROVE  SomeApp'
  <2>1. Cardinality({id}) = 1
    BY FS_Singleton
  <2>2. Open(apps) # {id}
    BY <1>3, <2>1 DEF RemoveApp
  <2>3. PICK other \in Open(apps) : other # id
    BY <1>1, <2>2
  <2>4. apps'[other] = apps[other]
    BY <1>1, <1>3, <2>3 DEF RemoveApp, AppStates, Open
  <2>. QED
    BY <2>3, <2>4 DEF SomeApp, Open
<1>4. ASSUME NEW id \in AppIds, ClearApp(id)
      PROVE  SomeApp'
  <2>1. apps[id] \in App
    BY <1>1, <1>4, OpenApp DEF ClearApp
  <2>2. apps'[id] = [apps[id] EXCEPT !.files = EmptyFiles, !.analysis = NoAnalysis]
    BY <1>1, <1>4 DEF ClearApp, AppStates
  <2>3. apps'[id] \in App
    BY <2>1, <2>2, EmptyFilesType DEF App
  <2>4. apps'[id] # NoApp
    BY <2>3, SessionAssumption
  <2>. QED
    BY <2>4 DEF SomeApp, Open
<1>5. ASSUME NEW id \in AppIds, ClearSession(id) \/ Reload(id)
      PROVE  SomeApp'
  <2>1. apps' = FreshSession(id) /\ NewApp # NoApp
    BY <1>5, FreshType, SessionAssumption DEF ClearSession, Reload
  <2>. QED
    BY <2>1 DEF FreshSession, SomeApp, Open
<1>6. ASSUME NEW id \in AppIds, NEW name \in Names, RenameApp(id, name)
      PROVE  SomeApp'
  <2>1. apps[id] \in App
    BY <1>1, <1>6, OpenApp DEF RenameApp
  <2>2. apps'[id] \in App
    BY <1>1, <1>6, <2>1 DEF RenameApp, App, AppStates
  <2>3. apps'[id] # NoApp
    BY <2>2, SessionAssumption
  <2>. QED
    BY <2>3 DEF SomeApp, Open
<1>7. ASSUME NEW id \in AppIds, NEW n \in FileNames, RemoveAppFile(id, n)
      PROVE  SomeApp'
  <2>. DEFINE files   == Without(apps[id].files, n)
              updated == [apps EXCEPT ![id].files = files]
  <2>1. files \in FileMap /\ apps[id] \in App
    BY <1>1, <1>7, OpenApp, WithoutType DEF RemoveAppFile
  <2>2. updated \in AppStates /\ updated[id] \in App
    BY <1>1, <2>1 DEF App, AppStates
  <2>3. id \in Open(updated)
    BY <2>2, SessionAssumption DEF Open
  <2>4. Open(apps') = Open(updated)
    BY <1>1, <1>7, <2>1, <2>2, SameOpen DEF RemoveAppFile
  <2>. QED
    BY <2>3, <2>4 DEF SomeApp
<1>8. ASSUME NEW d \in Drops, FinishAppDrop(d)
      PROVE  SomeApp'
  <2>. DEFINE id      == drops[d].app
              files   == Merge(drops[d].seen[id].files, drops[d].loaded)
              updated == [drops[d].seen EXCEPT ![id].files = files]
  <2>1. /\ drops[d].seen \in AppStates /\ drops[d].loaded \in FileMap
        /\ id \in Open(drops[d].seen)
    BY <1>8, DropType DEF FinishAppDrop
  <2>2. files \in FileMap /\ updated \in AppStates /\ updated[id] \in App /\ id \in AppIds
    BY <2>1, OpenApp, MergeType DEF AppStates, App
  <2>3. id \in Open(updated)
    BY <2>2, SessionAssumption DEF Open
  <2>4. Open(apps') = Open(updated)
    BY <1>1, <1>8, <2>2, SameOpen DEF FinishAppDrop
  <2>. QED
    BY <2>3, <2>4 DEF SomeApp
<1>9. ASSUME NEW d \in Drops, FinishExternalDrop(d)
      PROVE  SomeApp'
  <2>1. drops[d].seen \in AppStates /\ Good(extReg') \in GoodMap
    BY <1>1, <1>9, DropType, MergeType, GoodType DEF FinishExternalDrop
  <2>. QED
    BY <1>1, <1>9, <2>1, SameOpen DEF FinishExternalDrop, SomeApp
<1>10. ASSUME NEW n \in FileNames, RemoveExternal(n)
       PROVE  SomeApp'
  <2>1. Good(extReg') \in GoodMap
    BY <1>1, <1>10, WithoutType, GoodType DEF RemoveExternal
  <2>. QED
    BY <1>1, <1>10, <2>1, SameOpen DEF RemoveExternal, SomeApp
<1>11. CASE ClearExternal \/ Reanalyze
  BY <1>1, <1>11, SameOpen DEF ClearExternal, Reanalyze, SomeApp
<1>12. CASE RestoreSession
  <2>1. CASE ~Restorable(Head(queue).meta, disk)
    BY <1>1, <1>12, <2>1 DEF RestoreSession, SomeApp
  <2>2. CASE Restorable(Head(queue).meta, disk)
    <3>. DEFINE m == Head(queue).meta
    <3>1. PICK id \in Open(m) : TRUE
      BY <2>2 DEF Restorable
    <3>2. id \in AppIds /\ m[id] # NoApp /\ m \in Meta
      BY <1>12, <3>1, HeadType DEF RestoreSession, Open
    <3>3. apps'[id] # NoApp
      BY <1>12, <2>2, <3>2, RestoredOpen DEF RestoreSession, TypeOK
    <3>. QED
      BY <3>2, <3>3 DEF SomeApp, Open
  <2>. QED
    BY <2>1, <2>2
<1>13. ASSUME apps' = apps
       PROVE  SomeApp'
  BY <1>13 DEF SomeApp
<1>14. CASE UserStep
  BY <1>2, <1>3, <1>4, <1>5, <1>6, <1>7, <1>10, <1>11, <1>13, <1>14
  DEF UserStep, DropAppFiles, DropExternal, EditPatterns, memory
<1>15. CASE SystemStep
  BY <1>5, <1>8, <1>9, <1>12, <1>13, <1>15
  DEF SystemStep, Landing, StartUp, ReadFails, ParserLoads, ParserFails, CommitWrite, memory
<1>16. CASE StorageFails \/ UNCHANGED vars
  BY <1>13, <1>16 DEF StorageFails, vars, memory
<1>. QED
  BY <1>14, <1>15, <1>16 DEF Next

\* Whatever overlaps, is refused or is restored, there is an application zone
\* to drop files on.
THEOREM SomeAppCorrect == Spec => []SomeApp
<1>1. Init => TypeOK /\ SomeApp
  <2>1. ASSUME Init
        PROVE  SomeApp
    BY <2>1, FreshType, SessionAssumption DEF Init, FreshSession, SomeApp, Open
  <2>. QED
    BY <2>1, TypeInit
<1>2. TypeOK /\ SomeApp /\ [Next]_vars => (TypeOK /\ SomeApp)'
  BY TypeStep, SomeAppStep
<1>. QED
  BY <1>1, <1>2, PTL DEF Spec

(***************************************************************************)
(* The application list follows, however drops overlap                     *)
(***************************************************************************)
\* Before the restore nothing is on screen, and what will be restored is the
\* list that is stored.
NamesInv ==
  /\ ExternalInv
  /\ phase = "loading" => queue[1].meta = meta
  /\ phase # "ready" => ~HasFiles(apps)
  /\ NamesDurable

\* After a step of a restored session the list is stored again, or is what it
\* was, or nothing is left to lose.
LEMMA NamesReady ==
  ASSUME ExternalInv', phase' = "ready", HasFiles(apps') => meta' = MetaOf(apps')
  PROVE  NamesInv'
BY DEF NamesInv, NamesDurable

\* A user's step on a restored session.
LEMMA NamesUser ==
  ASSUME TypeOK, NamesInv, phase = "ready", UserStep, ExternalInv'
  PROVE  NamesInv'
<1>1. /\ apps \in AppStates /\ extReg \in FileMap /\ externalFiles \in GoodMap
      /\ HasFiles(apps) => meta = MetaOf(apps)
  BY DEF TypeOK, NamesInv, NamesDurable
<1>2. phase' = "ready"
  BY DEF UserStep, AddApp, RemoveApp, ClearApp, ClearSession, RenameApp, RemoveAppFile, DropAppFiles,
     DropExternal, RemoveExternal, ClearExternal, EditPatterns, Reanalyze
<1>3. ASSUME NEW id \in AppIds, AddApp(id) \/ RemoveApp(id)
      PROVE  meta' = MetaOf(apps')
  BY <1>3 DEF AddApp, RemoveApp
<1>4. ASSUME NEW id \in AppIds, NEW name \in Names, RenameApp(id, name)
      PROVE  meta' = MetaOf(apps')
  BY <1>4 DEF RenameApp
<1>5. ASSUME NEW id \in AppIds, apps[id] # NoApp, apps[id].files # EmptyFiles, meta' = meta,
             NEW as \in AppStates, SameButAnalysis(apps', as), as[id] # NoApp, as[id].name = apps[id].name,
             \A i \in AppIds : i # id => as[i] = apps[i]
      PROVE  meta' = MetaOf(apps')
  <2>1. HasFiles(apps)
    BY <1>5 DEF HasFiles, Open
  <2>2. MetaOf(as) = MetaOf(apps)
    BY <1>5 DEF MetaOf
  <2>. QED
    BY <1>1, <1>5, <2>1, <2>2, SameSaved
<1>6. ASSUME NEW id \in AppIds, ClearApp(id)
      PROVE  meta' = MetaOf(apps')
  <2>1. apps[id] \in App /\ apps[id] # NoApp
    BY <1>1, <1>6, OpenApp DEF ClearApp, Open
  <2>2. apps'[id] = [apps[id] EXCEPT !.files = EmptyFiles, !.analysis = NoAnalysis]
    BY <1>1, <1>6 DEF ClearApp, AppStates
  <2>3. apps'[id] \in App /\ apps'[id].name = apps[id].name
    BY <2>1, <2>2, EmptyFilesType DEF App
  <2>4. apps' \in AppStates /\ apps'[id] # NoApp /\ \A i \in AppIds : i # id => apps'[i] = apps[i]
    BY <1>1, <1>6, <2>3, SessionAssumption DEF ClearApp, AppStates
  <2>5. SameButAnalysis(apps', apps')
    BY DEF SameButAnalysis
  <2>. QED
    BY <1>5, <1>6, <2>1, <2>3, <2>4, <2>5 DEF ClearApp
<1>7. ASSUME NEW id \in AppIds, NEW n \in FileNames, RemoveAppFile(id, n)
      PROVE  meta' = MetaOf(apps')
  <2>. DEFINE files   == Without(apps[id].files, n)
              updated == [apps EXCEPT ![id].files = files]
  <2>1. /\ apps[id] \in App /\ apps[id] # NoApp /\ files \in FileMap /\ Good(extReg) \in GoodMap
        /\ apps[id].files # EmptyFiles
    BY <1>1, <1>7, OpenApp, WithoutType, GoodType DEF RemoveAppFile, Open, EmptyFiles
  <2>2. updated[id] \in App /\ updated[id] # NoApp /\ updated[id].name = apps[id].name
    BY <1>1, <2>1, SessionAssumption DEF App, AppStates
  <2>3. updated \in AppStates /\ \A i \in AppIds : i # id => updated[i] = apps[i]
    BY <1>1, <2>2 DEF AppStates
  <2>4. SameButAnalysis(apps', updated)
    BY <1>7, <2>1, <2>3, AnalysedKeeps DEF RemoveAppFile
  <2>. QED
    BY <1>5, <1>7, <2>1, <2>2, <2>3, <2>4 DEF RemoveAppFile
<1>8. ASSUME NEW id \in AppIds, ClearSession(id)
      PROVE  ~HasFiles(apps')
  BY <1>8 DEF ClearSession, FreshSession, NewApp, HasFiles, Open
<1>9. ASSUME NEW ext \in GoodMap, apps' = ReanalysedAll(apps, apps, ext), meta' = meta
      PROVE  HasFiles(apps') => meta' = MetaOf(apps')
  BY <1>1, <1>9, ReanalysedKeeps, SameSaved
<1>10. ASSUME NEW n \in FileNames, RemoveExternal(n)
       PROVE  HasFiles(apps') => meta' = MetaOf(apps')
  <2>1. Good(extReg') \in GoodMap
    BY <1>1, <1>10, WithoutType, GoodType DEF RemoveExternal
  <2>. QED
    BY <1>9, <1>10, <2>1 DEF RemoveExternal
<1>11. CASE ClearExternal \/ Reanalyze
  <2>1. HasFiles(apps') => meta' = MetaOf(apps')
    BY <1>1, <1>9, <1>11, EmptyFilesType DEF ClearExternal, Reanalyze
  <2>. QED
    BY <1>2, <2>1, NamesReady
<1>12. CASE UNCHANGED <<apps, meta>>
  BY <1>1, <1>2, <1>12, NamesReady
<1>. QED
  BY <1>2, <1>3, <1>4, <1>6, <1>7, <1>8, <1>10, <1>11, <1>12, NamesReady
  DEF UserStep, DropAppFiles, DropExternal, EditPatterns, memory

\* The landing of a drop, start-up, commits and reloads.
LEMMA NamesSystem ==
  ASSUME TypeOK, NamesInv, SystemStep, ExternalInv'
  PROVE  NamesInv'
<1>1. /\ apps \in AppStates /\ extReg \in FileMap /\ externalFiles \in GoodMap /\ StartUpInv
      /\ phase = "ready" => (HasFiles(apps) => meta = MetaOf(apps))
      /\ Good(extReg) \in GoodMap
  BY GoodType DEF TypeOK, NamesInv, NamesDurable, ExternalInv
<1>2. ASSUME NEW d \in Drops, FinishAppDrop(d)
      PROVE  NamesInv'
  <2>. DEFINE id      == drops[d].app
              files   == Merge(drops[d].seen[id].files, drops[d].loaded)
              updated == [drops[d].seen EXCEPT ![id].files = files]
  <2>1. /\ drops[d].seen \in AppStates /\ drops[d].loaded \in FileMap
        /\ id \in Open(drops[d].seen)
    BY <1>2, DropType DEF FinishAppDrop
  <2>2. files \in FileMap /\ updated \in AppStates /\ id \in AppIds
    BY <2>1, OpenApp, MergeType DEF AppStates, App
  <2>3. SameButAnalysis(apps', updated)
    BY <1>1, <1>2, <2>2, AnalysedKeeps DEF FinishAppDrop
  <2>4. meta' = MetaOf(apps')
    BY <1>2, <2>3, SameSaved DEF FinishAppDrop
  <2>5. phase' = "ready"
    BY <1>1, <1>2 DEF FinishAppDrop, StartUpInv
  <2>. QED
    BY <2>4, <2>5, NamesReady
<1>3. ASSUME NEW d \in Drops, FinishExternalDrop(d)
      PROVE  NamesInv'
  <2>1. drops[d].seen \in AppStates /\ Good(extReg') \in GoodMap
    BY <1>1, <1>3, DropType, MergeType, GoodType DEF FinishExternalDrop
  <2>2. phase = "ready" /\ phase' = "ready" /\ meta' = meta
    BY <1>1, <1>3 DEF FinishExternalDrop, StartUpInv
  <2>3. HasFiles(apps') => meta' = MetaOf(apps')
    BY <1>1, <1>3, <2>1, <2>2, ReanalysedKeeps, SameSaved DEF FinishExternalDrop
  <2>. QED
    BY <2>2, <2>3, NamesReady
<1>4. CASE ParserLoads
  <2>1. queue' = Append(queue, [op |-> "read", meta |-> meta]) /\ queue = <<>>
    BY <1>1, <1>4 DEF ParserLoads, StartUpInv
  <2>2. queue'[1].meta = meta
    BY <2>1
  <2>3. apps' = apps /\ meta' = meta /\ phase' = "loading" /\ phase # "ready"
    BY <1>4 DEF ParserLoads, memory
  <2>. QED
    BY <2>2, <2>3 DEF NamesInv, NamesDurable
<1>5. CASE ParserFails
  BY <1>5 DEF ParserFails, NamesInv, NamesDurable, memory
<1>6. CASE RestoreSession
  <2>1. phase = "loading" /\ Head(queue) = queue[1]
    BY <1>1, <1>6 DEF RestoreSession, StartUpInv, TypeOK
  <2>2. Head(queue).meta = meta /\ meta' = meta /\ ~HasFiles(apps)
    BY <1>6, <2>1 DEF RestoreSession, NamesInv
  <2>3. CASE Restorable(meta, disk)
    <3>1. apps' = RestoredApps(meta, disk) /\ apps' \in AppStates
      BY <1>6, <2>2, <2>3, RestoredType DEF RestoreSession, TypeOK
    <3>2. \A i \in AppIds : meta[i] # NoApp => apps'[i] # NoApp
      BY <3>1, RestoredOpen DEF TypeOK
    <3>3. MetaOf(apps') = meta
      BY <3>1, <3>2 DEF MetaOf, RestoredApps, TypeOK, Meta
    <3>. QED
      BY <1>6, <2>2, <3>3, NamesReady DEF RestoreSession
  <2>4. CASE ~Restorable(meta, disk)
    BY <1>6, <2>2, <2>4, NamesReady DEF RestoreSession
  <2>. QED
    BY <2>3, <2>4
<1>7. CASE CommitWrite
  <2>1. phase = "ready" /\ phase' = phase /\ apps' = apps /\ meta' = meta
    BY <1>1, <1>7, CommitLast DEF CommitWrite, memory
  <2>. QED
    BY <1>1, <2>1, NamesReady
<1>8. ASSUME NEW id \in AppIds, Reload(id)
      PROVE  NamesInv'
  <2>1. ~HasFiles(apps') /\ phase' = "parser"
    BY <1>8 DEF Reload, FreshSession, NewApp, HasFiles, Open
  <2>. QED
    BY <2>1 DEF NamesInv, NamesDurable
<1>9. ASSUME NEW d \in Drops, ReadFails(d)
      PROVE  NamesInv'
  BY <1>9 DEF ReadFails, NamesInv, NamesDurable, memory
<1>. QED
  BY <1>2, <1>3, <1>4, <1>5, <1>6, <1>7, <1>8, <1>9 DEF SystemStep, Landing, StartUp

\* While any application holds a file, the stored list of applications is the
\* list on screen, whichever snapshots the landings of drops put there.
THEOREM NamesDurableCorrect == BusySpec => []NamesDurable
<1>1. Init => TypeOK /\ NamesInv
  <2>1. ASSUME Init
        PROVE  NamesInv
    BY <2>1, ExternalInit DEF Init, NamesInv, NamesDurable, FreshSession, NewApp, HasFiles, Open
  <2>. QED
    BY <2>1, TypeInit
<1>2. TypeOK /\ NamesInv /\ [BusyNext]_vars => (TypeOK /\ NamesInv)'
  <2>. SUFFICES ASSUME TypeOK, NamesInv, [BusyNext]_vars
                PROVE  (TypeOK /\ NamesInv)'
    OBVIOUS
  <2>1. TypeOK'
    BY TypeStep DEF BusyNext, Next
  <2>2. CASE phase = "ready" /\ UserStep
    <3>1. ExternalInv'
      BY <2>2, ExternalUser DEF NamesInv
    <3>. QED
      BY <2>1, <2>2, <3>1, NamesUser
  <2>3. CASE SystemStep
    <3>1. ExternalInv'
      BY <2>3, ExternalSystem DEF NamesInv
    <3>. QED
      BY <2>1, <2>3, <3>1, NamesSystem
  <2>4. CASE UNCHANGED vars
    BY <2>1, <2>4 DEF vars, memory, NamesInv, NamesDurable, ExternalInv, StartUpInv, LastImage, HasFiles
  <2>. QED
    BY <2>2, <2>3, <2>4 DEF BusyNext
<1>3. NamesInv => NamesDurable
  BY DEF NamesInv
<1>. QED
  BY <1>1, <1>2, <1>3, PTL DEF BusySpec

(***************************************************************************)
(* A patient user sees the analysis of the files on screen                 *)
(***************************************************************************)
\* What AnalysisCurrent says of one application, without the patterns, which
\* it does not compare.
Shows(shown, files, ext) ==
  IF HasSources(files)
  THEN /\ shown # NoAnalysis
       /\ shown.own = AnalysisInput(files, ext).own /\ shown.ext = AnalysisInput(files, ext).ext
  ELSE shown = NoAnalysis

AnalysisInv ==
  \A id \in Open(apps) :
    /\ phase = "ready" => Shows(apps[id].analysis, apps[id].files, Good(extReg))
    /\ phase # "ready" => apps[id].files = EmptyFiles /\ apps[id].analysis = NoAnalysis

\* A new analysis shows its files.
LEMMA OutcomeShows ==
  ASSUME TypeOK, NEW files \in FileMap, NEW ext \in GoodMap
  PROVE  /\ Outcome(files, ext) = NoAnalysis <=> ~HasSources(files)
         /\ Shows(Outcome(files, ext), files, ext)
<1>1. Outcome(files, ext) \in Analysis \cup {NoAnalysis}
  BY OutcomeType
<1>2. CASE HasSources(files)
  <2>1. Outcome(files, ext) = [own |-> AnalysisInput(files, ext).own,
                               ext |-> AnalysisInput(files, ext).ext, patterns |-> patterns]
    BY <1>2 DEF Outcome
  <2>2. /\ Good(files) \in GoodMap /\ patterns \in SUBSET Patterns
        /\ [n \in FileNames |-> IF files[n] = NoFile THEN ext[n] ELSE NoFile] \in GoodMap
    BY GoodType DEF TypeOK, GoodMap
  <2>3. Outcome(files, ext) \in Analysis
    BY <2>1, <2>2 DEF Analysis, AnalysisInput
  <2>. QED
    BY <1>2, <2>1, <2>3, SessionAssumption DEF Shows
<1>3. CASE ~HasSources(files)
  BY <1>3 DEF Outcome, Shows
<1>. QED
  BY <1>2, <1>3

\* Without files there is no analysis to show.
LEMMA EmptyShows == \A ext : Shows(NoAnalysis, EmptyFiles, ext)
BY SessionAssumption DEF Shows, HasSources, EmptyFiles

\* One application is analysed, and the others stay.
LEMMA AnalysedShows ==
  ASSUME TypeOK, ParserReady, NEW as \in AppStates, NEW id \in Open(as),
         NEW ext \in GoodMap, NEW bs, bs = Analysed(as, id, as[id].files, ext)
  PROVE  /\ bs[id].files = as[id].files /\ Shows(bs[id].analysis, bs[id].files, ext)
         /\ \A i \in AppIds \ {id} : bs[i] = as[i]
<1>1. id \in AppIds /\ as[id] \in App /\ as[id].files \in FileMap
  BY OpenApp
<1>2. bs = [as EXCEPT ![id].analysis = Outcome(as[id].files, ext)]
  BY DEF Analysed
<1>3. bs[id] = [as[id] EXCEPT !.analysis = Outcome(as[id].files, ext)] /\ \A i \in AppIds \ {id} : bs[i] = as[i]
  BY <1>1, <1>2 DEF AppStates
<1>4. bs[id].files = as[id].files /\ bs[id].analysis = Outcome(as[id].files, ext)
  BY <1>1, <1>3 DEF App
<1>. QED
  BY <1>1, <1>3, <1>4, OutcomeShows

\* All of them are.
LEMMA ReanalysedShows ==
  ASSUME TypeOK, ParserReady, NEW as \in AppStates, NEW ext \in GoodMap, NEW id \in Open(as)
  PROVE  LET bs == ReanalysedAll(as, as, ext)
         IN  bs[id].files = as[id].files /\ Shows(bs[id].analysis, bs[id].files, ext)
<1>. DEFINE bs == ReanalysedAll(as, as, ext)
<1>1. id \in AppIds /\ as[id] \in App /\ as[id].files \in FileMap
  BY OpenApp
<1>2. bs[id] = [as[id] EXCEPT !.analysis = Outcome(as[id].files, ext)]
  BY <1>1 DEF ReanalysedAll
<1>3. bs[id].files = as[id].files /\ bs[id].analysis = Outcome(as[id].files, ext)
  BY <1>1, <1>2 DEF App
<1>. QED
  BY <1>1, <1>3, OutcomeShows

\* A patient user's step.
LEMMA AnalysisUser ==
  ASSUME TypeOK, ExternalInv, AnalysisInv, Settled, UserStep
  PROVE  AnalysisInv'
<1>1. /\ apps \in AppStates /\ extReg \in FileMap /\ Good(extReg) \in GoodMap
      /\ phase = "ready" /\ ParserReady /\ externalFiles = Good(extReg)
      /\ \A id \in Open(apps) : Shows(apps[id].analysis, apps[id].files, Good(extReg))
  BY GoodType DEF TypeOK, Settled, ParserReady, AnalysisInv, ExternalInv
<1>2. phase' = "ready"
  BY <1>1 DEF UserStep, AddApp, RemoveApp, ClearApp, ClearSession, RenameApp, RemoveAppFile, DropAppFiles,
     DropExternal, RemoveExternal, ClearExternal, EditPatterns, Reanalyze
<1>3. ASSUME NEW id \in AppIds, AddApp(id)
      PROVE  AnalysisInv'
  <2>1. apps'[id] = NewApp /\ (\A i \in AppIds \ {id} : apps'[i] = apps[i]) /\ extReg' = extReg
    BY <1>1, <1>3 DEF AddApp, AppStates
  <2>2. NewApp.analysis = NoAnalysis /\ NewApp.files = EmptyFiles
    BY DEF NewApp
  <2>. QED
    BY <1>1, <1>2, <2>1, <2>2, EmptyShows DEF AnalysisInv, Open
<1>4. ASSUME NEW id \in AppIds, RemoveApp(id)
      PROVE  AnalysisInv'
  BY <1>1, <1>2, <1>4 DEF RemoveApp, AppStates, AnalysisInv, Open
<1>5. ASSUME NEW id \in AppIds, ClearApp(id)
      PROVE  AnalysisInv'
  <2>1. apps[id] \in App
    BY <1>1, <1>5, OpenApp DEF ClearApp
  <2>2. /\ apps'[id].files = EmptyFiles /\ apps'[id].analysis = NoAnalysis
        /\ (\A i \in AppIds \ {id} : apps'[i] = apps[i]) /\ extReg' = extReg
    BY <1>1, <1>5, <2>1 DEF ClearApp, AppStates, App
  <2>. QED
    BY <1>1, <1>2, <2>2, EmptyShows DEF AnalysisInv, Open
<1>6. ASSUME NEW id \in AppIds, NEW name \in Names, RenameApp(id, name)
      PROVE  AnalysisInv'
  <2>1. apps[id] \in App /\ id \in Open(apps)
    BY <1>1, <1>6, OpenApp DEF RenameApp
  <2>2. /\ apps'[id].files = apps[id].files /\ apps'[id].analysis = apps[id].analysis
        /\ (\A i \in AppIds \ {id} : apps'[i] = apps[i]) /\ extReg' = extReg
    BY <1>1, <1>6, <2>1 DEF RenameApp, AppStates, App
  <2>. QED
    BY <1>1, <1>2, <2>1, <2>2 DEF AnalysisInv, Open
<1>7. ASSUME NEW id \in AppIds, NEW n \in FileNames, RemoveAppFile(id, n)
      PROVE  AnalysisInv'
  <2>. DEFINE files   == Without(apps[id].files, n)
              updated == [apps EXCEPT ![id].files = files]
  <2>1. files \in FileMap /\ apps[id] \in App
    BY <1>1, <1>7, OpenApp, WithoutType DEF RemoveAppFile
  <2>2. /\ updated \in AppStates /\ updated[id] \in App /\ updated[id].files = files
        /\ \A i \in AppIds \ {id} : updated[i] = apps[i]
    BY <1>1, <2>1 DEF App, AppStates
  <2>3. id \in Open(updated) /\ apps' = Analysed(updated, id, updated[id].files, Good(extReg)) /\ extReg' = extReg
    BY <1>7, <2>2, SessionAssumption DEF RemoveAppFile, Open
  <2>. HIDE DEF files, updated
  <2>4. /\ Shows(apps'[id].analysis, apps'[id].files, Good(extReg))
        /\ \A i \in AppIds \ {id} : apps'[i] = updated[i]
    BY <1>1, <2>2, <2>3, AnalysedShows
  <2>. QED
    BY <1>1, <1>2, <2>2, <2>3, <2>4 DEF AnalysisInv, Open
<1>8. ASSUME NEW id \in AppIds, ClearSession(id)
      PROVE  AnalysisInv'
  BY <1>2, <1>8, EmptyShows DEF ClearSession, FreshSession, NewApp, AnalysisInv, Open
<1>9. ASSUME NEW ext \in GoodMap, apps' = ReanalysedAll(apps, apps, ext), Good(extReg') = ext
      PROVE  AnalysisInv'
  <2>1. Open(apps') = Open(apps)
    BY <1>1, <1>9, SameOpen
  <2>. QED
    BY <1>1, <1>2, <1>9, <2>1, ReanalysedShows DEF AnalysisInv
<1>10. ASSUME NEW n \in FileNames, RemoveExternal(n)
       PROVE  AnalysisInv'
  <2>1. Good(extReg') \in GoodMap
    BY <1>1, <1>10, WithoutType, GoodType DEF RemoveExternal
  <2>. QED
    BY <1>9, <1>10, <2>1 DEF RemoveExternal
<1>11. CASE ClearExternal
  <2>1. Good(EmptyFiles) = EmptyFiles
    BY SessionAssumption DEF Good, EmptyFiles
  <2>. QED
    BY <1>9, <1>11, <2>1, EmptyFilesType DEF ClearExternal
<1>12. CASE Reanalyze
  BY <1>1, <1>9, <1>12 DEF Reanalyze
<1>13. CASE UNCHANGED <<apps, extReg>>
  BY <1>1, <1>2, <1>13 DEF AnalysisInv
<1>. QED
  BY <1>3, <1>4, <1>5, <1>6, <1>7, <1>8, <1>10, <1>11, <1>12, <1>13
  DEF UserStep, DropAppFiles, DropExternal, EditPatterns, memory

\* The landing of the only drop, start-up, commits and reloads.
LEMMA AnalysisSystem ==
  ASSUME TypeOK, PatientInv, AnalysisInv, SystemStep
  PROVE  AnalysisInv'
<1>1. /\ apps \in AppStates /\ extReg \in FileMap /\ Good(extReg) \in GoodMap /\ StartUpInv
  BY GoodType DEF TypeOK, PatientInv, ExternalInv
<1>2. ASSUME NEW d \in Drops, drops[d] # NoDrop
      PROVE  phase = "ready" /\ ParserReady /\ drops[d].seen = apps
  BY <1>1, <1>2 DEF StartUpInv, ParserReady, PatientInv
<1>3. ASSUME NEW d \in Drops, FinishAppDrop(d)
      PROVE  AnalysisInv'
  <2>. DEFINE id      == drops[d].app
              files   == Merge(apps[id].files, drops[d].loaded)
              updated == [apps EXCEPT ![id].files = files]
  <2>1. /\ phase = "ready" /\ phase' = "ready" /\ ParserReady /\ drops[d].seen = apps
        /\ drops[d].loaded \in FileMap /\ id \in Open(apps)
    BY <1>2, <1>3, DropType DEF FinishAppDrop
  <2>2. files \in FileMap /\ apps[id] \in App /\ id \in AppIds
    BY <1>1, <2>1, OpenApp, MergeType
  <2>3. /\ updated \in AppStates /\ updated[id] \in App /\ updated[id].files = files
        /\ \A i \in AppIds \ {id} : updated[i] = apps[i]
    BY <1>1, <2>2 DEF App, AppStates
  <2>4. id \in Open(updated) /\ apps' = Analysed(updated, id, updated[id].files, Good(extReg)) /\ extReg' = extReg
    BY <1>3, <2>1, <2>2, <2>3, SessionAssumption DEF FinishAppDrop, Open
  <2>. HIDE DEF files, updated, id
  <2>5. /\ Shows(apps'[id].analysis, apps'[id].files, Good(extReg))
        /\ \A i \in AppIds \ {id} : apps'[i] = updated[i]
    BY <1>1, <2>1, <2>3, <2>4, AnalysedShows
  <2>. QED
    BY <2>1, <2>3, <2>4, <2>5 DEF AnalysisInv, Open
<1>4. ASSUME NEW d \in Drops, FinishExternalDrop(d)
      PROVE  AnalysisInv'
  <2>1. phase = "ready" /\ phase' = "ready" /\ ParserReady /\ drops[d].seen = apps
    BY <1>2, <1>4 DEF FinishExternalDrop
  <2>2. Good(extReg') \in GoodMap /\ apps' = ReanalysedAll(apps, apps, Good(extReg'))
    BY <1>1, <1>4, <2>1, DropType, MergeType, GoodType DEF FinishExternalDrop
  <2>3. Open(apps') = Open(apps)
    BY <1>1, <2>2, SameOpen
  <2>. QED
    BY <1>1, <2>1, <2>2, <2>3, ReanalysedShows DEF AnalysisInv
<1>5. CASE RestoreSession
  <2>1. phase = "loading" /\ phase' = "ready" /\ Head(queue).meta = meta
    BY <1>1, <1>5 DEF RestoreSession, StartUpInv, TypeOK, PatientInv
  <2>2. /\ disk \in Image /\ disk.ext \in GoodMap /\ meta \in Meta /\ extReg = EmptyFiles
        /\ \A i \in AppIds : disk.apps[i] \in FileMap
    BY <1>1, <2>1 DEF StartUpInv, TypeOK, Image
  <2>3. Good(extReg') = disk.ext
    <3>1. Merge(EmptyFiles, disk.ext) = disk.ext /\ Good(disk.ext) = disk.ext
      BY <2>2, SessionAssumption DEF Merge, Good, EmptyFiles, GoodMap
    <3>. QED
      BY <1>5, <2>2, <3>1 DEF RestoreSession
  <2>4. CASE Restorable(meta, disk)
    <3>1. apps' = RestoredApps(meta, disk)
      BY <1>5, <2>1, <2>4 DEF RestoreSession
    <3>2. \A i \in Open(apps') : /\ apps'[i].files = disk.apps[i] /\ i \in AppIds
                                 /\ apps'[i].analysis = Outcome(disk.apps[i], disk.ext)
      BY <3>1 DEF RestoredApps, Open
    <3>3. \A i \in AppIds : Shows(Outcome(disk.apps[i], disk.ext), disk.apps[i], disk.ext)
      BY <2>2, OutcomeShows
    <3>. QED
      BY <2>1, <2>3, <3>2, <3>3 DEF AnalysisInv
  <2>5. CASE ~Restorable(meta, disk)
    BY <1>5, <2>1, <2>3, <2>5, EmptyShows DEF RestoreSession, AnalysisInv
  <2>. QED
    BY <2>4, <2>5
<1>6. ASSUME NEW id \in AppIds, Reload(id)
      PROVE  AnalysisInv'
  BY <1>6 DEF Reload, FreshSession, NewApp, AnalysisInv, Open
<1>7. CASE ParserLoads \/ ParserFails \/ CommitWrite \/ \E d \in Drops : ReadFails(d)
  BY <1>7 DEF ParserLoads, ParserFails, CommitWrite, ReadFails, AnalysisInv, memory
<1>. QED
  BY <1>3, <1>4, <1>5, <1>6, <1>7 DEF SystemStep, Landing, StartUp

\* The invariant of both theorems that follow.
LEMMA AnalysisInvariant == PatientSpec => []AnalysisInv
<1>1. Init => AnalysisInv
  BY DEF Init, FreshSession, NewApp, AnalysisInv, Open
<1>2. (TypeOK /\ PatientInv) /\ AnalysisInv /\ [PatientNext]_vars => AnalysisInv'
  <2>. SUFFICES ASSUME TypeOK, PatientInv, AnalysisInv, [PatientNext]_vars
                PROVE  AnalysisInv'
    OBVIOUS
  <2>1. CASE Settled /\ UserStep
    BY <2>1, AnalysisUser DEF PatientInv
  <2>2. CASE SystemStep
    BY <2>2, AnalysisSystem
  <2>3. CASE UNCHANGED vars
    BY <2>3 DEF vars, memory, AnalysisInv
  <2>. QED
    BY <2>1, <2>2, <2>3 DEF PatientNext
<1>. QED
  BY <1>1, <1>2, PatientInvariant, PTL DEF PatientSpec

\* For a user who waits for one operation before the next, the analysis on
\* screen is that of the files on screen, whichever file of either zone was
\* last added, removed, restored or cleared.
THEOREM AnalysisCurrentCorrect == PatientSpec => []AnalysisCurrent
<1>1. TypeOK /\ AnalysisInv => AnalysisCurrent
  <2>. SUFFICES ASSUME TypeOK, AnalysisInv, phase = "ready", NEW id \in Open(apps)
                PROVE  LET now   == Outcome(apps[id].files, Good(extReg))
                           shown == apps[id].analysis
                       IN  IF now = NoAnalysis THEN shown = NoAnalysis
                           ELSE shown # NoAnalysis /\ shown.own = now.own /\ shown.ext = now.ext
    BY DEF AnalysisCurrent
  <2>1. apps[id].files \in FileMap /\ Good(extReg) \in GoodMap
    BY OpenApp, GoodType DEF TypeOK
  <2>. DEFINE now == Outcome(apps[id].files, Good(extReg))
  <2>2. (now = NoAnalysis <=> ~HasSources(apps[id].files)) /\ Shows(now, apps[id].files, Good(extReg))
    BY <2>1, OutcomeShows
  <2>3. Shows(apps[id].analysis, apps[id].files, Good(extReg))
    BY DEF AnalysisInv
  <2>. QED
    BY <2>2, <2>3 DEF Shows
<1>. QED
  BY <1>1, AnalysisInvariant, PatientInvariant, PTL

\* An analysis of the same files made anew differs in its patterns only.
LEMMA ShownAgain ==
  ASSUME TypeOK, NEW files \in FileMap, NEW ext \in GoodMap,
         NEW shown \in Analysis \cup {NoAnalysis}, Shows(shown, files, ext)
  PROVE  Outcome(files, ext) = Refreshed(shown)
<1>1. CASE HasSources(files)
  <2>1. /\ shown \in Analysis /\ shown # NoAnalysis
        /\ shown.own = AnalysisInput(files, ext).own /\ shown.ext = AnalysisInput(files, ext).ext
    BY <1>1 DEF Shows
  <2>2. Refreshed(shown) = [own |-> shown.own, ext |-> shown.ext, patterns |-> patterns]
    BY <2>1 DEF Refreshed, Analysis
  <2>. QED
    BY <1>1, <2>1, <2>2 DEF Outcome
<1>2. CASE ~HasSources(files)
  BY <1>2 DEF Shows, Outcome, Refreshed
<1>. QED
  BY <1>1, <1>2

\* For a user who waits for one operation before the next, closing the tab
\* when the writes are done and opening it again gives back the same
\* applications, names, files and headers, and analyses that differ at most in
\* the patterns edited since, after any number of crashes.
THEOREM SessionRoundTrip == PatientSpec => []RoundTrip
<1>1. TypeOK /\ PatientInv /\ AnalysisInv => RoundTrip
  <2>. SUFFICES ASSUME TypeOK, PatientInv, AnalysisInv, phase = "ready", queue = <<>>, HasFiles(apps)
                PROVE  /\ Restorable(meta, disk)
                       /\ Open(meta) = Open(apps)
                       /\ \A id \in Open(apps) :
                            /\ RestoredApps(meta, disk)[id].name = apps[id].name
                            /\ RestoredApps(meta, disk)[id].files = apps[id].files
                            /\ RestoredApps(meta, disk)[id].analysis = Refreshed(apps[id].analysis)
                       /\ disk.ext = externalFiles
    BY DEF RoundTrip
  <2>1. /\ meta = MetaOf(apps) /\ disk.ext = externalFiles /\ externalFiles = Good(extReg)
        /\ \A id \in Open(apps) : disk.apps[id] = apps[id].files
    BY DEF PatientInv, ExternalInv, LastImage
  <2>2. ASSUME NEW id \in Open(apps)
        PROVE  meta[id] # NoApp /\ meta[id] = apps[id].name
    <3>1. apps[id] \in App /\ apps[id] # NoApp
      BY OpenApp DEF Open, TypeOK
    <3>. QED
      BY <2>1, <3>1, SessionAssumption DEF MetaOf, Open, App
  <2>3. Open(meta) = Open(apps)
    BY <2>1, <2>2 DEF MetaOf, Open
  <2>4. PICK id \in Open(apps) : apps[id].files # EmptyFiles
    BY DEF HasFiles
  <2>5. Restorable(meta, disk)
    BY <2>1, <2>3, <2>4 DEF Restorable, Open
  <2>6. ASSUME NEW i \in Open(apps)
        PROVE  Outcome(disk.apps[i], disk.ext) = Refreshed(apps[i].analysis)
    <3>1. apps[i].files \in FileMap /\ apps[i].analysis \in Analysis \cup {NoAnalysis}
      BY OpenApp DEF TypeOK, App
    <3>2. disk.ext \in GoodMap /\ disk.ext = Good(extReg)
      BY <2>1 DEF TypeOK
    <3>3. Shows(apps[i].analysis, apps[i].files, disk.ext)
      BY <3>2 DEF AnalysisInv
    <3>. QED
      BY <2>1, <3>1, <3>2, <3>3, ShownAgain
  <2>. QED
    BY <2>1, <2>2, <2>3, <2>5, <2>6 DEF RestoredApps, Open
<1>. QED
  BY <1>1, AnalysisInvariant, PatientInvariant, PTL

\* For such a user the files of a drop are added to what is on screen: no
\* application and no file goes when they arrive.
THEOREM DropsAreAdditiveCorrect == PatientSpec => DropsAreAdditive
<1>1. (TypeOK /\ PatientInv) /\ [PatientNext]_vars => [Landing => Additive]_vars
  <2>. SUFFICES ASSUME TypeOK, PatientInv, Landing
                PROVE  Additive
    OBVIOUS
  <2>1. /\ apps \in AppStates /\ extReg \in FileMap /\ Good(extReg) \in GoodMap
    BY GoodType DEF TypeOK
  <2>2. ASSUME NEW d \in Drops, FinishAppDrop(d)
        PROVE  Additive
    <3>. DEFINE id      == drops[d].app
                files   == Merge(apps[id].files, drops[d].loaded)
                updated == [apps EXCEPT ![id].files = files]
    <3>1. drops[d].seen = apps /\ drops[d].loaded \in FileMap /\ id \in Open(apps)
      BY <2>2, DropType DEF FinishAppDrop, PatientInv
    <3>2. files \in FileMap /\ apps[id] \in App /\ id \in AppIds
      BY <2>1, <3>1, OpenApp, MergeType
    <3>3. /\ updated \in AppStates /\ updated[id] \in App /\ updated[id].files = files
          /\ \A i \in AppIds \ {id} : updated[i] = apps[i]
      BY <2>1, <3>2 DEF App, AppStates
    <3>4. SameButAnalysis(apps', updated)
      BY <2>1, <2>2, <3>1, <3>2, <3>3, AnalysedKeeps DEF FinishAppDrop
    <3>5. \A n \in FileNames : apps[id].files[n] # NoFile => files[n] # NoFile
      BY DEF Merge
    <3>. HIDE DEF files, updated
    <3>. QED
      BY <3>2, <3>3, <3>4, <3>5, SessionAssumption DEF Additive, SameButAnalysis, Open
  <2>3. ASSUME NEW d \in Drops, FinishExternalDrop(d)
        PROVE  Additive
    <3>1. drops[d].seen \in AppStates /\ Good(extReg') \in GoodMap
      BY <2>1, <2>3, DropType, MergeType, GoodType DEF FinishExternalDrop
    <3>2. SameButAnalysis(apps', apps)
      BY <2>1, <2>3, <3>1, ReanalysedKeeps DEF FinishExternalDrop
    <3>. QED
      BY <3>2 DEF Additive, SameButAnalysis
  <2>. QED
    BY <2>2, <2>3 DEF Landing
<1>. QED
  BY <1>1, PatientInvariant, PTL DEF PatientSpec, DropsAreAdditive

(***************************************************************************)
(* A patient user's session is a write-behind store                        *)
(***************************************************************************)
\* The versions a queue of writes will persist, oldest first.
Versions(q) == [i \in DOMAIN q |-> Version(q[i].image)]

\* Lists that differ in analysis only have the same image.
LEMMA SameImage ==
  ASSUME NEW as, NEW bs, NEW ext, SameButAnalysis(as, bs)
  PROVE  ImageOf(as, ext) = ImageOf(bs, ext)
<1>1. \A i \in AppIds : (as[i] = NoApp <=> bs[i] = NoApp)
                        /\ (as[i] # NoApp => as[i].files = bs[i].files)
  BY DEF SameButAnalysis, Open
<1>. QED
  BY <1>1 DEF ImageOf

\* An image of the object store is a version of the abstract one.
LEMMA VersionType ==
  ASSUME NEW image \in Image
  PROVE  Version(image) \in [AppIds \cup {"ext"} -> FileMap]
BY GoodIsFileMap DEF Version, Image

\* Once the session is restored, what the user sees is what would be saved.
LEMMA ReadyLive ==
  /\ phase = "ready" => Live = Version(ImageOf(apps, externalFiles))
  /\ phase' = "ready" => Live' = Version(ImageOf(apps', externalFiles'))
<1>1. ASSUME phase = "ready"
      PROVE  Live = Version(ImageOf(apps, externalFiles))
  BY <1>1 DEF Live, Version, ImageOf
<1>2. ASSUME phase' = "ready"
      PROVE  Live' = Version(ImageOf(apps', externalFiles'))
  BY <1>2 DEF Live, Version, ImageOf
<1>. QED
  BY <1>1, <1>2

\* A queue of writes is the backlog.
LEMMA ReadyBacklog ==
  /\ (\A i \in DOMAIN queue : queue[i].op = "write") /\ queue \in Seq(Request)
       => Backlog = Versions(queue)
  /\ (\A i \in DOMAIN queue' : queue'[i].op = "write") /\ queue' \in Seq(Request)
       => Backlog' = Versions(queue')
<1>1. ASSUME NEW q \in Seq(Request), \A i \in DOMAIN q : q[i].op = "write"
      PROVE  ~(q # <<>> /\ Head(q).op = "read")
  <2>. SUFFICES ASSUME q # <<>> PROVE Head(q).op = "write"
    OBVIOUS
  <2>1. 1 \in DOMAIN q /\ Head(q) = q[1]
    OBVIOUS
  <2>. QED
    BY <1>1, <2>1
<1>2. ASSUME \A i \in DOMAIN queue : queue[i].op = "write", queue \in Seq(Request)
      PROVE  Backlog = Versions(queue)
  BY <1>1, <1>2 DEF Backlog, Versions
<1>3. ASSUME \A i \in DOMAIN queue' : queue'[i].op = "write", queue' \in Seq(Request)
      PROVE  Backlog' = Versions(queue')
  BY <1>1, <1>3 DEF Backlog, Versions
<1>. QED
  BY <1>2, <1>3

\* A save puts what the user sees now behind the versions that wait.
LEMMA SaveIsEdit ==
  ASSUME TypeOK, StartUpInv, phase = "ready", UNCHANGED <<phase, disk>>, TypeOK',
         NEW as \in AppStates, SaveSession(as, externalFiles'),
         ImageOf(apps', externalFiles') = ImageOf(as, externalFiles')
  PROVE  Store!Edit
<1>. DEFINE r == [op |-> "write", image |-> ImageOf(as, externalFiles')]
<1>1. Live' = Version(ImageOf(as, externalFiles'))
  BY ReadyLive
<1>2. Live' \in [AppIds \cup {"ext"} -> FileMap]
  BY <1>1, VersionType, ImageType DEF TypeOK
<1>3. queue' = Append(queue, r) /\ queue \in Seq(Request)
  BY DEF SaveSession, TypeOK
<1>4. /\ DOMAIN queue = 1..Len(queue) /\ DOMAIN queue' = 1..(Len(queue) + 1)
      /\ Len(queue) \in Nat /\ queue'[Len(queue) + 1] = r
      /\ \A i \in 1..Len(queue) : queue'[i] = queue[i]
  BY <1>3
<1>5. Backlog = Versions(queue) /\ Backlog' = Versions(queue')
  <2>1. \A i \in DOMAIN queue' : queue'[i].op = "write"
    BY SaveLast
  <2>. QED
    BY <2>1, ReadyBacklog DEF StartUpInv, TypeOK
<1>6. Versions(queue') = Append(Versions(queue), Version(r.image))
  <2>1. /\ Versions(queue) = [i \in 1..Len(queue) |-> Version(queue[i].image)]
        /\ Versions(queue') = [i \in 1..(Len(queue) + 1) |-> Version(queue'[i].image)]
    BY <1>4 DEF Versions
  <2>. HIDE DEF r
  <2>. QED
    BY <1>4, <2>1
<1>. QED
  BY <1>1, <1>2, <1>5, <1>6 DEF Store!Edit

\* A step that saves nothing and leaves the same files on screen is invisible.
LEMMA SameFilesIsStutter ==
  ASSUME phase = "ready", UNCHANGED <<phase, externalFiles, disk, queue>>,
         ImageOf(apps', externalFiles) = ImageOf(apps, externalFiles)
  PROVE  UNCHANGED Store!vars
<1>1. Live' = Live
  BY ReadyLive
<1>2. Backlog' = Backlog
  BY DEF Backlog
<1>. QED
  BY <1>1, <1>2 DEF Store!vars

\* What a patient user does to the applications is an edit, or invisible.
LEMMA AppStepsImplement ==
  ASSUME TypeOK, PatientInv, TypeOK', phase = "ready", NEW id \in AppIds,
         \/ AddApp(id)
         \/ RemoveApp(id)
         \/ ClearApp(id)
         \/ \E name \in Names : RenameApp(id, name)
         \/ \E n \in FileNames : RemoveAppFile(id, n)
  PROVE  [Store!Next]_(Store!vars)
<1>1. /\ StartUpInv /\ externalFiles = Good(extReg)
      /\ apps \in AppStates /\ apps' \in AppStates
  BY DEF PatientInv, ExternalInv, TypeOK
<1>2. CASE AddApp(id)
  <2>1. apps[id] = NoApp /\ apps'[id] = NewApp /\ \A i \in AppIds \ {id} : apps'[i] = apps[i]
    BY <1>1, <1>2 DEF AddApp, Known, Open, AppStates
  <2>2. NewApp # NoApp /\ NewApp.files = EmptyFiles
    BY FreshType, SessionAssumption DEF NewApp
  <2>3. ImageOf(apps', externalFiles) = ImageOf(apps, externalFiles)
    BY <2>1, <2>2 DEF ImageOf
  <2>. QED
    BY <1>2, <2>3, SameFilesIsStutter DEF AddApp
<1>3. CASE RemoveApp(id) \/ ClearApp(id)
  BY <1>1, <1>3, SaveIsEdit DEF RemoveApp, ClearApp, Store!Next
<1>4. ASSUME NEW name \in Names, RenameApp(id, name)
      PROVE  UNCHANGED Store!vars
  <2>1. apps[id] \in App /\ apps'[id] = [apps[id] EXCEPT !.name = name]
    BY <1>1, <1>4, OpenApp DEF RenameApp, AppStates
  <2>2. apps'[id] \in App /\ apps'[id].files = apps[id].files
    BY <2>1 DEF App
  <2>3. \A i \in AppIds \ {id} : apps'[i] = apps[i]
    BY <1>1, <1>4 DEF RenameApp, AppStates
  <2>4. ImageOf(apps', externalFiles) = ImageOf(apps, externalFiles)
    BY <2>1, <2>2, <2>3, SessionAssumption DEF ImageOf
  <2>. QED
    BY <1>4, <2>4, SameFilesIsStutter DEF RenameApp
<1>5. ASSUME NEW n \in FileNames, RemoveAppFile(id, n)
      PROVE  Store!Edit
  <2>. DEFINE files   == Without(apps[id].files, n)
              updated == [apps EXCEPT ![id].files = files]
              ext     == Good(extReg)
  <2>1. apps[id] \in App /\ files \in FileMap /\ ext \in GoodMap
    BY <1>1, <1>5, OpenApp, WithoutType, GoodType DEF RemoveAppFile, TypeOK
  <2>2. updated \in AppStates
    BY <1>1, <2>1 DEF App, AppStates
  <2>3. /\ apps' = Analysed(updated, id, files, ext) /\ SaveSession(updated, ext)
        /\ ext = externalFiles' /\ UNCHANGED <<phase, disk>>
    BY <1>1, <1>5 DEF RemoveAppFile
  <2>. HIDE DEF files, updated, ext
  <2>4. ImageOf(apps', ext) = ImageOf(updated, ext)
    BY <2>1, <2>2, <2>3, AnalysedKeeps, SameImage
  <2>. QED
    BY <1>1, <2>2, <2>3, <2>4, SaveIsEdit
<1>. QED
  BY <1>2, <1>3, <1>4, <1>5 DEF Store!Next

\* So is everything else such a user does.
LEMMA OtherStepsImplement ==
  ASSUME TypeOK, PatientInv, TypeOK', phase = "ready",
         \/ \E d \in Drops, id \in AppIds, loaded \in AppLoads : DropAppFiles(d, id, loaded)
         \/ \E d \in Drops, loaded \in ExtLoads : DropExternal(d, loaded)
         \/ \E n \in FileNames : RemoveExternal(n)
         \/ ClearExternal
         \/ \E id \in AppIds : ClearSession(id)
         \/ \E edited \in SUBSET Patterns : EditPatterns(edited)
         \/ Reanalyze
  PROVE  [Store!Next]_(Store!vars)
<1>1. StartUpInv /\ apps \in AppStates /\ externalFiles \in GoodMap /\ externalFiles' \in GoodMap
  BY DEF PatientInv, ExternalInv, TypeOK
<1>2. CASE UNCHANGED <<phase, apps, externalFiles, disk, queue>>
  BY <1>2, SameFilesIsStutter
<1>3. ASSUME NEW ext \in GoodMap, apps' = ReanalysedAll(apps, apps, ext),
             externalFiles' = ext, SaveSession(apps, ext), UNCHANGED <<phase, disk>>
      PROVE  Store!Edit
  BY <1>1, <1>3, ReanalysedKeeps, SameImage, SaveIsEdit
<1>4. ASSUME NEW n \in FileNames, RemoveExternal(n)
      PROVE  Store!Edit
  BY <1>1, <1>3, <1>4 DEF RemoveExternal
<1>5. CASE ClearExternal
  <2>1. /\ apps' = ReanalysedAll(apps, apps, EmptyFiles) /\ externalFiles' = EmptyFiles
        /\ SaveSession(apps, EmptyFiles) /\ UNCHANGED <<phase, disk>>
    BY <1>5 DEF ClearExternal
  <2>2. Store!Edit
    BY <1>3, <2>1, EmptyFilesType
  <2>. QED
    BY <2>2 DEF Store!Next
<1>6. ASSUME NEW id \in AppIds, ClearSession(id)
      PROVE  Store!Edit
  <2>1. /\ apps' = FreshSession(id) /\ externalFiles' = EmptyFiles /\ UNCHANGED <<phase, disk>>
        /\ Len(queue) < MaxQueue
        /\ queue' = Append(queue, [op |-> "write", image |-> EmptyImage])
    BY <1>6 DEF ClearSession
  <2>2. ImageOf(FreshSession(id), EmptyFiles) = EmptyImage
    BY FreshType, SessionAssumption DEF ImageOf, FreshSession, NewApp, EmptyImage
  <2>3. SaveSession(FreshSession(id), EmptyFiles)
    BY <2>1, <2>2 DEF SaveSession
  <2>. QED
    BY <1>1, <2>1, <2>3, FreshType, SaveIsEdit
<1>7. CASE Reanalyze
  <2>1. ImageOf(apps', externalFiles) = ImageOf(apps, externalFiles)
    BY <1>1, <1>7, ReanalysedKeeps, SameImage DEF Reanalyze
  <2>. QED
    BY <1>7, <2>1, SameFilesIsStutter DEF Reanalyze
<1>. QED
  BY <1>2, <1>4, <1>5, <1>6, <1>7 DEF DropAppFiles, DropExternal, EditPatterns, memory, Store!Next

\* A drop that lands is one edit: of the application, or of the headers.
LEMMA LandingImplements ==
  ASSUME TypeOK, PatientInv, TypeOK', Landing
  PROVE  Store!Edit
<1>1. StartUpInv /\ apps \in AppStates /\ Good(extReg) \in GoodMap /\ externalFiles' \in GoodMap
  BY GoodType DEF PatientInv, ExternalInv, TypeOK
<1>2. ASSUME NEW d \in Drops, drops[d] # NoDrop
      PROVE  phase = "ready" /\ drops[d].seen = apps /\ externalFiles = Good(extReg)
  BY <1>1, <1>2 DEF PatientInv, ExternalInv, StartUpInv, TypeOK
<1>3. ASSUME NEW d \in Drops, FinishAppDrop(d)
      PROVE  Store!Edit
  <2>. DEFINE id      == drops[d].app
              files   == Merge(apps[id].files, drops[d].loaded)
              updated == [apps EXCEPT ![id].files = files]
              ext     == Good(extReg)
  <2>1. /\ phase = "ready" /\ drops[d].seen = apps /\ drops[d].loaded \in FileMap
        /\ id \in Open(apps)
    BY <1>2, <1>3, DropType DEF FinishAppDrop
  <2>2. files \in FileMap /\ updated \in AppStates /\ id \in AppIds
    BY <2>1, <1>1, OpenApp, MergeType DEF AppStates, App
  <2>3. /\ apps' = Analysed(updated, id, files, ext) /\ SaveSession(updated, ext)
        /\ ext = externalFiles' /\ UNCHANGED <<phase, disk>>
    BY <1>2, <1>3, <2>1 DEF FinishAppDrop
  <2>. HIDE DEF files, updated, ext
  <2>4. ImageOf(apps', externalFiles') = ImageOf(updated, externalFiles')
    BY <1>1, <2>2, <2>3, AnalysedKeeps, SameImage
  <2>. QED
    BY <1>1, <2>1, <2>2, <2>3, <2>4, SaveIsEdit
<1>4. ASSUME NEW d \in Drops, FinishExternalDrop(d)
      PROVE  Store!Edit
  <2>1. phase = "ready" /\ drops[d].seen = apps
    BY <1>2, <1>4 DEF FinishExternalDrop
  <2>2. /\ apps' = ReanalysedAll(apps, apps, externalFiles') /\ SaveSession(apps, externalFiles')
        /\ UNCHANGED <<phase, disk>>
    BY <1>4, <2>1 DEF FinishExternalDrop
  <2>. QED
    BY <1>1, <2>1, <2>2, ReanalysedKeeps, SameImage, SaveIsEdit
<1>. QED
  BY <1>3, <1>4 DEF Landing

\* Start-up, commits and reloads: restoring shows what the store would give
\* back, a commit persists the oldest version, a reload is a crash.
LEMMA SystemImplements ==
  ASSUME TypeOK, PatientInv, TypeOK',
         \/ StartUp \/ CommitWrite
         \/ \E d \in Drops : ReadFails(d)
         \/ \E id \in AppIds : Reload(id)
  PROVE  [Store!Next]_(Store!vars)
<1>1. StartUpInv /\ queue \in Seq(Request) /\ apps \in AppStates
  BY DEF PatientInv, ExternalInv, TypeOK
<1>2. Backlog = <<>> \/ phase = "ready"
  BY <1>1 DEF StartUpInv, Backlog, TypeOK
<1>3. CASE ParserLoads
  <2>. DEFINE r == [op |-> "read", meta |-> meta]
  <2>1. queue = <<>> /\ queue' = Append(queue, r) /\ r.op = "read"
    BY <1>1, <1>3 DEF ParserLoads, StartUpInv
  <2>. HIDE DEF r
  <2>2. queue' = <<r>> /\ Head(queue') = r /\ queue' # <<>>
    BY <2>1
  <2>3. Backlog' = <<>> /\ Backlog = <<>>
    BY <1>2, <1>3, <2>1, <2>2 DEF ParserLoads, Backlog
  <2>. QED
    BY <1>3, <2>3 DEF ParserLoads, memory, Live, Store!vars
<1>4. CASE ParserFails
  BY <1>4 DEF ParserFails, memory, Live, Backlog, Store!vars
<1>5. CASE RestoreSession
  <2>1. /\ phase = "loading" /\ Head(queue) = queue[1] /\ queue[1].meta = meta
        /\ Len(queue) = 1 /\ queue' = <<>>
    BY <1>1, <1>5 DEF RestoreSession, StartUpInv, PatientInv, TypeOK
  <2>2. Backlog' = <<>> /\ Backlog = <<>>
    BY <1>2, <2>1 DEF Backlog
  <2>3. Live' = Version(ImageOf(apps', disk.ext))
    BY <1>5, ReadyLive DEF RestoreSession
  <2>4. CASE Restorable(meta, disk)
    <3>1. apps' = RestoredApps(meta, disk)
      BY <1>5, <2>1, <2>4 DEF RestoreSession
    <3>2. \A i \in AppIds : /\ i \in Open(meta) <=> apps'[i] # NoApp
                            /\ apps'[i] # NoApp => apps'[i].files = disk.apps[i]
      BY <3>1, RestoredOpen DEF TypeOK, Open, RestoredApps
    <3>3. Live = Version(ImageOf(apps', disk.ext))
      BY <2>1, <2>4, <3>2 DEF Live, Version, ImageOf
    <3>. QED
      BY <1>5, <2>2, <2>3, <3>3 DEF RestoreSession, Store!vars
  <2>5. CASE ~Restorable(meta, disk)
    <3>1. apps' = apps /\ \A i \in AppIds : apps[i] # NoApp => apps[i].files = EmptyFiles
      BY <1>5, <2>1, <2>5 DEF RestoreSession, PatientInv, Open
    <3>2. Live = Version(ImageOf(apps', disk.ext))
      BY <2>1, <2>5, <3>1 DEF Live, Version, ImageOf
    <3>. QED
      BY <1>5, <2>2, <2>3, <3>2 DEF RestoreSession, Store!vars
  <2>. QED
    BY <2>4, <2>5
<1>6. CASE CommitWrite
  <2>1. /\ phase = "ready" /\ phase' = "ready" /\ queue # <<>> /\ queue' = Tail(queue)
        /\ UNCHANGED <<apps, externalFiles>> /\ Version(disk)' = Version(queue[1].image)
        /\ Backlog = Versions(queue) /\ Backlog' = Versions(queue')
    <3>1. /\ \A i \in DOMAIN queue' : queue'[i].op = "write"
          /\ phase = "ready" /\ queue # <<>> /\ queue' = Tail(queue)
      BY <1>1, <1>6, CommitLast DEF CommitWrite
    <3>2. \A i \in DOMAIN queue : queue[i].op = "write"
      BY <1>1, <3>1 DEF StartUpInv
    <3>. QED
      BY <1>1, <1>6, <3>1, <3>2, ReadyBacklog DEF CommitWrite, memory, TypeOK, Version
  <2>2. /\ DOMAIN queue = 1..Len(queue) /\ Len(queue) \in Nat \ {0}
        /\ DOMAIN queue' = 1..(Len(queue) - 1) /\ Len(queue') = Len(queue) - 1
        /\ \A i \in 1..(Len(queue) - 1) : queue'[i] = queue[i + 1]
    BY <1>1, <2>1
  <2>3. /\ Versions(queue) = [i \in 1..Len(queue) |-> Version(queue[i].image)]
        /\ Versions(queue') = [i \in 1..(Len(queue) - 1) |-> Version(queue[i + 1].image)]
    BY <2>2 DEF Versions
  <2>4. /\ Versions(queue) # <<>> /\ Head(Versions(queue)) = Version(queue[1].image)
        /\ Tail(Versions(queue)) = Versions(queue')
    BY <2>2, <2>3
  <2>5. Live' = Live
    BY <2>1, ReadyLive
  <2>. QED
    BY <2>1, <2>4, <2>5 DEF Store!Persist, Store!Next
<1>7. ASSUME NEW id \in AppIds, Reload(id)
      PROVE  Store!Crash
  <2>. DEFINE kept == {"ext"} \cup IF Restorable(meta, disk) THEN Open(meta) ELSE {}
  <2>1. phase' = "parser" /\ queue' = <<>> /\ UNCHANGED <<meta, disk>>
    BY <1>7 DEF Reload
  <2>2. Backlog' = <<>> /\ Version(disk)' = Version(disk)
    BY <2>1 DEF Backlog, Version
  <2>3. kept \in SUBSET (AppIds \cup {"ext"})
    BY DEF Open
  <2>4. Live' = [k \in AppIds \cup {"ext"} |->
                   IF k \in kept THEN Version(disk)[k] ELSE EmptyFiles]
    BY <2>1 DEF Live, Version
  <2>. QED
    BY <2>2, <2>3, <2>4 DEF Store!Crash
<1>8. ASSUME NEW d \in Drops, ReadFails(d)
      PROVE  UNCHANGED Store!vars
  BY <1>8 DEF ReadFails, memory, Live, Backlog, Store!vars
<1>. QED
  BY <1>3, <1>4, <1>5, <1>6, <1>7, <1>8 DEF StartUp, Store!Next

\* The session of a user who waits for one operation before the next is a
\* write-behind store: every step of it is an edit, a commit or a crash of
\* the store, or invisible to it.
THEOREM SessionImplements == PatientSpec => ImplementsWriteBehind
<1>1. Init => Store!Init
  <2>. SUFFICES ASSUME Init PROVE Store!Init
    OBVIOUS
  <2>1. /\ phase = "parser" /\ queue = <<>> /\ disk = EmptyImage
    BY DEF Init
  <2>2. Live = [k \in AppIds \cup {"ext"} |-> EmptyFiles]
    BY <2>1 DEF Live, EmptyImage, Restorable
  <2>3. Version(disk) = [k \in AppIds \cup {"ext"} |-> EmptyFiles]
    BY <2>1 DEF Version, EmptyImage
  <2>. QED
    BY <2>1, <2>2, <2>3 DEF Backlog, Store!Init
<1>2. (TypeOK /\ PatientInv) /\ (TypeOK /\ PatientInv)' /\ [PatientNext]_vars
        => [Store!Next]_(Store!vars)
  <2>. SUFFICES ASSUME TypeOK, PatientInv, TypeOK', [PatientNext]_vars
                PROVE  [Store!Next]_(Store!vars)
    OBVIOUS
  <2>1. CASE Settled /\ UserStep
    BY <2>1, AppStepsImplement, OtherStepsImplement DEF Settled, UserStep
  <2>2. CASE SystemStep
    BY <2>2, LandingImplements, SystemImplements DEF SystemStep, Store!Next
  <2>3. CASE UNCHANGED vars
    BY <2>3 DEF vars, memory, Live, Backlog, Version, Store!vars
  <2>. QED
    BY <2>1, <2>2, <2>3 DEF PatientNext
<1>. QED
  BY <1>1, <1>2, PatientInvariant, PTL DEF PatientSpec, ImplementsWriteBehind, Store!Spec
==============================================================================
