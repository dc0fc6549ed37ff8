------------------------------- MODULE Session -------------------------------
(***************************************************************************)
(* The session core of C Interface Discovery: the handlers of App.tsx that *)
(* change the loaded files, together with the two stores of                *)
(* utils/persistence.ts they write to.                                     *)
(*                                                                         *)
(* Memory is React state (applications, externalFiles) and one ref (the    *)
(* external FileRegistry).  Reading a dropped file, initialising the       *)
(* parser and every IndexedDB transaction are asynchronous; the analysis   *)
(* itself awaits only promises that are already resolved, so no user event *)
(* can fall inside it and it is part of the action that runs it.  A        *)
(* handler sees the `applications` of the render its event happened in:    *)
(* across an await it goes on with that snapshot.                          *)
(***************************************************************************)
EXTENDS Naturals, Sequences, FiniteSets

CONSTANTS
  AppIds,       \* what genId can return
  Names,        \* application names
  DefaultName,  \* the name makeDefaultApp gives
  FileNames,    \* names of C files, headers included
  Sources,      \* the names that end in .c or .cpp
  Contents,     \* contents of a file that ingestion accepts
  Rejected,     \* a file that ingestion rejects (empty, too large, binary)
  NoFile,       \* no file of that name
  Patterns,     \* call and message-struct patterns
  AppLoads,     \* what one drop on an application zone may read
  ExtLoads,     \* what one drop on the external zone may read
  Drops,        \* slots for drops being read at the same time
  MaxApps,      \* bound: applications open at a time
  MaxQueue,     \* bound: IndexedDB requests outstanding at a time
  NoDrop, NoAnalysis,
  NoApp         \* no application of that id

FileMap == [FileNames -> Contents \cup {Rejected, NoFile}]
GoodMap == [FileNames -> Contents \cup {NoFile}]
EmptyFiles == [n \in FileNames |-> NoFile]

VARIABLES
  phase,          \* "parser", "failed", "loading" or "ready"
  apps,           \* applications: id -> [name, files, analysis], or NoApp
  extReg,         \* externalRegistryRef: the external FileRegistry
  externalFiles,  \* the externalFiles state the view and two handlers use
  patterns,       \* both pattern registries, saved as they change
  drops,          \* slot -> a drop whose files are still being read
  meta,           \* the application list in localStorage: id -> name, or NoApp
  disk,           \* the IndexedDB object store
  queue           \* IndexedDB requests, served in order

memory == <<apps, extReg, externalFiles>>
vars == <<phase, memory, patterns, drops, meta, disk, queue>>

(***************************************************************************)
(* Data                                                                    *)
(***************************************************************************)
\* Mutant: rejected files are handed on.
GoodUnfiltered(files) == files
Good(files) == [n \in FileNames |-> IF files[n] = Rejected THEN NoFile ELSE files[n]]

\* Mutant: a drop replaces the files instead of adding to them.
MergeReplacing(files, loaded) == loaded
\* mergeFiles and FileRegistry.addFiles: a file replaces the one of its name.
Merge(files, loaded) ==
  [n \in FileNames |-> IF loaded[n] = NoFile THEN files[n] ELSE loaded[n]]

Without(files, n) == [files EXCEPT ![n] = NoFile]

\* What analyzeString is given: the FileRegistry built from both zones, where
\* a string file shadows the external file of its name, rejected or not.
AnalysisInput(files, ext) ==
  [own |-> Good(files),
   ext |-> [n \in FileNames |-> IF files[n] = NoFile THEN ext[n] ELSE NoFile]]

Analysis == [own : GoodMap, ext : GoodMap, patterns : SUBSET Patterns]
App == [name : Names, files : FileMap, analysis : Analysis \cup {NoAnalysis}]
AppStates == [AppIds -> App \cup {NoApp}]
Open(as) == {id \in AppIds : as[id] # NoApp}
Image == [apps : [AppIds -> FileMap], ext : GoodMap]
Meta == [AppIds -> Names \cup {NoApp}]
\* The application a string drop is for is one the handler saw: the `if (!app)
\* return` of handleAppFiles never fires.
Drop ==
  {d \in [zone : {"string", "external"}, app : AppIds \cup {NoApp},
          loaded : FileMap, seen : AppStates] :
     d.zone = "string" => d.app \in Open(d.seen)}
Request == [op : {"write"}, image : Image] \cup [op : {"read"}, meta : Meta]

ASSUME SessionAssumption ==
  /\ DefaultName \in Names
  /\ Sources \subseteq FileNames
  /\ Rejected \notin Contents /\ NoFile \notin Contents /\ Rejected # NoFile
  /\ AppLoads \subseteq FileMap /\ ExtLoads \subseteq FileMap
  /\ MaxApps \in Nat \ {0} /\ MaxQueue \in Nat \ {0}
  /\ NoApp \notin Names \cup App /\ NoAnalysis \notin Analysis /\ NoDrop \notin Drop

EmptyImage == [apps |-> [id \in AppIds |-> EmptyFiles], ext |-> EmptyFiles]
\* Mutant: the loop over the external files is missing.
ImageWithoutExternals(as, ext) ==
  [apps |-> [id \in AppIds |-> IF as[id] = NoApp THEN EmptyFiles ELSE as[id].files],
   ext |-> EmptyFiles]
ImageOf(as, ext) ==
  [apps |-> [id \in AppIds |-> IF as[id] = NoApp THEN EmptyFiles ELSE as[id].files],
   ext |-> ext]
\* An absent list and an empty one are the same to loadAppMeta's only caller.
NoMeta == [id \in AppIds |-> NoApp]
MetaOf(as) == [id \in AppIds |-> IF as[id] = NoApp THEN NoApp ELSE as[id].name]

NewApp == [name |-> DefaultName, files |-> EmptyFiles, analysis |-> NoAnalysis]
FreshSession(id) == [i \in AppIds |-> IF i = id THEN NewApp ELSE NoApp]

HasSources(files) == \E n \in Sources : files[n] # NoFile
HasFiles(as) == \E id \in Open(as) : as[id].files # EmptyFiles

\* Ids the two stores know, and ids known anywhere: genId never returns one.
Stored == Open(meta) \cup {id \in AppIds : disk.apps[id] # EmptyFiles}
Seen == UNION {Open(drops[d].seen) : d \in {s \in Drops : drops[s] # NoDrop}}
Queued ==
  {id \in AppIds : \E i \in DOMAIN queue :
     \/ queue[i].op = "write" /\ queue[i].image.apps[id] # EmptyFiles
     \/ queue[i].op = "read" /\ id \in Open(queue[i].meta)}
Known == Stored \cup Open(apps) \cup Seen \cup Queued

ParserReady == phase \in {"loading", "ready"}

\* The analysis runAnalysisForApp stores for an application with these files.
Outcome(files, ext) ==
  IF HasSources(files)
  THEN [own |-> AnalysisInput(files, ext).own,
        ext |-> AnalysisInput(files, ext).ext, patterns |-> patterns]
  ELSE NoAnalysis

\* setApplications(prev => prev.map(...)): an id no longer there is skipped.
Analysed(as, id, files, ext) ==
  IF ParserReady /\ id \in Open(as)
  THEN [as EXCEPT ![id].analysis = Outcome(files, ext)]
  ELSE as

\* Mutant: an application that has an analysis keeps it.
ReanalysedNew(as, seen, ext) ==
  [id \in AppIds |->
     IF ParserReady /\ id \in Open(as) \cap Open(seen) /\ as[id].analysis = NoAnalysis
     THEN [as[id] EXCEPT !.analysis = Outcome(seen[id].files, ext)]
     ELSE as[id]]

\* reanalyzeAllApps: the files come from `seen`, the result goes to `as`.
ReanalysedAll(as, seen, ext) ==
  [id \in AppIds |->
     IF ParserReady /\ id \in Open(as) \cap Open(seen)
     THEN [as[id] EXCEPT !.analysis = Outcome(seen[id].files, ext)]
     ELSE as[id]]

\* Mutant: a save is skipped while another one is outstanding.
SaveSessionWhenIdle(as, ext) ==
  IF queue = <<>>
  THEN queue' = <<[op |-> "write", image |-> ImageOf(as, ext)]>>
  ELSE UNCHANGED queue

SaveSession(as, ext) ==
  /\ Len(queue) < MaxQueue
  /\ queue' = Append(queue, [op |-> "write", image |-> ImageOf(as, ext)])

(***************************************************************************)
(* Applications                                                            *)
(***************************************************************************)
AddApp(id) ==
  /\ id \notin Known
  /\ Cardinality(Open(apps)) < MaxApps
  /\ apps' = [apps EXCEPT ![id] = NewApp]
  /\ meta' = MetaOf(apps')
  /\ UNCHANGED <<phase, extReg, externalFiles, patterns, drops, disk, queue>>

\* Mutant: no guard on the last application.
RemoveAnyApp(id) ==
  /\ id \in Open(apps)
  /\ apps' = [apps EXCEPT ![id] = NoApp]
  /\ meta' = MetaOf(apps')
  /\ SaveSession(apps', externalFiles)
  /\ UNCHANGED <<phase, extReg, externalFiles, patterns, drops, disk>>

RemoveApp(id) ==
  /\ id \in Open(apps)
  /\ Cardinality(Open(apps)) > 1
  /\ apps' = [apps EXCEPT ![id] = NoApp]
  /\ meta' = MetaOf(apps')
  /\ SaveSession(apps', externalFiles)
  /\ UNCHANGED <<phase, extReg, externalFiles, patterns, drops, disk>>

\* Mutant: the new name is not saved.
RenameAppUnsaved(id, name) ==
  /\ id \in Open(apps)
  /\ name # apps[id].name
  /\ apps' = [apps EXCEPT ![id].name = name]
  /\ UNCHANGED <<phase, extReg, externalFiles, patterns, drops, meta, disk, queue>>

RenameApp(id, name) ==
  /\ id \in Open(apps)
  /\ name # apps[id].name
  /\ apps' = [apps EXCEPT ![id].name = name]
  /\ meta' = MetaOf(apps')
  /\ UNCHANGED <<phase, extReg, externalFiles, patterns, drops, disk, queue>>

RemoveAppFile(id, n) ==
  /\ id \in Open(apps)
  /\ apps[id].files[n] # NoFile
  /\ LET files   == Without(apps[id].files, n)
         updated == [apps EXCEPT ![id].files = files]
         ext     == Good(extReg)
     IN  /\ apps' = Analysed(updated, id, files, ext)
         /\ SaveSession(updated, ext)
  /\ UNCHANGED <<phase, extReg, externalFiles, patterns, drops, meta, disk>>

ClearApp(id) ==
  /\ id \in Open(apps)
  /\ apps[id].files # EmptyFiles
  /\ apps' = [apps EXCEPT ![id].files = EmptyFiles, ![id].analysis = NoAnalysis]
  /\ SaveSession(apps', externalFiles)
  /\ UNCHANGED <<phase, extReg, externalFiles, patterns, drops, meta, disk>>

(***************************************************************************)
(* Drops: the handler starts, the files are read, the handler goes on      *)
(***************************************************************************)
DropAppFiles(d, id, loaded) ==
  /\ drops[d] = NoDrop
  /\ id \in Open(apps)
  /\ drops' = [drops EXCEPT ![d] =
       [zone |-> "string", app |-> id, loaded |-> loaded, seen |-> apps]]
  /\ UNCHANGED <<phase, memory, patterns, meta, disk, queue>>

DropExternal(d, loaded) ==
  /\ drops[d] = NoDrop
  /\ drops' = [drops EXCEPT ![d] =
       [zone |-> "external", app |-> NoApp, loaded |-> loaded, seen |-> apps]]
  /\ UNCHANGED <<phase, memory, patterns, meta, disk, queue>>

\* Mutant: the application list is not saved.
FinishAppDropUnlisted(d) ==
  /\ drops[d] # NoDrop /\ drops[d].zone = "string"
  /\ LET id      == drops[d].app
         files   == Merge(drops[d].seen[id].files, drops[d].loaded)
         updated == [drops[d].seen EXCEPT ![id].files = files]
         ext     == Good(extReg)
     IN  /\ apps' = Analysed(updated, id, files, ext)
         /\ SaveSession(updated, ext)
  /\ drops' = [drops EXCEPT ![d] = NoDrop]
  /\ UNCHANGED <<phase, extReg, externalFiles, patterns, meta, disk>>

\* handleAppFiles after its first await: everything but the registry is the
\* snapshot `seen`, and setApplications replaces the list by it.
FinishAppDrop(d) ==
  /\ drops[d] # NoDrop /\ drops[d].zone = "string"
  /\ LET id      == drops[d].app
         files   == Merge(drops[d].seen[id].files, drops[d].loaded)
         updated == [drops[d].seen EXCEPT ![id].files = files]
         ext     == Good(extReg)
     IN  /\ apps' = Analysed(updated, id, files, ext)
         /\ SaveSession(updated, ext)
         /\ meta' = MetaOf(updated)
  /\ drops' = [drops EXCEPT ![d] = NoDrop]
  /\ UNCHANGED <<phase, extReg, externalFiles, patterns, disk>>

\* handleExternalFiles after its first await: the registry is current, the
\* applications it re-analyses and saves are the snapshot.
FinishExternalDrop(d) ==
  /\ drops[d] # NoDrop /\ drops[d].zone = "external"
  /\ extReg' = Merge(extReg, drops[d].loaded)
  /\ externalFiles' = Good(extReg')
  /\ apps' = ReanalysedAll(apps, drops[d].seen, Good(extReg'))
  /\ SaveSession(drops[d].seen, Good(extReg'))
  /\ drops' = [drops EXCEPT ![d] = NoDrop]
  /\ UNCHANGED <<phase, patterns, meta, disk>>

\* A file of the drop cannot be read: ingestFiles rejects, and so does the
\* handler, before it has changed anything.
ReadFails(d) ==
  /\ drops[d] # NoDrop
  /\ drops' = [drops EXCEPT ![d] = NoDrop]
  /\ UNCHANGED <<phase, memory, patterns, meta, disk, queue>>

(***************************************************************************)
(* External headers, session and patterns                                  *)
(***************************************************************************)
\* Mutant: the list on screen is not refreshed.
RemoveExternalUnseen(n) ==
  /\ extReg[n] # NoFile
  /\ extReg' = Without(extReg, n)
  /\ apps' = ReanalysedAll(apps, apps, Good(extReg'))
  /\ SaveSession(apps, Good(extReg'))
  /\ UNCHANGED <<phase, externalFiles, patterns, drops, meta, disk>>

RemoveExternal(n) ==
  /\ extReg[n] # NoFile
  /\ extReg' = Without(extReg, n)
  /\ externalFiles' = Good(extReg')
  /\ apps' = ReanalysedAll(apps, apps, Good(extReg'))
  /\ SaveSession(apps, Good(extReg'))
  /\ UNCHANGED <<phase, patterns, drops, meta, disk>>

ClearExternal ==
  /\ externalFiles # EmptyFiles
  /\ extReg' = EmptyFiles
  /\ externalFiles' = EmptyFiles
  /\ apps' = ReanalysedAll(apps, apps, EmptyFiles)
  /\ SaveSession(apps, EmptyFiles)
  /\ UNCHANGED <<phase, patterns, drops, meta, disk>>

ClearSession(id) ==
  /\ HasFiles(apps) \/ externalFiles # EmptyFiles
  /\ id \notin Known
  /\ apps' = FreshSession(id)
  /\ extReg' = EmptyFiles
  /\ externalFiles' = EmptyFiles
  /\ patterns' = {}
  /\ meta' = NoMeta
  /\ Len(queue) < MaxQueue
  /\ queue' = Append(queue, [op |-> "write", image |-> EmptyImage])
  /\ UNCHANGED <<phase, drops, disk>>

\* Add, update, remove, import, detect: the registry and localStorage follow
\* at once, no analysis runs.
EditPatterns(edited) ==
  /\ edited # patterns
  /\ patterns' = edited
  /\ UNCHANGED <<phase, memory, drops, meta, disk, queue>>

Reanalyze ==
  /\ apps' = ReanalysedAll(apps, apps, externalFiles)
  /\ UNCHANGED <<phase, extReg, externalFiles, patterns, drops, meta, disk, queue>>

(***************************************************************************)
(* Start-up, storage and reload                                            *)
(***************************************************************************)
\* initParser resolves: loadAppMeta reads at once, loadSession is queued.
ParserLoads ==
  /\ phase = "parser"
  /\ Len(queue) < MaxQueue
  /\ phase' = "loading"
  /\ queue' = Append(queue, [op |-> "read", meta |-> meta])
  /\ UNCHANGED <<memory, patterns, drops, meta, disk>>

ParserFails ==
  /\ phase = "parser"
  /\ phase' = "failed"
  /\ UNCHANGED <<memory, patterns, drops, meta, disk, queue>>

\* What loadSession hands back becomes the session, unless there is no
\* application list or no application file at all.
Restorable(m, image) ==
  /\ Open(m) # {}
  /\ \E id \in AppIds : image.apps[id] # EmptyFiles

RestoredApps(m, image) ==
  [id \in AppIds |->
     IF m[id] = NoApp THEN NoApp
     ELSE [name |-> m[id], files |-> image.apps[id],
           analysis |-> Outcome(image.apps[id], image.ext)]]

RestoreSession ==
  /\ queue # <<>> /\ Head(queue).op = "read"
  /\ apps' = IF Restorable(Head(queue).meta, disk)
             THEN RestoredApps(Head(queue).meta, disk)
             ELSE apps
  /\ extReg' = Merge(extReg, disk.ext)
  /\ externalFiles' = disk.ext
  /\ phase' = "ready"
  /\ queue' = Tail(queue)
  /\ UNCHANGED <<patterns, drops, meta, disk>>

\* Mutant: the transaction puts the files without clearing the store first.
CommitWithoutClear ==
  /\ queue # <<>> /\ Head(queue).op = "write"
  /\ disk' = [apps |-> [id \in AppIds |-> Merge(disk.apps[id], Head(queue).image.apps[id])],
              ext |-> Merge(disk.ext, Head(queue).image.ext)]
  /\ queue' = Tail(queue)
  /\ UNCHANGED <<phase, memory, patterns, drops, meta>>

CommitWrite ==
  /\ queue # <<>> /\ Head(queue).op = "write"
  /\ disk' = Head(queue).image
  /\ queue' = Tail(queue)
  /\ UNCHANGED <<phase, memory, patterns, drops, meta>>

\* IndexedDB refuses a request (quota, private browsing): nobody waits for a
\* write, and the initial read swallows the error.
StorageFails ==
  /\ queue # <<>>
  /\ queue' = Tail(queue)
  /\ phase' = IF Head(queue).op = "read" THEN "ready" ELSE phase
  /\ UNCHANGED <<memory, patterns, drops, meta, disk>>

\* The tab is closed, reloaded or killed: outstanding requests are aborted.
Reload(id) ==
  /\ id \notin Stored
  /\ phase' = "parser"
  /\ apps' = FreshSession(id)
  /\ extReg' = EmptyFiles
  /\ externalFiles' = EmptyFiles
  /\ drops' = [d \in Drops |-> NoDrop]
  /\ queue' = <<>>
  /\ UNCHANGED <<patterns, meta, disk>>

(***************************************************************************)
(* Specifications                                                          *)
(***************************************************************************)
Init ==
  /\ phase = "parser"
  /\ \E id \in AppIds : apps = FreshSession(id)
  /\ extReg = EmptyFiles
  /\ externalFiles = EmptyFiles
  /\ patterns = {}
  /\ drops = [d \in Drops |-> NoDrop]
  /\ meta = NoMeta
  /\ disk = EmptyImage
  /\ queue = <<>>

UserStep ==
  \/ \E id \in AppIds : AddApp(id) \/ RemoveApp(id) \/ ClearApp(id) \/ ClearSession(id)
  \/ \E id \in AppIds, name \in Names : RenameApp(id, name)
  \/ \E id \in AppIds, n \in FileNames : RemoveAppFile(id, n)
  \/ \E d \in Drops, id \in AppIds, loaded \in AppLoads : DropAppFiles(d, id, loaded)
  \/ \E d \in Drops, loaded \in ExtLoads : DropExternal(d, loaded)
  \/ \E n \in FileNames : RemoveExternal(n)
  \/ ClearExternal
  \/ \E edited \in SUBSET Patterns : EditPatterns(edited)
  \/ Reanalyze

Landing == \E d \in Drops : FinishAppDrop(d) \/ FinishExternalDrop(d)

StartUp == ParserLoads \/ ParserFails \/ RestoreSession

SystemStep ==
  \/ Landing
  \/ \E d \in Drops : ReadFails(d)
  \/ StartUp
  \/ CommitWrite
  \/ \E id \in AppIds : Reload(id)

Settled == phase = "ready" /\ \A d \in Drops : drops[d] = NoDrop

\* Everything the code allows.
Next == UserStep \/ SystemStep \/ StorageFails
\* The user waits for the restored session before touching anything.
BusyNext == (phase = "ready" /\ UserStep) \/ SystemStep
\* ... and, besides, for the files of one drop before the next operation.
PatientNext == (Settled /\ UserStep) \/ SystemStep

Spec == Init /\ [][Next]_vars
BusySpec == Init /\ [][BusyNext]_vars
PatientSpec == Init /\ [][PatientNext]_vars

\* The browser reads dropped files and serves IndexedDB requests in the end.
Fairness == WF_vars(Landing) /\ WF_vars(StartUp) /\ WF_vars(CommitWrite)
FairPatientSpec == PatientSpec /\ Fairness

(***************************************************************************)
(* Properties                                                              *)
(***************************************************************************)
\* Types, with what they say of the code: what is saved and what is analysed
\* never holds a rejected external file, and only the first request may read.
TypeOK ==
  /\ phase \in {"parser", "failed", "loading", "ready"}
  /\ apps \in AppStates
  /\ extReg \in FileMap
  /\ externalFiles \in GoodMap
  /\ patterns \in SUBSET Patterns
  /\ drops \in [Drops -> Drop \cup {NoDrop}]
  /\ meta \in Meta
  /\ disk \in Image
  /\ queue \in Seq(Request)

\* There is always an application zone to drop files on, whatever snapshot,
\* restored list or fresh session replaced the list of applications.
SomeApp == Open(apps) # {}

\* The header list on screen, which handleRemoveApp and handleClearApp save,
\* is the one in the registry, which the other handlers save.
ExternalView == phase = "ready" => externalFiles = Good(extReg)

\* Once the writes are done the object store holds the external headers on
\* screen, however drops and other operations overlapped: they are read from
\* the registry and not from a snapshot.
ExternalDurable == phase = "ready" /\ queue = <<>> => disk.ext = externalFiles

\* While any application holds a file, the application list in localStorage
\* is the list on screen, names included, however drops overlapped.
NamesDurable == phase = "ready" /\ HasFiles(apps) => meta = MetaOf(apps)

\* Once the writes are done, every application has its own files in the
\* object store: "Save all app files and external files in one transaction".
FilesDurable ==
  phase = "ready" /\ queue = <<>> =>
    \A id \in Open(apps) : disk.apps[id] = apps[id].files

\* An analysis made anew of the same files, with the patterns of now.
Refreshed(shown) == IF shown = NoAnalysis THEN NoAnalysis ELSE [shown EXCEPT !.patterns = patterns]

\* Once the writes are done, closing and reopening the tab gives back the
\* session on screen: the same applications, names, files and headers, and
\* the analysis the screen shows, but for patterns edited since it was made
\* (App.tsx 158-188, utils/persistence.ts 30-94).
RoundTrip ==
  phase = "ready" /\ queue = <<>> /\ HasFiles(apps) =>
    /\ Restorable(meta, disk)
    /\ Open(meta) = Open(apps)
    /\ \A id \in Open(apps) :
         /\ RestoredApps(meta, disk)[id].name = apps[id].name
         /\ RestoredApps(meta, disk)[id].files = apps[id].files
         /\ RestoredApps(meta, disk)[id].analysis = Refreshed(apps[id].analysis)
    /\ disk.ext = externalFiles

\* The analysis on screen is the analysis of the files on screen, whichever
\* file of either zone was last added, removed, restored or cleared.
AnalysisCurrent ==
  phase = "ready" => \A id \in Open(apps) :
    LET now   == Outcome(apps[id].files, Good(extReg))
        shown == apps[id].analysis
    IN  IF now = NoAnalysis THEN shown = NoAnalysis
        ELSE shown # NoAnalysis /\ shown.own = now.own /\ shown.ext = now.ext

\* "Each file selection/drop adds to the current set -- never replaces all":
\* when the files of a drop arrive, no application loses one.
Additive ==
  \A id \in Open(apps) :
    /\ id \in Open(apps)'
    /\ \A n \in FileNames : apps[id].files[n] # NoFile => apps'[id].files[n] # NoFile
DropsAreAdditive == [][Landing => Additive]_vars

\* A file on screen reaches the object store, or leaves the screen.
FilesReachDisk ==
  \A id \in AppIds, n \in FileNames :
    (phase = "ready" /\ id \in Open(apps) /\ apps[id].files[n] # NoFile)
      ~> \/ disk.apps[id][n] # NoFile
         \/ phase # "ready" \/ id \notin Open(apps) \/ apps[id].files[n] = NoFile

\* The abstract store this session implements: its keys are the applications
\* and the external zone; before the restore it holds what will be restored.
Live ==
  [k \in AppIds \cup {"ext"} |->
     IF k = "ext" THEN IF phase = "ready" THEN externalFiles ELSE disk.ext
     ELSE IF phase = "ready" THEN ImageOf(apps, externalFiles).apps[k]
     ELSE IF Restorable(meta, disk) /\ k \in Open(meta) THEN disk.apps[k]
     ELSE EmptyFiles]
Version(image) ==
  [k \in AppIds \cup {"ext"} |-> IF k = "ext" THEN image.ext ELSE image.apps[k]]
Backlog ==
  IF queue # <<>> /\ Head(queue).op = "read" THEN <<>>
  ELSE [i \in DOMAIN queue |-> Version(queue[i].image)]

Store == INSTANCE WriteBehind WITH
  Keys <- AppIds \cup {"ext"}, Values <- FileMap, Empty <- EmptyFiles,
  live <- Live, backlog <- Backlog, durable <- Version(disk)

\* A patient user's session is a write-behind store.
ImplementsWriteBehind == Store!Spec

(***************************************************************************)
(* Inductive invariants                                                    *)
(***************************************************************************)
\* The object store once every outstanding write is done.
LastImage == IF phase # "ready" \/ queue = <<>> THEN disk ELSE queue[Len(queue)].image

\* Before the session is restored nothing is loaded and only the restore is
\* outstanding; afterwards only writes are.
StartUpInv ==
  /\ phase \in {"parser", "failed"} => queue = <<>>
  /\ phase = "loading" => Len(queue) = 1 /\ queue[1].op = "read"
  /\ phase = "ready" => \A i \in DOMAIN queue : queue[i].op = "write"
  /\ phase # "ready" =>
       /\ extReg = EmptyFiles /\ externalFiles = EmptyFiles
       /\ drops = [d \in Drops |-> NoDrop]

\* What makes ExternalView and ExternalDurable inductive under BusySpec.
ExternalInv ==
  /\ StartUpInv
  /\ phase = "ready" => externalFiles = Good(extReg) /\ LastImage.ext = externalFiles

\* What makes RoundTrip inductive under PatientSpec: one drop at a time, of
\* which nothing changed since it began; a fresh application never has files
\* of another one in the store.
PatientInv ==
  /\ ExternalInv
  /\ \A d, e \in Drops : drops[d] # NoDrop /\ drops[e] # NoDrop => d = e
  /\ \A d \in Drops : drops[d] # NoDrop => drops[d].seen = apps
  /\ phase = "loading" => queue[1].meta = meta
  /\ phase # "ready" => \A id \in Open(apps) : apps[id].files = EmptyFiles
  /\ \A id \in Open(apps) : LastImage.apps[id] = apps[id].files
  /\ phase = "ready" /\ HasFiles(apps) => meta = MetaOf(apps)
==============================================================================
