----------------------------- MODULE Interfaces -----------------------------
(***************************************************************************)
(* The applications of a tab seen from the graphs: files are loaded and    *)
(* removed in any order, the analysis (analyzer/index.ts) follows, and the *)
(* views of it are opened.  An analysis is kept until its files change,    *)
(* and opening a graph leaves marks on the messages of the analyses it     *)
(* read.  How the analyses of one tab overlap is in Session; here one is   *)
(* over before the next begins.                                            *)
(***************************************************************************)
EXTENDS AppGraph, StructRoles, Functions, TLC

CONSTANTS
  Apps,        \* the applications
  Names,       \* what an application may be called
  Programs,    \* the programs there are: texts by their identifiers
  MaxFiles,    \* bound on the files of an application
  NoAnalysis

ASSUME InterfacesAssumption ==
  /\ MaxFiles \in Nat
  /\ \A id \in DOMAIN Programs : \A n \in DOMAIN Programs[id] : Text(Programs[id][n])

VARIABLES
  chosen,      \* which of the programs is looked at
  files,       \* the files of each application, in the order they were loaded
  external,    \* the shared headers, likewise
  typeDict,    \* what the headers of each application declare
  analyses,    \* what is found in each of its source files
  messages,    \* its messages
  structRoles, \* what its structs are to them
  marks        \* the messages of each that a graph marked as incomplete

loaded == <<chosen, files, external>>
analysis == <<typeDict, analyses, messages, structRoles>>
vars == <<loaded, analysis, marks>>

program == Programs[chosen]

(***************************************************************************)
(* The files an analysis sees                                              *)
(***************************************************************************)
Named(seq, name) == \E i \in DOMAIN seq : program[seq[i]].name = name
IsSource(f) == f.kind = "source"
Texts(seq) == Where(Mapped(seq, LAMBDA n : program[n]), LAMBDA f : ~f.rejected)

\* A file of the application hides the shared one of its name, even if it
\* was rejected itself.
Unshadowed(shared, own) == Where(shared, LAMBDA n : ~Named(own, program[n].name))

getSources(own) == Where(Texts(own), IsSource)
getHeaders(own, shared) == Where(Flat(<<Texts(own), Texts(Unshadowed(shared, own))>>), LAMBDA f : ~IsSource(f))

\* Without a source file there is nothing to analyse, even a rejected one will do.
HasSources(own) == \E i \in DOMAIN own : IsSource(program[own[i]])

\* What is declared twice counts as it was declared first.
Merged(tables) ==
  [n \in UNION {DOMAIN t : t \in ToSet(tables)} |->
     The({tables[s][n] : s \in Foremost({s \in DOMAIN tables : n \in DOMAIN tables[s]})})]

Dictionary(headers) ==
  LET structs == Merged(Mapped(headers, LAMBDA h : h.structs))
  IN  [structs |-> DOMAIN structs, fields |-> structs,
       aliases |-> Merged(Mapped(headers, LAMBDA h : h.aliases)),
       defines |-> UNION {h.defines : h \in ToSet(headers)},
       enumerated |-> UNION {h.enumerated : h \in ToSet(headers)}]

\* The passes of an analysis of these applications, each from the results of
\* those before.
Referenced(a) == typeDict[a].structs \cap UNION {f.mentions : f \in ToSet(getSources(files[a]))}
PayloadsOf(a) == UNION {f.payloads : f \in ToSet(analyses[a])}

StructRolesOf(a) == analyzeStructRoles(typeDict[a], messages[a], PayloadsOf(a), Referenced(a))

Reanalysed(apps) ==
  /\ typeDict' = [a \in Apps |-> IF a \in apps THEN Dictionary(getHeaders(files'[a], external')) ELSE typeDict[a]]
  /\ analyses' = [a \in Apps |-> IF a \in apps
                                 THEN Mapped(getSources(files'[a]), LAMBDA f : analyzeSource(f, typeDict'[a]))
                                 ELSE analyses[a]]
  /\ messages' = [a \in Apps |-> IF a \notin apps THEN messages[a]
                                 ELSE IF ~HasSources(files'[a]) THEN NoAnalysis
                                 ELSE extractMessageInterfaces(analyses'[a], typeDict'[a])]
  /\ structRoles' = [a \in Apps |-> IF a \notin apps THEN structRoles[a]
                                    ELSE IF ~HasSources(files'[a]) THEN NoAnalysis ELSE StructRolesOf(a)']

\* What the graphs read: the messages of the applications with an analysis.
View == [a \in {a \in Apps : messages[a] # NoAnalysis} |-> messages[a]]

(***************************************************************************)
(* Steps                                                                   *)
(***************************************************************************)
Init ==
  /\ chosen \in DOMAIN Programs
  /\ files = [a \in Apps |-> <<>>]
  /\ external = <<>>
  /\ typeDict = [a \in Apps |-> Dictionary(<<>>)]
  /\ analyses = [a \in Apps |-> <<>>]
  /\ messages = [a \in Apps |-> NoAnalysis]
  /\ structRoles = [a \in Apps |-> NoAnalysis]
  /\ marks = [a \in Apps |-> {}]

\* Mutant: the marks stay.
SetFilesMarked(a, own) ==
  /\ files' = [files EXCEPT ![a] = own]
  /\ UNCHANGED <<chosen, external>>
  /\ Reanalysed({a})
  /\ UNCHANGED marks

SetFiles(a, own) ==
  /\ files' = [files EXCEPT ![a] = own]
  /\ UNCHANGED <<chosen, external>>
  /\ Reanalysed({a})
  /\ marks' = [marks EXCEPT ![a] = {}]

\* Mutant: the marks stay.
SetExternalMarked(shared) ==
  /\ external' = shared
  /\ UNCHANGED <<chosen, files>>
  /\ Reanalysed(Apps)
  /\ UNCHANGED marks

\* A shared header concerns every application.  A new analysis has no marks.
SetExternal(shared) ==
  /\ external' = shared
  /\ UNCHANGED <<chosen, files>>
  /\ Reanalysed(Apps)
  /\ marks' = [a \in Apps |-> {}]

AddFile(a, n) ==
  /\ a \in program[n].zones
  /\ ~Named(files[a], program[n].name)
  /\ Len(files[a]) < MaxFiles
  /\ SetFiles(a, Append(files[a], n))

RemoveFile(a, n) ==
  \E i \in DOMAIN files[a] : files[a][i] = n /\ SetFiles(a, RemoveAt(files[a], i))

AddExternal(n) ==
  /\ "external" \in program[n].zones
  /\ ~Named(external, program[n].name)
  /\ Len(external) < MaxFiles
  /\ SetExternal(Append(external, n))

RemoveExternal(n) ==
  \E i \in DOMAIN external : external[i] = n /\ SetExternal(RemoveAt(external, i))

\* The graphs mark the messages of the analyses themselves.
ViewApps ==
  /\ DOMAIN View # {}
  /\ marks' = [a \in Apps |-> IF a \in DOMAIN View THEN marks[a] \cup (AppMarks(View) \cap NamesIn(View[a]))
                                                   ELSE marks[a]]
  /\ UNCHANGED <<loaded, analysis>>

ViewFiles(a) ==
  /\ a \in DOMAIN View
  /\ marks' = [marks EXCEPT ![a] = @ \cup FileMarks(messages[a])]
  /\ UNCHANGED <<loaded, analysis>>

Next ==
  \/ \E n \in DOMAIN program :
       \/ AddExternal(n)
       \/ RemoveExternal(n)
       \/ \E a \in Apps : AddFile(a, n) \/ RemoveFile(a, n)
  \/ ViewApps
  \/ \E a \in Apps : ViewFiles(a)

Spec == Init /\ [][Next]_vars

(***************************************************************************)
(* Properties                                                              *)
(***************************************************************************)
OneEach(ms) == \A m1, m2 \in ms : m1.name = m2.name => m1 = m2

\* Every application has each file once; its analysis has one entry per
\* message, and only messages it has are marked (fileRegistry.ts 21-59,
\* messagingExtractor.ts 245-422).
TypeOK ==
  /\ chosen \in DOMAIN Programs
  /\ \A seq \in {files[a] : a \in Apps} \cup {external} :
       /\ Len(seq) <= MaxFiles /\ ToSet(seq) \subseteq DOMAIN program
       /\ \A i, j \in DOMAIN seq : program[seq[i]].name = program[seq[j]].name => i = j
  /\ \A a \in Apps :
       /\ (a \in DOMAIN View) = HasSources(files[a])
       /\ a \notin DOMAIN View => marks[a] = {}
       /\ a \in DOMAIN View => OneEach(messages[a]) /\ marks[a] \subseteq NamesIn(messages[a])

\* By the text alone: a file sends if it calls a function of the C library
\* that does, or mentions one of a pattern that says so, by its direction, its
\* type or its name.
Sending(f) ==
  \/ \E i \in DOMAIN f.calls : f.calls[i].callee \in {"send", "sendto", "write", "mq_send"}
  \/ \E j \in Matching(f) : Sends(Patterns[j])
Receiving(f) ==
  \/ \E i \in DOMAIN f.calls : f.calls[i].callee \in {"recv", "recvfrom", "read", "mq_receive"}
  \/ \E j \in Matching(f) : Receives(Patterns[j])
Controls(f) == \E j \in Matching(f) : Patterns[j].direction = "control"

OnlySends(f) == Sending(f) /\ ~Receiving(f) /\ ~Controls(f)
OnlyReceives(f) == Receiving(f) /\ ~Sending(f) /\ ~Controls(f)
SourcesOf(a) == ToSet(getSources(files[a]))

\* The payload of a call is reported with high confidence only as what the
\* argument names or points at, in every order of statements the blocks around
\* the call can have (payloadResolver.ts 129-206, 217-346, 455-492).
ResolvedAt(p, f) == f.name = p.file /\ p.result.strategy # "callback" /\ p.index \in DOMAIN f.calls[p.site].args

PayloadHonest ==
  \A a \in DOMAIN View : \A p \in PayloadsOf(a), f \in SourcesOf(a) :
    ResolvedAt(p, f) => Honest(f.calls[p.site], p.index, p.result)

\* A payload that is found by tracing assignments is what the most recent one of
\* them tells (payloadResolver.ts 319; payloadResolver.test.ts 368).
MostRecent ==
  \A a \in DOMAIN View : \A p \in PayloadsOf(a), f \in SourcesOf(a) :
    ResolvedAt(p, f) => Recent(f.calls[p.site], p.index, p.result, typeDict[a])

\* What is known of an application, but for the transport shown, is a matter of
\* its files and not of the order they were loaded in: two applications of the
\* same files do not differ, unless two headers declare a name differently
\* (messagingExtractor.ts 115-181, 311-422; structRoleAnalyzer.ts 254-255).
Compatible(headers) ==
  \A h, g \in ToSet(headers) :
    /\ \A s \in DOMAIN h.structs \cap DOMAIN g.structs : h.structs[s] = g.structs[s]
    /\ \A t \in DOMAIN h.aliases \cap DOMAIN g.aliases : h.aliases[t] = g.aliases[t]

Essence(a) ==
  [messages |-> {[name |-> m.name, struct |-> m.struct, direction |-> m.direction,
                  confident |-> m.confident, roles |-> m.roles] : m \in messages[a]},
   structRoles |-> structRoles[a]]

OrderIndependent ==
  \A a, b \in DOMAIN View :
    ToSet(files[a]) = ToSet(files[b]) /\ Compatible(getHeaders(files[a], external)) => Essence(a) = Essence(b)

\* An edge from one side to another has, for every message it carries, a file
\* on the one side that mentions it and does more than receive, and one on the
\* other that does more than send, among applications and among the files of
\* one (messagingExtractor.ts 148-181, buildAppGraph.ts 132-179, buildGraph.ts
\* 66-108).
Backed(n, from, to) ==
  /\ \E f \in from : n \in f.mentions /\ ~OnlyReceives(f)
  /\ \E f \in to : n \in f.mentions /\ ~OnlySends(f)

FilesCalled(a, name) == {f \in SourcesOf(a) : f.name = name}

EdgesBacked ==
  /\ \A e \in buildAppGraph(View) : \A n \in e.messages :
       \E r \in e.arrows : Backed(n, SourcesOf(r[1]), SourcesOf(r[2]))
  /\ \A a \in DOMAIN View : \A e \in buildGraph(messages[a]) : \A n \in e.messages :
       \E r \in e.arrows : Backed(n, FilesCalled(a, r[1]), FilesCalled(a, r[2]))

\* An edge is drawn as certain only if a file that mentions one of its messages
\* has calls that tell a direction, and as bidirectional only if messages go
\* both ways (buildAppGraph.ts 239-245, buildGraph.ts 164-166, 182-187).
Evidence(names, fs) ==
  \E n \in names, f \in fs : n \in f.mentions /\ (Sending(f) \/ Receiving(f) \/ Controls(f))

CertainMeansEvidence ==
  /\ \A e \in buildAppGraph(View) :
       /\ e.direction # "uncertain" => Evidence(e.messages, UNION {SourcesOf(a) : a \in DOMAIN View})
       /\ e.direction = "bidirectional" =>
            \A r \in e.arrows : \E n \in e.messages : Backed(n, SourcesOf(r[1]), SourcesOf(r[2]))
  /\ \A a \in DOMAIN View : \A e \in buildGraph(messages[a]) :
       /\ e.directions # {"uncertain"} => Evidence(e.messages, SourcesOf(a))
       /\ "bidirectional" \in e.directions =>
            \A r \in e.arrows : \E n \in e.messages : Backed(n, FilesCalled(a, r[1]), FilesCalled(a, r[2]))

\* A message one application only sends and another only receives leads from
\* the first to the second in the graph: straight, or if applications pass it
\* on, through each of those and not around them (buildAppGraph.ts 149-179).
Passes(f, n) ==
  \E i \in DOMAIN f.calls, j \in Matching(f) :
    f.calls[i].callee \in Patterns[j].calls /\ n \in ConstantsAt(f.calls[i], Patterns[j])

OneWay(a, n, Only(_)) ==
  /\ \E f \in SourcesOf(a) : Passes(f, n)
  /\ \A f \in SourcesOf(a) : n \in f.mentions => Only(f)

PassOn(n) == ProducersOf(n, View) \cap ConsumersOf(n, View)

FlowsDrawn ==
  LET edges == buildAppGraph(View)
      Step(a, b, n) == \E e \in edges : <<a, b>> \in e.arrows /\ n \in e.messages
  IN  \A n \in Seen(View), a, b \in DOMAIN View :
        OneWay(a, n, OnlySends) /\ OneWay(b, n, OnlyReceives) =>
          IF PassOn(n) = {} THEN Step(a, b, n)
          ELSE ~Step(a, b, n) /\ \A c \in PassOn(n) : Step(a, c, n) /\ Step(c, b, n)

\* The assistant is told of the flows that are drawn, whatever the applications
\* are called: a message an edge carries is not told to be unmatched.  Where no
\* two applications that produce or consume it have one name, a message is told
\* to be matched exactly if an edge carries it or only applications that pass it
\* on have it; with one name, two may be taken for one that passes it on
\* (llm/tools.ts 262-306, buildAppGraph.ts 132-190, App.tsx 195-215).
ToldApart(n, NameOf) ==
  \A a, b \in ProducersOf(n, View) \cup ConsumersOf(n, View) : NameOf[a] = NameOf[b] => a = b

ToolsAgree ==
  LET edges == buildAppGraph(View)
      Drawn(n) == \E e \in edges : n \in e.messages
  IN  \A NameOf \in [Apps -> Names] : \A told \in crossAppEdges(View, NameOf) :
        /\ Drawn(told.constant) => ~told.unmatched
        /\ ToldApart(told.constant, NameOf) =>
             Drawn(told.constant) = (~told.unmatched /\ told.producers \cup told.consumers # told.transitApps)

\* A message that is marked as incomplete is not both produced and consumed by
\* the application itself: the mark goes with the analysis it was made on
\* (buildAppGraph.ts 181-190, buildGraph.ts 110-131).
MarksSound ==
  \A a \in DOMAIN View : \A m \in messages[a] :
    m.name \in marks[a] => ~(MsgProduces(m) /\ MsgConsumes(m))
=============================================================================
