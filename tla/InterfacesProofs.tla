--------------------------- MODULE InterfacesProofs ---------------------------
(***************************************************************************)
(* Theorems about Interfaces, for any programs, patterns, number of files  *)
(* and number of applications.                                             *)
(***************************************************************************)
EXTENDS Interfaces, SequenceTheorems, WellFoundedInduction, TLAPS

RoleNames == {"producer", "consumer", "both"}
RolesTyped(ms) == \A m \in ms : \A f \in DOMAIN m.roles : m.roles[f] \in RoleNames
WellFormed(ms) == OneEach(ms) /\ RolesTyped(ms)

(***************************************************************************)
(* The messages of an application                                          *)
(***************************************************************************)
LEMMA DirectionType ==
  ASSUME NEW s, NEW r
  PROVE  Direction(s, r) \in RoleNames \cup {"unknown"}
BY DEF Direction, RoleNames

\* A file that mentions a message has one of the three roles.
LEMMA FileRoleType ==
  ASSUME NEW a
  PROVE  FileRole(a) \in RoleNames
<1>. DEFINE direction == Direction(Exists(a.ipc, Sends), Exists(a.ipc, Receives))
<1>1. direction \in RoleNames \cup {"unknown"}
  BY DirectionType
<1>2. FileRole(a) = IF direction = "unknown" THEN "both" ELSE direction
  BY DEF FileRole
<1>. HIDE DEF direction
<1>. QED
  BY <1>1, <1>2 DEF RoleNames

\* So has a file with a call the message is passed to.
LEMMA RolesAtType ==
  ASSUME NEW calls
  PROVE  \A f \in DOMAIN RolesAt(calls) : RolesAt(calls)[f] \in RoleNames
BY DEF RolesAt, CallRole, RoleNames

LEMMA FileRolesType ==
  ASSUME NEW name, NEW as
  PROVE  LET roles == computeFileRoles(name, as)
         IN  \A f \in DOMAIN roles : roles[f] \in RoleNames
BY FileRoleType DEF computeFileRoles

RolesOf(m) == \A f \in DOMAIN m.roles : m.roles[f] \in RoleNames

\* A message made from a name has that name and its roles.
LEMMA MentionedType ==
  ASSUME NEW name, NEW struct, NEW as
  PROVE  LET m == Mentioned(name, struct, as)
         IN  /\ m.name = name /\ RolesOf(m)
             /\ m = [name |-> m.name, struct |-> m.struct, direction |-> m.direction,
                     confident |-> m.confident, transport |-> m.transport, roles |-> m.roles]
<1>. DEFINE roles == computeFileRoles(name, as)
            found == inferDirection(name, as)
            m == [name |-> name, struct |-> struct, direction |-> found.direction,
                  confident |-> found.confident, transport |-> found.transport, roles |-> roles]
<1>1. \A f \in DOMAIN roles : roles[f] \in RoleNames
  BY FileRolesType
<1>2. Mentioned(name, struct, as) = m
  BY DEF Mentioned, Message
<1>. HIDE DEF roles, found
<1>3. m.name = name /\ m.roles = roles
  OBVIOUS
<1>. QED
  BY <1>1, <1>2, <1>3 DEF RolesOf

\* What its calls add to a message is neither another name nor another role.
LEMMA AugmentedType ==
  ASSUME NEW m, NEW as, RolesOf(m),
         m = [name |-> m.name, struct |-> m.struct, direction |-> m.direction,
              confident |-> m.confident, transport |-> m.transport, roles |-> m.roles]
  PROVE  Augmented(m, as).name = m.name /\ RolesOf(Augmented(m, as))
<1>. DEFINE calls == Where(AllCalls(as), LAMBDA c : m.name \in Passed(c))
            roles == RolesAt(calls)
            all == [f \in DOMAIN m.roles \cup DOMAIN roles |->
                      IF f \in DOMAIN m.roles THEN m.roles[f] ELSE roles[f]]
            more == [m EXCEPT !.direction = FoundAt(calls).direction, !.confident = TRUE,
                              !.transport = IF m.transport = Nothing THEN FoundAt(calls).transport ELSE m.transport,
                              !.roles = all]
<1>1. Augmented(m, as) = m \/ Augmented(m, as) = more
  BY DEF Augmented
<1>2. \A f \in DOMAIN roles : roles[f] \in RoleNames
  BY RolesAtType
<1>. HIDE DEF calls, roles
<1>3. \A f \in DOMAIN all : all[f] \in RoleNames
  BY <1>2 DEF RolesOf
<1>. HIDE DEF all
<1>4. more.name = m.name /\ more.roles = all
  OBVIOUS
<1>. QED
  BY <1>1, <1>3, <1>4 DEF RolesOf

\* So a message a name is mentioned for has that name, and its roles.
LEMMA MentionedAugmentedType ==
  ASSUME NEW name, NEW struct, NEW as
  PROVE  LET m == Augmented(Mentioned(name, struct, as), as) IN m.name = name /\ RolesOf(m)
<1>. DEFINE m == Mentioned(name, struct, as)
<1>1. /\ m.name = name /\ RolesOf(m)
      /\ m = [name |-> m.name, struct |-> m.struct, direction |-> m.direction,
              confident |-> m.confident, transport |-> m.transport, roles |-> m.roles]
  BY MentionedType
<1>. HIDE DEF m
<1>2. Augmented(m, as).name = m.name /\ RolesOf(Augmented(m, as))
  BY <1>1, AugmentedType
<1>3. Augmented(m, as).name = name /\ RolesOf(Augmented(m, as))
  BY <1>1, <1>2
<1>. QED
  BY <1>3 DEF m

\* A message found at calls.
LEMMA FoundType ==
  ASSUME NEW name, NEW struct, NEW found, NEW calls
  PROVE  LET m == Message(name, struct, found, RolesAt(calls))
         IN  m.name = name /\ RolesOf(m)
<1>. DEFINE roles == RolesAt(calls)
            m == Message(name, struct, found, roles)
<1>1. \A f \in DOMAIN roles : roles[f] \in RoleNames
  BY RolesAtType
<1>. HIDE DEF roles
<1>2. m.name = name /\ m.roles = roles
  BY DEF Message
<1>. HIDE DEF m
<1>3. RolesOf(m)
  BY <1>1, <1>2 DEF RolesOf
<1>. QED
  BY <1>2, <1>3 DEF m, roles

\* The four ways of finding a message give one entry per name, for a name is
\* looked for in one way only if it was not found in those before.
LEMMA ExtractedType ==
  ASSUME NEW as, NEW d
  PROVE  WellFormed(extractMessageInterfaces(as, d))
<1>. DEFINE defines == d.defines \cup UNION {a.defines : a \in ToSet(as)}
            calls == AllCalls(as)
            names == UNION {Passed(c) : c \in ToSet(calls)}
            defined == defines \cap MsgConstants
            picked == (ChosenStructs \cap d.structs) \ defined
            passed == names \ (defined \cup picked)
            implied == ((UNION {Implies(c) : c \in ToSet(calls)}) \cap d.structs) \ (defined \cup picked \cup passed)
            Constant(n) == Augmented(Mentioned(n, resolveStruct(n, d), as), as)
            Chosen(n) == Augmented(Mentioned(n, n, as), as)
            PassedAt(n) == Where(calls, LAMBDA c : n \in Passed(c))
            ImpliedAt(n) == Where(calls, LAMBDA c : n \in Implies(c))
            Struct(n) == IF n \in d.defines \cup d.enumerated THEN resolveStruct(n, d) ELSE Nothing
            AtPassed(n) == Message(n, Struct(n), FoundAt(PassedAt(n)), RolesAt(PassedAt(n)))
            AtImplied(n) == Message(n, n, FoundAt(ImpliedAt(n)), RolesAt(ImpliedAt(n)))
<1>1. extractMessageInterfaces(as, d) =
        {Constant(n) : n \in defined} \cup {Chosen(n) : n \in picked}
          \cup {AtPassed(n) : n \in passed} \cup {AtImplied(n) : n \in implied}
  BY DEF extractMessageInterfaces
<1>2. \A n : Constant(n).name = n /\ RolesOf(Constant(n))
  BY MentionedAugmentedType
<1>3. \A n : Chosen(n).name = n /\ RolesOf(Chosen(n))
  BY MentionedAugmentedType
<1>4. \A n : AtPassed(n).name = n /\ RolesOf(AtPassed(n))
  BY FoundType
<1>5. \A n : AtImplied(n).name = n /\ RolesOf(AtImplied(n))
  BY FoundType
<1>6. /\ picked \cap defined = {} /\ passed \cap (defined \cup picked) = {}
      /\ implied \cap (defined \cup picked \cup passed) = {}
  OBVIOUS
<1>. DEFINE all == extractMessageInterfaces(as, d)
<1>. HIDE DEF Constant, Chosen, AtPassed, AtImplied, defined, picked, passed, implied
<1>7. \A m \in all : \/ m.name \in defined /\ m = Constant(m.name)
                     \/ m.name \in picked /\ m = Chosen(m.name)
                     \/ m.name \in passed /\ m = AtPassed(m.name)
                     \/ m.name \in implied /\ m = AtImplied(m.name)
  BY <1>1, <1>2, <1>3, <1>4, <1>5
<1>. HIDE DEF all
<1>8. OneEach(all)
  BY <1>6, <1>7 DEF OneEach
<1>9. \A m \in all : RolesOf(m)
  BY <1>2, <1>3, <1>4, <1>5, <1>7
<1>. QED
  BY <1>8, <1>9 DEF WellFormed, RolesTyped, RolesOf, all

(***************************************************************************)
(* Every step keeps the messages well formed and the marks sound           *)
(***************************************************************************)
Analysed(ms) == ms = NoAnalysis \/ WellFormed(ms)

IInv ==
  /\ marks = [a \in Apps |-> marks[a]]
  /\ \A a \in Apps : Analysed(messages[a])
  /\ MarksSound

LEMMA InitIInv == Init => IInv
<1>. SUFFICES ASSUME Init PROVE IInv
  OBVIOUS
<1>1. \A a \in Apps : messages[a] = NoAnalysis
  BY DEF Init
<1>2. marks = [a \in Apps |-> marks[a]]
  BY DEF Init
<1>3. DOMAIN View = {}
  BY <1>1 DEF View
<1>. QED
  BY <1>1, <1>2, <1>3 DEF IInv, Analysed, MarksSound

\* Applications that are analysed again have new messages, the others the old.
LEMMA ReanalysedMessages ==
  ASSUME NEW apps \in SUBSET Apps, \A a \in Apps : Analysed(messages[a]), Reanalysed(apps)
  PROVE  /\ \A a \in Apps : Analysed(messages'[a])
         /\ \A a \in Apps \ apps : messages'[a] = messages[a]
<1>1. messages' = [a \in Apps |-> IF a \notin apps THEN messages[a]
                                   ELSE IF ~HasSources(files'[a]) THEN NoAnalysis
                                   ELSE extractMessageInterfaces(analyses'[a], typeDict'[a])]
  BY DEF Reanalysed
<1>2. \A as, d : WellFormed(extractMessageInterfaces(as, d))
  BY ExtractedType
<1>3. ASSUME NEW a \in Apps
      PROVE  Analysed(messages'[a])
  <2>1. \/ messages'[a] = messages[a]
        \/ messages'[a] = NoAnalysis
        \/ messages'[a] = extractMessageInterfaces(analyses'[a], typeDict'[a])
    BY <1>1, <1>3
  <2>2. Analysed(messages[a])
    BY <1>3
  <2>3. WellFormed(extractMessageInterfaces(analyses'[a], typeDict'[a]))
    BY <1>2
  <2>. QED
    BY <2>1, <2>2, <2>3 DEF Analysed
<1>4. \A a \in Apps \ apps : messages'[a] = messages[a]
  BY <1>1
<1>. QED
  BY <1>3, <1>4

\* A new analysis has no marks, and those of the others are on the messages
\* they were on.
LEMMA ReanalysedMarks ==
  ASSUME NEW apps \in SUBSET Apps, IInv, Reanalysed(apps), marks' = [a \in Apps |-> marks'[a]],
         \A a \in Apps : marks'[a] = IF a \in apps THEN {} ELSE marks[a]
  PROVE  IInv'
<1>1. \A a \in Apps : Analysed(messages[a])
  BY DEF IInv
<1>2. /\ \A a \in Apps : Analysed(messages'[a])
      /\ \A a \in Apps \ apps : messages'[a] = messages[a]
  BY <1>1, ReanalysedMessages
<1>3. MarksSound'
  <2>. SUFFICES ASSUME NEW a \in Apps, messages'[a] # NoAnalysis, NEW m \in messages'[a], m.name \in marks'[a]
                PROVE  ~(MsgProduces(m) /\ MsgConsumes(m))
    BY DEF MarksSound, View
  <2>1. a \notin apps
    OBVIOUS
  <2>2. messages[a] # NoAnalysis /\ m \in messages[a] /\ m.name \in marks[a]
    BY <2>1, <1>2
  <2>. QED
    BY <2>2 DEF IInv, MarksSound, View
<1>. QED
  BY <1>2, <1>3 DEF IInv, Analysed

LEMMA SetFilesStep ==
  ASSUME IInv, NEW a \in Apps, NEW own, SetFiles(a, own)
  PROVE  IInv'
<1>1. Reanalysed({a}) /\ marks' = [marks EXCEPT ![a] = {}]
  BY DEF SetFiles
<1>2. marks = [b \in Apps |-> marks[b]]
  BY DEF IInv
<1>3. /\ marks' = [b \in Apps |-> marks'[b]]
      /\ \A b \in Apps : marks'[b] = IF b \in {a} THEN {} ELSE marks[b]
  BY <1>1, <1>2
<1>. QED
  BY <1>1, <1>3, ReanalysedMarks

LEMMA SetExternalStep ==
  ASSUME IInv, NEW shared, SetExternal(shared)
  PROVE  IInv'
<1>1. Reanalysed(Apps) /\ marks' = [a \in Apps |-> {}]
  BY DEF SetExternal
<1>2. /\ marks' = [a \in Apps |-> marks'[a]]
      /\ \A a \in Apps : marks'[a] = IF a \in Apps THEN {} ELSE marks[a]
  BY <1>1
<1>. QED
  BY <1>1, <1>2, ReanalysedMarks

\* An application that does both with a message is on both sides of it.
LEMMA AppMarksSound ==
  ASSUME NEW a \in DOMAIN View, NEW m \in View[a], MsgProduces(m), MsgConsumes(m)
  PROVE  m.name \notin AppMarks(View)
<1>1. a \in ProducersOf(m.name, View) /\ a \in ConsumersOf(m.name, View)
  BY DEF ProducersOf, ConsumersOf
<1>. QED
  BY <1>1 DEF AppMarks

\* The roles of the files say what the application does.
LEMMA FilesOfRoles ==
  ASSUME NEW m
  PROVE  (MsgProduces(m) <=> FileProducers(m) # {}) /\ (MsgConsumes(m) <=> FileConsumers(m) # {})
BY DEF MsgProduces, MsgConsumes, Roles, FileProducers, FileConsumers

\* A mark by the graph of the files is on a message with one side only, for no
\* other message has its name.
LEMMA FileMarksSound ==
  ASSUME NEW ms, OneEach(ms), NEW m \in ms, MsgProduces(m), MsgConsumes(m)
  PROVE  m.name \notin FileMarks(ms)
<1>1. ~OneSided(m)
  BY FilesOfRoles DEF OneSided
<1>2. \A n \in ms : n.name = m.name => n = m
  BY DEF OneEach
<1>. QED
  BY <1>1, <1>2 DEF FileMarks

LEMMA ViewAppsStep ==
  ASSUME IInv, ViewApps
  PROVE  IInv'
<1>1. /\ messages' = messages
      /\ marks' = [a \in Apps |-> IF a \in DOMAIN View THEN marks[a] \cup (AppMarks(View) \cap NamesIn(View[a]))
                                                        ELSE marks[a]]
  BY DEF ViewApps, analysis
<1>2. MarksSound'
  <2>. SUFFICES ASSUME NEW a \in DOMAIN View, NEW m \in messages[a], m.name \in marks'[a],
                       MsgProduces(m), MsgConsumes(m)
                PROVE  FALSE
    BY <1>1 DEF MarksSound, View
  <2>1. a \in Apps /\ View[a] = messages[a]
    BY DEF View
  <2>2. m.name \notin AppMarks(View)
    BY <2>1, AppMarksSound
  <2>3. m.name \in marks[a]
    BY <1>1, <2>1, <2>2
  <2>. QED
    BY <2>3 DEF IInv, MarksSound
<1>3. marks' = [a \in Apps |-> marks'[a]]
  BY <1>1
<1>. QED
  BY <1>1, <1>2, <1>3 DEF IInv, Analysed

LEMMA ViewFilesStep ==
  ASSUME IInv, NEW a \in Apps, ViewFiles(a)
  PROVE  IInv'
<1>1. /\ messages' = messages /\ a \in DOMAIN View
      /\ marks' = [marks EXCEPT ![a] = @ \cup FileMarks(messages[a])]
  BY DEF ViewFiles, analysis
<1>2. marks = [b \in Apps |-> marks[b]]
  BY DEF IInv
<1>3. OneEach(messages[a])
  BY <1>1 DEF IInv, View, Analysed, WellFormed
<1>4. \A b \in Apps : marks'[b] = IF b = a THEN marks[a] \cup FileMarks(messages[a]) ELSE marks[b]
  BY <1>1, <1>2
<1>5. MarksSound'
  <2>. SUFFICES ASSUME NEW b \in DOMAIN View, NEW m \in messages[b], m.name \in marks'[b],
                       MsgProduces(m), MsgConsumes(m)
                PROVE  FALSE
    BY <1>1 DEF MarksSound, View
  <2>1. b \in Apps
    BY DEF View
  <2>2. b = a => m.name \notin FileMarks(messages[a])
    BY <1>3, FileMarksSound
  <2>3. m.name \in marks[b]
    BY <1>4, <2>1, <2>2
  <2>. QED
    BY <2>3 DEF IInv, MarksSound
<1>6. marks' = [b \in Apps |-> marks'[b]]
  BY <1>1, <1>2
<1>. QED
  BY <1>1, <1>5, <1>6 DEF IInv, Analysed

LEMMA StepIInv == IInv /\ [Next]_vars => IInv'
<1>. SUFFICES ASSUME IInv, [Next]_vars
              PROVE  IInv'
  OBVIOUS
<1>1. ASSUME NEW n \in DOMAIN program, AddExternal(n)
      PROVE  IInv'
  BY <1>1, SetExternalStep DEF AddExternal
<1>2. ASSUME NEW n \in DOMAIN program, RemoveExternal(n)
      PROVE  IInv'
  BY <1>2, SetExternalStep DEF RemoveExternal
<1>3. ASSUME NEW n \in DOMAIN program, NEW a \in Apps, AddFile(a, n)
      PROVE  IInv'
  BY <1>3, SetFilesStep DEF AddFile
<1>4. ASSUME NEW n \in DOMAIN program, NEW a \in Apps, RemoveFile(a, n)
      PROVE  IInv'
  BY <1>4, SetFilesStep DEF RemoveFile
<1>5. CASE ViewApps
  BY <1>5, ViewAppsStep
<1>6. ASSUME NEW a \in Apps, ViewFiles(a)
      PROVE  IInv'
  BY <1>6, ViewFilesStep
<1>7. CASE UNCHANGED vars
  BY <1>7 DEF vars, analysis, IInv, Analysed, MarksSound, View
<1>. QED
  BY <1>1, <1>2, <1>3, <1>4, <1>5, <1>6, <1>7 DEF Next

LEMMA InvariantIInv == Spec => []IInv
BY InitIInv, StepIInv, PTL DEF Spec

\* A message that is marked as incomplete is never one the application both
\* produces and consumes, whatever is loaded, removed and looked at.
THEOREM MarksSoundCorrect == Spec => []MarksSound
<1>1. IInv => MarksSound
  BY DEF IInv
<1>. QED
  BY <1>1, InvariantIInv, PTL

(***************************************************************************)
(* The files of the applications                                           *)
(***************************************************************************)
\* A list of files as the registry keeps it: each name once.
Listed(seq) ==
  /\ seq \in Seq(DOMAIN program) /\ Len(seq) <= MaxFiles
  /\ \A i, j \in DOMAIN seq : program[seq[i]].name = program[seq[j]].name => i = j

LEMMA EmptyListed == Listed(<<>>)
BY InterfacesAssumption DEF Listed

LEMMA AppendListed ==
  ASSUME NEW seq, Listed(seq), NEW n \in DOMAIN program,
         ~Named(seq, program[n].name), Len(seq) < MaxFiles
  PROVE  Listed(Append(seq, n))
<1>. DEFINE longer == Append(seq, n)
            last == Len(seq) + 1
<1>1. /\ longer \in Seq(DOMAIN program) /\ Len(longer) = last /\ longer[last] = n
      /\ DOMAIN longer = 1 .. last /\ DOMAIN seq = 1 .. Len(seq) /\ Len(seq) \in Nat
      /\ \A i \in 1 .. Len(seq) : longer[i] = seq[i]
  BY DEF Listed
<1>2. Len(longer) <= MaxFiles
  BY <1>1, InterfacesAssumption
<1>. HIDE DEF longer
<1>3. ASSUME NEW i \in DOMAIN longer, NEW j \in DOMAIN longer,
             program[longer[i]].name = program[longer[j]].name
      PROVE  i = j
  <2>1. CASE i = last /\ j = last
    BY <2>1
  <2>2. CASE i = last /\ j # last
    BY <1>1, <1>3, <2>2 DEF Named
  <2>3. CASE i # last /\ j = last
    BY <1>1, <1>3, <2>3 DEF Named
  <2>4. CASE i # last /\ j # last
    <3>1. i \in DOMAIN seq /\ j \in DOMAIN seq /\ longer[i] = seq[i] /\ longer[j] = seq[j]
      BY <1>1, <2>4
    <3>. QED
      BY <1>3, <3>1 DEF Listed
  <2>. QED
    BY <2>1, <2>2, <2>3, <2>4
<1>4. Listed(longer)
  BY <1>1, <1>2, <1>3 DEF Listed
<1>. QED
  BY <1>4 DEF longer

LEMMA RemoveListed ==
  ASSUME NEW seq, Listed(seq), NEW n \in DOMAIN seq
  PROVE  Listed(RemoveAt(seq, n))
<1>. DEFINE shorter == RemoveAt(seq, n)
            Old(i) == IF i < n THEN i ELSE i + 1
<1>1. seq \in Seq(DOMAIN program) /\ Len(seq) \in Nat /\ n \in 1 .. Len(seq)
  BY DEF Listed
<1>2. /\ SubSeq(seq, 1, n - 1) \in Seq(DOMAIN program)
      /\ Len(SubSeq(seq, 1, n - 1)) = n - 1
      /\ \A i \in 1 .. n - 1 : SubSeq(seq, 1, n - 1)[i] = seq[i]
  BY <1>1
<1>3. /\ SubSeq(seq, n + 1, Len(seq)) \in Seq(DOMAIN program)
      /\ Len(SubSeq(seq, n + 1, Len(seq))) = Len(seq) - n
      /\ \A i \in 1 .. Len(seq) - n : SubSeq(seq, n + 1, Len(seq))[i] = seq[n + i]
  BY <1>1
<1>4. /\ shorter \in Seq(DOMAIN program) /\ Len(shorter) = Len(seq) - 1
      /\ DOMAIN shorter = 1 .. Len(seq) - 1
      /\ \A i \in 1 .. Len(seq) - 1 : shorter[i] = seq[Old(i)]
  <2>. DEFINE A == SubSeq(seq, 1, n - 1)
              B == SubSeq(seq, n + 1, Len(seq))
  <2>1. shorter = A \o B
    BY DEF RemoveAt
  <2>. HIDE DEF A, B, shorter
  <2>2. /\ A \in Seq(DOMAIN program) /\ Len(A) = n - 1
        /\ B \in Seq(DOMAIN program) /\ Len(B) = Len(seq) - n
    BY <1>2, <1>3 DEF A, B
  <2>3. /\ shorter \in Seq(DOMAIN program) /\ Len(shorter) = Len(seq) - 1
        /\ DOMAIN shorter = 1 .. Len(seq) - 1
    BY <1>1, <2>1, <2>2
  <2>4. ASSUME NEW i \in 1 .. Len(seq) - 1 PROVE shorter[i] = seq[Old(i)]
    <3>1. CASE i < n
      <4>1. i \in 1 .. n - 1
        BY <1>1, <3>1
      <4>2. i \in 1 .. Len(A) + Len(B) /\ i <= Len(A)
        BY <1>1, <2>2, <4>1
      <4>3. (A \o B)[i] = IF i <= Len(A) THEN A[i] ELSE B[i - Len(A)]
        BY <2>2, <4>2, ConcatProperties
      <4>4. shorter[i] = A[i]
        BY <2>1, <4>2, <4>3, Zenon
      <4>. QED
        BY <1>2, <3>1, <4>1, <4>4 DEF A
    <3>2. CASE ~(i < n)
      <4>1. i - (n - 1) \in 1 .. Len(seq) - n /\ n + (i - (n - 1)) = i + 1
        BY <1>1, <3>2
      <4>2. Len(A) \in Nat /\ i \in Nat /\ ~(i <= Len(A)) /\ i <= Len(A) + Len(B)
        BY <1>1, <2>2, <3>2
      <4>3. i \in 1 .. Len(A) + Len(B)
        BY <1>1, <2>2
      <4>4. (A \o B)[i] = IF i <= Len(A) THEN A[i] ELSE B[i - Len(A)]
        BY <2>2, <4>3, ConcatProperties
      <4>5. shorter[i] = B[i - Len(A)]
        BY <2>1, <4>2, <4>4, Zenon
      <4>. QED
        BY <1>3, <2>2, <3>2, <4>1, <4>5 DEF B
    <3>. QED
      BY <3>1, <3>2
  <2>. QED
    BY <2>3, <2>4
<1>. HIDE DEF shorter
<1>5. \A i, j \in 1 .. Len(seq) - 1 :
        Old(i) \in DOMAIN seq /\ Old(j) \in DOMAIN seq /\ (Old(i) = Old(j) => i = j)
  BY <1>1
<1>. HIDE DEF Old
<1>6. \A i, j \in DOMAIN shorter : program[shorter[i]].name = program[shorter[j]].name => i = j
  BY <1>4, <1>5 DEF Listed
<1>7. Len(shorter) <= MaxFiles
  BY <1>1, <1>4, InterfacesAssumption DEF Listed
<1>8. Listed(shorter)
  BY <1>4, <1>6, <1>7 DEF Listed
<1>. QED
  BY <1>8 DEF shorter

\* NoAnalysis is no set of messages, as null is none in the code.  Any value that
\* is not a set of records with the fields of a message will do.
Distinguished == \A as, d : extractMessageInterfaces(as, d) # NoAnalysis

\* An application has an analysis exactly if it has a source file, and marks
\* only on messages of it.
TypeInv ==
  /\ IInv
  /\ chosen \in DOMAIN Programs
  /\ files = [a \in Apps |-> files[a]]
  /\ \A a \in Apps : Listed(files[a])
  /\ Listed(external)
  /\ \A a \in Apps :
       /\ messages[a] # NoAnalysis <=> HasSources(files[a])
       /\ messages[a] = NoAnalysis => marks[a] = {}
       /\ messages[a] # NoAnalysis => marks[a] \subseteq NamesIn(messages[a])

LEMMA TypeInvImplies == TypeInv => TypeOK
<1>. SUFFICES ASSUME TypeInv PROVE TypeOK
  OBVIOUS
<1>1. \A seq : Listed(seq) =>
        /\ Len(seq) <= MaxFiles /\ ToSet(seq) \subseteq DOMAIN program
        /\ \A i, j \in DOMAIN seq : program[seq[i]].name = program[seq[j]].name => i = j
  BY DEF Listed, ToSet
<1>2. \A a \in Apps : a \in DOMAIN View <=> messages[a] # NoAnalysis
  BY DEF View
<1>3. \A a \in Apps : (a \in DOMAIN View) = HasSources(files[a])
  <2>1. ASSUME NEW a \in Apps PROVE a \in DOMAIN View <=> HasSources(files[a])
    BY <1>2 DEF TypeInv
  <2>2. \A a \in Apps : HasSources(files[a]) \in BOOLEAN /\ (a \in DOMAIN View) \in BOOLEAN
    BY DEF HasSources
  <2>. QED
    BY <2>1, <2>2
<1>4. \A a \in Apps : messages[a] # NoAnalysis => OneEach(messages[a])
  BY DEF TypeInv, IInv, Analysed, WellFormed
<1>. QED
  BY <1>1, <1>2, <1>3, <1>4 DEF TypeInv, TypeOK

LEMMA TypeInvInit == Init => TypeInv
<1>. SUFFICES ASSUME Init PROVE TypeInv
  OBVIOUS
<1>1. /\ \A a \in Apps : files[a] = <<>> /\ messages[a] = NoAnalysis /\ marks[a] = {}
      /\ external = <<>> /\ chosen \in DOMAIN Programs /\ files = [a \in Apps |-> files[a]]
  BY DEF Init
<1>2. ~HasSources(<<>>)
  BY DEF HasSources
<1>. QED
  BY <1>1, <1>2, InitIInv, EmptyListed DEF TypeInv

\* An analysis of the applications whose files changed.
LEMMA TypeInvReanalysed ==
  ASSUME Distinguished, TypeInv, IInv', NEW apps \in SUBSET Apps, Reanalysed(apps), chosen' = chosen,
         files' = [a \in Apps |-> files'[a]], \A a \in Apps : Listed(files'[a]), Listed(external'),
         \A a \in Apps \ apps : files'[a] = files[a] /\ marks'[a] = marks[a],
         \A a \in apps : marks'[a] = {}
  PROVE  TypeInv'
<1>1. messages' = [a \in Apps |-> IF a \notin apps THEN messages[a]
                                   ELSE IF ~HasSources(files'[a]) THEN NoAnalysis
                                   ELSE extractMessageInterfaces(analyses'[a], typeDict'[a])]
  BY DEF Reanalysed
<1>2. program' = program
  BY DEF program
<1>3. \A seq : Listed(seq)' <=> Listed(seq)'
  OBVIOUS
<1>4. ASSUME NEW a \in Apps
      PROVE  /\ messages'[a] # NoAnalysis <=> HasSources(files'[a])
             /\ messages'[a] = NoAnalysis => marks'[a] = {}
             /\ messages'[a] # NoAnalysis => marks'[a] \subseteq NamesIn(messages'[a])
  <2>1. CASE a \in apps
    <3>1. messages'[a] # NoAnalysis <=> HasSources(files'[a])
      BY <1>1, <2>1 DEF Distinguished
    <3>. QED
      BY <2>1, <3>1
  <2>2. CASE a \notin apps
    <3>1. messages'[a] = messages[a] /\ files'[a] = files[a] /\ marks'[a] = marks[a]
      BY <1>1, <2>2
    <3>. QED
      BY <3>1 DEF TypeInv
  <2>. QED
    BY <2>1, <2>2
<1>. QED
  BY <1>2, <1>4 DEF TypeInv, Listed, HasSources

LEMMA TypeInvSetFiles ==
  ASSUME Distinguished, TypeInv, NEW a \in Apps, NEW own, Listed(own), SetFiles(a, own)
  PROVE  TypeInv'
<1>1. /\ Reanalysed({a}) /\ files' = [files EXCEPT ![a] = own] /\ chosen' = chosen
      /\ external' = external /\ marks' = [marks EXCEPT ![a] = {}]
  BY DEF SetFiles
<1>2. /\ files = [b \in Apps |-> files[b]] /\ marks = [b \in Apps |-> marks[b]]
      /\ \A b \in Apps : Listed(files[b])
  BY DEF TypeInv, IInv
<1>3. /\ files' = [b \in Apps |-> files'[b]]
      /\ \A b \in Apps : files'[b] = IF b = a THEN own ELSE files[b]
      /\ \A b \in Apps : marks'[b] = IF b = a THEN {} ELSE marks[b]
  BY <1>1, <1>2
<1>4. IInv'
  BY SetFilesStep DEF TypeInv
<1>5. \A b \in Apps : Listed(files'[b])
  BY <1>2, <1>3
<1>6. Listed(external')
  BY <1>1 DEF TypeInv
<1>. QED
  BY <1>1, <1>3, <1>4, <1>5, <1>6, TypeInvReanalysed

LEMMA TypeInvSetExternal ==
  ASSUME Distinguished, TypeInv, NEW shared, Listed(shared), SetExternal(shared)
  PROVE  TypeInv'
<1>1. /\ Reanalysed(Apps) /\ files' = files /\ chosen' = chosen
      /\ external' = shared /\ marks' = [a \in Apps |-> {}]
  BY DEF SetExternal
<1>2. files = [a \in Apps |-> files[a]] /\ \A a \in Apps : Listed(files[a])
  BY DEF TypeInv
<1>3. IInv'
  BY SetExternalStep DEF TypeInv
<1>. QED
  BY <1>1, <1>2, <1>3, TypeInvReanalysed

\* Marks are only made on messages that are there.
LEMMA TypeInvMarked ==
  ASSUME TypeInv, IInv', UNCHANGED <<loaded, analysis>>,
         \A a \in Apps : \/ marks'[a] = marks[a]
                         \/ messages[a] # NoAnalysis /\ marks'[a] \subseteq marks[a] \cup NamesIn(messages[a])
  PROVE  TypeInv'
<1>1. /\ messages' = messages /\ files' = files /\ external' = external /\ chosen' = chosen
  BY DEF loaded, analysis
<1>2. program' = program
  BY <1>1 DEF program
<1>. QED
  BY <1>1, <1>2 DEF TypeInv, Listed, HasSources

LEMMA TypeInvStep == Distinguished /\ TypeInv /\ [Next]_vars => TypeInv'
<1>. SUFFICES ASSUME Distinguished, TypeInv, [Next]_vars
              PROVE  TypeInv'
  OBVIOUS
<1>0. IInv'
  BY StepIInv DEF TypeInv
<1>1. ASSUME NEW n \in DOMAIN program, AddExternal(n)
      PROVE  TypeInv'
  <2>1. Listed(Append(external, n))
    BY <1>1, AppendListed DEF AddExternal, TypeInv
  <2>. QED
    BY <1>1, <2>1, TypeInvSetExternal DEF AddExternal
<1>2. ASSUME NEW n \in DOMAIN program, RemoveExternal(n)
      PROVE  TypeInv'
  <2>1. PICK i \in DOMAIN external : SetExternal(RemoveAt(external, i))
    BY <1>2 DEF RemoveExternal
  <2>2. Listed(RemoveAt(external, i))
    BY RemoveListed DEF TypeInv
  <2>. QED
    BY <2>1, <2>2, TypeInvSetExternal
<1>3. ASSUME NEW n \in DOMAIN program, NEW a \in Apps, AddFile(a, n)
      PROVE  TypeInv'
  <2>1. Listed(Append(files[a], n))
    BY <1>3, AppendListed DEF AddFile, TypeInv
  <2>. QED
    BY <1>3, <2>1, TypeInvSetFiles DEF AddFile
<1>4. ASSUME NEW n \in DOMAIN program, NEW a \in Apps, RemoveFile(a, n)
      PROVE  TypeInv'
  <2>1. PICK i \in DOMAIN files[a] : SetFiles(a, RemoveAt(files[a], i))
    BY <1>4 DEF RemoveFile
  <2>2. Listed(RemoveAt(files[a], i))
    BY RemoveListed DEF TypeInv
  <2>. QED
    BY <2>1, <2>2, TypeInvSetFiles
<1>5. CASE ViewApps
  <2>1. /\ UNCHANGED <<loaded, analysis>>
        /\ marks' = [a \in Apps |-> IF a \in DOMAIN View THEN marks[a] \cup (AppMarks(View) \cap NamesIn(View[a]))
                                                          ELSE marks[a]]
    BY <1>5 DEF ViewApps
  <2>2. \A a \in DOMAIN View : messages[a] # NoAnalysis /\ View[a] = messages[a]
    BY DEF View
  <2>. QED
    BY <1>0, <2>1, <2>2, TypeInvMarked
<1>6. ASSUME NEW a \in Apps, ViewFiles(a)
      PROVE  TypeInv'
  <2>1. /\ UNCHANGED <<loaded, analysis>> /\ messages[a] # NoAnalysis
        /\ marks' = [marks EXCEPT ![a] = @ \cup FileMarks(messages[a])]
    BY <1>6 DEF ViewFiles, View
  <2>2. FileMarks(messages[a]) \subseteq NamesIn(messages[a])
    BY DEF FileMarks, NamesIn
  <2>3. marks = [b \in Apps |-> marks[b]]
    BY DEF TypeInv, IInv
  <2>4. \A b \in Apps : marks'[b] = IF b = a THEN marks[a] \cup FileMarks(messages[a]) ELSE marks[b]
    BY <2>1, <2>3
  <2>. QED
    BY <1>0, <2>1, <2>2, <2>4, TypeInvMarked
<1>7. CASE UNCHANGED vars
  BY <1>0, <1>7, TypeInvMarked DEF vars
<1>. QED
  BY <1>1, <1>2, <1>3, <1>4, <1>5, <1>6, <1>7 DEF Next

\* However files are loaded and removed, names stay distinct and lists within
\* their bounds, an application has an analysis exactly while it has a source
\* file, with one entry per message, and marks only on messages of it.
THEOREM InterfacesTypeCorrect ==
  ASSUME Distinguished
  PROVE  Spec => []TypeOK
<1>1. Init => TypeInv
  BY TypeInvInit
<1>2. TypeInv /\ [Next]_vars => TypeInv'
  BY TypeInvStep, Distinguished
<1>3. TypeInv => TypeOK
  BY TypeInvImplies
<1>. QED
  BY <1>1, <1>2, <1>3, PTL DEF Spec

(***************************************************************************)
(* What the assistant is told                                              *)
(***************************************************************************)
Carriers(n) == {e \in buildAppGraph(View) : n \in e.messages}

\* An edge carries a message exactly if the message has a route.
LEMMA EdgeOfRoute ==
  ASSUME NEW n \in Seen(View)
  PROVE  Carriers(n) # {} <=> Routes(n, View) # {}
<1>. DEFINE arrows == Arrows(View)
            Edge(pair) ==
              [arrows |-> pair, messages |-> UNION {Carried(arrow, View) : arrow \in pair},
               direction |-> EdgeDirection(pair, \E arrow \in pair : Sure(arrow, View))]
<1>1. buildAppGraph(View) = {Edge(DrawnPair(arrow, arrows)) : arrow \in arrows}
  BY DEF buildAppGraph
<1>2. ASSUME NEW arrow \in Routes(n, View)
      PROVE  Carriers(n) # {}
  <2>1. arrow \in arrows /\ n \in Carried(arrow, View)
    BY <1>2 DEF Arrows, Carried
  <2>2. arrow \in DrawnPair(arrow, arrows)
    BY <2>1 DEF DrawnPair
  <2>3. n \in Edge(DrawnPair(arrow, arrows)).messages
    BY <2>1, <2>2
  <2>. QED
    BY <1>1, <2>1, <2>3 DEF Carriers
<1>3. ASSUME NEW e \in Carriers(n)
      PROVE  Routes(n, View) # {}
  <2>1. PICK arrow \in arrows : e = Edge(DrawnPair(arrow, arrows))
    BY <1>1, <1>3 DEF Carriers
  <2>2. PICK other : n \in Carried(other, View)
    BY <1>3, <2>1 DEF Carriers
  <2>. QED
    BY <2>2 DEF Carried
<1>. QED
  BY <1>2, <1>3

LEMMA ProductNonEmpty ==
  ASSUME NEW S, NEW T
  PROVE  S \X T # {} <=> S # {} /\ T # {}
<1>1. ASSUME NEW s \in S, NEW t \in T
      PROVE  S \X T # {}
  <2>1. <<s, t>> \in S \X T
    OBVIOUS
  <2>. QED
    BY <2>1
<1>2. ASSUME NEW p \in S \X T
      PROVE  S # {} /\ T # {}
  <2>1. p[1] \in S /\ p[2] \in T
    OBVIOUS
  <2>. QED
    BY <2>1
<1>. QED
  BY <1>1, <1>2

\* A message has a route exactly if it has both sides, and not only
\* applications that are on both.
LEMMA RouteOfSides ==
  ASSUME NEW n, NEW P, NEW C, P = ProducersOf(n, View), C = ConsumersOf(n, View)
  PROVE  Routes(n, View) # {} <=> P # {} /\ C # {} /\ P \cup C # P \cap C
<1>. DEFINE transit == P \cap C
            before == P \ C
            after == C \ P
            into == before \X transit
            outOf == transit \X after
<1>1. Routes(n, View) = IF transit = {} THEN P \X C ELSE into \cup outOf
  BY DEF Routes
<1>2. CASE transit = {}
  <2>1. P \X C # {} <=> P # {} /\ C # {}
    BY ProductNonEmpty
  <2>. QED
    BY <1>1, <1>2, <2>1
<1>3. CASE transit # {}
  <2>1. Routes(n, View) = into \cup outOf
    BY <1>1, <1>3
  <2>2. P \cup C # P \cap C <=> before # {} \/ after # {}
    OBVIOUS
  <2>3. P # {} /\ C # {}
    BY <1>3
  <2>. HIDE DEF transit, before, after
  <2>4. into # {} <=> before # {}
    BY <1>3, ProductNonEmpty
  <2>5. outOf # {} <=> after # {}
    BY <1>3, ProductNonEmpty
  <2>. HIDE DEF into, outOf
  <2>. QED
    BY <2>1, <2>2, <2>3, <2>4, <2>5
<1>. QED
  BY <1>2, <1>3

\* By the three roles there are, the assistant and the graph see the same
\* sides, but for the names of the applications.
LEMMA ToolSides ==
  ASSUME \A a \in DOMAIN View : RolesTyped(View[a]), NEW a \in DOMAIN View, NEW m \in View[a]
  PROVE  (ToolProduces(m) <=> MsgProduces(m)) /\ (ToolConsumes(m) <=> MsgConsumes(m))
<1>1. \A f \in DOMAIN m.roles : m.roles[f] \in RoleNames
  BY DEF RolesTyped
<1>. QED
  BY <1>1 DEF RoleNames, ToolProduces, ToolConsumes, MsgProduces, MsgConsumes, Roles

NamesOf(apps, NameOf) == {NameOf[a] : a \in apps}

\* Where no two of the parties have one name, no two sides become one.
LEMMA NamesAgree ==
  ASSUME NEW NameOf, NEW P, NEW C, \A a, b \in P \cup C : NameOf[a] = NameOf[b] => a = b
  PROVE  NamesOf(P, NameOf) \cup NamesOf(C, NameOf) = NamesOf(P, NameOf) \cap NamesOf(C, NameOf)
           <=> P \cup C = P \cap C
<1>1. ASSUME NamesOf(P, NameOf) \cup NamesOf(C, NameOf) = NamesOf(P, NameOf) \cap NamesOf(C, NameOf)
      PROVE  P \cup C = P \cap C
  BY <1>1 DEF NamesOf
<1>2. ASSUME P \cup C = P \cap C
      PROVE  NamesOf(P, NameOf) \cup NamesOf(C, NameOf) = NamesOf(P, NameOf) \cap NamesOf(C, NameOf)
  <2>1. P = C
    BY <1>2
  <2>. QED
    BY <2>1
<1>. QED
  BY <1>1, <1>2

LEMMA SomeNames ==
  ASSUME NEW NameOf, NEW P
  PROVE  NamesOf(P, NameOf) = {} <=> P = {}
BY DEF NamesOf

LEMMA ToldOfSides ==
  ASSUME \A a \in DOMAIN View : RolesTyped(View[a]), NEW NameOf, NEW told \in crossAppEdges(View, NameOf)
  PROVE  /\ told.constant \in Seen(View)
         /\ told.producers = NamesOf(ProducersOf(told.constant, View), NameOf)
         /\ told.consumers = NamesOf(ConsumersOf(told.constant, View), NameOf)
         /\ told.transitApps = told.producers \cap told.consumers
         /\ told.unmatched <=> told.producers = {} \/ told.consumers = {}
<1>. DEFINE With(n, Does(_)) == {NameOf[a] : a \in {a \in DOMAIN View : \E m \in View[a] : m.name = n /\ Does(m)}}
            producers == [n \in Seen(View) |-> With(n, ToolProduces)]
            consumers == [n \in Seen(View) |-> With(n, ToolConsumes)]
<1>1. PICK n \in Seen(View) :
        told = [constant |-> n, producers |-> producers[n], consumers |-> consumers[n],
                transitApps |-> producers[n] \cap consumers[n],
                unmatched |-> producers[n] = {} \/ consumers[n] = {}]
  BY DEF crossAppEdges
<1>2. producers[n] = NamesOf(ProducersOf(n, View), NameOf)
  BY ToolSides DEF NamesOf, ProducersOf
<1>3. consumers[n] = NamesOf(ConsumersOf(n, View), NameOf)
  BY ToolSides DEF NamesOf, ConsumersOf
<1>. HIDE DEF producers, consumers
<1>. QED
  BY <1>1, <1>2, <1>3

\* ToolsAgree: whatever the applications are called, the assistant is not told
\* that a message the graph draws is unmatched; and it is told of one as matched
\* exactly if the graph draws it or only applications that pass it on have it,
\* where those that produce or consume it are told apart by their names
\* (llm/tools.ts 262-306, App.tsx 195-215).
THEOREM ToolsAgreeCorrect == Spec => []ToolsAgree
<1>1. IInv => ToolsAgree
  <2>. DEFINE Drawn(n) == \E e \in buildAppGraph(View) : n \in e.messages
  <2>. SUFFICES ASSUME IInv, NEW NameOf \in [Apps -> Names], NEW told \in crossAppEdges(View, NameOf)
                PROVE  /\ Drawn(told.constant) => ~told.unmatched
                       /\ ToldApart(told.constant, NameOf) =>
                            (Drawn(told.constant) <=> (~told.unmatched /\ told.producers \cup told.consumers # told.transitApps))
    BY DEF ToolsAgree
  <2>. DEFINE n == told.constant
              P == ProducersOf(n, View)
              C == ConsumersOf(n, View)
  <2>1. \A a \in DOMAIN View : RolesTyped(View[a])
    BY DEF IInv, View, Analysed, WellFormed
  <2>2. /\ n \in Seen(View) /\ told.producers = NamesOf(P, NameOf) /\ told.consumers = NamesOf(C, NameOf)
        /\ told.transitApps = told.producers \cap told.consumers
        /\ told.unmatched <=> told.producers = {} \/ told.consumers = {}
    BY <2>1, ToldOfSides
  <2>3. told.unmatched <=> P = {} \/ C = {}
    BY <2>2, SomeNames
  <2>4. Carriers(n) # {} <=> P # {} /\ C # {} /\ P \cup C # P \cap C
    BY <2>2, EdgeOfRoute, RouteOfSides
  <2>5. Drawn(n) <=> Carriers(n) # {}
    BY DEF Carriers
  <2>. HIDE DEF Drawn
  <2>6. ASSUME ToldApart(n, NameOf)
        PROVE  P \cup C # P \cap C <=> told.producers \cup told.consumers # told.transitApps
    <3>1. \A a, b \in P \cup C : NameOf[a] = NameOf[b] => a = b
      BY <2>6 DEF ToldApart
    <3>. HIDE DEF P, C
    <3>. QED
      BY <2>2, <3>1, NamesAgree
  <2>. HIDE DEF P, C, n
  <2>7. Drawn(n) => ~told.unmatched
    BY <2>3, <2>4, <2>5
  <2>8. ToldApart(n, NameOf) =>
          (Drawn(n) <=> (~told.unmatched /\ told.producers \cup told.consumers # told.transitApps))
    BY <2>3, <2>4, <2>5, <2>6
  <2>. QED
    BY <2>7, <2>8 DEF n
<1>. QED
  BY <1>1, InvariantIInv, PTL

(***************************************************************************)
(* Positions                                                               *)
(***************************************************************************)
\* The first of some positions.
LEMMA Least ==
  ASSUME NEW S \in SUBSET Nat, S # {}
  PROVE  \E x \in S : \A y \in S : x <= y
<1>1. PICK x \in S : \A y \in S : ~ (<<y, x>> \in OpToRel(<, Nat))
  BY NatLessThanWellFounded, WFMin
<1>2. \A y \in S : ~ (y < x)
  BY <1>1 DEF OpToRel
<1>. QED
  BY <1>2

\* So there is one in sequences of sequences.
LEMMA ForemostExists ==
  ASSUME NEW S \in SUBSET (Nat \X Nat), S # {}
  PROVE  Foremost(S) # {}
<1>. DEFINE lines == {s[1] : s \in S}
<1>1. lines \in SUBSET Nat /\ lines # {}
  OBVIOUS
<1>2. PICK x \in lines : \A y \in lines : x <= y
  BY <1>1, Least
<1>. DEFINE columns == {s[2] : s \in {s \in S : s[1] = x}}
<1>3. columns \in SUBSET Nat /\ columns # {}
  BY <1>2
<1>4. PICK z \in columns : \A y \in columns : z <= y
  BY <1>3, Least
<1>5. PICK s \in S : s[1] = x /\ s[2] = z
  BY <1>4
<1>6. ASSUME NEW t \in S PROVE ~Earlier(t, s)
  <2>1. x <= t[1] /\ x \in Nat /\ t[1] \in Nat /\ z \in Nat /\ t[2] \in Nat
    BY <1>1, <1>2, <1>3, <1>4
  <2>2. t[1] = x => z <= t[2]
    BY <1>4
  <2>. QED
    BY <1>5, <2>1, <2>2 DEF Earlier
<1>. QED
  BY <1>5, <1>6 DEF Foremost

\* And no other.
LEMMA ForemostUnique ==
  ASSUME NEW S \in SUBSET (Nat \X Nat), NEW s \in Foremost(S), NEW t \in Foremost(S)
  PROVE  s = t
BY DEF Foremost, Earlier

LEMMA TheMember ==
  ASSUME NEW S, S # {}
  PROVE  The(S) \in S
BY DEF The

(***************************************************************************)
(* The calls of a text                                                     *)
(***************************************************************************)
LEMMA PatternType ==
  ASSUME NEW j \in DOMAIN Patterns
  PROVE  j \in Nat /\ j > 0 /\ Patterns[j].direction \in Directions
<1>1. Patterns \in Seq(Pattern) /\ DOMAIN Patterns = 1 .. Len(Patterns) /\ Len(Patterns) \in Nat
  BY SourcesAssumption
<1>2. j \in 1 .. Len(Patterns)
  BY <1>1
<1>3. Patterns[j] \in Pattern
  BY <1>1, <1>2
<1>. QED
  BY <1>2, <1>3 DEF Pattern

\* The entries that are not a pattern's: each call of the C library once.
LEMMA LibraryEntries ==
  ASSUME NEW f
  PROVE  /\ DOMAIN LibraryCalls(f) \subseteq DOMAIN f.calls
         /\ \A k \in DOMAIN LibraryCalls(f) :
              /\ f.calls[k].callee \in DOMAIN IPC_CALLS
              /\ LibraryCalls(f)[k] = Ipc(IPC_CALLS[f.calls[k].callee], f.calls[k].callee, Nothing)
         /\ \A k \in DOMAIN f.calls :
              /\ f.calls[k].callee \in DOMAIN IPC_CALLS
              /\ \A j \in 1 .. k - 1 : f.calls[j].callee # f.calls[k].callee
              => k \in DOMAIN LibraryCalls(f)
BY DEF LibraryCalls

LEMMA ShallowEntries ==
  ASSUME NEW f, f.calls \in Seq(CallExpression)
  PROVE  /\ DOMAIN Shallow(f) = DOMAIN LibraryCalls(f) \cup {Len(f.calls) + j : j \in Matching(f)}
         /\ DOMAIN Shallow(f) \subseteq Nat
         /\ \A k \in DOMAIN LibraryCalls(f) : k <= Len(f.calls) /\ Shallow(f)[k] = LibraryCalls(f)[k]
         /\ \A j \in Matching(f) :
              /\ j \in DOMAIN Patterns /\ j \in Nat
              /\ ~ (Len(f.calls) + j <= Len(f.calls))
              /\ Shallow(f)[Len(f.calls) + j]
                   = Ipc(Patterns[j].type, Patterns[j].name, Patterns[j].direction)
<1>1. Len(f.calls) \in Nat /\ DOMAIN f.calls = 1 .. Len(f.calls)
  OBVIOUS
<1>3. \A j \in Matching(f) : /\ j \in DOMAIN Patterns /\ j \in Nat /\ j > 0 /\ Len(f.calls) + j \in Nat
                             /\ ~ (Len(f.calls) + j <= Len(f.calls)) /\ Len(f.calls) + j - Len(f.calls) = j
  BY <1>1, PatternType DEF Matching
<1>4. \A k \in DOMAIN LibraryCalls(f) : k \in Nat /\ k <= Len(f.calls)
  BY <1>1, LibraryEntries
<1>. DEFINE library == LibraryCalls(f)
            last == Len(f.calls)
            at == DOMAIN library \cup {last + j : j \in Matching(f)}
<1>5. Shallow(f) = [i \in at |-> IF i <= last THEN library[i]
                                ELSE Ipc(Patterns[i - last].type, Patterns[i - last].name, Patterns[i - last].direction)]
  BY DEF Shallow
<1>6. DOMAIN Shallow(f) = at
  BY <1>5
<1>. HIDE DEF library, last
<1>7. \A k \in DOMAIN library : k <= last => Shallow(f)[k] = library[k]
  BY <1>5
<1>8. ASSUME NEW j \in Matching(f)
      PROVE  Shallow(f)[last + j] = Ipc(Patterns[j].type, Patterns[j].name, Patterns[j].direction)
  <2>1. ~ (last + j <= last) /\ (last + j) - last = j
    BY <1>3 DEF last
  <2>2. last + j \in at
    OBVIOUS
  <2>. DEFINE i == last + j
  <2>. HIDE DEF i, at
  <2>3. Shallow(f)[i] = IF i <= last THEN library[i]
                        ELSE Ipc(Patterns[i - last].type, Patterns[i - last].name, Patterns[i - last].direction)
    BY <1>5, <2>2 DEF i
  <2>4. ~ (i <= last) /\ i - last = j
    BY <2>1 DEF i
  <2>. QED
    BY <2>3, <2>4 DEF i
<1>. QED
  BY <1>1, <1>3, <1>4, <1>6, <1>7, <1>8 DEF library, last

LEMMA ShallowIpc ==
  ASSUME NEW f, NEW k \in DOMAIN Shallow(f), f.calls \in Seq(CallExpression)
  PROVE  \E type, name, direction : Shallow(f)[k] = Ipc(type, name, direction)
<1>0. /\ DOMAIN Shallow(f) = DOMAIN LibraryCalls(f) \cup {Len(f.calls) + j : j \in Matching(f)}
      /\ \A i \in DOMAIN LibraryCalls(f) : Shallow(f)[i] = LibraryCalls(f)[i]
      /\ \A j \in Matching(f) :
           Shallow(f)[Len(f.calls) + j] = Ipc(Patterns[j].type, Patterns[j].name, Patterns[j].direction)
  BY ShallowEntries
<1>1. CASE k \in DOMAIN LibraryCalls(f)
  <2>1. Shallow(f)[k] = LibraryCalls(f)[k]
    BY <1>0, <1>1
  <2>. QED
    BY <1>1, <2>1, LibraryEntries
<1>2. CASE k \notin DOMAIN LibraryCalls(f)
  <2>1. PICK j \in Matching(f) : k = Len(f.calls) + j
    BY <1>0, <1>2
  <2>. QED
    BY <1>0, <2>1
<1>. QED
  BY <1>1, <1>2

\* An entry has a direction only if it is that of a pattern which matches.
LEMMA ShallowDirection ==
  ASSUME NEW f, NEW k \in DOMAIN Shallow(f), f.calls \in Seq(CallExpression)
  PROVE  Shallow(f)[k].direction = Nothing \/ \E j \in Matching(f) : Shallow(f)[k].direction = Patterns[j].direction
<1>0. /\ DOMAIN Shallow(f) = DOMAIN LibraryCalls(f) \cup {Len(f.calls) + j : j \in Matching(f)}
      /\ \A i \in DOMAIN LibraryCalls(f) : Shallow(f)[i] = LibraryCalls(f)[i]
      /\ \A j \in Matching(f) :
           Shallow(f)[Len(f.calls) + j] = Ipc(Patterns[j].type, Patterns[j].name, Patterns[j].direction)
  BY ShallowEntries
<1>1. \A type, name, direction : Ipc(type, name, direction).direction = direction
  BY DEF Ipc
<1>2. CASE k \in DOMAIN LibraryCalls(f)
  <2>1. Shallow(f)[k] = LibraryCalls(f)[k]
    BY <1>0, <1>2
  <2>2. LibraryCalls(f)[k] = Ipc(IPC_CALLS[f.calls[k].callee], f.calls[k].callee, Nothing)
    BY <1>2, LibraryEntries
  <2>. QED
    BY <1>1, <2>1, <2>2
<1>3. CASE k \notin DOMAIN LibraryCalls(f)
  <2>1. PICK j \in Matching(f) : k = Len(f.calls) + j
    BY <1>0, <1>3
  <2>2. Shallow(f)[k].direction = Patterns[j].direction
    BY <1>0, <1>1, <2>1
  <2>. QED
    BY <2>2
<1>. QED
  BY <1>2, <1>3

\* What is found at the calls changes neither type nor name nor direction.
LEMMA CollectKeeps ==
  ASSUME NEW f, NEW d, NEW k \in DOMAIN Shallow(f), f.calls \in Seq(CallExpression)
  PROVE  /\ Collect(k, f, d).type = Shallow(f)[k].type
         /\ Collect(k, f, d).name = Shallow(f)[k].name
         /\ Collect(k, f, d).direction = Shallow(f)[k].direction
<1>1. \E type, name, direction : Shallow(f)[k] = Ipc(type, name, direction)
  BY ShallowIpc
<1>. QED
  BY <1>1 DEF Collect, Ipc

(***************************************************************************)
(* What a text says by its calls is what the analysis finds in it          *)
(***************************************************************************)
LibrarySenders == {"send", "sendto", "write", "mq_send"}
LibraryReceivers == {"recv", "recvfrom", "read", "mq_receive"}

\* No pattern gives a call of the library its direction.
LEMMA LibraryDirections ==
  ASSUME NEW x \in DOMAIN IPC_CALLS
  PROVE  LET c == Ipc(IPC_CALLS[x], x, Nothing)
         IN  /\ Sends(c) <=> x \in LibrarySenders
             /\ Receives(c) <=> x \in LibraryReceivers
             /\ c.direction \notin Directions
<1>. DEFINE c == Ipc(IPC_CALLS[x], x, Nothing)
<1>1. x \in {"send", "sendto", "recv", "recvfrom", "mq_send", "mq_receive", "write", "read", "kill"}
  BY DEF IPC_CALLS
<1>2. c.name = x /\ c.type = IPC_CALLS[x] /\ c.direction = Nothing
  BY DEF Ipc
<1>3. Nothing \notin Directions
  BY SourcesAssumption
<1>4. IPC_CALLS[x] = "socket-send" <=> x \in {"send", "sendto"}
  BY <1>1 DEF IPC_CALLS
<1>5. IPC_CALLS[x] = "socket-recv" <=> x \in {"recv", "recvfrom"}
  BY <1>1 DEF IPC_CALLS
<1>. HIDE DEF c
<1>6. Sends(c) <=> x \in LibrarySenders
  BY <1>1, <1>2, <1>3, <1>4 DEF Sends, SEND_CALLS, LibrarySenders, Directions
<1>7. Receives(c) <=> x \in LibraryReceivers
  BY <1>1, <1>2, <1>3, <1>5 DEF Receives, RECV_CALLS, LibraryReceivers, Directions
<1>. QED
  BY <1>2, <1>3, <1>6, <1>7 DEF c

\* The first of the calls with a name is an entry.
LEMMA LibraryFirst ==
  ASSUME NEW f, f.calls \in Seq(CallExpression), NEW i \in DOMAIN f.calls,
         f.calls[i].callee \in DOMAIN IPC_CALLS
  PROVE  \E k \in DOMAIN LibraryCalls(f) : f.calls[k].callee = f.calls[i].callee
<1>. DEFINE same == {k \in DOMAIN f.calls : f.calls[k].callee = f.calls[i].callee}
<1>1. DOMAIN f.calls = 1 .. Len(f.calls) /\ Len(f.calls) \in Nat
  OBVIOUS
<1>2. same \in SUBSET Nat /\ same # {}
  BY <1>1
<1>3. PICK k \in same : \A j \in same : k <= j
  BY <1>2, Least
<1>4. k \in Nat /\ k <= Len(f.calls)
  BY <1>1
<1>5. \A j \in 1 .. k - 1 : f.calls[j].callee # f.calls[k].callee
  <2>. SUFFICES ASSUME NEW j \in 1 .. k - 1, f.calls[j].callee = f.calls[k].callee PROVE FALSE
    OBVIOUS
  <2>1. j \in DOMAIN f.calls /\ ~ (k <= j)
    BY <1>1, <1>4
  <2>2. j \in same
    BY <2>1
  <2>. QED
    BY <1>3, <2>1, <2>2
<1>6. k \in DOMAIN LibraryCalls(f)
  BY <1>5, LibraryEntries
<1>. QED
  BY <1>6

LEMMA PatternEntry ==
  ASSUME NEW type, NEW name, NEW direction
  PROVE  LET c == Ipc(type, name, direction)
         IN  c.type = type /\ c.name = name /\ c.direction = direction
BY DEF Ipc

LEMMA SameIpc ==
  ASSUME NEW c, NEW e, c.type = e.type, c.name = e.name, c.direction = e.direction
  PROVE  (Sends(c) <=> Sends(e)) /\ (Receives(c) <=> Receives(e))
BY DEF Sends, Receives

\* A file has an entry that sends exactly if its text does.
LEMMA TextSends ==
  ASSUME NEW f, NEW d, f.calls \in Seq(CallExpression)
  PROVE  /\ Exists(analyzeSource(f, d).ipc, Sends) <=> Sending(f)
         /\ Exists(analyzeSource(f, d).ipc, Receives) <=> Receiving(f)
<1>. DEFINE ipc == analyzeSource(f, d).ipc
            At(j) == Len(f.calls) + j
<1>1. ipc = [i \in DOMAIN Shallow(f) |-> Collect(i, f, d)]
  BY DEF analyzeSource
<1>2. /\ DOMAIN Shallow(f) = DOMAIN LibraryCalls(f) \cup {At(j) : j \in Matching(f)}
      /\ \A i \in DOMAIN LibraryCalls(f) : Shallow(f)[i] = LibraryCalls(f)[i]
      /\ \A j \in Matching(f) :
           /\ j \in DOMAIN Patterns
           /\ Shallow(f)[At(j)] = Ipc(Patterns[j].type, Patterns[j].name, Patterns[j].direction)
  BY ShallowEntries
<1>3. \A k \in DOMAIN Shallow(f) : /\ Sends(ipc[k]) <=> Sends(Shallow(f)[k])
                                   /\ Receives(ipc[k]) <=> Receives(Shallow(f)[k])
  BY <1>1, CollectKeeps, SameIpc
<1>4. DOMAIN ipc = DOMAIN Shallow(f)
  BY <1>1
<1>. HIDE DEF ipc, At
<1>5. \A k \in DOMAIN LibraryCalls(f) : /\ k \in DOMAIN f.calls /\ k \in DOMAIN ipc
                                        /\ Sends(ipc[k]) <=> f.calls[k].callee \in LibrarySenders
                                        /\ Receives(ipc[k]) <=> f.calls[k].callee \in LibraryReceivers
  BY <1>2, <1>3, <1>4, LibraryEntries, LibraryDirections
<1>6. \A j \in Matching(f) : /\ At(j) \in DOMAIN ipc
                             /\ Sends(ipc[At(j)]) <=> Sends(Patterns[j])
                             /\ Receives(ipc[At(j)]) <=> Receives(Patterns[j])
  <2>. TAKE j \in Matching(f)
  <2>. DEFINE c == Ipc(Patterns[j].type, Patterns[j].name, Patterns[j].direction)
  <2>1. (Sends(c) <=> Sends(Patterns[j])) /\ (Receives(c) <=> Receives(Patterns[j]))
    BY PatternEntry, SameIpc
  <2>. QED
    BY <1>2, <1>3, <1>4, <2>1
<1>7. \A k \in DOMAIN ipc : k \in DOMAIN LibraryCalls(f) \/ \E j \in Matching(f) : k = At(j)
  BY <1>2, <1>4
<1>8. LibrarySenders \cup LibraryReceivers \subseteq DOMAIN IPC_CALLS
  BY DEF LibrarySenders, LibraryReceivers, IPC_CALLS
<1>9. \A i \in DOMAIN f.calls :
        f.calls[i].callee \in DOMAIN IPC_CALLS =>
          \E k \in DOMAIN LibraryCalls(f) : f.calls[k].callee = f.calls[i].callee
  BY LibraryFirst
<1>10. (\E k \in DOMAIN ipc : Sends(ipc[k])) <=> Sending(f)
  BY <1>5, <1>6, <1>7, <1>8, <1>9 DEF Sending, LibrarySenders
<1>11. (\E k \in DOMAIN ipc : Receives(ipc[k])) <=> Receiving(f)
  BY <1>5, <1>6, <1>7, <1>8, <1>9 DEF Receiving, LibraryReceivers
<1>. QED
  BY <1>10, <1>11 DEF Exists, ipc

\* A position of sequences of sequences is one in one of them.
LEMMA FlatPositions ==
  ASSUME NEW seqs
  PROVE  /\ \A s \in DOMAIN Flat(seqs) :
              /\ s = <<s[1], s[2]>> /\ s[1] \in DOMAIN seqs /\ s[2] \in DOMAIN seqs[s[1]]
              /\ Flat(seqs)[s] = seqs[s[1]][s[2]]
         /\ \A i \in DOMAIN seqs : \A j \in DOMAIN seqs[i] :
              <<i, j>> \in DOMAIN Flat(seqs) /\ Flat(seqs)[<<i, j>>] = seqs[i][j]
<1>. DEFINE sites == UNION {{i} \X DOMAIN seqs[i] : i \in DOMAIN seqs}
<1>1. Flat(seqs) = [s \in sites |-> seqs[s[1]][s[2]]]
  BY DEF Flat
<1>2. \A s \in sites : s = <<s[1], s[2]>> /\ s[1] \in DOMAIN seqs /\ s[2] \in DOMAIN seqs[s[1]]
  OBVIOUS
<1>3. \A i \in DOMAIN seqs : \A j \in DOMAIN seqs[i] : <<i, j>> \in sites
  OBVIOUS
<1>. HIDE DEF sites
<1>. QED
  BY <1>1, <1>2, <1>3

(***************************************************************************)
(* What is found at the calls                                              *)
(***************************************************************************)
\* An argument that is considered is one of the call, without its cast.
LEMMA ConsideredArguments ==
  ASSUME NEW call, NEW p
  PROVE  /\ \A i \in DOMAIN Considered(call, p) : i \in DOMAIN call.args /\ Considered(call, p)[i] = Plain(call.args[i])
         /\ \A i \in DOMAIN Argument(call, p.callbackArg) :
              i \in DOMAIN call.args /\ Argument(call, p.callbackArg)[i] = Plain(call.args[i])
BY DEF Considered, Argument, Mapped

LEMMA ConstantsMentioned ==
  ASSUME NEW f, Text(f), NEW i \in DOMAIN f.calls, NEW p
  PROVE  ConstantsAt(f.calls[i], p) \subseteq f.mentions
<1>. DEFINE call == f.calls[i]
<1>1. \A k \in DOMAIN call.args : Identifiers(call.args[k]) \subseteq f.mentions
  BY DEF Text
<1>2. ASSUME NEW k \in DOMAIN call.args, Plain(call.args[k]).form = "name"
      PROVE  Plain(call.args[k]).var \in f.mentions
  BY <1>1, <1>2 DEF Identifiers, IsForm
<1>3. \A n \in ToSet(Considered(call, p)) : \E k \in DOMAIN call.args : n = Plain(call.args[k])
  BY ConsideredArguments DEF ToSet
<1>. HIDE DEF call
<1>4. \A n \in ToSet(Considered(call, p)) : IsForm(n, "name") => n.var \in f.mentions
  BY <1>2, <1>3 DEF IsForm
<1>. QED
  BY <1>4 DEF ConstantsAt, call

LEMMA SizesMentioned ==
  ASSUME NEW f, Text(f), NEW i \in DOMAIN f.calls, NEW p, NEW s \in DOMAIN SizesAt(f.calls[i], p)
  PROVE  SizesAt(f.calls[i], p)[s] \in f.mentions
<1>. DEFINE call == f.calls[i]
            considered == Considered(call, p)
<1>1. \A k \in DOMAIN call.args : Identifiers(call.args[k]) \subseteq f.mentions
  BY DEF Text
<1>2. ASSUME NEW k \in DOMAIN call.args, Plain(call.args[k]).form = "sizeof"
      PROVE  Plain(call.args[k]).type \in f.mentions
  BY <1>1, <1>2 DEF Identifiers, IsForm
<1>3. s \in DOMAIN considered /\ considered[s].form = "sizeof" /\ SizesAt(call, p)[s] = considered[s].type
  BY DEF SizesAt, Where, Mapped, IsForm
<1>4. s \in DOMAIN call.args /\ considered[s] = Plain(call.args[s])
  BY <1>3, ConsideredArguments
<1>. HIDE DEF call, considered
<1>. QED
  BY <1>2, <1>3, <1>4 DEF call

LEMMA CallbackTypesMentioned ==
  ASSUME NEW f, Text(f), NEW call, NEW p, NEW s \in DOMAIN CallbackTypes(f, call, p)
  PROVE  CallbackTypes(f, call, p)[s] \in f.mentions
<1>. DEFINE passed == {n \in ToSet(Argument(call, p.callbackArg)) : IsForm(n, "name") /\ n.var \in DOMAIN f.functions}
<1>1. CASE passed = {}
  BY <1>1 DEF CallbackTypes
<1>2. CASE passed # {}
  <2>1. The(passed) \in passed
    BY <1>2, TheMember
  <2>2. The(passed).var \in DOMAIN f.functions /\ CallbackTypes(f, call, p) = f.functions[The(passed).var]
    BY <1>2, <2>1 DEF CallbackTypes
  <2>3. f.functions[The(passed).var] \in Seq(f.mentions)
    BY <2>2 DEF Text
  <2>. HIDE DEF passed
  <2>. DEFINE types == CallbackTypes(f, call, p)
  <2>4. types \in Seq(f.mentions) /\ s \in DOMAIN types
    BY <2>2, <2>3
  <2>. HIDE DEF types
  <2>5. types[s] \in f.mentions
    BY <2>4
  <2>. QED
    BY <2>5 DEF types
<1>. QED
  BY <1>1, <1>2

LEMMA TypesMentioned ==
  ASSUME NEW f, Text(f), NEW i \in DOMAIN f.calls, NEW p
  PROVE  ToSet(TypesAt(f, f.calls[i], p)) \subseteq f.mentions
<1>. DEFINE call == f.calls[i]
            parameters == Mapped(call.params, LAMBDA q : q.type)
            seqs == <<SizesAt(call, p), parameters, CallbackTypes(f, call, p)>>
<1>1. \A s \in DOMAIN parameters : parameters[s] \in f.mentions
  BY DEF Text, Mapped
<1>2. \A s \in DOMAIN SizesAt(call, p) : SizesAt(call, p)[s] \in f.mentions
  BY SizesMentioned
<1>3. \A s \in DOMAIN CallbackTypes(f, call, p) : CallbackTypes(f, call, p)[s] \in f.mentions
  BY CallbackTypesMentioned
<1>4. TypesAt(f, call, p) = Flat(seqs)
  BY DEF TypesAt
<1>. HIDE DEF call, parameters
<1>5. \A k \in DOMAIN seqs : \A s \in DOMAIN seqs[k] : seqs[k][s] \in f.mentions
  BY <1>1, <1>2, <1>3
<1>. HIDE DEF seqs
<1>6. \A s \in DOMAIN Flat(seqs) : Flat(seqs)[s] \in f.mentions
  BY <1>5, FlatPositions
<1>. QED
  BY <1>4, <1>6 DEF ToSet, call

\* What an entry collected is mentioned in the file, and it collected it at a
\* call of a pattern of its direction.
Origin(name, f, entry) ==
  name \in f.mentions /\ \E j \in Matching(f) : entry.direction = Patterns[j].direction

LEMMA CollectedOrigin ==
  ASSUME NEW f, Text(f), NEW d, NEW k \in DOMAIN Shallow(f),
         NEW name \in Collect(k, f, d).constants \cup Collect(k, f, d).missing \cup Collect(k, f, d).implied
  PROVE  Origin(name, f, Collect(k, f, d))
<1>. DEFINE visits == CollectedBy(k, f)
            Constants(v) == ConstantsAt(f.calls[v[1]], Patterns[v[2]])
            Types(v) == ToSet(TypesAt(f, f.calls[v[1]], Patterns[v[2]]))
            entry == Collect(k, f, d)
<1>0. f.calls \in Seq(CallExpression)
  BY DEF Text
<1>1. PICK v \in visits : name \in Constants(v) \cup Types(v)
  <2>1. \E type, title, direction : Shallow(f)[k] = Ipc(type, title, direction)
    BY <1>0, ShallowIpc
  <2>2. /\ entry.constants \cup entry.missing = UNION {Constants(v) : v \in visits}
        /\ entry.implied \subseteq UNION {Types(v) : v \in visits}
    BY <2>1 DEF Collect, Ipc
  <2>. QED
    BY <2>2
<1>2. v[1] \in DOMAIN f.calls /\ v[2] \in DOMAIN Patterns /\ f.calls[v[1]].callee \in Patterns[v[2]].calls
  BY DEF CollectedBy, Visits
<1>3. Shallow(f)[k].direction = Patterns[v[2]].direction
  BY DEF CollectedBy, Collector
<1>4. name \in f.mentions
  BY <1>1, <1>2, ConstantsMentioned, TypesMentioned
<1>5. entry.direction = Shallow(f)[k].direction
  BY <1>0, CollectKeeps
<1>6. Patterns[v[2]].direction # Nothing
  BY <1>2, PatternType, SourcesAssumption
<1>7. \E j \in Matching(f) : Shallow(f)[k].direction = Patterns[j].direction
  BY <1>0, <1>3, <1>6, ShallowDirection
<1>. HIDE DEF entry
<1>. QED
  BY <1>4, <1>5, <1>7 DEF Origin, entry

(***************************************************************************)
(* Roles are backed by the texts                                           *)
(***************************************************************************)
\* Source files by their positions, as an analysis sees them.
Loaded(S) ==
  /\ DOMAIN S \subseteq Nat
  /\ \A i \in DOMAIN S : Text(S[i])
  /\ \A i, j \in DOMAIN S : S[i].name = S[j].name => i = j

AnalysesOf(S, d) == Mapped(S, LAMBDA f : analyzeSource(f, d))

LEMMA AnalysedTexts ==
  ASSUME NEW S, NEW d
  PROVE  /\ DOMAIN AnalysesOf(S, d) = DOMAIN S
         /\ \A i \in DOMAIN S : AnalysesOf(S, d)[i] = analyzeSource(S[i], d)
BY DEF AnalysesOf, Mapped

LEMMA AnalysedText ==
  ASSUME NEW f, NEW d
  PROVE  /\ analyzeSource(f, d).filename = f.name
         /\ analyzeSource(f, d).mentions = f.mentions
         /\ analyzeSource(f, d).defines = f.defines
BY DEF analyzeSource

LEMMA AnalysedEntries ==
  ASSUME NEW f, NEW d
  PROVE  /\ DOMAIN analyzeSource(f, d).ipc = DOMAIN Shallow(f)
         /\ \A k \in DOMAIN Shallow(f) : analyzeSource(f, d).ipc[k] = Collect(k, f, d)
BY DEF analyzeSource

\* The role of a file does not deny what its text says.
RoleBacked(f, role) ==
  /\ role \in RoleNames
  /\ role \in {"producer", "both"} => ~OnlyReceives(f)
  /\ role \in {"consumer", "both"} => ~OnlySends(f)

Backs(f, title, name, role) == f.name = title /\ name \in f.mentions /\ RoleBacked(f, role)
RolesBacked(name, roles, S) ==
  \A title \in DOMAIN roles : \E i \in DOMAIN S : Backs(S[i], title, name, roles[title])

LEMMA FileRoleBacked ==
  ASSUME NEW f, NEW d, Text(f)
  PROVE  RoleBacked(f, FileRole(analyzeSource(f, d)))
<1>. DEFINE a == analyzeSource(f, d)
<1>1. /\ Exists(a.ipc, Sends) <=> Sending(f)
      /\ Exists(a.ipc, Receives) <=> Receiving(f)
  BY TextSends DEF Text
<1>2. FileRole(a) = LET direction == Direction(Exists(a.ipc, Sends), Exists(a.ipc, Receives))
                    IN  IF direction = "unknown" THEN "both" ELSE direction
  BY DEF FileRole
<1>. HIDE DEF a
<1>3. CASE Sending(f) /\ Receiving(f)
  <2>1. FileRole(a) = "both"
    BY <1>1, <1>2, <1>3 DEF Direction
  <2>. QED
    BY <1>3, <2>1 DEF a, RoleBacked, RoleNames, OnlyReceives, OnlySends
<1>4. CASE Sending(f) /\ ~Receiving(f)
  <2>1. FileRole(a) = "producer"
    BY <1>1, <1>2, <1>4 DEF Direction
  <2>. QED
    BY <1>4, <2>1 DEF a, RoleBacked, RoleNames, OnlyReceives
<1>5. CASE ~Sending(f) /\ Receiving(f)
  <2>1. FileRole(a) = "consumer"
    BY <1>1, <1>2, <1>5 DEF Direction
  <2>. QED
    BY <1>5, <2>1 DEF a, RoleBacked, RoleNames, OnlySends
<1>6. CASE ~Sending(f) /\ ~Receiving(f)
  <2>1. FileRole(a) = "both"
    BY <1>1, <1>2, <1>6 DEF Direction
  <2>. QED
    BY <1>6, <2>1 DEF a, RoleBacked, RoleNames, OnlyReceives, OnlySends
<1>. QED
  BY <1>3, <1>4, <1>5, <1>6

\* The roles of the files that mention a name.
LEMMA ComputedRoles ==
  ASSUME NEW S, NEW d, NEW name, Loaded(S)
  PROVE  LET roles == computeFileRoles(name, AnalysesOf(S, d))
         IN  /\ DOMAIN roles = {S[i].name : i \in {i \in DOMAIN S : name \in S[i].mentions}}
             /\ \A i \in DOMAIN S : name \in S[i].mentions =>
                  roles[S[i].name] = FileRole(analyzeSource(S[i], d))
<1>. DEFINE as == AnalysesOf(S, d)
            titles == {S[i].name : i \in {i \in DOMAIN S : name \in S[i].mentions}}
            Chosen(title) ==
              {as[i] : i \in {i \in DOMAIN as : as[i].filename = title
                                /\ \A j \in DOMAIN as : as[j].filename = title => i <= j}}
            roles == computeFileRoles(name, as)
<1>1. /\ DOMAIN as = DOMAIN S
      /\ \A i \in DOMAIN S :
           as[i] = analyzeSource(S[i], d) /\ as[i].filename = S[i].name /\ as[i].mentions = S[i].mentions
  <2>1. DOMAIN as = DOMAIN S /\ \A i \in DOMAIN S : as[i] = analyzeSource(S[i], d)
    BY AnalysedTexts
  <2>. HIDE DEF as
  <2>2. ASSUME NEW i \in DOMAIN S
        PROVE  as[i].filename = S[i].name /\ as[i].mentions = S[i].mentions
    <3>1. as[i] = analyzeSource(S[i], d)
      BY <2>1
    <3>2. analyzeSource(S[i], d).filename = S[i].name /\ analyzeSource(S[i], d).mentions = S[i].mentions
      BY AnalysedText
    <3>. QED
      BY <3>1, <3>2
  <2>. QED
    BY <2>1, <2>2
<1>2. roles = [title \in {a.filename : a \in ToSet(Using(name, as))} |-> FileRole(The(Chosen(title)))]
  BY DEF computeFileRoles, First
<1>. HIDE DEF as
<1>3. {a.filename : a \in ToSet(Using(name, as))} = titles
  <2>. DEFINE using == Using(name, as)
  <2>1. /\ DOMAIN using = {i \in DOMAIN as : name \in as[i].mentions}
        /\ \A i \in DOMAIN using : using[i] = as[i]
    BY DEF Using, Where
  <2>. HIDE DEF using
  <2>2. \A i \in DOMAIN using : i \in DOMAIN S /\ name \in S[i].mentions /\ using[i].filename = S[i].name
    BY <1>1, <2>1
  <2>3. \A i \in DOMAIN S : name \in S[i].mentions => i \in DOMAIN using
    BY <1>1, <2>1
  <2>4. {a.filename : a \in ToSet(using)} = titles
    BY <2>2, <2>3 DEF ToSet
  <2>. QED
    BY <2>4 DEF using
<1>. HIDE DEF roles
<1>4. ASSUME NEW i \in DOMAIN S
      PROVE  The(Chosen(S[i].name)) = as[i]
  <2>1. \A j \in DOMAIN S : S[j].name = S[i].name => j = i
    BY DEF Loaded
  <2>2. i <= i
    BY DEF Loaded
  <2>3. Chosen(S[i].name) = {as[i]}
    BY <1>1, <2>1, <2>2
  <2>4. The(Chosen(S[i].name)) \in Chosen(S[i].name)
    BY <2>3, TheMember
  <2>. QED
    BY <2>3, <2>4
<1>5. \A i \in DOMAIN S : name \in S[i].mentions => S[i].name \in titles
  OBVIOUS
<1>. HIDE DEF titles, Chosen
<1>6. DOMAIN roles = titles
  BY <1>2, <1>3
<1>7. \A i \in DOMAIN S : name \in S[i].mentions => roles[S[i].name] = FileRole(as[i])
  BY <1>2, <1>3, <1>4, <1>5
<1>8. \A i \in DOMAIN S : name \in S[i].mentions => roles[S[i].name] = FileRole(analyzeSource(S[i], d))
  BY <1>1, <1>7
<1>. QED
  BY <1>6, <1>8 DEF roles, titles, as

LEMMA ComputedRolesBacked ==
  ASSUME NEW S, NEW d, NEW name, Loaded(S)
  PROVE  RolesBacked(name, computeFileRoles(name, AnalysesOf(S, d)), S)
<1>. DEFINE roles == computeFileRoles(name, AnalysesOf(S, d))
<1>1. /\ DOMAIN roles = {S[i].name : i \in {i \in DOMAIN S : name \in S[i].mentions}}
      /\ \A i \in DOMAIN S : name \in S[i].mentions => roles[S[i].name] = FileRole(analyzeSource(S[i], d))
  BY ComputedRoles
<1>. HIDE DEF roles
<1>2. ASSUME NEW title \in DOMAIN roles
      PROVE  \E i \in DOMAIN S : Backs(S[i], title, name, roles[title])
  <2>1. PICK i \in DOMAIN S : name \in S[i].mentions /\ title = S[i].name
    BY <1>1
  <2>2. RoleBacked(S[i], roles[title])
    BY <1>1, <2>1, FileRoleBacked DEF Loaded
  <2>. QED
    BY <2>1, <2>2 DEF Backs
<1>. QED
  BY <1>2 DEF RolesBacked, roles

\* Calls that speak of a name, by their positions among all calls.
Sites(name, calls, S) ==
  /\ DOMAIN calls \subseteq Nat \X Nat
  /\ \A s \in DOMAIN calls : /\ s[1] \in DOMAIN S /\ calls[s].file = S[s[1]].name
                             /\ Origin(name, S[s[1]], calls[s].call)

LEMMA CallRoleBacked ==
  ASSUME NEW f, NEW name, NEW c, Origin(name, f, c.call)
  PROVE  RoleBacked(f, CallRole(c)) /\ (Sending(f) \/ Receiving(f) \/ Controls(f))
<1>1. PICK j \in Matching(f) : c.call.direction = Patterns[j].direction
  BY DEF Origin
<1>2. Patterns[j].direction \in Directions
  BY PatternType DEF Matching
<1>3. CASE Patterns[j].direction = "send"
  <2>1. CallRole(c) = "producer"
    BY <1>1, <1>3 DEF CallRole
  <2>2. Sending(f)
    BY <1>3 DEF Sending, Sends
  <2>. QED
    BY <2>1, <2>2 DEF RoleBacked, RoleNames, OnlyReceives
<1>4. CASE Patterns[j].direction = "control"
  <2>1. CallRole(c) = "producer"
    BY <1>1, <1>4 DEF CallRole
  <2>2. Controls(f)
    BY <1>4 DEF Controls
  <2>. QED
    BY <2>1, <2>2 DEF RoleBacked, RoleNames, OnlyReceives
<1>5. CASE Patterns[j].direction = "recv"
  <2>1. CallRole(c) = "consumer"
    BY <1>1, <1>5 DEF CallRole
  <2>2. Receiving(f)
    BY <1>5 DEF Receiving, Receives
  <2>. QED
    BY <2>1, <2>2 DEF RoleBacked, RoleNames, OnlySends
<1>6. CASE Patterns[j].direction = "bidirectional"
  <2>1. CallRole(c) = "both"
    BY <1>1, <1>6 DEF CallRole
  <2>2. Sending(f) /\ Receiving(f)
    BY <1>6 DEF Sending, Sends, Receiving, Receives
  <2>. QED
    BY <2>1, <2>2 DEF RoleBacked, RoleNames, OnlySends, OnlyReceives
<1>. QED
  BY <1>2, <1>3, <1>4, <1>5, <1>6 DEF Directions

\* The call that gives a file its role is one of its own.
LEMMA FirstCallMember ==
  ASSUME NEW calls, DOMAIN calls \subseteq Nat \X Nat, DOMAIN calls # {}
  PROVE  \E s \in DOMAIN calls : FirstCall(calls) = calls[s] /\ s \in Foremost(DOMAIN calls)
<1>1. Foremost(DOMAIN calls) # {} /\ Foremost(DOMAIN calls) \subseteq DOMAIN calls
  BY ForemostExists DEF Foremost
<1>2. The(Foremost(DOMAIN calls)) \in Foremost(DOMAIN calls)
  BY <1>1, TheMember
<1>. QED
  BY <1>1, <1>2 DEF FirstCall

LEMMA RolesAtBacked ==
  ASSUME NEW S, NEW name, NEW calls, Sites(name, calls, S)
  PROVE  RolesBacked(name, RolesAt(calls), S)
<1>. DEFINE roles == RolesAt(calls)
            Own(title) == Where(calls, LAMBDA c : c.file = title)
<1>1. /\ DOMAIN roles = {c.file : c \in ToSet(calls)}
      /\ \A title \in DOMAIN roles : roles[title] = CallRole(FirstCall(Own(title)))
  BY DEF RolesAt
<1>. HIDE DEF roles
<1>2. ASSUME NEW title \in DOMAIN roles
      PROVE  \E i \in DOMAIN S : Backs(S[i], title, name, roles[title])
  <2>. DEFINE own == Own(title)
  <2>1. /\ DOMAIN own = {s \in DOMAIN calls : calls[s].file = title}
        /\ \A s \in DOMAIN own : own[s] = calls[s]
    BY DEF Where
  <2>. HIDE DEF own
  <2>2. DOMAIN own # {} /\ DOMAIN own \subseteq Nat \X Nat
    BY <1>1, <2>1 DEF ToSet, Sites
  <2>3. PICK s \in DOMAIN own : FirstCall(own) = own[s]
    BY <2>2, FirstCallMember
  <2>4. /\ s[1] \in DOMAIN S /\ S[s[1]].name = title /\ own[s] = calls[s]
        /\ Origin(name, S[s[1]], own[s].call)
    BY <2>1 DEF Sites
  <2>5. RoleBacked(S[s[1]], roles[title])
    <3>1. roles[title] = CallRole(own[s])
      BY <1>1, <2>3 DEF own
    <3>. QED
      BY <2>4, <3>1, CallRoleBacked
  <2>6. name \in S[s[1]].mentions
    BY <2>4 DEF Origin
  <2>. QED
    BY <2>4, <2>5, <2>6 DEF Backs
<1>. QED
  BY <1>2 DEF RolesBacked, roles

(***************************************************************************)
(* The messages by their names                                             *)
(***************************************************************************)
PassedSites(n, as) == Where(AllCalls(as), LAMBDA c : n \in Passed(c))
ImpliedSites(n, as) == Where(AllCalls(as), LAMBDA c : n \in Implies(c))

DefinedNames(as, d) == (d.defines \cup UNION {a.defines : a \in ToSet(as)}) \cap MsgConstants
PickedNames(as, d) == (ChosenStructs \cap d.structs) \ DefinedNames(as, d)
Mentions(as, d) == DefinedNames(as, d) \cup PickedNames(as, d)
PassedNames(as) == UNION {Passed(c) : c \in ToSet(AllCalls(as))}
ImpliedNames(as, d) == (UNION {Implies(c) : c \in ToSet(AllCalls(as))}) \cap d.structs
FoundNames(as, d) == Mentions(as, d) \cup PassedNames(as) \cup ImpliedNames(as, d)

StructOf(n, as, d) ==
  IF n \in DefinedNames(as, d) THEN resolveStruct(n, d)
  ELSE IF n \in PassedNames(as) \ PickedNames(as, d)
       THEN IF n \in d.defines \cup d.enumerated THEN resolveStruct(n, d) ELSE Nothing
       ELSE n

MentionedMessage(n, as, d) == Augmented(Mentioned(n, StructOf(n, as, d), as), as)
PassedMessage(n, as, d) ==
  Message(n, StructOf(n, as, d), FoundAt(PassedSites(n, as)), RolesAt(PassedSites(n, as)))
ImpliedMessage(n, as, d) ==
  Message(n, StructOf(n, as, d), FoundAt(ImpliedSites(n, as)), RolesAt(ImpliedSites(n, as)))

MessageOf(n, as, d) ==
  IF n \in Mentions(as, d) THEN MentionedMessage(n, as, d)
  ELSE IF n \in PassedNames(as) THEN PassedMessage(n, as, d) ELSE ImpliedMessage(n, as, d)

\* The messages are one for each name, in the first way the name is found.
LEMMA ExtractedMessages ==
  ASSUME NEW as, NEW d
  PROVE  extractMessageInterfaces(as, d) = {MessageOf(n, as, d) : n \in FoundNames(as, d)}
<1>. DEFINE calls == AllCalls(as)
            defined == DefinedNames(as, d)
            picked == PickedNames(as, d)
            passed == PassedNames(as) \ (defined \cup picked)
            implied == ImpliedNames(as, d) \ (defined \cup picked \cup passed)
            Struct(n) == IF n \in d.defines \cup d.enumerated THEN resolveStruct(n, d) ELSE Nothing
            Constant(n) == Augmented(Mentioned(n, resolveStruct(n, d), as), as)
            Chosen(n) == Augmented(Mentioned(n, n, as), as)
            AtPassed(n) == Message(n, Struct(n), FoundAt(PassedSites(n, as)), RolesAt(PassedSites(n, as)))
            AtImplied(n) == Message(n, n, FoundAt(ImpliedSites(n, as)), RolesAt(ImpliedSites(n, as)))
<1>1. extractMessageInterfaces(as, d) =
        {Constant(n) : n \in defined} \cup {Chosen(n) : n \in picked}
          \cup {AtPassed(n) : n \in passed} \cup {AtImplied(n) : n \in implied}
  BY DEF extractMessageInterfaces, DefinedNames, PickedNames, PassedNames, ImpliedNames, PassedSites, ImpliedSites
<1>2. \A n \in defined : StructOf(n, as, d) = resolveStruct(n, d)
  BY DEF StructOf
<1>3. \A n \in picked : StructOf(n, as, d) = n
  BY DEF StructOf, PickedNames
<1>4. \A n \in passed : StructOf(n, as, d) = Struct(n)
  BY DEF StructOf
<1>5. \A n \in implied : StructOf(n, as, d) = n
  BY DEF StructOf
<1>6. \A n \in defined : MessageOf(n, as, d) = Constant(n)
  BY <1>2 DEF MessageOf, MentionedMessage, Mentions
<1>7. \A n \in picked : MessageOf(n, as, d) = Chosen(n)
  BY <1>3 DEF MessageOf, MentionedMessage, Mentions
<1>8. \A n \in passed : MessageOf(n, as, d) = AtPassed(n)
  BY <1>4 DEF MessageOf, PassedMessage, Mentions
<1>9. \A n \in implied : MessageOf(n, as, d) = AtImplied(n)
  BY <1>5 DEF MessageOf, ImpliedMessage, Mentions
<1>10. FoundNames(as, d) = defined \cup picked \cup passed \cup implied
  BY DEF FoundNames, Mentions
<1>. HIDE DEF defined, picked, passed, implied, Constant, Chosen, AtPassed, AtImplied
<1>. QED
  BY <1>1, <1>6, <1>7, <1>8, <1>9, <1>10

LEMMA MessageName ==
  ASSUME NEW n, NEW as, NEW d
  PROVE  MessageOf(n, as, d).name = n
<1>1. MentionedMessage(n, as, d).name = n
  BY MentionedAugmentedType DEF MentionedMessage
<1>2. PassedMessage(n, as, d).name = n
  BY FoundType DEF PassedMessage
<1>3. ImpliedMessage(n, as, d).name = n
  BY FoundType DEF ImpliedMessage
<1>. QED
  BY <1>1, <1>2, <1>3 DEF MessageOf

(***************************************************************************)
(* Calls of all files                                                      *)
(***************************************************************************)
Entry(S, d, s) == [file |-> S[s[1]].name, call |-> Collect(s[2], S[s[1]], d)]

LEMMA AllCallsPositions ==
  ASSUME NEW S, NEW d
  PROVE  LET calls == AllCalls(AnalysesOf(S, d))
         IN  /\ \A s \in DOMAIN calls : /\ s = <<s[1], s[2]>> /\ s[1] \in DOMAIN S /\ s[2] \in DOMAIN Shallow(S[s[1]])
                                        /\ calls[s] = Entry(S, d, s)
             /\ \A i \in DOMAIN S : \A k \in DOMAIN Shallow(S[i]) : <<i, k>> \in DOMAIN calls
<1>. DEFINE as == AnalysesOf(S, d)
            At(a) == Mapped(a.ipc, LAMBDA c : [file |-> a.filename, call |-> c])
            lines == Mapped(as, At)
<1>1. AllCalls(as) = Flat(lines)
  BY DEF AllCalls
<1>2. DOMAIN as = DOMAIN S /\ \A i \in DOMAIN S : as[i] = analyzeSource(S[i], d)
  BY AnalysedTexts
<1>. HIDE DEF as
<1>3. DOMAIN lines = DOMAIN S /\ \A i \in DOMAIN S : lines[i] = At(as[i])
  BY <1>2 DEF Mapped
<1>. HIDE DEF lines
<1>4. ASSUME NEW i \in DOMAIN S
      PROVE  /\ DOMAIN lines[i] = DOMAIN Shallow(S[i])
             /\ \A k \in DOMAIN Shallow(S[i]) : lines[i][k] = [file |-> S[i].name, call |-> Collect(k, S[i], d)]
  <2>. DEFINE a == analyzeSource(S[i], d)
  <2>. HIDE DEF At
  <2>1. lines[i] = At(a)
    BY <1>2, <1>3
  <2>2. /\ DOMAIN a.ipc = DOMAIN Shallow(S[i]) /\ a.filename = S[i].name
        /\ \A k \in DOMAIN Shallow(S[i]) : a.ipc[k] = Collect(k, S[i], d)
    BY AnalysedEntries, AnalysedText
  <2>. HIDE DEF a
  <2>. QED
    BY <2>1, <2>2 DEF At, Mapped
<1>. HIDE DEF At
<1>5. \A s \in DOMAIN Flat(lines) : /\ s = <<s[1], s[2]>> /\ s[1] \in DOMAIN S /\ s[2] \in DOMAIN Shallow(S[s[1]])
                                    /\ Flat(lines)[s] = Entry(S, d, s)
  <2>. TAKE s \in DOMAIN Flat(lines)
  <2>1. /\ s = <<s[1], s[2]>> /\ s[1] \in DOMAIN lines /\ s[2] \in DOMAIN lines[s[1]]
        /\ Flat(lines)[s] = lines[s[1]][s[2]]
    BY FlatPositions
  <2>2. s[1] \in DOMAIN S
    BY <1>3, <2>1
  <2>. QED
    BY <1>4, <2>1, <2>2 DEF Entry
<1>6. \A i \in DOMAIN S : \A k \in DOMAIN Shallow(S[i]) : <<i, k>> \in DOMAIN Flat(lines)
  BY <1>3, <1>4, FlatPositions
<1>. QED
  BY <1>1, <1>5, <1>6 DEF as

LEMMA SiteOrigin ==
  ASSUME NEW S, NEW d, Loaded(S), NEW s \in DOMAIN AllCalls(AnalysesOf(S, d)), NEW name,
         LET c == AllCalls(AnalysesOf(S, d))[s] IN name \in Passed(c) \cup Implies(c)
  PROVE  /\ s \in Nat \X Nat /\ s[1] \in DOMAIN S
         /\ AllCalls(AnalysesOf(S, d))[s].file = S[s[1]].name
         /\ Origin(name, S[s[1]], AllCalls(AnalysesOf(S, d))[s].call)
<1>. DEFINE c == AllCalls(AnalysesOf(S, d))[s]
            f == S[s[1]]
<1>1. s = <<s[1], s[2]>> /\ s[1] \in DOMAIN S /\ s[2] \in DOMAIN Shallow(f) /\ c = Entry(S, d, s)
  BY AllCallsPositions
<1>2. Text(f) /\ s[1] \in Nat
  BY <1>1 DEF Loaded
<1>3. s[2] \in Nat
  BY <1>1, <1>2, ShallowEntries DEF Text
<1>. HIDE DEF f
<1>4. c.file = f.name /\ c.call = Collect(s[2], f, d)
  BY <1>1 DEF Entry, f
<1>. HIDE DEF c
<1>5. name \in c.call.constants \cup c.call.missing \cup c.call.implied
  BY DEF c, Passed, Implies
<1>6. Origin(name, f, c.call)
  BY <1>1, <1>2, <1>4, <1>5, CollectedOrigin
<1>. QED
  BY <1>1, <1>2, <1>3, <1>4, <1>6 DEF c, f

LEMMA PassedSitesOf ==
  ASSUME NEW S, NEW d, Loaded(S), NEW n
  PROVE  Sites(n, PassedSites(n, AnalysesOf(S, d)), S)
<1>. DEFINE calls == AllCalls(AnalysesOf(S, d))
            sites == PassedSites(n, AnalysesOf(S, d))
<1>1. /\ DOMAIN sites = {s \in DOMAIN calls : n \in Passed(calls[s])}
      /\ \A s \in DOMAIN sites : sites[s] = calls[s]
  BY DEF PassedSites, Where
<1>. HIDE DEF sites
<1>2. \A s \in DOMAIN sites : /\ s \in Nat \X Nat /\ s[1] \in DOMAIN S /\ sites[s].file = S[s[1]].name
                              /\ Origin(n, S[s[1]], sites[s].call)
  BY <1>1, SiteOrigin
<1>. QED
  BY <1>2 DEF Sites, sites

LEMMA ImpliedSitesOf ==
  ASSUME NEW S, NEW d, Loaded(S), NEW n
  PROVE  Sites(n, ImpliedSites(n, AnalysesOf(S, d)), S)
<1>. DEFINE calls == AllCalls(AnalysesOf(S, d))
            sites == ImpliedSites(n, AnalysesOf(S, d))
<1>1. /\ DOMAIN sites = {s \in DOMAIN calls : n \in Implies(calls[s])}
      /\ \A s \in DOMAIN sites : sites[s] = calls[s]
  BY DEF ImpliedSites, Where
<1>. HIDE DEF sites
<1>2. \A s \in DOMAIN sites : /\ s \in Nat \X Nat /\ s[1] \in DOMAIN S /\ sites[s].file = S[s[1]].name
                              /\ Origin(n, S[s[1]], sites[s].call)
  BY <1>1, SiteOrigin
<1>. QED
  BY <1>2 DEF Sites, sites

(***************************************************************************)
(* Every message is backed                                                 *)
(***************************************************************************)
Tells(f) == Sending(f) \/ Receiving(f) \/ Controls(f)
Told(name, S) == \E i \in DOMAIN S : name \in S[i].mentions /\ Tells(S[i])

\* What a message says of its files is so by their texts, and it is confident
\* only if one of them tells a direction.
MessageBacked(m, S) ==
  /\ m.confident \in BOOLEAN
  /\ RolesBacked(m.name, m.roles, S)
  /\ m.confident => Told(m.name, S)

LEMMA SitesTell ==
  ASSUME NEW S, NEW name, NEW calls, Sites(name, calls, S), DOMAIN calls # {}
  PROVE  Told(name, S)
<1>1. PICK s \in DOMAIN calls : TRUE
  OBVIOUS
<1>2. s[1] \in DOMAIN S /\ Origin(name, S[s[1]], calls[s].call)
  BY DEF Sites
<1>3. Tells(S[s[1]])
  BY <1>2, CallRoleBacked DEF Tells
<1>4. name \in S[s[1]].mentions
  BY <1>2 DEF Origin
<1>. QED
  BY <1>2, <1>3, <1>4 DEF Told

LEMMA FoundBacked ==
  ASSUME NEW S, NEW name, NEW struct, NEW calls, Sites(name, calls, S)
  PROVE  MessageBacked(Message(name, struct, FoundAt(calls), RolesAt(calls)), S)
<1>. DEFINE m == Message(name, struct, FoundAt(calls), RolesAt(calls))
<1>1. m.name = name /\ m.roles = RolesAt(calls) /\ m.confident = (DOMAIN calls # {})
  BY DEF Message, FoundAt
<1>. HIDE DEF m
<1>2. RolesBacked(name, RolesAt(calls), S)
  BY RolesAtBacked
<1>3. m.confident => Told(name, S)
  BY <1>1, SitesTell
<1>. QED
  BY <1>1, <1>2, <1>3 DEF MessageBacked, m

\* A direction inferred from files is told by one of them.
LEMMA InferredTold ==
  ASSUME NEW S, NEW d, NEW name, Loaded(S), inferDirection(name, AnalysesOf(S, d)).confident
  PROVE  Told(name, S)
<1>. DEFINE as == AnalysesOf(S, d)
            using == Using(name, as)
            lines == Mapped(using, LAMBDA a : a.ipc)
            calls == Flat(lines)
<1>1. DOMAIN as = DOMAIN S /\ \A i \in DOMAIN S : as[i] = analyzeSource(S[i], d)
  BY AnalysedTexts
<1>2. inferDirection(name, as) = Inferred(calls)
  BY DEF inferDirection
<1>. HIDE DEF as
<1>3. /\ DOMAIN using = {i \in DOMAIN as : name \in as[i].mentions}
      /\ \A i \in DOMAIN using : using[i] = as[i]
  BY DEF Using, Where
<1>. HIDE DEF using
<1>4. DOMAIN lines = DOMAIN using /\ \A i \in DOMAIN using : lines[i] = using[i].ipc
  BY DEF Mapped
<1>. HIDE DEF lines
<1>5. PICK s \in DOMAIN calls : Sends(calls[s]) \/ Receives(calls[s])
  <2>1. Inferred(calls).confident = (Direction(Exists(calls, Sends), Exists(calls, Receives)) # "unknown")
    BY DEF Inferred
  <2>2. Inferred(calls).confident
    BY <1>2 DEF as
  <2>3. Exists(calls, Sends) \/ Exists(calls, Receives)
    BY <2>1, <2>2 DEF Direction
  <2>. QED
    BY <2>3 DEF Exists
<1>6. s[1] \in DOMAIN lines /\ s[2] \in DOMAIN lines[s[1]] /\ calls[s] = lines[s[1]][s[2]]
  BY FlatPositions
<1>. HIDE DEF calls
<1>. DEFINE i == s[1]
<1>7. i \in DOMAIN S /\ name \in as[i].mentions /\ lines[i] = analyzeSource(S[i], d).ipc
  BY <1>1, <1>3, <1>4, <1>6
<1>8. name \in S[i].mentions
  <2>1. as[i] = analyzeSource(S[i], d)
    BY <1>1, <1>7
  <2>2. analyzeSource(S[i], d).mentions = S[i].mentions
    BY AnalysedText
  <2>. QED
    BY <1>7, <2>1, <2>2
<1>9. \/ Exists(analyzeSource(S[i], d).ipc, Sends)
      \/ Exists(analyzeSource(S[i], d).ipc, Receives)
  BY <1>5, <1>6, <1>7 DEF Exists
<1>10. Sending(S[i]) \/ Receiving(S[i])
  BY <1>7, <1>9, TextSends DEF Loaded, Text
<1>. QED
  BY <1>7, <1>8, <1>10 DEF Told, Tells

LEMMA MentionedBacked ==
  ASSUME NEW S, NEW d, NEW name, NEW struct, Loaded(S)
  PROVE  MessageBacked(Mentioned(name, struct, AnalysesOf(S, d)), S)
<1>. DEFINE found == inferDirection(name, AnalysesOf(S, d))
            roles == computeFileRoles(name, AnalysesOf(S, d))
            m == Mentioned(name, struct, AnalysesOf(S, d))
<1>1. RolesBacked(name, roles, S)
  BY ComputedRolesBacked
<1>2. found.confident => Told(name, S)
  BY InferredTold
<1>3. found.confident \in BOOLEAN
  BY DEF inferDirection, Inferred
<1>. HIDE DEF found, roles
<1>4. m.name = name /\ m.confident = found.confident /\ m.roles = roles
  BY DEF Mentioned, Message, found, roles
<1>. HIDE DEF m
<1>. QED
  BY <1>1, <1>2, <1>3, <1>4 DEF MessageBacked, m

IsMessage(m) ==
  m = [name |-> m.name, struct |-> m.struct, direction |-> m.direction,
       confident |-> m.confident, transport |-> m.transport, roles |-> m.roles]

\* What its calls add to a message.
Adds(more, m, calls) ==
  IF m.confident \/ DOMAIN calls = {} THEN more = m
  ELSE /\ more.name = m.name /\ more.struct = m.struct /\ more.confident = TRUE
       /\ more.direction = FoundAt(calls).direction
       /\ DOMAIN more.roles = DOMAIN m.roles \cup DOMAIN RolesAt(calls)
       /\ \A t \in DOMAIN more.roles :
            more.roles[t] = IF t \in DOMAIN m.roles THEN m.roles[t] ELSE RolesAt(calls)[t]

LEMMA AugmentedFields ==
  ASSUME NEW m, NEW as, IsMessage(m)
  PROVE  Adds(Augmented(m, as), m, PassedSites(m.name, as))
<1>. DEFINE calls == PassedSites(m.name, as)
            roles == RolesAt(calls)
            all == [f \in DOMAIN m.roles \cup DOMAIN roles |->
                      IF f \in DOMAIN m.roles THEN m.roles[f] ELSE roles[f]]
            more == [m EXCEPT !.direction = FoundAt(calls).direction, !.confident = TRUE,
                              !.transport = IF m.transport = Nothing THEN FoundAt(calls).transport ELSE m.transport,
                              !.roles = all]
<1>1. Augmented(m, as) = IF m.confident \/ DOMAIN calls = {} THEN m ELSE more
  BY DEF Augmented, PassedSites
<1>. HIDE DEF calls, roles
<1>2. DOMAIN all = DOMAIN m.roles \cup DOMAIN roles
  OBVIOUS
<1>3. \A t \in DOMAIN all : all[t] = IF t \in DOMAIN m.roles THEN m.roles[t] ELSE roles[t]
  OBVIOUS
<1>. HIDE DEF all
<1>4. /\ more.name = m.name /\ more.struct = m.struct /\ more.confident = TRUE
      /\ more.direction = FoundAt(calls).direction /\ more.roles = all
  BY DEF IsMessage
<1>. HIDE DEF more
<1>. QED
  BY <1>1, <1>2, <1>3, <1>4 DEF Adds, roles, calls

LEMMA MentionedIsMessage ==
  ASSUME NEW name, NEW struct, NEW as
  PROVE  IsMessage(Mentioned(name, struct, as)) /\ Mentioned(name, struct, as).name = name
BY MentionedType DEF IsMessage

LEMMA AugmentedBacked ==
  ASSUME NEW S, NEW d, NEW m, Loaded(S), IsMessage(m), MessageBacked(m, S)
  PROVE  MessageBacked(Augmented(m, AnalysesOf(S, d)), S)
<1>. DEFINE as == AnalysesOf(S, d)
            calls == PassedSites(m.name, as)
            more == Augmented(m, as)
<1>1. Sites(m.name, calls, S)
  BY PassedSitesOf
<1>2. Adds(more, m, calls)
  BY AugmentedFields
<1>3. RolesBacked(m.name, RolesAt(calls), S)
  BY <1>1, RolesAtBacked
<1>4. DOMAIN calls # {} => Told(m.name, S)
  BY <1>1, SitesTell
<1>. HIDE DEF calls, more
<1>5. RolesBacked(m.name, m.roles, S)
  BY DEF MessageBacked
<1>6. CASE ~ (m.confident \/ DOMAIN calls = {})
  <2>1. \A t \in DOMAIN more.roles : \E i \in DOMAIN S : Backs(S[i], t, m.name, more.roles[t])
    BY <1>2, <1>3, <1>5, <1>6 DEF RolesBacked, Adds
  <2>2. RolesBacked(more.name, more.roles, S)
    BY <1>2, <1>6, <2>1 DEF RolesBacked, Adds
  <2>3. more.confident \in BOOLEAN /\ Told(more.name, S)
    BY <1>2, <1>4, <1>6 DEF Adds
  <2>4. MessageBacked(more, S)
    BY <2>2, <2>3 DEF MessageBacked
  <2>. QED
    BY <2>4 DEF more
<1>7. CASE m.confident \/ DOMAIN calls = {}
  <2>1. more = m
    BY <1>2, <1>7 DEF Adds
  <2>. QED
    BY <2>1 DEF more
<1>. QED
  BY <1>6, <1>7

LEMMA MessagesBacked ==
  ASSUME NEW S, NEW d, Loaded(S), NEW m \in extractMessageInterfaces(AnalysesOf(S, d), d)
  PROVE  MessageBacked(m, S)
<1>. DEFINE as == AnalysesOf(S, d)
<1>1. PICK n \in FoundNames(as, d) : m = MessageOf(n, as, d)
  BY ExtractedMessages
<1>2. MessageBacked(MentionedMessage(n, as, d), S)
  <2>. DEFINE first == Mentioned(n, StructOf(n, as, d), as)
  <2>1. IsMessage(first) /\ MessageBacked(first, S)
    BY MentionedBacked, MentionedIsMessage
  <2>. HIDE DEF first
  <2>2. MessageBacked(Augmented(first, as), S)
    BY <2>1, AugmentedBacked
  <2>. QED
    BY <2>2 DEF MentionedMessage, first
<1>3. MessageBacked(PassedMessage(n, as, d), S)
  BY PassedSitesOf, FoundBacked DEF PassedMessage
<1>4. MessageBacked(ImpliedMessage(n, as, d), S)
  BY ImpliedSitesOf, FoundBacked DEF ImpliedMessage
<1>. HIDE DEF as
<1>. QED
  BY <1>1, <1>2, <1>3, <1>4 DEF MessageOf

(***************************************************************************)
(* An analysis is always that of the files loaded                          *)
(***************************************************************************)
Current(a) ==
  /\ typeDict[a] = Dictionary(getHeaders(files[a], external))
  /\ analyses[a] = AnalysesOf(getSources(files[a]), typeDict[a])
  /\ messages[a] # NoAnalysis =>
       messages[a] = extractMessageInterfaces(analyses[a], typeDict[a]) /\ structRoles[a] = StructRolesOf(a)

CurrentInv == TypeInv /\ \A a \in Apps : Current(a)

LEMMA NothingLoaded ==
  /\ getSources(<<>>) = <<>>
  /\ Dictionary(getHeaders(<<>>, <<>>)) = Dictionary(<<>>)
  /\ \A d : AnalysesOf(<<>>, d) = <<>>
<1>1. Texts(<<>>) = <<>>
  BY DEF Texts, Where, Mapped
<1>2. getSources(<<>>) = <<>>
  BY <1>1 DEF getSources, Where
<1>3. \A d : AnalysesOf(<<>>, d) = <<>>
  BY DEF AnalysesOf, Mapped
<1>4. Unshadowed(<<>>, <<>>) = <<>>
  BY DEF Unshadowed, Where
<1>5. getHeaders(<<>>, <<>>) = <<>>
  <2>. DEFINE seqs == <<Texts(<<>>), Texts(Unshadowed(<<>>, <<>>))>>
  <2>1. \A i \in DOMAIN seqs : DOMAIN seqs[i] = {}
    BY <1>1, <1>4
  <2>. HIDE DEF seqs
  <2>2. DOMAIN Flat(seqs) = {}
    BY <2>1, FlatPositions
  <2>3. Where(Flat(seqs), LAMBDA f : ~IsSource(f)) = <<>>
    BY <2>2 DEF Where
  <2>. QED
    BY <2>3 DEF getHeaders, seqs
<1>. QED
  BY <1>2, <1>3, <1>5

LEMMA CurrentInit == Init => CurrentInv
<1>. SUFFICES ASSUME Init PROVE CurrentInv
  OBVIOUS
<1>1. \A a \in Apps : /\ files[a] = <<>> /\ external = <<>> /\ typeDict[a] = Dictionary(<<>>)
                      /\ analyses[a] = <<>> /\ messages[a] = NoAnalysis
  BY DEF Init
<1>2. ASSUME NEW a \in Apps PROVE Current(a)
  <2>1. typeDict[a] = Dictionary(getHeaders(files[a], external))
    BY <1>1, NothingLoaded
  <2>2. analyses[a] = AnalysesOf(getSources(files[a]), typeDict[a])
    BY <1>1, NothingLoaded
  <2>. QED
    BY <1>1, <2>1, <2>2 DEF Current
<1>. QED
  BY <1>2, TypeInvInit DEF CurrentInv

LEMMA CurrentKept ==
  ASSUME NEW a \in Apps, Current(a), chosen' = chosen, files'[a] = files[a], external' = external,
         typeDict'[a] = typeDict[a], analyses'[a] = analyses[a], messages'[a] = messages[a],
         structRoles'[a] = structRoles[a]
  PROVE  Current(a)'
<1>1. /\ getSources(files[a])' = getSources(files[a])
      /\ getHeaders(files[a], external)' = getHeaders(files[a], external)
  BY DEF getSources, getHeaders, Where, Texts, Mapped, program, Unshadowed, Named
<1>2. Referenced(a)' = Referenced(a) /\ PayloadsOf(a)' = PayloadsOf(a)
  BY <1>1 DEF Referenced, PayloadsOf
<1>3. StructRolesOf(a)' = StructRolesOf(a)
  BY <1>2 DEF StructRolesOf
<1>. QED
  BY <1>1, <1>3 DEF Current

LEMMA CurrentReanalysed ==
  ASSUME \A a \in Apps : Current(a), NEW apps \in SUBSET Apps, Reanalysed(apps), chosen' = chosen,
         \A a \in Apps \ apps : files'[a] = files[a] /\ external' = external
  PROVE  \A a \in Apps : Current(a)'
<1>1. ASSUME NEW a \in apps PROVE Current(a)'
  <2>0. /\ getSources(files[a])' = getSources(files'[a])
        /\ getHeaders(files[a], external)' = getHeaders(files'[a], external')
    BY DEF getSources, getHeaders, Where, Texts, Mapped, program, Unshadowed, Named
  <2>1. typeDict'[a] = Dictionary(getHeaders(files'[a], external'))
    BY DEF Reanalysed
  <2>2. analyses'[a] = Mapped(getSources(files'[a]), LAMBDA f : analyzeSource(f, typeDict'[a]))
    BY DEF Reanalysed
  <2>3. messages'[a] # NoAnalysis =>
          /\ messages'[a] = extractMessageInterfaces(analyses'[a], typeDict'[a])
          /\ structRoles'[a] = StructRolesOf(a)'
    BY DEF Reanalysed
  <2>4. typeDict'[a] = Dictionary(getHeaders(files[a], external)')
    BY <2>0, <2>1
  <2>5. analyses'[a] = AnalysesOf(getSources(files[a])', typeDict'[a])
    BY <2>0, <2>2 DEF AnalysesOf
  <2>. QED
    BY <2>3, <2>4, <2>5 DEF Current
<1>2. ASSUME NEW a \in Apps \ apps PROVE Current(a)'
  <2>1. /\ typeDict'[a] = typeDict[a] /\ analyses'[a] = analyses[a] /\ messages'[a] = messages[a]
        /\ structRoles'[a] = structRoles[a]
    BY DEF Reanalysed
  <2>. QED
    BY <2>1, CurrentKept
<1>. QED
  BY <1>1, <1>2

LEMMA CurrentStep == Distinguished /\ CurrentInv /\ [Next]_vars => CurrentInv'
<1>. SUFFICES ASSUME Distinguished, CurrentInv, [Next]_vars
              PROVE  CurrentInv'
  OBVIOUS
<1>0. TypeInv'
  BY TypeInvStep DEF CurrentInv
<1>1. ASSUME NEW shared, SetExternal(shared) PROVE \A a \in Apps : Current(a)'
  <2>1. chosen' = chosen /\ Reanalysed(Apps)
    BY <1>1 DEF SetExternal
  <2>. QED
    BY <2>1, CurrentReanalysed DEF CurrentInv
<1>2. ASSUME NEW a \in Apps, NEW own, SetFiles(a, own) PROVE \A b \in Apps : Current(b)'
  <2>1. chosen' = chosen /\ external' = external /\ Reanalysed({a}) /\ files' = [files EXCEPT ![a] = own]
    BY <1>2 DEF SetFiles
  <2>2. \A b \in Apps \ {a} : files'[b] = files[b]
    BY <2>1 DEF CurrentInv, TypeInv
  <2>. QED
    BY <2>1, <2>2, CurrentReanalysed DEF CurrentInv
<1>3. ASSUME UNCHANGED <<loaded, analysis>> PROVE \A a \in Apps : Current(a)'
  <2>1. /\ chosen' = chosen /\ files' = files /\ external' = external /\ typeDict' = typeDict
        /\ analyses' = analyses /\ messages' = messages /\ structRoles' = structRoles
    BY <1>3 DEF loaded, analysis
  <2>. QED
    BY <2>1, CurrentKept DEF CurrentInv
<1>4. \A a \in Apps : Current(a)'
  BY <1>1, <1>2, <1>3
  DEF Next, AddExternal, RemoveExternal, AddFile, RemoveFile, ViewApps, ViewFiles, vars
<1>. QED
  BY <1>0, <1>4 DEF CurrentInv

\* However files are loaded, removed and looked at, what is kept of an
\* application is the analysis of the files it has now and of the shared headers,
\* each pass of it from the results of the passes before (App.tsx 93-128,
\* 274-296, index.ts 33-105).
THEOREM CurrentCorrect ==
  ASSUME Distinguished
  PROVE  Spec => []CurrentInv
<1>1. CurrentInv /\ [Next]_vars => CurrentInv'
  BY CurrentStep, Distinguished
<1>. QED
  BY CurrentInit, <1>1, PTL DEF Spec

\* The files of an application are texts, each under a name of its own.
LEMMA SourcesLoaded ==
  ASSUME CurrentInv, NEW a \in Apps
  PROVE  Loaded(getSources(files[a]))
<1>. DEFINE seq == files[a]
            S == getSources(seq)
<1>1. /\ seq \in Seq(DOMAIN program)
      /\ \A i, j \in DOMAIN seq : program[seq[i]].name = program[seq[j]].name => i = j
  BY DEF CurrentInv, TypeInv, Listed
<1>2. DOMAIN S \subseteq DOMAIN seq /\ \A i \in DOMAIN S : S[i] = program[seq[i]]
  BY DEF getSources, Texts, Where, Mapped
<1>. HIDE DEF S
<1>3. \A n \in DOMAIN program : Text(program[n])
  BY InterfacesAssumption DEF program, CurrentInv, TypeInv
<1>. HIDE DEF seq
<1>4. DOMAIN seq \subseteq Nat /\ \A i \in DOMAIN seq : seq[i] \in DOMAIN program
  BY <1>1
<1>5. Loaded(S)
  BY <1>1, <1>2, <1>3, <1>4 DEF Loaded
<1>. QED
  BY <1>5 DEF S, seq

(***************************************************************************)
(* Edges                                                                   *)
(***************************************************************************)
LEMMA AppMessagesBacked ==
  ASSUME CurrentInv, NEW a \in DOMAIN View, NEW m \in messages[a]
  PROVE  MessageBacked(m, getSources(files[a]))
<1>1. a \in Apps /\ messages[a] # NoAnalysis
  BY DEF View
<1>2. m \in extractMessageInterfaces(AnalysesOf(getSources(files[a]), typeDict[a]), typeDict[a])
  BY <1>1 DEF CurrentInv, Current
<1>3. Loaded(getSources(files[a]))
  BY <1>1, SourcesLoaded
<1>. QED
  BY <1>2, <1>3, MessagesBacked

\* A file with a role in a message, for each side.
LEMMA RoleOfFile ==
  ASSUME CurrentInv, NEW a \in DOMAIN View, NEW m \in messages[a], NEW t \in DOMAIN m.roles
  PROVE  \E f \in FilesCalled(a, t) : m.name \in f.mentions /\ RoleBacked(f, m.roles[t])
<1>. DEFINE S == getSources(files[a])
<1>1. PICK i \in DOMAIN S : Backs(S[i], t, m.name, m.roles[t])
  BY AppMessagesBacked DEF MessageBacked, RolesBacked
<1>2. S[i] \in FilesCalled(a, t)
  BY <1>1 DEF FilesCalled, SourcesOf, ToSet, Backs
<1>. QED
  BY <1>1, <1>2 DEF Backs

LEMMA ProducerBacked ==
  ASSUME CurrentInv, NEW n, NEW a \in ProducersOf(n, View)
  PROVE  \E f \in SourcesOf(a) : n \in f.mentions /\ ~OnlyReceives(f)
<1>1. PICK m \in View[a] : m.name = n /\ MsgProduces(m)
  BY DEF ProducersOf
<1>2. a \in DOMAIN View /\ m \in messages[a]
  BY <1>1 DEF ProducersOf, View
<1>3. PICK t \in DOMAIN m.roles : m.roles[t] \in {"producer", "both"}
  BY <1>1 DEF MsgProduces, Roles
<1>. QED
  BY <1>1, <1>2, <1>3, RoleOfFile DEF RoleBacked, FilesCalled

LEMMA ConsumerBacked ==
  ASSUME CurrentInv, NEW n, NEW a \in ConsumersOf(n, View)
  PROVE  \E f \in SourcesOf(a) : n \in f.mentions /\ ~OnlySends(f)
<1>1. PICK m \in View[a] : m.name = n /\ MsgConsumes(m)
  BY DEF ConsumersOf
<1>2. a \in DOMAIN View /\ m \in messages[a]
  BY <1>1 DEF ConsumersOf, View
<1>3. PICK t \in DOMAIN m.roles : m.roles[t] \in {"consumer", "both"}
  BY <1>1 DEF MsgConsumes, Roles
<1>. QED
  BY <1>1, <1>2, <1>3, RoleOfFile DEF RoleBacked, FilesCalled

LEMMA RouteSides ==
  ASSUME NEW n, NEW r \in Routes(n, View)
  PROVE  r[1] \in ProducersOf(n, View) /\ r[2] \in ConsumersOf(n, View)
<1>. DEFINE P == ProducersOf(n, View)
            C == ConsumersOf(n, View)
<1>1. \/ r \in P \X C
      \/ r \in (P \ C) \X (P \cap C)
      \/ r \in (P \cap C) \X (C \ P)
  BY DEF Routes
<1>. HIDE DEF P, C
<1>2. r[1] \in P /\ r[2] \in C
  BY <1>1
<1>. QED
  BY <1>2 DEF P, C

LEMMA RouteBacked ==
  ASSUME CurrentInv, NEW n, NEW r \in Routes(n, View)
  PROVE  Backed(n, SourcesOf(r[1]), SourcesOf(r[2]))
BY RouteSides, ProducerBacked, ConsumerBacked DEF Backed

\* An edge between applications stands for some of the routes.
IsAppEdge(e) ==
  /\ e.arrows \subseteq Arrows(View)
  /\ e.messages = UNION {Carried(r, View) : r \in e.arrows}
  /\ e.direction = EdgeDirection(e.arrows, \E r \in e.arrows : Sure(r, View))
  /\ \E arrow \in Arrows(View) : e.arrows = DrawnPair(arrow, Arrows(View))

LEMMA AppEdge ==
  ASSUME NEW e \in buildAppGraph(View)
  PROVE  IsAppEdge(e)
<1>. DEFINE arrows == Arrows(View)
            Edge(pair) ==
              [arrows |-> pair, messages |-> UNION {Carried(arrow, View) : arrow \in pair},
               direction |-> EdgeDirection(pair, \E arrow \in pair : Sure(arrow, View))]
<1>1. buildAppGraph(View) = {Edge(DrawnPair(arrow, arrows)) : arrow \in arrows}
  BY DEF buildAppGraph
<1>2. PICK arrow \in arrows : e = Edge(DrawnPair(arrow, arrows))
  BY <1>1
<1>3. DrawnPair(arrow, arrows) \subseteq arrows
  BY DEF DrawnPair
<1>. QED
  BY <1>2, <1>3 DEF IsAppEdge

LEMMA AppEdgeBacked ==
  ASSUME CurrentInv, NEW e \in buildAppGraph(View), NEW r \in e.arrows, NEW n \in Carried(r, View)
  PROVE  Backed(n, SourcesOf(r[1]), SourcesOf(r[2]))
BY RouteBacked DEF Carried

\* An edge between files stands for some of the routes of the messages.
Sureness(pair, ms) ==
  {c \in BOOLEAN : \E s \in [pair -> BOOLEAN] :
     (\A r \in pair : s[r] \in FirstSure(r, ms)) /\ c = \E r \in pair : s[r]}

IsFileEdge(e, ms) ==
  /\ \A r \in e.arrows : \E m \in ms : r \in FileRoutes(m)
  /\ e.messages = {m.name : m \in {m \in ms : FileRoutes(m) \cap e.arrows # {}}}
  /\ e.directions = {EdgeDirection(e.arrows, c) : c \in Sureness(e.arrows, ms)}

LEMMA FileEdge ==
  ASSUME NEW ms, NEW e \in buildGraph(ms)
  PROVE  IsFileEdge(e, ms)
<1>. DEFINE arrows == UNION {FileRoutes(m) : m \in ms}
            Edge(pair) ==
              [arrows |-> pair, messages |-> {m.name : m \in {m \in ms : FileRoutes(m) \cap pair # {}}},
               directions |-> {EdgeDirection(pair, c) : c \in Sureness(pair, ms)}]
<1>1. buildGraph(ms) = {Edge(DrawnPair(arrow, arrows)) : arrow \in arrows}
  BY DEF buildGraph, Sureness
<1>2. PICK arrow \in arrows : e = Edge(DrawnPair(arrow, arrows))
  BY <1>1
<1>. DEFINE pair == DrawnPair(arrow, arrows)
<1>3. pair \subseteq arrows
  BY DEF DrawnPair
<1>. HIDE DEF pair
<1>4. /\ e.arrows = pair /\ e.messages = {m.name : m \in {m \in ms : FileRoutes(m) \cap pair # {}}}
      /\ e.directions = {EdgeDirection(pair, c) : c \in Sureness(pair, ms)}
  BY <1>2 DEF pair
<1>. QED
  BY <1>3, <1>4 DEF IsFileEdge

LEMMA FileRouteBacked ==
  ASSUME CurrentInv, NEW a \in DOMAIN View, NEW m \in messages[a], NEW r \in FileRoutes(m)
  PROVE  Backed(m.name, FilesCalled(a, r[1]), FilesCalled(a, r[2]))
<1>1. /\ r[1] \in DOMAIN m.roles /\ m.roles[r[1]] \in {"producer", "both"}
      /\ r[2] \in DOMAIN m.roles /\ m.roles[r[2]] \in {"consumer", "both"}
  BY DEF FileRoutes, FileProducers, FileConsumers
<1>. QED
  BY <1>1, RoleOfFile DEF Backed, RoleBacked

\* However the files are loaded, an edge stands for messages that a file on
\* the one side mentions and does more than receive, and one on the other does
\* more than send (messagingExtractor.ts 148-181, buildAppGraph.ts 132-179,
\* buildGraph.ts 66-108).
THEOREM EdgesBackedCorrect ==
  ASSUME Distinguished
  PROVE  Spec => []EdgesBacked
<1>1. CurrentInv => EdgesBacked
  <2>. SUFFICES ASSUME CurrentInv PROVE EdgesBacked
    OBVIOUS
  <2>1. ASSUME NEW e \in buildAppGraph(View), NEW n \in e.messages
        PROVE  \E r \in e.arrows : Backed(n, SourcesOf(r[1]), SourcesOf(r[2]))
    <3>0. e.messages = UNION {Carried(r, View) : r \in e.arrows}
      BY <2>1, AppEdge DEF IsAppEdge
    <3>1. PICK r \in e.arrows : n \in Carried(r, View)
      BY <2>1, <3>0
    <3>. QED
      BY <3>1, AppEdgeBacked
  <2>2. ASSUME NEW a \in DOMAIN View, NEW e \in buildGraph(messages[a]), NEW n \in e.messages
        PROVE  \E r \in e.arrows : Backed(n, FilesCalled(a, r[1]), FilesCalled(a, r[2]))
    <3>1. PICK m \in messages[a] : n = m.name /\ FileRoutes(m) \cap e.arrows # {}
      BY <2>2, FileEdge DEF IsFileEdge
    <3>. QED
      BY <3>1, FileRouteBacked
  <2>. QED
    BY <2>1, <2>2 DEF EdgesBacked
<1>. QED
  BY <1>1, CurrentCorrect, Distinguished, PTL

\* A message that is confident is mentioned where a direction is told.
LEMMA ConfidentTold ==
  ASSUME CurrentInv, NEW a \in DOMAIN View, NEW m \in messages[a], m.confident
  PROVE  \E f \in SourcesOf(a) : m.name \in f.mentions /\ (Sending(f) \/ Receiving(f) \/ Controls(f))
<1>1. Told(m.name, getSources(files[a]))
  BY AppMessagesBacked DEF MessageBacked
<1>. QED
  BY <1>1 DEF Told, Tells, SourcesOf, ToSet

\* An edge is drawn as certain only if the text of a file says which way one
\* of its messages goes, and as bidirectional only if messages go both ways,
\* whichever message is met first (buildAppGraph.ts 239-245, buildGraph.ts
\* 164-166, 182-187).
THEOREM CertainMeansEvidenceCorrect ==
  ASSUME Distinguished
  PROVE  Spec => []CertainMeansEvidence
<1>1. CurrentInv => CertainMeansEvidence
  <2>. SUFFICES ASSUME CurrentInv PROVE CertainMeansEvidence
    OBVIOUS
  <2>1. ASSUME NEW e \in buildAppGraph(View), e.direction # "uncertain"
        PROVE  Evidence(e.messages, UNION {SourcesOf(a) : a \in DOMAIN View})
    <3>1. PICK r \in e.arrows : Sure(r, View)
      BY <2>1, AppEdge DEF IsAppEdge, EdgeDirection
    <3>2. PICK n \in Carried(r, View), a \in DOMAIN View : \E m \in View[a] : m.name = n /\ m.confident
      BY <3>1 DEF Sure, Confident
    <3>3. PICK m \in messages[a] : m.name = n /\ m.confident
      BY <3>2 DEF View
    <3>4. PICK f \in SourcesOf(a) : n \in f.mentions /\ (Sending(f) \/ Receiving(f) \/ Controls(f))
      BY <3>3, ConfidentTold
    <3>5. n \in e.messages
      BY <2>1, <3>2, AppEdge DEF IsAppEdge
    <3>. QED
      BY <3>4, <3>5 DEF Evidence
  <2>2. ASSUME NEW e \in buildAppGraph(View), NEW r \in e.arrows
        PROVE  \E n \in e.messages : Backed(n, SourcesOf(r[1]), SourcesOf(r[2]))
    <3>1. PICK n \in Seen(View) : r \in Routes(n, View)
      BY <2>2, AppEdge DEF IsAppEdge, Arrows
    <3>2. n \in Carried(r, View)
      BY <3>1 DEF Carried
    <3>3. n \in e.messages
      BY <2>2, <3>2, AppEdge DEF IsAppEdge
    <3>. QED
      BY <3>1, <3>3, RouteBacked
  <2>3. ASSUME NEW a \in DOMAIN View, NEW e \in buildGraph(messages[a]), e.directions # {"uncertain"}
        PROVE  Evidence(e.messages, SourcesOf(a))
    <3>. DEFINE ms == messages[a]
                pair == e.arrows
                Suits(s) == \A r \in pair : s[r] \in FirstSure(r, ms)
    <3>0. IsFileEdge(e, ms)
      BY <2>3, FileEdge
    <3>1. \A m \in ms : m.confident \in BOOLEAN
      BY AppMessagesBacked DEF MessageBacked
    <3>2. \A r \in pair : FirstSure(r, ms) # {} /\ FirstSure(r, ms) \subseteq BOOLEAN
      <4>. TAKE r \in pair
      <4>1. PICK m \in ms : r \in FileRoutes(m)
        BY <3>0 DEF IsFileEdge
      <4>. QED
        BY <3>1, <4>1 DEF FirstSure
    <3>3. Sureness(pair, ms) # {}
      <4>. DEFINE s == [r \in pair |-> CHOOSE c \in FirstSure(r, ms) : TRUE]
      <4>1. \A r \in pair : s[r] \in FirstSure(r, ms)
        BY <3>2
      <4>2. s \in [pair -> BOOLEAN] /\ Suits(s)
        BY <3>2, <4>1
      <4>3. (\E r \in pair : s[r]) \in BOOLEAN
        OBVIOUS
      <4>. HIDE DEF s
      <4>. QED
        BY <4>2, <4>3 DEF Sureness
    <3>4. e.directions = {EdgeDirection(pair, c) : c \in Sureness(pair, ms)}
      BY <3>0 DEF IsFileEdge
    <3>5. TRUE \in Sureness(pair, ms)
      <4>. SUFFICES ASSUME TRUE \notin Sureness(pair, ms) PROVE FALSE
        OBVIOUS
      <4>1. Sureness(pair, ms) = {FALSE}
        BY <3>3 DEF Sureness
      <4>2. e.directions = {EdgeDirection(pair, FALSE)}
        BY <3>4, <4>1
      <4>. QED
        BY <2>3, <4>2 DEF EdgeDirection
    <3>6. PICK s \in [pair -> BOOLEAN] : Suits(s) /\ \E r \in pair : s[r]
      BY <3>5 DEF Sureness
    <3>7. PICK r \in pair : s[r] /\ s[r] \in FirstSure(r, ms)
      BY <3>6
    <3>8. PICK m \in ms : r \in FileRoutes(m) /\ m.confident
      BY <3>7 DEF FirstSure
    <3>9. m.name \in e.messages
      BY <3>0, <3>8 DEF IsFileEdge
    <3>. QED
      BY <3>8, <3>9, ConfidentTold DEF Evidence
  <2>4. ASSUME NEW a \in DOMAIN View, NEW e \in buildGraph(messages[a]), NEW r \in e.arrows
        PROVE  \E n \in e.messages : Backed(n, FilesCalled(a, r[1]), FilesCalled(a, r[2]))
    <3>0. IsFileEdge(e, messages[a])
      BY <2>4, FileEdge
    <3>1. PICK m \in messages[a] : r \in FileRoutes(m)
      BY <3>0 DEF IsFileEdge
    <3>2. m.name \in e.messages
      BY <3>0, <3>1 DEF IsFileEdge
    <3>. QED
      BY <3>1, <3>2, FileRouteBacked
  <2>. QED
    BY <2>1, <2>2, <2>3, <2>4 DEF CertainMeansEvidence
<1>. QED
  BY <1>1, CurrentCorrect, Distinguished, PTL

(***************************************************************************)
(* Flows                                                                   *)
(***************************************************************************)
\* A pattern that matches has an entry that collects at its calls.
LEMMA CollectorExists ==
  ASSUME NEW f, f.calls \in Seq(CallExpression), NEW j \in Matching(f)
  PROVE  \E k \in DOMAIN Shallow(f) : k \in Collector(Shallow(f), Patterns[j])
<1>. DEFINE p == Patterns[j]
            ipc == Shallow(f)
            same == {i \in DOMAIN ipc : ipc[i].type = p.type /\ ipc[i].direction = p.direction}
            at == Len(f.calls) + j
<1>1. at \in DOMAIN ipc /\ ipc[at] = Ipc(p.type, p.name, p.direction) /\ DOMAIN ipc \subseteq Nat
  BY ShallowEntries
<1>. HIDE DEF ipc, at, p
<1>2. at \in same
  BY <1>1, PatternEntry
<1>3. PICK k \in same : \A i \in same : k <= i
  BY <1>1, <1>2, Least
<1>4. k \in Collector(ipc, p)
  BY <1>3 DEF Collector
<1>. QED
  BY <1>3, <1>4 DEF ipc, p

\* What is passed at a call of a pattern is found.
LEMMA PassedCollected ==
  ASSUME NEW f, NEW d, Text(f), NEW n, Passes(f, n)
  PROVE  /\ n \in f.mentions
         /\ \E k \in DOMAIN Shallow(f) : n \in Collect(k, f, d).constants \cup Collect(k, f, d).missing
<1>1. PICK c \in DOMAIN f.calls, j \in Matching(f) :
        f.calls[c].callee \in Patterns[j].calls /\ n \in ConstantsAt(f.calls[c], Patterns[j])
  BY DEF Passes
<1>2. f.calls \in Seq(CallExpression)
  BY DEF Text
<1>3. j \in DOMAIN Patterns
  BY DEF Matching
<1>4. PICK k \in DOMAIN Shallow(f) : k \in Collector(Shallow(f), Patterns[j])
  BY <1>2, CollectorExists
<1>. DEFINE v == <<c, j>>
            Constants(w) == ConstantsAt(f.calls[w[1]], Patterns[w[2]])
<1>5. v \in CollectedBy(k, f) /\ n \in Constants(v)
  BY <1>1, <1>3, <1>4 DEF CollectedBy, Visits
<1>6. n \in Collect(k, f, d).constants \cup Collect(k, f, d).missing
  <2>1. \E type, title, direction : Shallow(f)[k] = Ipc(type, title, direction)
    BY <1>2, ShallowIpc
  <2>2. Collect(k, f, d).constants \cup Collect(k, f, d).missing = UNION {Constants(w) : w \in CollectedBy(k, f)}
    BY <2>1 DEF Collect, Ipc
  <2>. HIDE DEF v, Constants
  <2>. QED
    BY <1>5, <2>2
<1>7. n \in f.mentions
  BY <1>1, <1>3, ConstantsMentioned
<1>. QED
  BY <1>6, <1>7

LEMMA PassedSite ==
  ASSUME NEW S, NEW d, Loaded(S), NEW i \in DOMAIN S, NEW n, Passes(S[i], n)
  PROVE  \E s \in DOMAIN AllCalls(AnalysesOf(S, d)) :
           /\ n \in Passed(AllCalls(AnalysesOf(S, d))[s])
           /\ AllCalls(AnalysesOf(S, d))[s].file = S[i].name
<1>. DEFINE calls == AllCalls(AnalysesOf(S, d))
<1>1. PICK k \in DOMAIN Shallow(S[i]) : n \in Collect(k, S[i], d).constants \cup Collect(k, S[i], d).missing
  BY PassedCollected DEF Loaded
<1>. DEFINE s == <<i, k>>
<1>2. s \in DOMAIN calls /\ calls[s] = Entry(S, d, s)
  BY AllCallsPositions
<1>. HIDE DEF calls
<1>3. calls[s].file = S[i].name /\ calls[s].call = Collect(k, S[i], d)
  BY <1>2 DEF Entry
<1>4. n \in Passed(calls[s])
  BY <1>1, <1>3 DEF Passed
<1>. QED
  BY <1>2, <1>3, <1>4 DEF calls

\* Every file that mentions a name has a role.
LEMMA MentioningFiles ==
  ASSUME NEW S, NEW d, NEW n, Loaded(S), NEW i \in DOMAIN S, n \in S[i].mentions
  PROVE  S[i].name \in DOMAIN computeFileRoles(n, AnalysesOf(S, d))
<1>. DEFINE roles == computeFileRoles(n, AnalysesOf(S, d))
<1>1. /\ DOMAIN roles = {S[k].name : k \in {k \in DOMAIN S : n \in S[k].mentions}}
      /\ \A k \in DOMAIN S : n \in S[k].mentions => roles[S[k].name] = FileRole(analyzeSource(S[k], d))
  BY ComputedRoles
<1>. HIDE DEF roles
<1>. QED
  BY <1>1 DEF roles

\* It is the name of a message, in which the file has a role.
LEMMA PassedMessages ==
  ASSUME NEW S, NEW d, Loaded(S), NEW i \in DOMAIN S, NEW n, Passes(S[i], n)
  PROVE  \E m \in extractMessageInterfaces(AnalysesOf(S, d), d) : m.name = n /\ S[i].name \in DOMAIN m.roles
<1>. DEFINE as == AnalysesOf(S, d)
            m == MessageOf(n, as, d)
            sites == PassedSites(n, as)
<1>1. PICK s \in DOMAIN AllCalls(as) : n \in Passed(AllCalls(as)[s]) /\ AllCalls(as)[s].file = S[i].name
  BY PassedSite
<1>. HIDE DEF as
<1>2. n \in PassedNames(as)
  BY <1>1 DEF PassedNames, ToSet
<1>3. m \in extractMessageInterfaces(as, d)
  BY <1>2, ExtractedMessages DEF FoundNames
<1>4. m.name = n
  BY MessageName
<1>5. CASE n \in Mentions(as, d)
  <2>. DEFINE first == Mentioned(n, StructOf(n, as, d), as)
              more == Augmented(first, as)
  <2>1. first.name = n /\ IsMessage(first)
    BY MentionedIsMessage
  <2>2. Adds(more, first, PassedSites(n, as))
    BY <2>1, AugmentedFields
  <2>3. S[i].name \in DOMAIN first.roles
    <3>1. first.roles = computeFileRoles(n, as)
      BY DEF Mentioned, Message
    <3>2. n \in S[i].mentions
      BY PassedCollected DEF Loaded
    <3>3. S[i].name \in DOMAIN computeFileRoles(n, AnalysesOf(S, d))
      BY <3>2, MentioningFiles
    <3>. HIDE DEF first
    <3>. QED
      BY <3>1, <3>3 DEF as
  <2>. HIDE DEF first, more
  <2>4. S[i].name \in DOMAIN more.roles
    BY <2>2, <2>3 DEF Adds
  <2>5. m = more
    BY <1>5 DEF MessageOf, MentionedMessage, more, first
  <2>. HIDE DEF m
  <2>. QED
    BY <1>3, <1>4, <2>4, <2>5 DEF as
<1>6. CASE n \notin Mentions(as, d)
  <2>1. m.roles = RolesAt(sites)
    BY <1>2, <1>6 DEF MessageOf, PassedMessage, Message
  <2>2. s \in DOMAIN sites /\ sites[s] = AllCalls(as)[s]
    BY <1>1 DEF PassedSites, Where
  <2>. HIDE DEF sites, m
  <2>3. S[i].name \in DOMAIN RolesAt(sites)
    BY <1>1, <2>2 DEF RolesAt, ToSet
  <2>. QED
    BY <1>3, <1>4, <2>1, <2>3 DEF as
<1>. QED
  BY <1>5, <1>6

\* An application whose files that mention a message only do one thing with it
\* is on that side of it alone.
LEMMA PassedInApp ==
  ASSUME CurrentInv, NEW a \in DOMAIN View, NEW f \in SourcesOf(a), NEW n, Passes(f, n)
  PROVE  \E m \in View[a] : m.name = n /\ DOMAIN m.roles # {}
<1>. DEFINE S == getSources(files[a])
<1>1. a \in Apps /\ messages[a] # NoAnalysis /\ View[a] = messages[a]
  BY DEF View
<1>2. messages[a] = extractMessageInterfaces(AnalysesOf(S, typeDict[a]), typeDict[a])
  BY <1>1 DEF CurrentInv, Current
<1>3. Loaded(S)
  BY <1>1, SourcesLoaded
<1>4. PICK i \in DOMAIN S : f = S[i]
  BY DEF SourcesOf, ToSet
<1>. HIDE DEF S
<1>5. PICK m \in messages[a] : m.name = n /\ S[i].name \in DOMAIN m.roles
  BY <1>2, <1>3, <1>4, PassedMessages
<1>. QED
  BY <1>1, <1>5

LEMMA RoleOfSource ==
  ASSUME CurrentInv, NEW a \in DOMAIN View, NEW m \in View[a], NEW t \in DOMAIN m.roles
  PROVE  \E f \in SourcesOf(a) : m.name \in f.mentions /\ RoleBacked(f, m.roles[t])
<1>1. m \in messages[a]
  BY DEF View
<1>. QED
  BY <1>1, RoleOfFile DEF FilesCalled

LEMMA OnlyProduces ==
  ASSUME CurrentInv, NEW n, NEW a \in DOMAIN View, OneWay(a, n, OnlySends)
  PROVE  a \in ProducersOf(n, View) \ ConsumersOf(n, View)
<1>1. PICK m \in View[a] : m.name = n /\ DOMAIN m.roles # {}
  BY PassedInApp DEF OneWay
<1>2. ASSUME NEW o \in View[a], o.name = n, NEW t \in DOMAIN o.roles
      PROVE  o.roles[t] = "producer"
  <2>1. PICK f \in SourcesOf(a) : n \in f.mentions /\ RoleBacked(f, o.roles[t])
    BY <1>2, RoleOfSource
  <2>2. OnlySends(f)
    BY <2>1 DEF OneWay
  <2>. QED
    BY <2>1, <2>2 DEF RoleBacked, RoleNames
<1>3. MsgProduces(m)
  BY <1>1, <1>2 DEF MsgProduces, Roles
<1>4. \A o \in View[a] : o.name = n => ~MsgConsumes(o)
  BY <1>2 DEF MsgConsumes, Roles
<1>. QED
  BY <1>1, <1>3, <1>4 DEF ProducersOf, ConsumersOf

LEMMA OnlyConsumes ==
  ASSUME CurrentInv, NEW n, NEW a \in DOMAIN View, OneWay(a, n, OnlyReceives)
  PROVE  a \in ConsumersOf(n, View) \ ProducersOf(n, View)
<1>1. PICK m \in View[a] : m.name = n /\ DOMAIN m.roles # {}
  BY PassedInApp DEF OneWay
<1>2. ASSUME NEW o \in View[a], o.name = n, NEW t \in DOMAIN o.roles
      PROVE  o.roles[t] = "consumer"
  <2>1. PICK f \in SourcesOf(a) : n \in f.mentions /\ RoleBacked(f, o.roles[t])
    BY <1>2, RoleOfSource
  <2>2. OnlyReceives(f)
    BY <2>1 DEF OneWay
  <2>. QED
    BY <2>1, <2>2 DEF RoleBacked, RoleNames
<1>3. MsgConsumes(m)
  BY <1>1, <1>2 DEF MsgConsumes, Roles
<1>4. \A o \in View[a] : o.name = n => ~MsgProduces(o)
  BY <1>2 DEF MsgProduces, Roles
<1>. QED
  BY <1>1, <1>3, <1>4 DEF ProducersOf, ConsumersOf

\* A route is drawn, by an edge that carries the message.
LEMMA RouteDrawn ==
  ASSUME NEW n \in Seen(View), NEW r \in Routes(n, View)
  PROVE  \E e \in buildAppGraph(View) : r \in e.arrows /\ n \in e.messages
<1>. DEFINE arrows == Arrows(View)
            Edge(pair) ==
              [arrows |-> pair, messages |-> UNION {Carried(arrow, View) : arrow \in pair},
               direction |-> EdgeDirection(pair, \E arrow \in pair : Sure(arrow, View))]
            e == Edge(DrawnPair(r, arrows))
<1>1. buildAppGraph(View) = {Edge(DrawnPair(arrow, arrows)) : arrow \in arrows}
  BY DEF buildAppGraph
<1>2. r \in arrows /\ n \in Carried(r, View)
  BY DEF Arrows, Carried
<1>3. r \in DrawnPair(r, arrows)
  BY <1>2 DEF DrawnPair
<1>4. e \in buildAppGraph(View)
  BY <1>1, <1>2
<1>5. r \in e.arrows /\ n \in e.messages
  BY <1>2, <1>3
<1>. QED
  BY <1>4, <1>5

\* What an edge carries goes along it, or back.
LEMMA DrawnRoute ==
  ASSUME NEW e \in buildAppGraph(View), NEW n \in e.messages, NEW a, NEW b, <<a, b>> \in e.arrows
  PROVE  <<a, b>> \in Routes(n, View) \/ <<b, a>> \in Routes(n, View)
<1>1. e.messages = UNION {Carried(r, View) : r \in e.arrows} /\ e.arrows \subseteq Arrows(View)
  BY AppEdge DEF IsAppEdge
<1>2. PICK r \in e.arrows : n \in Carried(r, View)
  BY <1>1
<1>3. PICK arrow \in Arrows(View) : e.arrows = DrawnPair(arrow, Arrows(View))
  BY AppEdge DEF IsAppEdge
<1>4. PICK other : arrow \in Routes(other, View)
  BY <1>3 DEF Arrows
<1>5. arrow = <<arrow[1], arrow[2]>>
  BY <1>4 DEF Routes
<1>6. e.arrows \subseteq {arrow, <<arrow[2], arrow[1]>>}
  BY <1>3 DEF DrawnPair, Reverse2
<1>7. r = <<a, b>> \/ r = <<b, a>>
  BY <1>5, <1>6
<1>. QED
  BY <1>2, <1>7 DEF Carried

\* What one application only sends and another only receives leads from the
\* first to the second, through every application that passes it on and not
\* around it (buildAppGraph.ts 149-179).
THEOREM FlowsDrawnCorrect ==
  ASSUME Distinguished
  PROVE  Spec => []FlowsDrawn
<1>1. CurrentInv => FlowsDrawn
  <2>. DEFINE Step(a, b, n) == \E e \in buildAppGraph(View) : <<a, b>> \in e.arrows /\ n \in e.messages
  <2>. SUFFICES ASSUME CurrentInv, NEW n \in Seen(View), NEW a \in DOMAIN View, NEW b \in DOMAIN View,
                       OneWay(a, n, OnlySends), OneWay(b, n, OnlyReceives)
                PROVE  IF PassOn(n) = {} THEN Step(a, b, n)
                       ELSE ~Step(a, b, n) /\ \A c \in PassOn(n) : Step(a, c, n) /\ Step(c, b, n)
    BY DEF FlowsDrawn
  <2>. DEFINE P == ProducersOf(n, View)
              C == ConsumersOf(n, View)
              R == Routes(n, View)
  <2>1. a \in P \ C /\ b \in C \ P
    BY OnlyProduces, OnlyConsumes
  <2>2. R = IF P \cap C = {} THEN P \X C ELSE ((P \ C) \X (P \cap C)) \cup ((P \cap C) \X (C \ P))
    BY DEF Routes
  <2>3. PassOn(n) = P \cap C
    BY DEF PassOn
  <2>4. \A x, y : <<x, y>> \in R => Step(x, y, n)
    BY RouteDrawn
  <2>5. \A x, y : Step(x, y, n) => <<x, y>> \in R \/ <<y, x>> \in R
    BY DrawnRoute
  <2>. HIDE DEF P, C, R, Step
  <2>6. CASE P \cap C = {}
    BY <2>1, <2>2, <2>3, <2>4, <2>6
  <2>7. CASE P \cap C # {}
    <3>1. R = ((P \ C) \X (P \cap C)) \cup ((P \cap C) \X (C \ P))
      BY <2>2, <2>7
    <3>2. <<a, b>> \notin R /\ <<b, a>> \notin R
      BY <2>1, <3>1
    <3>3. \A c \in P \cap C : <<a, c>> \in R /\ <<c, b>> \in R
      BY <2>1, <3>1
    <3>. QED
      BY <2>3, <2>4, <2>5, <2>7, <3>2, <3>3
  <2>. QED
    BY <2>6, <2>7 DEF Step
<1>. QED
  BY <1>1, CurrentCorrect, Distinguished, PTL

(***************************************************************************)
(* Payloads                                                                *)
(***************************************************************************)
LEMMA OneOf ==
  ASSUME NEW A, NEW B, NEW r \in (A ?? B)
  PROVE  r \in A \/ r \in B
BY DEF ??

LEMMA ResolvedFrom ==
  ASSUME NEW found, NEW confidence, NEW strategy, NEW r \in Resolved(found, confidence, strategy)
  PROVE  \E f \in found : r.type = f.type /\ r.confidence = confidence /\ r.strategy = strategy
BY DEF Resolved, Resolution

\* Each strategy is for arguments of its form.
LEMMA ByForm ==
  ASSUME NEW node, NEW stmts, NEW params, NEW d
  PROVE  /\ node.form # "name" => /\ tryPointerParam(node, params, d) = {} /\ tryAssignment(node, stmts, d) = {}
                                  /\ \A inner : tryLocalVarDecl(node, inner, stmts, d) = {}
         /\ node.form # "address" => tryAddressOf(node, stmts, d) = {}
         /\ node.form # "cast" => tryCast(node, stmts, params, d) = {}
         /\ node.form # "member" => tryMember(node, stmts, params, d) = {}
BY DEF tryPointerParam, tryAssignment, tryLocalVarDecl, tryAddressOf, tryCast, tryMember, When, IsForm

\* What is reported comes from one of the strategies.
LEMMA ReportedBy ==
  ASSUME NEW arg, NEW stmts, NEW params, NEW implied, NEW d,
         NEW r \in (Strategies(arg, stmts, params, implied, d) ?? {Unresolved})
  PROVE  \/ r \in Resolved(tryAddressOf(arg, stmts, d), "high", "address-of")
         \/ r \in Resolved(HasStruct(tryPointerParam(arg, params, d)), "high", "pointer")
         \/ r \in Resolved(HasStruct(tryLocalVarDecl(arg, FALSE, stmts, d)), "high", "pointer")
         \/ \E f \in tryCast(arg, stmts, params, d) : r = CastResolution(f)
         \/ r \in tryAssignment(arg, stmts, d)
         \/ r \in Resolved(tryMemcpy(arg, stmts, d), "medium", "memcpy")
         \/ r \in Resolved(tryMsgIdCorrelation(implied, d), "low", "msg-id-correlation")
         \/ r = Unresolved
<1>. DEFINE A == Resolved(tryAddressOf(arg, stmts, d), "high", "address-of")
            B == Resolved(HasStruct(tryPointerParam(arg, params, d)), "high", "pointer")
            C == Resolved(HasStruct(tryLocalVarDecl(arg, FALSE, stmts, d)), "high", "pointer")
            D == {CastResolution(f) : f \in {f \in tryCast(arg, stmts, params, d) : CastTells(f)}}
            E == tryAssignment(arg, stmts, d)
            F == Resolved(tryMemcpy(arg, stmts, d), "medium", "memcpy")
            G == Resolved(tryMsgIdCorrelation(implied, d), "low", "msg-id-correlation")
<1>1. Strategies(arg, stmts, params, implied, d) = (A ?? B ?? C ?? D ?? E ?? F ?? G)
  BY DEF Strategies
<1>2. r \in D => \E f \in tryCast(arg, stmts, params, d) : r = CastResolution(f)
  OBVIOUS
<1>. HIDE DEF A, B, C, D, E, F, G
<1>3. r \in A \/ r \in B \/ r \in C \/ r \in D \/ r \in E \/ r \in F \/ r \in G \/ r \in {Unresolved}
  BY <1>1, OneOf
<1>. QED
  BY <1>2, <1>3 DEF A, B, C, E, F, G

\* A declaration that is found is in the nearest block with one.
LEMMA NearestDeclaration ==
  ASSUME NEW blocks \in Seq(Seq(Statement)), NEW var
  PROVE  findLocalVarType(Flat(blocks), var) \subseteq Nearest(blocks, var)
<1>. DEFINE stmts == Flat(blocks)
            sites == {s \in DOMAIN stmts : Declares(stmts[s], var)}
            declared == Mapped(blocks, LAMBDA b : DeclaredIn(b, var))
<1>1. ASSUME NEW s \in Foremost(sites) PROVE stmts[s].type \in Nearest(blocks, var)
  <2>1. s \in DOMAIN stmts /\ Declares(stmts[s], var) /\ \A t \in sites : ~Earlier(t, s)
    BY <1>1 DEF Foremost
  <2>2. /\ s[1] \in DOMAIN blocks /\ s[2] \in DOMAIN blocks[s[1]]
        /\ stmts[s] = blocks[s[1]][s[2]]
    BY <2>1, FlatPositions
  <2>3. /\ DOMAIN declared = DOMAIN blocks
        /\ \A i \in DOMAIN blocks : declared[i] = DeclaredIn(blocks[i], var)
    BY DEF Mapped
  <2>. HIDE DEF declared
  <2>4. stmts[s].type \in declared[s[1]]
    BY <2>1, <2>2, <2>3 DEF DeclaredIn
  <2>5. ASSUME NEW j \in DOMAIN declared, declared[j] # {} PROVE s[1] <= j
    <3>1. PICK k \in DOMAIN blocks[j] : Declares(blocks[j][k], var)
      BY <2>3, <2>5 DEF DeclaredIn
    <3>2. <<j, k>> \in DOMAIN stmts /\ stmts[<<j, k>>] = blocks[j][k]
      BY <2>3, <3>1, FlatPositions
    <3>. HIDE DEF stmts
    <3>3. ~Earlier(<<j, k>>, s)
      BY <2>1, <3>1, <3>2
    <3>4. s[1] \in Nat /\ j \in Nat
      BY <2>2, <2>3
    <3>. QED
      BY <3>3, <3>4 DEF Earlier
  <2>6. declared[s[1]] \in First(declared, LAMBDA types : types # {})
    BY <2>2, <2>3, <2>4, <2>5 DEF First
  <2>. QED
    BY <2>4, <2>6 DEF Nearest, declared
<1>. QED
  BY <1>1 DEF findLocalVarType

LEMMA LocalTypes ==
  ASSUME NEW stmts, NEW d, NEW var
  PROVE  /\ \A f \in Local(var, TRUE, stmts, d) : f.type \in findLocalVarType(stmts, var) /\ f.inner = TRUE
         /\ findLocalVarType(stmts, var) # {} => Local(var, TRUE, stmts, d) # {}
<1>1. \A t : Found(t, TRUE, d).type = t /\ Found(t, TRUE, d).inner = TRUE
  BY DEF Found
<1>2. Local(var, TRUE, stmts, d) = {Found(t, TRUE, d) : t \in findLocalVarType(stmts, var)}
  BY DEF Local
<1>. QED
  BY <1>1, <1>2

\* The address of an object is found as its declaration, also under a cast.
LEMMA AddressTypes ==
  ASSUME NEW node, NEW stmts, NEW d
  PROVE  \A f \in tryAddressOf(node, stmts, d) :
           node.form = "address" /\ f.type \in findLocalVarType(stmts, node.var) /\ f.inner = TRUE
<1>1. \A f \in Local(node.var, TRUE, stmts, d) : f.type \in findLocalVarType(stmts, node.var) /\ f.inner = TRUE
  BY LocalTypes
<1>. QED
  BY <1>1 DEF tryAddressOf, When, IsForm

LEMMA StructFound ==
  ASSUME NEW found
  PROVE  HasStruct(found) \subseteq found
BY DEF HasStruct

\* Of a cast to the address of an object, what counts as inner is the object.
LEMMA CastOfAddress ==
  ASSUME NEW node, node.form = "cast", node.of.form = "address", NEW stmts, NEW params, NEW d,
         NEW f \in tryCast(node, stmts, params, d)
  PROVE  /\ f.inner => f.type \in findLocalVarType(stmts, node.of.var)
         /\ findLocalVarType(stmts, node.of.var) # {} => f.type \in findLocalVarType(stmts, node.of.var) /\ f.inner
<1>. DEFINE of == node.of
            target == {Found(node.type, FALSE, d)}
            A == tryAddressOf(of, stmts, d)
            B == HasStruct(target)
            C == HasStruct(tryLocalVarDecl(of, TRUE, stmts, d))
            D == HasStruct(tryPointerParam(of, params, d))
            E == tryMember(of, stmts, params, d)
<1>1. f \in (A ?? B ?? C ?? D ?? E ?? target)
  BY DEF tryCast, When, IsForm
<1>2. C = {} /\ D = {} /\ E = {}
  BY ByForm, StructFound
<1>3. \A g \in target : g.inner = FALSE
  BY DEF Found
<1>4. B \subseteq target
  BY StructFound
<1>5. \A g \in A : g.type \in findLocalVarType(stmts, node.of.var) /\ g.inner = TRUE
  BY AddressTypes
<1>6. findLocalVarType(stmts, node.of.var) # {} => A # {}
  <2>1. findLocalVarType(stmts, node.of.var) # {} => Local(node.of.var, TRUE, stmts, d) # {}
    BY LocalTypes
  <2>. QED
    BY <2>1 DEF tryAddressOf, When, IsForm
<1>. HIDE DEF A, B, C, D, E, target
<1>7. f \in A \/ f \in B \/ f \in target
  BY <1>1, <1>2, OneOf
<1>8. A # {} => f \in A
  BY <1>1, <1>2 DEF ??
<1>. QED
  BY <1>3, <1>4, <1>5, <1>6, <1>7, <1>8

LEMMA CastReported ==
  ASSUME NEW f
  PROVE  /\ CastResolution(f).confidence = "high" => f.inner /\ CastResolution(f).type = f.type
         /\ CastResolution(f).strategy # "address-of"
BY DEF CastResolution, Resolution

LEMMA DenotesForm ==
  ASSUME NEW node, Denotes(node) # Nothing
  PROVE  \/ node.form = "address" /\ Denotes(node) = node.var
         \/ node.form = "cast" /\ node.of.form = "address" /\ Denotes(node) = node.of.var
BY DEF Denotes, IsForm

\* An object whose address is passed is reported with high confidence only as
\* it is declared.
LEMMA ObjectHonest ==
  ASSUME NEW call, call.blocks \in Seq(Seq(Statement)), NEW arg, Denotes(arg) # Nothing,
         NEW params, NEW implied, NEW d,
         NEW r \in (Strategies(arg, priorSiblings(call), params, implied, d) ?? {Unresolved}),
         r.confidence = "high"
  PROVE  r.type \in Nearest(call.blocks, Denotes(arg))
<1>. DEFINE stmts == priorSiblings(call)
<1>1. stmts = Flat(call.blocks)
  BY DEF priorSiblings
<1>2. findLocalVarType(stmts, Denotes(arg)) \subseteq Nearest(call.blocks, Denotes(arg))
  BY <1>1, NearestDeclaration
<1>. HIDE DEF stmts
<1>3. Unresolved.confidence = "unresolved"
  BY DEF Unresolved
<1>4. \A found, strategy : /\ r \notin Resolved(found, "medium", strategy)
                           /\ r \notin Resolved(found, "low", strategy)
  BY ResolvedFrom
<1>5. /\ tryPointerParam(arg, params, d) = {} /\ tryAssignment(arg, stmts, d) = {}
      /\ tryLocalVarDecl(arg, FALSE, stmts, d) = {}
  BY DenotesForm, ByForm
<1>6. \A found, strategy : r \in Resolved(HasStruct(found), "high", strategy) => found # {}
  BY ResolvedFrom, StructFound
<1>7. \/ r \in Resolved(tryAddressOf(arg, stmts, d), "high", "address-of")
      \/ \E f \in tryCast(arg, stmts, params, d) : r = CastResolution(f)
  BY <1>3, <1>4, <1>5, <1>6, ReportedBy DEF stmts
<1>8. CASE r \in Resolved(tryAddressOf(arg, stmts, d), "high", "address-of")
  <2>1. PICK f \in tryAddressOf(arg, stmts, d) : r.type = f.type
    BY <1>8, ResolvedFrom
  <2>2. arg.form = "address" /\ f.type \in findLocalVarType(stmts, arg.var)
    BY AddressTypes
  <2>3. Denotes(arg) = arg.var
    BY <2>2 DEF Denotes, IsForm
  <2>. QED
    BY <1>2, <2>1, <2>2, <2>3
<1>9. CASE \E f \in tryCast(arg, stmts, params, d) : r = CastResolution(f)
  <2>1. PICK f \in tryCast(arg, stmts, params, d) : r = CastResolution(f)
    BY <1>9
  <2>2. f.inner /\ r.type = f.type
    BY <2>1, CastReported
  <2>3. arg.form = "cast"
    BY ByForm
  <2>4. arg.of.form = "address" /\ Denotes(arg) = arg.of.var
    BY <2>3, DenotesForm
  <2>5. f.type \in findLocalVarType(stmts, arg.of.var)
    BY <2>2, <2>3, <2>4, CastOfAddress
  <2>. QED
    BY <1>2, <2>2, <2>4, <2>5
<1>. QED
  BY <1>7, <1>8, <1>9

LEMMA CarriesForm ==
  ASSUME NEW node, Carries(node) # Nothing
  PROVE  \/ node.form = "name" /\ Carries(node) = node.var
         \/ node.form = "cast" /\ node.of.form = "name" /\ Carries(node) = node.of.var
BY DEF Carries, IsForm

LEMMA AimsForm ==
  ASSUME NEW node, Aims(node) # Nothing
  PROVE  \/ node.form = "address" /\ Aims(node) = node.var
         \/ node.form = "cast" /\ node.of.form = "address" /\ Aims(node) = node.of.var
         \/ node.form = "cast" /\ node.of.form = "name" /\ Aims(node) = node.of.var
BY DEF Aims, Denotes, Carries, IsForm

\* A variable that is passed is found as its declaration or its parameter, also
\* under a cast.
LEMMA NameTypes ==
  ASSUME NEW node, NEW inner, NEW stmts, NEW params, NEW d
  PROVE  /\ \A f \in tryLocalVarDecl(node, inner, stmts, d) : f.type \in findLocalVarType(stmts, node.var)
         /\ \A f \in tryPointerParam(node, params, d) : f.type \in PointerTypes(params, node.var)
<1>1. \A t, i : Found(t, i, d).type = t
  BY DEF Found
<1>2. ASSUME NEW f \in tryLocalVarDecl(node, inner, stmts, d)
      PROVE  f.type \in findLocalVarType(stmts, node.var)
  BY <1>1, <1>2 DEF tryLocalVarDecl, Local, When
<1>3. ASSUME NEW f \in tryPointerParam(node, params, d)
      PROVE  f.type \in PointerTypes(params, node.var)
  <2>1. PICK p \in First(params, LAMBDA p : p.name = node.var /\ p.pointer) : f = Found(p.type, TRUE, d)
    BY <1>3 DEF tryPointerParam, When
  <2>2. PICK k \in DOMAIN params : p = params[k] /\ params[k].name = node.var /\ params[k].pointer
    BY <2>1 DEF First
  <2>. QED
    BY <1>1, <2>1, <2>2 DEF PointerTypes
<1>. QED
  BY <1>2, <1>3

\* Of a cast of a variable, what counts as inner is the variable.
LEMMA CastOfName ==
  ASSUME NEW node, node.form = "cast", node.of.form = "name", NEW stmts, NEW params, NEW d,
         NEW f \in tryCast(node, stmts, params, d), f.inner
  PROVE  f.type \in findLocalVarType(stmts, node.of.var) \cup PointerTypes(params, node.of.var)
<1>. DEFINE of == node.of
            target == {Found(node.type, FALSE, d)}
            A == tryAddressOf(of, stmts, d)
            B == HasStruct(target)
            C == HasStruct(tryLocalVarDecl(of, TRUE, stmts, d))
            D == HasStruct(tryPointerParam(of, params, d))
            E == tryMember(of, stmts, params, d)
<1>1. f \in (A ?? B ?? C ?? D ?? E ?? target)
  BY DEF tryCast, When, IsForm
<1>2. A = {} /\ E = {}
  BY ByForm
<1>3. \A g \in target : g.inner = FALSE
  BY DEF Found
<1>4. B \subseteq target
  BY StructFound
<1>5. /\ \A g \in C : g.type \in findLocalVarType(stmts, node.of.var)
      /\ \A g \in D : g.type \in PointerTypes(params, node.of.var)
  BY NameTypes, StructFound
<1>. HIDE DEF A, B, C, D, E, target
<1>6. f \in B \/ f \in C \/ f \in D \/ f \in target
  BY <1>1, <1>2, OneOf
<1>. QED
  BY <1>3, <1>4, <1>5, <1>6

\* A cast tells something, if only its type.
LEMMA CastFound ==
  ASSUME NEW node, node.form = "cast", NEW stmts, NEW params, NEW d
  PROVE  tryCast(node, stmts, params, d) # {}
<1>. DEFINE A == tryAddressOf(node.of, stmts, d)
            B == HasStruct({Found(node.type, FALSE, d)})
            C == HasStruct(tryLocalVarDecl(node.of, TRUE, stmts, d))
            D == HasStruct(tryPointerParam(node.of, params, d))
            E == tryMember(node.of, stmts, params, d)
            target == {Found(node.type, FALSE, d)}
<1>1. tryCast(node, stmts, params, d) = (A ?? B ?? C ?? D ?? E ?? target)
  BY DEF tryCast, When, IsForm
<1>2. target # {}
  OBVIOUS
<1>. HIDE DEF A, B, C, D, E, target
<1>. QED
  BY <1>1, <1>2 DEF ??

\* What is told of an assignment is traced, or cast.
LEMMA AssignedStrategies ==
  ASSUME NEW stmts, NEW s, NEW d, NEW r \in Assigned(stmts, s, d)
  PROVE  r.strategy \in {"address-of", "cast"}
<1>1. \/ r \in Resolved(tryAddressOf(stmts[s].rhs, Before(stmts, s), d), "high", "address-of")
      \/ \E f : r = AssignedCast(f)
  BY OneOf DEF Assigned
<1>2. \A f : AssignedCast(f).strategy \in {"address-of", "cast"}
  BY DEF AssignedCast, Resolution
<1>. QED
  BY <1>1, <1>2, ResolvedFrom

\* What is reported as a pointer is a parameter, a variable, or under a cast.
TypesOf(found) == {f.type : f \in found}
InnerTypes(found) == {f.type : f \in {f \in found : f.inner}}

LEMMA ReportedAsPointer ==
  ASSUME NEW arg, NEW stmts, NEW params, NEW implied, NEW d,
         NEW r \in (Strategies(arg, stmts, params, implied, d) ?? {Unresolved}), r.strategy = "pointer"
  PROVE  \/ r.type \in TypesOf(tryPointerParam(arg, params, d))
         \/ r.type \in TypesOf(tryLocalVarDecl(arg, FALSE, stmts, d))
         \/ r.type \in InnerTypes(tryCast(arg, stmts, params, d))
<1>1. \A found, confidence, strategy : r \in Resolved(found, confidence, strategy) => strategy = "pointer"
  BY ResolvedFrom
<1>2. r \notin tryAssignment(arg, stmts, d)
  BY AssignedStrategies DEF tryAssignment, When
<1>3. Unresolved.strategy # "pointer"
  BY DEF Unresolved
<1>4. \/ r \in Resolved(HasStruct(tryPointerParam(arg, params, d)), "high", "pointer")
      \/ r \in Resolved(HasStruct(tryLocalVarDecl(arg, FALSE, stmts, d)), "high", "pointer")
      \/ \E f \in tryCast(arg, stmts, params, d) : r = CastResolution(f)
  BY <1>1, <1>2, <1>3, ReportedBy
<1>5. \A found, confidence : r \in Resolved(HasStruct(found), confidence, "pointer") => r.type \in TypesOf(found)
  BY ResolvedFrom, StructFound DEF TypesOf
<1>6. \A f : r = CastResolution(f) => f.inner /\ r.type = f.type
  BY DEF CastResolution, Resolution
<1>. QED
  BY <1>4, <1>5, <1>6 DEF InnerTypes

\* A variable that is passed is reported as a pointer only to what it is
\* declared as, or its parameter is.
LEMMA CarriedHonest ==
  ASSUME NEW call, call.blocks \in Seq(Seq(Statement)), NEW arg, Carries(arg) # Nothing,
         NEW params, NEW implied, NEW d,
         NEW r \in (Strategies(arg, priorSiblings(call), params, implied, d) ?? {Unresolved}),
         r.strategy = "pointer"
  PROVE  r.type \in Nearest(call.blocks, Carries(arg)) \cup PointerTypes(params, Carries(arg))
<1>. DEFINE stmts == priorSiblings(call)
<1>1. findLocalVarType(stmts, Carries(arg)) \subseteq Nearest(call.blocks, Carries(arg))
  BY NearestDeclaration DEF priorSiblings
<1>. HIDE DEF stmts
<1>2. \/ r.type \in TypesOf(tryPointerParam(arg, params, d))
      \/ r.type \in TypesOf(tryLocalVarDecl(arg, FALSE, stmts, d))
      \/ r.type \in InnerTypes(tryCast(arg, stmts, params, d))
  BY ReportedAsPointer DEF stmts
<1>3. CASE arg.form = "name" /\ Carries(arg) = arg.var
  <2>1. tryCast(arg, stmts, params, d) = {}
    BY <1>3, ByForm
  <2>. QED
    BY <1>1, <1>2, <1>3, <2>1, NameTypes DEF TypesOf, InnerTypes
<1>4. CASE arg.form = "cast" /\ arg.of.form = "name" /\ Carries(arg) = arg.of.var
  <2>1. tryPointerParam(arg, params, d) = {} /\ tryLocalVarDecl(arg, FALSE, stmts, d) = {}
    BY <1>4, ByForm
  <2>. QED
    BY <1>1, <1>2, <1>4, <2>1, CastOfName DEF TypesOf, InnerTypes
<1>. QED
  BY <1>3, <1>4, CarriesForm

\* What an assignment that settles a pointer aims at is declared before it, and
\* in no block nearer to the call.
LEMMA SettledTypes ==
  ASSUME NEW call, call.blocks \in Seq(Seq(Statement)), NEW var,
         NEW s \in DOMAIN priorSiblings(call), Settles(priorSiblings(call), s, var)
  PROVE  LET aim == Aims(priorSiblings(call)[s].rhs)
             types == findLocalVarType(Before(priorSiblings(call), s), aim)
         IN  aim # Nothing /\ types # {} /\ types \subseteq Nearest(call.blocks, aim)
<1>. DEFINE stmts == priorSiblings(call)
            blocks == call.blocks
            aim == Aims(stmts[s].rhs)
            before == Before(stmts, s)
            sites == {t \in DOMAIN before : Declares(before[t], aim)}
            types == findLocalVarType(before, aim)
<1>1. PICK t \in DOMAIN stmts : t[1] = s[1] /\ t[2] < s[2] /\ Declares(stmts[t], aim)
  BY DEF Settles
<1>2. \A u \in DOMAIN stmts : u[1] < s[1] => ~Declares(stmts[u], aim)
  BY DEF Settles
<1>3. \A u \in DOMAIN stmts :
        /\ u = <<u[1], u[2]>> /\ u[1] \in DOMAIN blocks /\ u[2] \in DOMAIN blocks[u[1]]
        /\ stmts[u] = blocks[u[1]][u[2]]
  BY FlatPositions DEF priorSiblings
<1>4. \A i \in DOMAIN blocks : \A j \in DOMAIN blocks[i] :
        <<i, j>> \in DOMAIN stmts /\ stmts[<<i, j>>] = blocks[i][j]
  BY FlatPositions DEF priorSiblings
<1>5. DOMAIN blocks \subseteq Nat /\ \A i \in DOMAIN blocks : blocks[i] \in Seq(Statement)
  OBVIOUS
<1>6. /\ DOMAIN before = {u \in DOMAIN stmts : Earlier(u, s)}
      /\ \A u \in DOMAIN before : before[u] = stmts[u]
  BY DEF Before
<1>7. types = {before[u].type : u \in Foremost(sites)}
  BY DEF findLocalVarType
<1>. HIDE DEF stmts, blocks, aim, before, types
<1>8. aim # Nothing
  <2>1. stmts[t] \in Statement
    <3>1. blocks[t[1]] \in Seq(Statement) /\ t[2] \in DOMAIN blocks[t[1]]
      BY <1>3, <1>5
    <3>. QED
      BY <1>3, <3>1
  <2>2. stmts[t].var = aim
    BY <1>1 DEF Declares
  <2>3. stmts[t].var \in STRING
    BY <2>1 DEF Statement
  <2>. QED
    BY <2>2, <2>3, PayloadAssumption
<1>9. \A u \in sites : u \in DOMAIN stmts /\ u[1] = s[1] /\ Declares(stmts[u], aim)
  BY <1>2, <1>6 DEF Earlier
<1>10. sites # {}
  BY <1>1, <1>6 DEF Earlier
<1>11. sites \subseteq Nat \X Nat
  <2>1. ASSUME NEW u \in DOMAIN stmts PROVE u \in Nat \X Nat
    <3>1. u = <<u[1], u[2]>> /\ u[1] \in DOMAIN blocks /\ u[2] \in DOMAIN blocks[u[1]]
      BY <1>3
    <3>2. blocks[u[1]] \in Seq(Statement)
      BY <1>5, <3>1
    <3>3. u[1] \in Nat /\ u[2] \in Nat
      BY <1>5, <3>1, <3>2
    <3>. QED
      BY <3>1, <3>3
  <2>. QED
    BY <1>9, <2>1
<1>12. types # {}
  BY <1>7, <1>10, <1>11, ForemostExists
<1>13. types \subseteq DeclaredIn(blocks[s[1]], aim)
  <2>1. \A u \in Foremost(sites) : u \in sites
    BY DEF Foremost
  <2>2. ASSUME NEW u \in sites PROVE before[u].type \in DeclaredIn(blocks[s[1]], aim)
    <3>1. u \in DOMAIN stmts /\ u[1] = s[1] /\ Declares(stmts[u], aim) /\ before[u] = stmts[u]
      BY <1>6, <1>9
    <3>2. u[2] \in DOMAIN blocks[s[1]] /\ stmts[u] = blocks[s[1]][u[2]]
      BY <1>3, <3>1
    <3>. QED
      BY <3>1, <3>2 DEF DeclaredIn
  <2>. QED
    BY <1>7, <2>1, <2>2
<1>14. DeclaredIn(blocks[s[1]], aim) \subseteq Nearest(blocks, aim)
  <2>. DEFINE declared == Mapped(blocks, LAMBDA b : DeclaredIn(b, aim))
  <2>1. DOMAIN declared = DOMAIN blocks /\ \A i \in DOMAIN blocks : declared[i] = DeclaredIn(blocks[i], aim)
    BY DEF Mapped
  <2>2. s[1] \in DOMAIN blocks
    BY <1>1, <1>3
  <2>. HIDE DEF declared
  <2>3. declared[s[1]] # {}
    BY <1>12, <1>13, <2>1, <2>2
  <2>4. ASSUME NEW j \in DOMAIN declared, declared[j] # {} PROVE s[1] <= j
    <3>1. PICK k \in DOMAIN blocks[j] : Declares(blocks[j][k], aim)
      BY <2>1, <2>4 DEF DeclaredIn
    <3>2. ~(j < s[1])
      <4>1. <<j, k>> \in DOMAIN stmts /\ stmts[<<j, k>>] = blocks[j][k]
        BY <1>4, <2>1, <3>1
      <4>. QED
        BY <1>2, <3>1, <4>1
    <3>3. j \in Nat /\ s[1] \in Nat
      BY <1>5, <2>1, <2>2
    <3>. QED
      BY <3>2, <3>3
  <2>5. declared[s[1]] \in First(declared, LAMBDA ts : ts # {})
    BY <2>1, <2>2, <2>3, <2>4 DEF First
  <2>. QED
    BY <2>1, <2>2, <2>5 DEF Nearest, declared
<1>15. aim # Nothing /\ types # {} /\ types \subseteq Nearest(blocks, aim)
  BY <1>8, <1>12, <1>13, <1>14
<1>. QED
  BY <1>15 DEF types, aim, before, stmts, blocks

\* So it tells something, and what is traced through it is what it aims at.
LEMMA AssignmentTells ==
  ASSUME NEW stmts, NEW s, NEW d, NEW aim, aim = Aims(stmts[s].rhs), aim # Nothing,
         findLocalVarType(Before(stmts, s), aim) # {}
  PROVE  /\ Assigned(stmts, s, d) # {}
         /\ \A r \in Assigned(stmts, s, d) :
              r.strategy = "address-of" => r.type \in findLocalVarType(Before(stmts, s), aim)
<1>. DEFINE before == Before(stmts, s)
            node == stmts[s].rhs
            A == tryAddressOf(node, before, d)
            C == tryCast(node, before, <<>>, d)
            R == Resolved(A, "high", "address-of")
            T == {AssignedCast(f) : f \in C}
<1>1. Assigned(stmts, s, d) = (R ?? T)
  BY DEF Assigned
<1>2. R # {} <=> A # {}
  BY DEF Resolved
<1>3. T # {} <=> C # {}
  OBVIOUS
<1>4. \A f : AssignedCast(f).type = f.type /\ (AssignedCast(f).strategy = "address-of" => f.inner)
  BY DEF AssignedCast, Resolution
<1>5. CASE node.form = "address" /\ aim = node.var
  <2>1. Local(node.var, TRUE, before, d) # {}
    BY <1>5, LocalTypes
  <2>2. A # {}
    BY <1>5, <2>1 DEF tryAddressOf, When, IsForm
  <2>3. \A r \in R : \E f \in A : r.type = f.type
    BY ResolvedFrom
  <2>4. \A f \in A : f.type \in findLocalVarType(before, aim)
    BY <1>5, AddressTypes
  <2>5. Assigned(stmts, s, d) = R
    BY <1>1, <1>2, <2>2 DEF ??
  <2>. HIDE DEF R, A
  <2>. QED
    BY <1>2, <2>2, <2>3, <2>4, <2>5
<1>6. CASE node.form = "cast" /\ node.of.form \in {"address", "name"} /\ aim = node.of.var
  <2>1. A = {}
    BY <1>6, ByForm
  <2>2. Assigned(stmts, s, d) = T
    BY <1>1, <1>2, <2>1 DEF ??
  <2>3. C # {}
    BY <1>6, CastFound
  <2>4. PointerTypes(<<>>, aim) = {}
    BY DEF PointerTypes
  <2>5. \A f \in C : f.inner => f.type \in findLocalVarType(before, aim)
    BY <1>6, <2>4, CastOfAddress, CastOfName
  <2>. HIDE DEF C
  <2>. QED
    BY <1>3, <1>4, <2>2, <2>3, <2>5
<1>. QED
  BY <1>5, <1>6, AimsForm

\* A pointer that is passed is reported as what it was settled to point at.
LEMMA PointerHonest ==
  ASSUME NEW call, call.blocks \in Seq(Seq(Statement)), NEW arg, arg.form = "name",
         NEW params, NEW implied, NEW d,
         NEW r \in (Strategies(arg, priorSiblings(call), params, implied, d) ?? {Unresolved}),
         r.strategy = "address-of",
         NEW s \in DOMAIN priorSiblings(call), Settles(priorSiblings(call), s, arg.var)
  PROVE  r.type \in Nearest(call.blocks, Aims(priorSiblings(call)[s].rhs))
<1>. DEFINE stmts == priorSiblings(call)
            aim == Aims(stmts[s].rhs)
            types == findLocalVarType(Before(stmts, s), aim)
<1>1. aim # Nothing /\ types # {} /\ types \subseteq Nearest(call.blocks, aim)
  BY SettledTypes
<1>2. r \in tryAssignment(arg, stmts, d)
  <2>1. tryAddressOf(arg, stmts, d) = {} /\ tryCast(arg, stmts, params, d) = {}
    BY ByForm
  <2>2. \A found, confidence, strategy : r \in Resolved(found, confidence, strategy) => strategy = "address-of" /\ found # {}
    BY ResolvedFrom
  <2>3. Unresolved.strategy # "address-of"
    BY DEF Unresolved
  <2>. DEFINE A == Resolved(tryAddressOf(arg, stmts, d), "high", "address-of")
              B == Resolved(HasStruct(tryPointerParam(arg, params, d)), "high", "pointer")
              C == Resolved(HasStruct(tryLocalVarDecl(arg, FALSE, stmts, d)), "high", "pointer")
              F == Resolved(tryMemcpy(arg, stmts, d), "medium", "memcpy")
              G == Resolved(tryMsgIdCorrelation(implied, d), "low", "msg-id-correlation")
  <2>4. \/ r \in A \/ r \in B \/ r \in C \/ \E f \in tryCast(arg, stmts, params, d) : r = CastResolution(f)
        \/ r \in tryAssignment(arg, stmts, d) \/ r \in F \/ r \in G \/ r = Unresolved
    BY ReportedBy
  <2>5. /\ r \notin A
        /\ \A found : /\ r \notin Resolved(found, "high", "pointer")
                      /\ r \notin Resolved(found, "medium", "memcpy")
                      /\ r \notin Resolved(found, "low", "msg-id-correlation")
    BY <2>1, <2>2
  <2>. QED
    BY <2>1, <2>3, <2>4, <2>5
<1>3. /\ s \in Latest(stmts, arg.var)
      /\ \A t \in Assignments(stmts, arg.var) : t[1] = s[1]
  BY DEF Settles
<1>4. Telling(arg.var, stmts, d) = {q \in Assignments(stmts, arg.var) : Assigned(stmts, q, d) # {}}
  BY DEF Telling, Assignments
<1>5. \A q \in DOMAIN stmts : q[1] \in Nat
  <2>1. \A q \in DOMAIN stmts : q[1] \in DOMAIN call.blocks
    BY FlatPositions DEF priorSiblings
  <2>2. DOMAIN call.blocks \subseteq Nat
    OBVIOUS
  <2>. QED
    BY <2>1, <2>2
<1>. HIDE DEF stmts
<1>6. /\ Assigned(stmts, s, d) # {}
      /\ \A q \in Assigned(stmts, s, d) : q.strategy = "address-of" => q.type \in types
  BY <1>1, AssignmentTells
<1>7. s \in Telling(arg.var, stmts, d)
  BY <1>3, <1>4, <1>6 DEF Latest
<1>8. PICK q \in Hindmost(Telling(arg.var, stmts, d)) : r \in Assigned(stmts, q, d)
  BY <1>2 DEF tryAssignment, When
<1>9. q = s
  <2>1. q \in Assignments(stmts, arg.var) /\ ~Earlier(q, s)
    BY <1>4, <1>7, <1>8 DEF Hindmost
  <2>2. q[1] = s[1] /\ q[1] \in Nat
    BY <1>3, <1>5, <2>1 DEF Assignments
  <2>3. q = s \/ Follows(s, q)
    BY <1>3, <2>1 DEF Latest
  <2>. QED
    BY <2>1, <2>2, <2>3 DEF Follows, Earlier
<1>. HIDE DEF types, aim
<1>10. r.type \in Nearest(call.blocks, aim)
  BY <1>1, <1>6, <1>8, <1>9
<1>. QED
  BY <1>10 DEF aim, stmts

LEMMA ResolutionHonest ==
  ASSUME NEW call \in CallExpression, NEW index \in DOMAIN call.args, NEW implied, NEW d
  PROVE  Honest(call, index, resolvePayload(call, index, implied, d))
<1>. DEFINE arg == call.args[index]
            stmts == priorSiblings(call)
            results == Strategies(arg, stmts, call.params, implied, d) ?? {Unresolved}
            r == resolvePayload(call, index, implied, d)
<1>1. call.blocks \in Seq(Seq(Statement))
  BY DEF CallExpression
<1>2. r = The(results)
  BY DEF resolvePayload
<1>3. results # {}
  BY DEF ??
<1>4. r \in results
  BY <1>2, <1>3, TheMember
<1>. HIDE DEF r
<1>5. r.confidence = "high" /\ Denotes(arg) # Nothing => r.type \in Nearest(call.blocks, Denotes(arg))
  BY <1>1, <1>4, ObjectHonest
<1>6. r.strategy = "pointer" /\ Carries(arg) # Nothing =>
        r.type \in Nearest(call.blocks, Carries(arg)) \cup PointerTypes(call.params, Carries(arg))
  BY <1>1, <1>4, CarriedHonest
<1>7. r.strategy = "address-of" /\ IsForm(arg, "name") =>
        \A s \in DOMAIN stmts :
          Settles(stmts, s, arg.var) => r.type \in Nearest(call.blocks, Aims(stmts[s].rhs))
  BY <1>1, <1>4, PointerHonest DEF IsForm
<1>. QED
  BY <1>5, <1>6, <1>7 DEF Honest, r

\* Payloads are reported with the file they are found in.
LEMMA PayloadFile ==
  ASSUME NEW f, NEW d, NEW p \in analyzeSource(f, d).payloads
  PROVE  p.file = f.name
<1>1. PICK v \in Visits(f) : p \in PayloadsAt(f, v, d)
  BY DEF analyzeSource
<1>. DEFINE At(r) == [file |-> f.name, site |-> v[1], index |-> Patterns[v[2]].payloadArg, result |-> r]
<1>2. \E r : p = At(r)
  BY <1>1 DEF PayloadsAt, When
<1>. QED
  BY <1>2

\* A payload that is not a callback is the resolution of an argument.
LEMMA PayloadFrom ==
  ASSUME NEW f, Text(f), NEW d, NEW p \in analyzeSource(f, d).payloads, p.result.strategy # "callback",
         p.index \in DOMAIN f.calls[p.site].args
  PROVE  p.file = f.name /\ Honest(f.calls[p.site], p.index, p.result)
<1>1. PICK v \in Visits(f) : p \in PayloadsAt(f, v, d)
  BY DEF analyzeSource
<1>. DEFINE call == f.calls[v[1]]
            pattern == Patterns[v[2]]
            At(r) == [file |-> f.name, site |-> v[1], index |-> pattern.payloadArg, result |-> r]
            implied == UNION {FirstImplied(i, f, v, d) : i \in Collector(Shallow(f), pattern)}
            r == resolvePayload(call, pattern.payloadArg, implied, d)
<1>2. p \in {At(Callback(t)) : t \in ToSet(CallbackTypes(f, call, pattern)) \cap d.structs} \/ p = At(r)
  BY <1>1 DEF PayloadsAt, When
<1>3. \A t : At(Callback(t)).result.strategy = "callback"
  BY DEF Callback
<1>. HIDE DEF r
<1>4. p = At(r)
  BY <1>2, <1>3
<1>5. p.file = f.name /\ p.site = v[1] /\ p.index = pattern.payloadArg /\ p.result = r
  BY <1>4
<1>6. v[1] \in DOMAIN f.calls
  BY DEF Visits
<1>7. call \in CallExpression
  BY <1>6 DEF Text
<1>. HIDE DEF implied, call, pattern, At
<1>8. pattern.payloadArg \in DOMAIN call.args
  BY <1>5 DEF call
<1>9. Honest(call, pattern.payloadArg, r)
  BY <1>7, <1>8, ResolutionHonest DEF r
<1>. QED
  BY <1>5, <1>9 DEF call

\* PayloadHonest: the payload of a call is reported with high confidence only
\* as what the argument names or points at (payloadResolver.ts 129-206,
\* 217-346, 455-492).
THEOREM PayloadHonestCorrect ==
  ASSUME Distinguished
  PROVE  Spec => []PayloadHonest
<1>1. CurrentInv => PayloadHonest
  <2>. SUFFICES ASSUME CurrentInv, NEW a \in DOMAIN View, NEW p \in PayloadsOf(a), NEW f \in SourcesOf(a),
                       ResolvedAt(p, f)
                PROVE  Honest(f.calls[p.site], p.index, p.result)
    BY DEF PayloadHonest
  <2>. DEFINE S == getSources(files[a])
              d == typeDict[a]
  <2>1. a \in Apps
    BY DEF View
  <2>2. analyses[a] = AnalysesOf(S, d) /\ Loaded(S)
    BY <2>1, SourcesLoaded DEF CurrentInv, Current
  <2>3. PICK k \in DOMAIN S : f = S[k]
    BY DEF SourcesOf, ToSet
  <2>. HIDE DEF S, d
  <2>4. \A i \in DOMAIN S : AnalysesOf(S, d)[i] = analyzeSource(S[i], d)
    BY AnalysedTexts
  <2>5. PICK i \in DOMAIN S : p \in analyzeSource(S[i], d).payloads
    <3>1. PICK r \in ToSet(analyses[a]) : p \in r.payloads
      BY DEF PayloadsOf
    <3>2. PICK i \in DOMAIN AnalysesOf(S, d) : r = AnalysesOf(S, d)[i]
      BY <2>2, <3>1 DEF ToSet
    <3>3. i \in DOMAIN S
      BY <3>2, AnalysedTexts
    <3>. QED
      BY <2>4, <3>1, <3>2, <3>3
  <2>6. p.file = S[i].name
    <3>1. Text(S[i])
      BY <2>2 DEF Loaded
    <3>. QED
      BY <2>5, <3>1, PayloadFile
  <2>7. f = S[i]
    BY <2>2, <2>3, <2>6 DEF Loaded, ResolvedAt
  <2>8. Text(f)
    BY <2>2, <2>3 DEF Loaded
  <2>. QED
    BY <2>5, <2>7, <2>8, PayloadFrom DEF ResolvedAt
<1>. QED
  BY <1>1, CurrentCorrect, Distinguished, PTL

(***************************************************************************)
(* The order of the files                                                  *)
(***************************************************************************)
\* The same texts in two orders.
Reordered(S, T) == Loaded(S) /\ Loaded(T) /\ ToSet(S) = ToSet(T)

LEMMA SameText ==
  ASSUME NEW S, NEW T, Reordered(S, T), NEW i \in DOMAIN S
  PROVE  \E j \in DOMAIN T : T[j] = S[i]
BY DEF Reordered, ToSet

\* A text is known by its name.
LEMMA TextByName ==
  ASSUME NEW S, NEW T, Reordered(S, T), NEW i \in DOMAIN S, NEW j \in DOMAIN T, S[i].name = T[j].name
  PROVE  S[i] = T[j]
<1>1. PICK k \in DOMAIN T : T[k] = S[i]
  BY SameText
<1>2. k = j
  BY <1>1 DEF Reordered, Loaded
<1>. QED
  BY <1>1, <1>2

LEMMA AnalysedSet ==
  ASSUME NEW S, NEW d
  PROVE  ToSet(AnalysesOf(S, d)) = {analyzeSource(f, d) : f \in ToSet(S)}
<1>. DEFINE as == AnalysesOf(S, d)
<1>1. DOMAIN as = DOMAIN S /\ \A i \in DOMAIN S : as[i] = analyzeSource(S[i], d)
  BY AnalysedTexts
<1>. HIDE DEF as
<1>2. ToSet(as) = {analyzeSource(f, d) : f \in ToSet(S)}
  BY <1>1 DEF ToSet
<1>. QED
  BY <1>2 DEF as

LEMMA SameAnalyses ==
  ASSUME NEW S, NEW T, NEW d, Reordered(S, T)
  PROVE  ToSet(AnalysesOf(S, d)) = ToSet(AnalysesOf(T, d))
BY AnalysedSet DEF Reordered

LEMMA SameCalls ==
  ASSUME NEW S, NEW T, NEW d, Reordered(S, T)
  PROVE  ToSet(AllCalls(AnalysesOf(S, d))) = ToSet(AllCalls(AnalysesOf(T, d)))
<1>1. ASSUME NEW A, NEW B, Reordered(A, B), NEW s \in DOMAIN AllCalls(AnalysesOf(A, d))
      PROVE  \E t \in DOMAIN AllCalls(AnalysesOf(B, d)) : AllCalls(AnalysesOf(B, d))[t] = AllCalls(AnalysesOf(A, d))[s]
  <2>1. /\ s = <<s[1], s[2]>> /\ s[1] \in DOMAIN A /\ s[2] \in DOMAIN Shallow(A[s[1]])
        /\ AllCalls(AnalysesOf(A, d))[s] = Entry(A, d, s)
    BY AllCallsPositions
  <2>2. PICK j \in DOMAIN B : B[j] = A[s[1]]
    BY <1>1, <2>1, SameText
  <2>. DEFINE t == <<j, s[2]>>
  <2>3. t \in DOMAIN AllCalls(AnalysesOf(B, d))
    BY <2>1, <2>2, AllCallsPositions
  <2>4. AllCalls(AnalysesOf(B, d))[t] = Entry(B, d, t)
    BY <2>3, AllCallsPositions
  <2>5. Entry(B, d, t) = Entry(A, d, s)
    BY <2>2 DEF Entry
  <2>. QED
    BY <2>1, <2>3, <2>4, <2>5
<1>2. Reordered(T, S)
  BY DEF Reordered
<1>. QED
  BY <1>1, <1>2 DEF ToSet

\* The calls whose entry is one of some.
Selected(C, as) == Where(AllCalls(as), LAMBDA c : c.call \in C)

LEMMA SelectedSites ==
  ASSUME NEW S, NEW d, NEW C, Loaded(S)
  PROVE  /\ \A s \in DOMAIN Selected(C, AnalysesOf(S, d)) :
              /\ s \in Nat \X Nat /\ s = <<s[1], s[2]>> /\ s[1] \in DOMAIN S /\ s[2] \in DOMAIN Shallow(S[s[1]])
              /\ Collect(s[2], S[s[1]], d) \in C
              /\ Selected(C, AnalysesOf(S, d))[s] = Entry(S, d, s)
         /\ \A i \in DOMAIN S : \A k \in DOMAIN Shallow(S[i]) :
              Collect(k, S[i], d) \in C => <<i, k>> \in DOMAIN Selected(C, AnalysesOf(S, d))
<1>. DEFINE calls == AllCalls(AnalysesOf(S, d))
            sites == Selected(C, AnalysesOf(S, d))
<1>1. /\ DOMAIN sites = {s \in DOMAIN calls : calls[s].call \in C}
      /\ \A s \in DOMAIN sites : sites[s] = calls[s]
  BY DEF Selected, Where
<1>. HIDE DEF sites
<1>2. ASSUME NEW s \in DOMAIN calls
      PROVE  /\ s = <<s[1], s[2]>> /\ s[1] \in DOMAIN S /\ s[2] \in DOMAIN Shallow(S[s[1]])
             /\ calls[s] = Entry(S, d, s)
  BY AllCallsPositions
<1>3. \A i \in DOMAIN S : \A k \in DOMAIN Shallow(S[i]) : <<i, k>> \in DOMAIN calls
  BY AllCallsPositions
<1>. HIDE DEF calls
<1>4. ASSUME NEW s \in DOMAIN calls
      PROVE  s \in Nat \X Nat
  <2>1. s = <<s[1], s[2]>> /\ s[1] \in DOMAIN S /\ s[2] \in DOMAIN Shallow(S[s[1]])
    BY <1>2
  <2>2. Text(S[s[1]]) /\ s[1] \in Nat
    BY <2>1 DEF Loaded
  <2>3. s[2] \in Nat
    BY <2>1, <2>2, ShallowEntries DEF Text
  <2>. QED
    BY <2>1, <2>2, <2>3
<1>5. \A s \in DOMAIN calls : calls[s].call = Collect(s[2], S[s[1]], d)
  BY <1>2 DEF Entry
<1>6. ASSUME NEW s \in DOMAIN sites
      PROVE  /\ s \in Nat \X Nat /\ s = <<s[1], s[2]>> /\ s[1] \in DOMAIN S /\ s[2] \in DOMAIN Shallow(S[s[1]])
             /\ Collect(s[2], S[s[1]], d) \in C /\ sites[s] = Entry(S, d, s)
  <2>1. s \in DOMAIN calls /\ calls[s].call \in C /\ sites[s] = calls[s]
    BY <1>1
  <2>2. Collect(s[2], S[s[1]], d) \in C
    BY <1>5, <2>1
  <2>. QED
    BY <1>2, <1>4, <2>1, <2>2
<1>7. ASSUME NEW i \in DOMAIN S, NEW k \in DOMAIN Shallow(S[i]), Collect(k, S[i], d) \in C
      PROVE  <<i, k>> \in DOMAIN sites
  <2>. DEFINE s == <<i, k>>
  <2>1. s \in DOMAIN calls /\ s[1] = i /\ s[2] = k
    BY <1>3
  <2>. HIDE DEF s
  <2>2. calls[s].call \in C
    BY <1>5, <1>7, <2>1
  <2>. QED
    BY <1>1, <2>1, <2>2 DEF s
<1>. QED
  BY <1>6, <1>7 DEF sites

\* The role of a file by its first call among some.
LEMMA SelectedRole ==
  ASSUME NEW S, NEW d, NEW C, Loaded(S), NEW title \in DOMAIN RolesAt(Selected(C, AnalysesOf(S, d)))
  PROVE  \E i \in DOMAIN S : \E k \in DOMAIN Shallow(S[i]) :
           /\ S[i].name = title /\ Collect(k, S[i], d) \in C
           /\ \A l \in DOMAIN Shallow(S[i]) : Collect(l, S[i], d) \in C => k <= l
           /\ RolesAt(Selected(C, AnalysesOf(S, d)))[title] = CallRole(Entry(S, d, <<i, k>>))
<1>. DEFINE sites == Selected(C, AnalysesOf(S, d))
            own == Where(sites, LAMBDA c : c.file = title)
<1>1. /\ DOMAIN RolesAt(sites) = {c.file : c \in ToSet(sites)}
      /\ RolesAt(sites)[title] = CallRole(FirstCall(own))
  BY DEF RolesAt
<1>2. /\ DOMAIN own = {s \in DOMAIN sites : sites[s].file = title}
      /\ \A s \in DOMAIN own : own[s] = sites[s]
  BY DEF Where
<1>3. ASSUME NEW s \in DOMAIN sites
      PROVE  /\ s \in Nat \X Nat /\ s = <<s[1], s[2]>> /\ s[1] \in DOMAIN S /\ s[2] \in DOMAIN Shallow(S[s[1]])
             /\ Collect(s[2], S[s[1]], d) \in C /\ sites[s] = Entry(S, d, s)
  BY SelectedSites
<1>4. \A i \in DOMAIN S : \A k \in DOMAIN Shallow(S[i]) : Collect(k, S[i], d) \in C => <<i, k>> \in DOMAIN sites
  BY SelectedSites
<1>. HIDE DEF own, sites
<1>5. \A s \in DOMAIN sites : sites[s].file = S[s[1]].name
  BY <1>3 DEF Entry
<1>6. DOMAIN own # {} /\ DOMAIN own \subseteq Nat \X Nat
  BY <1>1, <1>2, <1>3 DEF ToSet, sites
<1>7. PICK s \in DOMAIN own : FirstCall(own) = own[s] /\ s \in Foremost(DOMAIN own)
  BY <1>6, FirstCallMember
<1>. DEFINE i == s[1]
            k == s[2]
<1>8. s \in DOMAIN sites /\ own[s] = sites[s] /\ sites[s].file = title
  BY <1>2, <1>7
<1>9. /\ s \in Nat \X Nat /\ s = <<i, k>> /\ i \in DOMAIN S /\ k \in DOMAIN Shallow(S[i])
      /\ Collect(k, S[i], d) \in C /\ sites[s] = Entry(S, d, s) /\ S[i].name = title
  BY <1>3, <1>5, <1>8
<1>10. ASSUME NEW l \in DOMAIN Shallow(S[i]), Collect(l, S[i], d) \in C
       PROVE  k <= l
  <2>. DEFINE t == <<i, l>>
  <2>1. t \in DOMAIN sites /\ t[1] = i /\ t[2] = l
    BY <1>4, <1>9, <1>10
  <2>. HIDE DEF t
  <2>2. t \in DOMAIN own /\ t \in Nat \X Nat
    BY <1>2, <1>3, <1>5, <1>9, <2>1
  <2>3. ~Earlier(t, s)
    BY <1>7, <2>2 DEF Foremost
  <2>4. i \in Nat /\ k \in Nat /\ l \in Nat
    BY <1>9, <2>1, <2>2
  <2>. QED
    BY <2>1, <2>3, <2>4 DEF Earlier
<1>11. RolesAt(sites)[title] = CallRole(Entry(S, d, <<i, k>>))
  BY <1>1, <1>7, <1>8, <1>9 DEF sites
<1>. QED
  BY <1>9, <1>10, <1>11 DEF sites

LEMMA SelectedSet ==
  ASSUME NEW C, NEW as
  PROVE  ToSet(Selected(C, as)) = {c \in ToSet(AllCalls(as)) : c.call \in C}
BY DEF ToSet, Selected, Where

\* Calls that say the same, whatever their order.
Equivalent(A, B) ==
  /\ RolesAt(A) = RolesAt(B)
  /\ FoundAt(A).direction = FoundAt(B).direction
  /\ DOMAIN A = {} <=> DOMAIN B = {}

LEMMA SameSet ==
  ASSUME NEW S, NEW T, NEW d, NEW C, Reordered(S, T)
  PROVE  ToSet(Selected(C, AnalysesOf(S, d))) = ToSet(Selected(C, AnalysesOf(T, d)))
<1>. DEFINE all == ToSet(AllCalls(AnalysesOf(S, d)))
<1>1. ToSet(AllCalls(AnalysesOf(T, d))) = all
  BY SameCalls
<1>2. ToSet(Selected(C, AnalysesOf(S, d))) = {c \in all : c.call \in C}
  BY SelectedSet
<1>3. ToSet(Selected(C, AnalysesOf(T, d))) = {c \in ToSet(AllCalls(AnalysesOf(T, d))) : c.call \in C}
  BY SelectedSet
<1>. HIDE DEF all
<1>. QED
  BY <1>1, <1>2, <1>3

LEMMA SameDirection ==
  ASSUME NEW A, NEW B, ToSet(A) = ToSet(B)
  PROVE  FoundAt(A).direction = FoundAt(B).direction /\ (DOMAIN A = {} <=> DOMAIN B = {})
<1>1. /\ Exists(A, Produces) <=> \E c \in ToSet(A) : Produces(c)
      /\ Exists(A, Consumes) <=> \E c \in ToSet(A) : Consumes(c)
  BY DEF Exists, ToSet
<1>2. /\ Exists(B, Produces) <=> \E c \in ToSet(B) : Produces(c)
      /\ Exists(B, Consumes) <=> \E c \in ToSet(B) : Consumes(c)
  BY DEF Exists, ToSet
<1>3. DOMAIN A = {} <=> DOMAIN B = {}
  BY DEF ToSet
<1>4. /\ FoundAt(A).direction = Direction(Exists(A, Produces), Exists(A, Consumes))
      /\ FoundAt(B).direction = Direction(Exists(B, Produces), Exists(B, Consumes))
  BY DEF FoundAt
<1>. QED
  BY <1>1, <1>2, <1>3, <1>4 DEF Direction

LEMMA SameRoles ==
  ASSUME NEW S, NEW T, NEW d, NEW C, Reordered(S, T)
  PROVE  RolesAt(Selected(C, AnalysesOf(S, d))) = RolesAt(Selected(C, AnalysesOf(T, d)))
<1>. DEFINE A == Selected(C, AnalysesOf(S, d))
            B == Selected(C, AnalysesOf(T, d))
<1>1. ToSet(A) = ToSet(B)
  BY SameSet
<1>2. ASSUME NEW title \in DOMAIN RolesAt(A), title \in DOMAIN RolesAt(B)
      PROVE  RolesAt(A)[title] = RolesAt(B)[title]
  <2>0. Loaded(S) /\ Loaded(T)
    BY DEF Reordered
  <2>1. PICK i \in DOMAIN S : \E k \in DOMAIN Shallow(S[i]) :
          /\ S[i].name = title /\ Collect(k, S[i], d) \in C
          /\ \A l \in DOMAIN Shallow(S[i]) : Collect(l, S[i], d) \in C => k <= l
          /\ RolesAt(A)[title] = CallRole(Entry(S, d, <<i, k>>))
    BY <2>0, SelectedRole
  <2>2. PICK j \in DOMAIN T : \E k \in DOMAIN Shallow(T[j]) :
          /\ T[j].name = title /\ Collect(k, T[j], d) \in C
          /\ \A l \in DOMAIN Shallow(T[j]) : Collect(l, T[j], d) \in C => k <= l
          /\ RolesAt(B)[title] = CallRole(Entry(T, d, <<j, k>>))
    BY <1>2, <2>0, SelectedRole
  <2>3. PICK k \in DOMAIN Shallow(S[i]) :
          /\ S[i].name = title /\ Collect(k, S[i], d) \in C
          /\ \A l \in DOMAIN Shallow(S[i]) : Collect(l, S[i], d) \in C => k <= l
          /\ RolesAt(A)[title] = CallRole(Entry(S, d, <<i, k>>))
    BY <2>1
  <2>4. PICK l \in DOMAIN Shallow(T[j]) :
          /\ T[j].name = title /\ Collect(l, T[j], d) \in C
          /\ \A m \in DOMAIN Shallow(T[j]) : Collect(m, T[j], d) \in C => l <= m
          /\ RolesAt(B)[title] = CallRole(Entry(T, d, <<j, l>>))
    BY <2>2
  <2>. HIDE DEF A, B
  <2>5. S[i] = T[j]
    BY <2>3, <2>4, TextByName
  <2>6. Text(S[i])
    BY <2>0 DEF Loaded
  <2>7. k \in Nat /\ l \in Nat
    BY <2>5, <2>6, ShallowEntries DEF Text
  <2>8. k = l
    BY <2>3, <2>4, <2>5, <2>7
  <2>9. Entry(S, d, <<i, k>>) = Entry(T, d, <<j, l>>)
    BY <2>5, <2>8 DEF Entry
  <2>. QED
    BY <2>3, <2>4, <2>9
<1>. HIDE DEF A, B
<1>3. DOMAIN RolesAt(A) = {c.file : c \in ToSet(A)} /\ DOMAIN RolesAt(B) = {c.file : c \in ToSet(B)}
  BY DEF RolesAt
<1>4. DOMAIN RolesAt(A) = DOMAIN RolesAt(B)
  BY <1>1, <1>3
<1>5. /\ RolesAt(A) = [t \in DOMAIN RolesAt(A) |-> RolesAt(A)[t]]
      /\ RolesAt(B) = [t \in DOMAIN RolesAt(B) |-> RolesAt(B)[t]]
  BY DEF RolesAt
<1>6. RolesAt(A) = RolesAt(B)
  BY <1>2, <1>4, <1>5
<1>. QED
  BY <1>6 DEF A, B

LEMMA SameSelected ==
  ASSUME NEW S, NEW T, NEW d, NEW C, Reordered(S, T)
  PROVE  Equivalent(Selected(C, AnalysesOf(S, d)), Selected(C, AnalysesOf(T, d)))
<1>1. ToSet(Selected(C, AnalysesOf(S, d))) = ToSet(Selected(C, AnalysesOf(T, d)))
  BY SameSet
<1>2. RolesAt(Selected(C, AnalysesOf(S, d))) = RolesAt(Selected(C, AnalysesOf(T, d)))
  BY SameRoles
<1>. QED
  BY <1>1, <1>2, SameDirection DEF Equivalent

\* The entries that pass a name, and those that imply it.
Passing(n, as) == {c.call : c \in {c \in ToSet(AllCalls(as)) : n \in Passed(c)}}
Implying(n, as) == {c.call : c \in {c \in ToSet(AllCalls(as)) : n \in Implies(c)}}

LEMMA SitesSelected ==
  ASSUME NEW n, NEW as
  PROVE  PassedSites(n, as) = Selected(Passing(n, as), as) /\ ImpliedSites(n, as) = Selected(Implying(n, as), as)
<1>. DEFINE calls == AllCalls(as)
<1>1. \A s \in DOMAIN calls : (n \in Passed(calls[s])) <=> (calls[s].call \in Passing(n, as))
  BY DEF Passing, Passed, ToSet
<1>2. \A s \in DOMAIN calls : (n \in Implies(calls[s])) <=> (calls[s].call \in Implying(n, as))
  BY DEF Implying, Implies, ToSet
<1>. HIDE DEF calls
<1>3. {s \in DOMAIN calls : n \in Passed(calls[s])} = {s \in DOMAIN calls : calls[s].call \in Passing(n, as)}
  BY <1>1
<1>4. {s \in DOMAIN calls : n \in Implies(calls[s])} = {s \in DOMAIN calls : calls[s].call \in Implying(n, as)}
  BY <1>2
<1>5. PassedSites(n, as) = Selected(Passing(n, as), as)
  BY <1>3 DEF PassedSites, Selected, Where, calls
<1>6. ImpliedSites(n, as) = Selected(Implying(n, as), as)
  BY <1>4 DEF ImpliedSites, Selected, Where, calls
<1>. QED
  BY <1>5, <1>6

LEMMA SameSites ==
  ASSUME NEW S, NEW T, NEW d, NEW n, Reordered(S, T)
  PROVE  /\ Equivalent(PassedSites(n, AnalysesOf(S, d)), PassedSites(n, AnalysesOf(T, d)))
         /\ Equivalent(ImpliedSites(n, AnalysesOf(S, d)), ImpliedSites(n, AnalysesOf(T, d)))
<1>1. /\ Passing(n, AnalysesOf(S, d)) = Passing(n, AnalysesOf(T, d))
      /\ Implying(n, AnalysesOf(S, d)) = Implying(n, AnalysesOf(T, d))
  BY SameCalls DEF Passing, Implying
<1>. QED
  BY <1>1, SitesSelected, SameSelected

\* The IPC calls of the files that mention a name.
LEMMA CallsUsing ==
  ASSUME NEW name, NEW as
  PROVE  ToSet(Flat(Mapped(Using(name, as), LAMBDA a : a.ipc)))
           = UNION {ToSet(a.ipc) : a \in {a \in ToSet(as) : name \in a.mentions}}
<1>. DEFINE using == Using(name, as)
            lines == Mapped(using, LAMBDA a : a.ipc)
            calls == Flat(lines)
            found == UNION {ToSet(a.ipc) : a \in {a \in ToSet(as) : name \in a.mentions}}
<1>1. /\ DOMAIN using = {i \in DOMAIN as : name \in as[i].mentions}
      /\ \A i \in DOMAIN using : using[i] = as[i]
  BY DEF Using, Where
<1>2. DOMAIN lines = DOMAIN using /\ \A i \in DOMAIN using : lines[i] = using[i].ipc
  BY DEF Mapped
<1>. HIDE DEF using, lines
<1>3. ASSUME NEW c \in ToSet(calls) PROVE c \in found
  <2>1. PICK s \in DOMAIN calls : c = calls[s]
    BY DEF ToSet
  <2>2. s[1] \in DOMAIN lines /\ s[2] \in DOMAIN lines[s[1]] /\ c = lines[s[1]][s[2]]
    BY <2>1, FlatPositions
  <2>3. c \in ToSet(as[s[1]].ipc) /\ as[s[1]] \in ToSet(as) /\ name \in as[s[1]].mentions
    BY <1>1, <1>2, <2>2 DEF ToSet
  <2>. QED
    BY <2>3
<1>4. ASSUME NEW c \in found PROVE c \in ToSet(calls)
  <2>0. PICK a \in ToSet(as) : name \in a.mentions /\ c \in ToSet(a.ipc)
    BY <1>4
  <2>1. PICK i \in DOMAIN as : name \in as[i].mentions /\ c \in ToSet(as[i].ipc)
    BY <2>0 DEF ToSet
  <2>2. PICK k \in DOMAIN as[i].ipc : c = as[i].ipc[k]
    BY <2>1 DEF ToSet
  <2>3. i \in DOMAIN lines /\ k \in DOMAIN lines[i] /\ c = lines[i][k]
    BY <1>1, <1>2, <2>1, <2>2
  <2>4. <<i, k>> \in DOMAIN calls /\ calls[<<i, k>>] = c
    BY <2>3, FlatPositions
  <2>. HIDE DEF calls
  <2>. QED
    BY <2>4 DEF ToSet
<1>5. ToSet(calls) = found
  BY <1>3, <1>4
<1>. QED
  BY <1>5 DEF calls, lines, using

\* So the direction inferred from them is a matter of the set of the files.
LEMMA SameInferred ==
  ASSUME NEW name, NEW as, NEW bs, ToSet(as) = ToSet(bs)
  PROVE  /\ inferDirection(name, as).direction = inferDirection(name, bs).direction
         /\ inferDirection(name, as).confident = inferDirection(name, bs).confident
<1>. DEFINE A == Flat(Mapped(Using(name, as), LAMBDA a : a.ipc))
            B == Flat(Mapped(Using(name, bs), LAMBDA a : a.ipc))
<1>1. ToSet(A) = ToSet(B)
  BY CallsUsing
<1>2. inferDirection(name, as) = Inferred(A) /\ inferDirection(name, bs) = Inferred(B)
  BY DEF inferDirection
<1>. HIDE DEF A, B
<1>3. /\ Exists(A, Sends) <=> \E c \in ToSet(A) : Sends(c)
      /\ Exists(A, Receives) <=> \E c \in ToSet(A) : Receives(c)
  BY DEF Exists, ToSet
<1>4. /\ Exists(B, Sends) <=> \E c \in ToSet(B) : Sends(c)
      /\ Exists(B, Receives) <=> \E c \in ToSet(B) : Receives(c)
  BY DEF Exists, ToSet
<1>5. Direction(Exists(A, Sends), Exists(A, Receives)) = Direction(Exists(B, Sends), Exists(B, Receives))
  BY <1>1, <1>3, <1>4 DEF Direction
<1>6. /\ Inferred(A).direction = Inferred(B).direction
      /\ Inferred(A).confident = Inferred(B).confident
  BY <1>5 DEF Inferred
<1>. QED
  BY <1>2, <1>6

LEMMA SameFileRoles ==
  ASSUME NEW S, NEW T, NEW d, NEW name, Reordered(S, T)
  PROVE  computeFileRoles(name, AnalysesOf(S, d)) = computeFileRoles(name, AnalysesOf(T, d))
<1>. DEFINE A == computeFileRoles(name, AnalysesOf(S, d))
            B == computeFileRoles(name, AnalysesOf(T, d))
<1>0. Loaded(S) /\ Loaded(T)
  BY DEF Reordered
<1>1. /\ DOMAIN A = {S[i].name : i \in {i \in DOMAIN S : name \in S[i].mentions}}
      /\ \A i \in DOMAIN S : name \in S[i].mentions => A[S[i].name] = FileRole(analyzeSource(S[i], d))
  BY <1>0, ComputedRoles
<1>2. /\ DOMAIN B = {T[i].name : i \in {i \in DOMAIN T : name \in T[i].mentions}}
      /\ \A i \in DOMAIN T : name \in T[i].mentions => B[T[i].name] = FileRole(analyzeSource(T[i], d))
  BY <1>0, ComputedRoles
<1>3. A = [t \in DOMAIN A |-> A[t]] /\ B = [t \in DOMAIN B |-> B[t]]
  BY DEF computeFileRoles
<1>. HIDE DEF A, B
<1>4. \A i \in DOMAIN S : \E j \in DOMAIN T : T[j] = S[i]
  BY SameText
<1>5. \A j \in DOMAIN T : \E i \in DOMAIN S : S[i] = T[j]
  BY DEF Reordered, ToSet
<1>6. DOMAIN A = DOMAIN B
  BY <1>1, <1>2, <1>4, <1>5
<1>7. ASSUME NEW t \in DOMAIN A PROVE A[t] = B[t]
  <2>1. PICK i \in DOMAIN S : name \in S[i].mentions /\ t = S[i].name
    BY <1>1
  <2>2. PICK j \in DOMAIN T : T[j] = S[i]
    BY <1>4
  <2>. QED
    BY <1>1, <1>2, <2>1, <2>2
<1>8. A = B
  BY <1>3, <1>6, <1>7
<1>. QED
  BY <1>8 DEF A, B

\* What is kept of a message but for the transport.
Alike(m, n) ==
  /\ m.name = n.name /\ m.struct = n.struct /\ m.direction = n.direction
  /\ m.confident = n.confident /\ m.roles = n.roles

LEMMA SameMentioned ==
  ASSUME NEW S, NEW T, NEW d, NEW name, NEW struct, Reordered(S, T)
  PROVE  Alike(Mentioned(name, struct, AnalysesOf(S, d)), Mentioned(name, struct, AnalysesOf(T, d)))
<1>. DEFINE as == AnalysesOf(S, d)
            bs == AnalysesOf(T, d)
<1>1. ToSet(as) = ToSet(bs)
  BY SameAnalyses
<1>2. computeFileRoles(name, as) = computeFileRoles(name, bs)
  BY SameFileRoles
<1>. HIDE DEF as, bs
<1>3. /\ inferDirection(name, as).direction = inferDirection(name, bs).direction
      /\ inferDirection(name, as).confident = inferDirection(name, bs).confident
  BY <1>1, SameInferred
<1>4. Alike(Mentioned(name, struct, as), Mentioned(name, struct, bs))
  BY <1>2, <1>3 DEF Alike, Mentioned, Message
<1>. QED
  BY <1>4 DEF as, bs

LEMMA SameFound ==
  ASSUME NEW name, NEW struct, NEW A, NEW B, Equivalent(A, B)
  PROVE  Alike(Message(name, struct, FoundAt(A), RolesAt(A)), Message(name, struct, FoundAt(B), RolesAt(B)))
<1>1. FoundAt(A).confident = FoundAt(B).confident
  BY DEF Equivalent, FoundAt
<1>. QED
  BY <1>1 DEF Equivalent, Alike, Message

Joined(m, calls) ==
  [f \in DOMAIN m.roles \cup DOMAIN RolesAt(calls) |->
     IF f \in DOMAIN m.roles THEN m.roles[f] ELSE RolesAt(calls)[f]]

LEMMA AugmentedRoles ==
  ASSUME NEW m, NEW as, IsMessage(m), ~(m.confident \/ DOMAIN PassedSites(m.name, as) = {})
  PROVE  Augmented(m, as).roles = Joined(m, PassedSites(m.name, as))
<1>. DEFINE calls == PassedSites(m.name, as)
            roles == RolesAt(calls)
            all == [f \in DOMAIN m.roles \cup DOMAIN roles |->
                      IF f \in DOMAIN m.roles THEN m.roles[f] ELSE roles[f]]
            more == [m EXCEPT !.direction = FoundAt(calls).direction, !.confident = TRUE,
                              !.transport = IF m.transport = Nothing THEN FoundAt(calls).transport ELSE m.transport,
                              !.roles = all]
<1>1. Augmented(m, as) = IF m.confident \/ DOMAIN calls = {} THEN m ELSE more
  BY DEF Augmented, PassedSites
<1>. HIDE DEF all
<1>2. more.roles = all
  BY DEF IsMessage
<1>. HIDE DEF more
<1>3. Augmented(m, as).roles = all
  BY <1>1, <1>2
<1>. QED
  BY <1>3 DEF all, Joined

LEMMA SameAugmented ==
  ASSUME NEW m, NEW n, NEW as, NEW bs, Alike(m, n), IsMessage(m), IsMessage(n),
         Equivalent(PassedSites(m.name, as), PassedSites(m.name, bs))
  PROVE  Alike(Augmented(m, as), Augmented(n, bs))
<1>. DEFINE A == PassedSites(m.name, as)
            B == PassedSites(m.name, bs)
            more == Augmented(m, as)
            other == Augmented(n, bs)
<1>1. Adds(more, m, A)
  BY AugmentedFields
<1>2. Adds(other, n, B)
  BY AugmentedFields DEF Alike
<1>3. CASE m.confident \/ DOMAIN A = {}
  <2>1. n.confident \/ DOMAIN B = {}
    BY <1>3 DEF Alike, Equivalent
  <2>. HIDE DEF more, other
  <2>2. more = m /\ other = n
    BY <1>1, <1>2, <1>3, <2>1 DEF Adds
  <2>. QED
    BY <2>2 DEF more, other
<1>4. CASE ~(m.confident \/ DOMAIN A = {})
  <2>1. ~(n.confident \/ DOMAIN B = {})
    BY <1>4 DEF Alike, Equivalent
  <2>2. more.roles = Joined(m, A)
    BY <1>4, AugmentedRoles
  <2>3. other.roles = Joined(n, B)
    BY <2>1, AugmentedRoles DEF Alike
  <2>. HIDE DEF more, other, A, B
  <2>4. m.roles = n.roles /\ RolesAt(A) = RolesAt(B) /\ FoundAt(A).direction = FoundAt(B).direction
    BY DEF Alike, Equivalent, A, B
  <2>5. more.roles = other.roles
    BY <2>2, <2>3, <2>4 DEF Joined
  <2>6. more.name = m.name /\ more.struct = m.struct /\ more.confident = TRUE /\ more.direction = FoundAt(A).direction
    BY <1>1, <1>4 DEF Adds
  <2>7. other.name = n.name /\ other.struct = n.struct /\ other.confident = TRUE /\ other.direction = FoundAt(B).direction
    BY <1>2, <2>1 DEF Adds
  <2>8. Alike(more, other)
    BY <2>4, <2>5, <2>6, <2>7 DEF Alike
  <2>. QED
    BY <2>8 DEF more, other
<1>. QED
  BY <1>3, <1>4

LEMMA SameNames ==
  ASSUME NEW as, NEW bs, NEW d, ToSet(as) = ToSet(bs), ToSet(AllCalls(as)) = ToSet(AllCalls(bs))
  PROVE  /\ Mentions(as, d) = Mentions(bs, d) /\ PassedNames(as) = PassedNames(bs) /\ FoundNames(as, d) = FoundNames(bs, d)
         /\ \A n : StructOf(n, as, d) = StructOf(n, bs, d)
<1>1. DefinedNames(as, d) = DefinedNames(bs, d)
  BY DEF DefinedNames
<1>2. PickedNames(as, d) = PickedNames(bs, d)
  BY <1>1 DEF PickedNames
<1>3. Mentions(as, d) = Mentions(bs, d)
  BY <1>1, <1>2 DEF Mentions
<1>4. PassedNames(as) = PassedNames(bs)
  BY DEF PassedNames
<1>5. ImpliedNames(as, d) = ImpliedNames(bs, d)
  BY DEF ImpliedNames
<1>6. FoundNames(as, d) = FoundNames(bs, d)
  BY <1>3, <1>4, <1>5 DEF FoundNames
<1>7. \A n : StructOf(n, as, d) = StructOf(n, bs, d)
  BY <1>1, <1>2, <1>4 DEF StructOf
<1>. QED
  BY <1>3, <1>4, <1>6, <1>7

LEMMA SameMessage ==
  ASSUME NEW S, NEW T, NEW d, NEW n, Reordered(S, T)
  PROVE  Alike(MessageOf(n, AnalysesOf(S, d), d), MessageOf(n, AnalysesOf(T, d), d))
<1>. DEFINE as == AnalysesOf(S, d)
            bs == AnalysesOf(T, d)
            struct == StructOf(n, as, d)
<1>1. ToSet(as) = ToSet(bs) /\ ToSet(AllCalls(as)) = ToSet(AllCalls(bs))
  BY SameAnalyses, SameCalls
<1>2. /\ Mentions(as, d) = Mentions(bs, d) /\ PassedNames(as) = PassedNames(bs)
      /\ \A k : StructOf(k, as, d) = StructOf(k, bs, d)
  BY <1>1, SameNames
<1>3. StructOf(n, bs, d) = struct
  BY <1>2
<1>4. /\ Equivalent(PassedSites(n, as), PassedSites(n, bs))
      /\ Equivalent(ImpliedSites(n, as), ImpliedSites(n, bs))
  BY SameSites
<1>5. Alike(Mentioned(n, struct, as), Mentioned(n, struct, bs))
  BY SameMentioned
<1>6. IsMessage(Mentioned(n, struct, as)) /\ IsMessage(Mentioned(n, struct, bs)) /\ Mentioned(n, struct, as).name = n
  BY MentionedIsMessage
<1>. HIDE DEF as, bs, struct
<1>7. Alike(MentionedMessage(n, as, d), MentionedMessage(n, bs, d))
  <2>. DEFINE first == Mentioned(n, struct, as)
              second == Mentioned(n, struct, bs)
  <2>1. Equivalent(PassedSites(first.name, as), PassedSites(first.name, bs))
    BY <1>4, <1>6
  <2>2. Alike(first, second) /\ IsMessage(first) /\ IsMessage(second)
    BY <1>5, <1>6
  <2>. HIDE DEF first, second
  <2>3. Alike(Augmented(first, as), Augmented(second, bs))
    BY <2>1, <2>2, SameAugmented
  <2>. QED
    BY <1>3, <2>3 DEF MentionedMessage, first, second, struct
<1>8. Alike(PassedMessage(n, as, d), PassedMessage(n, bs, d))
  BY <1>3, <1>4, SameFound DEF PassedMessage, struct
<1>9. Alike(ImpliedMessage(n, as, d), ImpliedMessage(n, bs, d))
  BY <1>3, <1>4, SameFound DEF ImpliedMessage, struct
<1>10. Alike(MessageOf(n, as, d), MessageOf(n, bs, d))
  <2>1. CASE n \in Mentions(as, d)
    BY <1>2, <1>7, <2>1 DEF MessageOf
  <2>2. CASE n \notin Mentions(as, d) /\ n \in PassedNames(as)
    BY <1>2, <1>8, <2>2 DEF MessageOf
  <2>3. CASE n \notin Mentions(as, d) /\ n \notin PassedNames(as)
    BY <1>2, <1>9, <2>3 DEF MessageOf
  <2>. QED
    BY <2>1, <2>2, <2>3
<1>. QED
  BY <1>10 DEF as, bs

\* What the graphs know of a message, but for the transport.
Part(m) ==
  [name |-> m.name, struct |-> m.struct, direction |-> m.direction, confident |-> m.confident, roles |-> m.roles]
Parts(ms) == {Part(m) : m \in ms}

LEMMA SameParts ==
  ASSUME NEW S, NEW T, NEW d, Reordered(S, T)
  PROVE  Parts(extractMessageInterfaces(AnalysesOf(S, d), d)) = Parts(extractMessageInterfaces(AnalysesOf(T, d), d))
<1>. DEFINE as == AnalysesOf(S, d)
            bs == AnalysesOf(T, d)
            M(n) == MessageOf(n, as, d)
            N(n) == MessageOf(n, bs, d)
            names == FoundNames(as, d)
<1>1. ToSet(as) = ToSet(bs) /\ ToSet(AllCalls(as)) = ToSet(AllCalls(bs))
  BY SameAnalyses, SameCalls
<1>2. FoundNames(bs, d) = names
  BY <1>1, SameNames
<1>3. /\ extractMessageInterfaces(as, d) = {M(n) : n \in names}
      /\ extractMessageInterfaces(bs, d) = {N(n) : n \in names}
  BY <1>2, ExtractedMessages
<1>4. \A n : Alike(M(n), N(n))
  BY SameMessage
<1>. HIDE DEF as, bs, M, N, names
<1>5. \A n : Part(M(n)) = Part(N(n))
  BY <1>4 DEF Alike, Part
<1>6. Parts({M(n) : n \in names}) = Parts({N(n) : n \in names})
  BY <1>5 DEF Parts
<1>. QED
  BY <1>3, <1>6 DEF as, bs

(***************************************************************************)
(* Roles of structs                                                        *)
(***************************************************************************)
LEMMA SameBound ==
  ASSUME NEW ms, NEW ns, Parts(ms) = Parts(ns), NEW payloads, NEW s
  PROVE  Bound(s, ms, payloads) = Bound(s, ns, payloads)
<1>1. \A m : Part(m).name = m.name /\ Part(m).struct = m.struct
  BY DEF Part
<1>2. \A m \in ms : \E n \in ns : n.name = m.name /\ n.struct = m.struct
  <2>. TAKE m \in ms
  <2>1. PICK n \in ns : Part(n) = Part(m)
    BY DEF Parts
  <2>. QED
    BY <1>1, <2>1
<1>3. \A n \in ns : \E m \in ms : n.name = m.name /\ n.struct = m.struct
  <2>. TAKE n \in ns
  <2>1. PICK m \in ms : Part(n) = Part(m)
    BY DEF Parts
  <2>. QED
    BY <1>1, <2>1
<1>4. {m.name : m \in {m \in ms : m.struct = s}} = {m.name : m \in {m \in ns : m.struct = s}}
  BY <1>2, <1>3
<1>. QED
  BY <1>4 DEF Bound

LEMMA SameStructRoles ==
  ASSUME NEW ms, NEW ns, Parts(ms) = Parts(ns), NEW d, NEW payloads, NEW referenced
  PROVE  analyzeStructRoles(d, ms, payloads, referenced) = analyzeStructRoles(d, ns, payloads, referenced)
<1>1. \A s : Bound(s, ms, payloads) = Bound(s, ns, payloads)
  BY SameBound
<1>2. \A s : Role(s, d, ms, payloads, referenced) = Role(s, d, ns, payloads, referenced)
  BY <1>1 DEF Role
<1>. QED
  BY <1>1, <1>2 DEF analyzeStructRoles

(***************************************************************************)
(* What the headers declare                                                *)
(***************************************************************************)
\* What a table says of a name is what one of the headers does.
LEMMA MergedEntries ==
  ASSUME NEW tables, DOMAIN tables \subseteq Nat \X Nat
  PROVE  /\ DOMAIN Merged(tables) = UNION {DOMAIN t : t \in ToSet(tables)}
         /\ \A n \in DOMAIN Merged(tables) : \E t \in ToSet(tables) : n \in DOMAIN t /\ Merged(tables)[n] = t[n]
<1>. DEFINE names == UNION {DOMAIN t : t \in ToSet(tables)}
            Holders(n) == {s \in DOMAIN tables : n \in DOMAIN tables[s]}
            Values(n) == {tables[s][n] : s \in Foremost(Holders(n))}
<1>1. Merged(tables) = [n \in names |-> The(Values(n))]
  BY DEF Merged
<1>2. ASSUME NEW n \in names
      PROVE  \E t \in ToSet(tables) : n \in DOMAIN t /\ The(Values(n)) = t[n]
  <2>1. Holders(n) # {} /\ Holders(n) \subseteq Nat \X Nat
    BY DEF ToSet
  <2>2. Foremost(Holders(n)) # {} /\ Foremost(Holders(n)) \subseteq Holders(n)
    BY <2>1, ForemostExists DEF Foremost
  <2>. HIDE DEF Holders
  <2>3. The(Values(n)) \in Values(n)
    <3>1. Values(n) # {}
      BY <2>2
    <3>. HIDE DEF Values
    <3>. QED
      BY <3>1, TheMember
  <2>4. PICK s \in Foremost(Holders(n)) : The(Values(n)) = tables[s][n]
    BY <2>3
  <2>5. s \in DOMAIN tables /\ n \in DOMAIN tables[s]
    BY <2>2, <2>4 DEF Holders
  <2>. QED
    BY <2>4, <2>5 DEF ToSet
<1>. HIDE DEF names, Values
<1>3. DOMAIN Merged(tables) = names /\ \A n \in names : Merged(tables)[n] = The(Values(n))
  BY <1>1
<1>. QED
  BY <1>2, <1>3 DEF names

Agreeing(tables) == \A t, u \in ToSet(tables) : \A n \in DOMAIN t \cap DOMAIN u : t[n] = u[n]

\* So headers that agree may come in any order.
LEMMA SameMerged ==
  ASSUME NEW A, NEW B, DOMAIN A \subseteq Nat \X Nat, DOMAIN B \subseteq Nat \X Nat,
         ToSet(A) = ToSet(B), Agreeing(A)
  PROVE  Merged(A) = Merged(B)
<1>1. DOMAIN Merged(A) = DOMAIN Merged(B)
  BY MergedEntries
<1>2. ASSUME NEW n \in DOMAIN Merged(A) PROVE Merged(A)[n] = Merged(B)[n]
  <2>1. PICK t \in ToSet(A) : n \in DOMAIN t /\ Merged(A)[n] = t[n]
    BY MergedEntries
  <2>2. n \in DOMAIN Merged(B)
    BY <1>1
  <2>3. PICK u \in ToSet(B) : n \in DOMAIN u /\ Merged(B)[n] = u[n]
    BY <2>2, MergedEntries
  <2>4. t[n] = u[n]
    BY <2>1, <2>3 DEF Agreeing
  <2>. QED
    BY <2>1, <2>3, <2>4
<1>3. Merged(A) = [n \in DOMAIN Merged(A) |-> Merged(A)[n]] /\ Merged(B) = [n \in DOMAIN Merged(B) |-> Merged(B)[n]]
  BY DEF Merged
<1>. QED
  BY <1>1, <1>2, <1>3

LEMMA SameDictionary ==
  ASSUME NEW g, NEW h, DOMAIN g \subseteq Nat \X Nat, DOMAIN h \subseteq Nat \X Nat,
         ToSet(g) = ToSet(h), Compatible(g)
  PROVE  Dictionary(g) = Dictionary(h)
<1>. DEFINE gs == Mapped(g, LAMBDA x : x.structs)
            hs == Mapped(h, LAMBDA x : x.structs)
            ga == Mapped(g, LAMBDA x : x.aliases)
            ha == Mapped(h, LAMBDA x : x.aliases)
<1>1. /\ DOMAIN gs = DOMAIN g /\ \A s \in DOMAIN g : gs[s] = g[s].structs
      /\ DOMAIN hs = DOMAIN h /\ \A s \in DOMAIN h : hs[s] = h[s].structs
      /\ DOMAIN ga = DOMAIN g /\ \A s \in DOMAIN g : ga[s] = g[s].aliases
      /\ DOMAIN ha = DOMAIN h /\ \A s \in DOMAIN h : ha[s] = h[s].aliases
  BY DEF Mapped
<1>. HIDE DEF gs, hs, ga, ha
<1>2. ToSet(gs) = {x.structs : x \in ToSet(g)} /\ ToSet(hs) = {x.structs : x \in ToSet(h)}
  <2>1. ToSet(gs) = {x.structs : x \in ToSet(g)}
    BY <1>1 DEF ToSet
  <2>2. ToSet(hs) = {x.structs : x \in ToSet(h)}
    BY <1>1 DEF ToSet
  <2>. QED
    BY <2>1, <2>2
<1>3. ToSet(ga) = {x.aliases : x \in ToSet(g)} /\ ToSet(ha) = {x.aliases : x \in ToSet(h)}
  <2>1. ToSet(ga) = {x.aliases : x \in ToSet(g)}
    BY <1>1 DEF ToSet
  <2>2. ToSet(ha) = {x.aliases : x \in ToSet(h)}
    BY <1>1 DEF ToSet
  <2>. QED
    BY <2>1, <2>2
<1>4. Agreeing(gs) /\ Agreeing(ga)
  BY <1>2, <1>3 DEF Agreeing, Compatible
<1>5. Merged(gs) = Merged(hs)
  BY <1>1, <1>2, <1>4, SameMerged
<1>6. Merged(ga) = Merged(ha)
  BY <1>1, <1>3, <1>4, SameMerged
<1>. QED
  BY <1>5, <1>6 DEF Dictionary, gs, hs, ga, ha

(***************************************************************************)
(* Applications of the same files                                          *)
(***************************************************************************)
LEMMA TextsFound ==
  ASSUME NEW seq
  PROVE  /\ DOMAIN Texts(seq) \subseteq DOMAIN seq
         /\ ToSet(Texts(seq)) = {f \in {program[n] : n \in ToSet(seq)} : ~f.rejected}
<1>. DEFINE texts == Texts(seq)
<1>1. /\ DOMAIN texts = {i \in DOMAIN seq : ~program[seq[i]].rejected}
      /\ \A i \in DOMAIN texts : texts[i] = program[seq[i]]
  BY DEF Texts, Where, Mapped
<1>. HIDE DEF texts
<1>2. ToSet(texts) = {f \in {program[n] : n \in ToSet(seq)} : ~f.rejected}
  BY <1>1 DEF ToSet
<1>. QED
  BY <1>1, <1>2 DEF texts

LEMMA HeadersFound ==
  ASSUME NEW own, NEW shared, DOMAIN own \subseteq Nat, DOMAIN shared \subseteq Nat
  PROVE  /\ DOMAIN getHeaders(own, shared) \subseteq Nat \X Nat
         /\ ToSet(getHeaders(own, shared)) =
              {f \in ToSet(Texts(own)) \cup ToSet(Texts(Unshadowed(shared, own))) : ~IsSource(f)}
<1>. DEFINE mine == Texts(own)
            theirs == Texts(Unshadowed(shared, own))
            seqs == <<mine, theirs>>
            all == Flat(seqs)
            found == getHeaders(own, shared)
<1>1. DOMAIN Unshadowed(shared, own) \subseteq DOMAIN shared
  BY DEF Unshadowed, Where
<1>2. DOMAIN mine \subseteq Nat /\ DOMAIN theirs \subseteq Nat
  BY <1>1, TextsFound
<1>3. /\ DOMAIN found = {s \in DOMAIN all : ~IsSource(all[s])}
      /\ \A s \in DOMAIN found : found[s] = all[s]
  BY DEF getHeaders, Where
<1>. HIDE DEF mine, theirs, found
<1>4. DOMAIN seqs = {1, 2} /\ seqs[1] = mine /\ seqs[2] = theirs
  OBVIOUS
<1>. HIDE DEF seqs
<1>5. \A s \in DOMAIN all : /\ s = <<s[1], s[2]>> /\ s[1] \in {1, 2} /\ s[2] \in DOMAIN seqs[s[1]]
                            /\ all[s] = seqs[s[1]][s[2]]
  BY <1>4, FlatPositions
<1>6. \A i \in {1, 2} : \A j \in DOMAIN seqs[i] : <<i, j>> \in DOMAIN all /\ all[<<i, j>>] = seqs[i][j]
  <2>1. \A i \in DOMAIN seqs : \A j \in DOMAIN seqs[i] : <<i, j>> \in DOMAIN all /\ all[<<i, j>>] = seqs[i][j]
    BY FlatPositions
  <2>. QED
    BY <1>4, <2>1
<1>. HIDE DEF all
<1>7. DOMAIN all \subseteq Nat \X Nat
  <2>. SUFFICES ASSUME NEW s \in DOMAIN all PROVE s \in Nat \X Nat
    OBVIOUS
  <2>1. s = <<s[1], s[2]>> /\ s[1] \in {1, 2} /\ s[2] \in DOMAIN seqs[s[1]]
    BY <1>5
  <2>2. s[1] \in Nat /\ s[2] \in Nat
    BY <1>2, <1>4, <2>1
  <2>. QED
    BY <2>1, <2>2
<1>8. ToSet(all) = ToSet(mine) \cup ToSet(theirs)
  <2>1. ASSUME NEW f \in ToSet(all) PROVE f \in ToSet(mine) \cup ToSet(theirs)
    <3>1. PICK s \in DOMAIN all : f = all[s]
      BY DEF ToSet
    <3>. QED
      BY <1>4, <1>5, <3>1 DEF ToSet
  <2>2. ASSUME NEW f \in ToSet(mine) PROVE f \in ToSet(all)
    <3>1. PICK j \in DOMAIN seqs[1] : f = seqs[1][j]
      BY <1>4 DEF ToSet
    <3>. QED
      BY <1>6, <3>1 DEF ToSet
  <2>3. ASSUME NEW f \in ToSet(theirs) PROVE f \in ToSet(all)
    <3>1. PICK j \in DOMAIN seqs[2] : f = seqs[2][j]
      BY <1>4 DEF ToSet
    <3>. QED
      BY <1>6, <3>1 DEF ToSet
  <2>. QED
    BY <2>1, <2>2, <2>3
<1>9. ToSet(found) = {f \in ToSet(all) : ~IsSource(f)}
  BY <1>3 DEF ToSet
<1>. QED
  BY <1>3, <1>7, <1>8, <1>9 DEF mine, theirs, found

LEMMA SameFiles ==
  ASSUME NEW A, NEW B, ToSet(A) = ToSet(B), NEW shared,
         DOMAIN A \subseteq Nat, DOMAIN B \subseteq Nat, DOMAIN shared \subseteq Nat
  PROVE  /\ ToSet(getSources(A)) = ToSet(getSources(B))
         /\ ToSet(getHeaders(A, shared)) = ToSet(getHeaders(B, shared))
<1>1. \A name : Named(A, name) <=> Named(B, name)
  BY DEF Named, ToSet
<1>2. Unshadowed(shared, A) = Unshadowed(shared, B)
  BY <1>1 DEF Unshadowed, Where
<1>3. ToSet(Texts(A)) = ToSet(Texts(B))
  BY TextsFound
<1>4. ToSet(getSources(A)) = ToSet(getSources(B))
  <2>1. \A seq : ToSet(getSources(seq)) = {f \in ToSet(Texts(seq)) : IsSource(f)}
    BY DEF getSources, Where, ToSet
  <2>. QED
    BY <1>3, <2>1
<1>5. /\ ToSet(getHeaders(A, shared)) = {f \in ToSet(Texts(A)) \cup ToSet(Texts(Unshadowed(shared, A))) : ~IsSource(f)}
      /\ ToSet(getHeaders(B, shared)) = {f \in ToSet(Texts(B)) \cup ToSet(Texts(Unshadowed(shared, B))) : ~IsSource(f)}
  BY HeadersFound
<1>. QED
  BY <1>2, <1>3, <1>4, <1>5

\* Two applications of the same files have the same dictionary.
LEMMA SameTypes ==
  ASSUME CurrentInv, NEW a \in Apps, NEW b \in Apps, ToSet(files[a]) = ToSet(files[b]),
         Compatible(getHeaders(files[a], external))
  PROVE  /\ typeDict[a] = typeDict[b]
         /\ Reordered(getSources(files[a]), getSources(files[b]))
<1>. DEFINE A == files[a]
            B == files[b]
<1>1. A \in Seq(DOMAIN program) /\ B \in Seq(DOMAIN program) /\ external \in Seq(DOMAIN program)
  BY DEF CurrentInv, TypeInv, Listed
<1>2. Loaded(getSources(A)) /\ Loaded(getSources(B))
  BY SourcesLoaded
<1>3. typeDict[a] = Dictionary(getHeaders(A, external)) /\ typeDict[b] = Dictionary(getHeaders(B, external))
  BY DEF CurrentInv, Current
<1>. HIDE DEF A, B
<1>4. DOMAIN A \subseteq Nat /\ DOMAIN B \subseteq Nat /\ DOMAIN external \subseteq Nat
  BY <1>1
<1>5. /\ ToSet(getSources(A)) = ToSet(getSources(B))
      /\ ToSet(getHeaders(A, external)) = ToSet(getHeaders(B, external))
  BY <1>4, SameFiles DEF A, B
<1>6. DOMAIN getHeaders(A, external) \subseteq Nat \X Nat /\ DOMAIN getHeaders(B, external) \subseteq Nat \X Nat
  BY <1>4, HeadersFound
<1>7. Compatible(getHeaders(A, external))
  BY DEF A
<1>8. Dictionary(getHeaders(A, external)) = Dictionary(getHeaders(B, external))
  BY <1>5, <1>6, <1>7, SameDictionary
<1>. QED
  BY <1>2, <1>3, <1>5, <1>8 DEF Reordered, A, B

\* OrderIndependent: two applications of the same files do not differ, but for
\* the transport shown, unless two headers declare a name differently
\* (messagingExtractor.ts 115-181, 311-422; structRoleAnalyzer.ts 254-255).
THEOREM OrderIndependentCorrect ==
  ASSUME Distinguished
  PROVE  Spec => []OrderIndependent
<1>1. CurrentInv => OrderIndependent
  <2>. SUFFICES ASSUME CurrentInv, NEW a \in DOMAIN View, NEW b \in DOMAIN View,
                       ToSet(files[a]) = ToSet(files[b]), Compatible(getHeaders(files[a], external))
                PROVE  Essence(a) = Essence(b)
    BY DEF OrderIndependent
  <2>. DEFINE S == getSources(files[a])
              T == getSources(files[b])
              d == typeDict[a]
  <2>1. a \in Apps /\ b \in Apps /\ messages[a] # NoAnalysis /\ messages[b] # NoAnalysis
    BY DEF View
  <2>2. typeDict[b] = d /\ Reordered(S, T)
    BY <2>1, SameTypes
  <2>3. Current(a) /\ Current(b)
    BY <2>1 DEF CurrentInv
  <2>4. /\ analyses[a] = AnalysesOf(S, d) /\ analyses[b] = AnalysesOf(T, d)
        /\ messages[a] = extractMessageInterfaces(analyses[a], d)
        /\ messages[b] = extractMessageInterfaces(analyses[b], d)
        /\ structRoles[a] = StructRolesOf(a) /\ structRoles[b] = StructRolesOf(b)
    BY <2>1, <2>2, <2>3 DEF Current
  <2>. HIDE DEF S, T, d
  <2>5. Parts(messages[a]) = Parts(messages[b])
    BY <2>2, <2>4, SameParts
  <2>6. PayloadsOf(a) = PayloadsOf(b)
    <3>1. ToSet(analyses[a]) = ToSet(analyses[b])
      BY <2>2, <2>4, SameAnalyses
    <3>. QED
      BY <3>1 DEF PayloadsOf
  <2>7. Referenced(a) = Referenced(b)
    <3>1. ToSet(S) = ToSet(T)
      BY <2>2 DEF Reordered
    <3>2. Referenced(a) = d.structs \cap UNION {f.mentions : f \in ToSet(S)}
      BY DEF Referenced, S, d
    <3>3. Referenced(b) = d.structs \cap UNION {f.mentions : f \in ToSet(T)}
      BY <2>2 DEF Referenced, T
    <3>. QED
      BY <3>1, <3>2, <3>3
  <2>8. StructRolesOf(a) = StructRolesOf(b)
    BY <2>2, <2>5, <2>6, <2>7, SameStructRoles DEF StructRolesOf, d
  <2>9. \A e \in {a, b} : Essence(e) = [messages |-> Parts(messages[e]), structRoles |-> structRoles[e]]
    BY DEF Essence, Part, Parts
  <2>. QED
    BY <2>4, <2>5, <2>8, <2>9
<1>. QED
  BY <1>1, CurrentCorrect, Distinguished, PTL
=============================================================================
