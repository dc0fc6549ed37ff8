------------------------------ MODULE AskProofs ------------------------------
(***************************************************************************)
(* Theorems about Ask, for any number of turns, rounds, calls and events.  *)
(***************************************************************************)
EXTENDS Ask, FiniteSetTheorems, SequenceTheorems, TLAPS

(***************************************************************************)
(* Types                                                                   *)
(***************************************************************************)
LEMMA MessageTypes ==
  /\ User \in Message /\ Tool \in Message
  /\ \A n \in Nat : Assistant(n) \in Message
BY DEF User, Tool, Assistant, Message

\* The history is a list of messages: the panel holds finitely many turns.
LEMMA HistoryType == History \in Seq(Message)
<1>1. IsFiniteSet(Quotable)
  <2>1. IsFiniteSet(Ids)
    BY FS_Interval, AskAssumption DEF Ids
  <2>. QED
    BY <2>1, FS_Subset DEF Quotable
<1>2. 2 * Cardinality(Quotable) \in Nat
  BY <1>1, FS_CardinalityType
<1>3. Assistant(0) \in Message
  BY MessageTypes
<1>. QED
  BY <1>2, <1>3, MessageTypes DEF History

LEMMA UnusedType == Unused \in AskState
<1>1. <<>> \in Seq(Message)
  OBVIOUS
<1>. QED
  BY <1>1 DEF Unused, AskState, Waiting

LEMMA SliceType == \A n \in Nat : Slice(n) \in Nat /\ Slice(n) <= MAX_CALLS_PER_ROUND
BY AskAssumption DEF Slice

LEMMA LookupType == \A n \in Nat : Lookup(n) \in Seq(Message)
<1>. SUFFICES ASSUME NEW n \in Nat
              PROVE  Lookup(n) \in Seq(Message)
  OBVIOUS
<1>1. Slice(n) \in Nat
  BY SliceType
<1>2. <<Assistant(Slice(n))>> \in Seq(Message)
  BY <1>1, MessageTypes
<1>3. [i \in 1 .. Slice(n) |-> Tool] \in Seq(Message)
  BY <1>1, MessageTypes
<1>. QED
  BY <1>2, <1>3, ConcatProperties DEF Lookup

\* What an action sets in an ask has the type of the field.
LEMMA AskFields ==
  \A ask \in AskState :
    /\ \A pc \in {"ended"} \cup Waiting : [ask EXCEPT !.pc = pc] \in AskState
    /\ \A m \in Seq(Message) : [ask EXCEPT !.messages = m] \in AskState
    /\ [ask EXCEPT !.requests = ask.requests + 1] \in AskState
    /\ \A n \in Nat : [ask EXCEPT !.rounds = n] \in AskState
    /\ [ask EXCEPT !.chunks = ask.chunks + 1] \in AskState
    /\ [ask EXCEPT !.sawContent = TRUE] \in AskState
    /\ \A b \in BOOLEAN : [ask EXCEPT !.sawDone = b] \in AskState
    /\ [ask EXCEPT !.aborted = TRUE] \in AskState
    /\ \A b \in BOOLEAN : [ask EXCEPT !.timedOut = b] \in AskState
<1>. SUFFICES ASSUME NEW ask \in AskState
              PROVE  /\ \A pc \in {"ended"} \cup Waiting : [ask EXCEPT !.pc = pc] \in AskState
                     /\ \A m \in Seq(Message) : [ask EXCEPT !.messages = m] \in AskState
                     /\ [ask EXCEPT !.requests = ask.requests + 1] \in AskState
                     /\ \A n \in Nat : [ask EXCEPT !.rounds = n] \in AskState
                     /\ [ask EXCEPT !.chunks = ask.chunks + 1] \in AskState
                     /\ [ask EXCEPT !.sawContent = TRUE] \in AskState
                     /\ \A b \in BOOLEAN : [ask EXCEPT !.sawDone = b] \in AskState
                     /\ [ask EXCEPT !.aborted = TRUE] \in AskState
                     /\ \A b \in BOOLEAN : [ask EXCEPT !.timedOut = b] \in AskState
  OBVIOUS
<1>1. \A pc \in {"ended"} \cup Waiting : [ask EXCEPT !.pc = pc] \in AskState
  BY DEF AskState
<1>2. \A m \in Seq(Message) : [ask EXCEPT !.messages = m] \in AskState
  BY DEF AskState
<1>3. [ask EXCEPT !.requests = ask.requests + 1] \in AskState
  BY DEF AskState
<1>4. \A n \in Nat : [ask EXCEPT !.rounds = n] \in AskState
  BY DEF AskState
<1>5. [ask EXCEPT !.chunks = ask.chunks + 1] \in AskState
  BY DEF AskState
<1>6. [ask EXCEPT !.sawContent = TRUE] \in AskState
  BY DEF AskState
<1>7. \A b \in BOOLEAN : [ask EXCEPT !.sawDone = b] \in AskState
  BY DEF AskState
<1>8. [ask EXCEPT !.aborted = TRUE] \in AskState
  BY DEF AskState
<1>9. \A b \in BOOLEAN : [ask EXCEPT !.timedOut = b] \in AskState
  BY DEF AskState
<1>. QED
  BY <1>1, <1>2, <1>3, <1>4, <1>5, <1>6, <1>7, <1>8, <1>9

LEMMA RequestingType ==
  ASSUME NEW ask \in AskState, NEW pc \in Waiting
  PROVE  Requesting(ask, pc) \in AskState
<1>1. [ask EXCEPT !.pc = pc] \in AskState
  BY AskFields DEF Waiting
<1>2. [ask EXCEPT !.pc = pc].requests = ask.requests
  BY DEF AskState
<1>. QED
  BY <1>1, <1>2, AskFields DEF Requesting

LEMMA RequestingFields ==
  ASSUME NEW ask \in AskState, NEW pc \in Waiting
  PROVE  /\ Requesting(ask, pc).pc = pc
         /\ Requesting(ask, pc).requests = ask.requests + 1
         /\ Requesting(ask, pc).rounds = ask.rounds
         /\ Requesting(ask, pc).aborted = ask.aborted
         /\ Requesting(ask, pc).messages = ask.messages
BY DEF Requesting, AskState

\* One ask changes, and is used afterwards exactly if it was before.
LEMMA OneAskType ==
  ASSUME TypeOK, NEW id \in Ids, NEW ask \in AskState,
         asks' = [asks EXCEPT ![id] = ask],
         ask.pc # "unused", asks[id].pc # "unused", turnId' = turnId
  PROVE  /\ asks' \in [Ids -> AskState]
         /\ \A i \in Ids : asks'[i].pc = "unused" <=> i > turnId'
BY DEF TypeOK

\* A turn and an ask that end keep their types.
LEMMA FinishType ==
  ASSUME TypeOK, NEW id \in Ids, Outstanding(id),
         NEW shown \in {turns, Patched(id)}, NEW error \in Failure \cup {"no"},
         Finish(id, shown, error), UNCHANGED <<open, turnId>>
  PROVE  TypeOK'
<1>1. shown \in [Ids -> Turn \cup {NoTurn}] /\ (OnPanel(id) => shown[id] \in Turn)
  BY DEF TypeOK, Patched, OnPanel, Turn
<1>2. turns' \in [Ids -> Turn \cup {NoTurn}]
  BY <1>1 DEF Finish, Turn
<1>3. /\ [asks[id] EXCEPT !.pc = "ended"] \in AskState
      /\ [asks[id] EXCEPT !.pc = "ended"].pc = "ended"
  <2>1. [asks[id] EXCEPT !.pc = "ended"] \in AskState
    BY AskFields DEF TypeOK
  <2>. QED
    BY <2>1 DEF TypeOK, AskState
<1>4. /\ asks' \in [Ids -> AskState]
      /\ \A i \in Ids : asks'[i].pc = "unused" <=> i > turnId'
  BY <1>3, OneAskType DEF Finish, Outstanding, Waiting
<1>5. abortRef' \in 0 .. turnId'
  BY DEF Finish, TypeOK, NoAsk
<1>. QED
  BY <1>2, <1>4, <1>5 DEF TypeOK

\* Aborting touches an ask that was started.
LEMMA AbortType ==
  ASSUME TypeOK, abortRef # NoAsk, turnId' = turnId,
         asks' = [asks EXCEPT ![abortRef].aborted = TRUE]
  PROVE  /\ asks' \in [Ids -> AskState]
         /\ \A i \in Ids : asks'[i].pc = "unused" <=> i > turnId'
<1>1. abortRef \in Ids /\ ~(abortRef > turnId)
  BY AskAssumption DEF TypeOK, NoAsk, Ids
<1>2. [asks[abortRef] EXCEPT !.aborted = TRUE] \in AskState
  BY <1>1, AskFields DEF TypeOK
<1>3. asks[abortRef].pc # "unused"
  BY <1>1 DEF TypeOK
<1>4. [asks[abortRef] EXCEPT !.aborted = TRUE].pc = asks[abortRef].pc
  BY <1>1 DEF TypeOK, AskState
<1>. QED
  BY <1>1, <1>2, <1>3, <1>4, OneAskType

LEMMA AbortInFlightType ==
  ASSUME TypeOK, AbortInFlight, turnId' = turnId
  PROVE  /\ asks' \in [Ids -> AskState]
         /\ \A i \in Ids : asks'[i].pc = "unused" <=> i > turnId'
         /\ abortRef' \in 0 .. turnId'
<1>1. abortRef' \in 0 .. turnId'
  BY DEF AbortInFlight, TypeOK, NoAsk
<1>. QED
  BY <1>1, AbortType DEF AbortInFlight, TypeOK

\* The ask of a new turn is the next one.
LEMMA StartedType ==
  ASSUME TypeOK, turnId' = turnId + 1, turnId' \in Ids, NEW ask \in AskState,
         asks' = [asks EXCEPT ![turnId'] = ask], ask.pc # "unused"
  PROVE  /\ asks' \in [Ids -> AskState]
         /\ \A i \in Ids : asks'[i].pc = "unused" <=> i > turnId'
         /\ turnId' \in 0 .. MaxAsks /\ turnId' \in 0 .. turnId' /\ 0 \in 0 .. turnId'
<1>1. turnId \in Nat /\ MaxAsks \in Nat /\ \A i \in Ids : i \in Nat
  BY AskAssumption DEF TypeOK, Ids
<1>2. \A i \in Ids : i # turnId + 1 => (i > turnId <=> i > turnId + 1)
  BY <1>1
<1>3. asks' \in [Ids -> AskState]
  BY DEF TypeOK
<1>4. \A i \in Ids : i # turnId' => asks'[i] = asks[i]
  BY DEF TypeOK
<1>5. ~(turnId' > turnId')
  BY <1>1
<1>6. \A i \in Ids : asks'[i].pc = "unused" <=> i > turnId'
  BY <1>2, <1>4, <1>5 DEF TypeOK
<1>7. turnId' \in 0 .. MaxAsks /\ turnId' \in 0 .. turnId' /\ 0 \in 0 .. turnId'
  BY <1>1 DEF Ids
<1>. QED
  BY <1>3, <1>6, <1>7

LEMMA PanelType == ASSUME TypeOK, Panel PROVE TypeOK'
<1>1. ASSUME Send \/ SendUnconfigured
      PROVE  turnId + 1 \in Ids /\ turnId' = turnId + 1
  BY <1>1, AskAssumption DEF Send, SendUnconfigured, TypeOK, Ids
<1>2. Append(History, User) \in Seq(Message)
  BY HistoryType, MessageTypes, AppendProperties
<1>3. CASE Send
  <2>1. [running |-> TRUE, answer |-> 0, error |-> "no"] \in Turn
    BY DEF Turn
  <2>2. [Unused EXCEPT !.messages = Append(History, User)] \in AskState
    BY <1>2, UnusedType DEF AskState
  <2>3. PICK ask \in AskState : ask.pc = "chat" /\ asks' = [asks EXCEPT ![turnId'] = ask]
    BY <1>3, <2>2, RequestingType, RequestingFields DEF Send, Waiting
  <2>4. turns' \in [Ids -> Turn \cup {NoTurn}]
    BY <1>3, <2>1 DEF Send, TypeOK
  <2>. QED
    BY <1>1, <1>3, <2>3, <2>4, StartedType DEF Send, TypeOK
<1>4. CASE SendUnconfigured
  <2>1. [running |-> FALSE, answer |-> 0, error |-> "config"] \in Turn
    BY DEF Turn, Failure
  <2>2. [Unused EXCEPT !.pc = "ended", !.messages = Append(History, User)] \in AskState
    BY <1>2, UnusedType DEF AskState
  <2>3. [Unused EXCEPT !.pc = "ended", !.messages = Append(History, User)].pc = "ended"
    BY DEF Unused
  <2>5. PICK ask \in AskState : ask.pc = "ended" /\ asks' = [asks EXCEPT ![turnId'] = ask]
    BY <1>4, <2>2, <2>3 DEF SendUnconfigured
  <2>4. turns' \in [Ids -> Turn \cup {NoTurn}]
    BY <1>4, <2>1 DEF SendUnconfigured, TypeOK
  <2>. QED
    BY <1>1, <1>4, <2>4, <2>5, StartedType DEF SendUnconfigured, TypeOK, NoAsk
<1>5. CASE Stop
  BY <1>5, AbortType DEF Stop, TypeOK
<1>6. CASE Clear
  BY <1>6, AbortInFlightType DEF Clear, TypeOK
<1>7. CASE Close
  BY <1>7, AbortInFlightType DEF Close, TypeOK
<1>8. CASE Open
  BY <1>8 DEF Open, TypeOK
<1>. QED
  BY <1>3, <1>4, <1>5, <1>6, <1>7, <1>8 DEF Panel

LEMMA StepTypes == ASSUME TypeOK, NEW id \in Ids, Endpoint(id) \/ Client(id) PROVE TypeOK'
<1>1. ASSUME NEW n \in CallCounts, ReplyCalls(id, n)
      PROVE  TypeOK'
  <2>. DEFINE messages == asks[id].messages \o Lookup(n)
              after == [asks[id] EXCEPT !.rounds = asks[id].rounds + 1, !.messages = messages]
              last == [after EXCEPT !.messages = Append(messages, User)]
  <2>1. n \in Nat
    BY AskAssumption
  <2>2. messages \in Seq(Message) /\ after \in AskState
    <3>0. asks[id].messages \in Seq(Message) /\ asks[id].rounds \in Nat
      BY DEF TypeOK, AskState
    <3>1. asks[id].messages \o Lookup(n) \in Seq(Message) /\ asks[id].rounds + 1 \in Nat
      <4>1. Lookup(n) \in Seq(Message)
        BY <2>1, LookupType
      <4>2. asks[id].messages \o Lookup(n) \in Seq(Message)
        BY <3>0, <4>1, ConcatProperties
      <4>. QED
        BY <3>0, <4>2
    <3>2. [asks[id] EXCEPT !.rounds = asks[id].rounds + 1] \in AskState
      BY <3>1, AskFields DEF TypeOK
    <3>3. [asks[id] EXCEPT !.rounds = asks[id].rounds + 1].messages = asks[id].messages
      BY DEF TypeOK, AskState
    <3>. QED
      BY <3>1, <3>2, <3>3, AskFields
  <2>3. last \in AskState
    <3>1. Append(messages, User) \in Seq(Message)
      BY <2>2, MessageTypes, AppendProperties
    <3>. QED
      BY <2>2, <3>1, AskFields
  <2>4. /\ Requesting(after, "chat") \in AskState /\ Requesting(after, "chat").pc = "chat"
        /\ Requesting(last, "stream") \in AskState /\ Requesting(last, "stream").pc = "stream"
    <3>. HIDE DEF after, last
    <3>. QED
      BY <2>2, <2>3, RequestingType, RequestingFields DEF Waiting
  <2>5. asks' = [asks EXCEPT ![id] = asks'[id]] /\ asks'[id] \in AskState /\ asks'[id].pc # "unused"
    BY <1>1, <2>4 DEF ReplyCalls, TypeOK
  <2>. QED
    BY <1>1, <2>5 DEF ReplyCalls, TypeOK
<1>2. CASE ReplyAnswers(id)
  BY <1>2, FinishType DEF ReplyAnswers, Outstanding, Waiting
<1>3. CASE ReplyEmpty(id)
  <2>1. Requesting(asks[id], "stream") \in AskState /\ Requesting(asks[id], "stream").pc = "stream"
    BY RequestingType DEF TypeOK, Waiting, Requesting, AskState
  <2>. QED
    BY <1>3, <2>1 DEF ReplyEmpty, TypeOK
<1>4. CASE ReplyStatus(id)
  BY <1>4 DEF ReplyStatus, TypeOK, AskState, Waiting
<1>5. ASSUME NEW error \in {"network", "protocol"}, ReplyFails(id, error)
      PROVE  TypeOK'
  BY <1>5, FinishType DEF ReplyFails, Outstanding, Waiting, Failure
<1>6. CASE ErrorBodyEnds(id)
  BY <1>6, FinishType DEF ErrorBodyEnds, Outstanding, Waiting, Failure
<1>7. CASE StreamContent(id)
  <2>1. turns' \in [Ids -> Turn \cup {NoTurn}]
    BY <1>7 DEF StreamContent, Patched, OnPanel, TypeOK, Turn
  <2>2. [asks[id] EXCEPT !.chunks = asks[id].chunks + 1, !.sawContent = TRUE] \in AskState
    BY AskFields DEF TypeOK
  <2>3. [asks[id] EXCEPT !.chunks = asks[id].chunks + 1, !.sawContent = TRUE].pc = asks[id].pc
    BY DEF TypeOK, AskState
  <2>4. /\ asks' \in [Ids -> AskState]
        /\ \A i \in Ids : asks'[i].pc = "unused" <=> i > turnId'
    <3>1. PICK ask \in AskState : ask.pc = asks[id].pc /\ asks' = [asks EXCEPT ![id] = ask]
      BY <1>7, <2>2, <2>3 DEF StreamContent
    <3>. QED
      BY <1>7, <3>1, OneAskType DEF StreamContent
  <2>. QED
    BY <1>7, <2>1, <2>4 DEF StreamContent, TypeOK
<1>8. CASE StreamEnds(id)
  BY <1>8, FinishType DEF StreamEnds, Outstanding, Waiting, Failure
<1>9. ASSUME NEW done \in BOOLEAN, StreamOther(id, done)
      PROVE  TypeOK'
  <2>1. (asks[id].sawDone \/ done) \in BOOLEAN
    BY <1>9 DEF TypeOK, AskState
  <2>2. [asks[id] EXCEPT !.chunks = asks[id].chunks + 1] \in AskState
    BY AskFields DEF TypeOK
  <2>3. [asks[id] EXCEPT !.chunks = asks[id].chunks + 1].sawDone = asks[id].sawDone
    BY DEF TypeOK, AskState
  <2>4. [asks[id] EXCEPT !.chunks = asks[id].chunks + 1, !.sawDone = asks[id].sawDone \/ done] \in AskState
    BY <2>1, <2>2, <2>3, AskFields
  <2>5. [asks[id] EXCEPT !.chunks = asks[id].chunks + 1, !.sawDone = asks[id].sawDone \/ done].pc = asks[id].pc
    BY DEF TypeOK, AskState
  <2>6. /\ asks' \in [Ids -> AskState]
        /\ \A i \in Ids : asks'[i].pc = "unused" <=> i > turnId'
    <3>1. PICK ask \in AskState : ask.pc = asks[id].pc /\ asks' = [asks EXCEPT ![id] = ask]
      BY <1>9, <2>4, <2>5 DEF StreamOther
    <3>. QED
      BY <1>9, <3>1, OneAskType DEF StreamOther
  <2>. QED
    BY <1>9, <2>6 DEF StreamOther, TypeOK
<1>10. CASE TimerFires(id)
  BY <1>10 DEF TimerFires, TypeOK, AskState
<1>11. CASE AbortSettles(id)
  BY <1>11, FinishType DEF AbortSettles, Outstanding, Waiting, Failure
<1>. QED
  BY <1>1, <1>2, <1>3, <1>4, <1>5, <1>6, <1>7, <1>8, <1>9, <1>10, <1>11 DEF Endpoint, Client

\* Every state of every conversation is well-typed.
THEOREM AskTypeCorrect == Spec => []TypeOK
<1>1. Init => TypeOK
  <2>1. \A id \in Ids : id > 0 /\ Unused.pc = "unused"
    BY DEF Ids, Unused
  <2>2. 0 \in 0 .. MaxAsks /\ 0 \in 0 .. 0
    BY AskAssumption
  <2>. QED
    BY <2>1, <2>2, UnusedType DEF Init, TypeOK, NoAsk
<1>2. TypeOK /\ [Next]_vars => TypeOK'
  <2>. SUFFICES ASSUME TypeOK, [Next]_vars
                PROVE  TypeOK'
    OBVIOUS
  <2>1. CASE UNCHANGED vars
    BY <2>1 DEF vars, TypeOK
  <2>. QED
    BY <2>1, PanelType, StepTypes DEF Next
<1>. QED
  BY <1>1, <1>2, PTL DEF Spec

(***************************************************************************)
(* The panel and its controller                                            *)
(***************************************************************************)
\* An ask goes on waiting for the endpoint.
LEMMA WaitingKeepsPanel ==
  ASSUME TypeOK, PanelInv, NEW id \in Ids, Outstanding(id), NEW ask,
         ask.pc \in Waiting, ask.aborted = asks[id].aborted,
         asks' = [asks EXCEPT ![id] = ask], UNCHANGED <<turnId, abortRef>>,
         turns' \in {turns, Patched(id)}
  PROVE  PanelInv'
<1>1. \A i \in Ids : /\ Outstanding(i)' <=> Outstanding(i)
                     /\ asks'[i].aborted = asks[i].aborted
  BY DEF TypeOK, Outstanding
<1>2. \A i \in Ids : /\ OnPanel(i)' <=> OnPanel(i)
                     /\ OnPanel(i) => turns'[i].running = turns[i].running
  <2>1. CASE turns' = turns
    BY <2>1 DEF OnPanel
  <2>2. CASE turns' = Patched(id) /\ OnPanel(id)
    <3>1. \A answer : [turns[id] EXCEPT !.answer = answer] # NoTurn
                      \/ answer \notin Nat
      BY <2>2, AskAssumption DEF TypeOK, OnPanel, Turn
    <3>2. turns[id] \in Turn /\ turns[id].answer + 1 \in Nat
      BY <2>2 DEF TypeOK, OnPanel, Turn
    <3>3. turns' = [turns EXCEPT ![id] = [turns[id] EXCEPT !.answer = turns[id].answer + 1]]
      BY <2>2 DEF Patched
    <3>4. [turns[id] EXCEPT !.answer = turns[id].answer + 1].running = turns[id].running
      BY <3>2 DEF Turn
    <3>. QED
      BY <2>2, <3>1, <3>2, <3>3, <3>4 DEF TypeOK, OnPanel
  <2>3. CASE turns' = Patched(id) /\ ~OnPanel(id)
    BY <2>3 DEF Patched, OnPanel
  <2>. QED
    BY <2>1, <2>2, <2>3
<1>. QED
  BY <1>1, <1>2 DEF PanelInv, Wanted

\* An ask ends, and with it its turn, if that is still there.
LEMMA FinishKeepsPanel ==
  ASSUME TypeOK, PanelInv, NEW id \in Ids,
         NEW shown \in {turns, Patched(id)}, NEW error, Finish(id, shown, error), UNCHANGED turnId, TypeOK'
  PROVE  PanelInv'
<1>1. \A i \in Ids : shown[i] = turns[i] \/ (i = id /\ OnPanel(id))
  <2>1. ASSUME NEW i \in Ids, i # id PROVE Patched(id)[i] = turns[i]
    BY <2>1 DEF TypeOK, Patched
  <2>2. ~OnPanel(id) => Patched(id) = turns
    BY DEF Patched
  <2>. QED
    BY <2>1, <2>2
<1>2. \A i \in Ids : i # id => turns'[i] = turns[i] /\ asks'[i] = asks[i]
  BY <1>1 DEF Finish, TypeOK
<1>3. ~Outstanding(id)'
  BY DEF Finish, TypeOK, AskState, Outstanding, Waiting
<1>4. OnPanel(id)' => ~turns'[id].running
  <2>1. ASSUME OnPanel(id) PROVE ~turns'[id].running
    <3>1. shown \in [Ids -> Turn \cup {NoTurn}] /\ shown[id] \in Turn
      BY <2>1 DEF TypeOK, Patched, OnPanel, Turn
    <3>. QED
      BY <2>1, <3>1 DEF Finish, Turn
  <2>2. ASSUME ~OnPanel(id) PROVE ~OnPanel(id)'
    BY <1>1, <2>2 DEF Finish, OnPanel
  <2>. QED
    BY <2>1, <2>2
<1>6. OnPanel(id)' => OnPanel(id)
  BY <1>1 DEF Finish, OnPanel
<1>5. \A i \in Ids : i # id /\ abortRef = i => abortRef' = i
  BY DEF Finish
<1>. QED
  BY <1>2, <1>3, <1>4, <1>5, <1>6 DEF PanelInv, Wanted, Outstanding, OnPanel

\* A new ask takes the reference: no turn runs, so no other ask is wanted.
LEMMA StartKeepsPanel ==
  ASSUME TypeOK, PanelInv, ~Running, turnId + 1 \in Ids, turnId' = turnId + 1,
         NEW turn \in Turn, NEW ask,
         turns' = [turns EXCEPT ![turnId'] = turn], asks' = [asks EXCEPT ![turnId'] = ask],
         turn.running <=> ask.pc \in Waiting,
         turn.running => abortRef' = turnId'
  PROVE  PanelInv'
<1>1. \A i \in Ids : ~Wanted(i)
  BY DEF PanelInv, Running, Wanted
<1>2. \A i \in Ids : i # turnId' => turns'[i] = turns[i] /\ asks'[i] = asks[i]
  BY DEF TypeOK
<1>3. turns'[turnId'] = turn /\ asks'[turnId'] = ask /\ turn # NoTurn
  BY AskAssumption DEF TypeOK
<1>4. turnId' <= turnId' /\ \A i \in Ids : i <= turnId => i <= turnId'
  BY AskAssumption DEF TypeOK, Ids
<1>. QED
  BY <1>1, <1>2, <1>3, <1>4 DEF PanelInv, Wanted, Outstanding, OnPanel

\* Aborting the reference's ask changes nothing but what is wanted.
LEMMA AbortKeepsPanel ==
  ASSUME TypeOK, abortRef \in Ids, asks' = [asks EXCEPT ![abortRef].aborted = TRUE]
  PROVE  \A i \in Ids : /\ Outstanding(i)' <=> Outstanding(i)
                        /\ Wanted(i)' => Wanted(i) /\ i # abortRef
<1>1. \A i \in Ids : i # abortRef => asks'[i] = asks[i]
  BY DEF TypeOK
<1>2. asks'[abortRef].pc = asks[abortRef].pc /\ asks'[abortRef].aborted
  BY DEF TypeOK, AskState
<1>. QED
  BY <1>1, <1>2 DEF Outstanding, Wanted

LEMMA PanelSteps == ASSUME TypeOK, PanelInv, Panel PROVE PanelInv'
<1>1. ASSUME Send \/ SendUnconfigured
      PROVE  turnId + 1 \in Ids /\ turnId' = turnId + 1
  BY <1>1, AskAssumption DEF Send, SendUnconfigured, TypeOK, Ids
<1>2. abortRef # NoAsk => abortRef \in Ids
  BY AskAssumption DEF TypeOK, NoAsk, Ids
<1>3. CASE Send
  <2>. DEFINE turn == [running |-> TRUE, answer |-> 0, error |-> "no"]
              ask == Requesting([Unused EXCEPT !.messages = Append(History, User)], "chat")
  <2>1. turn \in Turn /\ turn.running
    BY DEF Turn
  <2>2. ask.pc = "chat"
    BY DEF Requesting, Unused
  <2>3. /\ turns' = [turns EXCEPT ![turnId'] = turn]
        /\ asks' = [asks EXCEPT ![turnId'] = ask]
        /\ ~Running /\ abortRef' = turnId'
    BY <1>3 DEF Send
  <2>. HIDE DEF turn, ask
  <2>. QED
    BY <1>1, <1>3, <2>1, <2>2, <2>3, StartKeepsPanel DEF Waiting
<1>4. CASE SendUnconfigured
  <2>. DEFINE turn == [running |-> FALSE, answer |-> 0, error |-> "config"]
              ask == [Unused EXCEPT !.pc = "ended", !.messages = Append(History, User)]
  <2>1. turn \in Turn /\ ~turn.running
    BY DEF Turn, Failure
  <2>2. ask.pc = "ended"
    BY DEF Unused
  <2>3. /\ turns' = [turns EXCEPT ![turnId'] = turn]
        /\ asks' = [asks EXCEPT ![turnId'] = ask]
        /\ ~Running
    BY <1>4 DEF SendUnconfigured
  <2>. HIDE DEF turn, ask
  <2>. QED
    BY <1>1, <1>4, <2>1, <2>2, <2>3, StartKeepsPanel DEF Waiting
<1>5. CASE Stop
  BY <1>2, <1>5, AbortKeepsPanel DEF Stop, PanelInv, OnPanel
<1>6. CASE Clear
  <2>1. \A i \in Ids : ~OnPanel(i)'
    BY <1>6 DEF Clear, OnPanel
  <2>2. \A i \in Ids : ~Wanted(i)'
    BY <1>2, <1>6, AbortKeepsPanel DEF Clear, AbortInFlight, PanelInv, Wanted, Outstanding, NoAsk, Ids
  <2>. QED
    BY <2>1, <2>2 DEF PanelInv
<1>7. CASE Close
  <2>1. \A i \in Ids : ~Wanted(i)' /\ (Outstanding(i)' <=> Outstanding(i))
    BY <1>2, <1>7, AbortKeepsPanel DEF Close, AbortInFlight, PanelInv, Wanted, Outstanding, NoAsk, Ids
  <2>. QED
    BY <1>7, <2>1 DEF Close, PanelInv, OnPanel
<1>8. CASE Open
  BY <1>8 DEF Open, PanelInv, OnPanel, Wanted, Outstanding
<1>. QED
  BY <1>3, <1>4, <1>5, <1>6, <1>7, <1>8 DEF Panel

LEMMA AskSteps ==
  ASSUME TypeOK, PanelInv, NEW id \in Ids, Endpoint(id) \/ Client(id), TypeOK'
  PROVE  PanelInv'
<1>0. asks[id] \in AskState
  BY DEF TypeOK
<1>1. ASSUME NEW n \in CallCounts, ReplyCalls(id, n)
      PROVE  PanelInv'
  <2>1. /\ asks'[id].pc \in Waiting /\ asks'[id].aborted = asks[id].aborted
        /\ asks' = [asks EXCEPT ![id] = asks'[id]]
    BY <1>0, <1>1 DEF ReplyCalls, Requesting, TypeOK, AskState, Waiting
  <2>2. Outstanding(id)
    BY <1>1 DEF ReplyCalls, Outstanding, Waiting
  <2>. QED
    BY <1>1, <2>1, <2>2, WaitingKeepsPanel DEF ReplyCalls
<1>2. CASE ReplyAnswers(id)
  BY <1>2, FinishKeepsPanel DEF ReplyAnswers
<1>3. CASE ReplyEmpty(id)
  <2>1. Outstanding(id) /\ "stream" \in Waiting
    BY <1>3 DEF ReplyEmpty, Outstanding, Waiting
  <2>2. /\ Requesting(asks[id], "stream").pc \in Waiting
        /\ Requesting(asks[id], "stream").aborted = asks[id].aborted
    BY <1>0, <2>1, RequestingFields
  <2>. QED
    BY <1>3, <2>1, <2>2, WaitingKeepsPanel DEF ReplyEmpty
<1>4. CASE ReplyStatus(id)
  <2>1. /\ asks'[id].pc \in Waiting /\ asks'[id].aborted = asks[id].aborted
        /\ asks' = [asks EXCEPT ![id] = asks'[id]]
    BY <1>0, <1>4 DEF ReplyStatus, TypeOK, AskState, Waiting
  <2>2. Outstanding(id)
    BY <1>4 DEF ReplyStatus, Outstanding, Waiting
  <2>. QED
    BY <1>4, <2>1, <2>2, WaitingKeepsPanel DEF ReplyStatus
<1>5. ASSUME NEW error \in {"network", "protocol"}, ReplyFails(id, error)
      PROVE  PanelInv'
  BY <1>5, FinishKeepsPanel DEF ReplyFails
<1>6. CASE ErrorBodyEnds(id)
  BY <1>6, FinishKeepsPanel DEF ErrorBodyEnds
<1>7. CASE StreamContent(id)
  <2>1. /\ asks'[id].pc \in Waiting /\ asks'[id].aborted = asks[id].aborted
        /\ asks' = [asks EXCEPT ![id] = asks'[id]]
    BY <1>0, <1>7 DEF StreamContent, TypeOK, AskState, Waiting
  <2>2. Outstanding(id)
    BY <1>7 DEF StreamContent, Outstanding, Waiting
  <2>. QED
    BY <1>7, <2>1, <2>2, WaitingKeepsPanel DEF StreamContent
<1>8. CASE StreamEnds(id)
  BY <1>8, FinishKeepsPanel DEF StreamEnds
<1>9. ASSUME NEW done \in BOOLEAN, StreamOther(id, done)
      PROVE  PanelInv'
  <2>1. /\ asks'[id].pc \in Waiting /\ asks'[id].aborted = asks[id].aborted
        /\ asks' = [asks EXCEPT ![id] = asks'[id]]
    BY <1>0, <1>9 DEF StreamOther, TypeOK, AskState, Waiting
  <2>2. Outstanding(id)
    BY <1>9 DEF StreamOther, Outstanding, Waiting
  <2>. QED
    BY <1>9, <2>1, <2>2, WaitingKeepsPanel DEF StreamOther
<1>10. CASE TimerFires(id)
  <2>1. /\ asks'[id].pc \in Waiting /\ asks'[id].aborted = asks[id].aborted
        /\ asks' = [asks EXCEPT ![id] = asks'[id]]
    BY <1>0, <1>10 DEF TimerFires, Outstanding, TypeOK, AskState, Waiting
  <2>. QED
    BY <1>10, <2>1, WaitingKeepsPanel DEF TimerFires
<1>11. CASE AbortSettles(id)
  BY <1>11, FinishKeepsPanel DEF AbortSettles
<1>. QED
  BY <1>1, <1>2, <1>3, <1>4, <1>5, <1>6, <1>7, <1>8, <1>9, <1>10, <1>11 DEF Endpoint, Client

LEMMA PanelInvariant == Spec => [](TypeOK /\ PanelInv)
<1>1. Init => PanelInv
  BY DEF Init, PanelInv, OnPanel, Wanted, Outstanding, Unused, Waiting
<1>2. TypeOK /\ TypeOK' /\ PanelInv /\ [Next]_vars => PanelInv'
  <2>. SUFFICES ASSUME TypeOK, TypeOK', PanelInv, [Next]_vars
                PROVE  PanelInv'
    OBVIOUS
  <2>1. CASE UNCHANGED vars
    BY <2>1 DEF vars, PanelInv, OnPanel, Wanted, Outstanding
  <2>. QED
    BY <2>1, PanelSteps, AskSteps DEF Next
<1>. QED
  BY <1>1, <1>2, AskTypeCorrect, PTL DEF Spec

\* However turns are stopped, cleared and sent, at most one request that was
\* not cancelled is at the endpoint (AskPanel.tsx, send and abortInFlight).
THEOREM AskOneWanted == Spec => []OneWanted
<1>1. PanelInv => OneWanted
  BY DEF PanelInv, OneWanted, Wanted
<1>. QED
  BY <1>1, PanelInvariant, PTL

\* Stop reaches every running turn: the `finally` of an earlier ask never
\* takes away the controller of a later one (AskPanel.tsx, send).
THEOREM AskStopReaches == Spec => []StopReaches
<1>1. PanelInv => StopReaches
  BY DEF PanelInv, StopReaches, Wanted
<1>. QED
  BY <1>1, PanelInvariant, PTL

\* A turn that has ended changes no more: only an ask whose request is
\* outstanding ends or patches a turn, and its turn still runs.
THEOREM AskEndedTurnsStay == Spec => EndedTurnsStay
<1>1. ASSUME TypeOK, PanelInv, [Next]_vars
      PROVE  [\A id \in Ids : OnPanel(id) /\ ~turns[id].running =>
                turns'[id] = turns[id] \/ turns'[id] = NoTurn]_vars
  <2>. SUFFICES ASSUME Next, NEW id \in Ids, OnPanel(id), ~turns[id].running
                PROVE  turns'[id] = turns[id] \/ turns'[id] = NoTurn
    BY <1>1
  <2>1. CASE Panel
    <3>1. ASSUME Send \/ SendUnconfigured PROVE turns'[id] = turns[id]
      <4>1. turnId' = turnId + 1 /\ turnId \in Nat
        BY <1>1, <3>1 DEF Send, SendUnconfigured, TypeOK
      <4>2. id <= turnId /\ id \in Nat
        BY <1>1 DEF PanelInv, Ids
      <4>3. id # turnId'
        BY <4>1, <4>2
      <4>. QED
        BY <1>1, <3>1, <4>3 DEF Send, SendUnconfigured, TypeOK
    <3>. QED
      BY <1>1, <2>1, <3>1 DEF Panel, Stop, Clear, Close, Open
  <2>2. ASSUME NEW i \in Ids, Endpoint(i) \/ Client(i)
        PROVE  turns'[id] = turns[id]
    <3>1. CASE i = id
      <4>1. ~Outstanding(i)
        BY <1>1, <3>1 DEF PanelInv
      <4>. QED
        BY <2>2, <4>1 DEF Endpoint, Client, Outstanding, Waiting, ReplyCalls,
          ReplyAnswers, ReplyEmpty, ReplyStatus, ReplyFails, ErrorBodyEnds,
          StreamContent, StreamEnds, StreamOther, TimerFires, AbortSettles
    <3>2. CASE i # id
      <4>1. Patched(i)[id] = turns[id]
        BY <1>1, <3>2 DEF TypeOK, Patched
      <4>2. ASSUME NEW shown \in {turns, Patched(i)}, NEW error, Finish(i, shown, error)
            PROVE  turns'[id] = turns[id]
        <5>1. shown[id] = turns[id] /\ DOMAIN shown = Ids
          BY <1>1, <4>1, <4>2 DEF TypeOK, Patched
        <5>. QED
          BY <3>2, <4>2, <5>1 DEF Finish
      <4>. QED
        BY <2>2, <4>1, <4>2 DEF Endpoint, Client, ReplyCalls,
          ReplyAnswers, ReplyEmpty, ReplyStatus, ReplyFails, ErrorBodyEnds,
          StreamContent, StreamEnds, StreamOther, TimerFires, AbortSettles
    <3>. QED
      BY <3>1, <3>2
  <2>. QED
    BY <2>1, <2>2 DEF Next
<1>. QED
  BY <1>1, PanelInvariant, PTL DEF Spec, EndedTurnsStay

(***************************************************************************)
(* Rounds                                                                  *)
(***************************************************************************)
LEMMA LookupsType ==
  ASSUME NEW m \in Seq(Message)
  PROVE  IsFiniteSet(Lookups(m)) /\ Cardinality(Lookups(m)) \in Nat
<1>1. Lookups(m) \subseteq 1 .. Len(m) /\ Len(m) \in Nat
  BY DEF Lookups
<1>2. IsFiniteSet(1 .. Len(m))
  BY <1>1, FS_Interval
<1>. QED
  BY <1>1, <1>2, FS_Subset, FS_CardinalityType

LEMMA RolesDiffer == User # Tool /\ \A n : Assistant(n) # Tool
BY DEF User, Assistant, Tool

\* A question and an answer are no lookups.
LEMMA LookupsOfQuestion ==
  ASSUME NEW m \in Seq(Message)
  PROVE  Lookups(Append(m, User)) = Lookups(m)
<1>1. Append(m, User) \in Seq(Message) /\ Len(Append(m, User)) = Len(m) + 1
  BY MessageTypes, AppendProperties
<1>2. \A i \in 1 .. Len(m) : Append(m, User)[i] = m[i]
  BY MessageTypes, AppendProperties
<1>3. Append(m, User)[Len(m) + 1] # Tool
  BY MessageTypes, AppendProperties, RolesDiffer
<1>4. DOMAIN m = 1 .. Len(m) /\ DOMAIN Append(m, User) = 1 .. (Len(m) + 1)
  BY <1>1, LenProperties
<1>. QED
  BY <1>1, <1>2, <1>3, <1>4 DEF Lookups

LEMMA NoLookupsYet == Lookups(<<>>) = {} /\ Lookups(History) = {}
<1>1. \A i \in DOMAIN History : History[i] # Tool
  BY RolesDiffer DEF History
<1>. QED
  BY <1>1 DEF Lookups

\* A round adds as many lookups as it executes.
LEMMA LookupsOfRound ==
  ASSUME NEW m \in Seq(Message), NEW n \in Nat
  PROVE  Cardinality(Lookups(m \o Lookup(n))) <= Cardinality(Lookups(m)) + MAX_CALLS_PER_ROUND
<1>. DEFINE k == Slice(n)
            added == (Len(m) + 2) .. (Len(m) + 1 + k)
<1>1. k \in Nat /\ k <= MAX_CALLS_PER_ROUND /\ Len(m) \in Nat
  BY SliceType
<1>2. /\ Lookup(n) \in Seq(Message) /\ Len(Lookup(n)) = k + 1
      /\ Lookup(n)[1] # Tool
  <2>1. Assistant(k) \in Message /\ [i \in 1 .. k |-> Tool] \in Seq(Message)
    BY <1>1, MessageTypes
  <2>2. Len([i \in 1 .. k |-> Tool]) = k
    BY <1>1
  <2>3. <<Assistant(k)>> \in Seq(Message) /\ Len(<<Assistant(k)>>) = 1 /\ <<Assistant(k)>>[1] = Assistant(k)
    BY <2>1
  <2>. HIDE DEF k
  <2>4. Lookup(n) = <<Assistant(k)>> \o [i \in 1 .. k |-> Tool]
    BY DEF Lookup, k
  <2>5. Len(Lookup(n)) = k + 1 /\ Lookup(n)[1] = Assistant(k)
    BY <1>1, <2>1, <2>2, <2>3, <2>4, ConcatProperties
  <2>. QED
    BY <2>5, LookupType, RolesDiffer
<1>. HIDE DEF k
<1>3. Lookups(m \o Lookup(n)) \subseteq Lookups(m) \cup added
  <2>. SUFFICES ASSUME NEW i \in Lookups(m \o Lookup(n))
                PROVE  i \in Lookups(m) \cup added
    OBVIOUS
  <2>1. /\ i \in 1 .. (Len(m) + k + 1)
        /\ (m \o Lookup(n))[i] = Tool
    BY <1>1, <1>2, ConcatProperties, LenProperties DEF Lookups
  <2>2. CASE i <= Len(m)
    <3>1. i \in 1 .. Len(m) /\ DOMAIN m = 1 .. Len(m)
      BY <1>1, <2>1, <2>2, LenProperties
    <3>2. m[i] = Tool
      BY <1>2, <2>1, <3>1, ConcatProperties
    <3>. QED
      BY <3>1, <3>2 DEF Lookups
  <2>3. CASE i = Len(m) + 1
    <3>1. (m \o Lookup(n))[i] = Lookup(n)[i - Len(m)]
      BY <1>1, <1>2, <2>1, <2>3, ConcatProperties
    <3>2. i - Len(m) = 1
      BY <1>1, <2>3
    <3>. QED
      BY <1>2, <2>1, <3>1, <3>2
  <2>4. CASE i > Len(m) + 1
    BY <1>1, <2>1, <2>4
  <2>. QED
    BY <1>1, <2>1, <2>2, <2>3, <2>4
<1>4. IsFiniteSet(added) /\ Cardinality(added) = k
  <2>1. Len(m) + 2 \in Int /\ Len(m) + 1 + k \in Int
    BY <1>1
  <2>2. IsFiniteSet(added) /\ Cardinality(added) =
          IF Len(m) + 2 > Len(m) + 1 + k THEN 0 ELSE (Len(m) + 1 + k) - (Len(m) + 2) + 1
    BY <2>1, FS_Interval
  <2>. QED
    BY <1>1, <2>2
<1>. HIDE DEF added
<1>5. IsFiniteSet(Lookups(m)) /\ Cardinality(Lookups(m)) \in Nat
  BY LookupsType
<1>6. /\ IsFiniteSet(Lookups(m) \cup added)
      /\ Cardinality(Lookups(m) \cup added) <= Cardinality(Lookups(m)) + k
  <2>1. IsFiniteSet(Lookups(m) \cap added)
    BY <1>5, FS_Subset
  <2>2. Cardinality(Lookups(m) \cap added) \in Nat
    BY <2>1, FS_CardinalityType
  <2>3. /\ IsFiniteSet(Lookups(m) \cup added)
        /\ Cardinality(Lookups(m) \cup added) =
             Cardinality(Lookups(m)) + Cardinality(added) - Cardinality(Lookups(m) \cap added)
    BY <1>4, <1>5, FS_Union
  <2>. QED
    BY <1>1, <1>4, <1>5, <2>2, <2>3
<1>7. Cardinality(Lookups(m \o Lookup(n))) <= Cardinality(Lookups(m) \cup added)
  BY <1>3, <1>6, FS_Subset
<1>8. Cardinality(Lookups(m \o Lookup(n))) \in Nat /\ Cardinality(Lookups(m) \cup added) \in Nat
  BY <1>3, <1>6, FS_Subset, FS_CardinalityType
<1>. QED
  BY <1>1, <1>5, <1>6, <1>7, <1>8, AskAssumption

\* RoundsInv of one ask.
RoundsOf(ask) ==
  /\ ask.pc = "unused" => ask = Unused
  /\ ask.pc = "chat" => ask.requests = ask.rounds + 1 /\ ask.rounds < MAX_TOOL_ROUNDS
  /\ ask.requests <= MAX_TOOL_ROUNDS + 1
  /\ ask.rounds <= MAX_TOOL_ROUNDS
  /\ Cardinality(Lookups(ask.messages)) <= ask.rounds * MAX_CALLS_PER_ROUND

LEMMA RoundsOfAll == RoundsInv <=> \A id \in Ids : RoundsOf(asks[id])
BY DEF RoundsInv, RoundsOf

\* Only the ask that takes the step has to be looked at.
LEMMA RoundsOfOne ==
  ASSUME TypeOK, RoundsInv, NEW id \in Ids, NEW ask, asks' = [asks EXCEPT ![id] = ask], RoundsOf(ask)
  PROVE  RoundsInv'
BY DEF TypeOK, RoundsInv, RoundsOf

\* An ask that is used, sends nothing and looks up nothing.
LEMMA RoundsKept ==
  ASSUME TypeOK, RoundsInv, NEW id \in Ids, asks[id].pc # "unused",
         asks' = [asks EXCEPT ![id] = asks'[id]],
         asks'[id].pc \in {asks[id].pc, "ended", "errorBody"},
         asks'[id].requests = asks[id].requests, asks'[id].rounds = asks[id].rounds,
         asks'[id].messages = asks[id].messages
  PROVE  RoundsInv'
BY RoundsOfOne DEF RoundsInv, RoundsOf

LEMMA RoundsOfFinish ==
  ASSUME TypeOK, RoundsInv, NEW id \in Ids, NEW shown, NEW error, Finish(id, shown, error),
         Outstanding(id)
  PROVE  RoundsInv'
<1>1. /\ asks' = [asks EXCEPT ![id] = asks'[id]] /\ asks'[id].pc = "ended"
      /\ asks'[id].requests = asks[id].requests /\ asks'[id].rounds = asks[id].rounds
      /\ asks'[id].messages = asks[id].messages
  BY DEF Finish, TypeOK, AskState
<1>. QED
  BY <1>1, RoundsKept DEF Outstanding, Waiting

LEMMA RoundsOfAbort ==
  ASSUME TypeOK, RoundsInv, abortRef # NoAsk, asks' = [asks EXCEPT ![abortRef].aborted = TRUE]
  PROVE  RoundsInv'
<1>1. abortRef \in Ids /\ asks[abortRef].pc # "unused"
  BY AskAssumption DEF TypeOK, NoAsk, Ids
<1>2. /\ asks' = [asks EXCEPT ![abortRef] = asks'[abortRef]]
      /\ asks'[abortRef].pc = asks[abortRef].pc
      /\ asks'[abortRef].requests = asks[abortRef].requests
      /\ asks'[abortRef].rounds = asks[abortRef].rounds
      /\ asks'[abortRef].messages = asks[abortRef].messages
  BY <1>1 DEF TypeOK, AskState
<1>. QED
  BY <1>1, <1>2, RoundsKept

\* A round: one request more, at most MAX_CALLS_PER_ROUND lookups more.
LEMMA RoundsOfCalls ==
  ASSUME TypeOK, RoundsInv, NEW id \in Ids, NEW n \in CallCounts, ReplyCalls(id, n)
  PROVE  RoundsInv'
<1>. DEFINE ask == asks[id]
            rounds == ask.rounds + 1
            messages == ask.messages \o Lookup(n)
            after == [ask EXCEPT !.rounds = rounds, !.messages = messages]
            last == [after EXCEPT !.messages = Append(messages, User)]
<1>1. /\ ask \in AskState /\ ask.rounds \in Nat /\ ask.requests \in Nat
      /\ ask.messages \in Seq(Message) /\ n \in Nat
  BY AskAssumption DEF TypeOK, AskState
<1>2. /\ ask.requests = rounds /\ rounds \in Nat /\ rounds <= MAX_TOOL_ROUNDS
      /\ Cardinality(Lookups(ask.messages)) <= ask.rounds * MAX_CALLS_PER_ROUND
  BY <1>1, AskAssumption DEF RoundsInv, ReplyCalls
<1>3. messages \in Seq(Message)
  <2>1. Lookup(n) \in Seq(Message)
    BY <1>1, LookupType
  <2>. QED
    BY <1>1, <2>1, ConcatProperties
<1>4. Cardinality(Lookups(messages)) <= rounds * MAX_CALLS_PER_ROUND
  <2>1. Cardinality(Lookups(messages)) <= Cardinality(Lookups(ask.messages)) + MAX_CALLS_PER_ROUND
    BY <1>1, LookupsOfRound
  <2>2. Cardinality(Lookups(ask.messages)) \in Nat /\ Cardinality(Lookups(messages)) \in Nat
    BY <1>1, <1>3, LookupsType
  <2>3. rounds * MAX_CALLS_PER_ROUND = ask.rounds * MAX_CALLS_PER_ROUND + MAX_CALLS_PER_ROUND
    BY <1>1, AskAssumption
  <2>4. ask.rounds * MAX_CALLS_PER_ROUND \in Nat
    BY <1>1, AskAssumption
  <2>. HIDE DEF messages, rounds, ask
  <2>. QED
    BY <1>2, <2>1, <2>2, <2>3, <2>4, AskAssumption
<1>5. Lookups(Append(messages, User)) = Lookups(messages)
  BY <1>3, LookupsOfQuestion
<1>6. after \in AskState /\ last \in AskState
  <2>1. [ask EXCEPT !.rounds = rounds] \in AskState
    BY <1>1, <1>2, AskFields
  <2>2. after \in AskState
    BY <1>3, <2>1, AskFields
  <2>3. Append(messages, User) \in Seq(Message)
    BY <1>3, MessageTypes, AppendProperties
  <2>. QED
    BY <2>2, <2>3, AskFields
<1>7. /\ after.requests = ask.requests /\ after.rounds = rounds /\ after.messages = messages
      /\ last.requests = ask.requests /\ last.rounds = rounds /\ last.messages = Append(messages, User)
  BY <1>1 DEF AskState
<1>8. asks' = [asks EXCEPT ![id] = IF MoreRounds(rounds) THEN Requesting(after, "chat")
                                   ELSE Requesting(last, "stream")]
  BY DEF ReplyCalls
<1>. HIDE DEF after, last, messages, rounds, ask
<1>9. CASE MoreRounds(rounds)
  <2>1. RoundsOf(Requesting(after, "chat"))
    BY <1>2, <1>4, <1>6, <1>7, <1>9, RequestingFields, AskAssumption DEF RoundsOf, Waiting, MoreRounds
  <2>. QED
    BY <1>8, <1>9, <2>1, RoundsOfOne
<1>10. CASE ~MoreRounds(rounds)
  <2>1. RoundsOf(Requesting(last, "stream"))
    <3>1. "stream" \in Waiting
      BY DEF Waiting
    <3>. DEFINE next == Requesting(last, "stream")
    <3>2. /\ next.pc = "stream" /\ next.requests = rounds + 1 /\ next.rounds = rounds
          /\ next.messages = Append(messages, User)
      BY <1>2, <1>6, <1>7, <3>1, RequestingFields
    <3>. HIDE DEF next
    <3>3. Cardinality(Lookups(next.messages)) <= next.rounds * MAX_CALLS_PER_ROUND
      BY <1>4, <1>5, <3>2
    <3>4. RoundsOf(next)
      BY <1>2, <3>2, <3>3, AskAssumption DEF RoundsOf
    <3>. QED
      BY <3>4 DEF next
  <2>. QED
    BY <1>8, <1>10, <2>1, RoundsOfOne
<1>. QED
  BY <1>9, <1>10

LEMMA RoundsOfPanel == ASSUME TypeOK, RoundsInv, Panel PROVE RoundsInv'
<1>0. ASSUME Send \/ SendUnconfigured
      PROVE  turnId' \in Ids
  BY <1>0, AskAssumption DEF Send, SendUnconfigured, TypeOK, Ids
<1>. DEFINE fresh == [Unused EXCEPT !.messages = Append(History, User)]
<1>1. Append(History, User) \in Seq(Message) /\ Lookups(Append(History, User)) = {}
  BY HistoryType, MessageTypes, AppendProperties, LookupsOfQuestion, NoLookupsYet
<1>2. /\ fresh \in AskState /\ fresh.requests = 0 /\ fresh.rounds = 0
      /\ fresh.messages = Append(History, User)
  BY <1>1, UnusedType, AskFields DEF Unused
<1>2a. 0 <= 0 * MAX_CALLS_PER_ROUND
  BY AskAssumption
<1>3. CASE Send
  <2>. HIDE DEF fresh
  <2>. DEFINE ask == Requesting(fresh, "chat")
  <2>1. asks' = [asks EXCEPT ![turnId'] = ask]
    BY <1>3 DEF Send, fresh
  <2>2. "chat" \in Waiting
    BY DEF Waiting
  <2>3. /\ ask.pc = "chat" /\ ask.requests = 1 /\ ask.rounds = 0
        /\ ask.messages = Append(History, User)
    BY <1>2, <2>2, RequestingFields
  <2>. HIDE DEF ask
  <2>4. Cardinality(Lookups(ask.messages)) <= ask.rounds * MAX_CALLS_PER_ROUND
    BY <1>1, <1>2a, <2>3, FS_EmptySet
  <2>5. RoundsOf(ask)
    BY <2>3, <2>4, AskAssumption DEF RoundsOf
  <2>. QED
    BY <1>0, <1>3, <2>1, <2>5, RoundsOfOne
<1>4. CASE SendUnconfigured
  <2>. DEFINE ask == [Unused EXCEPT !.pc = "ended", !.messages = Append(History, User)]
  <2>1. asks' = [asks EXCEPT ![turnId'] = ask]
    BY <1>4 DEF SendUnconfigured
  <2>2. /\ ask.pc = "ended" /\ ask.requests = 0 /\ ask.rounds = 0
        /\ ask.messages = Append(History, User)
    BY DEF Unused
  <2>. HIDE DEF ask
  <2>3. Cardinality(Lookups(ask.messages)) <= ask.rounds * MAX_CALLS_PER_ROUND
    BY <1>1, <1>2a, <2>2, FS_EmptySet
  <2>4. RoundsOf(ask)
    BY <2>2, <2>3, AskAssumption DEF RoundsOf
  <2>. QED
    BY <1>0, <1>4, <2>1, <2>4, RoundsOfOne
<1>5. ASSUME UNCHANGED asks PROVE RoundsInv'
  BY <1>5 DEF RoundsInv
<1>. QED
  BY <1>3, <1>4, <1>5, RoundsOfAbort DEF Panel, Stop, Clear, Close, Open, AbortInFlight

LEMMA RoundsOfStep ==
  ASSUME TypeOK, RoundsInv, NEW id \in Ids, Endpoint(id) \/ Client(id)
  PROVE  RoundsInv'
<1>0. asks[id] \in AskState
  BY DEF TypeOK
<1>1. ASSUME NEW shown, NEW error, Finish(id, shown, error), asks[id].pc \in Waiting
      PROVE  RoundsInv'
  BY <1>1, RoundsOfFinish DEF Outstanding
<1>2. CASE ReplyEmpty(id)
  <2>1. "stream" \in Waiting
    BY DEF Waiting
  <2>2. asks[id].requests \in Nat /\ asks[id].rounds \in Nat
    BY <1>0 DEF AskState
  <2>3. asks' = [asks EXCEPT ![id] = Requesting(asks[id], "stream")]
    BY <1>2 DEF ReplyEmpty
  <2>. DEFINE ask == Requesting(asks[id], "stream")
  <2>4. /\ ask.pc = "stream" /\ ask.requests = asks[id].requests + 1
        /\ ask.rounds = asks[id].rounds /\ ask.messages = asks[id].messages
    BY <1>0, <2>1, RequestingFields
  <2>. HIDE DEF ask
  <2>5. /\ asks[id].requests = asks[id].rounds + 1 /\ asks[id].rounds < MAX_TOOL_ROUNDS
        /\ Cardinality(Lookups(ask.messages)) <= ask.rounds * MAX_CALLS_PER_ROUND
    BY <1>2, <2>4 DEF ReplyEmpty, RoundsInv
  <2>6. RoundsOf(ask)
    BY <2>2, <2>4, <2>5, AskAssumption DEF RoundsOf
  <2>. QED
    BY <2>3, <2>6, RoundsOfOne DEF ask
<1>3. CASE ReplyStatus(id) \/ StreamContent(id) \/ (\E done \in BOOLEAN : StreamOther(id, done))
           \/ TimerFires(id)
  <2>1. /\ asks' = [asks EXCEPT ![id] = asks'[id]]
        /\ asks'[id].pc \in {asks[id].pc, "ended", "errorBody"}
        /\ asks'[id].requests = asks[id].requests /\ asks'[id].rounds = asks[id].rounds
        /\ asks'[id].messages = asks[id].messages
    <3>1. CASE ReplyStatus(id)
      BY <1>0, <3>1 DEF ReplyStatus, TypeOK, AskState
    <3>2. CASE StreamContent(id)
      BY <1>0, <3>2 DEF StreamContent, TypeOK, AskState
    <3>3. CASE \E done \in BOOLEAN : StreamOther(id, done)
      BY <1>0, <3>3 DEF StreamOther, TypeOK, AskState
    <3>4. CASE TimerFires(id)
      BY <1>0, <3>4 DEF TimerFires, TypeOK, AskState
    <3>. QED
      BY <1>3, <3>1, <3>2, <3>3, <3>4
  <2>2. asks[id].pc # "unused"
    BY <1>3 DEF ReplyStatus, StreamContent, StreamOther, TimerFires, Outstanding, Waiting
  <2>. QED
    BY <2>1, <2>2, RoundsKept
<1>. QED
  BY <1>1, <1>2, <1>3, RoundsOfCalls DEF Endpoint, Client, ReplyAnswers, ReplyFails,
    ErrorBodyEnds, StreamEnds, AbortSettles, Waiting

\* However the model replies, an ask sends at most MAX_TOOL_ROUNDS + 1 requests
\* and executes at most MAX_TOOL_ROUNDS * MAX_CALLS_PER_ROUND lookups
\* (conversation.ts, askModel).
THEOREM AskBounded == Spec => []Bounded
<1>1. Init => RoundsInv
  <2>1. Cardinality(Lookups(Unused.messages)) <= Unused.rounds * MAX_CALLS_PER_ROUND
    BY NoLookupsYet, FS_EmptySet, AskAssumption DEF Unused
  <2>2. RoundsOf(Unused)
    BY <2>1, AskAssumption DEF RoundsOf, Unused
  <2>. QED
    BY <2>2, RoundsOfAll DEF Init
<1>2. TypeOK /\ RoundsInv /\ [Next]_vars => RoundsInv'
  <2>1. ASSUME UNCHANGED vars, RoundsInv PROVE RoundsInv'
    BY <2>1 DEF vars, RoundsInv
  <2>. QED
    BY <2>1, RoundsOfPanel, RoundsOfStep DEF Next
<1>3. TypeOK /\ RoundsInv => Bounded
  <2>. SUFFICES ASSUME TypeOK, RoundsInv, NEW id \in Ids
                PROVE  Cardinality(Lookups(asks[id].messages)) <= MAX_TOOL_ROUNDS * MAX_CALLS_PER_ROUND
    BY DEF Bounded, RoundsInv
  <2>1. asks[id].messages \in Seq(Message) /\ asks[id].rounds \in Nat
    BY DEF TypeOK, AskState
  <2>2. Cardinality(Lookups(asks[id].messages)) \in Nat
    BY <2>1, LookupsType
  <2>3. /\ asks[id].rounds <= MAX_TOOL_ROUNDS
        /\ Cardinality(Lookups(asks[id].messages)) <= asks[id].rounds * MAX_CALLS_PER_ROUND
    BY DEF RoundsInv
  <2>4. \A a, b, c \in Nat : a <= b => a * c <= b * c
    OBVIOUS
  <2>5. asks[id].rounds * MAX_CALLS_PER_ROUND <= MAX_TOOL_ROUNDS * MAX_CALLS_PER_ROUND
    BY <2>1, <2>3, <2>4, AskAssumption
  <2>6. /\ asks[id].rounds * MAX_CALLS_PER_ROUND \in Nat
        /\ MAX_TOOL_ROUNDS * MAX_CALLS_PER_ROUND \in Nat
    BY <2>1, AskAssumption
  <2>. QED
    BY <2>2, <2>3, <2>5, <2>6
<1>. QED
  BY <1>1, <1>2, <1>3, AskTypeCorrect, PTL DEF Spec

(***************************************************************************)
(* What the endpoint is sent is a conversation                             *)
(***************************************************************************)
\* Calls and results belong together, whoever has the turn.
Paired(messages) ==
  /\ \A i \in DOMAIN messages : messages[i].role = "assistant" =>
       /\ i + messages[i].calls <= Len(messages)
       /\ \A j \in DOMAIN messages :
            j > i /\ j <= i + messages[i].calls => messages[j].role = "tool"
  /\ \A j \in DOMAIN messages : messages[j].role = "tool" =>
       \E i \in 1 .. j - 1 :
         messages[i].role = "assistant" /\ j <= i + messages[i].calls

LEMMA ConversationPaired == \A m : Conversation(m) => Paired(m)
BY DEF Conversation, Paired

\* Earlier turns are questions and answers without calls.
LEMMA HistoryPaired == Paired(History)
<1>. DEFINE n == 2 * Cardinality(Quotable)
<1>1. Len(History) \in Nat /\ DOMAIN History = 1 .. Len(History)
  BY HistoryType
<1>2. \A i \in DOMAIN History : History[i] = User \/ History[i] = Assistant(0)
  BY DEF History
<1>3. \A i \in DOMAIN History : History[i].calls = 0 /\ History[i].role # "tool"
  BY <1>2 DEF User, Assistant
<1>. QED
  BY <1>1, <1>3 DEF Paired

\* A question may follow anything that is paired.
LEMMA QuestionFollows ==
  ASSUME NEW m \in Seq(Message), Paired(m)
  PROVE  Conversation(Append(m, User))
<1>. DEFINE c == Append(m, User)
            k == Len(m)
<1>1. /\ c \in Seq(Message) /\ Len(c) = k + 1 /\ k \in Nat
      /\ DOMAIN m = 1 .. k /\ DOMAIN c = 1 .. (k + 1)
      /\ c[k + 1] = User /\ \A i \in 1 .. k : c[i] = m[i] /\ m[i] \in Message
  BY MessageTypes
<1>. HIDE DEF c, k
<1>2. c[Len(c)].role = "user" /\ c[Len(c)].calls = 0
  BY <1>1 DEF User
<1>3. ASSUME NEW i \in DOMAIN c, c[i].role = "assistant"
      PROVE  /\ i + c[i].calls <= Len(c)
             /\ \A j \in DOMAIN c : j > i /\ j <= i + c[i].calls => c[j].role = "tool"
  <2>1. i \in 1 .. k /\ c[i] = m[i] /\ i + m[i].calls <= k /\ m[i].calls \in Nat
    BY <1>1, <1>2, <1>3 DEF Paired, k, Message
  <2>2. \A j \in 1 .. k : j > i /\ j <= i + m[i].calls => c[j].role = "tool"
    BY <1>1, <1>3, <2>1 DEF Paired
  <2>. QED
    BY <1>1, <2>1, <2>2
<1>4. ASSUME NEW j \in DOMAIN c, c[j].role = "tool"
      PROVE  \E i \in 1 .. j - 1 : c[i].role = "assistant" /\ j <= i + c[i].calls
  <2>1. j \in 1 .. k /\ m[j].role = "tool"
    BY <1>1, <1>2, <1>4
  <2>2. PICK i \in 1 .. j - 1 : m[i].role = "assistant" /\ j <= i + m[i].calls
    BY <1>1, <2>1 DEF Paired
  <2>3. i \in 1 .. k
    BY <1>1, <2>1
  <2>. QED
    BY <1>1, <2>2, <2>3
<1>. QED
  BY <1>2, <1>3, <1>4 DEF Conversation, c

\* So may a round: one result for each call of the assistant message.
LEMMA RoundFollows ==
  ASSUME NEW m \in Seq(Message), Paired(m), NEW n \in Nat \ {0}
  PROVE  Conversation(m \o Lookup(n))
<1>. DEFINE l == Lookup(n)
            c == m \o l
            k == Len(m)
            s == Slice(n)
<1>1. s \in Nat \ {0} /\ k \in Nat
  BY AskAssumption DEF Slice
<1>2. l \in Seq(Message)
  BY LookupType
<1>3. Len(l) = s + 1 /\ l[1] = Assistant(s) /\ \A i \in 2 .. s + 1 : l[i] = Tool
  <2>1. <<Assistant(s)>> \in Seq(Message) /\ [i \in 1 .. s |-> Tool] \in Seq(Message)
    BY <1>1, MessageTypes
  <2>2. l = <<Assistant(s)>> \o [i \in 1 .. s |-> Tool]
    BY DEF Lookup
  <2>. HIDE DEF s, l
  <2>. QED
    BY <1>1, <2>1, <2>2
<1>. HIDE DEF s, l
<1>4. /\ c \in Seq(Message) /\ Len(c) = k + s + 1
      /\ DOMAIN m = 1 .. k /\ DOMAIN c = 1 .. (k + s + 1)
      /\ \A i \in 1 .. k : c[i] = m[i] /\ m[i] \in Message
      /\ c[k + 1] = Assistant(s)
      /\ \A i \in (k + 2) .. (k + s + 1) : c[i] = Tool
  <2>1. /\ c \in Seq(Message) /\ Len(c) = k + Len(l)
        /\ \A i \in 1 .. k : c[i] = m[i] /\ m[i] \in Message
        /\ \A i \in (k + 1) .. (k + Len(l)) : c[i] = l[i - k]
        /\ DOMAIN m = 1 .. k /\ DOMAIN c = 1 .. Len(c)
    BY <1>1, <1>2
  <2>. HIDE DEF c, k
  <2>2. c[k + 1] = l[1]
    BY <1>1, <1>3, <2>1
  <2>3. ASSUME NEW i \in (k + 2) .. (k + s + 1)
        PROVE  c[i] = Tool
    <3>1. i - k \in 2 .. s + 1 /\ i \in (k + 1) .. (k + Len(l))
      BY <1>1, <1>3
    <3>. QED
      BY <1>3, <2>1, <3>1
  <2>. QED
    BY <1>1, <1>3, <2>1, <2>2, <2>3
<1>5. /\ Assistant(s).role = "assistant" /\ Assistant(s).calls = s
      /\ Tool.role = "tool" /\ Tool.calls = 0
  BY DEF Assistant, Tool
<1>6. /\ \A i \in 1 .. k : m[i].role = "assistant" =>
           /\ i + m[i].calls <= k /\ m[i].calls \in Nat
           /\ \A j \in 1 .. k : j > i /\ j <= i + m[i].calls => m[j].role = "tool"
      /\ \A j \in 1 .. k : m[j].role = "tool" =>
           \E i \in 1 .. j - 1 : m[i].role = "assistant" /\ j <= i + m[i].calls
  BY <1>4 DEF Paired, Message
<1>. HIDE DEF c, k
<1>7. c[Len(c)].role = "tool"
  <2>1. k + s + 1 \in (k + 2) .. (k + s + 1)
    BY <1>1
  <2>. QED
    BY <1>4, <1>5, <2>1
<1>8. ASSUME NEW i \in DOMAIN c, c[i].role = "assistant"
      PROVE  /\ i + c[i].calls <= Len(c)
             /\ \A j \in DOMAIN c : j > i /\ j <= i + c[i].calls => c[j].role = "tool"
  <2>1. CASE i \in 1 .. k
    BY <1>1, <1>4, <1>6, <1>8, <2>1
  <2>2. CASE i = k + 1
    BY <1>1, <1>4, <1>5, <2>2
  <2>3. CASE i \in (k + 2) .. (k + s + 1)
    BY <1>4, <1>5, <1>8, <2>3
  <2>. QED
    BY <1>1, <1>4, <2>1, <2>2, <2>3
<1>9. ASSUME NEW j \in DOMAIN c, c[j].role = "tool"
      PROVE  \E i \in 1 .. j - 1 : c[i].role = "assistant" /\ j <= i + c[i].calls
  <2>1. CASE j \in 1 .. k
    <3>1. PICK i \in 1 .. j - 1 : m[i].role = "assistant" /\ j <= i + m[i].calls
      BY <1>4, <1>6, <1>9, <2>1
    <3>2. i \in 1 .. k
      BY <1>1, <2>1
    <3>. QED
      BY <1>4, <3>1, <3>2
  <2>2. CASE j = k + 1
    BY <1>4, <1>5, <1>9, <2>2
  <2>3. CASE j \in (k + 2) .. (k + s + 1)
    <3>1. k + 1 \in 1 .. j - 1 /\ j <= (k + 1) + s
      BY <1>1, <2>3
    <3>. QED
      BY <1>4, <1>5, <3>1
  <2>. QED
    BY <1>1, <1>4, <2>1, <2>2, <2>3
<1>. QED
  BY <1>7, <1>8, <1>9 DEF Conversation, c, l

\* Only the ask whose messages change has to be looked at.
LEMMA WellFormedOne ==
  ASSUME TypeOK, WellFormed, NEW id \in Ids, NEW ask, asks' = [asks EXCEPT ![id] = ask],
         Conversation(ask.messages)
  PROVE  WellFormed'
BY DEF TypeOK, WellFormed

\* An ask that is sent nothing new.
LEMMA WellFormedKept ==
  ASSUME TypeOK, WellFormed, NEW id \in Ids, NEW ask, asks' = [asks EXCEPT ![id] = ask],
         ask.messages = asks[id].messages
  PROVE  WellFormed'
BY WellFormedOne DEF WellFormed

\* A new question is asked after the turns that were answered.
LEMMA WellFormedPanel == ASSUME TypeOK, WellFormed, Panel PROVE WellFormed'
<1>1. Conversation(Append(History, User))
  BY HistoryType, HistoryPaired, QuestionFollows
<1>2. ASSUME Send \/ SendUnconfigured
      PROVE  turnId' \in Ids
  BY <1>2, AskAssumption DEF Send, SendUnconfigured, TypeOK, Ids
<1>3. CASE Send
  <2>. DEFINE fresh == [Unused EXCEPT !.messages = Append(History, User)]
  <2>1. fresh \in AskState /\ fresh.messages = Append(History, User)
    BY HistoryType, MessageTypes, AppendProperties, UnusedType, AskFields DEF Unused
  <2>2. "chat" \in Waiting
    BY DEF Waiting
  <2>3. asks' = [asks EXCEPT ![turnId'] = Requesting(fresh, "chat")]
    BY <1>3 DEF Send
  <2>. HIDE DEF fresh
  <2>4. Requesting(fresh, "chat").messages = Append(History, User)
    BY <2>1, <2>2, RequestingFields
  <2>. QED
    BY <1>1, <1>2, <1>3, <2>3, <2>4, WellFormedOne
<1>4. CASE SendUnconfigured
  <2>. DEFINE ask == [Unused EXCEPT !.pc = "ended", !.messages = Append(History, User)]
  <2>1. asks' = [asks EXCEPT ![turnId'] = ask] /\ ask.messages = Append(History, User)
    BY <1>4 DEF SendUnconfigured, Unused
  <2>. HIDE DEF ask
  <2>. QED
    BY <1>1, <1>2, <1>4, <2>1, WellFormedOne
<1>5. ASSUME abortRef # NoAsk, asks' = [asks EXCEPT ![abortRef].aborted = TRUE]
      PROVE  WellFormed'
  <2>1. abortRef \in Ids
    BY <1>5, AskAssumption DEF TypeOK, NoAsk, Ids
  <2>2. [asks[abortRef] EXCEPT !.aborted = TRUE].messages = asks[abortRef].messages
    BY <2>1 DEF TypeOK, AskState
  <2>. QED
    BY <1>5, <2>1, <2>2, WellFormedKept
<1>6. ASSUME UNCHANGED asks PROVE WellFormed'
  BY <1>6 DEF WellFormed
<1>. QED
  BY <1>3, <1>4, <1>5, <1>6 DEF Panel, Stop, Clear, Close, Open, AbortInFlight

\* A reply with calls adds a round and, after the last one, the request to
\* answer; nothing else changes the messages.
LEMMA WellFormedStep ==
  ASSUME TypeOK, WellFormed, NEW id \in Ids, Endpoint(id) \/ Client(id)
  PROVE  WellFormed'
<1>. DEFINE ask == asks[id]
<1>1. ask \in AskState /\ ask.messages \in Seq(Message) /\ Paired(ask.messages)
  BY ConversationPaired DEF TypeOK, AskState, WellFormed
<1>2. ASSUME NEW shown, NEW error, Finish(id, shown, error)
      PROVE  WellFormed'
  BY <1>1, <1>2, WellFormedKept DEF Finish, AskState
<1>3. CASE ReplyEmpty(id)
  <2>1. "stream" \in Waiting
    BY DEF Waiting
  <2>2. Requesting(ask, "stream").messages = ask.messages
    BY <1>1, <2>1, RequestingFields
  <2>. QED
    BY <1>3, <2>2, WellFormedKept DEF ReplyEmpty
<1>4. CASE ReplyStatus(id) \/ StreamContent(id) \/ (\E done \in BOOLEAN : StreamOther(id, done))
           \/ TimerFires(id)
  <2>1. ASSUME NEW done \in BOOLEAN
        PROVE  /\ [ask EXCEPT !.pc = "errorBody"].messages = ask.messages
               /\ [ask EXCEPT !.timedOut = TRUE].messages = ask.messages
               /\ [ask EXCEPT !.chunks = ask.chunks + 1, !.sawContent = TRUE].messages = ask.messages
               /\ [ask EXCEPT !.chunks = ask.chunks + 1, !.sawDone = ask.sawDone \/ done].messages
                    = ask.messages
    BY <1>1 DEF AskState
  <2>2. CASE ReplyStatus(id)
    BY <2>1, <2>2, WellFormedKept DEF ReplyStatus
  <2>3. CASE StreamContent(id)
    BY <2>1, <2>3, WellFormedKept DEF StreamContent
  <2>4. CASE \E done \in BOOLEAN : StreamOther(id, done)
    BY <2>1, <2>4, WellFormedKept DEF StreamOther
  <2>5. CASE TimerFires(id)
    <3>1. asks' = [asks EXCEPT ![id] = [ask EXCEPT !.timedOut = TRUE]]
      BY <2>5 DEF TimerFires
    <3>. QED
      BY <2>1, <3>1, WellFormedKept
  <2>. QED
    BY <1>4, <2>2, <2>3, <2>4, <2>5
<1>5. ASSUME NEW n \in CallCounts, ReplyCalls(id, n)
      PROVE  WellFormed'
  <2>. DEFINE rounds == ask.rounds + 1
              messages == ask.messages \o Lookup(n)
              after == [ask EXCEPT !.rounds = rounds, !.messages = messages]
              last == [after EXCEPT !.messages = Append(messages, User)]
  <2>1. n \in Nat \ {0} /\ rounds \in Nat
    BY <1>1, AskAssumption DEF AskState
  <2>2. Conversation(messages) /\ messages \in Seq(Message)
    BY <1>1, <2>1, RoundFollows, LookupType, ConcatProperties
  <2>3. Conversation(Append(messages, User)) /\ Append(messages, User) \in Seq(Message)
    BY <2>2, ConversationPaired, QuestionFollows, MessageTypes, AppendProperties
  <2>4. [ask EXCEPT !.rounds = rounds] \in AskState
    BY <1>1, <2>1, AskFields
  <2>5. after \in AskState /\ last \in AskState
    BY <2>2, <2>3, <2>4, AskFields
  <2>6. after.messages = messages /\ last.messages = Append(messages, User)
    BY <1>1 DEF AskState
  <2>7. asks' = [asks EXCEPT ![id] = IF MoreRounds(rounds) THEN Requesting(after, "chat")
                                     ELSE Requesting(last, "stream")]
    BY <1>5 DEF ReplyCalls
  <2>8. "chat" \in Waiting /\ "stream" \in Waiting
    BY DEF Waiting
  <2>. HIDE DEF after, last, messages, rounds, ask
  <2>9. /\ Requesting(after, "chat").messages = messages
        /\ Requesting(last, "stream").messages = Append(messages, User)
    BY <2>5, <2>6, <2>8, RequestingFields
  <2>. QED
    BY <2>2, <2>3, <2>7, <2>9, WellFormedOne
<1>. QED
  BY <1>2, <1>3, <1>4, <1>5 DEF Endpoint, Client, ReplyAnswers, ReplyFails,
    ErrorBodyEnds, StreamEnds, AbortSettles

\* What the endpoint is sent is a conversation, however many calls a reply
\* asks for, however many rounds follow and whatever came before: each call
\* has its result right after it, and no result is without its call.
THEOREM AskWellFormed == Spec => []WellFormed
<1>1. Init => WellFormed
  BY DEF Init, Unused, WellFormed, Conversation
<1>2. TypeOK /\ WellFormed /\ [Next]_vars => WellFormed'
  <2>1. ASSUME UNCHANGED vars, WellFormed PROVE WellFormed'
    BY <2>1 DEF vars, WellFormed
  <2>. QED
    BY <2>1, WellFormedPanel, WellFormedStep DEF Next
<1>. QED
  BY <1>1, <1>2, AskTypeCorrect, PTL DEF Spec
==============================================================================
