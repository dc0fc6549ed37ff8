--------------------------------- MODULE Ask ---------------------------------
(***************************************************************************)
(* Asking the language model: the turns of AskPanel.tsx, the ask loop of   *)
(* llm/conversation.ts that each turn runs, and the requests of            *)
(* llm/client.ts with their timer and their two ways of being aborted.     *)
(*                                                                         *)
(* An ask is a generator: between two awaits on the network it runs inside *)
(* one task, so everything up to the next request is one action.  An ask   *)
(* goes on until its request settles, whatever became of its turn on the   *)
(* panel.  What the endpoint answers, and when, is external.               *)
(***************************************************************************)
EXTENDS Naturals, Sequences, FiniteSets

CONSTANTS
  MaxAsks,              \* bound: turns ever started
  MAX_TOOL_ROUNDS,
  MAX_CALLS_PER_ROUND,
  CallCounts,           \* how many tool calls a reply may ask for
  MaxChunks,            \* bound: events in one streamed answer
  NoTurn                \* no turn of that id on the panel

Ids == 1 .. MaxAsks
NoAsk == 0  \* abortRef.current is null

\* A message sent to the endpoint; calls is the length of its tool_calls.
Message == [role : {"user", "assistant", "tool"}, calls : Nat]
User == [role |-> "user", calls |-> 0]
Assistant(n) == [role |-> "assistant", calls |-> n]
Tool == [role |-> "tool", calls |-> 0]

Failure == {"http", "network", "protocol", "timeout", "config"}
\* answer counts the deltas it was put together from.
Turn == [running : BOOLEAN, answer : Nat, error : Failure \cup {"no"}]
Waiting == {"chat", "stream", "errorBody"}
AskState ==
  [pc : {"unused", "ended"} \cup Waiting,
   messages : Seq(Message), rounds : Nat, requests : Nat, chunks : Nat,
   sawContent : BOOLEAN, sawDone : BOOLEAN,
   aborted : BOOLEAN,   \* the panel's controller
   timedOut : BOOLEAN]  \* the timer of the outstanding request

ASSUME AskAssumption ==
  /\ MaxAsks \in Nat /\ MaxChunks \in Nat
  /\ MAX_TOOL_ROUNDS \in Nat \ {0} /\ MAX_CALLS_PER_ROUND \in Nat \ {0}
  /\ CallCounts \subseteq Nat \ {0}
  /\ NoTurn \notin Turn

VARIABLES
  open,       \* the panel is open
  turnId,     \* turnIdRef
  turns,      \* the turns on the panel: id -> Turn, or NoTurn
  asks,       \* every ask loop, those of cleared turns included
  abortRef    \* the ask whose controller Stop and Clear abort

vars == <<open, turnId, turns, asks, abortRef>>

Unused ==
  [pc |-> "unused", messages |-> <<>>, rounds |-> 0, requests |-> 0, chunks |-> 0,
   sawContent |-> FALSE, sawDone |-> FALSE, aborted |-> FALSE, timedOut |-> FALSE]

(***************************************************************************)
(* Helpers                                                                 *)
(***************************************************************************)
OnPanel(id) == turns[id] # NoTurn
Running == \E id \in Ids : OnPanel(id) /\ turns[id].running
Outstanding(id) == asks[id].pc \in Waiting
Aborted(id) == asks[id].aborted \/ asks[id].timedOut

\* Prior turns, without those that failed, run or said nothing.
Quotable == {id \in Ids : OnPanel(id) /\ turns[id].error = "no" /\ turns[id].answer > 0}
History == [i \in 1 .. 2 * Cardinality(Quotable) |-> IF i % 2 = 1 THEN User ELSE Assistant(0)]

\* The next request of an ask, with a controller and a timer of its own.
Requesting(ask, pc) ==
  [ask EXCEPT !.pc = pc, !.requests = ask.requests + 1, !.timedOut = FALSE]

\* patch: a turn that was cleared is not there to be patched.
Patched(id) == IF OnPanel(id) THEN [turns EXCEPT ![id].answer = @ + 1] ELSE turns

\* Mutant: whatever the reference holds is dropped.
FinishUnguarded(id, shown, error) ==
  /\ turns' = IF OnPanel(id)
              THEN [shown EXCEPT ![id].running = FALSE, ![id].error = error]
              ELSE shown
  /\ asks' = [asks EXCEPT ![id].pc = "ended"]
  /\ abortRef' = NoAsk

\* The ask returns and the `finally` of send runs; `shown` are the turns with
\* the last delta.
Finish(id, shown, error) ==
  /\ turns' = IF OnPanel(id)
              THEN [shown EXCEPT ![id].running = FALSE, ![id].error = error]
              ELSE shown
  /\ asks' = [asks EXCEPT ![id].pc = "ended"]
  /\ abortRef' = IF abortRef = id THEN NoAsk ELSE abortRef

(***************************************************************************)
(* The panel                                                               *)
(***************************************************************************)
Send ==
  /\ open /\ ~Running
  /\ turnId < MaxAsks
  /\ turnId' = turnId + 1
  /\ turns' = [turns EXCEPT ![turnId'] = [running |-> TRUE, answer |-> 0, error |-> "no"]]
  /\ asks' = [asks EXCEPT ![turnId'] =
       Requesting([Unused EXCEPT !.messages = Append(History, User)], "chat")]
  /\ abortRef' = turnId'
  /\ UNCHANGED open

\* assertConfigured: no model is selected, nothing is sent.
SendUnconfigured ==
  /\ open /\ ~Running
  /\ turnId < MaxAsks
  /\ turnId' = turnId + 1
  /\ turns' = [turns EXCEPT ![turnId'] =
       [running |-> FALSE, answer |-> 0, error |-> "config"]]
  /\ asks' = [asks EXCEPT ![turnId'] =
       [Unused EXCEPT !.pc = "ended", !.messages = Append(History, User)]]
  /\ abortRef' = NoAsk
  /\ UNCHANGED open

\* Mutant: the turn is over as soon as Stop is pressed.
StopAtOnce ==
  /\ open /\ Running
  /\ abortRef # NoAsk
  /\ asks' = [asks EXCEPT ![abortRef].aborted = TRUE]
  /\ turns' = [turns EXCEPT ![abortRef].running = FALSE]
  /\ UNCHANGED <<open, turnId, abortRef>>

Stop ==
  /\ open /\ Running
  /\ abortRef # NoAsk
  /\ asks' = [asks EXCEPT ![abortRef].aborted = TRUE]
  /\ UNCHANGED <<open, turnId, turns, abortRef>>

\* Mutant: the turns go, the request stays.
AbortNothing == UNCHANGED asks /\ abortRef' = NoAsk
AbortInFlight ==
  /\ asks' = IF abortRef = NoAsk THEN asks ELSE [asks EXCEPT ![abortRef].aborted = TRUE]
  /\ abortRef' = NoAsk

Clear ==
  /\ open /\ \E id \in Ids : OnPanel(id)
  /\ AbortInFlight
  /\ turns' = [id \in Ids |-> NoTurn]
  /\ UNCHANGED <<open, turnId>>

\* Closing hides the panel and aborts; the turns stay.
Close ==
  /\ open
  /\ open' = FALSE
  /\ AbortInFlight
  /\ UNCHANGED <<turnId, turns>>

Open ==
  /\ ~open
  /\ open' = TRUE
  /\ UNCHANGED <<turnId, turns, asks, abortRef>>

(***************************************************************************)
(* Tool rounds: chat, without streaming                                    *)
(***************************************************************************)
Slice(n) == IF n <= MAX_CALLS_PER_ROUND THEN n ELSE MAX_CALLS_PER_ROUND

\* Mutant: the assistant message repeats every call, only some are executed.
LookupUnsliced(n) == <<Assistant(n)>> \o [i \in 1 .. Slice(n) |-> Tool]
\* The assistant message and the tool results a reply with n calls leads to.
Lookup(n) == <<Assistant(Slice(n))>> \o [i \in 1 .. Slice(n) |-> Tool]

\* Mutant: one round too many.
MoreRoundsLate(rounds) == rounds <= MAX_TOOL_ROUNDS
MoreRounds(rounds) == rounds < MAX_TOOL_ROUNDS

ReplyCalls(id, n) ==
  /\ asks[id].pc = "chat" /\ ~Aborted(id)
  /\ LET rounds == asks[id].rounds + 1
         messages == asks[id].messages \o Lookup(n)
         after == [asks[id] EXCEPT !.rounds = rounds, !.messages = messages]
     IN  asks' = [asks EXCEPT ![id] =
           IF MoreRounds(rounds) THEN Requesting(after, "chat")
           ELSE Requesting([after EXCEPT !.messages = Append(messages, User)], "stream")]
  /\ UNCHANGED <<open, turnId, turns, abortRef>>

\* The model answered without a lookup.
ReplyAnswers(id) ==
  /\ asks[id].pc = "chat" /\ ~Aborted(id)
  /\ Finish(id, Patched(id), "no")
  /\ UNCHANGED <<open, turnId>>

\* Neither calls nor text: on to the streaming turn.
ReplyEmpty(id) ==
  /\ asks[id].pc = "chat" /\ ~Aborted(id)
  /\ asks' = [asks EXCEPT ![id] = Requesting(@, "stream")]
  /\ UNCHANGED <<open, turnId, turns, abortRef>>

\* No connection, a broken one, no JSON ("network"); no choices, no body, an
\* error object within the stream ("protocol").
ReplyFails(id, error) ==
  /\ asks[id].pc \in {"chat", "stream"} /\ ~Aborted(id)
  /\ Finish(id, turns, error)
  /\ UNCHANGED <<open, turnId>>

\* An HTTP error status: throwForStatus reads the body, and an abort while it
\* does ends the reading but not the throw.
ReplyStatus(id) ==
  /\ asks[id].pc \in {"chat", "stream"} /\ ~Aborted(id)
  /\ asks[id].chunks = 0
  /\ asks' = [asks EXCEPT ![id].pc = "errorBody"]
  /\ UNCHANGED <<open, turnId, turns, abortRef>>

ErrorBodyEnds(id) ==
  /\ asks[id].pc = "errorBody"
  /\ Finish(id, turns, "http")
  /\ UNCHANGED <<open, turnId>>

(***************************************************************************)
(* The streamed answer                                                     *)
(***************************************************************************)
StreamContent(id) ==
  /\ asks[id].pc = "stream" /\ ~Aborted(id)
  /\ asks[id].chunks < MaxChunks
  /\ asks' = [asks EXCEPT ![id] =
       [asks[id] EXCEPT !.chunks = asks[id].chunks + 1, !.sawContent = TRUE]]
  /\ turns' = Patched(id)
  /\ UNCHANGED <<open, turnId, abortRef>>

\* Reasoning, a tool-call delta, a malformed frame or the completion marker.
StreamOther(id, done) ==
  /\ asks[id].pc = "stream" /\ ~Aborted(id)
  /\ asks[id].chunks < MaxChunks
  /\ asks' = [asks EXCEPT ![id] =
       [asks[id] EXCEPT !.chunks = asks[id].chunks + 1, !.sawDone = asks[id].sawDone \/ done]]
  /\ UNCHANGED <<open, turnId, turns, abortRef>>

\* The body ends: an error without completion marker or without content.
StreamEnds(id) ==
  /\ asks[id].pc = "stream" /\ ~Aborted(id)
  /\ Finish(id, turns, IF asks[id].sawDone /\ asks[id].sawContent THEN "no" ELSE "protocol")
  /\ UNCHANGED <<open, turnId>>

(***************************************************************************)
(* Timer and abort                                                         *)
(***************************************************************************)
\* Mutant: the streaming request has no timer.
TimerFiresChat(id) ==
  /\ asks[id].pc \in {"chat", "errorBody"} /\ ~Aborted(id)
  /\ asks' = [asks EXCEPT ![id].timedOut = TRUE]
  /\ UNCHANGED <<open, turnId, turns, abortRef>>

TimerFires(id) ==
  /\ Outstanding(id) /\ ~Aborted(id)
  /\ asks' = [asks EXCEPT ![id].timedOut = TRUE]
  /\ UNCHANGED <<open, turnId, turns, abortRef>>

\* Mutant: a cancelled ask ends with an error like any other.
AbortSettlesLoudly(id) ==
  /\ asks[id].pc \in {"chat", "stream"} /\ Aborted(id)
  /\ Finish(id, turns, IF asks[id].aborted THEN "aborted" ELSE "timeout")
  /\ UNCHANGED <<open, turnId>>

\* The fetch or the body rejects.  classifyAbort: cancelled if the panel
\* aborted, even when the timer was first; the ask ends without an error then.
AbortSettles(id) ==
  /\ asks[id].pc \in {"chat", "stream"} /\ Aborted(id)
  /\ Finish(id, turns, IF asks[id].aborted THEN "no" ELSE "timeout")
  /\ UNCHANGED <<open, turnId>>

(***************************************************************************)
(* Specification                                                           *)
(***************************************************************************)
Init ==
  /\ open = FALSE
  /\ turnId = 0
  /\ turns = [id \in Ids |-> NoTurn]
  /\ asks = [id \in Ids |-> Unused]
  /\ abortRef = NoAsk

Panel == Send \/ SendUnconfigured \/ Stop \/ Clear \/ Close \/ Open

Endpoint(id) ==
  \/ \E n \in CallCounts : ReplyCalls(id, n)
  \/ ReplyAnswers(id) \/ ReplyEmpty(id) \/ ReplyStatus(id)
  \/ \E error \in {"network", "protocol"} : ReplyFails(id, error)
  \/ ErrorBodyEnds(id)
  \/ StreamContent(id) \/ StreamEnds(id)
  \/ \E done \in BOOLEAN : StreamOther(id, done)

Client(id) ==
  \/ TimerFires(id) \/ AbortSettles(id)
  \/ Aborted(id) /\ ErrorBodyEnds(id)

Next == Panel \/ \E id \in Ids : Endpoint(id) \/ Client(id)

Spec == Init /\ [][Next]_vars

\* A timer fires in the end and an aborted request settles; the endpoint may
\* stay silent for ever.
Fairness == \A id \in Ids : WF_vars(Client(id))
FairSpec == Spec /\ Fairness

(***************************************************************************)
(* Properties                                                              *)
(***************************************************************************)
\* Types; an ask loop exists for the turns that were started, no others.
TypeOK ==
  /\ open \in BOOLEAN
  /\ turnId \in 0 .. MaxAsks
  /\ turns \in [Ids -> Turn \cup {NoTurn}]
  /\ asks \in [Ids -> AskState]
  /\ abortRef \in 0 .. turnId
  /\ \A id \in Ids : asks[id].pc = "unused" <=> id > turnId

\* A request nobody has cancelled.
Wanted(id) == Outstanding(id) /\ ~asks[id].aborted

\* However turns are stopped and cleared, the panel closed and opened and a
\* new question sent before the old request has settled: at most one request
\* that was not cancelled is at the endpoint, and it is a running turn's.
OneWanted ==
  \A a \in Ids : Wanted(a) =>
    /\ OnPanel(a) /\ turns[a].running
    /\ \A b \in Ids : Wanted(b) => a = b

\* While a turn runs, Stop cancels it, or it was cancelled already: no late
\* end of an earlier ask takes the controller of a later one away.
StopReaches ==
  \A id \in Ids : OnPanel(id) /\ turns[id].running => abortRef = id \/ asks[id].aborted

\* "Bounded so a confused model cannot loop indefinitely against the GPU":
\* however it replies, an ask sends at most one request more than there are
\* tool rounds and executes a bounded number of lookups.
Lookups(messages) == {i \in DOMAIN messages : messages[i] = Tool}
Bounded ==
  \A id \in Ids :
    /\ asks[id].requests <= MAX_TOOL_ROUNDS + 1
    /\ Cardinality(Lookups(asks[id].messages)) <= MAX_TOOL_ROUNDS * MAX_CALLS_PER_ROUND

\* What the endpoint is sent is a conversation: each tool call has its result
\* right after it, no result is without its call, and the model has the turn.
Conversation(messages) ==
  /\ messages # <<>> => messages[Len(messages)].role \in {"user", "tool"}
  /\ \A i \in DOMAIN messages : messages[i].role = "assistant" =>
       /\ i + messages[i].calls <= Len(messages)
       /\ \A j \in DOMAIN messages :
            j > i /\ j <= i + messages[i].calls => messages[j].role = "tool"
  /\ \A j \in DOMAIN messages : messages[j].role = "tool" =>
       \E i \in 1 .. j - 1 :
         messages[i].role = "assistant" /\ j <= i + messages[i].calls
WellFormed == \A id \in Ids : Conversation(asks[id].messages)

\* A turn that has ended stays as it is until it is cleared: nothing a
\* cancelled or timed-out request still delivers changes it.
EndedTurnsStay ==
  [][\A id \in Ids : OnPanel(id) /\ ~turns[id].running =>
       turns'[id] = turns[id] \/ turns'[id] = NoTurn]_vars

\* Every turn ends, even if the endpoint never answers: the Ask button
\* comes back.
TurnsEnd ==
  \A id \in Ids :
    (OnPanel(id) /\ turns[id].running) ~> ~(OnPanel(id) /\ turns[id].running)

(***************************************************************************)
(* Inductive invariants                                                    *)
(***************************************************************************)
\* What makes OneWanted and StopReaches inductive: a turn on the panel runs as
\* long as its ask waits for the endpoint, and the reference holds the
\* controller of the only ask that may still be wanted.
PanelInv ==
  /\ \A id \in Ids : OnPanel(id) => id <= turnId /\ (turns[id].running <=> Outstanding(id))
  /\ \A id \in Ids : Wanted(id) => OnPanel(id) /\ abortRef = id

\* What makes Bounded inductive: the rounds count the requests and, as many at
\* a time as a round may execute, the lookups.
RoundsInv ==
  \A id \in Ids :
    /\ asks[id].pc = "unused" => asks[id] = Unused
    /\ asks[id].pc = "chat" =>
         asks[id].requests = asks[id].rounds + 1 /\ asks[id].rounds < MAX_TOOL_ROUNDS
    /\ asks[id].requests <= MAX_TOOL_ROUNDS + 1
    /\ asks[id].rounds <= MAX_TOOL_ROUNDS
    /\ Cardinality(Lookups(asks[id].messages)) <= asks[id].rounds * MAX_CALLS_PER_ROUND
==============================================================================
