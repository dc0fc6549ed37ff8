------------------------------ MODULE AppGraph ------------------------------
(***************************************************************************)
(* The graphs drawn from the messages: that of the applications            *)
(* (utils/buildAppGraph.ts), that of the files of one of them              *)
(* (utils/buildGraph.ts), and the flows the assistant is told              *)
(* (crossAppEdges, llm/tools.ts).                                          *)
(*                                                                         *)
(* A view is a function from the applications that have an analysis to     *)
(* their messages, a set of records as in Messages.  Positions on screen,  *)
(* labels and which of two opposite arrows is kept are left out: a drawn   *)
(* edge has the arrows it stands for.                                      *)
(***************************************************************************)
EXTENDS Messages, FiniteSets

Roles(m) == {m.roles[f] : f \in DOMAIN m.roles}
MsgProduces(m) == Roles(m) \cap {"producer", "both"} # {}
MsgConsumes(m) == Roles(m) \cap {"consumer", "both"} # {}

NamesIn(messages) == {m.name : m \in messages}
Seen(view) == UNION {NamesIn(view[a]) : a \in DOMAIN view}

\* The applications that have the message, by what they do with it.
ProducersOf(n, view) == {a \in DOMAIN view : \E m \in view[a] : m.name = n /\ MsgProduces(m)}
ConsumersOf(n, view) == {a \in DOMAIN view : \E m \in view[a] : m.name = n /\ MsgConsumes(m)}
Confident(n, view) == \E a \in DOMAIN view : \E m \in view[a] : m.name = n /\ m.confident

(***************************************************************************)
(* Edges between applications                                              *)
(***************************************************************************)
\* Mutant: every producer to every consumer, whatever else handles the message.
DirectRoutes(n, view) ==
  LET from == ProducersOf(n, view) \ ConsumersOf(n, view)
      to == ConsumersOf(n, view) \ ProducersOf(n, view)
  IN  from \X to

\* An application that both produces and consumes a message passes it on, and
\* no edge leads around it.
Routes(n, view) ==
  LET producers == ProducersOf(n, view)
      consumers == ConsumersOf(n, view)
      transit == producers \cap consumers
  IN  IF transit = {} THEN producers \X consumers
      ELSE ((producers \ consumers) \X transit) \cup (transit \X (consumers \ producers))

Arrows(view) == UNION {Routes(n, view) : n \in Seen(view)}
Carried(arrow, view) == {n \in Seen(view) : arrow \in Routes(n, view)}
Sure(arrow, view) == \E n \in Carried(arrow, view) : Confident(n, view)

Reverse2(arrow) == <<arrow[2], arrow[1]>>

\* Two arrows that are each other's opposite become one edge.
DrawnPair(arrow, arrows) == {arrow, Reverse2(arrow)} \cap arrows

\* Mutant: two arrows are enough.
PairDirection(pair, sure) ==
  IF Cardinality(pair) = 2 THEN "bidirectional" ELSE IF sure THEN "unidirectional" ELSE "uncertain"

\* A pair that is not confident stays an uncertain edge one way.
EdgeDirection(pair, sure) ==
  IF ~sure THEN "uncertain" ELSE IF Cardinality(pair) = 2 THEN "bidirectional" ELSE "unidirectional"

buildAppGraph(view) ==
  LET arrows == Arrows(view)
      Edge(pair) ==
        LET sure == \E arrow \in pair : Sure(arrow, view)
        IN  [arrows |-> pair, messages |-> UNION {Carried(arrow, view) : arrow \in pair},
             direction |-> EdgeDirection(pair, sure)]
  IN  {Edge(DrawnPair(arrow, arrows)) : arrow \in arrows}

\* The messages with only one side among the applications are marked in every
\* application that has them.
AppMarks(view) ==
  {n \in Seen(view) : (ProducersOf(n, view) = {}) # (ConsumersOf(n, view) = {})}

(***************************************************************************)
(* Edges between the files of an application                               *)
(***************************************************************************)
FileProducers(m) == {f \in DOMAIN m.roles : m.roles[f] \in {"producer", "both"}}
FileConsumers(m) == {f \in DOMAIN m.roles : m.roles[f] \in {"consumer", "both"}}
FileRoutes(m) == {r \in FileProducers(m) \X FileConsumers(m) : r[1] # r[2]}

\* An edge is as sure as the message that was met first, so the directions it
\* may be drawn with depend on the order of the messages.
FirstSure(arrow, messages) == {m.confident : m \in {m \in messages : arrow \in FileRoutes(m)}}

buildGraph(messages) ==
  LET arrows == UNION {FileRoutes(m) : m \in messages}
      Sureness(pair) == {c \in BOOLEAN : \E s \in [pair -> BOOLEAN] :
                           (\A r \in pair : s[r] \in FirstSure(r, messages)) /\ c = \E r \in pair : s[r]}
      Edge(pair) ==
        [arrows |-> pair, messages |-> {m.name : m \in {m \in messages : FileRoutes(m) \cap pair # {}}},
         directions |-> {EdgeDirection(pair, c) : c \in Sureness(pair)}]
  IN  {Edge(DrawnPair(arrow, arrows)) : arrow \in arrows}

OneSided(m) == (FileProducers(m) = {}) # (FileConsumers(m) = {})
FileMarks(messages) == {m.name : m \in {m \in messages : OneSided(m)}}

(***************************************************************************)
(* What the assistant is told                                              *)
(***************************************************************************)
ToolProduces(m) == \E f \in DOMAIN m.roles : m.roles[f] # "consumer"

\* Mutant: a file that does both is not counted.
ToolOnlyConsumes(m) == \E f \in DOMAIN m.roles : m.roles[f] = "consumer"

ToolConsumes(m) == \E f \in DOMAIN m.roles : m.roles[f] # "producer"

\* Applications are told apart by their names here.
crossAppEdges(view, NameOf) ==
  LET With(n, Does(_)) == {NameOf[a] : a \in {a \in DOMAIN view : \E m \in view[a] : m.name = n /\ Does(m)}}
      producers == [n \in Seen(view) |-> With(n, ToolProduces)]
      consumers == [n \in Seen(view) |-> With(n, ToolConsumes)]
      told == {n \in Seen(view) : producers[n] \cup consumers[n] # {}}
  IN  {[constant |-> n, producers |-> producers[n], consumers |-> consumers[n],
        transitApps |-> producers[n] \cap consumers[n],
        unmatched |-> producers[n] = {} \/ consumers[n] = {}] : n \in told}
=============================================================================
