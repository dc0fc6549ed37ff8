------------------------------- MODULE Sources -------------------------------
(***************************************************************************)
(* What the analysis takes from one source file (analyzer/sourceAnalyzer): *)
(* its IPC calls, those of the C library and those the user's patterns     *)
(* match, with the message constants and types found at them, and the      *)
(* payloads they send.                                                     *)
(*                                                                         *)
(* A file is a record: its name, the identifiers it mentions, the names it *)
(* defines, its functions with the types of their parameters, its calls in *)
(* the order of the text.  Structs of source files are not read.           *)
(***************************************************************************)
EXTENDS Payload

CONSTANTS
  Patterns,  \* the patterns: a name, the functions whose calls each matches
             \* and those it finds in a text, type and direction, and the
             \* positions of its arguments; 0 is none
  Capitals   \* the identifiers in capitals

Directions == {"send", "recv", "bidirectional", "control"}
Pattern ==
  [name : STRING, calls : SUBSET STRING, found : SUBSET STRING, type : STRING, direction : Directions,
   msgArg : Nat, callbackArg : Nat, payloadArg : Nat]

\* Calls without a direction are told from those with one.
ASSUME SourcesAssumption == Patterns \in Seq(Pattern) /\ Nothing \notin Directions

\* Of the calls of the C library, those with a direction and one without.
IPC_CALLS ==
  [send |-> "socket-send", sendto |-> "socket-send", recv |-> "socket-recv", recvfrom |-> "socket-recv",
   mq_send |-> "mqueue", mq_receive |-> "mqueue", write |-> "file-io", read |-> "file-io",
   kill |-> "signal"]

\* An IPC call: the name its detail begins with, its direction if a pattern
\* gives it one, and what is found at the calls it stands for.
Ipc(type, name, direction) ==
  [type |-> type, name |-> name, direction |-> direction,
   constants |-> {}, missing |-> {}, implied |-> {}, candidates |-> {}]

Plain(node) == IF IsForm(node, "cast") THEN node.of ELSE node
Identifiers(node) ==
  (IF IsForm(node, "cast") THEN {node.type} ELSE {})
    \cup (IF IsForm(Plain(node), "sizeof") THEN {Plain(node).type} ELSE {Plain(node).var})

\* A text mentions what its calls and the functions around them are made of.
Text(f) ==
  /\ f.calls \in Seq(CallExpression)
  /\ \A i \in DOMAIN f.calls : LET c == f.calls[i] IN
       /\ c.callee \in f.mentions
       /\ \A k \in DOMAIN c.args : Identifiers(c.args[k]) \subseteq f.mentions
       /\ \A k \in DOMAIN c.params : c.params[k].type \in f.mentions
  /\ \A g \in DOMAIN f.functions : f.functions[g] \in Seq(f.mentions)

\* The same text counts once.  Calls and patterns keep their positions, the
\* patterns after the calls.
LibraryCalls(f) ==
  LET Again(k) == \E j \in 1 .. k - 1 : f.calls[j].callee = f.calls[k].callee /\ f.calls[j].args = f.calls[k].args
  IN  [k \in {k \in DOMAIN f.calls : f.calls[k].callee \in DOMAIN IPC_CALLS /\ ~Again(k)} |->
         Ipc(IPC_CALLS[f.calls[k].callee], f.calls[k].callee, Nothing)]

\* A pattern is matched against the text, so a mention is enough.  One that is
\* anchored matches the name of a function and finds it in no text.
Matching(f) == {j \in DOMAIN Patterns : Patterns[j].found \cap f.mentions # {}}

Shallow(f) ==
  LET library == LibraryCalls(f)
      last == Len(f.calls)
  IN  [i \in DOMAIN library \cup {last + j : j \in Matching(f)} |->
         IF i <= last THEN library[i]
         ELSE Ipc(Patterns[i - last].type, Patterns[i - last].name, Patterns[i - last].direction)]

(***************************************************************************)
(* What is found at a call of a pattern                                    *)
(***************************************************************************)
Argument(call, index) == [i \in DOMAIN call.args \cap {index} |-> Plain(call.args[i])]

\* The names and sizes among the arguments, or at the one position; casts of
\* them count.
Considered(call, p) == IF p.msgArg = 0 THEN Mapped(call.args, Plain) ELSE Argument(call, p.msgArg)

ConstantsAt(call, p) ==
  {n.var : n \in {n \in ToSet(Considered(call, p)) : IsForm(n, "name") /\ n.var \in Capitals}}

SizesAt(call, p) == Mapped(Where(Considered(call, p), LAMBDA n : IsForm(n, "sizeof")), LAMBDA n : n.type)

\* The types of the parameters of a function of this file that is passed.
CallbackTypes(f, call, p) ==
  LET passed == {n \in ToSet(Argument(call, p.callbackArg)) : IsForm(n, "name") /\ n.var \in DOMAIN f.functions}
  IN  IF passed = {} THEN <<>> ELSE f.functions[The(passed).var]

Callback(type) == [type |-> type, struct |-> type, confidence |-> "high", strategy |-> "callback"]

\* The types at a call, in the order they are met.
TypesAt(f, call, p) == Flat(<<SizesAt(call, p), Mapped(call.params, LAMBDA q : q.type), CallbackTypes(f, call, p)>>)

\* The entry that collects: the first of the pattern's type and direction,
\* which may be another pattern's.
Collector(ipc, p) ==
  {i \in DOMAIN ipc : /\ ipc[i].type = p.type /\ ipc[i].direction = p.direction
                      /\ \A j \in DOMAIN ipc : ipc[j].type = p.type /\ ipc[j].direction = p.direction => i <= j}

(***************************************************************************)
(* A call of a pattern, by their positions: the calls in the order of the  *)
(* text, and the patterns of one call in theirs.  A call for which no      *)
(* entry collects is passed over.                                          *)
(***************************************************************************)
Visits(f) ==
  {v \in (DOMAIN f.calls) \X (DOMAIN Patterns) :
     f.calls[v[1]].callee \in Patterns[v[2]].calls /\ Collector(Shallow(f), Patterns[v[2]]) # {}}

CollectedBy(i, f) == {v \in Visits(f) : i \in Collector(Shallow(f), Patterns[v[2]])}

Collect(i, f, d) ==
  LET visits == CollectedBy(i, f)
      constants == UNION {ConstantsAt(f.calls[v[1]], Patterns[v[2]]) : v \in visits}
      types == UNION {ToSet(TypesAt(f, f.calls[v[1]], Patterns[v[2]])) : v \in visits}
      known == d.defines \cup d.enumerated
  IN  [Shallow(f)[i] EXCEPT !.constants = constants \cap known, !.missing = constants \ known,
                            !.implied = types \cap d.structs, !.candidates = types \ d.structs]

\* The first struct implied at the calls an entry collected up to this one.
FirstImplied(i, f, visit, d) ==
  LET Structs(v) == Where(TypesAt(f, f.calls[v[1]], Patterns[v[2]]), LAMBDA t : t \in d.structs)
      visits == {v \in CollectedBy(i, f) : ~Earlier(visit, v) /\ DOMAIN Structs(v) # {}}
  IN  UNION {{Structs(v)[s] : s \in Foremost(DOMAIN Structs(v))} : v \in Foremost(visits)}

\* The resolutions at a call of a pattern are kept with the site of the call.
PayloadsAt(f, visit, d) ==
  LET call == f.calls[visit[1]]
      p == Patterns[visit[2]]
      At(r) == [file |-> f.name, site |-> visit[1], index |-> p.payloadArg, result |-> r]
      implied == UNION {FirstImplied(i, f, visit, d) : i \in Collector(Shallow(f), p)}
  IN  {At(Callback(t)) : t \in ToSet(CallbackTypes(f, call, p)) \cap d.structs}
        \cup When(p.payloadArg # 0, {At(resolvePayload(call, p.payloadArg, implied, d))})

analyzeSource(f, d) ==
  [filename |-> f.name, ipc |-> [i \in DOMAIN Shallow(f) |-> Collect(i, f, d)],
   payloads |-> UNION {PayloadsAt(f, v, d) : v \in Visits(f)},
   defines |-> f.defines, mentions |-> f.mentions]
=============================================================================
