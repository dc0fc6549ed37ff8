------------------------------- MODULE Payload -------------------------------
(***************************************************************************)
(* The struct a messaging call sends (analyzer/payloadResolver.ts), read   *)
(* off the form of its argument and the statements before it.              *)
(*                                                                         *)
(* A call knows the parameters of the function around it and the           *)
(* statements before it, block by block, the innermost first: declarations *)
(* of a variable, assignments to one and copies into one.  Qualifiers and  *)
(* stars are left out, but for whether a parameter is a pointer.           *)
(***************************************************************************)
EXTENDS Integers, Sequences, SequencesExt

CONSTANTS
  PRIMITIVE_TYPES,  \* types that say nothing about a payload
  Nothing           \* no type, no struct, no result

ASSUME PayloadAssumption == Nothing \notin STRING

\* A dictionary d has the structs of the headers, the fields of each (a name,
\* a type, whether it is a pointer), the aliases of types, and the names that
\* are defined or enumerated.

(***************************************************************************)
(* Sequences.  What is selected from a sequence keeps its positions, of    *)
(* which only the order counts; sequences of sequences have pairs as       *)
(* positions, read line by line.  What may be found or not is a set of at  *)
(* most one element.                                                       *)
(***************************************************************************)
Mapped(seq, Op(_)) == [i \in DOMAIN seq |-> Op(seq[i])]
Where(seq, Test(_)) == [i \in {i \in DOMAIN seq : Test(seq[i])} |-> seq[i]]
Flat(seqs) == [s \in UNION {{i} \X DOMAIN seqs[i] : i \in DOMAIN seqs} |-> seqs[s[1]][s[2]]]

Earlier(s, t) == s[1] < t[1] \/ (s[1] = t[1] /\ s[2] < t[2])
Foremost(sites) == {s \in sites : \A t \in sites : ~Earlier(t, s)}
Hindmost(sites) == {s \in sites : \A t \in sites : ~Earlier(s, t)}
Before(flat, site) == [s \in {s \in DOMAIN flat : Earlier(s, site)} |-> flat[s]]

First(seq, Test(_)) ==
  {seq[i] : i \in {i \in DOMAIN seq : Test(seq[i]) /\ \A j \in DOMAIN seq : Test(seq[j]) => i <= j}}

When(condition, results) == IF condition THEN results ELSE {}
a ?? b == IF a # {} THEN a ELSE b
The(results) == CHOOSE r \in results : TRUE

(***************************************************************************)
(* Arguments and right-hand sides: a name, a member, the address of a      *)
(* variable or of a member of one, a cast of one of these, the size of a   *)
(* type.  What the resolver takes for an address is an "address"; the      *)
(* grammar the program ships with makes a "pointer" of the same text,      *)
(* which no strategy knows.                                                *)
(***************************************************************************)
Simple ==
  [form : {"name", "address", "pointer"}, var : STRING]
    \cup [form : {"member", "address", "pointer"}, var : STRING, field : STRING]
    \cup [form : {"sizeof"}, type : STRING]
Node == Simple \cup [form : {"cast"}, type : STRING, of : Simple]

Statement ==
  [form : {"declare"}, var : STRING, type : STRING] \cup [form : {"assign", "copy"}, var : STRING, rhs : Node]
CallExpression ==
  [callee : STRING, args : Seq(Node), params : Seq([name : STRING, type : STRING, pointer : BOOLEAN]),
   blocks : Seq(Seq(Statement))]

IsForm(node, form) == node.form = form

\* At most three aliases further.
resolveType(type, d) ==
  LET Hop(t) == IF t \in d.structs \/ t \notin DOMAIN d.aliases THEN t ELSE d.aliases[t]
      last == Hop(Hop(Hop(type)))
  IN  IF last \in d.structs THEN last ELSE Nothing

\* What a strategy finds: a type, the struct it stands for, and whether it is
\* what a cast was applied to.
Found(type, inner, d) == [type |-> type, struct |-> resolveType(type, d), inner |-> inner]
HasStruct(found) == {f \in found : f.struct # Nothing}

Declares(s, var) == s.form = "declare" /\ s.var = var

\* The innermost block comes first, so it hides what is around it.
findLocalVarType(stmts, var) ==
  {stmts[s].type : s \in Foremost({s \in DOMAIN stmts : Declares(stmts[s], var)})}

Local(var, inner, stmts, d) == {Found(type, inner, d) : type \in findLocalVarType(stmts, var)}

tryLocalVarDecl(node, inner, stmts, d) == When(IsForm(node, "name"), Local(node.var, inner, stmts, d))

\* The address of a member is taken for that of the whole variable.
tryAddressOf(node, stmts, d) == When(IsForm(node, "address"), Local(node.var, TRUE, stmts, d))

tryPointerParam(node, params, d) ==
  When(IsForm(node, "name"),
       {Found(p.type, TRUE, d) : p \in First(params, LAMBDA p : p.name = node.var /\ p.pointer)})

\* The type of the field in the struct that holds it.
FieldOf(owner, field, d) ==
  HasStruct({Found(f.type, TRUE, d) : f \in First(d.fields[owner.struct], LAMBDA f : f.name = field)})

\* The struct of the member that is cast, by the type of what it is a member of.
tryMember(node, stmts, params, d) ==
  LET base == [form |-> "name", var |-> node.var]
      owner == tryLocalVarDecl(base, FALSE, stmts, d) ?? tryPointerParam(base, params, d)
  IN  When(IsForm(node, "member"), UNION {FieldOf(o, node.field, d) : o \in HasStruct(owner)})

\* What is cast counts more than what it is cast to, unless that is a struct.
tryCast(node, stmts, params, d) ==
  LET of == node.of
      target == {Found(node.type, FALSE, d)}
  IN  When(IsForm(node, "cast"),
           tryAddressOf(of, stmts, d) ?? HasStruct(target)
             ?? HasStruct(tryLocalVarDecl(of, TRUE, stmts, d)) ?? HasStruct(tryPointerParam(of, params, d))
             ?? tryMember(of, stmts, params, d) ?? target)

(***************************************************************************)
(* Resolutions                                                             *)
(***************************************************************************)
Confidence == {"high", "medium", "low", "unresolved"}
Resolution(found, confidence, strategy) ==
  [type |-> found.type, struct |-> found.struct, confidence |-> confidence, strategy |-> strategy]
Resolved(found, confidence, strategy) == {Resolution(f, confidence, strategy) : f \in found}

Unresolved == [type |-> Nothing, struct |-> Nothing, confidence |-> "unresolved", strategy |-> "unresolved"]

\* What an assignment says of the variable, by the statements before it.
AssignedCast(f) ==
  IF f.inner THEN Resolution(f, "high", "address-of") ELSE Resolution(f, "medium", "cast")

Assigned(stmts, s, d) ==
  Resolved(tryAddressOf(stmts[s].rhs, Before(stmts, s), d), "high", "address-of")
    ?? {AssignedCast(f) : f \in tryCast(stmts[s].rhs, Before(stmts, s), <<>>, d)}

Assigns(s, var) == s.form = "assign" /\ s.var = var
Telling(var, stmts, d) == {s \in DOMAIN stmts : Assigns(stmts[s], var) /\ Assigned(stmts, s, d) # {}}

\* Mutant: the first of the assignments that says anything.
tryFirstAssignment(node, stmts, d) ==
  When(IsForm(node, "name"), UNION {Assigned(stmts, s, d) : s \in Foremost(Telling(node.var, stmts, d))})

\* Searched backwards: through the outermost block first, and each from its end.
tryAssignment(node, stmts, d) ==
  When(IsForm(node, "name"), UNION {Assigned(stmts, s, d) : s \in Hindmost(Telling(node.var, stmts, d))})

\* The source of the first copy into the buffer that says anything.
tryMemcpy(node, stmts, d) ==
  LET Source(s) == tryAddressOf(stmts[s].rhs, stmts, d) ?? tryLocalVarDecl(stmts[s].rhs, FALSE, stmts, d)
      copies == {s \in DOMAIN stmts : stmts[s].form = "copy" /\ stmts[s].var = node.var /\ Source(s) # {}}
  IN  When(IsForm(node, "name"), UNION {Source(s) : s \in Foremost(copies)})

\* The first struct the calls of this pattern have implied so far.
tryMsgIdCorrelation(implied, d) == {Found(t, FALSE, d) : t \in implied}

\* The statements before the call, with the innermost block first.
priorSiblings(call) == Flat(call.blocks)

\* A cast to a type nobody knows is reported; one to a primitive says nothing.
CastTells(f) == f.struct # Nothing \/ f.type \notin PRIMITIVE_TYPES
CastResolution(f) ==
  IF f.struct = Nothing THEN Resolution(f, "low", "cast")
  ELSE IF f.inner THEN Resolution(f, "high", "pointer") ELSE Resolution(f, "medium", "cast")

Strategies(arg, stmts, params, implied, d) ==
  Resolved(tryAddressOf(arg, stmts, d), "high", "address-of")
    ?? Resolved(HasStruct(tryPointerParam(arg, params, d)), "high", "pointer")
    ?? Resolved(HasStruct(tryLocalVarDecl(arg, FALSE, stmts, d)), "high", "pointer")
    ?? {CastResolution(f) : f \in {f \in tryCast(arg, stmts, params, d) : CastTells(f)}}
    ?? tryAssignment(arg, stmts, d)
    ?? Resolved(tryMemcpy(arg, stmts, d), "medium", "memcpy")
    ?? Resolved(tryMsgIdCorrelation(implied, d), "low", "msg-id-correlation")

resolvePayload(call, index, implied, d) ==
  IF index \notin DOMAIN call.args THEN Unresolved
  ELSE The(Strategies(call.args[index], priorSiblings(call), call.params, implied, d) ?? {Unresolved})

(***************************************************************************)
(* What a payload really is                                                *)
(***************************************************************************)
\* The variable whose address is taken, the one that is passed by its name, and
\* either of them behind a pointer that is assigned; casts of them count.
Denotes(node) ==
  IF IsForm(node, "address") THEN node.var
  ELSE IF IsForm(node, "cast") /\ IsForm(node.of, "address") THEN node.of.var
  ELSE Nothing

Carries(node) ==
  IF IsForm(node, "name") THEN node.var
  ELSE IF IsForm(node, "cast") /\ IsForm(node.of, "name") THEN node.of.var
  ELSE Nothing

Aims(node) == IF IsForm(node, "name") \/ Denotes(node) # Nothing THEN Denotes(node) ELSE Carries(node)

DeclaredIn(block, var) == {block[i].type : i \in {i \in DOMAIN block : Declares(block[i], var)}}

\* Types a variable has in the nearest of the blocks that declare it.
Nearest(blocks, var) == UNION First(Mapped(blocks, LAMBDA b : DeclaredIn(b, var)), LAMBDA types : types # {})

PointerTypes(params, var) == {params[k].type : k \in {k \in DOMAIN params : params[k].name = var /\ params[k].pointer}}

\* What is in a block comes after all that is listed of the blocks around it.
Follows(s, t) == s[1] < t[1] \/ (s[1] = t[1] /\ t[2] < s[2])
Assignments(stmts, var) == {s \in DOMAIN stmts : Assigns(stmts[s], var)}
Latest(stmts, var) == {s \in Assignments(stmts, var) : \A t \in Assignments(stmts, var) : t = s \/ Follows(s, t)}

\* An assignment settles what a variable points at: it is the latest, there is
\* none in the blocks around it, and it aims at a variable declared above it
\* that no block further in declares again.
Settles(stmts, s, var) ==
  /\ s \in Latest(stmts, var)
  /\ \A t \in Assignments(stmts, var) : t[1] = s[1]
  /\ \E t \in DOMAIN stmts : t[1] = s[1] /\ t[2] < s[2] /\ Declares(stmts[t], Aims(stmts[s].rhs))
  /\ \A t \in DOMAIN stmts : t[1] < s[1] => ~Declares(stmts[t], Aims(stmts[s].rhs))

\* A payload resolved with high confidence as the address of a variable, or of a
\* member of it, has the type that variable is declared with in the block
\* nearest to the call; one resolved as a pointer has that type, or the one its
\* parameter points to.  An untyped pointer has the type of what it was pointed
\* at last, if that is settled (payloadResolver.ts 129-206, 217-346).
Honest(call, index, r) ==
  LET arg == call.args[index]
      stmts == priorSiblings(call)
  IN  /\ r.confidence = "high" /\ Denotes(arg) # Nothing => r.type \in Nearest(call.blocks, Denotes(arg))
      /\ r.strategy = "pointer" /\ Carries(arg) # Nothing =>
           r.type \in Nearest(call.blocks, Carries(arg)) \cup PointerTypes(call.params, Carries(arg))
      /\ r.strategy = "address-of" /\ IsForm(arg, "name") =>
           \A s \in DOMAIN stmts :
             Settles(stmts, s, arg.var) => r.type \in Nearest(call.blocks, Aims(stmts[s].rhs))

\* What is found by tracing assignments is what the most recent one tells.
Recent(call, index, r, d) ==
  LET arg == call.args[index]
      stmts == priorSiblings(call)
  IN  IsForm(arg, "name") /\ r.strategy \in {"address-of", "cast"} =>
        \E s \in Latest(stmts, arg.var) : r \in Assigned(stmts, s, d)
=============================================================================
