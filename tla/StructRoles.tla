----------------------------- MODULE StructRoles -----------------------------
(***************************************************************************)
(* Which structs are messages and which are parts of them                  *)
(* (analyzer/structRoleAnalyzer.ts), by the structs they are members of    *)
(* and the messages they are bound to.  Array extents and the depth, which *)
(* only orders the report, are left out.                                   *)
(***************************************************************************)
EXTENDS Messages, FiniteSets

CONSTANT Payload  \* stands for the constant of a payload

ENVELOPE_MIN_PARENTS == 3

\* Four aliases, also of a name that a struct has.
canonicalName(type, d) ==
  LET Hop(t) == IF t \in DOMAIN d.aliases THEN d.aliases[t] ELSE t IN Hop(Hop(Hop(Hop(type))))

\* A pointer refers to a struct and does not contain it.
Child(field, d) ==
  LET name == canonicalName(field.type, d)
  IN  IF ~field.pointer /\ name \in d.structs THEN name ELSE Nothing

Composes(parent, child, d) ==
  child # parent /\ \E i \in DOMAIN d.fields[parent] : Child(d.fields[parent][i], d) = child

Parents(s, d) == {p \in d.structs : Composes(p, s, d)}

\* The parents whose first member with this struct is their first member.
FirstIn(s, d) ==
  {p \in Parents(s, d) : SelectInSeq(d.fields[p], LAMBDA f : Child(f, d) = s) = 1}

\* Only a resolved message or a confident payload binds a struct; no payload
\* names its constant.
Binds(result, s) ==
  /\ result.confidence \in {"high", "medium"}
  /\ s = (IF result.struct # Nothing THEN result.struct ELSE result.type)

Bound(s, messages, payloads) ==
  {m.name : m \in {m \in messages : m.struct = s}}
    \cup {Payload : p \in {p \in payloads : Binds(p.result, s)}}

IsEnvelope(s, d) ==
  /\ Cardinality(Parents(s, d)) >= ENVELOPE_MIN_PARENTS
  /\ 10 * Cardinality(FirstIn(s, d)) >= 8 * Cardinality(Parents(s, d))

Role(s, d, messages, payloads, referenced) ==
  LET parents == Cardinality(Parents(s, d))
  IN  CASE IsEnvelope(s, d) -> "envelope"
        [] ~IsEnvelope(s, d) /\ Bound(s, messages, payloads) # {} ->
             IF parents > 0 THEN "wire-root-nested" ELSE "wire-root"
        [] OTHER ->
             IF parents >= 2 THEN "shared-block" ELSE IF parents = 1 THEN "block"
             ELSE IF s \in referenced THEN "root-candidate" ELSE "orphan"

analyzeStructRoles(d, messages, payloads, referenced) ==
  [s \in d.structs |->
     [role |-> Role(s, d, messages, payloads, referenced), containedBy |-> Parents(s, d),
      boundConstants |-> Bound(s, messages, payloads)]]
=============================================================================
