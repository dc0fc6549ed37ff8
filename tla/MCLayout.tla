------------------------------ MODULE MCLayout ------------------------------
(***************************************************************************)
(* Small headers for the layout engine.  Three families:                   *)
(*   - two structs S and T, of at most two fields each, that may embed     *)
(*     themselves and each other, under different packings;                *)
(*   - every run of MaxPragmas lines, packing pragmas or the end of a      *)
(*     header, with a struct behind each of them;                          *)
(*   - structs that embed the others several times, by all their names.    *)
(***************************************************************************)
EXTENDS Header, Abi, Composition, TLC, SequencesExt

CONSTANTS MaxPragmas

MCTypeNames ==
  {"char", "long", "double", "S", "T", "R", "aT", "bT", "aS", "a", "b", "unknown"}
MCAliases ==
  << [alias |-> "aT", type |-> "T"], [alias |-> "bT", type |-> "aT"],
     [alias |-> "a", type |-> "long"], [alias |-> "b", type |-> "a"],
     [alias |-> "aS", type |-> "S"] >>

Entry(size, align) == [size |-> size, align |-> align]
Table32 ==
  ("char" :> Entry(1, 1)) @@ ("long" :> Entry(4, 4)) @@ ("double" :> Entry(8, 4))
Table64 ==
  ("char" :> Entry(1, 1)) @@ ("long" :> Entry(8, 8)) @@ ("double" :> Entry(8, 8))
MCPrim ==
  [t \in Targets |-> [p \in Primitives |-> IF t = "32bit" THEN Table32[p] ELSE Table64[p]]]

One(type)       == [type |-> type, pointer |-> FALSE, array |-> "no", length |-> 1]
Many(type, n)   == [One(type) EXCEPT !.array = "sized", !.length = n]
Unsized(type)   == [One(type) EXCEPT !.array = "unsized"]

\* S may use T by any of its names; T may use S back.
FieldsOfS ==
  {One("char"), One("double"), One("b"), One("T"), One("bT"), One("S"), One("unknown"),
   Many("char", 3), Many("T", 2), [Many("S", 2) EXCEPT !.pointer = TRUE], Unsized("long")}
BodiesOfT ==
  { <<>>, <<One("double")>>, <<One("char"), One("b")>>, <<One("aS"), One("char")>>,
    <<One("char"), One("unknown")>> }

Plain(name, fields) == Declaration(name, FALSE, fields)
Packed(name, fields) == Declaration(name, TRUE, fields)
PushN(n) == Pragma("push", <<n>>)
Pop == Pragma("pop", <<>>)

Arrangements(s, t) ==
  { << Plain("T", t), Plain("S", s) >>,
    << Packed("T", t), Plain("S", s) >>,
    << Plain("S", s), PushN(1), Plain("T", t), Pop >>,
    << PushN(2), Plain("T", t), Pop, Packed("S", s) >>,
    << Plain("T", t), Pragma("number", <<2>>), Plain("S", s) >> }
Pairs ==
  UNION {Arrangements(s, t) :
    s \in BoundedSeq(FieldsOfS, 2), t \in BodiesOfT}

\* Values that are no packings and labels leave the packing alone or reset it.
PragmaLines ==
  {Pop, PushN(2), Pragma("push", <<3, 4>>), Pragma("push", <<>>), Pragma("none", <<>>),
   Pragma("number", <<1>>), Pragma("number", <<0>>), EndOfHeader}
Probe == <<One("char"), One("double")>>
Scopes ==
  {FlattenSeq([i \in 1 .. MaxPragmas |-> <<p[i], Plain(<<"R", "S", "T">>[i], Probe)>>]) :
     p \in [1 .. MaxPragmas -> PragmaLines]}

\* R is laid out before, between or after what it embeds.
Triples ==
  UNION {
    { << Plain("R", r), Pragma("show", <<>>), Plain("S", s), Plain("T", t) >>,
      << Plain("T", t), Plain("R", r), Packed("S", s) >>,
      << PushN(2), Plain("T", t), Pop, Plain("S", s), Plain("R", r), Plain("S", r) >> } :
      r \in {<<One("char"), One("bT"), One("T"), One("aS")>>,
             <<One("T"), One("S"), Many("S", 2), One("aT")>>},
      s \in {<<One("bT"), One("char"), Many("aT", 2)>>, <<One("R"), One("T")>>, <<>>},
      t \in {<<One("char"), One("b")>>, <<One("S")>>, <<One("R")>>, <<>>}}

MCHeaders == Pairs \cup Scopes \cup Triples
MCTypeDicts == {ParseHeader(lines) : lines \in MCHeaders}
==============================================================================
