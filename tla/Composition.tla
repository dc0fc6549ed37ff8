---------------------------- MODULE Composition ----------------------------
(***************************************************************************)
(* The tree of parts shown for a message, analyzer/messageComposition.ts:  *)
(* a projection of the finished catalogue, and the warnings about pointers *)
(* in it, which come from another walk, over the containment graph of      *)
(* analyzer/structRoleAnalyzer.ts.                                         *)
(***************************************************************************)
EXTENDS Layout

CONSTANTS MaxDepth, ROLE_HOPS

ASSUME CompositionAssumption ==
  /\ MaxDepth \in Nat /\ ROLE_HOPS \in Nat
  /\ STRUCT_HOPS <= ROLE_HOPS

HasLayout(name) == \E k \in DOMAIN layouts : layouts[k].name = name
LayoutOf(name) == layouts[CHOOSE k \in DOMAIN layouts : layouts[k].name = name]
DictFields(name) == typeDict.structs[IndexOf(typeDict, name)].fields

(***************************************************************************)
(* The tree                                                                *)
(***************************************************************************)
\* A place in the tree where a struct is opened: a call of partsOf, with the
\* structs opened above it, itself included, and its offset in the message.
Node(name, seen, base) == [name |-> name, seen |-> seen, base |-> base]

Part(kind, type, offset, size, count) ==
  [kind |-> kind, type |-> type, offset |-> offset, size |-> size, count |-> count]

Blocks(node) == {i \in DOMAIN LayoutOf(node.name).fields : LayoutOf(node.name).fields[i].member # NoType}

\* An embedded struct, or an array of them.
Block(node, i) ==
  LET field == LayoutOf(node.name).fields[i]
  IN  Part("block", field.member, node.base + field.offset, field.size, DictFields(node.name)[i].length)

\* Fields and gaps, at their offsets within the message.
Parts(node) ==
  LET layout == LayoutOf(node.name)
      scalars == DOMAIN layout.fields \ Blocks(node)
  IN  {Block(node, i) : i \in Blocks(node)}
      \cup {Part("scalar", NoType, node.base + layout.fields[i].offset, layout.fields[i].size, 1) : i \in scalars}
      \cup {Part("padding", NoType, node.base + layout.gaps[i].offset, layout.gaps[i].size, 1) : i \in DOMAIN layout.gaps}

\* The blocks with parts of their own: not those opened further up.
Openable(node) ==
  {i \in Blocks(node) : LET member == LayoutOf(node.name).fields[i].member
                        IN  member \notin node.seen /\ HasLayout(member)}

\* Mutant: the offset of a part is that within its parent.
OpenedRelative(node, i) ==
  LET field == LayoutOf(node.name).fields[i]
  IN  Node(field.member, node.seen \cup {field.member}, field.offset)
Opened(node, i) ==
  LET field == LayoutOf(node.name).fields[i]
  IN  Node(field.member, node.seen \cup {field.member}, node.base + field.offset)

Root(name) == Node(name, {name}, 0)

\* What is opened in the tree of a message, level by level.
Levels(name) ==
  LET level[depth \in 0 .. MaxDepth] ==
        IF depth = 0 THEN {Root(name)}
        ELSE UNION {{Opened(node, i) : i \in Openable(node)} : node \in level[depth - 1]}
  IN  level
Composed(name) == UNION {Levels(name)[depth] : depth \in 0 .. MaxDepth}

(***************************************************************************)
(* The containment graph of the roles                                      *)
(***************************************************************************)
\* canonicalName
CanonicalName(type) ==
  LET follow[hops \in 0 .. ROLE_HOPS] ==
        [name \in TypeNames |->
           IF hops = 0 \/ EndsAt(typeDict, name) THEN name
           ELSE follow[hops - 1][AliasOf(typeDict, name)]]
  IN  follow[ROLE_HOPS][type]

\* Mutant: typedef names are taken as they are.
ComposesByName(name) ==
  {DictFields(name)[i].type : i \in {j \in DOMAIN DictFields(name) :
     /\ ~DictFields(name)[j].pointer
     /\ DictFields(name)[j].type \in StructNames(typeDict) \ {name}}}
Composes(name) ==
  {CanonicalName(DictFields(name)[i].type) : i \in {j \in DOMAIN DictFields(name) :
     /\ ~DictFields(name)[j].pointer
     /\ CanonicalName(DictFields(name)[j].type) \in StructNames(typeDict) \ {name}}}

\* collectWarnings: what the containment graph leads to, each struct once; that
\* is, what is in every set of structs that has the message and all it composes.
Reached(name) ==
  {struct \in StructNames(typeDict) :
     \A seen \in SUBSET StructNames(typeDict) :
       name \in seen /\ (\A s \in seen : Composes(s) \subseteq seen) => struct \in seen}

(***************************************************************************)
(* Properties                                                              *)
(***************************************************************************)
\* Parts that cover the bytes from lo up to hi, each byte in one of them.
Fill(parts, lo, hi) ==
  /\ \A p \in parts : lo <= p.offset /\ p.offset + p.size <= hi
  /\ \A byte \in lo .. hi - 1 :
       \E p \in parts : \A q \in parts : Covers(q, byte) <=> q = p

\* "No independent source of truth, so it cannot drift from the layout engine":
\* in the tree of a message whose layout is not estimated, the parts of each
\* struct opened fill exactly the bytes that the block above has for (the first
\* of) it, unless the caller of the engine overrides the packing.
CompositionFills ==
  Done /\ packOverride = NoPack =>
    \A k \in DOMAIN layouts : ~layouts[k].estimated =>
      /\ Fill(Parts(Root(layouts[k].name)), 0, layouts[k].size)
      /\ \A depth \in 0 .. MaxDepth - 1 : \A node \in Levels(layouts[k].name)[depth] :
           \A i \in Openable(node) :
             LET block == Block(node, i)
             IN  block.count > 0 =>
                   Fill(Parts(Opened(node, i)), block.offset, block.offset + block.size \div block.count)

\* Every struct in the tree of a message is one whose pointers and variable
\* arrays are warned of: the two walks resolve typedefs each in its own way.
WarningsReach ==
  Done => \A k \in DOMAIN layouts : \A node \in Composed(layouts[k].name) :
    {p.type : p \in Parts(node)} \ {NoType} \subseteq Reached(layouts[k].name)
==============================================================================
