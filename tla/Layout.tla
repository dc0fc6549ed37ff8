------------------------------- MODULE Layout -------------------------------
(***************************************************************************)
(* The struct layout engine, analyzer/structLayoutEngine.ts: the loop of   *)
(* buildStructCatalog over the structs of a type dictionary and, inside    *)
(* it, the recursion of computeLayoutInternal into embedded structs, with  *)
(* the global RECURSION_GUARD.  One step places one field, enters an       *)
(* embedded struct, leaves it, or finishes a layout.                       *)
(*                                                                         *)
(* Bit-fields are not here: headerParser takes a field's type from the     *)
(* type node, which never ends in ":N", so the bit-field branch of the     *)
(* engine is not reached and each one is placed as a whole field.          *)
(***************************************************************************)
EXTENDS Integers, Sequences, FiniteSets

CONSTANTS
  TypeNames,    \* names a field may give as its type
  Primitives,   \* those in the PRIM tables
  Prim,         \* target -> primitive -> its size and alignment
  TypeDicts,    \* dictionaries that parsing may yield
  Overrides,    \* values of packOverride
  STRUCT_HOPS, PRIMITIVE_HOPS,  \* how many typedefs are followed
  NoPack, NoType

Targets == {"32bit", "64bit"}
Aligns == {1, 2, 4, 8, 16}

\* A field: length counts the elements of an array whose extents are numbers,
\* and is 1 otherwise.
Field == [type : TypeNames, pointer : BOOLEAN, array : {"no", "sized", "unsized"}, length : Nat]
Struct == [name : TypeNames, pack : Aligns \cup {NoPack}, fields : Seq(Field)]
Alias == [alias : TypeNames, type : TypeNames]
TypeDict == [structs : Seq(Struct), aliases : Seq(Alias)]
NamesOnce(dict) ==
  \A i, j \in DOMAIN dict.structs : dict.structs[i].name = dict.structs[j].name => i = j

ASSUME LayoutAssumption ==
  /\ Primitives \subseteq TypeNames
  /\ Prim \in [Targets -> [Primitives -> [size : Nat, align : Aligns]]]
  /\ TypeDicts \subseteq TypeDict
  /\ \A dict \in TypeDicts : NamesOnce(dict)
  /\ Overrides \subseteq Aligns \cup {NoPack}
  /\ STRUCT_HOPS \in Nat /\ PRIMITIVE_HOPS \in Nat
  /\ NoPack \notin Aligns /\ NoType \notin TypeNames

VARIABLES
  typeDict, target, packOverride,  \* what buildStructCatalog is called with
  typedefMap,   \* buildTypedefMap: type name -> what it stands for, or NoType
  guard,        \* RECURSION_GUARD
  frames,       \* calls of computeLayoutInternal, innermost last
  next,         \* the struct of the catalogue's loop
  layouts       \* the catalogue so far

input == <<typeDict, target, packOverride, typedefMap>>
vars == <<input, guard, frames, next, layouts>>

(***************************************************************************)
(* Type names                                                              *)
(***************************************************************************)
StructNames(dict) == {dict.structs[i].name : i \in DOMAIN dict.structs}
IndexOf(dict, name) == CHOOSE i \in DOMAIN dict.structs : dict.structs[i].name = name

AliasOf(dict, name) ==
  LET found == {i \in DOMAIN dict.aliases : dict.aliases[i].alias = name}
  IN  IF found = {} THEN NoType ELSE dict.aliases[CHOOSE i \in found : TRUE].type
EndsAt(dict, name) == AliasOf(dict, name) \in {NoType, name}

\* What an alias is mapped to, given the names mapped before it; NoType when
\* the chain is longer than the hops.
Chase(dict, known, type) ==
  LET chase[hops \in 0 .. STRUCT_HOPS] ==
        [name \in TypeNames |->
           IF hops = 0 THEN NoType
           ELSE IF known[name] # NoType THEN known[name]
           ELSE IF EndsAt(dict, name) THEN name
           ELSE chase[hops - 1][AliasOf(dict, name)]]
  IN  chase[STRUCT_HOPS][type]

\* buildTypedefMap: struct names first, then the aliases in their order.
TypedefMap(dict) ==
  LET map[i \in 0 .. Len(dict.aliases)] ==
        IF i = 0 THEN [n \in TypeNames |-> IF n \in StructNames(dict) THEN n ELSE NoType]
        ELSE LET new == dict.aliases[i]
             IN  IF map[i - 1][new.alias] # NoType THEN map[i - 1]
                 ELSE [map[i - 1] EXCEPT ![new.alias] = Chase(dict, map[i - 1], new.type)]
  IN  map[Len(dict.aliases)]

\* The primitive a name stands for, directly or by chaseAliasToPrimitive.
PrimitiveOf(dict, type) ==
  LET chase[hops \in 0 .. PRIMITIVE_HOPS] ==
        [name \in TypeNames |->
           IF hops = 0 \/ EndsAt(dict, name) THEN NoType
           ELSE IF AliasOf(dict, name) \in StructNames(dict) THEN NoType
           ELSE IF AliasOf(dict, name) \in Primitives THEN AliasOf(dict, name)
           ELSE chase[hops - 1][AliasOf(dict, name)]]
  IN  IF type \in Primitives THEN type ELSE chase[PRIMITIVE_HOPS][type]

\* resolveToStruct: the struct's name, or a name that is no struct's.
Canonical(type) == IF typedefMap[type] = NoType THEN type ELSE typedefMap[type]

(***************************************************************************)
(* Placing a field                                                         *)
(***************************************************************************)
Smaller(a, b) == IF a <= b THEN a ELSE b
Larger(a, b) == IF a >= b THEN a ELSE b
AlignUp(offset, align) ==
  IF align <= 1 THEN offset ELSE ((offset + align - 1) \div align) * align

PointerSize == IF target = "64bit" THEN 8 ELSE 4
DefaultPack == IF target = "64bit" THEN 8 ELSE 4

OwnPack(pack) == IF pack = NoPack THEN DefaultPack ELSE pack
RootPack(pack) == IF packOverride = NoPack THEN OwnPack(pack) ELSE packOverride

Top == frames[Len(frames)]
\* Mutant: no packing means no limit.
NestedPackUnset(pack) == pack
\* Mutant: the packing of the parent reaches into the child.
NestedPackCapped(pack) == Smaller(Top.pack, OwnPack(pack))
\* An embedded struct keeps its own layout, packOverride or not.
NestedPack(pack) == OwnPack(pack)

Frame(i, pack) ==
  [struct |-> i, pack |-> pack, fields |-> <<>>, gaps |-> <<>>,
   offset |-> 0, align |-> 1, padding |-> 0, estimated |-> FALSE]

\* The gap that alignment forces before the next field, if any.
Gap(frame, aligned, align, member) ==
  IF aligned <= frame.offset THEN <<>>
  ELSE <<[offset |-> frame.offset, size |-> aligned - frame.offset, align |-> align,
          boundary |-> /\ frame.fields # <<>> /\ member # NoType
                       /\ frame.fields[Len(frame.fields)].member # NoType]>>

\* Mutant: the struct's alignment is that of its last field.
PlacedLastAlign(frame, field, size, align, member, estimated) ==
  LET effective == Smaller(align, frame.pack)
      aligned   == AlignUp(frame.offset, effective)
      total     == size * field.length
  IN  [frame EXCEPT
         !.fields = Append(frame.fields,
            [offset |-> aligned, size |-> total, align |-> effective, member |-> member]),
         !.gaps = frame.gaps \o Gap(frame, aligned, effective, member),
         !.offset = aligned + total,
         !.align = effective,
         !.padding = frame.padding + (aligned - frame.offset),
         !.estimated = frame.estimated \/ estimated \/ field.array = "unsized"]

\* Mutant: that the size of an embedded struct is a guess is forgotten.
PlacedSure(frame, field, size, align, member, estimated) ==
  LET effective == Smaller(align, frame.pack)
      aligned   == AlignUp(frame.offset, effective)
      total     == size * field.length
  IN  [frame EXCEPT
         !.fields = Append(frame.fields,
            [offset |-> aligned, size |-> total, align |-> effective, member |-> member]),
         !.gaps = frame.gaps \o Gap(frame, aligned, effective, member),
         !.offset = aligned + total,
         !.align = Larger(frame.align, effective),
         !.padding = frame.padding + (aligned - frame.offset),
         !.estimated = frame.estimated \/ field.array = "unsized"]

\* A field of this size and alignment goes behind the frame's last one.
Placed(frame, field, size, align, member, estimated) ==
  LET effective == Smaller(align, frame.pack)
      aligned   == AlignUp(frame.offset, effective)
      total     == size * field.length
  IN  [frame EXCEPT
         !.fields = Append(frame.fields,
            [offset |-> aligned, size |-> total, align |-> effective, member |-> member]),
         !.gaps = frame.gaps \o Gap(frame, aligned, effective, member),
         !.offset = aligned + total,
         !.align = Larger(frame.align, effective),
         !.padding = frame.padding + (aligned - frame.offset),
         !.estimated = frame.estimated \/ estimated \/ field.array = "unsized"]

\* Mutant: the bytes behind the last field are counted but not located.
TailGapForgotten(frame, total) == <<>>
\* The gap behind the last field, if any.
TailGap(frame, total) ==
  IF total <= frame.offset THEN <<>>
  ELSE <<[offset |-> frame.offset, size |-> total - frame.offset, align |-> frame.align,
          boundary |-> FALSE]>>

\* What computeLayoutInternal returns.
Finished(frame) ==
  LET total == AlignUp(frame.offset, frame.align)
  IN  [name |-> typeDict.structs[frame.struct].name, fields |-> frame.fields,
       gaps |-> frame.gaps \o TailGap(frame, total), size |-> total, align |-> frame.align,
       padding |-> frame.padding + (total - frame.offset), estimated |-> frame.estimated]

(***************************************************************************)
(* Actions                                                                 *)
(***************************************************************************)
Fields(frame) == typeDict.structs[frame.struct].fields
Placing == frames # <<>> /\ Len(Top.fields) < Len(Fields(Top))
CurrentField == Fields(Top)[Len(Top.fields) + 1]

InCatalog(i) == i \in DOMAIN typeDict.structs

\* Mutant: the loop stays where it is.
SkipEmptyForever ==
  /\ frames = <<>> /\ InCatalog(next)
  /\ typeDict.structs[next].fields = <<>>
  /\ UNCHANGED vars

\* Opaque structs have no layout.
SkipEmpty ==
  /\ frames = <<>> /\ InCatalog(next)
  /\ typeDict.structs[next].fields = <<>>
  /\ next' = next + 1
  /\ UNCHANGED <<input, guard, frames, layouts>>

StartStruct ==
  /\ frames = <<>> /\ InCatalog(next)
  /\ typeDict.structs[next].fields # <<>>
  /\ frames' = <<Frame(next, RootPack(typeDict.structs[next].pack))>>
  /\ guard' = {typeDict.structs[next].name}
  /\ UNCHANGED <<input, next, layouts>>

Place(size, align, member, estimated) ==
  /\ frames' = [frames EXCEPT ![Len(frames)] =
       Placed(Top, CurrentField, size, align, member, estimated)]
  /\ UNCHANGED <<input, guard, next, layouts>>

PlacePointer ==
  /\ Placing /\ CurrentField.pointer
  /\ Place(PointerSize, PointerSize, NoType, FALSE)

IsPrimitive(type) == PrimitiveOf(typeDict, type) \in Primitives

PlacePrimitive ==
  /\ Placing /\ ~CurrentField.pointer /\ IsPrimitive(CurrentField.type)
  /\ LET prim == Prim[target][PrimitiveOf(typeDict, CurrentField.type)]
     IN  Place(prim.size, prim.align, NoType, FALSE)

\* Mutant: structs that are being laid out are entered again.
EnterableTwice(type) == Canonical(type) \in StructNames(typeDict)
Enterable(type) == Canonical(type) \in StructNames(typeDict) \ guard

EnterNested ==
  /\ Placing /\ ~CurrentField.pointer /\ ~IsPrimitive(CurrentField.type)
  /\ Enterable(CurrentField.type)
  /\ LET i == IndexOf(typeDict, Canonical(CurrentField.type))
     IN  frames' = Append(frames, Frame(i, NestedPack(typeDict.structs[i].pack)))
  /\ guard' = guard \cup {Canonical(CurrentField.type)}
  /\ UNCHANGED <<input, next, layouts>>

\* Neither a primitive nor a struct, or a struct that is being laid out.
PlaceUnknown ==
  /\ Placing /\ ~CurrentField.pointer /\ ~IsPrimitive(CurrentField.type)
  /\ ~Enterable(CurrentField.type)
  /\ Place(PointerSize, PointerSize, NoType, TRUE)

Complete == frames # <<>> /\ Len(Top.fields) = Len(Fields(Top))

\* The call for an embedded struct returns and its field is placed.
LeaveNested ==
  /\ Complete /\ Len(frames) > 1
  /\ LET depth  == Len(frames) - 1
         parent == frames[depth]
         field  == Fields(parent)[Len(parent.fields) + 1]
         nested == Finished(Top)
     IN  /\ frames' = [SubSeq(frames, 1, depth) EXCEPT ![depth] =
              Placed(parent, field, nested.size, nested.align, nested.name, nested.estimated)]
         /\ guard' = guard \ {nested.name}
  /\ UNCHANGED <<input, next, layouts>>

FinishStruct ==
  /\ Complete /\ Len(frames) = 1
  /\ layouts' = Append(layouts, Finished(Top))
  /\ frames' = <<>>
  /\ guard' = guard \ {Finished(Top).name}
  /\ next' = next + 1
  /\ UNCHANGED input

(***************************************************************************)
(* Specification                                                           *)
(***************************************************************************)
InitFrom(dicts) ==
  /\ typeDict \in dicts
  /\ target \in Targets
  /\ packOverride \in Overrides
  /\ typedefMap = TypedefMap(typeDict)
  /\ guard = {}
  /\ frames = <<>>
  /\ next = 1
  /\ layouts = <<>>

Init == InitFrom(TypeDicts)

Next ==
  \/ SkipEmpty \/ StartStruct
  \/ PlacePointer \/ PlacePrimitive \/ PlaceUnknown
  \/ EnterNested \/ LeaveNested \/ FinishStruct

Spec == Init /\ [][Next]_vars
FairSpec == Spec /\ WF_vars(Next)

Done == frames = <<>> /\ ~InCatalog(next)

(***************************************************************************)
(* Properties                                                              *)
(***************************************************************************)
PlacedField ==
  [offset : Nat, size : Nat, align : Aligns, member : TypeNames \cup {NoType}]
PaddingGap == [offset : Nat, size : Nat, align : Aligns, boundary : BOOLEAN]
FrameType ==
  [struct : Nat, pack : Aligns, fields : Seq(PlacedField), gaps : Seq(PaddingGap),
   offset : Nat, align : Aligns, padding : Nat, estimated : BOOLEAN]
LayoutType ==
  [name : TypeNames, fields : Seq(PlacedField), gaps : Seq(PaddingGap),
   size : Nat, align : Aligns, padding : Nat, estimated : BOOLEAN]

\* Types: sizes and offsets are natural numbers, alignments powers of two, and
\* every call works on a struct of the dictionary with a field left to place.
TypeOK ==
  /\ typeDict \in TypeDict /\ NamesOnce(typeDict)
  /\ target \in Targets /\ packOverride \in Overrides
  /\ guard \subseteq TypeNames
  /\ frames \in Seq(FrameType)
  /\ \A k \in DOMAIN frames :
       /\ frames[k].struct \in DOMAIN typeDict.structs
       /\ Len(frames[k].fields) <= Len(Fields(frames[k]))
       /\ k < Len(frames) => Len(frames[k].fields) < Len(Fields(frames[k]))
  /\ next \in Nat \ {0}
  /\ layouts \in Seq(LayoutType)

\* "Sum of every gap": the bytes of a layout are its fields and its located
\* gaps, in some order, each byte in exactly one of them.
Covers(piece, byte) == piece.offset <= byte /\ byte < piece.offset + piece.size
Ends(pieces, end) == \A i \in DOMAIN pieces : pieces[i].offset + pieces[i].size <= end
Disjoint(pieces, others) ==
  \A i \in DOMAIN pieces, j \in DOMAIN others :
    \/ pieces[i].offset + pieces[i].size <= others[j].offset
    \/ others[j].offset + others[j].size <= pieces[i].offset
Ascending(pieces) ==
  \A i, j \in DOMAIN pieces :
    i < j => pieces[i].offset + pieces[i].size <= pieces[j].offset
Tiled(fields, gaps, end) ==
  /\ Ends(fields, end) /\ Ends(gaps, end)
  /\ Ascending(fields) /\ Ascending(gaps) /\ Disjoint(fields, gaps)
  /\ \A byte \in 0 .. end - 1 :
       \/ \E i \in DOMAIN fields : Covers(fields[i], byte)
       \/ \E j \in DOMAIN gaps : Covers(gaps[j], byte)
LayoutsTiled == \A k \in DOMAIN layouts : Tiled(layouts[k].fields, layouts[k].gaps, layouts[k].size)

\* Every field is at a multiple of its alignment, and stays so in an array of
\* the struct or embedded at any offset the struct's alignment allows: the
\* alignment of each field divides the struct's, and that divides the size.
Aligned(fields, align) ==
  \A i \in DOMAIN fields :
    fields[i].offset % fields[i].align = 0 /\ align % fields[i].align = 0
LayoutsAligned ==
  \A k \in DOMAIN layouts :
    Aligned(layouts[k].fields, layouts[k].align) /\ layouts[k].size % layouts[k].align = 0

\* The global guard is the structs being laid out, each once: no early exit
\* leaves one behind (a struct used twice would count as recursive), and
\* structs that embed each other cannot recurse without end.
GuardHonest ==
  /\ guard = {typeDict.structs[frames[k].struct].name : k \in DOMAIN frames}
  /\ \A j, k \in DOMAIN frames : frames[j].struct = frames[k].struct => j = k

\* The catalogue is finished, whatever embeds what.
CatalogEnds == <>Done
==============================================================================
