---------------------------- MODULE LayoutProofs ----------------------------
(***************************************************************************)
(* What holds of every layout the engine computes, for every dictionary,   *)
(* every table of primitives and every number of hops: types, tiling,      *)
(* alignment and the recursion guard.                                      *)
(***************************************************************************)
EXTENDS Layout, SequenceTheorems, TLAPS

(***************************************************************************)
(* Arithmetic                                                              *)
(***************************************************************************)
\* alignUp returns the next multiple: not below the offset, less than one
\* alignment above it.
LEMMA AlignUpFacts ==
  ASSUME NEW offset \in Nat, NEW align \in Aligns
  PROVE  /\ AlignUp(offset, align) \in Nat
         /\ offset <= AlignUp(offset, align)
         /\ AlignUp(offset, align) % align = 0
<1>1. CASE align = 1
  BY <1>1 DEF AlignUp
<1>2. CASE align = 2
  BY <1>2 DEF AlignUp
<1>3. CASE align = 4
  BY <1>3 DEF AlignUp
<1>4. CASE align = 8
  BY <1>4 DEF AlignUp
<1>5. CASE align = 16
  BY <1>5 DEF AlignUp
<1> QED
  BY <1>1, <1>2, <1>3, <1>4, <1>5 DEF Aligns

\* Of two alignments the smaller divides the larger.
LEMMA AlignsDivide ==
  ASSUME NEW a \in Aligns, NEW b \in Aligns, a <= b
  PROVE  b % a = 0
BY DEF Aligns

LEMMA AlignsClosed ==
  ASSUME NEW a \in Aligns, NEW b \in Aligns
  PROVE  /\ Smaller(a, b) \in Aligns /\ Larger(a, b) \in Aligns
         /\ a <= Larger(a, b) /\ b <= Larger(a, b)
BY DEF Aligns, Smaller, Larger

LEMMA PacksAreAligns ==
  ASSUME target \in Targets, packOverride \in Overrides, NEW pack \in Aligns \cup {NoPack}
  PROVE  NestedPack(pack) \in Aligns /\ RootPack(pack) \in Aligns
BY LayoutAssumption DEF NestedPack, RootPack, OwnPack, DefaultPack, Aligns

\* An element of a sequence is of the type of its elements.
LEMMA ElementType ==
  ASSUME NEW S, NEW seq \in Seq(S), NEW i \in DOMAIN seq
  PROVE  seq[i] \in S
OBVIOUS

(***************************************************************************)
(* One field                                                               *)
(***************************************************************************)
LEMMA GapType ==
  ASSUME NEW frame \in FrameType, NEW aligned \in Nat, NEW align \in Aligns,
         NEW member \in TypeNames \cup {NoType}
  PROVE  Gap(frame, aligned, align, member) \in Seq(PaddingGap)
<1>1. CASE aligned <= frame.offset
  BY <1>1 DEF Gap
<1>2. CASE ~(aligned <= frame.offset)
  <2> DEFINE boundary == /\ frame.fields # <<>> /\ member # NoType
                         /\ frame.fields[Len(frame.fields)].member # NoType
             gap == [offset |-> frame.offset, size |-> aligned - frame.offset,
                     align |-> align, boundary |-> boundary]
  <2>1. boundary \in BOOLEAN
    OBVIOUS
  <2>2. frame.offset \in Nat /\ aligned - frame.offset \in Nat
    BY <1>2 DEF FrameType
  <2> HIDE DEF boundary
  <2>3. gap \in PaddingGap
    BY <2>1, <2>2 DEF PaddingGap
  <2>4. Gap(frame, aligned, align, member) = <<gap>>
    BY <1>2 DEF Gap, boundary
  <2> QED
    BY <2>3, <2>4
<1> QED
  BY <1>1, <1>2

\* A call after one more field: what every proof below uses of Placed.
Grown(frame, grown) ==
  \E new \in PlacedField, member \in TypeNames \cup {NoType} :
    /\ grown \in FrameType /\ grown.struct = frame.struct
    /\ frame.offset <= new.offset /\ new.offset % new.align = 0
    /\ grown.fields = Append(frame.fields, new)
    /\ Len(grown.fields) = Len(frame.fields) + 1
    /\ grown.gaps = frame.gaps \o Gap(frame, new.offset, new.align, member)
    /\ grown.offset = new.offset + new.size
    /\ grown.align = Larger(frame.align, new.align)

LEMMA PlacedGrown ==
  ASSUME NEW frame \in FrameType, NEW field \in Field, NEW size \in Nat,
         NEW align \in Aligns, NEW member \in TypeNames \cup {NoType},
         NEW estimated \in BOOLEAN
  PROVE  Grown(frame, Placed(frame, field, size, align, member, estimated))
<1> DEFINE effective == Smaller(align, frame.pack)
           aligned   == AlignUp(frame.offset, effective)
           total     == size * field.length
           gap == Gap(frame, aligned, effective, member)
           new == [offset |-> aligned, size |-> total, align |-> effective, member |-> member]
           placed == Placed(frame, field, size, align, member, estimated)
           guess == frame.estimated \/ estimated \/ field.array = "unsized"
<1>1. frame.pack \in Aligns /\ frame.align \in Aligns /\ frame.offset \in Nat
      /\ frame.padding \in Nat /\ frame.fields \in Seq(PlacedField)
      /\ frame.gaps \in Seq(PaddingGap) /\ frame.estimated \in BOOLEAN
  BY DEF FrameType
<1>2. effective \in Aligns
  BY <1>1, AlignsClosed
<1>3. aligned \in Nat /\ frame.offset <= aligned /\ aligned % effective = 0
  BY <1>1, <1>2, AlignUpFacts
<1>4. field.length \in Nat
  BY DEF Field
<1>5. total \in Nat
  BY <1>4
<1>6. gap \in Seq(PaddingGap)
  BY <1>2, <1>3, GapType
<1>7. guess \in BOOLEAN
  OBVIOUS
<1>8. Larger(frame.align, effective) \in Aligns
  BY <1>1, <1>2, AlignsClosed
<1>9. new = [offset |-> aligned, size |-> total, align |-> effective, member |-> member]
  OBVIOUS
<1>10. placed = [frame EXCEPT
         !.fields = Append(frame.fields, new), !.gaps = frame.gaps \o gap,
         !.offset = aligned + total, !.align = Larger(frame.align, effective),
         !.padding = frame.padding + (aligned - frame.offset), !.estimated = guess]
  BY <1>9 DEF Placed
<1>11. gap = Gap(frame, aligned, effective, member)
  OBVIOUS
<1> HIDE DEF effective, aligned, total, gap, guess, new, placed
<1>12. /\ new \in PlacedField /\ new.offset = aligned /\ new.size = total
       /\ new.align = effective
  BY <1>2, <1>3, <1>5, <1>9 DEF PlacedField
<1>13. Append(frame.fields, new) \in Seq(PlacedField) /\ frame.gaps \o gap \in Seq(PaddingGap)
  BY <1>1, <1>6, <1>12
<1>14. aligned + total \in Nat /\ frame.padding + (aligned - frame.offset) \in Nat
  BY <1>1, <1>3, <1>5
<1>15. placed \in FrameType
  BY <1>7, <1>8, <1>10, <1>13, <1>14 DEF FrameType
<1>16. /\ placed.struct = frame.struct /\ placed.fields = Append(frame.fields, new)
       /\ placed.gaps = frame.gaps \o gap /\ placed.offset = aligned + total
       /\ placed.align = Larger(frame.align, effective)
  BY <1>10 DEF FrameType
<1>17. Len(placed.fields) = Len(frame.fields) + 1
  BY <1>1, <1>12, <1>16
<1>18. Grown(frame, placed)
  BY <1>3, <1>11, <1>12, <1>15, <1>16, <1>17 DEF Grown
<1> QED
  BY <1>18 DEF placed

\* What the end of a call returns.
LEMMA FinishedParts ==
  ASSUME typeDict \in TypeDict, NEW frame \in FrameType,
         frame.struct \in DOMAIN typeDict.structs
  PROVE  LET total == AlignUp(frame.offset, frame.align)
             done  == Finished(frame)
         IN  /\ done \in LayoutType
             /\ frame.offset <= total /\ total % frame.align = 0
             /\ done.name = typeDict.structs[frame.struct].name
             /\ done.fields = frame.fields
             /\ done.gaps = frame.gaps \o TailGap(frame, total)
             /\ done.size = total /\ done.align = frame.align
<1> DEFINE total == AlignUp(frame.offset, frame.align)
           tail == TailGap(frame, total)
<1>1. frame.align \in Aligns /\ frame.offset \in Nat /\ frame.padding \in Nat
      /\ frame.fields \in Seq(PlacedField) /\ frame.gaps \in Seq(PaddingGap)
      /\ frame.estimated \in BOOLEAN
  BY DEF FrameType
<1>2. total \in Nat /\ frame.offset <= total /\ total % frame.align = 0
  BY <1>1, AlignUpFacts
<1>3. typeDict.structs[frame.struct].name \in TypeNames
  <2>1. typeDict.structs \in Seq(Struct)
    BY DEF TypeDict
  <2>2. typeDict.structs[frame.struct] \in Struct
    BY <2>1, ElementType
  <2> QED
    BY <2>2 DEF Struct
<1> HIDE DEF total
<1>4. tail \in Seq(PaddingGap)
  <2>1. CASE total <= frame.offset
    BY <2>1 DEF TailGap
  <2>2. CASE ~(total <= frame.offset)
    <3> DEFINE gap == [offset |-> frame.offset, size |-> total - frame.offset,
                       align |-> frame.align, boundary |-> FALSE]
    <3>1. total - frame.offset \in Nat /\ FALSE \in BOOLEAN
      BY <1>1, <1>2, <2>2
    <3>2. gap \in PaddingGap
      BY <1>1, <3>1 DEF PaddingGap
    <3>3. tail = <<gap>>
      BY <2>2 DEF TailGap
    <3> QED
      BY <3>2, <3>3
  <2> QED
    BY <2>1, <2>2
<1> HIDE DEF tail
<1>5. frame.gaps \o tail \in Seq(PaddingGap)
  BY <1>1, <1>4
<1>6. frame.padding + (total - frame.offset) \in Nat
  BY <1>1, <1>2
<1>7. Finished(frame) =
        [name |-> typeDict.structs[frame.struct].name, fields |-> frame.fields,
         gaps |-> frame.gaps \o tail, size |-> total, align |-> frame.align,
         padding |-> frame.padding + (total - frame.offset), estimated |-> frame.estimated]
  BY DEF Finished, total, tail
<1>8. Finished(frame) \in LayoutType
  BY <1>1, <1>2, <1>3, <1>5, <1>6, <1>7 DEF LayoutType
<1>9. /\ Finished(frame).name = typeDict.structs[frame.struct].name
      /\ Finished(frame).fields = frame.fields
      /\ Finished(frame).gaps = frame.gaps \o tail
      /\ Finished(frame).size = total /\ Finished(frame).align = frame.align
  BY <1>7
<1> QED
  BY <1>2, <1>8, <1>9 DEF total, tail

(***************************************************************************)
(* Types                                                                   *)
(***************************************************************************)
LEMMA TypesAtStart == Init => TypeOK
<1> SUFFICES ASSUME Init PROVE TypeOK
  OBVIOUS
<1>1. typeDict \in TypeDict /\ NamesOnce(typeDict)
  BY LayoutAssumption DEF Init, InitFrom
<1>2. <<>> \in Seq(FrameType) /\ <<>> \in Seq(LayoutType) /\ DOMAIN <<>> = {}
  OBVIOUS
<1> QED
  BY <1>1, <1>2 DEF Init, InitFrom, TypeOK

\* The call at the top, while there is one.
LEMMA TopType ==
  ASSUME TypeOK, frames # <<>>
  PROVE  /\ Len(frames) \in DOMAIN frames /\ Top = frames[Len(frames)]
         /\ Top \in FrameType /\ Top.struct \in DOMAIN typeDict.structs
         /\ Len(Top.fields) <= Len(Fields(Top))
BY DEF TypeOK, Top

LEMMA FieldsType ==
  ASSUME TypeOK, NEW frame \in FrameType, frame.struct \in DOMAIN typeDict.structs
  PROVE  Fields(frame) \in Seq(Field)
<1>1. typeDict.structs \in Seq(Struct)
  BY DEF TypeOK, TypeDict
<1>2. typeDict.structs[frame.struct] \in Struct
  BY <1>1, ElementType
<1> QED
  BY <1>2 DEF Fields, Struct

\* The call that is started for the i-th struct.
LEMMA FrameTyped ==
  ASSUME NEW i \in Nat, NEW pack \in Aligns
  PROVE  /\ Frame(i, pack) \in FrameType /\ Frame(i, pack).struct = i
         /\ Frame(i, pack).fields = <<>> /\ Frame(i, pack).gaps = <<>>
         /\ Frame(i, pack).offset = 0 /\ Frame(i, pack).align = 1
<1>1. <<>> \in Seq(PlacedField) /\ <<>> \in Seq(PaddingGap) /\ 1 \in Aligns /\ FALSE \in BOOLEAN
  BY DEF Aligns
<1> QED
  BY <1>1 DEF Frame, FrameType

LEMMA IndexOfFacts ==
  ASSUME NEW dict, NEW name \in StructNames(dict)
  PROVE  IndexOf(dict, name) \in DOMAIN dict.structs
         /\ dict.structs[IndexOf(dict, name)].name = name
<1>1. PICK i \in DOMAIN dict.structs : dict.structs[i].name = name
  BY DEF StructNames
<1> QED
  BY <1>1 DEF IndexOf

LEMMA StructFacts ==
  ASSUME TypeOK, NEW i \in DOMAIN typeDict.structs
  PROVE  /\ i \in Nat /\ typeDict.structs[i].name \in TypeNames
         /\ typeDict.structs[i].pack \in Aligns \cup {NoPack}
         /\ typeDict.structs[i].fields \in Seq(Field)
<1>1. typeDict.structs \in Seq(Struct)
  BY DEF TypeOK, TypeDict
<1>2. typeDict.structs[i] \in Struct
  BY <1>1, ElementType
<1> QED
  BY <1>1, <1>2 DEF Struct

LEMMA CurrentFieldType ==
  ASSUME TypeOK, Placing
  PROVE  CurrentField \in Field
<1>1. frames # <<>>
  BY DEF Placing
<1>2. Top \in FrameType /\ Top.struct \in DOMAIN typeDict.structs
  BY <1>1, TopType
<1>3. Fields(Top) \in Seq(Field) /\ Len(Top.fields) \in Nat
  BY <1>2, FieldsType DEF FrameType
<1> QED
  BY <1>3 DEF Placing, CurrentField

LEMMA PointerSizeType == TypeOK => PointerSize \in Nat /\ PointerSize \in Aligns
BY DEF PointerSize, Aligns

\* The primitive a name stands for has a size and an alignment.
LEMMA PrimType ==
  ASSUME TypeOK, NEW type, IsPrimitive(type)
  PROVE  /\ Prim[target][PrimitiveOf(typeDict, type)].size \in Nat
         /\ Prim[target][PrimitiveOf(typeDict, type)].align \in Aligns
BY LayoutAssumption DEF TypeOK, IsPrimitive

(***************************************************************************)
(* Steps                                                                   *)
(***************************************************************************)
\* A step that places a field in the call at `depth` and ends those above it.
PlacesInto(depth) ==
  /\ depth \in DOMAIN frames
  /\ Len(frames[depth].fields) < Len(Fields(frames[depth]))
  /\ frames' \in Seq(FrameType) /\ DOMAIN frames' = 1 .. depth /\ Len(frames') = depth
  /\ \A k \in 1 .. depth : k # depth => frames'[k] = frames[k]
  /\ Grown(frames[depth], frames'[depth])

LEMMA PlaceAtTop ==
  ASSUME TypeOK, Placing, NEW size \in Nat, NEW align \in Aligns,
         NEW estimated \in BOOLEAN, Place(size, align, NoType, estimated)
  PROVE  PlacesInto(Len(frames))
<1> DEFINE placed == Placed(Top, CurrentField, size, align, NoType, estimated)
<1>1. frames # <<>> /\ frames \in Seq(FrameType)
  BY DEF Placing, TypeOK
<1>2. Top \in FrameType /\ Len(frames) \in DOMAIN frames /\ Top = frames[Len(frames)]
  BY <1>1, TopType
<1>3. Grown(Top, placed)
  BY <1>2, CurrentFieldType, PlacedGrown
<1>4. frames' = [frames EXCEPT ![Len(frames)] = placed]
  BY DEF Place
<1> HIDE DEF placed
<1>5. placed \in FrameType
  BY <1>3 DEF Grown
<1> QED
  BY <1>1, <1>2, <1>3, <1>4, <1>5 DEF PlacesInto, Placing

\* How each action places a field: at the top, with these sizes.
LEMMA PlacedByAction ==
  ASSUME TypeOK, PlacePointer \/ PlacePrimitive \/ PlaceUnknown
  PROVE  Placing /\ \E size \in Nat, align \in Aligns, estimated \in BOOLEAN :
           Place(size, align, NoType, estimated)
<1>1. CASE PlacePointer
  BY <1>1, PointerSizeType DEF PlacePointer
<1>2. CASE PlacePrimitive
  <2>1. IsPrimitive(CurrentField.type) /\ Placing
    BY <1>2 DEF PlacePrimitive
  <2> DEFINE prim == Prim[target][PrimitiveOf(typeDict, CurrentField.type)]
  <2>2. prim.size \in Nat /\ prim.align \in Aligns
    BY <2>1, PrimType
  <2>3. Place(prim.size, prim.align, NoType, FALSE)
    BY <1>2 DEF PlacePrimitive
  <2> HIDE DEF prim
  <2> QED
    BY <2>1, <2>2, <2>3
<1>3. CASE PlaceUnknown
  BY <1>3, PointerSizeType DEF PlaceUnknown
<1> QED
  BY <1>1, <1>2, <1>3

LEMMA PlaceActions ==
  ASSUME TypeOK, PlacePointer \/ PlacePrimitive \/ PlaceUnknown
  PROVE  PlacesInto(Len(frames)) /\ UNCHANGED <<input, guard, next, layouts>>
BY PlacedByAction, PlaceAtTop DEF Place

LEMMA LeaveNestedPlaces ==
  ASSUME TypeOK, LeaveNested
  PROVE  PlacesInto(Len(frames) - 1)
<1> DEFINE depth  == Len(frames) - 1
           parent == frames[depth]
           field  == Fields(parent)[Len(parent.fields) + 1]
           nested == Finished(Top)
           placed == Placed(parent, field, nested.size, nested.align, nested.name, nested.estimated)
<1>1. frames \in Seq(FrameType) /\ Len(frames) > 1 /\ frames # <<>>
  BY DEF LeaveNested, TypeOK
<1>2. depth \in DOMAIN frames /\ depth < Len(frames) /\ depth \in Nat
  BY <1>1
<1>3. frames' = [SubSeq(frames, 1, depth) EXCEPT ![depth] = placed]
  BY DEF LeaveNested
<1> HIDE DEF depth
<1>4. parent \in FrameType /\ parent.struct \in DOMAIN typeDict.structs
      /\ Len(parent.fields) < Len(Fields(parent))
  BY <1>1, <1>2 DEF TypeOK
<1>5. Fields(parent) \in Seq(Field) /\ Len(parent.fields) \in Nat
  BY <1>4, FieldsType DEF FrameType
<1>6. field \in Field
  BY <1>4, <1>5
<1>7. nested \in LayoutType
  BY <1>1, TopType, FinishedParts DEF TypeOK
<1>8. nested.size \in Nat /\ nested.align \in Aligns /\ nested.name \in TypeNames
      /\ nested.estimated \in BOOLEAN
  BY <1>7 DEF LayoutType
<1> HIDE DEF field, nested
<1>9. Grown(parent, placed)
  BY <1>4, <1>6, <1>8, PlacedGrown
<1> HIDE DEF placed
<1>10. placed \in FrameType
  BY <1>9 DEF Grown
<1>11. /\ SubSeq(frames, 1, depth) \in Seq(FrameType) /\ Len(SubSeq(frames, 1, depth)) = depth
       /\ \A k \in 1 .. depth : SubSeq(frames, 1, depth)[k] = frames[k]
  BY <1>1, <1>2
<1> DEFINE kept == SubSeq(frames, 1, depth)
<1>12. frames' = [kept EXCEPT ![depth] = placed] /\ kept \in Seq(FrameType) /\ Len(kept) = depth
       /\ \A k \in 1 .. depth : kept[k] = frames[k]
  BY <1>3, <1>11
<1> HIDE DEF kept
<1>13. /\ frames' \in Seq(FrameType) /\ DOMAIN frames' = 1 .. depth /\ Len(frames') = depth
       /\ \A k \in 1 .. depth : k # depth => frames'[k] = frames[k]
       /\ frames'[depth] = placed
  BY <1>2, <1>10, <1>12
<1> QED
  BY <1>2, <1>4, <1>9, <1>13 DEF PlacesInto, depth

\* A step that starts the call for the i-th struct.
Opens(i, pack) ==
  /\ i \in DOMAIN typeDict.structs /\ pack \in Aligns
  /\ frames = <<>> \/ Placing
  /\ frames' = Append(frames, Frame(i, pack))

LEMMA StartStructOpens ==
  ASSUME TypeOK, StartStruct
  PROVE  \E pack \in Aligns : Opens(next, pack)
<1>1. next \in DOMAIN typeDict.structs
  BY DEF StartStruct, InCatalog
<1> DEFINE pack == RootPack(typeDict.structs[next].pack)
<1>2. pack \in Aligns
  BY <1>1, StructFacts, PacksAreAligns DEF TypeOK
<1>3. frames = <<>> /\ frames' = <<Frame(next, pack)>>
  BY DEF StartStruct
<1> HIDE DEF pack
<1>4. frames' = Append(frames, Frame(next, pack))
  BY <1>3
<1> QED
  BY <1>1, <1>2, <1>3, <1>4 DEF Opens

LEMMA EnterNestedOpens ==
  ASSUME TypeOK, EnterNested
  PROVE  \E i \in DOMAIN typeDict.structs :
           /\ \E pack \in Aligns : Opens(i, pack)
           /\ typeDict.structs[i].name \notin guard
           /\ guard' = guard \cup {typeDict.structs[i].name}
<1> DEFINE name == Canonical(CurrentField.type)
           i    == IndexOf(typeDict, name)
           pack == NestedPack(typeDict.structs[i].pack)
<1>1. name \in StructNames(typeDict) /\ name \notin guard
  BY DEF EnterNested, Enterable
<1>2. i \in DOMAIN typeDict.structs /\ typeDict.structs[i].name = name
  BY <1>1, IndexOfFacts
<1>3. pack \in Aligns
  BY <1>2, StructFacts, PacksAreAligns DEF TypeOK
<1>4. Placing /\ frames' = Append(frames, Frame(i, pack)) /\ guard' = guard \cup {name}
  BY DEF EnterNested
<1> HIDE DEF name, i, pack
<1>5. Opens(i, pack)
  BY <1>2, <1>3, <1>4 DEF Opens
<1> QED
  BY <1>1, <1>2, <1>3, <1>4, <1>5

\* What the frames are after such steps.
LEMMA OpensFrames ==
  ASSUME TypeOK, NEW i, NEW pack, Opens(i, pack)
  PROVE  /\ frames' \in Seq(FrameType) /\ Len(frames') = Len(frames) + 1
         /\ DOMAIN frames' = 1 .. Len(frames) + 1 /\ Len(frames) \in Nat
         /\ \A k \in DOMAIN frames : frames'[k] = frames[k]
         /\ frames'[Len(frames) + 1] = Frame(i, pack)
         /\ i \in DOMAIN typeDict.structs /\ pack \in Aligns
         /\ Frame(i, pack) \in FrameType
<1>1. i \in Nat /\ i \in DOMAIN typeDict.structs /\ pack \in Aligns
  BY StructFacts DEF Opens
<1>2. Frame(i, pack) \in FrameType
  BY <1>1, FrameTyped
<1>3. frames \in Seq(FrameType) /\ frames' = Append(frames, Frame(i, pack))
  BY DEF Opens, TypeOK
<1> QED
  BY <1>1, <1>2, <1>3

(***************************************************************************)
(* Types are kept                                                          *)
(***************************************************************************)
\* The part of the type invariant about one call.
FrameFits(k) ==
  /\ frames[k].struct \in DOMAIN typeDict.structs
  /\ Len(frames[k].fields) <= Len(Fields(frames[k]))
  /\ k < Len(frames) => Len(frames[k].fields) < Len(Fields(frames[k]))

LEMMA TypesFromFrames ==
  ASSUME TypeOK, UNCHANGED <<input, next, layouts>>, guard' \subseteq TypeNames,
         frames' \in Seq(FrameType), \A k \in DOMAIN frames' : FrameFits(k)'
  PROVE  TypeOK'
BY DEF TypeOK, input, FrameFits, Fields

LEMMA OpensTyped ==
  ASSUME TypeOK, NEW i, NEW pack, Opens(i, pack), UNCHANGED <<input, next, layouts>>,
         guard' \subseteq TypeNames
  PROVE  TypeOK'
<1>1. typeDict' = typeDict
  BY DEF input
<1>2. ASSUME NEW k \in DOMAIN frames' PROVE FrameFits(k)'
  <2>1. CASE k = Len(frames) + 1
    <3>1. frames'[k] = Frame(i, pack) /\ Len(frames') = k /\ i \in DOMAIN typeDict.structs
      BY <2>1, OpensFrames
    <3>2. Frame(i, pack).struct = i /\ Frame(i, pack).fields = <<>>
      BY DEF Frame
    <3>3. Len(typeDict.structs[i].fields) \in Nat
      BY <3>1, StructFacts
    <3> QED
      BY <1>1, <3>1, <3>2, <3>3 DEF FrameFits, Fields
  <2>2. CASE k # Len(frames) + 1
    <3>1. k \in DOMAIN frames /\ frames'[k] = frames[k] /\ frames \in Seq(FrameType)
      BY <2>2, OpensFrames DEF TypeOK
    <3>2. Len(frames[k].fields) < Len(Fields(frames[k]))
      BY <3>1 DEF TypeOK, Opens, Placing, Top
    <3> QED
      BY <1>1, <3>1, <3>2 DEF TypeOK, FrameFits, Fields
  <2> QED
    BY <2>1, <2>2
<1> QED
  BY <1>2, OpensFrames, TypesFromFrames

LEMMA PlacesTyped ==
  ASSUME TypeOK, NEW depth, PlacesInto(depth), UNCHANGED <<input, next, layouts>>,
         guard' \subseteq TypeNames
  PROVE  TypeOK'
<1>1. typeDict' = typeDict
  BY DEF input
<1>2. frames \in Seq(FrameType) /\ depth \in DOMAIN frames /\ frames' \in Seq(FrameType)
      /\ DOMAIN frames' = 1 .. depth /\ Len(frames') = depth /\ depth \in Nat
  BY DEF TypeOK, PlacesInto
<1>3. ASSUME NEW k \in DOMAIN frames' PROVE FrameFits(k)'
  <2>1. CASE k = depth
    <3>1. frames'[k].struct = frames[k].struct
          /\ Len(frames'[k].fields) = Len(frames[k].fields) + 1
          /\ Len(frames[k].fields) < Len(Fields(frames[k]))
      BY <2>1 DEF PlacesInto, Grown
    <3>2. frames[k].struct \in DOMAIN typeDict.structs /\ frames[k] \in FrameType
      BY <1>2, <2>1 DEF TypeOK
    <3>3. Len(frames[k].fields) \in Nat /\ Len(Fields(frames[k])) \in Nat
      BY <3>2, FieldsType DEF FrameType
    <3>4. Fields(frames'[k]) = Fields(frames[k])
      BY <3>1 DEF Fields
    <3> QED
      BY <1>1, <1>2, <2>1, <3>1, <3>2, <3>3, <3>4 DEF FrameFits, Fields
  <2>2. CASE k # depth
    <3>1. frames'[k] = frames[k] /\ k \in DOMAIN frames /\ k < Len(frames)
      BY <1>2, <2>2 DEF PlacesInto
    <3> QED
      BY <1>1, <3>1 DEF TypeOK, FrameFits, Fields
  <2> QED
    BY <2>1, <2>2
<1> QED
  BY <1>2, <1>3, TypesFromFrames

LEMMA TypesKept == TypeOK /\ [Next]_vars => TypeOK'
<1> SUFFICES ASSUME TypeOK, [Next]_vars PROVE TypeOK'
  OBVIOUS
<1>1. CASE SkipEmpty
  BY <1>1 DEF SkipEmpty, TypeOK, input, InCatalog, Fields
<1>2. CASE StartStruct
  <2>1. next \in DOMAIN typeDict.structs /\ guard' = {typeDict.structs[next].name}
        /\ UNCHANGED <<input, next, layouts>>
    BY <1>2 DEF StartStruct, InCatalog
  <2>2. guard' \subseteq TypeNames
    BY <2>1, StructFacts
  <2> QED
    BY <1>2, <2>1, <2>2, StartStructOpens, OpensTyped
<1>3. CASE PlacePointer \/ PlacePrimitive \/ PlaceUnknown
  BY <1>3, PlaceActions, PlacesTyped DEF TypeOK
<1>4. CASE EnterNested
  <2>1. guard' \subseteq TypeNames
    BY <1>4, EnterNestedOpens, StructFacts DEF TypeOK
  <2>2. UNCHANGED <<input, next, layouts>>
    BY <1>4 DEF EnterNested
  <2> QED
    BY <1>4, <2>1, <2>2, EnterNestedOpens, OpensTyped
<1>5. CASE LeaveNested
  <2>1. UNCHANGED <<input, next, layouts>> /\ guard' \subseteq TypeNames
    BY <1>5 DEF LeaveNested, TypeOK
  <2> QED
    BY <1>5, <2>1, LeaveNestedPlaces, PlacesTyped
<1>6. CASE FinishStruct
  <2>1. frames # <<>> /\ layouts' = Append(layouts, Finished(Top)) /\ frames' = <<>>
        /\ guard' \subseteq guard /\ next' = next + 1 /\ UNCHANGED input
    BY <1>6 DEF FinishStruct, Complete
  <2>2. Finished(Top) \in LayoutType
    BY <2>1, TopType, FinishedParts DEF TypeOK
  <2>3. layouts' \in Seq(LayoutType) /\ frames' \in Seq(FrameType) /\ DOMAIN frames' = {}
    BY <2>1, <2>2 DEF TypeOK
  <2> QED
    BY <2>1, <2>3 DEF TypeOK, input
<1>7. CASE UNCHANGED vars
  BY <1>7 DEF vars, input, TypeOK, Fields
<1> QED
  BY <1>1, <1>2, <1>3, <1>4, <1>5, <1>6, <1>7 DEF Next

\* Every call and every layout of the engine is well-typed: alignments stay powers of two,
\* sizes and offsets natural numbers, and no call runs past the fields of its struct.
THEOREM LayoutTypeCorrect == Spec => []TypeOK
<1>1. Init => TypeOK
  BY TypesAtStart
<1>2. TypeOK /\ [Next]_vars => TypeOK'
  BY TypesKept
<1> QED
  BY <1>1, <1>2, PTL DEF Spec

(***************************************************************************)
(* Where the calls and the layouts of the next state come from             *)
(***************************************************************************)
LEMMA FramesFrom ==
  ASSUME TypeOK, [Next]_vars, NEW k \in DOMAIN frames'
  PROVE  \/ k \in DOMAIN frames /\ frames'[k] = frames[k]
         \/ k \in DOMAIN frames /\ Grown(frames[k], frames'[k])
         \/ \E i \in Nat, pack \in Aligns : frames'[k] = Frame(i, pack)
<1> DEFINE From == \/ k \in DOMAIN frames /\ frames'[k] = frames[k]
                   \/ k \in DOMAIN frames /\ Grown(frames[k], frames'[k])
                   \/ \E i \in Nat, pack \in Aligns : frames'[k] = Frame(i, pack)
<1>1. ASSUME NEW i, NEW pack, Opens(i, pack) PROVE From
  <2>1. i \in Nat /\ pack \in Aligns
    BY <1>1, StructFacts DEF Opens
  <2>2. frames \in Seq(FrameType)
    BY DEF TypeOK
  <2> QED
    BY <1>1, <2>1, <2>2, OpensFrames
<1>2. ASSUME NEW depth, PlacesInto(depth) PROVE From
  <2>1. frames \in Seq(FrameType)
    BY DEF TypeOK
  <2> QED
    BY <1>2, <2>1 DEF PlacesInto
<1>3. ASSUME UNCHANGED frames PROVE From
  BY <1>3
<1>4. ASSUME frames' = <<>> PROVE From
  BY <1>4
<1> HIDE DEF From
<1>5. From
  <2>1. CASE SkipEmpty \/ UNCHANGED vars
    <3>1. UNCHANGED frames
      BY <2>1 DEF SkipEmpty, vars
    <3> QED
      BY <3>1, <1>3
  <2>2. CASE StartStruct
    BY <2>2, <1>1, StartStructOpens
  <2>3. CASE PlacePointer \/ PlacePrimitive \/ PlaceUnknown
    BY <2>3, <1>2, PlaceActions
  <2>4. CASE EnterNested
    BY <2>4, <1>1, EnterNestedOpens
  <2>5. CASE LeaveNested
    BY <2>5, <1>2, LeaveNestedPlaces
  <2>6. CASE FinishStruct
    BY <2>6, <1>4 DEF FinishStruct
  <2> QED
    BY <2>1, <2>2, <2>3, <2>4, <2>5, <2>6 DEF Next
<1> QED
  BY <1>5 DEF From

LEMMA LayoutsFrom ==
  ASSUME TypeOK, [Next]_vars, NEW k \in DOMAIN layouts'
  PROVE  \/ k \in DOMAIN layouts /\ layouts'[k] = layouts[k]
         \/ \E j \in DOMAIN frames : layouts'[k] = Finished(frames[j])
<1>1. CASE UNCHANGED layouts
  BY <1>1
<1>2. CASE FinishStruct
  <2>1. frames # <<>> /\ layouts' = Append(layouts, Finished(Top)) /\ layouts \in Seq(LayoutType)
    BY <1>2 DEF FinishStruct, Complete, TypeOK
  <2>2. Len(frames) \in DOMAIN frames /\ Top = frames[Len(frames)]
    BY <2>1, TopType
  <2>3. (k \in DOMAIN layouts /\ layouts'[k] = layouts[k]) \/ layouts'[k] = Finished(Top)
    BY <2>1
  <2> QED
    BY <2>2, <2>3
<1>3. ~FinishStruct => UNCHANGED layouts
  BY DEF Next, vars, SkipEmpty, StartStruct, PlacePointer, PlacePrimitive, PlaceUnknown,
         Place, EnterNested, LeaveNested
<1> QED
  BY <1>1, <1>2, <1>3

(***************************************************************************)
(* Tiling                                                                  *)
(***************************************************************************)
\* What the lemmas below need of a sequence of fields or of gaps.
Spans(pieces) == \A i \in DOMAIN pieces : pieces[i].offset \in Nat /\ pieces[i].size \in Nat
Behind(pieces, more, piece) ==
  /\ Len(pieces) \in Nat /\ DOMAIN pieces = 1 .. Len(pieces)
  /\ DOMAIN more = 1 .. Len(pieces) + 1
  /\ \A i \in DOMAIN pieces : more[i] = pieces[i]
  /\ more[Len(pieces) + 1] = piece
  /\ piece.offset \in Nat /\ piece.size \in Nat

LEMMA FieldsSpan ==
  ASSUME NEW fields \in Seq(PlacedField), NEW new \in PlacedField
  PROVE  Spans(fields) /\ Behind(fields, Append(fields, new), new)
<1>1. ASSUME NEW i \in DOMAIN fields PROVE fields[i].offset \in Nat /\ fields[i].size \in Nat
  <2>1. fields[i] \in PlacedField
    BY ElementType
  <2> QED
    BY <2>1 DEF PlacedField
<1>2. new.offset \in Nat /\ new.size \in Nat
  BY DEF PlacedField
<1>3. /\ Len(fields) \in Nat /\ DOMAIN fields = 1 .. Len(fields)
      /\ DOMAIN Append(fields, new) = 1 .. Len(fields) + 1
      /\ \A i \in DOMAIN fields : Append(fields, new)[i] = fields[i]
      /\ Append(fields, new)[Len(fields) + 1] = new
  OBVIOUS
<1> QED
  BY <1>1, <1>2, <1>3 DEF Spans, Behind

LEMMA GapsSpan ==
  ASSUME NEW gaps \in Seq(PaddingGap), NEW gap \in PaddingGap
  PROVE  Spans(gaps) /\ Behind(gaps, Append(gaps, gap), gap)
<1>1. ASSUME NEW i \in DOMAIN gaps PROVE gaps[i].offset \in Nat /\ gaps[i].size \in Nat
  <2>1. gaps[i] \in PaddingGap
    BY ElementType
  <2> QED
    BY <2>1 DEF PaddingGap
<1>2. gap.offset \in Nat /\ gap.size \in Nat
  BY DEF PaddingGap
<1>3. /\ Len(gaps) \in Nat /\ DOMAIN gaps = 1 .. Len(gaps)
      /\ DOMAIN Append(gaps, gap) = 1 .. Len(gaps) + 1
      /\ \A i \in DOMAIN gaps : Append(gaps, gap)[i] = gaps[i]
      /\ Append(gaps, gap)[Len(gaps) + 1] = gap
  OBVIOUS
<1> QED
  BY <1>1, <1>2, <1>3 DEF Spans, Behind

\* A piece that starts where all others have ended.
LEMMA EndsLater ==
  ASSUME NEW pieces, Spans(pieces), NEW end \in Nat, NEW size \in Nat, Ends(pieces, end)
  PROVE  Ends(pieces, end + size)
<1>1. ASSUME NEW i \in DOMAIN pieces PROVE pieces[i].offset + pieces[i].size <= end + size
  <2>1. pieces[i].offset \in Nat /\ pieces[i].size \in Nat
    BY DEF Spans
  <2>2. pieces[i].offset + pieces[i].size <= end
    BY DEF Ends
  <2> QED
    BY <2>1, <2>2
<1> QED
  BY <1>1 DEF Ends

LEMMA EndsBehind ==
  ASSUME NEW pieces, NEW more, NEW piece, Spans(pieces), Behind(pieces, more, piece),
         NEW end \in Nat, Ends(pieces, end), piece.offset = end
  PROVE  Ends(more, end + piece.size)
<1>1. Ends(pieces, end + piece.size) /\ piece.size \in Nat
  BY EndsLater DEF Behind
<1>2. ASSUME NEW i \in DOMAIN more PROVE more[i].offset + more[i].size <= end + piece.size
  <2>1. CASE i \in DOMAIN pieces
    BY <1>1, <2>1 DEF Ends, Behind
  <2>2. CASE i = Len(pieces) + 1
    BY <1>1, <2>2 DEF Behind
  <2> QED
    BY <2>1, <2>2 DEF Behind
<1> QED
  BY <1>2 DEF Ends

LEMMA AscendingBehind ==
  ASSUME NEW pieces, NEW more, NEW piece, Spans(pieces), Behind(pieces, more, piece),
         Ends(pieces, piece.offset), Ascending(pieces)
  PROVE  Ascending(more)
<1>1. ASSUME NEW i \in DOMAIN more, NEW j \in DOMAIN more, i < j
      PROVE  more[i].offset + more[i].size <= more[j].offset
  <2>1. i \in DOMAIN pieces /\ more[i] = pieces[i]
    BY <1>1 DEF Behind
  <2>2. CASE j \in DOMAIN pieces
    BY <1>1, <2>1, <2>2 DEF Behind, Ascending
  <2>3. CASE j = Len(pieces) + 1
    BY <2>1, <2>3 DEF Behind, Ends
  <2> QED
    BY <2>2, <2>3 DEF Behind
<1> QED
  BY <1>1 DEF Ascending

LEMMA DisjointBehind ==
  ASSUME NEW pieces, NEW more, NEW piece, NEW others, Behind(pieces, more, piece),
         Ends(others, piece.offset), Disjoint(pieces, others)
  PROVE  Disjoint(more, others)
<1>1. ASSUME NEW i \in DOMAIN more, NEW j \in DOMAIN others
      PROVE  \/ more[i].offset + more[i].size <= others[j].offset
             \/ others[j].offset + others[j].size <= more[i].offset
  <2>1. CASE i \in DOMAIN pieces
    BY <2>1 DEF Behind, Disjoint
  <2>2. CASE i = Len(pieces) + 1
    BY <2>2 DEF Behind, Ends
  <2> QED
    BY <2>1, <2>2 DEF Behind
<1> QED
  BY <1>1 DEF Disjoint

LEMMA DisjointEitherWay ==
  ASSUME NEW pieces, NEW others, Disjoint(pieces, others)
  PROVE  Disjoint(others, pieces)
BY DEF Disjoint

LEMMA CoversBehind ==
  ASSUME NEW pieces, NEW more, NEW piece, NEW others, Behind(pieces, more, piece),
         NEW end \in Nat, piece.offset = end,
         \A byte \in 0 .. end - 1 : \/ \E i \in DOMAIN pieces : Covers(pieces[i], byte)
                                    \/ \E j \in DOMAIN others : Covers(others[j], byte),
         NEW byte \in 0 .. (end + piece.size) - 1
  PROVE  \/ \E i \in DOMAIN more : Covers(more[i], byte)
         \/ \E j \in DOMAIN others : Covers(others[j], byte)
<1>1. CASE byte < end
  <2>1. CASE \E j \in DOMAIN others : Covers(others[j], byte)
    BY <2>1
  <2>2. CASE \E i \in DOMAIN pieces : Covers(pieces[i], byte)
    <3>1. PICK i \in DOMAIN pieces : Covers(pieces[i], byte)
      BY <2>2
    <3>2. i \in DOMAIN more /\ more[i] = pieces[i]
      BY DEF Behind
    <3> QED
      BY <3>1, <3>2
  <2>3. byte \in 0 .. end - 1
    BY <1>1 DEF Behind
  <2> QED
    BY <2>1, <2>2, <2>3
<1>2. CASE ~(byte < end)
  <2>1. Covers(more[Len(pieces) + 1], byte)
    BY <1>2 DEF Covers, Behind
  <2>2. Len(pieces) + 1 \in DOMAIN more
    BY DEF Behind
  <2> QED
    BY <2>1, <2>2
<1> QED
  BY <1>1, <1>2

\* A gap at the end keeps the bytes tiled.
LEMMA TiledByGap ==
  ASSUME NEW fields \in Seq(PlacedField), NEW gaps \in Seq(PaddingGap), NEW end \in Nat,
         Tiled(fields, gaps, end), NEW gap \in PaddingGap, gap.offset = end
  PROVE  Tiled(fields, Append(gaps, gap), end + gap.size)
<1> DEFINE more == Append(gaps, gap)
<1>1. Spans(gaps) /\ Behind(gaps, more, gap) /\ gap.size \in Nat
  BY GapsSpan DEF PaddingGap
<1>2. Spans(fields)
  <2>1. [offset |-> 0, size |-> 0, align |-> 1, member |-> NoType] \in PlacedField
    BY DEF PlacedField, Aligns
  <2> QED
    BY <2>1, FieldsSpan
<1> HIDE DEF more
<1>3. /\ Ends(fields, end) /\ Ends(gaps, end)
      /\ Ascending(fields) /\ Ascending(gaps) /\ Disjoint(gaps, fields)
  BY DisjointEitherWay DEF Tiled
<1>4. Ends(fields, end + gap.size) /\ Ends(more, end + gap.size)
  BY <1>1, <1>2, <1>3, EndsLater, EndsBehind
<1>5. Ascending(fields) /\ Ascending(more)
  BY <1>1, <1>3, AscendingBehind
<1>6. Disjoint(fields, more)
  BY <1>1, <1>3, DisjointBehind, DisjointEitherWay
<1>7. \A byte \in 0 .. end - 1 : \/ \E j \in DOMAIN gaps : Covers(gaps[j], byte)
                                 \/ \E i \in DOMAIN fields : Covers(fields[i], byte)
  BY DEF Tiled
<1>8. ASSUME NEW byte \in 0 .. (end + gap.size) - 1
      PROVE  \/ \E i \in DOMAIN fields : Covers(fields[i], byte)
             \/ \E j \in DOMAIN more : Covers(more[j], byte)
  BY <1>1, <1>7, CoversBehind
<1>9. Tiled(fields, more, end + gap.size)
  BY <1>4, <1>5, <1>6, <1>8 DEF Tiled
<1> QED
  BY <1>9 DEF more

\* So does a field.
LEMMA TiledByField ==
  ASSUME NEW fields \in Seq(PlacedField), NEW gaps \in Seq(PaddingGap), NEW end \in Nat,
         Tiled(fields, gaps, end), NEW new \in PlacedField, new.offset = end
  PROVE  Tiled(Append(fields, new), gaps, end + new.size)
<1> DEFINE more == Append(fields, new)
<1>1. Spans(fields) /\ Behind(fields, more, new) /\ new.size \in Nat
  BY FieldsSpan DEF PlacedField
<1>2. Spans(gaps)
  <2>1. [offset |-> 0, size |-> 0, align |-> 1, boundary |-> FALSE] \in PaddingGap
    BY DEF PaddingGap, Aligns
  <2> QED
    BY <2>1, GapsSpan
<1> HIDE DEF more
<1>3. /\ Ends(fields, end) /\ Ends(gaps, end)
      /\ Ascending(fields) /\ Ascending(gaps) /\ Disjoint(fields, gaps)
  BY DEF Tiled
<1>4. Ends(gaps, end + new.size) /\ Ends(more, end + new.size)
  BY <1>1, <1>2, <1>3, EndsLater, EndsBehind
<1>5. Ascending(gaps) /\ Ascending(more)
  BY <1>1, <1>3, AscendingBehind
<1>6. Disjoint(more, gaps)
  BY <1>1, <1>3, DisjointBehind
<1>7. \A byte \in 0 .. end - 1 : \/ \E i \in DOMAIN fields : Covers(fields[i], byte)
                                 \/ \E j \in DOMAIN gaps : Covers(gaps[j], byte)
  BY DEF Tiled
<1>8. ASSUME NEW byte \in 0 .. (end + new.size) - 1
      PROVE  \/ \E i \in DOMAIN more : Covers(more[i], byte)
             \/ \E j \in DOMAIN gaps : Covers(gaps[j], byte)
  BY <1>1, <1>7, CoversBehind
<1>9. Tiled(more, gaps, end + new.size)
  BY <1>4, <1>5, <1>6, <1>8 DEF Tiled
<1> QED
  BY <1>9 DEF more

FrameTiled(frame) == Tiled(frame.fields, frame.gaps, frame.offset)

LEMMA NewTiled ==
  ASSUME NEW i \in Nat, NEW pack \in Aligns
  PROVE  FrameTiled(Frame(i, pack))
<1>1. /\ Frame(i, pack).fields = <<>> /\ Frame(i, pack).gaps = <<>>
      /\ Frame(i, pack).offset = 0
  BY FrameTyped
<1>2. DOMAIN <<>> = {} /\ 0 .. 0 - 1 = {}
  OBVIOUS
<1>3. Tiled(<<>>, <<>>, 0)
  BY <1>2 DEF Tiled, Ends, Ascending, Disjoint
<1> QED
  BY <1>1, <1>3 DEF FrameTiled

\* The gap before a field, then the field.
LEMMA GrownTiled ==
  ASSUME NEW frame \in FrameType, NEW grown, Grown(frame, grown), FrameTiled(frame)
  PROVE  FrameTiled(grown)
<1>1. PICK new \in PlacedField, member \in TypeNames \cup {NoType} :
        /\ frame.offset <= new.offset
        /\ grown.fields = Append(frame.fields, new)
        /\ grown.gaps = frame.gaps \o Gap(frame, new.offset, new.align, member)
        /\ grown.offset = new.offset + new.size
  BY DEF Grown
<1>2. /\ frame.fields \in Seq(PlacedField) /\ frame.gaps \in Seq(PaddingGap)
      /\ frame.offset \in Nat /\ new.offset \in Nat /\ new.align \in Aligns
  BY DEF FrameType, PlacedField
<1>3. grown.gaps \in Seq(PaddingGap) /\ Tiled(frame.fields, grown.gaps, new.offset)
  <2>1. CASE new.offset <= frame.offset
    <3>1. grown.gaps = frame.gaps /\ new.offset = frame.offset
      BY <1>1, <1>2, <2>1 DEF Gap
    <3> QED
      BY <1>2, <3>1 DEF FrameTiled
  <2>2. CASE ~(new.offset <= frame.offset)
    <3>1. PICK gap : /\ Gap(frame, new.offset, new.align, member) = <<gap>>
                     /\ gap.offset = frame.offset /\ gap.size = new.offset - frame.offset
      BY <2>2 DEF Gap
    <3>2. <<gap>> \in Seq(PaddingGap)
      BY <1>2, <3>1, GapType
    <3>3. gap \in PaddingGap
      BY <3>2
    <3>4. grown.gaps = Append(frame.gaps, gap)
      BY <1>1, <1>2, <3>1, <3>3
    <3>5. frame.offset + gap.size = new.offset
      BY <1>2, <3>1
    <3>6. Tiled(frame.fields, frame.gaps, frame.offset)
      BY DEF FrameTiled
    <3>7. Tiled(frame.fields, Append(frame.gaps, gap), frame.offset + gap.size)
      BY <1>2, <3>1, <3>3, <3>6, TiledByGap
    <3> QED
      BY <1>2, <3>3, <3>4, <3>5, <3>7
  <2> QED
    BY <2>1, <2>2
<1>4. Tiled(Append(frame.fields, new), grown.gaps, new.offset + new.size)
  BY <1>2, <1>3, TiledByField
<1> QED
  BY <1>1, <1>4 DEF FrameTiled

\* The gap behind the last field.
LEMMA FinishedTiled ==
  ASSUME typeDict \in TypeDict, NEW frame \in FrameType,
         frame.struct \in DOMAIN typeDict.structs, FrameTiled(frame)
  PROVE  Tiled(Finished(frame).fields, Finished(frame).gaps, Finished(frame).size)
<1> DEFINE total == AlignUp(frame.offset, frame.align)
<1>1. /\ frame.fields \in Seq(PlacedField) /\ frame.gaps \in Seq(PaddingGap)
      /\ frame.offset \in Nat /\ frame.align \in Aligns
  BY DEF FrameType
<1>2. total \in Nat /\ frame.offset <= total
  BY <1>1, AlignUpFacts
<1>3. /\ Finished(frame).fields = frame.fields /\ Finished(frame).size = total
      /\ Finished(frame).gaps = frame.gaps \o TailGap(frame, total)
  BY FinishedParts
<1> HIDE DEF total
<1>4. Tiled(frame.fields, frame.gaps, frame.offset)
  BY DEF FrameTiled
<1>5. CASE total <= frame.offset
  <2>1. total = frame.offset /\ Finished(frame).gaps = frame.gaps
    BY <1>1, <1>2, <1>3, <1>5 DEF TailGap
  <2> QED
    BY <1>3, <1>4, <2>1
<1>6. CASE ~(total <= frame.offset)
  <2> DEFINE gap == [offset |-> frame.offset, size |-> total - frame.offset,
                     align |-> frame.align, boundary |-> FALSE]
  <2>1. TailGap(frame, total) = <<gap>>
    BY <1>6 DEF TailGap
  <2>2. total - frame.offset \in Nat /\ FALSE \in BOOLEAN
    BY <1>1, <1>2, <1>6
  <2>3. gap \in PaddingGap /\ gap.offset = frame.offset /\ frame.offset + gap.size = total
    BY <1>1, <1>2, <2>2 DEF PaddingGap
  <2> HIDE DEF gap
  <2>4. Finished(frame).gaps = Append(frame.gaps, gap)
    BY <1>1, <1>3, <2>1, <2>3
  <2>5. Tiled(frame.fields, Append(frame.gaps, gap), frame.offset + gap.size)
    BY <1>1, <1>4, <2>3, TiledByGap
  <2> QED
    BY <1>3, <2>3, <2>4, <2>5
<1> QED
  BY <1>5, <1>6

\* The bytes of every finished layout, and of every call as far as it has come,
\* are tiled: that of the calls carries the property over the steps.
TiledInv ==
  /\ \A k \in DOMAIN frames : FrameTiled(frames[k])
  /\ LayoutsTiled

LEMMA TiledKept == TypeOK /\ TiledInv /\ [Next]_vars => TiledInv'
<1> SUFFICES ASSUME TypeOK, TiledInv, [Next]_vars PROVE TiledInv'
  OBVIOUS
<1>1. ASSUME NEW k \in DOMAIN frames' PROVE FrameTiled(frames'[k])
  <2>1. k \in DOMAIN frames => frames[k] \in FrameType /\ FrameTiled(frames[k])
    BY ElementType DEF TypeOK, TiledInv
  <2> QED
    BY <2>1, FramesFrom, GrownTiled, NewTiled
<1>2. ASSUME NEW k \in DOMAIN layouts'
      PROVE  Tiled(layouts'[k].fields, layouts'[k].gaps, layouts'[k].size)
  <2>1. CASE k \in DOMAIN layouts /\ layouts'[k] = layouts[k]
    BY <2>1 DEF TiledInv, LayoutsTiled
  <2>2. ASSUME NEW j \in DOMAIN frames, layouts'[k] = Finished(frames[j])
        PROVE  Tiled(layouts'[k].fields, layouts'[k].gaps, layouts'[k].size)
    <3>1. /\ typeDict \in TypeDict /\ frames[j].struct \in DOMAIN typeDict.structs
          /\ frames[j] \in FrameType /\ FrameTiled(frames[j])
      BY ElementType DEF TypeOK, TiledInv
    <3> QED
      BY <2>2, <3>1, FinishedTiled
  <2> QED
    BY <2>1, <2>2, LayoutsFrom
<1> QED
  BY <1>1, <1>2 DEF TiledInv, LayoutsTiled, FrameTiled

\* Whatever the dictionary, the target and the packing: the fields and the located
\* gaps of a layout account for each of its bytes exactly once.
THEOREM LayoutsTiledCorrect == Spec => []LayoutsTiled
<1>1. Init => TypeOK /\ TiledInv
  <2> SUFFICES ASSUME Init PROVE TiledInv
    BY TypesAtStart
  <2>1. DOMAIN frames = {} /\ DOMAIN layouts = {}
    BY DEF Init, InitFrom
  <2> QED
    BY <2>1 DEF TiledInv, LayoutsTiled
<1>2. TypeOK /\ TiledInv /\ [Next]_vars => (TypeOK /\ TiledInv)'
  BY TypesKept, TiledKept
<1>3. TiledInv => LayoutsTiled
  BY DEF TiledInv
<1> QED
  BY <1>1, <1>2, <1>3, PTL DEF Spec

(***************************************************************************)
(* Alignment                                                               *)
(***************************************************************************)
FrameAligned(frame) == Aligned(frame.fields, frame.align)

LEMMA NewAligned ==
  ASSUME NEW i \in Nat, NEW pack \in Aligns
  PROVE  FrameAligned(Frame(i, pack))
<1>1. Frame(i, pack).fields = <<>> /\ DOMAIN <<>> = {}
  BY FrameTyped
<1> QED
  BY <1>1 DEF FrameAligned, Aligned

\* An alignment that divides another divides whatever that is raised to.
LEMMA StillDivides ==
  ASSUME NEW a \in Aligns, NEW b \in Aligns, NEW c \in Aligns, b % a = 0
  PROVE  Larger(b, c) % a = 0
BY DEF Larger, Aligns

LEMMA NewDivides ==
  ASSUME NEW b \in Aligns, NEW c \in Aligns
  PROVE  Larger(b, c) % c = 0
BY DEF Larger, Aligns

LEMMA GrownAligned ==
  ASSUME NEW frame \in FrameType, NEW grown, Grown(frame, grown), FrameAligned(frame)
  PROVE  FrameAligned(grown)
<1>1. PICK new \in PlacedField :
        /\ new.offset % new.align = 0
        /\ grown.fields = Append(frame.fields, new)
        /\ grown.align = Larger(frame.align, new.align)
  BY DEF Grown
<1>2. frame.fields \in Seq(PlacedField) /\ frame.align \in Aligns /\ new.align \in Aligns
  BY DEF FrameType, PlacedField
<1>3. ASSUME NEW i \in DOMAIN grown.fields
      PROVE  /\ grown.fields[i].offset % grown.fields[i].align = 0
             /\ grown.align % grown.fields[i].align = 0
  <2>1. CASE i \in DOMAIN frame.fields
    <3>1. grown.fields[i] = frame.fields[i] /\ frame.fields[i] \in PlacedField
      BY <1>1, <1>2, <2>1
    <3>2. frame.fields[i].align \in Aligns
      BY <3>1 DEF PlacedField
    <3>3. /\ frame.fields[i].offset % frame.fields[i].align = 0
          /\ frame.align % frame.fields[i].align = 0
      BY <2>1 DEF FrameAligned, Aligned
    <3> QED
      BY <1>1, <1>2, <3>1, <3>2, <3>3, StillDivides
  <2>2. CASE i = Len(frame.fields) + 1
    <3>1. grown.fields[i] = new
      BY <1>1, <1>2, <2>2
    <3> QED
      BY <1>1, <1>2, <3>1, NewDivides
  <2> QED
    BY <1>1, <1>2, <2>1, <2>2
<1> QED
  BY <1>3 DEF FrameAligned, Aligned

\* alignUp by the struct's alignment, which all others divide.
LEMMA FinishedAligned ==
  ASSUME typeDict \in TypeDict, NEW frame \in FrameType,
         frame.struct \in DOMAIN typeDict.structs, FrameAligned(frame)
  PROVE  /\ Aligned(Finished(frame).fields, Finished(frame).align)
         /\ Finished(frame).size % Finished(frame).align = 0
BY FinishedParts DEF FrameAligned

AlignedInv ==
  /\ \A k \in DOMAIN frames : FrameAligned(frames[k])
  /\ LayoutsAligned

LEMMA AlignedKept == TypeOK /\ AlignedInv /\ [Next]_vars => AlignedInv'
<1> SUFFICES ASSUME TypeOK, AlignedInv, [Next]_vars PROVE AlignedInv'
  OBVIOUS
<1>1. ASSUME NEW k \in DOMAIN frames' PROVE FrameAligned(frames'[k])
  <2>1. k \in DOMAIN frames => frames[k] \in FrameType /\ FrameAligned(frames[k])
    BY ElementType DEF TypeOK, AlignedInv
  <2> QED
    BY <2>1, FramesFrom, GrownAligned, NewAligned
<1>2. ASSUME NEW k \in DOMAIN layouts'
      PROVE  /\ Aligned(layouts'[k].fields, layouts'[k].align)
             /\ layouts'[k].size % layouts'[k].align = 0
  <2>1. CASE k \in DOMAIN layouts /\ layouts'[k] = layouts[k]
    BY <2>1 DEF AlignedInv, LayoutsAligned
  <2>2. ASSUME NEW j \in DOMAIN frames, layouts'[k] = Finished(frames[j])
        PROVE  /\ Aligned(layouts'[k].fields, layouts'[k].align)
               /\ layouts'[k].size % layouts'[k].align = 0
    <3>1. /\ typeDict \in TypeDict /\ frames[j].struct \in DOMAIN typeDict.structs
          /\ frames[j] \in FrameType /\ FrameAligned(frames[j])
      BY ElementType DEF TypeOK, AlignedInv
    <3> QED
      BY <2>2, <3>1, FinishedAligned
  <2> QED
    BY <2>1, <2>2, LayoutsFrom
<1> QED
  BY <1>1, <1>2 DEF AlignedInv, LayoutsAligned, FrameAligned

\* Every field of every layout is at a multiple of its alignment, wherever the
\* alignment of its struct allows the struct to be put.
THEOREM LayoutsAlignedCorrect == Spec => []LayoutsAligned
<1>1. Init => TypeOK /\ AlignedInv
  <2> SUFFICES ASSUME Init PROVE AlignedInv
    BY TypesAtStart
  <2>1. DOMAIN frames = {} /\ DOMAIN layouts = {}
    BY DEF Init, InitFrom
  <2> QED
    BY <2>1 DEF AlignedInv, LayoutsAligned
<1>2. TypeOK /\ AlignedInv /\ [Next]_vars => (TypeOK /\ AlignedInv)'
  BY TypesKept, AlignedKept
<1>3. AlignedInv => LayoutsAligned
  BY DEF AlignedInv
<1> QED
  BY <1>1, <1>2, <1>3, PTL DEF Spec

(***************************************************************************)
(* The recursion guard                                                     *)
(***************************************************************************)
NameOf(i) == typeDict.structs[i].name

\* GuardHonest, said of each name and each call.
LEMMA GuardAsNames ==
  GuardHonest <=>
    /\ \A name : name \in guard <=> \E k \in DOMAIN frames : name = NameOf(frames[k].struct)
    /\ \A j, k \in DOMAIN frames : frames[j].struct = frames[k].struct => j = k
<1>1. guard = {NameOf(frames[k].struct) : k \in DOMAIN frames}
      <=> \A name : name \in guard <=> \E k \in DOMAIN frames : name = NameOf(frames[k].struct)
  OBVIOUS
<1> QED
  BY <1>1 DEF GuardHonest, NameOf

LEMMA GuardAsNamesNext ==
  ASSUME typeDict' = typeDict,
         \A name : name \in guard' <=> \E k \in DOMAIN frames' : name = NameOf(frames'[k].struct),
         \A j, k \in DOMAIN frames' : frames'[j].struct = frames'[k].struct => j = k
  PROVE  GuardHonest'
<1>1. guard' = {NameOf(frames'[k].struct) : k \in DOMAIN frames'}
  OBVIOUS
<1>2. guard' = {typeDict'.structs[frames'[k].struct].name : k \in DOMAIN frames'}
  BY <1>1 DEF NameOf
<1> QED
  BY <1>2 DEF GuardHonest

\* A call is pushed: its struct is not one of those in the guard.
LEMMA GuardOpened ==
  ASSUME TypeOK, GuardHonest, UNCHANGED input, NEW i, NEW pack, Opens(i, pack),
         NameOf(i) \notin guard, guard' = guard \cup {NameOf(i)}
  PROVE  GuardHonest'
<1>1. typeDict' = typeDict
  BY DEF input
<1>2. /\ DOMAIN frames' = 1 .. Len(frames) + 1 /\ DOMAIN frames = 1 .. Len(frames)
      /\ Len(frames) \in Nat
      /\ \A k \in DOMAIN frames : frames'[k] = frames[k]
      /\ frames'[Len(frames) + 1].struct = i
  <2>1. Frame(i, pack).struct = i /\ frames \in Seq(FrameType)
    BY DEF Frame, TypeOK
  <2> QED
    BY <2>1, OpensFrames
<1>3. /\ \A name : name \in guard <=> \E k \in DOMAIN frames : name = NameOf(frames[k].struct)
      /\ \A j, k \in DOMAIN frames : frames[j].struct = frames[k].struct => j = k
  BY GuardAsNames
<1>4. \A k \in DOMAIN frames : frames[k].struct # i
  BY <1>3
<1>5. ASSUME NEW j \in DOMAIN frames', NEW k \in DOMAIN frames',
             frames'[j].struct = frames'[k].struct
      PROVE  j = k
  BY <1>2, <1>3, <1>4, <1>5
<1>6. ASSUME NEW name
      PROVE  name \in guard' <=> \E k \in DOMAIN frames' : name = NameOf(frames'[k].struct)
  BY <1>2, <1>3
<1> QED
  BY <1>1, <1>5, <1>6, GuardAsNamesNext

\* A field is placed and the call above it, if any, is gone with its name.
LEMMA GuardPlaced ==
  ASSUME TypeOK, GuardHonest, UNCHANGED input, NEW depth, PlacesInto(depth),
         \/ depth = Len(frames) /\ guard' = guard
         \/ depth = Len(frames) - 1 /\ guard' = guard \ {NameOf(Top.struct)}
  PROVE  GuardHonest'
<1>1. typeDict' = typeDict
  BY DEF input
<1>2. /\ depth \in DOMAIN frames /\ DOMAIN frames' = 1 .. depth
      /\ DOMAIN frames = 1 .. Len(frames) /\ Len(frames) \in Nat /\ depth \in Nat
      /\ Top = frames[Len(frames)]
  BY DEF PlacesInto, TypeOK, Top
<1>3. \A k \in 1 .. depth : k \in DOMAIN frames /\ frames'[k].struct = frames[k].struct
  BY <1>2 DEF PlacesInto, Grown
<1>4. /\ \A name : name \in guard <=> \E k \in DOMAIN frames : name = NameOf(frames[k].struct)
      /\ \A j, k \in DOMAIN frames : frames[j].struct = frames[k].struct => j = k
  BY GuardAsNames
<1>5. \A j, k \in DOMAIN frames : NameOf(frames[j].struct) = NameOf(frames[k].struct) => j = k
  BY <1>4 DEF TypeOK, NamesOnce, NameOf
<1>6. ASSUME NEW name
      PROVE  name \in guard' <=> \E k \in DOMAIN frames' : name = NameOf(frames'[k].struct)
  <2>1. CASE depth = Len(frames) /\ guard' = guard
    BY <1>2, <1>3, <1>4, <2>1
  <2>2. CASE depth = Len(frames) - 1 /\ guard' = guard \ {NameOf(Top.struct)}
    <3>1. \A k \in DOMAIN frames : k \in 1 .. depth <=> k # Len(frames)
      BY <1>2, <2>2
    <3>2. \A k \in DOMAIN frames : NameOf(frames[k].struct) = NameOf(Top.struct) <=> k = Len(frames)
      BY <1>2, <1>5
    <3>3. name \in guard' <=>
            \E k \in DOMAIN frames : k # Len(frames) /\ name = NameOf(frames[k].struct)
      BY <1>4, <2>2, <3>2
    <3> QED
      BY <1>2, <1>3, <3>1, <3>3
  <2> QED
    BY <2>1, <2>2
<1>7. ASSUME NEW j \in DOMAIN frames', NEW k \in DOMAIN frames',
             frames'[j].struct = frames'[k].struct
      PROVE  j = k
  BY <1>2, <1>3, <1>4, <1>7
<1> QED
  BY <1>1, <1>6, <1>7, GuardAsNamesNext

LEMMA GuardKept == TypeOK /\ GuardHonest /\ [Next]_vars => GuardHonest'
<1> SUFFICES ASSUME TypeOK, GuardHonest, [Next]_vars PROVE GuardHonest'
  OBVIOUS
<1>1. CASE SkipEmpty \/ UNCHANGED vars
  <2>1. UNCHANGED <<typeDict, guard, frames>>
    BY <1>1 DEF SkipEmpty, vars, input
  <2> QED
    BY <2>1 DEF GuardHonest
<1>2. CASE StartStruct
  <2>1. guard' = {NameOf(next)} /\ UNCHANGED input /\ frames = <<>>
    BY <1>2 DEF StartStruct, NameOf
  <2>2. guard = {}
    BY <2>1 DEF GuardHonest
  <2> QED
    BY <1>2, <2>1, <2>2, StartStructOpens, GuardOpened
<1>3. CASE PlacePointer \/ PlacePrimitive \/ PlaceUnknown
  BY <1>3, PlaceActions, GuardPlaced
<1>4. CASE EnterNested
  <2>1. UNCHANGED input
    BY <1>4 DEF EnterNested
  <2> QED
    BY <1>4, <2>1, EnterNestedOpens, GuardOpened DEF NameOf
<1>5. CASE LeaveNested
  <2>1. UNCHANGED input /\ guard' = guard \ {Finished(Top).name}
    BY <1>5 DEF LeaveNested
  <2>2. Finished(Top).name = NameOf(Top.struct)
    BY DEF Finished, NameOf
  <2> QED
    BY <1>5, <2>1, <2>2, LeaveNestedPlaces, GuardPlaced
<1>6. CASE FinishStruct
  <2>1. Len(frames) = 1 /\ guard' = guard \ {Finished(Top).name} /\ frames' = <<>>
    BY <1>6 DEF FinishStruct
  <2>2. Finished(Top).name = NameOf(Top.struct) /\ Top = frames[1]
    BY <2>1 DEF Finished, NameOf, Top
  <2>3. DOMAIN frames = {1} /\ DOMAIN frames' = {}
    BY <2>1 DEF TypeOK
  <2>4. \A name : name \in guard <=> name = NameOf(Top.struct)
    BY <2>2, <2>3, GuardAsNames
  <2>5. typeDict' = typeDict /\ guard' = {}
    BY <1>6, <2>1, <2>2, <2>4 DEF FinishStruct, input
  <2> QED
    BY <2>3, <2>5, GuardAsNamesNext
<1> QED
  BY <1>1, <1>2, <1>3, <1>4, <1>5, <1>6 DEF Next

\* Every exit of computeLayoutInternal takes its struct out of the global guard again,
\* and no struct is laid out inside itself: the recursion is no deeper than the
\* dictionary has structs.
THEOREM GuardHonestCorrect == Spec => []GuardHonest
<1>1. Init => TypeOK /\ GuardHonest
  <2> SUFFICES ASSUME Init PROVE GuardHonest
    BY TypesAtStart
  <2>1. DOMAIN frames = {} /\ guard = {}
    BY DEF Init, InitFrom
  <2> QED
    BY <2>1 DEF GuardHonest
<1>2. TypeOK /\ GuardHonest /\ [Next]_vars => (TypeOK /\ GuardHonest)'
  BY TypesKept, GuardKept
<1> QED
  BY <1>1, <1>2, PTL DEF Spec
=============================================================================
