-------------------------- MODULE CompositionProofs --------------------------
(***************************************************************************)
(* The tree of a message, for every dictionary and every depth it is cut   *)
(* at: the parts shown fill the bytes the level above has for them, and    *)
(* the warnings reach every struct that is shown.                          *)
(*                                                                         *)
(* Both need to know what a member is: the struct that the field's type    *)
(* means.  The first then rests on the layout of a struct being the same   *)
(* wherever it is embedded, which is what the rounds of AbiProofs say.     *)
(***************************************************************************)
EXTENDS Composition, AbiProofs

(***************************************************************************)
(* Typedefs                                                                *)
(***************************************************************************)
\* canonicalName with one more hop.
Follow(rest, name) == IF EndsAt(typeDict, name) THEN name ELSE rest[AliasOf(typeDict, name)]
Followed == [TypeNames -> TypeNames]

LEMMA FollowType ==
  ASSUME typeDict \in TypeDict, NEW rest \in Followed, NEW name \in TypeNames
  PROVE  Follow(rest, name) \in TypeNames
<1>1. AliasOf(typeDict, name) \in TypeNames \cup {NoType}
  BY AliasOfType
<1>. QED
  BY <1>1 DEF Follow, EndsAt, Followed

LEMMA CanonicalNameDefines ==
  ASSUME typeDict \in TypeDict
  PROVE  \E F : /\ F[0] = [name \in TypeNames |-> name]
                /\ \A h \in 1 .. ROLE_HOPS : F[h] = [name \in TypeNames |-> Follow(F[h - 1], name)]
                /\ \A type : CanonicalName(type) = F[ROLE_HOPS][type]
<1>. DEFINE H == ROLE_HOPS
            self == [name \in TypeNames |-> name]
            step == [h \in 1 .. H |-> [rest \in Followed |-> [name \in TypeNames |-> Follow(rest, name)]]]
            Body(C, h, name) ==
              IF h = 0 \/ EndsAt(typeDict, name) THEN name ELSE C[h - 1][AliasOf(typeDict, name)]
            Is(C) == C = [h \in 0 .. H |-> [name \in TypeNames |-> Body(C, h, name)]]
<1>1. H \in Nat /\ self \in Followed
  BY CompositionAssumption DEF Followed
<1>2. step \in [1 .. H -> [Followed -> Followed]]
  <2>1. \A rest \in Followed : [name \in TypeNames |-> Follow(rest, name)] \in Followed
    BY FollowType DEF Followed
  <2>. QED
    BY <2>1
<1>3. PICK F : Iterates(F, H, Followed, self, step)
  <2>. HIDE DEF H, self, step
  <2>. QED
    BY <1>1, <1>2, Recursion, Zenon
<1>4. /\ F \in [0 .. H -> Followed] /\ F[0] = self
      /\ \A h \in 1 .. H : F[h] = [name \in TypeNames |-> Follow(F[h - 1], name)]
  <2>1. \A h \in 1 .. H : h - 1 \in 0 .. H
    BY <1>1
  <2>. QED
    BY <1>3, <2>1 DEF Iterates
<1>5. ASSUME NEW h \in 0 .. H PROVE F[h] = [name \in TypeNames |-> Body(F, h, name)]
  <2>1. CASE h = 0
    BY <1>4, <2>1
  <2>2. CASE h # 0
    <3>1. h \in 1 .. H
      BY <1>1, <2>2
    <3>. QED
      BY <1>4, <2>2, <3>1 DEF Follow
  <2>. QED
    BY <2>1, <2>2
<1>6. Is(F)
  BY <1>4, <1>5
<1>. DEFINE follow == CHOOSE C : Is(C)
<1>7. Is(follow)
  <2>. HIDE DEF Is
  <2>. QED
    BY <1>6, Zenon
<1>8. \A type : CanonicalName(type) = follow[H][type]
  BY DEF CanonicalName
<1>. HIDE DEF follow
<1>9. follow[0] = self
  <2>1. 0 \in 0 .. H
    BY <1>1
  <2>. QED
    BY <1>7, <2>1
<1>10. ASSUME NEW h \in 1 .. H
       PROVE  follow[h] = [name \in TypeNames |-> Follow(follow[h - 1], name)]
  <2>1. h \in 0 .. H /\ h # 0
    BY <1>1
  <2>. QED
    BY <1>7, <2>1 DEF Follow
<1>. QED
  BY <1>8, <1>9, <1>10

\* The containment graph finds the struct that a type means.
LEMMA CanonicalNameMeans ==
  ASSUME Clear, NEW type \in TypeNames, Meaning(type) \in StructNames(typeDict)
  PROVE  CanonicalName(type) = Meaning(type)
<1>. DEFINE H == ROLE_HOPS
<1>0. H \in Nat /\ typeDict \in TypeDict /\ Last \in Nat
  BY CompositionAssumption, PathFacts DEF Clear
<1>1. PICK F : /\ F[0] = [name \in TypeNames |-> name]
               /\ \A h \in 1 .. H : F[h] = [name \in TypeNames |-> Follow(F[h - 1], name)]
               /\ \A name : CanonicalName(name) = F[H][name]
  BY <1>0, CanonicalNameDefines
<1>. DEFINE T == {h \in Nat : h <= H => \A name \in TypeNames :
                    Short(name, h) /\ Meaning(name) \in StructNames(typeDict) => F[h][name] = Meaning(name)}
<1>2. 0 \in T
  <2>1. SUFFICES ASSUME NEW name \in TypeNames, Short(name, 0) PROVE F[0][name] = Meaning(name)
    OBVIOUS
  <2>2. Stops(typeDict, name)
    <3>1. PICK n \in 0 .. Last : n <= 0 /\ Stops(typeDict, Path(name)[n])
      BY <2>1 DEF Short
    <3>2. n = 0
      BY <1>0, <3>1
    <3>. QED
      BY <1>0, <3>1, <3>2, PathFacts
  <2>3. Meaning(name) = name
    BY <1>0, <2>2, MeaningFixed
  <2>. QED
    BY <1>1, <2>3
<1>3. ASSUME NEW h \in T PROVE h + 1 \in T
  <2>1. SUFFICES ASSUME h + 1 <= H, NEW name \in TypeNames, Short(name, h + 1),
                        Meaning(name) \in StructNames(typeDict)
                 PROVE  F[h + 1][name] = Meaning(name)
    OBVIOUS
  <2>2. h \in Nat /\ h + 1 \in 1 .. H /\ (h + 1) - 1 = h /\ h <= H
    BY <1>0, <2>1
  <2>3. F[h + 1][name] = Follow(F[h], name)
    <3>1. F[h + 1] = [n \in TypeNames |-> Follow(F[(h + 1) - 1], n)]
      BY <1>1, <2>2
    <3>. QED
      BY <2>2, <3>1
  <2>4. CASE Stops(typeDict, name)
    <3>1. Meaning(name) = name
      BY <1>0, <2>4, MeaningFixed
    <3>2. EndsAt(typeDict, name)
      BY <2>1, <3>1, StructStops
    <3>. QED
      BY <2>3, <3>1, <3>2 DEF Follow
  <2>5. CASE ~Stops(typeDict, name)
    <3>. DEFINE alias == AliasOf(typeDict, name)
    <3>1. alias \in TypeNames /\ Short(alias, (h + 1) - 1) /\ Meaning(name) = Meaning(alias)
      BY <1>0, <2>1, <2>2, <2>5, Onward
    <3>2. ~EndsAt(typeDict, name)
      BY <2>5 DEF Stops
    <3>3. F[h][alias] = Meaning(alias)
      BY <2>1, <2>2, <3>1
    <3>. QED
      BY <2>3, <3>1, <3>2, <3>3 DEF Follow
  <2>. QED
    BY <2>4, <2>5
<1>4. T = Nat
  <2>. HIDE DEF T
  <2>1. T \in SUBSET Nat
    BY DEF T
  <2>. QED
    BY <1>2, <1>3, <2>1, Induct
<1>5. Short(type, H)
  <2>1. PICK n \in 0 .. Last : n <= STRUCT_HOPS /\ Stops(typeDict, Path(type)[n])
    BY ClearShort DEF Short
  <2>2. n <= H
    BY <1>0, <2>1, LayoutAssumption, CompositionAssumption
  <2>. QED
    BY <2>1, <2>2 DEF Short
<1>6. F[H][type] = Meaning(type)
  BY <1>0, <1>4, <1>5
<1>. QED
  BY <1>1, <1>6

(***************************************************************************)
(* Members                                                                 *)
(***************************************************************************)
\* A field is reported as an embedded struct only if its type means that one.
Embedded(field, member) ==
  ~field.pointer /\ Meaning(field.type) = member /\ member \in StructNames(typeDict)
MembersOf(fields, placed) ==
  \A i \in DOMAIN placed : placed[i].member # NoType => Embedded(fields[i], placed[i].member)
MemberInv ==
  /\ \A k \in DOMAIN frames : MembersOf(Fields(frames[k]), frames[k].fields)
  /\ \A k \in DOMAIN layouts :
       /\ layouts[k].name \in StructNames(typeDict)
       /\ Len(layouts[k].fields) = Len(StructOf(layouts[k].name).fields)
       /\ MembersOf(StructOf(layouts[k].name).fields, layouts[k].fields)

LEMMA MembersKept ==
  ASSUME UNCHANGED input
  PROVE  /\ \A fields, placed : MembersOf(fields, placed)' = MembersOf(fields, placed)
         /\ typeDict' = typeDict
<1>1. typeDict' = typeDict /\ \A type : Meaning(type)' = Meaning(type)
  BY InputKept DEF input
<1>2. \A field, member : Embedded(field, member)' = Embedded(field, member)
  BY <1>1 DEF Embedded
<1>. QED
  BY <1>1, <1>2 DEF MembersOf

LEMMA MemberAdds ==
  ASSUME TypeOK, \A k \in DOMAIN frames : MembersOf(Fields(frames[k]), frames[k].fields),
         UNCHANGED input, NEW depth, NEW size, NEW align, NEW member, NEW estimated,
         Adds(depth, size, align, member, estimated),
         member # NoType => Embedded(FieldAt(depth), member)
  PROVE  \A k \in DOMAIN frames' : MembersOf(Fields(frames[k]), frames[k].fields)'
<1>. DEFINE frame == frames[depth]
            placed == Placed(frame, FieldAt(depth), size, align, member, estimated)
            n == Len(frame.fields)
<1>1. /\ depth \in DOMAIN frames /\ DOMAIN frames' = 1 .. depth
      /\ \A k \in 1 .. depth : k # depth => frames'[k] = frames[k]
      /\ frames'[depth] = placed
  BY DEF Adds, PlacesInto
<1>2. frame \in FrameType
  BY <1>1, ElementType DEF TypeOK
<1>3. \A fields, some : MembersOf(fields, some)' = MembersOf(fields, some)
  BY MembersKept
<1>4. typeDict' = typeDict
  BY MembersKept
<1>5. PICK new : new.member = member /\ placed.fields = Append(frame.fields, new)
  BY <1>2 DEF Placed, FrameType
<1>6. placed.struct = frame.struct /\ frame.fields \in Seq(PlacedField) /\ n \in Nat
  BY <1>2, PlacedKeeps DEF FrameType
<1>. HIDE DEF placed
<1>7. MembersOf(Fields(frame), placed.fields)
  <2>1. SUFFICES ASSUME NEW i \in DOMAIN placed.fields, placed.fields[i].member # NoType
                 PROVE  Embedded(Fields(frame)[i], placed.fields[i].member)
    BY DEF MembersOf
  <2>2. CASE i = n + 1
    <3>1. placed.fields[i] = new
      BY <1>5, <1>6, <2>2
    <3>2. FieldAt(depth) = Fields(frame)[i]
      BY <2>2 DEF FieldAt
    <3>. QED
      BY <1>5, <2>1, <3>1, <3>2
  <2>3. CASE i # n + 1
    <3>1. i \in DOMAIN frame.fields /\ placed.fields[i] = frame.fields[i]
      BY <1>5, <1>6, <2>3
    <3>. QED
      BY <1>1, <2>1, <3>1 DEF MembersOf
  <2>. QED
    BY <2>2, <2>3
<1>8. SUFFICES ASSUME NEW k \in DOMAIN frames'
               PROVE  MembersOf(Fields(frames[k]), frames[k].fields)'
  OBVIOUS
<1>9. k \in DOMAIN frames
  BY <1>1 DEF TypeOK
<1>10. CASE k = depth
  BY <1>1, <1>3, <1>4, <1>6, <1>7, <1>10 DEF Fields
<1>11. CASE k # depth
  <2>1. frames'[k] = frames[k] /\ MembersOf(Fields(frames[k]), frames[k].fields)
    BY <1>1, <1>9, <1>11
  <2>. QED
    BY <1>3, <1>4, <2>1 DEF Fields
<1>. QED
  BY <1>10, <1>11

LEMMA MemberOpens ==
  ASSUME TypeOK, \A k \in DOMAIN frames : MembersOf(Fields(frames[k]), frames[k].fields),
         UNCHANGED input, NEW i, NEW pack, Opens(i, pack)
  PROVE  \A k \in DOMAIN frames' : MembersOf(Fields(frames[k]), frames[k].fields)'
<1>. DEFINE top == Len(frames)
<1>1. /\ top \in Nat /\ DOMAIN frames' = 1 .. top + 1
      /\ \A k \in DOMAIN frames : frames'[k] = frames[k]
      /\ frames'[top + 1] = Frame(i, pack)
  BY OpensFrames
<1>2. DOMAIN frames = 1 .. top
  BY DEF TypeOK
<1>3. \A fields, some : MembersOf(fields, some)' = MembersOf(fields, some)
  BY MembersKept
<1>4. typeDict' = typeDict
  BY MembersKept
<1>5. SUFFICES ASSUME NEW k \in DOMAIN frames'
               PROVE  MembersOf(Fields(frames[k]), frames[k].fields)'
  OBVIOUS
<1>6. CASE k = top + 1
  <2>1. frames'[k].fields = <<>> /\ DOMAIN <<>> = {}
    BY <1>1, <1>6 DEF Frame
  <2>2. \A fields : MembersOf(fields, frames'[k].fields)
    BY <2>1 DEF MembersOf
  <2>. QED
    BY <1>3, <2>2
<1>7. CASE k # top + 1
  <2>1. k \in DOMAIN frames /\ frames'[k] = frames[k] /\ MembersOf(Fields(frames[k]), frames[k].fields)
    BY <1>1, <1>2, <1>7
  <2>. QED
    BY <1>3, <1>4, <2>1 DEF Fields
<1>. QED
  BY <1>6, <1>7

LEMMA MemberAtStart == Init => MemberInv
<1>. SUFFICES ASSUME Init PROVE MemberInv
  OBVIOUS
<1>1. DOMAIN frames = {} /\ DOMAIN layouts = {}
  BY DEF Init, InitFrom
<1>. QED
  BY <1>1 DEF MemberInv

LEMMA MemberKept ==
  ASSUME CallsInv, MemberInv, [Next]_vars
  PROVE  MemberInv'
<1>. DEFINE Calls == \A k \in DOMAIN frames : MembersOf(Fields(frames[k]), frames[k].fields)
            Laid(k) == /\ layouts[k].name \in StructNames(typeDict)
                       /\ Len(layouts[k].fields) = Len(StructOf(layouts[k].name).fields)
                       /\ MembersOf(StructOf(layouts[k].name).fields, layouts[k].fields)
<1>0. UNCHANGED input /\ TypeOK /\ InputInv /\ HonestInv
  BY InputConstant DEF CallsInv
<1>1. Calls /\ \A k \in DOMAIN layouts : Laid(k)
  BY DEF MemberInv
<1>2. /\ \A fields, placed : MembersOf(fields, placed)' = MembersOf(fields, placed)
      /\ typeDict' = typeDict
  BY <1>0, MembersKept
<1>3. \A name : StructOf(name)' = StructOf(name)
  BY <1>2 DEF StructOf, IndexOf
<1>4. ASSUME UNCHANGED layouts PROVE \A k \in DOMAIN layouts' : Laid(k)'
  BY <1>1, <1>2, <1>3, <1>4
<1>. HIDE DEF Laid
<1>5. ASSUME Calls', UNCHANGED layouts PROVE MemberInv'
  BY <1>4, <1>5 DEF MemberInv, Laid
<1>6. CASE UNCHANGED <<frames, layouts>>
  <2>1. Calls'
    BY <1>1, <1>2, <1>6 DEF Fields
  <2>. QED
    BY <1>5, <1>6, <2>1
<1>7. CASE StartStruct
  <2>1. PICK pack \in Aligns : Opens(next, pack)
    BY <1>0, <1>7, StartStructOpens
  <2>2. UNCHANGED layouts
    BY <1>7 DEF StartStruct
  <2>3. Calls'
    BY <1>0, <1>1, <2>1, MemberOpens
  <2>. QED
    BY <1>5, <2>2, <2>3
<1>8. CASE EnterNested
  <2>1. PICK i \in DOMAIN typeDict.structs : Opens(i, NestedPack(typeDict.structs[i].pack))
    BY <1>0, <1>8, EnterOpens
  <2>2. UNCHANGED layouts
    BY <1>8 DEF EnterNested
  <2>3. Calls'
    BY <1>0, <1>1, <2>1, MemberOpens
  <2>. QED
    BY <1>5, <2>2, <2>3
<1>9. CASE PlacePointer \/ PlacePrimitive \/ PlaceUnknown
  <2>1. PICK size \in Nat, align \in Aligns, estimated \in BOOLEAN :
          Placing /\ Place(size, align, NoType, estimated)
    BY <1>0, <1>9, PlacedByAction
  <2>2. Adds(Len(frames), size, align, NoType, estimated)
    BY <1>0, <2>1, PlaceAdds
  <2>3. UNCHANGED layouts
    BY <2>1 DEF Place
  <2>4. Calls'
    BY <1>0, <1>1, <2>2, MemberAdds
  <2>. QED
    BY <1>5, <2>3, <2>4
<1>10. CASE LeaveNested
  <2>. DEFINE depth == Len(frames) - 1
              done == Finished(Top)
  <2>1. /\ Adds(depth, done.size, done.align, done.name, done.estimated)
        /\ depth \in DOMAIN frames /\ depth + 1 = Len(frames)
        /\ Len(frames) \in DOMAIN frames /\ Top = frames[Len(frames)]
    BY <1>0, <1>10, LeaveAdds
  <2>2. done.name = NameOf(Top.struct)
    BY DEF Finished, NameOf
  <2>3. UNCHANGED layouts
    BY <1>10 DEF LeaveNested
  <2>4. depth < Len(frames)
    <3>1. Len(frames) \in Nat
      BY <1>0 DEF TypeOK
    <3>. QED
      BY <3>1
  <2>. HIDE DEF depth, done
  <2>5. ~FieldAt(depth).pointer /\ Meaning(FieldAt(depth).type) = done.name
    BY <1>0, <2>1, <2>2, <2>4 DEF HonestInv, Embeds
  <2>6. done.name \in StructNames(typeDict)
    <3>1. Top.struct \in DOMAIN typeDict.structs /\ typeDict \in TypeDict /\ NamesOnce(typeDict)
      BY <1>0, <2>1 DEF TypeOK
    <3>. QED
      BY <2>2, <3>1, StructOfName
  <2>7. Embedded(FieldAt(depth), done.name)
    BY <2>5, <2>6 DEF Embedded
  <2>8. Calls'
    BY <1>0, <1>1, <2>1, <2>7, MemberAdds
  <2>. QED
    BY <1>5, <2>3, <2>8
<1>11. CASE FinishStruct
  <2>. DEFINE done == Finished(Top)
  <2>1. /\ Complete /\ layouts' = Append(layouts, done) /\ frames' = <<>>
    BY <1>11 DEF FinishStruct
  <2>2. done.name = NameOf(Top.struct) /\ done.fields = Top.fields
    BY DEF Finished, NameOf
  <2>3. /\ Len(frames) \in DOMAIN frames /\ Top = frames[Len(frames)]
        /\ Top.struct \in DOMAIN typeDict.structs /\ Len(Top.fields) = Len(Fields(Top))
    BY <1>0, <2>1, TopType DEF Complete
  <2>4. layouts \in Seq(LayoutType) /\ done \in LayoutType
    BY <1>0, <2>1, TopType, FinishedParts DEF TypeOK, Complete
  <2>5. done.name \in StructNames(typeDict) /\ StructOf(done.name).fields = Fields(Top)
    BY <1>0, <2>2, <2>3, StructOfName DEF TypeOK, Fields
  <2>6. MembersOf(Fields(Top), Top.fields)
    BY <1>1, <2>3
  <2>. HIDE DEF done
  <2>7. ASSUME NEW k \in DOMAIN layouts' PROVE Laid(k)'
    <3>1. layouts'[k] = done \/ (k \in DOMAIN layouts /\ layouts'[k] = layouts[k])
      BY <2>1, <2>4
    <3>2. CASE layouts'[k] = done
      BY <1>2, <1>3, <2>2, <2>3, <2>5, <2>6, <3>2 DEF Laid
    <3>3. CASE k \in DOMAIN layouts /\ layouts'[k] = layouts[k]
      <4>1. Laid(k)
        BY <1>1, <3>3
      <4>. QED
        BY <1>2, <1>3, <3>3, <4>1 DEF Laid
    <3>. QED
      BY <3>1, <3>2, <3>3
  <2>8. DOMAIN frames' = {}
    BY <2>1
  <2>. QED
    BY <2>7, <2>8 DEF MemberInv, Laid
<1>12. CASE SkipEmpty
  <2>1. UNCHANGED <<frames, layouts>>
    BY <1>12 DEF SkipEmpty
  <2>. QED
    BY <1>6, <2>1
<1>13. CASE UNCHANGED vars
  <2>1. UNCHANGED <<frames, layouts>>
    BY <1>13 DEF vars
  <2>. QED
    BY <1>6, <2>1
<1>. QED
  BY <1>7, <1>8, <1>9, <1>10, <1>11, <1>12, <1>13 DEF Next

(***************************************************************************)
(* The tree                                                                *)
(***************************************************************************)
Nodes == [name : {name \in TypeNames : HasLayout(name)}, seen : SUBSET TypeNames, base : Nat]
NextLevel(nodes) == UNION {{Opened(node, i) : i \in Openable(node)} : node \in nodes}

LEMMA LayoutOfFacts ==
  ASSUME TypeOK, NEW name, HasLayout(name)
  PROVE  /\ LayoutOf(name) \in LayoutType
         /\ \E k \in DOMAIN layouts : layouts[k].name = name /\ LayoutOf(name) = layouts[k]
<1>. DEFINE found == CHOOSE k \in DOMAIN layouts : layouts[k].name = name
<1>1. found \in DOMAIN layouts /\ layouts[found].name = name
  BY DEF HasLayout
<1>2. LayoutOf(name) = layouts[found]
  BY DEF LayoutOf
<1>. HIDE DEF found
<1>. QED
  BY <1>1, <1>2, ElementType DEF TypeOK

LEMMA LayoutParts ==
  ASSUME TypeOK, NEW name, HasLayout(name)
  PROVE  /\ LayoutOf(name).fields \in Seq(PlacedField) /\ LayoutOf(name).gaps \in Seq(PaddingGap)
         /\ LayoutOf(name).size \in Nat
         /\ \A i \in DOMAIN LayoutOf(name).fields :
              /\ LayoutOf(name).fields[i].offset \in Nat /\ LayoutOf(name).fields[i].size \in Nat
              /\ LayoutOf(name).fields[i].member \in TypeNames \cup {NoType}
         /\ \A i \in DOMAIN LayoutOf(name).gaps :
              LayoutOf(name).gaps[i].offset \in Nat /\ LayoutOf(name).gaps[i].size \in Nat
<1>. DEFINE layout == LayoutOf(name)
<1>1. layout \in LayoutType
  BY LayoutOfFacts
<1>. HIDE DEF layout
<1>2. layout.fields \in Seq(PlacedField) /\ layout.gaps \in Seq(PaddingGap) /\ layout.size \in Nat
  BY <1>1 DEF LayoutType
<1>3. \A i \in DOMAIN layout.fields : layout.fields[i] \in PlacedField
  BY <1>2, ElementType
<1>4. \A i \in DOMAIN layout.gaps : layout.gaps[i] \in PaddingGap
  BY <1>2, ElementType
<1>5. /\ \A i \in DOMAIN layout.fields :
           /\ layout.fields[i].offset \in Nat /\ layout.fields[i].size \in Nat
           /\ layout.fields[i].member \in TypeNames \cup {NoType}
      /\ \A i \in DOMAIN layout.gaps : layout.gaps[i].offset \in Nat /\ layout.gaps[i].size \in Nat
  BY <1>3, <1>4 DEF PlacedField, PaddingGap
<1>. QED
  BY <1>2, <1>5 DEF layout

LEMMA OpenedType ==
  ASSUME TypeOK, NEW node \in Nodes, NEW i \in Openable(node)
  PROVE  Opened(node, i) \in Nodes
<1>. DEFINE field == LayoutOf(node.name).fields[i]
<1>1. i \in DOMAIN LayoutOf(node.name).fields /\ field.member # NoType /\ HasLayout(field.member)
  BY DEF Openable, Blocks
<1>2. HasLayout(node.name) /\ node.seen \in SUBSET TypeNames /\ node.base \in Nat
  BY DEF Nodes
<1>3. field.offset \in Nat /\ field.member \in TypeNames
  BY <1>1, <1>2, LayoutParts
<1>4. node.base + field.offset \in Nat
  BY <1>2, <1>3
<1>5. Opened(node, i) = [name |-> field.member, seen |-> node.seen \cup {field.member},
                         base |-> node.base + field.offset]
  BY DEF Opened, Node
<1>. HIDE DEF field
<1>. QED
  BY <1>1, <1>2, <1>3, <1>4, <1>5 DEF Nodes

LEMMA RootType ==
  ASSUME NEW name \in TypeNames, HasLayout(name)
  PROVE  Root(name) \in Nodes /\ Root(name).name = name /\ Root(name).seen = {name} /\ Root(name).base = 0
BY DEF Root, Node, Nodes

LEMMA LevelsDefine ==
  ASSUME TypeOK, NEW name \in TypeNames, HasLayout(name)
  PROVE  /\ MaxDepth \in Nat
         /\ Levels(name)[0] = {Root(name)}
         /\ \A depth \in 1 .. MaxDepth : Levels(name)[depth] = NextLevel(Levels(name)[depth - 1])
         /\ \A depth \in 0 .. MaxDepth : Levels(name)[depth] \subseteq Nodes
<1>. DEFINE H == MaxDepth
            root == {Root(name)}
            V == SUBSET Nodes
            step == [h \in 1 .. H |-> [nodes \in V |-> NextLevel(nodes)]]
            Body(C, h) == IF h = 0 THEN root ELSE NextLevel(C[h - 1])
            Is(C) == C = [h \in 0 .. H |-> Body(C, h)]
<1>1. H \in Nat /\ root \in V
  BY CompositionAssumption, RootType
<1>2. step \in [1 .. H -> [V -> V]]
  <2>1. \A nodes \in V : NextLevel(nodes) \in V
    BY OpenedType DEF NextLevel
  <2>. QED
    BY <2>1
<1>. HIDE DEF V
<1>3. PICK F : Iterates(F, H, V, root, step)
  <2>. HIDE DEF H, root, step
  <2>. QED
    BY <1>1, <1>2, Recursion, Zenon
<1>4. /\ F \in [0 .. H -> V] /\ F[0] = root
      /\ \A h \in 1 .. H : F[h] = NextLevel(F[h - 1])
  <2>1. \A h \in 1 .. H : h - 1 \in 0 .. H
    BY <1>1
  <2>2. F \in [0 .. H -> V] /\ F[0] = root /\ \A h \in 1 .. H : F[h] = step[h][F[h - 1]]
    BY <1>3 DEF Iterates
  <2>3. \A h \in 1 .. H : F[h - 1] \in V
    BY <2>1, <2>2
  <2>. QED
    BY <2>2, <2>3
<1>. HIDE DEF step, root
<1>5. ASSUME NEW h \in 0 .. H PROVE F[h] = Body(F, h)
  <2>1. CASE h = 0
    BY <1>4, <2>1
  <2>2. CASE h # 0
    <3>1. h \in 1 .. H
      BY <1>1, <2>2
    <3>. QED
      BY <1>4, <2>2, <3>1
  <2>. QED
    BY <2>1, <2>2
<1>6. Is(F)
  BY <1>4, <1>5
<1>. DEFINE level == CHOOSE C : Is(C)
<1>7. Is(level)
  <2>. HIDE DEF Is
  <2>. QED
    BY <1>6, Zenon
<1>8. Levels(name) = level
  BY DEF Levels, NextLevel, root
<1>. HIDE DEF level
<1>9. \A h \in 0 .. H : level[h] = IF h = 0 THEN root ELSE NextLevel(level[h - 1])
  BY <1>7
<1>10. level[0] = root /\ \A h \in 1 .. H : level[h] = NextLevel(level[h - 1])
  <2>1. 0 \in 0 .. H /\ \A h \in 1 .. H : h \in 0 .. H /\ h # 0
    BY <1>1
  <2>. QED
    BY <1>9, <2>1
<1>. DEFINE T == {h \in Nat : h <= H => level[h] \in V}
<1>11. 0 \in T
  BY <1>1, <1>10
<1>12. ASSUME NEW h \in T PROVE h + 1 \in T
  <2>1. SUFFICES ASSUME h + 1 <= H PROVE level[h + 1] \in V
    OBVIOUS
  <2>2. h + 1 \in 1 .. H /\ (h + 1) - 1 = h /\ h <= H
    BY <1>1, <2>1
  <2>3. level[h] \in V
    BY <2>2
  <2>4. level[h + 1] = NextLevel(level[(h + 1) - 1])
    BY <1>10, <2>2
  <2>5. NextLevel(level[h]) \in V
    BY <2>3, OpenedType DEF NextLevel, V
  <2>. QED
    BY <2>2, <2>4, <2>5
<1>13. T = Nat
  <2>. HIDE DEF T
  <2>1. T \in SUBSET Nat
    BY DEF T
  <2>. QED
    BY <1>11, <1>12, <2>1, Induct
<1>14. \A h \in 0 .. H : level[h] \in V
  BY <1>1, <1>13
<1>. QED
  BY <1>1, <1>8, <1>10, <1>14 DEF root, V

\* Pieces that keep clear of each other share no byte.
LEMMA TwoSpans ==
  ASSUME NEW lo \in Nat, NEW hi \in Nat, NEW from \in Nat, NEW to \in Nat, NEW byte \in Nat,
         lo <= byte, byte < hi, from <= byte, byte < to
  PROVE  ~(hi <= from) /\ ~(to <= lo)
OBVIOUS

LEMMA OnePiece ==
  ASSUME NEW fields \in Seq(PlacedField), NEW gaps \in Seq(PaddingGap), NEW end, Tiled(fields, gaps, end),
         NEW byte \in Nat
  PROVE  /\ \A i, j \in DOMAIN fields : Covers(fields[i], byte) /\ Covers(fields[j], byte) => i = j
         /\ \A i, j \in DOMAIN gaps : Covers(gaps[i], byte) /\ Covers(gaps[j], byte) => i = j
         /\ \A i \in DOMAIN fields, j \in DOMAIN gaps : ~(Covers(fields[i], byte) /\ Covers(gaps[j], byte))
<1>1. \A i \in DOMAIN fields : i \in Nat /\ fields[i].offset \in Nat /\ fields[i].size \in Nat
  <2>1. \A i \in DOMAIN fields : fields[i] \in PlacedField
    BY ElementType
  <2>. QED
    BY <2>1 DEF PlacedField
<1>2. \A i \in DOMAIN gaps : i \in Nat /\ gaps[i].offset \in Nat /\ gaps[i].size \in Nat
  <2>1. \A i \in DOMAIN gaps : gaps[i] \in PaddingGap
    BY ElementType
  <2>. QED
    BY <2>1 DEF PaddingGap
<1>3. Ascending(fields) /\ Ascending(gaps) /\ Disjoint(fields, gaps)
  BY DEF Tiled
<1>4. ASSUME NEW i \in DOMAIN fields, NEW j \in DOMAIN fields, Covers(fields[i], byte), Covers(fields[j], byte)
      PROVE  i = j
  <2>1. /\ fields[i].offset \in Nat /\ fields[i].offset + fields[i].size \in Nat
        /\ fields[j].offset \in Nat /\ fields[j].offset + fields[j].size \in Nat
        /\ i \in Nat /\ j \in Nat
    BY <1>1
  <2>2. /\ ~(fields[i].offset + fields[i].size <= fields[j].offset)
        /\ ~(fields[j].offset + fields[j].size <= fields[i].offset)
    BY <1>4, <2>1, TwoSpans DEF Covers
  <2>3. ~(i < j) /\ ~(j < i)
    BY <1>3, <2>2 DEF Ascending
  <2>. QED
    BY <2>1, <2>3
<1>5. ASSUME NEW i \in DOMAIN gaps, NEW j \in DOMAIN gaps, Covers(gaps[i], byte), Covers(gaps[j], byte)
      PROVE  i = j
  <2>1. /\ gaps[i].offset \in Nat /\ gaps[i].offset + gaps[i].size \in Nat
        /\ gaps[j].offset \in Nat /\ gaps[j].offset + gaps[j].size \in Nat
        /\ i \in Nat /\ j \in Nat
    BY <1>2
  <2>2. /\ ~(gaps[i].offset + gaps[i].size <= gaps[j].offset)
        /\ ~(gaps[j].offset + gaps[j].size <= gaps[i].offset)
    BY <1>5, <2>1, TwoSpans DEF Covers
  <2>3. ~(i < j) /\ ~(j < i)
    BY <1>3, <2>2 DEF Ascending
  <2>. QED
    BY <2>1, <2>3
<1>6. ASSUME NEW i \in DOMAIN fields, NEW j \in DOMAIN gaps, Covers(fields[i], byte), Covers(gaps[j], byte)
      PROVE  FALSE
  <2>1. /\ fields[i].offset \in Nat /\ fields[i].offset + fields[i].size \in Nat
        /\ gaps[j].offset \in Nat /\ gaps[j].offset + gaps[j].size \in Nat
    BY <1>1, <1>2
  <2>2. /\ ~(fields[i].offset + fields[i].size <= gaps[j].offset)
        /\ ~(gaps[j].offset + gaps[j].size <= fields[i].offset)
    BY <1>6, <2>1, TwoSpans DEF Covers
  <2>. QED
    BY <1>3, <2>2 DEF Disjoint
<1>. QED
  BY <1>4, <1>5, <1>6

\* What is shown of a field, and of a gap.
FieldPart(node, i) ==
  IF i \in Blocks(node) THEN Block(node, i)
  ELSE Part("scalar", NoType, node.base + LayoutOf(node.name).fields[i].offset, LayoutOf(node.name).fields[i].size, 1)
GapPart(node, i) ==
  Part("padding", NoType, node.base + LayoutOf(node.name).gaps[i].offset, LayoutOf(node.name).gaps[i].size, 1)

LEMMA PartsAre ==
  ASSUME NEW node
  PROVE  /\ Parts(node) = {FieldPart(node, i) : i \in DOMAIN LayoutOf(node.name).fields}
                          \cup {GapPart(node, i) : i \in DOMAIN LayoutOf(node.name).gaps}
         /\ \A i \in DOMAIN LayoutOf(node.name).fields :
              /\ FieldPart(node, i).offset = node.base + LayoutOf(node.name).fields[i].offset
              /\ FieldPart(node, i).size = LayoutOf(node.name).fields[i].size
              /\ FieldPart(node, i).type # NoType =>
                   i \in Blocks(node) /\ FieldPart(node, i).type = LayoutOf(node.name).fields[i].member
         /\ \A i \in DOMAIN LayoutOf(node.name).gaps :
              /\ GapPart(node, i).offset = node.base + LayoutOf(node.name).gaps[i].offset
              /\ GapPart(node, i).size = LayoutOf(node.name).gaps[i].size
              /\ GapPart(node, i).type = NoType
<1>. DEFINE layout == LayoutOf(node.name)
<1>1. Blocks(node) \subseteq DOMAIN layout.fields
  BY DEF Blocks
<1>2. Parts(node) = {Block(node, i) : i \in Blocks(node)}
        \cup {Part("scalar", NoType, node.base + layout.fields[i].offset, layout.fields[i].size, 1) :
                i \in DOMAIN layout.fields \ Blocks(node)}
        \cup {GapPart(node, i) : i \in DOMAIN layout.gaps}
  BY DEF Parts, GapPart
<1>3. {FieldPart(node, i) : i \in DOMAIN layout.fields} =
        {Block(node, i) : i \in Blocks(node)}
        \cup {Part("scalar", NoType, node.base + layout.fields[i].offset, layout.fields[i].size, 1) :
                i \in DOMAIN layout.fields \ Blocks(node)}
  BY <1>1 DEF FieldPart
<1>4. Parts(node) = {FieldPart(node, i) : i \in DOMAIN layout.fields} \cup {GapPart(node, i) : i \in DOMAIN layout.gaps}
  BY <1>2, <1>3, Zenon
<1>5. \A i \in DOMAIN layout.fields :
        /\ FieldPart(node, i).offset = node.base + layout.fields[i].offset
        /\ FieldPart(node, i).size = layout.fields[i].size
        /\ FieldPart(node, i).type # NoType => i \in Blocks(node) /\ FieldPart(node, i).type = layout.fields[i].member
  BY DEF FieldPart, Block, Part
<1>6. \A i \in DOMAIN layout.gaps :
        /\ GapPart(node, i).offset = node.base + layout.gaps[i].offset
        /\ GapPart(node, i).size = layout.gaps[i].size
        /\ GapPart(node, i).type = NoType
  BY DEF GapPart, Part
<1>. QED
  BY <1>4, <1>5, <1>6

LEMMA PartsFill ==
  ASSUME TypeOK, LayoutsTiled, NEW node \in Nodes
  PROVE  Fill(Parts(node), node.base, node.base + LayoutOf(node.name).size)
<1>. DEFINE layout == LayoutOf(node.name)
            fields == layout.fields
            gaps == layout.gaps
            base == node.base
            size == layout.size
            F(i) == FieldPart(node, i)
            G(i) == GapPart(node, i)
<1>1. HasLayout(node.name) /\ base \in Nat
  BY DEF Nodes
<1>2. /\ fields \in Seq(PlacedField) /\ gaps \in Seq(PaddingGap) /\ size \in Nat
      /\ \A i \in DOMAIN fields : fields[i].offset \in Nat /\ fields[i].size \in Nat
      /\ \A i \in DOMAIN gaps : gaps[i].offset \in Nat /\ gaps[i].size \in Nat
  BY <1>1, LayoutParts
<1>3. Tiled(fields, gaps, size)
  <2>1. PICK k \in DOMAIN layouts : layouts[k].name = node.name /\ layout = layouts[k]
    BY <1>1, LayoutOfFacts
  <2>. QED
    BY <2>1 DEF LayoutsTiled
<1>4. /\ Parts(node) = {F(i) : i \in DOMAIN fields} \cup {G(i) : i \in DOMAIN gaps}
      /\ \A i \in DOMAIN fields : F(i).offset = base + fields[i].offset /\ F(i).size = fields[i].size
      /\ \A i \in DOMAIN gaps : G(i).offset = base + gaps[i].offset /\ G(i).size = gaps[i].size
  BY PartsAre
<1>. HIDE DEF fields, gaps, size, base, F, G
<1>5. ASSUME NEW p \in Parts(node) PROVE base <= p.offset /\ p.offset + p.size <= base + size
  <2>1. Ends(fields, size) /\ Ends(gaps, size)
    BY <1>3 DEF Tiled
  <2>2. CASE \E i \in DOMAIN fields : p = F(i)
    <3>1. PICK i \in DOMAIN fields : p = F(i)
      BY <2>2
    <3>2. p.offset = base + fields[i].offset /\ p.size = fields[i].size
      BY <1>4, <3>1
    <3>3. fields[i].offset + fields[i].size <= size
      BY <2>1 DEF Ends
    <3>4. fields[i].offset \in Nat /\ fields[i].size \in Nat
      BY <1>2
    <3>. QED
      BY <1>1, <1>2, <3>2, <3>3, <3>4
  <2>3. CASE \E i \in DOMAIN gaps : p = G(i)
    <3>1. PICK i \in DOMAIN gaps : p = G(i)
      BY <2>3
    <3>2. p.offset = base + gaps[i].offset /\ p.size = gaps[i].size
      BY <1>4, <3>1
    <3>3. gaps[i].offset + gaps[i].size <= size
      BY <2>1 DEF Ends
    <3>4. gaps[i].offset \in Nat /\ gaps[i].size \in Nat
      BY <1>2
    <3>. QED
      BY <1>1, <1>2, <3>2, <3>3, <3>4
  <2>. QED
    BY <1>4, <2>2, <2>3
<1>6. ASSUME NEW byte \in base .. (base + size) - 1
      PROVE  \E p \in Parts(node) : \A q \in Parts(node) : Covers(q, byte) <=> q = p
  <2>. DEFINE at == byte - base
  <2>1. at \in 0 .. size - 1 /\ at \in Nat /\ byte = base + at
    BY <1>1, <1>2
  <2>2. /\ \A i \in DOMAIN fields : Covers(F(i), byte) <=> Covers(fields[i], at)
        /\ \A i \in DOMAIN gaps : Covers(G(i), byte) <=> Covers(gaps[i], at)
    <3>. HIDE DEF at
    <3>1. ASSUME NEW i \in DOMAIN fields PROVE Covers(F(i), byte) <=> Covers(fields[i], at)
      <4>1. F(i).offset = base + fields[i].offset /\ F(i).size = fields[i].size
        BY <1>4
      <4>2. fields[i].offset \in Nat /\ fields[i].size \in Nat
        BY <1>2
      <4>. QED
        BY <1>1, <2>1, <4>1, <4>2 DEF Covers
    <3>2. ASSUME NEW i \in DOMAIN gaps PROVE Covers(G(i), byte) <=> Covers(gaps[i], at)
      <4>1. G(i).offset = base + gaps[i].offset /\ G(i).size = gaps[i].size
        BY <1>4
      <4>2. gaps[i].offset \in Nat /\ gaps[i].size \in Nat
        BY <1>2
      <4>. QED
        BY <1>1, <2>1, <4>1, <4>2 DEF Covers
    <3>. QED
      BY <3>1, <3>2
  <2>. HIDE DEF at
  <2>3. /\ \A i, j \in DOMAIN fields : Covers(fields[i], at) /\ Covers(fields[j], at) => i = j
        /\ \A i, j \in DOMAIN gaps : Covers(gaps[i], at) /\ Covers(gaps[j], at) => i = j
        /\ \A i \in DOMAIN fields, j \in DOMAIN gaps : ~(Covers(fields[i], at) /\ Covers(gaps[j], at))
    BY <1>2, <1>3, <2>1, OnePiece
  <2>4. CASE \E i \in DOMAIN fields : Covers(fields[i], at)
    <3>1. PICK i \in DOMAIN fields : Covers(fields[i], at)
      BY <2>4
    <3>2. F(i) \in Parts(node) /\ Covers(F(i), byte)
      BY <1>4, <2>2, <3>1
    <3>3. ASSUME NEW q \in Parts(node), Covers(q, byte) PROVE q = F(i)
      <4>1. CASE \E j \in DOMAIN fields : q = F(j)
        BY <2>2, <2>3, <3>1, <3>3, <4>1
      <4>2. CASE \E j \in DOMAIN gaps : q = G(j)
        BY <2>2, <2>3, <3>1, <3>3, <4>2
      <4>. QED
        BY <1>4, <4>1, <4>2
    <3>. QED
      BY <3>2, <3>3
  <2>5. CASE \E i \in DOMAIN gaps : Covers(gaps[i], at)
    <3>1. PICK i \in DOMAIN gaps : Covers(gaps[i], at)
      BY <2>5
    <3>2. G(i) \in Parts(node) /\ Covers(G(i), byte)
      BY <1>4, <2>2, <3>1
    <3>3. ASSUME NEW q \in Parts(node), Covers(q, byte) PROVE q = G(i)
      <4>1. CASE \E j \in DOMAIN fields : q = F(j)
        BY <2>2, <2>3, <3>1, <3>3, <4>1
      <4>2. CASE \E j \in DOMAIN gaps : q = G(j)
        BY <2>2, <2>3, <3>1, <3>3, <4>2
      <4>. QED
        BY <1>4, <4>1, <4>2
    <3>. QED
      BY <3>2, <3>3
  <2>6. \/ \E i \in DOMAIN fields : Covers(fields[i], at)
        \/ \E i \in DOMAIN gaps : Covers(gaps[i], at)
    BY <1>3, <2>1 DEF Tiled
  <2>. QED
    BY <2>4, <2>5, <2>6
<1>. DEFINE parts == Parts(node)
            top == base + size
<1>7. \A p \in parts : base <= p.offset /\ p.offset + p.size <= top
  BY <1>5
<1>8. \A byte \in base .. top - 1 : \E p \in parts : \A q \in parts : Covers(q, byte) <=> q = p
  BY <1>6
<1>. HIDE DEF parts, top
<1>9. Fill(parts, base, top)
  BY <1>7, <1>8, Zenon DEF Fill
<1>. QED
  BY <1>9 DEF parts, top, base, size

(***************************************************************************)
(* The parts fill the bytes of their block                                 *)
(***************************************************************************)
LEMMA Quotient ==
  ASSUME NEW a \in Nat, NEW b \in Nat, b > 0
  PROVE  (a * b) \div b = a
<1>. DEFINE q == (a * b) \div b
            r == (a * b) % b
<1>1. a * b \in Nat
  OBVIOUS
<1>2. q \in Int /\ r \in 0 .. b - 1 /\ a * b = b * q + r
  BY <1>1
<1>. HIDE DEF q, r
<1>3. b * (a - q) = r
  BY <1>2
<1>4. CASE a - q >= 1
  <2>1. b * (a - q) >= b
    BY <1>2, <1>4
  <2>. QED
    BY <1>2, <1>3, <2>1
<1>5. CASE a - q <= -1
  <2>1. b * (a - q) < 0
    BY <1>2, <1>5
  <2>. QED
    BY <1>2, <1>3, <2>1
<1>6. q = a
  BY <1>2, <1>4, <1>5
<1>. QED
  BY <1>6 DEF q

\* Each struct that is laid out at last has the sizes that its members have.
LEMMA LastSizes ==
  ASSUME typeDict \in TypeDict, target \in Targets, NEW name \in DOMAIN Compiled
  PROVE  /\ Size - 1 \in Nat /\ Size - 1 < Size /\ (Size - 1) + 1 = Size
         /\ \A i \in DOMAIN StructOf(name).fields :
              EngineCompiled[name].sizes[i] = FieldSize(EngineRounds[Size - 1], StructOf(name), i)
<1>. DEFINE known == EngineRounds[Size - 1]
            struct == StructOf(name)
<1>1. Size \in Nat \ {0}
  BY CompiledCertain
<1>2. Size - 1 \in Nat /\ Size - 1 < Size /\ (Size - 1) + 1 = Size /\ Size \in 0 .. Size /\ Size - 1 \in 0 .. Size
      /\ Size \in 1 .. Size
  BY <1>1
<1>3. EngineCompiled = EngineRound(known) /\ Shaped(known)
  BY <1>2, EngineRoundsDefine, EngineRoundsShaped DEF EngineCompiled
<1>4. name \in DOMAIN EngineCompiled
  BY <1>2, EngineRoundsShaped DEF EngineCompiled, Known, Compiled, Size
<1>. HIDE DEF known
<1>5. name \in Ready(known) /\ EngineCompiled[name] = EngineStruct(known, struct)
  BY <1>3, <1>4 DEF EngineRound
<1>6. Settled(known, struct)
  BY <1>5, ReadySettled
<1>7. EngineStruct(known, struct).sizes = [i \in 1 .. Len(struct.fields) |-> FieldSize(known, struct, i)]
  BY <1>3, <1>6, EngineStructShaped
<1>8. DOMAIN struct.fields = 1 .. Len(struct.fields)
  BY <1>6 DEF Settled, Struct
<1>. QED
  BY <1>2, <1>5, <1>7, <1>8 DEF known

LEMMA AgreedLayout ==
  ASSUME CallsInv, MatchInv, packOverride = NoPack, NEW name \in DOMAIN Compiled, HasLayout(name)
  PROVE  Agrees(LayoutOf(name), EngineCompiled[name])
<1>1. PICK k \in DOMAIN layouts : layouts[k].name = name /\ LayoutOf(name) = layouts[k]
  BY LayoutOfFacts DEF CallsInv
<1>2. ~layouts[k].estimated
  BY <1>1 DEF CallsInv, HonestInv
<1>. QED
  BY <1>1, <1>2 DEF MatchInv

LEMMA LayoutMembers ==
  ASSUME CallsInv, MemberInv, NEW name, HasLayout(name)
  PROVE  /\ name \in StructNames(typeDict)
         /\ DOMAIN LayoutOf(name).fields = DOMAIN StructOf(name).fields
         /\ \A i \in DOMAIN StructOf(name).fields : StructOf(name).fields[i] \in Field
         /\ MembersOf(StructOf(name).fields, LayoutOf(name).fields)
<1>1. PICK k \in DOMAIN layouts : layouts[k].name = name /\ LayoutOf(name) = layouts[k]
  BY LayoutOfFacts DEF CallsInv
<1>2. /\ name \in StructNames(typeDict)
      /\ Len(LayoutOf(name).fields) = Len(StructOf(name).fields)
      /\ MembersOf(StructOf(name).fields, LayoutOf(name).fields)
  BY <1>1 DEF MemberInv
<1>3. StructOf(name).fields \in Seq(Field)
  <2>1. IndexOf(typeDict, name) \in DOMAIN typeDict.structs
    BY <1>2, IndexOfFacts
  <2>. QED
    BY <2>1, StructFacts DEF CallsInv, StructOf
<1>4. LayoutOf(name).fields \in Seq(PlacedField)
  BY LayoutParts DEF CallsInv
<1>5. DOMAIN LayoutOf(name).fields = DOMAIN StructOf(name).fields
  BY <1>2, <1>3, <1>4
<1>6. \A i \in DOMAIN StructOf(name).fields : StructOf(name).fields[i] \in Field
  BY <1>3, ElementType
<1>. QED
  BY <1>2, <1>5, <1>6

\* A block has the bytes for as many of its struct as it counts.
LEMMA BlockSpan ==
  ASSUME CallsInv, MatchInv, MemberInv, packOverride = NoPack, NEW node \in Nodes, node.name \in DOMAIN Compiled,
         NEW i \in Openable(node)
  PROVE  /\ Opened(node, i).name \in DOMAIN Compiled /\ Opened(node, i) \in Nodes
         /\ Opened(node, i).base = Block(node, i).offset
         /\ Block(node, i).count \in Nat
         /\ Block(node, i).size = LayoutOf(Opened(node, i).name).size * Block(node, i).count
<1>. DEFINE name == node.name
            placed == LayoutOf(name).fields[i]
            member == placed.member
            struct == StructOf(name)
            field == struct.fields[i]
            known == EngineRounds[Size - 1]
<1>0. TypeOK /\ typeDict \in TypeDict /\ target \in Targets /\ Primitives \cap StructNames(typeDict) = {}
  BY DEF CallsInv, TypeOK, InputInv, Clear, Unambiguous
<1>1. HasLayout(name) /\ i \in DOMAIN LayoutOf(name).fields /\ member # NoType /\ HasLayout(member)
  BY DEF Nodes, Openable, Blocks
<1>2. /\ i \in DOMAIN struct.fields /\ field \in Field
      /\ Embedded(field, member)
  BY <1>1, LayoutMembers DEF MembersOf
<1>3. /\ Certain(Rounds[Size - 1], field) /\ Certain(Compiled, field)
  BY <1>0, <1>2, CompiledCertain
<1>4. ~field.pointer /\ Meaning(field.type) = member /\ member \notin Primitives
  BY <1>0, <1>2 DEF Embedded
<1>5. member \in Known(Size - 1) /\ member \in DOMAIN Compiled
  BY <1>3, <1>4 DEF Certain, Known
<1>6. placed.size = FieldSize(known, struct, i)
  <2>1. placed.size = EngineCompiled[name].sizes[i]
    BY <1>1, AgreedLayout DEF Agrees
  <2>. QED
    BY <1>0, <1>2, <2>1, LastSizes
<1>7. FieldSize(known, struct, i) = known[member].size * field.length
  BY <1>4 DEF FieldSize, Extent
<1>8. known[member] = EngineCompiled[member]
  <2>1. Size - 1 \in Nat /\ Size - 1 < Size /\ (Size - 1) + 1 = Size
    BY <1>0, LastSizes
  <2>2. EngineRounds[(Size - 1) + 1][member] = EngineRounds[Size - 1][member]
    BY <1>0, <1>5, <2>1, EngineStable
  <2>. QED
    BY <2>1, <2>2 DEF EngineCompiled
<1>9. LayoutOf(member).size = EngineCompiled[member].size
  BY <1>1, <1>5, AgreedLayout DEF Agrees
<1>10. /\ Opened(node, i).name = member /\ Opened(node, i).base = node.base + placed.offset
       /\ Block(node, i).offset = node.base + placed.offset /\ Block(node, i).size = placed.size
       /\ Block(node, i).count = field.length
  BY DEF Opened, Node, Block, Part, StructOf, DictFields
<1>11. field.length \in Nat /\ Opened(node, i) \in Nodes
  BY <1>0, <1>2, OpenedType DEF Field
<1>. HIDE DEF placed, member, struct, field, known
<1>. QED
  BY <1>5, <1>6, <1>7, <1>8, <1>9, <1>10, <1>11

\* What is opened in the tree of a compiled struct is compiled.
LEMMA LevelsCompiled ==
  ASSUME CallsInv, MatchInv, MemberInv, packOverride = NoPack, NEW name \in DOMAIN Compiled, HasLayout(name)
  PROVE  \A depth \in 0 .. MaxDepth : \A node \in Levels(name)[depth] :
           node \in Nodes /\ node.name \in DOMAIN Compiled
<1>. DEFINE level == Levels(name)
            T == {h \in Nat : h <= MaxDepth => \A node \in level[h] : node.name \in DOMAIN Compiled}
<1>0. TypeOK /\ name \in TypeNames
  <2>1. TypeOK
    BY DEF CallsInv
  <2>2. PICK k \in DOMAIN layouts : layouts[k].name = name
    BY DEF HasLayout
  <2>3. layouts[k] \in LayoutType
    BY <2>1, <2>2, ElementType DEF TypeOK
  <2>. QED
    BY <2>1, <2>2, <2>3 DEF LayoutType
<1>1. /\ MaxDepth \in Nat /\ level[0] = {Root(name)}
      /\ \A h \in 1 .. MaxDepth : level[h] = NextLevel(level[h - 1])
      /\ \A h \in 0 .. MaxDepth : level[h] \subseteq Nodes
  BY <1>0, LevelsDefine
<1>. HIDE DEF level
<1>2. 0 \in T
  <2>1. Root(name).name = name
    BY <1>0, RootType
  <2>. QED
    BY <1>1, <2>1
<1>3. ASSUME NEW h \in T PROVE h + 1 \in T
  <2>1. SUFFICES ASSUME h + 1 <= MaxDepth, NEW node \in level[h + 1] PROVE node.name \in DOMAIN Compiled
    OBVIOUS
  <2>2. h + 1 \in 1 .. MaxDepth /\ (h + 1) - 1 = h /\ h <= MaxDepth /\ h \in 0 .. MaxDepth
    BY <1>1, <2>1
  <2>3. level[h + 1] = NextLevel(level[h])
    BY <1>1, <2>2
  <2>4. PICK above \in level[h] : \E i \in Openable(above) : node = Opened(above, i)
    BY <2>3 DEF NextLevel
  <2>5. above \in Nodes /\ above.name \in DOMAIN Compiled
    BY <1>1, <2>2, <2>4
  <2>. QED
    BY <2>4, <2>5, BlockSpan
<1>4. T = Nat
  <2>. HIDE DEF T
  <2>1. T \in SUBSET Nat
    BY DEF T
  <2>. QED
    BY <1>2, <1>3, <2>1, Induct
<1>5. \A h \in 0 .. MaxDepth : \A node \in level[h] : node.name \in DOMAIN Compiled
  BY <1>1, <1>4
<1>. QED
  BY <1>1, <1>5 DEF level

LEMMA BlocksFill ==
  ASSUME CallsInv, MatchInv, MemberInv, LayoutsTiled
  PROVE  CompositionFills
<1>1. SUFFICES ASSUME packOverride = NoPack, NEW k \in DOMAIN layouts, ~layouts[k].estimated
               PROVE  /\ Fill(Parts(Root(layouts[k].name)), 0, layouts[k].size)
                      /\ \A depth \in 0 .. MaxDepth - 1 : \A node \in Levels(layouts[k].name)[depth] :
                           \A i \in Openable(node) :
                             LET block == Block(node, i)
                             IN  block.count > 0 =>
                                   Fill(Parts(Opened(node, i)), block.offset, block.offset + block.size \div block.count)
  BY DEF CompositionFills
<1>. DEFINE name == layouts[k].name
<1>2. TypeOK /\ HasLayout(name) /\ name \in DOMAIN Compiled /\ name \in TypeNames
  <2>1. TypeOK /\ layouts[k] \in LayoutType
    BY ElementType DEF CallsInv, TypeOK
  <2>. QED
    BY <1>1, <2>1 DEF CallsInv, HonestInv, HasLayout, LayoutType
<1>3. LayoutOf(name).size = layouts[k].size /\ layouts[k].size \in Nat
  <2>1. Agrees(LayoutOf(name), EngineCompiled[name])
    BY <1>1, <1>2, AgreedLayout
  <2>2. Agrees(layouts[k], EngineCompiled[name])
    BY <1>1 DEF MatchInv
  <2>3. layouts[k].size \in Nat
    <3>1. layouts[k] \in LayoutType
      BY <1>2, ElementType DEF TypeOK
    <3>. QED
      BY <3>1 DEF LayoutType
  <2>. QED
    BY <2>1, <2>2, <2>3 DEF Agrees
<1>4. Fill(Parts(Root(name)), 0, layouts[k].size)
  <2>1. Root(name) \in Nodes /\ Root(name).name = name /\ Root(name).base = 0
    BY <1>2, RootType
  <2>2. Fill(Parts(Root(name)), 0, 0 + layouts[k].size)
    BY <1>2, <1>3, <2>1, PartsFill
  <2>3. 0 + layouts[k].size = layouts[k].size
    BY <1>3
  <2>. QED
    BY <2>2, <2>3
<1>5. ASSUME NEW depth \in 0 .. MaxDepth - 1, NEW node \in Levels(name)[depth], NEW i \in Openable(node),
             Block(node, i).count > 0
      PROVE  Fill(Parts(Opened(node, i)), Block(node, i).offset,
                  Block(node, i).offset + Block(node, i).size \div Block(node, i).count)
  <2>. DEFINE block == Block(node, i)
              below == Opened(node, i)
              size == LayoutOf(below.name).size
  <2>1. depth \in 0 .. MaxDepth
    BY CompositionAssumption
  <2>2. node \in Nodes /\ node.name \in DOMAIN Compiled
    BY <1>1, <1>2, <2>1, LevelsCompiled
  <2>3. /\ below \in Nodes /\ below.base = block.offset
        /\ block.count \in Nat /\ block.size = size * block.count
    BY <1>1, <2>2, BlockSpan
  <2>4. size \in Nat
    BY <1>2, <2>3, LayoutParts DEF Nodes
  <2>5. Fill(Parts(below), below.base, below.base + size)
    BY <1>2, <2>3, PartsFill
  <2>. HIDE DEF block, size
  <2>6. block.size \div block.count = size
    BY <1>5, <2>3, <2>4, Quotient DEF block
  <2>. QED
    BY <2>3, <2>5, <2>6 DEF block
<1>. QED
  BY <1>4, <1>5

\* In the tree of analyzer/messageComposition.ts, however deep it is cut, the parts shown
\* of each struct fill exactly the bytes that the block it was opened from has for it (for
\* one element, if that is an array), and those of the message all of its own, provided
\* that its layout is not estimated and the packing not overridden.
THEOREM CompositionFillsCorrect == Spec => []CompositionFills
<1>1. CallsInv /\ MatchInv /\ MemberInv /\ LayoutsTiled => CompositionFills
  BY BlocksFill
<1>. QED
  BY <1>1, CallsAtStart, CallsKept, MatchAtStart, MatchKept, MemberAtStart, MemberKept,
     LayoutsTiledCorrect, PTL DEF Spec

(***************************************************************************)
(* The warnings reach what is shown                                        *)
(***************************************************************************)
Closed(structs) == \A s \in structs : Composes(s) \subseteq structs

\* A block is one that the containment graph has below its struct, unless it is
\* that struct.
LEMMA BlocksComposed ==
  ASSUME CallsInv, MemberInv, NEW node, HasLayout(node.name), NEW i \in Blocks(node)
  PROVE  LET member == LayoutOf(node.name).fields[i].member
         IN  /\ member \in StructNames(typeDict)
             /\ member = node.name \/ member \in Composes(node.name)
<1>. DEFINE name == node.name
            member == LayoutOf(name).fields[i].member
            field == StructOf(name).fields[i]
<1>1. i \in DOMAIN LayoutOf(name).fields /\ member # NoType
  BY DEF Blocks
<1>2. i \in DOMAIN StructOf(name).fields /\ field \in Field /\ Embedded(field, member)
  BY <1>1, LayoutMembers DEF MembersOf
<1>3. field.type \in TypeNames /\ ~field.pointer /\ Meaning(field.type) = member /\ member \in StructNames(typeDict)
  BY <1>2 DEF Field, Embedded
<1>4. CanonicalName(field.type) = member
  BY <1>3, CanonicalNameMeans DEF CallsInv, InputInv
<1>5. DictFields(name) = StructOf(name).fields
  BY DEF DictFields, StructOf
<1>. HIDE DEF member
<1>6. ASSUME member # name PROVE member \in Composes(name)
  BY <1>2, <1>3, <1>4, <1>5, <1>6 DEF Composes
<1>. QED
  BY <1>3, <1>6 DEF member

LEMMA LevelsReached ==
  ASSUME CallsInv, MemberInv, NEW name \in TypeNames, HasLayout(name), NEW structs, name \in structs, Closed(structs)
  PROVE  \A depth \in 0 .. MaxDepth : \A node \in Levels(name)[depth] : node \in Nodes /\ node.name \in structs
<1>. DEFINE level == Levels(name)
            T == {h \in Nat : h <= MaxDepth => \A node \in level[h] : node.name \in structs}
<1>0. TypeOK
  BY DEF CallsInv
<1>1. /\ MaxDepth \in Nat /\ level[0] = {Root(name)}
      /\ \A h \in 1 .. MaxDepth : level[h] = NextLevel(level[h - 1])
      /\ \A h \in 0 .. MaxDepth : level[h] \subseteq Nodes
  BY <1>0, LevelsDefine
<1>. HIDE DEF level
<1>2. 0 \in T
  <2>1. Root(name).name = name
    BY <1>0, RootType
  <2>. QED
    BY <1>1, <2>1
<1>3. ASSUME NEW h \in T PROVE h + 1 \in T
  <2>1. SUFFICES ASSUME h + 1 <= MaxDepth, NEW node \in level[h + 1] PROVE node.name \in structs
    OBVIOUS
  <2>2. h + 1 \in 1 .. MaxDepth /\ (h + 1) - 1 = h /\ h <= MaxDepth /\ h \in 0 .. MaxDepth
    BY <1>1, <2>1
  <2>3. level[h + 1] = NextLevel(level[h])
    BY <1>1, <2>2
  <2>4. PICK above \in level[h] : \E i \in Openable(above) : node = Opened(above, i)
    BY <2>3 DEF NextLevel
  <2>5. PICK i \in Openable(above) : node = Opened(above, i)
    BY <2>4
  <2>6. HasLayout(above.name) /\ above.name \in structs
    BY <1>1, <2>2, <2>4 DEF Nodes
  <2>7. i \in Blocks(above) /\ node.name = LayoutOf(above.name).fields[i].member
    BY <2>5 DEF Openable, Opened, Node
  <2>8. node.name = above.name \/ node.name \in Composes(above.name)
    BY <2>6, <2>7, BlocksComposed
  <2>. QED
    BY <2>6, <2>8 DEF Closed
<1>4. T = Nat
  <2>. HIDE DEF T
  <2>1. T \in SUBSET Nat
    BY DEF T
  <2>. QED
    BY <1>2, <1>3, <2>1, Induct
<1>5. \A h \in 0 .. MaxDepth : \A node \in level[h] : node.name \in structs
  BY <1>1, <1>4
<1>. QED
  BY <1>1, <1>5 DEF level

LEMMA RowsReached ==
  ASSUME CallsInv, MemberInv
  PROVE  WarningsReach
<1>1. SUFFICES ASSUME NEW k \in DOMAIN layouts, NEW node \in Composed(layouts[k].name),
                      NEW p \in Parts(node), p.type # NoType
               PROVE  p.type \in Reached(layouts[k].name)
  BY DEF WarningsReach
<1>. DEFINE name == layouts[k].name
            member(i) == LayoutOf(node.name).fields[i].member
<1>2. HasLayout(name) /\ name \in TypeNames
  <2>1. layouts[k] \in LayoutType
    BY ElementType DEF CallsInv, TypeOK
  <2>. QED
    BY <2>1 DEF HasLayout, LayoutType
<1>3. PICK depth \in 0 .. MaxDepth : node \in Levels(name)[depth]
  BY DEF Composed
<1>. HIDE DEF name
<1>4. HasLayout(node.name)
  <2>1. Levels(name)[depth] \subseteq Nodes
    BY <1>2, <1>3, LevelsDefine DEF CallsInv
  <2>. QED
    BY <1>3, <2>1 DEF Nodes
<1>5. PICK i \in Blocks(node) : p.type = member(i)
  BY <1>1, PartsAre
<1>. HIDE DEF member
<1>6. member(i) \in StructNames(typeDict) /\ (member(i) = node.name \/ member(i) \in Composes(node.name))
  BY <1>4, BlocksComposed DEF member
<1>7. ASSUME NEW structs \in SUBSET StructNames(typeDict), name \in structs, Closed(structs)
      PROVE  member(i) \in structs
  <2>1. node.name \in structs
    BY <1>2, <1>3, <1>7, LevelsReached
  <2>. QED
    BY <1>6, <1>7, <2>1 DEF Closed
<1>8. member(i) \in Reached(name)
  BY <1>6, <1>7 DEF Reached, Closed
<1>. QED
  BY <1>5, <1>8 DEF name

\* Every struct that the tree of a message shows is one that collectWarnings visits from
\* it, so that its pointers and variable arrays are warned of: the tree takes a member from
\* the layout, whose typedefs the engine resolved, the walk resolves them itself.
THEOREM WarningsReachCorrect == Spec => []WarningsReach
<1>1. CallsInv /\ MemberInv => WarningsReach
  BY RowsReached
<1>. QED
  BY <1>1, CallsAtStart, CallsKept, MemberAtStart, MemberKept, PTL DEF Spec
==============================================================================
