------------------------------ MODULE AbiProofs ------------------------------
(***************************************************************************)
(* The engine against the reference, for every dictionary: a layout is     *)
(* flagged as estimated exactly if no compiler could know it, and one that *)
(* is not flagged has the compiler's offsets, sizes and alignment.         *)
(*                                                                         *)
(* Three ways of following typedefs are shown to agree first.  Then the    *)
(* calls on the stack are compared with the rounds of the reference: a     *)
(* call that is k deep needs no more than the structs known k rounds       *)
(* before the last, and a struct met while it is being laid out is in no   *)
(* round at all.                                                           *)
(***************************************************************************)
EXTENDS Abi, HeaderProofs

(***************************************************************************)
(* Recursive functions                                                     *)
(***************************************************************************)
\* F gives one value after the other.
Iterates(F, n, V, start, step) ==
  F \in [0 .. n -> V] /\ F[0] = start /\ \A i \in 1 .. n : F[i] = step[i][F[i - 1]]

LEMMA Recursion ==
  ASSUME NEW n \in Nat, NEW V, NEW start \in V, NEW step \in [1 .. n -> [V -> V]]
  PROVE  \E F : Iterates(F, n, V, start, step)
<1>. DEFINE Upto(F, k) == /\ F \in [0 .. k -> V] /\ F[0] = start
                          /\ \A i \in 1 .. k : F[i] = step[i][F[i - 1]]
            T == {k \in Nat : k <= n => \E F : Upto(F, k)}
<1>1. 0 \in T
  <2>1. Upto([i \in 0 .. 0 |-> start], 0)
    OBVIOUS
  <2>. QED
    BY <2>1
<1>2. ASSUME NEW k \in T PROVE k + 1 \in T
  <2>1. SUFFICES ASSUME k + 1 <= n PROVE \E F : Upto(F, k + 1)
    <3>1. k + 1 \in Nat
      OBVIOUS
    <3>. HIDE DEF Upto
    <3>. QED
      BY <3>1
  <2>2. k \in Nat /\ k <= n /\ k + 1 \in 1 .. n
    BY <2>1
  <2>3. PICK F : Upto(F, k)
    BY <2>2
  <2>. DEFINE last == step[k + 1][F[k]]
              G == [i \in 0 .. k + 1 |-> IF i = k + 1 THEN last ELSE F[i]]
  <2>4. last \in V
    <3>1. F[k] \in V
      BY <2>2, <2>3
    <3>. QED
      BY <2>2, <3>1
  <2>. HIDE DEF last
  <2>5. G \in [0 .. k + 1 -> V] /\ G[0] = start
    BY <2>2, <2>3, <2>4
  <2>6. ASSUME NEW i \in 1 .. k + 1 PROVE G[i] = step[i][G[i - 1]]
    <3>1. i - 1 \in 0 .. k /\ i - 1 # k + 1 /\ i \in 0 .. k + 1
      BY <2>2
    <3>2. G[i - 1] = F[i - 1]
      BY <3>1
    <3>3. CASE i = k + 1
      <4>1. i - 1 = k
        BY <2>2, <3>3
      <4>2. G[i] = last
        BY <3>1, <3>3
      <4>. HIDE DEF G
      <4>. QED
        BY <3>2, <3>3, <4>1, <4>2 DEF last
    <3>4. CASE i # k + 1
      <4>1. i \in 1 .. k
        BY <2>2, <3>4
      <4>2. G[i] = F[i]
        BY <3>1, <3>4
      <4>3. F[i] = step[i][F[i - 1]]
        BY <2>3, <4>1
      <4>. HIDE DEF G
      <4>. QED
        BY <3>2, <4>2, <4>3
    <3>. QED
      BY <3>3, <3>4
  <2>. HIDE DEF G
  <2>7. Upto(G, k + 1)
    BY <2>5, <2>6
  <2>. QED
    BY <2>7
<1>3. T = Nat
  <2>. HIDE DEF T
  <2>1. T \in SUBSET Nat
    BY DEF T
  <2>. QED
    BY <1>1, <1>2, <2>1, Induct
<1>. QED
  BY <1>3 DEF Iterates

(***************************************************************************)
(* Typedefs                                                                *)
(***************************************************************************)
\* Where a name leads in one step.
Leads(dict, name) == IF Stops(dict, name) THEN name ELSE AliasOf(dict, name)

LEMMA AliasOfType ==
  ASSUME NEW dict \in TypeDict, NEW name
  PROVE  AliasOf(dict, name) \in TypeNames \cup {NoType}
<1>1. dict.aliases \in Seq(Alias)
  BY DEF TypeDict
<1>2. \A i \in DOMAIN dict.aliases : dict.aliases[i].type \in TypeNames
  <2>1. \A i \in DOMAIN dict.aliases : dict.aliases[i] \in Alias
    BY <1>1, ElementType
  <2>. QED
    BY <2>1 DEF Alias
<1>. QED
  BY <1>2 DEF AliasOf

LEMMA LeadsType ==
  ASSUME NEW dict \in TypeDict, NEW name \in TypeNames
  PROVE  Leads(dict, name) \in TypeNames
BY AliasOfType DEF Leads, Stops, EndsAt

LEMMA FollowingDefines ==
  ASSUME NEW dict \in TypeDict, NEW type \in TypeNames
  PROVE  /\ Following(dict, type) \in [0 .. Len(dict.aliases) -> TypeNames]
         /\ Following(dict, type)[0] = type
         /\ \A n \in 1 .. Len(dict.aliases) :
              Following(dict, type)[n] = Leads(dict, Following(dict, type)[n - 1])
<1>. DEFINE last == Len(dict.aliases)
            Is(F) == F = [n \in 0 .. last |-> IF n = 0 THEN type ELSE Leads(dict, F[n - 1])]
            step == [n \in 1 .. last |-> [name \in TypeNames |-> Leads(dict, name)]]
<1>1. last \in Nat
  BY DEF TypeDict
<1>. HIDE DEF last
<1>2. step \in [1 .. last -> [TypeNames -> TypeNames]]
  BY LeadsType
<1>3. PICK F : Iterates(F, last, TypeNames, type, step)
  <2>. HIDE DEF step
  <2>. QED
    BY <1>1, <1>2, Recursion, Zenon
<1>4. ASSUME NEW n \in 1 .. last PROVE F[n] = Leads(dict, F[n - 1])
  <2>1. n - 1 \in 0 .. last
    BY <1>1
  <2>. QED
    BY <1>3, <2>1 DEF Iterates
<1>5. Is(F)
  <2>1. \A n \in 0 .. last : F[n] = IF n = 0 THEN type ELSE Leads(dict, F[n - 1])
    BY <1>1, <1>3, <1>4 DEF Iterates
  <2>. QED
    BY <1>3, <2>1 DEF Iterates
<1>6. Is(Following(dict, type))
  <2>1. Following(dict, type) = CHOOSE G : Is(G)
    BY DEF Following, Leads, last
  <2>. HIDE DEF Is
  <2>. QED
    BY <1>5, <2>1, Zenon
<1>. DEFINE G == Following(dict, type)
<1>7. G[0] = type
  BY <1>1, <1>6
<1>8. \A n \in 1 .. last : n \in 0 .. last /\ n # 0 /\ n - 1 \in 0 .. last
  BY <1>1
<1>. HIDE DEF G
<1>9. \A n \in 1 .. last : G[n] = Leads(dict, G[n - 1])
  BY <1>6, <1>8 DEF G
<1>10. G \in [0 .. last -> TypeNames]
  <2>. DEFINE T == {n \in Nat : n <= last => G[n] \in TypeNames}
  <2>1. 0 \in T
    BY <1>7
  <2>2. ASSUME NEW n \in T PROVE n + 1 \in T
    <3>1. SUFFICES ASSUME n + 1 <= last PROVE G[n + 1] \in TypeNames
      OBVIOUS
    <3>2. n + 1 \in 1 .. last /\ (n + 1) - 1 = n /\ n <= last
      BY <1>1, <3>1
    <3>3. G[n] \in TypeNames /\ G[n + 1] = Leads(dict, G[n])
      BY <1>9, <3>2
    <3>. QED
      BY <3>3, LeadsType
  <2>3. T = Nat
    <3>. HIDE DEF T
    <3>1. T \in SUBSET Nat
      BY DEF T
    <3>. QED
      BY <2>1, <2>2, <3>1, Induct
  <2>4. \A n \in 0 .. last : G[n] \in TypeNames
    BY <1>1, <2>3
  <2>. QED
    BY <1>6, <2>4 DEF G
<1>. QED
  BY <1>7, <1>9, <1>10 DEF G, last

\* What the assumption on dictionaries gives of the one in use.
Clear == typeDict \in TypeDict /\ Unambiguous(typeDict)
Path(name) == Following(typeDict, name)
Last == Len(typeDict.aliases)

\* The typedefs of a name come to an end within so many steps.
Short(name, hops) == \E n \in 0 .. Last : n <= hops /\ Stops(typeDict, Path(name)[n])

LEMMA PathFacts ==
  ASSUME typeDict \in TypeDict, NEW name \in TypeNames
  PROVE  /\ Last \in Nat
         /\ \A n \in 0 .. Last : Path(name)[n] \in TypeNames
         /\ Path(name)[0] = name
         /\ \A n \in 1 .. Last : Path(name)[n] = Leads(typeDict, Path(name)[n - 1])
<1>1. Last \in Nat
  BY DEF TypeDict, Last
<1>. QED
  BY <1>1, FollowingDefines DEF Path, Last

LEMMA PathStays ==
  ASSUME typeDict \in TypeDict, NEW name \in TypeNames, NEW m \in 0 .. Last,
         Stops(typeDict, Path(name)[m])
  PROVE  Meaning(name) = Path(name)[m]
<1>. DEFINE T == {n \in Nat : m <= n /\ n <= Last => Path(name)[n] = Path(name)[m]}
<1>0. Last \in Nat /\ m \in Nat /\ m <= Last
  BY PathFacts
<1>1. 0 \in T
  <2>1. m <= 0 => m = 0
    BY <1>0
  <2>. QED
    BY <2>1
<1>2. ASSUME NEW n \in T PROVE n + 1 \in T
  <2>1. SUFFICES ASSUME m <= n + 1, n + 1 <= Last PROVE Path(name)[n + 1] = Path(name)[m]
    OBVIOUS
  <2>2. CASE m = n + 1
    BY <2>2
  <2>3. CASE m # n + 1
    <3>1. m <= n /\ n <= Last /\ n + 1 \in 1 .. Last /\ (n + 1) - 1 = n
      BY <1>0, <2>1, <2>3
    <3>2. Path(name)[n] = Path(name)[m]
      BY <3>1
    <3>3. Path(name)[n + 1] = Leads(typeDict, Path(name)[n])
      BY <3>1, PathFacts
    <3>. QED
      BY <3>2, <3>3 DEF Leads
  <2>. QED
    BY <2>2, <2>3
<1>3. T = Nat
  <2>. HIDE DEF T
  <2>1. T \in SUBSET Nat
    BY DEF T
  <2>. QED
    BY <1>1, <1>2, <2>1, Induct
<1>4. Last \in T
  BY <1>0, <1>3
<1>5. Path(name)[Last] = Path(name)[m]
  BY <1>0, <1>4
<1>. QED
  BY <1>5 DEF Meaning, Path, Last

\* A name that is no alias, or is a struct's or a primitive's, means itself.
LEMMA MeaningFixed ==
  ASSUME typeDict \in TypeDict, NEW name \in TypeNames, Stops(typeDict, name)
  PROVE  Meaning(name) = name
<1>1. 0 \in 0 .. Last
  BY PathFacts
<1>. QED
  BY <1>1, PathFacts, PathStays

\* The typedefs behind the first.
LEMMA PathShifts ==
  ASSUME typeDict \in TypeDict, NEW name \in TypeNames, ~Stops(typeDict, name),
         AliasOf(typeDict, name) \in TypeNames
  PROVE  \A n \in Nat : n + 1 <= Last => Path(name)[n + 1] = Path(AliasOf(typeDict, name))[n]
<1>. DEFINE alias == AliasOf(typeDict, name)
            T == {n \in Nat : n + 1 <= Last => Path(name)[n + 1] = Path(alias)[n]}
<1>0. Last \in Nat
  BY PathFacts
<1>1. 0 \in T
  <2>1. SUFFICES ASSUME 0 + 1 <= Last PROVE Path(name)[0 + 1] = Path(alias)[0]
    OBVIOUS
  <2>2. 1 \in 1 .. Last /\ 1 - 1 = 0 /\ 0 + 1 = 1
    BY <1>0, <2>1
  <2>3. Path(name)[1] = Leads(typeDict, name)
    BY <2>2, PathFacts
  <2>4. Path(alias)[0] = alias
    BY PathFacts
  <2>. QED
    BY <2>2, <2>3, <2>4 DEF Leads
<1>2. ASSUME NEW n \in T PROVE n + 1 \in T
  <2>1. SUFFICES ASSUME (n + 1) + 1 <= Last PROVE Path(name)[(n + 1) + 1] = Path(alias)[n + 1]
    OBVIOUS
  <2>2. /\ (n + 1) + 1 \in 1 .. Last /\ n + 1 \in 1 .. Last
        /\ ((n + 1) + 1) - 1 = n + 1 /\ (n + 1) - 1 = n /\ n + 1 <= Last
    BY <1>0, <2>1
  <2>3. Path(name)[(n + 1) + 1] = Leads(typeDict, Path(name)[n + 1])
    BY <2>2, PathFacts
  <2>4. Path(alias)[n + 1] = Leads(typeDict, Path(alias)[n])
    <3>. HIDE DEF alias
    <3>1. alias \in TypeNames
      BY DEF alias
    <3>. QED
      BY <2>2, <3>1, PathFacts
  <2>5. Path(name)[n + 1] = Path(alias)[n]
    BY <2>2
  <2>. QED
    BY <2>3, <2>4, <2>5
<1>3. T = Nat
  <2>. HIDE DEF T
  <2>1. T \in SUBSET Nat
    BY DEF T
  <2>. QED
    BY <1>1, <1>2, <2>1, Induct
<1>. QED
  BY <1>3

\* One typedef further the rest is one step shorter and means the same.
LEMMA Onward ==
  ASSUME typeDict \in TypeDict, NEW name \in TypeNames, ~Stops(typeDict, name),
         NEW hops \in Nat, Short(name, hops)
  PROVE  /\ AliasOf(typeDict, name) \in TypeNames
         /\ hops - 1 \in Nat /\ Short(AliasOf(typeDict, name), hops - 1)
         /\ Meaning(name) = Meaning(AliasOf(typeDict, name))
<1>. DEFINE alias == AliasOf(typeDict, name)
<1>1. alias \in TypeNames
  BY AliasOfType DEF Stops, EndsAt
<1>2. PICK n \in 0 .. Last : n <= hops /\ Stops(typeDict, Path(name)[n])
  BY DEF Short
<1>3. Last \in Nat /\ n # 0
  BY <1>2, PathFacts
<1>4. /\ n - 1 \in Nat /\ (n - 1) + 1 = n /\ n - 1 \in 0 .. Last /\ hops - 1 \in Nat
      /\ n - 1 <= hops - 1 /\ n <= Last
  BY <1>2, <1>3
<1>5. Path(name)[n] = Path(alias)[n - 1]
  BY <1>1, <1>4, PathShifts
<1>. HIDE DEF alias
<1>6. Stops(typeDict, Path(alias)[n - 1])
  BY <1>2, <1>5
<1>7. Meaning(name) = Path(name)[n] /\ Meaning(alias) = Path(alias)[n - 1]
  BY <1>1, <1>2, <1>4, <1>6, PathStays
<1>8. Short(alias, hops - 1)
  BY <1>4, <1>6 DEF Short
<1>. QED
  BY <1>1, <1>4, <1>5, <1>7, <1>8 DEF alias

LEMMA ClearShort ==
  ASSUME Clear, NEW name \in TypeNames
  PROVE  /\ Short(name, STRUCT_HOPS) /\ Short(name, PRIMITIVE_HOPS)
         /\ Stops(typeDict, Meaning(name)) /\ Meaning(name) \in TypeNames
<1>. DEFINE hops == Smaller(Len(typeDict.aliases), Smaller(STRUCT_HOPS, PRIMITIVE_HOPS))
<1>1. Last \in Nat
  BY PathFacts DEF Clear
<1>2. PICK n \in 0 .. hops : Stops(typeDict, Following(typeDict, name)[n])
  BY DEF Clear, Unambiguous
<1>3. n \in 0 .. Last /\ n <= STRUCT_HOPS /\ n <= PRIMITIVE_HOPS
  BY <1>1, <1>2, LayoutAssumption DEF Smaller, Last
<1>4. Stops(typeDict, Path(name)[n])
  BY <1>2 DEF Path
<1>. QED
  BY <1>3, <1>4, PathStays, PathFacts DEF Short, Clear

(***************************************************************************)
(* Primitives                                                              *)
(***************************************************************************)
\* One step of chaseAliasToPrimitive, given what the rest of the hops yields.
ToPrimitive(rest, name) ==
  IF EndsAt(typeDict, name) THEN NoType
  ELSE IF AliasOf(typeDict, name) \in StructNames(typeDict) THEN NoType
  ELSE IF AliasOf(typeDict, name) \in Primitives THEN AliasOf(typeDict, name)
  ELSE rest[AliasOf(typeDict, name)]
Chased == [TypeNames -> TypeNames \cup {NoType}]

LEMMA ToPrimitiveType ==
  ASSUME typeDict \in TypeDict, NEW rest \in Chased, NEW name \in TypeNames
  PROVE  ToPrimitive(rest, name) \in TypeNames \cup {NoType}
<1>1. AliasOf(typeDict, name) \in TypeNames \cup {NoType}
  BY AliasOfType
<1>. QED
  BY <1>1 DEF ToPrimitive, EndsAt, Chased

LEMMA PrimitiveOfDefines ==
  ASSUME typeDict \in TypeDict
  PROVE  \E F : /\ F[0] = [name \in TypeNames |-> NoType]
                /\ \A h \in 1 .. PRIMITIVE_HOPS :
                     F[h] = [name \in TypeNames |-> ToPrimitive(F[h - 1], name)]
                /\ \A type \in TypeNames \ Primitives :
                     PrimitiveOf(typeDict, type) = F[PRIMITIVE_HOPS][type]
<1>. DEFINE H == PRIMITIVE_HOPS
            none == [name \in TypeNames |-> NoType]
            step == [h \in 1 .. H |-> [rest \in Chased |-> [name \in TypeNames |-> ToPrimitive(rest, name)]]]
            Body(C, h, name) ==
              IF h = 0 \/ EndsAt(typeDict, name) THEN NoType
              ELSE IF AliasOf(typeDict, name) \in StructNames(typeDict) THEN NoType
              ELSE IF AliasOf(typeDict, name) \in Primitives THEN AliasOf(typeDict, name)
              ELSE C[h - 1][AliasOf(typeDict, name)]
            Is(C) == C = [h \in 0 .. H |-> [name \in TypeNames |-> Body(C, h, name)]]
<1>1. H \in Nat /\ none \in Chased
  BY LayoutAssumption DEF Chased
<1>2. step \in [1 .. H -> [Chased -> Chased]]
  <2>1. \A rest \in Chased : [name \in TypeNames |-> ToPrimitive(rest, name)] \in Chased
    BY ToPrimitiveType DEF Chased
  <2>. QED
    BY <2>1
<1>3. PICK F : Iterates(F, H, Chased, none, step)
  <2>. HIDE DEF H, none, step
  <2>. QED
    BY <1>1, <1>2, Recursion, Zenon
<1>4. /\ F \in [0 .. H -> Chased] /\ F[0] = none
      /\ \A h \in 1 .. H : F[h] = [name \in TypeNames |-> ToPrimitive(F[h - 1], name)]
  <2>1. \A h \in 1 .. H : h - 1 \in 0 .. H
    BY <1>1
  <2>. QED
    BY <1>3, <2>1 DEF Iterates
<1>5. ASSUME NEW h \in 0 .. H PROVE F[h] = [name \in TypeNames |-> Body(F, h, name)]
  <2>1. CASE h = 0
    BY <1>4, <2>1
  <2>2. CASE h # 0
    <3>1. h \in 1 .. H
      BY <1>1, <2>2
    <3>. QED
      BY <1>4, <2>2, <3>1 DEF ToPrimitive
  <2>. QED
    BY <2>1, <2>2
<1>6. Is(F)
  BY <1>4, <1>5
<1>. DEFINE chase == CHOOSE C : Is(C)
<1>7. Is(chase)
  <2>. HIDE DEF Is
  <2>. QED
    BY <1>6, Zenon
<1>8. ASSUME NEW type \in TypeNames \ Primitives
      PROVE  PrimitiveOf(typeDict, type) = chase[H][type]
  BY DEF PrimitiveOf
<1>. HIDE DEF chase
<1>9. chase[0] = none
  <2>1. 0 \in 0 .. H
    BY <1>1
  <2>. QED
    BY <1>7, <2>1
<1>10. ASSUME NEW h \in 1 .. H
       PROVE  chase[h] = [name \in TypeNames |-> ToPrimitive(chase[h - 1], name)]
  <2>1. h \in 0 .. H /\ h # 0
    BY <1>1
  <2>. QED
    BY <1>7, <2>1 DEF ToPrimitive
<1>. QED
  BY <1>8, <1>9, <1>10

\* A struct's name is no alias of anything else.
LEMMA StructStops ==
  ASSUME Clear, NEW name \in StructNames(typeDict)
  PROVE  /\ Stops(typeDict, name) /\ EndsAt(typeDict, name) /\ name \notin Primitives
         /\ name \in TypeNames
<1>1. name \notin Primitives
  BY DEF Clear, Unambiguous
<1>2. name \in TypeNames
  <2>1. typeDict.structs \in Seq(Struct)
    BY DEF Clear, TypeDict
  <2>2. PICK i \in DOMAIN typeDict.structs : typeDict.structs[i].name = name
    BY DEF StructNames
  <2>3. typeDict.structs[i] \in Struct
    BY <2>1, ElementType
  <2>. QED
    BY <2>2, <2>3 DEF Struct
<1>3. ASSUME NEW i \in DOMAIN typeDict.aliases, typeDict.aliases[i].alias = name
      PROVE  typeDict.aliases[i].type = name
  BY <1>3 DEF Clear, Unambiguous
<1>4. EndsAt(typeDict, name)
  BY <1>3 DEF EndsAt, AliasOf
<1>. QED
  BY <1>1, <1>2, <1>4 DEF Stops

\* The engine takes a type for a primitive exactly if it means one.
LEMMA PrimitiveMeans ==
  ASSUME Clear, NEW type \in TypeNames
  PROVE  PrimitiveOf(typeDict, type) = IF Meaning(type) \in Primitives THEN Meaning(type) ELSE NoType
<1>. DEFINE H == PRIMITIVE_HOPS
            Sought(name) == IF Meaning(name) \in Primitives THEN Meaning(name) ELSE NoType
<1>0. H \in Nat /\ typeDict \in TypeDict
  BY LayoutAssumption DEF Clear
<1>1. PICK F : /\ F[0] = [name \in TypeNames |-> NoType]
               /\ \A h \in 1 .. H : F[h] = [name \in TypeNames |-> ToPrimitive(F[h - 1], name)]
               /\ \A name \in TypeNames \ Primitives : PrimitiveOf(typeDict, name) = F[H][name]
  BY <1>0, PrimitiveOfDefines
<1>. DEFINE T == {h \in Nat : h <= H => \A name \in TypeNames \ Primitives :
                               Short(name, h) => F[h][name] = Sought(name)}
<1>2. 0 \in T
  <2>1. ASSUME NEW name \in TypeNames \ Primitives, Short(name, 0)
        PROVE  F[0][name] = Sought(name)
    <3>1. PICK n \in 0 .. Last : n <= 0 /\ Stops(typeDict, Path(name)[n])
      BY <2>1 DEF Short
    <3>2. n = 0
      BY <3>1, <1>0, PathFacts
    <3>3. Stops(typeDict, name)
      BY <1>0, <3>1, <3>2, PathFacts
    <3>4. Meaning(name) = name
      BY <1>0, <3>3, MeaningFixed
    <3>. QED
      BY <1>1, <3>4
  <2>. HIDE DEF Sought
  <2>. QED
    BY <2>1
<1>3. ASSUME NEW h \in T PROVE h + 1 \in T
  <2>1. ASSUME h + 1 <= H, NEW name \in TypeNames \ Primitives, Short(name, h + 1)
        PROVE  F[h + 1][name] = Sought(name)
    <3>. DEFINE alias == AliasOf(typeDict, name)
    <3>1. h + 1 \in 1 .. H /\ (h + 1) - 1 = h /\ h <= H /\ h \in Nat /\ h + 1 \in Nat
      BY <1>0, <2>1
    <3>2. F[h + 1][name] = ToPrimitive(F[h], name)
      <4>1. F[h + 1] = [n \in TypeNames |-> ToPrimitive(F[(h + 1) - 1], n)]
        BY <1>1, <3>1
      <4>2. F[(h + 1) - 1] = F[h]
        BY <3>1
      <4>3. F[h + 1][name] = ToPrimitive(F[(h + 1) - 1], name)
        BY <4>1
      <4>. QED
        BY <4>2, <4>3
    <3>3. CASE EndsAt(typeDict, name)
      <4>1. Meaning(name) = name
        BY <1>0, <3>3, MeaningFixed DEF Stops
      <4>. QED
        BY <3>2, <3>3, <4>1 DEF ToPrimitive
    <3>4. CASE ~EndsAt(typeDict, name)
      <4>1. ~Stops(typeDict, name)
        BY <3>4, StructStops DEF Stops
      <4>2. alias \in TypeNames /\ Short(alias, h) /\ Meaning(name) = Meaning(alias)
        BY <1>0, <2>1, <3>1, <4>1, Onward
      <4>3. CASE alias \in StructNames(typeDict)
        <5>1. Meaning(alias) = alias /\ alias \notin Primitives
          BY <1>0, <4>2, <4>3, StructStops, MeaningFixed
        <5>. QED
          BY <3>2, <3>4, <4>2, <4>3, <5>1 DEF ToPrimitive
      <4>4. CASE alias \notin StructNames(typeDict) /\ alias \in Primitives
        <5>1. Meaning(alias) = alias
          BY <1>0, <4>2, <4>4, MeaningFixed DEF Stops
        <5>. QED
          BY <3>2, <3>4, <4>2, <4>4, <5>1 DEF ToPrimitive
      <4>5. CASE alias \notin StructNames(typeDict) /\ alias \notin Primitives
        <5>1. F[h][alias] = Sought(alias)
          <6>. HIDE DEF Sought, alias
          <6>. QED
            BY <3>1, <4>2, <4>5
        <5>. QED
          BY <3>2, <3>4, <4>2, <4>5, <5>1 DEF ToPrimitive
      <4>. QED
        BY <4>3, <4>4, <4>5
    <3>. QED
      BY <3>3, <3>4
  <2>. HIDE DEF Sought
  <2>. QED
    BY <2>1
<1>4. T = Nat
  <2>. HIDE DEF T
  <2>1. T \in SUBSET Nat
    BY DEF T
  <2>. QED
    BY <1>2, <1>3, <2>1, Induct
<1>5. ASSUME type \notin Primitives PROVE F[H][type] = Sought(type)
  <2>1. Short(type, H) /\ H \in T /\ H <= H
    BY <1>0, <1>4, ClearShort
  <2>. HIDE DEF Sought
  <2>. QED
    BY <1>5, <2>1
<1>6. CASE type \in Primitives
  <2>1. Meaning(type) = type
    BY <1>0, <1>6, MeaningFixed DEF Stops
  <2>. QED
    BY <1>6, <2>1 DEF PrimitiveOf
<1>. QED
  BY <1>1, <1>5, <1>6

(***************************************************************************)
(* Structs                                                                 *)
(***************************************************************************)
\* One step of the chain in buildTypedefMap, given the names mapped before.
ToMapped(known, rest, name) ==
  IF known[name] # NoType THEN known[name]
  ELSE IF EndsAt(typeDict, name) THEN name
  ELSE rest[AliasOf(typeDict, name)]

LEMMA ToMappedType ==
  ASSUME typeDict \in TypeDict, NEW known \in Chased, NEW rest \in Chased, NEW name \in TypeNames
  PROVE  ToMapped(known, rest, name) \in TypeNames \cup {NoType}
<1>1. AliasOf(typeDict, name) \in TypeNames \cup {NoType}
  BY AliasOfType
<1>. QED
  BY <1>1 DEF ToMapped, EndsAt, Chased

LEMMA ChaseDefines ==
  ASSUME typeDict \in TypeDict, NEW known \in Chased
  PROVE  \E F : /\ F[0] = [name \in TypeNames |-> NoType]
                /\ \A h \in 1 .. STRUCT_HOPS :
                     F[h] = [name \in TypeNames |-> ToMapped(known, F[h - 1], name)]
                /\ \A type : Chase(typeDict, known, type) = F[STRUCT_HOPS][type]
<1>. DEFINE H == STRUCT_HOPS
            none == [name \in TypeNames |-> NoType]
            step == [h \in 1 .. H |->
                       [rest \in Chased |-> [name \in TypeNames |-> ToMapped(known, rest, name)]]]
            Body(C, h, name) ==
              IF h = 0 THEN NoType
              ELSE IF known[name] # NoType THEN known[name]
              ELSE IF EndsAt(typeDict, name) THEN name
              ELSE C[h - 1][AliasOf(typeDict, name)]
            Is(C) == C = [h \in 0 .. H |-> [name \in TypeNames |-> Body(C, h, name)]]
<1>1. H \in Nat /\ none \in Chased
  BY LayoutAssumption DEF Chased
<1>2. step \in [1 .. H -> [Chased -> Chased]]
  <2>1. \A rest \in Chased : [name \in TypeNames |-> ToMapped(known, rest, name)] \in Chased
    BY ToMappedType DEF Chased
  <2>. QED
    BY <2>1
<1>3. PICK F : Iterates(F, H, Chased, none, step)
  <2>. HIDE DEF H, none, step
  <2>. QED
    BY <1>1, <1>2, Recursion, Zenon
<1>4. /\ F \in [0 .. H -> Chased] /\ F[0] = none
      /\ \A h \in 1 .. H : F[h] = [name \in TypeNames |-> ToMapped(known, F[h - 1], name)]
  <2>1. \A h \in 1 .. H : h - 1 \in 0 .. H
    BY <1>1
  <2>. QED
    BY <1>3, <2>1 DEF Iterates
<1>5. ASSUME NEW h \in 0 .. H PROVE F[h] = [name \in TypeNames |-> Body(F, h, name)]
  <2>1. CASE h = 0
    BY <1>4, <2>1
  <2>2. CASE h # 0
    <3>1. h \in 1 .. H
      BY <1>1, <2>2
    <3>. QED
      BY <1>4, <2>2, <3>1 DEF ToMapped
  <2>. QED
    BY <2>1, <2>2
<1>6. Is(F)
  BY <1>4, <1>5
<1>. DEFINE chase == CHOOSE C : Is(C)
<1>7. Is(chase)
  <2>. HIDE DEF Is
  <2>. QED
    BY <1>6, Zenon
<1>8. ASSUME NEW type PROVE Chase(typeDict, known, type) = chase[H][type]
  BY DEF Chase
<1>. HIDE DEF chase
<1>9. chase[0] = none
  <2>1. 0 \in 0 .. H
    BY <1>1
  <2>. QED
    BY <1>7, <2>1
<1>10. ASSUME NEW h \in 1 .. H
       PROVE  chase[h] = [name \in TypeNames |-> ToMapped(known, chase[h - 1], name)]
  <2>1. h \in 0 .. H /\ h # 0
    BY <1>1
  <2>. QED
    BY <1>7, <2>1 DEF ToMapped
<1>. QED
  BY <1>8, <1>9, <1>10

LEMMA ChaseType ==
  ASSUME typeDict \in TypeDict, NEW known \in Chased, NEW type \in TypeNames
  PROVE  Chase(typeDict, known, type) \in TypeNames \cup {NoType}
<1>. DEFINE H == STRUCT_HOPS
<1>0. H \in Nat
  BY LayoutAssumption
<1>1. PICK F : /\ F[0] = [name \in TypeNames |-> NoType]
               /\ \A h \in 1 .. H : F[h] = [name \in TypeNames |-> ToMapped(known, F[h - 1], name)]
               /\ \A t : Chase(typeDict, known, t) = F[H][t]
  BY ChaseDefines
<1>. DEFINE T == {h \in Nat : h <= H => F[h] \in Chased}
<1>2. 0 \in T
  BY <1>1 DEF Chased
<1>3. ASSUME NEW h \in T PROVE h + 1 \in T
  <2>1. SUFFICES ASSUME h + 1 <= H PROVE F[h + 1] \in Chased
    OBVIOUS
  <2>2. h + 1 \in 1 .. H /\ (h + 1) - 1 = h /\ h <= H
    BY <1>0, <2>1
  <2>3. F[h + 1] = [name \in TypeNames |-> ToMapped(known, F[(h + 1) - 1], name)]
    BY <1>1, <2>2
  <2>4. F[(h + 1) - 1] \in Chased
    BY <2>2
  <2>. QED
    BY <2>3, <2>4, ToMappedType DEF Chased
<1>4. T = Nat
  <2>. HIDE DEF T
  <2>1. T \in SUBSET Nat
    BY DEF T
  <2>. QED
    BY <1>2, <1>3, <2>1, Induct
<1>5. F[H] \in Chased
  BY <1>0, <1>4
<1>. QED
  BY <1>1, <1>5 DEF Chased

\* What a map from typedefs may say: what they mean, or nothing yet.
MapsRight(known) ==
  \A name \in TypeNames : Meaning(name) \notin Primitives =>
    /\ known[name] \in {NoType, Meaning(name)}
    /\ name \in StructNames(typeDict) => known[name] = name

LEMMA ChaseMeans ==
  ASSUME Clear, NEW known \in Chased, MapsRight(known), NEW type \in TypeNames,
         Meaning(type) \notin Primitives, NEW hops \in Nat, STRUCT_HOPS = hops + 1, Short(type, hops)
  PROVE  Chase(typeDict, known, type) = Meaning(type)
<1>0. typeDict \in TypeDict
  BY DEF Clear
<1>1. PICK F : /\ F[0] = [name \in TypeNames |-> NoType]
               /\ \A h \in 1 .. hops + 1 :
                    F[h] = [name \in TypeNames |-> ToMapped(known, F[h - 1], name)]
               /\ \A t : Chase(typeDict, known, t) = F[hops + 1][t]
  BY <1>0, ChaseDefines
<1>. DEFINE T == {h \in Nat : h <= hops => \A name \in TypeNames :
                    Meaning(name) \notin Primitives /\ Short(name, h) => F[h + 1][name] = Meaning(name)}
<1>2. ASSUME NEW h \in Nat, h <= hops, NEW name \in TypeNames
      PROVE  F[h + 1][name] = ToMapped(known, F[h], name)
  <2>1. h + 1 \in 1 .. hops + 1 /\ (h + 1) - 1 = h
    BY <1>2
  <2>2. F[h + 1] = [n \in TypeNames |-> ToMapped(known, F[(h + 1) - 1], n)]
    BY <1>1, <2>1
  <2>3. F[(h + 1) - 1] = F[h]
    BY <2>1
  <2>4. F[h + 1][name] = ToMapped(known, F[(h + 1) - 1], name)
    BY <2>2
  <2>. QED
    BY <2>3, <2>4
<1>3. ASSUME NEW h \in Nat, h <= hops, NEW name \in TypeNames, Meaning(name) \notin Primitives,
             Stops(typeDict, name)
      PROVE  F[h + 1][name] = Meaning(name)
  <2>1. Meaning(name) = name
    BY <1>0, <1>3, MeaningFixed
  <2>2. EndsAt(typeDict, name)
    BY <1>3, <2>1, StructStops DEF Stops
  <2>3. known[name] \in {NoType, name}
    BY <1>3, <2>1 DEF MapsRight
  <2>. QED
    BY <1>2, <1>3, <2>1, <2>2, <2>3 DEF ToMapped
<1>4. 0 \in T
  <2>1. ASSUME NEW name \in TypeNames, Short(name, 0)
        PROVE  Stops(typeDict, name)
    <3>1. PICK n \in 0 .. Last : n <= 0 /\ Stops(typeDict, Path(name)[n])
      BY <2>1 DEF Short
    <3>2. n = 0
      BY <3>1, <1>0, PathFacts
    <3>. QED
      BY <1>0, <3>1, <3>2, PathFacts
  <2>. QED
    BY <1>3, <2>1
<1>5. ASSUME NEW h \in T PROVE h + 1 \in T
  <2>1. ASSUME h + 1 <= hops, NEW name \in TypeNames, Meaning(name) \notin Primitives, Short(name, h + 1)
        PROVE  F[(h + 1) + 1][name] = Meaning(name)
    <3>. DEFINE alias == AliasOf(typeDict, name)
    <3>1. h \in Nat /\ h + 1 \in Nat /\ (h + 1) - 1 = h /\ h <= hops
      BY <2>1
    <3>2. CASE Stops(typeDict, name)
      BY <1>3, <2>1, <3>1, <3>2
    <3>3. CASE ~Stops(typeDict, name)
      <4>1. alias \in TypeNames /\ Short(alias, h) /\ Meaning(name) = Meaning(alias)
        BY <1>0, <2>1, <3>1, <3>3, Onward
      <4>2. F[h + 1][alias] = Meaning(name)
        <5>. HIDE DEF alias
        <5>. QED
          BY <2>1, <3>1, <4>1
      <4>3. ~EndsAt(typeDict, name)
        BY <3>3 DEF Stops
      <4>4. known[name] \in {NoType, Meaning(name)}
        BY <2>1 DEF MapsRight
      <4>5. F[(h + 1) + 1][name] = ToMapped(known, F[h + 1], name)
        BY <1>2, <2>1, <3>1
      <4>. QED
        BY <4>2, <4>3, <4>4, <4>5 DEF ToMapped
    <3>. QED
      BY <3>2, <3>3
  <2>. QED
    BY <2>1
<1>6. T = Nat
  <2>. HIDE DEF T
  <2>1. T \in SUBSET Nat
    BY DEF T
  <2>. QED
    BY <1>4, <1>5, <2>1, Induct
<1>7. hops \in T /\ hops <= hops
  <2>. HIDE DEF T
  <2>. QED
    BY <1>6
<1>8. F[hops + 1][type] = Meaning(type)
  BY <1>7
<1>9. Chase(typeDict, known, type) = F[hops + 1][type]
  BY <1>1
<1>. QED
  BY <1>8, <1>9

\* One step of buildTypedefMap.
Mapping(known, i) ==
  LET new == typeDict.aliases[i]
  IN  IF known[new.alias] # NoType THEN known
      ELSE [known EXCEPT ![new.alias] = Chase(typeDict, known, new.type)]

LEMMA AliasesType ==
  ASSUME typeDict \in TypeDict, NEW i \in 1 .. Last
  PROVE  typeDict.aliases[i].alias \in TypeNames /\ typeDict.aliases[i].type \in TypeNames
<1>1. typeDict.aliases \in Seq(Alias) /\ i \in DOMAIN typeDict.aliases
  BY DEF TypeDict, Last
<1>2. typeDict.aliases[i] \in Alias
  BY <1>1, ElementType
<1>. QED
  BY <1>2 DEF Alias

LEMMA MappingType ==
  ASSUME typeDict \in TypeDict, NEW known \in Chased, NEW i \in 1 .. Last
  PROVE  Mapping(known, i) \in Chased
<1>1. Chase(typeDict, known, typeDict.aliases[i].type) \in TypeNames \cup {NoType}
  BY AliasesType, ChaseType
<1>. QED
  BY <1>1 DEF Mapping, Chased

LEMMA TypedefMapDefines ==
  ASSUME typeDict \in TypeDict
  PROVE  \E F : /\ F[0] = [n \in TypeNames |-> IF n \in StructNames(typeDict) THEN n ELSE NoType]
                /\ \A i \in 1 .. Last : F[i] = Mapping(F[i - 1], i)
                /\ TypedefMap(typeDict) = F[Last]
<1>. DEFINE start == [n \in TypeNames |-> IF n \in StructNames(typeDict) THEN n ELSE NoType]
            step == [i \in 1 .. Last |-> [known \in Chased |-> Mapping(known, i)]]
            Is(M) == M = [i \in 0 .. Last |-> IF i = 0 THEN start ELSE Mapping(M[i - 1], i)]
<1>1. Last \in Nat /\ start \in Chased
  BY PathFacts DEF Chased, Last, TypeDict
<1>2. step \in [1 .. Last -> [Chased -> Chased]]
  BY MappingType
<1>3. PICK F : Iterates(F, Last, Chased, start, step)
  <2>. HIDE DEF start, step
  <2>. QED
    BY <1>1, <1>2, Recursion, Zenon
<1>4. /\ F \in [0 .. Last -> Chased] /\ F[0] = start
      /\ \A i \in 1 .. Last : F[i] = Mapping(F[i - 1], i)
  <2>1. \A i \in 1 .. Last : i - 1 \in 0 .. Last
    BY <1>1
  <2>. HIDE DEF start
  <2>. QED
    BY <1>3, <2>1 DEF Iterates
<1>5. Is(F)
  <2>. HIDE DEF start
  <2>1. \A i \in 0 .. Last : F[i] = IF i = 0 THEN start ELSE Mapping(F[i - 1], i)
    BY <1>1, <1>4
  <2>. QED
    BY <1>4, <2>1
<1>. DEFINE map == CHOOSE M : Is(M)
<1>6. Is(map)
  <2>. HIDE DEF Is
  <2>. QED
    BY <1>5, Zenon
<1>7. TypedefMap(typeDict) = map[Last]
  BY DEF TypedefMap, Mapping, Last
<1>. HIDE DEF map
<1>8. map[0] = start
  <2>. HIDE DEF start
  <2>. QED
    BY <1>1, <1>6
<1>9. ASSUME NEW i \in 1 .. Last PROVE map[i] = Mapping(map[i - 1], i)
  <2>1. i \in 0 .. Last /\ i # 0
    BY <1>1
  <2>. HIDE DEF start
  <2>. QED
    BY <1>6, <2>1
<1>. QED
  BY <1>7, <1>8, <1>9

\* The first so many typedefs are in the map.
MapsUpto(known, n) ==
  /\ MapsRight(known)
  /\ \A i \in 1 .. n :
       LET name == typeDict.aliases[i].alias
       IN  Meaning(name) \notin Primitives /\ ~Stops(typeDict, name) => known[name] = Meaning(name)

LEMMA ChaseNone ==
  ASSUME typeDict \in TypeDict, NEW known \in Chased, NEW type \in TypeNames, STRUCT_HOPS = 0
  PROVE  Chase(typeDict, known, type) = NoType
<1>1. PICK F : /\ F[0] = [name \in TypeNames |-> NoType]
               /\ \A t : Chase(typeDict, known, t) = F[STRUCT_HOPS][t]
  BY ChaseDefines
<1>. QED
  BY <1>1

LEMMA MappingRight ==
  ASSUME Clear, NEW known \in Chased, NEW i \in 1 .. Last, MapsUpto(known, i - 1)
  PROVE  MapsUpto(Mapping(known, i), i)
<1>. DEFINE alias == typeDict.aliases[i].alias
            type == typeDict.aliases[i].type
            chased == Chase(typeDict, known, type)
<1>0. typeDict \in TypeDict /\ Last \in Nat /\ STRUCT_HOPS \in Nat /\ NoType \notin TypeNames
  BY PathFacts, LayoutAssumption DEF Clear, Last, TypeDict
<1>1. alias \in TypeNames /\ type \in TypeNames
  BY <1>0, AliasesType
<1>2. AliasOf(typeDict, alias) = type
  <2>. DEFINE found == {j \in DOMAIN typeDict.aliases : typeDict.aliases[j].alias = alias}
  <2>1. i \in DOMAIN typeDict.aliases
    BY DEF Clear, TypeDict, Last
  <2>2. i \in found
    BY <2>1
  <2>3. (CHOOSE j \in found : TRUE) \in found
    BY <2>2
  <2>4. typeDict.aliases[CHOOSE j \in found : TRUE].type = type
    BY <2>1, <2>3 DEF Clear, Unambiguous
  <2>. QED
    BY <2>2, <2>4 DEF AliasOf
<1>3. Mapping(known, i) = IF known[alias] # NoType THEN known ELSE [known EXCEPT ![alias] = chased]
  BY DEF Mapping
<1>. HIDE DEF alias, type
<1>4. CASE known[alias] # NoType
  <2>1. Mapping(known, i) = known
    BY <1>3, <1>4
  <2>2. ASSUME NEW j \in 1 .. i, Meaning(typeDict.aliases[j].alias) \notin Primitives,
               ~Stops(typeDict, typeDict.aliases[j].alias)
        PROVE  known[typeDict.aliases[j].alias] = Meaning(typeDict.aliases[j].alias)
    <3>1. CASE j = i
      <4>1. known[alias] \in {NoType, Meaning(alias)}
        BY <1>1, <2>2, <3>1 DEF MapsUpto, MapsRight, alias
      <4>. QED
        BY <1>4, <3>1, <4>1 DEF alias
    <3>2. CASE j # i
      <4>1. j \in 1 .. i - 1
        BY <1>0, <3>2
      <4>. QED
        BY <2>2, <4>1 DEF MapsUpto
    <3>. QED
      BY <3>1, <3>2
  <2>. QED
    BY <2>1, <2>2 DEF MapsUpto
<1>5. CASE known[alias] = NoType
  <2>0. alias \notin StructNames(typeDict) \/ Meaning(alias) \in Primitives
    BY <1>0, <1>1, <1>5 DEF MapsUpto, MapsRight
  <2>1. ASSUME Meaning(alias) \notin Primitives, ~Stops(typeDict, alias)
        PROVE  chased = Meaning(alias)
    <3>1. Short(alias, STRUCT_HOPS)
      BY <1>1, ClearShort
    <3>2. STRUCT_HOPS - 1 \in Nat /\ Short(type, STRUCT_HOPS - 1) /\ Meaning(alias) = Meaning(type)
      BY <1>0, <1>1, <1>2, <2>1, <3>1, Onward
    <3>3. STRUCT_HOPS = (STRUCT_HOPS - 1) + 1
      BY <1>0
    <3>. QED
      BY <1>1, <2>1, <3>2, <3>3, ChaseMeans DEF MapsUpto
  <2>2. ASSUME Meaning(alias) \notin Primitives, Stops(typeDict, alias)
        PROVE  chased \in {NoType, Meaning(alias)}
    <3>1. Meaning(alias) = alias
      BY <1>0, <1>1, <2>2, MeaningFixed
    <3>2. type = alias
      BY <1>0, <1>1, <1>2, <2>0, <2>2, <3>1 DEF Stops, EndsAt
    <3>3. CASE STRUCT_HOPS = 0
      BY <1>0, <1>1, <3>3, ChaseNone
    <3>4. CASE STRUCT_HOPS # 0
      <4>1. STRUCT_HOPS - 1 \in Nat /\ STRUCT_HOPS = (STRUCT_HOPS - 1) + 1
        BY <1>0, <3>4
      <4>2. Short(alias, STRUCT_HOPS - 1)
        <5>1. 0 \in 0 .. Last /\ 0 <= STRUCT_HOPS - 1 /\ Path(alias)[0] = alias
          BY <1>0, <1>1, <4>1, PathFacts
        <5>. QED
          BY <2>2, <5>1 DEF Short
      <4>3. chased = Meaning(type)
        BY <1>1, <2>2, <3>2, <4>1, <4>2, ChaseMeans DEF MapsUpto
      <4>. QED
        BY <3>2, <4>3
    <3>. QED
      BY <3>3, <3>4
  <2>. HIDE DEF chased
  <2>. DEFINE new == [known EXCEPT ![alias] = chased]
  <2>3. Mapping(known, i) = new
    BY <1>3, <1>5
  <2>4. new[alias] = chased /\ \A n \in TypeNames : n # alias => new[n] = known[n]
    BY <1>1 DEF Chased
  <2>. HIDE DEF new
  <2>5. MapsRight(new)
    <3>1. SUFFICES ASSUME NEW n \in TypeNames, Meaning(n) \notin Primitives
                   PROVE  /\ new[n] \in {NoType, Meaning(n)}
                          /\ n \in StructNames(typeDict) => new[n] = n
      BY DEF MapsRight
    <3>2. CASE n = alias
      BY <2>0, <2>1, <2>2, <2>4, <3>1, <3>2
    <3>3. CASE n # alias
      BY <2>4, <3>1, <3>3 DEF MapsUpto, MapsRight
    <3>. QED
      BY <3>2, <3>3
  <2>6. ASSUME NEW j \in 1 .. i, Meaning(typeDict.aliases[j].alias) \notin Primitives,
               ~Stops(typeDict, typeDict.aliases[j].alias)
        PROVE  new[typeDict.aliases[j].alias] = Meaning(typeDict.aliases[j].alias)
    <3>. DEFINE n == typeDict.aliases[j].alias
    <3>1. CASE n = alias
      BY <2>1, <2>4, <2>6, <3>1
    <3>2. CASE n # alias
      <4>1. j \in 1 .. i - 1 /\ n \in TypeNames
        <5>1. j # i
          BY <3>2 DEF alias
        <5>2. j \in 1 .. Last
          BY <1>0
        <5>. QED
          BY <1>0, <5>1, <5>2, AliasesType
      <4>2. known[n] = Meaning(n)
        BY <2>6, <4>1 DEF MapsUpto
      <4>. QED
        BY <2>4, <3>2, <4>1, <4>2
    <3>. QED
      BY <3>1, <3>2
  <2>. QED
    BY <2>3, <2>5, <2>6 DEF MapsUpto
<1>. QED
  BY <1>4, <1>5

LEMMA TypedefMapMeans ==
  ASSUME Clear
  PROVE  MapsUpto(TypedefMap(typeDict), Last)
<1>0. typeDict \in TypeDict /\ Last \in Nat /\ NoType \notin TypeNames
  BY PathFacts, LayoutAssumption DEF Clear, Last, TypeDict
<1>1. PICK F : /\ F[0] = [n \in TypeNames |-> IF n \in StructNames(typeDict) THEN n ELSE NoType]
               /\ \A i \in 1 .. Last : F[i] = Mapping(F[i - 1], i)
               /\ TypedefMap(typeDict) = F[Last]
  BY <1>0, TypedefMapDefines
<1>. DEFINE T == {i \in Nat : i <= Last => F[i] \in Chased /\ MapsUpto(F[i], i)}
<1>2. 0 \in T
  <2>1. F[0] \in Chased
    BY <1>1 DEF Chased
  <2>2. MapsRight(F[0])
    <3>1. \A name \in StructNames(typeDict) : name \in TypeNames /\ Meaning(name) = name
      BY <1>0, StructStops, MeaningFixed
    <3>. QED
      BY <1>1, <3>1 DEF MapsRight
  <2>3. 1 .. 0 = {}
    OBVIOUS
  <2>. QED
    BY <2>1, <2>2, <2>3 DEF MapsUpto
<1>3. ASSUME NEW i \in T PROVE i + 1 \in T
  <2>1. SUFFICES ASSUME i + 1 <= Last PROVE F[i + 1] \in Chased /\ MapsUpto(F[i + 1], i + 1)
    OBVIOUS
  <2>2. i + 1 \in 1 .. Last /\ (i + 1) - 1 = i /\ i <= Last
    BY <1>0, <2>1
  <2>3. F[i + 1] = Mapping(F[(i + 1) - 1], i + 1)
    BY <1>1, <2>2
  <2>4. F[(i + 1) - 1] \in Chased /\ MapsUpto(F[(i + 1) - 1], (i + 1) - 1)
    BY <2>2
  <2>5. F[i + 1] \in Chased
    BY <1>0, <2>2, <2>3, <2>4, MappingType
  <2>6. MapsUpto(F[i + 1], i + 1)
    <3>. DEFINE n == i + 1
    <3>1. n \in 1 .. Last /\ F[n - 1] \in Chased /\ MapsUpto(F[n - 1], n - 1) /\ F[n] = Mapping(F[n - 1], n)
      BY <2>2, <2>3, <2>4
    <3>. HIDE DEF n
    <3>2. MapsUpto(F[n], n)
      BY <3>1, MappingRight
    <3>. QED
      BY <3>2 DEF n
  <2>. QED
    BY <2>5, <2>6
<1>4. T = Nat
  <2>. HIDE DEF T
  <2>1. T \in SUBSET Nat
    BY DEF T
  <2>. QED
    BY <1>2, <1>3, <2>1, Induct
<1>5. Last \in T
  <2>. HIDE DEF T
  <2>. QED
    BY <1>0, <1>4
<1>6. MapsUpto(F[Last], Last)
  BY <1>0, <1>5
<1>. QED
  BY <1>1, <1>6

\* The engine's map leads to the struct a type means.
LEMMA CanonicalMeans ==
  ASSUME Clear, typedefMap = TypedefMap(typeDict), NEW type \in TypeNames,
         Meaning(type) \notin Primitives
  PROVE  Canonical(type) = Meaning(type)
<1>0. typeDict \in TypeDict /\ Last \in Nat /\ NoType \notin TypeNames
  BY PathFacts, LayoutAssumption DEF Clear, Last, TypeDict
<1>1. MapsUpto(typedefMap, Last)
  BY TypedefMapMeans
<1>2. CASE Stops(typeDict, type)
  <2>1. Meaning(type) = type
    BY <1>0, <1>2, MeaningFixed
  <2>2. typedefMap[type] \in {NoType, type}
    BY <1>1, <2>1 DEF MapsUpto, MapsRight
  <2>. QED
    BY <2>1, <2>2 DEF Canonical
<1>3. CASE ~Stops(typeDict, type)
  <2>1. PICK i \in DOMAIN typeDict.aliases : typeDict.aliases[i].alias = type
    BY <1>3 DEF Stops, EndsAt, AliasOf
  <2>2. i \in 1 .. Last
    BY <1>0 DEF TypeDict, Last
  <2>3. typedefMap[type] = Meaning(type)
    BY <1>1, <1>3, <2>1, <2>2 DEF MapsUpto
  <2>4. Meaning(type) \in TypeNames
    BY ClearShort
  <2>. QED
    BY <1>0, <2>3, <2>4 DEF Canonical
<1>. QED
  BY <1>2, <1>3

(***************************************************************************)
(* Rounds                                                                  *)
(***************************************************************************)
Size == Len(typeDict.structs)
Round(known) == [name \in Ready(known) |-> Compile(known, StructOf(name))]

LEMMA RoundsDefine ==
  ASSUME typeDict \in TypeDict
  PROVE  /\ Size \in Nat
         /\ Rounds[0] = <<>>
         /\ \A n \in 1 .. Size : Rounds[n] = Round(Rounds[n - 1])
<1>. DEFINE Upto(F, k) == F = [i \in 0 .. k |-> IF i = 0 THEN <<>> ELSE Round(F[i - 1])]
            T == {k \in Nat : \E F : Upto(F, k)}
<1>0. Size \in Nat
  BY DEF TypeDict, Size
<1>1. 0 \in T
  <2>1. Upto([i \in 0 .. 0 |-> <<>>], 0)
    <3>1. 0 .. 0 = {0}
      OBVIOUS
    <3>. QED
      BY <3>1
  <2>. QED
    BY <2>1
<1>2. ASSUME NEW k \in T PROVE k + 1 \in T
  <2>1. k \in Nat /\ k + 1 \in Nat
    OBVIOUS
  <2>2. PICK F : Upto(F, k)
    OBVIOUS
  <2>. DEFINE G == [i \in 0 .. k + 1 |-> IF i = 0 THEN <<>> ELSE Round(F[i - 1])]
  <2>3. ASSUME NEW i \in 0 .. k + 1, i # 0 PROVE G[i - 1] = F[i - 1]
    <3>1. i - 1 \in 0 .. k /\ i - 1 \in 0 .. k + 1
      BY <2>1, <2>3
    <3>2. F[i - 1] = IF i - 1 = 0 THEN <<>> ELSE Round(F[(i - 1) - 1])
      BY <2>2, <3>1
    <3>3. G[i - 1] = IF i - 1 = 0 THEN <<>> ELSE Round(F[(i - 1) - 1])
      BY <3>1
    <3>. QED
      BY <3>2, <3>3
  <2>4. Upto(G, k + 1)
    <3>1. \A i \in 0 .. k + 1 : G[i] = IF i = 0 THEN <<>> ELSE Round(F[i - 1])
      OBVIOUS
    <3>2. \A i \in 0 .. k + 1 : G[i] = IF i = 0 THEN <<>> ELSE Round(G[i - 1])
      <4>. HIDE DEF G
      <4>. QED
        BY <2>3, <3>1, Zenon
    <3>3. G = [i \in 0 .. k + 1 |-> G[i]]
      OBVIOUS
    <3>. HIDE DEF G
    <3>. QED
      BY <3>2, <3>3, Zenon
  <2>. HIDE DEF Upto, G
  <2>. QED
    BY <2>1, <2>4
<1>3. T = Nat
  <2>. HIDE DEF T
  <2>1. T \in SUBSET Nat
    BY DEF T
  <2>. QED
    BY <1>1, <1>2, <2>1, Induct
<1>4. \E F : Upto(F, Size)
  <2>. HIDE DEF Upto
  <2>. QED
    BY <1>0, <1>3
<1>5. Upto(Rounds, Size)
  <2>1. Rounds = CHOOSE F : Upto(F, Size)
    BY DEF Rounds, Round, Size
  <2>. HIDE DEF Upto
  <2>. QED
    BY <1>4, <2>1, Zenon
<1>6. \A n \in 1 .. Size : n \in 0 .. Size /\ n # 0
  BY <1>0
<1>7. 0 \in 0 .. Size
  BY <1>0
<1>. HIDE DEF Round
<1>. QED
  BY <1>0, <1>5, <1>6, <1>7

\* The structs laid out in so many rounds.
Known(n) == DOMAIN Rounds[n]

LEMMA KnownFacts ==
  ASSUME typeDict \in TypeDict
  PROVE  /\ Size \in Nat /\ Known(0) = {}
         /\ \A n \in 1 .. Size : Known(n) = Ready(Rounds[n - 1])
<1>1. \A n \in 1 .. Size : DOMAIN Round(Rounds[n - 1]) = Ready(Rounds[n - 1])
  BY DEF Round
<1>2. DOMAIN <<>> = {}
  OBVIOUS
<1>. QED
  BY <1>1, <1>2, RoundsDefine DEF Known

\* A struct laid out in one round is there in the next.
LEMMA KnownGrows ==
  ASSUME typeDict \in TypeDict, NEW n \in Nat, n < Size
  PROVE  Known(n) \subseteq Known(n + 1)
<1>. DEFINE T == {k \in Nat : k < Size => Known(k) \subseteq Known(k + 1)}
<1>0. Size \in Nat
  BY KnownFacts
<1>1. 0 \in T
  BY KnownFacts
<1>2. ASSUME NEW k \in T PROVE k + 1 \in T
  <2>1. SUFFICES ASSUME k + 1 < Size PROVE Known(k + 1) \subseteq Known((k + 1) + 1)
    OBVIOUS
  <2>2. /\ k \in Nat /\ k < Size /\ k + 1 \in 1 .. Size /\ (k + 1) + 1 \in 1 .. Size
        /\ (k + 1) - 1 = k /\ ((k + 1) + 1) - 1 = k + 1
    BY <1>0, <2>1
  <2>3. Known(k) \subseteq Known(k + 1)
    BY <2>2
  <2>4. Known(k + 1) = Ready(Rounds[(k + 1) - 1]) /\ Known((k + 1) + 1) = Ready(Rounds[((k + 1) + 1) - 1])
    BY <2>2, KnownFacts
  <2>5. Known(k + 1) = Ready(Rounds[k]) /\ Known((k + 1) + 1) = Ready(Rounds[k + 1])
    BY <2>2, <2>4
  <2>. QED
    BY <2>3, <2>5 DEF Ready, Certain, Known
<1>3. T = Nat
  <2>. HIDE DEF T
  <2>1. T \in SUBSET Nat
    BY DEF T
  <2>. QED
    BY <1>1, <1>2, <2>1, Induct
<1>4. n \in T
  <2>. HIDE DEF T
  <2>. QED
    BY <1>3
<1>. QED
  BY <1>4

LEMMA KnownLast ==
  ASSUME typeDict \in TypeDict, NEW n \in 0 .. Size
  PROVE  Known(n) \subseteq DOMAIN Compiled
<1>. DEFINE T == {k \in Nat : k <= Size => Known(Size - k) \subseteq Known(Size)}
<1>0. Size \in Nat /\ Size - 0 = Size
  BY KnownFacts
<1>1. 0 \in T
  BY <1>0
<1>2. ASSUME NEW k \in T PROVE k + 1 \in T
  <2>1. SUFFICES ASSUME k + 1 <= Size PROVE Known(Size - (k + 1)) \subseteq Known(Size)
    OBVIOUS
  <2>2. /\ k <= Size /\ Size - (k + 1) \in Nat /\ Size - (k + 1) < Size
        /\ (Size - (k + 1)) + 1 = Size - k
    BY <1>0, <2>1
  <2>3. Known(Size - (k + 1)) \subseteq Known((Size - (k + 1)) + 1)
    BY <2>2, KnownGrows
  <2>4. Known(Size - k) \subseteq Known(Size)
    BY <2>2
  <2>. QED
    BY <2>2, <2>3, <2>4
<1>3. T = Nat
  <2>. HIDE DEF T
  <2>1. T \in SUBSET Nat
    BY DEF T
  <2>. QED
    BY <1>1, <1>2, <2>1, Induct
<1>4. Size - n \in T
  <2>1. Size - n \in Nat
    BY <1>0
  <2>. HIDE DEF T
  <2>. QED
    BY <1>3, <2>1
<1>5. Size - n <= Size /\ Size - (Size - n) = n
  BY <1>0
<1>6. Known(n) \subseteq Known(Size)
  BY <1>4, <1>5
<1>. QED
  BY <1>6 DEF Compiled, Known, Size

(***************************************************************************)
(* Estimates                                                               *)
(***************************************************************************)
\* What holds of the input from the start.
InputInv == Clear /\ typedefMap = TypedefMap(typeDict)

\* The field the call at this depth is at.
FieldAt(depth) == Fields(frames[depth])[Len(frames[depth].fields) + 1]
\* The call above lays out the struct of that field.
Embeds(depth) ==
  /\ ~FieldAt(depth).pointer /\ Meaning(FieldAt(depth).type) \notin Primitives
  /\ Meaning(FieldAt(depth).type) = NameOf(frames[depth + 1].struct)

\* A call knows its struct so far, with the rounds its depth leaves, or is
\* flagged, and then nobody knows the struct.
CallHonest(depth) ==
  IF frames[depth].estimated THEN NameOf(frames[depth].struct) \notin DOMAIN Compiled
  ELSE \A i \in DOMAIN frames[depth].fields :
         Certain(Rounds[Size - depth], Fields(frames[depth])[i])
HonestInv ==
  /\ \A k \in DOMAIN frames : k < Len(frames) => Embeds(k)
  /\ \A k \in DOMAIN frames : CallHonest(k)
  /\ \A k \in DOMAIN layouts : layouts[k].estimated <=> layouts[k].name \notin DOMAIN Compiled

LEMMA InputKept ==
  ASSUME UNCHANGED input
  PROVE  /\ Rounds' = Rounds /\ Compiled' = Compiled /\ Size' = Size
         /\ \A type : Meaning(type)' = Meaning(type)
         /\ \A i : NameOf(i)' = NameOf(i)
         /\ \A known, field : Certain(known, field)' = Certain(known, field)
<1>1. typeDict' = typeDict /\ target' = target
  BY DEF input
<1>2. Rounds' = Rounds
  BY <1>1 DEF Rounds, Compile, Ready, Certain, Meaning, Following, Stops, EndsAt, AliasOf,
       StructOf, IndexOf, StructNames, Extent, FieldAlign, FieldSize, PointerSize
<1>3. \A type : Meaning(type)' = Meaning(type)
  BY <1>1 DEF Meaning
<1>4. \A known, field : Certain(known, field)' = Certain(known, field)
  BY <1>3 DEF Certain
<1>. QED
  BY <1>1, <1>2, <1>3, <1>4 DEF Compiled, Size, NameOf

LEMMA InputStays == InputInv /\ UNCHANGED input => InputInv'
BY DEF InputInv, Clear, input, Unambiguous, Stops, EndsAt, StructNames

LEMMA StructOfName ==
  ASSUME typeDict \in TypeDict, NamesOnce(typeDict), NEW i \in DOMAIN typeDict.structs
  PROVE  NameOf(i) \in StructNames(typeDict) /\ StructOf(NameOf(i)) = typeDict.structs[i]
<1>1. NameOf(i) \in StructNames(typeDict)
  BY DEF NameOf, StructNames
<1>2. /\ IndexOf(typeDict, NameOf(i)) \in DOMAIN typeDict.structs
      /\ typeDict.structs[IndexOf(typeDict, NameOf(i))].name = NameOf(i)
  BY <1>1, IndexOfFacts
<1>3. IndexOf(typeDict, NameOf(i)) = i
  BY <1>2 DEF NamesOnce, NameOf
<1>. QED
  BY <1>1, <1>3 DEF StructOf

\* What is laid out at last consists of what is.
LEMMA CompiledCertain ==
  ASSUME typeDict \in TypeDict, NEW name \in DOMAIN Compiled
  PROVE  /\ name \in StructNames(typeDict) /\ Size \in Nat \ {0}
         /\ \A i \in DOMAIN StructOf(name).fields :
              /\ Certain(Rounds[Size - 1], StructOf(name).fields[i])
              /\ Certain(Compiled, StructOf(name).fields[i])
<1>0. Size \in Nat /\ name \in Known(Size)
  BY KnownFacts DEF Known, Compiled, Size
<1>1. Size # 0
  BY <1>0, KnownFacts
<1>2. Size \in 1 .. Size /\ Size - 1 \in 0 .. Size
  BY <1>0, <1>1
<1>3. name \in Ready(Rounds[Size - 1])
  BY <1>0, <1>2, KnownFacts
<1>4. DOMAIN Rounds[Size - 1] \subseteq DOMAIN Compiled
  BY <1>2, KnownLast DEF Known
<1>. QED
  BY <1>0, <1>1, <1>3, <1>4 DEF Ready, Certain

LEMMA Counting ==
  ASSUME NEW n \in Nat
  PROVE  IsFiniteSet(1 .. n) /\ Cardinality(1 .. n) = n
<1>1. 1 \in Int /\ n \in Int
  OBVIOUS
<1>2. IsFiniteSet(1 .. n) /\ Cardinality(1 .. n) = IF 1 > n THEN 0 ELSE n - 1 + 1
  BY <1>1, FS_Interval, Zenon
<1>. QED
  BY <1>2

\* No struct is within itself: the guard keeps the calls fewer than the structs.
LEMMA CallsFit ==
  ASSUME TypeOK, GuardHonest
  PROVE  Len(frames) <= Size
<1>. DEFINE f == [k \in 1 .. Len(frames) |-> frames[k].struct]
<1>1. Len(frames) \in Nat /\ Size \in Nat /\ DOMAIN frames = 1 .. Len(frames)
      /\ DOMAIN typeDict.structs = 1 .. Size
  BY DEF TypeOK, TypeDict, Size
<1>2. f \in [1 .. Len(frames) -> 1 .. Size]
  BY <1>1 DEF TypeOK
<1>3. \A j, k \in 1 .. Len(frames) : f[j] = f[k] => j = k
  BY <1>1 DEF GuardHonest
<1>4. /\ IsFiniteSet(1 .. Len(frames)) /\ Cardinality(1 .. Len(frames)) = Len(frames)
      /\ IsFiniteSet(1 .. Size) /\ Cardinality(1 .. Size) = Size
  BY <1>1, Counting
<1>5. ~(Cardinality(1 .. Size) < Cardinality(1 .. Len(frames)))
  <2>. HIDE DEF f
  <2>1. SUFFICES ASSUME Cardinality(1 .. Size) < Cardinality(1 .. Len(frames)) PROVE FALSE
    OBVIOUS
  <2>2. \E j, k \in 1 .. Len(frames) : j # k /\ f[j] = f[k]
    BY <1>2, <1>4, <2>1, FS_PigeonHole, Zenon
  <2>. QED
    BY <1>3, <2>2
<1>. QED
  BY <1>1, <1>4, <1>5

\* A step that places this field in the call at `depth`.
Adds(depth, size, align, member, estimated) ==
  /\ PlacesInto(depth) /\ size \in Nat /\ align \in Aligns /\ estimated \in BOOLEAN
  /\ member \in TypeNames \cup {NoType}
  /\ frames'[depth] = Placed(frames[depth], FieldAt(depth), size, align, member, estimated)

LEMMA PlaceAdds ==
  ASSUME TypeOK, Placing, NEW size \in Nat, NEW align \in Aligns,
         NEW estimated \in BOOLEAN, Place(size, align, NoType, estimated)
  PROVE  Adds(Len(frames), size, align, NoType, estimated) /\ CurrentField = FieldAt(Len(frames))
<1>1. PlacesInto(Len(frames))
  BY PlaceAtTop
<1>2. frames # <<>> /\ Len(frames) \in DOMAIN frames /\ Top = frames[Len(frames)]
  BY TopType DEF Placing
<1>3. CurrentField = FieldAt(Len(frames))
  BY <1>2 DEF CurrentField, FieldAt
<1>. DEFINE placed == Placed(Top, CurrentField, size, align, NoType, estimated)
<1>4. frames' = [frames EXCEPT ![Len(frames)] = placed]
  BY DEF Place
<1>5. placed = Placed(frames[Len(frames)], FieldAt(Len(frames)), size, align, NoType, estimated)
  BY <1>2, <1>3
<1>. HIDE DEF placed
<1>6. frames'[Len(frames)] = placed
  BY <1>2, <1>4
<1>. QED
  BY <1>1, <1>3, <1>5, <1>6 DEF Adds

LEMMA LeaveAdds ==
  ASSUME TypeOK, LeaveNested
  PROVE  /\ Adds(Len(frames) - 1, Finished(Top).size, Finished(Top).align,
                 Finished(Top).name, Finished(Top).estimated)
         /\ Len(frames) - 1 \in DOMAIN frames /\ (Len(frames) - 1) + 1 = Len(frames)
         /\ Len(frames) \in DOMAIN frames /\ Top = frames[Len(frames)]
<1>. DEFINE depth  == Len(frames) - 1
            parent == frames[depth]
            nested == Finished(Top)
            placed == Placed(parent, FieldAt(depth), nested.size, nested.align, nested.name, nested.estimated)
<1>1. PlacesInto(depth)
  BY LeaveNestedPlaces
<1>2. frames \in Seq(FrameType) /\ Len(frames) > 1 /\ frames # <<>>
  BY DEF LeaveNested, TypeOK
<1>3. depth \in DOMAIN frames /\ depth \in Nat /\ depth + 1 = Len(frames)
      /\ depth <= Len(frames)
  BY <1>2
<1>4. frames' = [SubSeq(frames, 1, depth) EXCEPT ![depth] = placed]
  BY DEF LeaveNested, FieldAt
<1>5. Len(frames) \in DOMAIN frames /\ Top = frames[Len(frames)] /\ nested \in LayoutType
  BY <1>2, TopType, FinishedParts DEF TypeOK
<1>6. nested.size \in Nat /\ nested.align \in Aligns /\ nested.name \in TypeNames
      /\ nested.estimated \in BOOLEAN
  BY <1>5 DEF LayoutType
<1>. DEFINE kept == SubSeq(frames, 1, depth)
<1>. HIDE DEF placed, depth
<1>7. kept \in Seq(FrameType) /\ depth \in DOMAIN kept
  BY <1>2, <1>3
<1>8. frames'[depth] = placed
  <2>1. frames' = [kept EXCEPT ![depth] = placed]
    BY <1>4
  <2>. HIDE DEF kept
  <2>. QED
    BY <1>7, <2>1
<1>. QED
  BY <1>1, <1>3, <1>5, <1>6, <1>8 DEF Adds, placed, depth

LEMMA PlacedKeeps ==
  ASSUME NEW frame \in FrameType, NEW field, NEW size, NEW align, NEW member, NEW estimated
  PROVE  LET placed == Placed(frame, field, size, align, member, estimated)
         IN  /\ placed.struct = frame.struct /\ placed.pack = frame.pack
             /\ placed.estimated = (frame.estimated \/ estimated \/ field.array = "unsized")
BY DEF Placed, FrameType

\* What a call has placed is not compiled if one of its fields cannot be.
LEMMA NeverCompiled ==
  ASSUME TypeOK, NEW depth \in DOMAIN frames,
         Len(frames[depth].fields) < Len(Fields(frames[depth])),
         NameOf(frames[depth].struct) \in DOMAIN Compiled
  PROVE  Certain(Rounds[Size - 1], FieldAt(depth)) /\ Certain(Compiled, FieldAt(depth))
<1>1. frames[depth] \in FrameType /\ frames[depth].struct \in DOMAIN typeDict.structs
      /\ typeDict \in TypeDict /\ NamesOnce(typeDict)
  BY ElementType DEF TypeOK
<1>2. StructOf(NameOf(frames[depth].struct)).fields = Fields(frames[depth])
  BY <1>1, StructOfName DEF Fields
<1>3. Len(frames[depth].fields) + 1 \in DOMAIN Fields(frames[depth])
  <2>1. Fields(frames[depth]) \in Seq(Field) /\ Len(frames[depth].fields) \in Nat
    BY <1>1, FieldsType DEF FrameType
  <2>. QED
    BY <2>1
<1>. QED
  BY <1>1, <1>2, <1>3, CompiledCertain DEF FieldAt

LEMMA HonestAdds ==
  ASSUME TypeOK, HonestInv, UNCHANGED <<input, layouts>>,
         NEW depth, NEW size, NEW align, NEW member, NEW estimated,
         Adds(depth, size, align, member, estimated),
         estimated => NameOf(frames[depth].struct) \notin DOMAIN Compiled,
         ~estimated /\ FieldAt(depth).array # "unsized" => Certain(Rounds[Size - depth], FieldAt(depth))
  PROVE  HonestInv'
<1>. DEFINE field == FieldAt(depth)
            frame == frames[depth]
            name == NameOf(frame.struct)
<1>1. /\ depth \in DOMAIN frames /\ depth \in Nat /\ DOMAIN frames' = 1 .. depth
      /\ Len(frames') = depth /\ DOMAIN frames = 1 .. Len(frames) /\ Len(frames) \in Nat
      /\ depth <= Len(frames)
      /\ \A k \in 1 .. depth : k # depth => frames'[k] = frames[k]
      /\ Len(frame.fields) < Len(Fields(frame)) /\ Grown(frame, frames'[depth])
  <2>1. frames \in Seq(FrameType)
    BY DEF TypeOK
  <2>2. DOMAIN frames = 1 .. Len(frames) /\ Len(frames) \in Nat
    BY <2>1
  <2>3. PlacesInto(depth)
    BY DEF Adds
  <2>. QED
    BY <2>2, <2>3 DEF PlacesInto
<1>2. frame \in FrameType /\ frame.struct \in DOMAIN typeDict.structs
  BY <1>1, ElementType DEF TypeOK
<1>3. /\ frames'[depth].struct = frame.struct
      /\ frames'[depth].estimated = (frame.estimated \/ estimated \/ field.array = "unsized")
  BY <1>2, PlacedKeeps DEF Adds
<1>4. field.array = "unsized" => name \notin DOMAIN Compiled
  BY <1>1, NeverCompiled DEF Certain
<1>5. /\ typeDict' = typeDict /\ Size' = Size /\ Rounds' = Rounds /\ Compiled' = Compiled
      /\ \A type : Meaning(type)' = Meaning(type)
      /\ \A i : NameOf(i)' = NameOf(i)
      /\ \A known, f : Certain(known, f)' = Certain(known, f)
  BY InputKept DEF input
<1>6. ASSUME NEW k \in DOMAIN frames', k < Len(frames') PROVE Embeds(k)'
  <2>1. k \in 1 .. depth /\ k # depth /\ k \in DOMAIN frames /\ k < Len(frames) /\ k + 1 \in 1 .. depth
    BY <1>1, <1>6
  <2>2. frames'[k] = frames[k]
    BY <1>1, <2>1
  <2>3. frames'[k + 1].struct = frames[k + 1].struct
    BY <1>1, <1>3, <2>1
  <2>4. Embeds(k)
    BY <2>1 DEF HonestInv
  <2>5. FieldAt(k)' = FieldAt(k)
    BY <1>5, <2>2 DEF FieldAt, Fields
  <2>. QED
    BY <1>5, <2>3, <2>4, <2>5 DEF Embeds
<1>7. ASSUME NEW k \in DOMAIN frames' PROVE CallHonest(k)'
  <2>1. k \in DOMAIN frames /\ CallHonest(k)
    BY <1>1 DEF HonestInv
  <2>2. CASE k # depth
    <3>1. frames'[k] = frames[k]
      BY <1>1, <2>2
    <3>. QED
      BY <1>5, <2>1, <3>1 DEF CallHonest, Fields
  <2>3. CASE k = depth
    <3>1. Fields(frames[k])' = Fields(frame) /\ (NameOf(frames[k].struct))' = name
      BY <1>3, <1>5, <2>3 DEF Fields
    <3>2. CASE frames'[depth].estimated
      <4>1. name \notin DOMAIN Compiled
        BY <1>3, <1>4, <2>1, <2>3, <3>2 DEF CallHonest
      <4>. QED
        BY <1>5, <2>3, <3>1, <3>2, <4>1 DEF CallHonest
    <3>3. CASE ~frames'[depth].estimated
      <4>1. ~frame.estimated /\ ~estimated /\ field.array # "unsized"
        BY <1>3, <3>3
      <4>2. \A i \in DOMAIN frame.fields : Certain(Rounds[Size - depth], Fields(frame)[i])
        BY <2>1, <2>3, <4>1 DEF CallHonest
      <4>3. Certain(Rounds[Size - depth], Fields(frame)[Len(frame.fields) + 1])
        BY <4>1 DEF FieldAt
      <4>4. \A i \in DOMAIN frames'[depth].fields : i \in DOMAIN frame.fields \/ i = Len(frame.fields) + 1
        <5>1. frame.fields \in Seq(PlacedField)
          BY <1>2 DEF FrameType
        <5>. QED
          BY <1>1, <5>1 DEF Grown
      <4>5. \A i \in DOMAIN frames'[depth].fields : Certain(Rounds[Size - depth], Fields(frame)[i])
        BY <4>2, <4>3, <4>4
      <4>. QED
        BY <1>5, <2>3, <3>1, <3>3, <4>5 DEF CallHonest
    <3>. QED
      BY <3>2, <3>3
  <2>. QED
    BY <2>2, <2>3
<1>8. \A k \in DOMAIN layouts' : layouts'[k].estimated <=> layouts'[k].name \notin DOMAIN Compiled'
  BY <1>5 DEF HonestInv
<1>. QED
  BY <1>6, <1>7, <1>8 DEF HonestInv

\* A struct that is met while it is laid out is in no round: neither are the
\* calls from it to the one that meets it.
LEMMA NeverWithin ==
  ASSUME TypeOK, HonestInv, Placing, ~CurrentField.pointer,
         Meaning(CurrentField.type) \notin Primitives,
         NEW j \in DOMAIN frames, Meaning(CurrentField.type) = NameOf(frames[j].struct)
  PROVE  NameOf(Top.struct) \notin DOMAIN Compiled
<1>. DEFINE top == Len(frames)
            Absent(n) == \A k \in DOMAIN frames : j <= k => NameOf(frames[k].struct) \notin Known(n)
            T == {n \in Nat : n <= Size => Absent(n)}
<1>0. /\ typeDict \in TypeDict /\ NamesOnce(typeDict) /\ Size \in Nat /\ top \in Nat
      /\ DOMAIN frames = 1 .. top /\ top \in DOMAIN frames /\ Top = frames[top]
  BY KnownFacts, TopType DEF TypeOK, Placing
<1>1. 0 \in T
  BY KnownFacts, <1>0
<1>2. ASSUME NEW n \in T PROVE n + 1 \in T
  <2>1. SUFFICES ASSUME n + 1 <= Size, NEW k \in DOMAIN frames, j <= k,
                        NameOf(frames[k].struct) \in Known(n + 1)
                 PROVE  FALSE
    OBVIOUS
  <2>2. n \in Nat /\ n <= Size /\ n + 1 \in 1 .. Size /\ (n + 1) - 1 = n
    BY <1>0, <2>1
  <2>3. Absent(n)
    BY <2>2
  <2>4. NameOf(frames[k].struct) \in Ready(Rounds[n])
    <3>1. Known(n + 1) = Ready(Rounds[(n + 1) - 1])
      BY <1>0, <2>2, KnownFacts
    <3>. QED
      BY <2>1, <2>2, <3>1
  <2>5. /\ frames[k] \in FrameType /\ frames[k].struct \in DOMAIN typeDict.structs
        /\ Len(frames[k].fields) < Len(Fields(frames[k]))
    <3>1. k = top => Len(frames[k].fields) < Len(Fields(frames[k]))
      BY <1>0 DEF Placing
    <3>2. k # top => k < Len(frames)
      BY <1>0
    <3>. QED
      BY <3>1, <3>2, ElementType DEF TypeOK
  <2>6. Certain(Rounds[n], FieldAt(k))
    <3>1. StructOf(NameOf(frames[k].struct)).fields = Fields(frames[k])
      BY <1>0, <2>5, StructOfName DEF Fields
    <3>2. Len(frames[k].fields) + 1 \in DOMAIN Fields(frames[k])
      <4>1. Fields(frames[k]) \in Seq(Field) /\ Len(frames[k].fields) \in Nat
        BY <2>5, FieldsType DEF FrameType
      <4>. QED
        BY <2>5, <4>1
    <3>. QED
      BY <2>4, <3>1, <3>2 DEF Ready, FieldAt
  <2>7. \E m \in DOMAIN frames : /\ j <= m /\ ~FieldAt(k).pointer
                                 /\ Meaning(FieldAt(k).type) \notin Primitives
                                 /\ Meaning(FieldAt(k).type) = NameOf(frames[m].struct)
    <3>1. CASE k = top
      <4>1. FieldAt(k) = CurrentField
        BY <1>0, <3>1 DEF FieldAt, CurrentField
      <4>2. j <= j
        BY <1>0
      <4>. QED
        BY <4>1, <4>2
    <3>2. CASE k # top
      <4>1. k + 1 \in DOMAIN frames /\ k < Len(frames) /\ j <= k + 1
        BY <1>0, <2>1, <3>2
      <4>2. Embeds(k)
        BY <4>1 DEF HonestInv
      <4>. QED
        BY <4>1, <4>2 DEF Embeds
    <3>. QED
      BY <3>1, <3>2
  <2>. QED
    BY <2>3, <2>6, <2>7 DEF Certain, Known
<1>3. T = Nat
  <2>. HIDE DEF T
  <2>1. T \in SUBSET Nat
    BY DEF T
  <2>. QED
    BY <1>1, <1>2, <2>1, Induct
<1>4. Size \in T
  <2>. HIDE DEF T
  <2>. QED
    BY <1>0, <1>3
<1>5. Absent(Size) /\ j <= top
  BY <1>0, <1>4
<1>. QED
  BY <1>0, <1>5 DEF Known, Compiled, Size

LEMMA HonestOpens ==
  ASSUME TypeOK, HonestInv, UNCHANGED <<input, layouts>>, NEW i, NEW pack, Opens(i, pack),
         frames # <<>> => /\ ~CurrentField.pointer /\ Meaning(CurrentField.type) \notin Primitives
                          /\ Meaning(CurrentField.type) = NameOf(i)
  PROVE  HonestInv'
<1>. DEFINE top == Len(frames)
<1>1. /\ top \in Nat /\ Len(frames') = top + 1 /\ DOMAIN frames' = 1 .. top + 1
      /\ \A k \in DOMAIN frames : frames'[k] = frames[k]
      /\ frames'[top + 1] = Frame(i, pack)
  BY OpensFrames
<1>2. DOMAIN frames = 1 .. top /\ (top # 0 => frames # <<>>)
  BY DEF TypeOK
<1>3. /\ typeDict' = typeDict /\ Size' = Size /\ Rounds' = Rounds /\ Compiled' = Compiled
      /\ \A type : Meaning(type)' = Meaning(type)
      /\ \A j : NameOf(j)' = NameOf(j)
      /\ \A known, f : Certain(known, f)' = Certain(known, f)
  BY InputKept DEF input
<1>4. /\ frames'[top + 1].struct = i /\ frames'[top + 1].fields = <<>>
      /\ ~frames'[top + 1].estimated
  BY <1>1 DEF Frame
<1>5. ASSUME NEW k \in DOMAIN frames', k < Len(frames') PROVE Embeds(k)'
  <2>1. k \in DOMAIN frames /\ frames'[k] = frames[k] /\ k + 1 \in 1 .. top + 1
    BY <1>1, <1>2, <1>5
  <2>2. FieldAt(k)' = FieldAt(k)
    BY <1>3, <2>1 DEF FieldAt, Fields
  <2>3. CASE k = top
    <3>1. FieldAt(k) = CurrentField /\ frames # <<>>
      BY <1>2, <2>1, <2>3 DEF FieldAt, CurrentField, Top
    <3>. QED
      BY <1>3, <1>4, <2>2, <2>3, <3>1 DEF Embeds
  <2>4. CASE k # top
    <3>1. k < Len(frames) /\ k + 1 \in DOMAIN frames
      BY <1>1, <1>2, <2>1, <2>4
    <3>2. Embeds(k) /\ frames'[k + 1] = frames[k + 1]
      BY <1>1, <2>1, <3>1 DEF HonestInv
    <3>. QED
      BY <1>3, <2>2, <3>2 DEF Embeds
  <2>. QED
    BY <2>3, <2>4
<1>6. ASSUME NEW k \in DOMAIN frames' PROVE CallHonest(k)'
  <2>1. CASE k = top + 1
    <3>1. DOMAIN frames'[k].fields = {} /\ ~frames'[k].estimated
      BY <1>4, <2>1
    <3>. QED
      BY <3>1 DEF CallHonest
  <2>2. CASE k # top + 1
    <3>1. k \in DOMAIN frames /\ frames'[k] = frames[k]
      BY <1>1, <1>2, <2>2
    <3>2. CallHonest(k)
      BY <3>1 DEF HonestInv
    <3>. QED
      BY <1>3, <3>1, <3>2 DEF CallHonest, Fields
  <2>. QED
    BY <2>1, <2>2
<1>7. \A k \in DOMAIN layouts' : layouts'[k].estimated <=> layouts'[k].name \notin DOMAIN Compiled'
  BY <1>3 DEF HonestInv
<1>. QED
  BY <1>5, <1>6, <1>7 DEF HonestInv

\* What the engine asks of a type is what it means.
LEMMA TypesMean ==
  ASSUME InputInv, NEW type \in TypeNames
  PROVE  /\ IsPrimitive(type) <=> Meaning(type) \in Primitives
         /\ Meaning(type) \in Primitives => PrimitiveOf(typeDict, type) = Meaning(type)
         /\ Meaning(type) \notin Primitives => Canonical(type) = Meaning(type)
<1>1. NoType \notin Primitives
  BY LayoutAssumption
<1>. QED
  BY <1>1, PrimitiveMeans, CanonicalMeans DEF InputInv, IsPrimitive

LEMMA CurrentFieldFacts ==
  ASSUME TypeOK, Placing
  PROVE  /\ CurrentField \in Field /\ CurrentField.type \in TypeNames
         /\ Len(frames) \in DOMAIN frames /\ Len(frames) \in Nat /\ Top = frames[Len(frames)]
         /\ CurrentField = FieldAt(Len(frames))
         /\ Len(frames[Len(frames)].fields) < Len(Fields(frames[Len(frames)]))
<1>1. CurrentField \in Field /\ Len(frames) \in DOMAIN frames /\ Top = frames[Len(frames)]
  BY CurrentFieldType, TopType DEF Placing
<1>2. CurrentField.type \in TypeNames
  BY <1>1 DEF Field
<1>3. Len(frames) \in Nat
  BY DEF TypeOK
<1>. QED
  BY <1>1, <1>2, <1>3 DEF Placing, CurrentField, FieldAt

LEMMA EnterOpens ==
  ASSUME TypeOK, InputInv, EnterNested
  PROVE  \E i \in DOMAIN typeDict.structs :
           /\ Opens(i, NestedPack(typeDict.structs[i].pack)) /\ frames # <<>>
           /\ ~CurrentField.pointer /\ Meaning(CurrentField.type) \notin Primitives
           /\ Meaning(CurrentField.type) = NameOf(i)
<1>. DEFINE type == CurrentField.type
            i == IndexOf(typeDict, Canonical(type))
            pack == NestedPack(typeDict.structs[i].pack)
<1>1. Placing /\ ~CurrentField.pointer /\ ~IsPrimitive(type) /\ Canonical(type) \in StructNames(typeDict)
      /\ frames' = Append(frames, Frame(i, pack))
  BY DEF EnterNested, Enterable
<1>2. type \in TypeNames
  BY <1>1, CurrentFieldFacts
<1>3. Meaning(type) \notin Primitives /\ Canonical(type) = Meaning(type)
  BY <1>1, <1>2, TypesMean
<1>4. i \in DOMAIN typeDict.structs /\ NameOf(i) = Canonical(type)
  BY <1>1, IndexOfFacts DEF NameOf
<1>5. pack \in Aligns
  BY <1>4, StructFacts, PacksAreAligns DEF TypeOK
<1>. HIDE DEF i
<1>6. Opens(i, pack)
  BY <1>1, <1>4, <1>5 DEF Opens
<1>. QED
  BY <1>1, <1>3, <1>4, <1>6 DEF Placing

\* A call that ends unflagged knows its struct one round after its fields.
LEMMA CompleteKnown ==
  ASSUME TypeOK, GuardHonest, HonestInv, Complete, ~Top.estimated
  PROVE  /\ Size - Len(frames) \in 0 .. Size /\ (Size - Len(frames)) + 1 \in 1 .. Size
         /\ NameOf(Top.struct) \in Known((Size - Len(frames)) + 1)
         /\ NameOf(Top.struct) \in Ready(Rounds[Size - Len(frames)])
<1>. DEFINE top == Len(frames)
            n == Size - top
            name == NameOf(Top.struct)
<1>1. /\ top \in DOMAIN frames /\ Top = frames[top] /\ Top \in FrameType
      /\ Top.struct \in DOMAIN typeDict.structs /\ frames # <<>>
      /\ Len(Top.fields) = Len(Fields(Top))
  BY TopType DEF Complete
<1>2. typeDict \in TypeDict /\ NamesOnce(typeDict) /\ Size \in Nat
  BY KnownFacts DEF TypeOK
<1>3. top \in Nat \ {0} /\ top <= Size
  BY <1>1, CallsFit DEF TypeOK
<1>4. n \in 0 .. Size /\ n + 1 \in 1 .. Size /\ (n + 1) - 1 = n
  BY <1>2, <1>3
<1>5. StructOf(name).fields = Fields(Top) /\ name \in StructNames(typeDict)
  BY <1>1, <1>2, StructOfName DEF Fields
<1>6. DOMAIN Fields(Top) = DOMAIN Top.fields
  <2>1. Fields(Top) \in Seq(Field) /\ Top.fields \in Seq(PlacedField)
    BY <1>1, FieldsType DEF FrameType
  <2>. QED
    BY <1>1, <2>1
<1>7. \A i \in DOMAIN Top.fields : Certain(Rounds[n], Fields(Top)[i])
  <2>1. CallHonest(top)
    BY <1>1 DEF HonestInv
  <2>. QED
    BY <1>1, <2>1 DEF CallHonest
<1>8. name \in Ready(Rounds[n])
  BY <1>5, <1>6, <1>7 DEF Ready
<1>9. Known(n + 1) = Ready(Rounds[(n + 1) - 1])
  BY <1>2, <1>4, KnownFacts
<1>. HIDE DEF n, name
<1>10. name \in Known(n + 1)
  BY <1>4, <1>8, <1>9
<1>. QED
  BY <1>4, <1>8, <1>10 DEF n, name

LEMMA HonestKept ==
  ASSUME TypeOK, InputInv, GuardHonest, HonestInv, [Next]_vars
  PROVE  HonestInv'
<1>0. typeDict \in TypeDict /\ NamesOnce(typeDict)
  BY DEF TypeOK
<1>1. CASE SkipEmpty
  <2>1. UNCHANGED input /\ frames' = frames /\ layouts' = layouts
    BY <1>1 DEF SkipEmpty
  <2>. QED
    BY <2>1, InputKept DEF HonestInv, Embeds, FieldAt, CallHonest, Fields, input
<1>2. CASE StartStruct
  <2>1. PICK pack \in Aligns : Opens(next, pack)
    BY <1>2, StartStructOpens
  <2>2. frames = <<>> /\ UNCHANGED <<input, layouts>>
    BY <1>2 DEF StartStruct
  <2>. QED
    BY <2>1, <2>2, HonestOpens
<1>3. CASE PlacePointer
  <2>1. Placing /\ CurrentField.pointer /\ Place(PointerSize, PointerSize, NoType, FALSE)
    BY <1>3 DEF PlacePointer
  <2>2. Adds(Len(frames), PointerSize, PointerSize, NoType, FALSE)
        /\ CurrentField = FieldAt(Len(frames))
    BY <2>1, PointerSizeType, PlaceAdds
  <2>3. FieldAt(Len(frames)).array # "unsized" => Certain(Rounds[Size - Len(frames)], FieldAt(Len(frames)))
    BY <2>1, <2>2 DEF Certain
  <2>4. UNCHANGED <<input, layouts>>
    BY <2>1 DEF Place
  <2>. QED
    BY <2>2, <2>3, <2>4, HonestAdds
<1>4. CASE PlacePrimitive
  <2>. DEFINE prim == Prim[target][PrimitiveOf(typeDict, CurrentField.type)]
  <2>1. Placing /\ IsPrimitive(CurrentField.type) /\ Place(prim.size, prim.align, NoType, FALSE)
    BY <1>4 DEF PlacePrimitive
  <2>2. prim.size \in Nat /\ prim.align \in Aligns
    BY <2>1, PrimType
  <2>. HIDE DEF prim
  <2>3. Adds(Len(frames), prim.size, prim.align, NoType, FALSE) /\ CurrentField = FieldAt(Len(frames))
    BY <2>1, <2>2, PlaceAdds
  <2>4. Meaning(CurrentField.type) \in Primitives
    BY <2>1, CurrentFieldFacts, TypesMean
  <2>5. FieldAt(Len(frames)).array # "unsized" => Certain(Rounds[Size - Len(frames)], FieldAt(Len(frames)))
    BY <2>3, <2>4 DEF Certain
  <2>6. UNCHANGED <<input, layouts>>
    BY <2>1 DEF Place
  <2>. QED
    BY <2>3, <2>5, <2>6, HonestAdds
<1>5. CASE PlaceUnknown
  <2>1. /\ Placing /\ ~CurrentField.pointer /\ ~IsPrimitive(CurrentField.type)
        /\ ~Enterable(CurrentField.type) /\ Place(PointerSize, PointerSize, NoType, TRUE)
    BY <1>5 DEF PlaceUnknown
  <2>2. Adds(Len(frames), PointerSize, PointerSize, NoType, TRUE)
        /\ CurrentField = FieldAt(Len(frames))
    BY <2>1, PointerSizeType, PlaceAdds
  <2>3. /\ Len(frames) \in DOMAIN frames /\ Top = frames[Len(frames)]
        /\ Len(frames[Len(frames)].fields) < Len(Fields(frames[Len(frames)]))
        /\ CurrentField.type \in TypeNames
    BY <2>1, CurrentFieldFacts
  <2>4. Meaning(CurrentField.type) \notin Primitives
        /\ Canonical(CurrentField.type) = Meaning(CurrentField.type)
    BY <2>1, <2>3, TypesMean
  <2>5. NameOf(Top.struct) \notin DOMAIN Compiled
    <3>1. CASE Meaning(CurrentField.type) \notin StructNames(typeDict)
      <4>1. ~Certain(Compiled, CurrentField)
        BY <1>0, <2>1, <2>4, <3>1, CompiledCertain DEF Certain
      <4>. QED
        BY <2>2, <2>3, <4>1, NeverCompiled
    <3>2. CASE Meaning(CurrentField.type) \in guard
      <4>1. PICK j \in DOMAIN frames : Meaning(CurrentField.type) = NameOf(frames[j].struct)
        BY <3>2 DEF GuardHonest, NameOf
      <4>. QED
        BY <2>1, <2>4, <4>1, NeverWithin
    <3>. QED
      BY <2>1, <2>4, <3>1, <3>2 DEF Enterable
  <2>6. UNCHANGED <<input, layouts>>
    BY <2>1 DEF Place
  <2>. QED
    BY <2>2, <2>3, <2>5, <2>6, HonestAdds
<1>6. CASE EnterNested
  <2>1. UNCHANGED <<input, layouts>>
    BY <1>6 DEF EnterNested
  <2>. QED
    BY <1>6, <2>1, EnterOpens, HonestOpens
<1>7. CASE LeaveNested
  <2>. DEFINE depth == Len(frames) - 1
              done == Finished(Top)
  <2>1. /\ Adds(depth, done.size, done.align, done.name, done.estimated)
        /\ depth \in DOMAIN frames /\ depth + 1 = Len(frames)
        /\ Len(frames) \in DOMAIN frames /\ Top = frames[Len(frames)]
    BY <1>7, LeaveAdds
  <2>2. done.estimated = Top.estimated
    BY DEF Finished
  <2>3. Complete /\ UNCHANGED <<input, layouts>>
    BY <1>7 DEF LeaveNested
  <2>4. depth \in Nat /\ Size \in Nat /\ Len(frames) \in Nat /\ depth < Len(frames)
        /\ Size - depth = (Size - Len(frames)) + 1
    <3>1. Len(frames) \in Nat /\ Size \in Nat
      BY <1>0, KnownFacts DEF TypeOK
    <3>2. DOMAIN frames = 1 .. Len(frames)
      BY DEF TypeOK
    <3>. QED
      BY <2>1, <3>1, <3>2
  <2>. HIDE DEF depth, done
  <2>5. /\ ~FieldAt(depth).pointer /\ Meaning(FieldAt(depth).type) \notin Primitives
        /\ Meaning(FieldAt(depth).type) = NameOf(Top.struct)
    BY <2>1, <2>4 DEF HonestInv, Embeds
  <2>6. ASSUME done.estimated PROVE NameOf(frames[depth].struct) \notin DOMAIN Compiled
    <3>1. NameOf(Top.struct) \notin DOMAIN Compiled
      BY <2>1, <2>2, <2>6 DEF HonestInv, CallHonest
    <3>2. ~Certain(Compiled, FieldAt(depth))
      BY <2>5, <3>1 DEF Certain
    <3>3. Len(frames[depth].fields) < Len(Fields(frames[depth]))
      BY <2>1 DEF Adds, PlacesInto
    <3>. QED
      BY <2>1, <3>2, <3>3, NeverCompiled
  <2>7. ASSUME ~done.estimated, FieldAt(depth).array # "unsized"
        PROVE  Certain(Rounds[Size - depth], FieldAt(depth))
    <3>1. NameOf(Top.struct) \in Known((Size - Len(frames)) + 1)
      BY <2>2, <2>3, <2>7, CompleteKnown
    <3>2. NameOf(Top.struct) \in DOMAIN Rounds[Size - depth]
      BY <2>4, <3>1 DEF Known
    <3>. QED
      BY <2>5, <2>7, <3>2 DEF Certain
  <2>. QED
    BY <2>1, <2>3, <2>6, <2>7, HonestAdds
<1>8. CASE FinishStruct
  <2>1. /\ Complete /\ Len(frames) = 1 /\ layouts' = Append(layouts, Finished(Top))
        /\ frames' = <<>> /\ UNCHANGED input
    BY <1>8 DEF FinishStruct
  <2>2. Finished(Top).name = NameOf(Top.struct) /\ Finished(Top).estimated = Top.estimated
    BY DEF Finished, NameOf
  <2>3. 1 \in DOMAIN frames /\ Top = frames[1] /\ Size \in Nat
    BY <1>0, <2>1, TopType, KnownFacts DEF Complete
  <2>4. Finished(Top).estimated <=> Finished(Top).name \notin DOMAIN Compiled
    <3>1. ASSUME Top.estimated PROVE NameOf(Top.struct) \notin DOMAIN Compiled
      BY <2>3, <3>1 DEF HonestInv, CallHonest
    <3>2. ASSUME ~Top.estimated PROVE NameOf(Top.struct) \in DOMAIN Compiled
      <4>1. NameOf(Top.struct) \in Known((Size - Len(frames)) + 1)
        BY <2>1, <3>2, CompleteKnown
      <4>2. (Size - Len(frames)) + 1 = Size
        BY <2>1, <2>3
      <4>3. NameOf(Top.struct) \in Known(Size)
        BY <4>1, <4>2
      <4>. QED
        BY <4>3 DEF Known, Compiled, Size
    <3>. QED
      BY <2>2, <3>1, <3>2
  <2>5. Compiled' = Compiled
    BY <2>1, InputKept
  <2>. DEFINE done == Finished(Top)
  <2>6. layouts \in Seq(LayoutType) /\ done \in LayoutType
    BY <1>0, <2>1, TopType, FinishedParts DEF TypeOK, Complete
  <2>7. layouts' = Append(layouts, done) /\ (done.estimated <=> done.name \notin DOMAIN Compiled)
    BY <2>1, <2>4
  <2>. HIDE DEF done
  <2>8. \A k \in DOMAIN layouts' : layouts'[k].estimated <=> layouts'[k].name \notin DOMAIN Compiled'
    <3>1. ASSUME NEW k \in DOMAIN layouts'
          PROVE  layouts'[k] = done \/ (k \in DOMAIN layouts /\ layouts'[k] = layouts[k])
      BY <2>6, <2>7
    <3>. QED
      BY <2>5, <2>7, <3>1 DEF HonestInv
  <2>9. DOMAIN frames' = {}
    BY <2>1
  <2>. QED
    BY <2>8, <2>9 DEF HonestInv
<1>9. CASE UNCHANGED vars
  <2>1. UNCHANGED input /\ frames' = frames /\ layouts' = layouts
    BY <1>9 DEF vars
  <2>. QED
    BY <2>1, InputKept DEF HonestInv, Embeds, FieldAt, CallHonest, Fields, input
<1>. QED
  BY <1>1, <1>2, <1>3, <1>4, <1>5, <1>6, <1>7, <1>8, <1>9 DEF Next

LEMMA InputConstant ==
  ASSUME [Next]_vars
  PROVE  UNCHANGED input
<1>1. CASE SkipEmpty
  BY <1>1 DEF SkipEmpty
<1>2. CASE StartStruct
  BY <1>2 DEF StartStruct
<1>3. CASE PlacePointer
  BY <1>3 DEF PlacePointer, Place
<1>4. CASE PlacePrimitive
  BY <1>4 DEF PlacePrimitive, Place
<1>5. CASE PlaceUnknown
  BY <1>5 DEF PlaceUnknown, Place
<1>6. CASE EnterNested
  BY <1>6 DEF EnterNested
<1>7. CASE LeaveNested
  BY <1>7 DEF LeaveNested
<1>8. CASE FinishStruct
  BY <1>8 DEF FinishStruct
<1>9. CASE UNCHANGED vars
  BY <1>9 DEF vars
<1>. QED
  BY <1>1, <1>2, <1>3, <1>4, <1>5, <1>6, <1>7, <1>8, <1>9 DEF Next

LEMMA InputAtStart == Init => InputInv
<1>. SUFFICES ASSUME Init PROVE InputInv
  OBVIOUS
<1>1. typeDict \in TypeDicts /\ typedefMap = TypedefMap(typeDict)
  BY DEF Init, InitFrom
<1>2. typeDict \in TypeDict /\ Unambiguous(typeDict)
  BY <1>1, LayoutAssumption, AbiAssumption
<1>. QED
  BY <1>1, <1>2 DEF InputInv, Clear

\* What the steps below start from.
CallsInv == TypeOK /\ InputInv /\ GuardHonest /\ HonestInv

LEMMA CallsAtStart == Init => CallsInv
<1>. SUFFICES ASSUME Init PROVE GuardHonest /\ HonestInv
  BY TypesAtStart, InputAtStart DEF CallsInv
<1>1. DOMAIN frames = {} /\ guard = {} /\ DOMAIN layouts = {}
  BY DEF Init, InitFrom
<1>. QED
  BY <1>1 DEF GuardHonest, HonestInv

LEMMA CallsKept == CallsInv /\ [Next]_vars => CallsInv'
BY TypesKept, InputConstant, InputStays, GuardKept, HonestKept DEF CallsInv

\* computeLayoutInternal flags a layout as estimated exactly if a compiler could not lay the
\* struct out from these headers: no guess goes unannounced, at whatever depth it was made,
\* and the guard takes no struct for recursive that is not.
THEOREM EstimatedHonestCorrect == Spec => []EstimatedHonest
<1>1. CallsInv => EstimatedHonest
  BY DEF CallsInv, HonestInv, EstimatedHonest
<1>. QED
  BY <1>1, CallsAtStart, CallsKept, PTL DEF Spec

(***************************************************************************)
(* Layouts                                                                 *)
(***************************************************************************)
LEMMA NextMultipleIs ==
  ASSUME NEW offset \in Nat, NEW align \in Aligns
  PROVE  NextMultiple(offset, align) = AlignUp(offset, align)
<1>. DEFINE up == AlignUp(offset, align)
            these == {n \in offset .. offset + align - 1 : n % align = 0}
<1>1. up \in these /\ \A n \in these : n = up
  <2>1. CASE align = 1
    BY <2>1 DEF AlignUp
  <2>2. CASE align = 2
    BY <2>2 DEF AlignUp
  <2>3. CASE align = 4
    BY <2>3 DEF AlignUp
  <2>4. CASE align = 8
    BY <2>4 DEF AlignUp
  <2>5. CASE align = 16
    BY <2>5 DEF AlignUp
  <2>. QED
    BY <2>1, <2>2, <2>3, <2>4, <2>5 DEF Aligns
<1>. HIDE DEF up
<1>. QED
  BY <1>1 DEF NextMultiple, up

LEMMA LargestIs ==
  ASSUME NEW numbers \in SUBSET Nat, NEW n \in numbers, \A m \in numbers : m <= n
  PROVE  Largest(numbers) = n
<1>1. \A m \in numbers : (\A k \in numbers : k <= m) => m = n
  OBVIOUS
<1>. QED
  BY <1>1 DEF Largest

LEMMA LargestAlign ==
  ASSUME NEW aligns \in SUBSET Aligns, aligns # {}
  PROVE  Largest(aligns) \in aligns
<1>1. \E n \in aligns : \A m \in aligns : m <= n
  <2>1. CASE 16 \in aligns
    BY <2>1 DEF Aligns
  <2>2. CASE 16 \notin aligns /\ 8 \in aligns
    BY <2>2 DEF Aligns
  <2>3. CASE 16 \notin aligns /\ 8 \notin aligns /\ 4 \in aligns
    BY <2>3 DEF Aligns
  <2>4. CASE 16 \notin aligns /\ 8 \notin aligns /\ 4 \notin aligns /\ 2 \in aligns
    BY <2>4 DEF Aligns
  <2>5. CASE 16 \notin aligns /\ 8 \notin aligns /\ 4 \notin aligns /\ 2 \notin aligns
    <3>1. \A m \in aligns : m = 1
      BY <2>5 DEF Aligns
    <3>. QED
      BY <3>1
  <2>. QED
    BY <2>1, <2>2, <2>3, <2>4, <2>5
<1>. QED
  BY <1>1 DEF Largest

\* The ends of fields arranged one behind the other.
Ended(sizes, aligns, end) ==
  LET n == Len(sizes)
      align == Largest({1} \cup {aligns[i] : i \in 1 .. n})
  IN  /\ end \in [0 .. n -> Nat] /\ end[0] = 0
      /\ \A i \in 1 .. n : end[i] = NextMultiple(end[i - 1], aligns[i]) + sizes[i]
      /\ Arranged(sizes, aligns) =
           [align |-> align, size |-> NextMultiple(end[n], align), sizes |-> sizes,
            offsets |-> [i \in 1 .. n |-> NextMultiple(end[i - 1], aligns[i])]]

LEMMA ArrangedDefines ==
  ASSUME NEW n \in Nat, NEW sizes \in [1 .. n -> Nat], NEW aligns \in [1 .. n -> Aligns]
  PROVE  Len(sizes) = n /\ \E end : Ended(sizes, aligns, end)
<1>. DEFINE Ending(end, i) == NextMultiple(end, aligns[i]) + sizes[i]
            step == [i \in 1 .. n |-> [e \in Nat |-> Ending(e, i)]]
            Is(F) == F = [i \in 0 .. n |-> IF i = 0 THEN 0 ELSE Ending(F[i - 1], i)]
<1>1. Len(sizes) = n
  <2>1. sizes \in Seq(Nat)
    BY IsASeq
  <2>2. DOMAIN sizes = 1 .. Len(sizes) /\ Len(sizes) \in Nat
    BY <2>1, LenProperties
  <2>. QED
    BY <2>2
<1>2. \A i \in 1 .. n, e \in Nat : Ending(e, i) \in Nat
  <2>1. SUFFICES ASSUME NEW i \in 1 .. n, NEW e \in Nat PROVE NextMultiple(e, aligns[i]) + sizes[i] \in Nat
    OBVIOUS
  <2>2. aligns[i] \in Aligns /\ sizes[i] \in Nat
    OBVIOUS
  <2>3. NextMultiple(e, aligns[i]) \in Nat
    BY <2>2, NextMultipleIs, AlignUpFacts
  <2>. QED
    BY <2>2, <2>3
<1>3. step \in [1 .. n -> [Nat -> Nat]]
  <2>. HIDE DEF Ending
  <2>. QED
    BY <1>2
<1>4. PICK F : Iterates(F, n, Nat, 0, step)
  <2>1. 0 \in Nat
    OBVIOUS
  <2>. HIDE DEF step
  <2>. QED
    BY <1>3, <2>1, Recursion, Zenon
<1>5. /\ F \in [0 .. n -> Nat] /\ F[0] = 0
      /\ \A i \in 1 .. n : F[i] = Ending(F[i - 1], i)
  <2>1. \A i \in 1 .. n : i - 1 \in 0 .. n
    OBVIOUS
  <2>. HIDE DEF Ending
  <2>. QED
    BY <1>4, <2>1 DEF Iterates
<1>6. Is(F)
  <2>. HIDE DEF Ending
  <2>1. \A i \in 0 .. n : F[i] = IF i = 0 THEN 0 ELSE Ending(F[i - 1], i)
    BY <1>5
  <2>. QED
    BY <1>5, <2>1
<1>. DEFINE end == CHOOSE E : Is(E)
            align == Largest({1} \cup {aligns[i] : i \in 1 .. n})
<1>7. Is(end)
  <2>. HIDE DEF Is
  <2>. QED
    BY <1>6, Zenon
<1>8. Arranged(sizes, aligns) =
        [align |-> align, size |-> NextMultiple(end[n], align), sizes |-> sizes,
         offsets |-> [i \in 1 .. n |-> NextMultiple(end[i - 1], aligns[i])]]
  BY <1>1 DEF Arranged
<1>. HIDE DEF end, Ending
<1>9. end[0] = 0
  BY <1>7
<1>10. ASSUME NEW i \in 1 .. n PROVE end[i] = Ending(end[i - 1], i)
  <2>1. i \in 0 .. n /\ i # 0
    OBVIOUS
  <2>. QED
    BY <1>7, <2>1
<1>11. end \in [0 .. n -> Nat]
  <2>. DEFINE T == {i \in Nat : i <= n => end[i] \in Nat}
  <2>1. 0 \in T
    BY <1>9
  <2>2. ASSUME NEW i \in T PROVE i + 1 \in T
    <3>1. SUFFICES ASSUME i + 1 <= n PROVE end[i + 1] \in Nat
      OBVIOUS
    <3>2. i + 1 \in 1 .. n /\ (i + 1) - 1 = i /\ i <= n
      BY <3>1
    <3>3. end[(i + 1) - 1] \in Nat
      BY <3>2
    <3>. QED
      BY <1>2, <1>10, <3>2, <3>3
  <2>3. T = Nat
    <3>. HIDE DEF T
    <3>1. T \in SUBSET Nat
      BY DEF T
    <3>. QED
      BY <2>1, <2>2, <3>1, Induct
  <2>4. \A i \in 0 .. n : end[i] \in Nat
    BY <2>3
  <2>5. end = [i \in 0 .. n |-> IF i = 0 THEN 0 ELSE Ending(end[i - 1], i)]
    BY <1>7
  <2>. QED
    BY <2>4, <2>5
<1>12. \A i \in 1 .. n : end[i] = NextMultiple(end[i - 1], aligns[i]) + sizes[i]
  BY <1>10 DEF Ending
<1>. QED
  BY <1>1, <1>8, <1>9, <1>11, <1>12 DEF Ended

LEMMA ArrangedShaped ==
  ASSUME NEW n \in Nat, NEW sizes \in [1 .. n -> Nat], NEW aligns \in [1 .. n -> Aligns]
  PROVE  /\ Arranged(sizes, aligns).size \in Nat /\ Arranged(sizes, aligns).align \in Aligns
         /\ Arranged(sizes, aligns).align \in {1} \cup {aligns[i] : i \in 1 .. n}
         /\ Arranged(sizes, aligns).sizes = sizes
<1>. DEFINE all == {1} \cup {aligns[i] : i \in 1 .. n}
            align == Largest(all)
<1>1. Len(sizes) = n
  BY ArrangedDefines
<1>2. PICK end : Ended(sizes, aligns, end)
  BY ArrangedDefines
<1>3. /\ end \in [0 .. n -> Nat]
      /\ Arranged(sizes, aligns) =
           [align |-> align, size |-> NextMultiple(end[n], align), sizes |-> sizes,
            offsets |-> [i \in 1 .. n |-> NextMultiple(end[i - 1], aligns[i])]]
  BY <1>1, <1>2 DEF Ended
<1>4. all \subseteq Aligns /\ all # {}
  BY DEF Aligns
<1>. HIDE DEF all
<1>5. align \in all /\ align \in Aligns
  BY <1>4, LargestAlign
<1>6. end[n] \in Nat
  BY <1>3
<1>. HIDE DEF align
<1>7. NextMultiple(end[n], align) \in Nat
  BY <1>5, <1>6, NextMultipleIs, AlignUpFacts
<1>8. /\ Arranged(sizes, aligns).size = NextMultiple(end[n], align)
      /\ Arranged(sizes, aligns).align = align /\ Arranged(sizes, aligns).sizes = sizes
  BY <1>3
<1>. QED
  BY <1>5, <1>7, <1>8 DEF all

(***************************************************************************)
(* What the engine computes, in rounds like the reference: the same, but   *)
(* that a struct nobody packs is packed by the default of the target.      *)
(***************************************************************************)
EngineAlign(known, struct, i) == Smaller(Extent(known, struct.fields[i]).align, OwnPack(struct.pack))
EngineStruct(known, struct) ==
  LET n == Len(struct.fields)
  IN  Arranged([i \in 1 .. n |-> FieldSize(known, struct, i)], [i \in 1 .. n |-> EngineAlign(known, struct, i)])
EngineRound(known) == [name \in Ready(known) |-> EngineStruct(known, StructOf(name))]
EngineRounds ==
  LET round[n \in 0 .. Size] == IF n = 0 THEN <<>> ELSE EngineRound(round[n - 1])
  IN  round
EngineCompiled == EngineRounds[Size]

LEMMA EngineRoundsDefine ==
  ASSUME typeDict \in TypeDict
  PROVE  /\ Size \in Nat /\ EngineRounds[0] = <<>>
         /\ \A n \in 1 .. Size : EngineRounds[n] = EngineRound(EngineRounds[n - 1])
<1>. DEFINE Upto(F, k) == F = [i \in 0 .. k |-> IF i = 0 THEN <<>> ELSE EngineRound(F[i - 1])]
            T == {k \in Nat : \E F : Upto(F, k)}
<1>0. Size \in Nat
  BY DEF TypeDict, Size
<1>1. 0 \in T
  <2>1. Upto([i \in 0 .. 0 |-> <<>>], 0)
    <3>1. 0 .. 0 = {0}
      OBVIOUS
    <3>. QED
      BY <3>1
  <2>. QED
    BY <2>1
<1>2. ASSUME NEW k \in T PROVE k + 1 \in T
  <2>1. k \in Nat /\ k + 1 \in Nat
    OBVIOUS
  <2>2. PICK F : Upto(F, k)
    OBVIOUS
  <2>. DEFINE G == [i \in 0 .. k + 1 |-> IF i = 0 THEN <<>> ELSE EngineRound(F[i - 1])]
  <2>3. ASSUME NEW i \in 0 .. k + 1, i # 0 PROVE G[i - 1] = F[i - 1]
    <3>1. i - 1 \in 0 .. k /\ i - 1 \in 0 .. k + 1
      BY <2>1, <2>3
    <3>2. F[i - 1] = IF i - 1 = 0 THEN <<>> ELSE EngineRound(F[(i - 1) - 1])
      BY <2>2, <3>1
    <3>3. G[i - 1] = IF i - 1 = 0 THEN <<>> ELSE EngineRound(F[(i - 1) - 1])
      BY <3>1
    <3>. QED
      BY <3>2, <3>3
  <2>4. Upto(G, k + 1)
    <3>1. \A i \in 0 .. k + 1 : G[i] = IF i = 0 THEN <<>> ELSE EngineRound(F[i - 1])
      OBVIOUS
    <3>2. \A i \in 0 .. k + 1 : G[i] = IF i = 0 THEN <<>> ELSE EngineRound(G[i - 1])
      <4>. HIDE DEF G
      <4>. QED
        BY <2>3, <3>1, Zenon
    <3>3. G = [i \in 0 .. k + 1 |-> G[i]]
      OBVIOUS
    <3>. HIDE DEF G
    <3>. QED
      BY <3>2, <3>3, Zenon
  <2>. HIDE DEF Upto, G
  <2>. QED
    BY <2>1, <2>4
<1>3. T = Nat
  <2>. HIDE DEF T
  <2>1. T \in SUBSET Nat
    BY DEF T
  <2>. QED
    BY <1>1, <1>2, <2>1, Induct
<1>4. \E F : Upto(F, Size)
  <2>. HIDE DEF Upto
  <2>. QED
    BY <1>0, <1>3
<1>5. Upto(EngineRounds, Size)
  <2>1. EngineRounds = CHOOSE F : Upto(F, Size)
    BY DEF EngineRounds
  <2>. HIDE DEF Upto
  <2>. QED
    BY <1>4, <2>1, Zenon
<1>6. \A n \in 1 .. Size : n \in 0 .. Size /\ n # 0
  BY <1>0
<1>7. 0 \in 0 .. Size
  BY <1>0
<1>. HIDE DEF EngineRound
<1>. QED
  BY <1>0, <1>5, <1>6, <1>7


\* What a round yields, as far as the next needs it.
Shaped(known) ==
  \A name \in DOMAIN known : known[name].size \in Nat /\ known[name].align \in Aligns

\* A struct whose fields the headers settle.
Settled(known, struct) ==
  struct \in Struct /\ \A i \in DOMAIN struct.fields : Certain(known, struct.fields[i])

LEMMA ExtentType ==
  ASSUME target \in Targets, NEW known, Shaped(known), NEW field \in Field, Certain(known, field)
  PROVE  Extent(known, field).size \in Nat /\ Extent(known, field).align \in Aligns
<1>. DEFINE type == Meaning(field.type)
<1>1. CASE field.pointer
  <2>1. Extent(known, field) = [size |-> PointerSize, align |-> PointerSize]
    BY <1>1 DEF Extent
  <2>2. PointerSize \in Nat /\ PointerSize \in Aligns
    BY DEF PointerSize, Aligns
  <2>. QED
    BY <2>1, <2>2
<1>2. CASE ~field.pointer /\ type \in Primitives
  <2>1. Extent(known, field) = Prim[target][type]
    BY <1>2 DEF Extent
  <2>2. Prim[target][type] \in [size : Nat, align : Aligns]
    BY <1>2, LayoutAssumption
  <2>. QED
    BY <2>1, <2>2
<1>3. CASE ~field.pointer /\ type \notin Primitives
  <2>1. Extent(known, field) = [size |-> known[type].size, align |-> known[type].align]
    BY <1>3 DEF Extent
  <2>2. type \in DOMAIN known
    BY <1>3 DEF Certain
  <2>. QED
    BY <2>1, <2>2 DEF Shaped
<1>. QED
  BY <1>1, <1>2, <1>3

LEMMA EngineField ==
  ASSUME target \in Targets, NEW known, Shaped(known), NEW struct \in Struct,
         NEW i \in DOMAIN struct.fields, Certain(known, struct.fields[i])
  PROVE  /\ struct.fields[i] \in Field /\ FieldSize(known, struct, i) \in Nat
         /\ Extent(known, struct.fields[i]).align \in Aligns
         /\ EngineAlign(known, struct, i) \in Aligns
<1>1. struct.fields[i] \in Field /\ struct.pack \in Aligns \cup {NoPack}
  <2>1. struct.fields \in Seq(Field) /\ struct.pack \in Aligns \cup {NoPack}
    BY DEF Struct
  <2>. QED
    BY <2>1, ElementType
<1>. DEFINE extent == Extent(known, struct.fields[i])
            field == struct.fields[i]
<1>2. extent.size \in Nat /\ extent.align \in Aligns /\ field.length \in Nat
  BY <1>1, ExtentType DEF Field
<1>. HIDE DEF extent, field
<1>3. OwnPack(struct.pack) \in Aligns
  BY <1>1 DEF OwnPack, DefaultPack, Aligns
<1>4. Smaller(extent.align, OwnPack(struct.pack)) \in Aligns
  BY <1>2, <1>3, AlignsClosed
<1>5. \A a, b \in Nat : a * b \in Nat
  OBVIOUS
<1>6. extent.size * field.length \in Nat
  BY <1>2, <1>5
<1>. QED
  BY <1>1, <1>2, <1>4, <1>6 DEF EngineAlign, FieldSize, extent, field

\* The sizes and alignments of such a struct.
LEMMA EngineColumns ==
  ASSUME target \in Targets, NEW known, Shaped(known), NEW struct, Settled(known, struct)
  PROVE  LET n == Len(struct.fields)
         IN  /\ n \in Nat /\ DOMAIN struct.fields = 1 .. n
             /\ [i \in 1 .. n |-> FieldSize(known, struct, i)] \in [1 .. n -> Nat]
             /\ [i \in 1 .. n |-> EngineAlign(known, struct, i)] \in [1 .. n -> Aligns]
<1>1. Len(struct.fields) \in Nat /\ DOMAIN struct.fields = 1 .. Len(struct.fields)
  BY DEF Settled, Struct
<1>2. \A i \in DOMAIN struct.fields : FieldSize(known, struct, i) \in Nat /\ EngineAlign(known, struct, i) \in Aligns
  BY EngineField DEF Settled
<1>. QED
  BY <1>1, <1>2

LEMMA EngineStructShaped ==
  ASSUME target \in Targets, NEW known, Shaped(known), NEW struct, Settled(known, struct)
  PROVE  /\ EngineStruct(known, struct).size \in Nat /\ EngineStruct(known, struct).align \in Aligns
         /\ EngineStruct(known, struct).sizes = [i \in 1 .. Len(struct.fields) |-> FieldSize(known, struct, i)]
<1>. DEFINE n == Len(struct.fields)
            sizes == [i \in 1 .. n |-> FieldSize(known, struct, i)]
            aligns == [i \in 1 .. n |-> EngineAlign(known, struct, i)]
<1>1. n \in Nat /\ sizes \in [1 .. n -> Nat] /\ aligns \in [1 .. n -> Aligns]
  BY EngineColumns
<1>2. EngineStruct(known, struct) = Arranged(sizes, aligns)
  BY DEF EngineStruct
<1>. HIDE DEF n, sizes, aligns
<1>3. /\ Arranged(sizes, aligns).size \in Nat /\ Arranged(sizes, aligns).align \in Aligns
      /\ Arranged(sizes, aligns).sizes = sizes
  BY <1>1, ArrangedShaped
<1>. QED
  BY <1>2, <1>3 DEF sizes, n

LEMMA ReadySettled ==
  ASSUME typeDict \in TypeDict, NEW known, NEW name \in Ready(known)
  PROVE  Settled(known, StructOf(name))
<1>. DEFINE i == IndexOf(typeDict, name)
<1>1. i \in DOMAIN typeDict.structs
  BY IndexOfFacts DEF Ready
<1>2. typeDict.structs \in Seq(Struct)
  BY DEF TypeDict
<1>3. typeDict.structs[i] \in Struct
  BY <1>1, <1>2, ElementType
<1>. QED
  BY <1>1, <1>3 DEF Settled, Ready, StructOf

\* The rounds of the engine know the structs that those of the reference know.
LEMMA EngineRoundsShaped ==
  ASSUME typeDict \in TypeDict, target \in Targets, NEW n \in 0 .. Size
  PROVE  Shaped(EngineRounds[n]) /\ DOMAIN EngineRounds[n] = Known(n)
<1>. DEFINE T == {k \in Nat : k <= Size => Shaped(EngineRounds[k]) /\ DOMAIN EngineRounds[k] = Known(k)}
<1>0. Size \in Nat
  BY KnownFacts
<1>1. 0 \in T
  <2>1. DOMAIN <<>> = {} /\ EngineRounds[0] = <<>>
    BY EngineRoundsDefine
  <2>. QED
    BY <2>1, KnownFacts DEF Shaped
<1>2. ASSUME NEW k \in T PROVE k + 1 \in T
  <2>1. SUFFICES ASSUME k + 1 <= Size
                 PROVE  Shaped(EngineRounds[k + 1]) /\ DOMAIN EngineRounds[k + 1] = Known(k + 1)
    OBVIOUS
  <2>2. k + 1 \in 1 .. Size /\ (k + 1) - 1 = k /\ k <= Size
    BY <1>0, <2>1
  <2>. DEFINE known == EngineRounds[k]
  <2>3. Shaped(known) /\ DOMAIN known = Known(k)
    BY <2>2
  <2>4. EngineRounds[k + 1] = EngineRound(EngineRounds[(k + 1) - 1])
        /\ Known(k + 1) = Ready(Rounds[(k + 1) - 1])
    BY <2>2, EngineRoundsDefine, KnownFacts
  <2>5. EngineRounds[k + 1] = EngineRound(known) /\ Known(k + 1) = Ready(Rounds[k])
    BY <2>2, <2>4
  <2>6. Ready(known) = Ready(Rounds[k])
    BY <2>3 DEF Ready, Certain, Known
  <2>. HIDE DEF known
  <2>7. DOMAIN EngineRound(known) = Ready(known)
        /\ \A name \in Ready(known) : EngineRound(known)[name] = EngineStruct(known, StructOf(name))
    BY DEF EngineRound
  <2>8. ASSUME NEW name \in Ready(known)
        PROVE  /\ EngineStruct(known, StructOf(name)).size \in Nat
               /\ EngineStruct(known, StructOf(name)).align \in Aligns
    BY <2>3, ReadySettled, EngineStructShaped
  <2>. QED
    BY <2>5, <2>6, <2>7, <2>8 DEF Shaped
<1>3. T = Nat
  <2>. HIDE DEF T
  <2>1. T \in SUBSET Nat
    BY DEF T
  <2>. QED
    BY <1>1, <1>2, <2>1, Induct
<1>4. n \in T
  <2>. HIDE DEF T
  <2>. QED
    BY <1>0, <1>3
<1>. QED
  BY <1>0, <1>4

\* A struct laid out in one round is laid out the same in the next.
LEMMA EngineStable ==
  ASSUME typeDict \in TypeDict, target \in Targets, NEW n \in Nat, n < Size
  PROVE  \A name \in Known(n) : EngineRounds[n + 1][name] = EngineRounds[n][name]
<1>. DEFINE T == {k \in Nat : k < Size => \A name \in Known(k) : EngineRounds[k + 1][name] = EngineRounds[k][name]}
<1>0. Size \in Nat
  BY KnownFacts
<1>1. 0 \in T
  BY KnownFacts
<1>2. ASSUME NEW k \in T PROVE k + 1 \in T
  <2>1. SUFFICES ASSUME k + 1 < Size, NEW name \in Known(k + 1)
                 PROVE  EngineRounds[(k + 1) + 1][name] = EngineRounds[k + 1][name]
    OBVIOUS
  <2>2. /\ k \in Nat /\ k < Size /\ k + 1 \in 1 .. Size /\ (k + 1) + 1 \in 1 .. Size /\ k \in 0 .. Size
        /\ (k + 1) - 1 = k /\ ((k + 1) + 1) - 1 = k + 1 /\ k + 1 \in 0 .. Size
    BY <1>0, <2>1
  <2>. DEFINE old == EngineRounds[k]
              new == EngineRounds[k + 1]
              struct == StructOf(name)
              m == Len(struct.fields)
  <2>3. \A s \in Known(k) : new[s] = old[s]
    BY <2>2
  <2>4. EngineRounds[k + 1] = EngineRound(EngineRounds[(k + 1) - 1])
        /\ EngineRounds[(k + 1) + 1] = EngineRound(EngineRounds[((k + 1) + 1) - 1])
    BY <2>2, EngineRoundsDefine
  <2>5. EngineRounds[k + 1] = EngineRound(old) /\ EngineRounds[(k + 1) + 1] = EngineRound(new)
    BY <2>2, <2>4
  <2>6. /\ DOMAIN old = Known(k) /\ DOMAIN new = Known(k + 1)
        /\ DOMAIN EngineRounds[(k + 1) + 1] = Known((k + 1) + 1)
    BY <2>2, EngineRoundsShaped
  <2>7. name \in Known((k + 1) + 1)
    BY <2>1, <2>2, KnownGrows
  <2>8. name \in Ready(old) /\ name \in Ready(new)
    <3>1. DOMAIN EngineRound(old) = Ready(old) /\ DOMAIN EngineRound(new) = Ready(new)
      BY DEF EngineRound
    <3>. QED
      BY <2>5, <2>6, <2>7, <3>1
  <2>9. EngineRounds[k + 1][name] = EngineStruct(old, struct)
        /\ EngineRounds[(k + 1) + 1][name] = EngineStruct(new, struct)
    <3>1. EngineRound(old)[name] = EngineStruct(old, struct) /\ EngineRound(new)[name] = EngineStruct(new, struct)
      BY <2>8 DEF EngineRound
    <3>. QED
      BY <2>5, <3>1
  <2>10. \A i \in DOMAIN struct.fields : Certain(old, struct.fields[i])
    BY <2>8 DEF Ready
  <2>11. DOMAIN struct.fields = 1 .. m
    BY <2>8, ReadySettled DEF Settled, Struct
  <2>. HIDE DEF old, new, struct, m
  <2>12. \A i \in DOMAIN struct.fields : Extent(new, struct.fields[i]) = Extent(old, struct.fields[i])
    BY <2>3, <2>6, <2>10 DEF Certain, Extent
  <2>13. [i \in 1 .. m |-> FieldSize(new, struct, i)] = [i \in 1 .. m |-> FieldSize(old, struct, i)]
    BY <2>11, <2>12 DEF FieldSize
  <2>14. [i \in 1 .. m |-> EngineAlign(new, struct, i)] = [i \in 1 .. m |-> EngineAlign(old, struct, i)]
    BY <2>11, <2>12 DEF EngineAlign
  <2>15. EngineStruct(new, struct) = EngineStruct(old, struct)
    BY <2>13, <2>14 DEF EngineStruct, m
  <2>. QED
    BY <2>9, <2>15
<1>3. T = Nat
  <2>. HIDE DEF T
  <2>1. T \in SUBSET Nat
    BY DEF T
  <2>. QED
    BY <1>1, <1>2, <2>1, Induct
<1>4. n \in T
  <2>. HIDE DEF T
  <2>. QED
    BY <1>3
<1>. QED
  BY <1>4

\* The end of the i-th field.
EndOf(fields, i) == IF i = 0 THEN 0 ELSE fields[i].offset + fields[i].size

\* A call has placed its fields as the reference does.
Matches(known, struct, frame) ==
  /\ \A i \in DOMAIN frame.fields :
       /\ frame.fields[i].align = EngineAlign(known, struct, i)
       /\ frame.fields[i].size = FieldSize(known, struct, i)
       /\ frame.fields[i].offset = AlignUp(EndOf(frame.fields, i - 1), frame.fields[i].align)
  /\ frame.offset = EndOf(frame.fields, Len(frame.fields))
  /\ \A i \in DOMAIN frame.fields : frame.fields[i].align <= frame.align
  /\ frame.align = 1 \/ \E i \in DOMAIN frame.fields : frame.fields[i].align = frame.align

\* A layout is the one of a round.
Agrees(layout, struct) ==
  /\ layout.size = struct.size /\ layout.align = struct.align
  /\ \A i \in DOMAIN layout.fields :
       layout.fields[i].offset = struct.offsets[i] /\ layout.fields[i].size = struct.sizes[i]

LEMMA CompleteMatches ==
  ASSUME target \in Targets, NEW known, Shaped(known), NEW struct, Settled(known, struct),
         NEW frame \in FrameType, Len(frame.fields) = Len(struct.fields),
         Matches(known, struct, frame)
  PROVE  Agrees(Finished(frame), EngineStruct(known, struct))
<1>. DEFINE n == Len(struct.fields)
            sizes == [i \in 1 .. n |-> FieldSize(known, struct, i)]
            aligns == [i \in 1 .. n |-> EngineAlign(known, struct, i)]
            all == {1} \cup {aligns[i] : i \in 1 .. n}
            align == Largest(all)
<1>0. n \in Nat /\ sizes \in [1 .. n -> Nat] /\ aligns \in [1 .. n -> Aligns]
  BY EngineColumns
<1>1. EngineStruct(known, struct) = Arranged(sizes, aligns)
  BY DEF EngineStruct
<1>2. /\ frame.fields \in Seq(PlacedField) /\ frame.align \in Aligns /\ frame.offset \in Nat
  BY DEF FrameType
<1>3. DOMAIN frame.fields = 1 .. n /\ Len(frame.fields) = n
  BY <1>2
<1>4. \A i \in 1 .. n : frame.fields[i].align = aligns[i] /\ frame.fields[i].size = sizes[i]
  BY <1>3 DEF Matches
<1>. HIDE DEF n, sizes, aligns
<1>5. PICK end : Ended(sizes, aligns, end)
  BY <1>0, ArrangedDefines
<1>6. Len(sizes) = n
  BY <1>0, ArrangedDefines
<1>7. /\ end \in [0 .. n -> Nat] /\ end[0] = 0
      /\ \A i \in 1 .. n : end[i] = NextMultiple(end[i - 1], aligns[i]) + sizes[i]
      /\ Arranged(sizes, aligns) =
           [align |-> align, size |-> NextMultiple(end[n], align), sizes |-> sizes,
            offsets |-> [i \in 1 .. n |-> NextMultiple(end[i - 1], aligns[i])]]
  BY <1>5, <1>6 DEF Ended
<1>8. align = frame.align
  <2>1. frame.align \in all
    BY <1>3, <1>4 DEF Matches
  <2>2. \A a \in all : a <= frame.align
    BY <1>2, <1>3, <1>4 DEF Matches, Aligns
  <2>3. all \in SUBSET Nat
    <3>1. \A i \in 1 .. n : aligns[i] \in Aligns
      BY <1>0
    <3>2. \A i \in 1 .. n : aligns[i] \in Nat
      BY <3>1 DEF Aligns
    <3>. QED
      BY <3>2
  <2>. HIDE DEF all
  <2>. QED
    BY <2>1, <2>2, <2>3, LargestIs
<1>. HIDE DEF align, all
<1>9. ASSUME NEW i \in 1 .. n, end[i - 1] = EndOf(frame.fields, i - 1)
      PROVE  /\ end[i] = EndOf(frame.fields, i)
             /\ NextMultiple(end[i - 1], aligns[i]) = frame.fields[i].offset
  <2>1. end[i - 1] \in Nat /\ i # 0
    BY <1>0, <1>7
  <2>2. NextMultiple(end[i - 1], aligns[i]) = AlignUp(end[i - 1], aligns[i])
    BY <1>0, <2>1, NextMultipleIs
  <2>3. frame.fields[i].offset = AlignUp(end[i - 1], aligns[i])
    BY <1>3, <1>4, <1>9 DEF Matches
  <2>4. end[i] = frame.fields[i].offset + frame.fields[i].size
    BY <1>4, <1>7, <2>2, <2>3
  <2>. QED
    BY <2>1, <2>2, <2>3, <2>4 DEF EndOf
<1>. DEFINE T == {i \in Nat : i <= n => end[i] = EndOf(frame.fields, i)}
<1>10. 0 \in T
  BY <1>7 DEF EndOf
<1>11. ASSUME NEW i \in T PROVE i + 1 \in T
  <2>1. SUFFICES ASSUME i + 1 <= n PROVE end[i + 1] = EndOf(frame.fields, i + 1)
    OBVIOUS
  <2>2. i + 1 \in 1 .. n /\ (i + 1) - 1 = i /\ i <= n
    BY <1>0, <2>1
  <2>3. end[i] = EndOf(frame.fields, i)
    BY <2>2
  <2>4. end[(i + 1) - 1] = EndOf(frame.fields, (i + 1) - 1)
    BY <2>2, <2>3
  <2>. QED
    BY <1>9, <2>2, <2>4
<1>12. T = Nat
  <2>. HIDE DEF T
  <2>1. T \in SUBSET Nat
    BY DEF T
  <2>. QED
    BY <1>10, <1>11, <2>1, Induct
<1>13. \A i \in 0 .. n : end[i] = EndOf(frame.fields, i)
  BY <1>0, <1>12
<1>14. \A i \in 1 .. n : NextMultiple(end[i - 1], aligns[i]) = frame.fields[i].offset
  <2>1. \A i \in 1 .. n : i - 1 \in 0 .. n
    BY <1>0
  <2>. QED
    BY <1>9, <1>13, <2>1
<1>15. end[n] = frame.offset /\ end[n] \in Nat
  BY <1>0, <1>3, <1>7, <1>13 DEF Matches
<1>16. NextMultiple(end[n], align) = AlignUp(frame.offset, frame.align)
  BY <1>2, <1>8, <1>15, NextMultipleIs
<1>17. /\ Finished(frame).size = AlignUp(frame.offset, frame.align)
       /\ Finished(frame).align = frame.align /\ Finished(frame).fields = frame.fields
  BY DEF Finished
<1>18. /\ EngineStruct(known, struct).size = NextMultiple(end[n], align)
       /\ EngineStruct(known, struct).align = align /\ EngineStruct(known, struct).sizes = sizes
       /\ \A i \in 1 .. n : EngineStruct(known, struct).offsets[i] = NextMultiple(end[i - 1], aligns[i])
  BY <1>1, <1>7
<1>. QED
  BY <1>3, <1>4, <1>8, <1>14, <1>16, <1>17, <1>18 DEF Agrees

LEMMA PlacedMatches ==
  ASSUME target \in Targets, NEW known, Shaped(known), NEW struct \in Struct, NEW frame \in FrameType,
         Len(frame.fields) + 1 \in DOMAIN struct.fields, NEW field,
         field = struct.fields[Len(frame.fields) + 1], Certain(known, field),
         frame.pack = OwnPack(struct.pack), Matches(known, struct, frame), NEW member, NEW estimated
  PROVE  Matches(known, struct, Placed(frame, field, Extent(known, field).size,
                                       Extent(known, field).align, member, estimated))
<1>. DEFINE n == Len(frame.fields)
            extent == Extent(known, field)
            align == Smaller(extent.align, frame.pack)
            aligned == AlignUp(frame.offset, align)
            total == extent.size * field.length
            new == [offset |-> aligned, size |-> total, align |-> align, member |-> member]
            placed == Placed(frame, field, extent.size, extent.align, member, estimated)
<1>1. /\ n \in Nat /\ DOMAIN frame.fields = 1 .. n /\ frame.fields \in Seq(PlacedField)
      /\ frame.offset \in Nat /\ frame.align \in Aligns
  BY DEF FrameType
<1>2. align = EngineAlign(known, struct, n + 1) /\ align \in Aligns
  <2>1. align = EngineAlign(known, struct, n + 1)
    BY DEF EngineAlign
  <2>. QED
    BY <2>1, EngineField
<1>3. /\ placed.fields = Append(frame.fields, new) /\ placed.offset = aligned + total
      /\ placed.align = Larger(frame.align, align)
  BY DEF Placed, FrameType
<1>4. total = FieldSize(known, struct, n + 1)
  BY DEF FieldSize
<1>5. new.offset = aligned /\ new.size = total /\ new.align = align
  OBVIOUS
<1>. HIDE DEF extent, align, aligned, total, new, placed
<1>6. /\ DOMAIN placed.fields = 1 .. n + 1 /\ Len(placed.fields) = n + 1
      /\ placed.fields[n + 1] = new
      /\ \A i \in 1 .. n : placed.fields[i] = frame.fields[i]
  BY <1>1, <1>3
<1>7. \A i \in 0 .. n : EndOf(placed.fields, i) = EndOf(frame.fields, i)
  BY <1>1, <1>6 DEF EndOf
<1>8. EndOf(frame.fields, n) = frame.offset
  BY DEF Matches
<1>9. ASSUME NEW i \in DOMAIN placed.fields
      PROVE  /\ placed.fields[i].align = EngineAlign(known, struct, i)
             /\ placed.fields[i].size = FieldSize(known, struct, i)
             /\ placed.fields[i].offset = AlignUp(EndOf(placed.fields, i - 1), placed.fields[i].align)
  <2>1. CASE i = n + 1
    <3>1. i - 1 = n /\ n \in 0 .. n
      BY <1>1, <2>1
    <3>2. EndOf(placed.fields, i - 1) = frame.offset
      BY <1>7, <1>8, <3>1
    <3>3. placed.fields[i] = new
      BY <1>6, <2>1
    <3>. QED
      BY <1>2, <1>4, <1>5, <2>1, <3>2, <3>3 DEF aligned
  <2>2. CASE i # n + 1
    <3>1. i \in 1 .. n /\ i - 1 \in 0 .. n
      BY <1>1, <1>6, <2>2
    <3>2. placed.fields[i] = frame.fields[i] /\ EndOf(placed.fields, i - 1) = EndOf(frame.fields, i - 1)
      BY <1>6, <1>7, <3>1
    <3>. QED
      BY <1>1, <3>1, <3>2 DEF Matches
  <2>. QED
    BY <2>1, <2>2
<1>10. placed.offset = EndOf(placed.fields, Len(placed.fields))
  <2>1. n + 1 # 0
    BY <1>1
  <2>. QED
    BY <1>3, <1>5, <1>6, <2>1 DEF EndOf
<1>11. frame.align <= placed.align /\ align <= placed.align /\ placed.align \in {frame.align, align}
  BY <1>1, <1>2, <1>3, AlignsClosed DEF Larger
<1>12. ASSUME NEW i \in DOMAIN placed.fields PROVE placed.fields[i].align <= placed.align
  <2>1. CASE i = n + 1
    BY <1>5, <1>6, <1>11, <2>1
  <2>2. CASE i # n + 1
    <3>1. i \in 1 .. n
      BY <1>1, <1>6, <2>2
    <3>2. placed.fields[i] = frame.fields[i] /\ frame.fields[i].align <= frame.align
      BY <1>1, <1>6, <3>1 DEF Matches
    <3>3. frame.fields[i].align \in Nat /\ frame.align \in Nat /\ placed.align \in Nat
      <4>1. frame.fields[i] \in PlacedField
        BY <1>1, <3>1, ElementType
      <4>2. placed.align \in Aligns
        BY <1>1, <1>2, <1>11
      <4>3. frame.fields[i].align \in Aligns
        BY <4>1 DEF PlacedField
      <4>4. \A a \in Aligns : a \in Nat
        BY DEF Aligns
      <4>5. frame.align \in Aligns
        BY <1>1
      <4>. QED
        BY <4>2, <4>3, <4>4, <4>5
    <3>. QED
      BY <1>11, <3>2, <3>3
  <2>. QED
    BY <2>1, <2>2
<1>13. placed.align = 1 \/ \E i \in DOMAIN placed.fields : placed.fields[i].align = placed.align
  <2>1. CASE placed.align = align
    <3>1. n + 1 \in DOMAIN placed.fields
      BY <1>1, <1>6
    <3>. QED
      BY <1>5, <1>6, <2>1, <3>1
  <2>2. CASE placed.align = frame.align
    <3>1. frame.align = 1 \/ \E i \in 1 .. n : frame.fields[i].align = frame.align
      BY <1>1 DEF Matches
    <3>2. \A i \in 1 .. n : i \in DOMAIN placed.fields /\ placed.fields[i] = frame.fields[i]
      BY <1>1, <1>6
    <3>. QED
      BY <2>2, <3>1, <3>2
  <2>. QED
    BY <1>11, <2>1, <2>2
<1>14. Matches(known, struct, placed)
  BY <1>9, <1>10, <1>12, <1>13 DEF Matches
<1>. QED
  BY <1>14 DEF placed, extent

(***************************************************************************)
(* Unflagged layouts are those of the rounds                               *)
(***************************************************************************)
CallMatches(depth) ==
  LET frame  == frames[depth]
      struct == typeDict.structs[frame.struct]
  IN  /\ frame.pack = OwnPack(struct.pack)
      /\ ~frame.estimated => Matches(EngineRounds[Size - depth], struct, frame)
MatchInv ==
  packOverride = NoPack =>
    /\ \A k \in DOMAIN frames : CallMatches(k)
    /\ \A k \in DOMAIN layouts :
         ~layouts[k].estimated => Agrees(layouts[k], EngineCompiled[layouts[k].name])

LEMMA MatchesKept ==
  ASSUME UNCHANGED input
  PROVE  /\ \A known, struct, frame : Matches(known, struct, frame)' = Matches(known, struct, frame)
         /\ \A pack : OwnPack(pack)' = OwnPack(pack)
         /\ packOverride' = packOverride /\ typeDict' = typeDict /\ Size' = Size
         /\ EngineRounds' = EngineRounds /\ EngineCompiled' = EngineCompiled
<1>1. /\ typeDict' = typeDict /\ target' = target /\ packOverride' = packOverride /\ Size' = Size
      /\ \A type : Meaning(type)' = Meaning(type)
  BY InputKept DEF input
<1>2. \A known, field : Extent(known, field)' = Extent(known, field)
  BY <1>1 DEF Extent, PointerSize
<1>3. \A known, struct, i : /\ EngineAlign(known, struct, i)' = EngineAlign(known, struct, i)
                            /\ FieldSize(known, struct, i)' = FieldSize(known, struct, i)
  BY <1>1, <1>2 DEF EngineAlign, FieldSize, OwnPack, DefaultPack
<1>4. \A known, struct, frame : Matches(known, struct, frame)' = Matches(known, struct, frame)
  BY <1>3 DEF Matches
<1>5. \A pack : OwnPack(pack)' = OwnPack(pack)
  BY <1>1 DEF OwnPack, DefaultPack
<1>6. EngineRounds' = EngineRounds
  BY <1>1 DEF EngineRounds, EngineRound, EngineStruct, EngineAlign, FieldSize, OwnPack, DefaultPack, Extent,
       PointerSize, Ready, Certain, Meaning, Following, Stops, EndsAt, AliasOf, StructOf, IndexOf, StructNames, Size
<1>. QED
  BY <1>1, <1>4, <1>5, <1>6 DEF EngineCompiled

LEMMA CallRounds ==
  ASSUME CallsInv, NEW depth \in DOMAIN frames
  PROVE  /\ Size - depth \in 0 .. Size /\ Shaped(EngineRounds[Size - depth])
         /\ target \in Targets /\ typeDict \in TypeDict
         /\ frames[depth] \in FrameType /\ frames[depth].struct \in DOMAIN typeDict.structs
         /\ typeDict.structs[frames[depth].struct] \in Struct
         /\ Fields(frames[depth]) = typeDict.structs[frames[depth].struct].fields
<1>1. /\ typeDict \in TypeDict /\ target \in Targets /\ frames \in Seq(FrameType)
      /\ frames[depth].struct \in DOMAIN typeDict.structs
  BY DEF CallsInv, TypeOK
<1>2. Size \in Nat /\ Len(frames) <= Size
  BY <1>1, KnownFacts, CallsFit DEF CallsInv
<1>3. depth \in 1 .. Len(frames) /\ Len(frames) \in Nat
  BY <1>1
<1>4. Size - depth \in 0 .. Size
  BY <1>2, <1>3
<1>5. Shaped(EngineRounds[Size - depth])
  BY <1>1, <1>4, EngineRoundsShaped
<1>6. typeDict.structs \in Seq(Struct) /\ frames[depth] \in FrameType
  BY <1>1, ElementType DEF TypeDict
<1>. QED
  BY <1>1, <1>4, <1>5, <1>6, ElementType DEF Fields

LEMMA MatchAdds ==
  ASSUME CallsInv, \A k \in DOMAIN frames : CallMatches(k), UNCHANGED <<input, layouts>>,
         NEW depth, NEW size, NEW align, NEW member, NEW estimated,
         Adds(depth, size, align, member, estimated),
         ~estimated /\ FieldAt(depth).array # "unsized" =>
           /\ Certain(EngineRounds[Size - depth], FieldAt(depth))
           /\ size = Extent(EngineRounds[Size - depth], FieldAt(depth)).size
           /\ align = Extent(EngineRounds[Size - depth], FieldAt(depth)).align
  PROVE  \A k \in DOMAIN frames' : CallMatches(k)'
<1>. DEFINE field == FieldAt(depth)
            frame == frames[depth]
            struct == typeDict.structs[frame.struct]
            known == EngineRounds[Size - depth]
<1>0. TypeOK
  BY DEF CallsInv
<1>1. /\ depth \in DOMAIN frames /\ DOMAIN frames' = 1 .. depth
      /\ \A k \in 1 .. depth : k # depth => frames'[k] = frames[k]
      /\ Len(frame.fields) < Len(Fields(frame))
      /\ frames'[depth] = Placed(frame, field, size, align, member, estimated)
  BY DEF Adds, PlacesInto
<1>2. /\ Shaped(known) /\ target \in Targets /\ frame \in FrameType
      /\ frame.struct \in DOMAIN typeDict.structs /\ struct \in Struct
      /\ Fields(frame) = struct.fields
  BY <1>1, CallRounds
<1>3. /\ frames'[depth].struct = frame.struct /\ frames'[depth].pack = frame.pack
      /\ frames'[depth].estimated = (frame.estimated \/ estimated \/ field.array = "unsized")
  BY <1>1, <1>2, PlacedKeeps
<1>4. /\ typeDict' = typeDict /\ Size' = Size /\ EngineRounds' = EngineRounds
      /\ \A r, s, f : Matches(r, s, f)' = Matches(r, s, f)
      /\ \A pack : OwnPack(pack)' = OwnPack(pack)
  BY MatchesKept
<1>5. frame.pack = OwnPack(struct.pack) /\ (~frame.estimated => Matches(known, struct, frame))
  BY <1>1 DEF CallMatches
<1>6. ASSUME ~frames'[depth].estimated PROVE Matches(known, struct, frames'[depth])
  <2>1. /\ Matches(known, struct, frame) /\ Certain(known, field)
        /\ size = Extent(known, field).size /\ align = Extent(known, field).align
    BY <1>3, <1>5, <1>6
  <2>2. Len(frame.fields) + 1 \in DOMAIN struct.fields /\ field = struct.fields[Len(frame.fields) + 1]
    <3>1. struct.fields \in Seq(Field) /\ Len(frame.fields) \in Nat
      BY <1>2 DEF Struct, FrameType
    <3>. QED
      BY <1>1, <1>2, <3>1 DEF FieldAt
  <2>. HIDE DEF field, frame, struct, known
  <2>4. frames'[depth] = Placed(frame, field, Extent(known, field).size, Extent(known, field).align, member, estimated)
    BY <1>1, <2>1
  <2>5. Matches(known, struct, Placed(frame, field, Extent(known, field).size, Extent(known, field).align, member, estimated))
    BY <1>2, <1>5, <2>1, <2>2, PlacedMatches
  <2>. QED
    BY <2>4, <2>5
<1>7. SUFFICES ASSUME NEW k \in DOMAIN frames' PROVE CallMatches(k)'
  OBVIOUS
<1>8. k \in DOMAIN frames
  BY <1>0, <1>1 DEF TypeOK
<1>9. CASE k = depth
  <2>1. typeDict'.structs[frames'[k].struct] = struct
    BY <1>3, <1>4, <1>9
  <2>. QED
    BY <1>3, <1>4, <1>5, <1>6, <1>9, <2>1 DEF CallMatches
<1>10. CASE k # depth
  <2>1. frames'[k] = frames[k] /\ CallMatches(k)
    BY <1>1, <1>8, <1>10
  <2>. QED
    BY <1>4, <2>1 DEF CallMatches
<1>. QED
  BY <1>9, <1>10

LEMMA MatchOpens ==
  ASSUME CallsInv, \A k \in DOMAIN frames : CallMatches(k), UNCHANGED <<input, layouts>>,
         NEW i, NEW pack, Opens(i, pack), pack = OwnPack(typeDict.structs[i].pack)
  PROVE  \A k \in DOMAIN frames' : CallMatches(k)'
<1>. DEFINE top == Len(frames)
<1>0. TypeOK
  BY DEF CallsInv
<1>1. /\ top \in Nat /\ DOMAIN frames' = 1 .. top + 1
      /\ \A k \in DOMAIN frames : frames'[k] = frames[k]
      /\ frames'[top + 1] = Frame(i, pack)
  BY <1>0, OpensFrames
<1>2. DOMAIN frames = 1 .. top
  BY <1>0 DEF TypeOK
<1>3. /\ typeDict' = typeDict /\ Size' = Size /\ EngineRounds' = EngineRounds
      /\ \A r, s, f : Matches(r, s, f)' = Matches(r, s, f)
      /\ \A p : OwnPack(p)' = OwnPack(p)
  BY MatchesKept
<1>4. SUFFICES ASSUME NEW k \in DOMAIN frames' PROVE CallMatches(k)'
  OBVIOUS
<1>5. CASE k = top + 1
  <2>1. /\ frames'[k].struct = i /\ frames'[k].pack = pack /\ frames'[k].fields = <<>>
        /\ frames'[k].offset = 0 /\ frames'[k].align = 1
    BY <1>1, <1>5 DEF Frame
  <2>2. DOMAIN <<>> = {} /\ Len(<<>>) = 0
    OBVIOUS
  <2>3. \A known, struct : Matches(known, struct, frames'[k])
    BY <2>1, <2>2 DEF Matches, EndOf
  <2>. QED
    BY <1>3, <2>1, <2>3 DEF CallMatches
<1>6. CASE k # top + 1
  <2>1. k \in DOMAIN frames /\ frames'[k] = frames[k] /\ CallMatches(k)
    BY <1>1, <1>2, <1>6
  <2>. QED
    BY <1>3, <2>1 DEF CallMatches
<1>. QED
  BY <1>5, <1>6

\* What a call returns unflagged is the struct of the next round.
LEMMA CompleteAgrees ==
  ASSUME CallsInv, Complete, ~Top.estimated, CallMatches(Len(frames))
  PROVE  LET round == EngineRounds[(Size - Len(frames)) + 1]
             name  == NameOf(Top.struct)
         IN  name \in DOMAIN round /\ Agrees(Finished(Top), round[name])
<1>. DEFINE n == Size - Len(frames)
            name == NameOf(Top.struct)
            struct == typeDict.structs[Top.struct]
            known == EngineRounds[n]
<1>0. TypeOK /\ GuardHonest /\ HonestInv /\ typeDict \in TypeDict /\ NamesOnce(typeDict)
      /\ frames # <<>> /\ Len(Top.fields) = Len(Fields(Top))
  BY DEF CallsInv, TypeOK, Complete
<1>1. Len(frames) \in DOMAIN frames /\ Top = frames[Len(frames)]
  BY <1>0, TopType
<1>2. /\ Shaped(known) /\ target \in Targets /\ Top \in FrameType
      /\ Top.struct \in DOMAIN typeDict.structs /\ struct \in Struct
      /\ Fields(Top) = struct.fields
  BY <1>1, CallRounds
<1>3. /\ n \in 0 .. Size /\ n + 1 \in 1 .. Size /\ name \in Known(n + 1) /\ name \in Ready(known)
  <2>1. n \in 0 .. Size /\ n + 1 \in 1 .. Size /\ name \in Known(n + 1) /\ name \in Ready(Rounds[n])
    BY <1>0, CompleteKnown
  <2>2. DOMAIN known = DOMAIN Rounds[n]
    BY <1>0, <1>2, <2>1, EngineRoundsShaped DEF Known
  <2>3. Ready(known) = Ready(Rounds[n])
    BY <2>2 DEF Ready, Certain
  <2>. QED
    BY <2>1, <2>3
<1>4. StructOf(name) = struct
  BY <1>0, <1>2, StructOfName
<1>5. Settled(known, struct)
  BY <1>0, <1>3, <1>4, ReadySettled
<1>6. Matches(known, struct, Top)
  BY <1>1 DEF CallMatches
<1>7. Agrees(Finished(Top), EngineStruct(known, struct))
  BY <1>0, <1>2, <1>5, <1>6, CompleteMatches
<1>8. EngineRounds[n + 1] = EngineRound(known)
  <2>1. (n + 1) - 1 = n
    BY <1>3
  <2>2. EngineRounds[n + 1] = EngineRound(EngineRounds[(n + 1) - 1])
    BY <1>0, <1>3, EngineRoundsDefine
  <2>. QED
    BY <2>1, <2>2
<1>9. EngineRound(known)[name] = EngineStruct(known, StructOf(name))
  BY <1>3 DEF EngineRound
<1>. QED
  BY <1>0, <1>2, <1>3, <1>4, <1>7, <1>8, <1>9, EngineRoundsShaped

LEMMA MatchKept ==
  ASSUME CallsInv, MatchInv, [Next]_vars
  PROVE  MatchInv'
<1>0. UNCHANGED input /\ TypeOK /\ InputInv /\ HonestInv
  BY InputConstant DEF CallsInv
<1>1. SUFFICES ASSUME packOverride = NoPack
               PROVE  /\ \A k \in DOMAIN frames' : CallMatches(k)'
                      /\ \A k \in DOMAIN layouts' :
                           ~layouts'[k].estimated => Agrees(layouts'[k], EngineCompiled[layouts'[k].name])
  <2>1. packOverride' = packOverride /\ EngineCompiled' = EngineCompiled
    BY <1>0, MatchesKept
  <2>. QED
    BY <2>1 DEF MatchInv
<1>2. /\ \A k \in DOMAIN frames : CallMatches(k)
      /\ \A k \in DOMAIN layouts :
           ~layouts[k].estimated => Agrees(layouts[k], EngineCompiled[layouts[k].name])
  BY <1>1 DEF MatchInv
<1>3. ASSUME UNCHANGED layouts, \A k \in DOMAIN frames' : CallMatches(k)'
      PROVE  /\ \A k \in DOMAIN frames' : CallMatches(k)'
             /\ \A k \in DOMAIN layouts' :
                  ~layouts'[k].estimated => Agrees(layouts'[k], EngineCompiled[layouts'[k].name])
  BY <1>2, <1>3
<1>4. CASE UNCHANGED <<frames, layouts>>
  <2>1. \A k \in DOMAIN frames' : CallMatches(k)'
    BY <1>0, <1>2, <1>4, MatchesKept DEF CallMatches
  <2>. QED
    BY <1>3, <1>4, <2>1
<1>5. CASE StartStruct
  <2>. DEFINE pack == RootPack(typeDict.structs[next].pack)
  <2>1. next \in DOMAIN typeDict.structs /\ frames = <<>> /\ frames' = <<Frame(next, pack)>>
        /\ UNCHANGED layouts
    BY <1>5 DEF StartStruct, InCatalog
  <2>2. pack \in Aligns
    BY <1>0, <2>1, StructFacts, PacksAreAligns DEF TypeOK
  <2>3. pack = OwnPack(typeDict.structs[next].pack)
    BY <1>1 DEF RootPack
  <2>. HIDE DEF pack
  <2>4. Opens(next, pack)
    BY <2>1, <2>2 DEF Opens
  <2>. QED
    BY <1>0, <1>2, <1>3, <2>1, <2>3, <2>4, MatchOpens
<1>6. CASE EnterNested
  <2>1. PICK i \in DOMAIN typeDict.structs : Opens(i, NestedPack(typeDict.structs[i].pack))
    BY <1>0, <1>6, EnterOpens
  <2>2. NestedPack(typeDict.structs[i].pack) = OwnPack(typeDict.structs[i].pack)
    BY DEF NestedPack
  <2>3. UNCHANGED layouts
    BY <1>6 DEF EnterNested
  <2>. QED
    BY <1>0, <1>2, <1>3, <2>1, <2>2, <2>3, MatchOpens
<1>7. CASE PlacePointer
  <2>. DEFINE top == Len(frames)
  <2>1. Placing /\ CurrentField.pointer /\ Place(PointerSize, PointerSize, NoType, FALSE)
    BY <1>7 DEF PlacePointer
  <2>2. Adds(top, PointerSize, PointerSize, NoType, FALSE) /\ CurrentField = FieldAt(top)
    BY <1>0, <2>1, PointerSizeType, PlaceAdds
  <2>3. Extent(EngineRounds[Size - top], FieldAt(top)) = [size |-> PointerSize, align |-> PointerSize]
    BY <2>1, <2>2 DEF Extent
  <2>4. FieldAt(top).array # "unsized" => Certain(EngineRounds[Size - top], FieldAt(top))
    BY <2>1, <2>2 DEF Certain
  <2>5. UNCHANGED layouts
    BY <2>1 DEF Place
  <2>6. /\ PointerSize = Extent(EngineRounds[Size - top], FieldAt(top)).size
        /\ PointerSize = Extent(EngineRounds[Size - top], FieldAt(top)).align
    BY <2>3
  <2>. QED
    BY <1>0, <1>1, <1>2, <1>3, <2>2, <2>4, <2>5, <2>6, MatchAdds
<1>8. CASE PlacePrimitive
  <2>. DEFINE top == Len(frames)
              prim == Prim[target][PrimitiveOf(typeDict, CurrentField.type)]
  <2>1. /\ Placing /\ ~CurrentField.pointer /\ IsPrimitive(CurrentField.type)
        /\ Place(prim.size, prim.align, NoType, FALSE)
    BY <1>8 DEF PlacePrimitive
  <2>2. prim.size \in Nat /\ prim.align \in Aligns
    BY <1>0, <2>1, PrimType
  <2>3. /\ Meaning(CurrentField.type) \in Primitives
        /\ PrimitiveOf(typeDict, CurrentField.type) = Meaning(CurrentField.type)
    BY <1>0, <2>1, CurrentFieldFacts, TypesMean
  <2>4. Extent(EngineRounds[Size - top], CurrentField) = prim
    BY <2>1, <2>3 DEF Extent
  <2>. HIDE DEF prim
  <2>5. Adds(top, prim.size, prim.align, NoType, FALSE) /\ CurrentField = FieldAt(top)
    BY <1>0, <2>1, <2>2, PlaceAdds
  <2>6. FieldAt(top).array # "unsized" => Certain(EngineRounds[Size - top], FieldAt(top))
    BY <2>3, <2>5 DEF Certain
  <2>7. UNCHANGED layouts
    BY <2>1 DEF Place
  <2>8. /\ prim.size = Extent(EngineRounds[Size - top], FieldAt(top)).size
        /\ prim.align = Extent(EngineRounds[Size - top], FieldAt(top)).align
    BY <2>4, <2>5
  <2>. QED
    BY <1>0, <1>1, <1>2, <1>3, <2>5, <2>6, <2>7, <2>8, MatchAdds
<1>9. CASE PlaceUnknown
  <2>1. Placing /\ Place(PointerSize, PointerSize, NoType, TRUE)
    BY <1>9 DEF PlaceUnknown
  <2>2. Adds(Len(frames), PointerSize, PointerSize, NoType, TRUE)
    BY <1>0, <2>1, PointerSizeType, PlaceAdds
  <2>3. UNCHANGED layouts
    BY <2>1 DEF Place
  <2>. QED
    BY <1>0, <1>1, <1>2, <1>3, <2>2, <2>3, MatchAdds
<1>10. CASE LeaveNested
  <2>. DEFINE depth == Len(frames) - 1
              done == Finished(Top)
              name == NameOf(Top.struct)
  <2>1. /\ Adds(depth, done.size, done.align, done.name, done.estimated)
        /\ depth \in DOMAIN frames /\ depth + 1 = Len(frames)
        /\ Len(frames) \in DOMAIN frames /\ Top = frames[Len(frames)]
    BY <1>0, <1>10, LeaveAdds
  <2>2. done.estimated = Top.estimated
    BY DEF Finished
  <2>3. Complete /\ UNCHANGED layouts
    BY <1>10 DEF LeaveNested
  <2>4. depth < Len(frames) /\ Size - depth = (Size - Len(frames)) + 1
    <3>1. Len(frames) \in Nat /\ Size \in Nat
      BY <1>0, KnownFacts DEF TypeOK
    <3>. QED
      BY <3>1
  <2>. HIDE DEF depth, done, name
  <2>5. /\ ~FieldAt(depth).pointer /\ Meaning(FieldAt(depth).type) \notin Primitives
        /\ Meaning(FieldAt(depth).type) = name
    BY <1>0, <2>1, <2>4 DEF HonestInv, Embeds, name
  <2>6. ASSUME ~done.estimated, FieldAt(depth).array # "unsized"
        PROVE  /\ Certain(EngineRounds[Size - depth], FieldAt(depth))
               /\ done.size = Extent(EngineRounds[Size - depth], FieldAt(depth)).size
               /\ done.align = Extent(EngineRounds[Size - depth], FieldAt(depth)).align
    <3>. DEFINE round == EngineRounds[(Size - Len(frames)) + 1]
    <3>1. name \in DOMAIN round /\ Agrees(done, round[name])
      BY <1>1, <1>2, <2>1, <2>2, <2>3, <2>6, CompleteAgrees DEF done, name
    <3>2. Extent(round, FieldAt(depth)) = [size |-> round[name].size, align |-> round[name].align]
      BY <2>5 DEF Extent
    <3>3. Certain(round, FieldAt(depth))
      BY <2>5, <2>6, <3>1 DEF Certain
    <3>4. round = EngineRounds[Size - depth]
      BY <2>4
    <3>. HIDE DEF round
    <3>. QED
      BY <3>1, <3>2, <3>3, <3>4 DEF Agrees
  <2>. QED
    BY <1>0, <1>1, <1>2, <1>3, <2>1, <2>3, <2>6, MatchAdds
<1>11. CASE FinishStruct
  <2>. DEFINE done == Finished(Top)
  <2>1. /\ Complete /\ Len(frames) = 1 /\ layouts' = Append(layouts, done) /\ frames' = <<>>
    BY <1>11 DEF FinishStruct
  <2>2. done.name = NameOf(Top.struct) /\ done.estimated = Top.estimated
    BY DEF Finished, NameOf
  <2>3. Len(frames) \in DOMAIN frames /\ Size \in Nat
    BY <1>0, <2>1, TopType, KnownFacts DEF Complete, TypeOK
  <2>4. layouts \in Seq(LayoutType) /\ done \in LayoutType
    BY <1>0, <2>1, TopType, FinishedParts DEF TypeOK, Complete
  <2>5. ASSUME ~done.estimated PROVE Agrees(done, EngineCompiled[done.name])
    <3>1. CallMatches(Len(frames))
      BY <1>2, <2>3
    <3>2. Agrees(done, EngineRounds[(Size - Len(frames)) + 1][NameOf(Top.struct)])
      BY <1>1, <2>1, <2>2, <2>5, <3>1, CompleteAgrees
    <3>3. (Size - Len(frames)) + 1 = Size
      BY <2>1, <2>3
    <3>. HIDE DEF done
    <3>4. Agrees(done, EngineRounds[Size][done.name])
      BY <2>2, <3>2, <3>3
    <3>. QED
      BY <3>4 DEF EngineCompiled
  <2>. HIDE DEF done
  <2>6. \A k \in DOMAIN layouts' : ~layouts'[k].estimated => Agrees(layouts'[k], EngineCompiled[layouts'[k].name])
    <3>1. ASSUME NEW k \in DOMAIN layouts'
          PROVE  layouts'[k] = done \/ (k \in DOMAIN layouts /\ layouts'[k] = layouts[k])
      BY <2>1, <2>4
    <3>. QED
      BY <1>2, <2>5, <3>1
  <2>7. DOMAIN frames' = {}
    BY <2>1
  <2>. QED
    BY <2>6, <2>7
<1>12. CASE SkipEmpty
  <2>1. UNCHANGED <<frames, layouts>>
    BY <1>12 DEF SkipEmpty
  <2>. QED
    BY <1>4, <2>1
<1>13. CASE UNCHANGED vars
  <2>1. UNCHANGED <<frames, layouts>>
    BY <1>13 DEF vars
  <2>. QED
    BY <1>4, <2>1
<1>. QED
  BY <1>5, <1>6, <1>7, <1>8, <1>9, <1>10, <1>11, <1>12, <1>13 DEF Next

LEMMA MatchAtStart == Init => MatchInv
<1>. SUFFICES ASSUME Init PROVE MatchInv
  OBVIOUS
<1>1. DOMAIN frames = {} /\ DOMAIN layouts = {}
  BY DEF Init, InitFrom
<1>. QED
  BY <1>1 DEF MatchInv

(***************************************************************************)
(* Where the rounds of the engine are the compiler's                       *)
(***************************************************************************)
\* No field is a primitive more aligned than the packing that the engine takes
\* for the natural one.
Fits(field) ==
  \/ field.pointer \/ Meaning(field.type) \notin Primitives
  \/ Prim[target][Meaning(field.type)].align <= DefaultPack
Natural ==
  \A i \in DOMAIN typeDict.structs : \A j \in DOMAIN typeDict.structs[i].fields :
    Fits(typeDict.structs[i].fields[j])

Low(known) == \A name \in DOMAIN known : known[name].align <= DefaultPack

LEMMA LowField ==
  ASSUME target \in Targets, NEW known, Shaped(known), Low(known), NEW struct \in Struct,
         NEW i \in DOMAIN struct.fields, Certain(known, struct.fields[i]), Fits(struct.fields[i])
  PROVE  /\ EngineAlign(known, struct, i) = FieldAlign(known, struct, i)
         /\ EngineAlign(known, struct, i) <= DefaultPack
<1>. DEFINE field == struct.fields[i]
            align == Extent(known, field).align
<1>1. align \in Aligns /\ struct.pack \in Aligns \cup {NoPack}
  BY EngineField DEF Struct
<1>2. align <= DefaultPack
  <2>1. CASE field.pointer
    BY <2>1 DEF Extent, PointerSize, DefaultPack
  <2>2. CASE ~field.pointer /\ Meaning(field.type) \in Primitives
    BY <2>2 DEF Extent, Fits
  <2>3. CASE ~field.pointer /\ Meaning(field.type) \notin Primitives
    BY <2>3 DEF Extent, Certain, Low
  <2>. QED
    BY <2>1, <2>2, <2>3
<1>3. /\ FieldAlign(known, struct, i) = IF struct.pack = NoPack THEN align ELSE Smaller(align, struct.pack)
      /\ EngineAlign(known, struct, i) = Smaller(align, OwnPack(struct.pack))
  BY DEF FieldAlign, EngineAlign
<1>. HIDE DEF align
<1>4. CASE struct.pack = NoPack
  BY <1>2, <1>3, <1>4 DEF OwnPack, Smaller
<1>5. CASE struct.pack # NoPack
  <2>1. FieldAlign(known, struct, i) = EngineAlign(known, struct, i)
    BY <1>3, <1>5 DEF OwnPack
  <2>2. Smaller(align, struct.pack) <= DefaultPack
    BY <1>1, <1>2, <1>5 DEF Smaller, Aligns, DefaultPack
  <2>. QED
    BY <1>3, <1>5, <2>1, <2>2 DEF OwnPack
<1>. QED
  BY <1>4, <1>5

LEMMA LowStruct ==
  ASSUME typeDict \in TypeDict, target \in Targets, Natural, NEW known, Shaped(known), Low(known),
         NEW name \in Ready(known)
  PROVE  /\ EngineStruct(known, StructOf(name)) = Compile(known, StructOf(name))
         /\ EngineStruct(known, StructOf(name)).align <= DefaultPack
<1>. DEFINE struct == StructOf(name)
            n == Len(struct.fields)
            sizes == [i \in 1 .. n |-> FieldSize(known, struct, i)]
            aligns == [i \in 1 .. n |-> EngineAlign(known, struct, i)]
<1>1. Settled(known, struct)
  BY ReadySettled
<1>2. IndexOf(typeDict, name) \in DOMAIN typeDict.structs
  BY IndexOfFacts DEF Ready
<1>3. \A i \in DOMAIN struct.fields : Fits(struct.fields[i])
  BY <1>2 DEF Natural, StructOf
<1>. HIDE DEF struct
<1>4. \A i \in DOMAIN struct.fields :
        /\ EngineAlign(known, struct, i) = FieldAlign(known, struct, i)
        /\ EngineAlign(known, struct, i) <= DefaultPack
  BY <1>1, <1>3, LowField DEF Settled
<1>5. /\ n \in Nat /\ DOMAIN struct.fields = 1 .. n
      /\ sizes \in [1 .. n -> Nat] /\ aligns \in [1 .. n -> Aligns]
  BY <1>1, EngineColumns
<1>6. aligns = [i \in 1 .. n |-> FieldAlign(known, struct, i)]
  BY <1>4, <1>5
<1>7. EngineStruct(known, struct) = Arranged(sizes, aligns) /\ Compile(known, struct) = Arranged(sizes, aligns)
  BY <1>6 DEF EngineStruct, Compile
<1>8. \A i \in 1 .. n : aligns[i] <= DefaultPack
  BY <1>4, <1>5
<1>. HIDE DEF sizes, aligns, n
<1>9. Arranged(sizes, aligns).align \in {1} \cup {aligns[i] : i \in 1 .. n}
  BY <1>5, ArrangedShaped
<1>10. Arranged(sizes, aligns).align <= DefaultPack
  BY <1>8, <1>9 DEF DefaultPack
<1>. QED
  BY <1>7, <1>10 DEF struct

LEMMA NaturalRounds ==
  ASSUME typeDict \in TypeDict, target \in Targets, Natural
  PROVE  EngineCompiled = Compiled
<1>. DEFINE T == {k \in Nat : k <= Size => EngineRounds[k] = Rounds[k] /\ Low(Rounds[k])}
<1>0. Size \in Nat
  BY KnownFacts
<1>1. 0 \in T
  <2>1. DOMAIN <<>> = {} /\ EngineRounds[0] = <<>> /\ Rounds[0] = <<>>
    BY EngineRoundsDefine, RoundsDefine
  <2>. QED
    BY <2>1 DEF Low
<1>2. ASSUME NEW k \in T PROVE k + 1 \in T
  <2>1. SUFFICES ASSUME k + 1 <= Size
                 PROVE  EngineRounds[k + 1] = Rounds[k + 1] /\ Low(Rounds[k + 1])
    OBVIOUS
  <2>2. k + 1 \in 1 .. Size /\ (k + 1) - 1 = k /\ k <= Size /\ k \in 0 .. Size
    BY <1>0, <2>1
  <2>. DEFINE known == Rounds[k]
  <2>3. EngineRounds[k] = known /\ Low(known)
    BY <2>2
  <2>4. EngineRounds[k + 1] = EngineRound(EngineRounds[(k + 1) - 1])
        /\ Rounds[k + 1] = Round(Rounds[(k + 1) - 1])
    BY <2>2, EngineRoundsDefine, RoundsDefine
  <2>5. EngineRounds[k + 1] = EngineRound(known) /\ Rounds[k + 1] = Round(known)
    BY <2>2, <2>3, <2>4
  <2>6. Shaped(known)
    BY <2>2, <2>3, EngineRoundsShaped
  <2>. HIDE DEF known
  <2>7. \A name \in Ready(known) :
          /\ EngineStruct(known, StructOf(name)) = Compile(known, StructOf(name))
          /\ EngineStruct(known, StructOf(name)).align <= DefaultPack
    BY <2>3, <2>6, LowStruct
  <2>8. EngineRound(known) = Round(known)
    BY <2>7 DEF EngineRound, Round
  <2>9. DOMAIN EngineRound(known) = Ready(known)
        /\ \A name \in Ready(known) : EngineRound(known)[name] = EngineStruct(known, StructOf(name))
    BY DEF EngineRound
  <2>. QED
    BY <2>5, <2>7, <2>8, <2>9 DEF Low
<1>3. T = Nat
  <2>. HIDE DEF T
  <2>1. T \in SUBSET Nat
    BY DEF T
  <2>. QED
    BY <1>1, <1>2, <2>1, Induct
<1>4. EngineRounds[Size] = Rounds[Size]
  BY <1>0, <1>3
<1>. QED
  BY <1>4 DEF EngineCompiled, Compiled, Size

\* If no field is a primitive more aligned than the default packing, a layout of
\* computeLayoutInternal that is not flagged is the compiler's: the same offsets, sizes and
\* alignment, for every dictionary, however structs embed each other, unless the caller
\* overrides the packing.  (`long double` on a 64-bit target is such a primitive, and there
\* the two differ.)
THEOREM AbiCorrectWhenNatural == Spec => [](Natural => AbiCorrect)
<1>1. CallsInv /\ MatchInv => (Natural => AbiCorrect)
  <2>1. SUFFICES ASSUME CallsInv, MatchInv, Natural PROVE AbiCorrect
    OBVIOUS
  <2>2. EngineCompiled = Compiled
    BY <2>1, NaturalRounds DEF CallsInv, TypeOK
  <2>. QED
    BY <2>1, <2>2 DEF MatchInv, AbiCorrect, Agrees
<1>. QED
  BY <1>1, CallsAtStart, CallsKept, MatchAtStart, MatchKept, PTL DEF Spec
==============================================================================
