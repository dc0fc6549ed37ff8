-------------------------------- MODULE Abi --------------------------------
(***************************************************************************)
(* What a C compiler does with the structs of a dictionary (System V ABI,  *)
(* as GCC and Clang implement it), written down independently of the       *)
(* engine: the reference its layouts are compared with.  Structs are laid  *)
(* out in rounds, each as soon as all it embeds are; no stack, no guard,   *)
(* no maps, no limit on hops.                                              *)
(***************************************************************************)
EXTENDS Layout

(***************************************************************************)
(* Typedefs                                                                *)
(***************************************************************************)
\* A name that stands for itself: a primitive, a struct, or no alias.
Stops(dict, name) ==
  name \in Primitives \cup StructNames(dict) \/ EndsAt(dict, name)

\* Where a name leads, one typedef after the other.
Following(dict, type) ==
  LET step[n \in 0 .. Len(dict.aliases)] ==
        IF n = 0 THEN type
        ELSE LET name == step[n - 1]
             IN  IF Stops(dict, name) THEN name ELSE AliasOf(dict, name)
  IN  step

Meaning(type) == Following(typeDict, type)[Len(typeDict.aliases)]

\* Every name means one thing, and the engine can find out which: no struct is
\* called like a primitive or a typedef of something else, repeated typedefs
\* agree, and no chain of them is circular or longer than the hops.
Unambiguous(dict) ==
  LET alias == dict.aliases
      hops  == Smaller(Len(alias), Smaller(STRUCT_HOPS, PRIMITIVE_HOPS))
  IN  /\ Primitives \cap StructNames(dict) = {}
      /\ \A i, j \in DOMAIN alias : alias[i].alias = alias[j].alias => alias[i].type = alias[j].type
      /\ \A i \in DOMAIN alias : alias[i].alias \in StructNames(dict) => alias[i].type = alias[i].alias
      /\ \A name \in TypeNames : \E n \in 0 .. hops : Stops(dict, Following(dict, name)[n])

ASSUME AbiAssumption == \A dict \in TypeDicts : Unambiguous(dict)

(***************************************************************************)
(* Layouts                                                                 *)
(***************************************************************************)
StructOf(name) == typeDict.structs[IndexOf(typeDict, name)]
NextMultiple(offset, align) == CHOOSE n \in offset .. offset + align - 1 : n % align = 0
Largest(numbers) == CHOOSE n \in numbers : \A m \in numbers : m <= n

\* Size and alignment of a type, given those of the structs laid out before.
Extent(known, field) ==
  IF field.pointer THEN [size |-> PointerSize, align |-> PointerSize]
  ELSE IF Meaning(field.type) \in Primitives THEN Prim[target][Meaning(field.type)]
  ELSE [size |-> known[Meaning(field.type)].size, align |-> known[Meaning(field.type)].align]

FieldAlign(known, struct, i) ==
  LET natural == Extent(known, struct.fields[i]).align
  IN  IF struct.pack = NoPack THEN natural ELSE Smaller(natural, struct.pack)

\* Fields of these sizes and alignments, one behind the other.
Arranged(sizes, aligns) ==
  LET n == Len(sizes)
      end[i \in 0 .. n] == IF i = 0 THEN 0 ELSE NextMultiple(end[i - 1], aligns[i]) + sizes[i]
      align == Largest({1} \cup {aligns[i] : i \in 1 .. n})
  IN  [align |-> align, size |-> NextMultiple(end[n], align), sizes |-> sizes,
       offsets |-> [i \in 1 .. n |-> NextMultiple(end[i - 1], aligns[i])]]

FieldSize(known, struct, i) == Extent(known, struct.fields[i]).size * struct.fields[i].length
Compile(known, struct) ==
  LET n == Len(struct.fields)
  IN  Arranged([i \in 1 .. n |-> FieldSize(known, struct, i)], [i \in 1 .. n |-> FieldAlign(known, struct, i)])

\* A field whose extent the headers settle: no macro for a length, and a type
\* that is a primitive or a struct laid out before.
Certain(known, field) ==
  /\ field.array # "unsized"
  /\ field.pointer \/ Meaning(field.type) \in Primitives \cup DOMAIN known
Ready(known) ==
  {name \in StructNames(typeDict) :
     \A i \in DOMAIN StructOf(name).fields : Certain(known, StructOf(name).fields[i])}

\* Structs that embed each other at most n - 1 deep.
Rounds ==
  LET round[n \in 0 .. Len(typeDict.structs)] ==
        IF n = 0 THEN <<>>
        ELSE LET known == round[n - 1]
             IN  [name \in Ready(known) |-> Compile(known, StructOf(name))]
  IN  round
\* What is not in here no compiler could lay out, or the headers loaded do not
\* say how: a type that is not known, a length that is a macro, a struct within
\* itself, and what embeds such.
Compiled == Rounds[Len(typeDict.structs)]

(***************************************************************************)
(* Properties                                                              *)
(***************************************************************************)
\* A layout is flagged as estimated exactly when something in it is unknown,
\* however deep: no guess goes unannounced, and no struct that is embedded
\* twice is taken for a recursive one.
EstimatedHonest ==
  Done => \A k \in DOMAIN layouts : layouts[k].estimated <=> layouts[k].name \notin DOMAIN Compiled

\* A layout that is not flagged is the compiler's, byte for byte, unless the
\* caller overrides the packing.
AbiCorrect ==
  Done /\ packOverride = NoPack =>
    LET compiled == Compiled
    IN  \A k \in DOMAIN layouts : ~layouts[k].estimated =>
          LET layout == layouts[k]
              struct == compiled[layout.name]
          IN  /\ layout.size = struct.size /\ layout.align = struct.align
              /\ \A i \in DOMAIN layout.fields :
                   /\ layout.fields[i].offset = struct.offsets[i]
                   /\ layout.fields[i].size = struct.sizes[i]
==============================================================================
