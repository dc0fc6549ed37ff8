---------------------------- MODULE HeaderProofs ----------------------------
(***************************************************************************)
(* What holds of the structs a header yields, for every sequence of lines: *)
(* they are dictionaries of the layout engine, no name twice, and each     *)
(* struct is packed as the innermost scope of `#pragma pack` at its line.  *)
(* The replay of the directives and the loop over the lines are recursive  *)
(* functions; what they compute is proved by induction over the lines.     *)
(***************************************************************************)
EXTENDS Header, LayoutProofs, FiniteSetTheorems, WellFoundedInduction

(***************************************************************************)
(* Induction                                                               *)
(***************************************************************************)
Below == {p \in Nat \X Nat : p[1] < p[2]}

LEMMA BelowWellFounded == IsWellFoundedOn(Below, Nat)
BY NatLessThanWellFounded DEF OpToRel, Below

\* A set of numbers with 0 in it that is closed under successor is Nat.
LEMMA Induct ==
  ASSUME NEW T \in SUBSET Nat, 0 \in T, \A n \in T : n + 1 \in T
  PROVE  T = Nat
<1>. DEFINE U == Nat \ T
<1>1. SUFFICES ASSUME U # {} PROVE FALSE
  OBVIOUS
<1>. HIDE DEF U
<1>2. PICK x \in U : \A y \in U : ~(<<y, x>> \in Below)
  BY <1>1, BelowWellFounded, WFMin DEF U
<1>3. x \in Nat /\ x # 0
  BY DEF U
<1>4. x - 1 \in T
  <2>1. x - 1 \in Nat /\ <<x - 1, x>> \in Below
    BY <1>3 DEF Below
  <2>. QED
    BY <1>2, <2>1 DEF U
<1>. QED
  BY <1>3, <1>4 DEF U

LEMMA Least ==
  ASSUME NEW U \in SUBSET Nat, U # {}
  PROVE  \E i \in U : \A j \in U : i <= j
<1>1. PICK i \in U : \A j \in U : ~(<<j, i>> \in Below)
  BY BelowWellFounded, WFMin
<1>2. ASSUME NEW j \in U PROVE i <= j
  <2>1. i \in Nat /\ j \in Nat /\ ~(<<j, i>> \in Below)
    BY <1>1
  <2>2. ~(j < i)
    BY <2>1 DEF Below
  <2>. QED
    BY <2>1, <2>2
<1>. QED
  BY <1>2

(***************************************************************************)
(* Directives                                                              *)
(***************************************************************************)
Kinds == {"set", "reset", "push", "pop", "show"}
Packings == Aligns \cup {NoPack}

LEMMA LineCases ==
  ASSUME NEW l \in Line
  PROVE  /\ l.line \in {"pragma", "struct", "end"}
         /\ l.line = "pragma" => /\ l.head \in Heads /\ l.numbers \in Seq(Nat)
                                 /\ l.head = "number" => l.numbers # <<>>
         /\ l.line = "struct" => /\ l.name \in TypeNames /\ l.packed \in BOOLEAN
                                 /\ l.fields \in Seq(Field)
BY DEF Line, EndOfHeader

\* A directive sets a packing or none, and only `pack(N)` must set one.
LEMMA DirectiveType ==
  ASSUME NEW l \in Line, l.line = "pragma"
  PROVE  /\ DirectiveOf(l).kind \in Kinds
         /\ DirectiveOf(l).value \in Packings
         /\ DirectiveOf(l).kind \in {"reset", "pop", "show"} => DirectiveOf(l).value = NoPack
<1>. DEFINE usable == {i \in DOMAIN l.numbers : IsPackValue(l.numbers[i])}
            first  == CHOOSE i \in usable : \A j \in usable : i <= j
            value  == IF usable = {} THEN NoPack ELSE l.numbers[first]
<1>1. l.head \in Heads /\ l.numbers \in Seq(Nat)
  BY LineCases
<1>2. value \in Packings
  <2>1. CASE usable = {}
    BY <2>1 DEF Packings
  <2>2. CASE usable # {}
    <3>1. usable \in SUBSET Nat /\ usable # {}
      BY <1>1, <2>2
    <3>2. \E i \in usable : \A j \in usable : i <= j
      <4>. HIDE DEF usable
      <4>. QED
        BY <3>1, Least
    <3>3. first \in usable
      BY <3>2
    <3>. QED
      BY <2>2, <3>3 DEF IsPackValue, Packings
  <2>. QED
    BY <2>1, <2>2
<1>. HIDE DEF value
<1>3. DirectiveOf(l) =
        CASE l.head = "none"   -> Directive("reset", NoPack)
          [] l.head = "pop"    -> Directive("pop", NoPack)
          [] l.head = "push"   -> Directive("push", value)
          [] l.head = "show"   -> Directive("show", NoPack)
          [] l.head = "number" -> IF IsPackValue(l.numbers[1])
                                  THEN Directive("set", l.numbers[1])
                                  ELSE Directive("reset", NoPack)
  BY DEF DirectiveOf, value
<1>4. NoPack \in Packings /\ (IsPackValue(l.numbers[1]) => l.numbers[1] \in Packings)
  BY DEF Packings, IsPackValue
<1>. QED
  BY <1>1, <1>2, <1>3, <1>4 DEF Directive, Kinds, Heads

(***************************************************************************)
(* The lines above, and how deep they are nested                           *)
(***************************************************************************)
LEMMA AboveStart ==
  ASSUME NEW lines \in Seq(Line)
  PROVE  Above(lines, 0) = {}
BY DEF Above

LEMMA AboveNext ==
  ASSUME NEW lines \in Seq(Line), NEW i \in Nat, i + 1 \in DOMAIN lines
  PROVE  Above(lines, i + 1) =
           IF lines[i + 1].line = "end" THEN {} ELSE Above(lines, i) \cup {i + 1}
<1>1. CASE lines[i + 1].line = "end"
  <2>1. ASSUME NEW c \in Above(lines, i + 1) PROVE FALSE
    <3>1. c \in 1 .. i + 1 /\ i + 1 \in c .. i + 1
      BY DEF Above
    <3>. QED
      BY <1>1, <3>1 DEF Above
  <2>. QED
    BY <1>1, <2>1
<1>2. CASE lines[i + 1].line # "end"
  <2>1. ASSUME NEW c \in 1 .. i + 1
        PROVE  c \in Above(lines, i + 1) <=> c \in Above(lines, i) \cup {i + 1}
    <3>1. CASE c = i + 1
      <4>1. \A j \in c .. i + 1 : j = i + 1
        BY <3>1
      <4>. QED
        BY <1>2, <3>1, <4>1 DEF Above
    <3>2. CASE c # i + 1
      <4>1. c \in 1 .. i /\ c .. i + 1 = (c .. i) \cup {i + 1}
        BY <3>2
      <4>. QED
        BY <1>2, <3>2, <4>1 DEF Above
    <3>. QED
      BY <3>1, <3>2
  <2>2. Above(lines, i + 1) \subseteq 1 .. i + 1
    BY DEF Above
  <2>3. Above(lines, i) \cup {i + 1} \subseteq 1 .. i + 1
    BY DEF Above
  <2>. QED
    BY <1>2, <2>1, <2>2, <2>3
<1>. QED
  BY <1>1, <1>2

Those(lines, i, kind) == {c \in Above(lines, i) : Kind(lines, c) = kind}

LEMMA ThoseFinite ==
  ASSUME NEW lines \in Seq(Line), NEW i \in Nat, NEW kind
  PROVE  /\ IsFiniteSet(Those(lines, i, kind))
         /\ Cardinality(Those(lines, i, kind)) \in Nat
         /\ Those(lines, i, kind) \subseteq 1 .. i
<1>1. IsFiniteSet(1 .. i)
  BY FS_Interval
<1>2. Those(lines, i, kind) \subseteq 1 .. i
  BY DEF Those, Above
<1>. QED
  BY <1>1, <1>2, FS_Subset, FS_CardinalityType

LEMMA ThoseNext ==
  ASSUME NEW lines \in Seq(Line), NEW i \in Nat, i + 1 \in DOMAIN lines, NEW kind,
         lines[i + 1].line # "end"
  PROVE  Cardinality(Those(lines, i + 1, kind)) =
           Cardinality(Those(lines, i, kind)) + IF Kind(lines, i + 1) = kind THEN 1 ELSE 0
<1>1. Those(lines, i + 1, kind) =
        IF Kind(lines, i + 1) = kind THEN Those(lines, i, kind) \cup {i + 1}
        ELSE Those(lines, i, kind)
  BY AboveNext DEF Those
<1>2. i + 1 \notin Those(lines, i, kind)
  BY ThoseFinite
<1>3. /\ IsFiniteSet(Those(lines, i, kind))
      /\ Cardinality(Those(lines, i, kind)) \in Nat
  BY ThoseFinite
<1>4. Cardinality(Those(lines, i, kind) \cup {i + 1}) = Cardinality(Those(lines, i, kind)) + 1
  BY <1>2, <1>3, FS_AddElement
<1>5. CASE Kind(lines, i + 1) = kind
  BY <1>1, <1>4, <1>5
<1>6. CASE Kind(lines, i + 1) # kind
  BY <1>1, <1>3, <1>6
<1>. QED
  BY <1>5, <1>6

Shift(kind) == IF kind = "push" THEN 1 ELSE IF kind = "pop" THEN -1 ELSE 0

LEMMA DepthOfThose ==
  ASSUME NEW lines \in Seq(Line), NEW i \in Nat
  PROVE  Depth(lines, i) =
           Cardinality(Those(lines, i, "push")) - Cardinality(Those(lines, i, "pop"))
BY DEF Depth, Those

\* A push nests one deeper, a pop one less, the end of a header not at all.
LEMMA DepthStart ==
  ASSUME NEW lines \in Seq(Line)
  PROVE  Depth(lines, 0) = 0
<1>1. Those(lines, 0, "push") = {} /\ Those(lines, 0, "pop") = {}
  BY AboveStart DEF Those
<1>2. /\ Cardinality(Those(lines, 0, "push")) = 0
      /\ Cardinality(Those(lines, 0, "pop")) = 0
  BY <1>1, FS_EmptySet, Zenon
<1>3. Depth(lines, 0) =
        Cardinality(Those(lines, 0, "push")) - Cardinality(Those(lines, 0, "pop"))
  BY DepthOfThose
<1>. QED
  BY <1>2, <1>3

LEMMA DepthType ==
  ASSUME NEW lines \in Seq(Line), NEW i \in Nat
  PROVE  Depth(lines, i) \in Int
<1>1. /\ Cardinality(Those(lines, i, "push")) \in Nat
      /\ Cardinality(Those(lines, i, "pop")) \in Nat
  BY ThoseFinite
<1>. QED
  BY <1>1, DepthOfThose

LEMMA DepthNext ==
  ASSUME NEW lines \in Seq(Line), NEW i \in Nat, i + 1 \in DOMAIN lines
  PROVE  Depth(lines, i + 1) =
           IF lines[i + 1].line = "end" THEN 0
           ELSE Depth(lines, i) + Shift(Kind(lines, i + 1))
<1>1. CASE lines[i + 1].line = "end"
  <2>1. Those(lines, i + 1, "push") = {} /\ Those(lines, i + 1, "pop") = {}
    BY <1>1, AboveNext DEF Those
  <2>2. /\ Cardinality(Those(lines, i + 1, "push")) = 0
        /\ Cardinality(Those(lines, i + 1, "pop")) = 0
    BY <2>1, FS_EmptySet, Zenon
  <2>3. Depth(lines, i + 1) =
          Cardinality(Those(lines, i + 1, "push")) - Cardinality(Those(lines, i + 1, "pop"))
    BY DepthOfThose
  <2>. QED
    BY <1>1, <2>2, <2>3
<1>2. CASE lines[i + 1].line # "end"
  <2>. DEFINE pushes(n) == Cardinality(Those(lines, n, "push"))
              pops(n) == Cardinality(Those(lines, n, "pop"))
  <2>1. /\ pushes(i) \in Nat /\ pops(i) \in Nat
        /\ Depth(lines, i) = pushes(i) - pops(i)
        /\ Depth(lines, i + 1) = pushes(i + 1) - pops(i + 1)
    <3>1. i + 1 \in Nat
      OBVIOUS
    <3>2. pushes(i) \in Nat /\ pops(i) \in Nat
      BY ThoseFinite
    <3>3. Depth(lines, i) = pushes(i) - pops(i)
      BY DepthOfThose
    <3>4. Depth(lines, i + 1) = pushes(i + 1) - pops(i + 1)
      BY <3>1, DepthOfThose
    <3>. QED
      BY <3>2, <3>3, <3>4
  <2>2. pushes(i + 1) = pushes(i) + IF Kind(lines, i + 1) = "push" THEN 1 ELSE 0
    BY <1>2, ThoseNext
  <2>3. pops(i + 1) = pops(i) + IF Kind(lines, i + 1) = "pop" THEN 1 ELSE 0
    BY <1>2, ThoseNext
  <2>. HIDE DEF pushes, pops
  <2>. QED
    BY <1>2, <2>1, <2>2, <2>3 DEF Shift
<1>. QED
  BY <1>1, <1>2

(***************************************************************************)
(* Scopes                                                                  *)
(***************************************************************************)
\* Lines whose value may hold somewhere.
Candidate(lines, c) ==
  \/ Kind(lines, c) \in {"set", "reset"}
  \/ Kind(lines, c) = "push" /\ DirectiveOf(lines[c]).value # NoPack

LEMMA InScopeOf ==
  ASSUME NEW lines \in Seq(Line), NEW i \in Nat
  PROVE  InScope(lines, i) =
           {c \in Above(lines, i) :
              Candidate(lines, c) /\ \A j \in c .. i : Depth(lines, j) >= Depth(lines, c)}
BY DEF InScope, Candidate

LEMMA InScopeBounds ==
  ASSUME NEW lines \in Seq(Line), NEW i \in Nat, NEW c \in InScope(lines, i)
  PROVE  c \in 1 .. i /\ Depth(lines, c) <= Depth(lines, i)
<1>1. c \in 1 .. i
  BY InScopeOf DEF Above
<1>2. i \in c .. i
  BY <1>1
<1>3. Depth(lines, i) >= Depth(lines, c)
  BY <1>2, InScopeOf
<1>4. Depth(lines, i) \in Int /\ Depth(lines, c) \in Int
  BY <1>1, DepthType
<1>. QED
  BY <1>1, <1>3, <1>4

\* A line takes the scopes deeper than itself out, and may open one.
LEMMA InScopeNext ==
  ASSUME NEW lines \in Seq(Line), NEW i \in Nat, i + 1 \in DOMAIN lines
  PROVE  InScope(lines, i + 1) =
           IF lines[i + 1].line = "end" THEN {}
           ELSE {c \in InScope(lines, i) : Depth(lines, c) <= Depth(lines, i + 1)}
                  \cup {c \in {i + 1} : Candidate(lines, c)}
<1>0. i + 1 \in Nat /\ Depth(lines, i + 1) \in Int
  BY DepthType
<1>1. CASE lines[i + 1].line = "end"
  <2>1. Above(lines, i + 1) = {}
    BY <1>1, AboveNext
  <2>2. InScope(lines, i + 1) \subseteq Above(lines, i + 1)
    BY <1>0, InScopeOf
  <2>. QED
    BY <1>1, <2>1, <2>2
<1>2. CASE lines[i + 1].line # "end"
  <2>. DEFINE old == {c \in InScope(lines, i) : Depth(lines, c) <= Depth(lines, i + 1)}
              opened == {c \in {i + 1} : Candidate(lines, c)}
  <2>1. Above(lines, i + 1) = Above(lines, i) \cup {i + 1} /\ Above(lines, i) \subseteq 1 .. i
    BY <1>2, AboveNext DEF Above
  <2>2. ASSUME NEW c \in Above(lines, i)
        PROVE  c \in InScope(lines, i + 1) <=> c \in old
    <3>1. c \in 1 .. i /\ c \in Nat
      BY <2>1
    <3>2. c .. i + 1 = (c .. i) \cup {i + 1}
      BY <3>1
    <3>3. Depth(lines, c) \in Int
      BY <3>1, DepthType
    <3>4. c \in InScope(lines, i + 1) <=>
            /\ Candidate(lines, c)
            /\ \A j \in c .. i + 1 : Depth(lines, j) >= Depth(lines, c)
      BY <1>0, <2>1, InScopeOf
    <3>5. c \in InScope(lines, i) <=>
            /\ Candidate(lines, c)
            /\ \A j \in c .. i : Depth(lines, j) >= Depth(lines, c)
      BY InScopeOf
    <3>6. Depth(lines, i + 1) >= Depth(lines, c) <=> Depth(lines, c) <= Depth(lines, i + 1)
      BY <1>0, <3>3
    <3>. QED
      BY <3>2, <3>4, <3>5, <3>6
  <2>3. i + 1 \in InScope(lines, i + 1) <=> i + 1 \in opened
    <3>1. \A j \in i + 1 .. i + 1 : j = i + 1
      OBVIOUS
    <3>2. i + 1 \in InScope(lines, i + 1) <=>
            /\ Candidate(lines, i + 1)
            /\ \A j \in i + 1 .. i + 1 : Depth(lines, j) >= Depth(lines, i + 1)
      BY <1>0, <2>1, InScopeOf
    <3>3. Depth(lines, i + 1) >= Depth(lines, i + 1)
      BY <1>0
    <3>. QED
      BY <3>1, <3>2, <3>3
  <2>4. InScope(lines, i + 1) \subseteq Above(lines, i + 1)
    BY <1>0, InScopeOf
  <2>5. InScope(lines, i) \subseteq Above(lines, i)
    BY InScopeOf
  <2>6. i + 1 \notin old /\ i + 1 \notin Above(lines, i)
    BY <2>1, <2>5
  <2>7. opened \subseteq {i + 1} /\ old \subseteq Above(lines, i)
    BY <2>5
  <2>8. InScope(lines, i + 1) = old \cup opened
    <3>. HIDE DEF old, opened
    <3>. QED
      BY <2>1, <2>2, <2>3, <2>4, <2>6, <2>7
  <2>. QED
    BY <1>2, <2>8
<1>. QED
  BY <1>1, <1>2

\* What is in scope no deeper than k.
Scoped(lines, i, k) == {c \in InScope(lines, i) : Depth(lines, c) <= k}

LEMMA ScopedAll ==
  ASSUME NEW lines \in Seq(Line), NEW i \in Nat
  PROVE  Scoped(lines, i, Depth(lines, i)) = InScope(lines, i)
BY InScopeBounds DEF Scoped

\* Below the depth a line leaves, it changes no scope.
LEMMA ScopedBelow ==
  ASSUME NEW lines \in Seq(Line), NEW i \in Nat, i + 1 \in DOMAIN lines,
         lines[i + 1].line # "end", NEW k \in Int, k <= Depth(lines, i + 1),
         k < Depth(lines, i + 1) \/ ~Candidate(lines, i + 1)
  PROVE  Scoped(lines, i + 1, k) = Scoped(lines, i, k)
<1>1. i + 1 \in Nat /\ Depth(lines, i + 1) \in Int
  BY DepthType
<1>2. \A c \in InScope(lines, i) : Depth(lines, c) \in Int
  <2>1. \A c \in InScope(lines, i) : c \in Nat
    BY InScopeBounds
  <2>. QED
    BY <2>1, DepthType
<1>3. InScope(lines, i + 1) =
        {c \in InScope(lines, i) : Depth(lines, c) <= Depth(lines, i + 1)}
          \cup {c \in {i + 1} : Candidate(lines, c)}
  BY InScopeNext
<1>. QED
  BY <1>1, <1>2, <1>3 DEF Scoped

\* The value of the last of some lines; none when there are none.
Holds(lines, S, value) ==
  IF S = {} THEN value = NoPack
  ELSE \E c \in S : (\A e \in S : e <= c) /\ value = DirectiveOf(lines[c]).value

LEMMA HoldsInnermost ==
  ASSUME NEW lines \in Seq(Line), NEW i \in Nat, NEW value,
         Holds(lines, InScope(lines, i), value)
  PROVE  InnermostPack(lines, i) = value
<1>. DEFINE S == InScope(lines, i)
            last == CHOOSE l \in S : \A k \in S : k <= l
<1>1. CASE S = {}
  BY <1>1 DEF Holds, InnermostPack
<1>2. CASE S # {}
  <2>1. PICK c \in S : (\A e \in S : e <= c) /\ value = DirectiveOf(lines[c]).value
    BY <1>2 DEF Holds
  <2>2. last \in S /\ \A k \in S : k <= last
    BY <2>1
  <2>3. last = c
    <3>1. S \subseteq Nat
      BY InScopeBounds
    <3>. HIDE DEF S, last
    <3>. QED
      BY <2>1, <2>2, <3>1
  <2>. QED
    BY <1>2, <2>1, <2>3 DEF InnermostPack
<1>. QED
  BY <1>1, <1>2

(***************************************************************************)
(* The replay of the directives                                            *)
(***************************************************************************)
Fresh == [stack |-> <<>>, current |-> NoPack]
\* What a line does to the stack and the packing in effect.
Replayed(lines, i, state) ==
  IF i = 0 \/ lines[i].line = "end" THEN Fresh
  ELSE IF lines[i].line = "pragma" THEN Effect(state, DirectiveOf(lines[i]))
  ELSE state

\* The stack holds, from the outermost, what each open push suspended, and
\* `current` what holds now.
InStep(lines, i, state) ==
  /\ state \in [stack : Seq(Packings), current : Packings]
  /\ Len(state.stack) = Depth(lines, i)
  /\ Holds(lines, InScope(lines, i), state.current)
  /\ \A k \in 1 .. Depth(lines, i) : Holds(lines, Scoped(lines, i, k - 1), state.stack[k])

LEMMA FreshInStep ==
  ASSUME NEW lines \in Seq(Line), NEW i \in Nat, InScope(lines, i) = {}, Depth(lines, i) = 0
  PROVE  InStep(lines, i, Fresh)
<1>1. Fresh \in [stack : Seq(Packings), current : Packings] /\ Len(Fresh.stack) = 0
  BY DEF Fresh, Packings
<1>2. Holds(lines, InScope(lines, i), Fresh.current)
  BY DEF Holds, Fresh
<1>. QED
  BY <1>1, <1>2 DEF InStep

LEMMA KindOfLine ==
  ASSUME NEW lines \in Seq(Line), NEW i \in DOMAIN lines
  PROVE  /\ lines[i].line = "pragma" =>
              /\ Kind(lines, i) = DirectiveOf(lines[i]).kind /\ Kind(lines, i) \in Kinds
              /\ DirectiveOf(lines[i]).value \in Packings
              /\ Kind(lines, i) \in {"reset", "pop", "show"} =>
                   DirectiveOf(lines[i]).value = NoPack
         /\ lines[i].line # "pragma" => Kind(lines, i) = "none"
<1>1. lines[i] \in Line
  OBVIOUS
<1>. QED
  BY <1>1, DirectiveType DEF Kind

\* A line that opens no scope and nests no deeper and no less changes nothing.
LEMMA QuietInStep ==
  ASSUME NEW lines \in Seq(Line), NEW i \in Nat, i + 1 \in DOMAIN lines,
         lines[i + 1].line # "end", Kind(lines, i + 1) \in {"none", "show"},
         NEW state, InStep(lines, i, state)
  PROVE  InStep(lines, i + 1, state)
<1>0. i + 1 \in Nat /\ Depth(lines, i) \in Int
  BY DepthType
<1>1. Depth(lines, i + 1) = Depth(lines, i)
  BY <1>0, DepthNext DEF Shift
<1>2. ~Candidate(lines, i + 1)
  BY DEF Candidate
<1>3. \A k \in Int : k <= Depth(lines, i) => Scoped(lines, i + 1, k) = Scoped(lines, i, k)
  BY <1>1, <1>2, ScopedBelow
<1>4. InScope(lines, i + 1) = InScope(lines, i)
  BY <1>0, <1>1, <1>3, ScopedAll
<1>5. \A k \in 1 .. Depth(lines, i) : k - 1 \in Int /\ k - 1 <= Depth(lines, i)
  BY <1>0
<1>. QED
  BY <1>1, <1>3, <1>4, <1>5 DEF InStep

\* The value of a line that opens a scope is what holds at it.
LEMMA OpenedHolds ==
  ASSUME NEW lines \in Seq(Line), NEW i \in Nat, i + 1 \in DOMAIN lines,
         lines[i + 1].line # "end", Candidate(lines, i + 1)
  PROVE  Holds(lines, InScope(lines, i + 1), DirectiveOf(lines[i + 1]).value)
<1>1. i + 1 \in InScope(lines, i + 1)
  BY InScopeNext
<1>2. \A e \in InScope(lines, i + 1) : e <= i + 1
  <2>1. i + 1 \in Nat
    OBVIOUS
  <2>. QED
    BY <2>1, InScopeBounds
<1>. QED
  BY <1>1, <1>2 DEF Holds

\* set and reset: the innermost scope gets another value.
LEMMA SetInStep ==
  ASSUME NEW lines \in Seq(Line), NEW i \in Nat, i + 1 \in DOMAIN lines,
         lines[i + 1].line = "pragma", Kind(lines, i + 1) \in {"set", "reset"},
         NEW state, InStep(lines, i, state)
  PROVE  InStep(lines, i + 1, [state EXCEPT !.current = DirectiveOf(lines[i + 1]).value])
<1>. DEFINE value == DirectiveOf(lines[i + 1]).value
            after == [state EXCEPT !.current = value]
<1>0. i + 1 \in Nat /\ Depth(lines, i) \in Int
  BY DepthType
<1>1. Depth(lines, i + 1) = Depth(lines, i)
  BY <1>0, DepthNext DEF Shift
<1>2. Candidate(lines, i + 1)
  BY DEF Candidate
<1>3. \A k \in 1 .. Depth(lines, i) :
        Scoped(lines, i + 1, k - 1) = Scoped(lines, i, k - 1)
  <2>1. \A k \in 1 .. Depth(lines, i) : k - 1 \in Int /\ k - 1 < Depth(lines, i)
    BY <1>0
  <2>. QED
    BY <1>0, <1>1, <2>1, ScopedBelow
<1>4. Holds(lines, InScope(lines, i + 1), value)
  BY <1>2, OpenedHolds
<1>5. value \in Packings
  BY KindOfLine
<1>6. /\ after \in [stack : Seq(Packings), current : Packings]
      /\ after.stack = state.stack /\ after.current = value
  BY <1>5 DEF InStep
<1>. QED
  BY <1>1, <1>3, <1>4, <1>6 DEF InStep

\* push: what held is suspended.
LEMMA PushInStep ==
  ASSUME NEW lines \in Seq(Line), NEW i \in Nat, i + 1 \in DOMAIN lines,
         lines[i + 1].line = "pragma", Kind(lines, i + 1) = "push",
         NEW state, InStep(lines, i, state)
  PROVE  InStep(lines, i + 1,
           [stack |-> Append(state.stack, state.current),
            current |-> IF DirectiveOf(lines[i + 1]).value = NoPack THEN state.current
                        ELSE DirectiveOf(lines[i + 1]).value])
<1>. DEFINE value == DirectiveOf(lines[i + 1]).value
            now == IF value = NoPack THEN state.current ELSE value
            after == [stack |-> Append(state.stack, state.current), current |-> now]
            deep == Depth(lines, i)
<1>0. i + 1 \in Nat /\ deep \in Nat
  BY DepthType DEF InStep
<1>1. Depth(lines, i + 1) = deep + 1
  BY <1>0, DepthNext DEF Shift
<1>2. state \in [stack : Seq(Packings), current : Packings] /\ value \in Packings
  BY KindOfLine DEF InStep
<1>3. /\ after \in [stack : Seq(Packings), current : Packings]
      /\ Len(after.stack) = deep + 1
      /\ after.stack[deep + 1] = state.current
      /\ \A k \in 1 .. deep : after.stack[k] = state.stack[k]
  BY <1>0, <1>2 DEF InStep
<1>4. \A k \in 1 .. deep + 1 : Scoped(lines, i + 1, k - 1) = Scoped(lines, i, k - 1)
  <2>1. \A k \in 1 .. deep + 1 : k - 1 \in Int /\ k - 1 < deep + 1 /\ k - 1 <= deep + 1
    BY <1>0
  <2>. HIDE DEF deep
  <2>2. ASSUME NEW k \in Int, k < deep + 1, k <= deep + 1
        PROVE  Scoped(lines, i + 1, k) = Scoped(lines, i, k)
    BY <1>1, <2>2, ScopedBelow
  <2>. QED
    BY <2>1, <2>2
<1>5. Scoped(lines, i, deep) = InScope(lines, i)
  BY ScopedAll
<1>6. ASSUME NEW k \in 1 .. deep + 1
      PROVE  Holds(lines, Scoped(lines, i + 1, k - 1), after.stack[k])
  <2>1. CASE k = deep + 1
    <3>1. k - 1 = deep
      BY <1>0, <2>1
    <3>2. Holds(lines, InScope(lines, i), state.current)
      BY DEF InStep
    <3>. QED
      BY <1>3, <1>4, <1>5, <2>1, <3>1, <3>2
  <2>2. CASE k # deep + 1
    <3>1. k \in 1 .. deep
      BY <1>0, <2>2
    <3>2. Holds(lines, Scoped(lines, i, k - 1), state.stack[k])
      BY <3>1 DEF InStep
    <3>. QED
      BY <1>3, <1>4, <3>1, <3>2
  <2>. QED
    BY <2>1, <2>2
<1>7. Holds(lines, InScope(lines, i + 1), now)
  <2>1. CASE value # NoPack
    <3>1. Candidate(lines, i + 1)
      BY <2>1 DEF Candidate
    <3>. QED
      BY <2>1, <3>1, OpenedHolds
  <2>2. CASE value = NoPack
    <3>1. ~Candidate(lines, i + 1)
      BY <2>2 DEF Candidate
    <3>2. InScope(lines, i + 1) = Scoped(lines, i + 1, deep + 1)
      BY <1>0, <1>1, ScopedAll
    <3>3. Scoped(lines, i + 1, deep + 1) = Scoped(lines, i, deep + 1)
      BY <1>0, <1>1, <3>1, ScopedBelow
    <3>4. Scoped(lines, i, deep + 1) = InScope(lines, i)
      <4>1. \A c \in InScope(lines, i) : Depth(lines, c) \in Int /\ Depth(lines, c) <= deep
        BY InScopeBounds, DepthType
      <4>. QED
        BY <1>0, <4>1 DEF Scoped
    <3>. QED
      BY <2>2, <3>2, <3>3, <3>4 DEF InStep
  <2>. QED
    BY <2>1, <2>2
<1>8. after.current = now
  OBVIOUS
<1>. HIDE DEF after, now
<1>9. InStep(lines, i + 1, after)
  BY <1>1, <1>3, <1>6, <1>7, <1>8 DEF InStep
<1>. QED
  BY <1>9 DEF after, now

\* pop: what was suspended holds again.
LEMMA PopInStep ==
  ASSUME NEW lines \in Seq(Line), NEW i \in Nat, i + 1 \in DOMAIN lines,
         lines[i + 1].line = "pragma", Kind(lines, i + 1) = "pop",
         Depth(lines, i + 1) >= 0, NEW state, InStep(lines, i, state)
  PROVE  /\ state.stack # <<>>
         /\ InStep(lines, i + 1, [stack |-> SubSeq(state.stack, 1, Len(state.stack) - 1),
                                  current |-> state.stack[Len(state.stack)]])
<1>. DEFINE deep == Depth(lines, i)
            after == [stack |-> SubSeq(state.stack, 1, Len(state.stack) - 1),
                      current |-> state.stack[Len(state.stack)]]
<1>0. i + 1 \in Nat /\ deep \in Nat /\ Len(state.stack) = deep
  BY DepthType DEF InStep
<1>1. Depth(lines, i + 1) = deep - 1 /\ deep >= 1
  BY <1>0, DepthNext DEF Shift
<1>2. ~Candidate(lines, i + 1)
  BY DEF Candidate
<1>3. \A k \in Int : k <= deep - 1 => Scoped(lines, i + 1, k) = Scoped(lines, i, k)
  BY <1>1, <1>2, ScopedBelow
<1>4. InScope(lines, i + 1) = Scoped(lines, i, deep - 1)
  <2>1. deep - 1 \in Int /\ deep - 1 <= deep - 1
    BY <1>0
  <2>. QED
    BY <1>0, <1>1, <1>3, <2>1, ScopedAll
<1>5. state \in [stack : Seq(Packings), current : Packings]
  BY DEF InStep
<1>6. /\ after \in [stack : Seq(Packings), current : Packings]
      /\ Len(after.stack) = deep - 1
      /\ after.current = state.stack[deep]
      /\ \A k \in 1 .. deep - 1 : after.stack[k] = state.stack[k]
  <2>1. deep \in DOMAIN state.stack /\ state.stack[deep] \in Packings
    BY <1>0, <1>1, <1>5
  <2>2. SubSeq(state.stack, 1, deep - 1) \in Seq(Packings)
    BY <1>0, <1>1, <1>5
  <2>. QED
    BY <1>0, <1>1, <1>5, <2>1, <2>2
<1>7. Holds(lines, InScope(lines, i + 1), after.current)
  <2>1. deep \in 1 .. deep
    BY <1>0, <1>1
  <2>. QED
    BY <1>4, <1>6, <2>1 DEF InStep
<1>8. ASSUME NEW k \in 1 .. deep - 1
      PROVE  Holds(lines, Scoped(lines, i + 1, k - 1), after.stack[k])
  <2>1. k \in 1 .. deep /\ k - 1 \in Int /\ k - 1 <= deep - 1
    BY <1>0
  <2>. QED
    BY <1>3, <1>6, <2>1 DEF InStep
<1>9. state.stack # <<>>
  BY <1>0, <1>1, <1>5
<1>. HIDE DEF after
<1>10. InStep(lines, i + 1, after)
  BY <1>1, <1>6, <1>7, <1>8 DEF InStep
<1>. QED
  BY <1>9, <1>10 DEF after

LEMMA ReplayedInStep ==
  ASSUME NEW lines \in Seq(Line), NEW i \in Nat, i + 1 \in DOMAIN lines,
         Depth(lines, i + 1) >= 0, NEW state, InStep(lines, i, state)
  PROVE  InStep(lines, i + 1, Replayed(lines, i + 1, state))
<1>. DEFINE l == lines[i + 1]
            d == DirectiveOf(l)
<1>0. i + 1 \in Nat /\ i + 1 # 0
  OBVIOUS
<1>1. CASE l.line = "end"
  <2>1. InScope(lines, i + 1) = {} /\ Depth(lines, i + 1) = 0
    BY <1>1, InScopeNext, DepthNext
  <2>. QED
    BY <1>0, <1>1, <2>1, FreshInStep DEF Replayed
<1>2. CASE l.line \notin {"end", "pragma"}
  <2>1. Kind(lines, i + 1) = "none"
    BY <1>2, KindOfLine
  <2>. QED
    BY <1>0, <1>2, <2>1, QuietInStep DEF Replayed
<1>3. CASE l.line = "pragma"
  <2>1. Replayed(lines, i + 1, state) = Effect(state, d)
    BY <1>0, <1>3 DEF Replayed
  <2>2. /\ d.kind = Kind(lines, i + 1) /\ Kind(lines, i + 1) \in Kinds
        /\ d.kind = "reset" => d.value = NoPack
    BY <1>3, KindOfLine
  <2>. HIDE DEF d
  <2>3. CASE d.kind = "show"
    <3>1. Effect(state, d) = state
      BY <2>3 DEF Effect
    <3>2. InStep(lines, i + 1, state)
      BY <1>3, <2>2, <2>3, QuietInStep
    <3>. QED
      BY <2>1, <3>1, <3>2
  <2>4. CASE d.kind \in {"set", "reset"}
    <3>1. Effect(state, d) = [state EXCEPT !.current = d.value]
      BY <2>2, <2>4 DEF Effect
    <3>2. InStep(lines, i + 1, [state EXCEPT !.current = d.value])
      BY <1>3, <2>2, <2>4, SetInStep DEF d
    <3>. QED
      BY <2>1, <3>1, <3>2
  <2>5. CASE d.kind = "push"
    <3>1. Effect(state, d) =
            [stack |-> Append(state.stack, state.current),
             current |-> IF d.value = NoPack THEN state.current ELSE d.value]
      BY <2>5 DEF Effect
    <3>2. InStep(lines, i + 1,
            [stack |-> Append(state.stack, state.current),
             current |-> IF d.value = NoPack THEN state.current ELSE d.value])
      BY <1>3, <2>2, <2>5, PushInStep DEF d
    <3>. QED
      BY <2>1, <3>1, <3>2
  <2>6. CASE d.kind = "pop"
    <3>1. /\ state.stack # <<>>
          /\ InStep(lines, i + 1, [stack |-> SubSeq(state.stack, 1, Len(state.stack) - 1),
                                   current |-> state.stack[Len(state.stack)]])
      BY <1>3, <2>2, <2>6, PopInStep
    <3>2. Effect(state, d) = [stack |-> SubSeq(state.stack, 1, Len(state.stack) - 1),
                              current |-> state.stack[Len(state.stack)]]
      BY <2>6, <3>1 DEF Effect
    <3>. QED
      BY <2>1, <3>1, <3>2
  <2>. QED
    BY <2>2, <2>3, <2>4, <2>5, <2>6 DEF Kinds
<1>. QED
  BY <1>1, <1>2, <1>3

LEMMA ReplayExists ==
  ASSUME NEW lines, NEW line \in Nat
  PROVE  \E F : F = [i \in 0 .. line |-> Replayed(lines, i, F[i - 1])]
<1>. DEFINE Upto(F, k) == F = [i \in 0 .. k |-> Replayed(lines, i, F[i - 1])]
            T == {k \in Nat : \E F : Upto(F, k)}
<1>1. 0 \in T
  <2>. DEFINE F == [i \in 0 .. 0 |-> Fresh]
  <2>1. ASSUME NEW i \in 0 .. 0 PROVE Fresh = Replayed(lines, i, F[i - 1])
    <3>1. i = 0
      OBVIOUS
    <3>. QED
      BY <3>1 DEF Replayed
  <2>2. F = [i \in 0 .. 0 |-> Replayed(lines, i, F[i - 1])]
    BY <2>1
  <2>. QED
    BY <2>2
<1>2. ASSUME NEW n \in T PROVE n + 1 \in T
  <2>1. PICK F : Upto(F, n)
    OBVIOUS
  <2>. DEFINE last == Replayed(lines, n + 1, F[n])
              G == [i \in 0 .. n + 1 |-> IF i = n + 1 THEN last ELSE F[i]]
  <2>2. ASSUME NEW i \in 0 .. n + 1
        PROVE  (IF i = n + 1 THEN last ELSE F[i]) = Replayed(lines, i, G[i - 1])
    <3>1. CASE i = n + 1
      <4>1. i - 1 = n /\ n \in 0 .. n + 1 /\ n # n + 1
        BY <3>1
      <4>2. G[n] = F[n]
        BY <4>1
      <4>. QED
        BY <3>1, <4>1, <4>2
    <3>2. CASE i = 0
      <4>1. Replayed(lines, 0, F[0 - 1]) = Fresh /\ Replayed(lines, 0, G[0 - 1]) = Fresh
        BY DEF Replayed
      <4>2. 0 \in 0 .. n /\ 0 # n + 1
        OBVIOUS
      <4>3. F[0] = Replayed(lines, 0, F[0 - 1])
        BY <2>1, <4>2
      <4>. HIDE DEF G, last
      <4>. QED
        BY <3>2, <4>1, <4>2, <4>3
    <3>3. CASE i # n + 1 /\ i # 0
      <4>1. i \in 0 .. n /\ i - 1 \in 0 .. n + 1 /\ i - 1 # n + 1
        BY <3>3
      <4>2. F[i] = Replayed(lines, i, F[i - 1])
        BY <2>1, <4>1
      <4>3. G[i - 1] = F[i - 1]
        BY <4>1
      <4>. HIDE DEF G, last
      <4>. QED
        BY <3>3, <4>2, <4>3
    <3>. QED
      BY <3>1, <3>2, <3>3
  <2>3. G = [i \in 0 .. n + 1 |-> Replayed(lines, i, G[i - 1])]
    BY <2>2
  <2>4. Upto(G, n + 1)
    BY <2>3
  <2>. HIDE DEF G, Upto
  <2>. QED
    BY <2>4
<1>3. T = Nat
  <2>. HIDE DEF T
  <2>1. T \in SUBSET Nat
    BY DEF T
  <2>. QED
    BY <1>1, <1>2, <2>1, Induct
<1>. QED
  BY <1>3

LEMMA ReplayDefines ==
  ASSUME NEW lines, NEW line \in Nat
  PROVE  \E F : /\ F = [i \in 0 .. line |-> Replayed(lines, i, F[i - 1])]
                /\ PackAt(lines, line) = F[line].current
<1>. DEFINE replay == CHOOSE F : F = [i \in 0 .. line |-> Replayed(lines, i, F[i - 1])]
<1>1. \E F : F = [i \in 0 .. line |-> Replayed(lines, i, F[i - 1])]
  BY ReplayExists
<1>2. replay = [i \in 0 .. line |-> Replayed(lines, i, replay[i - 1])]
  BY <1>1, Zenon
<1>3. PackAt(lines, line) = replay[line].current
  BY DEF PackAt, Replayed, Fresh
<1>. QED
  BY <1>2, <1>3

\* buildPackMap computes, at every line of a balanced header, the value of
\* the innermost scope.
LEMMA PackAtIsInnermost ==
  ASSUME NEW lines \in Seq(Line), Balanced(lines), NEW line \in DOMAIN lines
  PROVE  PackAt(lines, line) = InnermostPack(lines, line)
<1>1. PICK replay : /\ replay = [i \in 0 .. line |-> Replayed(lines, i, replay[i - 1])]
                    /\ PackAt(lines, line) = replay[line].current
  <2>1. line \in Nat
    OBVIOUS
  <2>. QED
    BY <2>1, ReplayDefines
<1>. DEFINE T == {i \in Nat : i <= line => InStep(lines, i, replay[i])}
<1>2. 0 \in T
  <2>1. replay[0] = Fresh
    BY <1>1 DEF Replayed
  <2>2. InScope(lines, 0) = {}
    BY AboveStart DEF InScope
  <2>. QED
    BY <2>1, <2>2, DepthStart, FreshInStep
<1>3. ASSUME NEW n \in T PROVE n + 1 \in T
  <2>1. SUFFICES ASSUME n + 1 <= line PROVE InStep(lines, n + 1, replay[n + 1])
    OBVIOUS
  <2>2. n \in Nat /\ n <= line /\ n + 1 \in 0 .. line /\ n + 1 \in DOMAIN lines
        /\ (n + 1) - 1 = n
    BY <2>1
  <2>3. replay[n + 1] = Replayed(lines, n + 1, replay[n])
    BY <1>1, <2>2
  <2>4. Depth(lines, n + 1) >= 0
    BY <2>2 DEF Balanced
  <2>. QED
    BY <2>2, <2>3, <2>4, ReplayedInStep
<1>4. T = Nat
  <2>. HIDE DEF T
  <2>1. T \in SUBSET Nat
    BY DEF T
  <2>. QED
    BY <1>2, <1>3, <2>1, Induct
<1>5. line \in T /\ line \in Nat /\ line <= line
  BY <1>4
<1>6. InStep(lines, line, replay[line])
  BY <1>5
<1>. QED
  BY <1>1, <1>5, <1>6, HoldsInnermost DEF InStep

\* Balanced or not, a packing is in effect or none is.
PackState == [stack : Seq(Packings), current : Packings]

LEMMA EffectType ==
  ASSUME NEW state \in PackState, NEW d, d.kind \in Kinds, d.value \in Packings
  PROVE  Effect(state, d) \in PackState
<1>1. /\ state.stack \in Seq(Packings) /\ state.current \in Packings /\ NoPack \in Packings
      /\ state = [stack |-> state.stack, current |-> state.current]
  BY DEF PackState, Packings
<1>2. CASE d.kind \in {"set", "reset", "show"}
  BY <1>1, <1>2 DEF Effect, PackState
<1>3. CASE d.kind = "push"
  BY <1>1, <1>3 DEF Effect, PackState
<1>4. CASE d.kind = "pop" /\ state.stack = <<>>
  BY <1>1, <1>4 DEF Effect, PackState
<1>5. CASE d.kind = "pop" /\ state.stack # <<>>
  <2>1. Len(state.stack) \in DOMAIN state.stack
    BY <1>1, <1>5
  <2>2. /\ state.stack[Len(state.stack)] \in Packings
        /\ SubSeq(state.stack, 1, Len(state.stack) - 1) \in Seq(Packings)
    BY <1>1, <2>1
  <2>. QED
    BY <1>5, <2>2 DEF Effect, PackState
<1>. QED
  BY <1>2, <1>3, <1>4, <1>5 DEF Kinds

LEMMA ReplayedType ==
  ASSUME NEW lines \in Seq(Line), NEW i \in DOMAIN lines, NEW state \in PackState
  PROVE  Replayed(lines, i, state) \in PackState
<1>1. Fresh \in PackState
  BY DEF Fresh, PackState, Packings
<1>2. lines[i].line = "pragma" => Effect(state, DirectiveOf(lines[i])) \in PackState
  BY KindOfLine, EffectType
<1>. QED
  BY <1>1, <1>2 DEF Replayed

LEMMA PackAtType ==
  ASSUME NEW lines \in Seq(Line), NEW line \in DOMAIN lines
  PROVE  PackAt(lines, line) \in Packings
<1>1. PICK replay : /\ replay = [i \in 0 .. line |-> Replayed(lines, i, replay[i - 1])]
                    /\ PackAt(lines, line) = replay[line].current
  <2>1. line \in Nat
    OBVIOUS
  <2>. QED
    BY <2>1, ReplayDefines
<1>. DEFINE T == {i \in Nat : i <= line => replay[i] \in PackState}
<1>2. 0 \in T
  BY <1>1 DEF Replayed, Fresh, PackState, Packings
<1>3. ASSUME NEW n \in T PROVE n + 1 \in T
  <2>1. SUFFICES ASSUME n + 1 <= line PROVE replay[n + 1] \in PackState
    OBVIOUS
  <2>2. n \in Nat /\ n <= line /\ n + 1 \in 0 .. line /\ n + 1 \in DOMAIN lines
        /\ (n + 1) - 1 = n
    BY <2>1
  <2>3. replay[n + 1] = Replayed(lines, n + 1, replay[n])
    BY <1>1, <2>2
  <2>. QED
    BY <2>2, <2>3, ReplayedType
<1>4. T = Nat
  <2>. HIDE DEF T
  <2>1. T \in SUBSET Nat
    BY DEF T
  <2>. QED
    BY <1>2, <1>3, <2>1, Induct
<1>5. line \in T /\ line \in Nat /\ line <= line
  BY <1>4
<1>. QED
  BY <1>1, <1>5 DEF PackState

(***************************************************************************)
(* The structs of a header                                                 *)
(***************************************************************************)
\* What parseHeader keeps of a struct, and what it has kept up to a line.
StructAt(lines, i) ==
  [name |-> lines[i].name, fields |-> lines[i].fields,
   pack |-> ResolvePack(lines[i].packed, PackAt(lines, i))]
KeptAt(lines, i, before) ==
  IF i = 0 THEN <<>>
  ELSE IF i \notin Kept(lines) THEN before
  ELSE Append(before, StructAt(lines, i))

LEMMA ParsedExists ==
  ASSUME NEW lines, NEW last \in Nat
  PROVE  \E F : F = [i \in 0 .. last |-> KeptAt(lines, i, F[i - 1])]
<1>. DEFINE Upto(F, k) == F = [i \in 0 .. k |-> KeptAt(lines, i, F[i - 1])]
            T == {k \in Nat : \E F : Upto(F, k)}
<1>1. 0 \in T
  <2>. DEFINE F == [i \in 0 .. 0 |-> <<>>]
  <2>1. ASSUME NEW i \in 0 .. 0 PROVE <<>> = KeptAt(lines, i, F[i - 1])
    <3>1. i = 0
      OBVIOUS
    <3>. QED
      BY <3>1 DEF KeptAt
  <2>2. F = [i \in 0 .. 0 |-> KeptAt(lines, i, F[i - 1])]
    BY <2>1
  <2>. QED
    BY <2>2
<1>2. ASSUME NEW n \in T PROVE n + 1 \in T
  <2>1. PICK F : Upto(F, n)
    OBVIOUS
  <2>. DEFINE final == KeptAt(lines, n + 1, F[n])
              G == [i \in 0 .. n + 1 |-> IF i = n + 1 THEN final ELSE F[i]]
  <2>2. ASSUME NEW i \in 0 .. n + 1
        PROVE  (IF i = n + 1 THEN final ELSE F[i]) = KeptAt(lines, i, G[i - 1])
    <3>1. CASE i = n + 1
      <4>1. i - 1 = n /\ n \in 0 .. n + 1 /\ n # n + 1
        BY <3>1
      <4>2. G[n] = F[n]
        BY <4>1
      <4>. QED
        BY <3>1, <4>1, <4>2
    <3>2. CASE i = 0
      <4>1. KeptAt(lines, 0, F[0 - 1]) = <<>> /\ KeptAt(lines, 0, G[0 - 1]) = <<>>
        BY DEF KeptAt
      <4>2. 0 \in 0 .. n /\ 0 # n + 1
        OBVIOUS
      <4>3. F[0] = KeptAt(lines, 0, F[0 - 1])
        BY <2>1, <4>2
      <4>. HIDE DEF G, final
      <4>. QED
        BY <3>2, <4>1, <4>2, <4>3
    <3>3. CASE i # n + 1 /\ i # 0
      <4>1. i \in 0 .. n /\ i - 1 \in 0 .. n + 1 /\ i - 1 # n + 1
        BY <3>3
      <4>2. F[i] = KeptAt(lines, i, F[i - 1])
        BY <2>1, <4>1
      <4>3. G[i - 1] = F[i - 1]
        BY <4>1
      <4>. HIDE DEF G, final
      <4>. QED
        BY <3>3, <4>2, <4>3
    <3>. QED
      BY <3>1, <3>2, <3>3
  <2>3. G = [i \in 0 .. n + 1 |-> KeptAt(lines, i, G[i - 1])]
    BY <2>2
  <2>4. Upto(G, n + 1)
    BY <2>3
  <2>. HIDE DEF G, Upto
  <2>. QED
    BY <2>4
<1>3. T = Nat
  <2>. HIDE DEF T
  <2>1. T \in SUBSET Nat
    BY DEF T
  <2>. QED
    BY <1>1, <1>2, <2>1, Induct
<1>. QED
  BY <1>3

\* The structs kept up to a line, and no others, no name twice.
Collected(lines, i, structs) ==
  /\ structs \in Seq(Struct)
  /\ \A s \in DOMAIN structs :
       \E k \in Kept(lines) : k <= i /\ structs[s] = StructAt(lines, k)
  /\ \A k \in Kept(lines) :
       k <= i => \E s \in DOMAIN structs : structs[s] = StructAt(lines, k)
  /\ \A s, t \in DOMAIN structs : structs[s].name = structs[t].name => s = t

LEMMA StructAtType ==
  ASSUME NEW lines \in Seq(Line), NEW i \in StructLines(lines)
  PROVE  StructAt(lines, i) \in Struct
<1>1. i \in DOMAIN lines /\ lines[i] \in Line /\ lines[i].line = "struct"
  BY DEF StructLines
<1>2. lines[i].name \in TypeNames /\ lines[i].fields \in Seq(Field)
  BY <1>1, LineCases
<1>3. ResolvePack(lines[i].packed, PackAt(lines, i)) \in Packings
  BY <1>1, PackAtType DEF ResolvePack, Packings, Aligns
<1>. QED
  BY <1>2, <1>3 DEF StructAt, Struct, Packings

LEMMA CollectedNext ==
  ASSUME NEW lines \in Seq(Line), NEW i \in Nat, i + 1 \in DOMAIN lines,
         NEW structs, Collected(lines, i, structs)
  PROVE  Collected(lines, i + 1, KeptAt(lines, i + 1, structs))
<1>. DEFINE here == StructAt(lines, i + 1)
            after == KeptAt(lines, i + 1, structs)
<1>0. i + 1 # 0 /\ Kept(lines) \subseteq Nat /\ Kept(lines) \subseteq StructLines(lines)
  BY DEF Kept, StructLines
<1>1. CASE i + 1 \notin Kept(lines)
  <2>1. after = structs
    BY <1>0, <1>1 DEF KeptAt
  <2>2. \A k \in Kept(lines) : k <= i + 1 <=> k <= i
    BY <1>0, <1>1
  <2>3. Collected(lines, i + 1, structs)
    BY <2>2 DEF Collected
  <2>. QED
    BY <2>1, <2>3
<1>2. CASE i + 1 \in Kept(lines)
  <2>1. after = Append(structs, here)
    BY <1>0, <1>2 DEF KeptAt
  <2>2. structs \in Seq(Struct) /\ here \in Struct
    BY <1>0, <1>2, StructAtType DEF Collected
  <2>. DEFINE n == Len(structs)
  <2>. HIDE DEF after, here
  <2>3. /\ after \in Seq(Struct) /\ n \in Nat
        /\ DOMAIN after = 1 .. n + 1 /\ DOMAIN structs = 1 .. n
        /\ after[n + 1] = here /\ \A s \in 1 .. n : after[s] = structs[s]
    BY <2>1, <2>2
  <2>. HIDE DEF n
  <2>4. ASSUME NEW s \in DOMAIN after
        PROVE  \E k \in Kept(lines) : k <= i + 1 /\ after[s] = StructAt(lines, k)
    <3>1. CASE s = n + 1
      BY <1>2, <2>3, <3>1 DEF here
    <3>2. CASE s # n + 1
      <4>1. s \in DOMAIN structs /\ after[s] = structs[s]
        BY <2>3, <3>2
      <4>2. PICK k \in Kept(lines) : k <= i /\ structs[s] = StructAt(lines, k)
        BY <4>1 DEF Collected
      <4>3. k <= i + 1
        BY <1>0, <4>2
      <4>. QED
        BY <4>1, <4>2, <4>3
    <3>. QED
      BY <3>1, <3>2
  <2>5. ASSUME NEW k \in Kept(lines), k <= i + 1
        PROVE  \E s \in DOMAIN after : after[s] = StructAt(lines, k)
    <3>1. CASE k = i + 1
      <4>1. n + 1 \in DOMAIN after /\ after[n + 1] = StructAt(lines, k)
        BY <2>3, <3>1 DEF here
      <4>. QED
        BY <4>1
    <3>2. CASE k # i + 1
      <4>1. k <= i
        BY <1>0, <2>5, <3>2
      <4>2. PICK s \in DOMAIN structs : structs[s] = StructAt(lines, k)
        BY <4>1 DEF Collected
      <4>3. s \in DOMAIN after /\ after[s] = structs[s]
        BY <2>3, <4>2
      <4>. QED
        BY <4>2, <4>3
    <3>. QED
      BY <3>1, <3>2
  <2>6. ASSUME NEW s \in DOMAIN structs PROVE structs[s].name # here.name
    <3>1. PICK k \in Kept(lines) : k <= i /\ structs[s] = StructAt(lines, k)
      BY DEF Collected
    <3>2. k \in StructLines(lines) /\ k < i + 1
      BY <1>0, <3>1
    <3>3. lines[k].name # lines[i + 1].name
      BY <1>2, <3>2 DEF Kept
    <3>. QED
      BY <3>1, <3>3 DEF here, StructAt
  <2>7. ASSUME NEW s \in DOMAIN after, NEW t \in DOMAIN after, after[s].name = after[t].name
        PROVE  s = t
    <3>1. CASE s = n + 1 /\ t = n + 1
      BY <3>1
    <3>2. CASE s = n + 1 /\ t # n + 1
      <4>1. t \in DOMAIN structs /\ after[t] = structs[t] /\ after[s] = here
        BY <2>3, <3>2
      <4>. QED
        BY <2>6, <2>7, <4>1
    <3>3. CASE s # n + 1 /\ t = n + 1
      <4>1. s \in DOMAIN structs /\ after[s] = structs[s] /\ after[t] = here
        BY <2>3, <3>3
      <4>. QED
        BY <2>6, <2>7, <4>1
    <3>4. CASE s # n + 1 /\ t # n + 1
      <4>1. /\ s \in DOMAIN structs /\ after[s] = structs[s]
            /\ t \in DOMAIN structs /\ after[t] = structs[t]
        BY <2>3, <3>4
      <4>. QED
        BY <2>7, <4>1 DEF Collected
    <3>. QED
      BY <3>1, <3>2, <3>3, <3>4
  <2>8. Collected(lines, i + 1, after)
    BY <2>3, <2>4, <2>5, <2>7 DEF Collected
  <2>. QED
    BY <2>8 DEF after
<1>. QED
  BY <1>1, <1>2

LEMMA ParseHeaderCollects ==
  ASSUME NEW lines \in Seq(Line)
  PROVE  /\ Collected(lines, Len(lines), ParseHeader(lines).structs)
         /\ ParseHeader(lines) = [structs |-> ParseHeader(lines).structs, aliases |-> Aliases]
<1>. DEFINE parsed == CHOOSE F : F = [i \in 0 .. Len(lines) |-> KeptAt(lines, i, F[i - 1])]
<1>1. parsed = [i \in 0 .. Len(lines) |-> KeptAt(lines, i, parsed[i - 1])]
  <2>1. Len(lines) \in Nat
    OBVIOUS
  <2>2. \E F : F = [i \in 0 .. Len(lines) |-> KeptAt(lines, i, F[i - 1])]
    BY <2>1, ParsedExists
  <2>. QED
    BY <2>2, Zenon
<1>2. ParseHeader(lines) = [structs |-> parsed[Len(lines)], aliases |-> Aliases]
  BY DEF ParseHeader, KeptAt, StructAt
<1>. HIDE DEF parsed
<1>. DEFINE T == {i \in Nat : i <= Len(lines) => Collected(lines, i, parsed[i])}
<1>3. 0 \in T
  <2>1. parsed[0] = <<>>
    BY <1>1 DEF KeptAt
  <2>2. \A k \in Kept(lines) : ~(k <= 0)
    BY DEF Kept, StructLines
  <2>3. <<>> \in Seq(Struct) /\ DOMAIN <<>> = {}
    OBVIOUS
  <2>. QED
    BY <2>1, <2>2, <2>3 DEF Collected
<1>4. ASSUME NEW n \in T PROVE n + 1 \in T
  <2>1. SUFFICES ASSUME n + 1 <= Len(lines) PROVE Collected(lines, n + 1, parsed[n + 1])
    OBVIOUS
  <2>2. n \in Nat /\ n <= Len(lines) /\ n + 1 \in 0 .. Len(lines) /\ n + 1 \in DOMAIN lines
        /\ (n + 1) - 1 = n
    BY <2>1
  <2>3. parsed[n + 1] = KeptAt(lines, n + 1, parsed[n])
    BY <1>1, <2>2
  <2>. QED
    BY <2>2, <2>3, CollectedNext
<1>5. T = Nat
  <2>. HIDE DEF T
  <2>1. T \in SUBSET Nat
    BY DEF T
  <2>. QED
    BY <1>3, <1>4, <2>1, Induct
<1>6. Len(lines) \in T /\ Len(lines) <= Len(lines)
  BY <1>5
<1>7. Collected(lines, Len(lines), parsed[Len(lines)])
  BY <1>6
<1>. QED
  BY <1>2, <1>7

\* parseHeader yields a dictionary the layout engine takes: well-typed, each
\* packing one of 1..16 or none, and no name twice, whatever the lines.  This
\* is what LayoutAssumption asks of the dictionaries.
THEOREM ParsedDictionaries ==
  \A lines \in Headers : ParseHeader(lines) \in TypeDict /\ NamesOnce(ParseHeader(lines))
<1>. SUFFICES ASSUME NEW lines \in Headers
              PROVE  ParseHeader(lines) \in TypeDict /\ NamesOnce(ParseHeader(lines))
  OBVIOUS
<1>1. lines \in Seq(Line) /\ Aliases \in Seq(Alias)
  BY HeaderAssumption
<1>2. /\ Collected(lines, Len(lines), ParseHeader(lines).structs)
      /\ ParseHeader(lines) = [structs |-> ParseHeader(lines).structs, aliases |-> Aliases]
  BY <1>1, ParseHeaderCollects
<1>. QED
  BY <1>1, <1>2 DEF Collected, TypeDict, NamesOnce

\* Whatever the headers, each struct is packed as the innermost scope of
\* `#pragma pack` says at its line, or by its attribute (buildPackMap and
\* resolvePack, packDetection.ts).
THEOREM PackScopedCorrect == HeaderSpec => []PackScoped
<1>. DEFINE Inv == header \in Headers /\ typeDict = ParseHeader(header)
<1>1. HeaderInit => Inv
  BY DEF HeaderInit, InitFrom
<1>2. Inv /\ [HeaderNext]_<<vars, header>> => Inv'
  <2>1. HeaderNext => UNCHANGED <<typeDict, header>>
    <3>1. SkipEmpty \/ StartStruct \/ FinishStruct => UNCHANGED typeDict
      BY DEF SkipEmpty, StartStruct, FinishStruct, input
    <3>2. PlacePointer => UNCHANGED typeDict
      BY DEF PlacePointer, Place, input
    <3>3. PlacePrimitive => UNCHANGED typeDict
      BY DEF PlacePrimitive, Place, input
    <3>4. PlaceUnknown => UNCHANGED typeDict
      BY DEF PlaceUnknown, Place, input
    <3>5. EnterNested \/ LeaveNested => UNCHANGED typeDict
      BY DEF EnterNested, LeaveNested, input
    <3>. QED
      BY <3>1, <3>2, <3>3, <3>4, <3>5 DEF HeaderNext, Parsed
  <2>2. UNCHANGED <<vars, header>> => UNCHANGED <<typeDict, header>>
    BY DEF vars, input
  <2>. QED
    BY <2>1, <2>2
<1>3. Inv => PackScoped
  <2>. SUFFICES ASSUME Inv, Balanced(header), NEW i \in Kept(header)
                PROVE  \E s \in DOMAIN typeDict.structs :
                         /\ typeDict.structs[s].name = header[i].name
                         /\ typeDict.structs[s].pack =
                              IF header[i].packed THEN 1 ELSE InnermostPack(header, i)
    BY DEF PackScoped
  <2>1. header \in Seq(Line) /\ i \in DOMAIN header /\ i <= Len(header)
    BY HeaderAssumption DEF Kept, StructLines
  <2>2. PICK s \in DOMAIN typeDict.structs : typeDict.structs[s] = StructAt(header, i)
    BY <2>1, ParseHeaderCollects DEF Collected
  <2>3. PackAt(header, i) = InnermostPack(header, i)
    BY <2>1, PackAtIsInnermost
  <2>. QED
    BY <2>2, <2>3 DEF StructAt, ResolvePack
<1>. QED
  BY <1>1, <1>2, <1>3, PTL DEF HeaderSpec

\* Laying out parsed headers is laying out dictionaries: what the engine's
\* specification promises of every dictionary holds of every header.
THEOREM HeaderImplementsLayout == HeaderSpec => Spec
<1>1. HeaderInit => Init
  BY ParsedAssumption DEF HeaderInit, Init, InitFrom
<1>2. [HeaderNext]_<<vars, header>> => [Next]_vars
  BY DEF HeaderNext, Next, vars
<1>. QED
  BY <1>1, <1>2, PTL DEF HeaderSpec, Spec
=============================================================================
