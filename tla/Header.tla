------------------------------- MODULE Header -------------------------------
(***************************************************************************)
(* Where the layout engine gets its structs from: the lines of the headers *)
(* loaded, analyzer/packDetection.ts and the structs and typedefs of       *)
(* analyzer/headerParser.ts.  A `#pragma pack` is in effect from its line  *)
(* to the end of its header; a struct takes the packing of the line its    *)
(* body starts on, or that of its attribute.                               *)
(***************************************************************************)
EXTENDS Layout

CONSTANTS
  Headers,   \* what may be loaded: headers one after the other
  Aliases    \* their typedefs, in order, none with the name of a struct

\* A line: a pragma, with its first argument and the numbers after it, a
\* struct, with or without the packed attribute, or the end of a header.
Pragma(head, numbers) == [line |-> "pragma", head |-> head, numbers |-> numbers]
Declaration(name, packed, fields) ==
  [line |-> "struct", name |-> name, packed |-> packed, fields |-> fields]
EndOfHeader == [line |-> "end"]

Heads == {"none", "pop", "push", "show", "number"}
Line ==
  {p \in [line : {"pragma"}, head : Heads, numbers : Seq(Nat)] :
     p.head = "number" => p.numbers # <<>>}
  \cup [line : {"struct"}, name : TypeNames, packed : BOOLEAN, fields : Seq(Field)]
  \cup {EndOfHeader}

ASSUME HeaderAssumption == Headers \subseteq Seq(Line) /\ Aliases \in Seq(Alias)

VARIABLE header

(***************************************************************************)
(* #pragma pack                                                            *)
(***************************************************************************)
\* Powers of two, 1..16.
IsPackValue(n) == n \in Aligns
Directive(kind, value) == [kind |-> kind, value |-> value]

\* scanPackPragmas: `()`, `(pop)`, `(push)`, `(push, ident, N)`, `(show)`, `(N)`.
DirectiveOf(pragma) ==
  LET usable == {i \in DOMAIN pragma.numbers : IsPackValue(pragma.numbers[i])}
      first  == CHOOSE i \in usable : \A j \in usable : i <= j
      value  == IF usable = {} THEN NoPack ELSE pragma.numbers[first]
  IN  CASE pragma.head = "none"   -> Directive("reset", NoPack)
        [] pragma.head = "pop"    -> Directive("pop", NoPack)
        [] pragma.head = "push"   -> Directive("push", value)
        [] pragma.head = "show"   -> Directive("show", NoPack)
        [] pragma.head = "number" ->
             IF IsPackValue(pragma.numbers[1])
             THEN Directive("set", pragma.numbers[1]) ELSE Directive("reset", NoPack)

\* Mutant: pop drops what was pushed instead of taking it up again.
EffectPopForgets(state, d) ==
  CASE d.kind = "set"   -> [state EXCEPT !.current = d.value]
    [] d.kind = "reset" -> [state EXCEPT !.current = NoPack]
    [] d.kind = "push"  ->
         [stack |-> Append(state.stack, state.current),
          current |-> IF d.value = NoPack THEN state.current ELSE d.value]
    [] d.kind = "pop"   ->
         IF state.stack = <<>> THEN [state EXCEPT !.current = NoPack]
         ELSE [state EXCEPT !.stack = SubSeq(state.stack, 1, Len(state.stack) - 1)]
    [] d.kind = "show"  -> state

\* One directive of the replay: the stack, and the packing in effect.
Effect(state, d) ==
  CASE d.kind = "set"   -> [state EXCEPT !.current = d.value]
    [] d.kind = "reset" -> [state EXCEPT !.current = NoPack]
    [] d.kind = "push"  ->
         [stack |-> Append(state.stack, state.current),
          current |-> IF d.value = NoPack THEN state.current ELSE d.value]
    [] d.kind = "pop"   ->
         IF state.stack = <<>> THEN [state EXCEPT !.current = NoPack]
         ELSE [stack |-> SubSeq(state.stack, 1, Len(state.stack) - 1),
               current |-> state.stack[Len(state.stack)]]
    [] d.kind = "show"  -> state

\* buildPackMap: the packing in effect at a line; each header starts afresh.
PackAt(lines, line) ==
  LET fresh == [stack |-> <<>>, current |-> NoPack]
      replay[i \in 0 .. line] ==
        IF i = 0 \/ lines[i].line = "end" THEN fresh
        ELSE IF lines[i].line = "pragma" THEN Effect(replay[i - 1], DirectiveOf(lines[i]))
        ELSE replay[i - 1]
  IN  replay[line].current

\* resolvePack: the attribute wins.
ResolvePack(packed, pragma) == IF packed THEN 1 ELSE pragma

(***************************************************************************)
(* parseHeader                                                             *)
(***************************************************************************)
StructLines(lines) == {i \in DOMAIN lines : lines[i].line = "struct"}
\* The first definition of a name is kept, in its header and across headers.
Kept(lines) ==
  {i \in StructLines(lines) :
     \A j \in StructLines(lines) : j < i => lines[j].name # lines[i].name}

ParseHeader(lines) ==
  LET parsed[i \in 0 .. Len(lines)] ==
        IF i = 0 THEN <<>>
        ELSE IF i \notin Kept(lines) THEN parsed[i - 1]
        ELSE Append(parsed[i - 1],
               [name |-> lines[i].name, fields |-> lines[i].fields,
                pack |-> ResolvePack(lines[i].packed, PackAt(lines, i))])
  IN  [structs |-> parsed[Len(lines)], aliases |-> Aliases]

\* The dictionaries are those the headers parse to.
ASSUME ParsedAssumption == TypeDicts = {ParseHeader(lines) : lines \in Headers}

HeaderInit == header \in Headers /\ InitFrom({ParseHeader(header)})

\* The parsed headers stay as they are while their structs are laid out.
Parsed == UNCHANGED header
HeaderNext ==
  \/ SkipEmpty /\ Parsed
  \/ StartStruct /\ Parsed
  \/ PlacePointer /\ Parsed
  \/ PlacePrimitive /\ Parsed
  \/ PlaceUnknown /\ Parsed
  \/ EnterNested /\ Parsed
  \/ LeaveNested /\ Parsed
  \/ FinishStruct /\ Parsed

HeaderSpec == HeaderInit /\ [][HeaderNext]_<<vars, header>> /\ WF_vars(HeaderNext)

(***************************************************************************)
(* Properties                                                              *)
(***************************************************************************)
Kind(lines, i) == IF lines[i].line = "pragma" THEN DirectiveOf(lines[i]).kind ELSE "none"
\* The lines of the same header up to this one.
Above(lines, line) ==
  {i \in 1 .. line : \A j \in i .. line : lines[j].line # "end"}
\* Pushes not popped yet after a line.
Depth(lines, line) ==
  Cardinality({i \in Above(lines, line) : Kind(lines, i) = "push"})
    - Cardinality({i \in Above(lines, line) : Kind(lines, i) = "pop"})
Balanced(lines) == \A i \in DOMAIN lines : Depth(lines, i) >= 0

\* Lines above whose value may hold at `line`: no pop in between has left
\* their scope.
InScope(lines, line) ==
  {i \in Above(lines, line) :
     /\ \/ Kind(lines, i) \in {"set", "reset"}
        \/ Kind(lines, i) = "push" /\ DirectiveOf(lines[i]).value # NoPack
     /\ \A j \in i .. line : Depth(lines, j) >= Depth(lines, i)}
InnermostPack(lines, line) ==
  IF InScope(lines, line) = {} THEN NoPack
  ELSE LET last == CHOOSE l \in InScope(lines, line) :
                     \A k \in InScope(lines, line) : k <= l
       IN  DirectiveOf(lines[last]).value

\* Each struct is packed as the innermost scope says at its line, however
\* pushes and pops nest: a packing does not leak behind the pop that ends it,
\* nor into the next header (buildPackMap, packDetection.ts).
PackScoped ==
  Balanced(header) =>
    \A i \in Kept(header) : \E s \in DOMAIN typeDict.structs :
      /\ typeDict.structs[s].name = header[i].name
      /\ typeDict.structs[s].pack =
           IF header[i].packed THEN 1 ELSE InnermostPack(header, i)
==============================================================================
