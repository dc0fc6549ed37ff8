------------------------------ MODULE Patterns ------------------------------
(***************************************************************************)
(* The two registries of patterns (analyzer/patternRegistry.ts and         *)
(* msgStructRegistry.ts, the same class twice), the handlers of App.tsx    *)
(* that change them and the form of PatternRegistry.tsx.                   *)
(*                                                                         *)
(* A registry is a map held outside of React; the list on screen is a copy *)
(* the handlers take of it, the entry in localStorage another one that     *)
(* every change writes, or fails to write without a word.                  *)
(***************************************************************************)
EXTENDS Naturals, FiniteSets, Sequences

CONSTANTS
  Pats,         \* what the user may type: records of a name and a regex
  ImportFiles,  \* the files that may be imported: per kind, a list
  Broken,       \* an element of such a file that is no object
  Structs,      \* structs of the applications' dictionaries
  SourceRefs,   \* the number of source files that mention a name
  Implied,      \* structs implied by parameters of messaging calls
  Candidates,   \* types of such parameters that are in no dictionary
  Primitives,
  FirstKept,    \* what localStorage may hold from an earlier session
  MaxIds,       \* bound: entries ever made
  NoId          \* the form is not editing an entry

Kinds == {"custom", "struct"}
Entry == [id : Nat, name : STRING, pattern : STRING]

ASSUME PatternsAssumption ==
  /\ Pats \subseteq [name : STRING, pattern : STRING]
  /\ \A file \in ImportFiles : /\ DOMAIN file \subseteq Kinds
                               /\ \A k \in DOMAIN file : file[k] \in Seq(Pats \cup {Broken})
  /\ FirstKept \subseteq [Kinds -> SUBSET Entry]
  /\ \A first \in FirstKept : \A k \in Kinds : IsFiniteSet(first[k])
  /\ \A k \in FirstKept :
       {e.id : e \in k["custom"] \cup k["struct"]}
         = 0 .. Cardinality(k["custom"]) + Cardinality(k["struct"]) - 1
  /\ IsFiniteSet(Structs \cup Implied \cup Candidates)
  /\ Structs \cup Implied \cup Candidates \subseteq STRING
  /\ Broken \notin Pats /\ NoId \notin Nat

VARIABLES
  registry,     \* per kind, the entries of the registry
  shown,        \* per kind, the entries on screen
  kept,         \* per kind, the entries in localStorage
  unsaved,      \* per kind, whether they changed since they were last written
  nextId,       \* identifiers handed out so far; the code draws them at random
  editing       \* the entry the form of PatternRegistry.tsx is editing

patternVars == <<registry, shown, kept, unsaved, nextId, editing>>

Names(entries) == {e.name : e \in entries}
New(i, pat) == [id |-> nextId + i, name |-> pat.name, pattern |-> pat.pattern]

(***************************************************************************)
(* The registry and its copies                                             *)
(***************************************************************************)
\* Writes everything, or leaves the entry as it was.
Save(kind, entries) ==
  \/ kept' = [kept EXCEPT ![kind] = entries] /\ unsaved' = [unsaved EXCEPT ![kind] = FALSE]
  \/ kept' = kept /\ unsaved' = [unsaved EXCEPT ![kind] = TRUE]

\* A handler that does not save.
BecomesUnsaved(kind, entries) ==
  /\ registry' = [registry EXCEPT ![kind] = entries]
  /\ UNCHANGED <<kept, unsaved>>
  /\ shown' = [shown EXCEPT ![kind] = entries]

\* A handler of App.tsx: the registry changes, is saved, and is shown.
Becomes(kind, entries) ==
  /\ registry' = [registry EXCEPT ![kind] = entries]
  /\ Save(kind, entries)
  /\ shown' = [shown EXCEPT ![kind] = entries]

Add(kind, pat) ==
  /\ nextId < MaxIds
  /\ Becomes(kind, registry[kind] \cup {New(0, pat)})
  /\ nextId' = nextId + 1

\* An entry removed in the meantime is not there to be updated.
Update(id, pat) ==
  /\ IF \E e \in registry["custom"] : e.id = id
     THEN Becomes("custom", {e \in registry["custom"] : e.id # id}
                            \cup {[id |-> id, name |-> pat.name, pattern |-> pat.pattern]})
     ELSE /\ shown' = [shown EXCEPT !["custom"] = registry["custom"]]
          /\ UNCHANGED <<registry, kept, unsaved>>
  /\ UNCHANGED nextId

\* The elements of a list an import takes in before it is through, or meets a
\* broken one: the first of each name that is not known yet.
Imported(kind, list, offset) ==
  LET upTo == {i \in DOMAIN list : \A j \in 1 .. i : list[j] # Broken}
      known == Names(registry[kind])
  IN  {New(offset + i, list[i]) : i \in {i \in upTo :
        list[i].name \notin known /\ \A j \in 1 .. i - 1 : list[j].name # list[i].name}}

Breaks(list) == \E i \in DOMAIN list : list[i] = Broken

\* A file has patterns of one kind, or of both and then the custom ones first.
\* A broken element throws: what was taken in is neither saved nor shown, and
\* the list after it is not reached.
ImportFile(file) ==
  LET Length(kind) == IF kind \in DOMAIN file THEN Len(file[kind]) ELSE 0
      reached == {k \in DOMAIN file : ("custom" \in DOMAIN file /\ Breaks(file["custom"])) => k = "custom"}
      done == {k \in reached : ~Breaks(file[k])}
      taken == [k \in Kinds |-> IF k \notin reached THEN {}
                                ELSE Imported(k, file[k], IF k = "custom" THEN 0 ELSE Length("custom"))]
  IN  /\ nextId + Length("custom") + Length("struct") < MaxIds
      /\ nextId' = nextId + Length("custom") + Length("struct") + 1
      /\ registry' = [k \in Kinds |-> registry[k] \cup taken[k]]
      /\ shown' = [k \in Kinds |-> IF k \in done THEN registry'[k] ELSE shown[k]]
      /\ \E ok \in [done -> BOOLEAN] :
           /\ kept' = [k \in Kinds |-> IF k \in done /\ ok[k] THEN registry'[k] ELSE kept[k]]
           /\ unsaved' = [k \in Kinds |-> IF k \in done THEN ~ok[k] ELSE unsaved[k] \/ taken[k] # {}]
      /\ UNCHANGED editing

(***************************************************************************)
(* The panels                                                              *)
(***************************************************************************)
EditPattern(e) ==
  /\ editing' = e.id
  /\ UNCHANGED <<registry, shown, kept, unsaved, nextId>>

\* Cancel, or an unknown call prefilled into the form.
LeaveEditing ==
  /\ editing # NoId
  /\ editing' = NoId
  /\ UNCHANGED <<registry, shown, kept, unsaved, nextId>>

SubmitPattern(pat) ==
  /\ IF editing = NoId THEN Add("custom", pat) ELSE Update(editing, pat)
  /\ editing' = NoId

RemovePattern(kind, e) ==
  /\ Becomes(kind, {x \in registry[kind] : x.id # e.id})
  /\ UNCHANGED <<nextId, editing>>

AddMsgStruct(pat) ==
  /\ Add("struct", pat)
  /\ UNCHANGED editing

ClearMsgStructs ==
  /\ shown["struct"] # {}
  /\ Becomes("struct", {})
  /\ UNCHANGED <<nextId, editing>>

(***************************************************************************)
(* Detection adds the structs several files share and those that messaging *)
(* calls take, one by one, unless a name is on screen already.             *)
(***************************************************************************)
Detectable ==
  {s \in Structs : SourceRefs[s] >= 2}
    \cup Implied
    \cup {t \in Candidates \ (Structs \cup Primitives) : SourceRefs[t] >= 1}

DetectMsgStructs ==
  LET names == Detectable \ Names(shown["struct"])
      After(subset) == registry["struct"] \cup subset
  IN  /\ names # {} /\ nextId + Cardinality(names) < MaxIds
      /\ \E number \in [names -> 1 .. Cardinality(names)] :
           /\ \A a, b \in names : a # b => number[a] # number[b]
           /\ LET added == {[id |-> nextId + number[n], name |-> n, pattern |-> n] : n \in names}
              IN  /\ registry' = [registry EXCEPT !["struct"] = After(added)]
                  /\ shown' = [shown EXCEPT !["struct"] = After(added)]
                  \* each addition is saved; the storage may fill up on the way
                  /\ \E saved \in 0 .. Cardinality(names) :
                       /\ kept' = [kept EXCEPT !["struct"] =
                                     IF saved = 0 THEN @ ELSE After({e \in added : e.id <= nextId + saved})]
                       /\ unsaved' = [unsaved EXCEPT !["struct"] = saved < Cardinality(names)]
      /\ nextId' = nextId + Cardinality(names) + 1
      /\ UNCHANGED editing

\* The part of handleClearSession that concerns the registries.
ClearPatterns ==
  /\ registry' = [k \in Kinds |-> {}]
  /\ shown' = [k \in Kinds |-> {}]
  /\ \E ok \in [Kinds -> BOOLEAN] :
       /\ kept' = [k \in Kinds |-> IF ok[k] THEN {} ELSE kept[k]]
       /\ unsaved' = [k \in Kinds |-> ~ok[k]]
  /\ UNCHANGED <<nextId, editing>>

\* A reload loads the registries from what was kept.
ReloadPatterns ==
  /\ registry' = kept
  /\ shown' = kept
  /\ unsaved' = [k \in Kinds |-> FALSE]
  /\ editing' = NoId
  /\ UNCHANGED <<kept, nextId>>

PatternsInit ==
  /\ kept \in FirstKept
  /\ registry = kept
  /\ shown = kept
  /\ unsaved = [k \in Kinds |-> FALSE]
  /\ nextId = Cardinality(kept["custom"]) + Cardinality(kept["struct"])
  /\ editing = NoId

PatternsUser ==
  \/ \E e \in shown["custom"] : EditPattern(e)
  \/ LeaveEditing
  \/ \E pat \in Pats : SubmitPattern(pat)
  \/ \E kind \in Kinds : \E e \in shown[kind] : RemovePattern(kind, e)
  \/ \E file \in ImportFiles : ImportFile(file)
  \/ \E pat \in Pats : AddMsgStruct(pat)
  \/ ClearMsgStructs
  \/ DetectMsgStructs
  \/ ClearPatterns

(***************************************************************************)
(* Whatever the handlers, imports that fail half-way and reloads do in     *)
(* turn: nothing is on screen that the analyses do not use, and unless a   *)
(* write was refused or an import broke off, screen, analyses and what a   *)
(* reload will bring back are the same (App.tsx 328-427).                  *)
(***************************************************************************)
StoredIsShown ==
  \A k \in Kinds : /\ shown[k] \subseteq registry[k]
                   /\ unsaved[k] \/ (kept[k] = shown[k] /\ shown[k] = registry[k])
=============================================================================
