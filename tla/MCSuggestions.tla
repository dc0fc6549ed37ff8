---------------------------- MODULE MCSuggestions ----------------------------
(***************************************************************************)
(* Small instances of the panels.                                          *)
(***************************************************************************)
EXTENDS Suggestions

CONSTANTS typed, bare, slashes, m1, m2, digits

MCUrls == {DefaultUrl, typed, bare, slashes, Blank}
MCBare == [u \in MCUrls |-> CASE u = typed -> bare [] u = slashes -> Blank [] OTHER -> u]
MCModelLists ==
  {<<>>, <<[id |-> m1, maxModelLen |-> 40000], [id |-> m2, maxModelLen |-> 0]>>}

\* Nothing stored, and an entry with a field of each kind that must be mended.
MCFirstStored ==
  {NoConfig,
   [enabled |-> TRUE, baseUrl |-> typed, model |-> Junk, digestBudgetTokens |-> digits]}
MCNumberOf == [t \in {digits} |-> 100]

A == [name |-> "a", pattern |-> "a"]
B == [name |-> "b", pattern |-> "b"]
C == [name |-> "c", pattern |-> "c"]
MCPats == {A, B, C}
MCImportFiles ==
  {[custom |-> <<A, B, B>>], [struct |-> <<B, Broken>>],
   [custom |-> <<C>>, struct |-> <<A>>], [custom |-> <<B, Broken, C>>, struct |-> <<A>>]}
MCFirstKept == {[custom |-> {[id |-> 0, name |-> "a", pattern |-> "a"]}, struct |-> {}]}
MCSourceRefs == [n \in {"s", "t", "int"} |-> IF n = "s" THEN 2 ELSE 1]
MCProposals ==
  {[pat |-> A, usable |-> TRUE, matches |-> 1], [pat |-> B, usable |-> TRUE, matches |-> 1],
   [pat |-> C, usable |-> TRUE, matches |-> 0]}
MCProposalLists == {MCProposals}
==============================================================================
