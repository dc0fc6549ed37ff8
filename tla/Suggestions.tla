----------------------------- MODULE Suggestions -----------------------------
(***************************************************************************)
(* The panels that share the language model and the patterns: settings and *)
(* probes (Settings), the registries (Patterns), and between them the      *)
(* panel PatternSuggestions.tsx with llm/suggest.ts, which asks the model  *)
(* for patterns and adds those the user accepts.                           *)
(*                                                                         *)
(* A run of suggestions works on what its closure captured: the patterns   *)
(* of the render it was started from.  The panel is on screen while the    *)
(* assistant is enabled; leaving the screen aborts its run.                *)
(***************************************************************************)
EXTENDS Settings, Patterns

CONSTANTS
  Proposals,      \* what the model may propose: a pattern, whether it is a
                  \* usable regex, and the lines of the loaded sources it matches
  ProposalLists,  \* the sets of them it may answer with
  MaxActions      \* bound: actions of the user

ASSUME SuggestionsAssumption ==
  /\ Proposals \subseteq [pat : Pats, usable : BOOLEAN, matches : Nat]
  /\ ProposalLists \subseteq SUBSET Proposals
  /\ MaxActions \in Nat

VARIABLES
  run,       \* the run in flight: whether there is one, the patterns it captured
  accepted,  \* the proposals on screen that passed; NoReport before there are any
  added,     \* the names marked as added
  actions    \* actions of the user so far

suggestVars == <<run, accepted, added>>
vars == <<settingsVars, patternVars, suggestVars, actions>>

NoRun == [running |-> FALSE, existing |-> {}]
Mounted == OnScreen /\ appConfig.enabled
Visible == Mounted /\ loadLlmConfig.enabled

\* Proposals that are patterns, match a line, and are not registered already.
verifySuggestion(p, existing) ==
  /\ p.usable /\ p.matches > 0
  /\ \A e \in existing : e.pattern # p.pat.pattern

(***************************************************************************)
(* A run                                                                   *)
(***************************************************************************)
Suggest ==
  /\ Visible /\ ~run.running
  /\ accepted' = NoReport
  /\ added' = {}
  /\ IF loadLlmConfig.model = Blank
     THEN UNCHANGED run
     ELSE run' = [running |-> TRUE, existing |-> shown["custom"]]
  /\ UNCHANGED <<settingsVars, patternVars>>

SuggestionsArrive(proposed) ==
  /\ run.running
  /\ run' = NoRun
  /\ accepted' = {p \in proposed : verifySuggestion(p, run.existing)}
  /\ UNCHANGED <<settingsVars, patternVars, added>>

\* Stopped, timed out, refused, or not the JSON that was asked for.
SuggestFails ==
  /\ run.running
  /\ run' = NoRun
  /\ UNCHANGED <<settingsVars, patternVars, accepted, added>>

Accept(p) ==
  /\ Visible /\ p.pat.name \notin added
  /\ Add("custom", p.pat)
  /\ added' = added \cup {p.pat.name}
  /\ UNCHANGED <<settingsVars, editing, run, accepted>>

\* What leaves the screen forgets what it had, and aborts what it waited for.
SuggestionsFollow ==
  IF OnScreen' /\ appConfig'.enabled
  THEN UNCHANGED suggestVars
  ELSE run' = NoRun /\ accepted' = NoReport /\ added' = {}

FormFollows == editing' = IF OnScreen' THEN editing ELSE NoId

(***************************************************************************)
(* The panels together                                                     *)
(***************************************************************************)
Init ==
  /\ SettingsInit
  /\ PatternsInit
  /\ run = NoRun /\ accepted = NoReport /\ added = {}
  /\ actions = 0

SettingsStep(step) ==
  /\ step
  /\ SuggestionsFollow
  /\ FormFollows
  /\ UNCHANGED <<registry, shown, kept, unsaved, nextId>>

User ==
  /\ actions < MaxActions
  /\ actions' = actions + 1
  /\ \/ SettingsStep(SettingsUser)
     \/ OnScreen /\ PatternsUser /\ UNCHANGED <<settingsVars, suggestVars>>
     \/ Suggest
     \/ accepted # NoReport /\ \E p \in accepted : Accept(p)

ListAnswers(r) == SettingsStep(ListSettles(r)) /\ UNCHANGED actions
ProbeAnswers == SettingsStep(ProbeSettles) /\ UNCHANGED actions
SuggestAnswers ==
  /\ (\E proposed \in ProposalLists : SuggestionsArrive(proposed)) \/ SuggestFails
  /\ UNCHANGED actions

Reload ==
  /\ actions < MaxActions
  /\ actions' = actions + 1
  /\ ReloadSettings
  /\ ReloadPatterns
  /\ run' = NoRun /\ accepted' = NoReport /\ added' = {}

Next ==
  \/ User
  \/ \E r \in Refreshes : ListAnswers(r)
  \/ ProbeAnswers
  \/ SuggestAnswers
  \/ Reload

Spec == Init /\ [][Next]_vars

\* Every request has a time limit (llm/client.ts 50-65), so it settles.
FairSpec ==
  /\ Spec
  /\ \A r \in Refreshes : WF_vars(ListAnswers(r))
  /\ WF_vars(ProbeAnswers)
  /\ WF_vars(SuggestAnswers)
-----------------------------------------------------------------------------
(***************************************************************************)
(* What the panels promise                                                 *)
(***************************************************************************)
\* The variables hold values of their types; a configuration in use is one
\* that makes a valid request, whatever was in localStorage before.
TypeOK ==
  /\ config \in Config \cup {NoConfig} /\ appConfig \in Config
  /\ refreshes \in [Refreshes -> Config \cup {NoRequest}]
  /\ Probing => probe.config \in Config /\ probe.config.enabled
  /\ \A k \in Kinds : registry[k] \cup kept[k] \subseteq Entry
  /\ run.running => run.existing \subseteq Entry
  /\ actions \in 0 .. MaxActions

\* A list, a run of the probes and a run of suggestions that were begun end,
\* whatever the endpoint does and the user does meanwhile.
RequestsSettle ==
  /\ \A r \in Refreshes : refreshes[r] # NoRequest ~> refreshes[r] = NoRequest
  /\ Probing ~> ~Probing
  /\ run.running ~> ~run.running

(***************************************************************************)
(* The master switch: "When false nothing in `src/llm` issues a request"   *)
(* (config.ts:10).                                                         *)
(***************************************************************************)
BeginsRequest ==
  \/ \E r \in Refreshes : refreshes'[r] \notin {NoRequest, refreshes[r]}
  \/ probe'.waiting \in Requests /\ probe'.waiting # probe.waiting
  \/ run'.running /\ ~run.running

OffMeansSilent == [][BeginsRequest => appConfig.enabled]_vars
=============================================================================
