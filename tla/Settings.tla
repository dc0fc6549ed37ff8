------------------------------ MODULE Settings ------------------------------
(***************************************************************************)
(* The settings of the language model: the panel LlmSettings.tsx, the      *)
(* configuration it keeps in localStorage (llm/config.ts), the list of     *)
(* models it fetches and the chain of probes of llm/diagnostics.ts.        *)
(*                                                                         *)
(* A request is outstanding between two actions; what an awaiting function *)
(* does with the answer, up to its next request, is one action, and works  *)
(* on the configuration its closure captured when it was started.  What    *)
(* the endpoint answers is external.                                       *)
(***************************************************************************)
EXTENDS Integers, Sequences, SequencesExt

CONSTANTS
  Urls,         \* what may be typed as endpoint
  Blank,        \* an empty text field
  DefaultUrl,
  Bare,         \* an endpoint without the spaces around it and then without the
                \* slashes at its end, Blank for slashes alone: [Urls -> Urls]
  Models,       \* identifiers of models
  Lengths,      \* context lengths a model may report; 0 is none
  ModelLists,   \* the lists of models the endpoint may answer with
  FirstStored,  \* what a tab may find in localStorage
  Sliders,      \* budgets the user may set by hand
  Refreshes,    \* bound: list requests outstanding at once
  Junk,         \* a stored value that no field takes
  NumberOf,     \* what the stored values that are no numbers but are read as
                \* one, a text of digits say, come to
  NoConfig,     \* no entry in localStorage; no panel on screen
  NoRequest,    \* a slot of Refreshes that is free
  NoReport      \* no report on screen

Budgets == {n \in Nat : 500 <= n /\ n <= 200000}

Config ==
  [enabled : BOOLEAN, baseUrl : Urls, model : Models \cup {Blank}, digestBudgetTokens : Budgets]

\* An entry written by another version, or by hand.
StoredEntry ==
  [enabled : BOOLEAN \cup {Junk}, baseUrl : Urls \cup {Junk},
   model : Models \cup {Blank, Junk}, digestBudgetTokens : Nat \cup DOMAIN NumberOf \cup {Junk}]

ModelInfo == [id : Models, maxModelLen : Lengths]

ASSUME SettingsAssumption ==
  /\ {Blank, DefaultUrl} \subseteq Urls /\ Blank \notin Models
  /\ Bare \in [Urls -> Urls] /\ Bare[DefaultUrl] = DefaultUrl
  /\ 0 \in Lengths /\ Lengths \subseteq Nat
  /\ ModelLists \subseteq Seq(ModelInfo)
  /\ NumberOf \in [DOMAIN NumberOf -> Nat] /\ DOMAIN NumberOf \cap Nat = {}
  /\ FirstStored \subseteq StoredEntry \cup {NoConfig}
  /\ Sliders \subseteq Budgets
  /\ NoConfig \notin StoredEntry /\ NoRequest \notin Config

VARIABLES
  config,      \* the panel's configuration; NoConfig while it is not on screen
  appConfig,   \* llmConfig of App.tsx
  stored,      \* the entry in localStorage
  refused,     \* whether the last write of it was refused
  models,      \* the models the panel offers
  refreshes,   \* the configuration each list request was started from
  probe,       \* the run of the probes: what it waits for and what it has
  liveResults, \* its results on screen while it runs
  report       \* its report on screen

settingsVars ==
  <<config, appConfig, stored, refused, models, refreshes, probe, liveResults, report>>

(***************************************************************************)
(* The configuration in the browser                                        *)
(***************************************************************************)
DEFAULT_LLM_CONFIG ==
  [enabled |-> FALSE, baseUrl |-> DefaultUrl, model |-> Blank, digestBudgetTokens |-> 32000]

\* Clamped at the top only.
ClampTop(n, low, high) == IF n > high THEN high ELSE n

Clamp(n, low, high) == IF n < low THEN low ELSE IF n > high THEN high ELSE n

\* A quarter of the window, at least 2000 tokens and at most the default.
budgetForContext(length) ==
  Clamp(length \div 4, 2000, DEFAULT_LLM_CONFIG.digestBudgetTokens)

normalizeConfig(o) ==
  LET d == DEFAULT_LLM_CONFIG
      Or(key, domain) == IF o[key] \in domain THEN o[key] ELSE d[key]
      url == Or("baseUrl", Urls)
      stated == o.digestBudgetTokens
      budget == IF stated \in DOMAIN NumberOf THEN NumberOf[stated] ELSE Or("digestBudgetTokens", Nat)
  IN  [enabled |-> Or("enabled", BOOLEAN),
       baseUrl |-> IF url = Blank THEN DefaultUrl ELSE Bare[url],
       model |-> Or("model", Models \cup {Blank}),
       digestBudgetTokens |-> Clamp(budget, 500, 200000)]

loadLlmConfig == IF stored = NoConfig THEN DEFAULT_LLM_CONFIG ELSE normalizeConfig(stored)

\* Written, or refused without a word.
saveLlmConfig(c) ==
  \/ stored' = c /\ refused' = FALSE
  \/ stored' = stored /\ refused' = TRUE

(***************************************************************************)
(* The panel                                                               *)
(***************************************************************************)
\* Without telling App.tsx.
ReplaceSilently(next) ==
  /\ config' = next
  /\ saveLlmConfig(next)
  /\ UNCHANGED appConfig

Replace(next) ==
  /\ config' = next
  /\ saveLlmConfig(next)
  /\ appConfig' = next

OnScreen == config # NoConfig
Editable == OnScreen /\ config.enabled
RequestsKept == UNCHANGED <<models, refreshes, probe, liveResults, report>>

SetEnabled ==
  /\ OnScreen
  /\ Replace([config EXCEPT !.enabled = ~@])
  /\ RequestsKept

SetBaseUrl(url) ==
  /\ Editable /\ url # config.baseUrl
  /\ Replace([config EXCEPT !.baseUrl = url])
  /\ RequestsKept

\* The budget that comes with a model, where the endpoint reported its window.
WithModel(c, info) ==
  [c EXCEPT !.model = info.id,
            !.digestBudgetTokens = IF info.maxModelLen > 0 THEN budgetForContext(info.maxModelLen) ELSE @]

ChooseModel(i) ==
  /\ Editable /\ i \in DOMAIN models
  /\ Replace(WithModel(config, models[i]))
  /\ RequestsKept

\* With no list there is a text field instead.
TypeModel(id) ==
  /\ Editable /\ models = <<>> /\ id # config.model
  /\ Replace([config EXCEPT !.model = id])
  /\ RequestsKept

SetBudget(tokens) ==
  /\ Editable /\ tokens # config.digestBudgetTokens
  /\ Replace([config EXCEPT !.digestBudgetTokens = tokens])
  /\ RequestsKept

ResetToDefaults ==
  /\ Editable
  /\ Replace([DEFAULT_LLM_CONFIG EXCEPT !.enabled = TRUE])
  /\ report' = NoReport
  /\ liveResults' = <<>>
  /\ UNCHANGED <<models, refreshes, probe>>

(***************************************************************************)
(* The list of models                                                      *)
(***************************************************************************)
RefreshModels(r) ==
  /\ Editable /\ refreshes[r] = NoRequest
  /\ refreshes' = [refreshes EXCEPT ![r] = config]
  /\ UNCHANGED <<config, appConfig, stored, refused, models, probe, liveResults, report>>

\* The first model is taken over if none was chosen when the list was asked for.
ModelsArrive(r, found) ==
  /\ refreshes[r] # NoRequest
  /\ refreshes' = [refreshes EXCEPT ![r] = NoRequest]
  /\ models' = found
  /\ IF found # <<>> /\ refreshes[r].model = Blank
     THEN Replace(WithModel(config, found[1]))
     ELSE UNCHANGED <<config, appConfig, stored, refused>>
  /\ UNCHANGED <<probe, liveResults, report>>

ModelsFail(r) ==
  /\ refreshes[r] # NoRequest
  /\ refreshes' = [refreshes EXCEPT ![r] = NoRequest]
  /\ models' = <<>>
  /\ UNCHANGED <<config, appConfig, stored, refused, probe, liveResults, report>>

(***************************************************************************)
(* The probes                                                              *)
(***************************************************************************)
Status == {"pass", "fail", "warn", "skipped"}
DEPENDENT_PROBES == <<"completion", "reasoning", "streaming", "tools", "schema">>
Probes == <<"models">> \o DEPENDENT_PROBES
Result(id, status) == [id |-> id, status |-> status]

Requests == {"models", "completion", "streaming", "tools", "schema"}
Idle == [waiting |-> "idle", config |-> NoConfig, results |-> <<>>, models |-> <<>>, maxModelLen |-> 0]
Probing == probe.waiting \in Requests

\* The results of a run and, as they come, on screen; then its next request.
Emit(results, next) ==
  /\ probe' = [probe EXCEPT !.results = @ \o results, !.waiting = next]
  /\ liveResults' = liveResults \o results
  /\ UNCHANGED <<config, appConfig, stored, refused, models, refreshes, report>>

Skipped == [i \in DOMAIN DEPENDENT_PROBES |-> Result(DEPENDENT_PROBES[i], "skipped")]
LastPassed(results) == results[Len(results)].status # "fail"
NoFailure(results) == \A i \in DOMAIN results : results[i].status # "fail"

\* The run is over: its report replaces what was shown, its models those offered.
Report(results, found, length, ok) ==
  /\ probe' = Idle
  /\ liveResults' = liveResults \o SubSeq(results, Len(probe.results) + 1, Len(results))
  /\ report' = [results |-> results, maxModelLen |-> length, ok |-> ok]
  /\ models' = found
  /\ UNCHANGED <<config, appConfig, stored, refused, refreshes>>

RunProbes ==
  /\ Editable /\ ~Probing
  /\ probe' = [Idle EXCEPT !.waiting = "models", !.config = config]
  /\ liveResults' = <<>>
  /\ report' = NoReport
  /\ UNCHANGED <<config, appConfig, stored, refused, models, refreshes>>

ProbeUnreachable ==
  /\ probe.waiting = "models"
  /\ Report(<<Result("models", "fail")>> \o Skipped, <<>>, 0, FALSE)

ProbeNoModels ==
  /\ probe.waiting = "models"
  /\ Report(<<Result("models", "pass")>> \o Skipped, <<>>, 0, FALSE)

\* The model asked about is the chosen one, if it is served, or the first.
Selected(found, id) ==
  LET Named == {i \in DOMAIN found : found[i].id = id}
  IN  IF Named = {} THEN found[1] ELSE found[CHOOSE i \in Named : \A j \in Named : i <= j]

ProbeModels(found) ==
  /\ probe.waiting = "models" /\ found # <<>>
  /\ probe' = [probe EXCEPT !.results = <<Result("models", "pass")>>, !.waiting = "completion",
                            !.models = found,
                            !.maxModelLen = Selected(found, probe.config.model).maxModelLen]
  /\ liveResults' = Append(liveResults, Result("models", "pass"))
  /\ UNCHANGED <<config, appConfig, stored, refused, models, refreshes, report>>

\* The reasoning split is read off the same answer.
ProbeCompletion(reasoning) ==
  /\ probe.waiting = "completion"
  /\ Emit(<<Result("completion", "pass"), Result("reasoning", IF reasoning THEN "pass" ELSE "warn")>>,
          "streaming")

ProbeCompletionFails ==
  /\ probe.waiting = "completion"
  /\ Emit(<<Result("completion", "fail"), Result("reasoning", "skipped")>>, "streaming")

\* An answer in one lump was buffered on the way.
ProbeStreaming(chunks) ==
  /\ probe.waiting = "streaming"
  /\ Emit(<<Result("streaming", IF chunks > 1 THEN "pass" ELSE "warn")>>, "tools")

ProbeStreamingFails ==
  /\ probe.waiting = "streaming"
  /\ Emit(<<Result("streaming", "fail")>>, "tools")

\* Passes when the tool was called with arguments that parse.
ProbeTools(called) ==
  /\ probe.waiting = "tools"
  /\ Emit(<<Result("tools", IF called THEN "pass" ELSE "fail")>>, "schema")

\* Reports the runs without a failure only.
ProbeSchemaIfOk(valid) ==
  /\ probe.waiting = "schema"
  /\ LET results == Append(probe.results, Result("schema", IF valid THEN "pass" ELSE "fail"))
     IN  NoFailure(results) /\ Report(results, probe.models, probe.maxModelLen, TRUE)

ProbeSchema(valid) ==
  /\ probe.waiting = "schema"
  /\ LET results == Append(probe.results, Result("schema", IF valid THEN "pass" ELSE "fail"))
     IN  Report(results, probe.models, probe.maxModelLen, NoFailure(results))

TakeSuggestedBudget ==
  /\ Editable /\ report # NoReport /\ report.maxModelLen > 0
  /\ budgetForContext(report.maxModelLen) # config.digestBudgetTokens
  /\ Replace([config EXCEPT !.digestBudgetTokens = budgetForContext(report.maxModelLen)])
  /\ RequestsKept

(***************************************************************************)
(* The panel comes and goes with the view it is part of.                   *)
(***************************************************************************)
Fresh ==
  /\ models' = <<>>
  /\ refreshes' = [r \in Refreshes |-> NoRequest]
  /\ probe' = Idle
  /\ liveResults' = <<>>
  /\ report' = NoReport

\* The probes are aborted; a late list of models finds no panel to write to.
LeaveSettings ==
  /\ OnScreen
  /\ config' = NoConfig
  /\ Fresh
  /\ UNCHANGED <<appConfig, stored, refused>>

OpenSettings ==
  /\ ~OnScreen
  /\ config' = loadLlmConfig
  /\ UNCHANGED <<appConfig, stored, refused, models, refreshes, probe, liveResults, report>>

\* A crash, a reload, or closing the tab and opening it again.
ReloadSettings ==
  /\ config' = loadLlmConfig
  /\ appConfig' = loadLlmConfig
  /\ Fresh
  /\ UNCHANGED <<stored, refused>>

SettingsInit ==
  /\ stored \in FirstStored
  /\ refused = FALSE
  /\ config = loadLlmConfig
  /\ appConfig = loadLlmConfig
  /\ models = <<>>
  /\ refreshes = [r \in Refreshes |-> NoRequest]
  /\ probe = Idle
  /\ liveResults = <<>>
  /\ report = NoReport

SettingsUser ==
  \/ SetEnabled
  \/ \E url \in Urls : SetBaseUrl(url)
  \/ \E i \in DOMAIN models : ChooseModel(i)
  \/ \E id \in Models \cup {Blank} : TypeModel(id)
  \/ \E tokens \in Sliders : SetBudget(tokens)
  \/ ResetToDefaults
  \/ \E r \in Refreshes : RefreshModels(r)
  \/ RunProbes
  \/ TakeSuggestedBudget
  \/ LeaveSettings
  \/ OpenSettings

ListSettles(r) == (\E found \in ModelLists : ModelsArrive(r, found)) \/ ModelsFail(r)
ProbeSettles ==
  \/ ProbeUnreachable
  \/ ProbeNoModels
  \/ \E found \in ModelLists : ProbeModels(found)
  \/ \E reasoning \in BOOLEAN : ProbeCompletion(reasoning)
  \/ ProbeCompletionFails
  \/ \E chunks \in 0 .. 2 : ProbeStreaming(chunks)
  \/ ProbeStreamingFails
  \/ \E called \in BOOLEAN : ProbeTools(called)
  \/ \E valid \in BOOLEAN : ProbeSchema(valid)

(***************************************************************************)
(* What the settings promise                                               *)
(***************************************************************************)
\* The endpoint stored is one that reading it mends by half: slashes alone, or
\* a space before them (config.ts:76-78).  Reading what was read gives another.
MendedByHalf ==
  stored # NoConfig /\ normalizeConfig(loadLlmConfig) # loadLlmConfig

\* The settings exist three times (LlmSettings.tsx:50-55): in the panel, in
\* App.tsx, which shows and hides the assistant by them, and in localStorage,
\* which the other panels read.  They agree wherever they are used, unless a
\* write was refused or the endpoint stored is mended by half.
CopiesAgree ==
  refused \/ MendedByHalf \/
          /\ loadLlmConfig = (IF stored = NoConfig THEN appConfig ELSE normalizeConfig(appConfig))
          /\ OnScreen => normalizeConfig(config) = loadLlmConfig

\* An endpoint that is reported usable was asked for everything the assistant
\* needs in that run, in order, and failed at nothing; and no report leaves a
\* probe out (diagnostics.ts:41, 137-378).
UsableMeansProbed ==
  report # NoReport =>
    /\ [i \in DOMAIN report.results |-> report.results[i].id] = Probes
    /\ report.ok => \A i \in DOMAIN report.results : report.results[i].status \in {"pass", "warn"}
    /\ \E n \in 0 .. Len(report.results) : liveResults = SubSeq(report.results, n + 1, Len(report.results))
=============================================================================
