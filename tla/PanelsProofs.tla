----------------------------- MODULE PanelsProofs -----------------------------
(***************************************************************************)
(* Theorems about the panels together, for any endpoints, models, patterns *)
(* and proposals, any number of outstanding requests and any number of     *)
(* actions: the settings and the registries keep their own invariants      *)
(* (the first parts below), and a run of suggestions only ever adds        *)
(* patterns the way the user does.                                         *)
(***************************************************************************)
EXTENDS Suggestions, SequenceTheorems, FiniteSetTheorems, WellFoundedInduction, TLAPS

(***************************************************************************)
(* What holds of the copies of the configuration, of the lists of models   *)
(* and of the run of the probes                                            *)
(***************************************************************************)
ConfigInv ==
  /\ config \in Config \cup {NoConfig}
  /\ appConfig \in Config
  /\ stored \in StoredEntry \cup {NoConfig}
  /\ CopiesAgree

ListInv ==
  /\ models \in Seq(ModelInfo)
  /\ refreshes \in [Refreshes -> Config \cup {NoRequest}]
  /\ \A r \in Refreshes : refreshes[r] # NoRequest => OnScreen

ProbeIds == {"models", "completion", "reasoning", "streaming", "tools", "schema"}
ProbeResult == [id : ProbeIds, status : Status]

ProbeState ==
  [waiting : Requests \cup {"idle"}, config : Config \cup {NoConfig},
   results : Seq(ProbeResult), models : Seq(ModelInfo), maxModelLen : Nat]

\* How many probes have been answered when a run waits for this one.
Answered ==
  [models |-> 0, completion |-> 1, streaming |-> 3, tools |-> 4, schema |-> 5]

InOrder(results) == \A i \in 1 .. Len(results) : results[i].id = Probes[i]
AllFine(results) == \A i \in DOMAIN results : results[i].status \in {"pass", "warn"}
LastOf(results, shownResults) ==
  \E n \in 0 .. Len(results) : shownResults = SubSeq(results, n + 1, Len(results))

\* A run has the results of the probes before the one it waits for, and on
\* screen are the last of them; a probe was skipped only after a failure.
RunInv ==
  /\ probe \in ProbeState
  /\ Probing =>
       /\ probe.config \in Config /\ probe.config.enabled
       /\ Len(probe.results) = Answered[probe.waiting]
       /\ InOrder(probe.results)
       /\ NoFailure(probe.results) => AllFine(probe.results)
       /\ LastOf(probe.results, liveResults)
       /\ report = NoReport

ReportInv ==
  /\ report # NoReport => report.maxModelLen \in Nat
  /\ UsableMeansProbed

SettingsInv == ConfigInv /\ ListInv /\ RunInv /\ ReportInv

(***************************************************************************)
(* Configurations                                                          *)
(***************************************************************************)
LEMMA BudgetsAreNumbers == Budgets \subseteq Nat
BY SMT DEF Budgets

LEMMA ConfigIsEntry == Config \subseteq StoredEntry /\ NoConfig \notin Config
BY SettingsAssumption, BudgetsAreNumbers DEF Config, StoredEntry

LEMMA DefaultBudget == DEFAULT_LLM_CONFIG.digestBudgetTokens \in Budgets
BY SMT DEF DEFAULT_LLM_CONFIG, Budgets

\* A budget is brought into the range.
LEMMA ClampType ==
  ASSUME NEW n \in Nat
  PROVE  Clamp(n, 500, 200000) \in Budgets
BY SMT DEF Clamp, Budgets

LEMMA ClampStable ==
  ASSUME NEW n \in Budgets
  PROVE  Clamp(n, 500, 200000) = n
BY SMT DEF Clamp, Budgets

LEMMA DefaultType == DEFAULT_LLM_CONFIG \in Config
BY SMT, SettingsAssumption, DefaultBudget DEF DEFAULT_LLM_CONFIG, Config

\* Whatever was stored, what is read makes a valid request.
LEMMA NormalizeType ==
  ASSUME NEW o \in StoredEntry
  PROVE  normalizeConfig(o) \in Config
<1>. DEFINE d == DEFAULT_LLM_CONFIG
            Or(key, domain) == IF o[key] \in domain THEN o[key] ELSE d[key]
            url == Or("baseUrl", Urls)
            stated == IF o.digestBudgetTokens \in DOMAIN NumberOf THEN NumberOf[o.digestBudgetTokens]
                                                                ELSE Or("digestBudgetTokens", Nat)
<1>1. d.enabled \in BOOLEAN /\ d.baseUrl \in Urls /\ d.model \in Models \cup {Blank} /\ d.digestBudgetTokens \in Nat
  BY DefaultType, BudgetsAreNumbers DEF Config
<1>2. Or("enabled", BOOLEAN) \in BOOLEAN
  BY <1>1
<1>3. (IF url = Blank THEN DefaultUrl ELSE Bare[url]) \in Urls
  BY <1>1, SettingsAssumption
<1>4. Or("model", Models \cup {Blank}) \in Models \cup {Blank}
  BY <1>1
<1>5. stated \in Nat
  BY <1>1, SettingsAssumption
<1>. HIDE DEF Or
<1>. DEFINE budget == Clamp(stated, 500, 200000)
<1>6. budget \in Budgets
  BY <1>5, ClampType
<1>7. normalizeConfig(o) =
        [enabled |-> Or("enabled", BOOLEAN),
         baseUrl |-> IF url = Blank THEN DefaultUrl ELSE Bare[url],
         model |-> Or("model", Models \cup {Blank}),
         digestBudgetTokens |-> budget]
  BY SMT DEF normalizeConfig, Or
<1>. HIDE DEF budget, url
<1>. QED
  BY <1>2, <1>3, <1>4, <1>6, <1>7 DEF Config

\* The defaults are stable.
LEMMA DefaultStable == normalizeConfig(DEFAULT_LLM_CONFIG) = DEFAULT_LLM_CONFIG
<1>. DEFINE d == DEFAULT_LLM_CONFIG
<1>1. Clamp(d.digestBudgetTokens, 500, 200000) = d.digestBudgetTokens
  BY SMT, DefaultBudget, ClampStable
<1>2. d.digestBudgetTokens \in Nat /\ d.digestBudgetTokens \notin DOMAIN NumberOf
  BY DefaultBudget, BudgetsAreNumbers, SettingsAssumption
<1>3. /\ d.enabled \in BOOLEAN /\ d.baseUrl = DefaultUrl /\ d.model = Blank
      /\ d = [enabled |-> d.enabled, baseUrl |-> d.baseUrl, model |-> d.model,
              digestBudgetTokens |-> d.digestBudgetTokens]
  BY SMT DEF DEFAULT_LLM_CONFIG
<1>. DEFINE budget == Clamp(d.digestBudgetTokens, 500, 200000)
<1>4. normalizeConfig(d) =
        [enabled |-> d.enabled,
         baseUrl |-> IF d.baseUrl = Blank THEN DefaultUrl ELSE Bare[d.baseUrl],
         model |-> d.model,
         digestBudgetTokens |-> budget]
  BY SMT, <1>2, <1>3, SettingsAssumption DEF normalizeConfig
<1>. HIDE DEF d, budget
<1>. QED
  BY <1>1, <1>3, <1>4, SettingsAssumption DEF d, budget

LEMMA LoadType ==
  ASSUME stored \in StoredEntry \cup {NoConfig}
  PROVE  loadLlmConfig \in Config
BY DefaultType, NormalizeType DEF loadLlmConfig

\* The budgets set with a model are within the range of the slider.
LEMMA BudgetType ==
  ASSUME NEW n \in Nat
  PROVE  budgetForContext(n) \in Budgets
BY SMT DEF Budgets, budgetForContext, Clamp, DEFAULT_LLM_CONFIG

LEMMA WithModelType ==
  ASSUME NEW c \in Config, NEW info \in ModelInfo
  PROVE  WithModel(c, info) \in Config
<1>1. info.id \in Models /\ info.maxModelLen \in Nat
  BY SettingsAssumption DEF ModelInfo
<1>2. (IF info.maxModelLen > 0 THEN budgetForContext(info.maxModelLen) ELSE c.digestBudgetTokens) \in Budgets
  BY <1>1, BudgetType DEF Config
<1>. QED
  BY <1>1, <1>2 DEF WithModel, Config

\* Replacing the configuration everywhere makes the copies agree.
LEMMA ReplaceKeeps ==
  ASSUME ConfigInv, NEW next \in Config, Replace(next)
  PROVE  ConfigInv' /\ OnScreen'
<1>1. config' = next /\ appConfig' = next
  BY DEF Replace
<1>2. OnScreen'
  BY <1>1, ConfigIsEntry DEF OnScreen
<1>3. CASE stored' = next /\ refused' = FALSE
  <2>1. stored' # NoConfig /\ stored' \in StoredEntry
    BY <1>3, ConfigIsEntry
  <2>2. loadLlmConfig' = normalizeConfig(next)
    BY <1>3, <2>1 DEF loadLlmConfig
  <2>3. CopiesAgree'
    BY <1>1, <2>1, <2>2 DEF CopiesAgree
  <2>. QED
    BY <1>1, <1>2, <2>1, <2>3 DEF ConfigInv, OnScreen
<1>4. CASE stored' = stored /\ refused' = TRUE
  <2>1. CopiesAgree'
    BY <1>4 DEF CopiesAgree
  <2>. QED
    BY <1>1, <1>2, <1>4, <2>1 DEF ConfigInv, OnScreen
<1>. QED
  BY <1>3, <1>4 DEF Replace, saveLlmConfig

LEMMA ConfigUnchanged ==
  ASSUME ConfigInv, UNCHANGED <<config, appConfig, stored, refused>>
  PROVE  ConfigInv' /\ (OnScreen' <=> OnScreen)
BY DEF ConfigInv, CopiesAgree, MendedByHalf, OnScreen, loadLlmConfig

(***************************************************************************)
(* The panel                                                               *)
(***************************************************************************)
\* Every change the user makes in the panel takes a configuration to one.
LEMMA EditsKeep ==
  ASSUME ConfigInv, ListInv, ReportInv,
         \/ SetEnabled
         \/ \E url \in Urls : SetBaseUrl(url)
         \/ \E i \in DOMAIN models : ChooseModel(i)
         \/ \E id \in Models \cup {Blank} : TypeModel(id)
         \/ \E tokens \in Sliders : SetBudget(tokens)
         \/ TakeSuggestedBudget
  PROVE  ConfigInv' /\ OnScreen' /\ RequestsKept
<1>1. \A next \in Config : Replace(next) => ConfigInv' /\ OnScreen'
  BY ReplaceKeeps
<1>2. OnScreen => config \in Config
  BY DEF ConfigInv, OnScreen
<1>3. CASE SetEnabled
  <2>1. [config EXCEPT !.enabled = ~@] \in Config
    BY <1>2, <1>3 DEF SetEnabled, Config
  <2>. QED
    BY <1>1, <1>3, <2>1 DEF SetEnabled
<1>4. CASE \E url \in Urls : SetBaseUrl(url)
  <2>1. PICK url \in Urls : SetBaseUrl(url)
    BY <1>4
  <2>2. [config EXCEPT !.baseUrl = url] \in Config
    BY <1>2, <2>1 DEF SetBaseUrl, Editable, Config
  <2>. QED
    BY <1>1, <2>1, <2>2 DEF SetBaseUrl
<1>5. CASE \E i \in DOMAIN models : ChooseModel(i)
  <2>1. PICK i \in DOMAIN models : ChooseModel(i)
    BY <1>5
  <2>2. models[i] \in ModelInfo
    BY <2>1 DEF ListInv
  <2>3. WithModel(config, models[i]) \in Config
    BY <1>2, <2>1, <2>2, WithModelType DEF ChooseModel, Editable
  <2>. QED
    BY <1>1, <2>1, <2>3 DEF ChooseModel
<1>6. CASE \E id \in Models \cup {Blank} : TypeModel(id)
  <2>1. PICK id \in Models \cup {Blank} : TypeModel(id)
    BY <1>6
  <2>2. [config EXCEPT !.model = id] \in Config
    BY <1>2, <2>1 DEF TypeModel, Editable, Config
  <2>. QED
    BY <1>1, <2>1, <2>2 DEF TypeModel
<1>7. CASE \E tokens \in Sliders : SetBudget(tokens)
  <2>1. PICK tokens \in Sliders : SetBudget(tokens)
    BY <1>7
  <2>2. [config EXCEPT !.digestBudgetTokens = tokens] \in Config
    BY <1>2, <2>1, SettingsAssumption DEF SetBudget, Editable, Config
  <2>. QED
    BY <1>1, <2>1, <2>2 DEF SetBudget
<1>8. CASE TakeSuggestedBudget
  <2>. DEFINE budget == budgetForContext(report.maxModelLen)
  <2>1. budget \in Budgets
    BY <1>8, BudgetType DEF TakeSuggestedBudget, ReportInv
  <2>. HIDE DEF budget
  <2>2. [config EXCEPT !.digestBudgetTokens = budget] \in Config
    BY <1>2, <1>8, <2>1 DEF TakeSuggestedBudget, Editable, Config
  <2>3. Replace([config EXCEPT !.digestBudgetTokens = budget]) /\ RequestsKept
    BY <1>8 DEF TakeSuggestedBudget, budget
  <2>. QED
    BY <1>1, <2>2, <2>3
<1>. QED
  BY <1>3, <1>4, <1>5, <1>6, <1>7, <1>8

\* Resetting.
LEMMA ResetKeeps ==
  ASSUME ConfigInv, ResetToDefaults
  PROVE  ConfigInv' /\ OnScreen'
<1>1. [DEFAULT_LLM_CONFIG EXCEPT !.enabled = TRUE] \in Config
  BY DefaultType DEF Config
<1>. QED
  BY <1>1, ReplaceKeeps DEF ResetToDefaults

\* Opening the panel, or the tab, reads what is stored.
LEMMA OpeningAgrees ==
  ASSUME ConfigInv, config' = loadLlmConfig, UNCHANGED <<stored, refused>>,
         appConfig' \in {appConfig, loadLlmConfig}
  PROVE  ConfigInv' /\ OnScreen'
<1>1. loadLlmConfig \in Config
  BY LoadType DEF ConfigInv
<1>2. loadLlmConfig' = loadLlmConfig
  BY DEF loadLlmConfig
<1>3. CopiesAgree'
  <2>. SUFFICES ASSUME ~refused, ~MendedByHalf
                PROVE  /\ loadLlmConfig = (IF stored = NoConfig THEN appConfig' ELSE normalizeConfig(appConfig'))
                       /\ normalizeConfig(config') = loadLlmConfig
    BY <1>2 DEF CopiesAgree, MendedByHalf
  <2>1. normalizeConfig(loadLlmConfig) = loadLlmConfig
    BY DefaultStable DEF MendedByHalf, loadLlmConfig
  <2>2. loadLlmConfig = (IF stored = NoConfig THEN appConfig ELSE normalizeConfig(appConfig))
    BY DEF ConfigInv, CopiesAgree
  <2>. QED
    BY <2>1, <2>2
<1>4. OnScreen'
  BY <1>1, ConfigIsEntry DEF OnScreen
<1>. QED
  BY <1>1, <1>3, <1>4 DEF ConfigInv

\* Leaving it changes no copy that is used.
LEMMA LeavingAgrees ==
  ASSUME ConfigInv, config' = NoConfig, UNCHANGED <<appConfig, stored, refused>>
  PROVE  ConfigInv'
BY DEF ConfigInv, CopiesAgree, MendedByHalf, OnScreen, loadLlmConfig

(***************************************************************************)
(* The list of models                                                      *)
(***************************************************************************)
LEMMA ListsKept ==
  ASSUME ListInv, UNCHANGED <<models, refreshes>>, OnScreen => OnScreen'
  PROVE  ListInv'
BY DEF ListInv

LEMMA RefreshKeeps ==
  ASSUME ConfigInv, ListInv, NEW r \in Refreshes, RefreshModels(r)
  PROVE  ConfigInv' /\ ListInv' /\ UNCHANGED <<probe, liveResults, report>>
<1>1. config \in Config
  BY DEF RefreshModels, Editable, OnScreen, ConfigInv
<1>2. ConfigInv' /\ (OnScreen' <=> OnScreen)
  BY ConfigUnchanged DEF RefreshModels
<1>3. ListInv'
  BY <1>1, <1>2 DEF RefreshModels, Editable, ListInv
<1>. QED
  BY <1>2, <1>3 DEF RefreshModels

\* An answer, or that there is none.
LEMMA ListSettlesKeeps ==
  ASSUME ConfigInv, ListInv, NEW r \in Refreshes, ListSettles(r)
  PROVE  ConfigInv' /\ ListInv' /\ UNCHANGED <<probe, liveResults, report>>
<1>1. refreshes[r] # NoRequest /\ refreshes' = [refreshes EXCEPT ![r] = NoRequest]
  BY DEF ListSettles, ModelsArrive, ModelsFail
<1>2. OnScreen /\ config \in Config
  BY <1>1 DEF ListInv, OnScreen, ConfigInv
<1>3. models' \in Seq(ModelInfo)
  <2>1. models' = <<>> \/ models' \in ModelLists
    BY DEF ListSettles, ModelsArrive, ModelsFail
  <2>2. <<>> \in Seq(ModelInfo) /\ ModelLists \subseteq Seq(ModelInfo)
    BY SettingsAssumption
  <2>. QED
    BY <2>1, <2>2
<1>4. ConfigInv' /\ OnScreen'
  <2>1. CASE UNCHANGED <<config, appConfig, stored, refused>>
    BY <1>2, <2>1, ConfigUnchanged
  <2>2. CASE \E found \in ModelLists : found # <<>> /\ Replace(WithModel(config, found[1]))
    <3>1. PICK found \in ModelLists : found # <<>> /\ Replace(WithModel(config, found[1]))
      BY <2>2
    <3>2. found[1] \in ModelInfo
      BY <3>1, SettingsAssumption
    <3>. QED
      BY <1>2, <3>1, <3>2, WithModelType, ReplaceKeeps
  <2>. QED
    BY <2>1, <2>2 DEF ListSettles, ModelsArrive, ModelsFail
<1>5. ListInv'
  BY <1>1, <1>3, <1>4 DEF ListInv
<1>. QED
  BY <1>4, <1>5 DEF ListSettles, ModelsArrive, ModelsFail

(***************************************************************************)
(* The probes                                                              *)
(***************************************************************************)
LEMMA OneAndFive ==
  ASSUME NEW S, NEW a \in S, NEW b \in S, NEW c \in S, NEW d \in S, NEW e \in S, NEW f \in S
  PROVE  LET s == <<a>> \o <<b, c, d, e, f>>
         IN  /\ s \in Seq(S) /\ Len(s) = 6
             /\ s[1] = a /\ s[2] = b /\ s[3] = c /\ s[4] = d /\ s[5] = e /\ s[6] = f
BY SMT

LEMMA ProbesAre ==
  /\ Len(Probes) = 6 /\ DOMAIN Probes = 1 .. 6
  /\ Probes[1] = "models" /\ Probes[2] = "completion" /\ Probes[3] = "reasoning"
  /\ Probes[4] = "streaming" /\ Probes[5] = "tools" /\ Probes[6] = "schema"
<1>1. /\ Probes \in Seq(ProbeIds) /\ Len(Probes) = 6
      /\ Probes[1] = "models" /\ Probes[2] = "completion" /\ Probes[3] = "reasoning"
      /\ Probes[4] = "streaming" /\ Probes[5] = "tools" /\ Probes[6] = "schema"
  BY OneAndFive DEF Probes, DEPENDENT_PROBES, ProbeIds
<1>. QED
  BY <1>1

LEMMA ResultType ==
  ASSUME NEW id \in ProbeIds, NEW status \in Status
  PROVE  Result(id, status) \in ProbeResult
BY DEF Result, ProbeResult

\* What is on screen stays the last part of the results when results are added
\* to both.
LEMMA LastOfExtends ==
  ASSUME NEW S, NEW s \in Seq(S), NEW t \in Seq(S), NEW screen, LastOf(s, screen)
  PROVE  LastOf(s \o t, screen \o t)
<1>1. PICK n \in 0 .. Len(s) : screen = SubSeq(s, n + 1, Len(s))
  BY DEF LastOf
<1>. DEFINE long == s \o t
<1>2. long \in Seq(S) /\ Len(long) = Len(s) + Len(t)
  BY ConcatProperties
<1>3. \A i \in 1 .. Len(long) : long[i] \in S
  BY <1>2, ElementOfSeq
<1>4. /\ screen \in Seq(S) /\ Len(screen) = Len(s) - n
      /\ \A i \in 1 .. Len(s) - n : screen[i] = s[n + i]
  <2>1. \A i \in n + 1 .. Len(s) : s[i] \in S
    BY ElementOfSeq
  <2>2. n + 1 \in Int /\ Len(s) \in Int
    OBVIOUS
  <2>3. /\ SubSeq(s, n + 1, Len(s)) \in Seq(S)
        /\ Len(SubSeq(s, n + 1, Len(s))) = IF n + 1 <= Len(s) THEN Len(s) - (n + 1) + 1 ELSE 0
        /\ \A i \in 1 .. Len(s) - (n + 1) + 1 : SubSeq(s, n + 1, Len(s))[i] = s[(n + 1) + i - 1]
    BY <2>1, <2>2, SubSeqProperties
  <2>. QED
    BY <1>1, <2>3
<1>5. /\ SubSeq(long, n + 1, Len(long)) \in Seq(S)
      /\ Len(SubSeq(long, n + 1, Len(long))) = Len(long) - n
      /\ \A i \in 1 .. Len(long) - n : SubSeq(long, n + 1, Len(long))[i] = long[n + i]
  <2>. HIDE DEF long
  <2>1. n + 1 \in Int /\ Len(long) \in Int /\ n <= Len(long)
    BY <1>2
  <2>2. \A i \in n + 1 .. Len(long) : long[i] \in S
    BY <1>3
  <2>3. /\ SubSeq(long, n + 1, Len(long)) \in Seq(S)
        /\ Len(SubSeq(long, n + 1, Len(long)))
             = IF n + 1 <= Len(long) THEN Len(long) - (n + 1) + 1 ELSE 0
        /\ \A i \in 1 .. Len(long) - (n + 1) + 1 :
             SubSeq(long, n + 1, Len(long))[i] = long[(n + 1) + i - 1]
    BY <2>1, <2>2, SubSeqProperties
  <2>. QED
    BY <2>1, <2>3
<1>6. /\ screen \o t \in Seq(S) /\ Len(screen \o t) = Len(long) - n
      /\ \A i \in 1 .. Len(long) - n : (screen \o t)[i] = long[n + i]
  <2>1. /\ screen \o t \in Seq(S) /\ Len(screen \o t) = Len(screen) + Len(t)
        /\ \A i \in 1 .. Len(screen) + Len(t) :
             (screen \o t)[i] = IF i <= Len(screen) THEN screen[i] ELSE t[i - Len(screen)]
    BY <1>4, ConcatProperties
  <2>2. \A i \in 1 .. Len(s) + Len(t) : long[i] = IF i <= Len(s) THEN s[i] ELSE t[i - Len(s)]
    BY ConcatProperties
  <2>. HIDE DEF long
  <2>3. Len(long) - n = Len(screen) + Len(t) /\ Len(s) \in Nat /\ Len(t) \in Nat
    BY <1>2, <1>4
  <2>. SUFFICES ASSUME NEW i \in 1 .. Len(long) - n
                PROVE  (screen \o t)[i] = long[n + i]
    BY <2>1, <2>3
  <2>4. n + i \in 1 .. Len(s) + Len(t)
    BY <2>3, <1>2
  <2>5. CASE i <= Len(screen)
    BY <1>4, <2>1, <2>2, <2>3, <2>4, <2>5
  <2>6. CASE i > Len(screen)
    <3>1. (screen \o t)[i] = t[i - Len(screen)]
      BY <1>4, <2>1, <2>3, <2>6
    <3>2. long[n + i] = t[(n + i) - Len(s)]
      BY <1>4, <2>2, <2>3, <2>4, <2>6
    <3>3. (n + i) - Len(s) = i - Len(screen)
      BY <1>4, <2>3
    <3>. QED
      BY <3>1, <3>2, <3>3
  <2>. QED
    BY <2>3, <2>5, <2>6, <1>4
<1>7. screen \o t = SubSeq(long, n + 1, Len(long))
  BY <1>5, <1>6, SeqEqual
<1>8. n \in 0 .. Len(long)
  BY <1>2
<1>. QED
  BY <1>7, <1>8 DEF LastOf

\* Results in order, with others that continue them.
LEMMA InOrderExtends ==
  ASSUME NEW s \in Seq(ProbeResult), NEW t \in Seq(ProbeResult), InOrder(s),
         \A i \in 1 .. Len(t) : t[i].id = Probes[Len(s) + i]
  PROVE  InOrder(s \o t)
<1>. SUFFICES ASSUME NEW i \in 1 .. Len(s \o t)
              PROVE  (s \o t)[i].id = Probes[i]
  BY DEF InOrder
<1>1. Len(s \o t) = Len(s) + Len(t)
  OBVIOUS
<1>2. CASE i <= Len(s)
  BY <1>2 DEF InOrder
<1>3. CASE i > Len(s)
  <2>1. (s \o t)[i] = t[i - Len(s)] /\ i - Len(s) \in 1 .. Len(t) /\ Len(s) + (i - Len(s)) = i
    BY <1>1, <1>3
  <2>. QED
    BY <2>1
<1>. QED
  BY <1>2, <1>3

\* Neither half of results without a failure has one.
LEMMA FineExtends ==
  ASSUME NEW s \in Seq(ProbeResult), NEW t \in Seq(ProbeResult),
         NoFailure(s) => AllFine(s), NoFailure(t) => AllFine(t)
  PROVE  NoFailure(s \o t) => AllFine(s \o t)
<1>. SUFFICES ASSUME NoFailure(s \o t)
              PROVE  AllFine(s \o t)
  OBVIOUS
<1>1. Len(s \o t) = Len(s) + Len(t) /\ DOMAIN (s \o t) = 1 .. Len(s) + Len(t)
  OBVIOUS
<1>2. \A i \in DOMAIN s : (s \o t)[i] = s[i]
  OBVIOUS
<1>3. \A i \in DOMAIN t : (s \o t)[Len(s) + i] = t[i]
  OBVIOUS
<1>4. NoFailure(s)
  BY <1>1, <1>2 DEF NoFailure
<1>5. NoFailure(t)
  <2>1. \A i \in DOMAIN t : Len(s) + i \in DOMAIN (s \o t)
    BY <1>1
  <2>. QED
    BY <1>3, <2>1 DEF NoFailure
<1>. SUFFICES ASSUME NEW i \in 1 .. Len(s) + Len(t)
              PROVE  (s \o t)[i].status \in {"pass", "warn"}
  BY <1>1 DEF AllFine
<1>6. CASE i <= Len(s)
  BY <1>2, <1>4, <1>6 DEF AllFine
<1>7. CASE i > Len(s)
  <2>1. i - Len(s) \in DOMAIN t /\ (s \o t)[i] = t[i - Len(s)]
    BY <1>7
  <2>. QED
    BY <1>5, <2>1 DEF AllFine
<1>. QED
  BY <1>6, <1>7

LEMMA IdleType == Idle \in ProbeState /\ Idle.waiting = "idle"
<1>1. <<>> \in Seq(ProbeResult) /\ <<>> \in Seq(ModelInfo)
  OBVIOUS
<1>. QED
  BY <1>1 DEF Idle, ProbeState

\* A run that goes on keeps what it has in order.
LEMMA GoesOn ==
  ASSUME RunInv, Probing, NEW new \in Seq(ProbeResult), NEW next \in Requests,
         Answered[next] = Answered[probe.waiting] + Len(new),
         \A i \in 1 .. Len(new) : new[i].id = Probes[Answered[probe.waiting] + i],
         NoFailure(new) => AllFine(new),
         probe' \in ProbeState, probe'.waiting = next, probe'.results = probe.results \o new,
         probe'.config = probe.config, liveResults' = liveResults \o new, report' = report
  PROVE  RunInv'
<1>1. probe.results \in Seq(ProbeResult)
  BY DEF RunInv, ProbeState
<1>2. Len(probe.results) = Answered[probe.waiting] /\ InOrder(probe.results)
      /\ (NoFailure(probe.results) => AllFine(probe.results)) /\ LastOf(probe.results, liveResults)
      /\ probe.config \in Config /\ probe.config.enabled /\ report = NoReport
  BY DEF RunInv
<1>3. Len(probe'.results) = Answered[probe'.waiting]
  BY <1>1, <1>2
<1>4. InOrder(probe'.results)
  BY <1>1, <1>2, InOrderExtends
<1>5. NoFailure(probe'.results) => AllFine(probe'.results)
  BY <1>1, <1>2, FineExtends
<1>6. LastOf(probe'.results, liveResults')
  BY <1>1, <1>2, LastOfExtends
<1>. QED
  BY <1>2, <1>3, <1>4, <1>5, <1>6 DEF RunInv, LastOf, InOrder, NoFailure, AllFine

\* A run that ends reports all probes.
LEMMA Ends ==
  ASSUME RunInv, Probing, NEW new \in Seq(ProbeResult), NEW found \in Seq(ModelInfo),
         NEW length \in Nat, NEW ok,
         Len(new) > 0, Answered[probe.waiting] + Len(new) = 6,
         \A i \in 1 .. Len(new) : new[i].id = Probes[Answered[probe.waiting] + i],
         ok => AllFine(probe.results \o new),
         Report(probe.results \o new, found, length, ok)
  PROVE  RunInv' /\ ReportInv' /\ models' \in Seq(ModelInfo)
<1>. DEFINE old == probe.results
            all == old \o new
<1>1. old \in Seq(ProbeResult)
  BY DEF RunInv, ProbeState
<1>2. Len(old) = Answered[probe.waiting] /\ InOrder(old)
      /\ LastOf(old, liveResults)
  BY DEF RunInv
<1>3. all \in Seq(ProbeResult) /\ Len(all) = 6 /\ Len(all) = Len(old) + Len(new)
  BY <1>1, <1>2, ConcatProperties
<1>4. SubSeq(all, Len(old) + 1, Len(all)) = new
  <2>1. Len(old) + 1 \in Len(old) + 1 .. Len(old) + Len(new)
        /\ Len(all) \in Len(old) + 1 .. Len(old) + Len(new)
        /\ (Len(old) + 1) - Len(old) = 1 /\ Len(all) - Len(old) = Len(new)
    BY <1>1, <1>3
  <2>2. SubSeq(old \o new, Len(old) + 1, Len(all)) = SubSeq(new, (Len(old) + 1) - Len(old), Len(all) - Len(old))
    BY <1>1, <2>1, SubSeqOfConcat2
  <2>3. SubSeq(new, 1, Len(new)) = new
    BY SubSeqFull
  <2>. QED
    BY <2>1, <2>2, <2>3
<1>5. /\ probe' = Idle /\ liveResults' = liveResults \o new /\ models' = found
      /\ report' = [results |-> all, maxModelLen |-> length, ok |-> ok]
  BY <1>4 DEF Report
<1>6. InOrder(all)
  BY <1>1, <1>2, InOrderExtends
<1>7. ok => AllFine(all)
  OBVIOUS
<1>8. LastOf(all, liveResults')
  BY <1>1, <1>2, <1>5, LastOfExtends
<1>. HIDE DEF all
<1>9. [i \in DOMAIN all |-> all[i].id] = Probes
  <2>. DEFINE ids == [i \in DOMAIN all |-> all[i].id]
  <2>1. DOMAIN all = 1 .. 6
    BY <1>3
  <2>2. \A i \in 1 .. 6 : ids[i] = Probes[i]
    BY <1>3, <1>6, <2>1 DEF InOrder
  <2>3. Probes \in Seq(ProbeIds)
    BY OneAndFive DEF Probes, DEPENDENT_PROBES, ProbeIds
  <2>. QED
    BY <2>1, <2>2, <2>3, ProbesAre
<1>10. UsableMeansProbed'
  BY <1>5, <1>7, <1>8, <1>9 DEF UsableMeansProbed, LastOf, AllFine, all
<1>. QED
  BY <1>5, <1>10, IdleType DEF RunInv, ReportInv, Probing, Requests

\* One result, or two.
LEMMA OneResult ==
  ASSUME NEW a \in ProbeResult, a.status \in {"pass", "warn", "fail"}
  PROVE  /\ <<a>> \in Seq(ProbeResult) /\ Len(<<a>>) = 1 /\ <<a>>[1] = a
         /\ NoFailure(<<a>>) => AllFine(<<a>>)
BY DEF NoFailure, AllFine

LEMMA TwoResults ==
  ASSUME NEW a \in ProbeResult, NEW b \in ProbeResult,
         a.status # "fail" => a.status \in {"pass", "warn"} /\ b.status \in {"pass", "warn"}
  PROVE  /\ <<a, b>> \in Seq(ProbeResult) /\ Len(<<a, b>>) = 2
         /\ <<a, b>>[1] = a /\ <<a, b>>[2] = b
         /\ NoFailure(<<a, b>>) => AllFine(<<a, b>>)
<1>1. /\ <<a, b>> \in Seq(ProbeResult) /\ Len(<<a, b>>) = 2 /\ DOMAIN <<a, b>> = {1, 2}
      /\ <<a, b>>[1] = a /\ <<a, b>>[2] = b
  OBVIOUS
<1>2. NoFailure(<<a, b>>) => AllFine(<<a, b>>)
  BY <1>1 DEF NoFailure, AllFine
<1>. QED
  BY <1>1, <1>2

\* Results that come with the next request.
LEMMA EmitKeeps ==
  ASSUME RunInv, ReportInv, Probing, NEW new \in Seq(ProbeResult), NEW next \in Requests,
         Answered[next] = Answered[probe.waiting] + Len(new),
         \A i \in 1 .. Len(new) : new[i].id = Probes[Answered[probe.waiting] + i],
         NoFailure(new) => AllFine(new),
         Emit(new, next)
  PROVE  RunInv' /\ ReportInv' /\ UNCHANGED <<config, appConfig, stored, refused, models, refreshes>>
<1>1. probe' = [probe EXCEPT !.results = probe.results \o new, !.waiting = next]
      /\ liveResults' = liveResults \o new /\ report' = report
  BY DEF Emit
<1>2. probe.results \o new \in Seq(ProbeResult)
  BY DEF RunInv, ProbeState
<1>3. probe' \in ProbeState /\ probe'.waiting = next /\ probe'.results = probe.results \o new
      /\ probe'.config = probe.config
  BY <1>1, <1>2 DEF RunInv, ProbeState
<1>4. RunInv'
  BY <1>1, <1>3, GoesOn
<1>5. ReportInv'
  BY <1>1 DEF RunInv, ReportInv, UsableMeansProbed
<1>. QED
  BY <1>4, <1>5 DEF Emit

LEMMA Statuses == "pass" \in Status /\ "fail" \in Status /\ "warn" \in Status /\ "skipped" \in Status
BY DEF Status

LEMMA ResultIs ==
  ASSUME NEW id \in ProbeIds, NEW status \in Status
  PROVE  Result(id, status) \in ProbeResult /\ Result(id, status).id = id /\ Result(id, status).status = status
BY DEF Result, ProbeResult

\* One probe answered and the next asked.
LEMMA EmitOneKeeps ==
  ASSUME RunInv, ReportInv, Probing, NEW next \in Requests,
         NEW id \in ProbeIds, NEW status \in {"pass", "fail", "warn"},
         id = Probes[Answered[probe.waiting] + 1],
         Answered[next] = Answered[probe.waiting] + 1,
         Emit(<<Result(id, status)>>, next)
  PROVE  RunInv' /\ ReportInv' /\ UNCHANGED <<config, appConfig, stored, refused, models, refreshes>>
<1>. DEFINE a == Result(id, status)
<1>1. a \in ProbeResult /\ a.id = id /\ a.status = status
  BY ResultIs, Statuses
<1>. HIDE DEF a
<1>2. /\ <<a>> \in Seq(ProbeResult) /\ Len(<<a>>) = 1 /\ <<a>>[1] = a
      /\ NoFailure(<<a>>) => AllFine(<<a>>)
  BY <1>1, OneResult
<1>3. \A i \in 1 .. Len(<<a>>) : <<a>>[i].id = Probes[Answered[probe.waiting] + i]
  BY <1>1, <1>2
<1>4. Emit(<<a>>, next)
  BY DEF a
<1>. QED
  BY <1>2, <1>3, <1>4, EmitKeeps

\* The completion and, off the same answer, the reasoning split.
LEMMA CompletionKeeps ==
  ASSUME RunInv, ReportInv, NEW first \in {"pass", "fail"}, NEW second \in Status,
         first = "pass" => second \in {"pass", "warn"},
         probe.waiting = "completion",
         Emit(<<Result("completion", first), Result("reasoning", second)>>, "streaming")
  PROVE  RunInv' /\ ReportInv' /\ UNCHANGED <<config, appConfig, stored, refused, models, refreshes>>
<1>. DEFINE a == Result("completion", first)
            b == Result("reasoning", second)
<1>1. /\ a \in ProbeResult /\ a.id = "completion" /\ a.status = first
      /\ b \in ProbeResult /\ b.id = "reasoning" /\ b.status = second
  <2>1. first \in Status
    BY Statuses
  <2>2. "completion" \in ProbeIds /\ "reasoning" \in ProbeIds
    BY DEF ProbeIds
  <2>. QED
    BY <2>1, <2>2, ResultIs
<1>2. Emit(<<a, b>>, "streaming")
  OBVIOUS
<1>. HIDE DEF a, b
<1>3. /\ <<a, b>> \in Seq(ProbeResult) /\ Len(<<a, b>>) = 2
      /\ <<a, b>>[1] = a /\ <<a, b>>[2] = b
      /\ NoFailure(<<a, b>>) => AllFine(<<a, b>>)
  BY <1>1, TwoResults
<1>4. Probing /\ Answered[probe.waiting] = 1 /\ Answered["streaming"] = 3 /\ "streaming" \in Requests
  BY DEF Probing, Requests, Answered
<1>5. \A i \in 1 .. Len(<<a, b>>) : <<a, b>>[i].id = Probes[Answered[probe.waiting] + i]
  <2>1. Probes[Answered[probe.waiting] + 1] = "completion" /\ Probes[Answered[probe.waiting] + 2] = "reasoning"
    BY <1>4, ProbesAre
  <2>. QED
    BY <1>1, <1>3, <2>1
<1>6. Answered["streaming"] = Answered[probe.waiting] + Len(<<a, b>>)
  BY <1>3, <1>4
<1>. QED
  BY <1>2, <1>3, <1>4, <1>5, <1>6, EmitKeeps

\* The run ends with the last probe.
LEMMA SchemaKeeps ==
  ASSUME RunInv, ListInv, NEW valid \in BOOLEAN, ProbeSchema(valid)
  PROVE  RunInv' /\ ReportInv' /\ models' \in Seq(ModelInfo)
<1>. DEFINE a == Result("schema", IF valid THEN "pass" ELSE "fail")
<1>1. a \in ProbeResult /\ a.id = "schema" /\ a.status \in {"pass", "warn", "fail"}
  <2>. DEFINE status == IF valid THEN "pass" ELSE "fail"
  <2>1. status \in {"pass", "warn", "fail"} /\ status \in Status
    BY Statuses
  <2>2. "schema" \in ProbeIds
    BY DEF ProbeIds
  <2>. HIDE DEF status
  <2>3. /\ Result("schema", status) \in ProbeResult /\ Result("schema", status).id = "schema"
        /\ Result("schema", status).status = status
    BY <2>1, <2>2, ResultIs
  <2>. QED
    BY <2>1, <2>3 DEF status
<1>2. probe.waiting = "schema"
      /\ Report(Append(probe.results, a), probe.models, probe.maxModelLen, NoFailure(Append(probe.results, a)))
  BY DEF ProbeSchema
<1>. HIDE DEF a
<1>3. probe.results \in Seq(ProbeResult) /\ probe.models \in Seq(ModelInfo) /\ probe.maxModelLen \in Nat
  BY DEF RunInv, ProbeState
<1>4. /\ <<a>> \in Seq(ProbeResult) /\ Len(<<a>>) = 1 /\ <<a>>[1] = a
      /\ NoFailure(<<a>>) => AllFine(<<a>>)
  BY <1>1, OneResult
<1>5. Append(probe.results, a) = probe.results \o <<a>>
  BY <1>1, <1>3
<1>6. Probing /\ Answered[probe.waiting] = 5
  BY <1>2 DEF Probing, Requests, Answered
<1>7. \A i \in 1 .. Len(<<a>>) : <<a>>[i].id = Probes[Answered[probe.waiting] + i]
  BY <1>1, <1>4, <1>6, ProbesAre
<1>8. Len(<<a>>) > 0 /\ Answered[probe.waiting] + Len(<<a>>) = 6
  BY <1>4, <1>6
<1>. DEFINE ok == NoFailure(probe.results \o <<a>>)
<1>9. Report(probe.results \o <<a>>, probe.models, probe.maxModelLen, ok)
  BY <1>2, <1>5
<1>10. ok => AllFine(probe.results \o <<a>>)
  <2>1. NoFailure(probe.results) => AllFine(probe.results)
    BY <1>6 DEF RunInv
  <2>. QED
    BY <1>3, <1>4, <2>1, FineExtends
<1>. HIDE DEF ok
<1>. QED
  BY <1>3, <1>4, <1>6, <1>7, <1>8, <1>9, <1>10, Ends

\* Without a model to ask the other probes are skipped.
LEMMA SkippingKeeps ==
  ASSUME RunInv, probe.waiting = "models", NEW status \in {"pass", "fail"},
         Report(<<Result("models", status)>> \o Skipped, <<>>, 0, FALSE)
  PROVE  RunInv' /\ ReportInv' /\ models' \in Seq(ModelInfo)
<1>. DEFINE a == Result("models", status)
            s(i) == Result(DEPENDENT_PROBES[i], "skipped")
            new == <<a>> \o <<s(1), s(2), s(3), s(4), s(5)>>
<1>1. /\ DEPENDENT_PROBES[1] = "completion" /\ DEPENDENT_PROBES[2] = "reasoning"
      /\ DEPENDENT_PROBES[3] = "streaming" /\ DEPENDENT_PROBES[4] = "tools"
      /\ DEPENDENT_PROBES[5] = "schema" /\ DOMAIN DEPENDENT_PROBES = 1 .. 5
  BY SMT DEF DEPENDENT_PROBES
<1>2. status \in Status /\ "models" \in ProbeIds /\ \A i \in 1 .. 5 : DEPENDENT_PROBES[i] \in ProbeIds
  BY <1>1, Statuses DEF ProbeIds
<1>3. a \in ProbeResult /\ a.id = "models"
  BY <1>2, ResultIs
<1>4. \A i \in 1 .. 5 : s(i) \in ProbeResult /\ s(i).id = DEPENDENT_PROBES[i]
  BY <1>2, ResultIs, Statuses
<1>5. Skipped = <<s(1), s(2), s(3), s(4), s(5)>>
  <2>1. Skipped = [i \in 1 .. 5 |-> s(i)]
    BY <1>1 DEF Skipped
  <2>. HIDE DEF s
  <2>. QED
    BY <2>1
<1>. HIDE DEF s, a
<1>6. /\ new \in Seq(ProbeResult) /\ Len(new) = 6
      /\ new[1] = a /\ new[2] = s(1) /\ new[3] = s(2) /\ new[4] = s(3) /\ new[5] = s(4) /\ new[6] = s(5)
  BY <1>3, <1>4, OneAndFive
<1>7. Report(new, <<>>, 0, FALSE)
  BY <1>5 DEF a
<1>. HIDE DEF new
<1>8. Probing /\ Answered[probe.waiting] = 0
  BY DEF Probing, Requests, Answered
<1>9. probe.results = <<>>
  BY <1>8 DEF RunInv, ProbeState
<1>10. probe.results \o new = new
  BY <1>6, <1>9
<1>11. Report(probe.results \o new, <<>>, 0, FALSE)
  BY <1>7, <1>10
<1>12. \A i \in 1 .. 6 : new[i].id = Probes[i]
  <2>. SUFFICES ASSUME NEW i \in 1 .. 6
                PROVE  new[i].id = Probes[i]
    OBVIOUS
  <2>1. i = 1 \/ i = 2 \/ i = 3 \/ i = 4 \/ i = 5 \/ i = 6
    OBVIOUS
  <2>. QED
    BY <1>1, <1>3, <1>4, <1>6, <2>1, ProbesAre
<1>13. \A i \in 1 .. Len(new) : new[i].id = Probes[Answered[probe.waiting] + i]
  BY <1>6, <1>8, <1>12
<1>14. Len(new) > 0 /\ Answered[probe.waiting] + Len(new) = 6
  BY <1>6, <1>8
<1>15. <<>> \in Seq(ModelInfo) /\ 0 \in Nat
  OBVIOUS
<1>. DEFINE ok == FALSE
<1>16. (ok => AllFine(probe.results \o new)) /\ Report(probe.results \o new, <<>>, 0, ok)
  BY <1>11
<1>. HIDE DEF ok
<1>. QED
  BY <1>6, <1>8, <1>13, <1>14, <1>15, <1>16, Ends

LEMMA SmallestInteger ==
  ASSUME NEW T \in SUBSET Nat, T # {}
  PROVE  \E i \in T : \A j \in T : i <= j
<1>1. PICK i \in T : \A j \in T : ~ (<<j, i>> \in OpToRel(<, Nat))
  BY NatLessThanWellFounded, WFMin
<1>2. \A j \in T : ~ (j < i)
  BY <1>1 DEF OpToRel
<1>. QED
  BY <1>2

\* The list of models answers the first probe.
LEMMA ProbeModelsKeeps ==
  ASSUME RunInv, ReportInv, NEW found \in ModelLists, ProbeModels(found)
  PROVE  RunInv' /\ ReportInv' /\ UNCHANGED <<config, appConfig, stored, refused, models, refreshes>>
<1>. DEFINE a == Result("models", "pass")
            length == Selected(found, probe.config.model).maxModelLen
<1>1. a \in ProbeResult /\ a.id = "models" /\ a.status = "pass"
  BY ResultIs, Statuses DEF ProbeIds
<1>2. found \in Seq(ModelInfo) /\ found # <<>>
  BY SettingsAssumption DEF ProbeModels
<1>3. length \in Nat
  <2>1. \E i \in DOMAIN found : Selected(found, probe.config.model) = found[i]
    <3>. DEFINE Named == {i \in DOMAIN found : found[i].id = probe.config.model}
    <3>1. CASE Named = {}
      BY <1>2, <3>1 DEF Selected
    <3>2. CASE Named # {}
      <4>1. Named \in SUBSET Nat
        BY <1>2
      <4>2. \E i \in Named : \A j \in Named : i <= j
        <5>. HIDE DEF Named
        <5>. QED
          BY <3>2, <4>1, SmallestInteger
      <4>. DEFINE least == CHOOSE i \in Named : \A j \in Named : i <= j
      <4>3. least \in Named
        BY <4>2
      <4>4. Selected(found, probe.config.model) = found[least]
        BY <3>2 DEF Selected
      <4>. QED
        BY <4>3, <4>4
    <3>. QED
      BY <3>1, <3>2
  <2>2. PICK i \in DOMAIN found : Selected(found, probe.config.model) = found[i]
    BY <2>1
  <2>3. found[i] \in ModelInfo
    BY <1>2
  <2>. QED
    BY <2>2, <2>3, SettingsAssumption DEF ModelInfo
<1>4. /\ probe.waiting = "models"
      /\ probe' = [probe EXCEPT !.results = <<a>>, !.waiting = "completion",
                                !.models = found, !.maxModelLen = length]
      /\ liveResults' = Append(liveResults, a)
      /\ UNCHANGED <<config, appConfig, stored, refused, models, refreshes, report>>
  BY DEF ProbeModels
<1>. HIDE DEF a, length
<1>5. /\ <<a>> \in Seq(ProbeResult) /\ Len(<<a>>) = 1 /\ <<a>>[1] = a
      /\ NoFailure(<<a>>) => AllFine(<<a>>)
  BY <1>1, OneResult
<1>6. Probing /\ Answered[probe.waiting] = 0 /\ Answered["completion"] = 1 /\ "completion" \in Requests
  BY <1>4 DEF Probing, Requests, Answered
<1>7. probe.results = <<>> /\ probe \in ProbeState
  BY <1>6 DEF RunInv, ProbeState
<1>8. <<>> \o <<a>> = <<a>>
  BY <1>5, ConcatEmptySeq
<1>9. liveResults' = liveResults \o <<a>>
  <2>1. LastOf(probe.results, liveResults) /\ probe.results \in Seq(ProbeResult)
    BY <1>6 DEF RunInv, ProbeState
  <2>2. liveResults = <<>>
    BY <1>7, <2>1, SubSeqEmpty DEF LastOf
  <2>. QED
    BY <1>1, <1>4, <1>8, <2>2
<1>10. probe' \in ProbeState /\ probe'.waiting = "completion" /\ probe'.results = probe.results \o <<a>>
       /\ probe'.config = probe.config
  BY <1>2, <1>3, <1>4, <1>5, <1>6, <1>7, <1>8 DEF ProbeState
<1>11. \A i \in 1 .. Len(<<a>>) : <<a>>[i].id = Probes[Answered[probe.waiting] + i]
  BY <1>1, <1>5, <1>6, ProbesAre
<1>12. RunInv'
  <2>1. Answered["completion"] = Answered[probe.waiting] + Len(<<a>>)
    BY <1>5, <1>6
  <2>2. report' = report
    BY <1>4
  <2>. QED
    BY <1>5, <1>6, <1>9, <1>10, <1>11, <2>1, <2>2, GoesOn
<1>13. ReportInv'
  BY <1>4, <1>6 DEF RunInv, ReportInv, UsableMeansProbed
<1>. QED
  BY <1>4, <1>12, <1>13

\* Every answer to a probe, whatever it is.
LEMMA ProbeSettlesKeeps ==
  ASSUME SettingsInv, ProbeSettles
  PROVE  RunInv' /\ ReportInv' /\ models' \in Seq(ModelInfo)
         /\ UNCHANGED <<config, appConfig, stored, refused, refreshes>>
<1>. DEFINE Goal == RunInv' /\ ReportInv' /\ models' \in Seq(ModelInfo)
                    /\ UNCHANGED <<config, appConfig, stored, refused, refreshes>>
<1>1. RunInv /\ ReportInv /\ ListInv /\ models \in Seq(ModelInfo)
  BY DEF SettingsInv, ListInv
<1>2. /\ Answered["models"] = 0 /\ Answered["completion"] = 1 /\ Answered["streaming"] = 3
      /\ Answered["tools"] = 4 /\ Answered["schema"] = 5
  BY DEF Answered
<1>3. CASE ProbeUnreachable \/ ProbeNoModels
  <2>1. PICK status \in {"pass", "fail"} : Report(<<Result("models", status)>> \o Skipped, <<>>, 0, FALSE)
    BY <1>3 DEF ProbeUnreachable, ProbeNoModels
  <2>2. probe.waiting = "models"
    BY <1>3 DEF ProbeUnreachable, ProbeNoModels
  <2>. QED
    BY <1>1, <2>1, <2>2, SkippingKeeps DEF Report
<1>4. CASE \E found \in ModelLists : ProbeModels(found)
  BY <1>1, <1>4, ProbeModelsKeeps
<1>5. CASE \E reasoning \in BOOLEAN : ProbeCompletion(reasoning)
  <2>1. PICK reasoning \in BOOLEAN : ProbeCompletion(reasoning)
    BY <1>5
  <2>. DEFINE second == IF reasoning THEN "pass" ELSE "warn"
  <2>2. second \in Status /\ second \in {"pass", "warn"}
    BY Statuses
  <2>3. probe.waiting = "completion" /\ Emit(<<Result("completion", "pass"), Result("reasoning", second)>>, "streaming")
    BY <2>1 DEF ProbeCompletion
  <2>. HIDE DEF second
  <2>. QED
    BY <1>1, <2>2, <2>3, CompletionKeeps
<1>6. CASE ProbeCompletionFails
  <2>1. probe.waiting = "completion"
        /\ Emit(<<Result("completion", "fail"), Result("reasoning", "skipped")>>, "streaming")
    BY <1>6 DEF ProbeCompletionFails
  <2>. QED
    BY <1>1, <2>1, Statuses, CompletionKeeps
<1>7. CASE (\E chunks \in 0 .. 2 : ProbeStreaming(chunks)) \/ ProbeStreamingFails
  <2>1. PICK status \in {"pass", "fail", "warn"} : Emit(<<Result("streaming", status)>>, "tools")
    BY <1>7 DEF ProbeStreaming, ProbeStreamingFails
  <2>2. probe.waiting = "streaming"
    BY <1>7 DEF ProbeStreaming, ProbeStreamingFails
  <2>3. Probing /\ "tools" \in Requests /\ "streaming" \in ProbeIds /\ "streaming" = Probes[Answered[probe.waiting] + 1]
    BY <1>2, <2>2, ProbesAre DEF Probing, Requests, ProbeIds
  <2>4. Answered["tools"] = Answered[probe.waiting] + 1
    BY <1>2, <2>2
  <2>. QED
    BY <1>1, <2>1, <2>3, <2>4, EmitOneKeeps
<1>8. CASE \E called \in BOOLEAN : ProbeTools(called)
  <2>1. PICK status \in {"pass", "fail", "warn"} : Emit(<<Result("tools", status)>>, "schema")
    BY <1>8 DEF ProbeTools
  <2>2. probe.waiting = "tools"
    BY <1>8 DEF ProbeTools
  <2>3. Probing /\ "schema" \in Requests /\ "tools" \in ProbeIds /\ "tools" = Probes[Answered[probe.waiting] + 1]
    BY <1>2, <2>2, ProbesAre DEF Probing, Requests, ProbeIds
  <2>4. Answered["schema"] = Answered[probe.waiting] + 1
    BY <1>2, <2>2
  <2>. QED
    BY <1>1, <2>1, <2>3, <2>4, EmitOneKeeps
<1>9. CASE \E valid \in BOOLEAN : ProbeSchema(valid)
  <2>1. PICK valid \in BOOLEAN : ProbeSchema(valid)
    BY <1>9
  <2>2. UNCHANGED <<config, appConfig, stored, refused, refreshes>>
    BY <2>1 DEF ProbeSchema, Report
  <2>. QED
    BY <1>1, <2>1, <2>2, SchemaKeeps
<1>. QED
  BY <1>3, <1>4, <1>5, <1>6, <1>7, <1>8, <1>9 DEF ProbeSettles

(***************************************************************************)
(* All operations                                                          *)
(***************************************************************************)
\* A list, a run and a report that an operation leaves alone stay right.
LEMMA RunUnchanged ==
  ASSUME RunInv, ReportInv, UNCHANGED <<probe, liveResults, report>>
  PROVE  RunInv' /\ ReportInv'
BY DEF RunInv, ReportInv, UsableMeansProbed, Probing

LEMMA FreshKeeps ==
  ASSUME Fresh
  PROVE  ListInv' /\ RunInv' /\ ReportInv'
<1>1. ListInv'
  <2>1. <<>> \in Seq(ModelInfo)
    OBVIOUS
  <2>. QED
    BY <2>1 DEF Fresh, ListInv
<1>2. RunInv'
  BY IdleType DEF Fresh, RunInv, Probing, Requests
<1>3. ReportInv'
  BY DEF Fresh, ReportInv, UsableMeansProbed
<1>. QED
  BY <1>1, <1>2, <1>3

LEMMA SettingsUserKeeps ==
  ASSUME SettingsInv, SettingsUser
  PROVE  SettingsInv'
<1>1. ConfigInv /\ ListInv /\ RunInv /\ ReportInv
  BY DEF SettingsInv
<1>2. CASE \/ SetEnabled
           \/ \E url \in Urls : SetBaseUrl(url)
           \/ \E i \in DOMAIN models : ChooseModel(i)
           \/ \E id \in Models \cup {Blank} : TypeModel(id)
           \/ \E tokens \in Sliders : SetBudget(tokens)
           \/ TakeSuggestedBudget
  <2>1. ConfigInv' /\ OnScreen' /\ RequestsKept
    BY <1>1, <1>2, EditsKeep
  <2>. QED
    BY <1>1, <2>1, ListsKept, RunUnchanged DEF SettingsInv, RequestsKept
<1>3. CASE ResetToDefaults
  <2>1. ConfigInv' /\ OnScreen'
    BY <1>1, <1>3, ResetKeeps
  <2>2. report' = NoReport /\ liveResults' = <<>> /\ UNCHANGED <<models, refreshes, probe>>
    BY <1>3 DEF ResetToDefaults
  <2>3. ListInv'
    BY <1>1, <2>1, <2>2, ListsKept
  <2>4. RunInv'
    <3>. SUFFICES ASSUME Probing
                  PROVE  LastOf(probe.results, <<>>)
      BY <1>1, <2>2 DEF RunInv, Probing
    <3>1. probe.results \in Seq(ProbeResult)
      BY <1>1 DEF RunInv, ProbeState
    <3>2. SubSeq(probe.results, Len(probe.results) + 1, Len(probe.results)) = <<>>
      BY <3>1, SubSeqEmpty
    <3>. QED
      BY <3>1, <3>2 DEF LastOf
  <2>5. ReportInv'
    BY <2>2 DEF ReportInv, UsableMeansProbed
  <2>. QED
    BY <2>1, <2>3, <2>4, <2>5 DEF SettingsInv
<1>4. CASE \E r \in Refreshes : RefreshModels(r)
  BY <1>1, <1>4, RefreshKeeps, RunUnchanged DEF SettingsInv
<1>5. CASE RunProbes
  <2>1. config \in Config /\ config.enabled
    BY <1>1, <1>5 DEF RunProbes, Editable, OnScreen, ConfigInv
  <2>2. /\ probe' = [Idle EXCEPT !.waiting = "models", !.config = config]
        /\ liveResults' = <<>> /\ report' = NoReport
        /\ UNCHANGED <<config, appConfig, stored, refused, models, refreshes>>
    BY <1>5 DEF RunProbes
  <2>3. probe' \in ProbeState /\ probe'.waiting = "models" /\ probe'.config = config /\ probe'.results = <<>>
    <3>1. <<>> \in Seq(ProbeResult) /\ <<>> \in Seq(ModelInfo)
      OBVIOUS
    <3>. QED
      BY <2>1, <2>2, <3>1 DEF Idle, ProbeState, Requests
  <2>4. LastOf(<<>>, <<>>)
    <3>1. SubSeq(<<>>, 0 + 1, 0) = <<>> /\ Len(<<>>) = 0
      BY SubSeqEmpty
    <3>. QED
      BY <3>1 DEF LastOf
  <2>5. InOrder(<<>>) /\ AllFine(<<>>) /\ Len(<<>>) = 0 /\ Answered["models"] = 0
    BY DEF InOrder, AllFine, Answered
  <2>6. RunInv'
    BY <2>1, <2>2, <2>3, <2>4, <2>5 DEF RunInv
  <2>7. ReportInv'
    BY <2>2 DEF ReportInv, UsableMeansProbed
  <2>. QED
    BY <1>1, <2>2, <2>6, <2>7, ConfigUnchanged, ListsKept DEF SettingsInv
<1>6. CASE LeaveSettings
  BY <1>1, <1>6, LeavingAgrees, FreshKeeps DEF LeaveSettings, SettingsInv
<1>7. CASE OpenSettings
  <2>1. ConfigInv' /\ OnScreen'
    BY <1>1, <1>7, OpeningAgrees DEF OpenSettings
  <2>. QED
    BY <1>1, <1>7, <2>1, ListsKept, RunUnchanged DEF OpenSettings, SettingsInv
<1>. QED
  BY <1>2, <1>3, <1>4, <1>5, <1>6, <1>7 DEF SettingsUser

LEMMA SettingsAnswersKeep ==
  ASSUME SettingsInv, ProbeSettles \/ \E r \in Refreshes : ListSettles(r)
  PROVE  SettingsInv'
<1>1. ConfigInv /\ ListInv /\ RunInv /\ ReportInv
  BY DEF SettingsInv
<1>2. CASE ProbeSettles
  <2>1. RunInv' /\ ReportInv' /\ models' \in Seq(ModelInfo)
        /\ UNCHANGED <<config, appConfig, stored, refused, refreshes>>
    BY <1>2, ProbeSettlesKeeps
  <2>2. ConfigInv' /\ (OnScreen' <=> OnScreen)
    BY <1>1, <2>1, ConfigUnchanged
  <2>3. ListInv'
    BY <1>1, <2>1, <2>2 DEF ListInv
  <2>. QED
    BY <2>1, <2>2, <2>3 DEF SettingsInv
<1>3. CASE \E r \in Refreshes : ListSettles(r)
  BY <1>1, <1>3, ListSettlesKeeps, RunUnchanged DEF SettingsInv
<1>. QED
  BY <1>2, <1>3

LEMMA ReloadSettingsKeeps ==
  ASSUME SettingsInv, ReloadSettings
  PROVE  SettingsInv'
BY OpeningAgrees, FreshKeeps DEF ReloadSettings, SettingsInv

LEMMA SettingsUnchanged ==
  ASSUME SettingsInv, UNCHANGED settingsVars
  PROVE  SettingsInv'
BY ConfigUnchanged, ListsKept, RunUnchanged DEF SettingsInv, settingsVars

LEMMA SettingsInitially ==
  ASSUME SettingsInit
  PROVE  SettingsInv
<1>1. stored \in StoredEntry \cup {NoConfig} /\ config = loadLlmConfig /\ appConfig = loadLlmConfig
  BY SettingsAssumption DEF SettingsInit
<1>2. loadLlmConfig \in Config
  BY <1>1, LoadType
<1>3. CopiesAgree
  <2>. SUFFICES ASSUME ~MendedByHalf
                PROVE  normalizeConfig(loadLlmConfig) = loadLlmConfig
    BY <1>1 DEF CopiesAgree
  <2>. QED
    BY DefaultStable DEF MendedByHalf, loadLlmConfig
<1>4. <<>> \in Seq(ModelInfo)
  OBVIOUS
<1>5. ConfigInv
  BY <1>1, <1>2, <1>3 DEF ConfigInv
<1>6. ListInv
  BY <1>4 DEF SettingsInit, ListInv
<1>7. RunInv
  BY IdleType DEF SettingsInit, RunInv, Probing, Requests
<1>8. ReportInv
  BY DEF SettingsInit, ReportInv, UsableMeansProbed
<1>. QED
  BY <1>5, <1>6, <1>7, <1>8 DEF SettingsInv

(***************************************************************************)
(* The registries and their copies                                         *)
(***************************************************************************)
Registries == [Kinds -> SUBSET Entry]

\* The copies agree, and hold entries.
CopiesInv ==
  /\ registry \in Registries
  /\ shown \in Registries
  /\ kept \in Registries
  /\ unsaved \in [Kinds -> BOOLEAN]
  /\ StoredIsShown

PatternsInv ==
  /\ CopiesInv
  /\ nextId \in Nat
  /\ editing \in Nat \cup {NoId}

(***************************************************************************)
(* Entries                                                                 *)
(***************************************************************************)
\* A new entry is an entry.
LEMMA NewType ==
  ASSUME nextId \in Nat, NEW i \in Nat, NEW pat \in Pats
  PROVE  New(i, pat) \in Entry
BY PatternsAssumption DEF New, Entry

\* What an import takes in are entries: a broken element ends it.
LEMMA ImportedType ==
  ASSUME nextId \in Nat, NEW kind, NEW offset \in Nat, NEW list \in Seq(Pats \cup {Broken})
  PROVE  Imported(kind, list, offset) \subseteq Entry
<1>. SUFFICES ASSUME NEW i \in DOMAIN list, \A j \in 1 .. i : list[j] # Broken
              PROVE  New(offset + i, list[i]) \in Entry
  BY DEF Imported
<1>1. i \in Nat \ {0}
  OBVIOUS
<1>2. list[i] \in Pats
  BY <1>1
<1>. QED
  BY <1>1, <1>2, NewType

(***************************************************************************)
(* Changes of the copies                                                   *)
(***************************************************************************)
\* Changing an entry list keeps it, on screen and in the registry, whatever
\* becomes of the write.
LEMMA BecomesKeeps ==
  ASSUME CopiesInv, NEW kind \in Kinds, NEW entries \in SUBSET Entry, Becomes(kind, entries)
  PROVE  CopiesInv'
<1>1. registry' \in Registries /\ shown' \in Registries
  BY DEF CopiesInv, Registries, Becomes
<1>2. kept' \in Registries /\ unsaved' \in [Kinds -> BOOLEAN]
  <2>1. CASE kept' = [kept EXCEPT ![kind] = entries] /\ unsaved' = [unsaved EXCEPT ![kind] = FALSE]
    BY <2>1 DEF CopiesInv, Registries
  <2>2. CASE kept' = kept /\ unsaved' = [unsaved EXCEPT ![kind] = TRUE]
    BY <2>2 DEF CopiesInv, Registries
  <2>. QED
    BY <2>1, <2>2 DEF Becomes, Save
<1>3. StoredIsShown'
  <2>. SUFFICES ASSUME NEW k \in Kinds
                PROVE  /\ shown'[k] \subseteq registry'[k]
                       /\ unsaved'[k] \/ (kept'[k] = shown'[k] /\ shown'[k] = registry'[k])
    BY DEF StoredIsShown
  <2>1. CASE k # kind
    <3>1. shown'[k] = shown[k] /\ registry'[k] = registry[k] /\ kept'[k] = kept[k] /\ unsaved'[k] = unsaved[k]
      BY <2>1 DEF CopiesInv, Registries, Becomes, Save
    <3>. QED
      BY <3>1 DEF CopiesInv, StoredIsShown
  <2>2. CASE k = kind
    <3>1. shown'[k] = entries /\ registry'[k] = entries
      BY <2>2 DEF CopiesInv, Registries, Becomes
    <3>2. unsaved'[k] = TRUE \/ kept'[k] = entries
      BY <2>2 DEF CopiesInv, Registries, Becomes, Save
    <3>. QED
      BY <3>1, <3>2
  <2>. QED
    BY <2>1, <2>2
<1>. QED
  BY <1>1, <1>2, <1>3 DEF CopiesInv

LEMMA CopiesUnchanged ==
  ASSUME CopiesInv, UNCHANGED <<registry, shown, kept, unsaved>>
  PROVE  CopiesInv'
BY DEF CopiesInv, StoredIsShown

\* Adding a pattern.
LEMMA AddKeeps ==
  ASSUME PatternsInv, NEW kind \in Kinds, NEW pat \in Pats, Add(kind, pat)
  PROVE  CopiesInv' /\ nextId' \in Nat
<1>1. New(0, pat) \in Entry
  BY NewType DEF PatternsInv
<1>2. registry[kind] \cup {New(0, pat)} \in SUBSET Entry
  BY <1>1 DEF PatternsInv, CopiesInv, Registries
<1>3. CopiesInv'
  BY <1>2, BecomesKeeps DEF Add, PatternsInv
<1>. QED
  BY <1>3 DEF Add, PatternsInv

\* Updating a pattern, there or not.
LEMMA UpdateKeeps ==
  ASSUME PatternsInv, NEW id \in Nat, NEW pat \in Pats, Update(id, pat)
  PROVE  CopiesInv' /\ nextId' \in Nat
<1>1. nextId' \in Nat
  BY DEF Update, PatternsInv
<1>2. "custom" \in Kinds
  BY DEF Kinds
<1>3. CASE \E e \in registry["custom"] : e.id = id
  <2>1. [id |-> id, name |-> pat.name, pattern |-> pat.pattern] \in Entry
    BY PatternsAssumption DEF Entry
  <2>. DEFINE entries == {e \in registry["custom"] : e.id # id}
                         \cup {[id |-> id, name |-> pat.name, pattern |-> pat.pattern]}
  <2>2. entries \in SUBSET Entry
    BY <1>2, <2>1 DEF PatternsInv, CopiesInv, Registries
  <2>3. Becomes("custom", entries)
    BY <1>3 DEF Update
  <2>. QED
    BY <1>1, <1>2, <2>2, <2>3, BecomesKeeps DEF PatternsInv
<1>4. CASE ~ \E e \in registry["custom"] : e.id = id
  <2>1. shown' = [shown EXCEPT !["custom"] = registry["custom"]] /\ UNCHANGED <<registry, kept, unsaved>>
    BY <1>4 DEF Update
  <2>2. shown' \in Registries
    BY <1>2, <2>1 DEF PatternsInv, CopiesInv, Registries
  <2>3. StoredIsShown'
    BY <1>2, <2>1 DEF PatternsInv, CopiesInv, Registries, StoredIsShown
  <2>. QED
    BY <1>1, <2>1, <2>2, <2>3 DEF PatternsInv, CopiesInv
<1>. QED
  BY <1>3, <1>4

(***************************************************************************)
(* Imports                                                                 *)
(***************************************************************************)
\* An import: what was taken in from a list that is not done is in the
\* registry alone, and counts as unsaved.
LEMMA ImportKeeps ==
  ASSUME PatternsInv, NEW file \in ImportFiles, ImportFile(file)
  PROVE  CopiesInv' /\ nextId' \in Nat
<1>. DEFINE Length(kind) == IF kind \in DOMAIN file THEN Len(file[kind]) ELSE 0
            reached == {k \in DOMAIN file :
                          ("custom" \in DOMAIN file /\ Breaks(file["custom"])) => k = "custom"}
            done == {k \in reached : ~Breaks(file[k])}
            taken == [k \in Kinds |-> IF k \notin reached THEN {}
                                      ELSE Imported(k, file[k], IF k = "custom" THEN 0 ELSE Length("custom"))]
<1>1. /\ nextId' = nextId + Length("custom") + Length("struct") + 1
      /\ registry' = [k \in Kinds |-> registry[k] \cup taken[k]]
      /\ shown' = [k \in Kinds |-> IF k \in done THEN registry'[k] ELSE shown[k]]
      /\ \E ok \in [done -> BOOLEAN] :
           /\ kept' = [k \in Kinds |-> IF k \in done /\ ok[k] THEN registry'[k] ELSE kept[k]]
           /\ unsaved' = [k \in Kinds |-> IF k \in done THEN ~ok[k] ELSE unsaved[k] \/ taken[k] # {}]
  BY DEF ImportFile
<1>2. PICK ok \in [done -> BOOLEAN] :
        /\ kept' = [k \in Kinds |-> IF k \in done /\ ok[k] THEN registry'[k] ELSE kept[k]]
        /\ unsaved' = [k \in Kinds |-> IF k \in done THEN ~ok[k] ELSE unsaved[k] \/ taken[k] # {}]
  BY <1>1
<1>3. \A k \in DOMAIN file : file[k] \in Seq(Pats \cup {Broken})
  BY PatternsAssumption
<1>4. \A k : Length(k) \in Nat
  BY <1>3
<1>5. \A k \in Kinds : taken[k] \subseteq Entry
  <2>. SUFFICES ASSUME NEW k \in Kinds, k \in reached
                PROVE  taken[k] \subseteq Entry
    OBVIOUS
  <2>1. taken[k] = Imported(k, file[k], IF k = "custom" THEN 0 ELSE Length("custom"))
    OBVIOUS
  <2>2. (IF k = "custom" THEN 0 ELSE Length("custom")) \in Nat
    BY <1>4
  <2>3. file[k] \in Seq(Pats \cup {Broken})
    BY <1>3
  <2>. HIDE DEF taken, reached, Length
  <2>. QED
    BY <2>1, <2>2, <2>3, ImportedType DEF PatternsInv
<1>. HIDE DEF Length, reached, done, taken
<1>6. nextId' \in Nat
  <2>1. Length("custom") \in Nat /\ Length("struct") \in Nat
    BY <1>4
  <2>. QED
    BY <1>1, <2>1 DEF PatternsInv
<1>7. registry' \in Registries
  BY <1>1, <1>5 DEF PatternsInv, CopiesInv, Registries
<1>8. shown' \in Registries
  BY <1>1, <1>7 DEF PatternsInv, CopiesInv, Registries
<1>9. kept' \in Registries
  BY <1>2, <1>7 DEF PatternsInv, CopiesInv, Registries
<1>10. unsaved' \in [Kinds -> BOOLEAN]
  BY <1>2 DEF PatternsInv, CopiesInv
<1>11. StoredIsShown'
  <2>. SUFFICES ASSUME NEW k \in Kinds
                PROVE  /\ shown'[k] \subseteq registry'[k]
                       /\ unsaved'[k] \/ (kept'[k] = shown'[k] /\ shown'[k] = registry'[k])
    BY DEF StoredIsShown
  <2>1. registry'[k] = registry[k] \cup taken[k]
    BY <1>1
  <2>2. CASE k \in done
    <3>1. shown'[k] = registry'[k]
      BY <1>1, <2>2
    <3>2. CASE ok[k]
      <4>1. kept'[k] = registry'[k]
        BY <1>2, <2>2, <3>2
      <4>. QED
        BY <3>1, <4>1
    <3>3. CASE ~ok[k]
      <4>1. unsaved'[k]
        BY <1>2, <2>2, <3>3
      <4>. QED
        BY <3>1, <4>1
    <3>. QED
      BY <3>2, <3>3
  <2>3. CASE k \notin done
    <3>1. shown'[k] = shown[k] /\ kept'[k] = kept[k] /\ unsaved'[k] = (unsaved[k] \/ taken[k] # {})
      BY <1>1, <1>2, <2>3
    <3>2. /\ shown[k] \subseteq registry[k]
          /\ unsaved[k] \/ (kept[k] = shown[k] /\ shown[k] = registry[k])
      BY DEF PatternsInv, CopiesInv, StoredIsShown
    <3>. QED
      BY <2>1, <3>1, <3>2
  <2>. QED
    BY <2>2, <2>3
<1>. QED
  BY <1>6, <1>7, <1>8, <1>9, <1>10, <1>11 DEF CopiesInv

(***************************************************************************)
(* Detection                                                               *)
(***************************************************************************)
\* What is detected are finitely many names.
LEMMA DetectableNames ==
  ASSUME NEW names \in SUBSET Detectable
  PROVE  names \subseteq STRING /\ IsFiniteSet(names) /\ Cardinality(names) \in Nat
<1>1. names \subseteq Structs \cup Implied \cup Candidates
  BY DEF Detectable
<1>2. IsFiniteSet(names)
  BY <1>1, PatternsAssumption, FS_Subset
<1>. QED
  BY <1>1, <1>2, PatternsAssumption, FS_CardinalityType

\* Each detected struct is added and saved; unless the storage fills up on the
\* way the last save has them all.
LEMMA DetectKeeps ==
  ASSUME PatternsInv, DetectMsgStructs
  PROVE  CopiesInv' /\ nextId' \in Nat
<1>. DEFINE names == Detectable \ Names(shown["struct"])
            n == Cardinality(names)
            After(subset) == registry["struct"] \cup subset
<1>1. names \subseteq STRING /\ IsFiniteSet(names) /\ n \in Nat
  BY DetectableNames
<1>2. n # 0
  <2>1. names # {}
    BY DEF DetectMsgStructs
  <2>. QED
    BY <1>1, <2>1, FS_EmptySet
<1>3. nextId' = nextId + n + 1
  BY DEF DetectMsgStructs
<1>4. PICK number \in [names -> 1 .. n], saved \in 0 .. n :
        LET imported == {[id |-> nextId + number[m], name |-> m, pattern |-> m] : m \in names}
        IN  /\ registry' = [registry EXCEPT !["struct"] = After(imported)]
            /\ shown' = [shown EXCEPT !["struct"] = After(imported)]
            /\ kept' = [kept EXCEPT !["struct"] =
                          IF saved = 0 THEN @ ELSE After({e \in imported : e.id <= nextId + saved})]
            /\ unsaved' = [unsaved EXCEPT !["struct"] = saved < n]
  BY DEF DetectMsgStructs
<1>. DEFINE imported == {[id |-> nextId + number[m], name |-> m, pattern |-> m] : m \in names}
<1>5. /\ registry' = [registry EXCEPT !["struct"] = After(imported)]
      /\ shown' = [shown EXCEPT !["struct"] = After(imported)]
      /\ kept' = [kept EXCEPT !["struct"] =
                    IF saved = 0 THEN @ ELSE After({e \in imported : e.id <= nextId + saved})]
      /\ unsaved' = [unsaved EXCEPT !["struct"] = saved < n]
  BY <1>4
<1>6. "struct" \in Kinds
  BY DEF Kinds
<1>. HIDE DEF names, n
<1>7. \A m \in names : /\ nextId + number[m] \in Nat /\ nextId + number[m] <= nextId + n
                         /\ [id |-> nextId + number[m], name |-> m, pattern |-> m] \in Entry
  BY <1>1, <1>4 DEF PatternsInv, Entry
<1>8. imported \subseteq Entry
  BY <1>7
<1>9. \A e \in imported : e.id <= nextId + n
  BY <1>7
<1>. HIDE DEF imported
<1>10. registry["struct"] \in SUBSET Entry
  BY <1>6 DEF PatternsInv, CopiesInv, Registries
<1>11. After(imported) \in SUBSET Entry /\ After({e \in imported : e.id <= nextId + saved}) \in SUBSET Entry
  BY <1>8, <1>10
<1>12. registry' \in Registries /\ shown' \in Registries /\ kept' \in Registries
  BY <1>5, <1>6, <1>11 DEF PatternsInv, CopiesInv, Registries
<1>13. unsaved' \in [Kinds -> BOOLEAN]
  BY <1>5, <1>6 DEF PatternsInv, CopiesInv
<1>14. StoredIsShown'
  <2>. SUFFICES ASSUME NEW k \in Kinds
                PROVE  /\ shown'[k] \subseteq registry'[k]
                       /\ unsaved'[k] \/ (kept'[k] = shown'[k] /\ shown'[k] = registry'[k])
    BY DEF StoredIsShown
  <2>1. CASE k = "struct"
    <3>1. shown'[k] = After(imported) /\ registry'[k] = After(imported)
      BY <1>5, <1>6, <2>1 DEF PatternsInv, CopiesInv, Registries
    <3>2. unsaved'[k] = (saved < n)
      BY <1>5, <1>6, <2>1 DEF PatternsInv, CopiesInv
    <3>3. CASE saved = n
      <4>1. {e \in imported : e.id <= nextId + saved} = imported
        BY <1>9, <3>3
      <4>2. kept'[k] = After(imported)
        BY <1>2, <1>5, <1>6, <2>1, <3>3, <4>1 DEF PatternsInv, CopiesInv, Registries
      <4>. QED
        BY <3>1, <4>2
    <3>4. CASE saved # n
      <4>1. saved < n
        BY <1>1, <3>4
      <4>. QED
        BY <3>1, <3>2, <4>1
    <3>. QED
      BY <3>3, <3>4
  <2>2. CASE k # "struct"
    <3>1. shown'[k] = shown[k] /\ registry'[k] = registry[k] /\ kept'[k] = kept[k] /\ unsaved'[k] = unsaved[k]
      BY <1>5, <2>2 DEF PatternsInv, CopiesInv, Registries
    <3>. QED
      BY <3>1 DEF PatternsInv, CopiesInv, StoredIsShown
  <2>. QED
    BY <2>1, <2>2
<1>15. nextId' \in Nat
  BY <1>1, <1>3 DEF PatternsInv
<1>. QED
  BY <1>12, <1>13, <1>14, <1>15, <1>5 DEF CopiesInv

(***************************************************************************)
(* Clearing, reloading, and all operations of the user                     *)
(***************************************************************************)
LEMMA ClearKeeps ==
  ASSUME PatternsInv, ClearPatterns
  PROVE  PatternsInv'
<1>1. PICK ok \in [Kinds -> BOOLEAN] :
        /\ kept' = [k \in Kinds |-> IF ok[k] THEN {} ELSE kept[k]]
        /\ unsaved' = [k \in Kinds |-> ~ok[k]]
  BY DEF ClearPatterns
<1>2. registry' = [k \in Kinds |-> {}] /\ shown' = [k \in Kinds |-> {}] /\ UNCHANGED <<nextId, editing>>
  BY DEF ClearPatterns
<1>3. registry' \in Registries /\ shown' \in Registries /\ kept' \in Registries
  BY <1>1, <1>2 DEF PatternsInv, CopiesInv, Registries
<1>4. unsaved' \in [Kinds -> BOOLEAN]
  BY <1>1
<1>5. StoredIsShown'
  <2>. SUFFICES ASSUME NEW k \in Kinds
                PROVE  /\ shown'[k] \subseteq registry'[k]
                       /\ unsaved'[k] \/ (kept'[k] = shown'[k] /\ shown'[k] = registry'[k])
    BY DEF StoredIsShown
  <2>1. registry'[k] = {} /\ shown'[k] = {}
    BY <1>2
  <2>2. CASE ok[k]
    BY <1>1, <2>1, <2>2
  <2>3. CASE ~ok[k]
    <3>1. unsaved'[k]
      BY <1>1, <2>3
    <3>. QED
      BY <2>1, <3>1
  <2>. QED
    BY <2>2, <2>3
<1>. QED
  BY <1>2, <1>3, <1>4, <1>5 DEF PatternsInv, CopiesInv

LEMMA ReloadPatternsKeeps ==
  ASSUME PatternsInv, ReloadPatterns
  PROVE  PatternsInv'
BY DEF PatternsInv, CopiesInv, StoredIsShown, ReloadPatterns

LEMMA PatternsUserKeeps ==
  ASSUME PatternsInv, PatternsUser
  PROVE  PatternsInv'
<1>1. CASE \E e \in shown["custom"] : EditPattern(e)
  <2>1. PICK e \in shown["custom"] : EditPattern(e)
    BY <1>1
  <2>2. e \in Entry
    BY <2>1 DEF PatternsInv, CopiesInv, Registries, Kinds
  <2>3. editing' \in Nat /\ UNCHANGED <<registry, shown, kept, unsaved, nextId>>
    BY <2>1, <2>2 DEF EditPattern, Entry
  <2>. QED
    BY <2>3, CopiesUnchanged DEF PatternsInv
<1>2. CASE LeaveEditing
  <2>1. editing' = NoId /\ UNCHANGED <<registry, shown, kept, unsaved, nextId>>
    BY <1>2 DEF LeaveEditing
  <2>. QED
    BY <2>1, CopiesUnchanged DEF PatternsInv
<1>3. CASE \E pat \in Pats : SubmitPattern(pat)
  <2>1. PICK pat \in Pats : SubmitPattern(pat)
    BY <1>3
  <2>2. editing' = NoId
    BY <2>1 DEF SubmitPattern
  <2>3. CASE editing = NoId
    <3>1. Add("custom", pat)
      BY <2>1, <2>3 DEF SubmitPattern
    <3>. QED
      BY <2>2, <3>1, AddKeeps DEF PatternsInv, Kinds
  <2>4. CASE editing # NoId
    <3>1. Update(editing, pat) /\ editing \in Nat
      BY <2>1, <2>4 DEF SubmitPattern, PatternsInv
    <3>. QED
      BY <2>2, <3>1, UpdateKeeps DEF PatternsInv
  <2>. QED
    BY <2>3, <2>4
<1>4. CASE \E kind \in Kinds : \E e \in shown[kind] : RemovePattern(kind, e)
  <2>1. PICK kind \in Kinds : \E e \in shown[kind] : RemovePattern(kind, e)
    BY <1>4
  <2>2. PICK e \in shown[kind] : RemovePattern(kind, e)
    BY <2>1
  <2>3. {x \in registry[kind] : x.id # e.id} \in SUBSET Entry
    BY DEF PatternsInv, CopiesInv, Registries
  <2>4. Becomes(kind, {x \in registry[kind] : x.id # e.id}) /\ UNCHANGED <<nextId, editing>>
    BY <2>2 DEF RemovePattern
  <2>. QED
    BY <2>3, <2>4, BecomesKeeps DEF PatternsInv
<1>5. CASE \E file \in ImportFiles : ImportFile(file)
  <2>1. PICK file \in ImportFiles : ImportFile(file)
    BY <1>5
  <2>2. UNCHANGED editing
    BY <2>1 DEF ImportFile
  <2>. QED
    BY <2>1, <2>2, ImportKeeps DEF PatternsInv
<1>6. CASE \E pat \in Pats : AddMsgStruct(pat)
  BY <1>6, AddKeeps DEF AddMsgStruct, PatternsInv, Kinds
<1>7. CASE ClearMsgStructs
  <2>1. Becomes("struct", {}) /\ UNCHANGED <<nextId, editing>>
    BY <1>7 DEF ClearMsgStructs
  <2>2. "struct" \in Kinds /\ {} \in SUBSET Entry
    BY DEF Kinds
  <2>. QED
    BY <2>1, <2>2, BecomesKeeps DEF PatternsInv
<1>8. CASE DetectMsgStructs
  <2>1. UNCHANGED editing
    BY <1>8 DEF DetectMsgStructs
  <2>. QED
    BY <1>8, <2>1, DetectKeeps DEF PatternsInv
<1>9. CASE ClearPatterns
  BY <1>9, ClearKeeps
<1>. QED
  BY <1>1, <1>2, <1>3, <1>4, <1>5, <1>6, <1>7, <1>8, <1>9 DEF PatternsUser

LEMMA PatternsInitially ==
  ASSUME PatternsInit
  PROVE  PatternsInv
<1>1. kept \in Registries /\ registry = kept /\ shown = kept /\ unsaved = [k \in Kinds |-> FALSE]
  BY PatternsAssumption DEF PatternsInit, Registries
<1>2. IsFiniteSet(kept["custom"]) /\ IsFiniteSet(kept["struct"])
  BY PatternsAssumption DEF PatternsInit, Kinds
<1>3. nextId \in Nat
  BY <1>2, FS_CardinalityType DEF PatternsInit
<1>. QED
  BY <1>1, <1>3 DEF PatternsInit, PatternsInv, CopiesInv, StoredIsShown

(***************************************************************************)
(* The panels together                                                     *)
(***************************************************************************)
SuggestInv ==
  /\ run.running => run.existing \subseteq Entry
  /\ accepted # NoReport => accepted \subseteq Proposals
  /\ actions \in 0 .. MaxActions

PanelsInv == SettingsInv /\ PatternsInv /\ SuggestInv

(***************************************************************************)
(* The steps, by the variables they change                                 *)
(***************************************************************************)
\* A step of the settings, once it keeps their invariant: what follows them does too.
LEMMA SettingsStepKeeps ==
  ASSUME PanelsInv, SettingsInv', SuggestionsFollow, FormFollows,
         UNCHANGED <<registry, shown, kept, unsaved, nextId>>,
         actions' \in 0 .. MaxActions
  PROVE  PanelsInv'
<1>1. PatternsInv'
  <2>1. UNCHANGED <<registry, shown, kept, unsaved, nextId>> /\ editing' \in {editing, NoId}
    BY DEF FormFollows
  <2>. QED
    BY <2>1, CopiesUnchanged DEF PanelsInv, PatternsInv
<1>2. SuggestInv'
  <2>1. CASE UNCHANGED suggestVars
    BY <2>1 DEF suggestVars, PanelsInv, SuggestInv
  <2>2. CASE run' = NoRun /\ accepted' = NoReport
    BY <2>2 DEF NoRun, SuggestInv
  <2>. QED
    BY <2>1, <2>2 DEF SuggestionsFollow
<1>. QED
  BY <1>1, <1>2 DEF PanelsInv

LEMMA RegistriesUnchanged ==
  ASSUME PatternsInv, UNCHANGED patternVars
  PROVE  PatternsInv'
BY CopiesUnchanged DEF PatternsInv, patternVars

LEMMA SuggestKeeps ==
  ASSUME PanelsInv, Suggest, actions' \in 0 .. MaxActions
  PROVE  PanelsInv'
<1>1. SettingsInv' /\ PatternsInv'
  BY SettingsUnchanged, RegistriesUnchanged DEF PanelsInv, Suggest
<1>2. shown["custom"] \subseteq Entry
  BY DEF PanelsInv, PatternsInv, CopiesInv, Registries, Kinds
<1>3. SuggestInv'
  BY <1>2 DEF Suggest, PanelsInv, SuggestInv
<1>. QED
  BY <1>1, <1>3 DEF PanelsInv

LEMMA AcceptKeeps ==
  ASSUME PanelsInv, accepted # NoReport, NEW p \in accepted, Accept(p), actions' \in 0 .. MaxActions
  PROVE  PanelsInv'
<1>1. SettingsInv'
  BY SettingsUnchanged DEF PanelsInv, Accept
<1>2. p \in Proposals
  BY DEF PanelsInv, SuggestInv
<1>3. p.pat \in Pats
  BY <1>2, SuggestionsAssumption
<1>4. PatternsInv'
  <2>1. Add("custom", p.pat) /\ UNCHANGED editing
    BY DEF Accept
  <2>2. CopiesInv' /\ nextId' \in Nat
    BY <1>3, <2>1, AddKeeps DEF PanelsInv, Kinds
  <2>. QED
    BY <2>1, <2>2 DEF PanelsInv, PatternsInv
<1>5. SuggestInv'
  BY DEF Accept, PanelsInv, SuggestInv
<1>. QED
  BY <1>1, <1>4, <1>5 DEF PanelsInv

LEMMA SuggestAnswersKeep ==
  ASSUME PanelsInv, SuggestAnswers
  PROVE  PanelsInv'
<1>1. UNCHANGED <<settingsVars, patternVars, actions>>
  BY DEF SuggestAnswers, SuggestionsArrive, SuggestFails
<1>2. SettingsInv' /\ PatternsInv'
  BY <1>1, SettingsUnchanged, RegistriesUnchanged DEF PanelsInv
<1>3. run' = NoRun
  BY DEF SuggestAnswers, SuggestionsArrive, SuggestFails
<1>4. accepted' # NoReport => accepted' \subseteq Proposals
  BY SuggestionsAssumption DEF SuggestAnswers, SuggestionsArrive, SuggestFails, PanelsInv, SuggestInv
<1>. QED
  BY <1>1, <1>2, <1>3, <1>4 DEF PanelsInv, SuggestInv, NoRun

LEMMA UserKeeps ==
  ASSUME PanelsInv, User
  PROVE  PanelsInv'
<1>1. actions' \in 0 .. MaxActions
  BY SuggestionsAssumption DEF User, PanelsInv, SuggestInv
<1>2. CASE SettingsStep(SettingsUser)
  <2>1. SettingsInv'
    BY <1>2, SettingsUserKeeps DEF PanelsInv, SettingsStep
  <2>. QED
    BY <1>1, <1>2, <2>1, SettingsStepKeeps DEF SettingsStep
<1>3. CASE OnScreen /\ PatternsUser /\ UNCHANGED <<settingsVars, suggestVars>>
  <2>1. SettingsInv' /\ PatternsInv'
    BY <1>3, SettingsUnchanged, PatternsUserKeeps DEF PanelsInv
  <2>. QED
    BY <1>1, <1>3, <2>1 DEF PanelsInv, SuggestInv, suggestVars
<1>4. CASE Suggest
  BY <1>1, <1>4, SuggestKeeps
<1>5. CASE accepted # NoReport /\ \E p \in accepted : Accept(p)
  BY <1>1, <1>5, AcceptKeeps
<1>. QED
  BY <1>2, <1>3, <1>4, <1>5 DEF User

LEMMA ReloadKeeps ==
  ASSUME PanelsInv, Reload
  PROVE  PanelsInv'
<1>1. SettingsInv' /\ PatternsInv'
  BY ReloadSettingsKeeps, ReloadPatternsKeeps DEF PanelsInv, Reload
<1>2. SuggestInv'
  BY SuggestionsAssumption DEF Reload, NoRun, PanelsInv, SuggestInv
<1>. QED
  BY <1>1, <1>2 DEF PanelsInv

LEMMA PanelsStep == PanelsInv /\ [Next]_vars => PanelsInv'
<1>. SUFFICES ASSUME PanelsInv, [Next]_vars
              PROVE  PanelsInv'
  OBVIOUS
<1>1. CASE User
  BY <1>1, UserKeeps
<1>2. CASE \E r \in Refreshes : ListAnswers(r)
  <2>1. PICK r \in Refreshes : ListAnswers(r)
    BY <1>2
  <2>2. SettingsInv'
    BY <2>1, SettingsAnswersKeep DEF PanelsInv, ListAnswers, SettingsStep
  <2>3. actions' \in 0 .. MaxActions
    BY <2>1 DEF ListAnswers, PanelsInv, SuggestInv
  <2>. QED
    BY <2>1, <2>2, <2>3, SettingsStepKeeps DEF ListAnswers, SettingsStep
<1>3. CASE ProbeAnswers
  <2>1. SettingsInv'
    BY <1>3, SettingsAnswersKeep DEF PanelsInv, ProbeAnswers, SettingsStep
  <2>2. actions' \in 0 .. MaxActions
    BY <1>3 DEF ProbeAnswers, PanelsInv, SuggestInv
  <2>. QED
    BY <1>3, <2>1, <2>2, SettingsStepKeeps DEF ProbeAnswers, SettingsStep
<1>4. CASE SuggestAnswers
  BY <1>4, SuggestAnswersKeep
<1>5. CASE Reload
  BY <1>5, ReloadKeeps
<1>6. CASE UNCHANGED vars
  BY <1>6, SettingsUnchanged, RegistriesUnchanged DEF vars, PanelsInv, SuggestInv, suggestVars
<1>. QED
  BY <1>1, <1>2, <1>3, <1>4, <1>5, <1>6 DEF Next

LEMMA PanelsInitially == Init => PanelsInv
<1>. SUFFICES ASSUME Init
              PROVE  PanelsInv
  OBVIOUS
<1>1. SettingsInv /\ PatternsInv
  BY SettingsInitially, PatternsInitially DEF Init
<1>2. SuggestInv
  BY SuggestionsAssumption DEF Init, NoRun, SuggestInv
<1>. QED
  BY <1>1, <1>2 DEF PanelsInv

LEMMA PanelsInvariant == Spec => []PanelsInv
BY PanelsInitially, PanelsStep, PTL DEF Spec

(***************************************************************************)
(* The theorems                                                            *)
(***************************************************************************)
\* Whatever was in localStorage, configurations in use make valid requests, a
\* run of the probes belongs to one that is enabled, and registries hold
\* entries (config.ts 62-91, diagnostics.ts 137-378, patternRegistry.ts 17-99).
THEOREM PanelsTypeCorrect == Spec => []TypeOK
<1>1. PanelsInv => TypeOK
  <2>. SUFFICES ASSUME PanelsInv
                PROVE  TypeOK
    OBVIOUS
  <2>1. config \in Config \cup {NoConfig} /\ appConfig \in Config
    BY DEF PanelsInv, SettingsInv, ConfigInv
  <2>2. refreshes \in [Refreshes -> Config \cup {NoRequest}]
    BY DEF PanelsInv, SettingsInv, ListInv
  <2>3. Probing => probe.config \in Config /\ probe.config.enabled
    BY DEF PanelsInv, SettingsInv, RunInv
  <2>4. \A k \in Kinds : registry[k] \cup kept[k] \subseteq Entry
    BY DEF PanelsInv, PatternsInv, CopiesInv, Registries
  <2>. QED
    BY <2>1, <2>2, <2>3, <2>4 DEF PanelsInv, SuggestInv, TypeOK
<1>. QED
  BY <1>1, PanelsInvariant, PTL

\* The panel, App.tsx and localStorage agree on the settings wherever they are
\* used, however changes of the user, answers of the endpoint, reloads and
\* changes of view interleave (LlmSettings.tsx 50-99, config.ts 66-110).
THEOREM SettingsAgree == Spec => []CopiesAgree
<1>1. PanelsInv => CopiesAgree
  BY DEF PanelsInv, SettingsInv, ConfigInv
<1>. QED
  BY <1>1, PanelsInvariant, PTL

\* No interleaving of the probes with the rest of the panel makes a report that
\* leaves a probe out or calls an endpoint usable that failed one
\* (diagnostics.ts 137-378, LlmSettings.tsx 101-136).
THEOREM UsableIsProbed == Spec => []UsableMeansProbed
<1>1. PanelsInv => UsableMeansProbed
  BY DEF PanelsInv, SettingsInv, ReportInv
<1>. QED
  BY <1>1, PanelsInvariant, PTL

\* What is on screen is what the analyses use and, unless a write was refused
\* or an import broke off, what a reload brings back (App.tsx 328-427,
\* patternRegistry.ts 17-99).
THEOREM RegistriesStored == Spec => []StoredIsShown
<1>1. PanelsInv => StoredIsShown
  BY DEF PanelsInv, PatternsInv, CopiesInv
<1>. QED
  BY <1>1, PanelsInvariant, PTL
===============================================================================
