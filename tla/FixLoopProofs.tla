---------------------------- MODULE FixLoopProofs ----------------------------
(***************************************************************************)
(* Proofs about FixLoop, for any rule pack, any versions and any           *)
(* runaway_limit.                                                          *)
(***************************************************************************)
EXTENDS FixLoop, TLAPS

\* The fixing phases: only fixing gets to a second pass, and so to the post
\* phase, whose rules are the post rules of the pack.
ControlInv ==
    /\ ~fix => phase = "main" /\ loop = 0
    /\ pc = "rules" /\ FirstPass => rulesThisPhase = PackRules
    /\ phase = "post" => rulesThisPhase = PackRules \intersect PostRules

\* What is known of the versions held and of the answer.
VersionInv ==
    /\ {InitVersion, tree} \subseteq previousVersions
    /\ ~fix => tree = InitVersion
    /\ changed => tree # InitVersion
    /\ answer = NoResult <=> pc # "done"
    /\ runaway => pc = "done"

\* The rules already reached in a pass: in the first all have reported, in a
\* post pass that changed nothing all have left the tree alone.
PassInv ==
    /\ FirstPass /\ pc = "pass" => lintedFirst = {}
    /\ FirstPass /\ pc = "rules" => lintedFirst = {RulePack[i] : i \in 1 .. idx - 1}
    /\ phase = "post" /\ pc = "rules" /\ ~changed =>
           \A i \in 1 .. idx - 1 :
              RulePack[i] \in PostRules \intersect FixCompatible => RulePack[i] \in settled

\* Only rules propose fixes.
NoqaInv == \A e \in errors : e.rule = NoRule => ~e.fixable

-----------------------------------------------------------------------------
\* Every rule a pass reaches is a rule.
LEMMA CrawlerIsRule == TypeOK /\ AtRule => Crawler \in Rules /\ Crawler \in PackRules
  BY PackAssumption DEF TypeOK, AtRule, Crawler, PackRules

\* Taking the fixes from an error changes nothing else about it.
LEMMA UnfixableError ==
    ASSUME NEW e \in Errors
    PROVE  Unfixable(e) \in Errors /\ ~Unfixable(e).fixable /\ Unfixable(e).rule = e.rule
  BY DEF Errors, Unfixable

\* What a crawl finds are errors of its rule.
LEMMA FoundErrors ==
    ASSUME TypeOK, AtRule, NEW fixes, NEW found \in Found(fixes)
    PROVE  found \subseteq Errors /\ \A e \in found : e.rule # NoRule
  <1>1. Crawler \in Rules
    BY CrawlerIsRule
  <1>2. found \subseteq [rule : {Crawler}, on : {tree}, fixable : BOOLEAN, templated : BOOLEAN]
    BY DEF Found
  <1> QED
    BY <1>1, <1>2, OutsideAssumption DEF TypeOK, Errors

\* The frame of a crawl: the report grows by errors of rules in the first pass
\* alone, where the crawler is noted, and the loop moves on by one rule.
LEMMA CrawlStep ==
    ASSUME TypeOK, NoqaInv, AtRule, NEW found, Crawl(found),
           found \subseteq Errors, \A e \in found : e.rule # NoRule
    PROVE  /\ errors' \subseteq Errors
           /\ NoqaInv'
           /\ idx' \in 1 .. Len(RulePack) + 1
           /\ lintedFirst' \subseteq Rules
  <1>1. errors' \subseteq errors \union found
    BY DEF Crawl, Report
  <1>2. idx' = idx + 1 /\ idx <= Len(RulePack) /\ Len(RulePack) \in Nat
    BY PackAssumption DEF Crawl, AtRule
  <1>3. lintedFirst' \subseteq lintedFirst \union {Crawler}
    BY DEF Crawl
  <1> QED
    BY <1>1, <1>2, <1>3, CrawlerIsRule DEF TypeOK, NoqaInv

\* A crawl, whatever comes of its fixes, is a Crawl of errors of rules.
LEMMA CrawlRuleCases ==
    ASSUME TypeOK, CrawlRule
    PROVE  /\ AtCrawl
           /\ \E found \in SUBSET Errors : Crawl(found) /\ \A e \in found : e.rule # NoRule
           /\ lastFixes' \in FixSets \union {NoFixes}
           /\ Keeps \/ FixesApplied
  <1>0. AtCrawl /\ AtRule
    BY DEF CrawlRule, NothingToFix, ConflictingFixes, SameFixesAgain, FixesNotApplied,
           FixesApplied, AtCrawl
  <1>1. CASE NothingToFix
    BY <1>0, <1>1, FoundErrors DEF NothingToFix, TypeOK
  <1>2. CASE ConflictingFixes
    <2>1. PICK fixes \in FixSets : \E found \in Found(fixes) : Crawl({Unfixable(e) : e \in found})
      BY <1>2 DEF ConflictingFixes
    <2>2. PICK found \in Found(fixes) : Crawl({Unfixable(e) : e \in found})
      BY <2>1
    <2>3. found \subseteq Errors /\ \A e \in found : e.rule # NoRule
      BY <1>0, FoundErrors
    <2>4. {Unfixable(e) : e \in found} \subseteq Errors
          /\ \A e \in {Unfixable(d) : d \in found} : e.rule # NoRule
      BY <2>3, UnfixableError
    <2> QED
      BY <1>0, <1>2, <2>2, <2>4 DEF ConflictingFixes, TypeOK
  <1>3. CASE SameFixesAgain
    BY <1>0, <1>3, FoundErrors DEF SameFixesAgain, TypeOK
  <1>4. CASE FixesNotApplied
    BY <1>0, <1>4, FoundErrors DEF FixesNotApplied, TypeOK
  <1>5. CASE FixesApplied
    BY <1>0, <1>5, FoundErrors DEF FixesApplied, TypeOK
  <1> QED
    BY <1>1, <1>2, <1>3, <1>4, <1>5 DEF CrawlRule

-----------------------------------------------------------------------------
\* Type correctness, with the one fact about errors it is inductive with.
LEMMA TypeInit == Init => TypeOK /\ NoqaInv
  <1> SUFFICES ASSUME Init PROVE TypeOK /\ NoqaInv
    OBVIOUS
  <1>1. NoqaError \in Errors /\ ~NoqaError.fixable
    BY VersionAssumption DEF NoqaError, Errors
  <1>2. rulesThisPhase \subseteq PackRules /\ Len(RulePack) \in Nat
    BY PackAssumption DEF Init, PhaseRules
  <1>3. errors \subseteq Errors /\ NoqaInv
    BY <1>1 DEF Init, NoqaInv
  <1>4. fix \in BOOLEAN /\ changed \in BOOLEAN /\ runaway \in BOOLEAN
    BY Zenon DEF Init
  <1>5. pc \in {"pass", "rules", "done"} /\ phase \in {"main", "post"} /\ loop \in Nat
        /\ idx \in 1 .. Len(RulePack) + 1
    BY <1>2 DEF Init
  <1>6. tree \in Versions /\ previousVersions \subseteq Versions
        /\ lastFixes \in FixSets \union {NoFixes} /\ answer \in Versions \union {NoResult}
        /\ settled \subseteq Rules /\ lintedFirst \subseteq Rules
    BY VersionAssumption DEF Init
  <1> QED
    BY <1>2, <1>3, <1>4, <1>5, <1>6, Zenon DEF TypeOK

LEMMA TypeStep == TypeOK /\ NoqaInv /\ [Next]_vars => TypeOK' /\ NoqaInv'
  <1> SUFFICES ASSUME TypeOK, NoqaInv, [Next]_vars
               PROVE  TypeOK' /\ NoqaInv'
    OBVIOUS
  <1> USE DEF control, versionVars, outcome, history
  <1>0. Len(RulePack) \in Nat
    BY PackAssumption
  <1>1. CASE StartPass
    <2>1. changed' \in BOOLEAN /\ fix' \in BOOLEAN /\ runaway' \in BOOLEAN
      BY <1>1, Zenon DEF StartPass, TypeOK
    <2>2. rulesThisPhase' \subseteq PackRules /\ idx' \in 1 .. Len(RulePack) + 1
      BY <1>0, <1>1 DEF StartPass, TypeOK
    <2> QED
      BY <1>1, <2>1, <2>2, Zenon DEF StartPass, TypeOK, NoqaInv
  <1>2. CASE SkipRule
    BY <1>0, <1>2 DEF SkipRule, AtRule, TypeOK, NoqaInv
  <1>3. CASE CrawlRule
    <2>1. PICK found \in SUBSET Errors : Crawl(found) /\ \A e \in found : e.rule # NoRule
      BY <1>3, CrawlRuleCases
    <2>2. AtRule /\ (Keeps \/ FixesApplied) /\ lastFixes' \in FixSets \union {NoFixes}
      BY <1>3, CrawlRuleCases DEF AtCrawl
    <2>3. /\ errors' \subseteq Errors
          /\ NoqaInv'
          /\ idx' \in 1 .. Len(RulePack) + 1
          /\ lintedFirst' \subseteq Rules
      BY <2>1, <2>2, CrawlStep
    <2>4. tree' \in Versions /\ changed' \in BOOLEAN /\ previousVersions' \subseteq Versions
          /\ settled' \subseteq Rules
      BY <2>2, CrawlerIsRule DEF Keeps, FixesApplied, TypeOK
    <2> QED
      BY <2>1, <2>2, <2>3, <2>4 DEF Crawl, TypeOK
  <1>4. CASE EnterPost
    BY <1>4 DEF EnterPost, PhaseRules, TypeOK, NoqaInv
  <1>5. CASE RepeatPass
    BY <1>5 DEF RepeatPass, TypeOK, NoqaInv
  <1>6. CASE Runaway
    <2>1. errors' \subseteq Errors /\ NoqaInv'
      BY <1>6, UnfixableError DEF Runaway, TypeOK, NoqaInv
    <2> QED
      BY <1>6, <2>1, VersionAssumption DEF Runaway, TypeOK
  <1>7. CASE Finish
    <2>1. errors' \subseteq errors
      BY <1>7 DEF Finish
    <2> QED
      BY <1>7, <2>1 DEF Finish, TypeOK, NoqaInv
  <1>8. CASE UNCHANGED vars
    BY <1>8 DEF vars, TypeOK, NoqaInv
  <1> QED
    BY <1>1, <1>2, <1>3, <1>4, <1>5, <1>6, <1>7, <1>8 DEF Next, Step, EndPass, Done

\* The variables of lint_fix_parsed always hold values of their types.
THEOREM TypeCorrect == Spec => [](TypeOK /\ NoqaInv)
  <1>1. Init => TypeOK /\ NoqaInv
    BY TypeInit
  <1>2. (TypeOK /\ NoqaInv) /\ [Next]_vars => (TypeOK /\ NoqaInv)'
    BY TypeStep
  <1> QED
    BY <1>1, <1>2, PTL DEF Spec

-----------------------------------------------------------------------------
\* The inductive invariant: types, control, versions and the rules reached.
IInv == TypeOK /\ NoqaInv /\ ControlInv /\ VersionInv /\ PassInv
        /\ FixedIsStable /\ EveryRuleReports /\ RunawayIsUnfixable

LEMMA InvInit == Init => IInv
  <1> SUFFICES ASSUME Init PROVE IInv
    OBVIOUS
  <1>1. TypeOK /\ NoqaInv
    BY TypeInit
  <1>2. ControlInv /\ EveryRuleReports
    BY DEF Init, ControlInv, EveryRuleReports, FirstPass
  <1>3. VersionInv /\ RunawayIsUnfixable
    BY DEF Init, VersionInv, RunawayIsUnfixable
  <1>4. PassInv /\ FixedIsStable
    BY DEF Init, PassInv, FixedIsStable, Fixed
  <1> QED
    BY <1>1, <1>2, <1>3, <1>4 DEF IInv

LEMMA ControlStep == IInv /\ [Next]_vars => ControlInv'
  <1> SUFFICES ASSUME IInv, [Next]_vars PROVE ControlInv'
    OBVIOUS
  <1> USE DEF ControlInv, FirstPass, control
  <1>1. CASE StartPass
    BY <1>1 DEF StartPass, IInv, PhaseRules
  <1>2. CASE SkipRule
    BY <1>2 DEF SkipRule, IInv
  <1>3. CASE CrawlRule
    BY <1>3, CrawlRuleCases DEF Crawl, IInv
  <1>4. CASE EnterPost
    BY <1>4 DEF EnterPost, PhaseRules, IInv, Stable
  <1>5. CASE RepeatPass
    <2>1. fix \/ LastPass
      BY <1>5 DEF IInv, LastPass, LoopLimit
    <2>2. loop' # 0 /\ fix
      BY <1>5, <2>1 DEF RepeatPass, IInv, TypeOK
    <2> QED
      BY <1>5, <2>2 DEF RepeatPass, IInv
  <1>6. CASE Runaway
    BY <1>6 DEF Runaway, IInv
  <1>7. CASE Finish
    BY <1>7 DEF Finish, IInv
  <1>8. CASE UNCHANGED vars
    BY <1>8 DEF vars, IInv
  <1> QED
    BY <1>1, <1>2, <1>3, <1>4, <1>5, <1>6, <1>7, <1>8 DEF Next, Step, EndPass, Done

LEMMA VersionStep == IInv /\ [Next]_vars => VersionInv'
  <1> SUFFICES ASSUME IInv, [Next]_vars PROVE VersionInv'
    OBVIOUS
  <1> USE DEF VersionInv, control, versionVars, outcome, history
  <1>1. CASE StartPass
    BY <1>1 DEF StartPass, IInv
  <1>2. CASE SkipRule
    BY <1>2 DEF SkipRule, IInv
  <1>3. CASE CrawlRule
    <2>1. AtCrawl /\ (Keeps \/ FixesApplied) /\ \E found : Crawl(found)
      BY <1>3, CrawlRuleCases DEF IInv
    <2>2. CASE Keeps
      BY <2>1, <2>2 DEF Keeps, Crawl, IInv
    <2>3. CASE FixesApplied
      BY <2>1, <2>3 DEF FixesApplied, Crawl, IInv
    <2> QED
      BY <2>1, <2>2, <2>3
  <1>4. CASE EnterPost
    BY <1>4 DEF EnterPost, PassDone, IInv
  <1>5. CASE RepeatPass
    BY <1>5 DEF RepeatPass, PassDone, IInv
  <1>6. CASE Runaway
    BY <1>6, OutsideAssumption, VersionAssumption DEF Runaway, IInv
  <1>7. CASE Finish
    BY <1>7, OutsideAssumption DEF Finish, PassDone, IInv, TypeOK
  <1>8. CASE UNCHANGED vars
    BY <1>8 DEF vars, IInv
  <1> QED
    BY <1>1, <1>2, <1>3, <1>4, <1>5, <1>6, <1>7, <1>8 DEF Next, Step, EndPass, Done

LEMMA PassStep == IInv /\ [Next]_vars => PassInv'
  <1> SUFFICES ASSUME IInv, [Next]_vars PROVE PassInv'
    OBVIOUS
  <1> USE DEF PassInv, FirstPass, control, versionVars, history
  <1>0. idx \in Nat /\ Len(RulePack) \in Nat
    BY PackAssumption DEF IInv, TypeOK
  <1>1. CASE StartPass
    BY <1>1 DEF StartPass, IInv
  <1>2. CASE SkipRule
    <2>1. idx' = idx + 1 /\ AtRule /\ ~Crawls
          /\ UNCHANGED <<fix, pc, phase, loop, rulesThisPhase, changed, settled, lintedFirst>>
      BY <1>2 DEF SkipRule
    <2>2. Crawler \in PackRules
      BY <2>1, CrawlerIsRule DEF IInv
    <2>3. ~(FirstPass /\ pc = "rules")
      BY <2>1, <2>2 DEF IInv, ControlInv, Crawls, Skipped
    <2>4. ~(phase = "post" /\ Crawler \in PostRules \intersect FixCompatible)
      BY <2>1, <2>2 DEF IInv, ControlInv, Crawls, Skipped
    <2>5. ASSUME phase' = "post", pc' = "rules", ~changed', NEW i \in 1 .. idx' - 1,
                 RulePack[i] \in PostRules \intersect FixCompatible
          PROVE  RulePack[i] \in settled'
      <3>1. i \in 1 .. idx - 1 \/ i = idx
        BY <1>0, <2>1, <2>5
      <3> QED
        BY <2>1, <2>4, <2>5, <3>1 DEF IInv, Crawler
    <2> QED
      BY <2>1, <2>3, <2>5 DEF AtRule
  <1>3. CASE CrawlRule
    <2>1. AtRule /\ (Keeps \/ FixesApplied) /\ \E found : Crawl(found)
      BY <1>3, CrawlRuleCases DEF IInv, AtCrawl
    <2>2. idx' = idx + 1 /\ UNCHANGED <<fix, pc, phase, loop, rulesThisPhase>>
          /\ lintedFirst' = IF FirstPass THEN lintedFirst \union {Crawler} ELSE lintedFirst
      BY <2>1 DEF Crawl
    <2>3. FirstPass /\ pc = "rules" => lintedFirst' = {RulePack[i] : i \in 1 .. idx' - 1}
      <3>1. 1 .. idx' - 1 = 1 .. idx - 1 \union {idx}
        BY <1>0, <2>2 DEF IInv, TypeOK
      <3> QED
        BY <2>2, <3>1 DEF IInv, Crawler
    <2>4. ASSUME phase' = "post", pc' = "rules", ~changed', NEW i \in 1 .. idx' - 1,
                 RulePack[i] \in PostRules \intersect FixCompatible
          PROVE  RulePack[i] \in settled'
      <3>1. i \in 1 .. idx - 1 \/ i = idx
        BY <1>0, <2>2, <2>4
      <3>2. Keeps
        BY <2>1, <2>4 DEF FixesApplied
      <3> QED
        BY <2>2, <2>4, <3>1, <3>2 DEF IInv, Keeps, Crawler
    <2> QED
      BY <2>1, <2>2, <2>3, <2>4 DEF AtRule
  <1>4. CASE EnterPost
    BY <1>4 DEF EnterPost, IInv
  <1>5. CASE RepeatPass
    BY <1>0, <1>5 DEF RepeatPass, IInv, TypeOK
  <1>6. CASE Runaway
    BY <1>6 DEF Runaway, IInv
  <1>7. CASE Finish
    BY <1>7 DEF Finish, IInv
  <1>8. CASE UNCHANGED vars
    BY <1>8 DEF vars, IInv
  <1> QED
    BY <1>1, <1>2, <1>3, <1>4, <1>5, <1>6, <1>7, <1>8 DEF Next, Step, EndPass, Done

\* The first pass reaches its end only when every rule of the pack has reported.
LEMMA FirstPassReports ==
    IInv /\ PassDone => (phase = "post" \/ loop > 0 \/ lintedFirst = PackRules)
  <1> SUFFICES ASSUME IInv, PassDone, phase # "post", ~(loop > 0)
               PROVE  lintedFirst = PackRules
    OBVIOUS
  <1>1. FirstPass /\ pc = "rules" /\ idx - 1 = Len(RulePack)
    BY PackAssumption DEF IInv, TypeOK, FirstPass, PassDone
  <1>2. lintedFirst = {RulePack[i] : i \in 1 .. Len(RulePack)}
    BY <1>1 DEF IInv, PassInv
  <1> QED
    BY <1>2, PackAssumption DEF PackRules

\* The three safety invariants are kept by every step.
LEMMA SafetyStep ==
    IInv /\ [Next]_vars => FixedIsStable' /\ EveryRuleReports' /\ RunawayIsUnfixable'
  <1> SUFFICES ASSUME IInv, [Next]_vars
               PROVE  FixedIsStable' /\ EveryRuleReports' /\ RunawayIsUnfixable'
    OBVIOUS
  <1> USE DEF FixedIsStable, Fixed, EveryRuleReports, RunawayIsUnfixable,
              control, versionVars, outcome, history
  <1>1. CASE StartPass
    BY <1>1 DEF StartPass, IInv, VersionInv
  <1>2. CASE SkipRule
    BY <1>2 DEF SkipRule, AtRule, IInv, VersionInv
  <1>3. CASE CrawlRule
    <2>1. AtRule /\ \E found : Crawl(found)
      BY <1>3, CrawlRuleCases DEF IInv, AtCrawl
    <2>2. UNCHANGED <<pc, phase, loop, answer, runaway>> /\ pc = "rules"
          /\ (lintedFirst' = lintedFirst \/ FirstPass)
      BY <2>1 DEF Crawl, AtRule
    <2> QED
      BY <2>2 DEF IInv, VersionInv, FirstPass
  <1>4. CASE EnterPost
    BY <1>4, FirstPassReports DEF EnterPost, PassDone, IInv, VersionInv
  <1>5. CASE RepeatPass
    BY <1>5, FirstPassReports DEF RepeatPass, PassDone, IInv, VersionInv
  <1>6. CASE Runaway
    <2>1. \A e \in errors' : ~e.fixable
      BY <1>6, UnfixableError DEF Runaway, IInv, NoqaInv, TypeOK
    <2>2. lintedFirst' = PackRules
      BY <1>6, FirstPassReports DEF Runaway, IInv
    <2> QED
      BY <1>6, <2>1, <2>2 DEF Runaway, IInv, VersionInv
  <1>7. CASE Finish
    <2>1. lintedFirst' = PackRules
      BY <1>7, FirstPassReports DEF Finish, IInv
    <2>2. fix => PackRules \intersect PostRules \intersect FixCompatible \subseteq settled
      <3> SUFFICES ASSUME fix, NEW r \in PackRules, r \in PostRules \intersect FixCompatible
                   PROVE  r \in settled
        OBVIOUS
      <3>1. phase = "post" /\ pc = "rules" /\ ~changed /\ idx - 1 = Len(RulePack)
        BY <1>7, PackAssumption DEF Finish, Stable, PassDone
      <3>2. PICK i \in 1 .. idx - 1 : r = RulePack[i]
        BY <3>1, PackAssumption DEF PackRules
      <3> QED
        BY <3>1, <3>2 DEF IInv, PassInv
    <2>3. ~runaway'
      BY <1>7 DEF Finish, PassDone, IInv, VersionInv
    <2> QED
      BY <1>7, <2>1, <2>2, <2>3 DEF Finish
  <1>8. CASE UNCHANGED vars
    BY <1>8 DEF vars, IInv
  <1> QED
    BY <1>1, <1>2, <1>3, <1>4, <1>5, <1>6, <1>7, <1>8 DEF Next, Step, EndPass, Done

THEOREM Invariance == Spec => []IInv
  <1>1. Init => IInv
    BY InvInit
  <1>2. IInv /\ [Next]_vars => IInv'
    <2> SUFFICES ASSUME IInv, [Next]_vars PROVE IInv'
      OBVIOUS
    <2>1. TypeOK' /\ NoqaInv'
      BY TypeStep DEF IInv
    <2> QED
      BY <2>1, ControlStep, VersionStep, PassStep, SafetyStep DEF IInv
  <1> QED
    BY <1>1, <1>2, PTL DEF Spec

\* Whatever the rules do: a file returned as fixed is one every fixing post
\* rule left alone.
THEOREM FixedFilesAreStable == Spec => []FixedIsStable
  <1>1. IInv => FixedIsStable
    BY DEF IInv
  <1> QED
    BY <1>1, Invariance, PTL

\* No rule of the pack is left out of the report.
THEOREM EveryRuleHasReported == Spec => []EveryRuleReports
  <1>1. IInv => EveryRuleReports
    BY DEF IInv
  <1> QED
    BY <1>1, Invariance, PTL

\* After a runaway no reported error claims to be fixable, and the original
\* tree, which had been left, is returned.
THEOREM RunawaysAreUnfixable == Spec => []RunawayIsUnfixable
  <1>1. IInv => RunawayIsUnfixable
    BY DEF IInv
  <1> QED
    BY <1>1, Invariance, PTL

-----------------------------------------------------------------------------
\* The report is closed after the first pass.
THEOREM ReportIsFrozen == Spec => ReportFrozen
  <1> DEFINE Frozen == ~FirstPass =>
               \A e \in errors' : e \in errors \/ \E d \in errors : e = Unfixable(d)
  <1>1. IInv /\ [Next]_vars => [Frozen]_vars
    <2> SUFFICES ASSUME IInv, Next, ~FirstPass PROVE Frozen
      OBVIOUS
    <2>1. CASE CrawlRule
      BY <2>1, CrawlRuleCases DEF IInv, Crawl, Report
    <2>2. CASE StartPass \/ SkipRule \/ EnterPost \/ RepeatPass \/ Done
      BY <2>2 DEF StartPass, SkipRule, EnterPost, RepeatPass, Done, vars
    <2>3. CASE Runaway \/ Finish
      BY <2>3 DEF Runaway, Finish
    <2> QED
      BY <2>1, <2>2, <2>3 DEF Next, Step, EndPass
  <1> QED
    BY <1>1, Invariance, PTL DEF Spec, ReportFrozen

\* lint_fix_parsed keeps its promise: it starts from the version handed in,
\* adopts only versions it never held, adopts none when linting, and answers
\* once with the version reached or, having moved, the original.
THEOREM LoopImplementsPromise == Spec => ImplementsFixPromise
  <1>1. Init => Promise!Init
    BY DEF Init, Promise!Init
  <1>2. IInv /\ [Next]_vars => [Promise!Next]_(Promise!vars)
    <2> SUFFICES ASSUME IInv, [Next]_vars
                 PROVE  Promise!Next \/ UNCHANGED Promise!vars
      OBVIOUS
    <2> USE DEF control, versionVars, outcome, history, Promise!vars, Promise!Next
    <2>1. CASE StartPass \/ SkipRule \/ EnterPost \/ RepeatPass \/ Done
      BY <2>1 DEF StartPass, SkipRule, EnterPost, RepeatPass, Done, vars
    <2>2. CASE CrawlRule
      <3>1. AtRule /\ (Keeps \/ FixesApplied) /\ \E found : Crawl(found)
        BY <2>2, CrawlRuleCases DEF IInv, AtCrawl
      <3>2. CASE Keeps
        BY <3>1, <3>2 DEF Keeps, Crawl
      <3>3. CASE FixesApplied
        BY <3>1, <3>3 DEF FixesApplied, Crawl, AtRule, IInv, VersionInv, Promise!Adopt
      <3> QED
        BY <3>1, <3>2, <3>3
    <2>3. CASE Runaway
      BY <2>3 DEF Runaway, PassDone, IInv, VersionInv, Promise!GiveUp
    <2>4. CASE Finish
      BY <2>4 DEF Finish, PassDone, IInv, VersionInv, Promise!Finish
    <2>5. CASE UNCHANGED vars
      BY <2>5 DEF vars
    <2> QED
      BY <2>1, <2>2, <2>3, <2>4, <2>5 DEF Next, Step, EndPass
  <1> QED
    BY <1>1, <1>2, Invariance, PTL DEF Spec, ImplementsFixPromise, Promise!Spec
=============================================================================
