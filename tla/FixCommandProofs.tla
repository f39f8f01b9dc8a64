--------------------------- MODULE FixCommandProofs ---------------------------
(***************************************************************************)
(* Proofs about FixCommand, for any number of files: what is not written,  *)
(* what nothing is written before, that the counters agree with the files  *)
(* and what the exit code tells of them.                                   *)
(***************************************************************************)
EXTENDS FixCommand, FiniteSetTheorems, TLAPS

Unparsable == {p \in Delivered : files[p].parse # "ok"}

\* The map of unfiltered errors tells, of the files delivered, the unparsable ones.
MapInv ==
    /\ DOMAIN unfiltered = DOMAIN files
    /\ todo \subseteq DOMAIN files
    /\ \A p \in Delivered : unfiltered[p] > 0 <=> files[p].parse # "ok"
    /\ \A p \in todo : ~(unfiltered[p] > 0)

\* After _handle_unparsable the files that did not parse have lost their fixes.
DiscardInv == pc \notin {"lint", "unparsable"} => fixEven \/ discarded = Unparsable

\* Where the command is, and what has been agreed by then.
StageInv ==
    /\ pc \in {"lint", "unparsable", "ask", "fix", "exit", "done"}
    /\ mode \in Modes
    /\ fatal \subseteq Delivered
    /\ pc = "lint" => fatal = {}
    /\ mode = "stdin" /\ pc # "lint" => todo = {}
    /\ pc = "fix" => mode # "apply"
    /\ mode = "check" => answer \in {"y", "n"}
    /\ mode # "check" => answer # "n"
    /\ pc = "fix" => answer # "n"

Inv == MapInv /\ DiscardInv /\ StageInv /\ UnparsableUntouched

LEMMA InitInv == Init => Inv
  BY DEF Init, Inv, MapInv, DiscardInv, StageInv, UnparsableUntouched, Modes, Delivered

\* A file that is counted is entered in the map, and it may be written at once.
LEMMA DeliveryKeeps ==
    ASSUME Inv, NEW p \in Paths, pc = "lint", p \in todo, todo' = todo \ {p},
           \/ pc' = "lint" /\ fatal' = fatal
           \/ pc' = "unparsable" /\ fatal' = {p} /\ mode # "stdin",
           UNCHANGED <<settings, discarded>>,
           unfiltered' = [unfiltered EXCEPT ![p] = CountIf(files[p].parse # "ok")],
           written' \subseteq written \union {p},
           p \in written' => p \in written \/ fixEven \/ files[p].parse = "ok"
    PROVE  Inv'
  <1>1. UNCHANGED <<mode, fixEven, answer, files>> /\ p \in DOMAIN files
    BY DEF settings, Inv, MapInv
  <1>2. CountIf(files[p].parse # "ok") > 0 <=> files[p].parse # "ok"
    BY DEF CountIf
  <1>3. Delivered' = Delivered \union {p}
    BY <1>1 DEF Delivered
  <1>4. MapInv'
    BY <1>1, <1>2, <1>3 DEF Inv, MapInv
  <1>5. DiscardInv'
    BY <1>1 DEF DiscardInv
  <1>6. StageInv'
    BY <1>1, <1>3 DEF Inv, StageInv
  <1>7. UnparsableUntouched'
    BY <1>1 DEF Inv, UnparsableUntouched
  <1>. QED  BY <1>4, <1>5, <1>6, <1>7 DEF Inv

LEMMA LintFileKeeps ==
    ASSUME Inv, NEW p \in Paths, LintFile(p) \/ LintFatal(p)
    PROVE  Inv'
  <1>1. CASE LintFile(p)
    <2>1. /\ pc = "lint" /\ p \in todo /\ todo' = todo \ {p}
          /\ \/ pc' = "lint" /\ fatal' = fatal
             \/ pc' = "unparsable" /\ fatal' = {p} /\ mode # "stdin"
          /\ UNCHANGED <<settings, discarded>>
          /\ unfiltered' = [unfiltered EXCEPT ![p] = CountIf(files[p].parse # "ok")]
      BY <1>1 DEF LintFile, Add
    <2>2. written' \subseteq written \union {p}
      BY <1>1 DEF LintFile
    <2>3. p \in written' => p \in written \/ fixEven \/ files[p].parse = "ok"
      BY <1>1 DEF LintFile
    <2>. QED  BY <2>1, <2>2, <2>3, DeliveryKeeps
  <1>2. CASE LintFatal(p)
    <2>1. /\ pc = "lint" /\ p \in todo /\ todo' = todo \ {p} /\ pc' = "unparsable"
          /\ fatal' = {p} /\ mode # "stdin" /\ UNCHANGED <<settings, discarded>>
          /\ unfiltered' = [unfiltered EXCEPT ![p] = CountIf(files[p].parse # "ok")]
          /\ written' = written
      BY <1>2 DEF LintFatal, Add
    <2>. QED  BY <2>1, DeliveryKeeps
  <1>. QED  BY <1>1, <1>2

LEMMA HandleUnparsableKeeps == Inv /\ HandleUnparsable => Inv'
  <1>. SUFFICES ASSUME Inv, HandleUnparsable PROVE Inv'
    OBVIOUS
  <1>1. /\ pc = "unparsable" /\ pc' = (IF mode = "stdin" THEN "fix" ELSE "ask")
        /\ UNCHANGED <<settings, todo, fatal, unfiltered, filtered, written>>
        /\ fixEven \/ discarded' = {p \in DOMAIN files : unfiltered[p] > 0}
    BY DEF HandleUnparsable
  <1>2. UNCHANGED <<mode, fixEven, answer, files, Delivered>>
    BY <1>1 DEF settings, Delivered
  <1>3. MapInv'
    BY <1>1, <1>2 DEF Inv, MapInv
  <1>4. {p \in DOMAIN files : unfiltered[p] > 0} = Unparsable
    BY DEF Inv, MapInv, Unparsable, Delivered
  <1>5. DiscardInv'
    BY <1>1, <1>2, <1>4 DEF DiscardInv, Unparsable
  <1>6. StageInv' /\ UnparsableUntouched'
    BY <1>1, <1>2 DEF Inv, StageInv, UnparsableUntouched, Modes
  <1>. QED  BY <1>3, <1>5, <1>6 DEF Inv

\* Once fixes are discarded, a file that still has fixes is one that parsed.
LEMMA WithFixesParsed ==
    ASSUME Inv, pc = "fix", ~fixEven
    PROVE  \A p \in Delivered : WithFixes(p) # {} => files[p].parse = "ok"
  BY DEF Inv, DiscardInv, Unparsable, WithFixes

LEMMA DoFixesKeeps == Inv /\ DoFixes => Inv'
  <1>. SUFFICES ASSUME Inv, DoFixes PROVE Inv'
    OBVIOUS
  <1>1. /\ pc = "fix" /\ pc' \in {"exit", "done"} /\ written' = {p \in Delivered : Persists(p)}
        /\ UNCHANGED <<settings, todo, fatal, counters, discarded>>
    BY DEF DoFixes
  <1>2. UNCHANGED <<mode, fixEven, answer, files, unfiltered, Delivered>>
    BY <1>1 DEF settings, counters, Delivered
  <1>3. MapInv' /\ DiscardInv' /\ StageInv'
    BY <1>1, <1>2 DEF Inv, MapInv, DiscardInv, StageInv, Unparsable
  <1>4. UnparsableUntouched'
    BY <1>1, <1>2, WithFixesParsed DEF UnparsableUntouched, Persists
  <1>. QED  BY <1>3, <1>4 DEF Inv

LEMMA ExitStdinKeeps == Inv /\ ExitStdin => Inv'
  <1>. SUFFICES ASSUME Inv, ExitStdin PROVE Inv'
    OBVIOUS
  <1>1. /\ pc = "fix" /\ pc' = "done"
        /\ written' \subseteq {p \in DOMAIN files : WithFixes(p) # {}}
        /\ mode = "stdin" /\ UNCHANGED <<settings, todo, fatal, counters, discarded>>
    BY DEF ExitStdin
  <1>2. UNCHANGED <<mode, fixEven, answer, files, unfiltered, Delivered>> /\ Delivered = DOMAIN files
    BY <1>1 DEF settings, counters, Delivered, Inv, StageInv
  <1>3. MapInv' /\ DiscardInv' /\ StageInv'
    BY <1>1, <1>2 DEF Inv, MapInv, DiscardInv, StageInv, Unparsable
  <1>4. UnparsableUntouched'
    BY <1>1, <1>2, WithFixesParsed DEF UnparsableUntouched
  <1>. QED  BY <1>3, <1>4 DEF Inv

\* The other steps move the command on, and write nothing.
LEMMA StageKeeps == Inv /\ (LintEnds \/ Ask \/ ExitPaths \/ UNCHANGED vars) => Inv'
  <1>. SUFFICES ASSUME Inv, LintEnds \/ Ask \/ ExitPaths \/ UNCHANGED vars PROVE Inv'
    OBVIOUS
  <1>1. /\ UNCHANGED <<settings, todo, fatal, counters, discarded, written>>
        /\ \/ pc = "lint" /\ (mode = "stdin" => todo = {}) /\ pc' = "unparsable"
           \/ pc = "ask" /\ pc' = "fix" /\ mode = "check" /\ answer = "y"
           \/ pc \in {"ask", "exit"} /\ pc' \in {"exit", "done"}
           \/ pc' = pc
    BY DEF LintEnds, Ask, ExitPaths, vars
  <1>2. UNCHANGED <<mode, fixEven, answer, files, unfiltered, Delivered>>
    BY <1>1 DEF settings, counters, Delivered
  <1>3. MapInv' /\ DiscardInv' /\ StageInv'
    BY <1>1, <1>2 DEF Inv, MapInv, DiscardInv, StageInv, Unparsable
  <1>4. UnparsableUntouched'
    BY <1>1, <1>2 DEF Inv, UnparsableUntouched
  <1>. QED  BY <1>3, <1>4 DEF Inv

\* The inductive invariant of the fix command holds in every behaviour.
THEOREM Invariance == Spec => []Inv
  <1>1. Inv /\ [Next]_vars => Inv'
    BY LintFileKeeps, HandleUnparsableKeeps, DoFixesKeeps, ExitStdinKeeps, StageKeeps DEF Next, Done
  <1>. QED  BY <1>1, InitInv, PTL DEF Spec

\* Without --FIX-EVEN-UNPARSABLE, _paths_fix and _stdin_fix write no file that failed
\* to template or parse, in any mode and for any number of files.
THEOREM UnparsableStayUntouched == Spec => []UnparsableUntouched
  <1>1. Inv => UnparsableUntouched
    BY DEF Inv
  <1>. QED  BY <1>1, Invariance, PTL

\* With --check, or from stdin, nothing is written before linting is over, nor after
\* the user has said no to do_fixes, nor is a file that was never linted.
THEOREM WritesWait == Spec => WritesAwaitConsent
  <1>1. ASSUME Inv, [Next]_vars, written' # written, mode # "apply"
        PROVE  pc # "lint" /\ answer # "n" /\ written' \subseteq Delivered
    <2>1. DoFixes \/ ExitStdin
      <3>1. CASE \E p \in Paths : LintFile(p) \/ LintFatal(p)
        BY <1>1, <3>1 DEF LintFile, LintFatal
      <3>2. CASE LintEnds \/ HandleUnparsable \/ Ask \/ ExitPaths \/ Done \/ UNCHANGED vars
        BY <1>1, <3>2 DEF LintEnds, HandleUnparsable, Ask, ExitPaths, Done, vars
      <3>. QED  BY <1>1, <3>1, <3>2 DEF Next
    <2>2. pc = "fix"
      BY <2>1 DEF DoFixes, ExitStdin
    <2>3. written' \subseteq Delivered
      BY <1>1, <2>1, <2>2 DEF DoFixes, ExitStdin, Inv, StageInv, Delivered
    <2>. QED  BY <1>1, <2>2, <2>3 DEF Inv, StageInv
  <1>2. Inv /\ [Next]_vars =>
            [written' # written /\ mode # "apply" =>
                 pc # "lint" /\ answer # "n" /\ written' \subseteq Delivered]_vars
    BY <1>1
  <1>. QED  BY <1>2, Invariance, PTL DEF Spec, WritesAwaitConsent

-----------------------------------------------------------------------------
(* Counts and exit code.                                                   *)

Fixable(p) == {v \in files[p].lint : v.fixable}

FilesInv ==
    /\ DOMAIN files \subseteq Paths
    /\ \A p \in DOMAIN files : files[p].lint \subseteq LintKinds

\* Fixes are discarded once, and not with fix_even_unparsable.
KeepInv ==
    /\ discarded \subseteq {p \in DOMAIN files : unfiltered[p] > 0}
    /\ pc \in {"lint", "unparsable"} \/ fixEven => discarded = {}

CountInv == filtered = Cardinality(Failed) /\ unfixable = Cardinality(Unfixables)

\* What lint_paths wrote when it fixes files one by one.
WriteInv ==
    /\ written \subseteq Delivered
    /\ mode = "apply" => written \cap fatal = {}
    /\ mode = "apply" =>
           \A p \in Delivered \ fatal :
               p \in written <=> /\ fixEven \/ files[p].parse = "ok"
                                /\ Fixable(p) # {}
                                /\ files[p].changes

\* With --check the command goes on to its end only if it wrote all it could.
AskInv ==
    mode = "check" /\ pc \in {"exit", "done"} /\ exit = ExitSuccess =>
        \A p \in Delivered : WithFixes(p) # {} => p \in written

\* What has to have happened for the exit code to be what it is.
ExitInv ==
    /\ exit \in {ExitSuccess, ExitFail}
    /\ pc \notin {"lint", "unparsable"} /\ ~fixEven /\ filtered > 0 => exit = ExitFail
    /\ pc = "done" /\ mode # "stdin" /\ exit = ExitSuccess => unfixable = 0 /\ ~skipFails

Counting == FilesInv /\ KeepInv /\ CountInv /\ WriteInv /\ AskInv /\ ExitInv

\* Violations are of four kinds, so that a finite set of paths has finitely many.
LEMMA KindsAreFinite == IsFiniteSet(LintKinds)
  <1>. DEFINE K(f, w) == [fixable |-> f, warning |-> w]
              All == (({K(TRUE, TRUE)} \union {K(TRUE, FALSE)}) \union {K(FALSE, TRUE)})
                         \union {K(FALSE, FALSE)}
  <1>1. ASSUME NEW k \in LintKinds PROVE k \in All
    <2>1. k = K(k.fixable, k.warning) /\ k.fixable \in BOOLEAN /\ k.warning \in BOOLEAN
      BY DEF LintKinds
    <2>2. k = K(TRUE, TRUE) \/ k = K(TRUE, FALSE) \/ k = K(FALSE, TRUE) \/ k = K(FALSE, FALSE)
      BY <2>1
    <2>. HIDE DEF K
    <2>. QED  BY <2>2
  <1>2. IsFiniteSet(All)
    <2>. HIDE DEF K
    <2>1. IsFiniteSet({K(TRUE, TRUE)})
      BY FS_Singleton
    <2>2. IsFiniteSet({K(TRUE, TRUE)} \union {K(TRUE, FALSE)})
      BY <2>1, FS_AddElement
    <2>3. IsFiniteSet(({K(TRUE, TRUE)} \union {K(TRUE, FALSE)}) \union {K(FALSE, TRUE)})
      BY <2>2, FS_AddElement
    <2>. QED  BY <2>3, FS_AddElement
  <1>. HIDE DEF All
  <1>. QED  BY <1>1, <1>2, FS_Subset

LEMMA ViolationsAreFinite ==
    ASSUME NEW S, IsFiniteSet(S)
    PROVE  IsFiniteSet(Violations(S))
  BY KindsAreFinite, FS_Product DEF Violations

LEMMA ViolationsOf ==
    /\ \A S, T : S \subseteq T => Violations(S) \subseteq Violations(T)
    /\ \A S : \A w \in Violations(S) : w[1] \in S /\ w[2] \in LintKinds /\ w = <<w[1], w[2]>>
    /\ \A S : \A p \in S, v \in LintKinds : <<p, v>> \in Violations(S)
  BY DEF Violations

LEMMA CountsAreFinite ==
    ASSUME FilesInv
    PROVE  /\ IsFiniteSet(DOMAIN files)
           /\ IsFiniteSet(Failed) /\ IsFiniteSet(Unfixables)
           /\ \A S \in SUBSET DOMAIN files : IsFiniteSet(FixableIn(S))
           /\ Cardinality(Failed) \in Nat /\ Cardinality(Unfixables) \in Nat
  <1>1. IsFiniteSet(DOMAIN files)
    BY PathsAssumption, FS_Subset DEF FilesInv
  <1>2. IsFiniteSet(Failed)
    BY <1>1, FS_Subset DEF Failed, Delivered
  <1>3. IsFiniteSet(Violations(DOMAIN files))
    BY <1>1, ViolationsAreFinite
  <1>4. IsFiniteSet(Unfixables)
    <2>1. Unfixables \subseteq Violations(DOMAIN files)
      BY ViolationsOf DEF Unfixables, Delivered
    <2>. QED  BY <1>3, <2>1, FS_Subset
  <1>5. ASSUME NEW S \in SUBSET DOMAIN files PROVE IsFiniteSet(FixableIn(S))
    <2>1. FixableIn(S) \subseteq Violations(DOMAIN files)
      BY ViolationsOf DEF FixableIn
    <2>. QED  BY <1>3, <2>1, FS_Subset
  <1>. QED  BY <1>1, <1>2, <1>4, <1>5, FS_CardinalityType

LEMMA InitCounting == Init => Counting
  <1>. SUFFICES ASSUME Init PROVE Counting
    OBVIOUS
  <1>1. FilesInv
    <2>1. PICK S \in SUBSET Paths : files \in [S -> FileStates]
      BY PathsAssumption DEF Init
    <2>. QED  BY <2>1 DEF FilesInv, FileStates
  <1>2. Failed = {} /\ Unfixables = {}
    BY ViolationsOf DEF Init, Failed, Unfixables, Delivered
  <1>3. CountInv
    BY <1>2, FS_EmptySet DEF Init, CountInv
  <1>4. KeepInv /\ WriteInv /\ AskInv /\ ExitInv
    BY DEF Init, KeepInv, WriteInv, AskInv, ExitInv, Delivered
  <1>. QED  BY <1>1, <1>3, <1>4 DEF Counting

\* A file is counted when it is delivered, and written if it is to be.
LEMMA DeliveryCounts ==
    ASSUME Inv, Counting, NEW p \in Paths, LintFile(p) \/ LintFatal(p)
    PROVE  Counting'
  <1>. DEFINE V == {v \in files[p].lint : ~v.fixable /\ ~v.warning}
  <1>1. /\ pc = "lint" /\ pc' \in {"lint", "unparsable"} /\ p \in todo /\ todo' = todo \ {p}
        /\ discarded = {} /\ fatal = {}
        /\ mode' = mode /\ fixEven' = fixEven /\ files' = files /\ skipFails' = skipFails
        /\ discarded' = discarded /\ exit' = exit
        /\ filtered' = filtered + CountIf(files[p].parse \in {"TMP", "PRS"})
        /\ unfixable' = unfixable + Cardinality(V)
        /\ \/ /\ fatal' = {}
              /\ written' = IF mode = "apply" /\ (fixEven \/ files[p].parse = "ok") /\ Persists(p)
                            THEN written \union {p} ELSE written
           \/ fatal' = {p} /\ written' = written
    <2>1. CASE LintFile(p)
      BY <2>1 DEF LintFile, Add, settings, Counting, KeepInv, Inv, StageInv
    <2>2. CASE LintFatal(p)
      BY <2>2 DEF LintFatal, Add, settings, Counting, KeepInv, Inv, StageInv
    <2>. QED  BY <2>1, <2>2
  <1>2. p \in DOMAIN files /\ p \notin written /\ files[p].lint \subseteq LintKinds
    BY <1>1 DEF Inv, MapInv, Counting, WriteInv, FilesInv, Delivered
  <1>0. Delivered' = Delivered \union {p} /\ p \notin Delivered
    BY <1>1, <1>2 DEF Delivered
  <1>3. FilesInv' /\ KeepInv'
    BY <1>1 DEF Counting, FilesInv, KeepInv
  <1>4. filtered' = Cardinality(Failed')
    <2>1. Failed' = IF files[p].parse \in {"TMP", "PRS"} THEN Failed \union {p} ELSE Failed
      BY <1>1, <1>0 DEF Failed
    <2>2. p \notin Failed
      BY <1>0 DEF Failed
    <2>3. Cardinality(Failed \union {p}) = Cardinality(Failed) + 1
      BY <2>2, CountsAreFinite, FS_AddElement DEF Counting
    <2>. QED  BY <1>1, <2>1, <2>3, CountsAreFinite DEF Counting, CountInv, CountIf
  <1>5. unfixable' = Cardinality(Unfixables')
    <2>. DEFINE W == {p} \X V
    <2>1. Unfixables' = Unfixables \union W
      <3>1. W = {w \in Violations({p}) : w[2] \in V}
        BY <1>2 DEF Violations
      <3>2. Violations(Delivered') = Violations(Delivered) \union Violations({p})
        BY <1>0 DEF Violations
      <3>3. \A w \in Violations({p}) : w[1] = p
        BY ViolationsOf
      <3>. HIDE DEF W
      <3>. QED  BY <1>1, <3>1, <3>2, <3>3 DEF Unfixables
    <2>2. Unfixables \intersect W = {}
      <3>1. \A w \in Unfixables : w[1] # p
        BY <1>0, ViolationsOf DEF Unfixables
      <3>. QED  BY <3>1
    <2>3. IsFiniteSet(V)
      BY <1>2, KindsAreFinite, FS_Subset
    <2>4. IsFiniteSet(W) /\ Cardinality(V) \in Nat /\ Cardinality(W) = Cardinality(V)
      <3>1. IsFiniteSet({p}) /\ Cardinality({p}) = 1
        BY FS_Singleton
      <3>2. Cardinality(V) \in Nat
        BY <2>3, FS_CardinalityType
      <3>3. IsFiniteSet(W) /\ Cardinality(W) = Cardinality({p}) * Cardinality(V)
        BY <2>3, <3>1, FS_Product
      <3>. HIDE DEF V, W
      <3>. QED  BY <3>1, <3>2, <3>3
    <2>. HIDE DEF V, W
    <2>5. Cardinality(Unfixables \union W) = Cardinality(Unfixables) + Cardinality(W)
      <3>1. IsFiniteSet(Unfixables) /\ Cardinality(Unfixables) \in Nat
        BY CountsAreFinite DEF Counting
      <3>2. Cardinality(Unfixables \intersect W) = 0
        BY <2>2, FS_EmptySet
      <3>3. Cardinality(Unfixables \union W) =
                Cardinality(Unfixables) + Cardinality(W) - Cardinality(Unfixables \intersect W)
        BY <2>4, <3>1, FS_Union
      <3>. QED  BY <2>4, <3>1, <3>2, <3>3
    <2>. QED  BY <1>1, <2>1, <2>4, <2>5 DEF Counting, CountInv
  <1>6. WriteInv'
    <2>1. Persists(p) <=> Fixable(p) # {} /\ files[p].changes
      BY <1>1 DEF Persists, WithFixes, Fixable
    <2>2. Fixable(p)' = Fixable(p) /\ \A q \in DOMAIN files : Fixable(q)' = Fixable(q)
      BY <1>1 DEF Fixable
    <2>3. /\ written \subseteq Delivered /\ mode' = mode
          /\ written' \subseteq Delivered \union {p}
      BY <1>1 DEF Counting, WriteInv
    <2>4. \A q \in Delivered : q # p /\ files'[q] = files[q] /\ (q \in written' <=> q \in written)
      BY <1>0, <1>1
    <2>5. mode = "apply" => written' \cap fatal' = {}
      BY <1>1, <1>2
    <2>6. mode = "apply" /\ p \notin fatal' =>
              (p \in written' <=> /\ fixEven \/ files[p].parse = "ok"
                                  /\ Fixable(p) # {}
                                  /\ files[p].changes)
      BY <1>1, <1>2, <2>1
    <2>7. /\ Delivered' = Delivered \union {p} /\ fixEven' = fixEven /\ files' = files
          /\ \A q \in Delivered : q \in DOMAIN files
          /\ Fixable(p)' = Fixable(p)
      BY <1>0, <1>1, <2>2 DEF Delivered
    <2>8. mode = "apply" =>
              \A q \in Delivered :
                  q \in written <=> /\ fixEven \/ files[q].parse = "ok"
                                    /\ Fixable(q) # {}
                                    /\ files[q].changes
      BY <1>1 DEF Counting, WriteInv
    <2>. QED  BY <1>2, <2>2, <2>3, <2>4, <2>5, <2>6, <2>7, <2>8 DEF WriteInv
  <1>7. AskInv' /\ ExitInv'
    BY <1>1 DEF Counting, AskInv, ExitInv
  <1>. QED  BY <1>3, <1>4, <1>5, <1>6, <1>7 DEF Counting, CountInv

\* What loses its fixes was not counted before, for it could be fixed.
LEMMA HandleUnparsableCounts == Inv /\ Counting /\ HandleUnparsable => Counting'
  <1>. SUFFICES ASSUME Inv, Counting, HandleUnparsable PROVE Counting'
    OBVIOUS
  <1>. DEFINE lost == {p \in DOMAIN files : unfiltered[p] > 0}
  <1>1. /\ pc = "unparsable" /\ pc' \in {"fix", "ask"} /\ todo' = todo /\ fatal' = fatal /\ discarded = {}
        /\ mode' = mode /\ fixEven' = fixEven /\ files' = files /\ skipFails' = skipFails
        /\ unfiltered' = unfiltered /\ filtered' = filtered /\ written' = written
        /\ IF fixEven THEN UNCHANGED <<discarded, unfixable, exit>>
           ELSE /\ discarded' = lost
                /\ unfixable' = unfixable + Cardinality(FixableIn(lost))
                /\ exit' = IF filtered > 0 THEN ExitFail ELSE ExitSuccess
    BY DEF HandleUnparsable, settings, Counting, KeepInv, Inv, StageInv
  <1>6. Delivered' = Delivered /\ lost \subseteq Delivered
    BY <1>1 DEF Delivered, Inv, MapInv
  <1>2. FilesInv' /\ KeepInv'
    BY <1>1 DEF Counting, FilesInv, KeepInv
  <1>3. filtered' = Cardinality(Failed')
    <2>1. Failed' = Failed
      BY <1>1, <1>6 DEF Failed
    <2>. QED  BY <1>1, <2>1 DEF Counting, CountInv
  <1>4. unfixable' = Cardinality(Unfixables')
    <2>1. CASE fixEven
      BY <1>1, <1>6, <2>1 DEF Counting, CountInv, Unfixables
    <2>2. CASE ~fixEven
      <3>1. Unfixables' = Unfixables \union FixableIn(lost)
        <4>1. Violations(lost) \subseteq Violations(Delivered)
          BY <1>6, ViolationsOf
        <4>2. \A w \in Violations(Delivered) :
                  /\ w \in Violations(lost) <=> w[1] \in lost
                  /\ w[2] \in WithFixes(w[1]) <=> w[2] \in files[w[1]].lint /\ w[2].fixable
          BY <1>1, ViolationsOf DEF WithFixes
        <4>. HIDE DEF lost
        <4>. QED  BY <1>1, <1>6, <2>2, <4>1, <4>2 DEF Unfixables, FixableIn
      <3>2. Unfixables \intersect FixableIn(lost) = {}
        BY <1>1 DEF Unfixables, FixableIn, WithFixes
      <3>3. /\ IsFiniteSet(Unfixables) /\ Cardinality(Unfixables) \in Nat
            /\ IsFiniteSet(FixableIn(lost)) /\ Cardinality(FixableIn(lost)) \in Nat
        BY CountsAreFinite, FS_CardinalityType DEF Counting
      <3>4. Cardinality(Unfixables \union FixableIn(lost)) =
                Cardinality(Unfixables) + Cardinality(FixableIn(lost))
        <4>. HIDE DEF lost
        <4>1. Cardinality(Unfixables \intersect FixableIn(lost)) = 0
          BY <3>2, FS_EmptySet
        <4>2. Cardinality(Unfixables \union FixableIn(lost)) =
                  Cardinality(Unfixables) + Cardinality(FixableIn(lost))
                      - Cardinality(Unfixables \intersect FixableIn(lost))
          BY <3>3, FS_Union
        <4>. QED  BY <3>3, <4>1, <4>2
      <3>. HIDE DEF lost
      <3>. QED  BY <1>1, <2>2, <3>1, <3>4 DEF Counting, CountInv
    <2>. QED  BY <2>1, <2>2
  <1>5. WriteInv' /\ AskInv' /\ ExitInv'
    BY <1>1, <1>6 DEF Counting, WriteInv, AskInv, ExitInv, Fixable
  <1>. QED  BY <1>2, <1>3, <1>4, <1>5 DEF Counting, CountInv

\* The counters are of files, their violations and what was discarded.
LEMMA CountsStand ==
    ASSUME Counting, UNCHANGED <<files, todo, discarded, filtered, unfixable>>
    PROVE  CountInv' /\ FilesInv'
  BY DEF Counting, CountInv, FilesInv, Failed, Unfixables, Delivered

\* The user is asked unless no file has fixes.
LEMMA AskCounts == Inv /\ Counting /\ Ask => Counting'
  <1>. SUFFICES ASSUME Inv, Counting, Ask PROVE Counting'
    OBVIOUS
  <1>1. /\ pc = "ask" /\ UNCHANGED <<settings, todo, fatal, counters, discarded, written>>
        /\ UNCHANGED <<mode, fixEven, files, skipFails, unfiltered, filtered, unfixable, Delivered>>
        /\ pc' = "fix" \/ (pc' = "exit" /\ (exit' = ExitFail \/ ~(mode = "check" /\ NumFixable > 0)))
        /\ exit' = exit \/ exit' = ExitFail
    BY DEF Ask, settings, counters, Delivered
  <1>2. CountInv' /\ FilesInv'
    BY <1>1, CountsStand
  <1>3. KeepInv' /\ WriteInv' /\ ExitInv'
    BY <1>1 DEF Counting, KeepInv, WriteInv, ExitInv, Fixable
  <1>4. AskInv'
    <2>. SUFFICES ASSUME mode = "check", pc' = "exit", exit' # ExitFail,
                         NEW p \in Delivered, WithFixes(p) # {}
                  PROVE  FALSE
      BY <1>1 DEF AskInv, WithFixes, ExitSuccess, ExitFail
    <2>1. ~(NumFixable > 0)
      BY <1>1
    <2>2. PICK v \in LintKinds : v \in WithFixes(p)
      BY DEF WithFixes, Counting, FilesInv, Delivered
    <2>3. <<p, v>> \in FixableIn(Delivered)
      BY <2>2, ViolationsOf DEF FixableIn
    <2>4. IsFiniteSet(FixableIn(Delivered))
      BY CountsAreFinite DEF Counting, Delivered
    <2>5. NumFixable \in Nat /\ NumFixable # 0
      BY <2>3, <2>4, FS_CardinalityType, FS_EmptySet DEF NumFixable
    <2>. QED  BY <2>1, <2>5
  <1>. QED  BY <1>2, <1>3, <1>4 DEF Counting

LEMMA DoFixesCounts == Inv /\ Counting /\ DoFixes => Counting'
  <1>. SUFFICES ASSUME Inv, Counting, DoFixes PROVE Counting'
    OBVIOUS
  <1>1. /\ pc = "fix" /\ mode = "check"
        /\ UNCHANGED <<mode, fixEven, files, skipFails, unfiltered, filtered, unfixable, todo, fatal,
                       discarded, Delivered>>
        /\ written' = {p \in Delivered : Persists(p)}
        /\ \/ pc' = "exit" /\ exit' = exit /\ \A p \in Delivered : PersistSucceeds(p)
           \/ pc' = "done" /\ exit' = ExitFail
    BY DEF DoFixes, settings, counters, Delivered
  <1>2. CountInv' /\ FilesInv'
    BY <1>1, CountsStand
  <1>3. KeepInv' /\ WriteInv' /\ ExitInv'
    BY <1>1 DEF Counting, KeepInv, WriteInv, ExitInv, ExitSuccess, ExitFail
  <1>4. AskInv'
    BY <1>1 DEF AskInv, Persists, PersistSucceeds, WithFixes, ExitSuccess, ExitFail
  <1>. QED  BY <1>2, <1>3, <1>4 DEF Counting

LEMMA ExitStdinCounts == Inv /\ Counting /\ ExitStdin => Counting'
  <1>. SUFFICES ASSUME Inv, Counting, ExitStdin PROVE Counting'
    OBVIOUS
  <1>1. /\ pc = "fix" /\ pc' = "done" /\ mode = "stdin" /\ Delivered = DOMAIN files
        /\ UNCHANGED <<mode, fixEven, files, skipFails, unfiltered, filtered, unfixable, todo, fatal,
                       discarded, Delivered>>
        /\ written' \subseteq DOMAIN files
        /\ exit' = exit \/ exit' = ExitFail
    BY DEF ExitStdin, settings, counters, Inv, StageInv, Delivered
  <1>2. CountInv' /\ FilesInv'
    BY <1>1, CountsStand
  <1>3. KeepInv' /\ WriteInv' /\ AskInv' /\ ExitInv'
    BY <1>1 DEF Counting, KeepInv, WriteInv, AskInv, ExitInv
  <1>. QED  BY <1>2, <1>3 DEF Counting

LEMMA ExitPathsCounts == Inv /\ Counting /\ ExitPaths => Counting'
  <1>. SUFFICES ASSUME Inv, Counting, ExitPaths PROVE Counting'
    OBVIOUS
  <1>1. /\ pc = "exit" /\ pc' = "done" /\ UNCHANGED written
        /\ UNCHANGED <<mode, fixEven, files, skipFails, unfiltered, filtered, unfixable, todo, fatal,
                       discarded, Delivered>>
        /\ exit' = IF unfixable > 0 \/ skipFails THEN ExitFail ELSE exit
    BY DEF ExitPaths, settings, counters, Delivered
  <1>2. CountInv' /\ FilesInv'
    BY <1>1, CountsStand
  <1>3. unfixable \in Nat
    BY CountsAreFinite DEF Counting, CountInv
  <1>4. KeepInv' /\ WriteInv'
    BY <1>1 DEF Counting, KeepInv, WriteInv, Fixable
  <1>5. AskInv'
    BY <1>1 DEF Counting, AskInv, WithFixes, ExitFail, ExitSuccess
  <1>6. ExitInv'
    BY <1>1, <1>3 DEF Counting, ExitInv, ExitFail, ExitSuccess
  <1>. QED  BY <1>2, <1>4, <1>5, <1>6 DEF Counting

LEMMA LintEndsCounts == Inv /\ Counting /\ (LintEnds \/ UNCHANGED vars) => Counting'
  <1>. SUFFICES ASSUME Inv, Counting, LintEnds \/ UNCHANGED vars PROVE Counting'
    OBVIOUS
  <1>1. /\ pc' = pc \/ (pc = "lint" /\ pc' = "unparsable")
        /\ UNCHANGED <<mode, fixEven, files, skipFails, unfiltered, filtered, unfixable, todo, fatal,
                       discarded, written, exit, Delivered>>
    BY DEF LintEnds, settings, counters, vars, Delivered
  <1>2. CountInv' /\ FilesInv'
    BY <1>1, CountsStand
  <1>3. KeepInv' /\ WriteInv' /\ AskInv' /\ ExitInv'
    BY <1>1 DEF Counting, KeepInv, WriteInv, AskInv, ExitInv, WithFixes, Fixable
  <1>. QED  BY <1>2, <1>3 DEF Counting

\* What counts, writes and the exit code rest on holds in every behaviour.
THEOREM CountingInvariance == Spec => []Counting
  <1>1. Inv /\ Counting /\ [Next]_vars => Counting'
    BY DeliveryCounts, HandleUnparsableCounts, AskCounts, DoFixesCounts, ExitStdinCounts,
       ExitPathsCounts, LintEndsCounts DEF Next, Done
  <1>. QED  BY <1>1, InitCounting, Invariance, PTL DEF Spec

\* The counters that LintedDir.add caches and _handle_unparsable raises agree with the
\* files they were counted from, for any number of files.
THEOREM CountersAgree == Spec => []TypeOK
  <1>1. Inv /\ Counting => TypeOK
    BY DEF Inv, MapInv, StageInv, Counting, KeepInv, CountInv, WriteInv, ExitInv, TypeOK
  <1>. QED  BY <1>1, Invariance, CountingInvariance, PTL

\* _paths_fix exits with 0 only if in the files delivered nothing is left to fix and
\* nothing failed, but for fixable violations that persist_tree did not get at: those
\* of files whose fixes come to no change, and of the one that halted the linting.
THEOREM ExitCodeTells == Spec => []ExitTellsLeftovers
  <1>1. ASSUME Inv, Counting, pc = "done", mode # "stdin", exit = ExitSuccess
        PROVE  /\ ~skipFails
               /\ \A p \in Delivered :
                   /\ \A v \in Leftovers(p) :
                          mode = "apply" /\ v.fixable /\ (~files[p].changes \/ p \in fatal)
                   /\ files[p].parse \in {"TMP", "PRS"} => fixEven
    <2>1. /\ ~skipFails /\ unfixable = 0 /\ mode \in Modes
          /\ fixEven \/ ~(filtered > 0)
      BY <1>1 DEF Inv, StageInv, Counting, ExitInv, ExitSuccess, ExitFail
    <2>2. Unfixables = {}
      BY <1>1, <2>1, CountsAreFinite, FS_EmptySet DEF Counting, CountInv
    <2>3. ASSUME NEW p \in Delivered, files[p].parse \in {"TMP", "PRS"}, ~fixEven
          PROVE  FALSE
      <3>1. p \in Failed
        BY <2>3 DEF Failed
      <3>2. filtered \in Nat /\ filtered # 0
        BY <1>1, <3>1, CountsAreFinite, FS_EmptySet DEF Counting, CountInv
      <3>. QED  BY <2>1, <2>3, <3>2
    <2>4. ASSUME NEW p \in Delivered, NEW v \in Leftovers(p)
          PROVE  mode = "apply" /\ v.fixable /\ (~files[p].changes \/ p \in fatal)
      <3>1. v \in files[p].lint /\ ~v.warning /\ ~(v.fixable /\ p \in written)
        BY <2>4 DEF Leftovers
      <3>2. <<p, v>> \in Violations(Delivered)
        BY <1>1, <3>1, ViolationsOf DEF Counting, FilesInv, Delivered
      <3>3. v.fixable /\ p \notin discarded
        BY <2>2, <3>1, <3>2 DEF Unfixables
      <3>4. v \in Fixable(p) /\ WithFixes(p) # {} /\ p \notin written
        BY <3>1, <3>3 DEF Fixable, WithFixes
      <3>5. mode = "apply"
        BY <1>1, <2>1, <3>4 DEF Modes, Counting, AskInv
      <3>6. fixEven \/ files[p].parse = "ok"
        BY <1>1, <3>3 DEF Inv, DiscardInv, Unparsable
      <3>. QED  BY <1>1, <3>3, <3>4, <3>5, <3>6 DEF Counting, WriteInv
    <2>. QED  BY <2>1, <2>3, <2>4
  <1>2. Inv /\ Counting => ExitTellsLeftovers
    BY <1>1 DEF ExitTellsLeftovers
  <1>. QED  BY <1>2, Invariance, CountingInvariance, PTL
=============================================================================
