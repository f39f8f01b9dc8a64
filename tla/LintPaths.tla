------------------------------ MODULE LintPaths ------------------------------
(***************************************************************************)
(* Linter.lint_paths with the runner it drives (core/linter/runner.py):    *)
(* the sequential runner, and the parallel ones, where the pool's task     *)
(* thread pulls files from iter_partials, workers render and lint, and the *)
(* main thread takes the results, counts, records and writes.              *)
(*                                                                         *)
(* What a file turns out to be is found when it is read: a nondeterministic*)
(* outcome. The pool (multiprocessing.pool) is modelled from how run()     *)
(* uses it: a task queue, workers, results taken in order (imap, threads)  *)
(* or as they arrive (imap_unordered, processes), terminate and join.      *)
(***************************************************************************)
EXTENDS Naturals, Sequences, FiniteSets

CONSTANTS
    NumFiles,           \* length of expanded_paths
    Workers,            \* workers of the pool
    FixEvenUnparsable,  \* the fix_even_unparsable argument
    MaxDeaths           \* bound on workers killed from outside

ASSUME FilesAssumption == NumFiles \in Nat
ASSUME WorkersAssumption == Workers # {} /\ IsFiniteSet(Workers)
ASSUME SettingAssumption == FixEvenUnparsable \in BOOLEAN
ASSUME DeathsAssumption == MaxDeaths \in Nat

Files == 1 .. NumFiles

\* Results of a worker that are LintedFiles. "clean": there is nothing to write,
\* as nothing is fixable or the fixes come to no change; persist_tree then says
\* FAIL, which lint_paths does not look at. "declined": the templater raised
\* SQLFluffSkipFile, which render_string logs, leaving a file of no variants.
Linted == {"clean", "fixable", "broken", "fatal", "declined"}

\* How render_file may fail: a file over the size limit (SQLFluffSkipFile),
\* one that cannot be read (IOError), any other exception, for instance the
\* SQLFluffUserError of a missing dialect.
RenderFailures == {"big", "unreadable", "userError"}
\* lint_rendered may fail too.
LintFailures == {"crash"}

Outcomes == Linted \union RenderFailures \union LintFailures

Pending == "pending"
Fates == {"added", "skipped", "dropped"}

\* The task that stands for an exception of the generator.
Fault == 0
Idle == [idx |-> 0, file |-> 0]
Tasks == [idx : 1 .. NumFiles, file : Files \union {Fault}]

VARIABLES
    mode,           \* the runner: "sequential", "threads" or "processes"
    inWorker,       \* templater.templates_in_worker
    applyFixes,     \* the apply_fixes argument
    pc,             \* "running", "closing" (generator close, pool terminate) or an end
    ending,         \* the end that follows closing
    pulled,         \* files taken from expanded_paths by the generator
    poolOpen,       \* the pool has not been terminated
    generator,      \* "open", "ended" or "failed"
    issued,         \* tasks put in the pool's queue so far
    queue,          \* the tasks waiting
    busy,           \* the task of each worker, or Idle
    results,        \* results arrived and not taken yet, in order of arrival
    taken,          \* results taken by the main thread
    fate,           \* what became of each file: Pending or one of Fates
    fatal,          \* a fatal violation was recorded
    persisted,      \* files written back
    skippedCount,   \* runner.skipped_file_count
    filesSkipped,   \* result.files_skipped
    interrupted,    \* Ctrl-C was pressed
    hurried,        \* Ctrl-C hit the closing
    deaths,         \* workers killed
    found           \* history: what each file settled turned out to be

setting == <<mode, inWorker, applyFixes>>
mainVars == <<pc, ending, filesSkipped, interrupted, hurried>>
poolVars == <<poolOpen, generator, issued, queue, busy, results, taken, deaths>>
resultVars == <<fate, fatal, persisted, skippedCount, found>>
vars == <<setting, mainVars, pulled, poolVars, resultVars>>

Parallel == mode # "sequential"

\* get_runner; lint_paths asks for one process where there is one file.
Init ==
    /\ mode \in {"sequential", "threads", "processes"}
    /\ NumFiles = 1 => mode = "sequential"
    /\ inWorker \in BOOLEAN
    /\ applyFixes \in BOOLEAN
    /\ pc = "running"
    /\ ending = "returned"
    /\ pulled = 0
    /\ poolOpen = Parallel
    /\ generator = "open"
    /\ issued = 0
    /\ queue = <<>>
    /\ busy = [w \in Workers |-> Idle]
    /\ results = <<>>
    /\ taken = 0
    /\ fate = [f \in Files |-> Pending]
    /\ fatal = FALSE
    /\ persisted = {}
    /\ skippedCount = 0
    /\ filesSkipped = 0
    /\ interrupted = FALSE
    /\ hurried = FALSE
    /\ deaths = 0
    /\ found = [f \in Files |-> Pending]

Running == pc = "running"

-----------------------------------------------------------------------------
\* What becomes of a file: the fate is settled, and counted where it is a skip.
Settle(f, outcome, d) ==
    /\ fate' = [fate EXCEPT ![f] = d]
    /\ found' = [found EXCEPT ![f] = outcome]
    /\ skippedCount' = IF d = "skipped" THEN skippedCount + 1 ELSE skippedCount

\* An exception leaves run(), or lint_paths breaks out of its loop.
CloseWith(end) == pc' = "closing" /\ ending' = end
StayOpen == UNCHANGED <<pc, ending>>

\* persist_tree is called for a file with something fixable that is not
\* barred by templating or parse errors.
Persists(outcome) ==
    /\ applyFixes
    /\ outcome = "fixable" \/ (outcome = "broken" /\ FixEvenUnparsable)

\* Mutant: a fatal violation does not end the loop.
ConsumeOn(f, outcome) ==
    /\ Settle(f, outcome, "added")
    /\ fatal' = (fatal \/ outcome = "fatal")
    /\ persisted' = IF Persists(outcome) THEN persisted \union {f} ELSE persisted
    /\ StayOpen

\* Mutant: a write that fails is passed over.
ConsumeUnwritten(f, outcome) ==
    /\ Settle(f, outcome, "added")
    /\ fatal' = (outcome = "fatal")
    /\ IF outcome = "fatal" THEN CloseWith("returned") ELSE StayOpen
    /\ persisted' \in {persisted, IF Persists(outcome) THEN persisted \union {f} ELSE persisted}

\* The body of the loop of lint_paths over the files linted.
Consume(f, outcome) ==
    /\ Settle(f, outcome, "added")
    /\ fatal' = (outcome = "fatal")
    /\ \/ /\ outcome = "fatal"
          /\ CloseWith("returned")
          /\ UNCHANGED persisted
       \/ /\ outcome # "fatal"
          /\ ~Persists(outcome)
          /\ StayOpen
          /\ UNCHANGED persisted
       \/ /\ Persists(outcome)
          /\ persisted' = persisted \union {f}
          /\ StayOpen
       \/ /\ Persists(outcome)     \* the write fails, or Ctrl-C hits it
          /\ CloseWith("raised")
          /\ UNCHANGED persisted

\* _handle_lint_path_exception, and the skips beside it.
Discard(f, outcome) ==
    /\ UNCHANGED <<fatal, persisted>>
    /\ \/ outcome = "big" /\ Settle(f, outcome, "skipped") /\ StayOpen
       \/ outcome \in {"userError", "crash"} /\ Settle(f, outcome, "dropped") /\ StayOpen
       \/ outcome = "unreadable" /\ CloseWith("raised") /\ UNCHANGED <<fate, found, skippedCount>>

-----------------------------------------------------------------------------
\* SequentialRunner.run: the file is rendered by the generator, whose
\* exceptions are not caught, and linted under a try.
SequentialFile ==
    /\ ~Parallel
    /\ Running
    /\ pulled < NumFiles
    /\ pulled' = pulled + 1
    /\ \E outcome \in Outcomes :
          \/ (outcome \in Linted /\ Consume(pulled + 1, outcome))
          \/ (outcome \in LintFailures \union {"big"} /\ Discard(pulled + 1, outcome))
          \/ /\ outcome \in {"unreadable", "userError"}
             /\ CloseWith("raised")
             /\ UNCHANGED resultVars
    /\ UNCHANGED <<setting, filesSkipped, interrupted, hurried, poolVars>>

SequentialEnd ==
    /\ ~Parallel
    /\ Running
    /\ pulled = NumFiles
    /\ CloseWith("returned")
    /\ UNCHANGED <<setting, filesSkipped, interrupted, hurried, pulled, poolVars, resultVars>>

-----------------------------------------------------------------------------
Issue(task) ==
    /\ issued' = issued + 1
    /\ queue' = Append(queue, [idx |-> issued + 1, file |-> task])

\* The pool's task thread pulls one file from iter_partials: as it is where
\* workers render, and rendered in this thread where they do not.
Feed ==
    /\ poolOpen
    /\ generator = "open"
    /\ pulled < NumFiles
    /\ pulled' = pulled + 1
    /\ \/ /\ Issue(pulled + 1)
          /\ UNCHANGED <<generator, fate, found, skippedCount>>
       \/ /\ ~inWorker              \* SQLFluffSkipFile, in iter_rendered
          /\ Settle(pulled + 1, "big", "skipped")
          /\ UNCHANGED <<generator, issued, queue>>
       \/ /\ ~inWorker              \* any other exception ends the generator
          /\ generator' = "failed"
          /\ Issue(Fault)
          /\ UNCHANGED <<fate, found, skippedCount>>
    /\ UNCHANGED <<setting, mainVars, poolOpen, busy, results, taken, deaths, fatal, persisted>>

FeedEnd ==
    /\ poolOpen
    /\ generator = "open"
    /\ pulled = NumFiles
    /\ generator' = "ended"
    /\ UNCHANGED <<setting, mainVars, pulled, poolOpen, issued, queue, busy, results, taken, deaths, resultVars>>

WorkerStart(w) ==
    /\ poolOpen
    /\ busy[w] = Idle
    /\ queue # <<>>
    /\ busy' = [busy EXCEPT ![w] = Head(queue)]
    /\ queue' = Tail(queue)
    /\ UNCHANGED <<setting, mainVars, pulled, poolOpen, generator, issued, results, taken, deaths, resultVars>>

\* _apply, whose exceptions come back as DelayedExceptions.
WorkerOutcomes(task) ==
    IF task.file = Fault THEN {"fault"}
    ELSE Linted \union LintFailures \union (IF inWorker THEN RenderFailures ELSE {})

\* Mutant: _apply catches nothing, and the result of a crash is lost.
WorkerFinishUncaught(w) ==
    /\ poolOpen
    /\ busy[w] # Idle
    /\ \E outcome \in WorkerOutcomes(busy[w]) :
          results' = IF outcome = "crash" THEN results
                     ELSE Append(results, [task |-> busy[w], outcome |-> outcome])
    /\ busy' = [busy EXCEPT ![w] = Idle]
    /\ UNCHANGED <<setting, mainVars, pulled, poolOpen, generator, issued, queue, taken, deaths, resultVars>>

WorkerFinish(w) ==
    /\ poolOpen
    /\ busy[w] # Idle
    /\ \E outcome \in WorkerOutcomes(busy[w]) :
          results' = Append(results, [task |-> busy[w], outcome |-> outcome])
    /\ busy' = [busy EXCEPT ![w] = Idle]
    /\ UNCHANGED <<setting, mainVars, pulled, poolOpen, generator, issued, queue, taken, deaths, resultVars>>

\* A worker process is killed: the pool replaces it, its task is lost.
WorkerDies(w) ==
    /\ poolOpen
    /\ mode = "processes"
    /\ busy[w] # Idle
    /\ deaths < MaxDeaths
    /\ deaths' = deaths + 1
    /\ busy' = [busy EXCEPT ![w] = Idle]
    /\ UNCHANGED <<setting, mainVars, pulled, poolOpen, generator, issued, queue, results, taken, resultVars>>

-----------------------------------------------------------------------------
\* The positions of `results` the main thread may take next.
Deliverable ==
    IF mode = "threads" THEN {i \in DOMAIN results : results[i].task.idx = taken + 1}
    ELSE {i \in DOMAIN results : i = 1}

\* The main thread takes a result: the loop of ParallelRunner.run, and for a
\* LintedFile the body of the loop of lint_paths.
TakeResult ==
    /\ Parallel
    /\ Running
    /\ \E i \in Deliverable :
          LET f == results[i].task.file
              outcome == results[i].outcome
          IN  /\ results' = SubSeq(results, 1, i - 1) \o SubSeq(results, i + 1, Len(results))
              /\ \/ (outcome \in Linted /\ Consume(f, outcome))
                 \/ (outcome \in RenderFailures \union LintFailures /\ Discard(f, outcome))
                 \/ /\ outcome = "fault"     \* re-raised by the pool's iterator
                    /\ CloseWith("raised")
                    /\ UNCHANGED resultVars
    /\ taken' = taken + 1
    /\ UNCHANGED <<setting, filesSkipped, interrupted, hurried, pulled, poolOpen, generator, issued, queue, busy, deaths>>

\* The iterator of results is exhausted: as many taken as were issued.
TakeEnd ==
    /\ Parallel
    /\ Running
    /\ generator = "ended"
    /\ taken = issued
    /\ CloseWith("returned")
    /\ UNCHANGED <<setting, filesSkipped, interrupted, hurried, pulled, poolVars, resultVars>>

\* Ctrl-C while run() of a parallel runner waits for a result: it says that it
\* is shutting down, and its generator ends as if all were done.
InterruptWait ==
    /\ Parallel
    /\ Running
    /\ interrupted' = TRUE
    /\ CloseWith("returned")
    /\ UNCHANGED <<setting, filesSkipped, hurried, pulled, poolVars, resultVars>>

\* Ctrl-C elsewhere in the two loops is an exception like any other. In the
\* body of the loop of lint_paths it shows as one before the result was taken,
\* or as a write that fails.
InterruptWork ==
    /\ Running
    /\ interrupted' = TRUE
    /\ CloseWith("raised")
    /\ UNCHANGED <<setting, filesSkipped, hurried, pulled, poolVars, resultVars>>

-----------------------------------------------------------------------------
\* What terminating the pool does: nothing more is pulled or started, what has
\* arrived is not looked at, and worker processes are killed. Threads cannot be.
StopPool ==
    /\ poolOpen' = FALSE
    /\ queue' = <<>>
    /\ results' = <<>>
    /\ busy' = IF mode = "processes" THEN [w \in Workers |-> Idle] ELSE busy
    /\ UNCHANGED <<setting, mainVars, pulled, generator, issued, taken, deaths, resultVars>>

\* pool.terminate()
Terminate ==
    /\ pc = "closing"
    /\ poolOpen
    /\ ~hurried
    /\ StopPool

\* Ctrl-C in the except clause that reports an earlier one: it goes on as an
\* exception, and the pool is still terminated and joined.
InterruptNotice ==
    /\ pc = "closing"
    /\ poolOpen
    /\ ~hurried
    /\ interrupted
    /\ ending = "returned"
    /\ ending' = "raised"
    /\ UNCHANGED <<setting, pc, filesSkipped, interrupted, hurried, pulled, poolVars, resultVars>>

\* Ctrl-C during pool.terminate(), pool.join() or the finally clause of
\* lint_paths. Either the exception leaves at once, whatever the pool is at
\* (join is not reached, cut short, or refuses a pool that still runs), or
\* terminate() is cut short and join() waits before it leaves.
InterruptClosing ==
    /\ pc = "closing"
    /\ interrupted' = TRUE
    /\ hurried' = TRUE
    /\ ending' = "raised"
    /\ pc' = "raised" \/ (poolOpen /\ pc' = pc)
    /\ UNCHANGED <<setting, filesSkipped, pulled, poolVars, resultVars>>

\* A pool whose closing was hit stops some time: by what terminate() had got
\* to, or when the generator that holds it is collected.
StopLate ==
    /\ pc \in {"closing", "raised"}
    /\ poolOpen
    /\ hurried
    /\ StopPool

\* A thread finishes what it is at; nobody is waiting for the result.
WorkerWindsDown(w) ==
    /\ Parallel
    /\ ~poolOpen
    /\ busy[w] # Idle
    /\ busy' = [busy EXCEPT ![w] = Idle]
    /\ UNCHANGED <<setting, mainVars, pulled, poolOpen, generator, issued, queue, results, taken, deaths, resultVars>>

\* Mutant: the iterator is not closed before its skips are read.
CloseUnterminated ==
    /\ pc = "closing"
    /\ pc' = ending
    /\ filesSkipped' = IF ending = "returned" THEN skippedCount ELSE filesSkipped
    /\ UNCHANGED <<setting, ending, interrupted, hurried, pulled, poolVars, resultVars>>

\* Mutant: the pool is terminated and not joined.
CloseUnjoined ==
    /\ pc = "closing"
    /\ ~poolOpen
    /\ pc' = ending
    /\ filesSkipped' = IF ending = "returned" THEN skippedCount ELSE filesSkipped
    /\ UNCHANGED <<setting, ending, interrupted, hurried, pulled, poolVars, resultVars>>

\* pool.join() has returned, and lint_paths returns or its exception goes on.
Close ==
    /\ pc = "closing"
    /\ ~poolOpen
    /\ \A w \in Workers : busy[w] = Idle
    /\ pc' = ending
    /\ filesSkipped' = IF ending = "returned" THEN skippedCount ELSE filesSkipped
    /\ UNCHANGED <<setting, ending, interrupted, hurried, pulled, poolVars, resultVars>>

Ended == pc \in {"returned", "raised"}
Done == Ended /\ UNCHANGED vars

Main == SequentialFile \/ SequentialEnd \/ TakeResult \/ TakeEnd \/ Terminate \/ Close
Feeder == Feed \/ FeedEnd
Worker(w) == WorkerStart(w) \/ WorkerFinish(w) \/ WorkerWindsDown(w)

Next ==
    \/ Main
    \/ Feeder
    \/ \E w \in Workers : Worker(w) \/ WorkerDies(w)
    \/ InterruptWait \/ InterruptWork \/ InterruptNotice \/ InterruptClosing
    \/ StopLate
    \/ Done

Spec == Init /\ [][Next]_vars

\* Threads and processes run; nobody has to press Ctrl-C or kill a worker.
FairSpec ==
    Spec /\ WF_vars(Main) /\ WF_vars(Feeder) /\ \A w \in Workers : WF_vars(Worker(w))

-----------------------------------------------------------------------------
\* Every variable holds a value the code can give it.
TypeOK ==
    /\ mode \in {"sequential", "threads", "processes"}
    /\ inWorker \in BOOLEAN /\ applyFixes \in BOOLEAN
    /\ pc \in {"running", "closing", "returned", "raised"}
    /\ ending \in {"returned", "raised"}
    /\ pulled \in 0 .. NumFiles
    /\ poolOpen \in BOOLEAN
    /\ generator \in {"open", "ended", "failed"}
    /\ issued \in 0 .. NumFiles
    /\ queue \in Seq(Tasks)
    /\ busy \in [Workers -> Tasks \union {Idle}]
    /\ results \in Seq([task : Tasks, outcome : Outcomes \union {"fault"}])
    /\ taken \in 0 .. issued
    /\ fate \in [Files -> Fates \union {Pending}]
    /\ fatal \in BOOLEAN
    /\ persisted \subseteq Files
    /\ skippedCount \in 0 .. NumFiles
    /\ filesSkipped \in 0 .. NumFiles
    /\ interrupted \in BOOLEAN
    /\ hurried \in BOOLEAN
    /\ deaths \in 0 .. MaxDeaths
    /\ found \in [Files -> Outcomes \union {Pending}]

\* Whatever the runner, each file is settled at most once, none is added after
\* the run halted, and a run that returns without halting has settled them all.
Promise == INSTANCE LintPromise WITH
    Dispositions <- Fates,
    halted <- fatal \/ interrupted,
    status <- IF pc = "closing" THEN "running" ELSE pc
ImplementsLintPromise == Promise!Spec

\* files_skipped is read once the pool is quiet: it counts every file the
\* runner skipped, those skipped by the task thread included.
SkipCountExact ==
    pc = "returned" => filesSkipped = Cardinality({f \in Files : fate[f] = "skipped"})

\* When lint_paths is over, so is its pool: no task waits and no worker is at
\* work that could still read or render a file. That holds of every return, and
\* of every exception, a Ctrl-C during linting included; only one that hits the
\* closing itself may leave the pool behind, and then lint_paths raises.
QuietEnd ==
    pc = "returned" \/ (pc = "raised" /\ ~hurried) =>
        ~poolOpen /\ queue = <<>> /\ \A w \in Workers : busy[w] = Idle

\* A run with apply_fixes that returns without halting has written back
\* every file with something to fix that it may fix, and no other file.
FixesReachDisk ==
    pc = "returned" /\ ~fatal /\ ~interrupted =>
        persisted = {f \in Files : Persists(found[f])}

\* lint_paths comes to an end unless a worker process is killed or Ctrl-C
\* cuts its closing short.
Termination == [](deaths = 0 /\ ~hurried) => <>Ended
=============================================================================
