--------------------------- MODULE LintPathsProofs ---------------------------
(***************************************************************************)
(* Proofs about LintPaths, for any number of files and workers: where the  *)
(* files are that have been pulled, and what follows from it.              *)
(***************************************************************************)
EXTENDS LintPaths, FiniteSetTheorems, SequenceTheorems, TLAPS

\* The files a task in the pool may stand for: those pulled and not settled, and
\* once the generator has failed its failure.
Expected ==
    {f \in Files : f <= pulled /\ fate[f] = Pending}
        \union (IF generator = "failed" THEN {Fault} ELSE {})

FlightInv ==
    /\ \A i \in DOMAIN queue : queue[i].file \in Expected
    /\ \A w \in Workers : busy[w] # Idle => busy[w].file \in Expected
    /\ \A i \in DOMAIN results : results[i].task.file \in Expected

\* No file is in two places.
DistinctInv ==
    /\ \A i, j \in DOMAIN queue : queue[i].file = queue[j].file => i = j
    /\ \A v, w \in Workers :
           busy[v] # Idle /\ busy[w] # Idle /\ busy[v].file = busy[w].file => v = w
    /\ \A i, j \in DOMAIN results : results[i].task.file = results[j].task.file => i = j
    /\ \A i \in DOMAIN queue, w \in Workers : busy[w] # Idle => queue[i].file # busy[w].file
    /\ \A i \in DOMAIN queue, j \in DOMAIN results : queue[i].file # results[j].task.file
    /\ \A w \in Workers, j \in DOMAIN results :
           busy[w] # Idle => busy[w].file # results[j].task.file

InFlight(f) ==
    \/ \E i \in DOMAIN queue : queue[i].file = f
    \/ \E w \in Workers : busy[w] # Idle /\ busy[w].file = f
    \/ \E i \in DOMAIN results : results[i].task.file = f

AllSettled == \A f \in Files : fate[f] # Pending

Halted == fatal \/ interrupted

\* While results are taken, a file pulled is settled or on its way, unless a
\* worker was killed or the generator failed.
CoverInv ==
    pc = "running" =>
        \A f \in Files :
            f <= pulled =>
                \/ fate[f] # Pending
                \/ Parallel /\ (InFlight(f) \/ deaths > 0 \/ generator = "failed")

Busy == {w \in Workers : busy[w] # Idle}

\* Every task issued is waiting, worked on, waiting to be taken, taken or lost.
TallyInv ==
    poolOpen => issued = Len(queue) + Cardinality(Busy) + Len(results) + deaths + taken

Skipped == {f \in Files : fate[f] = "skipped"}

FateInv ==
    /\ \A f \in Files : f > pulled => fate[f] = Pending
    /\ \A f \in Files : fate[f] = Pending => found[f] = Pending /\ f \notin persisted
    /\ skippedCount = Cardinality(Skipped)

PoolInv ==
    /\ poolOpen => Parallel
    /\ Parallel /\ pc = "running" => poolOpen
    /\ ~poolOpen => queue = <<>> /\ results = <<>>
    /\ ~Parallel => \A w \in Workers : busy[w] = Idle
    /\ generator = "ended" => pulled = NumFiles
    /\ issued <= pulled

ControlInv ==
    /\ pc = "running" => ~Halted
    /\ hurried => interrupted /\ pc # "running" /\ ending = "raised"
    /\ Ended /\ ~hurried => ~poolOpen /\ \A w \in Workers : busy[w] = Idle
    /\ Ended => pc = ending
    /\ pc = "returned" => filesSkipped = skippedCount
    /\ pc # "running" /\ ending = "returned" /\ ~Halted => AllSettled

\* What was written is what had to be, until a write fails or the run halts.
DiskInv ==
    ~Halted /\ (pc = "running" \/ ending = "returned") =>
        persisted = {f \in Files : Persists(found[f])}

Inv ==
    /\ TypeOK
    /\ FlightInv
    /\ DistinctInv
    /\ CoverInv
    /\ TallyInv
    /\ FateInv
    /\ PoolInv
    /\ ControlInv
    /\ DiskInv

-----------------------------------------------------------------------------
\* What is left of a sequence when the element at i is taken out of it.
LEMMA Rejoin ==
    ASSUME NEW S, NEW s \in Seq(S), NEW i \in 1 .. Len(s), NEW a \in Seq(S), NEW b \in Seq(S),
           Len(a) = i - 1, Len(b) = Len(s) - i,
           \A k \in 1 .. Len(a) : a[k] = s[k],
           \A k \in 1 .. Len(b) : b[k] = s[k + i]
    PROVE  /\ a \o b \in Seq(S)
           /\ Len(a \o b) = Len(s) - 1
           /\ \A k \in 1 .. (Len(s) - 1) : (a \o b)[k] = s[IF k < i THEN k ELSE k + 1]
  <1>1. /\ a \o b \in Seq(S)
        /\ Len(a \o b) = Len(a) + Len(b)
        /\ \A k \in 1 .. Len(a) + Len(b) :
               (a \o b)[k] = IF k <= Len(a) THEN a[k] ELSE b[k - Len(a)]
    BY ConcatProperties, Zenon
  <1>2. Len(a) + Len(b) = Len(s) - 1 /\ Len(s) \in Nat
    OBVIOUS
  <1>3. ASSUME NEW k \in 1 .. (Len(s) - 1), k < i
        PROVE  (a \o b)[k] = s[k]
    <2>1. k \in 1 .. Len(a)
      BY <1>2, <1>3
    <2>2. (a \o b)[k] = a[k]
      BY <1>1, <1>2, <2>1
    <2>. QED  BY <2>1, <2>2
  <1>4. ASSUME NEW k \in 1 .. (Len(s) - 1), ~(k < i)
        PROVE  (a \o b)[k] = s[k + 1]
    <2>1. k - Len(a) \in 1 .. Len(b) /\ (k - Len(a)) + i = k + 1 /\ ~(k <= Len(a))
      BY <1>2, <1>4
    <2>2. (a \o b)[k] = b[k - Len(a)]
      BY <1>1, <1>2, <2>1
    <2>. QED  BY <2>1, <2>2
  <1>. QED  BY <1>1, <1>2, <1>3, <1>4

LEMMA TakeOut ==
    ASSUME NEW S, NEW s \in Seq(S), NEW i \in 1 .. Len(s)
    PROVE  /\ SubSeq(s, 1, i - 1) \o SubSeq(s, i + 1, Len(s)) \in Seq(S)
           /\ Len(SubSeq(s, 1, i - 1) \o SubSeq(s, i + 1, Len(s))) = Len(s) - 1
           /\ \A k \in 1 .. (Len(s) - 1) :
                  (SubSeq(s, 1, i - 1) \o SubSeq(s, i + 1, Len(s)))[k]
                      = s[IF k < i THEN k ELSE k + 1]
  <1>. DEFINE a == SubSeq(s, 1, i - 1)
              b == SubSeq(s, i + 1, Len(s))
  <1>1. a \in Seq(S) /\ Len(a) = i - 1 /\ \A k \in 1 .. Len(a) : a[k] = s[k]
    OBVIOUS
  <1>2. b \in Seq(S) /\ Len(b) = Len(s) - i /\ \A k \in 1 .. Len(b) : b[k] = s[k + i]
    OBVIOUS
  <1>. HIDE DEF a, b
  <1>3. /\ a \o b \in Seq(S)
        /\ Len(a \o b) = Len(s) - 1
        /\ \A k \in 1 .. (Len(s) - 1) : (a \o b)[k] = s[IF k < i THEN k ELSE k + 1]
    BY <1>1, <1>2, Rejoin
  <1>. QED  BY <1>3, Zenon DEF a, b

-----------------------------------------------------------------------------
USE FilesAssumption

\* A file that is settled for the first time is counted if it is a skip.
LEMMA SettleCounts ==
    ASSUME TypeOK, FateInv, NEW f \in Files, fate[f] = Pending,
           NEW outcome \in Outcomes, NEW d \in Fates, Settle(f, outcome, d)
    PROVE  /\ fate' \in [Files -> Fates \union {Pending}]
           /\ found' \in [Files -> Outcomes \union {Pending}]
           /\ skippedCount' = Cardinality(Skipped')
           /\ skippedCount' \in 0 .. NumFiles
  <1>1. /\ fate' = [fate EXCEPT ![f] = d]
        /\ fate' \in [Files -> Fates \union {Pending}]
        /\ found' \in [Files -> Outcomes \union {Pending}]
    BY DEF Settle, TypeOK
  <1>2. IsFiniteSet(Files) /\ Cardinality(Files) = NumFiles
    BY FS_Interval DEF Files
  <1>3. IsFiniteSet(Skipped) /\ Skipped \subseteq Files /\ f \notin Skipped
    BY <1>2, FS_Subset DEF Skipped, Pending
  <1>4. Skipped' \subseteq Files
    BY DEF Skipped
  <1>5. Cardinality(Skipped') \in 0 .. NumFiles
    BY <1>2, <1>4, FS_Subset, FS_CardinalityType
  <1>6. CASE d = "skipped"
    <2>1. Skipped' = Skipped \union {f}
      BY <1>1, <1>6 DEF Skipped, TypeOK
    <2>2. Cardinality(Skipped') = Cardinality(Skipped) + 1
      BY <1>3, <2>1, FS_AddElement
    <2>. QED  BY <1>1, <1>5, <1>6, <2>2 DEF Settle, FateInv
  <1>7. CASE d # "skipped"
    <2>1. Skipped' = Skipped
      BY <1>1, <1>3, <1>7 DEF Skipped, TypeOK
    <2>. QED  BY <1>1, <1>5, <1>7, <2>1 DEF Settle, FateInv
  <1>. QED  BY <1>6, <1>7

\* What taking the result of a file does to everything but the pool.
LEMMA ResultsSettle ==
    ASSUME TypeOK, FateInv, ControlInv, DiskInv, pc = "running",
           NEW f \in Files, fate[f] = Pending, NEW outcome \in Outcomes,
           Consume(f, outcome) \/ Discard(f, outcome),
           UNCHANGED <<setting, interrupted>>
    PROVE  /\ fate' \in [Files -> Fates \union {Pending}]
           /\ found' \in [Files -> Outcomes \union {Pending}]
           /\ skippedCount' \in 0 .. NumFiles
           /\ skippedCount' = Cardinality(Skipped')
           /\ persisted' \subseteq Files
           /\ fatal' \in BOOLEAN
           /\ pc' \in {"running", "closing"} /\ ending' \in {"returned", "raised"}
           /\ \A g \in Files : g # f => fate'[g] = fate[g]
           /\ \A g \in Files : fate'[g] = Pending => found'[g] = Pending /\ g \notin persisted'
           /\ pc' = "running" => fate'[f] # Pending /\ ~Halted'
           /\ pc' # "running" /\ ending' = "returned" => Halted'
           /\ DiskInv'
  <1>1. ~fatal /\ ~interrupted
    BY DEF ControlInv, Halted
  <1>2. persisted = {g \in Files : Persists(found[g])}
    BY <1>1 DEF DiskInv, Halted
  <1>3. found[f] = Pending /\ f \notin persisted
    BY DEF FateInv
  <1>4. ASSUME Consume(f, outcome)
        PROVE  /\ Settle(f, outcome, "added")
               /\ fatal' = (outcome = "fatal")
               /\ \/ pc' = "closing" /\ ending' = "returned" /\ outcome = "fatal" /\ persisted' = persisted
                  \/ pc' = pc /\ ending' = ending /\ ~Persists(outcome) /\ persisted' = persisted /\ outcome # "fatal"
                  \/ pc' = pc /\ ending' = ending /\ Persists(outcome) /\ persisted' = persisted \union {f}
                  \/ pc' = "closing" /\ ending' = "raised" /\ Persists(outcome) /\ persisted' = persisted
    BY <1>4 DEF Consume, CloseWith, StayOpen
  <1>5. ASSUME Discard(f, outcome)
        PROVE  /\ fatal' = fatal /\ persisted' = persisted /\ ~Persists(outcome)
               /\ \/ pc' = pc /\ ending' = ending /\ \E d \in Fates : Settle(f, outcome, d)
                  \/ pc' = "closing" /\ ending' = "raised" /\ UNCHANGED <<fate, found, skippedCount>>
    BY <1>5 DEF Discard, CloseWith, StayOpen, Persists, Fates
  <1>6. ASSUME NEW d \in Fates, Settle(f, outcome, d)
        PROVE  /\ fate' \in [Files -> Fates \union {Pending}]
               /\ found' \in [Files -> Outcomes \union {Pending}]
               /\ skippedCount' \in 0 .. NumFiles
               /\ skippedCount' = Cardinality(Skipped')
               /\ \A g \in Files : g # f => fate'[g] = fate[g] /\ found'[g] = found[g]
               /\ fate'[f] = d /\ d # Pending /\ found'[f] = outcome
    BY <1>6, SettleCounts DEF Settle, TypeOK, Fates, Pending
  <1>7. \A o : Persists(o)' <=> Persists(o)
    BY DEF Persists, setting
  <1>8. ~Persists(Pending)
    BY DEF Persists, Pending
  <1>9. CASE Consume(f, outcome)
    <2>1. "added" \in Fates
      BY DEF Fates
    <2>2. \A g \in Files : g # f => fate'[g] = fate[g] /\ found'[g] = found[g]
      BY <1>4, <1>6, <1>9, <2>1
    <2>3. fate'[f] # Pending /\ found'[f] = outcome
      BY <1>4, <1>6, <1>9, <2>1
    <2>4. persisted' \subseteq persisted \union {f}
      BY <1>4, <1>9
    <2>5. fatal' \/ (pc' # "running" /\ ending' = "raised")
              \/ persisted' = {g \in Files : Persists(found'[g])}
      BY <1>2, <1>3, <1>4, <1>8, <1>9, <2>2, <2>3
    <2>6. DiskInv'
      BY <2>5, <1>7 DEF DiskInv, Halted
    <2>7. \A g \in Files : fate'[g] = Pending => found'[g] = Pending /\ g \notin persisted'
      BY <2>2, <2>3, <2>4 DEF FateInv
    <2>8. outcome # "fatal" \/ ~Persists(outcome)
      BY DEF Persists
    <2>9. /\ pc' \in {"running", "closing"} /\ ending' \in {"returned", "raised"}
          /\ pc' = "running" => ~Halted'
          /\ pc' # "running" /\ ending' = "returned" => Halted'
      BY <1>1, <1>4, <1>9, <2>8 DEF TypeOK, Halted
    <2>10. persisted' \subseteq Files
      BY <2>4 DEF TypeOK
    <2>. QED  BY <1>4, <1>6, <1>9, <2>1, <2>2, <2>3, <2>6, <2>7, <2>9, <2>10
  <1>10. CASE Discard(f, outcome)
    <2>1. CASE \E d \in Fates : Settle(f, outcome, d)
      <3>1. PICK d \in Fates : Settle(f, outcome, d)
        BY <2>1
      <3>2. \A g \in Files : g # f => fate'[g] = fate[g] /\ found'[g] = found[g]
        BY <1>6, <3>1
      <3>3. fate'[f] # Pending /\ found'[f] = outcome
        BY <1>6, <3>1
      <3>4. persisted' = {g \in Files : Persists(found'[g])}
        BY <1>2, <1>3, <1>5, <1>8, <1>10, <3>2, <3>3
      <3>5. DiskInv'
        BY <3>4, <1>7 DEF DiskInv
      <3>6. \A g \in Files : fate'[g] = Pending => found'[g] = Pending /\ g \notin persisted'
        BY <1>5, <1>10, <3>2, <3>3 DEF FateInv
      <3>7. /\ pc' \in {"running", "closing"} /\ ending' \in {"returned", "raised"}
            /\ pc' = "running" => ~Halted'
            /\ pc' # "running" /\ ending' = "returned" => Halted'
        BY <1>1, <1>5, <1>10, <2>1, <3>3, <3>2 DEF TypeOK, Halted
      <3>. QED  BY <1>5, <1>6, <1>10, <3>1, <3>2, <3>3, <3>5, <3>6, <3>7 DEF TypeOK
    <2>2. CASE pc' = "closing" /\ ending' = "raised" /\ UNCHANGED <<fate, found, skippedCount>>
      <3>1. Skipped' = Skipped
        BY <2>2 DEF Skipped
      <3>. QED  BY <1>5, <1>10, <2>2, <3>1 DEF TypeOK, FateInv, DiskInv, Halted
    <2>. QED  BY <1>5, <1>10, <2>1, <2>2
  <1>. QED  BY <1>9, <1>10

-----------------------------------------------------------------------------
LEMMA NobodyBusy ==
    ASSUME \A w \in Workers : busy[w] = Idle
    PROVE  Busy = {} /\ Cardinality(Busy) = 0
  BY FS_EmptySet DEF Busy

\* The invariant holds before anything has happened.
LEMMA InitInv == Init => Inv
  <1>. SUFFICES ASSUME Init PROVE Inv
    OBVIOUS
  <1>0. fate = [f \in Files |-> Pending] /\ found = [f \in Files |-> Pending]
    BY DEF Init
  <1>1. Skipped = {} /\ Cardinality(Skipped) = 0
    BY <1>0, FS_EmptySet DEF Skipped, Pending
  <1>2. busy \in [Workers -> Tasks \union {Idle}] /\ \A w \in Workers : busy[w] = Idle
    BY DEF Init
  <1>3. Busy = {} /\ Cardinality(Busy) = 0
    BY <1>2, NobodyBusy
  <1>. poolOpen \in BOOLEAN /\ (poolOpen <=> Parallel)
    BY Zenon DEF Init, Parallel
  <1>4. TypeOK
    <2>1. queue \in Seq(Tasks) /\ results \in Seq([task : Tasks, outcome : Outcomes \union {"fault"}])
      BY DEF Init
    <2>2. deaths \in 0 .. MaxDeaths /\ taken \in 0 .. issued
      BY DeathsAssumption DEF Init
    <2>3. /\ mode \in {"sequential", "threads", "processes"}
          /\ inWorker \in BOOLEAN /\ applyFixes \in BOOLEAN
          /\ pc = "running" /\ ending = "returned" /\ generator = "open"
          /\ pulled = 0 /\ issued = 0 /\ skippedCount = 0 /\ filesSkipped = 0
          /\ fatal = FALSE /\ interrupted = FALSE /\ hurried = FALSE /\ persisted = {}
      BY Zenon DEF Init
    <2>4. /\ fate \in [Files -> Fates \union {Pending}]
          /\ found \in [Files -> Outcomes \union {Pending}]
      BY <1>0
    <2>5. 0 \in 0 .. NumFiles
      OBVIOUS
    <2>. QED  BY <1>2, <2>1, <2>2, <2>3, <2>4, <2>5, Zenon DEF TypeOK
  <1>5. DiskInv
    BY <1>0 DEF Init, DiskInv, Persists, Pending
  <1>6. FateInv
    BY <1>0, <1>1 DEF Init, FateInv
  <1>7. FlightInv /\ DistinctInv
    BY <1>2 DEF Init, FlightInv, DistinctInv
  <1>8. CoverInv /\ ControlInv
    BY DEF Init, CoverInv, ControlInv, Halted, Ended, Files
  <1>9. TallyInv
    BY <1>3 DEF Init, TallyInv
  <1>10. PoolInv
    BY <1>2 DEF Init, PoolInv, Parallel
  <1>. QED  BY <1>4, <1>5, <1>6, <1>7, <1>8, <1>9, <1>10 DEF Inv

\* The sequential runner has no pool.
LEMMA SequentialFileKeeps == Inv /\ SequentialFile => Inv'
  <1>. SUFFICES ASSUME Inv, SequentialFile PROVE Inv'
    OBVIOUS
  <1>. DEFINE f == pulled + 1
  <1>1. /\ f \in Files /\ fate[f] = Pending /\ pulled' = f /\ pc = "running"
        /\ pulled' \in 0 .. NumFiles
        /\ pulled' = pulled + 1 /\ pulled \in Nat
        /\ \A g \in Files : g > pulled' => g > pulled /\ g # f
        /\ \A g \in Files : g <= pulled' => g <= pulled \/ g = f
    BY DEF SequentialFile, Running, Files, Inv, TypeOK, FateInv
  <1>2. UNCHANGED <<setting, filesSkipped, interrupted, hurried, poolVars>>
    BY DEF SequentialFile
  <1>3. ~Parallel /\ ~poolOpen /\ queue = <<>> /\ results = <<>> /\ \A w \in Workers : busy[w] = Idle
    BY DEF SequentialFile, Inv, PoolInv
  <1>4. \/ \E outcome \in Outcomes : Consume(f, outcome) \/ Discard(f, outcome)
        \/ CloseWith("raised") /\ UNCHANGED resultVars
    BY DEF SequentialFile
  <1>. HIDE DEF f
  <1>5. /\ fate' \in [Files -> Fates \union {Pending}]
        /\ found' \in [Files -> Outcomes \union {Pending}]
        /\ skippedCount' \in 0 .. NumFiles
        /\ skippedCount' = Cardinality(Skipped')
        /\ persisted' \subseteq Files
        /\ fatal' \in BOOLEAN
        /\ pc' \in {"running", "closing"} /\ ending' \in {"returned", "raised"}
        /\ \A g \in Files : g # f => fate'[g] = fate[g]
        /\ \A g \in Files : fate'[g] = Pending => found'[g] = Pending /\ g \notin persisted'
        /\ pc' = "running" => fate'[f] # Pending /\ ~Halted'
        /\ pc' # "running" /\ ending' = "returned" => Halted'
        /\ DiskInv'
    <2>1. CASE \E outcome \in Outcomes : Consume(f, outcome) \/ Discard(f, outcome)
      BY <1>1, <1>2, <2>1, ResultsSettle DEF Inv
    <2>2. CASE CloseWith("raised") /\ UNCHANGED resultVars
      BY <1>1, <1>2, <2>2
         DEF Inv, TypeOK, FateInv, DiskInv, Halted, CloseWith, resultVars, setting, Persists, Skipped
    <2>. QED  BY <1>4, <2>1, <2>2
  <1>6. TypeOK'
    BY <1>1, <1>2, <1>5 DEF Inv, TypeOK, setting, poolVars
  <1>7. FlightInv' /\ DistinctInv'
    BY <1>2, <1>3 DEF FlightInv, DistinctInv, poolVars
  <1>8. CoverInv'
    <2>1. pc' = "running" => pc = "running" /\ \A g \in Files : g <= pulled' => fate'[g] # Pending
      BY <1>1, <1>3, <1>5 DEF Inv, CoverInv
    <2>. QED  BY <2>1 DEF CoverInv
  <1>9. TallyInv' /\ PoolInv'
    <2>1. ~poolOpen' /\ ~Parallel'
      BY <1>2, <1>3 DEF poolVars, setting, Parallel
    <2>2. generator' = "ended" => pulled' = NumFiles
      BY <1>1, <1>2 DEF SequentialFile, Inv, PoolInv, poolVars
    <2>3. issued' <= pulled'
      BY <1>1, <1>2 DEF Inv, PoolInv, TypeOK, poolVars
    <2>. QED  BY <1>2, <1>3, <2>1, <2>2, <2>3 DEF TallyInv, PoolInv, poolVars
  <1>10. FateInv'
    BY <1>1, <1>5 DEF Inv, FateInv
  <1>11. ControlInv'
    BY <1>1, <1>2, <1>3, <1>5 DEF Inv, ControlInv, Ended
  <1>. QED  BY <1>5, <1>6, <1>7, <1>8, <1>9, <1>10, <1>11 DEF Inv

-----------------------------------------------------------------------------
\* A step of the main thread that leaves results and pool as they are, and is not
\* one of the loop over results, changes nothing about where files are.
LEMMA MainStep ==
    ASSUME Inv, UNCHANGED <<setting, pulled, poolVars, resultVars>>,
           pc' \in {"closing", "returned", "raised"}
    PROVE  FlightInv' /\ DistinctInv' /\ CoverInv' /\ TallyInv' /\ FateInv' /\ PoolInv'
  <1>1. FlightInv' /\ DistinctInv'
    BY DEF Inv, FlightInv, DistinctInv, Expected, poolVars, resultVars
  <1>2. CoverInv'
    BY DEF CoverInv
  <1>3. Busy' = Busy /\ Skipped' = Skipped
    BY DEF Busy, Skipped, poolVars, resultVars
  <1>4. TallyInv' /\ FateInv'
    BY <1>3 DEF Inv, TallyInv, FateInv, poolVars, resultVars
  <1>5. PoolInv'
    BY DEF Inv, PoolInv, poolVars, Parallel, setting
  <1>. QED  BY <1>1, <1>2, <1>4, <1>5

LEMMA SequentialEndKeeps == Inv /\ SequentialEnd => Inv'
  <1>. SUFFICES ASSUME Inv, SequentialEnd PROVE Inv'
    OBVIOUS
  <1>1. /\ UNCHANGED <<setting, filesSkipped, interrupted, hurried, pulled, poolVars, resultVars>>
        /\ pc = "running" /\ pulled = NumFiles /\ pc' = "closing" /\ ending' = "returned" /\ ~Parallel
    BY DEF SequentialEnd, CloseWith, Running
  <1>2. AllSettled
    BY <1>1 DEF Inv, CoverInv, AllSettled, Files
  <1>3. TypeOK'
    BY <1>1 DEF Inv, TypeOK, setting, poolVars, resultVars
  <1>4. ControlInv'
    BY <1>1, <1>2 DEF Inv, ControlInv, AllSettled, Ended, resultVars
  <1>5. DiskInv'
    BY <1>1 DEF Inv, DiskInv, Halted, Persists, setting, resultVars
  <1>. QED  BY <1>1, <1>3, <1>4, <1>5, MainStep DEF Inv

\* With as many results taken as tasks were issued, nothing is on its way.
LEMMA NothingInFlight ==
    ASSUME Inv, poolOpen, taken = issued
    PROVE  deaths = 0 /\ \A f \in Files : ~InFlight(f)
  <1>1. IsFiniteSet(Busy)
    BY WorkersAssumption, FS_Subset DEF Busy
  <1>2. Cardinality(Busy) \in Nat
    BY <1>1, FS_CardinalityType
  <1>3. /\ issued = Len(queue) + Cardinality(Busy) + Len(results) + deaths + taken
        /\ Len(queue) \in Nat /\ Len(results) \in Nat /\ deaths \in Nat
        /\ taken \in Nat /\ issued \in Nat
    BY DeathsAssumption DEF Inv, TallyInv, TypeOK
  <1>4. Len(queue) = 0 /\ Cardinality(Busy) = 0 /\ Len(results) = 0 /\ deaths = 0
    BY <1>2, <1>3
  <1>5. Busy = {}
    BY <1>1, <1>4, FS_EmptySet
  <1>6. DOMAIN queue = {} /\ DOMAIN results = {}
    BY <1>4 DEF Inv, TypeOK
  <1>. QED  BY <1>4, <1>5, <1>6 DEF InFlight, Busy

LEMMA TakeEndKeeps == Inv /\ TakeEnd => Inv'
  <1>. SUFFICES ASSUME Inv, TakeEnd PROVE Inv'
    OBVIOUS
  <1>1. /\ UNCHANGED <<setting, filesSkipped, interrupted, hurried, pulled, poolVars, resultVars>>
        /\ pc = "running" /\ generator = "ended" /\ taken = issued
        /\ pc' = "closing" /\ ending' = "returned" /\ Parallel
    BY DEF TakeEnd, CloseWith, Running
  <1>2. poolOpen /\ pulled = NumFiles
    BY <1>1 DEF Inv, PoolInv
  <1>3. deaths = 0 /\ \A f \in Files : ~InFlight(f)
    BY <1>1, <1>2, NothingInFlight
  <1>4. AllSettled
    BY <1>1, <1>2, <1>3 DEF Inv, CoverInv, AllSettled, Files
  <1>5. TypeOK'
    BY <1>1 DEF Inv, TypeOK, setting, poolVars, resultVars
  <1>6. ControlInv'
    BY <1>1, <1>4 DEF Inv, ControlInv, AllSettled, Ended, resultVars
  <1>7. DiskInv'
    BY <1>1 DEF Inv, DiskInv, Halted, Persists, setting, resultVars
  <1>. QED  BY <1>1, <1>5, <1>6, <1>7, MainStep DEF Inv

LEMMA InterruptKeeps ==
    Inv /\ (InterruptWait \/ InterruptWork \/ InterruptNotice \/ InterruptClosing) => Inv'
  <1>. SUFFICES ASSUME Inv, InterruptWait \/ InterruptWork \/ InterruptNotice \/ InterruptClosing
                PROVE  Inv'
    OBVIOUS
  <1>1. /\ UNCHANGED <<setting, filesSkipped, pulled, poolVars, resultVars>>
        /\ ending' \in {"returned", "raised"} /\ interrupted' = TRUE
        /\ \/ pc' = "closing" /\ hurried' = hurried /\ ~hurried
           \/ pc' \in {"closing", "raised"} /\ hurried' = TRUE /\ ending' = "raised"
    BY DEF InterruptWait, InterruptWork, InterruptNotice, InterruptClosing, CloseWith, Running,
           Inv, ControlInv, TypeOK
  <1>2. TypeOK'
    BY <1>1 DEF Inv, TypeOK, setting, poolVars, resultVars
  <1>3. ControlInv' /\ DiskInv'
    BY <1>1 DEF ControlInv, DiskInv, Halted, Ended
  <1>. QED  BY <1>1, <1>2, <1>3, MainStep DEF Inv

LEMMA CloseKeeps == Inv /\ Close => Inv'
  <1>. SUFFICES ASSUME Inv, Close PROVE Inv'
    OBVIOUS
  <1>1. /\ UNCHANGED <<setting, ending, interrupted, hurried, pulled, poolVars, resultVars>>
        /\ pc = "closing" /\ ~poolOpen /\ \A w \in Workers : busy[w] = Idle
        /\ pc' = ending
        /\ filesSkipped' = IF ending = "returned" THEN skippedCount ELSE filesSkipped
    BY DEF Close
  <1>2. pc' \in {"closing", "returned", "raised"}
    BY <1>1 DEF Inv, TypeOK
  <1>3. TypeOK'
    BY <1>1, <1>2 DEF Inv, TypeOK, setting, poolVars, resultVars
  <1>4. ControlInv'
    <2>1. /\ ~poolOpen' /\ \A w \in Workers : busy'[w] = Idle
          /\ (Halted <=> Halted') /\ (AllSettled <=> AllSettled')
      BY <1>1 DEF poolVars, resultVars, Halted, AllSettled
    <2>. QED  BY <1>1, <1>2, <2>1 DEF Inv, ControlInv, Ended, TypeOK, resultVars
  <1>5. DiskInv'
    BY <1>1, <1>2 DEF Inv, DiskInv, Halted, Persists, setting, resultVars
  <1>. QED  BY <1>1, <1>2, <1>3, <1>4, <1>5, MainStep DEF Inv

-----------------------------------------------------------------------------
\* The kinds of the tasks in the pool.
LEMMA TasksInPool ==
    ASSUME Inv
    PROVE  /\ queue \in Seq(Tasks) /\ Len(queue) \in Nat
           /\ results \in Seq([task : Tasks, outcome : Outcomes \union {"fault"}])
           /\ Len(results) \in Nat
           /\ \A i \in 1 .. Len(queue) : queue[i].file \in Files \union {Fault}
           /\ \A w \in Workers : busy[w] # Idle => busy[w] \in Tasks /\ busy[w].file \in Files \union {Fault}
           /\ \A i \in 1 .. Len(results) :
                  results[i].task.file \in Files \union {Fault}
           /\ DOMAIN queue = 1 .. Len(queue) /\ DOMAIN results = 1 .. Len(results)
           /\ \A i \in 1 .. Len(results) : results[i].outcome \in Outcomes \union {"fault"}
  <1>1. /\ queue \in Seq(Tasks) /\ busy \in [Workers -> Tasks \union {Idle}]
        /\ results \in Seq([task : Tasks, outcome : Outcomes \union {"fault"}])
    BY DEF Inv, TypeOK
  <1>2. \A task \in Tasks : task.file \in Files \union {Fault}
    BY DEF Tasks
  <1>3. Len(queue) \in Nat /\ \A i \in 1 .. Len(queue) : queue[i] \in Tasks
    BY <1>1, ElementOfSeq, LenProperties, Zenon
  <1>4. /\ Len(results) \in Nat
        /\ \A i \in 1 .. Len(results) : results[i] \in [task : Tasks, outcome : Outcomes \union {"fault"}]
    BY <1>1, ElementOfSeq, LenProperties, Zenon
  <1>5. \A i \in 1 .. Len(results) :
            results[i].task \in Tasks /\ results[i].outcome \in Outcomes \union {"fault"}
    BY <1>4
  <1>6. \A w \in Workers : busy[w] # Idle => busy[w] \in Tasks
    BY <1>1
  <1>7. DOMAIN queue = 1 .. Len(queue) /\ DOMAIN results = 1 .. Len(results)
    BY <1>1, LenProperties, Zenon
  <1>. QED  BY <1>1, <1>2, <1>3, <1>4, <1>5, <1>6, <1>7, Zenon

\* The task thread issues a task: for the next file, or for its own failure.
LEMMA IssueKeeps ==
    ASSUME Inv, poolOpen, generator = "open", pulled < NumFiles, pulled' = pulled + 1,
           NEW task \in {pulled + 1, Fault}, Issue(task),
           generator' = IF task = Fault THEN "failed" ELSE "open",
           UNCHANGED <<setting, mainVars, poolOpen, busy, results, taken, deaths, resultVars>>
    PROVE  Inv'
  <1>. DEFINE new == [idx |-> issued + 1, file |-> task]
              n == Len(queue)
  <1>1. /\ pulled \in Nat /\ issued \in Nat /\ issued <= pulled
        /\ pulled' \in 0 .. NumFiles /\ issued' \in 0 .. NumFiles /\ issued' <= pulled'
        /\ pulled + 1 \in Files /\ fate[pulled + 1] = Pending
    BY DEF Inv, TypeOK, PoolInv, FateInv, Issue, Files
  <1>2. new \in Tasks
    BY <1>1 DEF Tasks, Fault
  <1>3. /\ queue' \in Seq(Tasks) /\ Len(queue') = n + 1 /\ n \in Nat
        /\ \A i \in 1 .. n : queue'[i] = queue[i]
        /\ queue'[n + 1] = new
    BY <1>2, TasksInPool DEF Issue
  <1>4. /\ \A i \in 1 .. n : queue[i].file \in Files /\ queue[i].file <= pulled
                                /\ fate[queue[i].file] = Pending
        /\ \A w \in Workers : busy[w] # Idle =>
               busy[w].file \in Files /\ busy[w].file <= pulled /\ fate[busy[w].file] = Pending
        /\ \A i \in 1 .. Len(results) :
               /\ results[i].task.file \in Files /\ results[i].task.file <= pulled
               /\ fate[results[i].task.file] = Pending
    BY TasksInPool DEF Inv, FlightInv, Expected
  <1>5. new.file = task /\ (task = Fault \/ task = pulled + 1) /\ Fault \notin Files
    BY DEF Fault, Files
  <1>6. DOMAIN queue = 1 .. n /\ DOMAIN queue' = 1 .. (n + 1) /\ DOMAIN results = 1 .. Len(results)
    BY <1>3, TasksInPool
  <1>. HIDE DEF new, n
  <1>7. /\ \A i \in 1 .. n : queue[i].file # task
        /\ \A w \in Workers : busy[w] # Idle => busy[w].file # task
        /\ \A i \in 1 .. Len(results) : results[i].task.file # task
    BY <1>1, <1>4, <1>5 DEF Files
  <1>8. FlightInv'
    <2>1. \A f \in Files : f <= pulled => f <= pulled'
      BY <1>1 DEF Files
    <2>2. Expected \subseteq Expected'
      BY <2>1 DEF Expected, resultVars
    <2>3. task \in Expected'
      BY <1>1, <1>5 DEF Expected, resultVars
    <2>4. \A i \in 1 .. n : queue'[i].file \in Expected'
      BY <1>3, <1>6, <2>2 DEF Inv, FlightInv
    <2>5. \A i \in 1 .. (n + 1) : i \in 1 .. n \/ i = n + 1
      BY <1>3
    <2>6. \A i \in 1 .. (n + 1) : queue'[i].file \in Expected'
      BY <1>3, <1>5, <2>3, <2>4, <2>5
    <2>. QED  BY <1>6, <2>2, <2>6 DEF Inv, FlightInv
  <1>9. DistinctInv'
    <2>1. \A i \in 1 .. (n + 1) : i \in 1 .. n \/ i = n + 1
      BY <1>3
    <2>2. /\ \A i \in 1 .. n : queue'[i].file = queue[i].file
          /\ queue'[n + 1].file = task
      BY <1>3, <1>5
    <2>3. /\ \A i, j \in 1 .. n : queue[i].file = queue[j].file => i = j
          /\ \A i \in 1 .. n, w \in Workers : busy[w] # Idle => queue[i].file # busy[w].file
          /\ \A i \in 1 .. n, j \in DOMAIN results : queue[i].file # results[j].task.file
      BY <1>6 DEF Inv, DistinctInv
    <2>4. \A i, j \in 1 .. (n + 1) : queue'[i].file = queue'[j].file => i = j
      BY <1>7, <2>1, <2>2, <2>3
    <2>5. \A i \in 1 .. (n + 1), w \in Workers : busy[w] # Idle => queue'[i].file # busy[w].file
      BY <1>7, <2>1, <2>2, <2>3
    <2>6. \A i \in 1 .. (n + 1), j \in DOMAIN results : queue'[i].file # results[j].task.file
      BY <1>6, <1>7, <2>1, <2>2, <2>3
    <2>. QED  BY <1>6, <2>4, <2>5, <2>6 DEF Inv, DistinctInv
  <1>10. CoverInv'
    <2>0. Parallel /\ Parallel' /\ (task = Fault => generator' = "failed")
      BY DEF Inv, PoolInv, setting, Parallel
    <2>. SUFFICES ASSUME pc' = "running", NEW f \in Files, f <= pulled', fate[f] = Pending,
                         task # Fault
                  PROVE  InFlight(f)' \/ deaths > 0
      <3>1. UNCHANGED <<pc, fate, deaths>>
        BY DEF mainVars, resultVars
      <3>. QED  BY <2>0, <3>1 DEF CoverInv
    <2>1. CASE f = pulled + 1
      <3>1. n + 1 \in DOMAIN queue' /\ queue'[n + 1].file = f
        BY <1>3, <1>5, <1>6, <2>1
      <3>. QED  BY <2>0, <3>1 DEF InFlight
    <2>2. CASE f <= pulled
      <3>1. InFlight(f) \/ deaths > 0
        BY <2>0, <2>2 DEF Inv, CoverInv, mainVars
      <3>2. CASE \E i \in DOMAIN queue : queue[i].file = f
        <4>1. PICK i \in 1 .. n : queue[i].file = f
          BY <1>6, <3>2
        <4>2. i \in DOMAIN queue' /\ queue'[i].file = f
          BY <1>3, <1>6, <4>1
        <4>. QED  BY <2>0, <4>2 DEF InFlight
      <3>. QED  BY <2>0, <3>1, <3>2 DEF InFlight
    <2>. QED  BY <1>1, <2>1, <2>2 DEF Files
  <1>11. TallyInv'
    <2>1. Busy' = Busy
      BY DEF Busy
    <2>2. IsFiniteSet(Busy) /\ Cardinality(Busy) \in Nat
      BY WorkersAssumption, FS_Subset, FS_CardinalityType DEF Busy
    <2>3. issued = Len(queue) + Cardinality(Busy) + Len(results) + deaths + taken
      BY DEF Inv, TallyInv
    <2>4. deaths \in Nat /\ taken \in Nat /\ Len(results) \in Nat /\ Len(queue) \in Nat
      BY <1>1, TasksInPool, DeathsAssumption DEF Inv, TypeOK
    <2>5. /\ issued' = issued + 1 /\ Len(queue') = Len(queue) + 1
          /\ results' = results /\ taken' = taken /\ deaths' = deaths
      BY <1>3 DEF Issue, n
    <2>. QED  BY <2>1, <2>2, <2>3, <2>4, <2>5 DEF TallyInv
  <1>12. FateInv'
    <2>1. \A f \in Files : f > pulled' => f > pulled
      BY <1>1 DEF Files
    <2>2. Skipped' = Skipped
      BY DEF Skipped, resultVars
    <2>. QED  BY <2>1, <2>2 DEF Inv, FateInv, resultVars
  <1>13. PoolInv'
    BY <1>1 DEF Inv, PoolInv, mainVars, setting, Parallel
  <1>14. ControlInv' /\ DiskInv'
    BY DEF Inv, ControlInv, DiskInv, Halted, Ended, AllSettled, Persists, mainVars, resultVars, setting
  <1>15. TypeOK'
    <2>1. taken' \in 0 .. issued'
      BY <1>1 DEF Inv, TypeOK, Issue
    <2>. QED  BY <1>1, <1>3, <2>1 DEF Inv, TypeOK, mainVars, resultVars, setting
  <1>. QED  BY <1>8, <1>9, <1>10, <1>11, <1>12, <1>13, <1>14, <1>15 DEF Inv

\* The task thread passes over a file that is too large.
LEMMA FeedSkipKeeps ==
    ASSUME Inv, poolOpen, generator = "open", pulled < NumFiles, pulled' = pulled + 1,
           Settle(pulled + 1, "big", "skipped"),
           UNCHANGED <<setting, mainVars, poolVars, fatal, persisted>>
    PROVE  Inv'
  <1>. DEFINE f == pulled + 1
  <1>1. /\ pulled \in Nat /\ issued <= pulled /\ pulled' \in 0 .. NumFiles /\ pulled' = f
        /\ f \in Files /\ fate[f] = Pending /\ issued <= pulled'
        /\ \A g \in Files : g > pulled' => g > pulled /\ g # f
        /\ \A g \in Files : g <= pulled' => g <= pulled \/ g = f
        /\ \A g \in Files : g <= pulled => g <= pulled' /\ g # f
    BY DEF Inv, TypeOK, PoolInv, FateInv, Files
  <1>. HIDE DEF f
  <1>2. Settle(f, "big", "skipped") /\ "skipped" \in Fates /\ "big" \in Outcomes
    BY DEF f, Fates, Outcomes, RenderFailures
  <1>3. /\ fate' \in [Files -> Fates \union {Pending}]
        /\ found' \in [Files -> Outcomes \union {Pending}]
        /\ skippedCount' = Cardinality(Skipped')
        /\ skippedCount' \in 0 .. NumFiles
    BY <1>1, <1>2, SettleCounts DEF Inv
  <1>4. /\ fate'[f] = "skipped" /\ found'[f] = "big"
        /\ \A g \in Files : g # f => fate'[g] = fate[g] /\ found'[g] = found[g]
    BY <1>1, <1>2 DEF Settle, Inv, TypeOK
  <1>5. Expected \subseteq Expected'
    BY <1>1, <1>4 DEF Expected, Tasks, poolVars
  <1>6. FlightInv' /\ DistinctInv'
    <2>1. /\ \A i \in DOMAIN queue : queue'[i].file \in Expected'
          /\ \A w \in Workers : busy[w] # Idle => busy'[w].file \in Expected'
          /\ \A i \in DOMAIN results : results'[i].task.file \in Expected'
      <3>1. queue' = queue /\ busy' = busy /\ results' = results
        BY DEF poolVars
      <3>. QED  BY <1>5, <3>1 DEF Inv, FlightInv
    <2>. QED  BY <2>1 DEF Inv, FlightInv, DistinctInv, poolVars
  <1>7. CoverInv'
    <2>1. \A g \in Files : InFlight(g)' <=> InFlight(g)
      BY DEF InFlight, poolVars
    <2>2. pc' = pc /\ deaths' = deaths /\ generator' = generator /\ Parallel' = Parallel
      BY DEF mainVars, poolVars, setting, Parallel
    <2>. QED  BY <1>1, <1>4, <2>1, <2>2 DEF Inv, CoverInv, Pending
  <1>8. TallyInv'
    <2>1. Busy' = Busy
      BY DEF Busy, poolVars
    <2>. QED  BY <2>1 DEF Inv, TallyInv, poolVars
  <1>9. FateInv'
    BY <1>1, <1>3, <1>4 DEF Inv, FateInv, Pending
  <1>10. PoolInv'
    BY <1>1 DEF Inv, PoolInv, poolVars, mainVars, setting, Parallel
  <1>11. ControlInv'
    <2>1. AllSettled => AllSettled'
      BY <1>1 DEF AllSettled
    <2>2. /\ UNCHANGED <<pc, ending, poolOpen, busy, fatal, interrupted, hurried>>
          /\ pc # "returned"
      BY DEF mainVars, poolVars, Inv, ControlInv, Ended
    <2>. QED  BY <2>1, <2>2 DEF Inv, ControlInv, Halted, Ended
  <1>12. DiskInv'
    BY <1>1, <1>4 DEF Inv, FateInv, DiskInv, Halted, Persists, mainVars, setting, Pending
  <1>13. TypeOK'
    BY <1>1, <1>3 DEF Inv, TypeOK, mainVars, poolVars, setting
  <1>. QED  BY <1>6, <1>7, <1>8, <1>9, <1>10, <1>11, <1>12, <1>13 DEF Inv

LEMMA FeedKeeps == Inv /\ Feed => Inv'
  <1>. SUFFICES ASSUME Inv, Feed PROVE Inv'
    OBVIOUS
  <1>1. /\ poolOpen /\ generator = "open" /\ pulled < NumFiles /\ pulled' = pulled + 1
        /\ UNCHANGED <<setting, mainVars, poolOpen, busy, results, taken, deaths, fatal, persisted>>
    BY DEF Feed
  <1>2. CASE Issue(pulled + 1) /\ UNCHANGED <<generator, fate, found, skippedCount>>
    <2>1. pulled + 1 # Fault
      BY DEF Inv, TypeOK, Fault
    <2>. QED  BY <1>1, <1>2, <2>1, IssueKeeps DEF resultVars
  <1>3. CASE Settle(pulled + 1, "big", "skipped") /\ UNCHANGED <<generator, issued, queue>>
    BY <1>1, <1>3, FeedSkipKeeps DEF poolVars
  <1>4. CASE generator' = "failed" /\ Issue(Fault) /\ UNCHANGED <<fate, found, skippedCount>>
    BY <1>1, <1>4, IssueKeeps DEF resultVars
  <1>. QED  BY <1>2, <1>3, <1>4 DEF Feed

LEMMA FeedEndKeeps == Inv /\ FeedEnd => Inv'
  <1>. SUFFICES ASSUME Inv, FeedEnd PROVE Inv'
    OBVIOUS
  <1>1. /\ generator = "open" /\ pulled = NumFiles /\ generator' = "ended"
        /\ UNCHANGED <<setting, mainVars, pulled, poolOpen, issued, queue, busy, results, taken, deaths, resultVars>>
    BY DEF FeedEnd
  <1>2. TypeOK'
    BY <1>1 DEF Inv, TypeOK, mainVars, resultVars, setting
  <1>3. FlightInv' /\ DistinctInv'
    BY <1>1 DEF Inv, FlightInv, DistinctInv, Expected, resultVars
  <1>4. CoverInv'
    <2>1. \A f \in Files : InFlight(f)' <=> InFlight(f)
      BY <1>1 DEF InFlight
    <2>. QED  BY <1>1, <2>1 DEF Inv, CoverInv, mainVars, resultVars, setting, Parallel
  <1>5. TallyInv' /\ FateInv'
    <2>1. Busy' = Busy /\ Skipped' = Skipped
      BY <1>1 DEF Busy, Skipped, resultVars
    <2>. QED  BY <1>1, <2>1 DEF Inv, TallyInv, FateInv, resultVars
  <1>6. PoolInv'
    BY <1>1 DEF Inv, PoolInv, mainVars, setting, Parallel
  <1>7. ControlInv' /\ DiskInv'
    BY <1>1 DEF Inv, ControlInv, DiskInv, Halted, Ended, AllSettled, Persists, mainVars, resultVars, setting
  <1>. QED  BY <1>2, <1>3, <1>4, <1>5, <1>6, <1>7 DEF Inv

-----------------------------------------------------------------------------
\* What a step of the workers leaves as it is.
LEMMA WorkerStep ==
    ASSUME Inv, pc \in {"running", "closing"} \/ hurried,
           UNCHANGED <<setting, mainVars, pulled, poolOpen, generator, issued, taken, resultVars>>
    PROVE  /\ FateInv' /\ ControlInv' /\ DiskInv'
           /\ Expected \subseteq Expected'
  <1>1. FateInv'
    <2>1. Skipped' = Skipped
      BY DEF Skipped, resultVars
    <2>. QED  BY <2>1 DEF Inv, FateInv, resultVars
  <1>2. ControlInv' /\ DiskInv'
    BY DEF Inv, ControlInv, DiskInv, Halted, Ended, AllSettled, Persists, mainVars, resultVars, setting
  <1>3. Expected \subseteq Expected'
    BY DEF Expected, resultVars
  <1>. QED  BY <1>1, <1>2, <1>3

\* The pool that is open is that of a parallel run not over yet, or one whose
\* closing was hit.
LEMMA OpenPool ==
    ASSUME Inv, poolOpen
    PROVE  Parallel /\ (pc \in {"running", "closing"} \/ hurried)
  BY DEF Inv, PoolInv, ControlInv, Ended, TypeOK

LEMMA WorkerStartKeeps ==
    ASSUME Inv, NEW w \in Workers, WorkerStart(w)
    PROVE  Inv'
  <1>. DEFINE n == Len(queue)
              task == queue[1]
  <1>1. /\ poolOpen /\ busy[w] = Idle /\ queue # <<>>
        /\ busy' = [busy EXCEPT ![w] = Head(queue)] /\ queue' = Tail(queue)
        /\ UNCHANGED <<setting, mainVars, pulled, poolOpen, generator, issued, results, taken, deaths, resultVars>>
    BY DEF WorkerStart
  <1>2. /\ queue \in Seq(Tasks) /\ n \in Nat /\ 1 \in 1 .. n /\ Head(queue) = task
        /\ queue' \in Seq(Tasks) /\ Len(queue') = n - 1
        /\ \A i \in 1 .. (n - 1) : queue'[i] = queue[i + 1]
    BY <1>1, TasksInPool
  <1>3. task \in Tasks /\ task.file \in Files \union {Fault}
    BY <1>2, TasksInPool
  <1>4. task # Idle
    BY <1>3 DEF Tasks, Idle
  <1>. HIDE DEF n, task
  <1>5. /\ busy \in [Workers -> Tasks \union {Idle}] /\ busy' \in [Workers -> Tasks \union {Idle}]
        /\ busy'[w] = task /\ \A v \in Workers : v # w => busy'[v] = busy[v]
    BY <1>1, <1>2, <1>3 DEF Inv, TypeOK
  <1>6. DOMAIN queue = 1 .. n /\ DOMAIN queue' = 1 .. (n - 1) /\ DOMAIN results = 1 .. Len(results)
    <2>1. DOMAIN queue = 1 .. n /\ DOMAIN results = 1 .. Len(results)
      BY TasksInPool, Zenon DEF n
    <2>2. DOMAIN queue' = 1 .. (n - 1)
      BY <1>2, LenProperties, Zenon
    <2>. QED  BY <2>1, <2>2
  <1>7. Parallel /\ (pc \in {"running", "closing"} \/ hurried)
    BY <1>1, OpenPool
  <1>8. FateInv' /\ ControlInv' /\ DiskInv' /\ Expected \subseteq Expected'
    BY <1>1, <1>7, WorkerStep
  <1>9. \A i \in 1 .. (n - 1) : i + 1 \in 1 .. n /\ i + 1 # 1
    BY <1>2
  <1>10. FlightInv'
    <2>1. /\ \A i \in 1 .. n : queue[i].file \in Expected
          /\ \A v \in Workers : busy[v] # Idle => busy[v].file \in Expected
          /\ \A i \in DOMAIN results : results[i].task.file \in Expected
          /\ task.file \in Expected
      BY <1>2, <1>6, TasksInPool DEF Inv, FlightInv, task
    <2>2. \A i \in 1 .. (n - 1) : queue'[i].file \in Expected'
      BY <1>2, <1>8, <1>9, <2>1
    <2>3. \A v \in Workers : busy'[v] # Idle => busy'[v].file \in Expected'
      BY <1>3, <1>5, <1>8, <2>1
    <2>4. \A i \in DOMAIN results' : results'[i].task.file \in Expected'
      BY <1>1, <1>8, <2>1
    <2>. QED  BY <1>6, <2>2, <2>3, <2>4 DEF FlightInv
  <1>11. DistinctInv'
    <2>1. /\ \A i \in 1 .. (n - 1) : i + 1 \in 1 .. n /\ i + 1 # 1 /\ queue'[i].file = queue[i + 1].file
          /\ \A i, j \in 1 .. (n - 1) : i + 1 = j + 1 => i = j
      BY <1>2, <1>9
    <2>2. /\ \A i, j \in 1 .. n : queue[i].file = queue[j].file => i = j
          /\ \A i \in 1 .. n, v \in Workers : busy[v] # Idle => queue[i].file # busy[v].file
          /\ \A i \in 1 .. n, j \in DOMAIN results : queue[i].file # results[j].task.file
          /\ \A u, v \in Workers :
                 busy[u] # Idle /\ busy[v] # Idle /\ busy[u].file = busy[v].file => u = v
          /\ \A v \in Workers, j \in DOMAIN results :
                 busy[v] # Idle => busy[v].file # results[j].task.file
      BY <1>6 DEF Inv, DistinctInv
    <2>3. 1 \in 1 .. n /\ task.file = queue[1].file
      BY <1>2 DEF task
    <2>4. ASSUME NEW i \in 1 .. (n - 1), NEW j \in 1 .. (n - 1), queue'[i].file = queue'[j].file
          PROVE  i = j
      <3>1. i + 1 \in 1 .. n /\ j + 1 \in 1 .. n /\ queue[i + 1].file = queue[j + 1].file
        BY <2>1, <2>4
      <3>2. i + 1 = j + 1
        BY <2>2, <3>1
      <3>. QED  BY <3>2
    <2>5. \A u, v \in Workers :
              busy'[u] # Idle /\ busy'[v] # Idle /\ busy'[u].file = busy'[v].file => u = v
      BY <1>5, <2>2, <2>3
    <2>6. \A i \in 1 .. (n - 1) : queue'[i].file # task.file
      BY <2>1, <2>2, <2>3
    <2>7. \A i \in 1 .. (n - 1), v \in Workers : busy'[v] # Idle => queue'[i].file # busy'[v].file
      BY <1>5, <2>1, <2>2, <2>6
    <2>8. \A i \in 1 .. (n - 1), j \in DOMAIN results : queue'[i].file # results[j].task.file
      BY <2>1, <2>2
    <2>9. \A v \in Workers, j \in DOMAIN results :
              busy'[v] # Idle => busy'[v].file # results[j].task.file
      BY <1>5, <2>2, <2>3
    <2>10. results' = results /\ \A i, j \in DOMAIN results :
              results[i].task.file = results[j].task.file => i = j
      BY <1>1 DEF Inv, DistinctInv
    <2>. QED  BY <1>6, <2>4, <2>5, <2>7, <2>8, <2>9, <2>10 DEF DistinctInv
  <1>12. \A f \in Files : InFlight(f) => InFlight(f)'
    <2>. SUFFICES ASSUME NEW f \in Files, InFlight(f) PROVE InFlight(f)'
      OBVIOUS
    <2>1. CASE \E i \in DOMAIN queue : queue[i].file = f
      <3>1. PICK i \in 1 .. n : queue[i].file = f
        BY <1>6, <2>1
      <3>2. CASE i = 1
        BY <1>4, <1>5, <3>1, <3>2 DEF InFlight, task
      <3>3. CASE i # 1
        <4>1. i - 1 \in 1 .. (n - 1) /\ (i - 1) + 1 = i
          BY <1>2, <3>3
        <4>2. i - 1 \in DOMAIN queue' /\ queue'[i - 1].file = f
          BY <1>2, <1>6, <3>1, <4>1
        <4>. QED  BY <4>2 DEF InFlight
      <3>. QED  BY <3>2, <3>3
    <2>2. CASE \E v \in Workers : busy[v] # Idle /\ busy[v].file = f
      BY <1>1, <1>5, <2>2 DEF InFlight
    <2>3. CASE \E i \in DOMAIN results : results[i].task.file = f
      BY <1>1, <2>3 DEF InFlight
    <2>. QED  BY <2>1, <2>2, <2>3 DEF InFlight
  <1>13. CoverInv'
    BY <1>1, <1>12 DEF Inv, CoverInv, mainVars, resultVars, setting, Parallel
  <1>14. TallyInv'
    <2>1. Busy' = Busy \union {w} /\ w \notin Busy
      BY <1>1, <1>4, <1>5 DEF Busy
    <2>2. IsFiniteSet(Busy) /\ Cardinality(Busy) \in Nat
      BY WorkersAssumption, FS_Subset, FS_CardinalityType DEF Busy
    <2>3. Cardinality(Busy') = Cardinality(Busy) + 1
      BY <2>1, <2>2, FS_AddElement
    <2>. QED  BY <1>1, <1>2, <2>2, <2>3, TasksInPool, DeathsAssumption DEF Inv, TallyInv, TypeOK, n
  <1>15. PoolInv'
    BY <1>1, <1>7 DEF Inv, PoolInv, mainVars, setting, Parallel
  <1>16. TypeOK'
    BY <1>1, <1>2, <1>5 DEF Inv, TypeOK, mainVars, resultVars, setting
  <1>. QED  BY <1>8, <1>10, <1>11, <1>13, <1>14, <1>15, <1>16 DEF Inv

\* What a worker that is rid of its task has changed.
LEMMA WorkerFreed ==
    ASSUME Inv, NEW w \in Workers, busy[w] # Idle, busy' = [busy EXCEPT ![w] = Idle]
    PROVE  /\ busy' \in [Workers -> Tasks \union {Idle}]
           /\ busy'[w] = Idle /\ \A v \in Workers : v # w => busy'[v] = busy[v]
           /\ \A v \in Workers : busy'[v] # Idle => v # w /\ busy'[v] = busy[v]
           /\ IsFiniteSet(Busy) /\ Cardinality(Busy) \in Nat
           /\ Cardinality(Busy') \in Nat /\ Cardinality(Busy) = Cardinality(Busy') + 1
  <1>1. /\ busy' \in [Workers -> Tasks \union {Idle}]
        /\ busy'[w] = Idle /\ \A v \in Workers : v # w => busy'[v] = busy[v]
    BY DEF Inv, TypeOK
  <1>2. Busy = Busy' \union {w} /\ w \notin Busy'
    BY <1>1 DEF Busy
  <1>3. IsFiniteSet(Busy) /\ IsFiniteSet(Busy')
    BY WorkersAssumption, FS_Subset DEF Busy
  <1>4. Cardinality(Busy) \in Nat /\ Cardinality(Busy') \in Nat
    BY <1>3, FS_CardinalityType
  <1>5. Cardinality(Busy) = Cardinality(Busy') + 1
    BY <1>2, <1>3, FS_AddElement
  <1>. QED  BY <1>1, <1>3, <1>4, <1>5

\* A task is lost with the process that worked on it.
LEMMA WorkerDiesKeeps ==
    ASSUME Inv, NEW w \in Workers, WorkerDies(w)
    PROVE  Inv'
  <1>1. /\ poolOpen /\ busy[w] # Idle /\ deaths < MaxDeaths /\ deaths' = deaths + 1
        /\ busy' = [busy EXCEPT ![w] = Idle]
        /\ UNCHANGED <<setting, mainVars, pulled, poolOpen, generator, issued, queue, results, taken, resultVars>>
    BY DEF WorkerDies
  <1>2. /\ busy' \in [Workers -> Tasks \union {Idle}]
        /\ \A v \in Workers : busy'[v] # Idle => v # w /\ busy'[v] = busy[v]
        /\ Cardinality(Busy) \in Nat
        /\ Cardinality(Busy') \in Nat /\ Cardinality(Busy) = Cardinality(Busy') + 1
    BY <1>1, WorkerFreed
  <1>3. Parallel /\ (pc \in {"running", "closing"} \/ hurried)
    BY <1>1, OpenPool
  <1>4. FateInv' /\ ControlInv' /\ DiskInv' /\ Expected \subseteq Expected'
    BY <1>1, <1>3, WorkerStep
  <1>5. FlightInv'
    BY <1>1, <1>2, <1>4 DEF Inv, FlightInv
  <1>6. DistinctInv'
    BY <1>1, <1>2 DEF Inv, DistinctInv
  <1>7. deaths \in Nat /\ deaths' \in 0 .. MaxDeaths /\ deaths' > 0
    BY <1>1, DeathsAssumption DEF Inv, TypeOK
  <1>8. CoverInv'
    BY <1>1, <1>3, <1>7 DEF CoverInv, setting, Parallel
  <1>9. TallyInv'
    <2>1. /\ issued = Len(queue) + Cardinality(Busy) + Len(results) + deaths + taken
          /\ Len(queue) \in Nat /\ Len(results) \in Nat /\ taken \in Nat /\ issued \in Nat
      BY <1>1, TasksInPool DEF Inv, TallyInv, TypeOK
    <2>2. UNCHANGED <<issued, queue, results, taken>> /\ deaths' = deaths + 1
      BY <1>1
    <2>3. issued = Len(queue) + Cardinality(Busy') + Len(results) + (deaths + 1) + taken
      <3>. DEFINE q == Len(queue)
                  r == Len(results)
                  before == Cardinality(Busy)
                  after == Cardinality(Busy')
      <3>1. issued = q + before + r + deaths + taken /\ before = after + 1
        BY <1>2, <2>1
      <3>2. q \in Nat /\ r \in Nat /\ after \in Nat /\ deaths \in Nat /\ taken \in Nat
        BY <1>2, <1>7, <2>1
      <3>. HIDE DEF q, r, before, after
      <3>3. issued = q + after + r + (deaths + 1) + taken
        BY <3>1, <3>2
      <3>. QED  BY <3>3 DEF q, r, after
    <2>. QED  BY <2>2, <2>3 DEF TallyInv
  <1>10. PoolInv'
    BY <1>1, <1>3 DEF Inv, PoolInv, mainVars, setting, Parallel
  <1>11. TypeOK'
    BY <1>1, <1>2, <1>7 DEF Inv, TypeOK, mainVars, resultVars, setting
  <1>. QED  BY <1>4, <1>5, <1>6, <1>8, <1>9, <1>10, <1>11 DEF Inv

LEMMA WorkerWindsDownKeeps ==
    ASSUME Inv, NEW w \in Workers, WorkerWindsDown(w)
    PROVE  Inv'
  <1>1. /\ Parallel /\ ~poolOpen /\ busy[w] # Idle /\ busy' = [busy EXCEPT ![w] = Idle]
        /\ UNCHANGED <<setting, mainVars, pulled, poolOpen, generator, issued, queue, results, taken, deaths, resultVars>>
    BY DEF WorkerWindsDown
  <1>2. /\ busy' \in [Workers -> Tasks \union {Idle}]
        /\ \A v \in Workers : busy'[v] # Idle => v # w /\ busy'[v] = busy[v]
    BY <1>1, WorkerFreed
  <1>3. pc = "closing" \/ (hurried /\ pc # "running")
    BY <1>1 DEF Inv, TypeOK, ControlInv, PoolInv, Ended
  <1>4. FateInv' /\ ControlInv' /\ DiskInv' /\ Expected \subseteq Expected'
    BY <1>1, <1>3, WorkerStep
  <1>5. FlightInv'
    BY <1>1, <1>2, <1>4 DEF Inv, FlightInv
  <1>6. DistinctInv'
    BY <1>1, <1>2 DEF Inv, DistinctInv
  <1>7. CoverInv' /\ TallyInv'
    BY <1>1, <1>3 DEF CoverInv, TallyInv, mainVars
  <1>8. PoolInv'
    BY <1>1, <1>3 DEF Inv, PoolInv, mainVars, setting, Parallel
  <1>9. TypeOK'
    BY <1>1, <1>2 DEF Inv, TypeOK, mainVars, resultVars, setting
  <1>. QED  BY <1>4, <1>5, <1>6, <1>7, <1>8, <1>9 DEF Inv

\* The result of a task goes to the end of the results.
LEMMA WorkerFinishKeeps ==
    ASSUME Inv, NEW w \in Workers, WorkerFinish(w)
    PROVE  Inv'
  <1>. DEFINE n == Len(results)
              task == busy[w]
  <1>1. /\ poolOpen /\ busy[w] # Idle /\ busy' = [busy EXCEPT ![w] = Idle]
        /\ UNCHANGED <<setting, mainVars, pulled, poolOpen, generator, issued, queue, taken, deaths, resultVars>>
    BY DEF WorkerFinish
  <1>2. PICK outcome \in WorkerOutcomes(task) :
            results' = Append(results, [task |-> task, outcome |-> outcome])
    BY DEF WorkerFinish
  <1>3. outcome \in Outcomes \union {"fault"}
    BY DEF WorkerOutcomes, Outcomes
  <1>4. task \in Tasks /\ task # Idle
    BY <1>1, TasksInPool
  <1>5. /\ results' \in Seq([task : Tasks, outcome : Outcomes \union {"fault"}])
        /\ Len(results') = n + 1 /\ n \in Nat
        /\ \A i \in 1 .. n : results'[i] = results[i]
        /\ results'[n + 1].task = task
    BY <1>2, <1>3, <1>4, TasksInPool
  <1>. HIDE DEF n
  <1>6. /\ busy' \in [Workers -> Tasks \union {Idle}]
        /\ busy'[w] = Idle /\ \A v \in Workers : v # w => busy'[v] = busy[v]
        /\ \A v \in Workers : busy'[v] # Idle => v # w /\ busy'[v] = busy[v]
        /\ Cardinality(Busy) \in Nat
        /\ Cardinality(Busy') \in Nat /\ Cardinality(Busy) = Cardinality(Busy') + 1
    BY <1>1, WorkerFreed
  <1>7. /\ DOMAIN results = 1 .. n /\ DOMAIN results' = 1 .. (n + 1)
        /\ \A i \in 1 .. (n + 1) : i \in 1 .. n \/ i = n + 1
    BY <1>5, TasksInPool DEF n
  <1>8. Parallel /\ (pc \in {"running", "closing"} \/ hurried)
    BY <1>1, OpenPool
  <1>9. FateInv' /\ ControlInv' /\ DiskInv' /\ Expected \subseteq Expected'
    BY <1>1, <1>8, WorkerStep
  <1>10. FlightInv'
    <2>1. /\ \A i \in DOMAIN queue : queue[i].file \in Expected
          /\ \A v \in Workers : busy[v] # Idle => busy[v].file \in Expected
          /\ \A i \in 1 .. n : results[i].task.file \in Expected
          /\ task.file \in Expected
      BY <1>1, <1>7, TasksInPool DEF Inv, FlightInv, n
    <2>2. \A i \in DOMAIN queue' : queue'[i].file \in Expected'
      BY <1>1, <1>9, <2>1
    <2>3. \A v \in Workers : busy'[v] # Idle => busy'[v].file \in Expected'
      BY <1>6, <1>9, <2>1
    <2>4. (\A i \in 1 .. n : results'[i].task.file \in Expected') /\ results'[n + 1].task.file \in Expected'
      BY <1>4, <1>5, <1>9, <2>1
    <2>. QED  BY <1>7, <2>2, <2>3, <2>4 DEF FlightInv
  <1>11. DistinctInv'
    <2>1. /\ \A i, j \in 1 .. n : results[i].task.file = results[j].task.file => i = j
          /\ \A i \in 1 .. n : results[i].task.file # task.file
      BY <1>1, <1>7 DEF Inv, DistinctInv
    <2>2. \A i, j \in 1 .. (n + 1) : results'[i].task.file = results'[j].task.file => i = j
      BY <1>5, <1>7, <2>1
    <2>3. \A u, v \in Workers :
              busy'[u] # Idle /\ busy'[v] # Idle /\ busy'[u].file = busy'[v].file => u = v
      BY <1>6 DEF Inv, DistinctInv
    <2>4. \A i \in DOMAIN queue, v \in Workers : busy'[v] # Idle => queue[i].file # busy'[v].file
      BY <1>6 DEF Inv, DistinctInv
    <2>5. \A i \in DOMAIN queue, j \in 1 .. (n + 1) : queue[i].file # results'[j].task.file
      BY <1>1, <1>5, <1>7 DEF Inv, DistinctInv
    <2>6. \A v \in Workers, j \in 1 .. (n + 1) :
              busy'[v] # Idle => busy'[v].file # results'[j].task.file
      BY <1>1, <1>5, <1>6, <1>7 DEF Inv, DistinctInv
    <2>7. queue' = queue /\ \A i, j \in DOMAIN queue : queue[i].file = queue[j].file => i = j
      BY <1>1 DEF Inv, DistinctInv
    <2>. QED  BY <1>7, <2>2, <2>3, <2>4, <2>5, <2>6, <2>7 DEF DistinctInv
  <1>12. \A f \in Files : InFlight(f) => InFlight(f)'
    BY <1>1, <1>5, <1>6, <1>7 DEF InFlight
  <1>13. CoverInv'
    BY <1>1, <1>12 DEF Inv, CoverInv, mainVars, resultVars, setting, Parallel
  <1>14. TallyInv'
    BY <1>1, <1>5, <1>6, TasksInPool, DeathsAssumption DEF Inv, TallyInv, TypeOK, n
  <1>15. PoolInv'
    BY <1>1, <1>8 DEF Inv, PoolInv, mainVars, setting, Parallel
  <1>16. TypeOK'
    BY <1>1, <1>5, <1>6 DEF Inv, TypeOK, mainVars, resultVars, setting
  <1>. QED  BY <1>9, <1>10, <1>11, <1>13, <1>14, <1>15, <1>16 DEF Inv

-----------------------------------------------------------------------------
\* The task that stands for the failure of the generator comes back as a failure.
FaultInv == \A i \in DOMAIN results : results[i].task.file = Fault => results[i].outcome = "fault"

\* What is left of the results when the main thread has taken the one at i.
LEMMA ResultTaken ==
    ASSUME Inv, NEW i \in DOMAIN results,
           results' = SubSeq(results, 1, i - 1) \o SubSeq(results, i + 1, Len(results))
    PROVE  /\ Len(results) \in Nat /\ i \in 1 .. Len(results) /\ DOMAIN results = 1 .. Len(results)
           /\ results' \in Seq([task : Tasks, outcome : Outcomes \union {"fault"}])
           /\ Len(results') = Len(results) - 1 /\ DOMAIN results' = 1 .. (Len(results) - 1)
           /\ \A k \in 1 .. (Len(results) - 1) : results'[k] = results[IF k < i THEN k ELSE k + 1]
           /\ \A k \in DOMAIN results : k # i => \E m \in DOMAIN results' : results'[m] = results[k]
  <1>1. /\ results \in Seq([task : Tasks, outcome : Outcomes \union {"fault"}])
        /\ Len(results) \in Nat /\ i \in 1 .. Len(results) /\ DOMAIN results = 1 .. Len(results)
    BY TasksInPool, Zenon
  <1>2. /\ results' \in Seq([task : Tasks, outcome : Outcomes \union {"fault"}])
        /\ Len(results') = Len(results) - 1
        /\ \A k \in 1 .. (Len(results) - 1) : results'[k] = results[IF k < i THEN k ELSE k + 1]
    BY <1>1, TakeOut, Zenon
  <1>3. DOMAIN results' = 1 .. (Len(results) - 1)
    BY <1>2, LenProperties, Zenon
  <1>4. ASSUME NEW k \in DOMAIN results, k # i
        PROVE  \E m \in DOMAIN results' : results'[m] = results[k]
    <2>. DEFINE m == IF k < i THEN k ELSE k - 1
    <2>1. m \in 1 .. (Len(results) - 1) /\ (IF m < i THEN m ELSE m + 1) = k
      BY <1>1, <1>4
    <2>2. results'[m] = results[k]
      BY <1>2, <2>1
    <2>. QED  BY <1>3, <2>1, <2>2
  <1>. QED  BY <1>1, <1>2, <1>3, <1>4, Zenon

\* Taking a result leaves the rest of the pool in order, whatever became of its file.
LEMMA TakenFromPool ==
    ASSUME Inv, Parallel, pc = "running", NEW i \in DOMAIN results,
           results' = SubSeq(results, 1, i - 1) \o SubSeq(results, i + 1, Len(results)),
           taken' = taken + 1,
           UNCHANGED <<setting, filesSkipped, interrupted, hurried, pulled, poolOpen, generator, issued,
                       queue, busy, deaths>>,
           pc' \in {"running", "closing"},
           \A g \in Files : g # results[i].task.file => fate'[g] = fate[g],
           results[i].task.file \in Files /\ pc' = "running" => fate'[results[i].task.file] # Pending,
           results[i].task.file = Fault => pc' # "running"
    PROVE  FlightInv' /\ DistinctInv' /\ CoverInv' /\ TallyInv' /\ PoolInv' /\ taken' \in 0 .. issued'
  <1>. DEFINE n == Len(results)
              f == results[i].task.file
  <1>1. /\ n \in Nat /\ i \in 1 .. n /\ DOMAIN results = 1 .. n
        /\ Len(results') = n - 1 /\ DOMAIN results' = 1 .. (n - 1)
        /\ \A k \in 1 .. (n - 1) : results'[k] = results[IF k < i THEN k ELSE k + 1]
        /\ \A k \in DOMAIN results : k # i => \E m \in DOMAIN results' : results'[m] = results[k]
    BY ResultTaken, Zenon
  <1>2. ASSUME NEW k \in 1 .. (n - 1)
        PROVE  \E a \in 1 .. n : /\ a = (IF k < i THEN k ELSE k + 1)
                                 /\ a # i /\ results'[k] = results[a]
    <2>. DEFINE a == IF k < i THEN k ELSE k + 1
    <2>1. a \in 1 .. n /\ a # i
      BY <1>1
    <2>2. results'[k] = results[a]
      BY <1>1
    <2>. QED  BY <2>1, <2>2, Zenon
  <1>3. f \in Files \union {Fault} /\ Fault \notin Files
    BY <1>1, TasksInPool DEF Fault, Files
  <1>4. /\ \A k \in 1 .. n : k # i => results[k].task.file # f
        /\ \A k \in DOMAIN queue : queue[k].file # f
        /\ \A w \in Workers : busy[w] # Idle => busy[w].file # f
    BY <1>1 DEF Inv, DistinctInv
  <1>. HIDE DEF f, n
  <1>5. \A g \in Expected : g # f => g \in Expected'
    BY DEF Expected, Tasks, f
  <1>6. FlightInv'
    <2>1. /\ \A k \in DOMAIN queue : queue[k].file \in Expected
          /\ \A v \in Workers : busy[v] # Idle => busy[v].file \in Expected
          /\ \A k \in 1 .. n : results[k].task.file \in Expected
      BY <1>1, TasksInPool DEF Inv, FlightInv, n
    <2>2. \A k \in DOMAIN queue' : queue'[k].file \in Expected'
      BY <1>4, <1>5, <2>1
    <2>3. \A v \in Workers : busy'[v] # Idle => busy'[v].file \in Expected'
      BY <1>4, <1>5, <2>1
    <2>4. \A k \in 1 .. (n - 1) : results'[k].task.file \in Expected'
      BY <1>1, <1>2, <1>4, <1>5, <2>1
    <2>. QED  BY <1>1, <2>2, <2>3, <2>4 DEF FlightInv
  <1>7. DistinctInv'
    <2>1. /\ \A k, m \in 1 .. n : results[k].task.file = results[m].task.file => k = m
          /\ \A k \in DOMAIN queue, m \in 1 .. n : queue[k].file # results[m].task.file
          /\ \A w \in Workers, m \in 1 .. n : busy[w] # Idle => busy[w].file # results[m].task.file
      BY <1>1 DEF Inv, DistinctInv
    <2>3. ASSUME NEW k \in 1 .. (n - 1), NEW m \in 1 .. (n - 1),
                 results'[k].task.file = results'[m].task.file
          PROVE  k = m
      <3>1. PICK a \in 1 .. n : a = (IF k < i THEN k ELSE k + 1) /\ a # i /\ results'[k] = results[a]
        BY <1>2
      <3>2. PICK b \in 1 .. n : b = (IF m < i THEN m ELSE m + 1) /\ b # i /\ results'[m] = results[b]
        BY <1>2
      <3>3. a = b
        BY <2>1, <2>3, <3>1, <3>2
      <3>. QED  BY <1>1, <3>1, <3>2, <3>3
    <2>4. ASSUME NEW m \in 1 .. (n - 1)
          PROVE  /\ \A k \in DOMAIN queue : queue[k].file # results'[m].task.file
                 /\ \A w \in Workers : busy[w] # Idle => busy[w].file # results'[m].task.file
      <3>1. PICK a \in 1 .. n : results'[m] = results[a]
        BY <1>2
      <3>2. \A k \in DOMAIN queue : queue[k].file # results'[m].task.file
        BY <2>1, <3>1, Zenon
      <3>3. \A w \in Workers : busy[w] # Idle => busy[w].file # results'[m].task.file
        BY <2>1, <3>1, Zenon
      <3>. QED  BY <3>2, <3>3
    <2>5. /\ \A k, m \in DOMAIN results' : results'[k].task.file = results'[m].task.file => k = m
          /\ \A k \in DOMAIN queue, m \in DOMAIN results' : queue[k].file # results'[m].task.file
          /\ \A w \in Workers, m \in DOMAIN results' :
                 busy[w] # Idle => busy[w].file # results'[m].task.file
      BY <1>1, <2>3, <2>4, Zenon
    <2>6. /\ \A k, m \in DOMAIN queue' : queue'[k].file = queue'[m].file => k = m
          /\ \A v, w \in Workers :
                 busy'[v] # Idle /\ busy'[w] # Idle /\ busy'[v].file = busy'[w].file => v = w
          /\ \A k \in DOMAIN queue', w \in Workers : busy'[w] # Idle => queue'[k].file # busy'[w].file
      BY DEF Inv, DistinctInv
    <2>. QED  BY <2>5, <2>6 DEF DistinctInv
  <1>8. CoverInv'
    <2>. SUFFICES ASSUME pc' = "running", NEW g \in Files, g <= pulled, fate'[g] = Pending
                  PROVE  Parallel /\ (InFlight(g)' \/ deaths > 0 \/ generator = "failed")
      BY DEF CoverInv, setting, Parallel
    <2>1. g # f /\ fate[g] = Pending
      BY <1>3 DEF f
    <2>2. InFlight(g) \/ deaths > 0 \/ generator = "failed"
      BY <2>1 DEF Inv, CoverInv
    <2>3. CASE \E k \in DOMAIN results : results[k].task.file = g
      <3>1. PICK k \in DOMAIN results : results[k].task.file = g
        BY <2>3
      <3>2. k # i
        BY <2>1, <3>1 DEF f
      <3>3. \E m \in DOMAIN results' : results'[m].task.file = g
        BY <1>1, <3>1, <3>2
      <3>. QED  BY <3>3 DEF InFlight
    <2>. QED  BY <2>2, <2>3 DEF InFlight
  <1>9. poolOpen
    BY DEF Inv, PoolInv
  <1>10. issued = Len(queue) + Cardinality(Busy) + n + deaths + taken
    BY <1>9 DEF Inv, TallyInv, n
  <1>11. /\ Cardinality(Busy) \in Nat /\ Len(queue) \in Nat /\ deaths \in Nat
         /\ taken \in Nat /\ issued \in Nat
    <2>1. Cardinality(Busy) \in Nat
      BY WorkersAssumption, FS_Subset, FS_CardinalityType DEF Busy
    <2>. QED  BY <2>1, TasksInPool, DeathsAssumption DEF Inv, TypeOK
  <1>12. TallyInv' /\ taken' \in 0 .. issued'
    <2>1. Busy' = Busy
      BY DEF Busy
    <2>2. n - 1 \in Nat
      BY <1>1
    <2>3. issued = Len(queue) + Cardinality(Busy) + (n - 1) + deaths + (taken + 1)
      <3>. DEFINE q == Len(queue)
                  c == Cardinality(Busy)
      <3>1. n \in Nat /\ issued = q + c + n + deaths + taken
        BY <1>1, <1>10
      <3>2. q \in Nat /\ c \in Nat /\ deaths \in Nat /\ taken \in Nat
        BY <1>11
      <3>. HIDE DEF q, c
      <3>3. issued = q + c + (n - 1) + deaths + (taken + 1)
        BY <3>1, <3>2
      <3>. QED  BY <3>3 DEF q, c
    <2>4. taken + 1 \in 0 .. issued
      BY <1>11, <2>2, <2>3
    <2>. QED  BY <1>1, <2>1, <2>3, <2>4 DEF TallyInv
  <1>13. PoolInv'
    BY <1>9 DEF Inv, PoolInv, setting, Parallel
  <1>. QED  BY <1>6, <1>7, <1>8, <1>12, <1>13

LEMMA TakeResultKeeps == Inv /\ FaultInv /\ TakeResult => Inv'
  <1>. SUFFICES ASSUME Inv, FaultInv, TakeResult PROVE Inv'
    OBVIOUS
  <1>1. /\ Parallel /\ pc = "running" /\ taken' = taken + 1
        /\ UNCHANGED <<setting, filesSkipped, interrupted, hurried, pulled, poolOpen, generator, issued, queue, busy, deaths>>
    BY DEF TakeResult, Running
  <1>2. PICK i \in DOMAIN results :
            /\ results' = SubSeq(results, 1, i - 1) \o SubSeq(results, i + 1, Len(results))
            /\ \/ /\ results[i].outcome \in Linted \union RenderFailures \union LintFailures
                  /\ \/ Consume(results[i].task.file, results[i].outcome)
                     \/ Discard(results[i].task.file, results[i].outcome)
               \/ CloseWith("raised") /\ UNCHANGED resultVars
    BY Zenon DEF TakeResult, Deliverable
  <1>. DEFINE f == results[i].task.file
              outcome == results[i].outcome
  <1>3. f \in Files \union {Fault} /\ Fault \notin Files
    BY TasksInPool DEF Fault, Files
  <1>4. f \in Files => fate[f] = Pending /\ f <= pulled
    BY <1>3 DEF Inv, FlightInv, Expected
  <1>5. /\ results' \in Seq([task : Tasks, outcome : Outcomes \union {"fault"}])
    BY <1>2, ResultTaken, Zenon
  <1>6. CASE /\ outcome \in Linted \union RenderFailures \union LintFailures
             /\ Consume(f, outcome) \/ Discard(f, outcome)
    <2>1. f \in Files /\ fate[f] = Pending /\ outcome \in Outcomes
      BY <1>3, <1>4, <1>6
         DEF FaultInv, Outcomes, Linted, RenderFailures, LintFailures
    <2>. HIDE DEF f, outcome
    <2>2. /\ fate' \in [Files -> Fates \union {Pending}]
          /\ found' \in [Files -> Outcomes \union {Pending}]
          /\ skippedCount' \in 0 .. NumFiles
          /\ skippedCount' = Cardinality(Skipped')
          /\ persisted' \subseteq Files
          /\ fatal' \in BOOLEAN
          /\ pc' \in {"running", "closing"} /\ ending' \in {"returned", "raised"}
          /\ \A g \in Files : g # f => fate'[g] = fate[g]
          /\ \A g \in Files : fate'[g] = Pending => found'[g] = Pending /\ g \notin persisted'
          /\ pc' = "running" => fate'[f] # Pending /\ ~Halted'
          /\ pc' # "running" /\ ending' = "returned" => Halted'
          /\ DiskInv'
      BY <1>1, <1>6, <2>1, ResultsSettle DEF Inv
    <2>3. FlightInv' /\ DistinctInv' /\ CoverInv' /\ TallyInv' /\ PoolInv' /\ taken' \in 0 .. issued'
      BY <1>1, <1>2, <1>3, <2>1, <2>2, TakenFromPool DEF f
    <2>4. FateInv'
      <3>1. \A g \in Files : g > pulled => g # f
        BY <1>4, <2>1 DEF Inv, TypeOK, Files
      <3>. QED  BY <1>1, <2>2, <3>1 DEF Inv, FateInv
    <2>5. ControlInv'
      BY <1>1, <2>2 DEF Inv, ControlInv, Ended
    <2>6. TypeOK'
      BY <1>1, <1>5, <2>2, <2>3 DEF Inv, TypeOK, setting
    <2>. QED  BY <2>2, <2>3, <2>4, <2>5, <2>6 DEF Inv
  <1>7. CASE CloseWith("raised") /\ UNCHANGED resultVars
    <2>1. /\ pc' = "closing" /\ ending' = "raised"
          /\ UNCHANGED <<fate, fatal, persisted, skippedCount, found>>
      BY <1>7 DEF CloseWith, resultVars
    <2>2. FlightInv' /\ DistinctInv' /\ CoverInv' /\ TallyInv' /\ PoolInv' /\ taken' \in 0 .. issued'
      BY <1>1, <1>2, <2>1, TakenFromPool
    <2>3. FateInv'
      <3>1. Skipped' = Skipped
        BY <2>1 DEF Skipped
      <3>. QED  BY <1>1, <2>1, <3>1 DEF Inv, FateInv
    <2>4. ControlInv' /\ DiskInv'
      BY <1>1, <2>1 DEF Inv, ControlInv, DiskInv, Ended
    <2>5. TypeOK'
      BY <1>1, <1>5, <2>1, <2>2 DEF Inv, TypeOK, setting
    <2>. QED  BY <2>2, <2>3, <2>4, <2>5 DEF Inv
  <1>. QED  BY <1>2, <1>6, <1>7

\* Terminating the pool throws away what waits and what has arrived.
LEMMA TerminateKeeps == Inv /\ (Terminate \/ StopLate) => Inv'
  <1>. SUFFICES ASSUME Inv, Terminate \/ StopLate PROVE Inv'
    OBVIOUS
  <1>1. /\ pc # "running"
        /\ poolOpen /\ poolOpen' = FALSE /\ queue' = <<>> /\ results' = <<>>
        /\ UNCHANGED <<setting, mainVars, pulled, generator, issued, taken, deaths, resultVars>>
    BY DEF Terminate, StopLate, StopPool
  <1>2. /\ busy' \in [Workers -> Tasks \union {Idle}]
        /\ \A w \in Workers : busy'[w] = Idle \/ busy'[w] = busy[w]
    BY DEF Terminate, StopLate, StopPool, Inv, TypeOK
  <1>3. Parallel /\ Parallel'
    BY <1>1, OpenPool DEF setting, Parallel
  <1>4. FlightInv' /\ DistinctInv'
    <2>1. DOMAIN queue' = {} /\ DOMAIN results' = {}
      BY <1>1
    <2>2. \A w \in Workers : busy'[w] # Idle => busy'[w] = busy[w] /\ busy[w] # Idle
      BY <1>2
    <2>. QED  BY <1>1, <2>1, <2>2 DEF Inv, FlightInv, DistinctInv, Expected, resultVars
  <1>5. CoverInv' /\ TallyInv' /\ PoolInv'
    BY <1>1, <1>3 DEF Inv, CoverInv, TallyInv, PoolInv, mainVars
  <1>6. FateInv'
    <2>1. Skipped' = Skipped
      BY <1>1 DEF Skipped, resultVars
    <2>. QED  BY <1>1, <2>1 DEF Inv, FateInv, resultVars
  <1>7. ControlInv' /\ DiskInv'
    BY <1>1 DEF Inv, ControlInv, DiskInv, Halted, Ended, AllSettled, Persists, mainVars, resultVars, setting
  <1>8. TypeOK'
    <2>1. queue' \in Seq(Tasks) /\ results' \in Seq([task : Tasks, outcome : Outcomes \union {"fault"}])
      BY <1>1
    <2>. QED  BY <1>1, <1>2, <2>1 DEF Inv, TypeOK, mainVars, resultVars, setting
  <1>. QED  BY <1>4, <1>5, <1>6, <1>7, <1>8 DEF Inv

LEMMA StutterKeeps == Inv /\ UNCHANGED vars => Inv'
  <1>. SUFFICES ASSUME Inv, UNCHANGED vars PROVE Inv'
    OBVIOUS
  <1>1. /\ UNCHANGED <<setting, mainVars, pulled, poolVars, resultVars>>
        /\ Parallel' = Parallel /\ Busy' = Busy /\ Skipped' = Skipped
    BY DEF vars, Parallel, setting, Busy, Skipped, poolVars, resultVars
  <1>2. FlightInv' /\ DistinctInv' /\ CoverInv'
    BY <1>1 DEF Inv, FlightInv, DistinctInv, CoverInv, InFlight, Expected, mainVars, poolVars, resultVars
  <1>3. TallyInv' /\ FateInv' /\ PoolInv'
    BY <1>1 DEF Inv, TallyInv, FateInv, PoolInv, mainVars, poolVars, resultVars
  <1>4. ControlInv' /\ DiskInv'
    BY <1>1 DEF Inv, ControlInv, DiskInv, Halted, Ended, AllSettled, Persists,
                mainVars, poolVars, resultVars, setting
  <1>5. TypeOK'
    BY <1>1 DEF Inv, TypeOK, setting, mainVars, poolVars, resultVars
  <1>. QED  BY <1>2, <1>3, <1>4, <1>5 DEF Inv

LEMMA FaultKeeps == Inv /\ FaultInv /\ [Next]_vars => FaultInv'
  <1>. SUFFICES ASSUME Inv, FaultInv, [Next]_vars PROVE FaultInv'
    OBVIOUS
  <1>1. CASE results' = results
    BY <1>1 DEF FaultInv
  <1>2. CASE results' = <<>>
    BY <1>2 DEF FaultInv
  <1>3. ASSUME NEW w \in Workers, WorkerFinish(w)
        PROVE  FaultInv'
    <2>1. busy[w] \in Tasks
      BY <1>3, TasksInPool DEF WorkerFinish
    <2>2. PICK outcome \in WorkerOutcomes(busy[w]) :
              results' = Append(results, [task |-> busy[w], outcome |-> outcome])
      BY <1>3 DEF WorkerFinish
    <2>3. busy[w].file = Fault => outcome = "fault"
      BY DEF WorkerOutcomes
    <2>4. \A i \in DOMAIN results' :
              \/ i \in DOMAIN results /\ results'[i] = results[i]
              \/ results'[i] = [task |-> busy[w], outcome |-> outcome]
      BY <2>2, TasksInPool
    <2>. QED  BY <2>3, <2>4 DEF FaultInv
  <1>4. ASSUME TakeResult
        PROVE  FaultInv'
    <2>1. PICK i \in DOMAIN results :
              results' = SubSeq(results, 1, i - 1) \o SubSeq(results, i + 1, Len(results))
      BY <1>4, Zenon DEF TakeResult, Deliverable
    <2>2. \A k \in DOMAIN results' : \E m \in DOMAIN results : results'[k] = results[m]
      <3>1. \A k \in 1 .. (Len(results) - 1) : (IF k < i THEN k ELSE k + 1) \in 1 .. Len(results)
        BY <2>1, ResultTaken
      <3>. QED  BY <2>1, <3>1, ResultTaken
    <2>. QED  BY <2>2 DEF FaultInv
  <1>5. CASE SequentialFile \/ SequentialEnd \/ TakeEnd \/ Close \/ Feed \/ FeedEnd
             \/ InterruptWait \/ InterruptWork \/ InterruptNotice \/ InterruptClosing
             \/ Done \/ UNCHANGED vars
    BY <1>1, <1>5 DEF SequentialFile, SequentialEnd, TakeEnd, Close, Feed, FeedEnd,
                      InterruptWait, InterruptWork, InterruptNotice, InterruptClosing,
                      Done, vars, poolVars
  <1>6. CASE Terminate \/ StopLate
    BY <1>2, <1>6 DEF Terminate, StopLate, StopPool
  <1>7. ASSUME NEW w \in Workers, WorkerStart(w) \/ WorkerWindsDown(w) \/ WorkerDies(w)
        PROVE  FaultInv'
    BY <1>1, <1>7 DEF WorkerStart, WorkerWindsDown, WorkerDies
  <1>. QED  BY <1>3, <1>4, <1>5, <1>6, <1>7 DEF Next, Main, Feeder, Worker

LEMMA InvKeeps == Inv /\ FaultInv /\ [Next]_vars => Inv'
  <1>. SUFFICES ASSUME Inv, FaultInv, [Next]_vars PROVE Inv'
    OBVIOUS
  <1>1. CASE SequentialFile \/ SequentialEnd \/ TakeResult \/ TakeEnd \/ Terminate \/ StopLate \/ Close
    BY <1>1, SequentialFileKeeps, SequentialEndKeeps, TakeResultKeeps, TakeEndKeeps,
       TerminateKeeps, CloseKeeps
  <1>2. CASE Feed \/ FeedEnd
    BY <1>2, FeedKeeps, FeedEndKeeps
  <1>3. ASSUME NEW w \in Workers,
               WorkerStart(w) \/ WorkerFinish(w) \/ WorkerWindsDown(w) \/ WorkerDies(w)
        PROVE  Inv'
    BY <1>3, WorkerStartKeeps, WorkerFinishKeeps, WorkerWindsDownKeeps, WorkerDiesKeeps
  <1>4. CASE InterruptWait \/ InterruptWork \/ InterruptNotice \/ InterruptClosing
    BY <1>4, InterruptKeeps
  <1>5. CASE Done \/ UNCHANGED vars
    BY <1>5, StutterKeeps DEF Done
  <1>. QED  BY <1>1, <1>2, <1>3, <1>4, <1>5 DEF Next, Main, Feeder, Worker

\* The inductive invariant holds of every behaviour of lint_paths and its runner.
THEOREM Invariance == Spec => [](Inv /\ FaultInv)
  <1>1. Init => Inv /\ FaultInv
    BY InitInv DEF Init, FaultInv
  <1>2. Inv /\ FaultInv /\ [Next]_vars => (Inv /\ FaultInv)'
    BY InvKeeps, FaultKeeps
  <1>. QED  BY <1>1, <1>2, PTL DEF Spec

\* Whatever files lint_paths expands to and however many workers there are, every
\* variable of the run keeps to the values the code can give it.
THEOREM TypeCorrect == Spec => []TypeOK
  <1>1. Inv => TypeOK
    BY DEF Inv
  <1>. QED  BY <1>1, Invariance, PTL

\* files_skipped, read after the iterator of results is closed, counts every file
\* that iter_rendered or _handle_lint_path_exception passed over as too large.
THEOREM SkipsAreCounted == Spec => []SkipCountExact
  <1>1. Inv => SkipCountExact
    BY DEF Inv, ControlInv, FateInv, SkipCountExact, Skipped
  <1>. QED  BY <1>1, Invariance, PTL

\* When lint_paths returns, or raises without Ctrl-C having hit the closing of its
\* pool, that pool is terminated and has come to rest.
THEOREM PoolIsQuiet == Spec => []QuietEnd
  <1>1. Inv => QuietEnd
    BY DEF Inv, ControlInv, PoolInv, QuietEnd, Ended
  <1>. QED  BY <1>1, Invariance, PTL

\* A run that applies fixes and returns without halting has written the files it
\* may fix, all of them and no others, whichever runner delivered them.
THEOREM FixesAreWritten == Spec => []FixesReachDisk
  <1>1. Inv => FixesReachDisk
    BY DEF Inv, ControlInv, DiskInv, FixesReachDisk, Halted, Ended
  <1>. QED  BY <1>1, Invariance, PTL

-----------------------------------------------------------------------------
\* A file whose fate is settled is settled for LintPromise too.
LEMMA SettleIsPromised ==
    ASSUME Inv,
           \/ pc \in {"running", "closing"} /\ pc' \in {"running", "closing"}
           \/ pc = "raised" /\ pc' = pc /\ Halted,
           NEW f \in Files, fate[f] = Pending, NEW outcome \in Outcomes, NEW d \in Fates,
           Settle(f, outcome, d), Halted => d # "added", Halted' \in {Halted, TRUE}
    PROVE  Promise!Next
  <1>1. Promise!Settle(f, d)
    BY DEF Settle, Promise!Settle, Halted
  <1>. QED  BY <1>1 DEF Promise!Next, Promise!SettleOne, Halted

\* So is what the body of the loop does with the result of a file.
LEMMA ResultIsPromised ==
    ASSUME Inv, pc = "running", NEW f \in Files, fate[f] = Pending, NEW outcome \in Outcomes,
           Consume(f, outcome) \/ Discard(f, outcome), UNCHANGED interrupted
    PROVE  Promise!Next \/ UNCHANGED Promise!vars
  <1>1. ~Halted /\ ~fatal /\ ~interrupted
    BY DEF Inv, ControlInv, Halted
  <1>2. "added" \in Fates /\ "skipped" \in Fates /\ "dropped" \in Fates
    BY DEF Fates
  <1>3. CASE Consume(f, outcome)
    <2>1. Settle(f, outcome, "added") /\ pc' \in {"running", "closing"} /\ fatal' \in BOOLEAN
      BY <1>3 DEF Consume, CloseWith, StayOpen
    <2>2. Halted' \in {Halted, TRUE}
      BY <1>1, <2>1 DEF Halted
    <2>. QED  BY <1>1, <1>2, <2>1, <2>2, SettleIsPromised
  <1>4. CASE Discard(f, outcome)
    <2>1. Halted' = Halted /\ pc' \in {"running", "closing"}
      BY <1>4 DEF Discard, CloseWith, StayOpen, Halted
    <2>2. CASE \E d \in Fates : Settle(f, outcome, d)
      BY <1>1, <2>1, <2>2, SettleIsPromised
    <2>3. CASE UNCHANGED fate
      BY <2>1, <2>3 DEF Promise!vars, Halted
    <2>. QED  BY <1>2, <1>4, <2>2, <2>3 DEF Discard
  <1>. QED  BY <1>3, <1>4

\* lint_paths keeps its promise whichever runner it drives: each file is settled at
\* most once, nothing is added once the run has halted, and a run that returns
\* without having halted has settled every file.
THEOREM LintPathsKeepsPromise == Spec => ImplementsLintPromise
  <1>1. Init => Promise!Init
    BY DEF Init, Promise!Init
  <1>2. Inv /\ FaultInv /\ [Next]_vars => [Promise!Next]_(Promise!vars)
    <2>. SUFFICES ASSUME Inv, FaultInv, [Next]_vars
                  PROVE  Promise!Next \/ UNCHANGED Promise!vars
      OBVIOUS
    <2>1. ASSUME UNCHANGED <<fate, fatal, interrupted>>,
                 pc' = pc \/ (pc \in {"running", "closing"} /\ pc' = "closing")
          PROVE  UNCHANGED Promise!vars
      BY <2>1 DEF Promise!vars
    <2>2. CASE SequentialFile
      <3>1. /\ pc = "running" /\ pulled + 1 \in Files /\ fate[pulled + 1] = Pending
            /\ UNCHANGED interrupted
        BY <2>2 DEF SequentialFile, Running, Files, Inv, TypeOK, FateInv
      <3>2. CASE \E outcome \in Outcomes : Consume(pulled + 1, outcome) \/ Discard(pulled + 1, outcome)
        BY <3>1, <3>2, ResultIsPromised
      <3>3. CASE CloseWith("raised") /\ UNCHANGED resultVars
        BY <2>1, <3>1, <3>3 DEF CloseWith, resultVars
      <3>. QED  BY <2>2, <3>2, <3>3 DEF SequentialFile
    <2>3. CASE TakeResult
      <3>1. pc = "running" /\ UNCHANGED interrupted
        BY <2>3 DEF TakeResult, Running
      <3>2. PICK i \in DOMAIN results :
                \/ /\ results[i].outcome \in Linted \union RenderFailures \union LintFailures
                   /\ \/ Consume(results[i].task.file, results[i].outcome)
                      \/ Discard(results[i].task.file, results[i].outcome)
                \/ CloseWith("raised") /\ UNCHANGED resultVars
        BY <2>3, Zenon DEF TakeResult, Deliverable
      <3>3. CASE CloseWith("raised") /\ UNCHANGED resultVars
        BY <2>1, <3>1, <3>3 DEF CloseWith, resultVars
      <3>4. CASE results[i].outcome \in Linted \union RenderFailures \union LintFailures
        <4>1. results[i].task.file \in Files /\ results[i].outcome \in Outcomes
          BY <3>4, TasksInPool
             DEF FaultInv, Outcomes, Linted, RenderFailures, LintFailures
        <4>2. fate[results[i].task.file] = Pending
          BY <4>1 DEF Inv, FlightInv, Expected, Fault, Files
        <4>. QED  BY <2>1, <3>1, <3>2, <3>3, <4>1, <4>2, ResultIsPromised
      <3>. QED  BY <3>2, <3>3, <3>4
    <2>4. CASE Feed
      <3>1. /\ UNCHANGED <<fatal, interrupted, pc>>
            /\ pc \in {"running", "closing"} \/ (pc = "raised" /\ Halted)
        BY <2>4, OpenPool DEF Feed, mainVars, Inv, ControlInv, TypeOK, Ended, Halted
      <3>2. CASE Settle(pulled + 1, "big", "skipped")
        <4>1. /\ pulled + 1 \in Files /\ fate[pulled + 1] = Pending
              /\ "skipped" \in Fates /\ "big" \in Outcomes
          BY <2>4 DEF Feed, Files, Inv, TypeOK, FateInv, Fates, Outcomes, RenderFailures
        <4>2. Halted' \in {Halted, TRUE}
          BY <3>1 DEF Halted
        <4>. QED  BY <3>1, <3>2, <4>1, <4>2, SettleIsPromised
      <3>3. CASE UNCHANGED fate
        BY <3>1, <3>3 DEF Promise!vars
      <3>4. Settle(pulled + 1, "big", "skipped") \/ UNCHANGED fate
        BY <2>4 DEF Feed
      <3>. QED  BY <3>2, <3>3, <3>4
    <2>5. CASE SequentialEnd \/ TakeEnd
      BY <2>1, <2>5 DEF SequentialEnd, TakeEnd, CloseWith, resultVars, Running
    <2>6. CASE FeedEnd \/ Terminate \/ StopLate
      <3>1. UNCHANGED <<fate, fatal, interrupted, pc>>
        BY <2>6 DEF FeedEnd, Terminate, StopLate, StopPool, resultVars, mainVars
      <3>. QED  BY <3>1 DEF Promise!vars
    <2>7. CASE Close
      <3>1. /\ pc = "closing" /\ pc' \in {"returned", "raised"} /\ pc' = ending
            /\ UNCHANGED <<fate, fatal, interrupted>>
        BY <2>7 DEF Close, Inv, TypeOK, resultVars
      <3>2. CASE pc' = "raised"
        BY <3>1, <3>2 DEF Promise!Next, Promise!Raise
      <3>3. CASE pc' = "returned"
        <4>1. (fatal \/ interrupted) \/ \A f \in Files : fate[f] # Pending
          BY <3>1, <3>3 DEF Inv, ControlInv, Halted, AllSettled
        <4>. QED  BY <3>1, <3>3, <4>1 DEF Promise!Next, Promise!Return
      <3>. QED  BY <3>1, <3>2, <3>3
    <2>8. CASE InterruptWait \/ InterruptWork \/ InterruptNotice \/ InterruptClosing
      <3>1. /\ pc \in {"running", "closing"} /\ interrupted' = TRUE /\ UNCHANGED <<fate, fatal>>
            /\ pc' \in {"closing", "raised"}
        BY <2>8 DEF InterruptWait, InterruptWork, InterruptNotice, InterruptClosing, Running,
                    CloseWith, resultVars
      <3>2. CASE pc' = "raised"
        BY <3>1, <3>2 DEF Promise!Next, Promise!Raise
      <3>3. CASE pc' = "closing"
        BY <3>1, <3>3 DEF Promise!Next, Promise!Halt
      <3>. QED  BY <3>1, <3>2, <3>3
    <2>9. ASSUME NEW w \in Workers, Worker(w) \/ WorkerDies(w)
          PROVE  Promise!Next \/ UNCHANGED Promise!vars
      <3>1. UNCHANGED <<fate, fatal, interrupted, pc>>
        BY <2>9 DEF Worker, WorkerStart, WorkerFinish, WorkerWindsDown, WorkerDies,
                    mainVars, resultVars
      <3>. QED  BY <3>1 DEF Promise!vars
    <2>10. CASE Done \/ UNCHANGED vars
      <3>1. UNCHANGED <<fate, fatal, interrupted, pc>>
        BY <2>10 DEF Done, vars, mainVars, resultVars
      <3>. QED  BY <3>1 DEF Promise!vars
    <2>. QED  BY <2>2, <2>3, <2>4, <2>5, <2>6, <2>7, <2>8, <2>9, <2>10 DEF Next, Main, Feeder
  <1>. QED  BY <1>1, <1>2, Invariance, PTL DEF Spec, ImplementsLintPromise, Promise!Spec
=============================================================================
