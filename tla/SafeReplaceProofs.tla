-------------------------- MODULE SafeReplaceProofs --------------------------
(***************************************************************************)
(* Proofs about SafeReplace, for any number of processes that fix a file.  *)
(***************************************************************************)
EXTENDS SafeReplace, TLAPS

\* What a call has made of its temporary file by the time it stands there.
TempInv ==
    \A f \in Fixers :
        /\ pc[f] \in {"name", "write", "sync", "chmod", "move", "copy", "unlink"} => temp[f] \in Files
        /\ pc[f] \in {"sync", "chmod", "move"} => temp[f].text = f
        /\ pc[f] \in {"chmod", "move"} => temp[f].synced
        /\ movable /\ pc[f] = "move" => deleted \/ temp[f].mode = "user"
        /\ pc[f] \in {"moved", "returned"} => temp[f] = Absent
        /\ pc[f] \in {"stat", "create"} => temp[f] = Absent
        /\ pc[f] \in {"write", "sync", "chmod", "move", "copy", "unlink"} => f \in named
        /\ pc[f] = "cleanup" /\ f \notin named /\ temp[f] # Absent => "name" \in hits[f]
        /\ pc[f] = "raised" /\ temp[f] # Absent => "name" \in hits[f] \/ "cleanup" \in hits[f]

\* Permissions were found unless there was no input file, and a file that can be
\* renamed is not copied.
RenameInv ==
    movable =>
        \A f \in Fixers :
            /\ pc[f] \in {"create", "name", "write", "sync", "chmod"} =>
                   deleted \/ mode[f] = "user"
            /\ pc[f] \notin {"copy", "unlink"}

\* A file that a power loss may leave at the name of the target without harm.
Durable(file) ==
    \/ file = Absent /\ (suffixed \/ deleted)
    \/ /\ file \in Files
       /\ file.text # Torn
       /\ file.synced
       /\ deleted \/ file.mode = "user"

DiskInv == movable => \A file \in onDisk : Durable(file)

Inv == TypeOK /\ TempInv /\ RenameInv /\ DiskInv

-----------------------------------------------------------------------------
\* A file made of a text, permissions and a mark.
LEMMA FileIsFile ==
    ASSUME NEW text \in Texts \union {Torn}, NEW perm \in Modes, NEW synced \in BOOLEAN
    PROVE  /\ File(text, perm, synced) \in Files
           /\ File(text, perm, synced) # Absent
           /\ File(text, perm, synced).text = text
           /\ File(text, perm, synced).mode = perm
           /\ File(text, perm, synced).synced = synced
  BY AbsentAssumption DEF File, Files

\* What a call does to its own temporary file.
LEMMA FileEdits ==
    ASSUME NEW file \in Files, NEW text \in Texts \union {Torn}, NEW perm \in Modes
    PROVE  /\ [file EXCEPT !.text = text] \in Files
           /\ [file EXCEPT !.synced = TRUE] \in Files
           /\ [file EXCEPT !.mode = perm] \in Files
           /\ file # Absent
           /\ file.mode \in Modes
  BY AbsentAssumption DEF Files

\* The invariant holds before any call has started.
LEMMA InvInit == Init => Inv
  <1> SUFFICES ASSUME Init PROVE Inv
    OBVIOUS
  <1>1. Original \in Texts \union {Torn} /\ Original # Torn /\ "user" \in Modes
    BY FixersAssumption DEF Texts, Modes
  <1>2. File(Original, "user", TRUE) \in Files
    BY <1>1, FileIsFile
  <1>3. TypeOK
    <2>1. pc \in [Fixers -> Stages] /\ hits \in [Fixers -> SUBSET Stages]
      BY DEF Init, Stages
    <2> QED
      BY <1>2, <2>1 DEF Init, TypeOK
  <1>4. TempInv /\ RenameInv
    BY DEF Init, TempInv, RenameInv
  <1>5. Durable(target)
    <2>1. CASE target = File(Original, "user", TRUE)
      BY <1>1, <1>2, <2>1, FileIsFile DEF Durable
    <2>2. CASE target = Absent
      BY <2>2 DEF Init, Durable
    <2> QED
      BY <2>1, <2>2 DEF Init
  <1> QED
    BY <1>3, <1>4, <1>5 DEF Init, Inv, DiskInv

\* The permissions noted are those of the target, which are the user's, or of the input file.
LEMMA StatInv == ASSUME Inv, NEW f \in Fixers, Stat(f) PROVE Inv'
  <1> USE DEF Stat, Goto, TempBecomes, TargetBecomes, setting
  <1>1. TypeOK'
    BY DEF Inv, TypeOK, Stages, Files, Modes
  <1>2. TempInv'
    BY DEF Inv, TempInv
  <1>3. RenameInv'
    <2>1. movable /\ ~suffixed /\ target # Absent => deleted \/ target.mode = "user"
      BY DEF Inv, TypeOK, Stages, DiskInv, Durable
    <2>2. movable /\ ~suffixed /\ target = Absent => deleted
      BY AbsentAssumption DEF Inv, TypeOK, Stages, DiskInv, Durable
    <2>3. movable => deleted \/ mode'[f] = "user"
      BY <2>1, <2>2 DEF Inv, TypeOK, Stages
    <2> QED
      BY <2>3 DEF Inv, RenameInv
  <1>4. DiskInv'
    BY DEF Inv, DiskInv, Durable
  <1> QED
    BY <1>1, <1>2, <1>3, <1>4 DEF Inv

\* A new temporary file is a file, and private.
LEMMA CreateInv == ASSUME Inv, NEW f \in Fixers, Create(f) PROVE Inv'
  <1> USE DEF Create, Goto, TempBecomes, TargetBecomes, setting
  <1>1. TypeOK'
    BY DEF Inv, TypeOK, Stages, Files, Modes, File
  <1>2. TempInv'
    <2>1. File(Torn, "private", FALSE) \in Files
      BY FileIsFile DEF Modes
    <2>2. temp'[f] \in Files
      BY <2>1 DEF Inv, TypeOK, Stages
    <2> QED
      BY <2>2 DEF Inv, TypeOK, Stages, TempInv
  <1>3. RenameInv'
    BY DEF Inv, RenameInv
  <1>4. DiskInv'
    BY DEF Inv, DiskInv, Durable
  <1> QED
    BY <1>1, <1>2, <1>3, <1>4 DEF Inv

\* A name kept is that of a file that is there.
LEMMA NameInv == ASSUME Inv, NEW f \in Fixers, Name(f) PROVE Inv'
  <1> USE DEF Name, Goto, TempBecomes, TargetBecomes, setting
  <1>1. TypeOK'
    BY DEF Inv, TypeOK, Stages
  <1>2. TempInv'
    BY DEF Inv, TempInv
  <1>3. RenameInv'
    BY DEF Inv, RenameInv
  <1>4. DiskInv'
    BY DEF Inv, DiskInv, Durable
  <1> QED
    BY <1>1, <1>2, <1>3, <1>4 DEF Inv

\* The temporary file has the text of its call.
LEMMA WriteInv == ASSUME Inv, NEW f \in Fixers, Write(f) PROVE Inv'
  <1> USE DEF Write, Goto, TempBecomes, TargetBecomes, setting
  <1>1. TypeOK'
    BY DEF Inv, TypeOK, Stages, TempInv, Files, Texts
  <1>2. TempInv'
    <2>1. temp[f] \in Files
      BY DEF Inv, TempInv
    <2>2. temp'[f] \in Files /\ temp'[f].text = f
      BY <2>1 DEF Inv, TypeOK, Stages, Files, Texts
    <2> QED
      BY <2>2 DEF Inv, TempInv
  <1>3. RenameInv'
    BY DEF Inv, RenameInv
  <1>4. DiskInv'
    BY DEF Inv, DiskInv, Durable
  <1> QED
    BY <1>1, <1>2, <1>3, <1>4 DEF Inv

\* The temporary file is on disk.
LEMMA SyncInv == ASSUME Inv, NEW f \in Fixers, Sync(f) PROVE Inv'
  <1> USE DEF Sync, Goto, TempBecomes, TargetBecomes, setting
  <1>1. TypeOK'
    <2>1. temp[f] \in Files
      BY DEF Inv, TempInv
    <2>2. [temp[f] EXCEPT !.synced = TRUE] \in Files
      BY <2>1, FileEdits DEF Texts, Modes
    <2> QED
      BY <2>2 DEF Inv, TypeOK, Stages
  <1>2. TempInv'
    <2>1. temp[f] \in Files /\ temp[f].text = f
      BY DEF Inv, TempInv
    <2>2. temp'[f] \in Files /\ temp'[f].text = f /\ temp'[f].synced
      BY <2>1 DEF Inv, TypeOK, Stages, Files
    <2> QED
      BY <2>2 DEF Inv, TypeOK, Stages, TempInv
  <1>3. RenameInv'
    BY DEF Inv, RenameInv
  <1>4. DiskInv'
    BY DEF Inv, DiskInv, Durable
  <1> QED
    BY <1>1, <1>2, <1>3, <1>4 DEF Inv

\* The temporary file has the permissions noted.
LEMMA ChmodInv == ASSUME Inv, NEW f \in Fixers, Chmod(f) PROVE Inv'
  <1> USE DEF Chmod, Goto, TempBecomes, TargetBecomes, setting
  <1>1. TypeOK'
    BY DEF Inv, TypeOK, Stages, TempInv, Files
  <1>2. TempInv'
    <2>1. temp[f] \in Files /\ temp[f].text = f /\ temp[f].synced
      BY DEF Inv, TempInv
    <2>2. /\ temp'[f] \in Files
          /\ temp'[f].text = f
          /\ temp'[f].synced
      BY <2>1 DEF Inv, TypeOK, Stages, Files
    <2>3. movable => deleted \/ mode[f] = "user"
      BY DEF Inv, RenameInv
    <2>4. movable => deleted \/ temp'[f].mode = "user"
      BY <2>1, <2>3, AbsentAssumption DEF Inv, TypeOK, Stages, Modes
    <2> QED
      BY <2>2, <2>4 DEF Inv, TempInv
  <1>3. RenameInv'
    BY DEF Inv, RenameInv
  <1>4. DiskInv'
    BY DEF Inv, DiskInv, Durable
  <1> QED
    BY <1>1, <1>2, <1>3, <1>4 DEF Inv

\* What replaces the target by a rename is whole, synced and of the right permissions.
LEMMA MoveInv == ASSUME Inv, NEW f \in Fixers, Move(f) PROVE Inv'
  <1> USE DEF Move, Goto, TempBecomes, TargetBecomes, setting
  <1>1. TypeOK'
    BY DEF Inv, TypeOK, Stages
  <1>2. TempInv'
    BY DEF Inv, TypeOK, Stages, TempInv
  <1>3. RenameInv'
    BY DEF Inv, RenameInv
  <1>4. DiskInv'
    <2>1. movable => Durable(temp[f])
      BY FixersAssumption DEF Inv, TempInv, Durable
    <2> QED
      BY <2>1 DEF Inv, DiskInv, Durable
  <1> QED
    BY <1>1, <1>2, <1>3, <1>4 DEF Inv

\* The target is opened for writing only where files cannot be renamed.
LEMMA CopyOpenInv == ASSUME Inv, NEW f \in Fixers, CopyOpen(f) PROVE Inv'
  <1> USE DEF CopyOpen, Goto, TempBecomes, TargetBecomes, setting
  <1>1. TypeOK'
    <2>1. (IF target = Absent THEN "default" ELSE target.mode) \in Modes
      BY FileEdits DEF Inv, TypeOK, Stages, Modes
    <2>2. target' \in Files
      BY <2>1, FileIsFile
    <2> QED
      BY <2>2 DEF Inv, TypeOK, Stages
  <1>2. TempInv'
    BY DEF Inv, TempInv
  <1>3. RenameInv'
    BY DEF RenameInv
  <1>4. DiskInv'
    BY DEF DiskInv
  <1> QED
    BY <1>1, <1>2, <1>3, <1>4 DEF Inv

\* The same of what is copied over it.
LEMMA CopyAllInv == ASSUME Inv, NEW f \in Fixers, CopyAll(f) PROVE Inv'
  <1> USE DEF CopyAll, Goto, TempBecomes, TargetBecomes, setting
  <1>1. TypeOK'
    <2>1. temp[f].mode \in Modes
      BY FileEdits DEF Inv, TempInv, Modes
    <2>2. target' \in Files
      BY <2>1, FileIsFile DEF Texts
    <2> QED
      BY <2>2 DEF Inv, TypeOK, Stages
  <1>2. TempInv'
    BY DEF Inv, TempInv
  <1>3. RenameInv'
    BY DEF Inv, RenameInv
  <1>4. DiskInv'
    BY DEF Inv, RenameInv, DiskInv
  <1> QED
    BY <1>1, <1>2, <1>3, <1>4 DEF Inv

\* After a copy the temporary file is gone as well.
LEMMA UnlinkInv == ASSUME Inv, NEW f \in Fixers, Unlink(f) PROVE Inv'
  <1> USE DEF Unlink, Goto, TempBecomes, TargetBecomes, setting
  <1>1. TypeOK'
    BY DEF Inv, TypeOK, Stages
  <1>2. TempInv'
    BY DEF Inv, TypeOK, Stages, TempInv
  <1>3. RenameInv'
    BY DEF Inv, RenameInv
  <1>4. DiskInv'
    BY DEF Inv, DiskInv, Durable
  <1> QED
    BY <1>1, <1>2, <1>3, <1>4 DEF Inv

\* Returning changes no file.
LEMMA ReturnInv == ASSUME Inv, NEW f \in Fixers, Return(f) PROVE Inv'
  <1> USE DEF Return, Goto, TempBecomes, TargetBecomes, setting
  <1>1. TypeOK'
    BY DEF Inv, TypeOK, Stages
  <1>2. TempInv'
    BY DEF Inv, TempInv
  <1>3. RenameInv'
    BY DEF Inv, RenameInv
  <1>4. DiskInv'
    BY DEF Inv, DiskInv, Durable
  <1> QED
    BY <1>1, <1>2, <1>3, <1>4 DEF Inv

\* An exception changes no file.
LEMMA RaiseInv == ASSUME Inv, NEW f \in Fixers, Raise(f) PROVE Inv'
  <1> USE DEF Raise, Hit, Goto, TempBecomes, TargetBecomes, setting
  <1>1. TypeOK'
    BY DEF Inv, TypeOK, Stages
  <1>2. TempInv'
    <2>1. /\ pc' = [pc EXCEPT ![f] = IF pc[f] = "stat" THEN "raised" ELSE "cleanup"]
          /\ hits' = [hits EXCEPT ![f] = @ \union {pc[f]}]
          /\ UNCHANGED <<named, temp, movable, deleted>>
      OBVIOUS
    <2>2. pc[f] \in Stages \ {"cleanup", "returned", "raised", "killed"}
      BY DEF Inv, TypeOK
    <2>3. temp[f] # Absent /\ f \notin named => pc[f] = "name" \/ pc[f] = "moved"
      BY <2>2 DEF Inv, TempInv, Stages
    <2>4. pc[f] = "moved" => temp[f] = Absent
      BY DEF Inv, TempInv
    <2>5. /\ pc[f] = "stat" => temp[f] = Absent
          /\ pc'[f] \in {"raised", "cleanup"}
          /\ pc'[f] = "raised" => pc[f] = "stat"
          /\ hits'[f] = hits[f] \union {pc[f]}
      BY <2>1 DEF Inv, TypeOK, TempInv
    <2>6. \A g \in Fixers : g # f => pc'[g] = pc[g] /\ hits'[g] = hits[g]
      BY <2>1 DEF Inv, TypeOK
    <2> QED
      BY <2>1, <2>3, <2>4, <2>5, <2>6 DEF Inv, TempInv
  <1>3. RenameInv'
    BY DEF Inv, RenameInv
  <1>4. DiskInv'
    BY DEF Inv, DiskInv, Durable
  <1> QED
    BY <1>1, <1>2, <1>3, <1>4 DEF Inv

\* The except clause removes the temporary file if its name is known; else a fault
\* came before the name was kept.
LEMMA CleanUpInv == ASSUME Inv, NEW f \in Fixers, CleanUp(f) PROVE Inv'
  <1> USE DEF CleanUp, Goto, TempBecomes, TargetBecomes, setting
  <1>1. TypeOK'
    BY DEF Inv, TypeOK, Stages
  <1>2. TempInv'
    BY DEF Inv, TypeOK, Stages, TempInv
  <1>3. RenameInv'
    BY DEF Inv, RenameInv
  <1>4. DiskInv'
    BY DEF Inv, DiskInv, Durable
  <1> QED
    BY <1>1, <1>2, <1>3, <1>4 DEF Inv

\* A fault in the except clause is on record.
LEMMA CleanUpFailsInv == ASSUME Inv, NEW f \in Fixers, CleanUpFails(f) PROVE Inv'
  <1> USE DEF CleanUpFails, Hit, Goto, setting
  <1>1. TypeOK'
    BY DEF Inv, TypeOK, Stages
  <1>2. TempInv'
    BY DEF Inv, TypeOK, Stages, TempInv
  <1>3. RenameInv'
    BY DEF Inv, RenameInv
  <1>4. DiskInv'
    BY DEF Inv, DiskInv, Durable
  <1> QED
    BY <1>1, <1>2, <1>3, <1>4 DEF Inv

\* A call that is killed claims nothing.
LEMMA KillInv == ASSUME Inv, NEW f \in Fixers, Kill(f) PROVE Inv'
  <1> USE DEF Kill, Goto, TempBecomes, TargetBecomes, setting
  <1>1. TypeOK'
    BY DEF Inv, TypeOK, Stages
  <1>2. TempInv'
    BY DEF Inv, TempInv
  <1>3. RenameInv'
    BY DEF Inv, RenameInv
  <1>4. DiskInv'
    BY DEF Inv, DiskInv, Durable
  <1> QED
    BY <1>1, <1>2, <1>3, <1>4 DEF Inv

\* What is durable is whole after a power loss.
LEMMA PowerLossInv == ASSUME Inv, PowerLoss PROVE Inv'
  <1> USE DEF PowerLoss, setting
  <1>1. PICK file \in onDisk :
            IF file = Absent THEN target' = Absent
            ELSE \E text \in {file.text} \union (IF file.synced THEN {} ELSE {Torn}) :
                     target' = File(text, file.mode, TRUE)
    OBVIOUS
  <1>2. file \in Files \union {Absent}
    BY DEF Inv, TypeOK, Stages
  <1>3. /\ target' \in Files \union {Absent}
        /\ movable => Durable(target')
    <2>1. CASE file = Absent
      BY <1>1, <2>1, AbsentAssumption DEF Inv, DiskInv
    <2>2. CASE file # Absent
      <3>1. PICK text \in {file.text} \union (IF file.synced THEN {} ELSE {Torn}) :
                target' = File(text, file.mode, TRUE)
        BY <1>1, <2>2
      <3>2. file.text \in Texts \union {Torn} /\ file.mode \in Modes /\ file.synced \in BOOLEAN
        BY <1>2, <2>2 DEF Files
      <3>3. text \in Texts \union {Torn}
        BY <3>2
      <3>4. /\ File(text, file.mode, TRUE) \in Files
            /\ File(text, file.mode, TRUE).text = text
            /\ File(text, file.mode, TRUE).mode = file.mode
            /\ File(text, file.mode, TRUE).synced
        BY <3>2, <3>3, FileIsFile
      <3>5. /\ target' \in Files
            /\ target'.text = text
            /\ target'.mode = file.mode
            /\ target'.synced
        BY <3>1, <3>4
      <3>6. movable => file.synced /\ file.text # Torn /\ (deleted \/ file.mode = "user")
        BY <2>2 DEF Inv, DiskInv, Durable
      <3> QED
        BY <3>1, <3>5, <3>6 DEF Durable
    <2> QED
      BY <2>1, <2>2
  <1>4. TypeOK'
    BY <1>3 DEF Inv, TypeOK, Stages
  <1>5. TempInv' /\ RenameInv'
    BY DEF TempInv, RenameInv
  <1>6. DiskInv'
    BY <1>3 DEF DiskInv, Durable
  <1> QED
    BY <1>4, <1>5, <1>6 DEF Inv

\* Every step keeps the invariant.
LEMMA InvStep == Inv /\ [Next]_vars => Inv'
  <1> SUFFICES ASSUME Inv, [Next]_vars PROVE Inv'
    OBVIOUS
  <1>1. ASSUME NEW f \in Fixers, Fixer(f) PROVE Inv'
    BY <1>1, StatInv, CreateInv, NameInv, WriteInv, SyncInv, ChmodInv, MoveInv, CopyOpenInv,
       CopyAllInv, UnlinkInv, ReturnInv, RaiseInv, CleanUpInv, CleanUpFailsInv DEF Fixer
  <1>2. ASSUME NEW f \in Fixers, Kill(f) PROVE Inv'
    BY <1>2, KillInv
  <1>3. CASE UNCHANGED vars
    BY <1>3 DEF vars, setting, Inv, TypeOK, TempInv, RenameInv, DiskInv, Durable
  <1> QED
    BY <1>1, <1>2, <1>3, PowerLossInv DEF Next, AllEnded

-----------------------------------------------------------------------------
\* The invariant holds of every run, for any number of fixers.
THEOREM Invariance == Spec => []Inv
  BY InvInit, InvStep, PTL DEF Spec

\* Every variable keeps to the values the code and the file system can give it.
THEOREM TypeCorrect == Spec => []TypeOK
  <1>1. Inv => TypeOK
    BY DEF Inv
  <1> QED
    BY <1>1, Invariance, PTL

\* Where files can be renamed, the target is whole at any time and after a power
\* loss, with its permissions: a temporary file is complete, synced and of the
\* right permissions before it is renamed.
THEOREM TargetIsWhole == Spec => []TargetWhole
  <1>1. Inv => TargetWhole
    BY AbsentAssumption DEF Inv, TypeOK, Stages, DiskInv, Durable, TargetWhole
  <1> QED
    BY <1>1, Invariance, PTL

\* A call that is over has left a temporary file only if a fault came before it
\* kept the file's name, or hit the clean-up itself.
THEOREM OrphansAreRemoved == Spec => []NoOrphans
  <1>1. Inv => NoOrphans
    BY DEF Inv, TypeOK, Stages, TempInv, NoOrphans
  <1> QED
    BY <1>1, Invariance, PTL
=============================================================================
