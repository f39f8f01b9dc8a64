----------------------------- MODULE SafeReplace -----------------------------
(***************************************************************************)
(* LintedFile._safe_create_replace_file: the fixed source is written to a  *)
(* temporary file, which then takes the place of the target. Several       *)
(* processes may be fixing the same file, and each may fail, be            *)
(* interrupted or be killed between any two calls; the machine may lose    *)
(* its power.                                                              *)
(*                                                                         *)
(* The file system is external: a file has content, permissions, and a     *)
(* mark of whether its content was synced. What a name shows after a power *)
(* loss is the file it names or one it named before.                       *)
(***************************************************************************)
EXTENDS FiniteSets

CONSTANTS
    Fixers,     \* the calls that write to one target; each has a text to write
    Original,   \* the text of the target before any of them
    Torn,       \* content that is neither
    Absent      \* no file, or no permissions to preserve

ASSUME FixersAssumption == Original \notin Fixers /\ Torn \notin Fixers \union {Original}

Texts == Fixers \union {Original}

\* "user" are the permissions of the input file, "private" those of a new
\* temporary file, "default" those of a new file of any other kind.
Modes == {"user", "private", "default"}

Files == [text : Texts \union {Torn}, mode : Modes, synced : BOOLEAN]
File(text, mode, synced) == [text |-> text, mode |-> mode, synced |-> synced]

ASSUME AbsentAssumption == Absent \notin Files /\ Absent \notin Modes

VARIABLES
    suffixed,   \* a suffix was given: the target is not the input file
    deleted,    \* the input file has been removed since it was read
    movable,    \* os.rename of one file to the other works here
    pc,         \* where each call stands
    mode,       \* mode: the permissions to preserve, or Absent
    named,      \* the calls that have set tmp_name
    hits,       \* history: where each call failed or was interrupted
    temp,       \* the temporary file of each call, or Absent
    target,     \* the file at output_path, or Absent
    onDisk      \* what a power loss may leave there

setting == <<suffixed, deleted, movable>>
vars == <<setting, pc, mode, named, hits, temp, target, onDisk>>

Init ==
    /\ suffixed \in BOOLEAN
    /\ deleted \in BOOLEAN
    /\ movable \in BOOLEAN
    /\ pc = [f \in Fixers |-> "stat"]
    /\ mode = [f \in Fixers |-> Absent]
    /\ named = {}
    /\ hits = [f \in Fixers |-> {}]
    /\ temp = [f \in Fixers |-> Absent]
    /\ target \in {File(Original, "user", TRUE), Absent}
    /\ ~suffixed => (deleted <=> target = Absent)
    /\ onDisk = {target}

Goto(f, at) == pc' = [pc EXCEPT ![f] = at]
TempBecomes(f, file) == temp' = [temp EXCEPT ![f] = file]
TargetBecomes(file) ==
    /\ target' = file
    /\ onDisk' = onDisk \union {file}

-----------------------------------------------------------------------------
\* os.stat of the input file.
Stat(f) ==
    /\ pc[f] = "stat"
    /\ Goto(f, "create")
    /\ mode' = [mode EXCEPT ![f] =
                  IF suffixed THEN IF deleted THEN Absent ELSE "user"
                  ELSE IF target = Absent THEN Absent ELSE target.mode]
    /\ UNCHANGED <<setting, named, hits, temp, target, onDisk>>

\* NamedTemporaryFile
Create(f) ==
    /\ pc[f] = "create"
    /\ Goto(f, "name")
    /\ TempBecomes(f, File(Torn, "private", FALSE))
    /\ UNCHANGED <<setting, mode, named, hits, target, onDisk>>

Name(f) ==
    /\ pc[f] = "name"
    /\ Goto(f, "write")
    /\ named' = named \union {f}
    /\ UNCHANGED <<setting, mode, hits, temp, target, onDisk>>

Write(f) ==
    /\ pc[f] = "write"
    /\ Goto(f, "sync")
    /\ TempBecomes(f, [temp[f] EXCEPT !.text = f])
    /\ UNCHANGED <<setting, mode, named, hits, target, onDisk>>

\* Mutant: the file is not synced.
SyncNot(f) ==
    /\ pc[f] = "sync"
    /\ Goto(f, "chmod")
    /\ UNCHANGED <<setting, mode, named, hits, temp, target, onDisk>>

Sync(f) ==
    /\ pc[f] = "sync"
    /\ Goto(f, "chmod")
    /\ TempBecomes(f, [temp[f] EXCEPT !.synced = TRUE])
    /\ UNCHANGED <<setting, mode, named, hits, target, onDisk>>

\* A new file keeps the permissions of a temporary one if there are none to preserve.
Chmod(f) ==
    /\ pc[f] = "chmod"
    /\ Goto(f, "move")
    /\ TempBecomes(f, IF mode[f] = Absent THEN temp[f] ELSE [temp[f] EXCEPT !.mode = mode[f]])
    /\ UNCHANGED <<setting, mode, named, hits, target, onDisk>>

\* shutil.move: a rename replaces the target at once.
Move(f) ==
    /\ pc[f] = "move"
    /\ movable
    /\ Goto(f, "moved")
    /\ TargetBecomes(temp[f])
    /\ TempBecomes(f, Absent)
    /\ UNCHANGED <<setting, mode, named, hits>>

\* Where os.rename fails (an existing target on Windows, a sticky directory)
\* shutil.move opens the target for writing and copies.
CopyOpen(f) ==
    /\ pc[f] = "move"
    /\ ~movable
    /\ Goto(f, "copy")
    /\ TargetBecomes(File(Torn, IF target = Absent THEN "default" ELSE target.mode, FALSE))
    /\ UNCHANGED <<setting, mode, named, hits, temp>>

CopyAll(f) ==
    /\ pc[f] = "copy"
    /\ Goto(f, "unlink")
    /\ TargetBecomes(File(f, temp[f].mode, FALSE))
    /\ UNCHANGED <<setting, mode, named, hits, temp>>

Unlink(f) ==
    /\ pc[f] = "unlink"
    /\ Goto(f, "moved")
    /\ TempBecomes(f, Absent)
    /\ UNCHANGED <<setting, mode, named, hits, target, onDisk>>

Return(f) ==
    /\ pc[f] = "moved"
    /\ Goto(f, "returned")
    /\ UNCHANGED <<setting, mode, named, hits, temp, target, onDisk>>

Hit(f) == hits' = [hits EXCEPT ![f] = @ \union {pc[f]}]

\* An exception: the call at hand fails, or Ctrl-C is pressed. Before the try
\* there is nothing to clean up.
Raise(f) ==
    /\ pc[f] \notin {"cleanup", "returned", "raised", "killed"}
    /\ Goto(f, IF pc[f] = "stat" THEN "raised" ELSE "cleanup")
    /\ Hit(f)
    /\ UNCHANGED <<setting, mode, named, temp, target, onDisk>>

\* Mutant: only a complete temporary file is removed.
CleanUpComplete(f) ==
    /\ pc[f] = "cleanup"
    /\ Goto(f, "raised")
    /\ TempBecomes(f, IF f \in named /\ temp[f] # Absent /\ temp[f].text = f THEN Absent ELSE temp[f])
    /\ UNCHANGED <<setting, mode, named, hits, target, onDisk>>

\* The except clause; it knows the file by the name kept, if it was.
CleanUp(f) ==
    /\ pc[f] = "cleanup"
    /\ Goto(f, "raised")
    /\ TempBecomes(f, IF f \in named THEN Absent ELSE temp[f])
    /\ UNCHANGED <<setting, mode, named, hits, target, onDisk>>

\* Nothing protects the except clause: os.remove may fail in its turn, and
\* another Ctrl-C may come before it.
CleanUpFails(f) ==
    /\ pc[f] = "cleanup"
    /\ Goto(f, "raised")
    /\ Hit(f)
    /\ UNCHANGED <<setting, mode, named, temp, target, onDisk>>

-----------------------------------------------------------------------------
Ended(f) == pc[f] \in {"returned", "raised", "killed"}

Kill(f) ==
    /\ ~Ended(f)
    /\ Goto(f, "killed")
    /\ UNCHANGED <<setting, mode, named, hits, temp, target, onDisk>>

\* What is not synced may be lost.
PowerLoss ==
    /\ pc' = [f \in Fixers |-> "killed"]
    /\ \E file \in onDisk :
          IF file = Absent THEN target' = Absent
          ELSE \E text \in {file.text} \union (IF file.synced THEN {} ELSE {Torn}) :
                   target' = File(text, file.mode, TRUE)
    /\ onDisk' = {target'}
    /\ UNCHANGED <<setting, mode, named, hits, temp>>

AllEnded == (\A f \in Fixers : Ended(f)) /\ UNCHANGED vars

Fixer(f) ==
    \/ Stat(f) \/ Create(f) \/ Name(f) \/ Write(f) \/ Sync(f) \/ Chmod(f) \/ Move(f)
    \/ CopyOpen(f) \/ CopyAll(f) \/ Unlink(f) \/ Return(f) \/ Raise(f) \/ CleanUp(f)
    \/ CleanUpFails(f)

Next == (\E f \in Fixers : Fixer(f) \/ Kill(f)) \/ PowerLoss \/ AllEnded

Spec == Init /\ [][Next]_vars

-----------------------------------------------------------------------------
Stages == {"stat", "create", "name", "write", "sync", "chmod", "move", "copy", "unlink",
           "moved", "cleanup", "returned", "raised", "killed"}

\* Every variable holds a value the code and the file system can give it.
TypeOK ==
    /\ pc \in [Fixers -> Stages]
    /\ hits \in [Fixers -> SUBSET Stages]
    /\ suffixed \in BOOLEAN /\ deleted \in BOOLEAN /\ movable \in BOOLEAN
    /\ mode \in [Fixers -> Modes \union {Absent}]
    /\ named \subseteq Fixers
    /\ temp \in [Fixers -> Files \union {Absent}]
    /\ target \in Files \union {Absent}
    /\ onDisk \subseteq Files \union {Absent} /\ target \in onDisk

\* linted_file.py: "in case of encoding or other issues, we don't delete or
\* corrupt the user's existing file". Where files can be renamed, whoever reads
\* the target, at any time, and after a power loss as well, finds a complete
\* text with the permissions of the input file, if there is one, and no file that
\* was there is gone.
TargetWhole ==
    movable =>
        \/ target = Absent /\ (suffixed \/ deleted)
        \/ /\ target \in Files
           /\ target.text # Torn
           /\ deleted \/ target.mode = "user"

\* "a failed write, chmod or move never leaves an orphaned temp file next to the
\* user's file" (linted_file.py): a call that is over has left one only if a fault
\* found it between the creation of the file and the keeping of its name, or hit
\* the clean-up after an earlier fault. Nor has one that returned left any.
NoOrphans ==
    \A f \in Fixers :
        pc[f] \in {"returned", "raised"} /\ temp[f] # Absent =>
            /\ pc[f] = "raised"
            /\ "name" \in hits[f] \/ "cleanup" \in hits[f]
=============================================================================
