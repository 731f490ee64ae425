----------------------------- MODULE ManagedFile -----------------------------
(***************************************************************************)
(* One managed-file effect of the executor, system call by system call: the *)
(* staged create, the replacement by an atomic exchange, and the deletion   *)
(* by quarantine, with the verification, rollback and fsync of each.        *)
(*                                                                          *)
(* Between any two steps others may replace, remove or rewrite the target,  *)
(* any call may fail, the process may die, and power may be lost.  Others   *)
(* do not touch the attempt's own stage and quarantine names, and the       *)
(* broker-owned staging inode is theirs to write only once its ownership    *)
(* was transferred; they do not forge timestamps.                           *)
(*                                                                          *)
(* A rename or unlink is on disk only after the directory is synced: what   *)
(* power loss leaves is any of the directories since the last such sync.    *)
(***************************************************************************)
EXTENDS Naturals, FiniteSets

CONSTANTS
    Files,          \* files of others, and
    Staged,         \* the inode stage_content makes
    NoFile,
    Contents, Absent, Irregular, Torn,
    MaxWrites       \* model bound on what others do

ASSUME FilesAssumption == Staged \notin Files /\ NoFile \notin Files \cup {Staged}
ASSUME ContentsAssumption == Contents \cap {Absent, Irregular, Torn} = {}
ASSUME MaxWritesAssumption == MaxWrites \in Nat

Entries == Files \cup {Staged, NoFile}
\* Renames move a file: none has two names.
Directories ==
    {d \in [target : Entries, stage : Entries, quarantine : Entries] :
        \A n, m \in DOMAIN d : d[n] = d[m] /\ d[n] # NoFile => n = m}
Puts == [kind : {"put"}, expected : Contents \cup {Absent}, new : Contents]
Deletes == [kind : {"delete"}, expected : Contents, new : {Absent}]
Steps == {"check", "stage", "fill", "commit", "verifyExchange", "displaced",
          "quarantine", "transfer", "verify", "syncFile", "verifySynced", "syncDir",
          "verifyTerminal", "quarantined", "syncDelete", "rollback", "rollbackSync",
          "rollbackUnlink", "restore", "restoreSync", "done", "crashed"}
Outcomes == {"Succeeded", "Failed", "Indeterminate"}

VARIABLES
    request,    \* the canonical effect: its ratified prestate and its content
    dir,        \* the entries of the parent directory
    disk,       \* the directories that power loss may leave
    content,    \* what every file holds
    synced,     \* the staged content is on disk
    owner,      \* the staged inode's owner and mode: "none", "broker" or "final"
    pc, outcome,
    displaced,  \* history: the file the commit moved away from the target
    removed,    \* history: files that others removed or replaced
    touched,    \* history: files that others rewrote (their mtime shows it)
    vacated,    \* history: others have left the target without a file
    writes

files == <<dir, disk, content, synced, owner>>
others == <<removed, touched, vacated, writes>>
vars == <<request, dir, disk, content, synced, owner, pc, outcome, displaced,
          removed, touched, vacated, writes>>

Creates == request.kind = "put" /\ request.expected = Absent
Replaces == request.kind = "put" /\ request.expected # Absent
Deleting == request.kind = "delete"

-----------------------------------------------------------------------------
(* System calls *)

Goto(step) == pc' = step /\ UNCHANGED outcome
Return(verdict) == pc' = "done" /\ outcome' = verdict

\* A rename or an unlink, and fsync of the parent.
Change(d) == dir' = d /\ disk' = disk \cup {d}
SyncDirectory == disk' = {dir} /\ UNCHANGED dir
SameDirectory == UNCHANGED <<dir, disk>>

Swapped == [dir EXCEPT !.target = dir.stage, !.stage = dir.target]
Unstaged == [dir EXCEPT !.stage = NoFile]

\* let _ = unlinkat(stage): a failure of the cleanup is ignored.
TryUnlinkStage == Change(Unstaged) \/ SameDirectory

\* observe_entry: the content of a regular file, read between two equal stats.
Observed(f) == IF f = NoFile THEN Absent ELSE content[f]

\* verify_named_staged_file: the name still binds the retained descriptor, whose
\* content and times are those that were sealed, with the given metadata.
StagedAtTarget(metadata) ==
    /\ dir.target = Staged /\ owner = metadata
    /\ content[Staged] = request.new /\ Staged \notin touched

-----------------------------------------------------------------------------
(* execute_file_put and execute_file_delete up to the commit *)

\* The artifact loads, the parent is trusted, the target holds exactly the
\* ratified prestate, and the attempt's names are free.
CheckPrestate ==
    /\ pc = "check"
    /\ \/ /\ Observed(dir.target) = request.expected
          /\ Goto(IF Deleting THEN "commit" ELSE "stage")
       \/ Return("Failed")
    /\ UNCHANGED <<request, files, displaced, others>>

\* stage_content: an exclusive create, ...
OpenStage ==
    /\ pc = "stage"
    /\ \/ /\ Change([dir EXCEPT !.stage = Staged]) /\ Goto("fill")
          /\ content' = [content EXCEPT ![Staged] = Torn] /\ owner' = "broker"
       \/ SameDirectory /\ Return("Failed") /\ UNCHANGED <<content, owner>>
    /\ UNCHANGED <<request, synced, displaced, others>>

\* Mutant of SealStage: the staged content is not synced.
SealUnsynced ==
    /\ pc = "fill"
    /\ \/ /\ content' = [content EXCEPT ![Staged] = request.new] /\ UNCHANGED synced
          /\ SameDirectory /\ Goto("commit")
       \/ TryUnlinkStage /\ Return("Failed") /\ UNCHANGED <<content, synced>>
    /\ UNCHANGED <<request, owner, displaced, others>>

\* ... then write, fchmod, fsync and exact verification.
SealStage ==
    /\ pc = "fill"
    /\ \/ /\ content' = [content EXCEPT ![Staged] = request.new] /\ synced' = TRUE
          /\ SameDirectory /\ Goto("commit")
       \/ TryUnlinkStage /\ Return("Failed") /\ UNCHANGED <<content, synced>>
    /\ UNCHANGED <<request, owner, displaced, others>>

-----------------------------------------------------------------------------
(* The commit, and what proves or undoes it *)

\* RENAME_NOREPLACE of the staged file onto the target.
CommitCreate ==
    /\ pc = "commit" /\ Creates
    /\ \/ /\ dir.target = NoFile
          /\ Change([Unstaged EXCEPT !.target = Staged]) /\ Goto("transfer")
       \/ dir.target # NoFile /\ Change(Unstaged) /\ Return("Failed")
       \/ dir.target # NoFile /\ SameDirectory /\ Return("Indeterminate")
       \/ TryUnlinkStage /\ Return("Failed")
    /\ UNCHANGED <<request, content, synced, owner, displaced, others>>

\* Mutant of CommitReplace: a plain rename over the target.
ReplaceByRename ==
    /\ pc = "commit" /\ Replaces
    /\ \/ /\ dir.target # NoFile
          /\ Change([Unstaged EXCEPT !.target = Staged])
          /\ displaced' = dir.target /\ Goto("transfer")
       \/ TryUnlinkStage /\ Return("Failed") /\ UNCHANGED displaced
    /\ UNCHANGED <<request, content, synced, owner, others>>

\* RENAME_EXCHANGE: the target never ceases to exist.
CommitReplace ==
    /\ pc = "commit" /\ Replaces
    /\ \/ /\ dir.target # NoFile
          /\ Change(Swapped) /\ displaced' = dir.target /\ Goto("verifyExchange")
       \/ TryUnlinkStage /\ Return("Failed") /\ UNCHANGED displaced
    /\ UNCHANGED <<request, content, synced, owner, others>>

VerifyExchange ==
    /\ pc = "verifyExchange"
    /\ \/ StagedAtTarget("broker") /\ Goto("displaced")
       \/ Goto("rollback")
    /\ UNCHANGED <<request, files, displaced, others>>

\* Mutant of CheckDisplaced: what was displaced is not looked at.
TrustDisplaced ==
    /\ pc = "displaced" /\ Goto("quarantine")
    /\ UNCHANGED <<request, files, displaced, others>>

\* The entry that came out of the exchange is the ratified prestate.
CheckDisplaced ==
    /\ pc = "displaced"
    /\ \/ Observed(dir.stage) = request.expected /\ Goto("quarantine")
       \/ Goto("rollback")
    /\ UNCHANGED <<request, files, displaced, others>>

\* Mutant of Quarantine: the displaced file is linked, and keeps its stage name.
QuarantineByLink ==
    /\ pc = "quarantine"
    /\ \/ Change([dir EXCEPT !.quarantine = dir.stage]) /\ Goto("transfer")
       \/ SameDirectory /\ Return("Indeterminate")
    /\ UNCHANGED <<request, content, synced, owner, displaced, others>>

\* RENAME_NOREPLACE of the displaced file to the quarantine name.
Quarantine ==
    /\ pc = "quarantine"
    /\ \/ Change([Unstaged EXCEPT !.quarantine = dir.stage]) /\ Goto("transfer")
       \/ SameDirectory /\ Return("Indeterminate")
    /\ UNCHANGED <<request, content, synced, owner, displaced, others>>

\* Mutant of RollbackExchange: the target is unlinked before it is restored.
RollbackByUnlink ==
    /\ pc = "rollback"
    /\ \/ Change([dir EXCEPT !.target = NoFile]) /\ Goto("rollbackSync")
       \/ SameDirectory /\ Return("Indeterminate")
    /\ UNCHANGED <<request, content, synced, owner, displaced, others>>

\* rollback_exchange
RollbackExchange ==
    /\ pc = "rollback"
    /\ \/ dir.target # NoFile /\ Change(Swapped) /\ Goto("rollbackSync")
       \/ SameDirectory /\ Return("Indeterminate")
    /\ UNCHANGED <<request, content, synced, owner, displaced, others>>

RollbackSync ==
    /\ pc = "rollbackSync"
    /\ \/ SyncDirectory /\ Goto("rollbackUnlink")
       \/ SameDirectory /\ Return("Indeterminate")
    /\ UNCHANGED <<request, content, synced, owner, displaced, others>>

RollbackUnlink ==
    /\ pc = "rollbackUnlink"
    /\ \/ dir' = Unstaged /\ disk' = {Unstaged} /\ Return("Failed")
       \/ TryUnlinkStage /\ Return("Indeterminate")
    /\ UNCHANGED <<request, content, synced, owner, displaced, others>>

\* RENAME_NOREPLACE of the target to the quarantine name.
CommitDelete ==
    /\ pc = "commit" /\ Deleting
    /\ \/ /\ dir.target # NoFile
          /\ Change([dir EXCEPT !.target = NoFile, !.quarantine = dir.target])
          /\ displaced' = dir.target /\ Goto("quarantined")
       \/ SameDirectory /\ Return("Failed") /\ UNCHANGED displaced
    /\ UNCHANGED <<request, content, synced, owner, others>>

CheckQuarantined ==
    /\ pc = "quarantined"
    /\ \/ Observed(dir.quarantine) = request.expected /\ Goto("syncDelete")
       \/ Goto("restore")
    /\ UNCHANGED <<request, files, displaced, others>>

SyncDelete ==
    /\ pc = "syncDelete"
    /\ \/ SyncDirectory /\ Return("Succeeded")
       \/ SameDirectory /\ Return("Indeterminate")
    /\ UNCHANGED <<request, content, synced, owner, displaced, others>>

\* rollback_delete
RestoreDeleted ==
    /\ pc = "restore"
    /\ \/ /\ dir.target = NoFile
          /\ Change([dir EXCEPT !.target = dir.quarantine, !.quarantine = NoFile])
          /\ Goto("restoreSync")
       \/ SameDirectory /\ Return("Indeterminate")
    /\ UNCHANGED <<request, content, synced, owner, displaced, others>>

\* Mutant of RestoreSync: the restored entry is not synced.
RestoreUnsynced ==
    /\ pc = "restoreSync"
    /\ SameDirectory /\ Return("Failed")
    /\ UNCHANGED <<request, content, synced, owner, displaced, others>>

RestoreSync ==
    /\ pc = "restoreSync"
    /\ \/ SyncDirectory /\ Return("Failed")
       \/ SameDirectory /\ Return("Indeterminate")
    /\ UNCHANGED <<request, content, synced, owner, displaced, others>>

-----------------------------------------------------------------------------
(* finalize_committed_file: every failure from here on is Indeterminate *)

\* The staged inode, verified once more, gets its final owner and mode.
TransferOwnership ==
    /\ pc = "transfer"
    /\ \/ StagedAtTarget("broker") /\ owner' = "final" /\ Goto("verify")
       \/ owner' \in {owner, "final"} /\ Return("Indeterminate")
    /\ UNCHANGED <<request, dir, disk, content, synced, displaced, others>>

\* The three verifications after the transfer.
Verified(step) ==
    CASE step = "verify" -> Goto("syncFile")
      [] step = "verifySynced" -> Goto("syncDir")
      [] step = "verifyTerminal" -> Return("Succeeded")

VerifyCommitted ==
    /\ pc \in {"verify", "verifySynced", "verifyTerminal"}
    /\ \/ StagedAtTarget("final") /\ Verified(pc)
       \/ Return("Indeterminate")
    /\ UNCHANGED <<request, files, displaced, others>>

SyncFile ==
    /\ pc = "syncFile"
    /\ \/ synced' = TRUE /\ Goto("verifySynced")
       \/ UNCHANGED synced /\ Return("Indeterminate")
    /\ UNCHANGED <<request, dir, disk, content, owner, displaced, others>>

\* Mutant of SyncParent: the directory is not synced.
SkipParentSync ==
    /\ pc = "syncDir"
    /\ SameDirectory /\ Goto("verifyTerminal")
    /\ UNCHANGED <<request, content, synced, owner, displaced, others>>

SyncParent ==
    /\ pc = "syncDir"
    /\ \/ SyncDirectory /\ Goto("verifyTerminal")
       \/ SameDirectory /\ Return("Indeterminate")
    /\ UNCHANGED <<request, content, synced, owner, displaced, others>>

-----------------------------------------------------------------------------
(* The world outside *)

CountWrite == writes < MaxWrites /\ writes' = writes + 1

\* A file that is linked nowhere yet replaces the target by rename.
ReplaceTarget ==
    /\ CountWrite
    /\ \E x \in Files \ (removed \cup {dir[n] : n \in DOMAIN dir}),
          c \in Contents \cup {Irregular} :
          /\ Change([dir EXCEPT !.target = x])
          /\ content' = [content EXCEPT ![x] = c]
    /\ removed' = removed \cup ({dir.target} \ {NoFile})
    /\ UNCHANGED <<request, synced, owner, pc, outcome, displaced, touched, vacated>>

RemoveTarget ==
    /\ CountWrite
    /\ dir.target # NoFile
    /\ Change([dir EXCEPT !.target = NoFile])
    /\ removed' = removed \cup {dir.target} /\ vacated' = TRUE
    /\ UNCHANGED <<request, content, synced, owner, pc, outcome, displaced, touched>>

\* Somebody rewrites a file of their own, also one the commit has moved.
RewriteFile ==
    /\ CountWrite
    /\ \E n \in DOMAIN dir, c \in Contents :
          LET f == dir[n] IN
          /\ f # NoFile /\ (f = Staged => owner = "final")
          /\ content[f] # c
          /\ content' = [content EXCEPT ![f] = c]
          /\ touched' = touched \cup {f}
          /\ synced' = (synced /\ f # Staged)
    /\ UNCHANGED <<request, dir, disk, owner, pc, outcome, displaced, removed, vacated>>

Crash ==
    /\ pc \notin {"done", "crashed"}
    /\ pc' = "crashed"
    /\ UNCHANGED <<request, files, outcome, displaced, others>>

\* Content that was not synced may be anything; a link that was not on disk
\* is gone.
PowerLoss ==
    /\ dir' \in disk /\ disk' = {dir'}
    /\ content' = IF synced THEN content ELSE [content EXCEPT ![Staged] = Torn]
    /\ removed' = removed \cup (Files \ {dir'[n] : n \in DOMAIN dir'})
    /\ pc' = IF pc = "done" THEN "done" ELSE "crashed"
    /\ UNCHANGED <<request, synced, owner, outcome, displaced, touched, vacated, writes>>

-----------------------------------------------------------------------------

Init ==
    /\ request \in Puts \cup Deletes
    /\ dir \in [target : Files \cup {NoFile}, stage : {NoFile}, quarantine : {NoFile}]
    /\ disk = {dir}
    /\ \E c \in Contents \cup {Irregular} :
          content = [f \in Files \cup {Staged} |-> IF f = dir.target THEN c ELSE Torn]
    /\ synced = FALSE /\ owner = "none"
    /\ pc = "check" /\ outcome = "None"
    /\ displaced = NoFile /\ removed = {} /\ touched = {} /\ writes = 0
    /\ vacated = (dir.target = NoFile)

Put ==
    \/ CheckPrestate \/ OpenStage \/ SealStage \/ CommitCreate \/ CommitReplace
    \/ VerifyExchange \/ CheckDisplaced \/ Quarantine
    \/ RollbackExchange \/ RollbackSync \/ RollbackUnlink
    \/ TransferOwnership \/ VerifyCommitted \/ SyncFile \/ SyncParent

Delete == CommitDelete \/ CheckQuarantined \/ SyncDelete \/ RestoreDeleted \/ RestoreSync

World == ReplaceTarget \/ RemoveTarget \/ RewriteFile \/ Crash \/ PowerLoss

Next == Put \/ Delete \/ World

Spec == Init /\ [][Next]_vars

-----------------------------------------------------------------------------
(* Properties *)

\* The type invariant.  In particular no file has two names, now or in any directory
\* that power loss may leave: whatever execute_file_put and execute_file_delete unlink
\* or quarantine is not also the target.
TypeOK ==
    /\ request \in Puts \cup Deletes
    /\ dir \in Directories /\ disk \subseteq Directories /\ dir \in disk
    /\ content \in [Files \cup {Staged} -> Contents \cup {Irregular, Torn}]
    /\ synced \in BOOLEAN /\ owner \in {"none", "broker", "final"}
    /\ pc \in Steps /\ outcome \in Outcomes \cup {"None"}
    /\ displaced \in Files \cup {NoFile}
    /\ removed \subseteq Files \cup {Staged} /\ touched \subseteq Files \cup {Staged}
    /\ vacated \in BOOLEAN /\ writes \in 0..MaxWrites

\* A put that is reported Succeeded is there, whole, and survives power loss,
\* until others replace or rewrite it; a delete stays deleted.
SuccessStands ==
    outcome = "Succeeded" =>
        IF Deleting THEN dir.target # displaced
        ELSE \/ dir.target = Staged /\ content[Staged] = request.new
             \/ Staged \in removed \cup touched

\* Success is only reported over the ratified prestate: what the commit moved
\* away held the expected content and is kept under the quarantine name.
SuccessFromPrestate ==
    outcome = "Succeeded" /\ ~Creates =>
        /\ displaced # NoFile /\ dir.quarantine = displaced
        /\ content[displaced] = request.expected \/ displaced \in touched

\* Failed means that the target is not the broker's doing, not even after
\* power is lost: nothing staged is installed and nothing stays quarantined.
FailureInstallsNothing ==
    outcome = "Failed" => dir.target # Staged /\ dir.quarantine = NoFile

\* Whatever the commit displaced, ratified or not, is never destroyed by the
\* broker: it is under some name, also in the middle of a rollback.
DisplacedKept ==
    displaced \notin removed \cup {NoFile} => \E n \in DOMAIN dir : dir[n] = displaced

\* A replacement has no moment, and no crash, without a target.
TargetNeverVacant == Replaces /\ dir.target = NoFile => vacated

\* Nobody finds partial content at the target, whenever the power goes.
NoTornTarget == dir.target = Staged => content[Staged] = request.new \/ Staged \in touched
=============================================================================
