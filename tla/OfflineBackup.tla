---------------------------- MODULE OfflineBackup ----------------------------
(***************************************************************************)
(* The joint backup cut of the three component stores: each store's durable *)
(* cut record and mutation fence, the offline coordinator that begins,      *)
(* prepares and seals the cut in all of them, the sealed captures that make *)
(* up a bundle, and release or abort of the cut in each store.              *)
(*                                                                          *)
(* Every store operation is one transaction.  The coordinator holds the     *)
(* writer locks of all stores while it runs and may die between any two     *)
(* transactions; the operator may then resume it with the exact request,    *)
(* abort or release any store's cut, or start the daemons again, which work *)
(* wherever no cut is active.                                               *)
(***************************************************************************)
EXTENDS Naturals, FiniteSets

CONSTANTS
    N,           \* the number of stores; REQUIRED_BACKUP_PARTICIPANTS is their order
    Cuts,        \* cut ids, each with its one exact request
    NoCut, NoCheckpoint, NoCapture,
    MaxWork      \* model bound on what the daemons do

ASSUME NAssumption == N \in Nat \ {0}
ASSUME CutsAssumption == NoCut \notin Cuts
ASSUME MaxWorkAssumption == MaxWork \in Nat

Stores == 1..N

\* BackupCheckpointV1: the chain head and the blob root of one store.
Checkpoints == [head : Nat, blobs : Nat]
ASSUME CheckpointAssumption == NoCheckpoint \notin Checkpoints

Active == {"preparing", "prepared", "sealed"}
CutStates == {"none", "aborted", "released"} \cup Active
CutRecords == [state : CutStates, checkpoints : [Stores -> Checkpoints \cup {NoCheckpoint}]]
NoRecord == [state |-> "none", checkpoints |-> [s \in Stores |-> NoCheckpoint]]

\* SealedDatabaseCaptureV1, with the ordinary work that the captured chain holds.
Captures == [cut : Cuts, checkpoints : [Stores -> Checkpoints],
             head : Nat, blobs : Nat, work : Nat]
ASSUME CaptureAssumption == NoCapture \notin Captures

VARIABLES
    cuts,         \* durable: every store's record of every cut
    head,         \* durable: the length of every store's event chain
    blobs,        \* durable: how many blobs every store holds
    work,         \* how many events of every chain are not about cuts
    coordinator,  \* the seal call that is running, if any
    captures,     \* the capture of each store that the operator holds
    moments       \* history: what the stores jointly held, whenever a daemon worked

stores == <<cuts, head, blobs, work>>
vars == <<cuts, head, blobs, work, coordinator, captures, moments>>

Idle == [cut |-> NoCut, at |-> "idle", store |-> 1, role |-> 1,
         seen |-> [s \in Stores |-> NoCheckpoint], result |-> "none"]
Coordinators == [cut : Cuts \cup {NoCut}, at : {"idle", "begin", "prepare", "seal"},
                 store : Stores, role : Stores,
                 seen : [Stores -> Checkpoints \cup {NoCheckpoint}],
                 result : {"none", "sealed", "refused"}]

-----------------------------------------------------------------------------
(* One store *)

\* Mutant of ActiveCuts: a sealed cut fences nothing.
UnsealedCuts(s) == {c \in Cuts : cuts[s][c].state \in {"preparing", "prepared"}}

\* active_backup_cut: the cut that fences ordinary mutation.
ActiveCuts(s) == {c \in Cuts : cuts[s][c].state \in Active}
Fenced(s) == ActiveCuts(s) # {}

\* A store transaction about cut c: it sets the record and appends its event.
Commit(s, c, r) ==
    /\ cuts' = [cuts EXCEPT ![s][c] = r]
    /\ head' = [head EXCEPT ![s] = @ + 1]
    /\ UNCHANGED <<blobs, work>>

\* begin_backup_cut: an exact retry gets the first receipt back, whatever has
\* become of the cut since.
BeginAccepted(s, c) == cuts[s][c].state # "none" \/ ~Fenced(s)
BeginBackupCut(s, c) ==
    IF cuts[s][c].state # "none" THEN UNCHANGED stores
    ELSE Commit(s, c, [NoRecord EXCEPT !.state = "preparing"])

\* Mutant of PrepareAccepted: a checkpoint that is there already is not compared.
PrepareUncompared(s, c, role, checkpoint) ==
    cuts[s][c].checkpoints[role] # NoCheckpoint \/ cuts[s][c].state \in {"preparing", "prepared"}

\* prepare_backup_participant: the same checkpoint again is no conflict, and
\* the last one missing makes the cut prepared.
PrepareAccepted(s, c, role, checkpoint) ==
    LET prior == cuts[s][c].checkpoints[role] IN
    IF prior # NoCheckpoint THEN prior = checkpoint
    ELSE cuts[s][c].state \in {"preparing", "prepared"}
PrepareParticipant(s, c, role, checkpoint) ==
    LET all == [cuts[s][c].checkpoints EXCEPT ![role] = checkpoint] IN
    IF cuts[s][c].checkpoints[role] # NoCheckpoint THEN UNCHANGED stores
    ELSE Commit(s, c, [state |-> IF \A r \in Stores : all[r] # NoCheckpoint
                                 THEN "prepared" ELSE "preparing",
                       checkpoints |-> all])

\* build_backup_manifest and seal_backup_cut, and the check that the cut is
\* sealed now: a cut sealed before is left alone.
SealAccepted(s, c) == cuts[s][c].state \in {"prepared", "sealed"}
SealBackupCut(s, c) ==
    IF cuts[s][c].state = "sealed" THEN UNCHANGED stores
    ELSE Commit(s, c, [cuts[s][c] EXCEPT !.state = "sealed"])

-----------------------------------------------------------------------------
(* OfflineBackupCoordinatorV1::seal *)

\* Mutant of CurrentCheckpoints: they are read before the last begin.
EarlierCheckpoints == [s \in Stores |-> [head |-> head[s], blobs |-> blobs[s]]]

\* What the checkpoints of all stores are now.
CurrentCheckpoints == [s \in Stores |-> [head |-> head'[s], blobs |-> blobs[s]]]

StartSeal(c) ==
    /\ coordinator.at = "idle"
    /\ coordinator' = [Idle EXCEPT !.cut = c, !.at = "begin"]
    /\ UNCHANGED <<stores, captures, moments>>

Refused == coordinator' = [Idle EXCEPT !.cut = coordinator.cut, !.result = "refused"]
             /\ UNCHANGED stores

\* After the last begin the checkpoints are read from all stores.
CoordinateBegin ==
    LET s == coordinator.store
        c == coordinator.cut IN
    /\ coordinator.at = "begin"
    /\ \/ /\ BeginAccepted(s, c) /\ BeginBackupCut(s, c)
          /\ coordinator' = IF s < N THEN [coordinator EXCEPT !.store = s + 1]
                            ELSE [coordinator EXCEPT !.at = "prepare", !.store = 1,
                                                     !.seen = CurrentCheckpoints]
       \/ ~BeginAccepted(s, c) /\ Refused
    /\ UNCHANGED <<captures, moments>>

CoordinatePrepare ==
    LET s == coordinator.store
        c == coordinator.cut
        role == coordinator.role IN
    /\ coordinator.at = "prepare"
    /\ \/ /\ PrepareAccepted(s, c, role, coordinator.seen[role])
          /\ PrepareParticipant(s, c, role, coordinator.seen[role])
          /\ coordinator' = IF role < N THEN [coordinator EXCEPT !.role = role + 1]
                            ELSE [coordinator EXCEPT !.at = "seal"]
       \/ ~PrepareAccepted(s, c, role, coordinator.seen[role]) /\ Refused
    /\ UNCHANGED <<captures, moments>>

\* Mutant of CoordinateSeal: one store too many.
CoordinateSealPastEnd ==
    LET s == coordinator.store
        c == coordinator.cut IN
    /\ coordinator.at = "seal"
    /\ \/ /\ SealAccepted(s, c) /\ SealBackupCut(s, c)
          /\ coordinator' = IF s <= N
                            THEN [coordinator EXCEPT !.at = "prepare", !.store = s + 1, !.role = 1]
                            ELSE [Idle EXCEPT !.cut = c, !.result = "sealed"]
       \/ ~SealAccepted(s, c) /\ Refused
    /\ UNCHANGED <<captures, moments>>

CoordinateSeal ==
    LET s == coordinator.store
        c == coordinator.cut IN
    /\ coordinator.at = "seal"
    /\ \/ /\ SealAccepted(s, c) /\ SealBackupCut(s, c)
          /\ coordinator' = IF s < N
                            THEN [coordinator EXCEPT !.at = "prepare", !.store = s + 1, !.role = 1]
                            ELSE [Idle EXCEPT !.cut = c, !.result = "sealed"]
       \/ ~SealAccepted(s, c) /\ Refused
    /\ UNCHANGED <<captures, moments>>

\* The coordinator dies, or a transaction fails: the stores stay as they are.
CoordinatorDies ==
    /\ coordinator.at # "idle"
    /\ coordinator' = Idle
    /\ UNCHANGED <<stores, captures, moments>>

-----------------------------------------------------------------------------
(* What the operator does with each store when no seal call holds its lock *)

Unlocked == coordinator.at = "idle"

\* capture_sealed_database
CaptureSealed(s, c) ==
    /\ Unlocked
    /\ cuts[s][c].state = "sealed"
    /\ captures' = [captures EXCEPT ![s] =
                       [cut |-> c, checkpoints |-> cuts[s][c].checkpoints,
                        head |-> head[s], blobs |-> blobs[s], work |-> work[s]]]
    /\ UNCHANGED <<stores, coordinator, moments>>

ReleaseBackupCut(s, c) ==
    /\ Unlocked
    /\ cuts[s][c].state = "sealed"
    /\ Commit(s, c, [cuts[s][c] EXCEPT !.state = "released"])
    /\ coordinator' = Idle
    /\ UNCHANGED <<captures, moments>>

AbortBackupCut(s, c) ==
    /\ Unlocked
    /\ cuts[s][c].state \in Active
    /\ Commit(s, c, [cuts[s][c] EXCEPT !.state = "aborted"])
    /\ coordinator' = Idle
    /\ UNCHANGED <<captures, moments>>

-----------------------------------------------------------------------------
(* The daemons *)

\* Model bound: every piece of work makes a moment of its own.
Works == Cardinality(moments) <= MaxWork

Held(w, b) == [s \in Stores |-> [work |-> w[s], blobs |-> b[s]]]

\* append_event and install_blob refuse while a cut is active.
AppendEvent(s) ==
    /\ Unlocked /\ ~Fenced(s) /\ Works
    /\ head' = [head EXCEPT ![s] = @ + 1]
    /\ work' = [work EXCEPT ![s] = @ + 1]
    /\ moments' = moments \cup {Held(work', blobs)}
    /\ coordinator' = Idle
    /\ UNCHANGED <<cuts, blobs, captures>>

InstallBlob(s) ==
    /\ Unlocked /\ ~Fenced(s) /\ Works
    /\ blobs' = [blobs EXCEPT ![s] = @ + 1]
    /\ moments' = moments \cup {Held(work, blobs')}
    /\ coordinator' = Idle
    /\ UNCHANGED <<cuts, head, work, captures>>

-----------------------------------------------------------------------------

Init ==
    /\ cuts = [s \in Stores |-> [c \in Cuts |-> NoRecord]]
    /\ head = [s \in Stores |-> 0] /\ blobs = [s \in Stores |-> 0]
    /\ work = [s \in Stores |-> 0]
    /\ coordinator = Idle
    /\ captures = [s \in Stores |-> NoCapture]
    /\ moments = {[s \in Stores |-> [work |-> 0, blobs |-> 0]]}

Next ==
    \/ \E c \in Cuts : StartSeal(c)
    \/ CoordinateBegin \/ CoordinatePrepare \/ CoordinateSeal \/ CoordinatorDies
    \/ \E s \in Stores :
          \/ \E c \in Cuts : CaptureSealed(s, c) \/ ReleaseBackupCut(s, c) \/ AbortBackupCut(s, c)
          \/ AppendEvent(s) \/ InstallBlob(s)

Spec == Init /\ [][Next]_vars

-----------------------------------------------------------------------------
(* Properties *)

\* The type invariant.
TypeOK ==
    /\ cuts \in [Stores -> [Cuts -> CutRecords]]
    /\ head \in [Stores -> Nat] /\ blobs \in [Stores -> Nat] /\ work \in [Stores -> Nat]
    /\ coordinator \in Coordinators
    /\ captures \in [Stores -> Captures \cup {NoCapture}]
    /\ moments \subseteq [Stores -> [work : Nat, blobs : Nat]]

\* validate_coherent_captures: the captures make one bundle.
Coherent ==
    \A s \in Stores :
        /\ captures[s] # NoCapture
        /\ captures[s].cut = captures[1].cut
        /\ captures[s].checkpoints = captures[1].checkpoints
        /\ captures[s].blobs = captures[s].checkpoints[s].blobs
        /\ captures[s].head >= captures[s].checkpoints[s].head

\* A bundle that passes validation holds a state the three stores were in
\* together, however often sealing was cut short, resumed, aborted or released
\* in some stores and the daemons worked in others in between.
BundleIsOneMoment ==
    Coherent => Held([s \in Stores |-> captures[s].work],
                     [s \in Stores |-> captures[s].blobs]) \in moments

\* A seal call that returns Ok leaves every store sealed with the same
\* checkpoint bodies, each the truth about its store, and fenced.
SealedTogether ==
    coordinator.result = "sealed" =>
        \A s \in Stores :
            LET r == cuts[s][coordinator.cut] IN
            /\ r.state = "sealed"
            /\ r.checkpoints = cuts[1][coordinator.cut].checkpoints
            /\ r.checkpoints[s].blobs = blobs[s]
            /\ head[s] = r.checkpoints[s].head + N + 1

\* No two stores ever hold different checkpoints of one participant for one
\* cut, also when the cut stays half prepared.
CheckpointsAgree ==
    \A s, t, role \in Stores, c \in Cuts :
        NoCheckpoint \in {cuts[s][c].checkpoints[role], cuts[t][c].checkpoints[role]}
            \/ cuts[s][c].checkpoints[role] = cuts[t][c].checkpoints[role]

\* A resumed seal call with the exact request is refused only when a store
\* has aborted or released the cut, or has another one active.
ExactRetryAccepted ==
    coordinator.result = "refused" =>
        \E s \in Stores :
            \/ cuts[s][coordinator.cut].state \in {"aborted", "released"}
            \/ ActiveCuts(s) \ {coordinator.cut} # {}
=============================================================================
