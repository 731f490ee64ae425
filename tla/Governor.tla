------------------------------ MODULE Governor ------------------------------
(***************************************************************************)
(* agd, the governor: the one live worker and its durable session record,   *)
(* the exchange of a finished worker for custody of its candidate, the      *)
(* durable outbox through which candidates and external proposals reach the *)
(* broker, and recovery at startup.                                         *)
(*                                                                          *)
(* The governor is one thread.  A call that makes several durable appends   *)
(* is a sequence of actions threaded by op, so that a crash, a failed       *)
(* append, the worker process and the broker come in between.  An append    *)
(* may also fail after it was committed.  The broker is reduced to its      *)
(* durable submission index; requests to it are lost, answered, answered in *)
(* vain, or handled after the governor stopped waiting.                     *)
(***************************************************************************)
EXTENDS Naturals, FiniteSets

CONSTANTS
    Sessions,   \* worker sessions; a launch draws a fresh one
    Intents,    \* proposals of the external proposer
    Responses,  \* what the broker may answer: canonicalized, refused, indeterminate
    Nothing,    \* no session, no forward, no submission, no response
    MaxProofs   \* model bound on the requests that the proposer signs per intent

ASSUME SourcesAssumption == Sessions \cap Intents = {} /\ Nothing \notin Sessions \cup Intents
ASSUME ResponsesAssumption == Responses # {} /\ Nothing \notin Responses
ASSUME ProofsAssumption == MaxProofs \in Nat \ {0}

Sources == Sessions \cup Intents
Proofs == 1..MaxProofs

\* How a process, as opposed to a candidate or a launch, ends a session.
ProcessFailures == {"DeadlineExpired", "OutputBudgetExceeded",
                    "BoundaryIndeterminate", "WorkerFailed"}
Reasons == ProcessFailures \cup
           {"LaunchFailed", "CandidateRefused", "CandidateAccepted", "Cancelled",
            "RestartRecovery"}

\* WorkerSessionRecordV1, or no record.  A tombstone has a reason and a cleanup state,
\* an active principal a launch receipt and a prepared one none; custody of a candidate
\* belongs to a launched principal with the tombstone of an acceptance, and only a
\* candidate that the broker completed has an outcome.
Records ==
    {r \in [authority : {"None", "Prepared", "Active", "Tombstoned"},
            launched : BOOLEAN,                 \* has a launch receipt
            reason : Reasons \cup {"None"},
            cleanup : {"None", "Pending", "Complete"},
            candidate : {"Awaiting", "InCustody", "BrokerCompleted"},
            outcome : Responses \cup {Nothing}] :
        /\ (r.authority = "Tombstoned") <=> (r.reason # "None")
        /\ (r.authority = "Tombstoned") <=> (r.cleanup # "None")
        /\ r.authority # "Tombstoned" => (r.launched <=> r.authority = "Active")
        /\ r.candidate # "Awaiting" =>
              r.authority = "Tombstoned" /\ r.launched /\ r.reason = "CandidateAccepted"
        /\ (r.candidate = "BrokerCompleted") <=> (r.outcome # Nothing)}

NoRecord == [authority |-> "None", launched |-> FALSE, reason |-> "None",
             cleanup |-> "None", candidate |-> "Awaiting", outcome |-> Nothing]

\* A forward that is pending has no response.
Forwards == [proof : Proofs, response : Responses \cup {Nothing}]
Submissions == [proof : Proofs, response : Responses]
Requests == [source : Sources, proof : Proofs]

\* The worker process: behind its gate, running, alive although its handle is gone,
\* ended by itself in one of three ways and not waited for, dead and not known to be
\* reaped, or reaped.
Ends == {"Candidate", "Garbage", "Failure"}
Alive == {"Gated", "Running", "Loose"}
Processes == {"None", "Killed", "Reaped"} \cup Alive \cup Ends

Steps == {"idle", "prepare", "activate", "unlaunch", "unlaunched", "release",
          "fence", "terminate", "cleanup", "accepted",
          "judge", "enqueue", "load", "await", "complete", "outcome"}
Ops == [step : Steps, by : {"control", "poll", "startup"},
        source : Sources \cup {Nothing}, reason : Reasons \cup {"None"},
        proof : Proofs, response : Responses \cup {Nothing}]
Idle == [step |-> "idle", by |-> "control", source |-> Nothing, reason |-> "None",
         proof |-> 1, response |-> Nothing]

VARIABLES
    session,     \* durable: the record of every session
    judged,      \* durable: the sources with an admitting judgment
    outbox,      \* durable: ForwardOutboxRecordV1 of every source
    cut,         \* durable: whether the store has an active backup cut
    mode,        \* the daemon: down, in a phase of startup, or up
    todo,        \* what the phase of startup has still to visit
    runtime,     \* active_workers
    recovery,    \* worker_recovery_required
    op,          \* the call the governor is in
    process,     \* the worker process of every session
    signed,      \* how many requests the proposer signed per intent
    submission,  \* the broker, durable: BrokerSubmissionRecordV1 of every source
    wire         \* requests the broker has not read, from calls nobody waits for

durable == <<session, judged, outbox, cut>>
outside == <<signed, submission, wire>>
vars == <<session, judged, outbox, cut, mode, todo, runtime, recovery, op, process,
          signed, submission, wire>>

-----------------------------------------------------------------------------
(* Session records and the store *)

HasAuthority(r) == r.authority \in {"Prepared", "Active"}

\* Mutant of Accepted: custody is recorded, the principal keeps its authority.
AcceptedUnfenced(r) == [r EXCEPT !.candidate = "InCustody"]

\* WorkerSessionRecordV1::apply
Activated(r) == [r EXCEPT !.authority = "Active", !.launched = TRUE]
Tombstoned(r, reason) ==
    [r EXCEPT !.authority = "Tombstoned", !.reason = reason, !.cleanup = "Pending"]
Accepted(r) == [Tombstoned(r, "CandidateAccepted") EXCEPT !.candidate = "InCustody"]
CleanedUp(r) == [r EXCEPT !.cleanup = "Complete"]
BrokerCompleted(r, outcome) ==
    [r EXCEPT !.candidate = "BrokerCompleted", !.outcome = outcome]

\* How an append ends: committed, committed with an error, or not committed.  An
\* active cut refuses it.
Appends == IF cut THEN {"failed"} ELSE {"ok", "ambiguous", "failed"}

\* The ways an update of a stored value can end: what the caller is told, and
\* what the store holds.
Updates(old, new) == {[ok |-> a = "ok", to |-> IF a = "failed" THEN old ELSE new] : a \in Appends}

\* Mutant of Tombstones: a tombstone replaces another.
ReplacingTombstones(s, reason) == Updates(session[s], Tombstoned(session[s], reason))

\* WorkerSessionStoreV1::tombstone: a second tombstone is refused unless it equals
\* the first one, time included.
Tombstones(s, reason) ==
    IF HasAuthority(session[s])
    THEN Updates(session[s], Tombstoned(session[s], reason))
    ELSE {[ok |-> ok, to |-> session[s]] : ok \in {FALSE, session[s].reason = reason}}

\* WorkerSessionStoreV1::complete_cleanup
Cleanups(s) ==
    IF session[s].cleanup = "Pending"
    THEN Updates(session[s], CleanedUp(session[s]))
    ELSE {[ok |-> FALSE, to |-> session[s]]}

Store(s, r) == session' = [session EXCEPT ![s] = r]

-----------------------------------------------------------------------------
(* The daemon *)

\* What becomes of a process whose handle is dropped.  The drop calls stop_checked
\* once more and ignores its error: a refused signal leaves the process alive, with
\* its gate closed behind it; after a signal it is dead, whatever wait reports.
Drop(p) ==
    CASE p \in {"Gated", "Running"} -> {"Killed", "Loose"}
      [] p \in Ends -> {"Killed"}
      [] OTHER -> {p}

\* The sandbox dies with its parent, also one that outlived its handle.
DiesWithParent(p) == IF p \in Alive \cup Ends THEN "Killed" ELSE p

Free == mode = "Up" /\ op = Idle
At(step) == op.step = step

\* The process ends, by a crash or by an error that main returns.
Exit ==
    /\ mode' = "Down"
    /\ todo' = {} /\ runtime' = {} /\ recovery' = FALSE /\ op' = Idle
    /\ process' = [s \in Sessions |-> DiesWithParent(process[s])]

\* The call returns: to the client, to the next worker, or to the next entity.
Return ==
    /\ op' = Idle
    /\ todo' = todo \ {op.source}
    /\ UNCHANGED <<mode, runtime, recovery, process>>

\* An error of a control request is answered; one of polling or of startup ends
\* the daemon.
Fail == IF op.by = "control" THEN Return ELSE Exit

Goto(step) ==
    /\ op' = [op EXCEPT !.step = step]
    /\ UNCHANGED <<mode, todo, runtime, recovery, process>>

-----------------------------------------------------------------------------
(* launch_worker *)

MayLaunch == Free /\ ~recovery /\ ~cut /\ runtime = {}

\* A fresh session, and its process behind the gate.
Spawn(s) ==
    /\ MayLaunch
    /\ process[s] = "None"
    /\ process' = [process EXCEPT ![s] = "Gated"]
    /\ op' = [Idle EXCEPT !.step = "prepare", !.source = s]
    /\ UNCHANGED <<durable, mode, todo, runtime, recovery, outside>>

\* The call ends with an error and drops the process of s.
Discard(s) ==
    /\ \E p \in Drop(process[s]) : process' = [process EXCEPT ![s] = p]
    /\ op' = Idle
    /\ UNCHANGED <<mode, todo, runtime>>

\* So does this, and the governor changes nothing more until it is restarted.
Poison(s) == Discard(s) /\ recovery' = TRUE

\* What fails between the spawn and the first append.
AbandonSpawn ==
    /\ At("prepare")
    /\ Discard(op.source)
    /\ UNCHANGED <<durable, recovery, outside>>

\* Mutants of Prepare: its error is an ordinary one; the gate opens next.
CarelessPrepare ==
    /\ At("prepare")
    /\ \E u \in Updates(NoRecord, [NoRecord EXCEPT !.authority = "Prepared"]) :
          /\ Store(op.source, u.to)
          /\ IF u.ok THEN Goto("activate")
             ELSE Discard(op.source) /\ UNCHANGED recovery
    /\ UNCHANGED <<judged, outbox, cut, outside>>
HastyPrepare ==
    /\ At("prepare")
    /\ \E u \in Updates(NoRecord, [NoRecord EXCEPT !.authority = "Prepared"]) :
          /\ Store(op.source, u.to)
          /\ IF u.ok THEN Goto("release") ELSE Poison(op.source)
    /\ UNCHANGED <<judged, outbox, cut, outside>>

\* WorkerSessionStoreV1::prepare, and what launch_worker does if it fails.
Prepare ==
    /\ At("prepare")
    /\ \E u \in Updates(NoRecord, [NoRecord EXCEPT !.authority = "Prepared"]) :
          /\ Store(op.source, u.to)
          /\ IF u.ok THEN Goto("activate") ELSE Poison(op.source)
    /\ UNCHANGED <<judged, outbox, cut, outside>>

Activate ==
    /\ At("activate")
    /\ \E u \in Updates(session[op.source], Activated(session[op.source])) :
          /\ Store(op.source, u.to)
          /\ Goto(IF u.ok THEN "release" ELSE "unlaunch")
    /\ UNCHANGED <<judged, outbox, cut, outside>>

\* After a failed activation: tombstone, then kill and reap.
Unlaunch ==
    /\ At("unlaunch")
    /\ \E u \in Tombstones(op.source, "LaunchFailed"), reaped \in BOOLEAN :
          /\ Store(op.source, u.to)
          /\ IF u.ok /\ reaped
             THEN /\ process' = [process EXCEPT ![op.source] = "Reaped"]
                  /\ op' = [op EXCEPT !.step = "unlaunched"]
                  /\ UNCHANGED <<mode, todo, runtime, recovery>>
             ELSE Poison(op.source)
    /\ UNCHANGED <<judged, outbox, cut, outside>>

CleanUpUnlaunched ==
    /\ At("unlaunched")
    /\ \E u \in Cleanups(op.source) :
          /\ Store(op.source, u.to)
          /\ IF u.ok THEN Return ELSE Poison(op.source)
    /\ UNCHANGED <<judged, outbox, cut, outside>>

\* The last look at the deadline, and the gate.
ReleaseFails(reason) ==
    /\ At("release")
    /\ reason \in {"DeadlineExpired", "LaunchFailed"}
    /\ op' = [op EXCEPT !.step = "fence", !.reason = reason]
    /\ UNCHANGED <<durable, mode, todo, runtime, recovery, process, outside>>

Release ==
    /\ At("release")
    /\ process' = [process EXCEPT ![op.source] = "Running"]
    /\ runtime' = runtime \cup {op.source}
    /\ op' = Idle
    /\ UNCHANGED <<durable, mode, todo, recovery, outside>>

-----------------------------------------------------------------------------
(* fence_and_cleanup_runtime *)

\* The error of the tombstone poisons the governor and, while polling, ends it.
Fence ==
    /\ At("fence")
    /\ \E u \in Tombstones(op.source, op.reason) :
          /\ Store(op.source, u.to)
          /\ IF u.ok THEN Goto("terminate")
             ELSE IF op.by = "control" THEN Poison(op.source) ELSE Exit
    /\ UNCHANGED <<judged, outbox, cut, outside>>

\* Mutant of Terminate: what the kernel reports is not looked at.
UncheckedTerminate ==
    /\ At("terminate")
    /\ \E p \in {"Reaped", "Killed"} :
          /\ process' = [process EXCEPT ![op.source] = p]
          /\ op' = [op EXCEPT !.step = "cleanup"]
          /\ UNCHANGED <<mode, todo, runtime, recovery>>
    /\ UNCHANGED <<durable, outside>>

\* WorkerProcessV1::terminate: kill and wait, unless try_wait has reaped it.  When the
\* kill is refused or the wait fails, the caller returns the error and drops the
\* handle: polling ends the daemon, but a control request leaves a governor that
\* requires no recovery, and perhaps a process that is alive.
Terminate ==
    /\ At("terminate")
    /\ \/ /\ process' = [process EXCEPT ![op.source] = "Reaped"]
          /\ op' = [op EXCEPT !.step = "cleanup"]
          /\ UNCHANGED <<mode, todo, runtime, recovery>>
       \/ /\ process[op.source] # "Reaped"
          /\ IF op.by = "control" THEN Discard(op.source) /\ UNCHANGED recovery ELSE Exit
    /\ UNCHANGED <<durable, outside>>

CleanUp ==
    /\ At("cleanup")
    /\ \E u \in Cleanups(op.source) :
          /\ Store(op.source, u.to)
          /\ IF u.ok THEN Return ELSE Fail
    /\ UNCHANGED <<judged, outbox, cut, outside>>

-----------------------------------------------------------------------------
(* poll_workers and cancel_worker *)

Polled(s) == Free /\ s \in runtime

Begin(step, s, by, reason) ==
    op' = [Idle EXCEPT !.step = step, !.source = s, !.by = by, !.reason = reason]

\* Mutant of PollFails: the deadline of a worker that hangs is not looked at.
PatientPollFails(s, reason) ==
    /\ Polled(s) /\ process[s] \in Ends
    /\ reason \in ProcessFailures
    /\ runtime' = runtime \ {s}
    /\ Begin("fence", s, "poll", reason)
    /\ UNCHANGED <<durable, mode, todo, recovery, process, outside>>

\* try_wait fails: the deadline, the output limit, a broken stream.  The deadline
\* comes first, even for a process that has ended.
PollFails(s, reason) ==
    /\ Polled(s)
    /\ reason \in ProcessFailures
    /\ runtime' = runtime \ {s}
    /\ Begin("fence", s, "poll", reason)
    /\ UNCHANGED <<durable, mode, todo, recovery, process, outside>>

\* try_wait reaps a process that has ended.
Reap(s) ==
    /\ runtime' = runtime \ {s}
    /\ process' = [process EXCEPT ![s] = "Reaped"]

PollAbnormalExit(s) ==
    /\ Polled(s) /\ process[s] = "Failure"
    /\ Reap(s)
    /\ Begin("fence", s, "poll", "WorkerFailed")
    /\ UNCHANGED <<durable, mode, todo, recovery, outside>>

\* accept_worker_candidate up to its first append: the durable authority and the
\* signed frame.
Acceptable(s) == session[s].authority = "Active" /\ process[s] = "Candidate"

\* A refusal of the candidate; it may also have expired.
PollRefuses(s) ==
    /\ Polled(s) /\ process[s] \in {"Candidate", "Garbage"}
    /\ Reap(s)
    /\ Begin("fence", s, "poll", "CandidateRefused")
    /\ UNCHANGED <<durable, mode, todo, recovery, outside>>

\* The principal is exchanged for custody in one append, whose error ends the daemon.
PollAccepts(s) ==
    /\ Polled(s) /\ Acceptable(s)
    /\ \E u \in Updates(session[s], Accepted(session[s])) :
          /\ Store(s, u.to)
          /\ IF u.ok
             THEN /\ Reap(s)
                  /\ Begin("accepted", s, "poll", "None")
                  /\ UNCHANGED <<mode, todo, recovery>>
             ELSE Exit
    /\ UNCHANGED <<judged, outbox, cut, outside>>

\* complete_accepted_worker_cleanup; then the candidate is forwarded.
CleanUpAccepted ==
    /\ At("accepted")
    /\ \E u \in Cleanups(op.source) :
          /\ Store(op.source, u.to)
          /\ IF u.ok THEN Goto("judge") ELSE Exit
    /\ UNCHANGED <<judged, outbox, cut, outside>>

\* Mutants of Cancel: the worker leaves the runtime before its tombstone is known to
\* be durable; its process is terminated first.
CancelForgets(s) ==
    /\ Free /\ ~recovery
    /\ session[s].authority # "None"
    /\ \E u \in Tombstones(s, "Cancelled"), p \in Drop(process[s]) :
          /\ Store(s, u.to)
          /\ runtime' = runtime \ {s}
          /\ IF u.ok /\ s \in runtime
             THEN Begin("terminate", s, "control", "None") /\ UNCHANGED process
             ELSE process' = [process EXCEPT ![s] = p] /\ UNCHANGED op
    /\ UNCHANGED <<judged, outbox, cut, mode, todo, recovery, outside>>
CancelKillsFirst(s) ==
    /\ Free /\ ~recovery
    /\ s \in runtime
    /\ runtime' = runtime \ {s}
    /\ \E p \in Drop(process[s]) : process' = [process EXCEPT ![s] = p]
    /\ IF process'[s] = "Loose" THEN UNCHANGED <<session, op>>
       ELSE /\ \E u \in Tombstones(s, "Cancelled") : Store(s, u.to)
            /\ UNCHANGED op
    /\ UNCHANGED <<judged, outbox, cut, mode, todo, recovery, outside>>

\* A failed tombstone leaves the worker in the runtime, and the governor usable.
Cancel(s) ==
    /\ Free /\ ~recovery
    /\ session[s].authority # "None"
    /\ \E u \in Tombstones(s, "Cancelled") :
          /\ Store(s, u.to)
          /\ IF u.ok /\ s \in runtime
             THEN runtime' = runtime \ {s} /\ Begin("terminate", s, "control", "None")
             ELSE UNCHANGED <<runtime, op>>
    /\ UNCHANGED <<judged, outbox, cut, mode, todo, recovery, process, outside>>

\* The worker ends by itself.
WorkerExits(s, end) ==
    /\ process[s] = "Running"
    /\ end \in Ends
    /\ process' = [process EXCEPT ![s] = end]
    /\ UNCHANGED <<durable, mode, todo, runtime, recovery, op, outside>>

\* So does one that nobody holds, unnoticed.
LooseExits(s) ==
    /\ process[s] = "Loose"
    /\ process' = [process EXCEPT ![s] = "Killed"]
    /\ UNCHANGED <<durable, mode, todo, runtime, recovery, op, outside>>

-----------------------------------------------------------------------------
(* Judgment and the forward outbox *)

\* evaluate_and_commit for a subject of an embedder's.
Evaluate(x) ==
    /\ Free /\ ~cut /\ x \notin judged
    /\ \E u \in Updates(judged, judged \cup {x}) : judged' = u.to
    /\ UNCHANGED <<session, outbox, cut, mode, todo, runtime, recovery, op, process, outside>>

\* admit_worker_candidate: the judgment is committed once, and found again.
Judge ==
    /\ At("judge")
    /\ \/ /\ ~cut /\ op.source \in judged
          /\ Goto("enqueue")
          /\ UNCHANGED judged
       \/ /\ op.source \notin judged \/ cut
          /\ \E u \in Updates(judged, judged \cup {op.source}) :
                /\ judged' = u.to
                /\ IF u.ok THEN Goto("enqueue") ELSE Fail
    /\ UNCHANGED <<session, outbox, cut, outside>>

\* verify_admission
Admitted(x) == x \in judged

\* Mutant of MayForward: the judgment is not looked up.
MayForwardUnjudged(x) == Free /\ ~recovery /\ ~cut /\ runtime = {} /\ x \in Intents

\* try_handle_control and forward_intent
MayForward(x) == Free /\ ~recovery /\ ~cut /\ runtime = {} /\ Admitted(x)

\* The proposer signs a fresh request for an intent, or for the same one again.
SubmitProposal(x) ==
    /\ MayForward(x)
    /\ signed[x] < MaxProofs
    /\ signed' = [signed EXCEPT ![x] = @ + 1]
    /\ op' = [Idle EXCEPT !.step = "enqueue", !.source = x, !.proof = signed[x] + 1]
    /\ UNCHANGED <<durable, mode, todo, runtime, recovery, process, submission, wire>>

Pending(x) == outbox[x] # Nothing /\ outbox[x].response = Nothing
Completed(x) == outbox[x] # Nothing /\ outbox[x].response # Nothing

\* With a response at hand: a candidate's session is told of it.
Conclude(r) ==
    IF op.source \in Sessions
    THEN /\ op' = [op EXCEPT !.step = "outcome", !.response = r]
         /\ UNCHANGED <<mode, todo, runtime, recovery, process>>
    ELSE Return

\* forward_governed_intent up to the call, with prepare_forward_outbox: a completed
\* forward answers, a pending one takes the new proof, and a new one is pending.
\* That no worker is active and no recovery is required holds here: ForwardsAlone.
Enqueue ==
    /\ At("enqueue")
    /\ LET x == op.source IN
       \/ /\ ~cut /\ Completed(x)
          /\ Conclude(outbox[x].response)
          /\ UNCHANGED outbox
       \/ /\ ~cut /\ Pending(x) /\ outbox[x].proof = op.proof
          /\ Goto("load")
          /\ UNCHANGED outbox
       \/ /\ cut \/ outbox[x] = Nothing \/ (Pending(x) /\ outbox[x].proof # op.proof)
          /\ \E u \in Updates(outbox[x], [proof |-> op.proof, response |-> Nothing]) :
                /\ outbox' = [outbox EXCEPT ![x] = u.to]
                /\ IF u.ok THEN Goto("load") ELSE Fail
    /\ UNCHANGED <<session, judged, cut, outside>>

\* load_artifact_transfers: the artifacts of an intent are read from the governor's
\* store, within half a frame.  A candidate's are in its proof.  What cannot be
\* loaded stays pending, and ends a startup.
LoadArtifacts ==
    /\ At("load")
    /\ Goto("await") \/ (op.source \in Intents /\ Fail)
    /\ UNCHANGED <<durable, outside>>

\* complete_forward_outbox.  Recovery of the outbox leaves sessions alone.
CompleteForward ==
    /\ At("complete")
    /\ \E u \in Updates(outbox[op.source], [outbox[op.source] EXCEPT !.response = op.response]) :
          /\ outbox' = [outbox EXCEPT ![op.source] = u.to]
          /\ CASE ~u.ok -> Fail
               [] u.ok /\ mode = "Outbox" -> Return
               [] OTHER -> Conclude(op.response)
    /\ UNCHANGED <<session, judged, cut, outside>>

RecordOutcome ==
    /\ At("outcome")
    /\ \E u \in Updates(session[op.source], BrokerCompleted(session[op.source], op.response)) :
          /\ Store(op.source, u.to)
          /\ IF u.ok THEN Return ELSE Fail
    /\ UNCHANGED <<judged, outbox, cut, outside>>

-----------------------------------------------------------------------------
(* submit_to_effectd, and the broker's submission index *)

\* Mutant of Answers: a source that comes again is evaluated again.
ForgetfulAnswers(q) == Responses

\* submit_authenticated_intent: a source that was decided gets its response again,
\* a candidate only for the proof that it was decided for.
Answers(q) ==
    IF submission[q.source] = Nothing THEN Responses
    ELSE IF submission[q.source].proof = q.proof \/ q.source \in Intents
    THEN {submission[q.source].response}
    ELSE {}

\* persist_submission and persist_canonical_submission
Decide(q, r) ==
    submission' = IF submission[q.source] = Nothing
                  THEN [submission EXCEPT ![q.source] = [proof |-> q.proof, response |-> r]]
                  ELSE submission

Call == [source |-> op.source, proof |-> op.proof]

BrokerAnswers ==
    /\ At("await")
    /\ \E r \in Answers(Call) :
          /\ Decide(Call, r)
          /\ op' = [op EXCEPT !.step = "complete", !.response = r]
    /\ UNCHANGED <<durable, mode, todo, runtime, recovery, process, signed, wire>>

\* The broker decides, and the governor does not learn of it.
AnswerLost ==
    /\ At("await")
    /\ \E r \in Answers(Call) : Decide(Call, r)
    /\ Return
    /\ UNCHANGED <<durable, signed, wire>>

\* The call fails: the broker is away, refuses without a record, or is too late.
CallFails ==
    /\ At("await")
    /\ Return
    /\ wire' \in {wire, wire \cup {Call}}
    /\ UNCHANGED <<durable, signed, submission>>

\* The broker reads a request that nobody waits for, and decides it or not.
BrokerReads(q) ==
    /\ q \in wire
    /\ wire' = wire \ {q}
    /\ \/ \E r \in Answers(q) : Decide(q, r)
       \/ UNCHANGED submission
    /\ UNCHANGED <<durable, mode, todo, runtime, recovery, op, process, signed>>

-----------------------------------------------------------------------------
(* Startup and the end of the process *)

\* Mutant of Unretired: only sessions that were activated are retired.
Unactivated == {s \in Sessions : session[s].authority = "Active"}

Unretired == {s \in Sessions : HasAuthority(session[s])}

Start ==
    /\ mode = "Down"
    /\ mode' = "Sessions"
    /\ todo' = Unretired
    /\ UNCHANGED <<durable, runtime, recovery, op, process, outside>>

\* Mutant of RetireSession: a session that cannot be retired is passed over.
PassOverSession(s) ==
    /\ mode = "Sessions" /\ s \in todo
    /\ \E u \in Tombstones(s, "RestartRecovery") : Store(s, u.to)
    /\ todo' = todo \ {s}
    /\ UNCHANGED <<judged, outbox, cut, mode, runtime, recovery, op, process, outside>>

\* WorkerSessionStoreV1::recover_startup
RetireSession(s) ==
    /\ mode = "Sessions" /\ s \in todo
    /\ \E u \in Tombstones(s, "RestartRecovery") :
          /\ Store(s, u.to)
          /\ IF u.ok
             THEN /\ todo' = todo \ {s}
                  /\ UNCHANGED <<mode, runtime, recovery, op, process>>
             ELSE Exit
    /\ UNCHANGED <<judged, outbox, cut, outside>>

\* recover_forward_outbox presents the stored proof, unless a cut is active.  That
\* the source is still admitted holds here: AdmittedBeforeDecided.
RecoverForward(x) ==
    /\ mode = "Outbox" /\ op = Idle /\ x \in todo
    /\ IF cut
       THEN todo' = todo \ {x} /\ UNCHANGED op
       ELSE /\ op' = [Idle EXCEPT !.step = "load", !.by = "startup", !.source = x,
                                  !.proof = outbox[x].proof]
            /\ UNCHANGED todo
    /\ UNCHANGED <<durable, mode, runtime, recovery, process, outside>>

\* recover_worker_candidates
RecoverCandidate(s) ==
    /\ mode = "Candidates" /\ op = Idle /\ s \in todo
    /\ Begin("judge", s, "startup", "None")
    /\ UNCHANGED <<durable, mode, todo, runtime, recovery, process, outside>>

\* recover_startup: sessions, then the outbox, then candidates.
NextPhase ==
    /\ mode \in {"Sessions", "Outbox", "Candidates"} /\ op = Idle /\ todo = {}
    /\ CASE mode = "Sessions" -> mode' = "Outbox" /\ todo' = {x \in Sources : Pending(x)}
         [] mode = "Outbox" ->
              /\ mode' = "Candidates"
              /\ todo' = {s \in Sessions : session[s].candidate = "InCustody"}
         [] OTHER -> mode' = "Up" /\ todo' = {}
    /\ UNCHANGED <<durable, runtime, recovery, op, process, outside>>

\* At any time; a request that was sent may still reach the broker.
Crash ==
    /\ mode # "Down"
    /\ Exit
    /\ wire' \in IF At("await") THEN {wire, wire \cup {Call}} ELSE {wire}
    /\ UNCHANGED <<durable, signed, submission>>

\* An operator begins or ends a cut while the daemon is down.
ToggleCut ==
    /\ mode = "Down"
    /\ cut' = ~cut
    /\ UNCHANGED <<session, judged, outbox, mode, todo, runtime, recovery, op, process, outside>>

-----------------------------------------------------------------------------
Init ==
    /\ session = [s \in Sessions |-> NoRecord]
    /\ judged = {}
    /\ outbox = [x \in Sources |-> Nothing]
    /\ cut = FALSE
    /\ mode = "Down" /\ todo = {} /\ runtime = {} /\ recovery = FALSE /\ op = Idle
    /\ process = [s \in Sessions |-> "None"]
    /\ signed = [x \in Intents |-> 0]
    /\ submission = [x \in Sources |-> Nothing]
    /\ wire = {}

\* The steps of a call that is under way.
Proceed ==
    \/ AbandonSpawn \/ Prepare \/ Activate \/ Unlaunch \/ CleanUpUnlaunched
    \/ Release \/ \E reason \in Reasons : ReleaseFails(reason)
    \/ Fence \/ Terminate \/ CleanUp \/ CleanUpAccepted
    \/ Judge \/ Enqueue \/ LoadArtifacts \/ CompleteForward \/ RecordOutcome
    \/ BrokerAnswers \/ AnswerLost \/ CallFails

Poll(s) ==
    \/ \E reason \in Reasons : PollFails(s, reason)
    \/ PollAbnormalExit(s) \/ PollRefuses(s) \/ PollAccepts(s)

Startup ==
    \/ Start \/ NextPhase
    \/ \E s \in Sessions : RetireSession(s) \/ RecoverCandidate(s)
    \/ \E x \in Sources : RecoverForward(x)

Next ==
    \/ Proceed
    \/ Startup
    \/ \E s \in Sessions : Spawn(s) \/ Poll(s) \/ Cancel(s)
                         \/ LooseExits(s) \/ \E end \in Ends : WorkerExits(s, end)
    \/ \E x \in Intents : Evaluate(x) \/ SubmitProposal(x)
    \/ \E q \in Requests : BrokerReads(q)
    \/ Crash
    \/ ToggleCut

Spec == Init /\ [][Next]_vars

\* The deadline of a worker passes, the daemon is restarted, and not every append
\* of a restart fails.
Fairness ==
    /\ WF_vars(Proceed)
    /\ WF_vars(Start) /\ WF_vars(NextPhase)
    /\ \A s \in Sessions :
          /\ SF_vars(RetireSession(s) /\ mode' = "Sessions")
          /\ SF_vars(\E reason \in Reasons : PollFails(s, reason))

LiveSpec == Spec /\ Fairness

-----------------------------------------------------------------------------
(* Properties *)

\* Every variable keeps its shape, and a session record, whichever appends failed or
\* were ambiguous on its way, is one that WorkerSessionRecordV1::validate admits: a
\* record that it refuses ends every later startup.
TypeOK ==
    /\ session \in [Sessions -> Records]
    /\ judged \subseteq Sources
    /\ outbox \in [Sources -> Forwards \cup {Nothing}]
    /\ cut \in BOOLEAN /\ recovery \in BOOLEAN
    /\ mode \in {"Down", "Sessions", "Outbox", "Candidates", "Up"}
    /\ todo \subseteq Sources /\ runtime \subseteq Sessions
    /\ op \in Ops
    /\ process \in [Sessions -> Processes]
    /\ signed \in [Intents -> 0..MaxProofs]
    /\ submission \in [Sources -> Submissions \cup {Nothing}]
    /\ wire \subseteq Requests

\* At most one worker process is alive: docs/architecture.md and docs/agctl.md say so.
\* It does not hold: the process of a cancelled or abandoned launch that outlives its
\* signals is in no active_workers, so launch_worker starts another beside it.
OneLiveWorker ==
    \A s, t \in Sessions : process[s] \in Alive /\ process[t] \in Alive => s = t

\* A worker that outlives its signals has no authority left and has delivered
\* nothing, unless the governor refuses all work until a restart: on every path the
\* tombstone comes before the signal, or an error of it sets worker_recovery_required
\* (launch_worker, fence_and_cleanup_runtime, cancel_worker).
SurvivorsAreFenced ==
    \A s \in Sessions : process[s] = "Loose" =>
        /\ ~HasAuthority(session[s]) \/ recovery
        /\ session[s].candidate = "Awaiting"

\* Between calls, every session with durable authority has its process in the
\* runtime, unless the governor refuses further work until a restart: no error
\* path of launch, poll or cancel leaves authority behind that nobody supervises.
AuthorityIsSupervised ==
    Free /\ ~recovery => \A s \in Sessions : HasAuthority(session[s]) => s \in runtime

\* A worker that the governor holds passes its gate only after its principal was
\* durably activated, with a launch receipt in the record for ever (launch_worker).
RunsOnlyActivated ==
    \A s \in Sessions : process[s] \in {"Running"} \cup Ends => session[s].launched

\* A record says that cleanup is complete only if the process was reaped.
CleanupMeansReaped ==
    \A s \in Sessions : session[s].cleanup = "Complete" => process[s] = "Reaped"

\* What a session and the outbox report of a candidate or an intent is what the
\* broker durably decided, however often it was asked and whichever answers were
\* lost (forward_custodied_worker_candidate, recover_forward_outbox).
ReportsAreTheBrokers ==
    /\ \A x \in Sources : Completed(x) =>
          submission[x] # Nothing /\ submission[x].response = outbox[x].response
    /\ \A s \in Sessions : session[s].candidate = "BrokerCompleted" =>
          /\ Completed(s)
          /\ session[s].outcome = outbox[s].response

\* The broker is only ever asked about, and only ever decides, what was admitted
\* first; of a worker only what is in durable custody.
AdmittedBeforeDecided ==
    \A x \in Sources :
        \/ outbox[x] # Nothing
        \/ submission[x] # Nothing
        \/ \E q \in wire : q.source = x
        => /\ x \in judged
           /\ x \in Sessions => session[x].candidate # "Awaiting"

\* While the governor's only thread is in a forward, and so polls no worker, no session
\* has authority that a deadline should end: an external proposal is refused while a
\* worker is active (try_handle_control), a candidate is forwarded after its principal
\* has ended, and startup retires sessions first.
ForwardsAlone ==
    op.step \in {"judge", "enqueue", "load", "await", "complete", "outcome"} =>
        /\ runtime = {} /\ ~recovery
        /\ \A s \in Sessions : ~HasAuthority(session[s])

\* Past the first phase of startup nothing of an earlier life has authority.
RestartRetires ==
    mode \in {"Outbox", "Candidates"} =>
        \A s \in Sessions : ~HasAuthority(session[s]) /\ process[s] \notin Alive

\* What custody, tombstones and outcomes say is never taken back: a principal
\* with a tombstone stays so for the same reason and never delivers a candidate,
\* and an outcome never changes.
EndsAreFinal ==
    [][\A s \in Sessions :
          LET r == session[s]  n == session'[s] IN
          /\ r.authority = "Tombstoned" =>
                /\ n.authority = "Tombstoned" /\ n.reason = r.reason
                /\ n.launched = r.launched
                /\ r.candidate = "Awaiting" => n.candidate = "Awaiting"
          /\ r.candidate = "BrokerCompleted" => n.candidate = r.candidate /\ n.outcome = r.outcome]_vars

\* A daemon that serves under a cut has no session with authority and no candidate
\* that waits for the broker: a startup that finds either cannot append, and ends in an
\* error (recover_worker_sessions, evaluate_and_commit).
ServesSettledUnderCut ==
    mode = "Up" /\ cut =>
        \A s \in Sessions : ~HasAuthority(session[s]) /\ session[s].candidate # "InCustody"

\* Authority ends: by the worker's own end, its deadline, or the next startup,
\* unless the governor waits for a restart that nothing forces, or for the end of
\* a cut.
AuthorityEnds ==
    \A s \in Sessions :
        HasAuthority(session[s]) ~> (~HasAuthority(session[s]) \/ recovery \/ cut)
=============================================================================
