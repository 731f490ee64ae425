---------------------------- MODULE EffectBroker ----------------------------
(***************************************************************************)
(* The privileged effect broker, ag-effectd: proposals are compiled to one  *)
(* canonical effect, a human ratification burns one-shot authority, the     *)
(* handler persists every boundary before it acts, and a restart turns      *)
(* whatever was in flight into a terminal record without running it again.  *)
(*                                                                          *)
(* The broker is one thread that takes commands from a queue, so handlers   *)
(* never interleave with each other.  What interleaves with every durable   *)
(* step of a handler is the world outside it: crashes and restarts, failed  *)
(* appends, other writers of the targets, and the clock.                    *)
(*                                                                          *)
(* A managed file's state is its content.  A managed pointer's state is the *)
(* object its loose ref names, the inode of that file (the only thing that  *)
(* tells two writes of one object apart, and it can be reused) and whether  *)
(* the repository is clean and as enrolled.                                 *)
(***************************************************************************)
EXTENDS Naturals, FiniteSets

CONSTANTS
    FileProposals,       \* authenticated sources that ask for a file put or delete
    PromotionProposals,  \* authenticated sources that ask for a ref promotion
    FileTargets, PointerTargets,
    TargetOf,            \* the catalogued target each proposal names
    New,                 \* the content or object each proposal would install
    Parent,              \* the parent commit of each promotion's candidate
    Genesis,             \* the enrolled first state of each managed pointer
    Contents, Objects, Inodes,
    ForeignStates,       \* the states other writers give each target
    Absent, Irregular,   \* no file; something that is not a regular file
    NoProposal, NoState, NoChallenge,
    MaxReady, MaxRefusals, PromotionTtl, ChallengeTtl,
    Development,         \* the development profile's authority bypass
    MaxTime              \* model bound on the clock

Proposals == FileProposals \cup PromotionProposals
Targets == FileTargets \cup PointerTargets
FileStates == Contents \cup {Absent, Irregular}
PointerStates == [object : Objects, inode : Inodes, clean : BOOLEAN]
States == FileStates \cup PointerStates

ASSUME ProposalsAssumption ==
    /\ FileProposals \cap PromotionProposals = {} /\ NoProposal \notin Proposals
    /\ \A p \in PromotionProposals : New[p] \in Objects /\ New[p] # Parent[p]
    /\ \A p \in FileProposals : New[p] \in Contents \cup {Absent}

ASSUME TargetsAssumption ==
    /\ FileTargets \cap PointerTargets = {}
    /\ \A p \in FileProposals : TargetOf[p] \in FileTargets
    /\ \A p \in PromotionProposals : TargetOf[p] \in PointerTargets

ASSUME StatesAssumption ==
    /\ NoState \notin States
    /\ \A t \in FileTargets : ForeignStates[t] \subseteq FileStates
    /\ \A t \in PointerTargets :
          Genesis[t] \in PointerStates /\ ForeignStates[t] \subseteq PointerStates

ASSUME BoundsAssumption ==
    /\ NoChallenge \notin Nat /\ Development \in BOOLEAN
    /\ MaxReady \in Nat /\ MaxRefusals \in Nat /\ MaxTime \in Nat
    /\ PromotionTtl \in Nat /\ ChallengeTtl \in Nat

VARIABLES
    record,      \* durable: each source's submission and proposal record
    precedes,    \* durable: last_event_sequence order of the promotion records
    cut,         \* durable: the store has an active backup cut
    mode,        \* the daemon is down, recovering at startup, or up
    activated,   \* activation_ready of this process
    challenge,   \* expiry of the challenge last issued for a proposal, or NoChallenge
    handler,     \* the ratification the broker thread is inside of
    draft,       \* a reconciliation draft some client holds
    world,       \* the state of every target
    now,
    installs,    \* history: how often a proposal's effect reached its target
    standing,    \* history: proposals whose installed state nobody replaced
    orphaned     \* history: records a failed append left behind in this process

durable == <<record, precedes, cut>>
process == <<mode, activated, challenge, handler, draft>>
environment == <<world, now>>
history == <<installs, standing, orphaned>>
vars == <<record, precedes, cut, mode, activated, challenge, handler, draft,
          world, now, installs, standing, orphaned>>

Submitted == {"Refused", "Indeterminate"}
InFlight == {"AuthorizationBurned", "Preparing", "Executing"}
Unresolved == InFlight \cup {"ReconciliationRequired"}
Terminal == {"Succeeded", "Failed", "Reconciled"}
Spent == Unresolved \cup Terminal
Phases == {"Unknown", "Ready"} \cup Submitted \cup Spent
Outcomes == {"Succeeded", "Failed", "Indeterminate"}
Receipts == Outcomes \cup {"None", "Abandoned", "Restart", "Reconciliation"}
None == "None"

\* BrokerProposalRecordV1, with each receipt reduced to what it attests.
Records == [phase : Phases, expected : States \cup {NoState}, expires : Nat,
            authorized : BOOLEAN, attempt : BOOLEAN, steps : Nat,
            receipt : Receipts, refusals : Nat,
            activation : PointerStates \cup {NoState},
            observed : States \cup {NoState}]

NoRecord == [phase |-> "Unknown", expected |-> NoState, expires |-> 0,
             authorized |-> FALSE, attempt |-> FALSE, steps |-> 0,
             receipt |-> None, refusals |-> 0,
             activation |-> NoState, observed |-> NoState]

Steps == {"begin", "prepare", "preparationFailed", "arm", "run", "cas",
          "rejected", "readBack", "stepTerminal", "terminal"}
Handlers == [proposal : Proposals, at : Steps, outcome : Outcomes \cup {None},
             poststate : PointerStates \cup {NoState}]
Idle == [proposal |-> NoProposal, at |-> "idle", outcome |-> None,
         poststate |-> NoState]
NoDraft == [proposal |-> NoProposal, observed |-> NoState]

IsPromotion(p) == p \in PromotionProposals
Phase(p) == record[p].phase
StateOf(p) == world[TargetOf[p]]
Free == mode = "up" /\ handler = Idle
At(p, step) == handler.proposal = p /\ handler.at = step

-----------------------------------------------------------------------------
(* Durable writes *)

\* persist_record: the append replaces the record and gives it the newest
\* last_event_sequence.
Persist(p, r) ==
    /\ record' = [record EXCEPT ![p] = r]
    /\ precedes' = IF ~IsPromotion(p) THEN precedes
                   ELSE {pair \in precedes : pair[1] # p}
                        \cup {<<q, p>> : q \in {s \in PromotionProposals \ {p} :
                                                  record[s].phase \notin {"Unknown"} \cup Submitted}}

\* classify_reconciliation: what a fresh observation says became of p's effect.
Classify(p, s) ==
    IF IsPromotion(p)
    THEN IF s.clean /\ s.object = New[p] THEN "Applied"
         ELSE IF s.clean /\ s = record[p].expected THEN "NotApplied" ELSE "Foreign"
    ELSE IF s = New[p] THEN "Applied"
         ELSE IF s = record[p].expected THEN "NotApplied" ELSE "Unresolved"

-----------------------------------------------------------------------------
(* The governed heads that gate every spend of authority *)

\* Successful promotions of a target, and those recorded before p.
Promoted(t) == {q \in PromotionProposals : TargetOf[q] = t /\ Phase(q) = "Succeeded"}
PromotedBefore(p) == {q \in Promoted(TargetOf[p]) : <<q, p>> \in precedes}

\* The head a target has after the promotions in S: the poststate the last
\* one's activation receipt records.
HeadAfter(t, S) ==
    IF S = {} THEN Genesis[t]
    ELSE record[CHOOSE q \in S : \A r \in S \ {q} : <<r, q>> \in precedes].activation

Head(t) == HeadAfter(t, Promoted(t))

\* reconstruct_managed_pointer_activation_heads refuses a history that is not
\* an exact chain of predecessors...
ChainExact ==
    \A p \in PromotionProposals :
        Phase(p) \in {"Succeeded", "Reconciled"} \cup Unresolved =>
            record[p].expected = HeadAfter(TargetOf[p], PromotedBefore(p))

\* Mutants of HistoryResolved: an attempt that awaits reconciliation is taken
\* for settled; a reconciliation as Applied is accepted.
OnlyInFlightBlocks == \A p \in PromotionProposals : Phase(p) \notin InFlight
AppliedIsResolved ==
    \A p \in PromotionProposals :
        /\ Phase(p) \notin Unresolved
        /\ Phase(p) = "Reconciled" => Classify(p, record[p].observed) # "Foreign"

\* ... or that has an unresolved attempt, or a reconciliation other than one
\* that found the governed head untouched.
HistoryResolved ==
    \A p \in PromotionProposals :
        /\ Phase(p) \notin Unresolved
        /\ Phase(p) = "Reconciled" =>
              /\ Classify(p, record[p].observed) = "NotApplied"
              /\ record[p].observed = HeadAfter(TargetOf[p], PromotedBefore(p))

\* validate_live_managed_pointer_heads
LiveHeadsMatch == \A t \in PointerTargets : world[t] = Head(t)

\* validate_current_managed_pointer_activations
ActivationsCurrent == ChainExact /\ HistoryResolved /\ LiveHeadsMatch

\* require_authority_activation
AuthorityActivated == (activated \/ Development) /\ ActivationsCurrent

-----------------------------------------------------------------------------
(* Submission *)

\* ready_proposal_count: an expired promotion holds no slot.
Expired(p) == IsPromotion(p) /\ now >= record[p].expires
ReadyProposals == {p \in Proposals : Phase(p) = "Ready" /\ ~Expired(p)}

\* The checks submit_authenticated_intent makes before it evaluates an intent
\* it has no record of.
MaySubmit(p) ==
    /\ Free /\ ~cut
    /\ Phase(p) = "Unknown"
    /\ Cardinality(ReadyProposals) < MaxReady

\* What compile_one refuses: a target that is not a regular file, a deletion
\* of nothing, a dirty repository, or a candidate with another parent.
Compilable(p) ==
    IF IsPromotion(p) THEN StateOf(p).clean /\ StateOf(p).object = Parent[p]
    ELSE StateOf(p) # Irregular /\ ~(New[p] = Absent /\ StateOf(p) = Absent)

\* Mutant of SubmitCanonical: the deadline is counted backwards.
SubmitExpired(p) ==
    /\ MaySubmit(p) /\ Compilable(p)
    /\ Persist(p, [NoRecord EXCEPT !.phase = "Ready", !.expected = StateOf(p),
                                   !.expires = IF IsPromotion(p) THEN now - PromotionTtl ELSE 0])
    /\ UNCHANGED <<cut, process, environment, history>>

\* persist_canonical_submission: the exact observed state becomes the prestate
\* that authority will be bound to.
SubmitCanonical(p) ==
    /\ MaySubmit(p) /\ Compilable(p)
    /\ Persist(p, [NoRecord EXCEPT !.phase = "Ready", !.expected = StateOf(p),
                                   !.expires = IF IsPromotion(p) THEN now + PromotionTtl ELSE 0])
    /\ UNCHANGED <<cut, process, environment, history>>

SubmitRefused(p) ==
    /\ MaySubmit(p) /\ ~Compilable(p)
    /\ record' = [record EXCEPT ![p] = [NoRecord EXCEPT !.phase = "Refused"]]
    /\ UNCHANGED <<precedes, cut, process, environment, history>>

\* The target could not be observed, or the candidate not prepared.
SubmitIndeterminate(p) ==
    /\ MaySubmit(p)
    /\ record' = [record EXCEPT ![p] = [NoRecord EXCEPT !.phase = "Indeterminate"]]
    /\ UNCHANGED <<precedes, cut, process, environment, history>>

-----------------------------------------------------------------------------
(* Ratification: one handler, from the challenge to the terminal receipt *)

\* InspectProposal issues a challenge and replaces the one before it.
InspectProposal(p) ==
    /\ Free /\ Phase(p) \notin {"Unknown"} \cup Submitted
    /\ challenge' = [challenge EXCEPT ![p] = now + ChallengeTtl]
    /\ UNCHANGED <<durable, mode, activated, handler, draft, environment, history>>

\* Every ratification that gets past the gate consumes the challenge.
TakeChallenge(p) ==
    /\ Free /\ ~cut
    /\ AuthorityActivated
    /\ challenge[p] # NoChallenge
    /\ challenge' = [challenge EXCEPT ![p] = NoChallenge]
    /\ UNCHANGED <<cut, mode, activated, draft, environment>>

\* Mutant of Ratifiable: the deadline of a promotion is left to the preparation.
RatifiableLate(p) == now <= challenge[p] /\ Phase(p) = "Ready"

\* The challenge matches, and the record is one that authority may be spent on.
Ratifiable(p) == now <= challenge[p] /\ ~Expired(p) /\ Phase(p) = "Ready"

\* A wrong or late challenge, an expired promotion, or a record that is no
\* longer Ready: nothing but the challenge is lost.
RatifyInvalid(p) ==
    /\ TakeChallenge(p)
    /\ UNCHANGED <<record, precedes, handler, history>>

\* Mutant of PromotionEligible: the gate is taken to be enough.
AlwaysEligible(p) == IsPromotion(p)

\* The candidate's basis is the governed head and is what the ref holds now.
PromotionEligible(p) ==
    record[p].expected = Head(TargetOf[p]) /\ StateOf(p) = record[p].expected

\* record_promotion_refusal: the refusal is recorded and the proposal stays
\* Ready.  Standing also fails when the repository cannot be observed.
RecordPromotionRefusal(p) ==
    /\ IsPromotion(p) /\ TakeChallenge(p) /\ Ratifiable(p)
    /\ Persist(p, [record[p] EXCEPT
                      !.refusals = IF @ < MaxRefusals THEN @ + 1 ELSE @])
    /\ UNCHANGED <<handler, history>>

\* The authority is spent, durably, before anything is attempted.
BurnAuthorization(p) ==
    /\ TakeChallenge(p) /\ Ratifiable(p)
    /\ IsPromotion(p) => PromotionEligible(p)
    /\ Persist(p, [record[p] EXCEPT !.phase = "AuthorizationBurned", !.authorized = TRUE])
    /\ handler' = [Idle EXCEPT !.proposal = p, !.at = "begin"]
    /\ UNCHANGED history

\* A step of the handler that appends to p's record and goes on at `next'.
PersistStep(p, step, r, next) ==
    /\ mode = "up" /\ At(p, step)
    /\ Persist(p, r)
    /\ handler' = next
    /\ UNCHANGED <<cut, mode, activated, challenge, draft, environment, history>>

\* A step of the handler that touches no durable record of the broker.
LocalStep(p, step, next) ==
    /\ mode = "up" /\ At(p, step)
    /\ handler' = next
    /\ UNCHANGED <<durable, mode, activated, challenge, draft, now, orphaned>>

NothingInstalled == UNCHANGED <<world, installs, standing>>

Goto(step) == [handler EXCEPT !.at = step]
Returns(outcome) == [handler EXCEPT !.at = "stepTerminal", !.outcome = outcome]

\* Mutant of BeginPreparation: objects are imported before the attempt is durable.
PrepareUnrecorded(p) ==
    /\ IsPromotion(p)
    /\ LocalStep(p, "begin", Goto("prepare"))
    /\ NothingInstalled

BeginPreparation(p) ==
    /\ IsPromotion(p)
    /\ PersistStep(p, "begin", [record[p] EXCEPT !.phase = "Preparing", !.attempt = TRUE],
                   Goto("prepare"))

\* prepare_from_store imports the candidate's objects and proves the exact
\* prestate around it, without touching the ref.
PrepareSucceeds(p) ==
    /\ At(p, "prepare")
    /\ now < record[p].expires /\ StateOf(p) = record[p].expected
    /\ LocalStep(p, "prepare", Goto("arm"))
    /\ NothingInstalled

\* Expiry, drift, or any error on the way: all of them before the ref moves.
PrepareFails(p) ==
    /\ LocalStep(p, "prepare", Goto("preparationFailed"))
    /\ NothingInstalled

FinishPreparationFailure(p) ==
    PersistStep(p, "preparationFailed",
                [record[p] EXCEPT !.phase = "Failed", !.steps = @ + 1, !.receipt = "Failed"],
                Idle)

CommitMayProceed(p) ==
    PersistStep(p, "arm", [record[p] EXCEPT !.phase = "Executing"], Goto("run"))

\* Mutant of BeginExecution: the effect runs before its attempt is durable.
BeginUnrecorded(p) ==
    /\ ~IsPromotion(p)
    /\ LocalStep(p, "begin", Goto("run"))
    /\ NothingInstalled

BeginExecution(p) ==
    /\ ~IsPromotion(p)
    /\ PersistStep(p, "begin", [record[p] EXCEPT !.phase = "Executing", !.attempt = TRUE],
                   Goto("run"))

\* The target takes the state s that p installs.
Install(p, s) ==
    /\ world' = [world EXCEPT ![TargetOf[p]] = s]
    /\ installs' = [installs EXCEPT ![p] = @ + 1]
    /\ standing' = {q \in standing : TargetOf[q] # TargetOf[p]} \cup {p}

\* execute_once for a managed file, whose steps ManagedFile spells out.  The
\* exchange and the quarantine rename need a target to be there (the create,
\* none), whatever it holds: over another content the receipt is never Succeeded.
ExecuteFile(p) ==
    /\ ~IsPromotion(p)
    /\ \/ /\ StateOf(p) = record[p].expected
          /\ Install(p, New[p])
          /\ LocalStep(p, "run", Returns("Succeeded"))
       \/ NothingInstalled /\ LocalStep(p, "run", Returns("Failed"))
       \/ /\ \/ NothingInstalled
             \/ /\ StateOf(p) = Absent <=> record[p].expected = Absent
                /\ Install(p, New[p])
          /\ LocalStep(p, "run", Returns("Indeterminate"))

\* try_commit up to the compare-and-swap: expiry and exact prestate once more.
CheckBeforeCas(p) ==
    /\ IsPromotion(p)
    /\ \/ /\ now < record[p].expires /\ StateOf(p) = record[p].expected
          /\ LocalStep(p, "run", Goto("cas"))
       \/ LocalStep(p, "run", Returns("Failed"))
       \/ LocalStep(p, "run", Returns("Indeterminate"))
    /\ NothingInstalled

\* git update-ref compares the object only and writes the ref as a new file.
CasInstalls(p) ==
    /\ StateOf(p).object = record[p].expected.object
    /\ \E i \in Inodes \ {StateOf(p).inode} :
           Install(p, [StateOf(p) EXCEPT !.object = New[p], !.inode = i])

\* The launch guard refuses an expired promotion; the child exits cleanly, is
\* rejected (or killed, perhaps after its rename), or its transport fails.
UpdateRef(p) ==
    /\ At(p, "cas")
    /\ \/ /\ now >= record[p].expires /\ NothingInstalled
          /\ LocalStep(p, "cas", Returns("Failed"))
       \/ /\ now < record[p].expires /\ CasInstalls(p)
          /\ \E next \in {Goto("readBack"), Goto("rejected"), Returns("Indeterminate")} :
                LocalStep(p, "cas", next)
       \/ /\ now < record[p].expires /\ NothingInstalled
          /\ LocalStep(p, "cas", Goto("rejected"))
       \/ /\ NothingInstalled
          /\ LocalStep(p, "cas", Returns("Indeterminate"))

\* Mutant of ClassifyCasRejection: a rejected swap is taken to have done nothing.
TrustRejection(p) ==
    /\ At(p, "rejected")
    /\ LocalStep(p, "rejected", Returns("Failed"))
    /\ NothingInstalled

\* classify_cas_rejection
ClassifyCasRejection(p) ==
    /\ At(p, "rejected")
    /\ \/ StateOf(p) = record[p].expected /\ LocalStep(p, "rejected", Returns("Failed"))
       \/ LocalStep(p, "rejected", Returns("Indeterminate"))
    /\ NothingInstalled

\* The observation after the fsync is the only source of success evidence.
ReadBack(p) ==
    /\ At(p, "readBack")
    /\ \/ /\ StateOf(p).object = New[p] /\ StateOf(p).clean
          /\ LocalStep(p, "readBack", [Returns("Succeeded") EXCEPT !.poststate = StateOf(p)])
       \/ LocalStep(p, "readBack", Returns("Indeterminate"))
    /\ NothingInstalled

\* finish_execution appends the step receipt, then the terminal state.
PersistStepReceipt(p) ==
    PersistStep(p, "stepTerminal", [record[p] EXCEPT !.steps = @ + 1], Goto("terminal"))

PersistTerminal(p) ==
    PersistStep(p, "terminal",
                [record[p] EXCEPT
                    !.phase = IF handler.outcome = "Indeterminate"
                              THEN "ReconciliationRequired" ELSE handler.outcome,
                    !.receipt = handler.outcome,
                    !.activation = handler.poststate],
                Idle)

\* An append fails (or commits and reports failure): the handler returns the
\* error and the record stays where it was until the next restart.
AppendFails(p) ==
    /\ mode = "up" /\ handler.proposal = p
    /\ handler.at \notin {"cas", "rejected", "readBack"}
    /\ handler' = Idle
    /\ orphaned' = orphaned \cup {p}
    /\ UNCHANGED <<durable, mode, activated, challenge, draft, environment, installs, standing>>

-----------------------------------------------------------------------------
(* Reconciliation *)

DraftReconciliation(p) ==
    /\ Free
    /\ Phase(p) = "ReconciliationRequired"
    /\ Classify(p, StateOf(p)) # "Unresolved"
    /\ draft' = [proposal |-> p, observed |-> StateOf(p)]
    /\ UNCHANGED <<durable, mode, activated, challenge, handler, environment, history>>

\* reconcile: the presented observation must be what the target holds now.
Reconcile(p) ==
    /\ Free /\ ~cut
    /\ draft.proposal = p
    /\ Phase(p) = "ReconciliationRequired"
    /\ draft.observed = StateOf(p)
    /\ Persist(p, [record[p] EXCEPT !.phase = "Reconciled", !.receipt = "Reconciliation",
                                    !.observed = draft.observed])
    /\ draft' = NoDraft
    /\ UNCHANGED <<cut, mode, activated, challenge, handler, environment, history>>

-----------------------------------------------------------------------------
(* Restart *)

\* The process dies; the service manager kills its children with it.
Crash ==
    /\ mode # "down"
    /\ mode' = "down" /\ activated' = FALSE
    /\ challenge' = [p \in Proposals |-> NoChallenge]
    /\ handler' = Idle
    /\ orphaned' = {}
    /\ UNCHANGED <<durable, draft, environment, installs, standing>>

\* Opening the store, and leaving it alone when it is under a cut.
Startup ==
    /\ mode = "down"
    /\ mode' = IF cut THEN "up" ELSE "recovering"
    /\ UNCHANGED <<durable, activated, challenge, handler, draft, environment, history>>

\* One append of recover_incomplete_attempts.
Recover(p, r) ==
    /\ mode = "recovering"
    /\ Persist(p, r)
    /\ UNCHANGED <<cut, process, environment, history>>

\* Mutant of RecoverBurned: authority that was not used is given back.
RecoverToReady(p) ==
    /\ Phase(p) = "AuthorizationBurned"
    /\ Recover(p, [record[p] EXCEPT !.phase = "Ready", !.authorized = FALSE])

RecoverBurned(p) ==
    /\ Phase(p) = "AuthorizationBurned"
    /\ Recover(p, [record[p] EXCEPT !.phase = "Failed", !.receipt = "Abandoned"])

\* Mutant of RecoverUnchanged: the failure has no step receipt.
RecoverWithoutReceipt(p) ==
    /\ Phase(p) = "Preparing"
    /\ Classify(p, StateOf(p)) = "NotApplied"
    /\ Recover(p, [record[p] EXCEPT !.phase = "Failed", !.receipt = "Failed"])

\* The ref is proven to be at the ratified prestate.
RecoverUnchanged(p) ==
    /\ Phase(p) = "Preparing"
    /\ Classify(p, StateOf(p)) = "NotApplied"
    /\ Recover(p, [record[p] EXCEPT !.phase = "Failed", !.steps = @ + 1, !.receipt = "Failed"])

\* It is not, or it cannot be observed.
RecoverUnproven(p) ==
    /\ Phase(p) = "Preparing"
    /\ Recover(p, [record[p] EXCEPT !.phase = "ReconciliationRequired",
                                    !.steps = @ + 1, !.receipt = "Indeterminate"])

\* Mutant of RecoverExecuting: an attempt cut short is taken to have worked.
RecoverAsSucceeded(p) ==
    /\ Phase(p) = "Executing"
    /\ Recover(p, [record[p] EXCEPT !.phase = "Succeeded", !.receipt = "Succeeded"])

RecoverExecuting(p) ==
    /\ Phase(p) = "Executing"
    /\ Recover(p, [record[p] EXCEPT !.phase = "ReconciliationRequired", !.receipt = "Restart"])

\* Mutant of FinishStartup: the broker serves before recovery is complete.
FinishStartupEarly ==
    /\ mode = "recovering"
    /\ mode' = "up"
    /\ activated' \in {FALSE, ~Development /\ ActivationsCurrent}
    /\ UNCHANGED <<durable, challenge, handler, draft, environment, history>>

\* Every record was visited; live activation evidence may or may not be had.
FinishStartup ==
    /\ mode = "recovering"
    /\ \A p \in Proposals : Phase(p) \notin InFlight
    /\ mode' = "up"
    /\ activated' \in {FALSE, ~Development /\ ActivationsCurrent}
    /\ UNCHANGED <<durable, challenge, handler, draft, environment, history>>

\* Backup cuts are made by an offline tool that holds the store's lock.
ChangeCut ==
    /\ mode = "down"
    /\ cut' = ~cut
    /\ UNCHANGED <<record, precedes, process, environment, history>>

-----------------------------------------------------------------------------
(* The world outside the broker *)

\* Somebody else writes a target; what stood there no longer stands.
ExternalWrite(t) ==
    /\ \E s \in ForeignStates[t] \ {world[t]} : world' = [world EXCEPT ![t] = s]
    /\ standing' = {q \in standing : TargetOf[q] # t}
    /\ UNCHANGED <<durable, process, now, installs, orphaned>>

Tick ==
    /\ now < MaxTime
    /\ now' = now + 1
    /\ UNCHANGED <<durable, process, world, history>>

-----------------------------------------------------------------------------

Init ==
    /\ record = [p \in Proposals |-> NoRecord]
    /\ precedes = {} /\ cut = FALSE
    /\ mode = "down" /\ activated = FALSE
    /\ challenge = [p \in Proposals |-> NoChallenge]
    /\ handler = Idle /\ draft = NoDraft
    /\ world \in {w \in [Targets -> States] :
                     /\ \A t \in PointerTargets : w[t] = Genesis[t]
                     /\ \A t \in FileTargets : w[t] \in FileStates}
    /\ now = 0
    /\ installs = [p \in Proposals |-> 0] /\ standing = {} /\ orphaned = {}

Submission(p) == SubmitCanonical(p) \/ SubmitRefused(p) \/ SubmitIndeterminate(p)

Ratification(p) ==
    InspectProposal(p) \/ RatifyInvalid(p) \/ RecordPromotionRefusal(p) \/ BurnAuthorization(p)

Execution(p) ==
    \/ BeginPreparation(p) \/ PrepareSucceeds(p) \/ PrepareFails(p)
    \/ FinishPreparationFailure(p) \/ CommitMayProceed(p)
    \/ CheckBeforeCas(p) \/ UpdateRef(p) \/ ClassifyCasRejection(p) \/ ReadBack(p)
    \/ BeginExecution(p) \/ ExecuteFile(p)
    \/ PersistStepReceipt(p) \/ PersistTerminal(p)

Recovery(p) ==
    RecoverBurned(p) \/ RecoverUnchanged(p) \/ RecoverUnproven(p) \/ RecoverExecuting(p)

Next ==
    \/ \E p \in Proposals :
          \/ Submission(p) \/ Ratification(p) \/ Execution(p) \/ AppendFails(p)
          \/ DraftReconciliation(p) \/ Reconcile(p) \/ Recovery(p)
    \/ Startup \/ FinishStartup \/ Crash \/ ChangeCut
    \/ \E t \in Targets : ExternalWrite(t)
    \/ Tick

Spec == Init /\ [][Next]_vars

\* The broker thread keeps running its handler, the service manager restarts
\* the daemon, and a restart is not always cut short before its next append.
Fairness ==
    /\ \A p \in Proposals : WF_vars(Execution(p)) /\ SF_vars(Recovery(p))
    /\ SF_vars(Startup) /\ SF_vars(FinishStartup)

FairSpec == Spec /\ Fairness

-----------------------------------------------------------------------------
(* Properties *)

\* The type invariant.
TypeOK ==
    /\ record \in [Proposals -> Records]
    /\ precedes \subseteq PromotionProposals \X PromotionProposals
    /\ cut \in BOOLEAN /\ activated \in BOOLEAN
    /\ mode \in {"down", "recovering", "up"}
    /\ challenge \in [Proposals -> Nat \cup {NoChallenge}]
    /\ handler \in Handlers \cup {Idle}
    /\ draft \in [proposal : Proposals, observed : States] \cup {NoDraft}
    /\ world \in [Targets -> States]
    /\ \A t \in PointerTargets : world[t] \in PointerStates
    /\ \A t \in FileTargets : world[t] \in FileStates
    /\ now \in Nat
    /\ installs \in [Proposals -> Nat]
    /\ standing \subseteq Proposals /\ orphaned \subseteq Proposals

\* One ratification, at most one effect: an effect reaches its target at most
\* once, only after its authority and its attempt are durable, whatever
\* crashes, failed appends and restarts come in between (no automatic retry).
BurnBeforeEffect ==
    \A p \in Proposals :
        /\ installs[p] <= 1
        /\ installs[p] = 1 =>
              /\ record[p].authorized /\ record[p].attempt
              /\ Phase(p) \in {"Executing", "ReconciliationRequired"} \cup Terminal

\* A terminal record tells the truth about the target: Succeeded means the
\* effect was installed; Failed, and a reconciliation that found NotApplied,
\* mean that no installation of it is standing.
VerdictsTruthful ==
    \A p \in Proposals :
        /\ Phase(p) = "Succeeded" => installs[p] = 1
        /\ Phase(p) = "Failed" => p \notin standing
        /\ Phase(p) = "Reconciled" /\ Classify(p, record[p].observed) = "NotApplied" =>
              p \notin standing

\* What validate_proposal_record demands of a record in each lifecycle state.
RecordValid(p) ==
    LET r == record[p] IN
    /\ r.steps <= 1 /\ r.refusals <= MaxRefusals
    /\ (r.activation # NoState) <=> (IsPromotion(p) /\ r.phase = "Succeeded")
    /\ r.phase \in Spent => r.authorized
    /\ r.phase \notin Spent => ~r.authorized /\ ~r.attempt /\ r.steps = 0 /\ r.receipt = None
    /\ r.phase = "AuthorizationBurned" => ~r.attempt /\ r.steps = 0 /\ r.receipt = None
    /\ r.phase = "Preparing" => IsPromotion(p) /\ r.attempt /\ r.steps = 0 /\ r.receipt = None
    /\ r.phase = "Executing" => r.attempt /\ r.receipt = None
    /\ r.phase = "Succeeded" => r.attempt /\ r.steps = 1 /\ r.receipt = "Succeeded"
    /\ r.phase = "Failed" => IF r.attempt THEN r.steps = 1 /\ r.receipt = "Failed"
                             ELSE r.steps = 0 /\ r.receipt = "Abandoned"
    /\ r.phase = "ReconciliationRequired" =>
          r.attempt /\ (r.receipt = "Restart" \/ (r.receipt = "Indeterminate" /\ r.steps = 1))
    /\ r.phase = "Reconciled" =>
          /\ r.attempt /\ r.receipt = "Reconciliation"
          /\ r.observed # NoState /\ Classify(p, r.observed) # "Unresolved"

\* Every record any handler or recovery step persists is one the validator
\* accepts, so no crash leaves a store the broker refuses to start from.
RecordsValid == \A p \in Proposals : RecordValid(p)

\* At most one promotion is ever burned and unresolved: the gate refuses to
\* spend authority while an attempt is open, also across restarts.
OneUnresolvedPromotion ==
    \A p, q \in PromotionProposals :
        Phase(p) \in Unresolved /\ Phase(q) \in Unresolved => p = q

\* The successful promotions of a target, in the order they were recorded,
\* form a chain from the enrolled genesis: each was bound to the exact state
\* its predecessor left.
PredecessorChain == ChainExact

\* A running broker that is not quiesced has nothing in flight except the
\* attempt its handler is inside of and those whose append failed.
RestartSettles ==
    mode = "up" /\ ~cut =>
        \A p \in Proposals : Phase(p) \in InFlight => handler.proposal = p \/ p \in orphaned

\* A slot that expiry freed is never claimed back: ready_proposal_count leaves an
\* expired promotion out, so submission gives its slot to another, and from then on
\* no refusal, restart or late ratification makes it ratifiable again or spends it.
ExpiredStaysUnspent ==
    [][\A p \in Proposals :
          Phase(p) = "Ready" /\ Expired(p) => record'[p].phase = "Ready" /\ Expired(p)']_vars

\* Authority once spent is never spendable again, and a terminal record never
\* changes: recovery only moves forward.
SpentForever ==
    [][\A p \in Proposals :
          /\ Phase(p) \in Spent => record'[p].phase \in Spent /\ record'[p].authorized
          /\ Phase(p) \in InFlight \/ record'[p].phase \notin InFlight
                \/ record'[p].phase = "AuthorizationBurned"
          /\ Phase(p) \in Terminal => record'[p] = record[p]]_vars

\* A promotion reconciled as Applied or Foreign ends the spending of authority
\* of every family: nothing can be burned after it.
ForeignHistoryFreezes ==
    [][(\E q \in PromotionProposals :
           Phase(q) = "Reconciled" /\ Classify(q, record[q].observed) # "NotApplied")
       => \A p \in Proposals : record'[p].authorized = record[p].authorized]_vars

\* A burned proposal does not stay in flight: it is settled, or it waits for a
\* restart after a failed append, or for the end of a backup cut.
InFlightSettles ==
    \A p \in Proposals :
        Phase(p) \in InFlight ~> (Phase(p) \notin InFlight \/ p \in orphaned \/ cut)

-----------------------------------------------------------------------------
(* The facts that make the safety properties inductive *)

Preparation == {"prepare", "preparationFailed", "arm"}
Reporting == {"stepTerminal", "terminal"}

\* Where the handler is says what is durable and what has happened so far.
HandlerCoherent ==
    handler # Idle =>
        LET p == handler.proposal
            at == handler.at IN
        /\ mode = "up"
        /\ at = "begin" => Phase(p) = "AuthorizationBurned"
        /\ at \in Preparation => Phase(p) = "Preparing"
        /\ at \notin Preparation \cup {"begin"} => Phase(p) = "Executing"
        /\ record[p].steps = IF at = "terminal" THEN 1 ELSE 0
        /\ at \in {"cas", "rejected", "readBack"} => IsPromotion(p)
        /\ at \notin Reporting \cup {"rejected", "readBack"} => installs[p] = 0
        /\ at = "readBack" => installs[p] = 1
        /\ at \notin Reporting => handler.poststate = NoState
        /\ at \in Reporting =>
              /\ handler.outcome \in Outcomes
              /\ handler.outcome = "Succeeded" => installs[p] = 1
              /\ handler.outcome = "Failed" => p \notin standing
              /\ (handler.poststate # NoState) <=> (IsPromotion(p) /\ handler.outcome = "Succeeded")

\* What stands is what its proposal installed.
StandingShown ==
    \A p \in standing :
        /\ installs[p] = 1
        /\ IF IsPromotion(p) THEN StateOf(p).object = New[p] ELSE StateOf(p) = New[p]

\* A compiled promotion is bound to a clean prestate that names its parent.
PrestateBound ==
    \A p \in PromotionProposals :
        Phase(p) \notin {"Unknown"} \cup Submitted =>
            record[p].expected \in PointerStates /\ record[p].expected.object = Parent[p]

\* A draft is about a record that needs or needed it, and classifies it.
DraftCoherent ==
    draft # NoDraft =>
        /\ Phase(draft.proposal) \in {"ReconciliationRequired", "Reconciled"}
        /\ Classify(draft.proposal, draft.observed) # "Unresolved"

\* The inductive invariant behind the broker's safety properties.
BrokerInv ==
    /\ TypeOK /\ RecordsValid /\ BurnBeforeEffect /\ VerdictsTruthful
    /\ OneUnresolvedPromotion /\ RestartSettles
    /\ HandlerCoherent /\ StandingShown /\ PrestateBound /\ DraftCoherent

-----------------------------------------------------------------------------
(* Refinement *)

\* The broker's records and targets seen as EffectProtocol's variables.
AuthorityOf(p) ==
    CASE Phase(p) \in {"Unknown"} \cup Submitted -> "none"
      [] Phase(p) = "Ready" -> "offered"
      [] OTHER -> "spent"
AccountOf(p) ==
    IF Phase(p) \in {"Succeeded", "Failed", "ReconciliationRequired", "Reconciled"}
    THEN Phase(p) ELSE "open"

Protocol == INSTANCE EffectProtocol WITH
                authority <- [p \in Proposals |-> AuthorityOf(p)],
                effects <- installs,
                account <- [p \in Proposals |-> AccountOf(p)]

\* The broker, with its crashes, restarts and failed appends, implements the
\* one-shot protocol.
ImplementsProtocol == Protocol!Spec

=============================================================================
