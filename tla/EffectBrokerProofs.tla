------------------------- MODULE EffectBrokerProofs -------------------------
(***************************************************************************)
(* Proofs about EffectBroker for every set of proposals, targets and states *)
(* and every bound.  BrokerInv is shown to be inductive, one lemma for each *)
(* action (or for a group of actions with the same footprint), and the      *)
(* safety properties follow from it.                                        *)
(***************************************************************************)
EXTENDS EffectBroker, TLAPS

USE DEF durable, process, environment, history

-----------------------------------------------------------------------------
(* Types *)

\* A proposal's target is of its kind, and so is what the target holds.
LEMMA TargetTypes ==
    \A p \in Proposals :
        /\ TargetOf[p] \in Targets
        /\ IsPromotion(p) => TargetOf[p] \in PointerTargets
        /\ ~IsPromotion(p) => TargetOf[p] \in FileTargets
BY TargetsAssumption DEF IsPromotion, Proposals, Targets

LEMMA StateTypes ==
    ASSUME TypeOK, NEW p \in Proposals
    PROVE  /\ StateOf(p) \in States /\ StateOf(p) # NoState
           /\ IsPromotion(p) => StateOf(p) \in PointerStates
<1>1. world \in [Targets -> States] /\ (\A t \in PointerTargets : world[t] \in PointerStates)
    BY DEF TypeOK
<1>2. NoState \notin States
    BY StatesAssumption
<1>3. TargetOf[p] \in Targets /\ (IsPromotion(p) => TargetOf[p] \in PointerTargets)
    BY TargetTypes
<1> QED BY <1>1, <1>2, <1>3 DEF StateOf

\* An append of a well-formed record leaves the durable state well-formed.
LEMMA PersistType ==
    ASSUME TypeOK, NEW p \in Proposals, NEW r \in Records, Persist(p, r)
    PROVE  /\ record' = [record EXCEPT ![p] = r]
           /\ record' \in [Proposals -> Records]
           /\ precedes' \subseteq PromotionProposals \X PromotionProposals
<1>1. record' = [record EXCEPT ![p] = r]
    BY DEF Persist
<1>2. record' \in [Proposals -> Records]
    BY <1>1 DEF TypeOK
<1>3. precedes' \subseteq PromotionProposals \X PromotionProposals
    BY DEF Persist, TypeOK, IsPromotion
<1> QED BY <1>1, <1>2, <1>3

\* The phases and receipts that steps write.
LEMMA WrittenNames ==
    /\ {"Ready", "AuthorizationBurned", "Preparing", "Executing", "Succeeded", "Failed",
        "ReconciliationRequired", "Reconciled", "Refused", "Indeterminate"} \subseteq Phases
    /\ {"Succeeded", "Failed", "Indeterminate", "Abandoned", "Restart",
        "Reconciliation"} \subseteq Receipts
BY DEF Phases, Submitted, Spent, Unresolved, InFlight, Terminal, Receipts, Outcomes

\* A record stays one when it gets a terminal step receipt.
LEMMA StepReceiptType ==
    ASSUME NEW r \in Records, NEW ph \in Phases, NEW rc \in Receipts
    PROVE  [r EXCEPT !.phase = ph, !.steps = @ + 1, !.receipt = rc] \in Records
<1>1. r.steps + 1 \in Nat
    BY DEF Records
<1> QED BY <1>1 DEF Records

\* What is known while the broker thread is at a step of p's handler.
LEMMA InsideHandler ==
    ASSUME BrokerInv, NEW p \in Proposals, NEW step \in Steps, At(p, step)
    PROVE  /\ handler \in Handlers /\ handler # Idle /\ handler.proposal = p
           /\ handler.at = step /\ mode = "up"
           /\ step = "begin" => Phase(p) = "AuthorizationBurned"
           /\ step \in Preparation => Phase(p) = "Preparing"
           /\ step \notin Preparation \cup {"begin"} => Phase(p) = "Executing"
           /\ record[p].steps = IF step = "terminal" THEN 1 ELSE 0
           /\ step \in {"cas", "rejected", "readBack"} => IsPromotion(p)
           /\ step \notin Reporting \cup {"rejected", "readBack"} => installs[p] = 0
           /\ step = "readBack" => installs[p] = 1
           /\ step \notin Reporting => handler.poststate = NoState
           /\ step \in Reporting =>
                 /\ handler.outcome \in Outcomes
                 /\ handler.outcome = "Succeeded" => installs[p] = 1
                 /\ handler.outcome = "Failed" => p \notin standing
                 /\ (handler.poststate # NoState)
                       <=> (IsPromotion(p) /\ handler.outcome = "Succeeded")
<1>1. handler \in Handlers /\ handler # Idle
    BY DEF BrokerInv, TypeOK, At, Idle, Steps
<1>2. handler.proposal = p /\ handler.at = step
    BY DEF At
<1> QED BY <1>1, <1>2 DEF BrokerInv, HandlerCoherent

\* Where a handler may go next.
LEMMA HandlerMoves ==
    ASSUME handler \in Handlers
    PROVE  /\ \A s \in Steps : Goto(s) \in Handlers
           /\ \A o \in Outcomes : Returns(o) \in Handlers
           /\ \A o \in Outcomes, s \in PointerStates :
                 [Returns(o) EXCEPT !.poststate = s] \in Handlers
BY DEF Goto, Returns, Handlers, Steps

-----------------------------------------------------------------------------
(* Frames *)

\* A record that does not change stays valid.
LEMMA SameRecord ==
    ASSUME NEW q \in Proposals, RecordValid(q), record'[q] = record[q]
    PROVE  RecordValid(q)'
<1>1. Classify(q, record[q].observed)' = Classify(q, record[q].observed)
    BY DEF Classify
<1> QED BY <1>1 DEF RecordValid

\* A step that writes one record keeps all valid when it keeps that one valid.
LEMMA OthersValid ==
    ASSUME RecordsValid, NEW p \in Proposals, RecordValid(p)',
           \A q \in Proposals \ {p} : record'[q] = record[q]
    PROVE  RecordsValid'
<1> SUFFICES ASSUME NEW q \in Proposals PROVE RecordValid(q)'
    BY DEF RecordsValid
<1>1. CASE q = p
    BY <1>1
<1>2. CASE q # p
    BY <1>2, SameRecord DEF RecordsValid
<1> QED BY <1>1, <1>2

\* What depends on the records alone.
LEMMA SameRecords ==
    ASSUME BrokerInv, UNCHANGED record
    PROVE  RecordsValid' /\ OneUnresolvedPromotion' /\ PrestateBound'
<1>1. RecordsValid'
    BY SameRecord DEF BrokerInv, RecordsValid
<1>2. OneUnresolvedPromotion'
    BY DEF BrokerInv, OneUnresolvedPromotion, Phase
<1>3. PrestateBound'
    BY DEF BrokerInv, PrestateBound, Phase
<1> QED BY <1>1, <1>2, <1>3

\* Steps that leave every record, effect and target alone have to account only
\* for the mode, the handler and the draft.
LEMMA RecordsUntouched ==
    ASSUME BrokerInv, UNCHANGED <<record, world, installs, standing>>
    PROVE  /\ RecordsValid' /\ BurnBeforeEffect' /\ VerdictsTruthful'
           /\ OneUnresolvedPromotion' /\ StandingShown' /\ PrestateBound'
           /\ UNCHANGED draft => DraftCoherent'
<1>1. BurnBeforeEffect'
    BY DEF BrokerInv, BurnBeforeEffect, Phase
<1>2. VerdictsTruthful'
    BY DEF BrokerInv, VerdictsTruthful, Classify, Phase
<1>3. StandingShown'
    BY DEF BrokerInv, StandingShown, StateOf
<1>4. UNCHANGED draft => DraftCoherent'
    BY DEF BrokerInv, DraftCoherent, Classify, Phase
<1> QED BY <1>1, <1>2, <1>3, <1>4, SameRecords

-----------------------------------------------------------------------------
(* Steps that move one spent record forward *)

\* The parts of BrokerInv that are about records, targets and drafts.
RecordParts ==
    /\ RecordsValid /\ BurnBeforeEffect /\ VerdictsTruthful /\ OneUnresolvedPromotion
    /\ StandingShown /\ PrestateBound /\ DraftCoherent

\* Rewriting the record of an attempt in flight keeps them, when the new record
\* is valid and claims no more than what has happened.
LEMMA AdvanceRecord ==
    ASSUME BrokerInv, NEW p \in Proposals, NEW r \in Records,
           record' = [record EXCEPT ![p] = r],
           UNCHANGED <<draft, world, installs, standing>>,
           Phase(p) \in InFlight,
           r.phase \in InFlight \cup {"Succeeded", "Failed", "ReconciliationRequired"},
           r.expected = record[p].expected,
           RecordValid(p)',
           record[p].attempt => r.attempt,
           installs[p] = 1 => r.phase \notin {"AuthorizationBurned", "Preparing"},
           r.phase = "Succeeded" => installs[p] = 1,
           r.phase = "Failed" => p \notin standing
    PROVE  RecordParts'
<1>1. record \in [Proposals -> Records] /\ record'[p] = r
    BY DEF BrokerInv, TypeOK
<1>2. \A q \in Proposals \ {p} : record'[q] = record[q]
    BY <1>1
<1>3. RecordsValid'
    BY <1>2, OthersValid DEF BrokerInv
<1>4. BurnBeforeEffect'
    BY <1>1, <1>2, <1>3 DEF BrokerInv, BurnBeforeEffect, RecordsValid, RecordValid, Phase,
                            InFlight, Terminal, Spent, Unresolved
<1>5. VerdictsTruthful'
    BY <1>1, <1>2 DEF BrokerInv, VerdictsTruthful, Phase, Classify, InFlight
<1>6. OneUnresolvedPromotion'
    BY <1>1, <1>2 DEF BrokerInv, OneUnresolvedPromotion, Phase, Unresolved, Proposals
<1>7. StandingShown'
    BY DEF BrokerInv, StandingShown, StateOf
<1>8. PrestateBound'
    BY <1>1, <1>2 DEF BrokerInv, PrestateBound, Phase, Submitted, InFlight, Proposals
<1>9. DraftCoherent'
    BY <1>1, <1>2 DEF BrokerInv, DraftCoherent, Phase, Classify, InFlight, TypeOK, NoDraft
<1> QED BY <1>3, <1>4, <1>5, <1>6, <1>7, <1>8, <1>9 DEF RecordParts

\* The same for an append the handler makes; what remains is the handler.
LEMMA HandlerAppend ==
    ASSUME BrokerInv, NEW p \in Proposals, NEW step \in Steps, NEW r \in Records,
           NEW next \in Handlers \cup {Idle},
           PersistStep(p, step, r, next),
           r.phase \in InFlight \cup {"Succeeded", "Failed", "ReconciliationRequired"},
           r.expected = record[p].expected,
           record' = [record EXCEPT ![p] = r] => RecordValid(p)',
           record[p].attempt => r.attempt,
           installs[p] = 1 => r.phase \notin {"AuthorizationBurned", "Preparing"},
           r.phase = "Succeeded" => installs[p] = 1,
           r.phase = "Failed" => p \notin standing,
           next = Idle => r.phase \notin InFlight,
           next # Idle => next.proposal = p
    PROVE  TypeOK' /\ RecordParts' /\ RestartSettles' /\ record'[p] = r
<1>1. /\ At(p, step) /\ Persist(p, r) /\ handler' = next
      /\ UNCHANGED <<cut, mode, activated, challenge, draft, world, now,
                     installs, standing, orphaned>>
    BY DEF PersistStep
<1>2. record' = [record EXCEPT ![p] = r] /\ record \in [Proposals -> Records]
    BY <1>1, PersistType DEF BrokerInv, TypeOK
<1>3. TypeOK'
    BY <1>1, PersistType DEF BrokerInv, TypeOK
<1>4. Phase(p) \in InFlight /\ handler.proposal = p
    BY <1>1, InsideHandler DEF InFlight
<1>5. RecordParts'
    BY <1>1, <1>2, <1>4, AdvanceRecord, ZenonT(60)
<1>6. RestartSettles'
    BY <1>1, <1>2, <1>4 DEF BrokerInv, RestartSettles, Phase
<1> QED BY <1>2, <1>3, <1>5, <1>6

-----------------------------------------------------------------------------
(* The handler's appends *)

LEMMA BeginPreparationPreserves ==
    ASSUME BrokerInv, NEW p \in Proposals, BeginPreparation(p)
    PROVE  BrokerInv'
<1> DEFINE r == [record[p] EXCEPT !.phase = "Preparing", !.attempt = TRUE]
<1>1. /\ PersistStep(p, "begin", r, Goto("prepare")) /\ At(p, "begin") /\ IsPromotion(p)
      /\ handler' = Goto("prepare") /\ UNCHANGED <<mode, installs, standing>>
    BY DEF BeginPreparation, PersistStep
<1>2. "begin" \in Steps /\ "prepare" \in Steps
    BY DEF Steps
<1>3. /\ handler \in Handlers /\ handler.proposal = p /\ mode = "up"
      /\ Phase(p) = "AuthorizationBurned" /\ record[p].steps = 0 /\ installs[p] = 0 /\ handler.poststate = NoState
    BY <1>1, <1>2, InsideHandler DEF Preparation, Reporting
<1>4. record[p] \in Records /\ RecordValid(p) /\ (p \in standing => installs[p] = 1)
    BY DEF BrokerInv, TypeOK, RecordsValid, StandingShown
<1>5. r \in Records
    BY <1>3, <1>4, WrittenNames, ZenonT(60) DEF Records
<1>6. Goto("prepare") \in Handlers \cup {Idle}
    BY <1>2, <1>3, HandlerMoves
<1>7. /\ r.phase \in InFlight \cup {"Succeeded", "Failed", "ReconciliationRequired"}
      /\ r.expected = record[p].expected /\ (record[p].attempt => r.attempt)
      /\ installs[p] = 1 => r.phase \notin {"AuthorizationBurned", "Preparing"}
      /\ r.phase = "Succeeded" => installs[p] = 1
      /\ r.phase = "Failed" => p \notin standing
      /\ Goto("prepare") = Idle => r.phase \notin InFlight
      /\ Goto("prepare") # Idle => (Goto("prepare")).proposal = p
    BY <1>3, <1>4, <1>6 DEF Records, Phase, InFlight, Outcomes, Goto, Handlers, Idle, Steps
<1>8. ASSUME record' = [record EXCEPT ![p] = r] PROVE RecordValid(p)'
  <2>1. record'[p] = r
      BY <1>8 DEF BrokerInv, TypeOK
  <2> QED BY <1>1, <1>3, <1>4, <2>1
          DEF RecordValid, Phase, Records, Phases, Spent, Unresolved, InFlight, Terminal, Outcomes, Receipts, None
<1> HIDE DEF r
<1>9. TypeOK' /\ RecordParts' /\ RestartSettles' /\ record'[p] = r
    BY <1>1, <1>2, <1>5, <1>6, <1>7, <1>8, HandlerAppend
<1> USE DEF r
<1>10. /\ handler'.proposal = p /\ handler'.at = "prepare"
       /\ handler'.poststate = handler.poststate
       /\ record'[p].phase = "Preparing" /\ record'[p].steps = 0
    BY <1>1, <1>3, <1>4, <1>9 DEF Goto, Handlers, Records, Phase
<1> HIDE DEF r
<1>11. HandlerCoherent'
    BY <1>1, <1>3, <1>10 DEF HandlerCoherent, Phase, Preparation, Reporting
<1> QED BY <1>9, <1>11 DEF BrokerInv, RecordParts

LEMMA BeginExecutionPreserves ==
    ASSUME BrokerInv, NEW p \in Proposals, BeginExecution(p)
    PROVE  BrokerInv'
<1> DEFINE r == [record[p] EXCEPT !.phase = "Executing", !.attempt = TRUE]
<1>1. /\ PersistStep(p, "begin", r, Goto("run")) /\ At(p, "begin") /\ ~IsPromotion(p)
      /\ handler' = Goto("run") /\ UNCHANGED <<mode, installs, standing>>
    BY DEF BeginExecution, PersistStep
<1>2. "begin" \in Steps /\ "run" \in Steps
    BY DEF Steps
<1>3. /\ handler \in Handlers /\ handler.proposal = p /\ mode = "up"
      /\ Phase(p) = "AuthorizationBurned" /\ record[p].steps = 0 /\ installs[p] = 0 /\ handler.poststate = NoState
    BY <1>1, <1>2, InsideHandler DEF Preparation, Reporting
<1>4. record[p] \in Records /\ RecordValid(p) /\ (p \in standing => installs[p] = 1)
    BY DEF BrokerInv, TypeOK, RecordsValid, StandingShown
<1>5. r \in Records
    BY <1>3, <1>4, WrittenNames, ZenonT(60) DEF Records
<1>6. Goto("run") \in Handlers \cup {Idle}
    BY <1>2, <1>3, HandlerMoves
<1>7. /\ r.phase \in InFlight \cup {"Succeeded", "Failed", "ReconciliationRequired"}
      /\ r.expected = record[p].expected /\ (record[p].attempt => r.attempt)
      /\ installs[p] = 1 => r.phase \notin {"AuthorizationBurned", "Preparing"}
      /\ r.phase = "Succeeded" => installs[p] = 1
      /\ r.phase = "Failed" => p \notin standing
      /\ Goto("run") = Idle => r.phase \notin InFlight
      /\ Goto("run") # Idle => (Goto("run")).proposal = p
    BY <1>3, <1>4, <1>6 DEF Records, Phase, InFlight, Outcomes, Goto, Handlers, Idle, Steps
<1>8. ASSUME record' = [record EXCEPT ![p] = r] PROVE RecordValid(p)'
  <2>1. record'[p] = r
      BY <1>8 DEF BrokerInv, TypeOK
  <2> QED BY <1>1, <1>3, <1>4, <2>1
          DEF RecordValid, Phase, Records, Phases, Spent, Unresolved, InFlight, Terminal, Outcomes, Receipts, None
<1> HIDE DEF r
<1>9. TypeOK' /\ RecordParts' /\ RestartSettles' /\ record'[p] = r
    BY <1>1, <1>2, <1>5, <1>6, <1>7, <1>8, HandlerAppend
<1> USE DEF r
<1>10. /\ handler'.proposal = p /\ handler'.at = "run"
       /\ handler'.poststate = handler.poststate
       /\ record'[p].phase = "Executing" /\ record'[p].steps = 0
    BY <1>1, <1>3, <1>4, <1>9 DEF Goto, Handlers, Records, Phase
<1> HIDE DEF r
<1>11. HandlerCoherent'
    BY <1>1, <1>3, <1>10 DEF HandlerCoherent, Phase, Preparation, Reporting
<1> QED BY <1>9, <1>11 DEF BrokerInv, RecordParts

LEMMA FinishPreparationFailurePreserves ==
    ASSUME BrokerInv, NEW p \in Proposals, FinishPreparationFailure(p)
    PROVE  BrokerInv'
<1> DEFINE r == [record[p] EXCEPT !.phase = "Failed", !.steps = @ + 1,
                                  !.receipt = "Failed"]
<1>1. /\ PersistStep(p, "preparationFailed", r, Idle) /\ At(p, "preparationFailed")
      /\ handler' = Idle /\ UNCHANGED <<mode, installs, standing>>
    BY DEF FinishPreparationFailure, PersistStep
<1>2. "preparationFailed" \in Steps
    BY DEF Steps
<1>3. /\ handler \in Handlers /\ handler.proposal = p /\ mode = "up"
      /\ Phase(p) = "Preparing" /\ record[p].steps = 0 /\ installs[p] = 0
    BY <1>1, <1>2, InsideHandler DEF Preparation, Reporting
<1>4. record[p] \in Records /\ RecordValid(p) /\ (p \in standing => installs[p] = 1)
    BY DEF BrokerInv, TypeOK, RecordsValid, StandingShown
<1>5. r \in Records
    BY <1>3, <1>4, WrittenNames, StepReceiptType
<1>6. Idle \in Handlers \cup {Idle}
    BY <1>2, <1>3, HandlerMoves
<1>7. /\ r.phase \in InFlight \cup {"Succeeded", "Failed", "ReconciliationRequired"}
      /\ r.expected = record[p].expected /\ (record[p].attempt => r.attempt)
      /\ installs[p] = 1 => r.phase \notin {"AuthorizationBurned", "Preparing"}
      /\ r.phase = "Succeeded" => installs[p] = 1
      /\ r.phase = "Failed" => p \notin standing
      /\ Idle = Idle => r.phase \notin InFlight
      /\ Idle # Idle => (Idle).proposal = p
    BY <1>3, <1>4, <1>6 DEF Records, Phase, InFlight, Outcomes, Goto, Handlers, Idle, Steps
<1>8. ASSUME record' = [record EXCEPT ![p] = r] PROVE RecordValid(p)'
  <2>1. record'[p] = r
      BY <1>8 DEF BrokerInv, TypeOK
  <2> QED BY <1>1, <1>3, <1>4, <2>1
          DEF RecordValid, Phase, Records, Phases, Spent, Unresolved, InFlight, Terminal, Outcomes, Receipts, None
<1> HIDE DEF r
<1>9. TypeOK' /\ RecordParts' /\ RestartSettles' /\ record'[p] = r
    BY <1>1, <1>2, <1>5, <1>6, <1>7, <1>8, HandlerAppend
<1> USE DEF r
<1>10. HandlerCoherent'
    BY <1>1, <1>3, <1>4, <1>9
       DEF HandlerCoherent, Goto, Handlers, Records, Phase, Preparation, Reporting
<1> QED BY <1>9, <1>10 DEF BrokerInv, RecordParts

LEMMA CommitMayProceedPreserves ==
    ASSUME BrokerInv, NEW p \in Proposals, CommitMayProceed(p)
    PROVE  BrokerInv'
<1> DEFINE r == [record[p] EXCEPT !.phase = "Executing"]
<1>1. /\ PersistStep(p, "arm", r, Goto("run")) /\ At(p, "arm")
      /\ handler' = Goto("run") /\ UNCHANGED <<mode, installs, standing>>
    BY DEF CommitMayProceed, PersistStep
<1>2. "arm" \in Steps /\ "run" \in Steps
    BY DEF Steps
<1>3. /\ handler \in Handlers /\ handler.proposal = p /\ mode = "up"
      /\ Phase(p) = "Preparing" /\ record[p].steps = 0 /\ installs[p] = 0 /\ handler.poststate = NoState
    BY <1>1, <1>2, InsideHandler DEF Preparation, Reporting
<1>4. record[p] \in Records /\ RecordValid(p) /\ (p \in standing => installs[p] = 1)
    BY DEF BrokerInv, TypeOK, RecordsValid, StandingShown
<1>5. r \in Records
    BY <1>3, <1>4, WrittenNames DEF Records
<1>6. Goto("run") \in Handlers \cup {Idle}
    BY <1>2, <1>3, HandlerMoves
<1>7. /\ r.phase \in InFlight \cup {"Succeeded", "Failed", "ReconciliationRequired"}
      /\ r.expected = record[p].expected /\ (record[p].attempt => r.attempt)
      /\ installs[p] = 1 => r.phase \notin {"AuthorizationBurned", "Preparing"}
      /\ r.phase = "Succeeded" => installs[p] = 1
      /\ r.phase = "Failed" => p \notin standing
      /\ Goto("run") = Idle => r.phase \notin InFlight
      /\ Goto("run") # Idle => (Goto("run")).proposal = p
    BY <1>3, <1>4, <1>6 DEF Records, Phase, InFlight, Outcomes, Goto, Handlers, Idle, Steps
<1>8. ASSUME record' = [record EXCEPT ![p] = r] PROVE RecordValid(p)'
  <2>1. record'[p] = r
      BY <1>8 DEF BrokerInv, TypeOK
  <2> QED BY <1>1, <1>3, <1>4, <2>1
          DEF RecordValid, Phase, Records, Phases, Spent, Unresolved, InFlight, Terminal, Outcomes, Receipts, None
<1> HIDE DEF r
<1>9. TypeOK' /\ RecordParts' /\ RestartSettles' /\ record'[p] = r
    BY <1>1, <1>2, <1>5, <1>6, <1>7, <1>8, HandlerAppend
<1> USE DEF r
<1>10. /\ handler'.proposal = p /\ handler'.at = "run"
       /\ handler'.poststate = handler.poststate
       /\ record'[p].phase = "Executing" /\ record'[p].steps = 0
    BY <1>1, <1>3, <1>4, <1>9 DEF Goto, Handlers, Records, Phase
<1> HIDE DEF r
<1>11. HandlerCoherent'
    BY <1>1, <1>3, <1>10 DEF HandlerCoherent, Phase, Preparation, Reporting
<1> QED BY <1>9, <1>11 DEF BrokerInv, RecordParts

LEMMA PersistStepReceiptPreserves ==
    ASSUME BrokerInv, NEW p \in Proposals, PersistStepReceipt(p)
    PROVE  BrokerInv'
<1> DEFINE r == [record[p] EXCEPT !.steps = @ + 1]
<1>1. /\ PersistStep(p, "stepTerminal", r, Goto("terminal")) /\ At(p, "stepTerminal")
      /\ handler' = Goto("terminal") /\ UNCHANGED <<mode, installs, standing>>
    BY DEF PersistStepReceipt, PersistStep
<1>2. "stepTerminal" \in Steps /\ "terminal" \in Steps
    BY DEF Steps
<1>3. /\ handler \in Handlers /\ handler.proposal = p /\ mode = "up"
      /\ Phase(p) = "Executing" /\ record[p].steps = 0
      /\ handler.outcome \in Outcomes
      /\ handler.outcome = "Succeeded" => installs[p] = 1
      /\ handler.outcome = "Failed" => p \notin standing
      /\ (handler.poststate # NoState)
            <=> (IsPromotion(p) /\ handler.outcome = "Succeeded")
    BY <1>1, <1>2, InsideHandler DEF Preparation, Reporting
<1>4. record[p] \in Records /\ RecordValid(p) /\ (p \in standing => installs[p] = 1)
    BY DEF BrokerInv, TypeOK, RecordsValid, StandingShown
<1>5. r \in Records
    BY <1>3, <1>4, WrittenNames DEF Records
<1>6. Goto("terminal") \in Handlers \cup {Idle}
    BY <1>2, <1>3, HandlerMoves
<1>7. /\ r.phase \in InFlight \cup {"Succeeded", "Failed", "ReconciliationRequired"}
      /\ r.expected = record[p].expected /\ (record[p].attempt => r.attempt)
      /\ installs[p] = 1 => r.phase \notin {"AuthorizationBurned", "Preparing"}
      /\ r.phase = "Succeeded" => installs[p] = 1
      /\ r.phase = "Failed" => p \notin standing
      /\ Goto("terminal") = Idle => r.phase \notin InFlight
      /\ Goto("terminal") # Idle => (Goto("terminal")).proposal = p
    BY <1>3, <1>4, <1>6 DEF Records, Phase, InFlight, Outcomes, Goto, Handlers, Idle, Steps
<1>8. ASSUME record' = [record EXCEPT ![p] = r] PROVE RecordValid(p)'
  <2>1. record'[p] = r
      BY <1>8 DEF BrokerInv, TypeOK
  <2> QED BY <1>1, <1>3, <1>4, <2>1
          DEF RecordValid, Phase, Records, Phases, Spent, Unresolved, InFlight, Terminal, Outcomes, Receipts, None
<1> HIDE DEF r
<1>9. TypeOK' /\ RecordParts' /\ RestartSettles' /\ record'[p] = r
    BY <1>1, <1>2, <1>5, <1>6, <1>7, <1>8, HandlerAppend
<1> USE DEF r
<1>10. /\ handler'.proposal = p /\ handler'.at = "terminal"
       /\ handler'.outcome = handler.outcome
       /\ handler'.poststate = handler.poststate
       /\ record'[p].phase = "Executing" /\ record'[p].steps = 1
    BY <1>1, <1>3, <1>4, <1>9 DEF Goto, Handlers, Records, Phase
<1> HIDE DEF r
<1>11. HandlerCoherent'
    BY <1>1, <1>3, <1>10 DEF HandlerCoherent, Phase, Preparation, Reporting
<1> QED BY <1>9, <1>11 DEF BrokerInv, RecordParts

LEMMA PersistTerminalPreserves ==
    ASSUME BrokerInv, NEW p \in Proposals, PersistTerminal(p)
    PROVE  BrokerInv'
<1> DEFINE r == [record[p] EXCEPT
                     !.phase = IF handler.outcome = "Indeterminate"
                               THEN "ReconciliationRequired" ELSE handler.outcome,
                     !.receipt = handler.outcome,
                     !.activation = handler.poststate]
<1>1. /\ PersistStep(p, "terminal", r, Idle) /\ At(p, "terminal")
      /\ handler' = Idle /\ UNCHANGED <<mode, installs, standing>>
    BY DEF PersistTerminal, PersistStep
<1>2. "terminal" \in Steps
    BY DEF Steps
<1>3. /\ handler \in Handlers /\ handler.proposal = p /\ mode = "up"
      /\ Phase(p) = "Executing" /\ record[p].steps = 1
      /\ handler.outcome \in Outcomes
      /\ handler.outcome = "Succeeded" => installs[p] = 1
      /\ handler.outcome = "Failed" => p \notin standing
      /\ (handler.poststate # NoState)
            <=> (IsPromotion(p) /\ handler.outcome = "Succeeded")
    BY <1>1, <1>2, InsideHandler DEF Preparation, Reporting
<1>4. record[p] \in Records /\ RecordValid(p) /\ (p \in standing => installs[p] = 1)
    BY DEF BrokerInv, TypeOK, RecordsValid, StandingShown
<1>5. r \in Records
  <2>1. /\ handler.outcome \in Receipts /\ handler.poststate \in PointerStates \cup {NoState}
        /\ (IF handler.outcome = "Indeterminate"
            THEN "ReconciliationRequired" ELSE handler.outcome) \in Phases
      BY <1>3, WrittenNames DEF Outcomes, Handlers
  <2> QED BY <1>4, <2>1, ZenonT(60) DEF Records
<1>6. Idle \in Handlers \cup {Idle}
    BY <1>2, <1>3, HandlerMoves
<1>7. /\ r.phase \in InFlight \cup {"Succeeded", "Failed", "ReconciliationRequired"}
      /\ r.expected = record[p].expected /\ (record[p].attempt => r.attempt)
      /\ installs[p] = 1 => r.phase \notin {"AuthorizationBurned", "Preparing"}
      /\ r.phase = "Succeeded" => installs[p] = 1
      /\ r.phase = "Failed" => p \notin standing
      /\ Idle = Idle => r.phase \notin InFlight
      /\ Idle # Idle => (Idle).proposal = p
    BY <1>3, <1>4, <1>6 DEF Records, Phase, InFlight, Outcomes, Goto, Handlers, Idle, Steps
<1>8. ASSUME record' = [record EXCEPT ![p] = r] PROVE RecordValid(p)'
  <2>1. record'[p] = r
      BY <1>8 DEF BrokerInv, TypeOK
  <2> QED BY <1>1, <1>3, <1>4, <2>1
          DEF RecordValid, Phase, Records, Phases, Spent, Unresolved, InFlight, Terminal, Outcomes, Receipts, None
<1> HIDE DEF r
<1>9. TypeOK' /\ RecordParts' /\ RestartSettles' /\ record'[p] = r
    BY <1>1, <1>2, <1>5, <1>6, <1>7, <1>8, HandlerAppend
<1> USE DEF r
<1>10. HandlerCoherent'
    BY <1>1, <1>3, <1>4, <1>9
       DEF HandlerCoherent, Goto, Handlers, Records, Phase, Preparation, Reporting
<1> QED BY <1>9, <1>10 DEF BrokerInv, RecordParts

-----------------------------------------------------------------------------
(* The handler's other steps *)

\* A step that installs nothing only has to leave a coherent handler.
LEMMA LocalStepPreserves ==
    ASSUME BrokerInv, NEW p \in Proposals, NEW step \in Steps, NEW next \in Handlers,
           LocalStep(p, step, next), NothingInstalled,
           next.proposal = p, HandlerCoherent'
    PROVE  BrokerInv'
<1>1. /\ At(p, step) /\ handler' = next
      /\ UNCHANGED <<record, precedes, cut, mode, activated, challenge, draft, world, now,
                     installs, standing, orphaned>>
    BY DEF LocalStep, NothingInstalled
<1>2. TypeOK' /\ handler.proposal = p
    BY <1>1 DEF BrokerInv, TypeOK, At
<1>3. RestartSettles'
    BY <1>1, <1>2 DEF BrokerInv, RestartSettles, Phase
<1> QED BY <1>1, <1>2, <1>3, RecordsUntouched DEF BrokerInv

\* A step that installs p's state, and goes on at `next'.
LEMMA InstallPreserves ==
    ASSUME BrokerInv, NEW p \in Proposals, NEW step \in Steps, NEW next \in Handlers,
           NEW s, Install(p, s), LocalStep(p, step, next),
           step \in {"run", "cas"},
           IF IsPromotion(p) THEN s \in PointerStates /\ s.object = New[p]
           ELSE s \in FileStates /\ s = New[p],
           next.proposal = p, HandlerCoherent'
    PROVE  BrokerInv'
<1>1. /\ At(p, step) /\ handler' = next
      /\ UNCHANGED <<record, precedes, cut, mode, activated, challenge, draft, now, orphaned>>
      /\ world' = [world EXCEPT ![TargetOf[p]] = s]
      /\ installs' = [installs EXCEPT ![p] = @ + 1]
      /\ standing' = {q \in standing : TargetOf[q] # TargetOf[p]} \cup {p}
    BY DEF LocalStep, Install
<1>2. Phase(p) = "Executing" /\ installs[p] = 0 /\ handler.proposal = p
    BY <1>1, InsideHandler DEF Preparation, Reporting
<1>3. record[p].authorized /\ record[p].attempt
    BY <1>2 DEF BrokerInv, RecordsValid, RecordValid, Phase, Spent, Unresolved, InFlight
<1>4. installs'[p] = 1 /\ (\A q \in Proposals \ {p} : installs'[q] = installs[q])
    BY <1>1, <1>2 DEF BrokerInv, TypeOK
<1>5. TypeOK'
  <2>1. TargetOf[p] \in Targets /\ (IsPromotion(p) => TargetOf[p] \in PointerTargets)
                                /\ (~IsPromotion(p) => TargetOf[p] \in FileTargets)
      BY TargetTypes DEF IsPromotion
  <2>2. FileTargets \cap PointerTargets = {}
      BY TargetsAssumption
  <2>3. /\ world' \in [Targets -> States]
        /\ \A t \in PointerTargets : world'[t] \in PointerStates
        /\ \A t \in FileTargets : world'[t] \in FileStates
      BY <1>1, <2>1, <2>2 DEF BrokerInv, TypeOK, States, Targets
  <2> QED BY <1>1, <2>3 DEF BrokerInv, TypeOK
<1>6. RecordsValid' /\ OneUnresolvedPromotion' /\ PrestateBound'
    BY <1>1, SameRecords
<1>7. BurnBeforeEffect'
  <2> SUFFICES ASSUME NEW q \in Proposals
               PROVE  /\ installs'[q] <= 1
                      /\ installs'[q] = 1 =>
                            /\ record[q].authorized /\ record[q].attempt
                            /\ Phase(q) \in {"Executing", "ReconciliationRequired"} \cup Terminal
      BY <1>1 DEF BurnBeforeEffect, Phase
  <2>1. CASE q = p
      BY <1>2, <1>3, <1>4, <2>1
  <2>2. CASE q # p
      BY <1>4, <2>2 DEF BrokerInv, BurnBeforeEffect
  <2> QED BY <2>1, <2>2
<1>8. VerdictsTruthful'
    BY <1>1, <1>2, <1>4 DEF BrokerInv, VerdictsTruthful, Phase, Classify
<1>9. StandingShown'
  <2> SUFFICES ASSUME NEW q \in standing'
               PROVE  /\ installs'[q] = 1
                      /\ IF IsPromotion(q) THEN world'[TargetOf[q]].object = New[q]
                         ELSE world'[TargetOf[q]] = New[q]
      BY DEF StandingShown, StateOf
  <2>1. CASE q = p
    <3>1. world'[TargetOf[p]] = s
        BY <1>1, TargetTypes DEF BrokerInv, TypeOK
    <3> QED BY <1>4, <2>1, <3>1
  <2>2. CASE q # p
    <3>1. q \in standing /\ q \in Proposals /\ TargetOf[q] # TargetOf[p]
        BY <1>1, <2>2 DEF BrokerInv, TypeOK
    <3>2. world'[TargetOf[q]] = world[TargetOf[q]]
        BY <1>1, <3>1, TargetTypes DEF BrokerInv, TypeOK
    <3> QED BY <1>4, <2>2, <3>1, <3>2 DEF BrokerInv, StandingShown, StateOf
  <2> QED BY <2>1, <2>2
<1>10. RestartSettles' /\ DraftCoherent'
    BY <1>1, <1>2 DEF BrokerInv, RestartSettles, DraftCoherent, Classify, Phase
<1> QED BY <1>5, <1>6, <1>7, <1>8, <1>9, <1>10 DEF BrokerInv

\* Preparation touches nothing, whether it succeeds or fails.
LEMMA PreparePreserves ==
    ASSUME BrokerInv, NEW p \in Proposals, PrepareSucceeds(p) \/ PrepareFails(p)
    PROVE  BrokerInv'
<1>1. PICK step \in {"arm", "preparationFailed"} :
          LocalStep(p, "prepare", Goto(step)) /\ NothingInstalled
    BY DEF PrepareSucceeds, PrepareFails
<1>2. /\ At(p, "prepare") /\ handler' = Goto(step)
      /\ UNCHANGED <<record, mode, installs, standing>>
    BY <1>1 DEF LocalStep, NothingInstalled
<1>3. "prepare" \in Steps /\ step \in Steps
    BY DEF Steps
<1>4. /\ handler \in Handlers /\ handler.proposal = p /\ mode = "up"
      /\ Phase(p) = "Preparing" /\ record[p].steps = 0 /\ installs[p] = 0
      /\ handler.poststate = NoState
    BY <1>2, <1>3, InsideHandler DEF Preparation, Reporting
<1>5. Goto(step) \in Handlers /\ Goto(step).proposal = p
    BY <1>3, <1>4, HandlerMoves DEF Goto, Handlers
<1>6. HandlerCoherent'
    BY <1>2, <1>4 DEF HandlerCoherent, Goto, Handlers, Phase, Preparation, Reporting
<1> QED BY <1>1, <1>3, <1>5, <1>6, LocalStepPreserves

\* The handler reports an outcome for an execution that changed nothing.
LEMMA ReportPreserves ==
    ASSUME BrokerInv, NEW p \in Proposals, NEW step \in {"run", "cas", "rejected", "readBack"},
           NEW outcome \in {"Failed", "Indeterminate"},
           LocalStep(p, step, Returns(outcome)), NothingInstalled,
           outcome = "Failed" => p \notin standing
    PROVE  BrokerInv'
<1>1. /\ At(p, step) /\ handler' = Returns(outcome)
      /\ UNCHANGED <<record, mode, installs, standing>>
    BY DEF LocalStep, NothingInstalled
<1>2. step \in Steps /\ outcome \in Outcomes
    BY DEF Steps, Outcomes
<1>3. /\ handler \in Handlers /\ handler.proposal = p /\ mode = "up"
      /\ Phase(p) = "Executing" /\ record[p].steps = 0
      /\ handler.poststate = NoState
    BY <1>1, <1>2, InsideHandler DEF Preparation, Reporting
<1>4. Returns(outcome) \in Handlers /\ Returns(outcome).proposal = p
    BY <1>2, <1>3, HandlerMoves DEF Returns, Handlers
<1>5. HandlerCoherent'
    BY <1>1, <1>2, <1>3 DEF HandlerCoherent, Returns, Handlers, Phase, Preparation, Reporting
<1> QED BY <1>2, <1>4, <1>5, LocalStepPreserves

LEMMA CheckBeforeCasPreserves ==
    ASSUME BrokerInv, NEW p \in Proposals, CheckBeforeCas(p)
    PROVE  BrokerInv'
<1>1. At(p, "run") /\ NothingInstalled /\ IsPromotion(p) /\ "run" \in Steps /\ "cas" \in Steps
    BY DEF CheckBeforeCas, LocalStep, Steps
<1>2. /\ handler \in Handlers /\ handler.proposal = p /\ mode = "up"
      /\ Phase(p) = "Executing" /\ record[p].steps = 0 /\ installs[p] = 0
      /\ handler.poststate = NoState
    BY <1>1, InsideHandler DEF Preparation, Reporting
<1>3. p \notin standing
    BY <1>2 DEF BrokerInv, StandingShown
<1>4. CASE LocalStep(p, "run", Goto("cas"))
  <2>1. Goto("cas") \in Handlers /\ Goto("cas").proposal = p
      BY <1>1, <1>2, HandlerMoves DEF Goto, Handlers
  <2>2. handler' = Goto("cas") /\ UNCHANGED <<record, mode, installs, standing>>
      BY <1>1, <1>4 DEF LocalStep, NothingInstalled
  <2>3. HandlerCoherent'
      BY <1>1, <1>2, <2>2
         DEF HandlerCoherent, Goto, Handlers, Phase, Preparation, Reporting, IsPromotion
  <2> QED BY <1>1, <1>4, <2>1, <2>3, LocalStepPreserves
<1>5. CASE LocalStep(p, "run", Returns("Failed"))
    BY <1>1, <1>3, <1>5, ReportPreserves
<1>6. CASE LocalStep(p, "run", Returns("Indeterminate"))
    BY <1>1, <1>6, ReportPreserves
<1> QED BY <1>4, <1>5, <1>6 DEF CheckBeforeCas

\* An unchanged prestate names the parent, so p's object does not stand there.
LEMMA ClassifyCasRejectionPreserves ==
    ASSUME BrokerInv, NEW p \in Proposals, ClassifyCasRejection(p)
    PROVE  BrokerInv'
<1>1. At(p, "rejected") /\ NothingInstalled /\ "rejected" \in Steps
    BY DEF ClassifyCasRejection, Steps
<1>2. IsPromotion(p) /\ Phase(p) = "Executing"
    BY <1>1, InsideHandler DEF Preparation
<1>3. CASE StateOf(p) = record[p].expected /\ LocalStep(p, "rejected", Returns("Failed"))
  <2>1. StateOf(p).object = Parent[p] /\ Parent[p] # New[p]
      BY <1>2, <1>3, ProposalsAssumption
         DEF BrokerInv, PrestateBound, IsPromotion, Phase, Submitted
  <2>2. p \notin standing
      BY <1>2, <2>1 DEF BrokerInv, StandingShown
  <2> QED BY <1>1, <1>3, <2>2, ReportPreserves
<1>4. CASE LocalStep(p, "rejected", Returns("Indeterminate"))
    BY <1>1, <1>4, ReportPreserves
<1> QED BY <1>3, <1>4 DEF ClassifyCasRejection

LEMMA ReadBackPreserves ==
    ASSUME BrokerInv, NEW p \in Proposals, ReadBack(p)
    PROVE  BrokerInv'
<1>1. At(p, "readBack") /\ NothingInstalled /\ "readBack" \in Steps
    BY DEF ReadBack, Steps
<1>2. /\ handler \in Handlers /\ handler.proposal = p /\ mode = "up"
      /\ Phase(p) = "Executing" /\ record[p].steps = 0 /\ installs[p] = 1
      /\ IsPromotion(p)
    BY <1>1, InsideHandler DEF Preparation, Reporting
<1> DEFINE next == [Returns("Succeeded") EXCEPT !.poststate = StateOf(p)]
<1>3. CASE LocalStep(p, "readBack", next)
  <2>1. StateOf(p) \in PointerStates /\ StateOf(p) # NoState
      BY <1>2, StateTypes DEF BrokerInv
  <2>2. next \in Handlers
      BY <1>2, <2>1, HandlerMoves DEF Outcomes
  <2>3. /\ next.proposal = p /\ next.at = "stepTerminal" /\ next.outcome = "Succeeded"
        /\ next.poststate = StateOf(p)
      BY <1>2 DEF Returns, Handlers
  <2>4. handler' = next /\ UNCHANGED <<record, mode, installs, standing>>
      BY <1>1, <1>3 DEF LocalStep, NothingInstalled
  <2> HIDE DEF next
  <2>5. HandlerCoherent'
      BY <1>2, <2>1, <2>3, <2>4
         DEF HandlerCoherent, Phase, Preparation, Reporting, IsPromotion, Outcomes
  <2> QED BY <1>1, <1>3, <2>2, <2>3, <2>5, LocalStepPreserves
<1>4. CASE LocalStep(p, "readBack", Returns("Indeterminate"))
    BY <1>1, <1>4, ReportPreserves
<1> QED BY <1>3, <1>4 DEF ReadBack

LEMMA ExecuteFilePreserves ==
    ASSUME BrokerInv, NEW p \in Proposals, ExecuteFile(p)
    PROVE  BrokerInv'
<1>1. At(p, "run") /\ ~IsPromotion(p) /\ "run" \in Steps
    BY DEF ExecuteFile, LocalStep, Steps
<1>2. /\ handler \in Handlers /\ handler.proposal = p /\ mode = "up"
      /\ Phase(p) = "Executing" /\ record[p].steps = 0 /\ installs[p] = 0
      /\ handler.poststate = NoState
    BY <1>1, InsideHandler DEF Preparation, Reporting
<1>3. p \notin standing
    BY <1>2 DEF BrokerInv, StandingShown
<1>4. New[p] \in FileStates
    BY <1>1, ProposalsAssumption DEF IsPromotion, Proposals, FileStates
<1>5. ASSUME NEW outcome \in {"Succeeded", "Indeterminate"}, Install(p, New[p]),
             LocalStep(p, "run", Returns(outcome))
      PROVE  BrokerInv'
  <2>1. Returns(outcome) \in Handlers /\ Returns(outcome).proposal = p
      BY <1>2, HandlerMoves DEF Returns, Handlers, Outcomes
  <2>2. handler' = Returns(outcome) /\ UNCHANGED <<record, mode>> /\ installs'[p] = 1
      BY <1>2, <1>5 DEF LocalStep, Install, BrokerInv, TypeOK
  <2>3. HandlerCoherent'
      BY <1>1, <1>2, <2>2
         DEF HandlerCoherent, Returns, Handlers, Phase, Preparation, Reporting, Outcomes,
             IsPromotion
  <2> QED BY <1>1, <1>4, <1>5, <2>1, <2>3, InstallPreserves
<1>6. CASE NothingInstalled /\ LocalStep(p, "run", Returns("Failed"))
    BY <1>3, <1>6, ReportPreserves
<1>7. CASE NothingInstalled /\ LocalStep(p, "run", Returns("Indeterminate"))
    BY <1>7, ReportPreserves
<1> QED BY <1>5, <1>6, <1>7 DEF ExecuteFile

LEMMA UpdateRefPreserves ==
    ASSUME BrokerInv, NEW p \in Proposals, UpdateRef(p)
    PROVE  BrokerInv'
<1>1. At(p, "cas") /\ {"cas", "readBack", "rejected"} \subseteq Steps
    BY DEF UpdateRef, Steps
<1>2. /\ handler \in Handlers /\ handler.proposal = p /\ mode = "up" /\ IsPromotion(p)
      /\ Phase(p) = "Executing" /\ record[p].steps = 0 /\ installs[p] = 0
      /\ handler.poststate = NoState
    BY <1>1, InsideHandler DEF Preparation, Reporting
<1>3. p \notin standing
    BY <1>2 DEF BrokerInv, StandingShown
<1>4. ASSUME NEW next \in {Goto("readBack"), Goto("rejected"), Returns("Indeterminate")},
             CasInstalls(p), LocalStep(p, "cas", next)
      PROVE  BrokerInv'
  <2>1. PICK i \in Inodes : Install(p, [StateOf(p) EXCEPT !.object = New[p], !.inode = i])
      BY <1>4 DEF CasInstalls
  <2> DEFINE s == [StateOf(p) EXCEPT !.object = New[p], !.inode = i]
  <2>2. StateOf(p) \in PointerStates /\ New[p] \in Objects
      BY <1>2, StateTypes, ProposalsAssumption DEF BrokerInv, IsPromotion
  <2>3. s \in PointerStates /\ s.object = New[p]
      BY <2>2 DEF PointerStates
  <2>4. next \in Handlers /\ next.proposal = p
      BY <1>1, <1>2, HandlerMoves DEF Goto, Returns, Handlers, Outcomes
  <2>5. handler' = next /\ UNCHANGED <<record, mode>> /\ installs'[p] = 1
      BY <1>2, <1>4, <2>1 DEF LocalStep, Install, BrokerInv, TypeOK
  <2>6. HandlerCoherent'
      BY <1>2, <2>5, ZenonT(60)
         DEF HandlerCoherent, Goto, Returns, Handlers, Phase, Preparation, Reporting, Outcomes,
             IsPromotion
  <2> HIDE DEF s
  <2> QED BY <1>1, <1>2, <1>4, <2>1, <2>3, <2>4, <2>6, InstallPreserves DEF s
<1>5. CASE NothingInstalled /\ LocalStep(p, "cas", Returns("Failed"))
    BY <1>3, <1>5, ReportPreserves
<1>6. CASE NothingInstalled /\ LocalStep(p, "cas", Returns("Indeterminate"))
    BY <1>6, ReportPreserves
<1>7. CASE NothingInstalled /\ LocalStep(p, "cas", Goto("rejected"))
  <2>1. Goto("rejected") \in Handlers /\ Goto("rejected").proposal = p
      BY <1>1, <1>2, HandlerMoves DEF Goto, Handlers
  <2>2. handler' = Goto("rejected") /\ UNCHANGED <<record, mode, installs, standing>>
      BY <1>7 DEF LocalStep, NothingInstalled
  <2>3. HandlerCoherent'
      BY <1>2, <2>2
         DEF HandlerCoherent, Goto, Handlers, Phase, Preparation, Reporting, IsPromotion
  <2> QED BY <1>1, <1>7, <2>1, <2>3, LocalStepPreserves
<1> QED BY <1>4, <1>5, <1>6, <1>7 DEF UpdateRef

-----------------------------------------------------------------------------
(* Recovery at startup *)

\* No handler runs while the daemon recovers.
LEMMA RecoverPreserves ==
    ASSUME BrokerInv, NEW p \in Proposals, NEW r \in Records, Recover(p, r),
           Phase(p) \in InFlight, r.phase \in {"Failed", "ReconciliationRequired"},
           r.expected = record[p].expected,
           record' = [record EXCEPT ![p] = r] => RecordValid(p)',
           record[p].attempt => r.attempt,
           r.phase = "Failed" => p \notin standing
    PROVE  BrokerInv'
<1>1. /\ mode = "recovering" /\ Persist(p, r)
      /\ UNCHANGED <<cut, mode, activated, challenge, handler, draft, world, now,
                     installs, standing, orphaned>>
    BY DEF Recover
<1>2. record' = [record EXCEPT ![p] = r]
    BY <1>1, PersistType DEF BrokerInv
<1>3. TypeOK'
    BY <1>1, PersistType DEF BrokerInv, TypeOK
<1>4. RecordParts'
    BY <1>1, <1>2, AdvanceRecord
<1>5. HandlerCoherent' /\ RestartSettles'
    BY <1>1 DEF BrokerInv, HandlerCoherent, RestartSettles
<1> QED BY <1>3, <1>4, <1>5 DEF BrokerInv, RecordParts

LEMMA RecoveryPreserves ==
    ASSUME BrokerInv, NEW p \in Proposals, Recovery(p)
    PROVE  BrokerInv'
<1>1. record \in [Proposals -> Records] /\ record[p] \in Records /\ RecordValid(p)
      /\ (p \in standing => installs[p] = 1)
    BY DEF BrokerInv, TypeOK, RecordsValid, StandingShown
<1>2. Phase(p) \in {"AuthorizationBurned", "Preparing"} => p \notin standing
    BY <1>1 DEF BrokerInv, BurnBeforeEffect, Terminal
<1>3. CASE RecoverBurned(p)
  <2> DEFINE r == [record[p] EXCEPT !.phase = "Failed", !.receipt = "Abandoned"]
  <2>1. r \in Records
      BY <1>1, WrittenNames, ZenonT(60) DEF Records
  <2>2. Phase(p) = "AuthorizationBurned" /\ Recover(p, r)
      BY <1>3 DEF RecoverBurned
  <2>3. record' = [record EXCEPT ![p] = r] => RecordValid(p)'
      BY <1>1, <2>2 DEF RecordValid, Phase, Records, Spent, Unresolved, InFlight, Terminal
  <2> QED BY <1>1, <1>2, <2>1, <2>2, <2>3, RecoverPreserves, ZenonT(60) DEF InFlight, Records
<1>4. CASE RecoverUnchanged(p)
  <2> DEFINE r == [record[p] EXCEPT !.phase = "Failed", !.steps = @ + 1, !.receipt = "Failed"]
  <2>1. r \in Records
      BY <1>1, WrittenNames, StepReceiptType
  <2>2. Phase(p) = "Preparing" /\ Recover(p, r)
      BY <1>4 DEF RecoverUnchanged
  <2>3. record' = [record EXCEPT ![p] = r] => RecordValid(p)'
      BY <1>1, <2>2 DEF RecordValid, Phase, Records, Spent, Unresolved, InFlight, Terminal
  <2> QED BY <1>1, <1>2, <2>1, <2>2, <2>3, RecoverPreserves, ZenonT(60) DEF InFlight, Records
<1>5. CASE RecoverUnproven(p)
  <2> DEFINE r == [record[p] EXCEPT !.phase = "ReconciliationRequired",
                                    !.steps = @ + 1, !.receipt = "Indeterminate"]
  <2>1. r \in Records
      BY <1>1, WrittenNames, StepReceiptType
  <2>2. Phase(p) = "Preparing" /\ Recover(p, r)
      BY <1>5 DEF RecoverUnproven
  <2>3. record' = [record EXCEPT ![p] = r] => RecordValid(p)'
      BY <1>1, <2>2 DEF RecordValid, Phase, Records, Spent, Unresolved, InFlight, Terminal
  <2> QED BY <1>1, <2>1, <2>2, <2>3, RecoverPreserves DEF InFlight, Records
<1>6. CASE RecoverExecuting(p)
  <2> DEFINE r == [record[p] EXCEPT !.phase = "ReconciliationRequired", !.receipt = "Restart"]
  <2>1. r \in Records
      BY <1>1, WrittenNames, ZenonT(60) DEF Records
  <2>2. Phase(p) = "Executing" /\ Recover(p, r)
      BY <1>6 DEF RecoverExecuting
  <2>3. record' = [record EXCEPT ![p] = r] => RecordValid(p)'
      BY <1>1, <2>2 DEF RecordValid, Phase, Records, Spent, Unresolved, InFlight, Terminal
  <2> QED BY <1>1, <2>1, <2>2, <2>3, RecoverPreserves, ZenonT(60) DEF InFlight, Records
<1> QED BY <1>3, <1>4, <1>5, <1>6 DEF Recovery

-----------------------------------------------------------------------------
(* Ratification and reconciliation *)

\* A proposal whose authority is unspent has had no effect.
LEMMA NotYetRun ==
    ASSUME BrokerInv, NEW p \in Proposals, Phase(p) \in {"Unknown", "Ready"}
    PROVE  installs[p] = 0 /\ p \notin standing
<1>1. installs[p] \in Nat /\ (installs[p] = 1 => Phase(p) \notin {"Unknown", "Ready"}) /\ installs[p] <= 1
    BY DEF BrokerInv, TypeOK, BurnBeforeEffect, Terminal
<1>2. p \in standing => installs[p] = 1
    BY DEF BrokerInv, StandingShown
<1> QED BY <1>1, <1>2

\* The gate that a burn passes: no other promotion is unresolved.
LEMMA BurnAuthorizationPreserves ==
    ASSUME BrokerInv, NEW p \in Proposals, BurnAuthorization(p)
    PROVE  BrokerInv'
<1> DEFINE r == [record[p] EXCEPT !.phase = "AuthorizationBurned", !.authorized = TRUE]
           next == [Idle EXCEPT !.proposal = p, !.at = "begin"]
<1>1. /\ mode = "up" /\ handler = Idle /\ HistoryResolved /\ Phase(p) = "Ready"
      /\ Persist(p, r) /\ handler' = next
      /\ challenge' = [challenge EXCEPT ![p] = NoChallenge]
      /\ UNCHANGED <<cut, mode, activated, draft, world, now, installs, standing, orphaned>>
    BY DEF BurnAuthorization, TakeChallenge, Free, AuthorityActivated, ActivationsCurrent,
           Ratifiable
<1>2. record[p] \in Records /\ RecordValid(p) /\ (p \in standing => installs[p] = 1)
    BY DEF BrokerInv, TypeOK, RecordsValid, StandingShown
<1>3. installs[p] = 0 /\ p \notin standing
    BY <1>1, NotYetRun
<1>4. r \in Records
    BY <1>2, WrittenNames, ZenonT(60) DEF Records
<1>5. next \in Handlers /\ next.proposal = p /\ next.at = "begin" /\ next.poststate = NoState
    BY ZenonT(60) DEF Idle, Handlers, Steps, None, Outcomes
<1>6. record' = [record EXCEPT ![p] = r] /\ record \in [Proposals -> Records]
    BY <1>1, <1>4, PersistType DEF BrokerInv, TypeOK
<1>7. TypeOK'
    BY <1>1, <1>4, <1>5, PersistType DEF BrokerInv, TypeOK
<1>8. RecordsValid'
  <2>1. RecordValid(p)'
      BY <1>1, <1>2, <1>6 DEF RecordValid, Phase, Records, Spent, Unresolved, InFlight, Terminal
  <2> QED BY <1>6, <2>1, OthersValid DEF BrokerInv
<1>9. BurnBeforeEffect' /\ VerdictsTruthful'
    BY <1>1, <1>3, <1>6 DEF BrokerInv, BurnBeforeEffect, VerdictsTruthful, Phase, Classify, Records
<1>10. OneUnresolvedPromotion'
    BY <1>1, <1>6 DEF BrokerInv, OneUnresolvedPromotion, HistoryResolved, Phase, Proposals
<1>11. PrestateBound'
    BY <1>1, <1>2, <1>6 DEF BrokerInv, PrestateBound, Phase, Submitted, Proposals, Records
<1>12. StandingShown'
    BY <1>1 DEF BrokerInv, StandingShown, StateOf
<1>13. DraftCoherent'
    BY <1>1, <1>6 DEF BrokerInv, DraftCoherent, Phase, Classify, TypeOK, NoDraft
<1>14. record'[p].phase = "AuthorizationBurned" /\ record'[p].steps = 0
    BY <1>1, <1>2, <1>6 DEF RecordValid, Phase, Records, Spent, Unresolved, InFlight, Terminal
<1> HIDE DEF r, next
<1>15. RestartSettles'
    BY <1>1, <1>5, <1>6, ProposalsAssumption DEF BrokerInv, RestartSettles, Phase, Idle
<1>16. HandlerCoherent'
    BY <1>1, <1>3, <1>5, <1>14 DEF HandlerCoherent, Phase, Preparation, Reporting
<1> QED BY <1>7, <1>8, <1>9, <1>10, <1>11, <1>12, <1>13, <1>15, <1>16 DEF BrokerInv

LEMMA RecordPromotionRefusalPreserves ==
    ASSUME BrokerInv, NEW p \in Proposals, RecordPromotionRefusal(p)
    PROVE  BrokerInv'
<1> DEFINE r == [record[p] EXCEPT !.refusals = IF @ < MaxRefusals THEN @ + 1 ELSE @]
<1>1. /\ Phase(p) = "Ready" /\ Persist(p, r)
      /\ challenge' = [challenge EXCEPT ![p] = NoChallenge]
      /\ UNCHANGED <<cut, mode, activated, draft, world, now, handler, installs, standing, orphaned>>
    BY DEF RecordPromotionRefusal, TakeChallenge, Ratifiable
<1>2. record[p] \in Records /\ RecordValid(p) /\ MaxRefusals \in Nat
    BY BoundsAssumption DEF BrokerInv, TypeOK, RecordsValid
<1>3. r \in Records
    BY <1>2 DEF Records
<1>4. record' = [record EXCEPT ![p] = r] /\ record \in [Proposals -> Records]
    BY <1>1, <1>3, PersistType DEF BrokerInv, TypeOK
<1>5. TypeOK'
    BY <1>1, <1>3, PersistType DEF BrokerInv, TypeOK
<1>6. RecordsValid'
  <2>1. RecordValid(p)'
      BY <1>1, <1>2, <1>4 DEF RecordValid, Phase, Records, Spent, Unresolved, InFlight, Terminal
  <2> QED BY <1>4, <2>1, OthersValid DEF BrokerInv
<1>7. BurnBeforeEffect' /\ VerdictsTruthful'
    BY <1>1, <1>4 DEF BrokerInv, BurnBeforeEffect, VerdictsTruthful, Phase, Classify, Records
<1>8. OneUnresolvedPromotion' /\ PrestateBound'
    BY <1>1, <1>4 DEF BrokerInv, OneUnresolvedPromotion, PrestateBound, Phase, Proposals, Records
<1>9. StandingShown' /\ DraftCoherent'
    BY <1>1, <1>4 DEF BrokerInv, StandingShown, StateOf, DraftCoherent, Phase, Classify, TypeOK,
                      NoDraft, Records
<1>10. RestartSettles'
    BY <1>1, <1>4 DEF BrokerInv, RestartSettles, Phase, Records
<1>11. HandlerCoherent'
    BY <1>1, <1>4 DEF BrokerInv, HandlerCoherent, Phase, Records, TypeOK, Handlers
<1> QED BY <1>5, <1>6, <1>7, <1>8, <1>9, <1>10, <1>11 DEF BrokerInv

\* A reconciliation that finds the prestate finds nothing of p standing.
LEMMA ReconcilePreserves ==
    ASSUME BrokerInv, NEW p \in Proposals, Reconcile(p)
    PROVE  BrokerInv'
<1> DEFINE r == [record[p] EXCEPT !.phase = "Reconciled", !.receipt = "Reconciliation",
                                  !.observed = draft.observed]
<1>1. /\ Phase(p) = "ReconciliationRequired" /\ handler = Idle
      /\ draft.proposal = p /\ draft.observed = StateOf(p)
      /\ Persist(p, r) /\ draft' = NoDraft
      /\ UNCHANGED <<cut, mode, activated, challenge, handler, world, now, installs, standing, orphaned>>
    BY DEF Reconcile, Free
<1>2. record[p] \in Records /\ RecordValid(p)
    BY DEF BrokerInv, TypeOK, RecordsValid
<1>3. draft # NoDraft /\ draft.observed \in States /\ draft.observed # NoState
    BY <1>1, ProposalsAssumption, StatesAssumption DEF BrokerInv, TypeOK, NoDraft
<1>4. Classify(p, draft.observed) # "Unresolved"
    BY <1>1, <1>3 DEF BrokerInv, DraftCoherent
<1>5. Classify(p, draft.observed) = "NotApplied" => p \notin standing
  <2>1. CASE IsPromotion(p)
    <3>1. record[p].expected.object = Parent[p] /\ Parent[p] # New[p]
        BY <1>1, <2>1, ProposalsAssumption DEF BrokerInv, PrestateBound, IsPromotion, Phase, Submitted
    <3> QED BY <1>1, <2>1, <3>1 DEF BrokerInv, StandingShown, Classify
  <2>2. CASE ~IsPromotion(p)
      BY <1>1, <2>2 DEF BrokerInv, StandingShown, Classify
  <2> QED BY <2>1, <2>2
<1>6. r \in Records
    BY <1>2, <1>3, WrittenNames, ZenonT(60) DEF Records
<1>7. record' = [record EXCEPT ![p] = r] /\ record \in [Proposals -> Records]
    BY <1>1, <1>6, PersistType DEF BrokerInv, TypeOK
<1>8. TypeOK'
    BY <1>1, <1>6, PersistType DEF BrokerInv, TypeOK
<1>9. r.expected = record[p].expected /\ r.observed = draft.observed /\ r.phase = "Reconciled"
    BY <1>2 DEF Records
<1>10. RecordsValid'
  <2>1. Classify(p, record[p].observed)' # "Unresolved"
      BY <1>4, <1>7, <1>9 DEF Classify
  <2>2. RecordValid(p)'
      BY <1>1, <1>2, <1>3, <1>7, <2>1
         DEF RecordValid, Phase, Records, Spent, Unresolved, InFlight, Terminal
  <2> QED BY <1>7, <2>2, OthersValid DEF BrokerInv
<1>11. BurnBeforeEffect'
    BY <1>1, <1>2, <1>7 DEF BrokerInv, BurnBeforeEffect, Phase, Records, Terminal
<1>12. VerdictsTruthful'
    BY <1>5, <1>1, <1>7, <1>9 DEF BrokerInv, VerdictsTruthful, Phase, Classify
<1>13. OneUnresolvedPromotion' /\ PrestateBound'
    BY <1>1, <1>7 DEF BrokerInv, OneUnresolvedPromotion, PrestateBound, Phase, Proposals, Records,
                      Unresolved, InFlight, Submitted
<1>14. StandingShown' /\ DraftCoherent'
    BY <1>1 DEF BrokerInv, StandingShown, StateOf, DraftCoherent
<1>15. RestartSettles' /\ HandlerCoherent'
    BY <1>1, <1>7 DEF BrokerInv, RestartSettles, HandlerCoherent, Phase, Records, InFlight
<1> QED BY <1>8, <1>10, <1>11, <1>12, <1>13, <1>14, <1>15 DEF BrokerInv

-----------------------------------------------------------------------------
(* Submission *)

\* A first record for p, written while no handler runs.
LEMMA FirstRecord ==
    ASSUME BrokerInv, NEW p \in Proposals, NEW r \in Records,
           record' = [record EXCEPT ![p] = r], Phase(p) = "Unknown", handler = Idle,
           r.phase \in {"Ready"} \cup Submitted,
           ~r.authorized, ~r.attempt, r.steps = 0, r.receipt = None, r.refusals = 0,
           r.activation = NoState,
           IsPromotion(p) /\ r.phase = "Ready" =>
              r.expected \in PointerStates /\ r.expected.object = Parent[p],
           UNCHANGED <<cut, mode, handler, draft, world, installs, standing, orphaned>>
    PROVE  RecordParts' /\ RestartSettles' /\ HandlerCoherent'
<1>1. record \in [Proposals -> Records] /\ record'[p] = r
    BY DEF BrokerInv, TypeOK
<1>2. \A q \in Proposals \ {p} : record'[q] = record[q]
    BY <1>1
<1>3. installs[p] = 0
    BY NotYetRun
<1>4. RecordsValid'
  <2>1. 0 <= MaxRefusals /\ r.phase \in {"Ready", "Refused", "Indeterminate"} /\ r.phase \notin Spent
      BY BoundsAssumption DEF Submitted, Spent, Unresolved, InFlight, Terminal
  <2>2. RecordValid(p)'
      BY <1>1, <2>1 DEF RecordValid, IsPromotion
  <2> QED BY <1>2, <2>2, OthersValid DEF BrokerInv
<1>5. BurnBeforeEffect'
    BY <1>2, <1>3 DEF BrokerInv, BurnBeforeEffect, Phase
<1>6. StandingShown'
    BY DEF BrokerInv, StandingShown, StateOf
<1>7. VerdictsTruthful'
    BY <1>1, <1>2 DEF BrokerInv, VerdictsTruthful, Phase, Classify, Submitted
<1>8. OneUnresolvedPromotion' /\ PrestateBound'
    BY <1>1, <1>2 DEF BrokerInv, OneUnresolvedPromotion, PrestateBound, Phase, Proposals, Submitted,
                      Unresolved, InFlight, IsPromotion
<1>9. DraftCoherent'
    BY <1>1, <1>2 DEF BrokerInv, DraftCoherent, Phase, Classify, TypeOK, NoDraft
<1>10. RestartSettles' /\ HandlerCoherent'
    BY <1>1, <1>2 DEF BrokerInv, RestartSettles, HandlerCoherent, Phase, Submitted, InFlight
<1> QED BY <1>4, <1>5, <1>6, <1>7, <1>8, <1>9, <1>10 DEF RecordParts

LEMMA SubmissionPreserves ==
    ASSUME BrokerInv, NEW p \in Proposals, Submission(p)
    PROVE  BrokerInv'
<1>1. handler = Idle /\ Phase(p) = "Unknown"
    BY DEF Submission, SubmitCanonical, SubmitRefused, SubmitIndeterminate, MaySubmit, Free
<1>2. record[p] \in Records /\ RecordValid(p) /\ record \in [Proposals -> Records]
    BY DEF BrokerInv, TypeOK, RecordsValid
<1>3. StateOf(p) \in States /\ (IsPromotion(p) => StateOf(p) \in PointerStates)
    BY StateTypes DEF BrokerInv
<1>4. CASE SubmitCanonical(p)
  <2> DEFINE e == IF IsPromotion(p) THEN now + PromotionTtl ELSE 0
             r == [NoRecord EXCEPT !.phase = "Ready", !.expected = StateOf(p), !.expires = e]
  <2>1. e \in Nat
      BY BoundsAssumption DEF BrokerInv, TypeOK
  <2>2. r \in Records
      BY <1>3, <2>1, WrittenNames, ZenonT(60) DEF NoRecord, Records, None, Receipts
  <2>3. Persist(p, r) /\ UNCHANGED <<cut, process, environment, history>>
      BY <1>4 DEF SubmitCanonical
  <2>4. record' = [record EXCEPT ![p] = r] /\ TypeOK'
      BY <2>2, <2>3, PersistType DEF BrokerInv, TypeOK
  <2>5. IsPromotion(p) => StateOf(p).object = Parent[p]
      BY <1>4 DEF SubmitCanonical, Compilable
  <2>6. /\ r.phase = "Ready" /\ ~r.authorized /\ ~r.attempt /\ r.steps = 0 /\ r.receipt = None
        /\ r.refusals = 0 /\ r.activation = NoState /\ r.expected = StateOf(p)
      BY DEF NoRecord
  <2> HIDE DEF r
  <2> QED BY <1>1, <1>3, <2>2, <2>3, <2>4, <2>5, <2>6, FirstRecord, ZenonT(60) DEF BrokerInv, RecordParts
<1>5. ASSUME NEW ph \in Submitted, record' = [record EXCEPT ![p] = [NoRecord EXCEPT !.phase = ph]],
             UNCHANGED <<precedes, cut, process, environment, history>>
      PROVE  BrokerInv'
  <2> DEFINE r == [NoRecord EXCEPT !.phase = ph]
  <2>1. r \in Records
      BY WrittenNames, ZenonT(60) DEF NoRecord, Records, None, Receipts, Submitted
  <2>2. TypeOK'
      BY <1>2, <1>5, <2>1 DEF BrokerInv, TypeOK
  <2>3. /\ r.phase = ph /\ ~r.authorized /\ ~r.attempt /\ r.steps = 0 /\ r.receipt = None
        /\ r.refusals = 0 /\ r.activation = NoState /\ r.phase # "Ready"
      BY DEF NoRecord, Submitted
  <2> HIDE DEF r
  <2>4. RecordParts' /\ RestartSettles' /\ HandlerCoherent'
      BY <1>1, <1>5, <2>1, <2>3, FirstRecord, Zenon DEF r
  <2> QED BY <2>2, <2>4 DEF BrokerInv, RecordParts
<1> QED BY <1>4, <1>5 DEF Submission, SubmitRefused, SubmitIndeterminate, Submitted

-----------------------------------------------------------------------------
(* Restarts, other writers and time *)

\* Inspecting, a failed ratification, and the clock.
LEMMA QuietPreserves ==
    ASSUME BrokerInv, TypeOK',
           UNCHANGED <<record, cut, mode, handler, draft, world, installs, standing, orphaned>>
    PROVE  BrokerInv'
<1>1. RestartSettles' /\ HandlerCoherent'
    BY DEF BrokerInv, RestartSettles, HandlerCoherent, Phase
<1> QED BY <1>1, RecordsUntouched DEF BrokerInv

LEMMA InspectProposalPreserves ==
    ASSUME BrokerInv, NEW p \in Proposals, InspectProposal(p) \/ RatifyInvalid(p)
    PROVE  BrokerInv'
<1>1. /\ UNCHANGED <<record, precedes, cut, mode, activated, handler, draft, world, now,
                     installs, standing, orphaned>>
      /\ \/ challenge' = [challenge EXCEPT ![p] = now + ChallengeTtl]
         \/ challenge' = [challenge EXCEPT ![p] = NoChallenge]
    BY DEF InspectProposal, RatifyInvalid, TakeChallenge
<1>2. now + ChallengeTtl \in Nat
    BY BoundsAssumption DEF BrokerInv, TypeOK
<1>3. challenge' \in [Proposals -> Nat \cup {NoChallenge}]
    BY <1>1, <1>2 DEF BrokerInv, TypeOK
<1>4. TypeOK'
    BY <1>1, <1>3 DEF BrokerInv, TypeOK
<1> QED BY <1>1, <1>4, QuietPreserves

LEMMA TickPreserves ==
    ASSUME BrokerInv, Tick \/ UNCHANGED vars
    PROVE  BrokerInv'
<1>1. TypeOK'
    BY DEF BrokerInv, TypeOK, Tick, vars
<1> QED BY <1>1, QuietPreserves DEF Tick, vars

LEMMA AppendFailsPreserves ==
    ASSUME BrokerInv, NEW p \in Proposals, AppendFails(p)
    PROVE  BrokerInv'
<1>1. TypeOK'
    BY DEF AppendFails, BrokerInv, TypeOK
<1>2. RestartSettles'
    BY DEF AppendFails, BrokerInv, RestartSettles, Phase
<1>3. HandlerCoherent'
    BY DEF AppendFails, HandlerCoherent
<1> QED BY <1>1, <1>2, <1>3, RecordsUntouched DEF AppendFails, BrokerInv

LEMMA DraftReconciliationPreserves ==
    ASSUME BrokerInv, NEW p \in Proposals, DraftReconciliation(p)
    PROVE  BrokerInv'
<1>1. StateOf(p) \in States
    BY StateTypes DEF BrokerInv
<1>2. TypeOK'
    BY <1>1 DEF DraftReconciliation, BrokerInv, TypeOK
<1>3. DraftCoherent'
    BY DEF DraftReconciliation, DraftCoherent, Phase, Classify, StateOf
<1>4. RestartSettles' /\ HandlerCoherent'
    BY DEF DraftReconciliation, BrokerInv, RestartSettles, HandlerCoherent, Phase
<1> QED BY <1>2, <1>3, <1>4, RecordsUntouched DEF DraftReconciliation, BrokerInv

\* A crash forgets the handler; startup and the end of recovery find none.
LEMMA RestartPreserves ==
    ASSUME BrokerInv, Crash \/ Startup \/ FinishStartup \/ ChangeCut
    PROVE  BrokerInv'
<1>1. UNCHANGED <<record, precedes, draft, world, now, installs, standing>>
    BY ZenonT(60) DEF Crash, Startup, FinishStartup, ChangeCut
<1>2. mode # "up" => handler = Idle
    BY DEF BrokerInv, HandlerCoherent
<1>3. TypeOK'
    BY <1>1, ZenonT(60) DEF Crash, Startup, FinishStartup, ChangeCut, BrokerInv, TypeOK
<1>4. HandlerCoherent'
    BY <1>2, ZenonT(60) DEF Crash, Startup, FinishStartup, ChangeCut, HandlerCoherent
<1>5. mode' = "up" /\ ~cut' => FinishStartup
  <2>1. Crash => mode' = "down"
      BY DEF Crash
  <2>2. Startup /\ mode' = "up" => cut'
      BY DEF Startup, BrokerInv, TypeOK
  <2>3. ChangeCut => mode' = "down"
      BY DEF ChangeCut
  <2> QED BY <2>1, <2>2, <2>3
<1>6. RestartSettles'
    BY <1>1, <1>5 DEF FinishStartup, RestartSettles, Phase
<1> QED BY <1>1, <1>3, <1>4, <1>6, RecordsUntouched DEF BrokerInv

\* Another writer ends what stood at its target.
LEMMA ExternalWritePreserves ==
    ASSUME BrokerInv, NEW t \in Targets, ExternalWrite(t)
    PROVE  BrokerInv'
<1>1. PICK s \in ForeignStates[t] : world' = [world EXCEPT ![t] = s]
    BY ZenonT(60) DEF ExternalWrite
<1>2. /\ standing' = {q \in standing : TargetOf[q] # t}
      /\ UNCHANGED <<record, precedes, cut, mode, activated, challenge, handler, draft, now,
                     installs, orphaned>>
    BY ZenonT(60) DEF ExternalWrite
<1>3. TypeOK'
  <2>1. (t \in PointerTargets => s \in PointerStates) /\ (t \in FileTargets => s \in FileStates)
      BY StatesAssumption
  <2>2. /\ world' \in [Targets -> States]
        /\ \A u \in PointerTargets : world'[u] \in PointerStates
        /\ \A u \in FileTargets : world'[u] \in FileStates
      BY <1>1, <2>1, TargetsAssumption DEF BrokerInv, TypeOK, Targets, States
  <2> QED BY <1>2, <2>2 DEF BrokerInv, TypeOK
<1>4. StandingShown'
  <2> SUFFICES ASSUME NEW q \in standing'
               PROVE  /\ installs'[q] = 1
                      /\ IF IsPromotion(q) THEN world'[TargetOf[q]].object = New[q]
                         ELSE world'[TargetOf[q]] = New[q]
      BY DEF StandingShown, StateOf
  <2>1. world'[TargetOf[q]] = world[TargetOf[q]]
      BY <1>1, <1>2, TargetTypes DEF BrokerInv, TypeOK
  <2> QED BY <1>2, <2>1 DEF BrokerInv, StandingShown, StateOf
<1>5. RecordsValid' /\ OneUnresolvedPromotion' /\ PrestateBound'
    BY <1>2, SameRecords
<1>6. BurnBeforeEffect' /\ VerdictsTruthful'
    BY <1>2 DEF BrokerInv, BurnBeforeEffect, VerdictsTruthful, Classify, Phase
<1>7. RestartSettles' /\ DraftCoherent'
    BY <1>2 DEF BrokerInv, RestartSettles, DraftCoherent, Classify, Phase
<1>8. HandlerCoherent'
    BY <1>2 DEF BrokerInv, HandlerCoherent, Phase
<1> QED BY <1>3, <1>4, <1>5, <1>6, <1>7, <1>8 DEF BrokerInv

-----------------------------------------------------------------------------
(* The theorems *)

LEMMA InitialStates == Init => BrokerInv
<1> SUFFICES ASSUME Init PROVE BrokerInv
    OBVIOUS
<1>1. NoRecord \in Records
    BY DEF NoRecord, Records, Phases, Receipts, None
<1>2. TypeOK
    BY <1>1, StatesAssumption DEF Init, TypeOK
<1>3. \A p \in Proposals :
          /\ installs[p] = 0
          /\ record[p].phase = "Unknown" /\ ~record[p].authorized /\ ~record[p].attempt
          /\ record[p].steps = 0 /\ record[p].receipt = None /\ record[p].refusals = 0
          /\ record[p].activation = NoState
    BY DEF Init, NoRecord
<1>4. RecordsValid
  <2> SUFFICES ASSUME NEW p \in Proposals PROVE RecordValid(p)
      BY DEF RecordsValid
  <2>1. 0 <= 1 /\ 0 <= MaxRefusals /\ "Unknown" \notin Spent /\ "Unknown" # "Succeeded"
      BY BoundsAssumption DEF Spent, Unresolved, InFlight, Terminal
  <2>2. record[p].steps <= 1 /\ record[p].refusals <= MaxRefusals
      BY <1>3, <2>1
  <2>3. (record[p].activation # NoState) <=> (IsPromotion(p) /\ record[p].phase = "Succeeded")
      BY <1>3, <2>1
  <2> QED BY <1>3, <2>1, <2>2, <2>3, ZenonT(60) DEF RecordValid
<1>5. BurnBeforeEffect /\ VerdictsTruthful
    BY <1>3 DEF BurnBeforeEffect, VerdictsTruthful, Phase
<1>6. OneUnresolvedPromotion /\ PrestateBound
    BY <1>3 DEF OneUnresolvedPromotion, PrestateBound, Phase, Unresolved, InFlight, Proposals
<1>7. RestartSettles /\ HandlerCoherent /\ StandingShown /\ DraftCoherent
    BY DEF Init, RestartSettles, HandlerCoherent, StandingShown, DraftCoherent
<1> QED BY <1>2, <1>4, <1>5, <1>6, <1>7 DEF BrokerInv

LEMMA InductiveStep == BrokerInv /\ [Next]_vars => BrokerInv'
<1> SUFFICES ASSUME BrokerInv, [Next]_vars PROVE BrokerInv'
    OBVIOUS
<1>1. ASSUME NEW p \in Proposals, Ratification(p) PROVE BrokerInv'
    BY <1>1, InspectProposalPreserves, RecordPromotionRefusalPreserves, BurnAuthorizationPreserves
       DEF Ratification
<1>2. ASSUME NEW p \in Proposals, Execution(p) PROVE BrokerInv'
    BY <1>2, BeginPreparationPreserves, PreparePreserves, FinishPreparationFailurePreserves,
       CommitMayProceedPreserves, CheckBeforeCasPreserves, UpdateRefPreserves,
       ClassifyCasRejectionPreserves, ReadBackPreserves, BeginExecutionPreserves,
       ExecuteFilePreserves, PersistStepReceiptPreserves, PersistTerminalPreserves
       DEF Execution
<1> QED BY <1>1, <1>2, SubmissionPreserves, AppendFailsPreserves, DraftReconciliationPreserves,
           ReconcilePreserves, RecoveryPreserves, RestartPreserves, ExternalWritePreserves,
           TickPreserves
        DEF Next

\* BrokerInv holds in every state the broker reaches.
THEOREM InvariantHolds == Spec => []BrokerInv
BY InitialStates, InductiveStep, PTL DEF Spec

\* Every variable keeps its type.
THEOREM TypeCorrect == Spec => []TypeOK
BY InvariantHolds, PTL DEF BrokerInv

\* For any number of proposals and targets, an effect happens at most once and
\* only after its authority and its attempt are durable.
THEOREM EffectsAreBurned == Spec => []BurnBeforeEffect
BY InvariantHolds, PTL DEF BrokerInv

\* What a terminal record says of its target is true.
THEOREM VerdictsAreTrue == Spec => []VerdictsTruthful
BY InvariantHolds, PTL DEF BrokerInv

\* No crash leaves a record that validate_proposal_record would reject.
THEOREM StoreStaysReadable == Spec => []RecordsValid
BY InvariantHolds, PTL DEF BrokerInv

\* At most one promotion is burned and unresolved.
THEOREM PromotionsAreSerial == Spec => []OneUnresolvedPromotion
BY InvariantHolds, PTL DEF BrokerInv

\* A broker that is up holds nothing in flight that it does not know about.
THEOREM RestartsSettle == Spec => []RestartSettles
BY InvariantHolds, PTL DEF BrokerInv

-----------------------------------------------------------------------------
(* What a step can do to a record *)

\* The ways in which p's record can become r.
Move(p, r) ==
    \/ Phase(p) = "Unknown" /\ r.phase \in {"Ready"} \cup Submitted /\ ~r.authorized
    \/ /\ Phase(p) = "Ready" /\ r.phase = "Ready" /\ ~r.authorized
       /\ r.expires = record[p].expires
    \/ /\ Phase(p) = "Ready" /\ r.phase = "AuthorizationBurned" /\ r.authorized
       /\ AuthorityActivated /\ ~Expired(p)
    \/ /\ Phase(p) \in InFlight /\ r.authorized
       /\ r.phase \in {"Preparing", "Executing", "Failed", "ReconciliationRequired"}
          \/ (r.phase = "Succeeded" /\ installs[p] = 1)
    \/ Phase(p) = "ReconciliationRequired" /\ r.phase = "Reconciled" /\ r.authorized

\* A step changes at most one record, in one of these ways.
Moves ==
    \/ UNCHANGED record
    \/ \E p \in Proposals : \E r : record' = [record EXCEPT ![p] = r] /\ Move(p, r)

LEMMA AppendMoves ==
    ASSUME NEW p \in Proposals, NEW r, record' = [record EXCEPT ![p] = r], Move(p, r)
    PROVE  Moves
BY ZenonT(60) DEF Moves

LEMMA EachMoves ==
    ASSUME BrokerInv, Moves, NEW p \in Proposals
    PROVE  record'[p] = record[p] \/ Move(p, record'[p])
<1>1. ASSUME UNCHANGED record PROVE record'[p] = record[p]
    BY <1>1
<1>2. ASSUME NEW q \in Proposals, NEW r, record' = [record EXCEPT ![q] = r], Move(q, r)
      PROVE  record'[p] = record[p] \/ Move(p, record'[p])
  <2>1. record'[p] = IF p = q THEN r ELSE record[p]
      BY <1>2 DEF BrokerInv, TypeOK
  <2> QED BY <1>2, <2>1
<1> QED BY <1>1, <1>2 DEF Moves

LEMMA StepMoves ==
    ASSUME BrokerInv, [Next]_vars
    PROVE  Moves
<1>1. record \in [Proposals -> Records]
    BY DEF BrokerInv, TypeOK
<1>2. \A p \in Proposals : (Phase(p) = "Ready" => ~record[p].authorized)
                           /\ (Phase(p) \in Spent => record[p].authorized)
    BY DEF BrokerInv, RecordsValid, RecordValid, Phase, Spent, Unresolved, InFlight, Terminal
<1>3. ASSUME UNCHANGED record PROVE Moves
    BY <1>3 DEF Moves
<1>4. ASSUME NEW p \in Proposals, Submission(p) PROVE Moves
  <2> DEFINE e == IF IsPromotion(p) THEN now + PromotionTtl ELSE 0
             ready == [NoRecord EXCEPT !.phase = "Ready", !.expected = StateOf(p), !.expires = e]
             ended(ph) == [NoRecord EXCEPT !.phase = ph]
  <2>1. Phase(p) = "Unknown"
      BY <1>4 DEF Submission, SubmitCanonical, SubmitRefused, SubmitIndeterminate, MaySubmit
  <2>2. /\ ready.phase = "Ready" /\ ~ready.authorized
        /\ \A ph \in Submitted : ended(ph).phase = ph /\ ~ended(ph).authorized
      BY DEF NoRecord
  <2>3. \/ record' = [record EXCEPT ![p] = ready]
        \/ \E ph \in Submitted : record' = [record EXCEPT ![p] = ended(ph)]
      BY <1>4 DEF Submission, SubmitCanonical, SubmitRefused, SubmitIndeterminate, Persist, Submitted
  <2> HIDE DEF ready, ended
  <2> QED BY <2>1, <2>2, <2>3, AppendMoves DEF Move
<1>5. ASSUME NEW p \in Proposals, Ratification(p) PROVE Moves
  <2>1. CASE InspectProposal(p) \/ RatifyInvalid(p)
      BY <1>3, <2>1 DEF InspectProposal, RatifyInvalid
  <2>2. CASE RecordPromotionRefusal(p)
    <3> DEFINE r == [record[p] EXCEPT !.refusals = IF @ < MaxRefusals THEN @ + 1 ELSE @]
    <3>1. record' = [record EXCEPT ![p] = r] /\ Phase(p) = "Ready"
        BY <2>2 DEF RecordPromotionRefusal, Ratifiable, Persist
    <3>2. r.phase = "Ready" /\ ~r.authorized /\ r.expires = record[p].expires
        BY <1>1, <1>2, <3>1 DEF Phase, Records
    <3> HIDE DEF r
    <3> QED BY <3>1, <3>2, AppendMoves, ZenonT(60) DEF Move
  <2>3. CASE BurnAuthorization(p)
    <3> DEFINE r == [record[p] EXCEPT !.phase = "AuthorizationBurned", !.authorized = TRUE]
    <3>1. record' = [record EXCEPT ![p] = r] /\ Phase(p) = "Ready"
          /\ AuthorityActivated /\ ~Expired(p)
        BY <2>3 DEF BurnAuthorization, TakeChallenge, Ratifiable, Persist
    <3>2. r.phase = "AuthorizationBurned" /\ r.authorized
        BY <1>1 DEF Records
    <3> HIDE DEF r
    <3> QED BY <3>1, <3>2, AppendMoves, ZenonT(60) DEF Move
  <2> QED BY <1>5, <2>1, <2>2, <2>3 DEF Ratification
<1>6. ASSUME NEW p \in Proposals, NEW step \in Steps, NEW r, NEW next, PersistStep(p, step, r, next),
             r.authorized = record[p].authorized,
             \/ r.phase \in {"Preparing", "Executing", "Failed", "ReconciliationRequired"}
             \/ r.phase = "Succeeded" /\ installs[p] = 1
      PROVE  Moves
  <2>1. At(p, step) /\ record' = [record EXCEPT ![p] = r]
      BY <1>6 DEF PersistStep, Persist
  <2>2. Phase(p) \in InFlight
      BY <2>1, InsideHandler DEF InFlight
  <2>3. record[p].authorized
      BY <1>2, <2>2 DEF Spent, Unresolved
  <2>4. Move(p, r)
      BY <1>6, <2>2, <2>3 DEF Move
  <2> QED BY <2>1, <2>4, AppendMoves, ZenonT(60)
<1>7. ASSUME NEW p \in Proposals, Execution(p) PROVE Moves
  <2>1. CASE \/ PrepareSucceeds(p) \/ PrepareFails(p) \/ CheckBeforeCas(p) \/ UpdateRef(p)
             \/ ClassifyCasRejection(p) \/ ReadBack(p) \/ ExecuteFile(p)
      BY <1>3, <2>1 DEF PrepareSucceeds, PrepareFails, CheckBeforeCas, UpdateRef, ClassifyCasRejection,
                        ReadBack, ExecuteFile, LocalStep
  <2>2. CASE BeginPreparation(p) \/ BeginExecution(p)
    <3> DEFINE r(ph) == [record[p] EXCEPT !.phase = ph, !.attempt = TRUE]
    <3>0. PICK ph \in {"Preparing", "Executing"} : \E next : PersistStep(p, "begin", r(ph), next)
        BY <2>2 DEF BeginPreparation, BeginExecution
    <3>1. PICK next : PersistStep(p, "begin", r(ph), next)
        BY <3>0
    <3>2. r(ph).authorized = record[p].authorized /\ r(ph).phase = ph
        BY <1>1 DEF Records
    <3> HIDE DEF r
    <3> QED BY <1>6, <3>1, <3>2 DEF Steps
  <2>3. CASE FinishPreparationFailure(p)
    <3> DEFINE r == [record[p] EXCEPT !.phase = "Failed", !.steps = @ + 1, !.receipt = "Failed"]
    <3>1. PersistStep(p, "preparationFailed", r, Idle)
        BY <2>3 DEF FinishPreparationFailure
    <3>2. r.authorized = record[p].authorized /\ r.phase = "Failed"
        BY <1>1 DEF Records
    <3> HIDE DEF r
    <3> QED BY <1>6, <3>1, <3>2 DEF Steps
  <2>4. CASE CommitMayProceed(p)
    <3>1. PICK r, next : /\ PersistStep(p, "arm", r, next)
                         /\ r.authorized = record[p].authorized /\ r.phase = "Executing"
        BY <1>1, <2>4 DEF CommitMayProceed, Records
    <3> QED BY <1>6, <3>1 DEF Steps
  <2>5. CASE PersistStepReceipt(p)
    <3>1. PICK r, next : /\ PersistStep(p, "stepTerminal", r, next)
                         /\ r.authorized = record[p].authorized /\ r.phase = Phase(p)
        BY <1>1, <2>5 DEF PersistStepReceipt, Records, Phase
    <3>2. Phase(p) = "Executing"
        BY <3>1, InsideHandler DEF PersistStep, Steps, Preparation
    <3> QED BY <1>6, <3>1, <3>2 DEF Steps
  <2>6. CASE PersistTerminal(p)
    <3> DEFINE ph == IF handler.outcome = "Indeterminate"
                     THEN "ReconciliationRequired" ELSE handler.outcome
               r == [record[p] EXCEPT !.phase = ph, !.receipt = handler.outcome,
                                      !.activation = handler.poststate]
    <3>1. PersistStep(p, "terminal", r, Idle)
        BY <2>6 DEF PersistTerminal
    <3>2. handler.outcome \in Outcomes /\ (handler.outcome = "Succeeded" => installs[p] = 1)
        BY <3>1, InsideHandler DEF PersistStep, Steps, Reporting
    <3>3. r.authorized = record[p].authorized /\ r.phase = ph
        BY <1>1 DEF Records
    <3>4. ph \in {"Failed", "ReconciliationRequired"} \/ (ph = "Succeeded" /\ installs[p] = 1)
        BY <3>2 DEF Outcomes
    <3> HIDE DEF r
    <3> QED BY <1>6, <3>1, <3>3, <3>4 DEF Steps
  <2> QED BY <1>7, <2>1, <2>2, <2>3, <2>4, <2>5, <2>6 DEF Execution
<1>8. ASSUME NEW p \in Proposals, Recovery(p) PROVE Moves
  <2> DEFINE abandoned(ph, rc) == [record[p] EXCEPT !.phase = ph, !.receipt = rc]
             stepped(ph, rc) == [record[p] EXCEPT !.phase = ph, !.steps = @ + 1, !.receipt = rc]
  <2>1. Phase(p) \in InFlight
      BY <1>8 DEF Recovery, RecoverBurned, RecoverUnchanged, RecoverUnproven, RecoverExecuting, InFlight
  <2>2. \E ph \in {"Failed", "ReconciliationRequired"}, rc \in Receipts :
            \/ record' = [record EXCEPT ![p] = abandoned(ph, rc)]
            \/ record' = [record EXCEPT ![p] = stepped(ph, rc)]
      BY <1>8, WrittenNames DEF Recovery, RecoverBurned, RecoverUnchanged, RecoverUnproven,
                                RecoverExecuting, Recover, Persist
  <2>3. \A ph, rc : /\ abandoned(ph, rc).phase = ph /\ stepped(ph, rc).phase = ph
                    /\ abandoned(ph, rc).authorized = record[p].authorized
                    /\ stepped(ph, rc).authorized = record[p].authorized
      BY <1>1 DEF Records
  <2> HIDE DEF abandoned, stepped
  <2> QED BY <1>2, <2>1, <2>2, <2>3, AppendMoves DEF Move, Spent, Unresolved
<1>9. ASSUME NEW p \in Proposals, Reconcile(p) PROVE Moves
  <2> DEFINE r == [record[p] EXCEPT !.phase = "Reconciled", !.receipt = "Reconciliation",
                                    !.observed = draft.observed]
  <2>1. record' = [record EXCEPT ![p] = r] /\ Phase(p) = "ReconciliationRequired"
      BY <1>9 DEF Reconcile, Persist
  <2>2. r.authorized = record[p].authorized /\ r.phase = "Reconciled"
      BY <1>1 DEF Records
  <2> HIDE DEF r
  <2> QED BY <1>2, <2>1, <2>2, AppendMoves, ZenonT(60) DEF Move, Spent, Unresolved
<1>10. ASSUME NEW p \in Proposals, AppendFails(p) \/ DraftReconciliation(p) PROVE Moves
    BY <1>3, <1>10 DEF AppendFails, DraftReconciliation
<1>11. CASE Startup \/ FinishStartup \/ Crash \/ ChangeCut \/ Tick \/ UNCHANGED vars
    BY <1>3, <1>11 DEF Startup, FinishStartup, Crash, ChangeCut, Tick, vars
<1>12. CASE \E t \in Targets : ExternalWrite(t)
    BY <1>3, <1>12 DEF ExternalWrite
<1> QED BY <1>4, <1>5, <1>7, <1>8, <1>9, <1>10, <1>11, <1>12 DEF Next

\* Authority once spent stays spent and terminal records never change.
THEOREM SpendingIsFinal == Spec => SpentForever
<1>1. BrokerInv /\ [Next]_vars =>
        [\A p \in Proposals :
          /\ Phase(p) \in Spent => record'[p].phase \in Spent /\ record'[p].authorized
          /\ Phase(p) \in InFlight \/ record'[p].phase \notin InFlight
                \/ record'[p].phase = "AuthorizationBurned"
          /\ Phase(p) \in Terminal => record'[p] = record[p]]_vars
  <2> SUFFICES ASSUME BrokerInv, [Next]_vars, NEW p \in Proposals
               PROVE  /\ Phase(p) \in Spent => record'[p].phase \in Spent /\ record'[p].authorized
                      /\ Phase(p) \in InFlight \/ record'[p].phase \notin InFlight
                            \/ record'[p].phase = "AuthorizationBurned"
                      /\ Phase(p) \in Terminal => record'[p] = record[p]
      OBVIOUS
  <2>1. Phase(p) \in Spent => record[p].authorized
      BY DEF BrokerInv, RecordsValid, RecordValid, Phase
  <2>2. record'[p] = record[p] \/ Move(p, record'[p])
      BY StepMoves, EachMoves
  <2> QED BY <2>1, <2>2 DEF Move, Phase, Spent, Unresolved, InFlight, Terminal, Submitted
<1> QED BY <1>1, InvariantHolds, PTL DEF Spec, SpentForever

\* The clock never goes back.
LEMMA StepTime ==
    ASSUME BrokerInv, [Next]_vars
    PROVE  now \in Nat /\ now' \in Nat /\ now' >= now
<1>1. now \in Nat
    BY DEF BrokerInv, TypeOK
<1>2. ASSUME NEW p \in Proposals, Execution(p) PROVE UNCHANGED now
    BY <1>2 DEF Execution, BeginPreparation, PrepareSucceeds, PrepareFails, FinishPreparationFailure,
                CommitMayProceed, CheckBeforeCas, UpdateRef, ClassifyCasRejection, ReadBack,
                BeginExecution, ExecuteFile, PersistStepReceipt, PersistTerminal, PersistStep, LocalStep
<1>3. ASSUME NEW p \in Proposals,
             Submission(p) \/ Ratification(p) \/ AppendFails(p) \/ DraftReconciliation(p)
                \/ Reconcile(p) \/ Recovery(p)
      PROVE  UNCHANGED now
    BY <1>3 DEF Submission, SubmitCanonical, SubmitRefused, SubmitIndeterminate, Ratification,
                InspectProposal, RatifyInvalid, RecordPromotionRefusal, BurnAuthorization,
                TakeChallenge, AppendFails, DraftReconciliation, Reconcile, Recovery, RecoverBurned,
                RecoverUnchanged, RecoverUnproven, RecoverExecuting, Recover
<1>4. ASSUME \/ Startup \/ FinishStartup \/ Crash \/ ChangeCut \/ UNCHANGED vars
             \/ \E t \in Targets : ExternalWrite(t)
      PROVE  UNCHANGED now
    BY <1>4, ZenonT(60) DEF Startup, FinishStartup, Crash, ChangeCut, vars, ExternalWrite
<1>5. UNCHANGED now \/ Tick
    BY <1>2, <1>3, <1>4 DEF Next
<1> QED BY <1>1, <1>5 DEF Tick

\* A Ready promotion whose deadline has passed keeps that deadline and is never
\* ratified, whatever its challenges, refusals and restarts.
THEOREM ExpiryIsFinal == Spec => ExpiredStaysUnspent
<1>1. BrokerInv /\ [Next]_vars =>
        [\A p \in Proposals :
          Phase(p) = "Ready" /\ Expired(p) => record'[p].phase = "Ready" /\ Expired(p)']_vars
  <2> SUFFICES ASSUME BrokerInv, [Next]_vars, NEW p \in Proposals, Phase(p) = "Ready", Expired(p)
               PROVE  record'[p].phase = "Ready" /\ Expired(p)'
      OBVIOUS
  <2>1. record'[p] = record[p] \/ Move(p, record'[p])
      BY StepMoves, EachMoves
  <2>2. record'[p].phase = "Ready" /\ record'[p].expires = record[p].expires
      BY <2>1 DEF Move, Phase, InFlight
  <2>3. record[p].expires \in Nat
      BY DEF BrokerInv, TypeOK, Records
  <2> QED BY <2>2, <2>3, StepTime DEF Expired, IsPromotion
<1> QED BY <1>1, InvariantHolds, PTL DEF Spec, ExpiredStaysUnspent

\* A promotion reconciled as Applied or Foreign ends all spending of authority.
THEOREM ForeignHistoryIsFinal == Spec => ForeignHistoryFreezes
<1>1. BrokerInv /\ [Next]_vars =>
        [(\E q \in PromotionProposals :
           Phase(q) = "Reconciled" /\ Classify(q, record[q].observed) # "NotApplied")
         => \A p \in Proposals : record'[p].authorized = record[p].authorized]_vars
  <2> SUFFICES ASSUME BrokerInv, [Next]_vars, NEW q \in PromotionProposals, NEW p \in Proposals,
                      Phase(q) = "Reconciled", Classify(q, record[q].observed) # "NotApplied"
               PROVE  record'[p].authorized = record[p].authorized
      OBVIOUS
  <2>1. ~AuthorityActivated
      BY DEF AuthorityActivated, ActivationsCurrent, HistoryResolved
  <2>2. record'[p] = record[p] \/ Move(p, record'[p])
      BY StepMoves, EachMoves
  <2>3. (record[p].authorized <=> Phase(p) \in Spent) /\ record[p].authorized \in BOOLEAN
      BY DEF BrokerInv, RecordsValid, RecordValid, Phase, TypeOK, Records
  <2>4. record'[p].authorized \in BOOLEAN
      BY InductiveStep DEF BrokerInv, TypeOK, Records
  <2> QED BY <2>1, <2>2, <2>3, <2>4
          DEF Move, Phase, Spent, Unresolved, InFlight, Terminal, Submitted
<1> QED BY <1>1, InvariantHolds, PTL DEF Spec, ForeignHistoryFreezes

-----------------------------------------------------------------------------
(* The broker implements the one-shot protocol *)

\* Effects come only from an executing attempt that has had none.
LEMMA StepEffects ==
    ASSUME BrokerInv, [Next]_vars
    PROVE  \/ UNCHANGED installs
           \/ \E p \in Proposals :
                 /\ Phase(p) = "Executing" /\ installs[p] = 0
                 /\ installs' = [installs EXCEPT ![p] = 1] /\ UNCHANGED record
<1>1. ASSUME NEW p \in Proposals, NEW step \in {"run", "cas"}, NEW s, NEW next,
             LocalStep(p, step, next), Install(p, s)
      PROVE  /\ Phase(p) = "Executing" /\ installs[p] = 0
             /\ installs' = [installs EXCEPT ![p] = 1] /\ UNCHANGED record
  <2>1. Phase(p) = "Executing" /\ installs[p] = 0
      BY <1>1, InsideHandler DEF LocalStep, Steps, Preparation, Reporting
  <2> QED BY <1>1, <2>1 DEF LocalStep, Install
<1>2. ASSUME NEW p \in Proposals, UpdateRef(p) \/ ExecuteFile(p), ~UNCHANGED installs
      PROVE  \E s, next : \E step \in {"run", "cas"} : LocalStep(p, step, next) /\ Install(p, s)
    BY <1>2 DEF UpdateRef, ExecuteFile, NothingInstalled, CasInstalls
<1>3. ASSUME NEW p \in Proposals, Execution(p), ~UpdateRef(p), ~ExecuteFile(p)
      PROVE  UNCHANGED installs
    BY <1>3 DEF Execution, BeginPreparation, PrepareSucceeds, PrepareFails, FinishPreparationFailure,
                CommitMayProceed, CheckBeforeCas, ClassifyCasRejection, ReadBack, BeginExecution,
                PersistStepReceipt, PersistTerminal, PersistStep, NothingInstalled
<1>4. ASSUME NEW p \in Proposals,
             Submission(p) \/ Ratification(p) \/ AppendFails(p) \/ DraftReconciliation(p)
                \/ Reconcile(p) \/ Recovery(p)
      PROVE  UNCHANGED installs
    BY <1>4 DEF Submission, SubmitCanonical, SubmitRefused, SubmitIndeterminate, Ratification,
                InspectProposal, RatifyInvalid, RecordPromotionRefusal, BurnAuthorization, AppendFails,
                DraftReconciliation, Reconcile, Recovery, RecoverBurned, RecoverUnchanged,
                RecoverUnproven, RecoverExecuting, Recover
<1>5. CASE Startup \/ FinishStartup \/ Crash \/ ChangeCut \/ Tick \/ UNCHANGED vars
              \/ (\E t \in Targets : ExternalWrite(t))
    BY <1>5, ZenonT(60) DEF Startup, FinishStartup, Crash, ChangeCut, Tick, vars, ExternalWrite
<1> QED BY <1>1, <1>2, <1>3, <1>4, <1>5 DEF Next

\* The refinement mapping's functions.
Authority == [p \in Proposals |-> AuthorityOf(p)]
Account == [p \in Proposals |-> AccountOf(p)]

\* A change of one record maps to a step of the protocol or to a stutter.
LEMMA MoveRefines ==
    ASSUME BrokerInv, NEW p \in Proposals, NEW r, record' = [record EXCEPT ![p] = r], Move(p, r),
           UNCHANGED installs
    PROVE  [Protocol!Next]_(Protocol!vars)
<1>1. record \in [Proposals -> Records] /\ record'[p] = r
    BY DEF BrokerInv, TypeOK
<1>2. \A q \in Proposals \ {p} : record'[q] = record[q]
    BY <1>1
<1>3. /\ Authority' = [Authority EXCEPT ![p] = AuthorityOf(p)']
      /\ Account' = [Account EXCEPT ![p] = AccountOf(p)']
  <2>1. \A q \in Proposals \ {p} : AuthorityOf(q)' = AuthorityOf(q) /\ AccountOf(q)' = AccountOf(q)
      BY <1>2 DEF AuthorityOf, AccountOf, Phase
  <2> QED BY <2>1, ZenonT(60) DEF Authority, Account
<1>4. Authority[p] = AuthorityOf(p) /\ Account[p] = AccountOf(p)
    BY DEF Authority, Account
<1>5. CASE Phase(p) = "Unknown" /\ r.phase = "Ready"
  <2>1. /\ Authority[p] = "none" /\ Authority' = [Authority EXCEPT ![p] = "offered"]
        /\ Account' = Account
      BY <1>1, <1>3, <1>4, <1>5 DEF AuthorityOf, AccountOf, Phase, Submitted, Account
  <2>2. Protocol!Offer(p)
      BY <2>1 DEF Protocol!Offer, Authority, Account
  <2> QED BY <2>2 DEF Protocol!Next
<1>6. CASE \/ Phase(p) = "Unknown" /\ r.phase \in Submitted
           \/ Phase(p) = "Ready" /\ r.phase = "Ready"
           \/ Phase(p) \in InFlight /\ r.phase \in {"Preparing", "Executing"}
  <2>1. Authority' = Authority /\ Account' = Account
      BY <1>1, <1>3, <1>4, <1>6 DEF AuthorityOf, AccountOf, Phase, Submitted, InFlight, Account, Authority
  <2> QED BY <2>1 DEF Protocol!vars, Authority, Account
<1>7. CASE Phase(p) = "Ready" /\ r.phase = "AuthorizationBurned"
  <2>1. /\ Authority[p] = "offered" /\ Authority' = [Authority EXCEPT ![p] = "spent"]
        /\ Account' = Account
      BY <1>1, <1>3, <1>4, <1>7 DEF AuthorityOf, AccountOf, Phase, Submitted, Account
  <2>2. Protocol!Spend(p)
      BY <2>1 DEF Protocol!Spend, Authority, Account
  <2> QED BY <2>2 DEF Protocol!Next
<1>8. CASE /\ Phase(p) \in InFlight
           /\ \/ r.phase \in {"Failed", "ReconciliationRequired"}
              \/ r.phase = "Succeeded" /\ installs[p] = 1
  <2>1. /\ Authority[p] = "spent" /\ Account[p] = "open" /\ Authority' = Authority
        /\ Account' = [Account EXCEPT ![p] = r.phase]
      BY <1>1, <1>3, <1>4, <1>8, ZenonT(60) DEF AuthorityOf, AccountOf, Phase, Submitted, InFlight, Authority
  <2>2. Protocol!Conclude(p, r.phase) /\ r.phase \in Protocol!Verdicts
      BY <1>8, <2>1 DEF Protocol!Conclude, Protocol!Verdicts, Authority, Account
  <2> QED BY <2>2 DEF Protocol!Next
<1>9. CASE Phase(p) = "ReconciliationRequired" /\ r.phase = "Reconciled"
  <2>1. /\ Account[p] = "ReconciliationRequired" /\ Authority' = Authority
        /\ Account' = [Account EXCEPT ![p] = "Reconciled"]
      BY <1>1, <1>3, <1>4, <1>9 DEF AuthorityOf, AccountOf, Phase, Submitted, Authority
  <2>2. Protocol!Resolve(p)
      BY <2>1 DEF Protocol!Resolve, Authority, Account
  <2> QED BY <2>2 DEF Protocol!Next
<1> QED BY <1>5, <1>6, <1>7, <1>8, <1>9 DEF Move

\* The broker, for any constants, implements the abstract protocol.
THEOREM BrokerImplementsProtocol == Spec => ImplementsProtocol
<1>1. Init => Protocol!Init
    BY DEF Init, Protocol!Init, AuthorityOf, AccountOf, Phase, NoRecord
<1>2. BrokerInv /\ [Next]_vars => [Protocol!Next]_(Protocol!vars)
  <2> SUFFICES ASSUME BrokerInv, [Next]_vars PROVE [Protocol!Next]_(Protocol!vars)
      OBVIOUS
  <2>1. CASE UNCHANGED installs /\ UNCHANGED record
      BY <2>1 DEF Protocol!vars, AuthorityOf, AccountOf, Phase
  <2>2. CASE UNCHANGED installs /\ ~UNCHANGED record
      BY <2>2, StepMoves, MoveRefines DEF Moves
  <2>3. CASE ~UNCHANGED installs
    <3>1. PICK p \in Proposals : /\ Phase(p) = "Executing" /\ installs[p] = 0 /\ UNCHANGED record
                                 /\ installs' = [installs EXCEPT ![p] = 1]
        BY <2>3, StepEffects
    <3>2. Authority' = Authority /\ Account' = Account
        BY <3>1 DEF Authority, Account, AuthorityOf, AccountOf, Phase
    <3>3. Authority[p] = "spent" /\ Account[p] = "open"
        BY <3>1 DEF Authority, Account, AuthorityOf, AccountOf, Submitted
    <3>4. Protocol!TakeEffect(p)
        BY <3>1, <3>2, <3>3 DEF Protocol!TakeEffect, Authority, Account
    <3> QED BY <3>4 DEF Protocol!Next
  <2> QED BY <2>1, <2>2, <2>3
<1> QED BY <1>1, <1>2, InvariantHolds, PTL DEF Spec, ImplementsProtocol, Protocol!Spec
=============================================================================
