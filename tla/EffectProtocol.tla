--------------------------- MODULE EffectProtocol ---------------------------
(***************************************************************************)
(* What the effect broker promises for each proposal, with everything about *)
(* how it does so left out: authority is offered once and spent once, an    *)
(* effect happens at most once and only under authority already spent, and  *)
(* the account the broker gives of it is settled once.                      *)
(***************************************************************************)
EXTENDS Naturals

CONSTANT Proposals

VARIABLES
    authority,  \* "none", "offered" for ratification, or "spent"
    effects,    \* how often the proposal's effect was carried out
    account     \* what the broker says became of it

vars == <<authority, effects, account>>

Verdicts == {"Succeeded", "Failed", "ReconciliationRequired"}

Init ==
    /\ authority = [p \in Proposals |-> "none"]
    /\ effects = [p \in Proposals |-> 0]
    /\ account = [p \in Proposals |-> "open"]

Offer(p) ==
    /\ authority[p] = "none"
    /\ authority' = [authority EXCEPT ![p] = "offered"]
    /\ UNCHANGED <<effects, account>>

Spend(p) ==
    /\ authority[p] = "offered"
    /\ authority' = [authority EXCEPT ![p] = "spent"]
    /\ UNCHANGED <<effects, account>>

\* The one effect that spent authority is good for.
TakeEffect(p) ==
    /\ authority[p] = "spent" /\ account[p] = "open"
    /\ effects[p] = 0
    /\ effects' = [effects EXCEPT ![p] = 1]
    /\ UNCHANGED <<authority, account>>

\* Success is claimed only for an effect that was carried out.
Conclude(p, verdict) ==
    /\ authority[p] = "spent" /\ account[p] = "open"
    /\ verdict = "Succeeded" => effects[p] = 1
    /\ account' = [account EXCEPT ![p] = verdict]
    /\ UNCHANGED <<authority, effects>>

\* Uncertainty is settled by evidence, never by another attempt.
Resolve(p) ==
    /\ account[p] = "ReconciliationRequired"
    /\ account' = [account EXCEPT ![p] = "Reconciled"]
    /\ UNCHANGED <<authority, effects>>

Next ==
    \E p \in Proposals :
        \/ Offer(p) \/ Spend(p) \/ TakeEffect(p) \/ Resolve(p)
        \/ \E verdict \in Verdicts : Conclude(p, verdict)

Spec == Init /\ [][Next]_vars
=============================================================================
