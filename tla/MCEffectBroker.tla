--------------------------- MODULE MCEffectBroker ---------------------------
(* Small instances of EffectBroker for TLC. *)
EXTENDS EffectBroker

CONSTANTS f1, f2, p1, p2, file, pointer, c1, c2, o0, o1, o2

Ref(o, i) == [object |-> o, inode |-> i, clean |-> TRUE]
Start == Ref(o0, 1)

\* Two promotions of one ref from the same parent.
RivalTargetOf == [p \in Proposals |-> IF p \in FileProposals THEN file ELSE pointer]
RivalNew == [p \in Proposals |-> CASE p = f1 -> c1 [] p = f2 -> Absent
                                   [] p = p1 -> o1 [] OTHER -> o2]
RivalParent == [p \in PromotionProposals |-> o0]

\* The second promotion's candidate is a child of the first one's.
ChainedParent == [p \in PromotionProposals |-> IF p = p1 THEN o0 ELSE o1]

\* Others restore the genesis with its own inode or another, install the first
\* candidate themselves, or leave the repository dirty; they write and remove
\* files, or put something else in their place.
Foreign == [t \in Targets |->
               IF t = pointer
               THEN {Start, Ref(o0, 2), Ref(o1, 2), [Start EXCEPT !.clean = FALSE]}
               ELSE {c1, c2, Absent, Irregular}]

\* Fewer of them, for the instances with targets of both kinds.
FewForeign == [t \in Targets |->
                  IF t = pointer THEN {Start, Ref(o1, 2)} ELSE {c2, Absent}]

\* One each, for liveness.
OneForeign == [t \in Targets |-> IF t = pointer THEN {Ref(o1, 2)} ELSE {c2}]

PointerGenesis == [t \in PointerTargets |-> Start]
=============================================================================
