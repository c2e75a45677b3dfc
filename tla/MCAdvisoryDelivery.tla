------------------------ MODULE MCAdvisoryDelivery -------------------------
(* Small instances of AdvisoryDelivery for TLC. *)
EXTENDS AdvisoryDelivery, TLC

CONSTANTS a1, a2

\* Both interventions belong to one session, so they share its order and latch.
MCSessionOf == (a1 :> "s") @@ (a2 :> "s")
MCOneSession == a1 :> "s"

\* The fake actuator with AutoAck, and the file actuator.
LocalResults == AutoAckResults \cup FileResults

WithLedger == {[supports |-> TRUE, durable |-> TRUE]}
\* With and without a ledger, and a host that can only alert a human.
AllConfigs == [supports : BOOLEAN, durable : BOOLEAN]

Symmetry == Permutations(Callers)
=============================================================================
