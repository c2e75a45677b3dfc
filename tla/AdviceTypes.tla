---------------------------- MODULE AdviceTypes ----------------------------
(***************************************************************************)
(* The vocabulary of advisory delivery (src/pkg/adapter): the lifecycle    *)
(* states of a queued intervention, the results an actuator may hand back, *)
(* and the pure functions that classify them.  Nothing here has state; the *)
(* protocol that uses it is in AdvisoryDelivery.                           *)
(***************************************************************************)

\* The empty string of a field nobody set.
Unset == "unset"

\* Mutant: transport acceptance is taken for too weak to suppress.
SuppressStates_Explicit ==
  {"SESSION_VISIBLE", "EXPLICIT_ACK", "BEHAVIORAL_ACK", "ACKED", "REJECTED",
   "TIMED_OUT", "EXPIRED", "SUPPRESSED", "AMBIGUOUS"}

\* isSuppressState: a ledger line with one of these states forbids redelivery.
SuppressStates ==
  {"TRANSPORT_ACCEPTED", "SESSION_VISIBLE", "EXPLICIT_ACK", "BEHAVIORAL_ACK",
   "ACKED", "REJECTED", "TIMED_OUT", "EXPIRED", "SUPPRESSED", "AMBIGUOUS"}

\* awaitingExplicitACK: only these states take an acknowledgement.
Awaiting == {"DELIVERING", "TRANSPORT_ACCEPTED", "SESSION_VISIBLE"}

(***************************************************************************)
(* InterventionResult, cut to the fields the classification reads, plus    *)
(* "err" (Deliver also returned a Go error) and "sent", the ground truth   *)
(* about the host that no field of the result records.                     *)
(***************************************************************************)
Result(accepted, ack, layer, class, boundary, err, sent) ==
  [accepted |-> accepted, ack |-> ack, layer |-> layer, class |-> class,
   boundary |-> boundary, err |-> err, sent |-> sent]

\* A local refusal, before anything reaches the host.
NotSent(ack, class) == Result(FALSE, ack, "none", class, "not_sent", TRUE, FALSE)

\* A send that failed half way: the host may or may not have it.
SentUnknown ==
  {Result(FALSE, "rejected", "none", "transport", "send_attempted_unknown",
          TRUE, sent) : sent \in BOOLEAN}

\* GrokACPActuator.Deliver.
GrokResults ==
  {NotSent("unsupported", "unsupported_capability"),
   NotSent("timed_out", "timeout"),
   NotSent("rejected", "unsupported_capability"),
   Result(TRUE, "pending", "transport", "none", Unset, FALSE, TRUE),
   Result(TRUE, "pending", "session_visible", "none", Unset, FALSE, TRUE)}
    \cup SentUnknown

\* FileActuator.Deliver: a cancelled context sets no boundary, and success no layer.
FileResults ==
  {Result(FALSE, "timed_out", Unset, "timeout", Unset, TRUE, FALSE),
   NotSent("rejected", "unsupported_capability"),
   NotSent("unsupported", "unsupported_capability"),
   Result(TRUE, "pending", Unset, "none", Unset, FALSE, TRUE)}
    \cup SentUnknown

\* FakeActuator.Deliver with AutoAck: the host answers in the call itself.
AutoAckResults ==
  {Result(FALSE, "timed_out", Unset, "timeout", Unset, TRUE, sent) : sent \in BOOLEAN}
    \cup
  {Result(FALSE, "unsupported", Unset, "unsupported_capability", Unset, FALSE, FALSE),
   Result(FALSE, "rejected", Unset, "agent_rejected", Unset, FALSE, TRUE),
   Result(TRUE, "acked", Unset, "none", Unset, FALSE, TRUE)}

\* mapResultToState, over the ack statuses the actuators report.
mapResultToState(res) ==
  CASE res.ack = "acked" ->
         (CASE res.layer = "explicit"   -> "EXPLICIT_ACK"
            [] res.layer = "behavioral" -> "BEHAVIORAL_ACK"
            [] OTHER                    -> "ACKED")
    [] res.ack = "rejected"    -> "REJECTED"
    [] res.ack = "timed_out"   -> "TIMED_OUT"
    [] res.ack = "unsupported" -> "UNSUPPORTED"
    [] res.ack = "pending" ->
         IF res.err THEN "FAILED"
         ELSE CASE res.layer = "session_visible" -> "SESSION_VISIBLE"
                [] res.layer = "transport"       -> "TRANSPORT_ACCEPTED"
                [] OTHER                         -> "DELIVERING"

\* ClassifyDeliveryBoundary: the actuator's own word first, then heuristics.
ClassifyDeliveryBoundary(res) ==
  IF res.boundary # Unset THEN res.boundary
  ELSE IF res.layer \in {"session_visible", "explicit", "behavioral"} THEN "session_visible"
  ELSE IF res.layer = "transport" \/ res.accepted THEN "transport_accepted"
  ELSE CASE res.class = "unsupported_capability"   -> "not_sent"
         [] res.class = "agent_rejected"           -> "transport_accepted"
         [] res.class \in {"timeout", "transport"} -> "send_attempted_unknown"
         [] res.class = "none" -> IF res.err THEN "send_attempted_unknown" ELSE "not_sent"

ShouldAmbiguousSuppress(boundary) ==
  boundary \in {"send_attempted_unknown", "transport_accepted", "session_visible"}

\* The state an acknowledgement asks for: the layer is capped at
\* session_visible by ProfileMaxACKLayer, so EXPLICIT_ACK is out of reach.
AckStates == {"TRANSPORT_ACCEPTED", "SESSION_VISIBLE", "ACKED", "REJECTED", "TIMED_OUT"}

\* The acknowledgements Orchestrator.Acknowledge can ask for.
OrchestratorAcks == {"SESSION_VISIBLE", "REJECTED", "TIMED_OUT"}

=============================================================================
