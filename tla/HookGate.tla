------------------------------- MODULE HookGate -------------------------------
(***************************************************************************)
(* The PreTool gate (adapter.EvaluateHook) and the policy engine around it *)
(* (pkg/policy): the rules in their order, the evaluation goroutine racing *)
(* the deadline, the before_tool denials, and the slow path that turns a   *)
(* detector's signal into an intervention.                                 *)
(*                                                                         *)
(* A request is [tool, path, proposed, suite]; a policy is [failOpen,      *)
(* denied, reasons, scope, budget, hard, pending].  A path is the set of   *)
(* whitelist entries that match it (its own name, a prefix, a pattern).    *)
(***************************************************************************)
EXTENDS Detectors

Decision(action, reason, id) == [action |-> action, reason |-> reason, id |-> id]

TimeoutDecision_Allows(pol) == Decision("allow", "timeout_fail_open", "")

TimeoutDecision(pol) == IF pol.failOpen THEN Decision("allow", "timeout_fail_open", "")
                        ELSE Decision("deny", "timeout_fail_closed", "")

PathInScope(path, whitelist) == path \intersect whitelist # {}

EvaluateHookRules(req, pol) ==
  IF pol.hard # "" THEN Decision("deny", "denied_hard_latch", pol.hard)
  ELSE IF pol.budget THEN Decision("deny", "denied_budget_exhausted", "")
  ELSE IF req.tool # "" /\ req.tool \in DOMAIN pol.reasons /\ pol.reasons[req.tool] # "" THEN
         Decision("deny", pol.reasons[req.tool], "")
  ELSE IF req.tool # "" /\ req.tool \in pol.denied THEN Decision("deny", "denied_tool", "")
  ELSE IF pol.scope # {} /\ ~PathInScope(req.path, pol.scope) THEN Decision("deny", "denied_path_scope", "")
  ELSE IF pol.pending # "" THEN Decision("defer", "defer_pending_advisory", pol.pending)
  ELSE Decision("allow", "allow", "")

-----------------------------------------------------------------------------
(* before_tool: contract is None or [complexity, risk, criteria], ledger None *)
(* or [met].                                                                *)

IsFullSuite(req) == IF req.proposed THEN req.suite ELSE req.tool = "go test ./..."

CriteriaAllMet(contract, ledger) == /\ ledger # None /\ contract.criteria # {}
                                    /\ contract.criteria \subseteq ledger.met

ShouldDenyDisproportionate(contract, ledger, req) ==
  /\ contract # None /\ IsFullSuite(req)
  /\ contract.complexity \in {"trivial", "simple"} /\ contract.risk = "low"
  /\ CriteriaAllMet(contract, ledger)

\* EvaluateBeforeTool's copy of the base policy.
BeforeToolPolicy(pol, req, contract, ledger, churn) ==
  LET reason == IF churn THEN "redundant_validation"
                ELSE IF ShouldDenyDisproportionate(contract, ledger, req) THEN "disproportionate_scope" ELSE ""
  IN  IF req.tool = "" \/ reason = "" THEN pol
      ELSE [pol EXCEPT !.reasons = [t \in DOMAIN @ \union {req.tool} |-> IF t = req.tool THEN reason ELSE @[t]]]

-----------------------------------------------------------------------------
(* The slow path.  A signal is [mode, detector, full]; a review is None (no   *)
(* reviewer) or [err, tunnel, sure, advice].                                 *)

IsHighConfidenceRepeatedFailure(sig) ==
  \/ sig.mode \in {"repeated_error_loop", "tool_budget_churn", "hypothesis_loop"}
  \/ sig.detector \in {"RepeatedFailureDetector", "ToolBudgetChurnDetector", "HypothesisLoopDetector"} /\ sig.full

ContractSuggestsReviewer(contract, ledger) ==
  /\ contract # None /\ contract.risk \in {"high", "irreversible"}
  /\ ledger = None \/ ledger.met = {}

AdviceFromContract(contract, ledger) ==
  IF contract = None /\ ledger = None THEN "" ELSE IF contract = None THEN "default" ELSE "default+contract"

BuildZoomOut(advice) == IF advice = "" THEN "default" ELSE advice
Slow(action, advice, reviewed, err) == [action |-> action, advice |-> advice, reviewed |-> reviewed, err |-> err]

EvaluateSlow(sig, uncertain, contract, ledger, prompt, review) ==
  LET advice == IF prompt # "" THEN prompt ELSE AdviceFromContract(contract, ledger)
      unsure == uncertain \/ (ContractSuggestsReviewer(contract, ledger) /\ review # None)
      high == IsHighConfidenceRepeatedFailure(sig)
      reviewed == IF prompt # "" THEN prompt ELSE IF review.advice # "" THEN review.advice
                  ELSE AdviceFromContract(contract, ledger)
  IN  CASE sig = None -> Slow("none", "", FALSE, FALSE)
        [] sig # None /\ high /\ (~unsure \/ review = None) -> Slow("ZOOM_OUT_PROMPT", BuildZoomOut(advice), FALSE, FALSE)
        [] sig # None /\ ~high /\ review = None -> Slow("no_intervention", "", FALSE, FALSE)
        [] sig # None /\ review # None /\ (unsure \/ ~high) /\ review.err -> Slow("none", "", TRUE, TRUE)
        [] OTHER -> IF review.tunnel \/ review.sure \/ high THEN Slow("ZOOM_OUT_PROMPT", BuildZoomOut(reviewed), TRUE, FALSE)
                    ELSE Slow("no_intervention", "", TRUE, FALSE)

-----------------------------------------------------------------------------
(* Gate calls against the session's advisory latch, which the orchestrator  *)
(* sets and clears while a call is evaluated.                               *)

CONSTANTS Policies, ToolRequests, MaxCalls

ASSUME GateAssumption ==
  \A x \in Policies : {"failOpen", "denied", "reasons", "scope", "budget", "hard", "pending"} \subseteq DOMAIN x.base

VARIABLES latch, gate, calls, latched
gvars == <<latch, gate, calls, latched>>

NoCall == [pc |-> "idle", req |-> None, pol |-> None, dead |-> FALSE, result |-> None, dec |-> None]
GInit == latch = "" /\ gate = NoCall /\ calls = 0 /\ latched = FALSE

\* The orchestrator's pendingLatch assignment and clearLatch.
SetLatch == latch = "" /\ latch' = "iv" /\ UNCHANGED <<gate, calls, latched>>
ClearLatch == latch # "" /\ latch' = "" /\ latched' = FALSE /\ UNCHANGED <<gate, calls>>

\* EvaluatePreTool, or EvaluateBeforeTool over the same snapshot, up to the
\* spawn of the evaluation; a context dead at entry is answered at once.
PreTool(req, base, before, dead) ==
  LET snap == [base EXCEPT !.pending = IF latch # "" THEN latch ELSE @]
      pol == IF before.use THEN BeforeToolPolicy(snap, req, before.contract, before.ledger, before.churn) ELSE snap
  IN  /\ gate.pc \in {"idle", "returned"} /\ calls < MaxCalls
      /\ calls' = calls + 1 /\ latched' = (latch # "") /\ UNCHANGED latch
      /\ gate' = [NoCall EXCEPT !.req = req, !.pol = pol, !.dead = dead,
                                !.pc = IF dead THEN "returned" ELSE "eval",
                                !.dec = IF dead THEN TimeoutDecision(pol) ELSE None]

\* The deadline, or the caller's cancellation.
Expire == gate.pc = "eval" /\ ~gate.dead /\ gate' = [gate EXCEPT !.dead = TRUE] /\ UNCHANGED <<latch, calls, latched>>

\* The evaluation goroutine; a Wait barrier only delays it.
Evaluate == /\ gate.pc = "eval" /\ gate.result = None
            /\ gate' = [gate EXCEPT !.result = IF gate.dead THEN TimeoutDecision(gate.pol)
                                               ELSE EvaluateHookRules(gate.req, gate.pol)]
            /\ UNCHANGED <<latch, calls, latched>>

\* The select: a completed result is preferred to the deadline.
GateReturn == /\ gate.pc = "eval" /\ (gate.result # None \/ gate.dead)
              /\ gate' = [gate EXCEPT !.pc = "returned",
                            !.dec = IF gate.result # None THEN gate.result ELSE TimeoutDecision(gate.pol)]
              /\ UNCHANGED <<latch, calls, latched>>

GNext == \/ SetLatch \/ ClearLatch \/ Expire \/ Evaluate \/ GateReturn
         \/ \E r \in ToolRequests, x \in Policies, dead \in BOOLEAN : PreTool(r, x.base, x.before, dead)

GateSpec == GInit /\ [][GNext]_gvars

\* A tool call that a deny rule covers is denied, and one that arrives while an
\* advisory is pending and returns while it still is, is not let through -- the
\* only exception being a fail-open policy whose evaluation really ran out of
\* time (adapter/hook_gate.go EvaluateHook, supervisor EvaluatePreTool).
GateHolds ==
  gate.pc = "returned" =>
    LET pol == gate.pol  req == gate.req
        covered == \/ pol.hard # "" \/ pol.budget \/ req.tool \in pol.denied \ {""}
                   \/ pol.scope # {} /\ req.path \intersect pol.scope = {}
                   \/ \E t \in DOMAIN pol.reasons \ {""} : t = req.tool /\ pol.reasons[t] # ""
    IN  \/ gate.dec.reason = "timeout_fail_open" /\ pol.failOpen /\ gate.dead
        \/ /\ covered => gate.dec.action = "deny"
           /\ latched => gate.dec.action # "allow"
           /\ ~covered /\ ~gate.dead => gate.dec.action # "deny"

\* The inductive invariant of the gate: the evaluation's result and the answer
\* are the rules' decision or, past the deadline, the policy's timeout decision;
\* a call made under a latch that is still set carries the advisory.
Decided(dec) == \/ dec = EvaluateHookRules(gate.req, gate.pol)
                \/ gate.dead /\ dec = TimeoutDecision(gate.pol)
GateInv ==
  /\ DOMAIN gate = DOMAIN NoCall /\ gate.dead \in BOOLEAN /\ latched \in BOOLEAN
  /\ gate.pc \in {"idle", "eval", "returned"}
  /\ gate.pc = "eval" => gate.result = None \/ Decided(gate.result)
  /\ gate.pc = "returned" => Decided(gate.dec)
  /\ latched => gate.pc # "idle" /\ gate.pol.pending # ""
=============================================================================
