----------------------------- MODULE SignalPolicy -----------------------------
(***************************************************************************)
(* One session's observations run through the four detectors, and what     *)
(* policy.EvaluateSlow makes of the last signal.  The history is kept so   *)
(* that the detectors' counters can be compared with what was observed.    *)
(*                                                                         *)
(* An observation is [kind, ...]: "failure" (an event), "event" (type,     *)
(* override), "validate" (attempt), "hypothesis" (text, ids) or "reset"    *)
(* (ResetSession of every detector).                                       *)
(***************************************************************************)
EXTENDS HookGate

CONSTANTS Observations, Adjudications, Fingerprints, Threshold, MaxTools, MaxObservations

VARIABLES hist, lib, signal, slow
lvars == <<hist, lib, signal, slow>>

FreshLib == [rf |-> Zero(Fingerprints), tb |-> FreshBudget, vc |-> {},
             hl |-> [counts |-> Zero(Fingerprints), seen |-> [f \in Fingerprints |-> {}]]]
LInit == hist = <<>> /\ lib = FreshLib /\ signal = None /\ slow = None

Signal(mode, detector) == [mode |-> mode, detector |-> detector, full |-> TRUE]
Signals == [failure    |-> Signal("repeated_error_loop", "RepeatedFailureDetector"),
            event      |-> Signal("tool_budget_churn", "ToolBudgetChurnDetector"),
            validate   |-> Signal("verification_churn", "VerificationChurnDetector"),
            hypothesis |-> Signal("hypothesis_loop", "HypothesisLoopDetector")]
Raised(fired, kind) == signal' = IF fired THEN Signals[kind] ELSE None

Observe(o) ==
  /\ Len(hist) < MaxObservations
  /\ hist' = Append(hist, o) /\ slow' = None
  /\ CASE o.kind = "failure" ->
            LET r == ObserveFailure(lib.rf, NormalizeFingerprint(ExtractFailureText(o.event)), Threshold)
            IN  lib' = [lib EXCEPT !.rf = r.counts] /\ Raised(r.fired, "failure")
       [] o.kind = "event" ->
            LET r == ObserveToolEvent(lib.tb, o.type, MaxTools, o.override)
            IN  lib' = [lib EXCEPT !.tb = r.st] /\ Raised(r.fired, "event")
       [] o.kind = "validate" ->
            LET r == ObserveValidation(lib.vc, o.attempt)
            IN  lib' = [lib EXCEPT !.vc = r.st] /\ Raised(r.fired, "validate")
       [] o.kind = "hypothesis" ->
            LET r == ObserveHypothesis(lib.hl, o.text, o.ids, Threshold)
            IN  lib' = [lib EXCEPT !.hl = r.st] /\ Raised(r.fired, "hypothesis")
       [] o.kind = "reset" -> lib' = FreshLib /\ signal' = None

Adjudicate(a) == /\ signal # None /\ slow = None
                 /\ slow' = EvaluateSlow(signal, a.uncertain, a.contract, a.ledger, a.prompt, a.review)
                 /\ UNCHANGED <<hist, lib, signal>>

LNext == (\E o \in Observations : Observe(o)) \/ (\E a \in Adjudications : Adjudicate(a))

LSpec == LInit /\ [][LNext]_lvars

-----------------------------------------------------------------------------
(* What a history h of observations says *)

Fp(o) == NormalizeFingerprint(IF o.kind = "hypothesis" THEN o.text ELSE ExtractFailureText(o.event))
Succeeded(o) == o.attempt.succeeded /\ NormalizeFingerprint(o.attempt.command) # Blank

Since(h) == { i \in 1..Len(h) : \A j \in i..Len(h) : h[j].kind # "reset" }
Kind(h, k) == { i \in Since(h) : h[i].kind = k }
Alike(h, k, f) == { i \in Kind(h, k) : Fp(h[i]) = f }

\* The tool calls since the last progress, the successful validations since the
\* last one on a changed workspace (itself included), the conclusions f since the
\* last one with new evidence (itself included).
ToolRun(h) == { i \in Kind(h, "event") : /\ h[i].type = "tool_call"
                                        /\ \A j \in Kind(h, "event") : j > i => h[j].type \notin Progress }
Standing(h) == { i \in Kind(h, "validate") :
                   /\ Succeeded(h[i])
                   /\ \A j \in Kind(h, "validate") : j > i => ~(Succeeded(h[j]) /\ h[j].attempt.workspaceChanged) }
Marks(h) == { ValidationFingerprint(h[i].attempt) : i \in Standing(h) }
Known(h, f, n) == {Blank} \union UNION { h[j].ids : j \in { j \in Alike(h, "hypothesis", f) : j < n } }
NewEvidence(h, i) == ~(h[i].ids \subseteq Known(h, Fp(h[i]), i))
Repeated(h, f) == { i \in Alike(h, "hypothesis", f) : \A j \in Alike(h, "hypothesis", f) : j > i => ~NewEvidence(h, j) }

FailureLoop(h, o) == Fp(o) # Blank /\ Cardinality(Alike(h, "failure", Fp(o))) >= Threshold
ToolChurn(h, o) == /\ o.type = "tool_call"
                   /\ Cardinality(ToolRun(h)) >= IF o.override > 0 THEN o.override ELSE MaxTools
RedundantRun(h, o) ==
  /\ Succeeded(o) /\ ~o.attempt.exempt /\ ~o.attempt.workspaceChanged
  /\ \E i \in Standing(h) \ {Len(h)} : ValidationFingerprint(h[i].attempt) = ValidationFingerprint(o.attempt)
ThoughtLoop(h, o) == Fp(o) # Blank /\ ~NewEvidence(h, Len(h)) /\ Cardinality(Repeated(h, Fp(o))) >= Threshold

\* Whether the last observation o of h calls for a signal.
CallsFor(h, o) == CASE o.kind = "failure" -> FailureLoop(h, o)
                    [] o.kind = "event" -> ToolChurn(h, o)
                    [] o.kind = "validate" -> RedundantRun(h, o)
                    [] o.kind = "hypothesis" -> ThoughtLoop(h, o)
                    [] o.kind = "reset" -> FALSE

\* The observations name what a session can report: one of the five kinds, a
\* fingerprint the counters have, a validation's flags.
ASSUME SignalAssumption ==
  /\ \A o \in Observations :
       /\ o.kind \in {"failure", "event", "validate", "hypothesis", "reset"}
       /\ o.kind \in {"failure", "hypothesis"} => Fp(o) \in Fingerprints \union {Blank}
       /\ o.kind = "validate" => {o.attempt.succeeded, o.attempt.exempt, o.attempt.workspaceChanged} \subseteq BOOLEAN
  /\ \A k \in DOMAIN Signals : Signals[k] # None

-----------------------------------------------------------------------------
(* Properties *)

\* A detector signals exactly when the session's history since its last reset
\* calls for it: the same failure Threshold times; a budget of tool calls with no
\* progress between them; a successful validation repeated with no successful run
\* on a changed workspace in between; a conclusion repeated without new evidence.
\* And nothing is zoomed out over a validation rerun unless a reviewer saw it.
SignalsMatchHistory ==
  hist # <<>> =>
    LET now == hist[Len(hist)]
    IN  /\ (signal # None) <=> CallsFor(hist, now)
        /\ slow # None /\ slow.action = "ZOOM_OUT_PROMPT" /\ now.kind = "validate" => slow.reviewed

\* The inductive invariant of the detectors: each counter is what the history
\* says it is, and a signal is that of the last observation's detector.
Counters(h, l) ==
  /\ {"rf", "tb", "vc", "hl"} \subseteq DOMAIN l /\ {"counts", "seen"} \subseteq DOMAIN l.hl
  /\ {"progressHits", "toolCalls", "toolsSinceProgress"} \subseteq DOMAIN l.tb
  /\ l.rf \in [Fingerprints -> Nat] /\ l.hl.counts \in [Fingerprints -> Nat] /\ DOMAIN l.hl.seen = Fingerprints
  /\ \A f \in Fingerprints \ {Blank} :
       /\ l.rf[f] = Cardinality(Alike(h, "failure", f))
       /\ l.hl.counts[f] = Cardinality(Repeated(h, f))
       /\ l.hl.seen[f] = Known(h, f, Len(h) + 1) \ {Blank}
  /\ l.tb.toolsSinceProgress = Cardinality(ToolRun(h))
  /\ l.vc = Marks(h)
DetectorInv ==
  /\ hist \in Seq(Observations) /\ Counters(hist, lib)
  /\ signal # None => hist # <<>> /\ signal = Signals[hist[Len(hist)].kind]
  /\ SignalsMatchHistory
=============================================================================
