------------------------------ MODULE Detectors ------------------------------
(***************************************************************************)
(* The four detectors of pkg/detector as operators on one session's        *)
(* counters (an absent entry of the code's maps is a zero), and their      *)
(* library use with the policy engine: streetwire, reviewerdemo and the    *)
(* evaluation runner feed observations and adjudicate the signals.         *)
(*                                                                         *)
(* A text is [words, form]: case and white space (form) are what           *)
(* NormalizeFingerprint removes; blanks alone are no words.  A payload maps *)
(* the keys it has to texts, failed_count and exit_code to numbers.        *)
(***************************************************************************)
EXTENDS Integers, Sequences, FiniteSets

CONSTANT None   \* the code's nil

Blank == ""   \* Go's empty string
NoText == [words |-> Blank, form |-> "plain"]
NormalizeFingerprint(raw) == raw.words

-----------------------------------------------------------------------------
(* Repeated failure *)

FirstOf(payload, keys) ==
  LET named == { i \in DOMAIN keys : keys[i] \in DOMAIN payload /\ payload[keys[i]] # NoText }
  IN  IF named = {} THEN NoText ELSE payload[keys[CHOOSE i \in named : \A j \in named : i <= j]]

Number(payload, key) == IF key \in DOMAIN payload THEN payload[key] ELSE 0

GenericFailureText(payload) == FirstOf(payload, <<"failure_output", "error", "normalized_text", "raw_error">>)

\* What a typed payload says failed; the "error" types fall back on the payload
\* itself, the others on the generic keys.
ExtractFailureText(e) ==
  LET p == e.payload
      typed == CASE e.type = "test_result" ->
                      IF FirstOf(p, <<"failure_output">>) # NoText THEN p.failure_output
                      ELSE IF Number(p, "failed_count") > 0 THEN [words |-> "test_failed", form |-> "plain"] ELSE NoText
                 [] e.type = "tool_call" ->
                      IF FirstOf(p, <<"error">>) # NoText THEN p.error
                      ELSE IF Number(p, "exit_code") # 0 THEN [words |-> "tool_exit", form |-> "plain"] ELSE NoText
                 [] e.type \in {"error", "failure", "agent_error"} ->
                      FirstOf(p, <<"error", "failure_output", "normalized_text", "message", "raw_error">>)
                 [] OTHER -> NoText
  IN  IF DOMAIN p = {} THEN NoText
      ELSE IF typed # NoText THEN typed
      ELSE IF e.type \in {"error", "failure", "agent_error"} THEN [words |-> "payload", form |-> "plain"]
      ELSE GenericFailureText(p)

Zero(S) == [x \in S |-> 0]

\* counts: the session's counter per fingerprint.  It fires on every
\* observation at or above the threshold.
ObserveFailure(counts, fp, threshold) ==
  IF fp = Blank THEN [counts |-> counts, fired |-> FALSE]
  ELSE LET n == counts[fp] + 1 IN [counts |-> [counts EXCEPT ![fp] = n], fired |-> n >= threshold]

-----------------------------------------------------------------------------
(* Tool budget, verification churn, hypothesis loop *)

FreshBudget == [toolCalls |-> 0, progressHits |-> 0, toolsSinceProgress |-> 0]

RecordTool(b, maxDefault, override) ==
  LET max == IF override > 0 THEN override ELSE maxDefault
      n == b.toolsSinceProgress + 1
  IN  [st |-> [b EXCEPT !.toolCalls = @ + 1, !.toolsSinceProgress = n], fired |-> n >= max]

MarkProgress(b) == [b EXCEPT !.progressHits = @ + 1, !.toolsSinceProgress = 0]

Progress == {"file_change", "evidence", "criterion_met"}

ObserveToolEvent(b, type, maxDefault, override) ==
  CASE type = "tool_call" -> RecordTool(b, maxDefault, override)
    [] type \in Progress -> [st |-> MarkProgress(b), fired |-> FALSE]
    [] OTHER -> [st |-> b, fired |-> FALSE]

ValidationFingerprint(a) ==
  <<NormalizeFingerprint(a.command), a.scope, a.workspaceRev, a.contractRev, NormalizeFingerprint(a.purpose)>>

RecordSuccessIfNeeded(marks, a) ==
  IF ~a.succeeded THEN marks
  ELSE (IF a.workspaceChanged THEN {} ELSE marks) \union {ValidationFingerprint(a)}

ObserveValidation_KeepsMarks(marks, a) ==
  LET fp == ValidationFingerprint(a)
  IN  IF NormalizeFingerprint(a.command) = Blank THEN [st |-> marks, fired |-> FALSE]
      ELSE [st |-> IF a.succeeded THEN marks \union {fp} ELSE marks,
            fired |-> ~(a.exempt \/ a.workspaceChanged) /\ a.succeeded /\ fp \in marks]

ObserveValidation(marks, a) ==
  LET fp == ValidationFingerprint(a)
  IN  IF NormalizeFingerprint(a.command) = Blank THEN [st |-> marks, fired |-> FALSE]
      ELSE IF a.exempt \/ a.workspaceChanged THEN [st |-> RecordSuccessIfNeeded(marks, a), fired |-> FALSE]
      ELSE [st |-> IF a.succeeded THEN marks \union {fp} ELSE marks, fired |-> a.succeeded /\ fp \in marks]

\* h: [counts, seen] by fingerprint; ids may hold the Blank the code trims away.
ObserveHypothesis(h, text, ids, threshold) ==
  LET fp == NormalizeFingerprint(text)
      fresh == (ids \ {Blank}) \ h.seen[fp]
      n == IF fresh # {} THEN 1 ELSE h.counts[fp] + 1
  IN  IF fp = Blank THEN [st |-> h, fired |-> FALSE]
      ELSE [st |-> [counts |-> [h.counts EXCEPT ![fp] = n], seen |-> [h.seen EXCEPT ![fp] = @ \union fresh]],
            fired |-> fresh = {} /\ n >= threshold]
=============================================================================
