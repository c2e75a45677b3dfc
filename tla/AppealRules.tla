----------------------------- MODULE AppealRules -----------------------------
(***************************************************************************)
(* The rules an appeal is decided by: which blocks may be appealed, what a *)
(* justification must contain, and the two resolvers that turn a           *)
(* classifier's answer into ALLOW or BLOCK (pkg/challenge: appealability,  *)
(* claims, justification, reeval; pkg/classifier: shadow, audit,           *)
(* context_err).                                                           *)
(*                                                                         *)
(* A proposed action is what the rules look at: [secret, cross, side,      *)
(* remote] (LooksLikeSecretExfil, LooksLikeCrossWorkspace,                 *)
(* classifySideEffect, "://" in the command).                              *)
(***************************************************************************)
EXTENDS ClassifierInput

HardDeny == {"SECRET_EXFILTRATION", "EXPLICIT_DENY", "CROSS_WORKSPACE"}
Irreversible == {"PRODUCTION_DEPLOY", "PAYMENT", "REMOTE_DELETION", "PERMISSION_CHANGE", "UNKNOWN_SECURITY"}
Productive == {"SCOPE_DRIFT", "OVER_SOP", "EXPENSIVE_HARDENING", "REPEATED_EXPLORATION",
               "EVIDENCE_GAP", "PRODUCTIVITY_GENERIC"}

NormalizePolicyClass(class) == IF class \in {"", PRODUCTIVITY} THEN PRODUCTIVITY ELSE SECURITY

ResolveBlockClass(class, pa) ==
  IF class \notin {"", "UNKNOWN_SECURITY"} THEN class
  ELSE IF pa.secret THEN "SECRET_EXFILTRATION"
  ELSE IF pa.cross THEN "CROSS_WORKSPACE"
  ELSE IF pa.side = "deploy" THEN "PRODUCTION_DEPLOY"
  ELSE IF pa.side = "payment" THEN "PAYMENT"
  ELSE IF pa.side = "permission" THEN "PERMISSION_CHANGE"
  ELSE IF pa.side = "delete_tree" /\ pa.remote THEN "REMOTE_DELETION"
  ELSE "UNKNOWN_SECURITY"

ClassifyAppealability(class, pa) ==
  LET bc == ResolveBlockClass(class, pa)
  IN  CASE bc \in HardDeny -> "NON_APPEALABLE"
        [] bc \in Productive -> "APPEALABLE"
        [] OTHER -> "HUMAN_REVIEW"

IsHardDenyClass(class) == class \in HardDeny
IsIrreversibleClass(class) == class \in Irreversible

\* The block class Open stores.
StoredBlockClass(policyClass, class, pa) ==
  IF NormalizePolicyClass(policyClass) = PRODUCTIVITY THEN ResolveBlockClass(class, pa)
  ELSE IF IsHardDenyClass(class) \/ IsIrreversibleClass(class) THEN class ELSE "UNKNOWN_SECURITY"

-----------------------------------------------------------------------------
(* Claims and justifications *)

Prose == {"concrete_value", "prevented_failure_or_threat", "estimated_cost", "alternatives_considered",
          "scope_limit", "verification_plan", "rollback_plan"}
IsValidClaim(c) == c \in Prose \union {"supporting_evidence_event_ids"}

DefaultRequiredClaims(class) ==
  (Prose \ {"alternatives_considered"})
    \union (IF class = "EVIDENCE_GAP" THEN {"supporting_evidence_event_ids"} ELSE {})

\* Claims arrive as a list; the canonical form is sorted and free of repeats.
ValidateRequiredClaims(claims) == /\ Len(claims) <= 16 /\ IsInjective(claims)
                                  /\ \A c \in ToSet(claims) : IsValidClaim(c)

\* A field is "ok", "blank", "long" or "control" (holds control text).
CheckField(v) == v \in {"ok", "blank"}

\* j is [fields, evidence]: fields maps each prose claim to such a value.
ValidateJustification(j, known, required) ==
  /\ \A c \in Prose : CheckField(j.fields[c])
  /\ \A c \in required : /\ IsValidClaim(c)
                         /\ IF c \in Prose THEN j.fields[c] = "ok" ELSE j.evidence # <<>>
  /\ Len(j.evidence) <= 16 /\ NoDup(j.evidence)
  /\ \A i \in DOMAIN j.evidence : j.evidence[i] # 0 /\ j.evidence[i] \in known

HashJustification(j) == Sha(j)

-----------------------------------------------------------------------------
(* Errors *)

IsParentContextAbort(class) == class \in {"canceled", "deadline"}
IsAdapterTimeout(class) == class = "timeout"

ClassifyOpError_OpFirst(parent, op, err) ==
  IF op # "live" \/ err = "deadline" THEN "timeout"
  ELSE IF parent # "live" THEN parent
  ELSE err
\* classifyOpError: the parent's end wins over any error, an expired operation
\* becomes a typed timeout, and any other error keeps its class.
ClassifyOpError(parent, op, err) ==
  IF parent # "live" THEN parent
  ELSE IF err = "deadline" THEN "timeout"
  ELSE IF err # "none" THEN err
  ELSE IF op # "live" THEN "timeout"
  ELSE "none"

ErrFromExhaustedBudget(parent, op, err) ==
  LET ce == ClassifyOpError(parent, op, err) IN IF ce # "none" THEN ce ELSE "timeout"

-----------------------------------------------------------------------------
(* Stage 2 *)

Resolved(decision, reason) == [decision |-> decision, reason |-> reason, human |-> FALSE, abort |-> FALSE]
HumanReview(reason) == [Resolved("BLOCK", reason) EXCEPT !.human = TRUE]

Exception(in) == IF "user" \in in.exceptions THEN "user_exception"
                 ELSE IF "repo" \in in.exceptions THEN "repo_policy_exception"
                 ELSE IF "flaky" \in in.exceptions THEN "flaky_investigation" ELSE ""

Threshold(in) == IF in.threshold <= 0 THEN 50 ELSE in.threshold

FailClosed == [provider |-> "provider_fail_closed", parse |-> "parse_fail_closed", severity |-> "severity_fail_closed"]
FailOpen == [provider |-> "provider_fail_open", parse |-> "parse_fail_open", severity |-> "severity_fail_open"]

\* SECURITY fails closed, PRODUCTIVITY fails open.
FailMatrix(policy, what) ==
  IF policy = SECURITY THEN Resolved("BLOCK", FailClosed[what]) ELSE Resolved("ALLOW", FailOpen[what])

\* A validated answer against the threshold; an exception lifts a block.
Score(in, severity) ==
  IF severity < Threshold(in) THEN Resolved("ALLOW", "below_threshold")
  ELSE IF Exception(in) # "" THEN Resolved("ALLOW", Exception(in))
  ELSE Resolved("BLOCK", "above_threshold")

\* What both resolvers do with the provider's answer ("class" names its error).
FromAnswer(in, policy, class, res) ==
  IF IsParentContextAbort(class) THEN [Resolved("BLOCK", "provider_context_canceled") EXCEPT !.abort = TRUE]
  ELSE IF class = "parse" THEN FailMatrix(policy, "parse")
  ELSE IF class # "none" THEN FailMatrix(policy, "provider")
  ELSE IF res.parse # "ok" THEN FailMatrix(policy, "parse")
  ELSE IF ~ValidateSeverity(res.severity) THEN FailMatrix(policy, "severity")
  ELSE Score(in, res.severity)

\* ReEvaluate before the provider is called; "ask" goes on to the provider.
ReEvaluateRules(rec, pa, in) ==
  IF in.hardBlock \/ IsHardDenyClass(rec.class) THEN Resolved("BLOCK", "hard_rule_block")
  ELSE IF pa.secret \/ pa.cross THEN Resolved("BLOCK", "hard_security_block")
  ELSE IF in.irreversible \/ IsIrreversibleClass(rec.class) THEN HumanReview("human_review_required")
  ELSE IF pa.side \in {"deploy", "payment", "permission"} THEN HumanReview("irreversible_side_effect")
  ELSE IF in.provider THEN Resolved("BLOCK", "ask")
  ELSE IF Exception(in) # "" THEN Resolved("ALLOW", "exception_without_provider")
  ELSE Resolved("BLOCK", "default_block_no_auto_allow")

\* ReEvaluate with the provider's answer; the caller's class is normalised.
ReEvaluateAnswer(in, class, res) == FromAnswer(in, NormalizePolicyClass(in.policyClass), class, res)

\* EvaluateShadow before the provider is called.
ShadowRules(in) ==
  IF in.stage0Block THEN Resolved("BLOCK", "stage0_block")
  ELSE IF ~in.provider THEN Resolved("ALLOW", "stage0_skip")
  ELSE Resolved("BLOCK", "ask")

\* EvaluateShadow with the answer: any error is one class, and the policy
\* class is compared as given.
ShadowAnswer(in, class, res) ==
  LET open == in.policyClass # SECURITY
      fail == IF open THEN Resolved("ALLOW", "fail_open_productivity") ELSE Resolved("BLOCK", "fail_closed_security")
  IN  IF IsParentContextAbort(class) THEN FromAnswer(in, SECURITY, class, res)
      ELSE IF class # "none" \/ res.parse # "ok" THEN fail
      ELSE IF ValidateSeverity(res.severity) THEN Score(in, res.severity)
      ELSE IF ~open /\ Exception(in) # "" THEN Resolved("ALLOW", Exception(in))
      ELSE fail

\* Reasons that let shadow policy continue and may never spend an appeal.
IsProviderFailOpenReason(reason) ==
  reason \in {"provider_fail_open", "parse_fail_open", "severity_fail_open", "reeval_error"}

Grants_FailOpen(out) == out.decision = "ALLOW" /\ ~out.abort /\ ~out.human
\* What AttemptRetry records for a re-evaluation: an error is a BLOCK.
Grants(out) == out.decision = "ALLOW" /\ ~out.abort /\ ~IsProviderFailOpenReason(out.reason) /\ ~out.human

\* The audit of a provider call, kept whether it succeeded or not.
BuildProviderCallAudit(req, class, res) ==
  [promptHash |-> req.prompt.promptHash, class |-> IF IsParentContextAbort(class) THEN "canceled" ELSE class,
   parse |-> IF class # "none" THEN "error" ELSE res.parse,
   cacheHit |-> class = "none" /\ res.cacheHit]
=============================================================================
