-------------------------- MODULE AssessmentProofs --------------------------
(***************************************************************************)
(* TLAPS proofs about the decision that may ask a classifier provider: an  *)
(* appeal is granted only if it was earned, the caller's cancellation keeps *)
(* its identity, and an answer cites only what the provider was shown; for *)
(* any configurations, inputs, contexts, actions and responses.            *)
(***************************************************************************)
EXTENDS Assessment, FiniteSetTheorems, TLAPS

-----------------------------------------------------------------------------
(* The rules *)

\* An appealable block has a productivity class, stored by productivity policy.
LEMMA ResolvedProductive ==
  ASSUME NEW class, NEW pa, ResolveBlockClass(class, pa) \in Productive
  PROVE  ResolveBlockClass(class, pa) = class
BY Zenon DEF ResolveBlockClass, Productive

LEMMA AppealableStored ==
  ASSUME NEW policyClass, NEW class, NEW pa,
         ClassifyAppealability(StoredBlockClass(policyClass, class, pa), pa) = "APPEALABLE"
  PROVE  /\ NormalizePolicyClass(policyClass) = PRODUCTIVITY
         /\ StoredBlockClass(policyClass, class, pa) \in Productive
<1>1. PICK stored : stored = StoredBlockClass(policyClass, class, pa)
  OBVIOUS
<1>2. ResolveBlockClass(stored, pa) \in Productive
  BY <1>1 DEF ClassifyAppealability, HardDeny, Productive
<1>3. stored \in Productive
  BY <1>2, ResolvedProductive
<1>4. NormalizePolicyClass(policyClass) = PRODUCTIVITY
  BY <1>1, <1>3 DEF StoredBlockClass, IsHardDenyClass, IsIrreversibleClass, HardDeny, Irreversible, Productive
<1> QED
  BY <1>1, <1>3, <1>4

LEMMA ExceptionNeedsOne ==
  ASSUME NEW c, Exception(c) # ""
  PROVE  c.exceptions # {}
<1>1. "user" \in c.exceptions \/ "repo" \in c.exceptions \/ "flaky" \in c.exceptions
  BY Zenon DEF Exception
<1> QED
  BY <1>1

\* The answer is below the threshold, or an exception lifts the block.
LEMMA ScoreCases ==
  ASSUME NEW c, NEW severity
  PROVE  \/ severity < Threshold(c) /\ Score(c, severity) = Resolved("ALLOW", "below_threshold")
         \/ c.exceptions # {} /\ Score(c, severity) = Resolved("ALLOW", Exception(c))
         \/ Score(c, severity) = Resolved("BLOCK", "above_threshold")
<1>1. \/ severity < Threshold(c) /\ Score(c, severity) = Resolved("ALLOW", "below_threshold")
      \/ Exception(c) # "" /\ Score(c, severity) = Resolved("ALLOW", Exception(c))
      \/ Score(c, severity) = Resolved("BLOCK", "above_threshold")
  BY Zenon DEF Score
<1> QED
  BY Zenon, <1>1, ExceptionNeedsOne

\* An answer that grants: without an error, below the threshold or excepted.
LEMMA GrantingAnswer ==
  ASSUME NEW c, NEW policy, NEW class, NEW res, Grants(FromAnswer(c, policy, class, res))
  PROVE  class = "none" /\ (res.severity < Threshold(c) \/ c.exceptions # {})
<1> DEFINE o == FromAnswer(c, policy, class, res)
<1>1. o.decision = "ALLOW" /\ o.reason \notin {"provider_fail_open", "parse_fail_open"} /\ o.reason # "severity_fail_open"
  BY DEF Grants, IsProviderFailOpenReason
<1>2. \A what \in {"provider", "parse", "severity"} : o # FailMatrix(policy, what)
  BY <1>1 DEF FailMatrix, FailOpen, FailClosed, Resolved
<1>3. o # [Resolved("BLOCK", "provider_context_canceled") EXCEPT !.abort = TRUE]
  BY <1>1 DEF Resolved
<1>4. class = "none" /\ o = Score(c, res.severity)
  BY <1>2, <1>3 DEF FromAnswer
<1> HIDE DEF o
<1>5. o # Resolved("BLOCK", "above_threshold")
  BY <1>1 DEF Resolved
<1> QED
  BY <1>4, <1>5, ScoreCases

\* The rules grant without a provider only by an exception.
LEMMA GrantingRules ==
  ASSUME NEW r, NEW pa, NEW c, Grants(ReEvaluateRules(r, pa, c))
  PROVE  c.exceptions # {} /\ ~pa.secret /\ ~pa.cross /\ pa.side \notin {"deploy", "payment", "permission"} /\ ~c.hardBlock
<1> DEFINE o == ReEvaluateRules(r, pa, c)
<1>1. o.decision = "ALLOW"
  BY DEF Grants
<1>2. \A reason : o # Resolved("BLOCK", reason) /\ o # HumanReview(reason)
  BY <1>1 DEF Resolved, HumanReview
<1>3. Exception(c) # "" /\ ~pa.secret /\ ~pa.cross /\ pa.side \notin {"deploy", "payment", "permission"} /\ ~c.hardBlock
  BY Zenon, <1>2 DEF ReEvaluateRules
<1> QED
  BY Zenon, <1>3, ExceptionNeedsOne

\* The rules go on to the provider only for a harmless action.
LEMMA AskingRules ==
  ASSUME NEW r, NEW pa, NEW c, ReEvaluateRules(r, pa, c).reason = "ask"
  PROVE  ~pa.secret /\ ~pa.cross /\ pa.side \notin {"deploy", "payment", "permission"} /\ ~c.hardBlock
<1>1. ASSUME NEW reason, reason # "ask"
      PROVE  ReEvaluateRules(r, pa, c) # Resolved("BLOCK", reason) /\ ReEvaluateRules(r, pa, c) # HumanReview(reason)
  BY <1>1 DEF Resolved, HumanReview
<1>2. /\ ReEvaluateRules(r, pa, c) # Resolved("BLOCK", "hard_rule_block")
      /\ ReEvaluateRules(r, pa, c) # Resolved("BLOCK", "hard_security_block")
      /\ ReEvaluateRules(r, pa, c) # HumanReview("irreversible_side_effect")
      /\ ReEvaluateRules(r, pa, c) # HumanReview("human_review_required")
  BY <1>1
<1> QED
  BY Zenon, <1>2 DEF ReEvaluateRules

-----------------------------------------------------------------------------
(* One exchange *)

\* A raw context error comes only from the transport, and a success carries a
\* whole result.
LEMMA ExchangeClass ==
  ASSUME NEW r, NEW denied, NEW late, late.class \in {"none", "parse"}
  PROVE  /\ IsParentContextAbort(Exchange(r, denied, late).class) => r.net = Exchange(r, denied, late).class
         /\ Exchange(r, denied, late).class = "none" => Exchange(r, denied, late) = late
         /\ Exchange(r, denied, late).class # "config"
BY DEF Exchange, Failed, IsParentContextAbort

LEMMA AssessedClass ==
  ASSUME NEW rq, NEW r, NEW ok, NEW usage
  PROVE  /\ Assessed(rq, r, ok, usage).class \in {"none", "parse"}
         /\ Assessed(rq, r, ok, usage).class = "none" => "parse" \in DOMAIN Assessed(rq, r, ok, usage).result
BY DEF Assessed, Failed

LEMMA DoOnceClass ==
  ASSUME NEW p, NEW rq, NEW r, p.kind \in Kinds
  PROVE  /\ IsParentContextAbort(DoOnce(p, rq, r).class) => r.net = DoOnce(p, rq, r).class
         /\ DoOnce(p, rq, r).class = "none" => "parse" \in DOMAIN DoOnce(p, rq, r).result
         /\ DoOnce(p, rq, r).class # "config"
<1>1. PICK denied, ok, usage : DoOnce(p, rq, r) = Exchange(r, denied, Assessed(rq, r, ok, usage))
  <2>1. CASE p.kind = "openai_compatible"
    BY <2>1 DEF DoOnce, CompatDoOnce
  <2>2. CASE p.kind = "openai_responses"
    BY <2>2 DEF DoOnce, ResponsesDoOnce
  <2>3. CASE p.kind = "anthropic_messages"
    BY <2>3 DEF DoOnce, AnthropicDoOnce
  <2>4. CASE p.kind = "gemini_generate_content"
    BY <2>4 DEF DoOnce, GeminiDoOnce
  <2>5. CASE p.kind = "xai_responses"
    BY <2>5 DEF DoOnce, XaiDoOnce
  <2> QED
    BY <2>1, <2>2, <2>3, <2>4, <2>5 DEF Kinds
<1> QED
  BY <1>1, ExchangeClass, AssessedClass
-----------------------------------------------------------------------------
(* What a step of the call changes *)

ProviderSteps == CompatAssess \/ ResponsesAssess \/ AnthropicAssess \/ GeminiAssess \/ XaiAssess

\* How an attempt ends, in terms of the exchange it made.
EndsWith(r, o, ce) ==
  /\ r.net \in {"canceled", "deadline"} => r.net = OpErr
  /\ IsParentContextAbort(o.class) => r.net = o.class
  /\ o.class = "none" => "parse" \in DOMAIN o.result
  /\ o.class # "config"
  /\ ce = ClassifyOpError(parent, op, o.class)
  /\ last' = Failed(o.class, o.retryable, o.after)
  /\ \/ o.class = "none" /\ ce = "none" /\ Return("none", [o.result EXCEPT !.retries = retries])
     \/ ((o.class = "none" /\ ce # "none") \/ IsParentContextAbort(ce) \/ IsAdapterTimeout(ce)) /\ Return(ce, None)
     \/ /\ o.class # "none" /\ ~IsParentContextAbort(ce) /\ ~IsAdapterTimeout(ce)
        /\ pc' \in {"head", "fail"} /\ UNCHANGED ret

\* The frame of every step of the loop.
CallFrame ==
  /\ InCall /\ pc # "returned"
  /\ UNCHANGED <<provider, who, rec, act, in, req, parent, due, op, out, audit>>

\* The loop's steps, without the counters.
LEMMA CallSteps ==
  ASSUME ProviderSteps
  PROVE  /\ CallFrame
         /\ \/ pc = "enter" /\ AssessEnter
            \/ pc = "head" /\ AttemptHead
            \/ pc = "sleep" /\ (SleepEnds \/ SleepAborted)
            \/ pc = "http" /\ \E r \in Responses : \E o, ce : EndsWith(r, o, ce)
            \/ pc = "fail" /\ AssessFails
<1>1. provider.kind \in Kinds /\ AssessStep
  BY DEF ProviderSteps, CompatAssess, ResponsesAssess, AnthropicAssess, GeminiAssess, XaiAssess, Kinds
<1>2. CASE AssessEnter
  BY <1>2 DEF AssessEnter, CallFrame, InCall, decision, call, ctx
<1>3. CASE AttemptHead
  BY <1>3 DEF AttemptHead, CallFrame, InCall, decision, call, ctx
<1>4. CASE SleepEnds \/ SleepAborted
  BY <1>4 DEF SleepEnds, SleepAborted, CallFrame, InCall, decision, call, ctx
<1>5. CASE AttemptEnds
  <2>1. CallFrame /\ pc = "http"
    BY <1>5 DEF AttemptEnds, CallFrame, InCall, decision, call, ctx
  <2> DEFINE O(r) == DoOnce(provider, req, r)
             C(r) == ClassifyOpError(parent, op, O(r).class)
  <2>2. PICK r \in Responses :
          /\ r.net \in {"canceled", "deadline"} => r.net = OpErr
          /\ last' = Failed(O(r).class, O(r).retryable, O(r).after)
          /\ CASE O(r).class = "none" /\ C(r) = "none" ->
                    Return("none", [O(r).result EXCEPT !.retries = retries]) /\ UNCHANGED attempt
               [] O(r).class = "none" /\ C(r) # "none" -> Return(C(r), None) /\ UNCHANGED attempt
               [] O(r).class # "none" /\ (IsParentContextAbort(C(r)) \/ IsAdapterTimeout(C(r))) ->
                    Return(C(r), None) /\ UNCHANGED attempt
               [] OTHER ->
                    /\ pc' = IF O(r).retryable /\ attempt < provider.retries THEN "head" ELSE "fail"
                    /\ attempt' = attempt + 1 /\ UNCHANGED ret
    BY <1>5 DEF AttemptEnds
  <2>3. PICK o, ce : o = O(r) /\ ce = C(r)
    OBVIOUS
  <2>4. /\ IsParentContextAbort(o.class) => r.net = o.class
        /\ o.class = "none" => "parse" \in DOMAIN o.result
        /\ o.class # "config"
    BY <1>1, <2>3, DoOnceClass
  <2> HIDE DEF O, C
  <2>5. EndsWith(r, o, ce)
    <3>1. ce = ClassifyOpError(parent, op, o.class)
      BY <2>3 DEF C, O
    <3>2. /\ r.net \in {"canceled", "deadline"} => r.net = OpErr
          /\ last' = Failed(o.class, o.retryable, o.after)
      BY <2>2, <2>3
    <3>3. CASE o.class = "none" /\ ce = "none"
      <4>1. Return("none", [o.result EXCEPT !.retries = retries])
        BY ONLY <2>2, <2>3, <3>3
      <4> QED
        BY <2>4, <3>1, <3>2, <3>3, <4>1 DEF EndsWith
    <3>4. CASE o.class = "none" /\ ce # "none"
      <4>1. Return(ce, None)
        BY ONLY <2>2, <2>3, <3>4
      <4> QED
        BY <2>4, <3>1, <3>2, <3>4, <4>1 DEF EndsWith
    <3>5. CASE o.class # "none" /\ (IsParentContextAbort(ce) \/ IsAdapterTimeout(ce))
      <4>1. Return(ce, None)
        BY ONLY <2>2, <2>3, <3>5
      <4> QED
        BY <2>4, <3>1, <3>2, <3>5, <4>1 DEF EndsWith
    <3>6. CASE o.class # "none" /\ ~IsParentContextAbort(ce) /\ ~IsAdapterTimeout(ce)
      <4>1. pc' \in {"head", "fail"} /\ UNCHANGED ret
        BY ONLY <2>2, <2>3, <3>6
      <4> QED
        BY <2>4, <3>1, <3>2, <3>6, <4>1 DEF EndsWith
    <3> QED
      BY <3>3, <3>4, <3>5, <3>6
  <2> QED
    BY <2>1, <2>5
<1>6. CASE AssessFails
  BY <1>6 DEF AssessFails, CallFrame, InCall, decision, call, ctx
<1> QED
  BY <1>1, <1>2, <1>3, <1>4, <1>5, <1>6 DEF AssessStep, AssessEnter, AttemptHead, SleepEnds, SleepAborted, AssessFails

-----------------------------------------------------------------------------
(* The call: contexts, the last error, and what is returned *)

Ended == {"canceled", "deadline"}
\* What a returned class says, of a call whose parent was p at the return.
ClassFits(class, p) ==
  /\ p \in {"live"} \union Ended
  /\ p # "live" /\ class \notin {"config", "oversized"} => class = p
  /\ IsParentContextAbort(class) => p = class

CallInv ==
  /\ parent \in {"live"} \union Ended /\ op \in {"live", "deadline"}
  /\ pc \notin {"returned", "done"} => ret = None
  /\ pc = "fail" => last.class \notin {"none", "config"} /\ ~IsParentContextAbort(last.class)
  /\ pc = "returned" => /\ "parent" \in DOMAIN ret /\ ClassFits(ret.class, ret.parent)
                        /\ ret.class = "none" => "parse" \in DOMAIN ret.res
  /\ AbortKeepsIdentity

\* An ended parent is what the call's error is classified as.
LEMMA ClassifiedFits ==
  ASSUME CallInv, NEW err, IsParentContextAbort(err) => parent = err \/ (parent = "live" /\ err = "deadline")
  PROVE  ClassFits(ClassifyOpError(parent, op, err), parent)
BY DEF CallInv, ClassFits, ClassifyOpError, IsParentContextAbort, Ended

\* The loop returns once, an answer with its result and anything else without.
Returned(class, res) ==
  /\ pc' = "returned" /\ ret' = [class |-> class, res |-> res, parent |-> parent, attempts |-> attempt]
  /\ ClassFits(class, parent)
  /\ class = "none" => pc = "http" /\ "parse" \in DOMAIN res
  /\ class = "config" => /\ pc = "enter"
                         /\ req.input.legacy \/ LegacyOnly(req.input) \/ ~ValidateProviderRequest(req)

LEMMA CallReturns ==
  ASSUME CallInv, ProviderSteps
  PROVE  \/ /\ pc' \in {"head", "sleep", "http", "fail"} /\ ret' = ret
            /\ pc' = "fail" => \E e : last' = e /\ e.class \notin {"none", "config"} /\ ~IsParentContextAbort(e.class)
         \/ \E class, res : Returned(class, res)
<1> USE DEF Return, CallInv
<1>1. CASE pc = "enter" /\ AssessEnter
  <2>1. CASE parent # "live"
    <3>1. Returned(parent, None)
      BY <1>1, <2>1 DEF AssessEnter, Returned, ClassFits, IsParentContextAbort, Ended
    <3> QED
      BY <3>1
  <2>2. CASE parent = "live" /\ (req.input.legacy \/ LegacyOnly(req.input) \/ ~ValidateProviderRequest(req))
    <3>1. Returned("config", None)
      BY <1>1, <2>2 DEF AssessEnter, Returned, ClassFits, IsParentContextAbort
    <3> QED
      BY <3>1
  <2>3. CASE parent = "live" /\ ~(req.input.legacy \/ LegacyOnly(req.input) \/ ~ValidateProviderRequest(req))
    <3>1. CASE Build(provider, req).bytes > EffectiveMaxInput(provider)
      <4>1. Returned("oversized", None)
        BY <1>1, <2>3, <3>1 DEF AssessEnter, Returned, ClassFits, IsParentContextAbort
      <4> QED
        BY <4>1
    <3>2. CASE ~(Build(provider, req).bytes > EffectiveMaxInput(provider))
      BY <1>1, <2>3, <3>2 DEF AssessEnter
    <3> QED
      BY <3>1, <3>2
  <2> QED
    BY <2>1, <2>2, <2>3
<1>2. CASE pc = "head" /\ AttemptHead
  <2>1. PICK ce : ce = ClassifyOpError(parent, op, "none")
    OBVIOUS
  <2>2. ClassFits(ce, parent) /\ ce # "config"
    BY <2>1, ClassifiedFits DEF IsParentContextAbort, ClassifyOpError, Ended
  <2>3. CASE ce # "none"
    <3>1. Returned(ce, None)
      BY <1>2, <2>1, <2>2, <2>3 DEF AttemptHead, Returned
    <3> QED
      BY <3>1
  <2>4. CASE ce = "none" /\ Return(ErrFromExhaustedBudget(parent, op, "none"), None)
    <3>1. ErrFromExhaustedBudget(parent, op, "none") = "timeout" /\ parent = "live"
      BY <2>1, <2>4 DEF ErrFromExhaustedBudget, ClassifyOpError, Ended
    <3>2. Returned("timeout", None)
      BY <2>4, <3>1 DEF Returned, ClassFits, IsParentContextAbort
    <3> QED
      BY <3>2
  <2>5. CASE ce = "none" /\ ~Return(ErrFromExhaustedBudget(parent, op, "none"), None)
    <3> HIDE DEF Return
    <3>1. pc' \in {"http", "sleep"} /\ ret' = ret
      BY <1>2, <2>1, <2>5 DEF AttemptHead
    <3> QED
      BY <3>1
  <2> QED
    BY <2>3, <2>4, <2>5
<1>3. CASE pc = "sleep" /\ SleepEnds
  BY <1>3 DEF SleepEnds
<1>4. CASE pc = "sleep" /\ SleepAborted
  <2>1. PICK ce : ce = ClassifyOpError(parent, op, OpErr)
    OBVIOUS
  <2>2. ClassFits(ce, parent) /\ ce \notin {"config", "none"}
    BY <1>4, <2>1, ClassifiedFits DEF SleepAborted, IsParentContextAbort, ClassifyOpError, OpErr, Ended
  <2>3. Returned(ce, None)
    BY <1>4, <2>1, <2>2 DEF SleepAborted, Returned
  <2> QED
    BY <2>3
<1>5. ASSUME NEW r \in Responses, NEW o, NEW ce, pc = "http", EndsWith(r, o, ce)
      PROVE  \/ /\ pc' \in {"head", "sleep", "http", "fail"} /\ ret' = ret
                /\ pc' = "fail" => \E e : last' = e /\ e.class \notin {"none", "config"} /\ ~IsParentContextAbort(e.class)
             \/ \E class, res : Returned(class, res)
  <2>1. ClassFits(ce, parent) /\ ce # "config"
    <3>1. IsParentContextAbort(o.class) => parent = o.class \/ (parent = "live" /\ o.class = "deadline")
      BY <1>5 DEF EndsWith, OpErr, IsParentContextAbort, Ended
    <3>2. ce # "config"
      BY <1>5 DEF EndsWith, ClassifyOpError, Ended
    <3> QED
      BY <1>5, <3>1, <3>2, ClassifiedFits DEF EndsWith
  <2>2. CASE o.class = "none" /\ ce = "none" /\ Return("none", [o.result EXCEPT !.retries = retries])
    <3>1. PICK res : res = [o.result EXCEPT !.retries = retries]
      OBVIOUS
    <3>2. "parse" \in DOMAIN res
      BY <1>5, <2>2, <3>1 DEF EndsWith
    <3>3. Returned("none", res)
      BY <1>5, <2>1, <2>2, <3>1, <3>2 DEF Returned
    <3> QED
      BY <3>3
  <2>3. CASE ((o.class = "none" /\ ce # "none") \/ IsParentContextAbort(ce) \/ IsAdapterTimeout(ce)) /\ Return(ce, None)
    <3>1. Returned(ce, None)
      BY <2>1, <2>3 DEF Returned, IsParentContextAbort, IsAdapterTimeout
    <3> QED
      BY <3>1
  <2>4. CASE o.class # "none" /\ ~IsParentContextAbort(ce) /\ ~IsAdapterTimeout(ce) /\ pc' \in {"head", "fail"} /\ UNCHANGED ret
    <3>1. ~IsParentContextAbort(o.class)
      BY <1>5, <2>4 DEF EndsWith, ClassifyOpError, IsParentContextAbort, IsAdapterTimeout, Ended
    <3>2. Failed(o.class, o.retryable, o.after).class = o.class
      BY DEF Failed
    <3> QED
      BY <1>5, <2>4, <3>1, <3>2 DEF EndsWith
  <2> QED
    BY <1>5, <2>2, <2>3, <2>4 DEF EndsWith
<1>6. CASE pc = "fail" /\ AssessFails
  <2>1. PICK ce : ce = ClassifyOpError(parent, op, last.class)
    OBVIOUS
  <2>2. ClassFits(ce, parent) /\ ce \notin {"config", "none"}
    BY <1>6, <2>1, ClassifiedFits DEF ClassifyOpError, Ended
  <2>3. Returned(ce, None)
    BY <1>6, <2>1, <2>2 DEF AssessFails, Returned
  <2> QED
    BY <2>3
<1> QED
  BY <1>1, <1>2, <1>3, <1>4, <1>5, <1>6, CallSteps
\* Either resolver reports an abort, and blocks.
Aborted == [Resolved("BLOCK", "provider_context_canceled") EXCEPT !.abort = TRUE]

LEMMA AbortBlocks == Aborted.abort = TRUE /\ Aborted.decision = "BLOCK"
BY DEF Aborted, Resolved

LEMMA AbortAnswer ==
  ASSUME NEW c, NEW class, NEW res, IsParentContextAbort(class)
  PROVE  ReEvaluateAnswer(c, class, res) = Aborted /\ ShadowAnswer(c, class, res) = Aborted
<1>1. \A policy : FromAnswer(c, policy, class, res) = Aborted
  BY DEF FromAnswer, Aborted
<1> QED
  BY <1>1 DEF ReEvaluateAnswer, ShadowAnswer

\* What the decision made of the answer: its class, and the outcome.
Answered(class, o) ==
  /\ class = IF ret.class = "none" /\ ~ValidateProviderResultForRequest(req, ret.res) THEN "parse" ELSE ret.class
  /\ o = IF who = "retry" THEN ReEvaluateAnswer(in, class, ret.res) ELSE ShadowAnswer(in, class, ret.res)

LEMMA DecideAnswers ==
  ASSUME Decide
  PROVE  /\ pc = "returned" /\ pc' = "done" /\ \E class, o : Answered(class, o) /\ out' = o
         /\ UNCHANGED <<provider, who, rec, act, in, req, attempt, retries, last, parent, due, op, ret>>
<1>1. PICK class : class = IF ret.class = "none" /\ ~ValidateProviderResultForRequest(req, ret.res) THEN "parse" ELSE ret.class
  OBVIOUS
<1>2. PICK o : o = IF who = "retry" THEN ReEvaluateAnswer(in, class, ret.res) ELSE ShadowAnswer(in, class, ret.res)
  OBVIOUS
<1>3. out' = o
  BY <1>1, <1>2 DEF Decide
<1>4. Answered(class, o)
  BY <1>1, <1>2 DEF Answered
<1>5. /\ pc = "returned" /\ pc' = "done"
      /\ UNCHANGED <<provider, who, rec, act, in, req, attempt, retries, last, parent, due, op, ret>>
  BY DEF Decide, decision, call, ctx
<1> QED
  BY <1>3, <1>4, <1>5

\* The steps outside the loop.
Opens == \E p \in PolicyClasses, b \in BlockClasses, a \in Actions, c \in ClaimLists : Open(p, b, a, c)
Justifies == \E j \in Justifications : Justify(j)
Retries == \E a \in Actions, c \in Contexts, i \in Inputs : Retry(a, c, i)
Shadows == \E c \in Contexts, i \in Inputs : Shadow(c, i)
ContextStep == (\E how \in {"canceled", "deadline"} : ParentEnds(how)) \/ DeadlinePasses \/ TimerFires

LEMMA NextSteps ==
  ASSUME [Next]_vars
  PROVE  Opens \/ Justifies \/ Retries \/ Shadows \/ ProviderSteps \/ Decide \/ ContextStep \/ UNCHANGED vars
BY DEF Next, Opens, Justifies, Retries, Shadows, ProviderSteps, ContextStep, Done

\* Before the call there is nothing returned, and no step touches the contexts.
LEMMA CallerSteps ==
  ASSUME Opens \/ Justifies \/ Retries \/ Shadows
  PROVE  /\ pc \in {"idle", "open", "justified"} /\ pc' \in {"open", "justified", "enter", "done"}
         /\ UNCHANGED <<provider, attempt, retries, last, parent, due, op, ret>>
<1>1. CASE Opens
  BY <1>1 DEF Opens, Open, call, ctx
<1>2. CASE Justifies
  BY <1>2 DEF Justifies, Justify, call, ctx
<1>3. CASE Retries
  BY <1>3 DEF Retries, Retry, Ask, call, ctx
<1>4. CASE Shadows
  BY <1>4 DEF Shadows, Shadow, Ask, call, ctx
<1> QED
  BY <1>1, <1>2, <1>3, <1>4

\* A context ends, or time passes, only while the call is out.
LEMMA ContextSteps ==
  ASSUME ContextStep
  PROVE  /\ InCall /\ UNCHANGED <<provider, pc, who, rec, act, in, req, attempt, retries, last, ret, out, audit>>
         /\ parent' \in {parent} \union Ended /\ op' \in {op, "deadline"}
BY DEF ContextStep, ParentEnds, DeadlinePasses, TimerFires, InCall, decision, call, ctx, Ended

LEMMA CallInit == Init => CallInv
BY DEF Init, CallInv, AbortKeepsIdentity

LEMMA CallStep ==
  ASSUME CallInv, [Next]_vars
  PROVE  CallInv'
<1>1. CASE Opens \/ Justifies \/ Retries \/ Shadows
  BY <1>1, CallerSteps DEF CallInv, AbortKeepsIdentity
<1>2. CASE ProviderSteps
  <2>1. CallFrame
    BY <1>2, CallSteps
  <2>2. CASE /\ pc' \in {"head", "sleep", "http", "fail"} /\ ret' = ret
             /\ pc' = "fail" => \E e : last' = e /\ e.class \notin {"none", "config"} /\ ~IsParentContextAbort(e.class)
    BY <2>1, <2>2 DEF CallFrame, InCall, CallInv, AbortKeepsIdentity
  <2>3. ASSUME NEW class, NEW res, Returned(class, res) PROVE CallInv'
    <3>1. PICK t : t = [class |-> class, res |-> res, parent |-> parent, attempts |-> attempt]
      OBVIOUS
    <3>2. /\ t.class = class /\ t.res = res /\ t.parent = parent /\ DOMAIN t = {"class", "res", "parent", "attempts"}
          /\ ret' = t /\ pc' = "returned" /\ ClassFits(class, parent)
          /\ class = "none" => "parse" \in DOMAIN res
      BY <2>3, <3>1 DEF Returned
    <3>3. "parent" \in DOMAIN t /\ ClassFits(t.class, t.parent) /\ (t.class = "none" => "parse" \in DOMAIN t.res)
      BY <3>2
    <3> QED
      BY <2>1, <3>2, <3>3 DEF CallFrame, CallInv, AbortKeepsIdentity
  <2> QED
    BY <1>2, <2>2, <2>3, CallReturns
<1>3. CASE Decide
  <2>1. PICK class, o : Answered(class, o) /\ out' = o
    BY <1>3, DecideAnswers
  <2>2. /\ pc = "returned" /\ pc' = "done"
        /\ UNCHANGED <<provider, who, rec, act, in, req, attempt, retries, last, parent, due, op, ret>>
    BY <1>3, DecideAnswers
  <2>3. ClassFits(ret.class, ret.parent)
    BY <2>2 DEF CallInv
  <2>4. ASSUME ret.parent # "live", ret.class \notin {"config", "oversized"}
        PROVE  o.abort = TRUE /\ o.decision = "BLOCK"
    <3>1. IsParentContextAbort(ret.class)
      BY <2>3, <2>4 DEF ClassFits, IsParentContextAbort, Ended
    <3>2. class = ret.class
      BY <2>1, <3>1 DEF Answered, IsParentContextAbort
    <3>3. IsParentContextAbort(class)
      BY <3>1, <3>2
    <3>4. ReEvaluateAnswer(in, class, ret.res) = Aborted /\ ShadowAnswer(in, class, ret.res) = Aborted
      BY <3>3, AbortAnswer
    <3>5. o = ReEvaluateAnswer(in, class, ret.res) \/ o = ShadowAnswer(in, class, ret.res)
      BY Zenon, <2>1 DEF Answered
    <3>6. o = Aborted
      BY Zenon, <3>4, <3>5
    <3> QED
      BY Zenon, <3>6, AbortBlocks
  <2>5. AbortKeepsIdentity'
    <3>1. IsParentContextAbort(ret.class) => ret.parent = ret.class
      BY <2>3 DEF ClassFits
    <3>2. ret.parent # "live" /\ req # None /\ ret.class \notin {"config", "oversized"} => o.abort /\ o.decision = "BLOCK"
      BY <2>4
    <3> QED
      BY <2>1, <2>2, <3>1, <3>2 DEF AbortKeepsIdentity
  <2> QED
    BY <2>2, <2>5 DEF CallInv
<1>4. CASE ContextStep
  BY <1>4, ContextSteps DEF CallInv, AbortKeepsIdentity, InCall
<1>5. CASE UNCHANGED vars
  BY <1>5 DEF vars, decision, call, ctx, CallInv, AbortKeepsIdentity
<1> QED
  BY <1>1, <1>2, <1>3, <1>4, <1>5, NextSteps

LEMMA CallSafe == Spec => []CallInv
<1>1. CallInv /\ [Next]_vars => CallInv'
  BY CallStep
<1> QED
  BY <1>1, CallInit, PTL DEF Spec

\* The caller's cancellation is never mistaken for the provider's own timeout,
\* nor scored (classifyOpError in each attempt of Assess, ReEvaluate and
\* EvaluateShadow on a context error), for any providers and responses.
THEOREM AbortsKept == Spec => []AbortKeepsIdentity
<1>1. CallInv => AbortKeepsIdentity
  BY DEF CallInv
<1> QED
  BY <1>1, CallSafe, PTL
-----------------------------------------------------------------------------
(* The appeal: what was opened, justified and asked *)

RecFields == {"id", "state", "class", "policyClass", "just", "claims"}
OnRecord(r) == DOMAIN r = RecFields /\ r.policyClass = PRODUCTIVITY /\ r.class \in Productive
HasJust(r) == \E j \in Justifications : r.just = HashJustification(j) /\ ValidateJustification(j, KnownEvidence, r.claims)
Harmless(a, c) == ~a.secret /\ ~a.cross /\ a.side \notin {"deploy", "payment", "permission"} /\ ~c.hardBlock

EarnedInv ==
  /\ pc = "idle" => out = Undecided
  /\ pc \in {"open", "justified"} => who = "retry"
  /\ who = "retry" /\ (pc \in {"open", "justified"} \/ InCall) => OnRecord(rec)
  /\ who = "retry" /\ (pc = "justified" \/ InCall) => HasJust(rec)
  /\ who = "retry" /\ InCall => Harmless(act, in) /\ req # None
  /\ GrantEarned

\* A request has its three parts.
LEMMA RequestParts ==
  ASSUME NEW base, NEW fixture
  PROVE  DOMAIN NewProviderRequest(base, fixture) = {"ok", "input", "prompt"}
BY DEF NewProviderRequest, RequestFor

LEMMA UndecidedGrants == ~Grants(Undecided)
BY DEF Grants, Undecided, Resolved

LEMMA OpenEarns ==
  ASSUME CallInv, EarnedInv, Opens
  PROVE  EarnedInv'
<1>1. PICK p \in PolicyClasses, b \in BlockClasses, a \in Actions, c \in ClaimLists : Open(p, b, a, c)
  BY DEF Opens
<1> DEFINE stored == StoredBlockClass(p, b, a)
           appeal == ClassifyAppealability(stored, a)
<1>2. PICK st, cl : rec' = [id |-> 1, state |-> st, class |-> stored, policyClass |-> NormalizePolicyClass(p),
                            just |-> NoJust, claims |-> cl]
  BY <1>1 DEF Open
<1>3. /\ pc = "idle" /\ who' = "retry" /\ out' = out
      /\ pc' = IF appeal = "APPEALABLE" THEN "open" ELSE "done"
  BY <1>1 DEF Open
<1>4. ~Grants(out)
  BY <1>3, UndecidedGrants DEF EarnedInv
<1>5. pc' = "open" => OnRecord(rec')
  <2> SUFFICES ASSUME pc' = "open" PROVE OnRecord(rec')
    OBVIOUS
  <2>1. NormalizePolicyClass(p) = PRODUCTIVITY /\ stored \in Productive
    BY <1>3, AppealableStored
  <2> HIDE DEF stored
  <2> QED
    BY <1>2, <2>1 DEF OnRecord, RecFields
<1>6. GrantEarned'
  BY <1>3, <1>4 DEF GrantEarned
<1> QED
  BY <1>3, <1>5, <1>6 DEF EarnedInv, InCall

LEMMA JustifyEarns ==
  ASSUME CallInv, EarnedInv, Justifies
  PROVE  EarnedInv'
<1>1. PICK j \in Justifications : Justify(j)
  BY DEF Justifies
<1>2. /\ pc = "open" /\ pc' = "justified" /\ who' = who
      /\ ValidateJustification(j, KnownEvidence, rec.claims)
      /\ rec' = [rec EXCEPT !.state = "JUSTIFIED", !.just = HashJustification(j)]
  BY <1>1 DEF Justify, decision
<1>3. PICK r : r = rec'
  OBVIOUS
<1>4. OnRecord(rec) /\ r = [rec EXCEPT !.state = "JUSTIFIED", !.just = HashJustification(j)]
  BY <1>2, <1>3 DEF EarnedInv
<1>5. /\ DOMAIN r = RecFields /\ r.policyClass = rec.policyClass /\ r.class = rec.class
      /\ r.claims = rec.claims /\ r.just = HashJustification(j)
  BY <1>4 DEF OnRecord, RecFields
<1>6. OnRecord(r) /\ HasJust(r)
  BY <1>2, <1>4, <1>5 DEF OnRecord, HasJust
<1>7. GrantEarned'
  BY <1>2 DEF GrantEarned
<1> QED
  BY <1>2, <1>3, <1>6, <1>7 DEF EarnedInv, InCall

\* The state changes, and nothing else of the record.
LEMMA Retried ==
  ASSUME NEW r, NEW s, OnRecord(r), HasJust(r), s = [r EXCEPT !.state = "RETRY_PENDING"]
  PROVE  OnRecord(s) /\ HasJust(s)
<1>1. /\ DOMAIN s = RecFields /\ s.policyClass = r.policyClass /\ s.class = r.class
      /\ s.claims = r.claims /\ s.just = r.just
  BY DEF OnRecord, RecFields
<1> QED
  BY <1>1 DEF OnRecord, HasJust

LEMMA RetryEarns ==
  ASSUME CallInv, EarnedInv, Retries
  PROVE  EarnedInv'
<1>1. PICK a \in Actions, c \in Contexts, i \in Inputs : Retry(a, c, i)
  BY DEF Retries
<1>2. PICK class : class = NormalizePolicyClass(OrElse(c.policyClass, rec.policyClass))
  OBVIOUS
<1>3. PICK c1 : c1 = [c EXCEPT !.provider = @ /\ provider.kind # "none", !.policyClass = class]
  OBVIOUS
<1>4. PICK rules : rules = ReEvaluateRules(rec, a, c1)
  OBVIOUS
<1>5. /\ pc = "justified" /\ who' = who /\ act' = a /\ rec' = [rec EXCEPT !.state = "RETRY_PENDING"] /\ in' = c1 /\ ret' = ret
      /\ IF rules.reason # "ask" THEN pc' = "done" /\ out' = rules /\ req' = req
         ELSE Ask(c1, class, i, FailMatrix(class, "provider"))
  BY <1>1, <1>2, <1>3, <1>4 DEF Retry
<1>6. who = "retry" /\ ret = None /\ OnRecord(rec) /\ HasJust(rec)
  BY <1>5 DEF EarnedInv, CallInv
<1>7. PICK s : s = rec'
  OBVIOUS
<1>8. OnRecord(s) /\ HasJust(s)
  BY <1>5, <1>6, <1>7, Retried
<1>9. CASE rules.reason # "ask"
  <2>1. pc' = "done" /\ out' = rules
    BY <1>5, <1>9
  <2>2. Grants(rules) => c1.exceptions # {} /\ Harmless(a, c1)
    BY <1>4, GrantingRules DEF Harmless
  <2>3. None.class = "none"
    BY DEF None
  <2>4. GrantEarned'
    BY <1>5, <1>6, <1>7, <1>8, <2>1, <2>2, <2>3 DEF GrantEarned, OnRecord, HasJust, Harmless
  <2> QED
    BY <1>5, <2>1, <2>4 DEF EarnedInv, InCall
<1>10. CASE rules.reason = "ask"
  <2>1. Ask(c1, class, i, FailMatrix(class, "provider"))
    BY <1>5, <1>10
  <2>2. Harmless(a, c1)
    BY <1>4, <1>10, AskingRules DEF Harmless
  <2>3. PICK r : /\ DOMAIN r = {"ok", "input", "prompt"}
                 /\ IF r.ok THEN req' = r /\ pc' = "enter" ELSE pc' = "done" /\ out' = FailMatrix(class, "provider")
    BY <2>1, RequestParts DEF Ask
  <2>4. CASE r.ok
    <3>1. req' # None
      BY <2>3, <2>4 DEF None
    <3>2. pc' = "enter"
      BY <2>3, <2>4
    <3> QED
      BY <1>5, <1>6, <1>7, <1>8, <2>2, <3>1, <3>2 DEF EarnedInv, InCall, GrantEarned
  <2>5. CASE ~r.ok
    <3>1. pc' = "done" /\ out' = FailMatrix(class, "provider")
      BY <2>3, <2>5
    <3>2. ~Grants(FailMatrix(class, "provider"))
      BY DEF FailMatrix, FailOpen, FailClosed, Grants, Resolved, IsProviderFailOpenReason
    <3> QED
      BY <3>1, <3>2 DEF EarnedInv, InCall, GrantEarned
  <2> QED
    BY <2>4, <2>5
<1> QED
  BY <1>9, <1>10

LEMMA DecideEarns ==
  ASSUME CallInv, EarnedInv, Decide
  PROVE  EarnedInv'
<1>1. PICK class, o : Answered(class, o) /\ out' = o
  BY DecideAnswers
<1>2. /\ pc = "returned" /\ pc' = "done"
      /\ UNCHANGED <<provider, who, rec, act, in, req, attempt, retries, last, parent, due, op, ret>>
  BY DecideAnswers
<1>3. ASSUME who = "retry", Grants(o)
      PROVE  /\ in.exceptions # {} \/ ret.res.severity < Threshold(in)
             /\ ret.class = "none" /\ ret.res # None
  <2>1. o = FromAnswer(in, NormalizePolicyClass(in.policyClass), class, ret.res)
    BY Zenon, <1>1, <1>3 DEF Answered, ReEvaluateAnswer
  <2>2. class = "none" /\ (ret.res.severity < Threshold(in) \/ in.exceptions # {})
    BY Zenon, <1>3, <2>1, GrantingAnswer
  <2>3. ret.class = "none"
    BY <1>1, <2>2 DEF Answered
  <2>4. "parse" \in DOMAIN ret.res
    BY <1>2, <2>3 DEF CallInv
  <2>5. ret.res # None
    BY <2>4 DEF None
  <2> QED
    BY <2>2, <2>3, <2>5
<1>4. who = "retry" => OnRecord(rec) /\ HasJust(rec) /\ Harmless(act, in) /\ req # None
  BY <1>2 DEF EarnedInv, InCall
<1>5. GrantEarned'
  BY <1>1, <1>2, <1>3, <1>4 DEF GrantEarned, OnRecord, HasJust, Harmless
<1> QED
  BY <1>2, <1>5 DEF EarnedInv, InCall

LEMMA EarnedInit == Init => EarnedInv
BY DEF Init, EarnedInv, GrantEarned, InCall

LEMMA EarnedStep ==
  ASSUME CallInv, EarnedInv, [Next]_vars
  PROVE  EarnedInv'
<1>1. CASE Shadows
  <2>1. pc = "idle" /\ who' = "shadow" /\ pc' \in {"enter", "done"}
    BY <1>1 DEF Shadows, Shadow, Ask
  <2> QED
    BY <2>1 DEF EarnedInv, InCall, GrantEarned
<1>2. CASE ProviderSteps
  <2>1. CallFrame
    BY <1>2, CallSteps
  <2>2. pc' \in {"head", "sleep", "http", "fail", "returned"}
    BY <1>2, CallReturns DEF Returned
  <2> QED
    BY <2>1, <2>2 DEF CallFrame, InCall, EarnedInv, GrantEarned
<1>3. CASE ContextStep
  BY <1>3, ContextSteps DEF EarnedInv, InCall, GrantEarned
<1>4. CASE UNCHANGED vars
  BY <1>4 DEF vars, decision, call, ctx, EarnedInv, InCall, GrantEarned
<1> QED
  BY <1>1, <1>2, <1>3, <1>4, NextSteps, OpenEarns, JustifyEarns, RetryEarns, DecideEarns

\* A retry is granted only for an appealable block with a justification on
\* record, for a harmless action, and on a valid answer below the threshold or
\* an exception; no failure, timeout or cancellation of the provider grants one
\* (AttemptRetry, ReEvaluate), for any actions, contexts and providers.
THEOREM GrantsAreEarned == Spec => []GrantEarned
<1>1. CallInv /\ EarnedInv /\ [Next]_vars => EarnedInv'
  BY EarnedStep
<1>2. EarnedInv => GrantEarned
  BY DEF EarnedInv
<1> QED
  BY <1>1, <1>2, EarnedInit, CallSafe, PTL DEF Spec
-----------------------------------------------------------------------------
(* The request: bounded to sequences of events, and valid as it was built *)

IsSeq(s) == \E S : s \in Seq(S)

\* What is taken is a prefix.
LEMMA TakeIsSeq ==
  ASSUME NEW src, NEW limit \in Int, NEW used
  PROVE  IsSeq(Take(src, limit, used).out) /\ Len(Take(src, limit, used).out) \in Nat
<1> DEFINE Prefix(k) == [i \in 1..k |-> src[i]]
           T == {k \in 1..limit : k <= Len(src) /\ used + DigestByteCount(Prefix(k)) <= MaxTrajectoryBytes}
           n == Cardinality(T)
<1>1. n \in Nat
  <2>1. IsFiniteSet(1..limit) /\ T \subseteq 1..limit
    BY FS_Interval
  <2> HIDE DEF T
  <2> QED
    BY <2>1, FS_Subset, FS_CardinalityType
<1>2. \A a, b, c : [out |-> a, used |-> b, stop |-> c].out = a
  OBVIOUS
<1>3. Take(src, limit, used).out = Prefix(n)
  BY ONLY Zenon, <1>2 DEF Take
<1> HIDE DEF n, T
<1>4. Prefix(n) \in Seq({src[i] : i \in 1..n})
  BY <1>1
<1> HIDE DEF Prefix
<1> QED
  BY <1>3, <1>4 DEF IsSeq

LEMMA BoundIsSeq ==
  ASSUME NEW recent, NEW related
  PROVE  IsSeq(BoundTrajectory(recent, related).recent) /\ IsSeq(BoundTrajectory(recent, related).related)
<1>1. PICK r : r = Take(SortEventDigests(recent), MaxRecentEvents, 0)
  OBVIOUS
<1>2. PICK l : l = TakeRelated(related, r)
  OBVIOUS
<1>3. IsSeq(r.out) /\ Len(r.out) \in Nat
  BY <1>1, TakeIsSeq, BoundsAssumption
<1>4. IsSeq(l.out)
  <2>1. PICK limit : limit = IF MaxRecentEvents - Len(r.out) < MaxRelatedEvents THEN MaxRecentEvents - Len(r.out) ELSE MaxRelatedEvents
    OBVIOUS
  <2>2. limit \in Int
    BY <1>3, <2>1, BoundsAssumption
  <2>3. l = Take(SortEventDigests(related), limit, r.used)
    BY <1>2, <2>1 DEF TakeRelated
  <2> QED
    BY <2>2, <2>3, TakeIsSeq
<1>5. BoundTrajectory(recent, related) = WindowOf(recent, related, r, l)
  BY <1>1, <1>2 DEF BoundTrajectory, TakeBoth
<1>6. \A a, b, c : [recent |-> a, related |-> b, window |-> c].recent = a /\ [recent |-> a, related |-> b, window |-> c].related = b
  OBVIOUS
<1>7. WindowOf(recent, related, r, l).recent = r.out /\ WindowOf(recent, related, r, l).related = l.out
  BY ONLY Zenon, <1>6 DEF WindowOf
<1> QED
  BY <1>3, <1>4, <1>5, <1>7

\* What production accepts is accepted of any request.
LEMMA ProductionIsStricter ==
  ASSUME NEW x, ValidateClassifierInput(x, TRUE)
  PROVE  ValidateClassifierInput(x, FALSE)
<1>1. ASSUME NEW events, NEW maxN, ValidateEventDigests(events, maxN, TRUE)
      PROVE  ValidateEventDigests(events, maxN, FALSE)
  BY ONLY Zenon, <1>1 DEF ValidateEventDigests
<1>2. \A pa : ValidateProposedActionProduction(pa) => ValidateProposedActionForModel(pa)
  BY DEF ValidateProposedActionProduction
<1> QED
  BY Zenon, <1>1, <1>2 DEF ValidateClassifierInput

\* The blocks of the suffix: their types, and the events the second one shows.
LEMMA SuffixBlocks ==
  ASSUME NEW x
  PROVE  /\ \A b \in ToSet(BuildDynamicSuffix(x)) : b.type \in {"task", "evidence", "action", "challenge", "meta"}
         /\ BuildDynamicSuffix(x)[2].text.recent = x.recent
         /\ BuildDynamicSuffix(x)[2].text.related = x.related
<1>1. PICK t1, t2, t3, t4, t5 :
         /\ t1 = Block("user", "task", [policyClass |-> x.policyClass, ruleset |-> x.ruleset,
                         revision |-> x.contractRevision, anchor |-> x.anchor])
         /\ t2 = Block("user", "evidence", [ids |-> x.recentIDs \o x.relatedIDs, recent |-> x.recent,
                         related |-> x.related, window |-> x.window])
         /\ t3 = Block("user", "action", x.action)
         /\ t4 = Block("user", "challenge", x.challenge)
         /\ t5 = Block("user", "meta", x.exceptions)
  OBVIOUS
<1>2. PICK e : e = IF x.exceptions = {} THEN <<>> ELSE <<t5>>
  OBVIOUS
<1>3. BuildDynamicSuffix(x) = <<t1, t2, t3, t4>> \o e
  BY <1>1, <1>2 DEF BuildDynamicSuffix
<1>4. /\ t1.type = "task" /\ t2.type = "evidence" /\ t3.type = "action" /\ t4.type = "challenge" /\ t5.type = "meta"
      /\ t2.text.recent = x.recent /\ t2.text.related = x.related
  BY <1>1 DEF Block
<1>5. PICK B : B = {t1, t2, t3, t4, t5}
  OBVIOUS
<1>6. PICK s : s = <<t1, t2, t3, t4>>
  OBVIOUS
<1>7. t1 \in B /\ t2 \in B /\ t3 \in B /\ t4 \in B /\ t5 \in B
  BY ONLY <1>5
<1>8. \A b \in B : b.type \in {"task", "evidence", "action", "challenge", "meta"}
  BY ONLY <1>4, <1>5
<1>9. s \in Seq(B) /\ Len(s) = 4 /\ s[2] = t2
  BY ONLY <1>6, <1>7
<1>10. e \in Seq(B)
  <2>1. <<>> \in Seq(B) /\ <<t5>> \in Seq(B)
    BY ONLY <1>7
  <2> QED
    BY ONLY Zenon, <1>2, <2>1
<1>11. ToSet(s \o e) \subseteq B /\ (s \o e)[2] = s[2]
  <2>1. PICK d : d = s \o e
    OBVIOUS
  <2>2. d \in Seq(B) /\ d[2] = s[2]
    <3>1. s \o e \in Seq(B)
      BY ONLY <1>9, <1>10
    <3>2. Len(s) \in Nat /\ Len(e) \in Nat /\ 2 \in 1..Len(s)
      BY ONLY <1>9, <1>10
    <3>3. \A i \in 1..Len(s) : (s \o e)[i] = s[i]
      BY ONLY <1>9, <1>10, <3>2
    <3> QED
      BY ONLY <2>1, <3>1, <3>2, <3>3
  <2>3. \A i \in DOMAIN d : d[i] \in B
    BY ONLY <2>2
  <2>4. ToSet(d) \subseteq B
    BY ONLY <2>3 DEF ToSet
  <2> QED
    BY ONLY <2>1, <2>2, <2>4
<1>12. BuildDynamicSuffix(x) = s \o e
  BY ONLY <1>3, <1>6
<1> QED
  BY ONLY <1>4, <1>8, <1>9, <1>11, <1>12

LEMMA PlanIsValid ==
  ASSUME NEW x
  PROVE  ValidatePromptPlan(BuildPromptPlan(x), x)
<1>1. PICK d, s : d = BuildDynamicSuffix(x) /\ s = StablePrefix
  OBVIOUS
<1>2. PICK p : p = BuildPromptPlan(x)
  OBVIOUS
<1>3. /\ p.stable = s /\ p.dynamic = d /\ p.stableHash = Sha(s) /\ p.inputHash = Sha(d) /\ p.promptHash = PromptHash(s, d)
  BY <1>1, <1>2 DEF BuildPromptPlan
<1>4. \A b \in ToSet(s) : b.type \in {"policy", "schema", "reason_codes", "rules", "example", "meta"}
  BY <1>1 DEF StablePrefix, Block, ToSet
<1>5. \A b \in ToSet(d) : b.type \in {"task", "evidence", "action", "challenge", "meta"}
  BY <1>1, SuffixBlocks
<1> QED
  BY <1>1, <1>2, <1>3, <1>4, <1>5 DEF ValidatePromptPlan

-----------------------------------------------------------------------------
(* A request that was built: the prompt shows its input, and unless it is a *)
(* fixture's it is valid, with sequences of events.                         *)

Built(rq) ==
  /\ rq.prompt = BuildPromptPlan(rq.input)
  /\ ~rq.input.legacy => /\ ~LegacyOnly(rq.input) /\ ValidateProviderRequest(rq)
                         /\ HasDigests(rq.input) => IsSeq(rq.input.recent) /\ IsSeq(rq.input.related)

InputFields == {"policyClass", "exceptions", "legacy", "recent", "related", "window", "recentIDs", "relatedIDs"}

\* Bounding an input keeps whose it is, and its ids mirror its digests.
LEMMA BoundedInput ==
  ASSUME NEW x, InputFields \subseteq DOMAIN x
  PROVE  /\ Bounded(x).legacy = x.legacy
         /\ ~LegacyOnly(x) => ~LegacyOnly(Bounded(x))
         /\ HasDigests(Bounded(x)) => IsSeq(Bounded(x).recent) /\ IsSeq(Bounded(x).related)
<1>1. CASE HasDigests(x)
  <2>1. PICK b : b = BoundTrajectory(x.recent, x.related)
    OBVIOUS
  <2>2. PICK w : w = MergeWindowMeta(x.window, b.window, b.recent, b.related)
    OBVIOUS
  <2>3. PICK y : y = [x EXCEPT !.recent = b.recent, !.related = b.related, !.window = w,
                               !.recentIDs = Ids(b.recent), !.relatedIDs = Ids(b.related)]
    OBVIOUS
  <2>4. Bounded(x) = y
    BY <1>1, <2>1, <2>2, <2>3 DEF Bounded, Mirrored
  <2>5. /\ y.legacy = x.legacy /\ y.recent = b.recent /\ y.related = b.related
        /\ y.recentIDs = Ids(b.recent) /\ y.relatedIDs = Ids(b.related)
    BY <2>3 DEF InputFields
  <2>6. Ids(<<>>) = <<>>
    BY DEF Ids
  <2>7. ~LegacyOnly(y)
    BY <2>5, <2>6 DEF LegacyOnly
  <2>8. IsSeq(y.recent) /\ IsSeq(y.related)
    BY <2>1, <2>5, BoundIsSeq
  <2> QED
    BY <2>4, <2>5, <2>7, <2>8
<1>2. CASE ~HasDigests(x)
  <2>1. Bounded(x) = x
    BY <1>2 DEF Bounded
  <2> QED
    BY <1>2, <2>1
<1> QED
  BY <1>1, <1>2

LEMMA RequestIsBuilt ==
  ASSUME NEW x, InputFields \subseteq DOMAIN x, NEW fixture \in BOOLEAN,
         NEW rq, rq = NewProviderRequest(x, fixture), rq.ok
  PROVE  Built(rq)
<1>1. PICK class : class = IF fixture THEN x.policyClass ELSE OrElse(x.policyClass, PRODUCTIVITY)
  OBVIOUS
<1>2. PICK in1 : in1 = [x EXCEPT !.legacy = fixture, !.policyClass = class]
  OBVIOUS
<1>3. PICK in2 : in2 = Bounded(in1)
  OBVIOUS
<1>4. rq = RequestFor(in1, in2, fixture)
  BY <1>1, <1>2, <1>3 DEF NewProviderRequest
<1>5. InputFields \subseteq DOMAIN in1 /\ in1.legacy = fixture
  BY <1>2 DEF InputFields
<1>6. /\ rq.input = in2 /\ rq.prompt = BuildPromptPlan(in2)
      /\ fixture \/ ~LegacyOnly(in1)
      /\ ValidateClassifierInput(in2, ~fixture)
  BY <1>4 DEF RequestFor
<1>7. /\ in2.legacy = fixture
      /\ ~LegacyOnly(in1) => ~LegacyOnly(in2)
      /\ HasDigests(in2) => IsSeq(in2.recent) /\ IsSeq(in2.related)
  BY <1>3, <1>5, BoundedInput
<1>8. CASE fixture = TRUE
  <2>1. rq.input.legacy = TRUE
    BY <1>6, <1>7, <1>8
  <2> QED
    BY <1>6, <2>1 DEF Built
<1>9. CASE fixture = FALSE
  <2>1. ~LegacyOnly(in2) /\ ValidateClassifierInput(in2, TRUE)
    BY <1>6, <1>7, <1>9
  <2>2. ValidateClassifierInput(in2, FALSE)
    BY <2>1, ProductionIsStricter
  <2>3. ValidatePromptPlan(BuildPromptPlan(in2), in2)
    BY PlanIsValid
  <2>4. ValidateProviderRequest(rq)
    BY <1>6, <2>1, <2>2, <2>3 DEF ValidateProviderRequest
  <2> QED
    BY <1>6, <1>7, <2>1, <2>4 DEF Built
<1> QED
  BY <1>8, <1>9
-----------------------------------------------------------------------------
(* The answer: scored only when it is valid for the request *)

ScoredReason(reason) == reason \in {"below_threshold", "above_threshold"}

LEMMA ScoredAnswer ==
  ASSUME NEW c, NEW policy, NEW class, NEW res, ScoredReason(FromAnswer(c, policy, class, res).reason)
  PROVE  class = "none" /\ res.parse = "ok"
<1>1. PICK o : o = FromAnswer(c, policy, class, res)
  OBVIOUS
<1>2. \A what \in {"provider", "parse", "severity"} : o # FailMatrix(policy, what)
  BY <1>1 DEF FailMatrix, FailOpen, FailClosed, Resolved, ScoredReason
<1>3. o # Aborted
  BY <1>1 DEF Aborted, Resolved, ScoredReason
<1> QED
  BY <1>1, <1>2, <1>3 DEF FromAnswer, Aborted

LEMMA ScoredShadow ==
  ASSUME NEW c, NEW class, NEW res, ScoredReason(ShadowAnswer(c, class, res).reason)
  PROVE  class = "none" /\ res.parse = "ok"
<1>1. CASE IsParentContextAbort(class)
  <2>1. ShadowAnswer(c, class, res) = Aborted
    BY <1>1, AbortAnswer
  <2>2. Aborted.reason = "provider_context_canceled"
    BY DEF Aborted, Resolved
  <2>3. Aborted.reason \in {"below_threshold", "above_threshold"}
    BY ONLY Zenon, <2>1, ScoredReason(ShadowAnswer(c, class, res).reason) DEF ScoredReason
  <2> QED
    BY <2>2, <2>3
<1>2. CASE ~IsParentContextAbort(class)
  <2>1. \/ class = "none" /\ res.parse = "ok"
        \/ ShadowAnswer(c, class, res) = Resolved("ALLOW", "fail_open_productivity")
        \/ ShadowAnswer(c, class, res) = Resolved("BLOCK", "fail_closed_security")
    BY Zenon, <1>2 DEF ShadowAnswer
  <2>2. \A d, reason : Resolved(d, reason).reason = reason
    BY DEF Resolved
  <2>3. ~ScoredReason("fail_open_productivity") /\ ~ScoredReason("fail_closed_security")
    BY DEF ScoredReason
  <2> QED
    BY Zenon, <2>1, <2>2, <2>3
<1> QED
  BY <1>1, <1>2

\* The events a request's prompt shows.
Shows(rq, res) ==
  LET shown == rq.prompt.dynamic[2].text
  IN  ToSet(res.evidence) \subseteq ToSet(Ids(shown.recent \o shown.related))

LEMMA ValidIsShown ==
  ASSUME NEW rq, NEW res, Built(rq), ~rq.input.legacy, ValidateProviderResultForRequest(rq, res), res.parse = "ok"
  PROVE  Shows(rq, res)
<1>1. PICK x : x = rq.input
  OBVIOUS
<1>2. EvidenceOK(res.evidence, EvidenceAllowlistShownOnly(x))
  BY <1>1 DEF ValidateProviderResultForRequest
<1>3. \A i \in DOMAIN res.evidence : res.evidence[i] \in EvidenceAllowlistShownOnly(x)
  BY <1>2 DEF EvidenceOK
<1>4. PICK recent, related : recent = x.recent /\ related = x.related
  OBVIOUS
<1>5. EvidenceAllowlistShownOnly(x) = IF HasDigests(x) THEN ToSet(Ids(recent)) \union ToSet(Ids(related)) ELSE {}
  BY <1>1, <1>4 DEF EvidenceAllowlistShownOnly, EvidenceAllowlistFromDigests, HasDigests
<1>6. rq.prompt.dynamic[2].text.recent = recent /\ rq.prompt.dynamic[2].text.related = related
  <2>1. rq.prompt.dynamic = BuildDynamicSuffix(x)
    BY <1>1 DEF Built, BuildPromptPlan
  <2> QED
    BY <1>4, <2>1, SuffixBlocks
<1>7. ASSUME HasDigests(x) PROVE ToSet(Ids(recent)) \union ToSet(Ids(related)) \subseteq ToSet(Ids(recent \o related))
  <2>1. IsSeq(recent) /\ IsSeq(related)
    BY <1>1, <1>4, <1>7 DEF Built
  <2>2. PICK S, T : recent \in Seq(S) /\ related \in Seq(T)
    BY <2>1 DEF IsSeq
  <2>3. PICK all : all = recent \o related
    OBVIOUS
  <2>4. recent \in Seq(S \union T) /\ related \in Seq(S \union T)
    BY <2>2
  <2>5. Len(recent) \in Nat /\ Len(related) \in Nat /\ DOMAIN recent = 1..Len(recent) /\ DOMAIN related = 1..Len(related)
    BY <2>2
  <2>6. /\ DOMAIN all = 1..(Len(recent) + Len(related))
        /\ \A i \in 1..Len(recent) : all[i] = recent[i]
        /\ \A i \in 1..Len(related) : all[Len(recent) + i] = related[i]
    BY ONLY <2>3, <2>4, <2>5
  <2>7. /\ \A i \in DOMAIN recent : i \in DOMAIN all /\ all[i] = recent[i]
        /\ \A i \in DOMAIN related : Len(recent) + i \in DOMAIN all /\ all[Len(recent) + i] = related[i]
    BY ONLY <2>5, <2>6
  <2>8. \A s : ToSet(Ids(s)) = {s[i].id : i \in DOMAIN s}
    BY DEF ToSet, Ids
  <2>9. {recent[i].id : i \in DOMAIN recent} \union {related[i].id : i \in DOMAIN related} \subseteq {all[i].id : i \in DOMAIN all}
    BY ONLY <2>7
  <2>10. ToSet(Ids(recent)) \union ToSet(Ids(related)) \subseteq ToSet(Ids(all))
    <3>1. /\ ToSet(Ids(recent)) = {recent[i].id : i \in DOMAIN recent}
          /\ ToSet(Ids(related)) = {related[i].id : i \in DOMAIN related}
          /\ ToSet(Ids(all)) = {all[i].id : i \in DOMAIN all}
      BY ONLY <2>8
    <3> QED
      BY ONLY Zenon, <2>9, <3>1
  <2> QED
    BY ONLY <2>3, <2>10
<1>8. ToSet(res.evidence) \subseteq EvidenceAllowlistShownOnly(x)
  BY <1>3 DEF ToSet
<1> QED
  BY <1>5, <1>6, <1>7, <1>8 DEF Shows
ShownInv ==
  /\ InCall => Built(req)
  /\ pc \in {"head", "sleep", "http", "fail"} => ~req.input.legacy
  /\ pc = "returned" => /\ ret.class = "none" => ~req.input.legacy
                        /\ ret.class = "config" => req.input.legacy
  /\ EvidenceWasShown

LEMMA ShownInit == Init => ShownInv
BY DEF Init, ShownInv, EvidenceWasShown, InCall

\* A call is entered only with a request as it was built.
LEMMA AskBuilds ==
  ASSUME NEW i \in Inputs, NEW c \in Contexts, NEW c1, c1.fixture = c.fixture,
         NEW policy, NEW refused, Ask(c1, policy, i, refused)
  PROVE  (pc' = "enter" /\ Built(req')) \/ pc' = "done"
<1>1. PICK x : x = [i EXCEPT !.policyClass = policy, !.exceptions = c1.exceptions]
  OBVIOUS
<1>2. InputFields \subseteq DOMAIN x
  BY <1>1, InputAssumption DEF InputFields
<1>3. PICK rq : rq = NewProviderRequest(x, c1.fixture)
  OBVIOUS
<1>4. IF rq.ok THEN req' = rq /\ pc' = "enter" ELSE pc' = "done"
  BY <1>1, <1>3 DEF Ask
<1>5. c1.fixture \in BOOLEAN
  BY InputAssumption
<1>6. rq.ok => Built(rq)
  BY <1>2, <1>3, <1>5, RequestIsBuilt
<1> QED
  BY <1>4, <1>6

LEMMA CallerBuilds ==
  ASSUME Retries \/ Shadows
  PROVE  (pc' = "enter" /\ Built(req')) \/ pc' = "done"
<1>1. CASE Retries
  <2>1. PICK a \in Actions, c \in Contexts, i \in Inputs : Retry(a, c, i)
    BY <1>1 DEF Retries
  <2>2. PICK class : class = NormalizePolicyClass(OrElse(c.policyClass, rec.policyClass))
    OBVIOUS
  <2>3. PICK c1 : c1 = [c EXCEPT !.provider = @ /\ provider.kind # "none", !.policyClass = class]
    OBVIOUS
  <2>4. c1.fixture = c.fixture
    BY <2>3, InputAssumption
  <2>5. pc' = "done" \/ Ask(c1, class, i, FailMatrix(class, "provider"))
    BY <2>1, <2>2, <2>3 DEF Retry
  <2> QED
    BY <2>4, <2>5, AskBuilds
<1>2. CASE Shadows
  <2>1. PICK c \in Contexts, i \in Inputs : Shadow(c, i)
    BY <1>2 DEF Shadows
  <2>2. PICK class : class = OrElse(c.policyClass, PRODUCTIVITY)
    OBVIOUS
  <2>3. PICK c1 : c1 = [c EXCEPT !.provider = @ /\ provider.kind # "none", !.policyClass = class]
    OBVIOUS
  <2>4. c1.fixture = c.fixture
    BY <2>3, InputAssumption
  <2>5. pc' = "done" \/ Ask(c1, c1.policyClass, i, ShadowAnswer(c1, "config", [parse |-> "error"]))
    BY <2>1, <2>2, <2>3 DEF Shadow
  <2> QED
    BY <2>4, <2>5, AskBuilds
<1> QED
  BY <1>1, <1>2

LEMMA DecideShows ==
  ASSUME CallInv, ShownInv, Decide
  PROVE  ShownInv'
<1>1. PICK class, o : Answered(class, o) /\ out' = o
  BY DecideAnswers
<1>2. /\ pc = "returned" /\ pc' = "done"
      /\ UNCHANGED <<provider, who, rec, act, in, req, attempt, retries, last, parent, due, op, ret>>
  BY DecideAnswers
<1>3. ASSUME ret.class = "none", ScoredReason(o.reason) PROVE Shows(req, ret.res)
  <2>1. class = "none" /\ ret.res.parse = "ok"
    <3>1. CASE who = "retry"
      <4>1. o = FromAnswer(in, NormalizePolicyClass(in.policyClass), class, ret.res)
        BY Zenon, <1>1, <3>1 DEF Answered, ReEvaluateAnswer
      <4> QED
        BY Zenon, <1>3, <4>1, ScoredAnswer
    <3>2. CASE who # "retry"
      <4>1. o = ShadowAnswer(in, class, ret.res)
        BY Zenon, <1>1, <3>2 DEF Answered
      <4> QED
        BY Zenon, <1>3, <4>1, ScoredShadow
    <3> QED
      BY <3>1, <3>2
  <2>2. ValidateProviderResultForRequest(req, ret.res)
    BY <1>1, <1>3, <2>1 DEF Answered
  <2>3. Built(req) /\ ~req.input.legacy
    BY <1>2, <1>3 DEF ShownInv, InCall
  <2> QED
    BY <2>1, <2>2, <2>3, ValidIsShown
<1>4. ret.class = "config" => req.input.legacy
  BY <1>2 DEF ShownInv
<1>5. EvidenceWasShown'
  BY <1>1, <1>2, <1>3, <1>4 DEF EvidenceWasShown, Shows, ScoredReason
<1> QED
  BY <1>2, <1>5 DEF ShownInv, InCall

LEMMA ProviderShows ==
  ASSUME CallInv, ShownInv, ProviderSteps
  PROVE  ShownInv'
<1>1. CallFrame
  BY CallSteps
<1>2. Built(req) /\ InCall
  BY <1>1 DEF CallFrame, ShownInv
<1>3. pc = "enter" => AssessEnter
  BY CallSteps
<1>4. pc \in {"enter", "head", "sleep", "http", "fail"}
  BY <1>1 DEF CallFrame, InCall
<1>5. LegacyOnly(req.input) \/ ~ValidateProviderRequest(req) => req.input.legacy
  BY <1>2 DEF Built
<1>6. CASE pc' \in {"head", "sleep", "http", "fail"}
  <2>1. ~req.input.legacy
    <3>1. CASE pc = "enter"
      <4>1. AssessEnter /\ pc' # "returned"
        BY <1>3, <1>6, <3>1
      <4> QED
        BY <4>1 DEF AssessEnter, Return
    <3>2. CASE pc # "enter"
      BY <1>4, <3>2 DEF ShownInv
    <3> QED
      BY <3>1, <3>2
  <2> QED
    BY <1>1, <1>2, <1>6, <2>1 DEF CallFrame, ShownInv, EvidenceWasShown
<1>7. ASSUME NEW class, NEW res, Returned(class, res) PROVE ShownInv'
  <2>1. PICK t : t = [class |-> class, res |-> res, parent |-> parent, attempts |-> attempt]
    OBVIOUS
  <2>2. pc' = "returned" /\ ret' = t /\ t.class = class
    BY <1>7, <2>1 DEF Returned
  <2>3. class = "config" => req.input.legacy
    BY <1>5, <1>7 DEF Returned
  <2>4. class = "none" => ~req.input.legacy
    BY <1>7 DEF Returned, ShownInv
  <2> QED
    BY <1>1, <1>2, <2>2, <2>3, <2>4 DEF CallFrame, ShownInv, EvidenceWasShown
<1> QED
  BY <1>6, <1>7, CallReturns

LEMMA ShownStep ==
  ASSUME CallInv, ShownInv, [Next]_vars
  PROVE  ShownInv'
<1>1. CASE Opens \/ Justifies \/ Retries \/ Shadows
  <2>1. ret' = None
    BY <1>1, CallerSteps DEF CallInv
  <2>2. pc' \in {"open", "justified", "done"} \/ (pc' = "enter" /\ Built(req'))
    <3>1. CASE Opens
      BY <3>1 DEF Opens, Open
    <3>2. CASE Justifies
      BY <3>2 DEF Justifies, Justify
    <3> QED
      BY <1>1, <3>1, <3>2, CallerBuilds
  <2> QED
    BY <2>1, <2>2 DEF ShownInv, EvidenceWasShown, InCall
<1>2. CASE ContextStep
  BY <1>2, ContextSteps DEF ShownInv, EvidenceWasShown, InCall
<1>3. CASE UNCHANGED vars
  BY <1>3 DEF vars, decision, call, ctx, ShownInv, EvidenceWasShown, InCall
<1> QED
  BY <1>1, <1>2, <1>3, NextSteps, DecideShows, ProviderShows

\* A scored answer cites only events that the prompt showed, after the bounds,
\* and a request that was built is refused as malformed only when it is a
\* fixture's (NewProviderRequest, Assess, ValidateProviderResultForRequest),
\* for any inputs and any answers.
THEOREM AnswersCiteTheShown == Spec => []EvidenceWasShown
<1>1. CallInv /\ ShownInv /\ [Next]_vars => ShownInv'
  BY ShownStep
<1>2. ShownInv => EvidenceWasShown
  BY DEF ShownInv
<1> QED
  BY <1>1, <1>2, ShownInit, CallSafe, PTL DEF Spec
=============================================================================
