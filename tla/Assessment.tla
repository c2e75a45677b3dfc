----------------------------- MODULE Assessment -----------------------------
(***************************************************************************)
(* One decision that may ask a classifier provider: the shadow prediction  *)
(* of a proposed action, or an appeal of a blocked one (Open, Justify,     *)
(* AttemptRetry with ReEvaluate).  The provider's Assess is a loop of HTTP *)
(* attempts under its own deadline, and its caller's context may end at    *)
(* any point of it.                                                        *)
(*                                                                         *)
(* "parent" is the caller's context, "op" the provider's: the deadline of  *)
(* op passes ("due") before its timer publishes it.                        *)
(***************************************************************************)
EXTENDS ProviderWire, AppealRules

CONSTANTS Configs,      \* provider configurations
          Responses,    \* what an HTTP attempt may meet
          Inputs,       \* classifier inputs the caller may assemble
          Contexts,     \* re-evaluation and shadow contexts
          Actions,      \* proposed actions, as the rules see them
          BlockClasses, PolicyClasses, ClaimLists, Justifications, KnownEvidence

\* An input has the fields of the code's struct, and a context says whether it
\* is a fixture's.
ASSUME InputAssumption ==
  /\ \A i \in Inputs : {"policyClass", "exceptions", "legacy", "recent", "related", "window",
                         "recentIDs", "relatedIDs"} \subseteq DOMAIN i
  /\ \A c \in Contexts : "fixture" \in DOMAIN c /\ c.fixture \in BOOLEAN

VARIABLES provider, pc, who, rec, act, in, req, attempt, retries, last, parent, due, op, ret, out, audit

call == <<attempt, retries, last>>
ctx == <<parent, due, op>>
decision == <<who, rec, act, in>>
vars == <<provider, pc, decision, req, call, ctx, ret, out, audit>>

None == [class |-> "none"]
NoJust == HashJustification([fields |-> [c \in Prose |-> "blank"], evidence |-> <<>>])
NoRec == [id |-> 0, state |-> "", class |-> "", policyClass |-> "", claims |-> {}, just |-> NoJust]
NoAct == [secret |-> FALSE, cross |-> FALSE, side |-> "none", remote |-> FALSE]
Undecided == Resolved("BLOCK", "undecided")

Init ==
  /\ provider \in {NewClassifierProviderFromConfig(c) : c \in Configs}
  /\ pc = "idle" /\ who = "none" /\ rec = NoRec /\ act = NoAct /\ in = <<>> /\ req = None
  /\ attempt = 0 /\ retries = 0 /\ last = None
  /\ parent = "live" /\ due = FALSE /\ op = "live"
  /\ ret = None /\ out = Undecided /\ audit = None

-----------------------------------------------------------------------------
(* The appeal *)

\* Open: only a class that may be appealed leaves a challenge open.  Claims the
\* caller names must be valid; without any, the class decides them.
Open(policyClass, class, pa, claims) ==
  /\ pc = "idle" /\ ValidateRequiredClaims(claims)
  /\ LET stored == StoredBlockClass(policyClass, class, pa)
         appeal == ClassifyAppealability(stored, pa)
     IN  /\ rec' = [id |-> 1, state |-> IF appeal = "APPEALABLE" THEN "OPEN" ELSE appeal,
                    class |-> stored, policyClass |-> NormalizePolicyClass(policyClass), just |-> NoJust,
                    claims |-> IF claims = <<>> THEN DefaultRequiredClaims(stored) ELSE ToSet(claims)]
         /\ pc' = IF appeal = "APPEALABLE" THEN "open" ELSE "done"
  /\ who' = "retry" /\ act' = pa
  /\ UNCHANGED <<provider, in, req, call, ctx, ret, out, audit>>

\* Justify: a justification that fails validation is refused and changes nothing.
Justify(j) ==
  /\ pc = "open"
  /\ ValidateJustification(j, KnownEvidence, rec.claims)
  /\ rec' = [rec EXCEPT !.state = "JUSTIFIED", !.just = HashJustification(j)]
  /\ pc' = "justified"
  /\ UNCHANGED <<provider, who, act, in, req, call, ctx, ret, out, audit>>

\* The request of this decision, and what happens when it cannot be built.
Ask(c, policy, base, refused) ==
  \E r \in {NewProviderRequest([base EXCEPT !.policyClass = policy, !.exceptions = c.exceptions], c.fixture)} :
    IF r.ok THEN req' = r /\ pc' = "enter" /\ UNCHANGED out
            ELSE pc' = "done" /\ out' = refused /\ UNCHANGED req

\* AttemptRetry re-evaluates the action proposed now, not the one that was blocked.
Retry(pa, c, base) ==
  /\ pc = "justified"
  /\ who' = who /\ act' = pa /\ rec' = [rec EXCEPT !.state = "RETRY_PENDING"]
  /\ LET class == NormalizePolicyClass(OrElse(c.policyClass, rec.policyClass))
         c1 == [c EXCEPT !.provider = @ /\ provider.kind # "none", !.policyClass = class]
         rules == ReEvaluateRules(rec, pa, c1)
     IN  /\ in' = c1
         /\ IF rules.reason # "ask" THEN pc' = "done" /\ out' = rules /\ UNCHANGED req
            ELSE Ask(c1, class, base, FailMatrix(class, "provider"))
  /\ UNCHANGED <<provider, call, ctx, ret, audit>>

\* EvaluateShadow.
Shadow(c, base) ==
  /\ pc = "idle" /\ who' = "shadow"
  /\ LET c1 == [c EXCEPT !.provider = @ /\ provider.kind # "none",
                         !.policyClass = OrElse(@, PRODUCTIVITY)]
         rules == ShadowRules(c1)
     IN  /\ in' = c1
         /\ IF rules.reason # "ask" THEN pc' = "done" /\ out' = rules /\ UNCHANGED req
            ELSE Ask(c1, c1.policyClass, base, ShadowAnswer(c1, "config", [parse |-> "error"]))
  /\ UNCHANGED <<provider, rec, act, call, ctx, ret, audit>>

-----------------------------------------------------------------------------
(* One provider's Assess, with its own request builder and exchange *)

\* The adapter behind the ClassifierProvider interface.
Build(p, r) ==
  CASE p.kind = "openai_compatible" -> CompatBuild(p, r)
    [] p.kind = "openai_responses" -> ResponsesBuild(p, r)
    [] p.kind = "anthropic_messages" -> AnthropicBuild(p, r)
    [] p.kind = "gemini_generate_content" -> GeminiBuild(p, r)
    [] p.kind = "xai_responses" -> XaiBuild(p, r)
DoOnce(p, r, response) ==
  CASE p.kind = "openai_compatible" -> CompatDoOnce(p, r, response)
    [] p.kind = "openai_responses" -> ResponsesDoOnce(p, r, response)
    [] p.kind = "anthropic_messages" -> AnthropicDoOnce(p, r, response)
    [] p.kind = "gemini_generate_content" -> GeminiDoOnce(p, r, response)
    [] p.kind = "xai_responses" -> XaiDoOnce(p, r, response)

Return(class, res) ==
  /\ pc' = "returned" /\ ret' = [class |-> class, res |-> res, parent |-> parent, attempts |-> attempt]

\* Everything before the first attempt: the context, fixture packets, the
\* request's validity and its size.
AssessEnter ==
  /\ pc = "enter"
  /\ IF parent # "live" THEN Return(parent, None)
     ELSE IF req.input.legacy \/ LegacyOnly(req.input) \/ ~ValidateProviderRequest(req) THEN Return("config", None)
     ELSE IF Build(provider, req).bytes > EffectiveMaxInput(provider) THEN Return("oversized", None)
     ELSE pc' = "head" /\ UNCHANGED ret
  /\ UNCHANGED <<provider, decision, req, call, ctx, out, audit>>

\* The top of the loop: give up when a context has ended, otherwise start the
\* first attempt, or the wait before the next one if budget is left.
AttemptHead ==
  LET ce == ClassifyOpError(parent, op, "none")
  IN  /\ pc = "head"
      /\ CASE ce # "none" -> Return(ce, None) /\ UNCHANGED retries
           [] ce = "none" /\ attempt = 0 -> pc' = "http" /\ UNCHANGED <<ret, retries>>
           [] ce = "none" /\ attempt > 0 /\ due ->
                Return(ErrFromExhaustedBudget(parent, op, "none"), None) /\ retries' = retries + 1
           [] OTHER -> pc' = "sleep" /\ retries' = retries + 1 /\ UNCHANGED ret
      /\ UNCHANGED <<provider, decision, req, attempt, last, ctx, out, audit>>

\* The error of the context the attempt and the wait run under, derived from
\* the parent's.
OpErr_ParentOnly == parent
OpErr == IF parent # "live" THEN parent ELSE op

\* The wait ends with its timer, or with the operation's context.
SleepEnds ==
  /\ pc = "sleep" /\ pc' = "http"
  /\ UNCHANGED <<provider, decision, req, call, ctx, ret, out, audit>>

SleepAborted ==
  /\ pc = "sleep" /\ OpErr # "live"
  /\ Return(ClassifyOpError(parent, op, OpErr), None)
  /\ UNCHANGED <<provider, decision, req, call, ctx, out, audit>>

\* An attempt completes: a success counts only if both contexts are still
\* live, an ended context is returned as such, and only a retryable failure
\* with attempts left goes round again.
AttemptEnds ==
  /\ pc = "http"
  /\ \E r \in Responses :
       /\ r.net \in {"canceled", "deadline"} => r.net = OpErr
       /\ LET o == DoOnce(provider, req, r)
              ce == ClassifyOpError(parent, op, o.class)
          IN  /\ last' = Failed(o.class, o.retryable, o.after)
              /\ CASE o.class = "none" /\ ce = "none" ->
                        Return("none", [o.result EXCEPT !.retries = retries]) /\ UNCHANGED attempt
                   [] o.class = "none" /\ ce # "none" -> Return(ce, None) /\ UNCHANGED attempt
                   [] o.class # "none" /\ (IsParentContextAbort(ce) \/ IsAdapterTimeout(ce)) ->
                        Return(ce, None) /\ UNCHANGED attempt
                   [] OTHER ->
                        /\ pc' = IF o.retryable /\ attempt < provider.retries THEN "head" ELSE "fail"
                        /\ attempt' = attempt + 1 /\ UNCHANGED ret
  /\ UNCHANGED <<provider, decision, req, retries, ctx, out, audit>>

\* After the loop: the parent is asked once more, then the last error is returned.
AssessFails ==
  /\ pc = "fail"
  /\ Return(ClassifyOpError(parent, op, last.class), None)
  /\ UNCHANGED <<provider, decision, req, call, ctx, out, audit>>

\* The five adapters run the same loop.
AssessStep == AssessEnter \/ AttemptHead \/ SleepEnds \/ SleepAborted \/ AttemptEnds \/ AssessFails
CompatAssess == provider.kind = "openai_compatible" /\ AssessStep
ResponsesAssess == provider.kind = "openai_responses" /\ AssessStep
AnthropicAssess == provider.kind = "anthropic_messages" /\ AssessStep
GeminiAssess == provider.kind = "gemini_generate_content" /\ AssessStep
XaiAssess == provider.kind = "xai_responses" /\ AssessStep

-----------------------------------------------------------------------------
(* The decision, once Assess has returned *)

\* A result that does not fit the request it answers is a parse error.
Decide ==
  /\ pc = "returned" /\ pc' = "done"
  /\ LET class == IF ret.class = "none" /\ ~ValidateProviderResultForRequest(req, ret.res)
                  THEN "parse" ELSE ret.class
     IN  /\ out' = IF who = "retry" THEN ReEvaluateAnswer(in, class, ret.res) ELSE ShadowAnswer(in, class, ret.res)
         /\ audit' = BuildProviderCallAudit(req, class, ret.res)
  /\ UNCHANGED <<provider, decision, req, call, ctx, ret>>

-----------------------------------------------------------------------------
(* Contexts and time *)

InCall == pc \in {"enter", "head", "sleep", "http", "fail", "returned"}

ParentEnds(how) ==
  /\ InCall /\ parent = "live" /\ parent' = how
  /\ UNCHANGED <<provider, pc, decision, req, call, due, op, ret, out, audit>>

DeadlinePasses ==
  /\ pc \in {"head", "sleep", "http", "fail"} /\ ~due /\ due' = TRUE
  /\ UNCHANGED <<provider, pc, decision, req, call, parent, op, ret, out, audit>>

TimerFires ==
  /\ due /\ op = "live" /\ InCall /\ op' = "deadline"
  /\ UNCHANGED <<provider, pc, decision, req, call, parent, due, ret, out, audit>>

Done == pc = "done" /\ UNCHANGED vars

Next ==
  \/ \E p \in PolicyClasses, b \in BlockClasses, a \in Actions, c \in ClaimLists : Open(p, b, a, c)
  \/ \E j \in Justifications : Justify(j)
  \/ \E a \in Actions, c \in Contexts, i \in Inputs : Retry(a, c, i)
  \/ \E c \in Contexts, i \in Inputs : Shadow(c, i)
  \/ CompatAssess \/ ResponsesAssess \/ AnthropicAssess \/ GeminiAssess \/ XaiAssess
  \/ Decide
  \/ \E how \in {"canceled", "deadline"} : ParentEnds(how)
  \/ DeadlinePasses \/ TimerFires \/ Done

\* The provider's goroutine runs, its deadline passes and its timer fires.  A
\* server need never answer: an HTTP attempt is bound to end only once its
\* context has.
Fairness ==
  /\ WF_vars(/\ pc = "http" => OpErr # "live"
             /\ CompatAssess \/ ResponsesAssess \/ AnthropicAssess \/ GeminiAssess \/ XaiAssess)
  /\ WF_vars(Decide) /\ WF_vars(DeadlinePasses) /\ WF_vars(TimerFires)

Spec == Init /\ [][Next]_vars /\ Fairness

-----------------------------------------------------------------------------
(* Properties *)

\* A retry is granted only for a block that productivity policy opened to
\* appeal, with a justification on record, for an action that is neither a
\* leak, nor outside the workspace, nor irreversible, and on a validated
\* answer below the threshold or an explicit exception: never because the
\* provider failed, timed out, was malformed or was cancelled.
GrantEarned ==
  pc = "done" /\ who = "retry" /\ Grants(out) =>
    /\ rec.policyClass = PRODUCTIVITY /\ rec.class \in Productive
    /\ \E j \in Justifications : /\ rec.just = HashJustification(j)
                                 /\ ValidateJustification(j, KnownEvidence, rec.claims)
    /\ ~act.secret /\ ~act.cross /\ act.side \notin {"deploy", "payment", "permission"} /\ ~in.hardBlock
    /\ \/ in.exceptions # {} /\ ret.class = "none"
       \/ req # None /\ ret.class = "none" /\ ret.res # None /\ ret.res.severity < Threshold(in)

\* The caller's cancellation keeps its identity: if the caller's context had
\* ended when Assess returned, the decision is a BLOCK that reports the abort,
\* and a raw context error is never made up for the provider's own timeout.
AbortKeepsIdentity ==
  pc = "done" /\ ret # None =>
    /\ ret.parent # "live" /\ req # None /\ ret.class \notin {"config", "oversized"} =>
         out.abort /\ out.decision = "BLOCK"
    /\ IsParentContextAbort(ret.class) => ret.parent = ret.class

\* An answer is scored only if every event it cites was in the prompt the
\* provider was sent, after the trajectory was cut to its bounds, and the
\* request it answers was valid as built.
EvidenceWasShown ==
  pc = "done" /\ ret # None =>
    /\ ret.class = "none" /\ out.reason \in {"below_threshold", "above_threshold"} =>
         LET shown == req.prompt.dynamic[2].text
         IN  ToSet(ret.res.evidence) \subseteq ToSet(Ids(shown.recent \o shown.related))
    /\ ret.class = "config" => req.input.legacy

\* Every call the provider accepts comes back, even from a server that never
\* answers: each attempt runs under the operation's deadline, not only under
\* the caller's context.
AssessEnds == pc = "enter" ~> pc = "done"
=============================================================================
