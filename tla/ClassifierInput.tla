--------------------------- MODULE ClassifierInput ---------------------------
(***************************************************************************)
(* What the Stage-1 classifier is shown, and what it may cite: bounding    *)
(* the trajectory, merging the window's provenance, validating the input,  *)
(* laying out the prompt, and building the provider request                *)
(* (pkg/classifier: input_trajectory.go, validate_input.go, prompt_plan.go,*)
(* contract.go, provider.go, parse_raw.go, validate_result.go).            *)
(*                                                                         *)
(* An event digest is [id, seq, type, body, long, size]: id 0 is the empty *)
(* id, "body" says that it has a summary or a content hash, "long" that    *)
(* one of its strings exceeds its limit and "size" is its byte count.      *)
(* Canonical JSON and SHA-256 are injective: the text of a block is the    *)
(* record it encodes and a hash is that record under the tag "sha256".     *)
(***************************************************************************)
EXTENDS Integers, Sequences, FiniteSets, SequencesExt

CONSTANTS MaxRecentEvents, MaxRelatedEvents, MaxTrajectoryBytes, MaxEvidenceIDs

ASSUME BoundsAssumption ==
  /\ {MaxRecentEvents, MaxRelatedEvents, MaxTrajectoryBytes, MaxEvidenceIDs} \subseteq Nat \ {0}
  /\ MaxRelatedEvents <= MaxRecentEvents

PRODUCTIVITY == "PRODUCTIVITY"
SECURITY == "SECURITY"

\* The class given, or the one that holds when none is.
OrElse(class, default) == IF class = "" THEN default ELSE class

Ids(events) == [i \in DOMAIN events |-> events[i].id]
NoDup(ids) == \A i, j \in DOMAIN ids : ids[i] = ids[j] /\ ids[i] # 0 => i = j
DigestByteCount(events) == FoldLeft(LAMBDA n, e : n + e.size, 0, events)
SortEventDigests(events) ==
  SortSeq(events, LAMBDA a, b : a.seq < b.seq \/ (a.seq = b.seq /\ a.id < b.id))

-----------------------------------------------------------------------------
(* The window *)

\* One pass of "take": the events of src that fit in both budgets, a prefix
\* because no event has size 0, and why it stopped before the end of src.
Take(src, limit, used) ==
  LET Prefix(k) == [i \in 1..k |-> src[i]]
      Bytes(k) == used + DigestByteCount(Prefix(k))
      n == Cardinality({k \in 1..limit : k <= Len(src) /\ Bytes(k) <= MaxTrajectoryBytes})
  IN  [out |-> Prefix(n), used |-> Bytes(n),
       stop |-> IF n = Len(src) THEN "" ELSE IF n = limit THEN "events" ELSE "bytes"]

\* What was taken of both lists, and the window that describes it.
WindowOf(recent, related, r, l) ==
  LET bytes == "bytes" \in {r.stop, l.stop}
      dropped == Len(recent) > Len(r.out) \/ Len(related) > Len(l.out)
      events == "events" \in {r.stop, l.stop} \/ (dropped /\ ~bytes)
  IN  [recent |-> r.out, related |-> l.out,
       window |-> [events |-> Len(r.out) + Len(l.out), bytes |-> l.used,
                   truncated |-> events \/ bytes \/ dropped,
                   marker |-> IF events /\ bytes THEN "events_and_bytes"
                              ELSE IF events THEN "events"
                              ELSE IF bytes THEN "bytes"
                              ELSE ""]]

\* Related events get what the recent ones left.
TakeRelated(related, r) ==
  LET left == MaxRecentEvents - Len(r.out)
  IN  Take(SortEventDigests(related), IF left < MaxRelatedEvents THEN left ELSE MaxRelatedEvents, r.used)

TakeBoth(recent, related, r) == WindowOf(recent, related, r, TakeRelated(related, r))
BoundTrajectory(recent, related) == TakeBoth(recent, related, Take(SortEventDigests(recent), MaxRecentEvents, 0))

MergeOverflowMarkers(a, b) ==
  LET has(m) == \E x \in {a, b} : x \in {m, "events_and_bytes"}
  IN  IF a = "" THEN b
      ELSE IF b = "" \/ a = b THEN a
      ELSE IF has("events") /\ has("bytes") THEN "events_and_bytes"
      ELSE IF has("events") THEN "events"
      ELSE IF has("bytes") THEN "bytes"
      ELSE a

MergeWindowMeta(upstream, local, recent, related) ==
  LET filled == local.events > 0 \/ local.bytes > 0 \/ local.truncated
      cut == upstream.truncated \/ local.truncated
      marker == MergeOverflowMarkers(upstream.marker, local.marker)
  IN  [events |-> IF filled THEN local.events ELSE Len(recent) + Len(related),
       bytes |-> IF filled THEN local.bytes ELSE DigestByteCount(recent) + DigestByteCount(related),
       truncated |-> cut,
       marker |-> IF ~cut THEN "" ELSE IF marker = "" THEN "events" ELSE marker]

ValidateWindowMeta(w) ==
  /\ w.events >= 0 /\ w.bytes >= 0
  /\ w.marker \in {"", "events", "bytes", "events_and_bytes"}
  /\ w.truncated <=> w.marker # ""

ValidateWindowMetaExact(w, recent, related) ==
  /\ ValidateWindowMeta(w)
  /\ w.events = Len(recent) + Len(related)
  /\ w.bytes = DigestByteCount(recent) + DigestByteCount(related)

-----------------------------------------------------------------------------
(* Input validation *)

ValidateTaskAnchor(t) == ~t.long

EventTypes == {"tool_call", "tool_result", "user_message", "assistant",
               "observation", "error", "system", "unknown"}

ValidateEventDigests(events, maxN, production) ==
  /\ Len(events) <= maxN
  /\ NoDup(Ids(events))
  /\ \A i \in DOMAIN events :
       LET e == events[i]
       IN  /\ e.id # 0 /\ ~e.long
           /\ IF production THEN e.type \in EventTypes /\ e.body
                            ELSE e.type = "" \/ e.type \in EventTypes
           /\ i > 1 => events[i - 1].seq <= e.seq

ValidateLegacyFixtureIDs(recent, related) ==
  /\ Len(recent) <= MaxRecentEvents /\ Len(related) <= MaxRecentEvents
  /\ \A i \in DOMAIN (recent \o related) : (recent \o related)[i] # 0
  /\ NoDup(recent \o related)

ValidateProposedActionForModel(pa) ==
  /\ pa.schema \in {"", "v1"} /\ ~pa.truncated
  /\ pa.parse \notin {"fail_closed", "unknown_shape"}
  /\ pa.payloadValid /\ ~pa.manyArguments

ValidateProposedActionProduction(pa) ==
  pa.schema = "v1" /\ pa.parse = "ok" /\ ValidateProposedActionForModel(pa)

ValidateChallengeContext(c) ==
  /\ c.state \in {"", "OPEN", "JUSTIFIED", "RETRY_PENDING", "ALLOWED_ONCE", "REJECTED",
                  "HUMAN_REVIEW", "ABANDONED", "EXPIRED"}
  /\ c.appealability \in {"", "APPEALABLE", "NON_APPEALABLE", "HUMAN_REVIEW"}
  /\ c.budget \in 0..8 /\ c.expires >= 0 /\ ~c.long
  /\ Len(c.evidence) <= MaxEvidenceIDs /\ NoDup(c.evidence)

ValidateClassifierInput(in, production) ==
  LET shown == in.recent \o in.related
  IN  /\ in.policyClass \in {PRODUCTIVITY, SECURITY} \/ (~production /\ in.policyClass = "")
      /\ in.contractRevision >= 0 /\ ValidateTaskAnchor(in.anchor)
      /\ production /\ shown # <<>> => in.anchor.named
      /\ ValidateEventDigests(in.recent, MaxRecentEvents, production)
      /\ ValidateEventDigests(in.related, MaxRelatedEvents, production)
      /\ NoDup(Ids(shown))
      /\ IF shown # <<>> THEN ValidateWindowMetaExact(in.window, in.recent, in.related)
                         ELSE ValidateWindowMeta(in.window)
      /\ IF production /\ in.action.schema # "" THEN ValidateProposedActionProduction(in.action)
                                                ELSE ValidateProposedActionForModel(in.action)
      /\ ValidateChallengeContext(in.challenge)

-----------------------------------------------------------------------------
(* The prompt: a stable prefix, the same for every request, and a suffix    *)
(* that encodes this input; the plan binds both by their hashes.            *)

Sha(x) == [sha256 |-> x]
Block(role, type, text) == [role |-> role, type |-> type, text |-> text]

StablePrefix ==
  << Block("system", "policy", "policy"), Block("system", "schema", "raw_assessment"),
     Block("system", "reason_codes", "codes"), Block("system", "rules", "rules"),
     Block("system", "meta", "builtin-ruleset-v1") >>

BuildDynamicSuffix(in) ==
  << Block("user", "task", [policyClass |-> in.policyClass, ruleset |-> in.ruleset,
        revision |-> in.contractRevision, anchor |-> in.anchor]),
     Block("user", "evidence", [ids |-> in.recentIDs \o in.relatedIDs, recent |-> in.recent,
        related |-> in.related, window |-> in.window]),
     Block("user", "action", in.action),
     Block("user", "challenge", in.challenge) >>
  \o (IF in.exceptions = {} THEN <<>> ELSE << Block("user", "meta", in.exceptions) >>)

PromptHash(stable, dynamic) == Sha([stable |-> Sha(stable), input |-> Sha(dynamic)])

BuildPromptPlan(in) ==
  LET dynamic == BuildDynamicSuffix(in)
  IN  [stable |-> StablePrefix, dynamic |-> dynamic, stableHash |-> Sha(StablePrefix),
       inputHash |-> Sha(dynamic), promptHash |-> PromptHash(StablePrefix, dynamic)]

ValidatePromptPlan(plan, in) ==
  /\ \A b \in ToSet(plan.stable) : b.type \in {"policy", "schema", "reason_codes", "rules", "example", "meta"}
  /\ \A b \in ToSet(plan.dynamic) : b.type \in {"task", "evidence", "action", "challenge", "meta"}
  /\ plan.dynamic = BuildDynamicSuffix(in)
  /\ plan.stableHash = Sha(plan.stable) /\ plan.inputHash = Sha(plan.dynamic)
  /\ plan.promptHash = PromptHash(plan.stable, plan.dynamic)

-----------------------------------------------------------------------------
(* The request *)

LegacyOnly(in) == /\ in.recentIDs # <<>> \/ in.relatedIDs # <<>>
                  /\ in.recent = <<>> /\ in.related = <<>>

\* The input as the request carries it: bounded, with ids that mirror the digests.
Mirrored(in, b) ==
  [in EXCEPT !.recent = b.recent, !.related = b.related,
             !.window = MergeWindowMeta(in.window, b.window, b.recent, b.related),
             !.recentIDs = Ids(b.recent), !.relatedIDs = Ids(b.related)]
HasDigests(in) == in.recent # <<>> \/ in.related # <<>>
Bounded(in) == IF HasDigests(in) THEN Mirrored(in, BoundTrajectory(in.recent, in.related)) ELSE in

\* The request for the input in1, whose bounded form is in2.
RequestFor(in1, in2, fixture) ==
  [ok |-> /\ fixture \/ ~LegacyOnly(in1)
          /\ fixture /\ ~HasDigests(in1) => ValidateLegacyFixtureIDs(in1.recentIDs, in1.relatedIDs)
          /\ ValidateClassifierInput(in2, ~fixture),
   input |-> in2, prompt |-> BuildPromptPlan(in2)]

\* NewProviderRequest: the request, or a "config" error when the input is refused.
NewProviderRequest(in0, fixture) ==
  LET in1 == [in0 EXCEPT !.legacy = fixture,
                         !.policyClass = IF fixture THEN @ ELSE OrElse(@, PRODUCTIVITY)]
  IN  RequestFor(in1, Bounded(in1), fixture)

ValidateProviderRequest(req) ==
  /\ ValidateClassifierInput(req.input, FALSE)
  /\ req.input.legacy \/ ~LegacyOnly(req.input)
  /\ ValidatePromptPlan(req.prompt, req.input)

-----------------------------------------------------------------------------
(* What the answer may cite *)

AllowedEvidenceSet(in) == ToSet(in.recentIDs) \union ToSet(in.relatedIDs)
EvidenceAllowlistFromDigests(in) == ToSet(Ids(in.recent)) \union ToSet(Ids(in.related))

EvidenceAllowlist(in) ==
  IF in.recent # <<>> \/ in.related # <<>> THEN EvidenceAllowlistFromDigests(in)
                                           ELSE AllowedEvidenceSet(in)

EvidenceAllowlistShownOnly(in) ==
  IF in.recent # <<>> \/ in.related # <<>> THEN EvidenceAllowlistFromDigests(in)
  ELSE IF in.legacy THEN AllowedEvidenceSet(in)
  ELSE {}

EvidenceOK_AnyEvent(ids, allowed) == Len(ids) <= MaxEvidenceIDs /\ NoDup(ids)
EvidenceOK(ids, allowed) ==
  /\ Len(ids) <= MaxEvidenceIDs /\ NoDup(ids)
  /\ \A i \in DOMAIN ids : ids[i] # 0 /\ ids[i] \in allowed

ValidateSeverity(s) == s \in 0..100

\* ParseRawAssessmentStrict on the model's text: "clean" stands for a single
\* JSON object, without fences, prose, duplicate or forbidden keys, whose
\* fields have the declared JSON types.
ParseRawAssessmentStrict(text, allowed) ==
  [ok |-> /\ text.clean /\ ValidateSeverity(text.severity) /\ text.reasonKnown
          /\ EvidenceOK(text.evidence, allowed),
   severity |-> text.severity, evidence |-> text.evidence]

\* Host-side check of a result against the request it answers.
ValidateProviderResultForRequest(req, res) ==
  /\ res.parse \in {"ok", "invalid", "error"}
  /\ \A f \in DOMAIN res.usage : res.usage[f] >= 0
  /\ res.retries \in 0..3
  /\ res.parse = "ok" =>
       /\ ValidateSeverity(res.severity)
       /\ res.promptHash = req.prompt.promptHash /\ res.ruleset = req.input.ruleset
       /\ EvidenceOK(res.evidence, EvidenceAllowlistShownOnly(req.input))
=============================================================================
