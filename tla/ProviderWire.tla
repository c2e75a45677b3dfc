---------------------------- MODULE ProviderWire ----------------------------
(***************************************************************************)
(* The five HTTP classifier providers (pkg/classifier: openai_compatible,  *)
(* openai_responses, anthropic_messages, gemini_generate_content,          *)
(* xai_responses, openai_spark, capabilities, factory): what a             *)
(* configuration must satisfy for the provider to exist, the request it    *)
(* lays out, and what one HTTP exchange yields.                            *)
(*                                                                         *)
(* A response is [net, status, after, ctype, read, body]; its body is      *)
(* [dup, blocks, text, usage], "blocks" the kinds of the content blocks    *)
(* ("text", "blank", "tool", "other") and "text" the assessment text.      *)
(* Error classes are those of ProviderError; "canceled" and "deadline" are *)
(* the raw context errors.                                                 *)
(***************************************************************************)
EXTENDS ClassifierInput

CONSTANTS MaxRetryCount, DefaultMaxInputBytes

ASSUME RetryAssumption == MaxRetryCount \in Nat /\ DefaultMaxInputBytes \in Nat \ {0}

Kinds == {"openai_compatible", "openai_responses", "anthropic_messages",
          "gemini_generate_content", "xai_responses"}

-----------------------------------------------------------------------------
(* Capability profiles and configuration *)

Caps(native, mode, key) == [native |-> native, mode |-> mode, key |-> key]
Unknown == [native |-> FALSE, mode |-> "unknown", key |-> FALSE]

LookupCapabilitiesProfile(name) ==
  CASE name \in {"", "generic-none"} -> Caps(FALSE, "none", FALSE)
    [] name \in {"openai-off", "anthropic-off", "gemini-off", "xai-off"} -> Caps(TRUE, "none", FALSE)
    [] name \in {"openai-implicit", "anthropic-auto-5m", "anthropic-auto-1h",
                 "gemini-implicit", "gemini-implicit-min1024"} -> Caps(TRUE, "implicit_prefix", FALSE)
    [] name \in {"openai-explicit", "anthropic-explicit-5m", "anthropic-explicit-1h"} ->
         Caps(TRUE, "explicit_breakpoint", TRUE)
    [] name \in {"openai-spark", "xai-prefix"} -> Caps(TRUE, "implicit_prefix", TRUE)
    [] OTHER -> Unknown

\* Origin only, http(s), no userinfo, and loopback unless remote is allowed.
NormalizeBaseURL(url, allowRemote) ==
  /\ url.scheme \in {"http", "https"} /\ url.originOnly /\ url.host # ""
  /\ allowRemote \/ url.host = "loopback"

NormalizePath(path) == path \notin {"relative", "traversal", "query"}

KeyResolves(cfg) == cfg.keyRef = "none" \/ (cfg.keyRef # "literal" /\ cfg.keyEnv # "")

BoundsOK(cfg) == cfg.maxIn >= 0 /\ cfg.timeoutOK /\ cfg.retries >= 0

\* The checks every constructor makes, in the order of the code.
CommonOK(cfg, kind, default, official) ==
  LET prof == IF cfg.profile = "" THEN default ELSE cfg.profile
  IN  /\ cfg.kind = kind /\ cfg.model # ""
      /\ NormalizeBaseURL(cfg.base, cfg.allowRemote \/ (official /\ cfg.base.host = "official"))
      /\ NormalizePath(cfg.path) /\ BoundsOK(cfg)
      /\ LookupCapabilitiesProfile(prof) # Unknown /\ KeyResolves(cfg)

Provider(cfg, default) ==
  LET prof == IF cfg.profile = "" THEN default ELSE cfg.profile
  IN  [kind |-> cfg.kind, model |-> cfg.model, profile |-> prof,
       caps |-> LookupCapabilitiesProfile(prof), maxIn |-> cfg.maxIn,
       retries |-> IF cfg.retries \in 1..MaxRetryCount THEN cfg.retries ELSE MaxRetryCount]

NewOpenAICompatible(cfg) ==
  /\ CommonOK(cfg, "openai_compatible", "generic-none", FALSE)
  /\ Provider(cfg, "generic-none").caps.mode = "none"

IsSpark(cfg) == cfg.model = "spark" \/ cfg.profile = "openai-spark"

ValidateSparkEntitlement(cfg) == cfg.entitled
IsProhibitedOAuthToken(cfg) == cfg.keyEnv = "oauth-token"
IsProhibitedOAuthRef(cfg) == cfg.keyRef = "oauth"

NewOpenAIResponses(cfg) ==
  /\ CommonOK(cfg, "openai_responses", "openai-off", TRUE) /\ cfg.path \in {"", "responses"}
  /\ Provider(cfg, "openai-off").caps.native
  /\ IsSpark(cfg) => ValidateSparkEntitlement(cfg) /\ ~IsProhibitedOAuthRef(cfg)
                     /\ (cfg.keyRef # "none" => ~IsProhibitedOAuthToken(cfg))
  /\ cfg.effort \in {"", "low", "medium", "high"}

AnthropicTTLForProfile(prof) ==
  CASE prof = "anthropic-off" -> ""
    [] prof \in {"anthropic-auto-5m", "anthropic-explicit-5m"} -> "5m"
    [] prof \in {"anthropic-auto-1h", "anthropic-explicit-1h"} -> "1h"
    [] OTHER -> "unknown"

NewAnthropicMessages(cfg) ==
  /\ CommonOK(cfg, "anthropic_messages", "anthropic-off", TRUE) /\ cfg.path \in {"", "messages"}
  /\ cfg.platform \in {"", "claude_api"} /\ Provider(cfg, "anthropic-off").caps.native
  /\ AnthropicTTLForProfile(Provider(cfg, "anthropic-off").profile) # "unknown"

GeminiMinEligibleTokens(prof) ==
  CASE prof = "gemini-off" -> 0
    [] prof = "gemini-implicit" -> 2048
    [] prof = "gemini-implicit-min1024" -> 1024
    [] OTHER -> -1

NewGeminiGenerateContent(cfg) ==
  /\ CommonOK(cfg, "gemini_generate_content", "gemini-off", TRUE)
  /\ cfg.model # "a/b" /\ cfg.path \in {"", "generateContent"}
  /\ LET p == Provider(cfg, "gemini-off")
     IN  p.caps.native /\ p.caps.mode # "explicit_breakpoint" /\ GeminiMinEligibleTokens(p.profile) >= 0

NewXAIResponses(cfg) ==
  /\ CommonOK(cfg, "xai_responses", "xai-off", TRUE) /\ cfg.path \in {"", "responses"}
  /\ Provider(cfg, "xai-off").profile \in {"xai-off", "xai-prefix"}

Accepts(cfg) ==
  CASE cfg.kind = "openai_compatible" -> NewOpenAICompatible(cfg)
    [] cfg.kind = "openai_responses" -> NewOpenAIResponses(cfg)
    [] cfg.kind = "anthropic_messages" -> NewAnthropicMessages(cfg)
    [] cfg.kind = "gemini_generate_content" -> NewGeminiGenerateContent(cfg)
    [] cfg.kind = "xai_responses" -> NewXAIResponses(cfg)
    [] OTHER -> FALSE

\* The factory: the provider a configuration builds, or "none".
NewClassifierProviderFromConfig(cfg) ==
  LET default == CASE cfg.kind = "openai_compatible" -> "generic-none"
                   [] cfg.kind = "openai_responses" -> "openai-off"
                   [] cfg.kind = "anthropic_messages" -> "anthropic-off"
                   [] cfg.kind = "gemini_generate_content" -> "gemini-off"
                   [] OTHER -> "xai-off"
  IN  IF Accepts(cfg) THEN Provider(cfg, default) ELSE [kind |-> "none"]

-----------------------------------------------------------------------------
(* The request on the wire *)

MinPositive(vals) == IF \A v \in vals : v <= 0 THEN 0
                     ELSE CHOOSE v \in vals : v > 0 /\ \A w \in vals : w > 0 => v <= w

\* The input bound: the least positive of the request's, the configuration's
\* and the profile's.
EffectiveMaxInput(p) == MinPositive({DefaultMaxInputBytes, p.maxIn})

PromptBytes(req) == Len(req.prompt.stable) + Len(req.prompt.dynamic)
                    + DigestByteCount(req.input.recent) + DigestByteCount(req.input.related)

Wire(req, key, breakpoint) ==
  [bytes |-> PromptBytes(req), key |-> key, breakpoint |-> breakpoint]

\* The identity a prompt cache is keyed by: never the dynamic suffix.
PromptCacheKeyHash(p, req) ==
  Sha([kind |-> p.kind, model |-> p.model, profile |-> p.profile, stable |-> req.prompt.stableHash])

CompatBuild(p, req) == Wire(req, "", 0)

ResponsesBuild(p, req) ==
  LET explicit == p.caps.mode = "explicit_breakpoint" /\ p.caps.key
      spark == p.model = "spark" \/ p.profile = "openai-spark"
  IN  Wire(req, IF explicit \/ (p.caps.key /\ spark) THEN PromptCacheKeyHash(p, req) ELSE "",
           IF explicit THEN Len(req.prompt.stable) ELSE 0)

AnthropicBuild(p, req) ==
  LET explicit == p.caps.mode = "explicit_breakpoint"
  IN  Wire(req, IF explicit \/ p.caps.mode = "implicit_prefix" THEN PromptCacheKeyHash(p, req) ELSE "",
           IF explicit /\ AnthropicTTLForProfile(p.profile) # "" THEN Len(req.prompt.stable) ELSE 0)

EstimateGeminiTokens(req) == (PromptBytes(req) + 3) \div 4

GeminiCacheAudit(p, req) ==
  LET least == GeminiMinEligibleTokens(p.profile)
  IN  IF p.caps.mode = "none" \/ least <= 0 THEN "none"
      ELSE IF EstimateGeminiTokens(req) < least THEN "ineligible"
      ELSE "eligible"

GeminiBuild(p, req) ==
  Wire(req, IF GeminiCacheAudit(p, req) = "eligible" THEN PromptCacheKeyHash(p, req) ELSE "", 0)

XaiBuild(p, req) ==
  Wire(req, IF p.caps.mode = "implicit_prefix" /\ p.caps.key THEN PromptCacheKeyHash(p, req) ELSE "", 0)

-----------------------------------------------------------------------------
(* One exchange *)

Failed(class, retryable, after) == [class |-> class, retryable |-> retryable, after |-> after]

ParseRetryAfterMs(after) == IF after < 0 THEN 0 ELSE IF after > 5 THEN 5 ELSE after

Count(blocks, kinds) == Cardinality({i \in DOMAIN blocks : blocks[i] \in kinds})

UsageOK(u) == \A f \in DOMAIN u : u[f] >= 0

\* The envelope of each API: where the one assessment text must be.
ParseOAIChatEnvelope(b) ==
  ~b.dup /\ Len(b.blocks) = 1 /\ b.blocks[1] \in {"text", "blank"} /\ UsageOK(b.usage)
ParseResponsesEnvelope(b) == ~b.dup /\ Count(b.blocks, {"text"}) = 1 /\ UsageOK(b.usage)
ParseAnthropicEnvelope(b) == ~b.dup /\ Count(b.blocks, {"tool"}) = 1 /\ UsageOK(b.usage)
ParseGeminiEnvelope(b) ==
  ~b.dup /\ b.candidates = 1 /\ Count(b.blocks, {"text"}) = 1 /\ UsageOK(b.usage)

\* Anthropic reports the uncached input; its total adds what the cache read.
AnthropicUsage(u) == [u EXCEPT !.input = u.input + u.cached]

\* Transport and status, in the order doOnce looks at them; "late" is the
\* envelope and assessment stage, reached by a readable 2xx only.
Exchange(r, denied, late) ==
  LET after == ParseRetryAfterMs(r.after)
  IN  IF r.net \in {"canceled", "deadline"} THEN Failed(r.net, FALSE, 0)
      ELSE IF r.net = "fail" THEN Failed("transport", TRUE, 0)
      ELSE IF r.read = "big" THEN Failed("oversized", FALSE, 0)
      ELSE IF r.read = "fail" THEN Failed("transport", TRUE, after)
      ELSE IF r.status \in denied THEN Failed("http", FALSE, 0)
      ELSE IF r.status = 429 \/ r.status >= 500 THEN Failed("http", TRUE, after)
      ELSE IF r.status \notin 200..299 THEN Failed("http", FALSE, 0)
      ELSE late

\* The host fills in every field it owns; the model supplies severity and evidence.
Assessed(req, r, envelopeOK, usage) ==
  LET raw == ParseRawAssessmentStrict(r.body.text, EvidenceAllowlist(req.input))
  IN  IF ~envelopeOK \/ ~raw.ok THEN Failed("parse", FALSE, 0)
      ELSE [class |-> "none", retryable |-> FALSE, after |-> 0,
            result |-> [parse |-> "ok", severity |-> raw.severity, evidence |-> raw.evidence,
                        promptHash |-> req.prompt.promptHash, ruleset |-> req.input.ruleset,
                        usage |-> usage, cacheHit |-> usage.cached > 0, retries |-> 0]]

CompatDoOnce(p, req, r) ==
  Exchange(r, {}, Assessed(req, r, r.ctype # "html" /\ ParseOAIChatEnvelope(r.body),
                           [r.body.usage EXCEPT !.cached = 0]))
ResponsesDoOnce(p, req, r) ==
  Exchange(r, {401, 403}, Assessed(req, r, ParseResponsesEnvelope(r.body), r.body.usage))
AnthropicDoOnce(p, req, r) ==
  Exchange(r, {401, 403}, Assessed(req, r, ParseAnthropicEnvelope(r.body), AnthropicUsage(r.body.usage)))
GeminiDoOnce(p, req, r) ==
  Exchange(r, {401, 403}, Assessed(req, r, ParseGeminiEnvelope(r.body), r.body.usage))
XaiDoOnce(p, req, r) ==
  Exchange(r, {401, 403}, Assessed(req, r, ParseResponsesEnvelope(r.body), r.body.usage))
=============================================================================
