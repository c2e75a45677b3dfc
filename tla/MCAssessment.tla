---------------------------- MODULE MCAssessment ----------------------------
(* A small instance: every provider kind, one response per way an attempt   *)
(* can end, inputs at the trajectory's limits.                              *)
EXTENDS Assessment

Digest(id, seq, size) == [id |-> id, seq |-> seq, type |-> "tool_call", body |-> TRUE, long |-> FALSE, size |-> size]
NoWindow == [events |-> 0, bytes |-> 0, truncated |-> FALSE, marker |-> ""]
MCAction == [schema |-> "v1", truncated |-> FALSE, parse |-> "ok", payloadValid |-> TRUE, manyArguments |-> FALSE]
MCChallenge == [state |-> "RETRY_PENDING", appealability |-> "APPEALABLE", budget |-> 0, expires |-> 9,
                long |-> FALSE, evidence |-> <<>>]
Base == [policyClass |-> "", ruleset |-> "r1", contractRevision |-> 1,
         anchor |-> [named |-> TRUE, long |-> FALSE], recent |-> <<Digest(2, 2, 3), Digest(1, 1, 3)>>,
         related |-> <<>>, recentIDs |-> <<>>, relatedIDs |-> <<>>, window |-> NoWindow,
         legacy |-> FALSE, action |-> MCAction, challenge |-> MCChallenge, exceptions |-> {}]

MCInputs ==
  { Base,
    [Base EXCEPT !.recent = <<Digest(3, 3, 3), Digest(2, 2, 3), Digest(1, 1, 3)>>, !.related = <<Digest(4, 1, 3)>>],
    [Base EXCEPT !.recent = <<>>, !.recentIDs = <<1>>] }

MCContext == [hardBlock |-> FALSE, irreversible |-> FALSE, stage0Block |-> FALSE, provider |-> TRUE,
              fixture |-> FALSE, threshold |-> 0, exceptions |-> {}, policyClass |-> ""]
MCContexts ==
  { MCContext,
    [MCContext EXCEPT !.exceptions = {"repo"}],
    [MCContext EXCEPT !.policyClass = "SECURTY"],
    [MCContext EXCEPT !.policyClass = SECURITY, !.fixture = TRUE],
    [MCContext EXCEPT !.hardBlock = TRUE, !.stage0Block = TRUE] }

Act(secret, cross, side, remote) == [secret |-> secret, cross |-> cross, side |-> side, remote |-> remote]
MCActions == { Act(FALSE, FALSE, "none", FALSE), Act(TRUE, FALSE, "none", FALSE), Act(FALSE, TRUE, "none", FALSE),
               Act(FALSE, FALSE, "deploy", FALSE), Act(FALSE, FALSE, "delete_tree", TRUE) }

MCConfig == [kind |-> "", model |-> "m", base |-> [scheme |-> "https", originOnly |-> TRUE, host |-> "official"],
             path |-> "", keyRef |-> "placeholder", keyEnv |-> "key", maxIn |-> 0, timeoutOK |-> TRUE, retries |-> 1,
             profile |-> "", entitled |-> FALSE, effort |-> "", platform |-> "", allowRemote |-> FALSE]
MCConfigs ==
  { [MCConfig EXCEPT !.kind = k, !.base.host = IF k = "openai_compatible" THEN "loopback" ELSE "official"] : k \in Kinds }
  \union { [MCConfig EXCEPT !.kind = "openai_responses", !.model = "spark"],
           [MCConfig EXCEPT !.kind = "anthropic_messages", !.profile = "anthropic-explicit-5m", !.maxIn = 12] }

MCText == [clean |-> TRUE, severity |-> 30, reasonKnown |-> TRUE, evidence |-> <<1>>]
MCBody == [dup |-> FALSE, candidates |-> 1, blocks |-> <<"text">>, text |-> MCText, usage |-> [input |-> 4, cached |-> 2]]
MCResponse == [net |-> "ok", status |-> 200, after |-> 0, ctype |-> "json", read |-> "ok", body |-> MCBody]
MCResponses ==
  { MCResponse,
    [MCResponse EXCEPT !.body.blocks = <<"tool", "other">>],
    [MCResponse EXCEPT !.body.text.severity = 80, !.ctype = "html"],
    [MCResponse EXCEPT !.body.text.evidence = <<3>>],
    [MCResponse EXCEPT !.status = 401],
    [MCResponse EXCEPT !.status = 503, !.after = 9],
    [MCResponse EXCEPT !.net = "fail"],
    [MCResponse EXCEPT !.net = "canceled"],
    [MCResponse EXCEPT !.net = "deadline"],
    [MCResponse EXCEPT !.read = "fail"],
    [MCResponse EXCEPT !.read = "big"] }

MCClaimLists == { <<>>, <<"scope_limit">>, <<"scope_limit", "scope_limit">>, <<"free_text">> }
Filled == [c \in Prose |-> "ok"]
MCJustifications == { [fields |-> Filled, evidence |-> <<1>>], [fields |-> Filled, evidence |-> <<>>],
                      [fields |-> [Filled EXCEPT !["scope_limit"] = "blank"], evidence |-> <<1>>] }
=============================================================================
