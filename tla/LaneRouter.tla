------------------------------ MODULE LaneRouter ------------------------------
(***************************************************************************)
(* The dual-lane router (pkg/policy/router.go): which lane, credentials    *)
(* and model a request gets, and what a failed route may fall back to,     *)
(* while catalogs, the auth snapshot and the API key change underneath.    *)
(*                                                                         *)
(* A capability mask is a set of flags.  A model id is [name, cased]: ids  *)
(* are compared without their case.  A catalog is [known, models], known = *)
(* FALSE for a nil pointer; an auth snapshot is [known, state, mode].      *)
(***************************************************************************)
EXTENDS Naturals, Sequences

CONSTANTS RouterConfigs, RouteRequests, FallbackOptions, Catalogs, AuthSnapshots, MaxUpdates

ASSUME RouterAssumption ==
  /\ \A c \in RouterConfigs :
       /\ {"owner", "mode", "billing", "auth", "catalog"} \subseteq DOMAIN c.sub
       /\ {"owner", "mode", "billing", "hasKey", "catalog", "allowAgentRouting"} \subseteq DOMAIN c.api
       /\ DOMAIN c.sub.catalog.models \subseteq Nat /\ DOMAIN c.api.catalog.models \subseteq Nat
  /\ \A c \in Catalogs : DOMAIN c.models \subseteq Nat

VARIABLES router, route, updates
rvars == <<router, route, updates>>

(* A missing string; no error.                                              *)
Unset == ""
NoModel == [name |-> Unset, cased |-> FALSE]
EqualFold(a, b) == a.name = b.name
Rank(s) == CASE s = "discovered" -> 1 [] s = "selectable" -> 2 [] s = "capability_pinned" -> 3 [] s = "live_qualified" -> 4 [] OTHER -> 0
Satisfies(s, required) == Rank(s) >= Rank(required) /\ Rank(s) > 0
IsSelectable(d) == d.state \in {"selectable", "capability_pinned", "live_qualified"}
(* What stands first among hits in the list s, as a list of at most one.    *)
FirstOf(s, hits) == IF hits = {} THEN <<>> ELSE << s[CHOOSE i \in hits : \A j \in hits : i <= j] >>
GetModel(cat, id) == FirstOf(cat.models, {i \in DOMAIN cat.models : id # NoModel /\ EqualFold(cat.models[i].id, id)})
DefaultModel(cat) == FirstOf(cat.models, {i \in DOMAIN cat.models : cat.models[i].default})

Or(v, default) == IF v = Unset THEN default ELSE v
NewDualLaneRouter(c) ==
  [sub |-> [c.sub EXCEPT !.owner = Or(@, "codex_process"), !.mode = Or(@, "chatgpt"), !.billing = Or(@, "subscription")],
   api |-> [c.api EXCEPT !.owner = Or(@, "reinframe_env"), !.mode = Or(@, "api_key"), !.billing = Or(@, "api_tokens")],
   defaultFallback |-> c.defaultFallback]

-----------------------------------------------------------------------------
Roles == {"agent", "classifier", "reviewer"}
AgentIntents == {"agent_turn", "app_server_session"}
Intents == AgentIntents \union {"classifier_assessment", "reviewer_advice", "direct_api", "benchmark_run"}

InferRole(req) == IF req.role # Unset THEN req.role
                  ELSE CASE req.intent \in AgentIntents -> "agent"
                         [] req.intent = "classifier_assessment" -> "classifier"
                         [] req.intent = "reviewer_advice" -> "reviewer"
                         [] OTHER -> Unset
InferIntent(req, role) == IF req.intent # Unset THEN req.intent
                          ELSE CASE role = "agent" -> "agent_turn" [] role = "classifier" -> "classifier_assessment"
                                 [] OTHER -> "reviewer_advice"
OptIn(r, req) == req.allowAgentAPIKey \/ r.api.allowAgentRouting

(* The role isolation check looks at what the request names explicitly.     *)
Isolation_ClassifierUnchecked(r, req, role, intent) ==
  IF /\ role = "agent" \/ intent \in AgentIntents
     /\ req.lane = "api" \/ req.credential = "api_key"
     /\ ~OptIn(r, req)
  THEN "agent_api_key_prohibited" ELSE Unset
Isolation(r, req, role, intent) ==
  IF /\ role = "classifier" \/ intent = "classifier_assessment"
     /\ req.lane = "sub" \/ req.credential = "subscription"
  THEN "classifier_oauth_prohibited"
  ELSE IF /\ role = "agent" \/ intent \in AgentIntents
          /\ req.lane = "api" \/ req.credential = "api_key"
          /\ ~OptIn(r, req)
  THEN "agent_api_key_prohibited" ELSE Unset

TargetLane(r, req, role) ==
  IF req.lane # Unset THEN req.lane
  ELSE IF role = "agent" /\ ~(req.credential = "api_key" /\ OptIn(r, req)) THEN "sub"
  ELSE "api"
CredentialFits(req, lane) == \/ req.credential \in {Unset, "unspecified"}
                             \/ req.credential = (IF lane = "sub" THEN "subscription" ELSE "api_key")

-----------------------------------------------------------------------------
(* Model resolution: [err, model, caps].                                    *)
Refuse(err) == [err |-> err, model |-> NoModel, caps |-> {}]
Chosen(model, caps) == [err |-> Unset, model |-> model, caps |-> caps]

ResolveCatalogModel(cat, laneCaps, req) ==
  LET wanted == IF req.model # NoModel THEN req.model
                ELSE IF DefaultModel(cat) # <<>> THEN DefaultModel(cat)[1].id
                ELSE IF cat.models # <<>> THEN cat.models[1].id
                ELSE NoModel
      found == GetModel(cat, wanted)
      desc == IF found = <<>> /\ req.allowSubstitution THEN GetModel(cat, req.fallbackModel) ELSE found
      supported == IF req.supportState # Unset THEN Satisfies(desc[1].state, req.supportState) ELSE IsSelectable(desc[1])
  IN IF wanted = NoModel THEN Chosen(NoModel, laneCaps)
     ELSE IF desc = <<>> \/ ~supported THEN Refuse("model_unavailable")
     ELSE IF desc[1].caps # {} /\ ~(req.caps \subseteq desc[1].caps) THEN Refuse("capability_not_met")
     ELSE Chosen(IF found # <<>> THEN wanted ELSE desc[1].id, IF desc[1].caps # {} THEN desc[1].caps ELSE laneCaps)

ResolveListedModel(models, laneCaps, req) ==
  LET Listed(id) == FirstOf(models, {i \in DOMAIN models : id # NoModel /\ EqualFold(models[i], id)})
  IN IF req.model = NoModel THEN Chosen(models[1], laneCaps)
     ELSE IF Listed(req.model) # <<>> THEN Chosen(req.model, laneCaps)
     ELSE IF req.allowSubstitution /\ Listed(req.fallbackModel) # <<>> THEN Chosen(Listed(req.fallbackModel)[1], laneCaps)
     ELSE Refuse("model_unavailable")

OrDefault(model, name) == IF model = NoModel THEN [name |-> name, cased |-> FALSE] ELSE model

ResolveSubscriptionModel(sub, req) ==
  IF ~sub.enabled THEN Refuse("no_route")
  ELSE IF sub.auth.known /\ (sub.auth.state # "authenticated" \/ sub.auth.mode # "chatgpt") THEN Refuse("auth_mismatch")
  ELSE IF ~(req.caps \subseteq sub.caps) THEN Refuse("capability_not_met")
  ELSE IF sub.catalog.known THEN ResolveCatalogModel(sub.catalog, sub.caps, req)
  ELSE Chosen(OrDefault(req.model, "gpt-5.3-codex"), sub.caps)
ResolveAPIResponsesModel(api, req) ==
  IF ~api.enabled THEN Refuse("no_route")
  ELSE IF ~api.hasKey /\ ~api.keyRef THEN Refuse("auth_mismatch")
  ELSE IF ~(req.caps \subseteq api.caps) THEN Refuse("capability_not_met")
  ELSE IF api.catalog.known THEN ResolveCatalogModel(api.catalog, api.caps, req)
  ELSE IF api.models # <<>> THEN ResolveListedModel(api.models, api.caps, req)
  ELSE Chosen(OrDefault(req.model, "gpt-4o"), api.caps)

NoDecision == [lane |-> Unset, owner |-> Unset, mode |-> Unset, model |-> NoModel, required |-> {}, caps |-> {}, billing |-> Unset,
               role |-> Unset, intent |-> Unset, policy |-> Unset, fallbackAllowed |-> FALSE]
Failed(err) == [err |-> err, dec |-> NoDecision]

ResolveRouteLocked(r, req) ==
  LET role == InferRole(req)
      intent == InferIntent(req, role)
      lane == TargetLane(r, req, role)
      cfg == IF lane = "sub" THEN r.sub ELSE r.api
      policy == Or(Or(req.policy, r.defaultFallback), "fail_closed")
      got == IF lane = "sub" THEN ResolveSubscriptionModel(r.sub, req) ELSE ResolveAPIResponsesModel(r.api, req)
  IN IF role \notin Roles \/ intent \notin Intents THEN Failed("no_route")
     ELSE IF Isolation(r, req, role, intent) # Unset THEN Failed(Isolation(r, req, role, intent))
     ELSE IF lane \notin {"sub", "api"} THEN Failed("no_route")
     ELSE IF ~CredentialFits(req, lane) THEN Failed("auth_mismatch")
     ELSE IF got.err # Unset THEN Failed(got.err)
     ELSE [err |-> Unset, dec |->
            [lane |-> lane, owner |-> cfg.owner, mode |-> cfg.mode, model |-> got.model, required |-> req.caps, caps |-> got.caps,
             billing |-> cfg.billing, role |-> role, intent |-> intent, policy |-> policy, fallbackAllowed |-> policy = "same_lane_only"]]

FallbackRequest(orig, opt) ==
  [role |-> orig.role, intent |-> orig.intent, lane |-> orig.lane, credential |-> Unset, caps |-> IF opt.caps # {} THEN opt.caps ELSE orig.required,
   model |-> opt.model, allowSubstitution |-> FALSE, fallbackModel |-> NoModel, supportState |-> Unset, policy |-> "fail_closed",
   allowAgentAPIKey |-> orig.role = "agent" /\ orig.lane = "api"]

ResolveFallbackLocked(r, orig, opt) ==
  LET got == ResolveRouteLocked(r, FallbackRequest(orig, opt))
  IN IF orig.policy # "same_lane_only" THEN Failed("cross_lane_prohibited")
     ELSE IF opt.model = NoModel \/ EqualFold(opt.model, orig.model) THEN Failed("no_route")
     ELSE IF got.err # Unset THEN Failed("no_route")
     ELSE IF got.dec.lane # orig.lane \/ got.dec.billing # orig.billing THEN Failed("cross_lane_prohibited")
     ELSE got

-----------------------------------------------------------------------------
(* route is what a caller holds: the request, its first decision, the       *)
(* current one, the router's configuration when that was made, the error.   *)

NoRoute == [held |-> FALSE]
RInit == router \in {NewDualLaneRouter(c) : c \in RouterConfigs} /\ route = NoRoute /\ updates = 0

(* A cancelled context returns before anything is read.                     *)
ResolveRoute(req) == LET got == ResolveRouteLocked(router, req)
                     IN /\ ~route.held
                        /\ route' = [held |-> TRUE, err |-> got.err, req |-> req, first |-> got.dec, dec |-> got.dec, at |-> router]
                        /\ UNCHANGED <<router, updates>>
ResolveFallback(failed, opt) == LET got == ResolveFallbackLocked(router, route.dec, opt)
                        IN /\ route.held /\ route.err = Unset
                           /\ route' = IF failed THEN [route EXCEPT !.err = got.err, !.dec = got.dec, !.at = router] ELSE route
                           /\ UNCHANGED <<router, updates>>
Forget == route.held /\ route' = NoRoute /\ UNCHANGED <<router, updates>>

Update(r) == updates < MaxUpdates /\ updates' = updates + 1 /\ router' = r /\ UNCHANGED route
UpdateSubscriptionCatalog == \E c \in Catalogs : Update([router EXCEPT !.sub.catalog = c])
UpdateSubscriptionAuth == \E a \in AuthSnapshots : Update([router EXCEPT !.sub.auth = a])
UpdateAPICatalog == \E c \in Catalogs : Update([router EXCEPT !.api.catalog = c])
SetAPIAvailability == \E has \in BOOLEAN : Update([router EXCEPT !.api.hasKey = has])

RNext == \/ \E req \in RouteRequests : ResolveRoute(req)
         \/ \E failed \in BOOLEAN, opt \in FallbackOptions : ResolveFallback(failed, opt)
         \/ Forget \/ UpdateSubscriptionCatalog \/ UpdateSubscriptionAuth \/ UpdateAPICatalog \/ SetAPIAvailability

RSpec == RInit /\ [][RNext]_rvars

-----------------------------------------------------------------------------
(* The routing a caller holds respects the isolation of the lanes: a        *)
(* classifier never rides the subscription, an agent is on the API only     *)
(* with an opt-in, a fallback keeps role, lane and billing, changes the     *)
(* model and permits no further fallback, and the model was selectable and  *)
(* capable in the catalog the lane had at that moment (ResolveRoute,        *)
(* ResolveFallback).                                                        *)
RouteIsolated ==
  route.held /\ route.err = Unset =>
    LET d == route.dec
        f == route.first
        lane == IF d.lane = "sub" THEN route.at.sub ELSE route.at.api
        entry == GetModel(lane.catalog, d.model)
    IN /\ d.role = "classifier" => d.lane = "api"
       /\ d.role = "agent" /\ d.lane = "api" => OptIn(route.at, route.req)
       /\ d.lane = "sub" /\ route.at.sub.auth.known => route.at.sub.auth.state = "authenticated"
       /\ <<d.role, d.intent, d.lane, d.owner, d.billing>> = <<f.role, f.intent, f.lane, f.owner, f.billing>>
       /\ d # f => ~EqualFold(d.model, f.model) /\ ~d.fallbackAllowed /\ f.fallbackAllowed
       /\ lane.catalog.known /\ d.model # NoModel =>
            /\ entry # <<>> /\ (entry[1].caps # {} => d.required \subseteq entry[1].caps /\ d.caps = entry[1].caps)
            /\ d # f \/ route.req.supportState = Unset => IsSelectable(entry[1])
=============================================================================
