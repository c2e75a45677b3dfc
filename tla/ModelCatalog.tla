----------------------------- MODULE ModelCatalog -----------------------------
(***************************************************************************)
(* The model catalog service (pkg/adapter/codex_models.go) over the cache  *)
(* partition manager (pkg/codexruntime/cache_partition.go): discovery of   *)
(* the models an account may use, cached per authentication partition,     *)
(* while accounts change, the cache is invalidated and callers overlap.    *)
(*                                                                         *)
(* An auth snapshot is [valid, authenticated, profile, owner, mode, scope, *)
(* generation].  A model/list response is [form, items]; an item is [kind, *)
(* id, state, caps, default], kind "name", "object" or "other", state ""   *)
(* when the field is missing and "?" when its value is unknown.            *)
(***************************************************************************)
EXTENDS LaneRouter, SequencesExt, FiniteSets

CONSTANTS Callers, Auths, Responses, MaxFetches

ASSUME CallersAssumption == "free" \notin Callers
ASSUME ResponsesAssumption == \A raw \in Responses : raw.items \in Seq(Range(raw.items))

(* of, in a snapshot, and refused are history: the account a catalog was    *)
(* fetched for, and whether the latest refresh has failed.                  *)
VARIABLES service, partition, lock, calls, fetches, expired, refused
cvars == <<service, partition, lock, calls, fetches, expired, refused>>

CacheKeyPartition(a) == <<a.profile, a.owner, a.mode, a.scope, a.generation>>
NoKey == <<>>
NoSnapshot == [generation |-> Unset, scope |-> Unset, models |-> <<>>, fetch |-> 0, of |-> NoKey]

-----------------------------------------------------------------------------
ParseItem(i) == IF i.kind = "name" THEN [id |-> i.id, state |-> "selectable", caps |-> {"events", "tools"}, default |-> FALSE]
                ELSE IF i.state = Unset THEN [id |-> i.id, state |-> "selectable", caps |-> i.caps, default |-> i.default]
                ELSE [id |-> i.id, state |-> IF i.state = "?" THEN "discovered" ELSE i.state, caps |-> i.caps, default |-> i.default]
ParseFails(raw) == \/ raw.form = "malformed"
                   \/ \E i \in ToSet(raw.items) : i.kind = "other" \/ (i.kind = "object" /\ i.id = NoModel)
(* The items in their order, less those without an id or of a name seen.    *)
ParseModelListResponse(raw) ==
  LET parsed[n \in 0..Len(raw.items)] ==
        IF n = 0 THEN <<>>
        ELSE LET i == raw.items[n]
             IN  IF i.id = NoModel \/ GetModel([models |-> parsed[n - 1]], i.id) # <<>> THEN parsed[n - 1]
                 ELSE Append(parsed[n - 1], ParseItem(i))
  IN  parsed[Len(raw.items)]
NewModelCatalogSnapshot(a, models, n) ==
  [generation |-> a.generation, scope |-> a.scope, models |-> models, fetch |-> n, of |-> CacheKeyPartition(a)]

(* The manager's key; how often and why it changed is only reported.        *)
UpdateSnapshot(a) == IF a.authenticated THEN CacheKeyPartition(a) ELSE NoKey

-----------------------------------------------------------------------------
(* A call is Discover or, forced, Refresh.  floor is a history value: the   *)
(* latest fetch that had been cleared when the call began.                  *)
NoCall == [pc |-> "idle", auth |-> [valid |-> FALSE], force |-> FALSE, floor |-> 0, err |-> Unset, snap |-> NoSnapshot]
CInit == /\ service = [key |-> NoKey, snap |-> NoSnapshot, cleared |-> 0] /\ partition = NoKey
         /\ lock = "free" /\ calls = [c \in Callers |-> NoCall] /\ fetches = 0 /\ expired = FALSE /\ refused = FALSE

Returns(c, err, snap) == calls' = [calls EXCEPT ![c].pc = "done", ![c].err = err, ![c].snap = snap]
Ask(c, a, force) ==
  /\ calls[c].pc \in {"idle", "done"} /\ fetches < MaxFetches
  /\ calls' = [calls EXCEPT ![c] = [NoCall EXCEPT !.pc = IF a.valid THEN "enter" ELSE "done", !.err = IF a.valid THEN Unset ELSE "invalid snapshot",
                                                  !.auth = a, !.force = force, !.floor = service.cleared]]
  /\ UNCHANGED <<service, partition, lock, fetches, expired, refused>>

Cleared(s) == [key |-> NoKey, snap |-> NoSnapshot, cleared |-> fetches]
ClearAll == service' = Cleared(service) /\ partition' = NoKey
Invalidate == /\ lock = "free" /\ ClearAll /\ UNCHANGED <<lock, calls, fetches, expired, refused>>

CacheHit_AnyPartition(c) == ~calls[c].force /\ service.snap # NoSnapshot /\ ~expired
CacheHit(c) == ~calls[c].force /\ service.key = CacheKeyPartition(calls[c].auth) /\ service.snap # NoSnapshot /\ ~expired
Enter(c) ==
  /\ calls[c].pc = "enter" /\ lock = "free" /\ UNCHANGED <<lock, fetches, expired, refused>>
  /\ \/ ~calls[c].auth.authenticated /\ ClearAll /\ Returns(c, "unauthenticated", NoSnapshot)
     \/ calls[c].auth.authenticated /\ CacheHit(c) /\ Returns(c, Unset, service.snap) /\ UNCHANGED <<service, partition>>
     \/ /\ calls[c].auth.authenticated /\ ~CacheHit(c)
        /\ calls' = [calls EXCEPT ![c].pc = "refresh"] /\ UNCHANGED <<service, partition>>

(* refreshWithPartition holds the lock for the whole model/list call.       *)
RefreshBegins(c) == /\ calls[c].pc = "refresh" /\ lock = "free" /\ lock' = c
                    /\ partition' = UpdateSnapshot(calls[c].auth)
                    /\ calls' = [calls EXCEPT ![c].pc = "list"] /\ UNCHANGED <<service, fetches, expired, refused>>
RefreshFails(c) == /\ lock = c /\ lock' = "free" /\ Returns(c, "model/list failed", NoSnapshot)
                   /\ refused' = TRUE /\ UNCHANGED <<service, partition, fetches, expired>>
RefreshEnds(c) == \E raw \in Responses :
  LET snap == NewModelCatalogSnapshot(calls[c].auth, ParseModelListResponse(raw), fetches + 1)
  IN /\ lock = c /\ fetches < MaxFetches /\ ~ParseFails(raw) /\ lock' = "free"
     /\ service' = [service EXCEPT !.key = CacheKeyPartition(calls[c].auth), !.snap = snap]
     /\ fetches' = fetches + 1 /\ expired' = FALSE /\ refused' = FALSE /\ Returns(c, Unset, snap) /\ UNCHANGED partition
(* The snapshot's time to live passes.                                      *)
Expires == service.snap # NoSnapshot /\ ~expired /\ expired' = TRUE /\ UNCHANGED <<service, partition, lock, calls, fetches, refused>>

(* GetModel, IsSelectable, DefaultModel and the other reads of the service. *)
CurrentModels(s, gone) == IF s.snap = NoSnapshot \/ gone THEN <<>> ELSE s.snap.models

CNext == \/ \E c \in Callers : \/ \E a \in Auths, force \in BOOLEAN : Ask(c, a, force)
                               \/ Enter(c) \/ RefreshBegins(c) \/ RefreshFails(c) \/ RefreshEnds(c)
         \/ Invalidate \/ Expires

CSpec == CInit /\ [][CNext]_cvars

-----------------------------------------------------------------------------
(* A caller is answered with a catalog fetched for the very partition it    *)
(* asked for (owner, mode and profile included), never one cleared before   *)
(* its call began.  Whoever reads the service (GetModel, CurrentSnapshot)   *)
(* while no refresh holds it gets a catalog fetched for the manager's       *)
(* partition, unless the latest refresh failed: UpdateSnapshot has moved    *)
(* the partition by then and the catalog of the account before it stays.    *)
(* A cleared partition serves nothing.  No model is listed twice.           *)
(* (Discover, Refresh, Invalidate, refreshWithPartition)                    *)
CatalogEntitled ==
  /\ \A c \in Callers : calls[c].pc = "done" /\ calls[c].err = Unset =>
       calls[c].snap.of = CacheKeyPartition(calls[c].auth) /\ calls[c].snap.fetch > calls[c].floor
  /\ service.snap # NoSnapshot /\ lock = "free" => partition # NoKey /\ (service.snap.of = partition \/ refused)
  /\ \A i, j \in DOMAIN CurrentModels(service, expired) :
       EqualFold(CurrentModels(service, expired)[i].id, CurrentModels(service, expired)[j].id) => i = j
=============================================================================
