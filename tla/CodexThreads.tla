----------------------------- MODULE CodexThreads -----------------------------
(***************************************************************************)
(* What the Codex client tells its callers about threads, turns and items  *)
(* (pkg/adapter/codex_app_server.go): the model identity a thread or turn  *)
(* ran under, the approvals the reader completes from the items it has     *)
(* seen, and the answer policy gives them.  RpcSession models the calls    *)
(* and queues below; here a call is asked and, later, answered.            *)
(*                                                                         *)
(* "" is a missing field; aliases of one field are one field.  An item is  *)
(* [given, id, type, path, command, tool].  A notice is [method, thread,   *)
(* turn, item], an approval message [method, kind, thread, turn, itemID,   *)
(* item, path, command, tool]; without a nested item, item is NoItem, the  *)
(* one that is not given.  Ids contain no "/".                             *)
(***************************************************************************)
EXTENDS Naturals, Sequences

CONSTANTS Clients,           \* goroutines that start threads and turns
          ThreadCalls,       \* their calls, [op, thread, model, fallback]
          ThreadIDs, Models, Notices, ApprovalMessages, HookPolicies, RpcErrors,
          EventsQueueDepth, MaxNotices, MaxThreadCalls

VARIABLES threadModels, itemCache, events, seqCounter, agentEvent,
          tcalls,            \* each client's call, or what it returned
          approval,          \* the approval under way, with its message and answer
          begun,             \* calls begun
          proven, told       \* history: models verified per thread; items by thread and turn
tvars == <<threadModels, itemCache, events, seqCounter, agentEvent, tcalls, approval, begun, proven, told>>

-----------------------------------------------------------------------------
(* Model identity *)

Identity(requested, reported, fallback, state) ==
  [requested |-> requested, reported |-> reported, fallback |-> fallback, state |-> state]
NoIdentity == Identity("", "", FALSE, "")
Verified(ident, err) == [ident |-> ident, err |-> err]

VerifyModelIdentity(requested, reported, fallback) ==
  CASE reported = "" -> Verified(Identity(requested, "", fallback, "identity_unproven"), "model_identity_unproven")
    [] reported # "" /\ requested \in {"", reported} -> Verified(Identity(requested, reported, fallback, "exact_match"), "")
    [] reported # "" /\ requested \notin {"", reported} /\ fallback ->
         Verified(Identity(requested, reported, TRUE, "fallback_allowed"), "")
    [] OTHER -> Verified(Identity(requested, reported, FALSE, "substitution_violated"), "model_unavailable")

\* The codes a server's message may suggest, in the order they are tried.
ErrorCodes == << "auth_required", "auth_expired", "unsupported_version", "rate_limited", "model_unavailable",
                 "model_identity_unproven", "approval_unsupported", "request_timeout", "protocol_oversized", "runtime_crashed" >>
MapServerRPCError(hints) ==
  LET hits == {i \in DOMAIN ErrorCodes : ErrorCodes[i] \in hints}
  IN  IF hits = {} THEN "protocol_malformed" ELSE ErrorCodes[CHOOSE i \in hits : \A j \in hits : i <= j]

NoTCall == [pc |-> "idle", op |-> "", thread |-> "", model |-> "", fallback |-> FALSE, report |-> "",
            ident |-> NoIdentity, err |-> "", known |-> {}]
Returned(c, thread, report, v) ==
  tcalls' = [tcalls EXCEPT ![c] = [@ EXCEPT !.pc = "done", !.thread = IF v.err = "" THEN thread ELSE "", !.report = report,
                                            !.ident = v.ident, !.err = v.err,
                                            !.known = IF thread \in DOMAIN proven THEN proven[thread] ELSE {}]]

Call(c, r) ==
  /\ tcalls[c].pc # "asked" /\ begun < MaxThreadCalls /\ begun' = begun + 1
  /\ r.thread # "" \/ r.op = "thread/start"
  /\ tcalls' = [tcalls EXCEPT ![c] = [NoTCall EXCEPT !.pc = "asked", !.op = r.op, !.thread = r.thread, !.model = r.model, !.fallback = r.fallback]]
  /\ UNCHANGED <<threadModels, itemCache, events, seqCounter, agentEvent, approval, proven, told>>

Put(f, k, v) == [x \in DOMAIN f \union {k} |-> IF x = k THEN v ELSE f[x]]
Answering(c, op) == tcalls[c].pc = "asked" /\ tcalls[c].op = op
Keep == UNCHANGED <<itemCache, events, seqCounter, agentEvent, approval, begun, told>>

\* The identity of a thread is kept only if it verifies.
Remember(thread, v) ==
  IF v.err # "" THEN UNCHANGED <<threadModels, proven>>
  ELSE /\ threadModels' = Put(threadModels, thread, v.ident)
       /\ proven' = Put(proven, thread, {v.ident.reported} \union IF thread \in DOMAIN proven THEN proven[thread] ELSE {})

StartThread(c, id, model) ==
  LET r == tcalls[c]
      thread == IF id # "" THEN id ELSE r.thread
      v == VerifyModelIdentity(r.model, model, r.fallback)
  IN  /\ Answering(c, "thread/start") /\ Remember(thread, v) /\ Returned(c, thread, model, v) /\ Keep

\* A resumed thread is asked for no model: whatever is reported is exact.
ResumeThread(c, model) ==
  LET r == tcalls[c]
      v == VerifyModelIdentity("", model, r.fallback)
  IN  /\ Answering(c, "thread/resume") /\ Remember(r.thread, v) /\ Returned(c, r.thread, model, v) /\ Keep

\* A turn without a reported model has its thread's identity as it is by then;
\* without that either, the requested model is taken to have run.
TurnIdentity(r, model) ==
  CASE model # "" -> VerifyModelIdentity(r.model, model, r.fallback)
    [] model = "" /\ r.thread \in DOMAIN threadModels -> Verified(threadModels[r.thread], "")
    [] OTHER -> Verified(Identity(r.model, r.model, r.fallback, "exact_match"), "")
StartTurn(c, model) ==
  /\ Answering(c, "turn/start") /\ Returned(c, tcalls[c].thread, model, TurnIdentity(tcalls[c], model))
  /\ UNCHANGED <<threadModels, proven>> /\ Keep

InterruptTurn(c) ==
  /\ Answering(c, "turn/interrupt") /\ Returned(c, tcalls[c].thread, "", Verified(NoIdentity, ""))
  /\ UNCHANGED <<threadModels, proven>> /\ Keep

CallFails(c, hints) ==
  /\ tcalls[c].pc = "asked" /\ Returned(c, "", "", Verified(NoIdentity, MapServerRPCError(hints)))
  /\ UNCHANGED <<threadModels, proven>> /\ Keep

-----------------------------------------------------------------------------
(* Items and events *)

NoItem == [given |-> FALSE, id |-> "", type |-> "", path |-> "", command |-> "", tool |-> ""]
ItemKey(thread, turn, id) == <<thread, turn, id>>

\* Under its thread and turn, when both are known, and under its bare id.
CacheItemState(p) ==
  IF p.item.id = "" THEN UNCHANGED <<itemCache, told>>
  ELSE LET full == IF p.thread # "" /\ p.turn # "" THEN {ItemKey(p.thread, p.turn, p.item.id)} ELSE {}
       IN  /\ itemCache' = [k \in DOMAIN itemCache \union full \union {<<p.item.id>>} |->
                              IF k \in full \union {<<p.item.id>>} THEN p.item ELSE itemCache[k]]
           /\ told' = [k \in DOMAIN told \union full |-> IF k \in full THEN p.item ELSE told[k]]

ParseRuntimeEvent(n, seq) ==
  [seq |-> seq, thread |-> n.thread, turn |-> n.turn, item |-> n.item.id,
   type |-> IF n.item.type = "" THEN n.method ELSE n.item.type]

ProtocolType(type) ==
  CASE type \in {"commandExecution", "mcpToolCall"} -> "tool_call"
    [] type = "fileChange" -> "file_change"
    [] type = "turn/started" -> "turn_start"
    [] type \in {"turn/completed", "turn/finished"} -> "turn_end"
    [] OTHER -> "message"
ToAgentEvent(ev) == [seq |-> ev.seq, session |-> ev.thread, type |-> ProtocolType(ev.type)]

\* handleServerNotification: a full queue loses the event, not its number.
Notify(n) ==
  /\ seqCounter < MaxNotices /\ seqCounter' = seqCounter + 1
  /\ CacheItemState(n)
  /\ events' = IF Len(events) < EventsQueueDepth THEN Append(events, ParseRuntimeEvent(n, seqCounter')) ELSE events
  /\ UNCHANGED <<threadModels, agentEvent, tcalls, approval, begun, proven>>

TakeEvent ==
  /\ events # <<>> /\ agentEvent' = ToAgentEvent(Head(events)) /\ events' = Tail(events)
  /\ UNCHANGED <<threadModels, itemCache, seqCounter, tcalls, approval, begun, proven, told>>

-----------------------------------------------------------------------------
(* Approvals *)

Nested(m) == m.item.given
ApprovalKind(m) ==
  CASE Nested(m) -> IF m.item.type = "commandExecution" THEN "command" ELSE IF m.item.type = "fileChange" THEN "file" ELSE "tool"
    [] ~Nested(m) /\ m.method = "item/commandExecution/requestApproval" -> "command"
    [] ~Nested(m) /\ m.method = "item/fileChange/requestApproval" -> "file"
    [] ~Nested(m) /\ m.method = "item/mcpToolCall/requestApproval" -> "tool"
    [] OTHER -> IF m.kind \in {"command", "file"} THEN m.kind ELSE "tool"

\* What the message itself says: its nested item's fields or, without one, its own.
Stated(m) == IF Nested(m) THEN [path |-> m.item.path, command |-> m.item.command, tool |-> m.item.tool]
                          ELSE [path |-> m.path, command |-> m.command, tool |-> m.tool]

LookupItem_BareFirst(m, cache) ==
  IF <<m.itemID>> \in DOMAIN cache THEN cache[<<m.itemID>>] ELSE NoItem
LookupItem(m, cache) ==
  CASE ItemKey(m.thread, m.turn, m.itemID) \in DOMAIN cache -> cache[ItemKey(m.thread, m.turn, m.itemID)]
    [] ItemKey(m.thread, m.turn, m.itemID) \notin DOMAIN cache /\ <<m.itemID>> \in DOMAIN cache -> cache[<<m.itemID>>]
    [] OTHER -> NoItem

\* Missing fields come from the cached item, if the path or the command is missing.
Completed(m, cache) ==
  LET s == Stated(m)
      i == LookupItem(m, cache)
  IN  IF m.itemID = "" \/ (s.path # "" /\ s.command # "") THEN s
      ELSE [f \in DOMAIN s |-> IF s[f] = "" THEN i[f] ELSE s[f]]

NoApproval == [pc |-> "none"]

\* parseApprovalRequest, after cacheItemState on the same message.
ReadApprovalMessage(m) ==
  /\ approval.pc # "queued" /\ CacheItemState(m)
  /\ approval' = [pc |-> "queued", msg |-> m, kind |-> ApprovalKind(m), is |-> Completed(m, itemCache'),
                  own |-> LET k == ItemKey(m.thread, m.turn, m.itemID) IN IF k \in DOMAIN told' THEN <<told'[k]>> ELSE <<>>,
                  policy |-> <<>>, wire |-> ""]
  /\ UNCHANGED <<threadModels, events, seqCounter, agentEvent, tcalls, begun, proven>>

\* The hook sees a command only when the approval names no tool.
HookRequest(a) == [path |-> a.is.path, tool |-> IF a.kind = "command" /\ a.is.tool = "" THEN a.is.command ELSE a.is.tool]

\* EvaluateHook, which HookGate models: its rules on this request.
Verdict(p, h) == IF h.tool # "" /\ h.tool \in p.denied THEN "deny"
                 ELSE IF p.scope # {} /\ h.path \notin p.scope THEN "deny"
                 ELSE IF p.pending THEN "defer" ELSE "allow"

\* RouteApprovalRequest, under a context that is live, dead at its start, or
\* ends during the evaluation, which may then report its timeout.
RouteApprovalRequest(a, p, ctx) ==
  LET v == Verdict(p, HookRequest(a))
      late == IF p.failOpen THEN "allow" ELSE "deny"
      Answer(x) == IF x = "allow" THEN "allow" ELSE IF ctx = "live" THEN "deny" ELSE "cancel"
  IN  CASE ctx = "dead" -> {"cancel"}
        [] ctx = "ends" -> {Answer(v), Answer(late)}
        [] OTHER -> {Answer(v)}

WireDecision(decision, forSession) ==
  CASE decision = "allow" -> IF forSession THEN "acceptForSession" ELSE "accept"
    [] decision = "cancel" -> "cancel"
    [] OTHER -> "decline"

RespondToApproval(p, ctx, forSession) ==
  /\ approval.pc = "queued"
  /\ \E d \in RouteApprovalRequest(approval, p, ctx) :
       approval' = [approval EXCEPT !.pc = "answered", !.policy = <<p, ctx>>, !.wire = WireDecision(d, forSession)]
  /\ UNCHANGED <<threadModels, itemCache, events, seqCounter, agentEvent, tcalls, begun, proven, told>>

-----------------------------------------------------------------------------
TInit ==
  /\ threadModels = <<>> /\ itemCache = <<>> /\ events = <<>> /\ seqCounter = 0 /\ agentEvent = <<>>
  /\ tcalls = [c \in Clients |-> NoTCall] /\ approval = NoApproval /\ begun = 0 /\ proven = <<>> /\ told = <<>>

ThreadNext == \E c \in Clients :
  \/ \E r \in ThreadCalls : Call(c, r)
  \/ \E t \in ThreadIDs \union {""}, m \in Models \union {""} : StartThread(c, t, m)
  \/ \E m \in Models \union {""} : ResumeThread(c, m) \/ StartTurn(c, m)
  \/ InterruptTurn(c)
  \/ \E e \in RpcErrors : CallFails(c, e)
ItemNext ==
  \/ \E n \in Notices : Notify(n)
  \/ TakeEvent
  \/ \E m \in ApprovalMessages : ReadApprovalMessage(m)
  \/ \E p \in HookPolicies, ctx \in {"live", "dead", "ends"}, s \in BOOLEAN : RespondToApproval(p, ctx, s)

TSpec == TInit /\ [][ThreadNext \/ ItemNext]_tvars

-----------------------------------------------------------------------------
(* What callers are told rests on what the server said about that thread.   *)
(* An approval keeps every field its message states, and a missing one is   *)
(* filled from the item of its own thread and turn whenever that was        *)
(* announced, also when another thread announced an item of the same id     *)
(* later; so it is accepted only if policy allows the path the server named *)
(* for that item, or the evaluation timed out under a fail-open policy.  A  *)
(* turn's model was reported for the turn or verified for its thread,       *)
(* unless neither was ever.  A model that was not asked for is returned     *)
(* with leave, or by a turn for which none was reported: it inherits its    *)
(* thread's, whatever it asked for (parseApprovalRequest, VerifyModelIdentity, *)
(* RouteApprovalRequest, StartThread, StartTurn).                           *)
ServerGrounded ==
  /\ approval # NoApproval =>
       LET s == Stated(approval.msg)
           path == IF s.path # "" THEN s.path ELSE approval.own[1].path
       IN  /\ \A f \in DOMAIN s : s[f] # "" => approval.is[f] = s[f]
           /\ approval.own # <<>> => \A f \in DOMAIN s : s[f] = "" => approval.is[f] \in {"", approval.own[1][f]}
           /\ approval.own # <<>> /\ approval.wire \in {"accept", "acceptForSession"} =>
                LET p == approval.policy[1]
                IN  \/ p.scope = {} \/ path \in p.scope
                    \/ p.failOpen /\ approval.policy[2] = "ends"
  /\ \A c \in Clients :
       LET r == tcalls[c]
       IN  r.pc = "done" /\ r.err = "" /\ r.op # "turn/interrupt" =>
             /\ r.known # {} \/ r.report # "" \/ r.op # "turn/start" => r.ident.reported \in (r.known \union {r.report}) \ {""}
             /\ r.model \notin {"", r.ident.reported} /\ ~r.fallback /\ r.op # "thread/resume" =>
                  r.op = "turn/start" /\ r.report = "" /\ r.ident.reported \in r.known
=============================================================================
