------------------------------- MODULE MCFiles -------------------------------
(* Small instances of the router, the model catalog, the Codex threads  *)
(* and items, the hook files and the managed worktrees; `part` chooses one  *)
(* at the start.                                                            *)
EXTENDS ModelCatalog, CodexThreads, HookFiles, ManagedWorktree, TLC

M(name) == [name |-> name, cased |-> FALSE]
Shouted(name) == [name |-> name, cased |-> TRUE]
Desc(id, state, caps, default) == [id |-> id, state |-> state, caps |-> caps, default |-> default]
Catalog(models) == [known |-> TRUE, models |-> models]
NoCatalog == [known |-> FALSE, models |-> <<>>]
MCCatalogs == { Catalog(<<>>),
                Catalog(<<Desc(M("a"), "selectable", {"tools"}, FALSE), Desc(Shouted("b"), "live_qualified", {}, TRUE)>>),
                Catalog(<<Desc(M("b"), "discovered", {"tools", "image"}, FALSE), Desc(M("a"), "capability_pinned", {"image"}, FALSE)>>) }
Auth(state, mode) == [known |-> TRUE, state |-> state, mode |-> mode]
MCAuthSnapshots == {Auth("authenticated", "chatgpt"), Auth("expired", "chatgpt"), Auth("authenticated", "api_key")}
Lane == [enabled |-> TRUE, owner |-> "", mode |-> "", billing |-> "", caps |-> {"tools", "image"}, catalog |-> NoCatalog]
Sub == Lane @@ [auth |-> [known |-> FALSE, state |-> "", mode |-> ""]]
Api == Lane @@ [hasKey |-> TRUE, keyRef |-> FALSE, models |-> <<>>, allowAgentRouting |-> FALSE]
MCRouterConfigs == { [sub |-> Sub, api |-> Api, defaultFallback |-> "same_lane_only"],
                     [sub |-> [Sub EXCEPT !.caps = {"tools"}], defaultFallback |-> "",
                      api |-> [Api EXCEPT !.models = <<M("a"), M("b")>>, !.allowAgentRouting = TRUE]] }
Req == [role |-> "", intent |-> "", lane |-> "", credential |-> "", caps |-> {}, model |-> NoModel, allowSubstitution |-> FALSE,
        fallbackModel |-> NoModel, supportState |-> "", policy |-> "", allowAgentAPIKey |-> FALSE]
Agent == [Req EXCEPT !.intent = "agent_turn"]
Classify == [Req EXCEPT !.role = "classifier"]
MCRouteRequests ==
  { Req, Agent, Classify, [Agent EXCEPT !.lane = "api"], [Agent EXCEPT !.credential = "api_key", !.allowAgentAPIKey = TRUE, !.policy = "same_lane_only"],
    [Agent EXCEPT !.model = Shouted("a"), !.caps = {"tools"}, !.policy = "same_lane_only"], [Agent EXCEPT !.supportState = "discovered", !.caps = {"image"}],
    [Agent EXCEPT !.model = M("c"), !.allowSubstitution = TRUE, !.fallbackModel = M("b")],
    [Classify EXCEPT !.lane = "sub"], [Classify EXCEPT !.credential = "subscription"], [Classify EXCEPT !.model = M("a"), !.policy = "same_lane_only"],
    [Req EXCEPT !.role = "reviewer", !.model = M("c")], [Req EXCEPT !.role = "reviewer", !.credential = "subscription", !.lane = "api"],
    [Req EXCEPT !.role = "reviewer", !.lane = "sub"] }
MCFallbackOptions == { [model |-> m, caps |-> c] : m \in {NoModel, M("a"), Shouted("b")}, c \in {{}, {"image"}} }

Account == [valid |-> TRUE, authenticated |-> TRUE, profile |-> "p", owner |-> "codex_process", mode |-> "chatgpt",
            scope |-> "all", generation |-> "g1"]
MCAuths == { Account, [Account EXCEPT !.owner = "reinframe_env"], [Account EXCEPT !.generation = "g2"],
             [Account EXCEPT !.authenticated = FALSE], [Account EXCEPT !.valid = FALSE] }
Item(kind, id, state) == [kind |-> kind, id |-> id, state |-> state, caps |-> {}, default |-> FALSE]
MCResponses == { [form |-> "malformed", items |-> <<>>], [form |-> "list", items |-> <<Item("object", NoModel, "")>>],
                 [form |-> "list", items |-> <<Item("name", M("a"), ""), Item("object", Shouted("a"), "?"), Item("object", M("b"), "")>>] }

MCEvents == {"PreToolUse", "Stop"}
Json(entries, shape, owner, hash) ==
  [text |-> "json", hooks |-> "object", events |-> [e \in MCEvents |-> [shape |-> shape, entries |-> entries]], owner |-> owner, hash |-> hash, stamp |-> 1]
Blank(text) == [Absent EXCEPT !.text = text, !.stamp = 1]
Old == [OwnedEntry("codex", "old") EXCEPT !.ok = FALSE, !.user = {3}]
Mixed == [Entry({2}) EXCEPT !.nested = TRUE]
MCInitialFiles ==
  { Absent, Blank("link"), Blank("empty"), Blank("malformed"), Blank("json"), [Blank("json") EXCEPT !.hooks = "other"],
    Json(<<>>, "other", FALSE, ""), Json(<<Entry({1})>>, "array", FALSE, ""), Json(<<Entry({1}), Old, Mixed>>, "array", TRUE, "old") }

TCall(op, thread, model, fallback) == [op |-> op, thread |-> thread, model |-> model, fallback |-> fallback]
MCThreadCalls == { TCall("thread/start", "t1", "m1", FALSE), TCall("thread/start", "", "m1", TRUE), TCall("thread/resume", "t1", "", FALSE),
                   TCall("turn/start", "t1", "m1", FALSE), TCall("turn/start", "t1", "m2", TRUE), TCall("turn/start", "t2", "", FALSE),
                   TCall("turn/interrupt", "t1", "", FALSE), TCall("turn/start", "", "m1", FALSE) }
TItem(id, type, path, command) == [given |-> TRUE, id |-> id, type |-> type, path |-> path, command |-> command, tool |-> ""]
Notice(method, thread, item) == [method |-> method, thread |-> thread, turn |-> IF thread = "" THEN "" ELSE "u", item |-> item]
MCNotices == { Notice("item/started", "t1", TItem("i", "fileChange", "in", "")), Notice("item/started", "t2", TItem("i", "fileChange", "out", "")),
               Notice("item/started", "", TItem("i", "commandExecution", "", "rm")), Notice("turn/started", "t1", NoItem),
               Notice("turn/completed", "t1", NoItem), Notice("item/started", "t1", TItem("j", "mcpToolCall", "", "")) }
Message(method, thread, itemID, item) ==
  [method |-> method, kind |-> "", thread |-> thread, turn |-> "u", itemID |-> itemID, item |-> item, path |-> "", command |-> "", tool |-> ""]
MCApprovalMessages ==
  { Message("item/fileChange/requestApproval", "t1", "i", NoItem), Message("item/fileChange/requestApproval", "t2", "i", NoItem),
    Message("approval/request", "t1", "i", TItem("i", "fileChange", "out", "")),
    [Message("item/commandExecution/requestApproval", "t1", "", NoItem) EXCEPT !.command = "rm", !.path = "in"],
    [Message("approval/request", "t1", "i", NoItem) EXCEPT !.kind = "command", !.tool = "sh"],
    [Message("item/mcpToolCall/requestApproval", "t1", "", NoItem) EXCEPT !.tool = "sh"],
    Message("approval/request", "t2", "i", TItem("j", "commandExecution", "", "ls")),
    Message("approval/request", "t2", "i", TItem("j", "plan", "", "")),
    Message("item/commandExecution/requestApproval", "t1", "i", TItem("", "", "", "ls")) }
Policy(denied, scope, pending, failOpen) == [denied |-> denied, scope |-> scope, pending |-> pending, failOpen |-> failOpen]
MCHookPolicies == {Policy({"rm"}, {}, FALSE, FALSE), Policy({}, {"in"}, FALSE, FALSE), Policy({}, {"in"}, FALSE, TRUE), Policy({}, {}, TRUE, FALSE)}

VARIABLE part
files == <<rvars, cvars, tvars, hvars, wvars, part>>
First == router = NewDualLaneRouter(CHOOSE c \in RouterConfigs : TRUE)
Init == /\ part \in {"router", "catalog", "threads", "items", "hooks", "worktree"} /\ RInit /\ CInit /\ TInit /\ HInit /\ WInit
        /\ part = "router" \/ First
        /\ part = "hooks" \/ (manager = "claude" /\ file = Absent)
Next == \/ part = "router" /\ RNext /\ UNCHANGED <<cvars, tvars, hvars, wvars, part>>
        \/ part = "catalog" /\ CNext /\ UNCHANGED <<rvars, tvars, hvars, wvars, part>>
        \/ part = "threads" /\ ThreadNext /\ UNCHANGED <<rvars, cvars, hvars, wvars, part>>
        \/ part = "items" /\ ItemNext /\ UNCHANGED <<rvars, cvars, hvars, wvars, part>>
        \/ part = "hooks" /\ HNext /\ UNCHANGED <<rvars, cvars, tvars, wvars, part>>
        \/ part = "worktree" /\ WNext /\ UNCHANGED <<rvars, cvars, tvars, hvars, part>>
Spec == Init /\ [][Next]_files
=============================================================================
