---------------------------- MODULE MCSupervision ----------------------------
(* Small instances of the supervision pipeline, the store, the gate and the  *)
(* detectors; `part` chooses one at the start.                               *)
EXTENDS Supervision
Text(w) == [words |-> w, form |-> "plain"]
Shout(w) == [words |-> w, form |-> "shouted"]
Attempt(w, ok, exempt, changed) ==
  [command |-> Text(w), scope |-> "all", workspaceRev |-> "r", contractRev |-> 1, purpose |-> Text("test"),
   succeeded |-> ok, exempt |-> exempt, workspaceChanged |-> changed]
Failure(type, payload) == [kind |-> "failure", event |-> [type |-> type, payload |-> payload]]
MCObservations ==
  { Failure("error", [error |-> Text("f")]), Failure("test_result", [failure_output |-> Shout("f")]),
    Failure("tool_call", [exit_code |-> 1]), Failure("tool_call", [source |-> Text("rollout")]),
    [kind |-> "event", type |-> "tool_call", override |-> 0], [kind |-> "event", type |-> "tool_call", override |-> 1],
    [kind |-> "event", type |-> "file_change", override |-> 0], [kind |-> "event", type |-> "test_result", override |-> 0],
    [kind |-> "validate", attempt |-> Attempt("v", TRUE, FALSE, FALSE)], [kind |-> "validate", attempt |-> Attempt("v", FALSE, FALSE, TRUE)],
    [kind |-> "validate", attempt |-> Attempt("v", TRUE, TRUE, FALSE)], [kind |-> "validate", attempt |-> Attempt("w", TRUE, FALSE, TRUE)],
    [kind |-> "hypothesis", text |-> Text("f"), ids |-> {""}], [kind |-> "hypothesis", text |-> Shout("f"), ids |-> {"e1", ""}],
    [kind |-> "hypothesis", text |-> Text("f"), ids |-> {"e2"}],
    [kind |-> "reset"] }
Review(err, tunnel) == [err |-> err, tunnel |-> tunnel, sure |-> FALSE, advice |-> ""]
Adj(c, l, r) == [uncertain |-> FALSE, contract |-> c, ledger |-> l, prompt |-> "", review |-> r]
Contract(risk) == [complexity |-> "simple", risk |-> risk, criteria |-> {"c1"}]
MCAdjudications == { Adj(None, None, None), Adj(None, None, Review(FALSE, TRUE)), Adj(Contract("high"), None, Review(FALSE, FALSE)),
                     Adj(Contract("low"), [met |-> {"c1"}], Review(TRUE, FALSE)) }
MCFingerprints == {"f", "test_failed", "tool_exit", "payload"}

Ev(id, seq) == [id |-> id, session |-> "s", seq |-> seq, type |-> "error"]
All == [session |-> "s", types |-> {}, from |-> 1, to |-> 9, ascending |-> TRUE, limit |-> 2, offset |-> 0]
MCRequests == [ a |-> [kind |-> "append", events |-> <<Ev("x", 1), Ev("y", 2)>>],
                b |-> [kind |-> "append", events |-> <<Ev("z", 3), Ev("w", 2)>>],
                q |-> [kind |-> "query", filter |-> All],
                l |-> [kind |-> "latest", session |-> "s"],
                m |-> [kind |-> "open"], n |-> [kind |-> "open"] ]

Rule == [failOpen |-> FALSE, denied |-> {}, reasons |-> [t \in {} |-> ""], scope |-> {}, budget |-> FALSE, hard |-> "", pending |-> ""]
Plain == [use |-> FALSE]
Before(c, l, ch) == [use |-> TRUE, contract |-> c, ledger |-> l, churn |-> ch]
MCPolicies == { [base |-> Rule, before |-> Plain],
                [base |-> [Rule EXCEPT !.failOpen = TRUE, !.scope = {"/w"}], before |-> Plain],
                [base |-> [Rule EXCEPT !.denied = {"rm"}], before |-> Plain],
                [base |-> [Rule EXCEPT !.hard = "iv0", !.budget = TRUE], before |-> Plain],
                [base |-> [Rule EXCEPT !.budget = TRUE], before |-> Plain],
                [base |-> Rule, before |-> Before(Contract("low"), [met |-> {"c1"}], FALSE)],
                [base |-> Rule, before |-> Before(None, None, TRUE)] }
MCToolRequests == { [tool |-> "Bash", path |-> {"/w"}, proposed |-> TRUE, suite |-> TRUE],
                    [tool |-> "rm", path |-> {}, proposed |-> FALSE, suite |-> FALSE],
                    [tool |-> "", path |-> {"/w"}, proposed |-> FALSE, suite |-> FALSE] }

Line(kind, w, at, size) == [kind |-> kind, text |-> Text(w), at |-> at, end |-> at + size]
MCContents ==
  { [lines |-> {Line("meta", "s", 0, 2), Line("output", "f", 2, 2), Line("output", "f", 4, 2)}, cuts |-> {3, 6}],
    [lines |-> {Line("output", "f", 0, 4), Line("other", "", 4, 6), Line("call", "", 10, 2)}, cuts |-> {9, 12}] }
MCSessions == {"s", "codex-unknown"}
Cfg(batch, max, atEnd, closedCursor, override, cur) ==
  [batch |-> batch, maxEvents |-> max, startAtEnd |-> atEnd, failClosed |-> closedCursor, override |-> override, cursor |-> cur]
MCConfigs == { Cfg(0, 0, FALSE, FALSE, "", TRUE), Cfg(1, 0, FALSE, TRUE, "s", TRUE), Cfg(0, 2, TRUE, FALSE, "", FALSE) }

VARIABLE part
parts == <<tvars, pvars, svars, lvars, gvars, part>>
Others == UNCHANGED <<applied, closed, inFlight, db, closer, late, op, lvars, gvars, part>>
Init == /\ part \in {"pipeline", "store", "library", "gate"} /\ PInit /\ SInit /\ LInit /\ GInit
        /\ \/ part = "pipeline"
           \/ (cfg = CHOOSE c \in Configs : TRUE) /\ file = File(CHOOSE c \in Contents : TRUE)
Next == \/ part = "pipeline" /\ PNext /\ Others
        \/ part = "store" /\ SNext /\ UNCHANGED <<tvars, pvars, lvars, gvars, part>>
        \/ part = "library" /\ LNext /\ UNCHANGED <<tvars, pvars, svars, gvars, part>>
        \/ part = "gate" /\ GNext /\ UNCHANGED <<tvars, pvars, svars, lvars, part>>
Runs(A) == part = "pipeline" /\ A /\ Others
Spec == /\ Init /\ [][Next]_parts
        /\ WF_parts(Runs(Follow /\ UNCHANGED <<pvars, rows>>)) /\ WF_parts(Runs(Handle))
=============================================================================
