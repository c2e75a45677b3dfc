----------------------------- MODULE Supervision -----------------------------
(***************************************************************************)
(* The supervision pipeline: the events of the Codex tail are handled by   *)
(* the orchestrator, which appends each to the store, shows it to the      *)
(* repeated-failure detector, adjudicates the signal and latches the       *)
(* advisory it enqueued (supervisor.HandleEvent).  A crash takes the       *)
(* tail, the channel, the detector and the latch; the store and the        *)
(* cursor stay.                                                            *)
(***************************************************************************)
EXTENDS CodexTail, SignalPolicy, EventStore

CONSTANT Sessions

\* The fingerprint of the failure an event reports.
FailureOf(ev) == NormalizeFingerprint(ExtractFailureText(ev))

\* The maps of the detector and of the orchestrator take every session and
\* fingerprint the rollout can bring up.
ASSUME PipelineAssumption ==
  /\ (Sids \ {""}) \union {"codex-unknown"} \subseteq Sessions /\ Threshold \in Nat
  /\ \A l \in Lines : EventType(l) # "" =>
       FailureOf([type |-> EventType(l), payload |-> Payload(EventType(l), l.text)]) \in Fingerprints \union {""}

VARIABLES handler,   \* [pc, ev]
          counts,    \* the detector's counters by session
          pending,   \* pendingLatch by session
          signals    \* every signal raised: <<session, fingerprint>>
pvars == <<handler, counts, pending, signals>>

Idle == [pc |-> "idle", ev |-> None]
NoCounts == [s \in Sessions |-> Zero(Fingerprints)]
PInit == TInit /\ handler = Idle /\ counts = NoCounts /\ pending = [s \in Sessions |-> FALSE] /\ signals = {}

-----------------------------------------------------------------------------
(* HandleEvent *)

\* What the handler goes on with after the append.
AfterAppend_Ignored(w, ev) == [pc |-> "observe", ev |-> ev]

AfterAppend(w, ev) == IF MapWriteErr(w.err, FALSE, FALSE) = "none" THEN [pc |-> "observe", ev |-> ev] ELSE Idle

\* The next event: the append, whose failure ends the call.
HandleAppend ==
  /\ handler.pc = "idle" /\ chan # <<>>
  /\ LET w == InsertOne(rows, chan[1])
     IN  rows' = w.tab /\ handler' = AfterAppend(w, chan[1])
  /\ chan' = SubSeq(chan, 2, Len(chan))
  /\ UNCHANGED <<cfg, file, cursor, tail, canceled, faults, sent, counts, pending, signals>>

\* Observe, EvaluateSlow, Enqueue and the latch.  That the queue may
\* suppress the advisory and that it is latched a step later are AdvisoryDelivery's.
HandleObserve ==
  /\ handler.pc = "observe" /\ handler' = Idle
  /\ LET ev == handler.ev
         fp == FailureOf(ev)
         r == ObserveFailure(counts[ev.session], fp, Threshold)
         act == EvaluateSlow(IF r.fired THEN Signal("repeated_error_loop", "RepeatedFailureDetector") ELSE None,
                             FALSE, None, None, "", None).action
     IN  /\ counts' = [counts EXCEPT ![ev.session] = r.counts]
         /\ signals' = IF r.fired THEN signals \union {<<ev.session, fp>>} ELSE signals
         /\ pending' = IF act = "ZOOM_OUT_PROMPT" THEN [pending EXCEPT ![ev.session] = TRUE] ELSE pending
  /\ UNCHANGED <<tvars, rows>>

Crash == /\ tail.pc # "down" /\ Fault
         /\ tail' = Down /\ chan' = <<>> /\ canceled' = FALSE
         /\ handler' = Idle /\ counts' = NoCounts /\ pending' = [s \in Sessions |-> FALSE]
         /\ UNCHANGED <<cfg, file, cursor, sent, rows, signals>>

Handle == HandleAppend \/ HandleObserve
PNext == \/ (Follow \/ World) /\ UNCHANGED <<pvars, rows>>
         \/ Handle \/ Crash

PSpec == PInit /\ rows = {} /\ [][PNext]_<<tvars, pvars, rows>>

-----------------------------------------------------------------------------
(* Properties *)

\* The stored events of a session that report a failure.
Reports(session, fp) == { r \in rows : r.session = session /\ FailureOf(r) = fp }

\* A repeated-failure signal of a session rests on Threshold different records of
\* the rollout with that failure, all of them stored under the session: a record
\* emitted again after a crash, a lost cursor or a spurious rotation is refused by
\* the store's uniqueness before the detector sees it.
SignalEarned == \A sg \in signals : Cardinality({ r.rec : r \in Reports(sg[1], sg[2]) }) >= Threshold

\* The inductive invariant of the pipeline: an event's sequence number is its
\* record's end, no two rows share one in a session, and a counter is at most the
\* stored reports of its failure, the one still to be observed not among them.
Payloads == { Payload("tool_call", l.text) : l \in Lines } \union { Payload("error", l.text) : l \in Lines }
Events == [id : Sessions \X Int \X Nat \X {"tool_call", "error"}, session : Sessions, seq : Nat, type : {"tool_call", "error"},
           payload : Payloads, rec : Nat \X Nat]
Traced(e) == e \in Events /\ e.rec[2] = e.seq /\ FailureOf(e) \in Fingerprints \union {""}
Awaited(session, fp) == handler.pc = "observe" /\ handler.ev.session = session /\ FailureOf(handler.ev) = fp
ChannelInv == chan \in Seq(Events) /\ \A i \in 1..Len(chan) : Traced(chan[i])
RowsInv == /\ IsFiniteSet(rows) /\ \A r \in rows : Traced(r)
           /\ \A a, b \in rows : a.session = b.session /\ a.seq = b.seq => a = b
CountInv ==
  /\ handler.pc \in {"idle", "observe"} /\ (handler.pc = "observe" => handler.ev \in rows)
  /\ counts \in [Sessions -> [Fingerprints -> Nat]]
  /\ \A s \in Sessions, fp \in Fingerprints :
       /\ counts[s][fp] <= Cardinality(Reports(s, fp))
       /\ Awaited(s, fp) => counts[s][fp] + 1 <= Cardinality(Reports(s, fp))
SignalInv == \A sg \in signals : Cardinality(Reports(sg[1], sg[2])) >= Threshold
PipelineInv == TailInv /\ ChannelInv /\ RowsInv /\ CountInv /\ SignalInv
=============================================================================
