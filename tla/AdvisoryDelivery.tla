-------------------------- MODULE AdvisoryDelivery --------------------------
(***************************************************************************)
(* Advisory delivery of src/pkg/adapter and the latch of                   *)
(* src/pkg/supervisor: the in-memory PendingQueue, the DurableAdviceLedger *)
(* with its sidecar markers, AdvisoryDelivery (DeliverPending and          *)
(* AcknowledgeSource) and the Orchestrator that defers tools while an      *)
(* advisory is latched.  Callers are concurrent goroutines; each of the    *)
(* three mutexes (queue, ledger, orchestrator) is one atomic step, and the *)
(* actuator is called between them with none of them held.  A crash loses  *)
(* everything but the ledger file and the markers.                         *)
(***************************************************************************)
EXTENDS AdviceTypes, Integers, Sequences, FiniteSets, FiniteSetsExt

CONSTANTS
  Callers,        \* goroutines using one Orchestrator
  Ids,            \* intervention identities
  SessionOf,      \* [Ids -> session]
  Results,        \* what the configured actuator may answer
  Configs,        \* AdvisoryDeliveryConfig: supports SupportsAdviceDelivery,
                  \* durable whether there is a Ledger
  HostAcks,       \* hosts call AcknowledgeSource themselves
  MaxRestarts,    \* bound on crashes
  None

Sessions == {SessionOf[i] : i \in Ids}

\* The states of an item in memory, once handed out and ever, and of a marker
\* on disk.
OutStates == SuppressStates \cup {"DELIVERING", "FAILED", "UNSUPPORTED"}
ItemStates == OutStates \cup {"PENDING"}
MarkerStates == {"tmp", "key", "bad"}

ASSUME DeliveryAssumption ==
  /\ MaxRestarts \in Nat
  /\ Configs \subseteq [supports : BOOLEAN, durable : BOOLEAN] /\ HostAcks \in BOOLEAN
  /\ None \notin Ids \cup Sessions \cup ItemStates \cup MarkerStates

VARIABLES
  conf,      \* the configuration the host was given
  up,        \* the process runs, with a ledger that opened
  st,        \* PendingQueue.byID: state of each item, None when unknown
  order,     \* PendingQueue.bySess: ids still in the session's order
  due,       \* items whose ExpiresAt has passed
  pinned,    \* items whose Result carries the host family
  seen,      \* DurableAdviceLedger.seen: keys that suppress
  lines,     \* keys of suppressing lines in the JSONL file
  torn,      \* the file holds an incomplete line
  marker,    \* sidecar of each item's key: None, "tmp", "key" or "bad"
  latch,     \* Orchestrator.pendingLatch
  pc, loc,   \* where each goroutine is, and its locals
  sends,     \* ghost: how often each intervention reached the host
  lapses,    \* ghost: how often the evidence of a send was lost
  restarts

proc   == <<conf, up>>
queue  == <<st, order, due, pinned>>
disk   == <<lines, torn, marker>>
ghosts == <<sends, lapses, restarts>>
vars   == <<proc, queue, seen, disk, latch, pc, loc, ghosts>>

-----------------------------------------------------------------------------
\* dedupeKey: session and fingerprint are functions of the intervention, the
\* host family is the actuator's or, in an unpinned acknowledgement, empty.
Key(i, host) == <<i, host>>

NoCall == [item |-> None, to |-> None, res |-> None, host |-> Unset,
           quiet |-> FALSE, clear |-> FALSE]

Go(c, label, l) == pc' = [pc EXCEPT ![c] = label] /\ loc' = [loc EXCEPT ![c] = l]
Step(c, label)  == pc' = [pc EXCEPT ![c] = label] /\ UNCHANGED loc
Return(c)       == Go(c, "idle", NoCall)

\* The ledger mutex is held from the temporary marker to its rename.
LedgerFree == \A c \in Callers : pc[c] # "rename"

\* UpdateState: unconditional, whatever the item's state has become.
UpdateState(i, state, host) ==
  /\ st' = [st EXCEPT ![i] = state]
  /\ pinned' = IF host = Unset THEN pinned \ {i} ELSE pinned \cup {i}
  /\ UNCHANGED <<order, due>>

\* Append, by what became of the write: a whole line, nothing, or a torn one.
\* A line written after a torn one is glued to it and cannot be read back.
Writes == {"line", "nothing", "torn"}
AppendLine(i, host, state, wrote) ==
  LET k == IF state \in SuppressStates THEN {Key(i, host)} ELSE {} IN
  /\ LedgerFree
  /\ lines' = IF wrote = "line" /\ ~torn THEN lines \cup k ELSE lines
  /\ torn'  = (torn \/ wrote = "torn")
  /\ seen'  = IF wrote = "line" THEN seen \cup k ELSE seen
  /\ UNCHANGED marker

clearLatch(i) ==
  latch' = [latch EXCEPT ![SessionOf[i]] = IF @ = i THEN None ELSE @]

-----------------------------------------------------------------------------
(* HandleEvent, from the point where policy has chosen an intervention.    *)

\* PendingQueue.Enqueue: a known id is reported as suppressed and not queued.
Enqueue(c, i) ==
  /\ up /\ pc[c] = "idle" /\ st[i] = None
  /\ st' = [st EXCEPT ![i] = "PENDING"]
  /\ order' = [order EXCEPT ![SessionOf[i]] = Append(@, i)]
  /\ Go(c, "latch", [NoCall EXCEPT !.item = i])
  /\ UNCHANGED <<proc, due, pinned, seen, disk, latch, ghosts>>

\* The latch is set under another mutex, after the item can be delivered.
SetLatch(c) ==
  /\ pc[c] = "latch"
  /\ latch' = [latch EXCEPT ![SessionOf[loc[c].item]] = loc[c].item]
  /\ Return(c)
  /\ UNCHANGED <<proc, queue, seen, disk, ghosts>>

\* The TTL of a queued item passes.
Lapse(i) ==
  /\ up /\ st[i] = "PENDING" /\ i \notin due
  /\ due' = due \cup {i}
  /\ UNCHANGED <<proc, st, order, pinned, seen, disk, latch, pc, loc, ghosts>>

-----------------------------------------------------------------------------
(* DeliverAtSafeBoundary: DeliverPending, then the latch.                  *)

\* Mutant: only the head of the order is looked at.
Live_HeadOnly(s) ==
  {k \in DOMAIN order[s] \cap {1} : st[order[s][k]] = "PENDING" /\ order[s][k] \notin due}

\* Positions of the session's order that NextPending may hand out.
Live(s) == {k \in DOMAIN order[s] : st[order[s][k]] = "PENDING" /\ order[s][k] \notin due}
\* The overdue items NextPending passes on its way to position k.
Overdue(s, k) == {order[s][j] : j \in {j \in 1..(k - 1) :
                    st[order[s][j]] = "PENDING" /\ order[s][j] \in due}}
ExpireTo(s, k) ==
  [i \in Ids |-> IF i \in Overdue(s, k) THEN "EXPIRED" ELSE st[i]]

\* NextPending with something to deliver: the first live item becomes
\* DELIVERING and leaves the order.
NextPending(c, s) ==
  /\ up /\ pc[c] = "idle"
  /\ \E k \in Live(s) :
       /\ \A j \in Live(s) : k <= j
       /\ st' = [ExpireTo(s, k) EXCEPT ![order[s][k]] = "DELIVERING"]
       /\ order' = [order EXCEPT ![s] = SubSeq(@, 1, k - 1) \o SubSeq(@, k + 1, Len(@))]
       /\ Go(c, "check", [NoCall EXCEPT !.item = order[s][k]])
  /\ UNCHANGED <<proc, due, pinned, seen, disk, latch, ghosts>>

\* NextPending with nothing live only expires what is overdue.
NothingPending(c, s) ==
  /\ up /\ pc[c] = "idle" /\ Live(s) = {}
  /\ Overdue(s, Len(order[s]) + 1) # {}
  /\ st' = ExpireTo(s, Len(order[s]) + 1)
  /\ UNCHANGED <<proc, order, due, pinned, seen, disk, latch, pc, loc, ghosts>>

\* The durable ledger already has the key: AlreadyDeliveredKey.
CheckSuppressed(c) ==
  /\ pc[c] = "check" /\ conf.durable /\ LedgerFree
  /\ Key(loc[c].item, "host") \in seen
  /\ Step(c, "suppress")
  /\ UNCHANGED <<proc, queue, seen, disk, latch, ghosts>>

CheckFresh(c) ==
  /\ pc[c] = "check"
  /\ conf.durable => LedgerFree /\ Key(loc[c].item, "host") \notin seen
  /\ Step(c, IF conf.supports THEN "send" ELSE "escalate")
  /\ UNCHANGED <<proc, queue, seen, disk, latch, ghosts>>

Suppress(c) ==
  /\ pc[c] = "suppress"
  /\ UpdateState(loc[c].item, "SUPPRESSED", "host")
  /\ Step(c, "audit")
  /\ UNCHANGED <<proc, seen, disk, latch, ghosts>>

\* The audit line of a suppression; its error is dropped.
AuditSuppress(c) ==
  /\ pc[c] = "audit"
  /\ \E w \in Writes : AppendLine(loc[c].item, "host", "SUPPRESSED", w)
  /\ Go(c, "finish", [loc[c] EXCEPT !.clear = TRUE])
  /\ UNCHANGED <<proc, queue, latch, ghosts>>

\* No CapAdviceDelivery: a human is alerted instead.  A NopHumanAlerter and a
\* failing one both leave FAILED with an error, which keeps the latch.
Escalate(c) ==
  /\ pc[c] = "escalate"
  /\ UpdateState(loc[c].item, "FAILED", Unset)
  /\ \E alerted \in BOOLEAN :
       Go(c, "finish", [loc[c] EXCEPT !.clear = alerted])
  /\ UNCHANGED <<proc, seen, disk, latch, ghosts>>

\* actuator.Deliver, with no mutex held.
Send(c) ==
  /\ pc[c] = "send"
  /\ \E r \in Results :
       /\ Go(c, "update", [loc[c] EXCEPT !.res = r, !.to = mapResultToState(r)])
       /\ sends' = [sends EXCEPT ![loc[c].item] = IF r.sent THEN @ + 1 ELSE @]
  /\ UNCHANGED <<proc, queue, seen, disk, latch, lapses, restarts>>

\* Mutant: an acknowledged delivery waits for Acknowledge all the same.
Settles_NotAcked(to, failed) ==
  to \in {"SUPPRESSED", "AMBIGUOUS"} \/ (to = "UNSUPPORTED" /\ ~failed)

\* DeliverAtSafeBoundary clears the latch for these results without an error.
Settles(to, failed) ==
  \/ to \in {"ACKED", "SUPPRESSED", "AMBIGUOUS"}
  \/ to = "UNSUPPORTED" /\ ~failed

RecordState(c) ==
  /\ pc[c] = "update"
  /\ UpdateState(loc[c].item, loc[c].to, "host")
  /\ IF conf.durable
     THEN Step(c, "record")
     ELSE Go(c, "finish", [loc[c] EXCEPT !.clear = Settles(loc[c].to, loc[c].res.err)])
  /\ UNCHANGED <<proc, seen, disk, latch, ghosts>>

\* RecordResultWithSource after Deliver.  When the line is not written, a
\* result that cannot have reached the host keeps its state and stays free
\* to be sent again; any other becomes AMBIGUOUS.
RecordResult(c) ==
  LET l == loc[c] IN
  /\ pc[c] = "record"
  /\ \E w \in Writes :
       /\ AppendLine(l.item, "host", l.to, w)
       /\ IF w = "line"
          THEN Go(c, "finish", [l EXCEPT !.clear = Settles(l.to, l.res.err)])
          ELSE IF ShouldAmbiguousSuppress(ClassifyDeliveryBoundary(l.res))
          THEN Go(c, "ambiguous", [l EXCEPT !.to = "AMBIGUOUS"])
          ELSE Go(c, "notsent", [l EXCEPT !.clear = Settles(l.to, TRUE)])
  /\ UNCHANGED <<proc, queue, latch, ghosts>>

\* Definitely not sent: the state is written once more, with the error.
RecordNotSent(c) ==
  /\ pc[c] = "notsent"
  /\ UpdateState(loc[c].item, loc[c].to, "host")
  /\ Step(c, "finish")
  /\ UNCHANGED <<proc, seen, disk, latch, ghosts>>

MarkAmbiguous(c) ==
  /\ pc[c] = "ambiguous"
  /\ UpdateState(loc[c].item, "AMBIGUOUS", "host")
  /\ Go(c, "rerecord", [loc[c] EXCEPT !.clear = TRUE])
  /\ UNCHANGED <<proc, seen, disk, latch, ghosts>>

\* The AMBIGUOUS line is preferred; the sidecar marker is the fallback.
RecordAmbiguous(c) ==
  /\ pc[c] = "rerecord"
  /\ \E w \in Writes :
       /\ AppendLine(loc[c].item, "host", "AMBIGUOUS", w)
       /\ Step(c, IF w = "line" THEN "finish" ELSE "mark")
  /\ UNCHANGED <<proc, queue, latch, ghosts>>

\* No evidence of the send is left behind.
Forget(i, sent) == lapses' = [lapses EXCEPT ![i] = IF sent THEN @ + 1 ELSE @]

\* MarkAmbiguousSuppress, first half: the temporary marker, whole, in part or
\* not at all.
MarkWrite(c) ==
  LET i == loc[c].item IN
  /\ pc[c] = "mark" /\ LedgerFree
  /\ \/ /\ marker' = [marker EXCEPT ![i] = "tmp"]
        /\ Step(c, "rename")
        /\ UNCHANGED lapses
     \/ /\ marker' = [marker EXCEPT ![i] = "bad"]
        /\ Step(c, "finish")
        /\ UNCHANGED lapses
     \/ /\ Forget(i, loc[c].res.sent)
        /\ Step(c, "finish")
        /\ UNCHANGED marker
  /\ UNCHANGED <<proc, queue, seen, lines, torn, latch, sends, restarts>>

\* Second half: the rename, or its failure and the removal of the temporary.
MarkRename(c) ==
  LET i == loc[c].item IN
  /\ pc[c] = "rename"
  /\ \/ /\ marker' = [marker EXCEPT ![i] = "key"]
        /\ seen' = seen \cup {Key(i, "host")}
        /\ UNCHANGED lapses
     \/ /\ marker' = [marker EXCEPT ![i] = None]
        /\ Forget(i, loc[c].res.sent)
        /\ UNCHANGED seen
  /\ Step(c, "finish")
  /\ UNCHANGED <<proc, queue, lines, torn, latch, sends, restarts>>

\* DeliverAtSafeBoundary, back from DeliverPending.
Finish(c) ==
  /\ pc[c] = "finish"
  /\ IF loc[c].clear THEN clearLatch(loc[c].item) ELSE UNCHANGED latch
  /\ Return(c)
  /\ UNCHANGED <<proc, queue, seen, disk, ghosts>>

-----------------------------------------------------------------------------
(* AcknowledgeSource, by the Orchestrator or by a host adapter.            *)

\* The item is read, and found awaiting, under the queue's mutex; what is
\* written later uses that copy.  Without a host in the request the key takes
\* the one pinned by a delivery already recorded, if there is one.
ReadForAck(c, i, to, quiet) ==
  /\ up /\ pc[c] = "idle" /\ st[i] \in Awaiting
  /\ to \in IF quiet THEN AckStates ELSE OrchestratorAcks
  /\ quiet => HostAcks
  /\ Go(c, IF conf.durable THEN "ackrecord" ELSE "ackupdate",
        [NoCall EXCEPT !.item = i, !.to = to, !.quiet = quiet,
                       !.host = IF quiet \/ i \in pinned THEN "host" ELSE Unset])
  /\ UNCHANGED <<proc, queue, seen, disk, latch, ghosts>>

\* Durable first: without the line the acknowledgement is refused.
RecordAck(c) ==
  /\ pc[c] = "ackrecord"
  /\ \E w \in Writes :
       /\ AppendLine(loc[c].item, loc[c].host, loc[c].to, w)
       /\ IF w = "line" THEN Step(c, "ackupdate") ELSE Return(c)
  /\ UNCHANGED <<proc, queue, latch, ghosts>>

\* Then memory, whatever the item's state is by now.
UpdateAck(c) ==
  /\ pc[c] = "ackupdate"
  /\ UpdateState(loc[c].item, loc[c].to, loc[c].host)
  /\ IF loc[c].quiet THEN Return(c) ELSE Step(c, "acklatch")
  /\ UNCHANGED <<proc, seen, disk, latch, ghosts>>

\* Orchestrator.Acknowledge releases the tools on "acked" only.
ReleaseAck(c) ==
  /\ pc[c] = "acklatch"
  /\ IF loc[c].to = "SESSION_VISIBLE" THEN clearLatch(loc[c].item) ELSE UNCHANGED latch
  /\ Return(c)
  /\ UNCHANGED <<proc, queue, seen, disk, ghosts>>

-----------------------------------------------------------------------------
(* Crash and restart.                                                      *)

\* A goroutine holds a sent result that nothing durable speaks of yet.
Unrecorded(c, i) ==
  /\ pc[c] \in {"update", "record", "ambiguous", "rerecord", "mark"}
  /\ loc[c].item = i /\ loc[c].res.sent

Crash ==
  /\ up /\ restarts < MaxRestarts
  /\ up' = FALSE /\ restarts' = restarts + 1
  /\ st' = [i \in Ids |-> None] /\ order' = [s \in Sessions |-> <<>>]
  /\ due' = {} /\ pinned' = {} /\ seen' = {}
  /\ latch' = [s \in Sessions |-> None]
  /\ pc' = [c \in Callers |-> "idle"] /\ loc' = [c \in Callers |-> NoCall]
  /\ lapses' = [i \in Ids |-> lapses[i] +
                  IF \E c \in Callers : Unrecorded(c, i) THEN 1 ELSE 0]
  /\ UNCHANGED <<conf, disk, sends>>

\* OpenDurableAdviceLedger: fails closed on a torn file or a marker it cannot
\* read, and promotes a temporary marker the crash left behind.
Open ==
  /\ ~up
  /\ ~torn /\ \A i \in Ids : marker[i] # "bad"
  /\ up' = TRUE
  /\ seen' = lines \cup {Key(i, "host") : i \in {i \in Ids : marker[i] # None}}
  /\ marker' = [i \in Ids |-> IF marker[i] = "tmp" THEN "key" ELSE marker[i]]
  /\ UNCHANGED <<conf, queue, lines, torn, latch, pc, loc, ghosts>>

-----------------------------------------------------------------------------
Init ==
  /\ conf \in Configs /\ up = TRUE
  /\ st = [i \in Ids |-> None] /\ order = [s \in Sessions |-> <<>>]
  /\ due = {} /\ pinned = {} /\ seen = {}
  /\ lines = {} /\ torn = FALSE /\ marker = [i \in Ids |-> None]
  /\ latch = [s \in Sessions |-> None]
  /\ pc = [c \in Callers |-> "idle"] /\ loc = [c \in Callers |-> NoCall]
  /\ sends = [i \in Ids |-> 0] /\ lapses = [i \in Ids |-> 0] /\ restarts = 0

Begin(c) ==
  \/ \E i \in Ids : Enqueue(c, i)
  \/ \E s \in Sessions : NextPending(c, s) \/ NothingPending(c, s)
  \/ \E i \in Ids, to \in AckStates, quiet \in BOOLEAN : ReadForAck(c, i, to, quiet)

Continue(c) ==
  \/ SetLatch(c) \/ CheckSuppressed(c) \/ CheckFresh(c) \/ Suppress(c)
  \/ AuditSuppress(c) \/ Escalate(c) \/ Send(c) \/ RecordState(c)
  \/ RecordResult(c) \/ RecordNotSent(c) \/ MarkAmbiguous(c) \/ RecordAmbiguous(c)
  \/ MarkWrite(c) \/ MarkRename(c) \/ Finish(c)
  \/ RecordAck(c) \/ UpdateAck(c) \/ ReleaseAck(c)

Next ==
  \/ \E c \in Callers : Begin(c) \/ Continue(c)
  \/ \E i \in Ids : Lapse(i)
  \/ Crash \/ Open

Spec == Init /\ [][Next]_vars

\* A goroutine in a call runs on, and hosts reach safe boundaries again and again,
\* whatever they do in between.
Fairness ==
  /\ \A c \in Callers : WF_vars(Continue(c))
  /\ \A s \in Sessions : SF_vars(\E c \in Callers : NextPending(c, s) \/ NothingPending(c, s))
FairSpec == Spec /\ Fairness

-----------------------------------------------------------------------------

\* No advisory reaches the host twice, across any number of restarts, unless
\* the evidence of the earlier send was lost: the process died between the
\* send and its first durable trace, or the line, the AMBIGUOUS line and the
\* marker all failed to be written (DeliverPending with a ledger).
SentOnce == \A i \in Ids : sends[i] <= 1 + lapses[i]

\* Whoever works on item i.
Busy(i) == \E c \in Callers : loc[c].item = i

\* EvaluatePreTool defers the tools of a session while its latch is set.
Deferred(s) == latch[s] # None

\* A latch never outlives a delivery that settled: once nobody works on the
\* latched item it is not ACKED, SUPPRESSED or AMBIGUOUS, the outcomes for
\* which DeliverAtSafeBoundary promises not to leave the tools deferred.
LatchReleased ==
  \A s \in Sessions : Deferred(s) /\ ~Busy(latch[s]) =>
    st[latch[s]] \notin {"ACKED", "SUPPRESSED", "AMBIGUOUS"}

\* An expired advisory never holds up the ones queued behind it: every queued
\* one is handed out, expires, or is lost with the process.
PendingDrains == \A i \in Ids : st[i] = "PENDING" ~> st[i] # "PENDING"

-----------------------------------------------------------------------------
(* The inductive invariant behind the theorems of DeliveryProofs. *)

\* A result is traceable when its lifecycle state is one an item may have and,
\* if the host was reached, the ledger line of that state suppresses and a
\* failure to write it is taken for an ambiguous send.
Traceable(r) ==
  /\ r.sent \in BOOLEAN /\ mapResultToState(r) \in OutStates
  /\ r.sent => /\ mapResultToState(r) \in SuppressStates
               /\ ShouldAmbiguousSuppress(ClassifyDeliveryBoundary(r))
AllTraceable == \A r \in Results : Traceable(r)

Holding == {"update", "record", "notsent", "ambiguous", "rerecord", "mark", "rename"}
Handling == {"check", "suppress", "audit", "escalate", "send", "finish"} \cup Holding
Acking == {"ackrecord", "ackupdate", "acklatch"}
Labels == Handling \cup Acking \cup {"idle", "latch"}

Call == [item : Ids \cup {None}, to : ItemStates \cup {None}, res : Results \cup {None},
         host : {"host", Unset}, quiet : BOOLEAN, clear : BOOLEAN]

DeliveryTypes ==
  /\ up \in BOOLEAN /\ torn \in BOOLEAN
  /\ st \in [Ids -> ItemStates \cup {None}] /\ order \in [Sessions -> Seq(Ids)]
  /\ marker \in [Ids -> MarkerStates \cup {None}]
  /\ pc \in [Callers -> Labels]
  /\ loc \in [Callers -> Call]
  /\ sends \in [Ids -> Nat] /\ lapses \in [Ids -> Nat]
  /\ ~up => \A c \in Callers : pc[c] = "idle"

\* What a goroutine carries from one mutex to the next.
Carries(at, l) ==
  /\ at # "idle" => l.item \in Ids
  /\ at \in Holding => l.res \in Results /\ l.to \in OutStates
  /\ at \in {"update", "record"} => l.to = mapResultToState(l.res)
  /\ at \in Acking => l.to \in AckStates
  /\ at = "rename" => marker[l.item] = "tmp"

\* An item is handed out once: whoever handles it does so alone, and it is not
\* queued any more.
Handles(c, i) == pc[c] \in Handling /\ loc[c].item = i
HandedOut ==
  /\ \A c \in Callers, i \in Ids : Handles(c, i) => st[i] \in OutStates
  /\ \A c, d \in Callers, i \in Ids : Handles(c, i) /\ Handles(d, i) => c = d

\* What a restart finds of a send: its line, its marker, or a ledger that does
\* not open.
Durable(i) == Key(i, "host") \in lines \/ marker[i] # None \/ torn

\* A send that no lapse makes up for has left a trace or is about to, and
\* whoever could send the item again is going to see the key.
Spent(i) ==
  /\ Durable(i) \/ \E c \in Callers : Unrecorded(c, i)
  /\ up /\ st[i] \notin OutStates => Key(i, "host") \in seen
  /\ \A c \in Callers : loc[c].item = i =>
       /\ pc[c] = "check" => Key(i, "host") \in seen
       /\ pc[c] # "send"
       /\ pc[c] \in Holding => loc[c].res.sent
Budget(i) == sends[i] <= 1 + lapses[i] /\ (sends[i] > lapses[i] => Spent(i))

SendInv ==
  /\ DeliveryTypes /\ HandedOut
  /\ \A c \in Callers : Carries(pc[c], loc[c])
  /\ conf.durable => \A i \in Ids : Budget(i)

\* The inductive invariant of the latch, for one goroutine: a latched item that
\* settled is the one in hand, and whoever has it is going to clear the latch.
Settled == {"ACKED", "SUPPRESSED", "AMBIGUOUS"}
Clears(c) ==
  /\ pc[c] = "latch" \/ pc[c] \in Acking => st[loc[c].item] \notin Settled
  /\ pc[c] \in Acking => loc[c].to \notin Settled
  /\ pc[c] = "record" => st[loc[c].item] = loc[c].to
  /\ pc[c] = "notsent" /\ loc[c].to \in Settled => loc[c].clear
  /\ pc[c] \in {"rerecord", "mark", "rename"} => loc[c].clear
  /\ pc[c] = "finish" /\ st[loc[c].item] \in Settled => loc[c].clear
LatchTypes ==
  /\ DOMAIN st = Ids /\ order \in [Sessions -> Seq(Ids)]
  /\ DOMAIN pc = Callers /\ DOMAIN loc = Callers
  /\ \A c \in Callers : DOMAIN loc[c] = DOMAIN NoCall /\ (pc[c] # "idle" => loc[c].item \in Ids)
  /\ DOMAIN latch = Sessions
  /\ \A s \in Sessions : latch[s] # None => latch[s] \in Ids /\ SessionOf[latch[s]] = s
LatchInv ==
  /\ LatchTypes
  /\ \A c \in Callers : Clears(c)
  /\ \A s \in Sessions : latch[s] # None /\ st[latch[s]] \in Settled =>
       \E c \in Callers : pc[c] # "idle" /\ loc[c].item = latch[s]
=============================================================================
