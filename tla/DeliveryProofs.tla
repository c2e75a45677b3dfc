--------------------------- MODULE DeliveryProofs ---------------------------
(***************************************************************************)
(* TLAPS proofs about AdvisoryDelivery: its sends, for any number of       *)
(* goroutines, interventions, sessions and crashes, and its latch, for one *)
(* goroutine.                                                              *)
(***************************************************************************)
EXTENDS AdvisoryDelivery, SequenceTheorems, TLAPS

LEMMA States ==
  /\ "PENDING" \notin OutStates /\ None \notin OutStates /\ None \notin MarkerStates
  /\ SuppressStates \subseteq OutStates /\ AckStates \subseteq OutStates /\ OutStates \subseteq ItemStates
  /\ "PENDING" \in ItemStates /\ "DELIVERING" \in OutStates /\ "FAILED" \in OutStates
  /\ "EXPIRED" \in OutStates /\ "SUPPRESSED" \in SuppressStates /\ "AMBIGUOUS" \in SuppressStates
<1>1. /\ "PENDING" \notin OutStates
      /\ SuppressStates \subseteq OutStates /\ AckStates \subseteq OutStates /\ OutStates \subseteq ItemStates
      /\ "PENDING" \in ItemStates /\ "DELIVERING" \in OutStates /\ "FAILED" \in OutStates
      /\ "EXPIRED" \in OutStates /\ "SUPPRESSED" \in SuppressStates /\ "AMBIGUOUS" \in SuppressStates
  BY DEF OutStates, ItemStates, SuppressStates, AckStates
<1>2. None \notin ItemStates /\ None \notin MarkerStates
  BY DeliveryAssumption
<1> QED
  BY <1>1, <1>2

LEMMA NoCallType == NoCall \in Call /\ NoCall.item = None
BY DEF NoCall, Call

LEMMA MappedState ==
  ASSUME NEW r
  PROVE  /\ r.ack = "rejected" => mapResultToState(r) = "REJECTED"
         /\ r.ack = "timed_out" => mapResultToState(r) = "TIMED_OUT"
         /\ r.ack = "unsupported" => mapResultToState(r) = "UNSUPPORTED"
         /\ r.ack = "acked" /\ r.layer = Unset => mapResultToState(r) = "ACKED"
         /\ r.ack = "pending" /\ r.err = FALSE /\ r.layer = "transport" =>
              mapResultToState(r) = "TRANSPORT_ACCEPTED"
         /\ r.ack = "pending" /\ r.err = FALSE /\ r.layer = "session_visible" =>
              mapResultToState(r) = "SESSION_VISIBLE"
BY DEF mapResultToState, Unset

\* What tells the ledger that the host was reached.
Reached(r) ==
  \/ r.boundary = "send_attempted_unknown"
  \/ /\ r.boundary = Unset
     /\ \/ r.layer = "session_visible" \/ r.accepted = TRUE
        \/ /\ r.layer = Unset /\ r.accepted = FALSE
           /\ r.class \in {"agent_rejected", "timeout"}

LEMMA MappedTraceable ==
  ASSUME NEW r, NEW sent \in BOOLEAN, sent = r.sent,
         mapResultToState(r) \in {"REJECTED", "TIMED_OUT", "UNSUPPORTED", "ACKED", "TRANSPORT_ACCEPTED", "SESSION_VISIBLE"},
         sent = FALSE \/ (mapResultToState(r) # "UNSUPPORTED" /\ Reached(r))
  PROVE  Traceable(r)
<1>1. mapResultToState(r) \in OutStates
  BY DEF OutStates, SuppressStates
<1>2. ASSUME r.sent PROVE mapResultToState(r) \in SuppressStates
  BY <1>2 DEF SuppressStates
<1>3. ASSUME r.sent PROVE ShouldAmbiguousSuppress(ClassifyDeliveryBoundary(r))
  <2>1. CASE r.boundary = "send_attempted_unknown"
    BY <2>1 DEF ClassifyDeliveryBoundary, ShouldAmbiguousSuppress, Unset
  <2>2. CASE r.boundary = Unset /\ r.layer = "session_visible"
    BY <2>2 DEF ClassifyDeliveryBoundary, ShouldAmbiguousSuppress
  <2>3. CASE r.boundary = Unset /\ r.accepted = TRUE
    BY <2>3 DEF ClassifyDeliveryBoundary, ShouldAmbiguousSuppress
  <2>4. CASE /\ r.boundary = Unset /\ r.layer = Unset /\ r.accepted = FALSE
             /\ r.class \in {"agent_rejected", "timeout"}
    BY <2>4 DEF ClassifyDeliveryBoundary, ShouldAmbiguousSuppress, Unset
  <2> QED
    BY <1>3, <2>1, <2>2, <2>3, <2>4 DEF Reached
<1> QED
  BY <1>1, <1>2, <1>3 DEF Traceable

\* The actuators whose every result is traceable: what the host was sent is
\* suppressed by its ledger line, or taken for ambiguous without it.
LEMMA ActuatorsTraceable == \A r \in GrokResults \cup AutoAckResults : Traceable(r)
<1>1. ASSUME NEW ack \in {"unsupported", "timed_out", "rejected"}, NEW class, NEW r, r = NotSent(ack, class)
      PROVE  Traceable(r)
  <2>1. r.sent = FALSE /\ r.ack = ack
    BY <1>1 DEF NotSent, Result
  <2>2. mapResultToState(r) \in {"UNSUPPORTED", "TIMED_OUT", "REJECTED"}
    BY <2>1, MappedState
  <2>3. r.sent \in BOOLEAN /\ r.sent = FALSE
    BY <2>1
  <2> QED
    BY <2>2, <2>3, MappedTraceable
<1>2. ASSUME NEW layer \in {"transport", "session_visible"}, NEW r,
             r = Result(TRUE, "pending", layer, "none", Unset, FALSE, TRUE)
      PROVE  Traceable(r)
  <2>1. /\ r.sent = TRUE /\ r.ack = "pending" /\ r.layer = layer /\ r.boundary = Unset
        /\ r.err = FALSE /\ r.accepted = TRUE
    BY <1>2 DEF Result
  <2>2. mapResultToState(r) \in {"TRANSPORT_ACCEPTED", "SESSION_VISIBLE"}
    BY <2>1, MappedState
  <2>3. r.sent \in BOOLEAN /\ mapResultToState(r) # "UNSUPPORTED" /\ Reached(r)
    BY <2>1, <2>2 DEF Reached
  <2> QED
    BY <2>2, <2>3, MappedTraceable
<1>3. ASSUME NEW sent \in BOOLEAN, NEW r,
             r = Result(FALSE, "rejected", "none", "transport", "send_attempted_unknown", TRUE, sent)
      PROVE  Traceable(r)
  <2>1. r.sent = sent /\ r.ack = "rejected" /\ r.boundary = "send_attempted_unknown"
    BY <1>3 DEF Result
  <2>2. mapResultToState(r) \in {"REJECTED"}
    BY <2>1, MappedState
  <2>3. r.sent \in BOOLEAN /\ mapResultToState(r) # "UNSUPPORTED" /\ Reached(r)
    BY <2>1, <2>2 DEF Reached
  <2> QED
    BY <2>2, <2>3, MappedTraceable
<1>4. ASSUME NEW sent \in BOOLEAN, NEW r, r = Result(FALSE, "timed_out", Unset, "timeout", Unset, TRUE, sent)
      PROVE  Traceable(r)
  <2>1. r.sent = sent /\ r.ack = "timed_out" /\ r.boundary = Unset /\ r.layer = Unset /\ r.class = "timeout" /\ r.accepted = FALSE
    BY <1>4 DEF Result
  <2>2. mapResultToState(r) \in {"TIMED_OUT"}
    BY <2>1, MappedState
  <2>3. r.sent \in BOOLEAN /\ mapResultToState(r) # "UNSUPPORTED" /\ Reached(r)
    BY <2>1, <2>2 DEF Reached
  <2> QED
    BY <2>2, <2>3, MappedTraceable
<1>5. ASSUME NEW r, r = Result(FALSE, "unsupported", Unset, "unsupported_capability", Unset, FALSE, FALSE)
      PROVE  Traceable(r)
  <2>1. r.sent = FALSE /\ r.ack = "unsupported"
    BY <1>5 DEF Result
  <2>2. mapResultToState(r) \in {"UNSUPPORTED"}
    BY <2>1, MappedState
  <2>3. r.sent \in BOOLEAN /\ r.sent = FALSE
    BY <2>1
  <2> QED
    BY <2>2, <2>3, MappedTraceable
<1>6. ASSUME NEW r, r = Result(FALSE, "rejected", Unset, "agent_rejected", Unset, FALSE, TRUE)
      PROVE  Traceable(r)
  <2>1. r.sent = TRUE /\ r.ack = "rejected" /\ r.boundary = Unset /\ r.layer = Unset /\ r.class = "agent_rejected" /\ r.accepted = FALSE
    BY <1>6 DEF Result
  <2>2. mapResultToState(r) \in {"REJECTED"}
    BY <2>1, MappedState
  <2>3. r.sent \in BOOLEAN /\ mapResultToState(r) # "UNSUPPORTED" /\ Reached(r)
    BY <2>1, <2>2 DEF Reached
  <2> QED
    BY <2>2, <2>3, MappedTraceable
<1>7. ASSUME NEW r, r = Result(TRUE, "acked", Unset, "none", Unset, FALSE, TRUE)
      PROVE  Traceable(r)
  <2>1. r.sent = TRUE /\ r.ack = "acked" /\ r.boundary = Unset /\ r.layer = Unset /\ r.accepted = TRUE
    BY <1>7 DEF Result
  <2>2. mapResultToState(r) \in {"ACKED"}
    BY <2>1, MappedState
  <2>3. r.sent \in BOOLEAN /\ mapResultToState(r) # "UNSUPPORTED" /\ Reached(r)
    BY <2>1, <2>2 DEF Reached
  <2> QED
    BY <2>2, <2>3, MappedTraceable
<1>8. ASSUME NEW r \in GrokResults PROVE Traceable(r)
  <2>1. \/ \E ack \in {"unsupported", "timed_out", "rejected"}, class \in {"unsupported_capability", "timeout"} : r = NotSent(ack, class)
        \/ \E layer \in {"transport", "session_visible"} : r = Result(TRUE, "pending", layer, "none", Unset, FALSE, TRUE)
        \/ \E sent \in BOOLEAN :
             r = Result(FALSE, "rejected", "none", "transport", "send_attempted_unknown", TRUE, sent)
    BY <1>8 DEF GrokResults, SentUnknown
  <2> QED
    BY <1>1, <1>2, <1>3, <2>1
<1>9. ASSUME NEW r \in AutoAckResults PROVE Traceable(r)
  <2>1. \/ \E sent \in BOOLEAN : r = Result(FALSE, "timed_out", Unset, "timeout", Unset, TRUE, sent)
        \/ r = Result(FALSE, "unsupported", Unset, "unsupported_capability", Unset, FALSE, FALSE)
        \/ r = Result(FALSE, "rejected", Unset, "agent_rejected", Unset, FALSE, TRUE)
        \/ r = Result(TRUE, "acked", Unset, "none", Unset, FALSE, TRUE)
    BY <1>9 DEF AutoAckResults
  <2> QED
    BY <1>4, <1>5, <1>6, <1>7, <2>1
<1> QED
  BY <1>8, <1>9

-----------------------------------------------------------------------------
(* A goroutine goes on: what its step has to show for the invariant to hold *)
(* afterwards.                                                              *)

Moves(c, at, l) == pc' = [pc EXCEPT ![c] = at] /\ loc' = [loc EXCEPT ![c] = l]

\* The item's state and the disk keep their types, nothing is queued again, and
\* no other goroutine's temporary marker is touched.
Tame(c) ==
  /\ UNCHANGED proc /\ up
  /\ st' \in [Ids -> ItemStates \cup {None}] /\ order' \in [Sessions -> Seq(Ids)]
  /\ \A i \in Ids : st[i] \in OutStates => st'[i] \in OutStates
  /\ torn' \in BOOLEAN /\ marker' \in [Ids -> MarkerStates \cup {None}]
  /\ sends' \in [Ids -> Nat] /\ lapses' \in [Ids -> Nat]
  /\ \A d \in Callers \ {c} : pc[d] = "rename" => marker'[loc[d].item] = "tmp"

\* Only the one handing an item out starts to handle it.
Allotted(c, at, l) ==
  at \in Handling => \/ Handles(c, l.item)
                     \/ st'[l.item] \in OutStates /\ \A d \in Callers : ~Handles(d, l.item)

\* The budget of item i is not touched, and no trace of a send is lost.
Kept(c, at, l, i) ==
  /\ sends'[i] = sends[i] /\ lapses'[i] = lapses[i] /\ (Durable(i) => Durable(i)')
  /\ Key(i, "host") \in seen => Key(i, "host") \in seen'
  /\ Unrecorded(c, i) => \/ Durable(i)'
                         \/ /\ at \in {"update", "record", "ambiguous", "rerecord", "mark"}
                            /\ l.item = i /\ l.res.sent
  /\ sends[i] > lapses[i] /\ l.item = i =>
       /\ at = "check" => Key(i, "host") \in seen'
       /\ at # "send"
       /\ at \in Holding => l.res.sent

LEMMA KeptBudget ==
  ASSUME DeliveryTypes, NEW c \in Callers, NEW at, NEW l, Moves(c, at, l), Tame(c),
         NEW i \in Ids, Budget(i), Kept(c, at, l, i)
  PROVE  Budget(i)'
<1>1. /\ pc'[c] = at /\ loc'[c] = l
      /\ \A d \in Callers \ {c} : pc'[d] = pc[d] /\ loc'[d] = loc[d]
  BY DEF Moves, DeliveryTypes
<1>2. sends'[i] <= 1 + lapses'[i]
  BY DEF Kept, Budget
<1>3. ASSUME sends'[i] > lapses'[i] PROVE Spent(i)'
  <2>1. sends[i] > lapses[i] /\ Spent(i)
    BY <1>3 DEF Kept, Budget
  <2>2. Durable(i)' \/ \E d \in Callers : Unrecorded(d, i)'
    <3>1. CASE Durable(i)
      BY <3>1 DEF Kept
    <3>2. CASE Unrecorded(c, i)
      BY <1>1, <3>2 DEF Kept, Unrecorded
    <3>3. ASSUME NEW d \in Callers \ {c}, Unrecorded(d, i) PROVE Unrecorded(d, i)'
      BY <1>1, <3>3 DEF Unrecorded
    <3> QED
      BY <2>1, <3>1, <3>2, <3>3 DEF Spent
  <2>3. up' /\ st'[i] \notin OutStates => Key(i, "host") \in seen'
    BY <2>1 DEF Spent, Kept, Tame, proc
  <2>4. ASSUME NEW d \in Callers, loc'[d].item = i
        PROVE  /\ pc'[d] = "check" => Key(i, "host") \in seen'
               /\ pc'[d] # "send"
               /\ pc'[d] \in Holding => loc'[d].res.sent
    <3>1. CASE d = c
      BY <1>1, <2>1, <2>4, <3>1 DEF Kept
    <3>2. CASE d # c
      BY <1>1, <2>1, <2>4, <3>2 DEF Kept, Spent
    <3> QED
      BY <3>1, <3>2
  <2>5. Key(i, "host")' = Key(i, "host")
    BY DEF Key
  <2> QED
    BY <2>2, <2>3, <2>4, <2>5 DEF Spent
<1> QED
  BY <1>2, <1>3 DEF Budget

LEMMA StepKeeps ==
  ASSUME SendInv, NEW c \in Callers, NEW at \in Labels, NEW l \in Call, Moves(c, at, l), Tame(c),
         Carries(at, l)', Allotted(c, at, l),
         conf.durable => \A i \in Ids : Kept(c, at, l, i) \/ Budget(i)'
  PROVE  SendInv'
<1>1. DeliveryTypes
  BY DEF SendInv
<1>2. /\ pc'[c] = at /\ loc'[c] = l
      /\ \A d \in Callers \ {c} : pc'[d] = pc[d] /\ loc'[d] = loc[d]
  BY <1>1 DEF Moves, DeliveryTypes
<1>3. DeliveryTypes'
  BY <1>1 DEF DeliveryTypes, Moves, Tame, proc
<1>4. ASSUME NEW d \in Callers PROVE Carries(pc[d], loc[d])'
  <2>1. CASE d = c
    BY <1>2, <2>1 DEF Carries
  <2>2. CASE d # c
    <3>1. Carries(pc[d], loc[d])
      BY DEF SendInv
    <3> QED
      BY <1>2, <2>2, <3>1 DEF Carries, Tame
  <2> QED
    BY <2>1, <2>2
<1>5. HandedOut'
  <2>1. HandedOut
    BY DEF SendInv
  <2>2. ASSUME NEW d \in Callers, NEW i \in Ids, Handles(d, i)' PROVE Handles(d, i) \/ (d = c /\ l.item = i /\ at \in Handling)
    <3>1. CASE d = c
      BY <1>2, <2>2, <3>1 DEF Handles
    <3>2. CASE d # c
      BY <1>2, <2>2, <3>2 DEF Handles
    <3> QED
      BY <3>1, <3>2
  <2>3. ASSUME NEW d \in Callers, NEW i \in Ids, Handles(d, i)' PROVE st'[i] \in OutStates
    <3>1. CASE Handles(d, i)
      BY <2>1, <3>1 DEF HandedOut, Tame
    <3>2. CASE d = c /\ l.item = i /\ at \in Handling
      BY <2>1, <3>2 DEF Allotted, HandedOut, Tame
    <3> QED
      BY <2>2, <2>3, <3>1, <3>2
  <2>4. ASSUME NEW d \in Callers, NEW e \in Callers, NEW i \in Ids, Handles(d, i)', Handles(e, i)' PROVE d = e
    <3>1. CASE l.item = i /\ at \in Handling /\ \A f \in Callers : ~Handles(f, i)
      BY <2>2, <2>4, <3>1
    <3>2. CASE Handles(c, i)
      <4>1. Handles(d, i) /\ Handles(e, i)
        BY <2>2, <2>4, <3>2
      <4> QED
        BY <2>1, <4>1 DEF HandedOut
    <3>3. CASE ~(l.item = i /\ at \in Handling)
      <4>1. Handles(d, i) /\ Handles(e, i)
        BY <2>2, <2>4, <3>3
      <4> QED
        BY <2>1, <4>1 DEF HandedOut
    <3> QED
      BY <3>1, <3>2, <3>3 DEF Allotted
  <2> QED
    BY <2>3, <2>4 DEF HandedOut
<1>6. conf'.durable => \A i \in Ids : Budget(i)'
  <2>1. conf' = conf
    BY DEF Tame, proc
  <2> QED
    BY <1>1, <2>1, KeptBudget DEF SendInv
<1> QED
  BY <1>3, <1>4, <1>5, <1>6 DEF SendInv
-----------------------------------------------------------------------------
(* Facts the steps share *)

\* A goroutine inside a call, and what it carries.
LEMMA InCall ==
  ASSUME SendInv, NEW c \in Callers, pc[c] # "idle"
  PROVE  /\ up /\ DeliveryTypes /\ pc[c] \in Labels /\ loc[c] \in Call
         /\ loc[c].item \in Ids /\ Carries(pc[c], loc[c])
BY DEF SendInv, DeliveryTypes, Carries

LEMMA StepMoves ==
  ASSUME DeliveryTypes, NEW c \in Callers, NEW at, Step(c, at)
  PROVE  Moves(c, at, loc[c])
BY DEF DeliveryTypes, Step, Moves

LEMMA GoMoves ==
  ASSUME NEW c, NEW at, NEW l, Go(c, at, l)
  PROVE  Moves(c, at, l)
BY DEF Go, Moves

\* Nothing a restart or a check looks at goes away.
Grows ==
  /\ lines \subseteq lines' /\ seen \subseteq seen' /\ (torn => torn')
  /\ \A i \in Ids : marker[i] # None => marker'[i] # None
  /\ UNCHANGED <<sends, lapses>>

LEMMA StillGrows ==
  ASSUME UNCHANGED <<seen, disk, sends, lapses>>
  PROVE  Grows
BY DEF Grows, disk

LEMMA GrowsDurable ==
  ASSUME Grows, NEW i \in Ids, Durable(i)
  PROVE  Durable(i)'
BY DEF Grows, Durable, Key

\* A step outside the time a result is held, into no check and no send.
LEMMA OutsideKept ==
  ASSUME Grows, NEW c \in Callers, pc[c] \notin Holding, NEW l, NEW i \in Ids,
         NEW at, at \notin Holding, at # "check", at # "send"
  PROVE  Kept(c, at, l, i)
<1>1. ~Unrecorded(c, i)
  BY DEF Unrecorded, Holding
<1> QED
  BY <1>1, GrowsDurable DEF Grows, Kept

\* A step that goes on with the result in hand, or has left a trace of it.
LEMMA HoldingKept ==
  ASSUME Grows, NEW c \in Callers, NEW i \in Ids, Budget(i), pc[c] \in Holding,
         NEW l, l.item = loc[c].item, l.res = loc[c].res,
         NEW at, at # "check", at # "send",
         loc[c].res.sent /\ loc[c].item = i =>
           at \in {"update", "record", "ambiguous", "rerecord", "mark"} \/ Durable(i)'
  PROVE  Kept(c, at, l, i)
<1>1. Durable(i) => Durable(i)'
  BY GrowsDurable
<1>2. sends[i] > lapses[i] /\ l.item = i => l.res.sent
  BY DEF Budget, Spent
<1> QED
  BY <1>1, <1>2 DEF Grows, Kept, Unrecorded

\* AppendLine: the file and the memory only grow, and a whole suppressing line is
\* durable, unless the file is torn and will not open.
LEMMA AppendGrows ==
  ASSUME DeliveryTypes, NEW i, NEW host, NEW state, NEW w \in Writes, AppendLine(i, host, state, w),
         UNCHANGED <<sends, lapses>>
  PROVE  /\ Grows /\ torn' \in BOOLEAN /\ marker' = marker
         /\ w = "line" /\ host = "host" /\ state \in SuppressStates => Key(i, "host") \in lines' \/ torn'
<1>1. torn' \in BOOLEAN /\ marker' = marker
  BY DEF AppendLine, DeliveryTypes, Writes
<1>2. lines \subseteq lines' /\ seen \subseteq seen' /\ (torn => torn')
  BY DEF AppendLine, DeliveryTypes
<1>3. w = "line" /\ host = "host" /\ state \in SuppressStates => Key(i, "host") \in lines' \/ torn'
  BY DEF AppendLine, DeliveryTypes
<1> QED
  BY <1>1, <1>2, <1>3 DEF Grows

\* UpdateState, with a state an item may be in once it was handed out.
LEMMA UpdateTypes ==
  ASSUME DeliveryTypes, NEW i \in Ids, NEW state \in OutStates, NEW host, UpdateState(i, state, host)
  PROVE  /\ st' \in [Ids -> ItemStates \cup {None}] /\ order' = order
         /\ \A j \in Ids : st[j] \in OutStates => st'[j] \in OutStates
<1>1. state \in ItemStates \cup {None}
  BY States
<1> QED
  BY <1>1 DEF UpdateState, DeliveryTypes

\* A step that leaves the items and the disk alone is tame.
LEMMA StillTame ==
  ASSUME DeliveryTypes, NEW c, up, UNCHANGED <<proc, st, order, torn, marker, sends, lapses>>,
         \A d \in Callers : Carries(pc[d], loc[d])
  PROVE  Tame(c)
BY DEF Tame, DeliveryTypes, Carries

\* A step that writes an item's state, or a line, and nothing else of note.
LEMMA WriteTame ==
  ASSUME SendInv, NEW c, up, UNCHANGED <<proc, marker, sends, lapses>>, torn' \in BOOLEAN,
         st' \in [Ids -> ItemStates \cup {None}], order' \in [Sessions -> Seq(Ids)],
         \A j \in Ids : st[j] \in OutStates => st'[j] \in OutStates
  PROVE  Tame(c)
BY DEF Tame, DeliveryTypes, SendInv, Carries

\* The goroutine keeps its item.
LEMMA SameItem ==
  ASSUME NEW c, NEW at, NEW l, pc[c] \in Handling, l.item = loc[c].item
  PROVE  Allotted(c, at, l)
BY DEF Allotted, Handles

LEMMA NotHandling ==
  ASSUME NEW c, NEW at, NEW l, at \notin Handling
  PROVE  Allotted(c, at, l)
BY DEF Allotted
-----------------------------------------------------------------------------
(* Steps that neither send nor hold a result *)

\* The scheme of most steps: from outside Holding to outside Holding.
LEMMA OutsideKeeps ==
  ASSUME SendInv, NEW c \in Callers, NEW at \in Labels, NEW l \in Call, Moves(c, at, l), Tame(c), Grows,
         pc[c] \notin Holding, at \notin Holding, at # "check", at # "send",
         at # "idle" => l.item \in Ids, at \in Acking => l.to \in AckStates, Allotted(c, at, l)
  PROVE  SendInv'
<1>1. Carries(at, l)'
  BY DEF Carries, Holding
<1>2. \A i \in Ids : Kept(c, at, l, i)
  BY OutsideKept
<1> QED
  BY <1>1, <1>2, StepKeeps

LEMMA Labelled ==
  /\ {"idle", "latch", "check", "suppress", "audit", "escalate", "send", "finish"} \cup Holding \subseteq Labels
  /\ {"ackrecord", "ackupdate", "acklatch"} \subseteq Labels
  /\ {"idle", "latch", "ackrecord", "ackupdate", "acklatch"} \cap Handling = {}
  /\ {"idle", "latch", "ackrecord", "ackupdate", "acklatch", "check", "suppress", "audit", "escalate", "send", "finish"}
       \cap Holding = {}
  /\ {"idle", "latch", "check", "suppress", "audit", "escalate", "send", "finish"} \cap Acking = {}
  /\ {"check", "suppress", "audit", "escalate", "send", "finish"} \subseteq Handling
  /\ Holding \subseteq Handling
BY DEF Labels, Handling, Holding, Acking

LEMMA EnqueueKeeps ==
  ASSUME SendInv, NEW c \in Callers, NEW i \in Ids, Enqueue(c, i)
  PROVE  SendInv'
<1>1. DeliveryTypes
  BY DEF SendInv
<1>2. PICK l : l = [NoCall EXCEPT !.item = i]
  OBVIOUS
<1>3. l \in Call /\ l.item = i
  BY <1>2 DEF NoCall, Call
<1>4. Moves(c, "latch", l) /\ up /\ pc[c] = "idle"
  BY <1>2, GoMoves DEF Enqueue
<1>5. UNCHANGED <<proc, seen, disk, sends, lapses>>
  BY DEF Enqueue, ghosts
<1>6. st[i] = None /\ st' = [st EXCEPT ![i] = "PENDING"]
  BY DEF Enqueue
<1>7. /\ st' \in [Ids -> ItemStates \cup {None}]
      /\ \A j \in Ids : st[j] \in OutStates => st'[j] \in OutStates
  BY <1>1, <1>6, States DEF DeliveryTypes
<1>8. order' \in [Sessions -> Seq(Ids)]
  <2>1. order' = [order EXCEPT ![SessionOf[i]] = Append(@, i)] /\ SessionOf[i] \in Sessions
    BY DEF Enqueue, Sessions
  <2>2. Append(order[SessionOf[i]], i) \in Seq(Ids)
    BY <1>1, <2>1 DEF DeliveryTypes
  <2> QED
    BY <1>1, <2>1, <2>2 DEF DeliveryTypes
<1>9. Tame(c)
  BY <1>1, <1>4, <1>5, <1>7, <1>8, WriteTame DEF disk, DeliveryTypes
<1>10. Grows
  BY <1>5, StillGrows
<1>11. Allotted(c, "latch", l)
  BY Labelled, NotHandling
<1> QED
  BY <1>3, <1>4, <1>9, <1>10, <1>11, OutsideKeeps, Labelled

LEMMA SetLatchKeeps ==
  ASSUME SendInv, NEW c \in Callers, SetLatch(c)
  PROVE  SendInv'
<1>1. pc[c] = "latch" /\ Moves(c, "idle", NoCall) /\ UNCHANGED <<proc, queue, seen, disk, ghosts>>
  BY GoMoves DEF SetLatch, Return
<1>2. up /\ DeliveryTypes
  BY <1>1, InCall
<1>3. Tame(c)
  BY <1>1, <1>2, StillTame DEF queue, disk, ghosts, SendInv
<1>4. Grows
  BY <1>1, StillGrows DEF ghosts
<1> QED
  BY <1>1, <1>3, <1>4, NoCallType, OutsideKeeps, Labelled, NotHandling

LEMMA NothingPendingKeeps ==
  ASSUME SendInv, NEW c \in Callers, NEW s \in Sessions, NothingPending(c, s)
  PROVE  SendInv'
<1>1. DeliveryTypes
  BY DEF SendInv
<1>2. pc[c] = "idle" /\ up /\ UNCHANGED <<proc, order, seen, disk, sends, lapses, pc, loc>>
  BY DEF NothingPending, ghosts
<1>3. Moves(c, "idle", loc[c]) /\ loc[c] \in Call
  BY <1>1, <1>2 DEF Moves, DeliveryTypes
<1>4. \A i \in Ids : st'[i] = "EXPIRED" \/ st'[i] = st[i]
  BY DEF NothingPending, ExpireTo
<1>5. st' = [i \in Ids |-> st'[i]]
  BY DEF NothingPending, ExpireTo
<1>6. /\ st' \in [Ids -> ItemStates \cup {None}]
      /\ \A j \in Ids : st[j] \in OutStates => st'[j] \in OutStates
  <2>1. \A i \in Ids : st'[i] \in ItemStates \cup {None}
    BY <1>1, <1>4, States DEF DeliveryTypes
  <2> QED
    BY <1>4, <1>5, <2>1, States
<1>7. Tame(c)
  BY <1>1, <1>2, <1>6, WriteTame DEF disk, DeliveryTypes
<1>8. Grows
  BY <1>2, StillGrows
<1> QED
  BY <1>2, <1>3, <1>7, <1>8, OutsideKeeps, Labelled, NotHandling

\* A step that goes on to at and leaves items and disk alone.
LEMMA CheckSuppressedKeeps ==
  ASSUME SendInv, NEW c \in Callers, CheckSuppressed(c)
  PROVE  SendInv'
<1>1. pc[c] = "check" /\ Step(c, "suppress") /\ UNCHANGED <<proc, queue, seen, disk, ghosts>>
  BY DEF CheckSuppressed
<1>2. up /\ DeliveryTypes /\ loc[c] \in Call /\ loc[c].item \in Ids
  BY <1>1, InCall
<1>3. Moves(c, "suppress", loc[c])
  BY <1>1, <1>2, StepMoves
<1>4. Tame(c)
  BY <1>1, <1>2, StillTame DEF queue, disk, ghosts, SendInv
<1>5. Grows
  BY <1>1, StillGrows DEF ghosts
<1>6. Allotted(c, "suppress", loc[c])
  BY <1>1, SameItem, Labelled
<1> QED
  BY <1>1, <1>2, <1>3, <1>4, <1>5, <1>6, OutsideKeeps, Labelled

\* The fresh item goes to the send only if no earlier send is unaccounted for.
LEMMA CheckFreshKeeps ==
  ASSUME SendInv, NEW c \in Callers, CheckFresh(c)
  PROVE  SendInv'
<1>1. PICK at \in {"send", "escalate"} : Step(c, at)
  BY DEF CheckFresh
<1>2. /\ pc[c] = "check" /\ UNCHANGED <<proc, queue, seen, disk, ghosts>>
      /\ conf.durable => Key(loc[c].item, "host") \notin seen
  BY DEF CheckFresh
<1>3. up /\ DeliveryTypes /\ loc[c] \in Call /\ loc[c].item \in Ids
  BY <1>2, InCall
<1>4. PICK l \in Call : l = loc[c] /\ Moves(c, at, l)
  BY <1>1, <1>3, StepMoves
<1>5. Tame(c)
  BY <1>2, <1>3, StillTame DEF queue, disk, ghosts, SendInv
<1>6. Grows
  BY <1>2, StillGrows DEF ghosts
<1>7. Allotted(c, at, l)
  BY <1>2, <1>4, SameItem, Labelled
<1>8. at \in Labels /\ at \notin Holding /\ at \notin Acking
  BY Labelled
<1>9. Carries(at, l)'
  BY <1>3, <1>4, <1>8, Labelled DEF Carries, Holding
<1>10. ASSUME conf.durable, NEW i \in Ids PROVE Kept(c, at, l, i)
  <2>1. ~Unrecorded(c, i)
    BY <1>2 DEF Unrecorded
  <2>2. Budget(i)
    BY <1>10 DEF SendInv
  <2>3. loc[c].item = i => ~(sends[i] > lapses[i])
    BY <1>2, <1>10, <2>2 DEF Budget, Spent
  <2> QED
    BY <1>4, <1>6, <1>8, <2>1, <2>3, GrowsDurable DEF Kept, Grows
<1> QED
  BY <1>3, <1>4, <1>5, <1>7, <1>8, <1>9, <1>10, StepKeeps

LEMMA SuppressKeeps ==
  ASSUME SendInv, NEW c \in Callers, Suppress(c)
  PROVE  SendInv'
<1>1. /\ pc[c] = "suppress" /\ Step(c, "audit") /\ UNCHANGED <<proc, seen, disk, ghosts>>
      /\ UpdateState(loc[c].item, "SUPPRESSED", "host")
  BY DEF Suppress
<1>2. up /\ DeliveryTypes /\ loc[c] \in Call /\ loc[c].item \in Ids
  BY <1>1, InCall
<1>3. Moves(c, "audit", loc[c])
  BY <1>1, <1>2, StepMoves
<1>4. /\ st' \in [Ids -> ItemStates \cup {None}] /\ order' = order
      /\ \A j \in Ids : st[j] \in OutStates => st'[j] \in OutStates
  BY <1>1, <1>2, UpdateTypes, States
<1>5. Tame(c)
  BY <1>1, <1>2, <1>4, WriteTame DEF disk, ghosts, DeliveryTypes
<1>6. Grows
  BY <1>1, StillGrows DEF ghosts
<1>7. Allotted(c, "audit", loc[c])
  BY <1>1, SameItem, Labelled
<1> QED
  BY <1>1, <1>2, <1>3, <1>5, <1>6, <1>7, OutsideKeeps, Labelled

LEMMA AuditSuppressKeeps ==
  ASSUME SendInv, NEW c \in Callers, AuditSuppress(c)
  PROVE  SendInv'
<1>1. PICK w \in Writes : AppendLine(loc[c].item, "host", "SUPPRESSED", w)
  BY DEF AuditSuppress
<1>2. PICK l : l = [loc[c] EXCEPT !.clear = TRUE]
  OBVIOUS
<1>3. /\ pc[c] = "audit" /\ Moves(c, "finish", l) /\ UNCHANGED <<proc, queue, ghosts>>
  BY <1>2, GoMoves DEF AuditSuppress
<1>4. up /\ DeliveryTypes /\ loc[c] \in Call /\ loc[c].item \in Ids
  BY <1>3, InCall
<1>5. l \in Call /\ l.item = loc[c].item
  BY <1>2, <1>4 DEF Call
<1>6. Grows /\ torn' \in BOOLEAN /\ marker' = marker
  BY <1>1, <1>3, <1>4, AppendGrows DEF ghosts
<1>7. Tame(c)
  BY <1>3, <1>4, <1>6, WriteTame DEF queue, ghosts, DeliveryTypes
<1>8. Allotted(c, "finish", l)
  BY <1>3, <1>5, SameItem, Labelled
<1> QED
  BY <1>3, <1>4, <1>5, <1>6, <1>7, <1>8, OutsideKeeps, Labelled

LEMMA EscalateKeeps ==
  ASSUME SendInv, NEW c \in Callers, Escalate(c)
  PROVE  SendInv'
<1>1. /\ pc[c] = "escalate" /\ UNCHANGED <<proc, seen, disk, ghosts>>
      /\ UpdateState(loc[c].item, "FAILED", Unset)
  BY DEF Escalate
<1>2. PICK alerted \in BOOLEAN : Go(c, "finish", [loc[c] EXCEPT !.clear = alerted])
  BY DEF Escalate
<1>3. PICK l : l = [loc[c] EXCEPT !.clear = alerted]
  OBVIOUS
<1>4. Moves(c, "finish", l)
  BY <1>2, <1>3, GoMoves
<1>5. up /\ DeliveryTypes /\ loc[c] \in Call /\ loc[c].item \in Ids
  BY <1>1, InCall
<1>6. l \in Call /\ l.item = loc[c].item
  BY <1>3, <1>5 DEF Call
<1>7. /\ st' \in [Ids -> ItemStates \cup {None}] /\ order' = order
      /\ \A j \in Ids : st[j] \in OutStates => st'[j] \in OutStates
  BY <1>1, <1>5, UpdateTypes, States
<1>8. Tame(c)
  BY <1>1, <1>5, <1>7, WriteTame DEF disk, ghosts, DeliveryTypes
<1>9. Grows
  BY <1>1, StillGrows DEF ghosts
<1>10. Allotted(c, "finish", l)
  BY <1>1, <1>6, SameItem, Labelled
<1> QED
  BY <1>1, <1>4, <1>5, <1>6, <1>8, <1>9, <1>10, OutsideKeeps, Labelled

LEMMA FinishKeeps ==
  ASSUME SendInv, NEW c \in Callers, Finish(c)
  PROVE  SendInv'
<1>1. pc[c] = "finish" /\ Moves(c, "idle", NoCall) /\ UNCHANGED <<proc, queue, seen, disk, ghosts>>
  BY GoMoves DEF Finish, Return
<1>2. up /\ DeliveryTypes
  BY <1>1, InCall
<1>3. Tame(c)
  BY <1>1, <1>2, StillTame DEF queue, disk, ghosts, SendInv
<1>4. Grows
  BY <1>1, StillGrows DEF ghosts
<1> QED
  BY <1>1, <1>3, <1>4, NoCallType, OutsideKeeps, Labelled, NotHandling
-----------------------------------------------------------------------------
(* Acknowledgements *)

LEMMA ReadForAckKeeps ==
  ASSUME SendInv, NEW c \in Callers, NEW i \in Ids, NEW to \in AckStates, NEW quiet \in BOOLEAN,
         ReadForAck(c, i, to, quiet)
  PROVE  SendInv'
<1>1. DeliveryTypes
  BY DEF SendInv
<1>2. PICK l, at : /\ l = [NoCall EXCEPT !.item = i, !.to = to, !.quiet = quiet,
                                        !.host = IF quiet \/ i \in pinned THEN "host" ELSE Unset]
                   /\ at = IF conf.durable THEN "ackrecord" ELSE "ackupdate"
  OBVIOUS
<1>3. /\ Go(c, at, l) /\ up /\ pc[c] = "idle" /\ UNCHANGED <<proc, queue, seen, disk, ghosts>>
  BY <1>2 DEF ReadForAck
<1>4. l \in Call /\ l.item = i /\ l.to = to
  <2>1. PICK host \in {"host", Unset} : host = IF quiet \/ i \in pinned THEN "host" ELSE Unset
    OBVIOUS
  <2>2. l = [NoCall EXCEPT !.item = i, !.to = to, !.quiet = quiet, !.host = host]
    BY <1>2, <2>1
  <2>3. to \in ItemStates
    BY States
  <2> QED
    BY <2>2, <2>3 DEF NoCall, Call
<1>5. at \in {"ackrecord", "ackupdate"}
  BY <1>2
<1>6. Moves(c, at, l)
  BY <1>3, GoMoves
<1>7. Tame(c)
  BY <1>1, <1>3, StillTame DEF queue, disk, ghosts, SendInv
<1>8. Grows
  BY <1>3, StillGrows DEF ghosts
<1>9. at \in Labels /\ at \notin Holding /\ at \notin Handling /\ at # "check" /\ at # "send"
  BY <1>5, Labelled
<1>10. Allotted(c, at, l)
  BY <1>9, NotHandling
<1>11. pc[c] \notin Holding
  BY <1>3, Labelled
<1> QED
  BY <1>4, <1>6, <1>7, <1>8, <1>9, <1>10, <1>11, OutsideKeeps

LEMMA RecordAckKeeps ==
  ASSUME SendInv, NEW c \in Callers, RecordAck(c)
  PROVE  SendInv'
<1>1. PICK w \in Writes : /\ AppendLine(loc[c].item, loc[c].host, loc[c].to, w)
                          /\ IF w = "line" THEN Step(c, "ackupdate") ELSE Return(c)
  BY DEF RecordAck
<1>2. pc[c] = "ackrecord" /\ UNCHANGED <<proc, queue, ghosts>>
  BY DEF RecordAck
<1>3. /\ up /\ DeliveryTypes /\ loc[c] \in Call /\ loc[c].item \in Ids /\ Carries(pc[c], loc[c])
  BY <1>2, InCall
<1>4. Grows /\ torn' \in BOOLEAN /\ marker' = marker
  BY <1>1, <1>2, <1>3, AppendGrows DEF ghosts
<1>5. Tame(c)
  BY <1>2, <1>3, <1>4, WriteTame DEF queue, ghosts, DeliveryTypes
<1>6. loc[c].to \in AckStates
  BY <1>2, <1>3 DEF Carries, Acking
<1>7. pc[c] \notin Holding
  BY <1>2, Labelled
<1>8. CASE Step(c, "ackupdate")
  <2>1. Moves(c, "ackupdate", loc[c])
    BY <1>3, <1>8, StepMoves
  <2> QED
    BY <1>3, <1>4, <1>5, <1>6, <1>7, <2>1, OutsideKeeps, Labelled, NotHandling
<1>9. CASE Return(c)
  <2>1. Moves(c, "idle", NoCall)
    BY <1>9, GoMoves DEF Return
  <2> QED
    BY <1>4, <1>5, <1>7, <2>1, NoCallType, OutsideKeeps, Labelled, NotHandling
<1> QED
  BY <1>1, <1>8, <1>9

LEMMA UpdateAckKeeps ==
  ASSUME SendInv, NEW c \in Callers, UpdateAck(c)
  PROVE  SendInv'
<1>1. /\ pc[c] = "ackupdate" /\ UNCHANGED <<proc, seen, disk, ghosts>>
      /\ UpdateState(loc[c].item, loc[c].to, loc[c].host)
      /\ Return(c) \/ Step(c, "acklatch")
  BY DEF UpdateAck
<1>2. /\ up /\ DeliveryTypes /\ loc[c] \in Call /\ loc[c].item \in Ids /\ Carries(pc[c], loc[c])
  BY <1>1, InCall
<1>3. loc[c].to \in AckStates /\ loc[c].to \in OutStates
  BY <1>1, <1>2, States DEF Carries, Acking
<1>4. /\ st' \in [Ids -> ItemStates \cup {None}] /\ order' = order
      /\ \A j \in Ids : st[j] \in OutStates => st'[j] \in OutStates
  BY <1>1, <1>2, <1>3, UpdateTypes
<1>5. Tame(c)
  BY <1>1, <1>2, <1>4, WriteTame DEF disk, ghosts, DeliveryTypes
<1>6. Grows
  BY <1>1, StillGrows DEF ghosts
<1>7. pc[c] \notin Holding
  BY <1>1, Labelled
<1>8. CASE Step(c, "acklatch")
  <2>1. Moves(c, "acklatch", loc[c])
    BY <1>2, <1>8, StepMoves
  <2> QED
    BY <1>2, <1>3, <1>5, <1>6, <1>7, <2>1, OutsideKeeps, Labelled, NotHandling
<1>9. CASE Return(c)
  <2>1. Moves(c, "idle", NoCall)
    BY <1>9, GoMoves DEF Return
  <2> QED
    BY <1>5, <1>6, <1>7, <2>1, NoCallType, OutsideKeeps, Labelled, NotHandling
<1> QED
  BY <1>1, <1>8, <1>9

LEMMA ReleaseAckKeeps ==
  ASSUME SendInv, NEW c \in Callers, ReleaseAck(c)
  PROVE  SendInv'
<1>1. pc[c] = "acklatch" /\ Moves(c, "idle", NoCall) /\ UNCHANGED <<proc, queue, seen, disk, ghosts>>
  BY GoMoves DEF ReleaseAck, Return
<1>2. up /\ DeliveryTypes
  BY <1>1, InCall
<1>3. Tame(c)
  BY <1>1, <1>2, StillTame DEF queue, disk, ghosts, SendInv
<1>4. Grows
  BY <1>1, StillGrows DEF ghosts
<1> QED
  BY <1>1, <1>3, <1>4, NoCallType, OutsideKeeps, Labelled, NotHandling

-----------------------------------------------------------------------------
(* The item is handed out *)

\* NextPending hands out an item that was queued, so that nobody handles it.
LEMMA NextPendingKeeps ==
  ASSUME SendInv, NEW c \in Callers, NEW s \in Sessions, NextPending(c, s)
  PROVE  SendInv'
<1>1. DeliveryTypes
  BY DEF SendInv
<1>2. PICK k \in Live(s) :
        /\ st' = [ExpireTo(s, k) EXCEPT ![order[s][k]] = "DELIVERING"]
        /\ order' = [order EXCEPT ![s] = SubSeq(@, 1, k - 1) \o SubSeq(@, k + 1, Len(@))]
        /\ Go(c, "check", [NoCall EXCEPT !.item = order[s][k]])
  BY DEF NextPending
<1>3. order[s] \in Seq(Ids)
  BY <1>1 DEF DeliveryTypes
<1>4. k \in 1..Len(order[s])
  BY <1>3 DEF Live
<1>5. PICK i \in Ids : i = order[s][k]
  BY <1>3, <1>4, ElementOfSeq
<1>6. st[i] = "PENDING"
  BY <1>5 DEF Live
<1>7. PICK l : l = [NoCall EXCEPT !.item = i]
  OBVIOUS
<1>8. l \in Call /\ l.item = i
  BY <1>7 DEF NoCall, Call
<1>9. /\ up /\ pc[c] = "idle" /\ Go(c, "check", l)
      /\ st' = [ExpireTo(s, k) EXCEPT ![i] = "DELIVERING"]
      /\ order' = [order EXCEPT ![s] = SubSeq(order[s], 1, k - 1) \o SubSeq(order[s], k + 1, Len(order[s]))]
      /\ UNCHANGED <<proc, seen, disk, ghosts>>
  BY <1>2, <1>5, <1>7 DEF NextPending
<1>10. Moves(c, "check", l)
  BY <1>9, GoMoves
<1>11. order' \in [Sessions -> Seq(Ids)]
  <2>1. SubSeq(order[s], 1, k - 1) \in Seq(Ids) /\ SubSeq(order[s], k + 1, Len(order[s])) \in Seq(Ids)
    BY <1>3, <1>4
  <2>2. SubSeq(order[s], 1, k - 1) \o SubSeq(order[s], k + 1, Len(order[s])) \in Seq(Ids)
    BY <2>1
  <2> QED
    BY <1>1, <1>9, <2>2 DEF DeliveryTypes
<1>12. /\ st' \in [Ids -> ItemStates \cup {None}] /\ st'[i] \in OutStates
       /\ \A j \in Ids : st[j] \in OutStates => st'[j] \in OutStates
  <2>1. \A j \in Ids : ExpireTo(s, k)[j] = "EXPIRED" \/ ExpireTo(s, k)[j] = st[j]
    BY DEF ExpireTo
  <2>2. \A j \in Ids : ExpireTo(s, k)[j] \in ItemStates \cup {None}
    BY <1>1, <2>1, States DEF DeliveryTypes
  <2>3. ExpireTo(s, k) = [j \in Ids |-> ExpireTo(s, k)[j]]
    BY DEF ExpireTo
  <2>4. ExpireTo(s, k) \in [Ids -> ItemStates \cup {None}]
    BY <2>2, <2>3
  <2>5. \A j \in Ids : st[j] \in OutStates => ExpireTo(s, k)[j] \in OutStates
    BY <2>1, States
  <2> QED
    BY <1>9, <2>4, <2>5, States
<1>13. Tame(c)
  BY <1>1, <1>9, <1>11, <1>12, WriteTame DEF disk, ghosts, DeliveryTypes
<1>14. Grows
  BY <1>9, StillGrows DEF ghosts
<1>15. Allotted(c, "check", l)
  BY <1>6, <1>8, <1>12, States DEF Allotted, SendInv, HandedOut
<1>16. Carries("check", l)'
  BY <1>8, Labelled DEF Carries, Holding
<1>17. ASSUME conf.durable, NEW j \in Ids PROVE Kept(c, "check", l, j)
  <2>1. ~Unrecorded(c, j)
    BY <1>9 DEF Unrecorded
  <2>2. Budget(j)
    BY <1>17 DEF SendInv
  <2>3. sends[j] > lapses[j] /\ l.item = j => Key(j, "host") \in seen
    BY <1>6, <1>8, <1>9, <2>2, States DEF Budget, Spent
  <2> QED
    BY <1>14, <2>1, <2>3, GrowsDurable, Labelled DEF Kept, Grows
<1> QED
  BY <1>8, <1>10, <1>13, <1>15, <1>16, <1>17, StepKeeps, Labelled
-----------------------------------------------------------------------------
(* Steps that hold a result *)

\* The scheme of these steps: the result goes on, or has left a trace.
LEMMA HoldingKeeps ==
  ASSUME SendInv, NEW c \in Callers, NEW at \in Handling, NEW l \in Call, Moves(c, at, l), Tame(c), Grows,
         pc[c] \in Holding, l.item = loc[c].item, l.res = loc[c].res, at # "check", at # "send",
         Carries(at, l)',
         conf.durable /\ loc[c].res.sent =>
           at \in {"update", "record", "ambiguous", "rerecord", "mark"} \/ Durable(l.item)'
  PROVE  SendInv'
<1>1. Allotted(c, at, l)
  BY SameItem, Labelled
<1>2. ASSUME conf.durable, NEW i \in Ids PROVE Kept(c, at, l, i)
  <2>1. Budget(i)
    BY <1>2 DEF SendInv
  <2>2. loc[c].res.sent /\ loc[c].item = i =>
           at \in {"update", "record", "ambiguous", "rerecord", "mark"} \/ Durable(i)'
    BY <1>2 DEF Durable, Key
  <2> QED
    BY <2>1, <2>2, HoldingKept
<1>3. at \in Labels
  BY DEF Labels
<1> QED
  BY <1>1, <1>2, <1>3, StepKeeps

\* Memory takes the result's state; with a ledger the line comes next.
LEMMA RecordStateKeeps ==
  ASSUME SendInv, NEW c \in Callers, RecordState(c)
  PROVE  SendInv'
<1>1. /\ pc[c] = "update" /\ UNCHANGED <<proc, seen, disk, ghosts>>
      /\ UpdateState(loc[c].item, loc[c].to, "host")
  BY DEF RecordState
<1>2. /\ up /\ DeliveryTypes /\ loc[c] \in Call /\ loc[c].item \in Ids
      /\ loc[c].res \in Results /\ loc[c].to \in OutStates /\ loc[c].to = mapResultToState(loc[c].res)
  BY <1>1, InCall DEF Carries, Holding
<1>3. /\ st' \in [Ids -> ItemStates \cup {None}] /\ order' = order
      /\ \A j \in Ids : st[j] \in OutStates => st'[j] \in OutStates
  BY <1>1, <1>2, UpdateTypes
<1>4. Tame(c)
  BY <1>1, <1>2, <1>3, WriteTame DEF disk, ghosts, DeliveryTypes
<1>5. Grows
  BY <1>1, StillGrows DEF ghosts
<1>6. CASE conf.durable
  <2>1. PICK l \in Call : l = loc[c] /\ Moves(c, "record", l)
    BY <1>2, <1>6, StepMoves DEF RecordState
  <2>2. Carries("record", l)'
    BY <1>2, <2>1, Labelled DEF Carries, Acking
  <2> QED
    BY <1>1, <1>4, <1>5, <2>1, <2>2, HoldingKeeps, Labelled DEF Handling, Holding
<1>7. CASE ~conf.durable
  <2>1. PICK clear : clear = Settles(loc[c].to, loc[c].res.err)
    OBVIOUS
  <2>2. clear \in BOOLEAN
    BY <2>1 DEF Settles
  <2>3. PICK l : l = [loc[c] EXCEPT !.clear = clear]
    OBVIOUS
  <2>4. l \in Call /\ l.item = loc[c].item /\ l.res = loc[c].res
    BY <1>2, <2>2, <2>3 DEF Call
  <2>5. Moves(c, "finish", l)
    BY <1>7, <2>1, <2>3, GoMoves DEF RecordState
  <2>6. Carries("finish", l)'
    BY <1>2, <2>4, Labelled DEF Carries
  <2> QED
    BY <1>1, <1>4, <1>5, <1>7, <2>4, <2>5, <2>6, HoldingKeeps, Labelled DEF Holding
<1> QED
  BY <1>6, <1>7

\* A whole line is the trace; without it, a result that reached the host is
\* taken for ambiguous, because its actuator is traceable.
LEMMA RecordResultKeeps ==
  ASSUME SendInv, AllTraceable, NEW c \in Callers, RecordResult(c)
  PROVE  SendInv'
<1>1. pc[c] = "record" /\ UNCHANGED <<proc, queue, ghosts>>
  BY DEF RecordResult
<1>2. /\ up /\ DeliveryTypes /\ loc[c] \in Call /\ loc[c].item \in Ids
      /\ loc[c].res \in Results /\ loc[c].to \in OutStates /\ loc[c].to = mapResultToState(loc[c].res)
  BY <1>1, InCall DEF Carries, Holding
<1>3. PICK w \in Writes :
        /\ AppendLine(loc[c].item, "host", loc[c].to, w)
        /\ IF w = "line"
           THEN Go(c, "finish", [loc[c] EXCEPT !.clear = Settles(loc[c].to, loc[c].res.err)])
           ELSE IF ShouldAmbiguousSuppress(ClassifyDeliveryBoundary(loc[c].res))
           THEN Go(c, "ambiguous", [loc[c] EXCEPT !.to = "AMBIGUOUS"])
           ELSE Go(c, "notsent", [loc[c] EXCEPT !.clear = Settles(loc[c].to, TRUE)])
  BY DEF RecordResult
<1>4. Traceable(loc[c].res)
  BY <1>2 DEF AllTraceable
<1>5. /\ Grows /\ torn' \in BOOLEAN /\ marker' = marker
      /\ w = "line" /\ loc[c].to \in SuppressStates => Key(loc[c].item, "host") \in lines' \/ torn'
  BY <1>1, <1>2, <1>3, AppendGrows DEF ghosts
<1>6. Tame(c)
  BY <1>1, <1>2, <1>5, WriteTame DEF queue, ghosts, DeliveryTypes
<1>7. Settles(loc[c].to, loc[c].res.err) \in BOOLEAN /\ Settles(loc[c].to, TRUE) \in BOOLEAN
  BY DEF Settles
<1>8. CASE w = "line"
  <2>1. PICK l : l = [loc[c] EXCEPT !.clear = Settles(loc[c].to, loc[c].res.err)]
    OBVIOUS
  <2>2. l \in Call /\ l.item = loc[c].item /\ l.res = loc[c].res
    BY <1>2, <1>7, <2>1 DEF Call
  <2>3. Moves(c, "finish", l)
    BY <1>3, <1>8, <2>1, GoMoves
  <2>4. Carries("finish", l)'
    BY <1>2, <2>2, Labelled DEF Carries
  <2>5. loc[c].res.sent => Durable(l.item)'
    <3>1. PICK i \in Ids : i = loc[c].item
      BY <1>2
    <3>2. loc[c].res.sent => Key(i, "host") \in lines' \/ torn'
      BY <1>2, <1>4, <1>5, <1>8, <3>1 DEF Traceable
    <3> QED
      BY <2>2, <3>1, <3>2 DEF Durable, Key
  <2> QED
    BY <1>1, <1>5, <1>6, <2>2, <2>3, <2>4, <2>5, HoldingKeeps, Labelled DEF Holding
<1>9. CASE w # "line" /\ ShouldAmbiguousSuppress(ClassifyDeliveryBoundary(loc[c].res))
  <2>1. PICK l : l = [loc[c] EXCEPT !.to = "AMBIGUOUS"]
    OBVIOUS
  <2>2. "AMBIGUOUS" \in OutStates /\ "AMBIGUOUS" \in ItemStates
    BY States
  <2>3. l \in Call /\ l.item = loc[c].item /\ l.res = loc[c].res /\ l.to = "AMBIGUOUS"
    BY <1>2, <2>1, <2>2 DEF Call
  <2>4. Moves(c, "ambiguous", l)
    BY <1>3, <1>9, <2>1, GoMoves
  <2>5. Carries("ambiguous", l)'
    BY <1>2, <2>2, <2>3, Labelled DEF Carries, Acking
  <2> QED
    BY <1>1, <1>5, <1>6, <2>3, <2>4, <2>5, HoldingKeeps, Labelled DEF Holding
<1>10. CASE w # "line" /\ ~ShouldAmbiguousSuppress(ClassifyDeliveryBoundary(loc[c].res))
  <2>1. PICK l : l = [loc[c] EXCEPT !.clear = Settles(loc[c].to, TRUE)]
    OBVIOUS
  <2>2. l \in Call /\ l.item = loc[c].item /\ l.res = loc[c].res /\ l.to = loc[c].to
    BY <1>2, <1>7, <2>1 DEF Call
  <2>3. Moves(c, "notsent", l)
    BY <1>3, <1>10, <2>1, GoMoves
  <2>4. Carries("notsent", l)'
    BY <1>2, <2>2, Labelled DEF Carries, Acking
  <2>5. ~loc[c].res.sent
    BY <1>4, <1>10 DEF Traceable
  <2> QED
    BY <1>1, <1>5, <1>6, <2>2, <2>3, <2>4, <2>5, HoldingKeeps, Labelled DEF Holding
<1> QED
  BY <1>8, <1>9, <1>10
LEMMA RecordNotSentKeeps ==
  ASSUME SendInv, NEW c \in Callers, RecordNotSent(c)
  PROVE  SendInv'
<1>1. /\ pc[c] = "notsent" /\ Step(c, "finish") /\ UNCHANGED <<proc, seen, disk, ghosts>>
      /\ UpdateState(loc[c].item, loc[c].to, "host")
  BY DEF RecordNotSent
<1>2. up /\ DeliveryTypes /\ loc[c] \in Call /\ loc[c].item \in Ids /\ loc[c].to \in OutStates
  BY <1>1, InCall DEF Carries, Holding
<1>3. PICK l \in Call : l = loc[c] /\ Moves(c, "finish", l)
  BY <1>1, <1>2, StepMoves
<1>4. /\ st' \in [Ids -> ItemStates \cup {None}] /\ order' = order
      /\ \A j \in Ids : st[j] \in OutStates => st'[j] \in OutStates
  BY <1>1, <1>2, UpdateTypes
<1>5. Tame(c)
  BY <1>1, <1>2, <1>4, WriteTame DEF disk, ghosts, DeliveryTypes
<1>6. Grows
  BY <1>1, StillGrows DEF ghosts
<1>7. Allotted(c, "finish", l)
  BY <1>1, <1>3, SameItem, Labelled DEF Holding
<1>8. Carries("finish", l)'
  BY <1>2, <1>3, Labelled DEF Carries
<1>9. ASSUME NEW i \in Ids PROVE Kept(c, "finish", l, i)
  <2>1. ~Unrecorded(c, i)
    BY <1>1 DEF Unrecorded
  <2> QED
    BY <1>6, <2>1, GrowsDurable, Labelled DEF Kept, Grows
<1> QED
  BY <1>3, <1>5, <1>7, <1>8, <1>9, StepKeeps, Labelled

LEMMA MarkAmbiguousKeeps ==
  ASSUME SendInv, NEW c \in Callers, MarkAmbiguous(c)
  PROVE  SendInv'
<1>1. /\ pc[c] = "ambiguous" /\ UNCHANGED <<proc, seen, disk, ghosts>>
      /\ UpdateState(loc[c].item, "AMBIGUOUS", "host")
  BY DEF MarkAmbiguous
<1>2. /\ up /\ DeliveryTypes /\ loc[c] \in Call /\ loc[c].item \in Ids
      /\ loc[c].res \in Results /\ loc[c].to \in OutStates
  BY <1>1, InCall DEF Carries, Holding
<1>3. PICK l : l = [loc[c] EXCEPT !.clear = TRUE]
  OBVIOUS
<1>4. l \in Call /\ l.item = loc[c].item /\ l.res = loc[c].res /\ l.to = loc[c].to
  BY <1>2, <1>3 DEF Call
<1>5. Moves(c, "rerecord", l)
  BY <1>3, GoMoves DEF MarkAmbiguous
<1>6. /\ st' \in [Ids -> ItemStates \cup {None}] /\ order' = order
      /\ \A j \in Ids : st[j] \in OutStates => st'[j] \in OutStates
  BY <1>1, <1>2, UpdateTypes, States
<1>7. Tame(c)
  BY <1>1, <1>2, <1>6, WriteTame DEF disk, ghosts, DeliveryTypes
<1>8. Grows
  BY <1>1, StillGrows DEF ghosts
<1>9. Carries("rerecord", l)'
  BY <1>2, <1>4, Labelled DEF Carries, Acking
<1> QED
  BY <1>1, <1>4, <1>5, <1>7, <1>8, <1>9, HoldingKeeps, Labelled DEF Holding

LEMMA RecordAmbiguousKeeps ==
  ASSUME SendInv, NEW c \in Callers, RecordAmbiguous(c)
  PROVE  SendInv'
<1>1. pc[c] = "rerecord" /\ UNCHANGED <<proc, queue, ghosts>>
  BY DEF RecordAmbiguous
<1>2. /\ up /\ DeliveryTypes /\ loc[c] \in Call /\ loc[c].item \in Ids
      /\ loc[c].res \in Results /\ loc[c].to \in OutStates
  BY <1>1, InCall DEF Carries, Holding
<1>3. PICK w \in Writes :
        /\ AppendLine(loc[c].item, "host", "AMBIGUOUS", w)
        /\ Step(c, IF w = "line" THEN "finish" ELSE "mark")
  BY DEF RecordAmbiguous
<1>4. /\ Grows /\ torn' \in BOOLEAN /\ marker' = marker
      /\ w = "line" => Key(loc[c].item, "host") \in lines' \/ torn'
  BY <1>1, <1>2, <1>3, States, AppendGrows DEF ghosts
<1>5. Tame(c)
  BY <1>1, <1>2, <1>4, WriteTame DEF queue, ghosts, DeliveryTypes
<1>6. CASE w = "line"
  <2>1. PICK l \in Call : l = loc[c] /\ Moves(c, "finish", l)
    BY <1>2, <1>3, <1>6, StepMoves
  <2>2. Carries("finish", l)'
    BY <1>2, <2>1, Labelled DEF Carries
  <2>3. Durable(l.item)'
    BY <1>4, <1>6, <2>1 DEF Durable, Key
  <2> QED
    BY <1>1, <1>4, <1>5, <2>1, <2>2, <2>3, HoldingKeeps, Labelled DEF Holding
<1>7. CASE w # "line"
  <2>1. PICK l \in Call : l = loc[c] /\ Moves(c, "mark", l)
    BY <1>2, <1>3, <1>7, StepMoves
  <2>2. Carries("mark", l)'
    BY <1>2, <2>1, Labelled DEF Carries, Acking
  <2> QED
    BY <1>1, <1>4, <1>5, <2>1, <2>2, HoldingKeeps, Labelled DEF Holding
<1> QED
  BY <1>6, <1>7

\* A send of which nothing is left is a lapse, and uses up no budget.
LEMMA ForgetBudget ==
  ASSUME SendInv, conf.durable, NEW c \in Callers, pc[c] \in Holding, NEW i \in Ids, loc[c].item = i,
         Forget(i, loc[c].res.sent), sends' = sends
  PROVE  Budget(i)'
<1>1. Budget(i)
  BY DEF SendInv
<1>2. lapses[i] \in Nat /\ sends[i] \in Nat /\ lapses'[i] = IF loc[c].res.sent THEN lapses[i] + 1 ELSE lapses[i]
  BY DEF Forget, SendInv, DeliveryTypes
<1>3. sends[i] <= lapses'[i]
  BY <1>1, <1>2 DEF Budget, Spent
<1> QED
  BY <1>2, <1>3 DEF Budget

LEMMA ForgetTypes ==
  ASSUME DeliveryTypes, NEW i \in Ids, NEW sent, Forget(i, sent)
  PROVE  lapses' \in [Ids -> Nat] /\ \A j \in Ids \ {i} : lapses'[j] = lapses[j]
BY DEF Forget, DeliveryTypes

\* A step to the end of the call that loses the last trace of item i's send.
LEMMA LosesKept ==
  ASSUME NEW c \in Callers, pc[c] \in Holding, NEW l, l.item = loc[c].item,
         NEW j \in Ids, loc[c].item # j, sends'[j] = sends[j], lapses'[j] = lapses[j],
         lines' = lines, torn' = torn, seen' = seen, marker'[j] = marker[j]
  PROVE  Kept(c, "finish", l, j)
<1>1. ~Unrecorded(c, j)
  BY DEF Unrecorded
<1>2. Durable(j) => Durable(j)'
  BY DEF Durable, Key
<1> QED
  BY <1>1, <1>2 DEF Kept

\* MarkAmbiguousSuppress, first half.
LEMMA MarkWriteKeeps ==
  ASSUME SendInv, NEW c \in Callers, MarkWrite(c)
  PROVE  SendInv'
<1>1. pc[c] = "mark" /\ LedgerFree /\ UNCHANGED <<proc, queue, seen, lines, torn, sends, restarts>>
  BY DEF MarkWrite
<1>2. /\ up /\ DeliveryTypes /\ loc[c] \in Call /\ loc[c].item \in Ids
      /\ loc[c].res \in Results /\ loc[c].to \in OutStates
  BY <1>1, InCall DEF Carries, Holding
<1>3. \A d \in Callers : pc[d] # "rename"
  BY <1>1 DEF LedgerFree
<1>4. PICK i \in Ids : i = loc[c].item
  BY <1>2
<1>5. ASSUME NEW m \in {"tmp", "bad"}, NEW at \in {"rename", "finish"}, at = "rename" => m = "tmp",
             marker' = [marker EXCEPT ![i] = m], Step(c, at), UNCHANGED lapses
      PROVE  SendInv'
  <2>1. PICK l \in Call : l = loc[c] /\ Moves(c, at, l)
    BY <1>2, <1>5, StepMoves
  <2>2. marker' \in [Ids -> MarkerStates \cup {None}] /\ marker'[i] = m /\ m # None /\ m \in MarkerStates
    BY <1>2, <1>5, DeliveryAssumption DEF DeliveryTypes, MarkerStates
  <2>3. Tame(c)
    BY <1>1, <1>2, <1>3, <1>5, <2>2 DEF Tame, queue, DeliveryTypes
  <2>4. Grows
    BY <1>1, <1>2, <1>5, <2>2 DEF Grows, DeliveryTypes
  <2>5. Carries(at, l)'
    BY <1>2, <1>4, <1>5, <2>1, <2>2, Labelled DEF Carries, Acking
  <2>6. Durable(l.item)'
    BY <1>4, <2>1, <2>2 DEF Durable
  <2>7. at \in Handling /\ pc[c] \in Holding
    BY <1>1 DEF Handling, Holding
  <2> QED
    BY <1>5, <2>1, <2>3, <2>4, <2>5, <2>6, <2>7, HoldingKeeps
<1>6. ASSUME Forget(i, loc[c].res.sent), Step(c, "finish"), UNCHANGED marker
      PROVE  SendInv'
  <2>1. PICK l \in Call : l = loc[c] /\ Moves(c, "finish", l)
    BY <1>2, <1>6, StepMoves
  <2>2. lapses' \in [Ids -> Nat] /\ \A j \in Ids \ {i} : lapses'[j] = lapses[j]
    BY <1>2, <1>6, ForgetTypes
  <2>3. Tame(c)
    BY <1>1, <1>2, <1>3, <1>6, <2>2 DEF Tame, queue, DeliveryTypes
  <2>4. Carries("finish", l)'
    BY <1>2, <2>1, Labelled DEF Carries
  <2>5. pc[c] \in Holding /\ Allotted(c, "finish", l)
    BY <1>1, <2>1, SameItem, Labelled DEF Holding
  <2>6. ASSUME conf.durable, NEW j \in Ids PROVE Kept(c, "finish", l, j) \/ Budget(j)'
    <3>1. CASE j = i
      BY <1>1, <1>4, <1>6, <2>5, <2>6, <3>1, ForgetBudget
    <3>2. CASE j # i
      BY <1>1, <1>4, <1>6, <2>1, <2>2, <2>5, <3>2, LosesKept
    <3> QED
      BY <3>1, <3>2
  <2> QED
    BY <2>1, <2>3, <2>4, <2>5, <2>6, StepKeeps, Labelled
<1> QED
  BY <1>4, <1>5, <1>6 DEF MarkWrite
\* Second half: the goroutine that renames is the only one working on the item,
\* so no other's temporary marker goes away.
LEMMA MarkRenameKeeps ==
  ASSUME SendInv, NEW c \in Callers, MarkRename(c)
  PROVE  SendInv'
<1>1. pc[c] = "rename" /\ Step(c, "finish") /\ UNCHANGED <<proc, queue, lines, torn, sends, restarts>>
  BY DEF MarkRename
<1>2. up /\ DeliveryTypes /\ loc[c] \in Call /\ loc[c].item \in Ids
  BY <1>1, InCall
<1>3. PICK i \in Ids : i = loc[c].item
  BY <1>2
<1>4. PICK l \in Call : l = loc[c] /\ Moves(c, "finish", l)
  BY <1>1, <1>2, StepMoves
<1>5. pc[c] \in Holding /\ Allotted(c, "finish", l)
  BY <1>1, <1>4, SameItem, Labelled DEF Holding
<1>6. Carries("finish", l)'
  BY <1>2, <1>4, Labelled DEF Carries
<1>7. ASSUME NEW d \in Callers \ {c}, pc[d] = "rename"
      PROVE  loc[d].item \in Ids /\ loc[d].item # i /\ marker[loc[d].item] = "tmp"
  <2>1. loc[d].item \in Ids /\ marker[loc[d].item] = "tmp"
    BY <1>7, InCall DEF Carries
  <2>2. pc[c] \in Handling /\ pc[d] \in Handling
    BY <1>1, <1>7 DEF Handling, Holding
  <2>3. loc[d].item = i => Handles(c, i) /\ Handles(d, i)
    BY <1>3, <2>2 DEF Handles
  <2> QED
    BY <1>7, <2>1, <2>3 DEF SendInv, HandedOut
<1>8. ASSUME marker' = [marker EXCEPT ![i] = "key"], seen' = seen \cup {Key(i, "host")}, UNCHANGED lapses
      PROVE  SendInv'
  <2>1. marker' \in [Ids -> MarkerStates \cup {None}] /\ marker'[i] = "key" /\ "key" # None
    BY <1>2, <1>8, DeliveryAssumption DEF DeliveryTypes, MarkerStates
  <2>2. Tame(c)
    BY <1>1, <1>2, <1>7, <1>8, <2>1 DEF Tame, queue, DeliveryTypes
  <2>3. Grows
    BY <1>1, <1>2, <1>8, <2>1 DEF Grows, DeliveryTypes
  <2>4. Durable(l.item)'
    BY <1>3, <1>4, <2>1 DEF Durable
  <2> QED
    BY <1>4, <1>5, <1>6, <2>2, <2>3, <2>4, HoldingKeeps, Labelled
<1>9. ASSUME marker' = [marker EXCEPT ![i] = None], Forget(i, loc[c].res.sent), UNCHANGED seen
      PROVE  SendInv'
  <2>1. lapses' \in [Ids -> Nat] /\ \A j \in Ids \ {i} : lapses'[j] = lapses[j]
    BY <1>2, <1>9, ForgetTypes
  <2>2. marker' \in [Ids -> MarkerStates \cup {None}] /\ \A j \in Ids \ {i} : marker'[j] = marker[j]
    BY <1>2, <1>9 DEF DeliveryTypes
  <2>3. Tame(c)
    BY <1>1, <1>2, <1>7, <2>1, <2>2 DEF Tame, queue, DeliveryTypes
  <2>4. ASSUME conf.durable, NEW j \in Ids PROVE Kept(c, "finish", l, j) \/ Budget(j)'
    <3>1. CASE j = i
      BY <1>1, <1>3, <1>5, <1>9, <2>4, <3>1, ForgetBudget
    <3>2. CASE j # i
      BY <1>1, <1>3, <1>4, <1>5, <1>9, <2>1, <2>2, <3>2, LosesKept
    <3> QED
      BY <3>1, <3>2
  <2> QED
    BY <1>4, <1>5, <1>6, <2>3, <2>4, StepKeeps, Labelled
<1> QED
  BY <1>3, <1>8, <1>9 DEF MarkRename

-----------------------------------------------------------------------------
(* The send *)

\* Whoever sends has an item no earlier send of which is unaccounted for, and
\* holds its result afterwards.
LEMMA SendBudget ==
  ASSUME SendInv, conf.durable, NEW c \in Callers, pc[c] = "send", NEW i \in Ids, loc[c].item = i,
         NEW l, l.item = i, Moves(c, "update", l), UNCHANGED <<proc, st, lapses>>,
         sends'[i] = IF l.res.sent THEN sends[i] + 1 ELSE sends[i]
  PROVE  Budget(i)'
<1>1. DeliveryTypes /\ HandedOut /\ Budget(i)
  BY DEF SendInv
<1>2. /\ pc'[c] = "update" /\ loc'[c] = l
      /\ \A d \in Callers \ {c} : pc'[d] = pc[d] /\ loc'[d] = loc[d]
  BY <1>1 DEF Moves, DeliveryTypes
<1>3. sends[i] \in Nat /\ lapses[i] \in Nat /\ sends[i] <= lapses[i]
  BY <1>1 DEF Budget, Spent, DeliveryTypes
<1>4. sends'[i] <= 1 + lapses'[i] /\ (sends'[i] > lapses'[i] => l.res.sent)
  BY <1>3
<1>5. Handles(c, i)
  BY DEF Handles, Handling
<1>6. ASSUME l.res.sent PROVE Spent(i)'
  <2>1. Unrecorded(c, i)'
    BY <1>2, <1>6 DEF Unrecorded
  <2>2. st'[i] \in OutStates
    BY <1>1, <1>5 DEF HandedOut
  <2>3. ASSUME NEW d \in Callers, loc'[d].item = i
        PROVE  /\ pc'[d] = "check" => Key(i, "host") \in seen'
               /\ pc'[d] # "send"
               /\ pc'[d] \in Holding => loc'[d].res.sent
    <3>1. CASE d = c
      BY <1>2, <1>6, <3>1
    <3>2. CASE d # c
      <4>1. ~Handles(d, i)
        BY <1>1, <1>5, <3>2 DEF HandedOut
      <4> QED
        BY <1>2, <2>3, <3>2, <4>1, Labelled DEF Handles
    <3> QED
      BY <3>1, <3>2
  <2> QED
    BY <2>1, <2>2, <2>3 DEF Spent, Key
<1> QED
  BY <1>4, <1>6 DEF Budget

LEMMA SendKeeps ==
  ASSUME SendInv, AllTraceable, NEW c \in Callers, Send(c)
  PROVE  SendInv'
<1>1. pc[c] = "send" /\ UNCHANGED <<proc, queue, seen, disk, lapses, restarts>>
  BY DEF Send
<1>2. up /\ DeliveryTypes /\ loc[c] \in Call /\ loc[c].item \in Ids
  BY <1>1, InCall
<1>3. PICK i \in Ids : i = loc[c].item
  BY <1>2
<1>4. PICK r \in Results :
        /\ Go(c, "update", [loc[c] EXCEPT !.res = r, !.to = mapResultToState(r)])
        /\ sends' = [sends EXCEPT ![i] = IF r.sent THEN @ + 1 ELSE @]
  BY <1>3 DEF Send
<1>5. mapResultToState(r) \in OutStates /\ mapResultToState(r) \in ItemStates
  BY <1>4, States DEF AllTraceable, Traceable
<1>6. PICK l : l = [loc[c] EXCEPT !.res = r, !.to = mapResultToState(r)]
  OBVIOUS
<1>7. l \in Call /\ l.item = i /\ l.res = r /\ l.to = mapResultToState(r)
  BY <1>2, <1>3, <1>5, <1>6 DEF Call
<1>8. Moves(c, "update", l)
  BY <1>4, <1>6, GoMoves
<1>9. /\ sends' \in [Ids -> Nat] /\ sends'[i] = (IF l.res.sent THEN sends[i] + 1 ELSE sends[i])
      /\ \A j \in Ids \ {i} : sends'[j] = sends[j]
  BY <1>2, <1>4, <1>7 DEF DeliveryTypes
<1>10. Tame(c)
  BY <1>1, <1>2, <1>9 DEF Tame, queue, disk, DeliveryTypes, SendInv, Carries
<1>11. Allotted(c, "update", l)
  BY <1>1, <1>3, <1>7, SameItem, Labelled
<1>12. Carries("update", l)'
  BY <1>5, <1>7, Labelled DEF Carries, Acking
<1>13. ASSUME conf.durable, NEW j \in Ids PROVE Kept(c, "update", l, j) \/ Budget(j)'
  <2>1. CASE j = i
    BY <1>1, <1>3, <1>7, <1>8, <1>9, <1>13, <2>1, SendBudget DEF queue
  <2>2. CASE j # i
    <3>1. ~Unrecorded(c, j)
      BY <1>1 DEF Unrecorded
    <3>2. Durable(j) => Durable(j)'
      BY <1>1 DEF Durable, Key, disk
    <3> QED
      BY <1>1, <1>7, <1>9, <2>2, <3>1, <3>2 DEF Kept
  <2> QED
    BY <2>1, <2>2
<1> QED
  BY <1>7, <1>8, <1>10, <1>11, <1>12, <1>13, StepKeeps, Labelled DEF Holding

-----------------------------------------------------------------------------
(* Crash and restart *)

\* What a crash takes with it without a trace is a lapse.
LEMMA CrashKeeps ==
  ASSUME SendInv, Crash
  PROVE  SendInv'
<1>1. DeliveryTypes
  BY DEF SendInv
<1>2. /\ ~up' /\ st' = [i \in Ids |-> None] /\ order' = [s \in Sessions |-> <<>>]
      /\ pc' = [c \in Callers |-> "idle"] /\ loc' = [c \in Callers |-> NoCall] /\ up' = FALSE
      /\ UNCHANGED <<conf, lines, torn, marker, sends>>
  BY DEF Crash, disk
<1>3. \A i \in Ids : lapses'[i] = lapses[i] + IF \E c \in Callers : Unrecorded(c, i) THEN 1 ELSE 0
  BY DEF Crash
<1>4. lapses' \in [Ids -> Nat]
  <2>1. \A i \in Ids : lapses'[i] \in Nat
    BY <1>1, <1>3 DEF DeliveryTypes
  <2>2. lapses' = [i \in Ids |-> lapses'[i]]
    BY DEF Crash
  <2> QED
    BY <2>1, <2>2
<1>5. DeliveryTypes'
  <2>1. <<>> \in Seq(Ids)
    OBVIOUS
  <2> QED
    BY <1>1, <1>2, <1>4, <2>1, NoCallType, Labelled DEF DeliveryTypes
<1>6. HandedOut'
  BY <1>2, Labelled DEF HandedOut, Handles
<1>7. ASSUME NEW c \in Callers PROVE Carries(pc[c], loc[c])'
  BY <1>2, Labelled DEF Carries
<1>8. ASSUME conf'.durable, NEW i \in Ids PROVE Budget(i)'
  <2>1. Budget(i) /\ sends[i] \in Nat /\ lapses[i] \in Nat
    BY <1>1, <1>2, <1>8 DEF SendInv, DeliveryTypes
  <2>2. sends'[i] <= 1 + lapses'[i]
    BY <1>2, <1>3, <2>1 DEF Budget
  <2>3. ASSUME sends'[i] > lapses'[i] PROVE Spent(i)'
    <3>1. Durable(i)
      BY <1>2, <1>3, <2>1, <2>3 DEF Budget, Spent
    <3>2. Durable(i)'
      BY <1>2, <3>1 DEF Durable, Key
    <3>3. \A c \in Callers : pc'[c] = "idle"
      BY <1>2
    <3> QED
      BY <1>2, <3>2, <3>3, Labelled DEF Spent
  <2> QED
    BY <2>2, <2>3 DEF Budget
<1> QED
  BY <1>5, <1>6, <1>7, <1>8 DEF SendInv

\* A ledger that opens has loaded the key of everything that left a trace.
LEMMA OpenKeeps ==
  ASSUME SendInv, Open
  PROVE  SendInv'
<1>1. DeliveryTypes
  BY DEF SendInv
<1>2. /\ ~up /\ ~torn /\ up' = TRUE
      /\ marker' = [i \in Ids |-> IF marker[i] = "tmp" THEN "key" ELSE marker[i]]
      /\ UNCHANGED <<conf, st, order, lines, torn, pc, loc, sends, lapses>>
  BY DEF Open, queue, ghosts
<1>3. \A c \in Callers : pc[c] = "idle"
  BY <1>1, <1>2 DEF DeliveryTypes
<1>4. /\ marker' \in [Ids -> MarkerStates \cup {None}]
      /\ \A i \in Ids : marker[i] # None => marker'[i] # None
  BY <1>1, <1>2, DeliveryAssumption DEF DeliveryTypes, MarkerStates
<1>5. DeliveryTypes'
  BY <1>1, <1>2, <1>3, <1>4 DEF DeliveryTypes
<1>6. HandedOut'
  BY <1>2, <1>3, Labelled DEF HandedOut, Handles
<1>7. ASSUME NEW c \in Callers PROVE Carries(pc[c], loc[c])'
  BY <1>2, <1>3, Labelled DEF Carries
<1>8. ASSUME conf'.durable, NEW i \in Ids PROVE Budget(i)'
  <2>1. Budget(i)
    BY <1>2, <1>8 DEF SendInv
  <2>2. ASSUME sends[i] > lapses[i] PROVE Spent(i)'
    <3>1. \A c \in Callers : ~Unrecorded(c, i)
      BY <1>3 DEF Unrecorded
    <3>2. Key(i, "host") \in lines \/ marker[i] # None
      BY <1>2, <2>1, <2>2, <3>1 DEF Budget, Spent, Durable
    <3>3. Durable(i)'
      BY <1>2, <1>4, <3>2 DEF Durable, Key
    <3>4. Key(i, "host") \in seen'
      BY <3>2 DEF Open
    <3> QED
      BY <1>2, <1>3, <3>3, <3>4, Labelled DEF Spent, Key
  <2> QED
    BY <1>2, <2>1, <2>2 DEF Budget
<1> QED
  BY <1>5, <1>6, <1>7, <1>8 DEF SendInv

-----------------------------------------------------------------------------
LEMMA InitSendInv == Init => SendInv
<1> SUFFICES ASSUME Init PROVE SendInv
  OBVIOUS
<1>1. DeliveryTypes
  <2>1. <<>> \in Seq(Ids)
    OBVIOUS
  <2>2. \A i \in Ids : 0 \in Nat
    OBVIOUS
  <2> QED
    BY <2>1, NoCallType, Labelled DEF Init, DeliveryTypes
<1>2. \A c \in Callers : pc[c] = "idle"
  BY DEF Init
<1>3. HandedOut
  BY <1>2, Labelled DEF HandedOut, Handles
<1>4. ASSUME NEW c \in Callers PROVE Carries(pc[c], loc[c])
  BY <1>2, Labelled DEF Carries
<1>5. ASSUME NEW i \in Ids PROVE Budget(i)
  BY DEF Init, Budget
<1> QED
  BY <1>1, <1>3, <1>4, <1>5 DEF SendInv

LEMMA StutterKeeps ==
  ASSUME SendInv, UNCHANGED <<proc, st, order, seen, disk, pc, loc, ghosts>>
  PROVE  SendInv'
BY SMTT(30) DEF SendInv, DeliveryTypes, HandedOut, Handles, Carries, Budget, Spent, Durable, Unrecorded, Key,
       proc, disk, ghosts

LEMMA NextSendInv ==
  ASSUME AllTraceable, SendInv, [Next]_vars
  PROVE  SendInv'
<1>1. ASSUME NEW c \in Callers, Begin(c) PROVE SendInv'
  BY <1>1, EnqueueKeeps, NextPendingKeeps, NothingPendingKeeps, ReadForAckKeeps DEF Begin
<1>2. ASSUME NEW c \in Callers, Continue(c) PROVE SendInv'
  BY <1>2, SetLatchKeeps, CheckSuppressedKeeps, CheckFreshKeeps, SuppressKeeps, AuditSuppressKeeps,
     EscalateKeeps, SendKeeps, RecordStateKeeps, RecordResultKeeps, RecordNotSentKeeps, MarkAmbiguousKeeps,
     RecordAmbiguousKeeps, MarkWriteKeeps, MarkRenameKeeps, FinishKeeps, RecordAckKeeps, UpdateAckKeeps,
     ReleaseAckKeeps DEF Continue
<1>3. ASSUME NEW i \in Ids, Lapse(i) PROVE SendInv'
  BY <1>3, StutterKeeps DEF Lapse
<1>4. CASE UNCHANGED vars
  BY <1>4, StutterKeeps DEF vars, queue
<1> QED
  BY <1>1, <1>2, <1>3, <1>4, CrashKeeps, OpenKeeps DEF Next

\* The inductive invariant of the delivery: for an actuator all of whose results
\* are traceable, a send that no lapse makes up for has left a durable trace or
\* is held by the one goroutine that is about to leave it, and everyone who could
\* send the item again is going to find its key (DeliverPending and the ledger).
THEOREM SendInvariant == ASSUME AllTraceable PROVE Spec => []SendInv
<1>1. Init => SendInv
  BY InitSendInv
<1>2. SendInv /\ [Next]_vars => SendInv'
  BY NextSendInv
<1> QED
  BY <1>1, <1>2, PTL DEF Spec

\* With a ledger, no advisory reaches the host twice unless the evidence of the
\* earlier send was lost, for any number of goroutines, advisories and crashes.
THEOREM AdviceSentOnce ==
  ASSUME AllTraceable
  PROVE  Spec => [](conf.durable => SentOnce)
<1>1. SendInv => (conf.durable => SentOnce)
  BY DEF SendInv, Budget, SentOnce
<1> QED
  BY <1>1, SendInvariant, PTL
\* So it is for the actuators of Grok and for those that acknowledge by
\* themselves, whatever subset of their results a host sees.
THEOREM ActuatorsSendOnce ==
  ASSUME Results \subseteq GrokResults \cup AutoAckResults
  PROVE  Spec => [](conf.durable => SentOnce)
<1>1. AllTraceable
  BY ActuatorsTraceable DEF AllTraceable
<1> QED
  BY <1>1, AdviceSentOnce

-----------------------------------------------------------------------------
(* The latch, with one goroutine *)

\* The goroutine c is at a label, with locals l, after the step.
Went(c, at, l) == DOMAIN pc' = Callers /\ DOMAIN loc' = Callers /\ pc'[c] = at /\ loc'[c] = l

LEMMA LatchKnown ==
  ASSUME NEW c, Callers = {c}, LatchInv
  PROVE  /\ c \in Callers /\ LatchTypes /\ Clears(c) /\ DOMAIN loc[c] = DOMAIN NoCall
         /\ DOMAIN pc = Callers /\ DOMAIN loc = Callers /\ DOMAIN st = Ids
         /\ pc[c] # "idle" => loc[c].item \in Ids
<1>1. c \in Callers /\ LatchTypes /\ Clears(c)
  BY DEF LatchInv
<1> QED BY <1>1 DEF LatchTypes

LEMMA GoWent ==
  ASSUME NEW c, Callers = {c}, LatchInv, NEW at, NEW l, Go(c, at, l)
  PROVE  Went(c, at, l)
BY LatchKnown DEF Go, Went

LEMMA StepWent ==
  ASSUME NEW c, Callers = {c}, LatchInv, NEW at, Step(c, at)
  PROVE  Went(c, at, loc[c])
BY LatchKnown DEF Step, Went

\* What a step of the one goroutine has to show for the latch.
LEMMA LatchStep ==
  ASSUME NEW c, Callers = {c}, LatchInv, NEW at, NEW l, Went(c, at, l),
         DOMAIN l = DOMAIN NoCall, at # "idle" => l.item \in Ids, Clears(c)',
         DOMAIN st' = Ids, order' \in [Sessions -> Seq(Ids)], DOMAIN latch' = Sessions,
         \A j \in Ids : st'[j] \in Settled => st[j] \in Settled \/ (at # "idle" /\ l.item = j),
         \A s \in Sessions : \/ latch'[s] \in {latch[s], None}
                             \/ latch'[s] \in Ids /\ SessionOf[latch'[s]] = s /\ st'[latch'[s]] \notin Settled,
         pc[c] # "idle" => \/ at # "idle" /\ l.item = loc[c].item
                           \/ st'[loc[c].item] \notin Settled
                           \/ \A s \in Sessions : latch'[s] # loc[c].item
  PROVE  LatchInv'
<1>1. /\ DOMAIN pc' = Callers /\ DOMAIN loc' = Callers
      /\ pc'[c] = at /\ loc'[c] = l
  BY DEF LatchInv, LatchTypes, Went
<1>2. LatchTypes'
  BY <1>1 DEF LatchInv, LatchTypes, NoCall
<1>3. ASSUME NEW s \in Sessions, latch'[s] # None, st'[latch'[s]] \in Settled
      PROVE  at # "idle" /\ l.item = latch'[s]
  <2>1. latch'[s] = latch[s] /\ latch[s] \in Ids
    BY <1>3 DEF LatchInv, LatchTypes
  <2>2. CASE st[latch[s]] \in Settled
    <3>1. pc[c] # "idle" /\ loc[c].item = latch[s]
      BY <1>3, <2>1, <2>2 DEF LatchInv
    <3> QED BY <1>3, <2>1, <3>1
  <2> QED BY <1>3, <2>1, <2>2
<1> QED BY <1>1, <1>2, <1>3 DEF LatchInv

\* A step within a call, which writes no item but its own.
LEMMA LatchCarried ==
  ASSUME NEW c, Callers = {c}, LatchInv, pc[c] # "idle", NEW at, at # "idle", NEW l, Went(c, at, l),
         DOMAIN l = DOMAIN NoCall, l.item = loc[c].item, UNCHANGED <<order, latch>>,
         st' = st \/ \E x : st' = [st EXCEPT ![loc[c].item] = x],
         Clears(c)'
  PROVE  LatchInv'
<1>1. /\ LatchTypes /\ c \in Callers /\ loc[c].item \in Ids /\ DOMAIN st = Ids
      /\ order' \in [Sessions -> Seq(Ids)] /\ DOMAIN latch' = Sessions
  BY DEF LatchInv, LatchTypes
<1>2. DOMAIN st' = Ids /\ \A j \in Ids : st'[j] \in Settled => st[j] \in Settled \/ l.item = j
  BY <1>1
<1> QED BY <1>1, <1>2, LatchStep

\* The end of a call that leaves the latch and every item alone.
LEMMA LatchLeft ==
  ASSUME NEW c, Callers = {c}, LatchInv, Return(c), UNCHANGED order, DOMAIN latch' = Sessions, pc[c] # "idle",
         st' = st \/ \E x : x \notin Settled /\ st' = [st EXCEPT ![loc[c].item] = x],
         \A s \in Sessions : latch'[s] \in {latch[s], None},
         st'[loc[c].item] \in Settled => \A s \in Sessions : latch'[s] # loc[c].item
  PROVE  LatchInv'
<1>1. /\ c \in Callers /\ DOMAIN st = Ids /\ loc[c].item \in Ids /\ order' \in [Sessions -> Seq(Ids)]
  BY DEF LatchInv, LatchTypes
<1>2. Went(c, "idle", NoCall)
  BY GoWent DEF Return
<1>3. pc'[c] = "idle"
  BY <1>1, <1>2 DEF Went, LatchInv, LatchTypes
<1>4. Clears(c)'
  BY <1>3 DEF Clears, Acking
<1>5. DOMAIN st' = Ids /\ \A j \in Ids : st'[j] \in Settled => st[j] \in Settled
  BY <1>1
<1> QED BY <1>1, <1>2, <1>4, <1>5, LatchStep

\* The latch of an item that is taken off stays with no session.
LEMMA LatchCleared ==
  ASSUME LatchTypes, NEW i \in Ids, clearLatch(i)
  PROVE  /\ DOMAIN latch' = Sessions
         /\ \A s \in Sessions : latch'[s] \in {latch[s], None} /\ latch'[s] # i
<1>1. SessionOf[i] \in Sessions /\ i # None
  BY DeliveryAssumption DEF Sessions
<1> QED BY <1>1 DEF clearLatch, LatchTypes

\* The steps of DeliverPending from the check to the recorded state, and those
\* of an acknowledgement before its end.
LEMMA EnqueueLatches ==
  ASSUME NEW c, Callers = {c}, LatchInv, NEW i \in Ids, Enqueue(c, i)
  PROVE  LatchInv'
<1>1. PICK l : l = [NoCall EXCEPT !.item = i]
  OBVIOUS
<1>2. /\ pc[c] = "idle" /\ Went(c, "latch", l) /\ l.item = i /\ DOMAIN l = DOMAIN NoCall
      /\ st' = [st EXCEPT ![i] = "PENDING"] /\ UNCHANGED latch
      /\ order' = [order EXCEPT ![SessionOf[i]] = Append(order[SessionOf[i]], i)]
  BY <1>1, GoWent DEF Enqueue, NoCall
<1>3. order' \in [Sessions -> Seq(Ids)]
  <2>1. SessionOf[i] \in Sessions
    BY DEF Sessions
  <2>2. order \in [Sessions -> Seq(Ids)]
    BY LatchKnown DEF LatchTypes
  <2>3. Append(order[SessionOf[i]], i) \in Seq(Ids)
    BY <2>1, <2>2
  <2> QED BY <1>2, <2>2, <2>3
<1>4. c \in DOMAIN pc /\ c \in DOMAIN loc /\ i \in DOMAIN st
  BY LatchKnown
<1>5. pc'[c] = "latch" /\ loc'[c] = l /\ st'[i] = "PENDING"
  BY <1>2, <1>4 DEF Went
<1>6. Clears(c)'
  BY <1>2, <1>5 DEF Clears, Acking, Settled
<1>7. DOMAIN st' = Ids /\ DOMAIN latch' = Sessions /\ \A j \in Ids : st'[j] \in Settled => st[j] \in Settled
  BY <1>2, LatchKnown DEF Settled, LatchTypes
<1> QED BY <1>2, <1>3, <1>6, <1>7, LatchStep

LEMMA SetLatchLatches ==
  ASSUME NEW c, Callers = {c}, LatchInv, SetLatch(c)
  PROVE  LatchInv'
<1>1. PICK i \in Ids : i = loc[c].item
  BY LatchKnown DEF SetLatch
<1>2. /\ pc[c] = "latch" /\ Went(c, "idle", NoCall) /\ st' = st /\ order' = order
      /\ latch' = [latch EXCEPT ![SessionOf[i]] = i] /\ st[i] \notin Settled
  BY <1>1, GoWent, LatchKnown DEF SetLatch, Return, queue, Clears
<1>3. /\ DOMAIN latch' = Sessions /\ order' \in [Sessions -> Seq(Ids)]
      /\ \A s \in Sessions : latch'[s] = latch[s] \/ (latch'[s] = i /\ SessionOf[i] = s)
  BY <1>2, LatchKnown DEF LatchTypes
<1>4. pc'[c] = "idle"
  BY <1>2, LatchKnown DEF Went
<1>5. Clears(c)'
  BY <1>4 DEF Clears, Acking
<1> QED BY <1>1, <1>2, <1>3, <1>5, LatchKnown, LatchStep

\* An item handed out is DELIVERING, and those passed over expired.
LEMMA ExpireUnsettles ==
  ASSUME NEW s, NEW k
  PROVE  DOMAIN ExpireTo(s, k) = Ids /\ \A j \in Ids : ExpireTo(s, k)[j] \in Settled => st[j] \in Settled
BY DEF ExpireTo, Settled

LEMMA NextPendingLatches ==
  ASSUME NEW c, Callers = {c}, LatchInv, NEW s \in Sessions, NextPending(c, s)
  PROVE  LatchInv'
<1>1. PICK k \in Live(s) :
        /\ st' = [ExpireTo(s, k) EXCEPT ![order[s][k]] = "DELIVERING"]
        /\ order' = [order EXCEPT ![s] = SubSeq(order[s], 1, k - 1) \o SubSeq(order[s], k + 1, Len(order[s]))]
        /\ Go(c, "check", [NoCall EXCEPT !.item = order[s][k]])
  BY DEF NextPending
<1>2. order[s] \in Seq(Ids) /\ k \in 1..Len(order[s])
  BY LatchKnown DEF LatchTypes, Live
<1>3. PICK i \in Ids : i = order[s][k]
  BY <1>2, ElementOfSeq
<1>4. PICK l : l = [NoCall EXCEPT !.item = i]
  OBVIOUS
<1>5. pc[c] = "idle" /\ latch' = latch /\ Went(c, "check", l) /\ l.item = i /\ DOMAIN l = DOMAIN NoCall
  BY <1>1, <1>3, <1>4, GoWent DEF NextPending, NoCall
<1>6. order' \in [Sessions -> Seq(Ids)]
  <2>1. SubSeq(order[s], 1, k - 1) \in Seq(Ids) /\ SubSeq(order[s], k + 1, Len(order[s])) \in Seq(Ids)
    BY <1>2
  <2>2. SubSeq(order[s], 1, k - 1) \o SubSeq(order[s], k + 1, Len(order[s])) \in Seq(Ids)
    BY <2>1
  <2> QED BY <1>1, <2>2, LatchKnown DEF LatchTypes
<1>7. DOMAIN st' = Ids /\ \A j \in Ids : st'[j] \in Settled => st[j] \in Settled
  BY <1>1, <1>3, ExpireUnsettles DEF Settled
<1>8. pc'[c] = "check" /\ DOMAIN latch' = Sessions
  BY <1>5, LatchKnown DEF Went, LatchTypes
<1>9. Clears(c)'
  BY <1>8 DEF Clears, Acking
<1> QED BY <1>5, <1>6, <1>7, <1>8, <1>9, LatchStep

LEMMA NothingPendingLatches ==
  ASSUME NEW c, Callers = {c}, LatchInv, NEW s \in Sessions, NothingPending(c, s)
  PROVE  LatchInv'
<1>1. /\ pc[c] = "idle" /\ st' = ExpireTo(s, Len(order[s]) + 1) /\ UNCHANGED <<order, latch, pc, loc>>
  BY DEF NothingPending
<1>2. DOMAIN st' = Ids /\ \A j \in Ids : st'[j] \in Settled => st[j] \in Settled
  BY <1>1, ExpireUnsettles
<1>3. \A d \in Callers : d = c
  OBVIOUS
<1> QED BY <1>1, <1>2, <1>3, LatchKnown DEF LatchInv, LatchTypes, Clears, Acking

LEMMA ReadForAckLatches ==
  ASSUME NEW c, Callers = {c}, HostAcks = FALSE, LatchInv, NEW i \in Ids, NEW to \in AckStates,
         NEW quiet \in BOOLEAN, ReadForAck(c, i, to, quiet)
  PROVE  LatchInv'
<1>1. PICK l, at : /\ l = [NoCall EXCEPT !.item = i, !.to = to, !.quiet = quiet,
                                        !.host = IF quiet \/ i \in pinned THEN "host" ELSE Unset]
                   /\ at = IF conf.durable THEN "ackrecord" ELSE "ackupdate"
  OBVIOUS
<1>2. /\ pc[c] = "idle" /\ st[i] \notin Settled /\ to \notin Settled
      /\ st' = st /\ order' = order /\ latch' = latch /\ Went(c, at, l)
      /\ at \in Acking /\ l.item = i /\ l.to = to /\ DOMAIN l = DOMAIN NoCall
  BY <1>1, GoWent DEF ReadForAck, queue, Awaiting, Settled, OrchestratorAcks, Acking, NoCall
<1>3. pc'[c] = at /\ loc'[c] = l
  BY <1>2, LatchKnown DEF Went
<1>4. Clears(c)'
  BY <1>2, <1>3 DEF Clears, Acking
<1> QED BY <1>2, <1>4, LatchKnown, LatchStep DEF LatchTypes

\* The steps of a call under way.
LEMMA CheckLatches ==
  ASSUME NEW c, Callers = {c}, LatchInv, CheckSuppressed(c) \/ CheckFresh(c)
  PROVE  LatchInv'
<1>1. PICK at \in {"suppress", "send", "escalate"} : Step(c, at)
  BY DEF CheckSuppressed, CheckFresh
<1>2. pc[c] = "check" /\ st' = st /\ UNCHANGED <<order, latch>> /\ Went(c, at, loc[c])
  BY <1>1, StepWent DEF CheckSuppressed, CheckFresh, queue
<1>3. Clears(c)'
  BY <1>2 DEF Clears, Acking, Went
<1> QED BY <1>2, <1>3, LatchKnown, LatchCarried

LEMMA SuppressLatches ==
  ASSUME NEW c, Callers = {c}, LatchInv, Suppress(c) \/ AuditSuppress(c)
  PROVE  LatchInv'
<1>1. CASE Suppress(c)
  <2>1. /\ pc[c] = "suppress" /\ UNCHANGED <<order, latch>> /\ Went(c, "audit", loc[c])
        /\ st' = [st EXCEPT ![loc[c].item] = "SUPPRESSED"]
    BY <1>1, StepWent DEF Suppress, UpdateState
  <2>2. Clears(c)'
    BY <2>1 DEF Clears, Acking, Went
  <2> QED BY <2>1, <2>2, LatchKnown, LatchCarried
<1>2. CASE AuditSuppress(c)
  <2>1. PICK l : l = [loc[c] EXCEPT !.clear = TRUE]
    OBVIOUS
  <2>2. /\ pc[c] = "audit" /\ st' = st /\ UNCHANGED <<order, latch>> /\ Went(c, "finish", l)
        /\ l.item = loc[c].item /\ l.clear /\ DOMAIN l = DOMAIN NoCall
    BY <1>2, <2>1, GoWent, LatchKnown DEF AuditSuppress, queue, NoCall
  <2>3. pc'[c] = "finish" /\ loc'[c] = l
    BY <2>2, LatchKnown DEF Went
  <2>4. Clears(c)'
    BY <2>2, <2>3 DEF Clears, Acking
  <2> QED BY <2>2, <2>4, LatchCarried
<1> QED BY <1>1, <1>2

LEMMA EscalateLatches ==
  ASSUME NEW c, Callers = {c}, LatchInv, Escalate(c)
  PROVE  LatchInv'
<1>1. PICK alerted \in BOOLEAN : Go(c, "finish", [loc[c] EXCEPT !.clear = alerted])
  BY DEF Escalate
<1>2. PICK l : l = [loc[c] EXCEPT !.clear = alerted]
  OBVIOUS
<1>3. /\ pc[c] = "escalate" /\ UNCHANGED <<order, latch>> /\ Went(c, "finish", l)
      /\ st' = [st EXCEPT ![loc[c].item] = "FAILED"]
      /\ l.item = loc[c].item /\ DOMAIN l = DOMAIN NoCall
  BY <1>1, <1>2, GoWent, LatchKnown DEF Escalate, UpdateState, NoCall
<1>4. pc'[c] = "finish" /\ loc'[c] = l /\ st'[l.item] = "FAILED"
  BY <1>3, LatchKnown DEF Went
<1>5. Clears(c)'
  BY <1>4 DEF Clears, Acking, Settled
<1> QED BY <1>3, <1>5, LatchCarried

LEMMA SendLatches ==
  ASSUME NEW c, Callers = {c}, LatchInv, Send(c)
  PROVE  LatchInv'
<1>1. PICK r \in Results : Go(c, "update", [loc[c] EXCEPT !.res = r, !.to = mapResultToState(r)])
  BY DEF Send
<1>2. PICK l : l = [loc[c] EXCEPT !.res = r, !.to = mapResultToState(r)]
  OBVIOUS
<1>3. /\ pc[c] = "send" /\ st' = st /\ UNCHANGED <<order, latch>> /\ Went(c, "update", l)
      /\ l.item = loc[c].item /\ DOMAIN l = DOMAIN NoCall
  BY <1>1, <1>2, GoWent, LatchKnown DEF Send, queue, NoCall
<1>4. pc'[c] = "update"
  BY <1>3, LatchKnown DEF Went
<1>5. Clears(c)'
  BY <1>4 DEF Clears, Acking
<1> QED BY <1>3, <1>5, LatchCarried

LEMMA SettledSettles == \A to \in Settled : \A failed : Settles(to, failed)
BY DEF Settled, Settles

LEMMA RecordStateLatches ==
  ASSUME NEW c, Callers = {c}, LatchInv, RecordState(c)
  PROVE  LatchInv'
<1>1. PICK at, l : /\ IF conf.durable THEN at = "record" /\ l = loc[c]
                      ELSE at = "finish" /\ l = [loc[c] EXCEPT !.clear = Settles(loc[c].to, loc[c].res.err)]
  OBVIOUS
<1>2. /\ pc[c] = "update" /\ UNCHANGED <<order, latch>> /\ Went(c, at, l)
      /\ st' = [st EXCEPT ![loc[c].item] = loc[c].to]
      /\ l.item = loc[c].item /\ l.to = loc[c].to /\ DOMAIN l = DOMAIN NoCall
  <2>1. pc[c] = "update" /\ UNCHANGED <<order, latch>> /\ st' = [st EXCEPT ![loc[c].item] = loc[c].to]
    BY DEF RecordState, UpdateState
  <2>2. Went(c, at, l)
    BY <1>1, GoWent, StepWent DEF RecordState
  <2>3. l.item = loc[c].item /\ l.to = loc[c].to /\ DOMAIN l = DOMAIN NoCall
    BY <1>1, LatchKnown DEF NoCall
  <2> QED BY <2>1, <2>2, <2>3
<1>3. pc'[c] = at /\ loc'[c] = l /\ st'[l.item] = l.to
  BY <1>2, LatchKnown DEF Went
<1>4. at = "record" \/ (at = "finish" /\ (l.to \in Settled => l.clear))
  BY <1>1, LatchKnown, SettledSettles DEF NoCall
<1>5. Clears(c)'
  BY <1>3, <1>4 DEF Clears, Acking
<1> QED BY <1>2, <1>4, <1>5, LatchCarried

LEMMA RecordResultLatches ==
  ASSUME NEW c, Callers = {c}, LatchInv, RecordResult(c)
  PROVE  LatchInv'
<1>1. /\ pc[c] = "record" /\ st' = st /\ UNCHANGED <<order, latch>>
      /\ st[loc[c].item] = loc[c].to /\ c \in Callers
  BY LatchKnown DEF RecordResult, queue, Clears
<1>2. PICK at, l : Go(c, at, l) /\ \/ at = "finish" /\ l = [loc[c] EXCEPT !.clear = Settles(loc[c].to, loc[c].res.err)]
                                   \/ at = "ambiguous" /\ l = [loc[c] EXCEPT !.to = "AMBIGUOUS"]
                                   \/ at = "notsent" /\ l = [loc[c] EXCEPT !.clear = Settles(loc[c].to, TRUE)]
  BY DEF RecordResult
<1>3. Went(c, at, l) /\ l.item = loc[c].item /\ DOMAIN l = DOMAIN NoCall /\ at # "idle"
  BY <1>2, GoWent, LatchKnown DEF NoCall
<1>4. at = "ambiguous" \/ (at \in {"finish", "notsent"} /\ l.to = loc[c].to /\ (loc[c].to \in Settled => l.clear))
  BY <1>2, LatchKnown, SettledSettles DEF NoCall
<1>5. Clears(c)'
  BY <1>1, <1>3, <1>4 DEF Clears, Acking, Went
<1> QED BY <1>1, <1>3, <1>5, LatchCarried

LEMMA RecordNotSentLatches ==
  ASSUME NEW c, Callers = {c}, LatchInv, RecordNotSent(c)
  PROVE  LatchInv'
<1>1. /\ pc[c] = "notsent" /\ UNCHANGED <<order, latch>> /\ Went(c, "finish", loc[c])
      /\ st' = [st EXCEPT ![loc[c].item] = loc[c].to] /\ (loc[c].to \in Settled => loc[c].clear)
  BY StepWent, LatchKnown DEF RecordNotSent, UpdateState, Clears
<1>2. st'[loc[c].item] = loc[c].to
  BY <1>1, LatchKnown
<1>3. Clears(c)'
  BY <1>1, <1>2 DEF Clears, Acking, Went
<1> QED BY <1>1, <1>3, LatchKnown, LatchCarried

\* From the mark on, the latch is to be cleared.
LEMMA AmbiguousLatches ==
  ASSUME NEW c, Callers = {c}, LatchInv, MarkAmbiguous(c)
  PROVE  LatchInv'
<1>1. PICK l : l = [loc[c] EXCEPT !.clear = TRUE]
  OBVIOUS
<1>2. /\ pc[c] = "ambiguous" /\ UNCHANGED <<order, latch>> /\ Went(c, "rerecord", l)
      /\ st' = [st EXCEPT ![loc[c].item] = "AMBIGUOUS"]
  BY <1>1, GoWent DEF MarkAmbiguous, UpdateState
<1>3. l.item = loc[c].item /\ l.clear /\ DOMAIN l = DOMAIN NoCall
  BY <1>1, LatchKnown DEF NoCall
<1>4. Clears(c)'
  BY <1>2, <1>3 DEF Clears, Acking, Went
<1> QED BY <1>2, <1>3, <1>4, LatchCarried

LEMMA MarkLatches ==
  ASSUME NEW c, Callers = {c}, LatchInv, RecordAmbiguous(c) \/ MarkWrite(c) \/ MarkRename(c)
  PROVE  LatchInv'
<1>1. PICK at \in {"finish", "mark", "rename"} : Step(c, at)
  BY DEF RecordAmbiguous, MarkWrite, MarkRename
<1>2. /\ pc[c] \in {"rerecord", "mark", "rename"} /\ st' = st /\ UNCHANGED <<order, latch>>
      /\ Went(c, at, loc[c])
  BY <1>1, StepWent DEF RecordAmbiguous, MarkWrite, MarkRename, queue
<1>3. loc[c].clear
  BY <1>2, LatchKnown DEF Clears
<1>4. Clears(c)'
  BY <1>2, <1>3 DEF Clears, Acking, Went
<1> QED BY <1>2, <1>4, LatchKnown, LatchCarried

\* The ends of a call.
LEMMA FinishLatches ==
  ASSUME NEW c, Callers = {c}, LatchInv, Finish(c)
  PROVE  LatchInv'
<1>1. /\ pc[c] = "finish" /\ Return(c) /\ st' = st /\ order' = order
      /\ loc[c].item \in Ids /\ LatchTypes
      /\ st[loc[c].item] \in Settled => loc[c].clear
  BY LatchKnown DEF Finish, queue, Clears
<1>2. CASE loc[c].clear
  <2>1. clearLatch(loc[c].item)
    BY <1>2 DEF Finish
  <2> QED BY <1>1, <2>1, LatchCleared, LatchLeft
<1>3. CASE ~loc[c].clear
  <2>1. latch' = latch
    BY <1>3 DEF Finish
  <2> QED BY <1>1, <1>3, <2>1, LatchLeft DEF LatchTypes
<1> QED BY <1>2, <1>3

LEMMA RecordAckLatches ==
  ASSUME NEW c, Callers = {c}, LatchInv, RecordAck(c)
  PROVE  LatchInv'
<1>1. /\ pc[c] = "ackrecord" /\ st' = st /\ UNCHANGED <<order, latch>>
      /\ st[loc[c].item] \notin Settled /\ loc[c].to \notin Settled /\ LatchTypes
  BY LatchKnown DEF RecordAck, queue, Clears, Acking
<1>2. CASE Return(c)
  BY <1>1, <1>2, LatchLeft DEF LatchTypes
<1>3. CASE Step(c, "ackupdate")
  <2>1. Went(c, "ackupdate", loc[c])
    BY <1>3, StepWent
  <2>2. Clears(c)'
    BY <1>1, <2>1 DEF Clears, Went
  <2> QED BY <1>1, <2>1, <2>2, LatchKnown, LatchCarried
<1> QED BY <1>2, <1>3 DEF RecordAck

LEMMA UpdateAckLatches ==
  ASSUME NEW c, Callers = {c}, LatchInv, UpdateAck(c)
  PROVE  LatchInv'
<1>1. /\ pc[c] = "ackupdate" /\ UNCHANGED <<order, latch>> /\ st' = [st EXCEPT ![loc[c].item] = loc[c].to]
      /\ loc[c].to \notin Settled /\ LatchTypes
  BY LatchKnown DEF UpdateAck, UpdateState, Clears, Acking
<1>2. st'[loc[c].item] = loc[c].to
  BY <1>1, LatchKnown
<1>3. CASE Return(c)
  BY <1>1, <1>2, <1>3, LatchLeft DEF LatchTypes
<1>4. CASE Step(c, "acklatch")
  <2>1. Went(c, "acklatch", loc[c])
    BY <1>4, StepWent
  <2>2. Clears(c)'
    BY <1>1, <1>2, <2>1 DEF Clears, Went
  <2> QED BY <1>1, <2>1, <2>2, LatchKnown, LatchCarried
<1> QED BY <1>3, <1>4 DEF UpdateAck

LEMMA ReleaseAckLatches ==
  ASSUME NEW c, Callers = {c}, LatchInv, ReleaseAck(c)
  PROVE  LatchInv'
<1>1. /\ pc[c] = "acklatch" /\ Return(c) /\ st' = st /\ order' = order
      /\ loc[c].item \in Ids /\ LatchTypes /\ st[loc[c].item] \notin Settled
  BY LatchKnown DEF ReleaseAck, queue, Clears, Acking
<1>2. DOMAIN latch' = Sessions /\ \A s \in Sessions : latch'[s] \in {latch[s], None}
  <2>1. CASE clearLatch(loc[c].item)
    BY <1>1, <2>1, LatchCleared
  <2>2. CASE latch' = latch
    BY <1>1, <2>2 DEF LatchTypes
  <2> QED BY <2>1, <2>2 DEF ReleaseAck
<1> QED BY <1>1, <1>2, LatchLeft

\* A process that has just started has nothing in hand and nothing latched.
Fresh == /\ st = [i \in Ids |-> None] /\ order = [s \in Sessions |-> <<>>]
         /\ latch = [s \in Sessions |-> None]
         /\ pc = [c \in Callers |-> "idle"] /\ loc = [c \in Callers |-> NoCall]

LEMMA FreshLatches == Fresh => LatchInv
<1> SUFFICES ASSUME Fresh PROVE LatchInv
  OBVIOUS
<1>1. <<>> \in Seq(Ids)
  OBVIOUS
<1>2. LatchTypes
  BY <1>1 DEF Fresh, LatchTypes
<1> QED BY <1>2 DEF Fresh, LatchInv, Clears, Acking

LEMMA StutterLatches ==
  ASSUME LatchInv, UNCHANGED <<st, order, latch, pc, loc>>
  PROVE  LatchInv'
BY DEF LatchInv, LatchTypes, Clears

LEMMA NextLatches ==
  ASSUME NEW c, Callers = {c}, HostAcks = FALSE, LatchInv, [Next]_vars
  PROVE  LatchInv'
<1>1. CASE Begin(c)
  BY <1>1, EnqueueLatches, NextPendingLatches, NothingPendingLatches, ReadForAckLatches DEF Begin
<1>2. CASE Continue(c)
  BY <1>2, SetLatchLatches, CheckLatches, SuppressLatches, EscalateLatches, SendLatches, RecordStateLatches,
     RecordResultLatches, RecordNotSentLatches, AmbiguousLatches, MarkLatches, FinishLatches, RecordAckLatches,
     UpdateAckLatches, ReleaseAckLatches DEF Continue
<1>3. ASSUME NEW i \in Ids, Lapse(i) PROVE LatchInv'
  BY <1>3, StutterLatches DEF Lapse
<1>4. CASE Crash
  <2>1. Fresh'
    BY <1>4 DEF Crash, Fresh
  <2>2. Fresh' => LatchInv'
    BY FreshLatches, PTL
  <2> QED BY <2>1, <2>2
<1>5. CASE Open
  BY <1>5, StutterLatches DEF Open, queue
<1>6. CASE UNCHANGED vars
  BY <1>6, StutterLatches DEF vars, queue
<1> QED BY <1>1, <1>2, <1>3, <1>4, <1>5, <1>6 DEF Next

\* While one goroutine uses the orchestrator and hosts acknowledge through it, a
\* latch never outlives a delivery that settled, whatever actuator, ledger,
\* configuration and crashes (DeliverAtSafeBoundary, HandleEvent, Acknowledge).
THEOREM LatchIsReleased ==
  ASSUME NEW c, Callers = {c}, HostAcks = FALSE
  PROVE  Spec => []LatchReleased
<1>1. Init => LatchInv
  BY FreshLatches DEF Init, Fresh
<1>2. LatchInv /\ [Next]_vars => LatchInv'
  BY NextLatches
<1>3. LatchInv => LatchReleased
  <2> SUFFICES ASSUME LatchInv, NEW s \in Sessions, Deferred(s), ~Busy(latch[s])
               PROVE  st[latch[s]] \notin {"ACKED", "SUPPRESSED", "AMBIGUOUS"}
    BY DEF LatchReleased
  <2> QED BY DEF LatchInv, Deferred, Busy, Settled
<1> QED BY <1>1, <1>2, <1>3, PTL DEF Spec
=============================================================================
