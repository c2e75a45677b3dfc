-------------------------- MODULE SupervisionProofs --------------------------
(***************************************************************************)
(* Proofs about the supervision side: the gate (HookGate), the appends and *)
(* Close of the event store (EventStore), the Codex tail (CodexTail), the  *)
(* pipeline from the rollout to the signal (Supervision), and what the     *)
(* detectors signal (SignalPolicy).                                        *)
(***************************************************************************)
EXTENDS Supervision, FiniteSetTheorems, SequenceTheorems, WellFoundedInduction, TLAPS

-----------------------------------------------------------------------------
(* The gate *)

\* EvaluateBeforeTool's copy of a policy keeps every field but the reasons.
LEMMA BeforeToolKeeps ==
  ASSUME NEW pol, "pending" \in DOMAIN pol, NEW req, NEW contract, NEW ledger, NEW churn
  PROVE  BeforeToolPolicy(pol, req, contract, ledger, churn).pending = pol.pending
BY DEF BeforeToolPolicy

\* What the deadline decides.
LEMMA TimeoutDecides ==
  ASSUME NEW pol
  PROVE  IF pol.failOpen THEN TimeoutDecision(pol).reason = "timeout_fail_open" ELSE TimeoutDecision(pol).action = "deny"
BY DEF TimeoutDecision, Decision

\* A deny rule covers the request.
Covered(req, pol) == \/ pol.hard # "" \/ pol.budget \/ req.tool \in pol.denied \ {""}
                     \/ pol.scope # {} /\ req.path \intersect pol.scope = {}
                     \/ \E t \in DOMAIN pol.reasons \ {""} : t = req.tool /\ pol.reasons[t] # ""

\* The rules deny what a deny rule covers, and defer the rest while an advisory
\* is pending.
LEMMA RulesDecide ==
  ASSUME NEW req, NEW pol
  PROVE  /\ Covered(req, pol) => EvaluateHookRules(req, pol).action = "deny"
         /\ ~Covered(req, pol) => EvaluateHookRules(req, pol).action = IF pol.pending # "" THEN "defer" ELSE "allow"
<1> DEFINE ruled == \/ req.tool # "" /\ req.tool \in DOMAIN pol.reasons /\ pol.reasons[req.tool] # ""
                    \/ req.tool # "" /\ req.tool \in pol.denied
                    \/ pol.scope # {} /\ ~PathInScope(req.path, pol.scope)
<1>1. Covered(req, pol) <=> pol.hard # "" \/ pol.budget \/ ruled
  BY DEF Covered, PathInScope
<1>2. CASE pol.hard # ""
  BY <1>1, <1>2 DEF EvaluateHookRules, Decision
<1>3. CASE pol.hard = "" /\ pol.budget
  BY <1>1, <1>3 DEF EvaluateHookRules, Decision
<1>4. CASE pol.hard = "" /\ ~pol.budget
  BY <1>1, <1>4 DEF EvaluateHookRules, Decision
<1> QED BY <1>2, <1>3, <1>4

\* A call evaluated under a latch carries the latched advisory.
LEMMA PreToolPending ==
  ASSUME GateInv, NEW r \in ToolRequests, NEW x \in Policies, NEW dead \in BOOLEAN,
         PreTool(r, x.base, x.before, dead)
  PROVE  latch # "" => gate'.pol.pending # ""
<1>1. PICK snap : snap = [x.base EXCEPT !.pending = IF latch # "" THEN latch ELSE @]
  OBVIOUS
<1>2. PICK before : before = x.before
  OBVIOUS
<1>3. gate'.pol = IF before.use THEN BeforeToolPolicy(snap, r, before.contract, before.ledger, before.churn) ELSE snap
  BY <1>1, <1>2 DEF PreTool, NoCall
<1>4. "pending" \in DOMAIN snap /\ (latch # "" => snap.pending = latch)
  BY <1>1, GateAssumption
<1>5. ASSUME NEW req, NEW contract, NEW ledger, NEW churn
      PROVE  BeforeToolPolicy(snap, req, contract, ledger, churn).pending = snap.pending
  <2>1. "pending" \in DOMAIN snap
    BY <1>4
  <2> QED BY ONLY <2>1, BeforeToolKeeps
<1>6. BeforeToolPolicy(snap, r, before.contract, before.ledger, before.churn).pending = snap.pending
  BY <1>5
<1>7. gate'.pol.pending = snap.pending
  BY <1>3, <1>6
<1> QED BY <1>4, <1>7

\* Every step of the gate keeps its invariant.
LEMMA GateStep == GateInv /\ [GNext]_gvars => GateInv'
<1> SUFFICES ASSUME GateInv, [GNext]_gvars PROVE GateInv'
  OBVIOUS
<1> USE DEF GateInv, Decided
<1>1. CASE SetLatch
  BY <1>1 DEF SetLatch
<1>2. CASE ClearLatch
  BY <1>2 DEF ClearLatch
<1>3. CASE Expire
  BY <1>3 DEF Expire, NoCall
<1>4. CASE Evaluate
  BY <1>4 DEF Evaluate, NoCall
<1>5. CASE GateReturn
  BY <1>5 DEF GateReturn, NoCall
<1>6. CASE \E r \in ToolRequests, x \in Policies, dead \in BOOLEAN : PreTool(r, x.base, x.before, dead)
  <2> PICK r \in ToolRequests, x \in Policies, dead \in BOOLEAN : PreTool(r, x.base, x.before, dead)
    BY <1>6
  <2>1. DOMAIN gate' = DOMAIN NoCall /\ gate'.dead = dead /\ gate'.pc = (IF dead THEN "returned" ELSE "eval")
    BY DEF PreTool, NoCall
  <2>2. gate'.pc = "eval" => gate'.result = None
    BY DEF PreTool, NoCall
  <2>3. gate'.pc = "returned" => gate'.dec = TimeoutDecision(gate'.pol)
    BY DEF PreTool, NoCall
  <2>4. latched' = (latch # "")
    BY DEF PreTool
  <2>5. latch # "" => gate'.pol.pending # ""
    BY PreToolPending
  <2> QED BY <2>1, <2>2, <2>3, <2>4, <2>5
<1>7. CASE UNCHANGED gvars
  BY <1>7 DEF gvars
<1> QED BY <1>1, <1>2, <1>3, <1>4, <1>5, <1>6, <1>7 DEF GNext

\* What the rules and the timeout decide gives the gate's promise.
LEMMA GateInvHolds == GateInv => GateHolds
<1> SUFFICES ASSUME GateInv, gate.pc = "returned"
             PROVE  \/ gate.dec.reason = "timeout_fail_open" /\ gate.pol.failOpen /\ gate.dead
                    \/ /\ Covered(gate.req, gate.pol) => gate.dec.action = "deny"
                       /\ latched => gate.dec.action # "allow"
                       /\ ~Covered(gate.req, gate.pol) /\ ~gate.dead => gate.dec.action # "deny"
  BY DEF GateHolds, Covered
<1>1. CASE gate.dead /\ gate.dec = TimeoutDecision(gate.pol)
  BY <1>1, TimeoutDecides
<1>2. CASE gate.dec = EvaluateHookRules(gate.req, gate.pol)
  <2>1. latched => gate.pol.pending # ""
    BY DEF GateInv
  <2>2. PICK req, pol : req = gate.req /\ pol = gate.pol
    OBVIOUS
  <2>3. /\ Covered(req, pol) => EvaluateHookRules(req, pol).action = "deny"
        /\ ~Covered(req, pol) => EvaluateHookRules(req, pol).action = IF pol.pending # "" THEN "defer" ELSE "allow"
    BY ONLY RulesDecide
  <2>4. CASE Covered(req, pol)
    BY <1>2, <2>2, <2>3, <2>4
  <2>5. CASE ~Covered(req, pol)
    BY <1>2, <2>1, <2>2, <2>3, <2>5
  <2> QED BY <2>4, <2>5
<1> QED BY <1>1, <1>2 DEF GateInv, Decided

\* For every set of policies and requests, however the latch, the deadline and
\* the evaluation goroutine interleave: a call a deny rule covers is denied, one
\* under a pending advisory is not let through, and only a fail-open policy whose
\* evaluation ran out of time makes an exception (adapter/hook_gate.go EvaluateHook).
THEOREM GateIsSafe == GateSpec => []GateHolds
<1>1. GInit => GateInv
  <2> SUFFICES ASSUME GInit PROVE GateInv
    OBVIOUS
  <2>1. gate = NoCall /\ gate.pc = "idle" /\ ~gate.dead /\ ~latched /\ latched = FALSE
    BY DEF GInit, NoCall
  <2>2. gate.dead = FALSE
    BY DEF GInit, NoCall
  <2> QED BY <2>1, <2>2 DEF GateInv
<1>2. GateInv /\ [GNext]_gvars => GateInv'
  BY GateStep
<1>3. GateInv => GateHolds
  BY GateInvHolds
<1> QED BY <1>1, <1>2, <1>3, PTL DEF GateSpec
-----------------------------------------------------------------------------
(* The store's Close *)

\* The operations are finite in number.
LEMMA NamesFinite == IsFiniteSet(Names)
BY StoreAssumption DEF Names

\* What a step does to one operation's label, the other fields aside.
Labelled(o, pc) ==
  /\ DOMAIN op' = DOMAIN op /\ DOMAIN op'[o] = DOMAIN op[o] /\ op'[o].pc = pc
  /\ \A p \in Names \ {o} : op'[p] = op[p]

LEMMA GoesLabels ==
  ASSUME StoreInv, NEW o \in Names, NEW pc, Goes(o, pc)
  PROVE  Labelled(o, pc)
BY DEF StoreInv, Goes, Labelled

LEMMA FinishLabels ==
  ASSUME StoreInv, NEW o \in Names, NEW res, Finish(o, res)
  PROVE  Labelled(o, "done")
BY DEF StoreInv, Finish, Labelled

LEMMA LeaveLabels ==
  ASSUME StoreInv, NEW o \in Names, NEW res, NEW got, Leave(o, res, got)
  PROVE  Labelled(o, "done") /\ inFlight' = inFlight - 1
BY DEF StoreInv, Leave, Labelled

\* Labels keep the shape of op.
LEMMA LabelledShape ==
  ASSUME StoreInv, NEW o \in Names, NEW pc, Labelled(o, pc)
  PROVE  DOMAIN op' = Names /\ \A p \in Names : {"pc", "next", "res", "got"} \subseteq DOMAIN op'[p]
BY DEF StoreInv, Labelled

InFlightLabels == {"recheck", "run", "tx"}

\* The three ways a label moves through inFlight's count.
LEMMA CountEnters ==
  ASSUME StoreInv, NEW o \in Names, NEW pc \in InFlightLabels, Labelled(o, pc), op[o].pc \notin InFlightLabels,
         inFlight' = inFlight + 1
  PROVE  inFlight' = Cardinality(Counted')
<1>1. Counted' = Counted \union {o} /\ o \notin Counted
  BY DEF Labelled, Counted, InFlightLabels
<1>2. IsFiniteSet(Counted)
  BY NamesFinite, FS_Subset DEF Counted
<1>3. Cardinality(Counted \union {o}) = Cardinality(Counted) + 1
  BY <1>1, <1>2, FS_AddElement
<1> QED BY <1>1, <1>3 DEF StoreInv

LEMMA CountLeaves ==
  ASSUME StoreInv, NEW o \in Names, Labelled(o, "done"), op[o].pc \in InFlightLabels,
         inFlight' = inFlight - 1
  PROVE  inFlight' = Cardinality(Counted')
<1>1. Counted' = Counted \ {o} /\ o \in Counted
  BY DEF Labelled, Counted, InFlightLabels
<1>2. IsFiniteSet(Counted)
  BY NamesFinite, FS_Subset DEF Counted
<1>3. Cardinality(Counted \ {o}) = Cardinality(Counted) - 1
  BY <1>1, <1>2, FS_RemoveElement
<1> QED BY <1>1, <1>3 DEF StoreInv

LEMMA CountStays ==
  ASSUME StoreInv, NEW o \in Names, NEW pc, Labelled(o, pc), op[o].pc \in InFlightLabels <=> pc \in InFlightLabels,
         inFlight' = inFlight
  PROVE  inFlight' = Cardinality(Counted')
<1>1. Counted' = Counted
  BY DEF Labelled, Counted, InFlightLabels
<1> QED BY <1>1 DEF StoreInv

\* While a running operation is counted, a pool closed before the deadline has
\* none; one starts to run only under a flag that is still clear.
LEMMA DrainedStays ==
  ASSUME StoreInv, NEW o \in Names, NEW pc, Labelled(o, pc), UNCHANGED <<db, late, closed>>,
         pc \in {"run", "tx"} => ~closed \/ op[o].pc \in {"run", "tx"}
  PROVE  CloseDrains'
BY DEF StoreInv, CloseDrains, Labelled

\* A step of one operation that moves its label and the count together.
LEMMA OperationStep ==
  ASSUME StoreInv, NEW o \in Names, NEW pc, Labelled(o, pc), UNCHANGED <<closed, db, closer, late>>,
         inFlight' = Cardinality(Counted'),
         pc \in {"run", "tx"} => ~closed \/ op[o].pc \in {"run", "tx"}
  PROVE  StoreInv'
<1>1. CloseDrains'
  BY DrainedStays
<1>2. DOMAIN op' = Names /\ \A p \in Names : {"pc", "next", "res", "got"} \subseteq DOMAIN op'[p]
  BY LabelledShape
<1> QED BY <1>1, <1>2 DEF StoreInv

LEMMA StoreStep == StoreInv /\ [SNext]_svars => StoreInv'
<1> SUFFICES ASSUME StoreInv, [SNext]_svars PROVE StoreInv'
  OBVIOUS
<1> USE DEF InFlightLabels
<1>1. ASSUME NEW o \in Names, EnterCheck(o) PROVE StoreInv'
  <2>1. PICK pc \in {"done", "entering"} : Labelled(o, pc)
    BY <1>1, GoesLabels, FinishLabels DEF EnterCheck
  <2>2. inFlight' = Cardinality(Counted')
    BY <1>1, <2>1, CountStays DEF EnterCheck
  <2> QED BY <1>1, <2>1, <2>2, OperationStep DEF EnterCheck
<1>2. ASSUME NEW o \in Names, EnterCount(o) PROVE StoreInv'
  <2>1. Labelled(o, "recheck")
    BY <1>2, GoesLabels DEF EnterCount
  <2>2. inFlight' = Cardinality(Counted')
    BY <1>2, <2>1, CountEnters DEF EnterCount
  <2> QED BY <1>2, <2>1, <2>2, OperationStep DEF EnterCount
<1>3. ASSUME NEW o \in Names, EnterRecheck(o) PROVE StoreInv'
  <2>1. CASE closed
    <3>1. Labelled(o, "done")
      BY <1>3, <2>1, FinishLabels DEF EnterRecheck
    <3>2. inFlight' = Cardinality(Counted')
      BY <1>3, <2>1, <3>1, CountLeaves DEF EnterRecheck
    <3> QED BY <1>3, <3>1, <3>2, OperationStep DEF EnterRecheck
  <2>2. CASE ~closed
    <3>1. Labelled(o, "run")
      BY <1>3, <2>2, GoesLabels DEF EnterRecheck
    <3>2. inFlight' = Cardinality(Counted')
      BY <1>3, <2>2, <3>1, CountStays DEF EnterRecheck
    <3> QED BY <1>3, <2>2, <3>1, <3>2, OperationStep DEF EnterRecheck
  <2> QED BY <2>1, <2>2
<1>4. ASSUME NEW o \in Names, op[o].pc \in {"run", "tx"}, NEW res, NEW got, Leave(o, res, got),
             UNCHANGED <<closed, db, closer, late>>
      PROVE  StoreInv'
  <2>1. Labelled(o, "done") /\ inFlight' = inFlight - 1
    BY <1>4, LeaveLabels
  <2>2. inFlight' = Cardinality(Counted')
    BY <1>4, <2>1, CountLeaves
  <2> QED BY <1>4, <2>1, <2>2, OperationStep
<1>5. ASSUME NEW o \in Names, Begin(o) PROVE StoreInv'
  <2>1. op[o].pc = "run" /\ UNCHANGED <<closed, db, closer, late>>
    BY <1>5 DEF Begin
  <2>2. (\E res, got : Leave(o, res, got)) \/ (Goes(o, "tx") /\ UNCHANGED inFlight)
    BY <1>5 DEF Begin
  <2>3. CASE \E res, got : Leave(o, res, got)
    BY <1>4, <2>1, <2>3
  <2>4. CASE Goes(o, "tx") /\ UNCHANGED inFlight
    <3>1. Labelled(o, "tx")
      BY <2>4, GoesLabels
    <3>2. inFlight' = Cardinality(Counted')
      BY <2>1, <2>4, <3>1, CountStays
    <3> QED BY <2>1, <3>1, <3>2, OperationStep
  <2> QED BY <2>2, <2>3, <2>4
<1>6. ASSUME NEW o \in Names, Commit(o) PROVE StoreInv'
  <2>1. op[o].pc = "tx" /\ UNCHANGED <<closed, db, closer, late>>
    BY <1>6 DEF Commit
  <2>2. \E res, got : Leave(o, res, got)
    BY <1>6 DEF Commit
  <2> QED BY <1>4, <2>1, <2>2
<1>7. ASSUME NEW o \in Names, ReadRows(o) PROVE StoreInv'
  <2>1. op[o].pc = "run" /\ UNCHANGED <<closed, db, closer, late>>
    BY <1>7 DEF ReadRows
  <2>2. \E res, got : Leave(o, res, got)
    BY <1>7 DEF ReadRows
  <2> QED BY <1>4, <2>1, <2>2
<1>8. ASSUME NEW o \in Names, Migrate(o) PROVE StoreInv'
  <2>1. PICK pc \in {"done", "migrate"} : Labelled(o, pc)
    BY <1>8 DEF Migrate, Labelled, StoreInv
  <2>2. inFlight' = Cardinality(Counted')
    BY <1>8, <2>1, CountStays DEF Migrate
  <2> QED BY <1>8, <2>1, <2>2, OperationStep DEF Migrate
<1>9. CASE CloseSwap
  BY <1>9 DEF CloseSwap, StoreInv, CloseDrains, Counted
<1>10. CASE DrainDeadline
  BY <1>10 DEF DrainDeadline, StoreInv, CloseDrains, Counted
<1>11. CASE CloseDB
  <2>1. inFlight = 0 /\ ~late' => Counted = {}
    BY NamesFinite, FS_Subset, FS_EmptySet DEF StoreInv, Counted
  <2>2. CloseDrains'
    BY <1>11, <2>1 DEF CloseDB, CloseDrains, Counted
  <2> QED BY <1>11, <2>2 DEF CloseDB, StoreInv, Counted
<1>12. CASE UNCHANGED svars
  BY <1>12 DEF svars, StoreInv, CloseDrains, Counted
<1> QED BY <1>1, <1>2, <1>3, <1>5, <1>6, <1>7, <1>8, <1>9, <1>10, <1>11, <1>12 DEF SNext

LEMMA StoreInit == SInit => StoreInv
<1> SUFFICES ASSUME SInit PROVE StoreInv
  OBVIOUS
<1>1. Counted = {}
  BY DEF SInit, Counted
<1>2. inFlight = Cardinality(Counted)
  BY <1>1, FS_EmptySet DEF SInit
<1>3. DOMAIN op = Names /\ \A o \in Names : {"pc", "next", "res", "got"} \subseteq DOMAIN op[o]
  BY DEF SInit
<1> QED BY <1>2, <1>3 DEF SInit, StoreInv, CloseDrains

\* For every set of requests, however they interleave with Close: unless its
\* deadline passed, no operation runs when the pool is closed and none starts
\* afterwards (state/store.go enter, leave and Close).
THEOREM CloseWaits == StoreSpec => []CloseDrains
<1>1. SInit => StoreInv
  BY StoreInit
<1>2. StoreInv /\ [SNext]_svars => StoreInv'
  BY StoreStep
<1>3. StoreInv => CloseDrains
  BY DEF StoreInv
<1> QED BY <1>1, <1>2, <1>3, PTL DEF StoreSpec
-----------------------------------------------------------------------------
(* The store's appends *)

Less == {ss \in Nat \X Nat : ss[1] < ss[2]}

\* A set of numbers has a least one, from the library's well-founded minimum.
LEMMA LeastOf ==
  ASSUME NEW T, T \subseteq Nat, T # {}
  PROVE  \E x \in T : \A y \in T : x <= y
<1>1. IsWellFoundedOn(Less, Nat)
  BY NatLessThanWellFounded DEF OpToRel, Less
<1>2. PICK x \in T : \A y \in T : <<y, x>> \notin Less
  BY <1>1, WFMin
<1>3. \A y \in T : ~(y < x)
  BY <1>2 DEF Less
<1> QED BY <1>3

\* A row that conflicts with none of a table is no twin of theirs.
LEMMA NoConflict ==
  ASSUME NEW tab, NEW e, Conflict(tab, e) = "none"
  PROVE  \A r \in tab : r.id # e.id /\ ~(r.session = e.session /\ r.seq = e.seq)
BY DEF Conflict

\* A transaction stores its whole batch, or nothing.
LEMMA InsertWhole ==
  ASSUME NEW tab, NoTwins(tab), NEW B, NEW es \in Seq(B)
  PROVE  \/ Insert(tab, es).err = "none" /\ Insert(tab, es).tab = tab \union ToSet(es) /\ NoTwins(tab \union ToSet(es))
         \/ Insert(tab, es).err \in {"uniq_session_seq", "primary_key"} /\ Insert(tab, es).tab = tab
<1> DEFINE With(k) == tab \union {es[j] : j \in 1..k}
           bad == {k \in 1..Len(es) : Conflict(With(k - 1), es[k]) # "none"}
           first == CHOOSE k \in bad : \A j \in bad : k <= j
<1>1. InsertAll(tab, es) = IF bad = {} THEN [tab |-> With(Len(es)), err |-> "none"]
                           ELSE [tab |-> With(first - 1), err |-> Conflict(With(first - 1), es[first])]
  BY Zenon DEF InsertAll
<1>2. bad \subseteq Nat /\ bad \subseteq 1..Len(es)
  OBVIOUS
<1>3. CASE bad = {}
  <2>1. With(Len(es)) = tab \union ToSet(es)
    BY DEF ToSet
  <2>2. \A k \in 1..Len(es) : Conflict(With(k - 1), es[k]) = "none"
    BY <1>3
  <2>3. \A k \in 1..Len(es) : \A r \in With(k - 1) : r.id # es[k].id /\ ~(r.session = es[k].session /\ r.seq = es[k].seq)
    BY <2>2, NoConflict
  <2>4. NoTwins(With(Len(es)))
    <3> SUFFICES ASSUME NEW a \in With(Len(es)), NEW b \in With(Len(es)), a # b
                 PROVE  a.id # b.id /\ ~(a.session = b.session /\ a.seq = b.seq)
      BY DEF NoTwins
    <3>1. CASE a \in tab /\ b \in tab
      BY <3>1 DEF NoTwins
    <3>2. ASSUME NEW c \in tab, NEW k \in 1..Len(es) PROVE c.id # es[k].id /\ ~(c.session = es[k].session /\ c.seq = es[k].seq)
      BY <2>3
    <3>3. ASSUME NEW i \in 1..Len(es), NEW k \in 1..Len(es), i < k
          PROVE  es[i].id # es[k].id /\ ~(es[i].session = es[k].session /\ es[i].seq = es[k].seq)
      <4>1. i \in 1..(k - 1)
        BY <3>3
      <4>2. es[i] \in With(k - 1)
        BY <4>1
      <4> HIDE DEF With
      <4> QED BY <2>3, <4>2
    <3>4. \A c \in With(Len(es)) : c \in tab \/ \E k \in 1..Len(es) : c = es[k]
      OBVIOUS
    <3> HIDE DEF With
    <3>5. CASE a \in tab /\ b \notin tab
      <4>1. PICK k \in 1..Len(es) : b = es[k]
        BY <3>4, <3>5
      <4> QED BY <3>2, <3>5, <4>1
    <3>6. CASE a \notin tab /\ b \in tab
      <4>1. PICK k \in 1..Len(es) : a = es[k]
        BY <3>4, <3>6
      <4> QED BY <3>2, <3>6, <4>1
    <3>7. CASE a \notin tab /\ b \notin tab
      <4>1. PICK i \in 1..Len(es), k \in 1..Len(es) : a = es[i] /\ b = es[k]
        BY <3>4, <3>7
      <4>2. i < k \/ k < i
        BY <4>1
      <4> QED BY <3>3, <4>1, <4>2
    <3> QED BY <3>1, <3>5, <3>6, <3>7
  <2> HIDE DEF With, bad
  <2> QED BY <1>1, <1>3, <2>1, <2>4 DEF Insert
<1>4. CASE bad # {}
  <2>1. first \in bad
    <3> HIDE DEF bad
    <3>1. \E k \in bad : \A j \in bad : k <= j
      BY <1>2, <1>4, LeastOf
    <3> QED BY <3>1
  <2>2. Conflict(With(first - 1), es[first]) # "none"
    <3> HIDE DEF first
    <3> QED BY <2>1
  <2>3. \A t, e : Conflict(t, e) \in {"uniq_session_seq", "primary_key", "none"}
    BY DEF Conflict
  <2> HIDE DEF With, bad, first
  <2>4. PICK c : c = Conflict(With(first - 1), es[first])
    OBVIOUS
  <2>5. InsertAll(tab, es).err = c /\ DOMAIN InsertAll(tab, es) = {"tab", "err"}
    BY <1>1, <1>4, <2>4
  <2>6. c \in {"uniq_session_seq", "primary_key"}
    BY <2>2, <2>3, <2>4
  <2> QED BY <2>5, <2>6 DEF Insert
<1> QED BY <1>3, <1>4

\* What an append returns: nil only when it committed.
LEMMA WriteErrors ==
  ASSUME NEW dead \in BOOLEAN, NEW shut \in BOOLEAN
  PROVE  /\ MapWriteErr("none", dead, shut) = "none"
         /\ \A err \in {"ctx", "database is closed", "busy", "interrupted", "tx done", "uniq_session_seq", "primary_key"} :
              MapWriteErr(err, dead, shut) # "none"
BY DEF MapWriteErr, MapSQLiteError, WrapDBErr, Domain, IsInterrupt

\* What a step does to one operation.
Moves(o, pc, res) ==
  /\ op'[o].pc = pc /\ op'[o].res = res /\ op'[o].next = op[o].next
  /\ \A p \in Names \ {o} : op'[p] = op[p]

LEMMA GoesMoves ==
  ASSUME StoreInv, NEW o \in Names, NEW pc, Goes(o, pc)
  PROVE  Moves(o, pc, op[o].res)
BY DEF StoreInv, Goes, Moves

LEMMA FinishMoves ==
  ASSUME StoreInv, NEW o \in Names, NEW res, Finish(o, res)
  PROVE  Moves(o, "done", res)
BY DEF StoreInv, Finish, Moves

LEMMA LeaveMoves ==
  ASSUME StoreInv, NEW o \in Names, NEW res, NEW got, Leave(o, res, got)
  PROVE  Moves(o, "done", res)
BY DEF StoreInv, Leave, Moves

\* A step that stores nothing, of an operation that had not returned.
LEMMA NothingStored ==
  ASSUME AppendInv, NEW o \in Names, NEW pc, NEW res, Moves(o, pc, res), UNCHANGED <<rows, applied>>,
         op[o].pc # "done", pc # "migrate",
         pc = "done" /\ res = "none" /\ IsWrite(o) => ToSet(Requests[o].events) = {}
  PROVE  AppendInv'
<1>1. \A p \in Names : Stored(p) => Stored(p)'
  BY DEF Stored, Moves, IsWrite
<1>2. \A p \in Names : Stored(p)' => Stored(p) \/ (p = o /\ pc = "done" /\ res = "none" /\ IsWrite(o))
  BY DEF Stored, Moves, IsWrite
<1>3. \A r \in rows' : \E p \in Names : Stored(p)' /\ r \in ToSet(Requests[p].events)
  BY <1>1 DEF AppendInv
<1>4. \A p \in Names : Stored(p)' => ToSet(Requests[p].events) \subseteq rows'
  BY <1>2 DEF AppendInv
<1>5. \A p \in Names : op'[p].pc = "migrate" => ~IsWrite(p) /\ op'[p].next \in 1..(Len(applied) + 1)
  BY DEF AppendInv, Moves
<1>6. NoTwins(rows) /\ applied \in Seq(Nat) /\ \A i \in 1..Len(applied) : applied[i] = i
  BY DEF AppendInv
<1> QED BY ONLY <1>3, <1>4, <1>5, <1>6, UNCHANGED <<rows, applied>> DEF AppendInv, NoTwins

LEMMA BeginStores ==
  ASSUME StoreInv, AppendInv, closed \in BOOLEAN, NEW o \in Names, Begin(o)
  PROVE  AppendInv'
<1>1. op[o].pc = "run" /\ IsWrite(o) /\ UNCHANGED <<rows, applied>>
  BY DEF Begin
<1>2. PICK es : es = Requests[o].events
  OBVIOUS
<1>3. \/ es = <<>> /\ Leave(o, "none", <<>>)
      \/ \E res : res # "none" /\ Leave(o, res, <<>>)
      \/ Goes(o, "tx")
  BY <1>2, WriteErrors DEF Begin
<1>4. CASE es = <<>> /\ Leave(o, "none", <<>>)
  <2>1. ToSet(Requests[o].events) = {}
    BY <1>2, <1>4 DEF ToSet
  <2>2. Moves(o, "done", "none")
    BY <1>4, LeaveMoves
  <2> QED BY <1>1, <2>1, <2>2, NothingStored
<1>5. ASSUME NEW res, res # "none", Leave(o, res, <<>>) PROVE AppendInv'
  <2>1. Moves(o, "done", res)
    BY <1>5, LeaveMoves
  <2> QED BY <1>1, <1>5, <2>1, NothingStored
<1>6. CASE Goes(o, "tx")
  <2>1. Moves(o, "tx", op[o].res)
    BY <1>6, GoesMoves
  <2> QED BY <1>1, <2>1, NothingStored
<1> QED BY <1>3, <1>4, <1>5, <1>6

LEMMA CommitStores ==
  ASSUME StoreInv, AppendInv, closed \in BOOLEAN, NEW o \in Names, Commit(o), IsWrite(o)
  PROVE  AppendInv'
<1>1. op[o].pc = "tx" /\ applied' = applied
  BY DEF Commit
<1>2. PICK es : es = Requests[o].events
  OBVIOUS
<1>3. es \in Seq(ToSet(es))
  BY <1>2, StoreAssumption DEF IsWrite, Names
<1>4. PICK w : w = Insert(rows, es)
  OBVIOUS
<1>5. \/ rows' = w.tab /\ Leave(o, MapWriteErr(w.err, FALSE, closed), <<>>)
      \/ rows' = rows /\ \E res : res # "none" /\ Leave(o, res, <<>>)
  <2>1. \A dead \in BOOLEAN : MapWriteErr("interrupted", dead, closed) # "none" /\ MapWriteErr("tx done", dead, closed) # "none"
    BY WriteErrors
  <2> QED BY <1>2, <1>4, <2>1 DEF Commit
<1>6. ASSUME rows' = rows, NEW res, res # "none", Leave(o, res, <<>>) PROVE AppendInv'
  <2>1. Moves(o, "done", res)
    BY <1>6, LeaveMoves
  <2> QED BY <1>1, <1>6, <2>1, NothingStored
<1>7. NoTwins(rows)
  BY DEF AppendInv
<1>8. CASE rows' = w.tab /\ Leave(o, MapWriteErr(w.err, FALSE, closed), <<>>) /\ w.err # "none"
  <2>1. w.tab = rows /\ w.err \in {"uniq_session_seq", "primary_key"}
    BY <1>3, <1>4, <1>7, <1>8, InsertWhole
  <2>2. MapWriteErr(w.err, FALSE, closed) # "none"
    BY <2>1, WriteErrors
  <2> QED BY <1>6, <1>8, <2>1, <2>2
<1>9. CASE rows' = w.tab /\ Leave(o, MapWriteErr(w.err, FALSE, closed), <<>>) /\ w.err = "none"
  <2>1. w.tab = rows \union ToSet(es) /\ NoTwins(rows \union ToSet(es))
    BY <1>3, <1>4, <1>7, <1>9, InsertWhole
  <2>2. Leave(o, "none", <<>>)
    BY <1>9, WriteErrors
  <2>3. Moves(o, "done", "none")
    BY <2>2, LeaveMoves
  <2>4. Stored(o)' /\ \A p \in Names \ {o} : Stored(p)' <=> Stored(p)
    BY <2>3 DEF Stored, Moves, IsWrite
  <2>5. ~Stored(o)
    BY <1>1 DEF Stored
  <2>6. rows' = rows \union ToSet(Requests[o].events)
    BY <1>2, <1>9, <2>1
  <2>7. \A r \in rows' : \E p \in Names : Stored(p)' /\ r \in ToSet(Requests[p].events)
    BY <2>4, <2>5, <2>6 DEF AppendInv
  <2>8. \A p \in Names : Stored(p)' => ToSet(Requests[p].events) \subseteq rows'
    BY <2>4, <2>6 DEF AppendInv
  <2>9. \A p \in Names : op'[p].pc = "migrate" => ~IsWrite(p) /\ op'[p].next \in 1..(Len(applied) + 1)
    BY <2>3 DEF AppendInv, Moves
  <2>10. NoTwins(rows')
    BY <1>9, <2>1
  <2>11. applied \in Seq(Nat) /\ \A i \in 1..Len(applied) : applied[i] = i
    BY DEF AppendInv
  <2> QED BY ONLY <1>1, <2>7, <2>8, <2>9, <2>10, <2>11 DEF AppendInv, NoTwins
<1> QED BY <1>5, <1>6, <1>8, <1>9

LEMMA MigrateStores ==
  ASSUME StoreInv, AppendInv, NEW o \in Names, Migrate(o)
  PROVE  AppendInv'
<1>1. PICK v : v = op[o].next
  OBVIOUS
<1>2. PICK pc : pc = IF v = Versions THEN "done" ELSE "migrate"
  OBVIOUS
<1>3. /\ op[o].pc = "migrate" /\ rows' = rows
      /\ applied' = IF v \in ToSet(applied) THEN applied ELSE Append(applied, v)
      /\ op' = [op EXCEPT ![o].next = v + 1, ![o].pc = pc]
  BY <1>1, <1>2 DEF Migrate
<1>4. /\ op'[o].next = v + 1 /\ op'[o].pc = pc /\ op'[o].res = op[o].res
      /\ \A p \in Names \ {o} : op'[p] = op[p]
  BY <1>3 DEF StoreInv
<1>5. /\ applied \in Seq(Nat) /\ \A i \in 1..Len(applied) : applied[i] = i
      /\ v \in 1..(Len(applied) + 1) /\ ~IsWrite(o)
  BY <1>1, <1>3 DEF AppendInv
<1>6. Len(applied) \in Nat /\ DOMAIN applied = 1..Len(applied)
  BY <1>5
<1>7. v \in ToSet(applied) <=> v <= Len(applied)
  BY <1>5, <1>6 DEF ToSet
<1>8. /\ applied' \in Seq(Nat) /\ Len(applied') >= Len(applied) /\ Len(applied') \in Nat
      /\ v <= Len(applied') /\ \A i \in 1..Len(applied') : applied'[i] = i
  <2>1. CASE v <= Len(applied)
    BY <1>3, <1>5, <1>6, <1>7, <2>1
  <2>2. CASE v = Len(applied) + 1
    <3>1. applied' = Append(applied, v)
      BY <1>3, <1>6, <1>7, <2>2
    <3> QED BY <1>5, <1>6, <2>2, <3>1
  <2> QED BY <1>5, <1>6, <2>1, <2>2
<1>9. \A p \in Names : op'[p].pc = "migrate" => ~IsWrite(p) /\ op'[p].next \in 1..(Len(applied') + 1)
  <2>1. v + 1 \in 1..(Len(applied') + 1)
    BY <1>5, <1>6, <1>8
  <2>2. \A p \in Names \ {o} : op[p].pc = "migrate" => ~IsWrite(p) /\ op[p].next \in 1..(Len(applied) + 1)
    BY DEF AppendInv
  <2>3. 1..(Len(applied) + 1) \subseteq 1..(Len(applied') + 1)
    BY <1>6, <1>8
  <2> QED BY <1>4, <1>5, <2>1, <2>2, <2>3
<1>10. \A p \in Names : Stored(p)' <=> Stored(p)
  BY <1>4, <1>5 DEF Stored, IsWrite
<1> QED BY <1>3, <1>8, <1>9, <1>10 DEF AppendInv, NoTwins

LEMMA AppendStep ==
  ASSUME StoreInv, AppendInv, closed \in BOOLEAN, \A o \in Names : op[o].pc = "tx" => IsWrite(o), [SNext]_svars
  PROVE  AppendInv'
<1>1. ASSUME NEW o \in Names, EnterCheck(o) PROVE AppendInv'
  <2>1. PICK pc, res : Moves(o, pc, res) /\ (pc = "done" => res # "none") /\ pc # "migrate"
    <3>1. Finish(o, "ErrInvalidEvent") \/ Finish(o, "ErrStoreClosed") \/ Goes(o, "entering")
      BY <1>1 DEF EnterCheck
    <3>2. Moves(o, "done", "ErrInvalidEvent") \/ Moves(o, "done", "ErrStoreClosed") \/ Moves(o, "entering", op[o].res)
      BY <3>1, FinishMoves, GoesMoves
    <3> QED BY <3>2
  <2> QED BY <1>1, <2>1, NothingStored DEF EnterCheck
<1>2. ASSUME NEW o \in Names, EnterCount(o) PROVE AppendInv'
  BY <1>2, GoesMoves, NothingStored DEF EnterCount
<1>3. ASSUME NEW o \in Names, EnterRecheck(o) PROVE AppendInv'
  <2>1. CASE Finish(o, "ErrStoreClosed")
    BY <1>3, <2>1, FinishMoves, NothingStored DEF EnterRecheck
  <2>2. CASE Goes(o, "run")
    BY <1>3, <2>2, GoesMoves, NothingStored DEF EnterRecheck
  <2> QED BY <1>3, <2>1, <2>2 DEF EnterRecheck
<1>4. ASSUME NEW o \in Names, ReadRows(o) PROVE AppendInv'
  <2>1. PICK res, got : Leave(o, res, got)
    BY <1>4 DEF ReadRows
  <2>2. op[o].pc = "run" /\ UNCHANGED <<rows, applied>> /\ ~IsWrite(o)
    BY <1>4 DEF ReadRows, IsWrite
  <2>3. Moves(o, "done", res)
    BY <2>1, LeaveMoves
  <2> QED BY <2>2, <2>3, NothingStored
<1>5. ASSUME NEW o \in Names, Commit(o) PROVE AppendInv'
  <2>1. IsWrite(o)
    BY <1>5 DEF Commit
  <2> QED BY <1>5, <2>1, CommitStores
<1>6. CASE CloseSwap \/ DrainDeadline \/ CloseDB \/ UNCHANGED svars
  <2>1. UNCHANGED <<rows, applied, op>>
    BY <1>6 DEF CloseSwap, DrainDeadline, CloseDB, svars
  <2> QED BY <2>1 DEF AppendInv, Stored, NoTwins
<1> QED BY <1>1, <1>2, <1>3, <1>4, <1>5, <1>6, BeginStores, MigrateStores DEF SNext

\* A transaction is a write's, and the flag a Boolean.
WritesOnly == closed \in BOOLEAN /\ \A o \in Names : op[o].pc = "tx" => IsWrite(o)

LEMMA WritesStep ==
  ASSUME StoreInv, WritesOnly, [SNext]_svars
  PROVE  WritesOnly'
<1>1. ASSUME NEW o \in Names, NEW pc, NEW res, Moves(o, pc, res), pc = "tx" => IsWrite(o) \/ op[o].pc = "tx", UNCHANGED closed
      PROVE  WritesOnly'
  BY <1>1 DEF WritesOnly, Moves, IsWrite
<1>2. ASSUME NEW o \in Names, EnterCheck(o) \/ EnterCount(o) \/ EnterRecheck(o) \/ Begin(o) \/ Commit(o) \/ ReadRows(o)
      PROVE  WritesOnly'
  <2>1. \/ \E pc \in {"entering", "recheck", "run"} : Goes(o, pc)
        \/ Goes(o, "tx") /\ IsWrite(o)
        \/ \E res : Finish(o, res)
        \/ \E res, got : Leave(o, res, got)
    BY <1>2 DEF EnterCheck, EnterCount, EnterRecheck, Begin, Commit, ReadRows
  <2>2. closed' = closed
    BY <1>2 DEF EnterCheck, EnterCount, EnterRecheck, Begin, Commit, ReadRows
  <2>3. \E pc, res : Moves(o, pc, res) /\ (pc = "tx" => IsWrite(o))
    BY <2>1, GoesMoves, FinishMoves, LeaveMoves
  <2> QED BY <1>1, <2>2, <2>3
<1>3. ASSUME NEW o \in Names, Migrate(o) PROVE WritesOnly'
  <2>1. op'[o].pc \in {"done", "migrate"} /\ closed' = closed /\ \A p \in Names \ {o} : op'[p] = op[p]
    BY <1>3 DEF Migrate, StoreInv
  <2> QED BY <2>1 DEF WritesOnly, IsWrite
<1>4. CASE CloseSwap \/ DrainDeadline \/ CloseDB \/ UNCHANGED svars
  BY <1>4 DEF CloseSwap, DrainDeadline, CloseDB, svars, WritesOnly, IsWrite
<1> QED BY <1>2, <1>3, <1>4 DEF SNext

\* For every set of appends, queries and opens, however they interleave, fail
\* and meet Close: a batch is stored as a whole exactly when AppendEvents
\* returned nil, no two rows share an event id or a session's sequence number,
\* and each migration ran once, in order (state/store.go, state/migration.go).
THEOREM AppendsAreAtomic == StoreSpec => []AppendAtomic
<1>1. SInit => AppendInv /\ WritesOnly
  <2> SUFFICES ASSUME SInit PROVE AppendInv /\ WritesOnly
    OBVIOUS
  <2>1. rows = {} /\ applied = <<>> /\ closed = FALSE /\ Len(applied) = 0
    BY DEF SInit
  <2>2. \A o \in Names : /\ op[o].pc = IF Requests[o].kind = "open" THEN "migrate" ELSE "idle"
                         /\ op[o].next = 1
    BY DEF SInit
  <2>3. \A o \in Names : op[o].pc \notin {"done", "tx"} /\ (op[o].pc = "migrate" => ~IsWrite(o))
    BY <2>2, Zenon DEF IsWrite
  <2>4. \A o \in Names : ~Stored(o)
    BY <2>3, Zenon DEF Stored
  <2>5. applied \in Seq(Nat) /\ \A i \in 1..Len(applied) : applied[i] = i
    BY <2>1
  <2>6. \A o \in Names : op[o].next \in 1..(Len(applied) + 1)
    BY <2>1, <2>2
  <2>7. NoTwins(rows) /\ \A r \in rows : \E o \in Names : Stored(o) /\ r \in ToSet(Requests[o].events)
    BY <2>1 DEF NoTwins
  <2>8. WritesOnly
    BY <2>1, <2>3 DEF WritesOnly
  <2> QED BY <2>3, <2>4, <2>5, <2>6, <2>7, <2>8, Zenon DEF AppendInv
<1>2. AppendInv => AppendAtomic
  <2> SUFFICES ASSUME AppendInv PROVE AppendAtomic
    OBVIOUS
  <2>1. \A a, b \in rows : a # b => a.id # b.id /\ ~(a.session = b.session /\ a.seq = b.seq)
    BY DEF AppendInv, NoTwins
  <2>2. ASSUME NEW o \in Names, IsWrite(o)
        PROVE  IF op[o].pc = "done" /\ op[o].res = "none" THEN ToSet(Requests[o].events) \subseteq rows
               ELSE \A e \in ToSet(Requests[o].events) : e \in rows =>
                      \E p \in Names \ {o} : /\ IsWrite(p) /\ e \in ToSet(Requests[p].events)
                                             /\ op[p].pc = "done" /\ op[p].res = "none"
    BY <2>2 DEF AppendInv, Stored
  <2> QED BY <2>1, <2>2 DEF AppendAtomic, AppendInv
<1>3. SInit => StoreInv
  BY StoreInit
<1>4. StoreInv /\ AppendInv /\ WritesOnly /\ [SNext]_svars => StoreInv' /\ AppendInv' /\ WritesOnly'
  BY StoreStep, AppendStep, WritesStep DEF WritesOnly
<1> QED BY <1>1, <1>2, <1>3, <1>4, PTL DEF StoreSpec

-----------------------------------------------------------------------------
(* The tail *)

\* The lines of the file under the path are well formed.
LEMMA FileWellFormed ==
  ASSUME TailTypeOK
  PROVE  WellFormed(file.content) /\ file.content \subseteq Lines /\ file.vis \in Nat /\ file.inc \in Nat
<1>1. PICK c \in Contents : file \in [inc : Nat, content : {c.lines}, cuts : {c.cuts}, vis : Nat, born : Int]
  BY DEF TailTypeOK
<1>2. file.content = c.lines /\ file.vis \in Nat /\ file.inc \in Nat
  BY <1>1
<1> QED BY <1>2, TailAssumption DEF Lines

\* A tail that is down is well typed, and a typed field keeps a tail typed.
LEMMA DownTyped == Down \in Tails /\ Down.buf = {} /\ Down.offset = 0 /\ Down.inc = 0
<1>1. NoPrint \in Prints
  BY DEF NoPrint, Prints
<1>2. 0 \in Nat /\ 0 \in Int /\ {} \in SUBSET Lines
  OBVIOUS
<1>3. "" \in Sids
  BY Zenon DEF Sids
<1> QED BY <1>1, <1>2, <1>3, Zenon DEF Down, Tails

LEMMA TailFields ==
  ASSUME NEW t \in Tails
  PROVE  /\ \A x \in {"down", "stat", "read", "lines", "ended"} : [t EXCEPT !.pc = x] \in Tails
         /\ \A x \in Nat : [t EXCEPT !.offset = x] \in Tails
         /\ \A x \in Int : [t EXCEPT !.gen = x] \in Tails
         /\ \A x \in Sids : [t EXCEPT !.sid = x] \in Tails
         /\ \A x \in Prints : [t EXCEPT !.print = x] \in Tails
         /\ \A x \in SUBSET Lines : [t EXCEPT !.buf = x] \in Tails
         /\ \A x \in Nat : [t EXCEPT !.n = x] \in Tails
         /\ \A x \in Nat : [t EXCEPT !.emitted = x] \in Tails
         /\ \A x \in Nat : [t EXCEPT !.inc = x] \in Tails
         /\ \A x \in Nat : [t EXCEPT !.base = x] \in Tails
         /\ \A x \in Nat : [t EXCEPT !.of = x] \in Tails
BY DEF Tails

\* What well-formedness says of one line, and of two.
LEMMA LineShape ==
  ASSUME TailTypeOK, NEW l \in file.content
  PROVE  /\ l.at \in Nat /\ l.end \in Nat /\ l.at < l.end
         /\ l.at = 0 \/ \E k \in file.content : k.end = l.at
BY FileWellFormed DEF WellFormed

LEMMA LineLong ==
  ASSUME TailTypeOK, NEW l \in file.content, EventType(l) # ""
  PROVE  l.end - l.at > 1
BY FileWellFormed DEF WellFormed

LEMMA LinesApart ==
  ASSUME TailTypeOK, NEW k \in file.content, NEW l \in file.content, k # l
  PROVE  k.end <= l.at \/ l.end <= k.at
BY FileWellFormed DEF WellFormed

\* A place at the start of the file is sound, and so is one where it begins.
LEMMA StartIsSound ==
  ASSUME TailTypeOK, NEW offset \in Nat, NEW base \in Nat, offset = 0 \/ offset = base
  PROVE  Passed(offset, base) /\ Aligned(offset, base)
<1>1. \A l \in file.content : l.at \in Nat /\ l.end \in Nat /\ l.at < l.end
  BY LineShape
<1> QED BY <1>1 DEF Passed, Aligned

\* More records sent, the same file: what was passed stays passed.
LEMMA PassedStays ==
  ASSUME NEW offset, NEW base, Passed(offset, base), file'.content = file.content, file'.inc = file.inc, sent \subseteq sent'
  PROVE  Passed(offset, base)'
BY DEF Passed, Emittable
\* The file under the path stays the same one, and what was sent stays sent.
SameFile == file'.content = file.content /\ file'.inc = file.inc /\ sent \subseteq sent'

LEMMA SoundStays ==
  ASSUME NEW p, Sound(p), SameFile
  PROVE  Sound(p)'
<1>1. CASE p.inc = file.inc
  BY <1>1 DEF Sound, SameFile, Passed, Aligned, Emittable
<1>2. CASE p.inc # file.inc
  BY <1>2 DEF Sound, SameFile
<1> QED BY <1>1, <1>2

\* Only a place's file, offset and base matter.
LEMMA SoundLike ==
  ASSUME NEW p, NEW q, Sound(p), p.inc = q.inc, p.offset = q.offset, p.base = q.base
  PROVE  Sound(q)
BY DEF Sound

LEMMA StartSound ==
  ASSUME TailTypeOK, NEW p \in Tails, p.inc <= file.inc, p.offset = 0 \/ p.offset = p.base
  PROVE  Sound(p)
<1>1. PICK offset, base : offset = p.offset /\ base = p.base
  OBVIOUS
<1>2. offset \in Nat /\ base \in Nat
  BY <1>1 DEF Tails
<1>3. Passed(offset, base) /\ Aligned(offset, base)
  BY <1>1, <1>2, StartIsSound
<1> QED BY <1>1, <1>3 DEF Sound

\* A step under the same file keeps the invariant when the new tail and the new
\* cursor are sound and the buffer fits.
LEMMA TailStep ==
  ASSUME TailInv, SameFile, cfg' = cfg, canceled' \in BOOLEAN, tail' \in Tails,
         \E c \in Contents : file' \in [inc : Nat, content : {c.lines}, cuts : {c.cuts}, vis : Nat, born : Int],
         NEW t, t = tail', t.pc # "down" => Sound(t)',
         cursor' = cursor \/ (cursor' \in Cursors /\ tail.pc # "down" /\ cursor'.offset = tail.offset
                               /\ cursor'.inc = tail.inc /\ cursor'.base = tail.base),
         t.pc = "lines" => Buffered'
  PROVE  TailInv'
<1>1. TailTypeOK'
  BY DEF TailInv, TailTypeOK
<1>2. cursor' # None => Sound(cursor)'
  <2>1. PICK c : c = cursor'
    OBVIOUS
  <2>2. cursor' # None => Sound(c)
    <3>1. CASE cursor' = cursor
      BY <2>1, <3>1 DEF TailInv
    <3>2. CASE cursor' # cursor
      <4>1. PICK p : p = tail
        OBVIOUS
      <4>2. Sound(p) /\ p.inc = c.inc /\ p.offset = c.offset /\ p.base = c.base
        BY <2>1, <3>2, <4>1 DEF TailInv
      <4> QED BY <4>2, SoundLike
    <3> QED BY <3>1, <3>2
  <2>3. cursor' # None => Sound(c)'
    BY <2>2, SoundStays
  <2> QED BY <2>1, <2>3 DEF Sound, Passed, Aligned
<1>3. tail'.pc # "down" => Sound(tail)'
  BY DEF Sound, Passed, Aligned
<1> QED BY <1>1, <1>2, <1>3 DEF TailInv
\* The new tail is sound when it stands where the old one did.
LEMMA StandsSound ==
  ASSUME TailInv, SameFile, tail.pc # "down", NEW t, t.inc = tail.inc, t.offset = tail.offset, t.base = tail.base
  PROVE  Sound(t)'
<1>1. PICK p : p = tail
  OBVIOUS
<1>2. Sound(p)
  BY <1>1 DEF TailInv
<1>3. Sound(t)
  BY <1>1, <1>2, SoundLike
<1> QED BY <1>3, SoundStays

\* The writer adds to the file.
LEMMA GrowTail == ASSUME TailInv, Grow PROVE TailInv'
<1>1. PICK c \in Contents : file \in [inc : Nat, content : {c.lines}, cuts : {c.cuts}, vis : Nat, born : Int]
  BY DEF TailInv, TailTypeOK
<1>2. PICK cut \in file.cuts : file' = [file EXCEPT !.vis = cut]
  BY DEF Grow
<1>3. cut \in Nat
  BY <1>1, TailAssumption
<1>4. file' \in [inc : Nat, content : {c.lines}, cuts : {c.cuts}, vis : Nat, born : Int]
  BY <1>1, <1>2, <1>3
<1>5. SameFile
  BY <1>1, <1>2 DEF SameFile, Grow
<1>6. PICK t : t = tail'
  OBVIOUS
<1>7. t.pc # "down" => Sound(t)'
  BY <1>5, <1>6, StandsSound DEF Grow
<1>8. t.pc = "lines" => Buffered'
  BY <1>5, <1>6 DEF Grow, TailInv, Buffered, SameFile
<1> QED BY <1>4, <1>5, <1>6, <1>7, <1>8, TailStep DEF Grow, TailInv, TailTypeOK

\* Its time stamp is set back.
LEMMA BackdateTail == ASSUME TailInv, Backdate PROVE TailInv'
<1>1. PICK c \in Contents : file \in [inc : Nat, content : {c.lines}, cuts : {c.cuts}, vis : Nat, born : Int]
  BY DEF TailInv, TailTypeOK
<1>2. file' \in [inc : Nat, content : {c.lines}, cuts : {c.cuts}, vis : Nat, born : Int]
  BY <1>1 DEF Backdate, Born
<1>3. SameFile
  BY <1>1 DEF SameFile, Backdate
<1>4. PICK t : t = tail'
  OBVIOUS
<1>5. t.pc # "down" => Sound(t)'
  BY <1>3, <1>4, StandsSound DEF Backdate
<1>6. t.pc = "lines" => Buffered'
  BY <1>3, <1>4 DEF Backdate, TailInv, Buffered, SameFile
<1> QED BY <1>2, <1>3, <1>4, <1>5, <1>6, TailStep DEF Backdate, TailInv, TailTypeOK

\* Another file takes its place: every place and every buffer is of an older one.
LEMMA ReplaceTail == ASSUME TailInv, Replace PROVE TailInv'
<1>0. PICK c \in Contents, born \in {Born - 20, Born + 20} : \E vis \in {0} \union c.cuts :
        file' = [File(c) EXCEPT !.inc = file.inc + 1, !.vis = vis, !.born = born]
  BY DEF Replace
<1>1. PICK vis \in {0} \union c.cuts : file' = [File(c) EXCEPT !.inc = file.inc + 1, !.vis = vis, !.born = born]
  BY <1>0
<1>2. file.inc \in Nat /\ tail.inc \in Nat /\ tail.of \in Nat /\ (cursor # None => cursor.inc \in Nat)
  BY FileWellFormed DEF TailInv, TailTypeOK, Tails, Cursors
<1>3. file' \in [inc : Nat, content : {c.lines}, cuts : {c.cuts}, vis : Nat, born : Int]
  <2>1. vis \in Nat /\ born \in Int
    BY <1>1, TailAssumption DEF Born
  <2>2. file' = [inc |-> file.inc + 1, content |-> c.lines, cuts |-> c.cuts, vis |-> vis, born |-> born]
    BY <1>1 DEF File
  <2> QED BY <1>2, <2>1, <2>2
<1>4. file'.inc = file.inc + 1
  BY <1>1 DEF File
<1>5. TailTypeOK'
  BY <1>1, <1>3 DEF TailInv, TailTypeOK, Replace
<1>6. tail.pc # "down" => Sound(tail)'
  BY <1>2, <1>4 DEF TailInv, Sound, Replace
<1>7. cursor # None => Sound(cursor)'
  BY <1>2, <1>4 DEF TailInv, Sound, Replace
<1>8. tail.pc = "lines" => Buffered'
  BY <1>2, <1>4 DEF TailInv, Buffered, Replace
<1> QED BY <1>5, <1>6, <1>7, <1>8 DEF TailInv, Replace

\* A step that touches neither the file nor the cursor nor the tail's place.
LEMMA ReadFailsTail == ASSUME TailInv, ReadFails PROVE TailInv'
<1>1. SameFile
  BY DEF SameFile, ReadFails
<1>2. PICK t : t = tail'
  OBVIOUS
<1>3. t \in Tails /\ t.pc = "stat" /\ t.inc = tail.inc /\ t.offset = tail.offset /\ t.base = tail.base
  BY <1>2 DEF ReadFails, TailInv, TailTypeOK, Tails
<1>4. Sound(t)'
  BY <1>1, <1>3, StandsSound DEF ReadFails
<1> QED BY <1>1, <1>2, <1>3, <1>4, TailStep DEF ReadFails, TailInv, TailTypeOK

LEMMA CancelTail == ASSUME TailInv, Cancel PROVE TailInv'
BY DEF Cancel, TailInv, TailTypeOK, Sound, Passed, Aligned, Buffered, Fault

LEMMA GarbleTail == ASSUME TailInv, Garble PROVE TailInv'
<1>1. cursor \in Cursors /\ Sound(cursor)
  BY DEF Garble, TailInv, TailTypeOK
<1>2. cursor' \in Cursors /\ cursor'.inc = cursor.inc /\ cursor'.offset = cursor.offset /\ cursor'.base = cursor.base
  BY <1>1 DEF Garble, Cursors
<1>3. TailTypeOK'
  BY <1>2 DEF Garble, TailInv, TailTypeOK
<1>4. Sound(cursor)'
  BY <1>1, <1>2 DEF Garble, Sound, Passed, Aligned
<1> QED BY <1>3, <1>4 DEF Garble, TailInv
\* Where a start from the cursor stands.
LEMMA ResumedSound ==
  ASSUME TailInv, NEW u, u = Resumed
  PROVE  u \in Tails /\ u.buf = {} /\ Sound(u)
<1>1. file.inc \in Nat
  BY FileWellFormed DEF TailInv
<1>2. cfg.override \in Sids
  BY Zenon DEF TailInv, TailTypeOK, Sids
<1>3. CASE cfg.cursor /\ cursor # None /\ ~Garbled
  <2>1. PICK c : c = cursor
    OBVIOUS
  <2>2. c \in Cursors /\ Sound(c)
    BY <1>3, <2>1 DEF TailInv, TailTypeOK
  <2>3. u = [Down EXCEPT !.offset = c.offset, !.gen = c.gen, !.print = c.print, !.inc = c.inc, !.base = c.base,
                         !.sid = IF cfg.override # "" THEN cfg.override ELSE c.sid]
    BY <1>3, <2>1 DEF Resumed
  <2>4. c.offset \in Nat /\ c.gen \in Int /\ c.sid \in Sids /\ c.print \in Prints /\ c.inc \in Nat /\ c.base \in Nat
    BY <2>2 DEF Cursors
  <2>5. PICK sid \in Sids : sid = IF cfg.override # "" THEN cfg.override ELSE c.sid
    BY <1>2, <2>4, Zenon
  <2>6. u = [Down EXCEPT !.offset = c.offset, !.gen = c.gen, !.print = c.print, !.inc = c.inc, !.base = c.base, !.sid = sid]
    BY <2>3, <2>5, Zenon
  <2>7. u \in Tails
    <3>1. PICK u1 \in Tails : u1 = [Down EXCEPT !.offset = c.offset]
      BY <2>4, DownTyped, TailFields
    <3>2. PICK u2 \in Tails : u2 = [u1 EXCEPT !.gen = c.gen]
      BY <2>4, TailFields
    <3>3. PICK u3 \in Tails : u3 = [u2 EXCEPT !.print = c.print]
      BY <2>4, TailFields
    <3>4. PICK u4 \in Tails : u4 = [u3 EXCEPT !.inc = c.inc]
      BY <2>4, TailFields
    <3>5. PICK u5 \in Tails : u5 = [u4 EXCEPT !.base = c.base]
      BY <2>4, TailFields
    <3>6. u = [u5 EXCEPT !.sid = sid]
      BY <2>6, <3>1, <3>2, <3>3, <3>4, <3>5
    <3> QED BY ZenonT(60), <3>6, TailFields
  <2>8. c.inc = u.inc /\ c.offset = u.offset /\ c.base = u.base /\ u.buf = {}
    BY <2>6, DownTyped DEF Tails
  <2> QED BY <2>2, <2>7, <2>8, SoundLike
<1>4. CASE ~(cfg.cursor /\ cursor # None /\ ~Garbled)
  <2>1. u = [Down EXCEPT !.gen = IF Garbled THEN 1 ELSE 0, !.sid = cfg.override]
    BY <1>4 DEF Resumed
  <2>2. PICK gen \in Int : gen = IF Garbled THEN 1 ELSE 0
    OBVIOUS
  <2>3. u \in Tails /\ u.buf = {} /\ u.inc <= file.inc /\ u.offset = 0
    <3>1. PICK u1 \in Tails : u1 = [Down EXCEPT !.gen = gen]
      BY DownTyped, TailFields
    <3>2. u = [u1 EXCEPT !.sid = cfg.override]
      BY <2>1, <2>2, <3>1
    <3>3. u \in Tails
      BY <1>2, <3>2, TailFields, ZenonT(60)
    <3>4. u.buf = {} /\ u.offset = 0 /\ u.inc = 0
      BY <3>1, <3>2, DownTyped DEF Tails
    <3> QED BY <1>1, <3>3, <3>4
  <2> QED BY <2>3, StartSound DEF TailInv
<1> QED BY <1>3, <1>4

LEMMA LoadTail == ASSUME TailInv, Load PROVE TailInv'
<1>1. SameFile
  BY DEF SameFile, Load
<1>2. PICK u, t : u = Resumed /\ t = tail'
  OBVIOUS
<1>3. u \in Tails /\ Sound(u)
  BY <1>2, ResumedSound
<1>4. file.vis \in Nat /\ file.inc \in Nat
  BY FileWellFormed DEF TailInv
<1>5. \/ t = [u EXCEPT !.pc = "ended"]
      \/ t = [u EXCEPT !.pc = "stat"]
      \/ t = [u EXCEPT !.pc = "stat", !.offset = file.vis, !.base = file.vis, !.inc = file.inc]
  BY <1>2 DEF Load
<1>6. t \in Tails /\ t.pc # "lines"
  BY ZenonT(60), <1>3, <1>4, <1>5 DEF Tails
<1>7. Sound(t)
  <2>1. CASE t = [u EXCEPT !.pc = "ended"] \/ t = [u EXCEPT !.pc = "stat"]
    <3>1. u.inc = t.inc /\ u.offset = t.offset /\ u.base = t.base
      BY <1>3, <2>1 DEF Tails
    <3> QED BY <1>3, <3>1, SoundLike
  <2>2. CASE t = [u EXCEPT !.pc = "stat", !.offset = file.vis, !.base = file.vis, !.inc = file.inc]
    <3>1. t.inc <= file.inc /\ t.offset = t.base
      BY <1>3, <1>4, <2>2 DEF Tails
    <3> QED BY <1>6, <3>1, StartSound DEF TailInv
  <2> QED BY <1>5, <2>1, <2>2
<1>8. Sound(t)'
  BY <1>1, <1>7, SoundStays
<1> QED BY <1>1, <1>2, <1>6, <1>8, TailStep DEF Load, TailInv, TailTypeOK

LEMMA StatTail == ASSUME TailInv, Stat PROVE TailInv'
<1>1. SameFile
  BY DEF SameFile, Stat
<1>2. PICK t : t = tail'
  OBVIOUS
<1>3. file.vis \in Nat /\ file.inc \in Nat /\ [size |-> file.vis, mod |-> ModTime(file)] \in Prints
  <2>1. file.born \in Int
    BY DEF TailInv, TailTypeOK
  <2> QED BY <2>1, FileWellFormed DEF TailInv, ModTime, Prints
<1>4. PICK now \in Prints : \/ t = [tail EXCEPT !.pc = "read", !.print = now]
                            \/ t = [tail EXCEPT !.pc = "read", !.print = now, !.offset = 0, !.gen = @ + 1,
                                                !.inc = file.inc, !.base = 0]
  <2>1. PICK now \in Prints : now = [size |-> file.vis, mod |-> ModTime(file)]
    BY <1>3
  <2>2. CASE RotationDetected(tail.offset, tail.print, now)
    BY <1>2, <2>1, <2>2 DEF Stat, TailInv, TailTypeOK, Tails
  <2>3. CASE ~RotationDetected(tail.offset, tail.print, now)
    BY <1>2, <2>1, <2>3 DEF Stat
  <2> QED BY <2>2, <2>3
<1>5. tail \in Tails
  BY DEF TailInv, TailTypeOK
<1>6. t \in Tails /\ t.pc = "read"
  <2>1. PICK u \in Tails : u = [tail EXCEPT !.pc = "read", !.print = now]
    BY <1>5, TailFields
  <2>2. CASE t = u
    BY <1>5, <2>1, <2>2 DEF Tails
  <2>3. CASE t # u
    <3>1. t = [u EXCEPT !.offset = 0, !.gen = @ + 1, !.inc = file.inc, !.base = 0]
      BY <1>4, <1>5, <2>1, <2>3 DEF Tails
    <3>2. u.gen \in Int /\ u.pc = "read"
      BY <1>5, <2>1 DEF Tails
    <3>3. PICK u1 \in Tails : u1 = [u EXCEPT !.offset = 0]
      BY TailFields
    <3>9. PICK gen \in Int : gen = u.gen + 1
      BY <3>2
    <3>4. PICK u2 \in Tails : u2 = [u1 EXCEPT !.gen = gen]
      BY TailFields
    <3>5. PICK u3 \in Tails : u3 = [u2 EXCEPT !.inc = file.inc]
      BY <1>3, TailFields
    <3>6. t = [u3 EXCEPT !.base = 0]
      BY <3>1, <3>9, <3>3, <3>4, <3>5 DEF Tails
    <3>7. t \in Tails
      BY <3>6, TailFields
    <3>8. t.pc = u.pc
      BY <3>1 DEF Tails
    <3> QED BY <3>2, <3>7, <3>8
  <2> QED BY <2>2, <2>3
<1>7. Sound(t)'
  <2>1. CASE t = [tail EXCEPT !.pc = "read", !.print = now]
    <3>1. t.inc = tail.inc /\ t.offset = tail.offset /\ t.base = tail.base
      BY <1>5, <2>1 DEF Tails
    <3> QED BY <1>1, <3>1, StandsSound DEF Stat
  <2>2. CASE t = [tail EXCEPT !.pc = "read", !.print = now, !.offset = 0, !.gen = @ + 1, !.inc = file.inc, !.base = 0]
    <3>1. t.inc <= file.inc /\ t.offset = 0
      BY <1>3, <1>5, <2>2 DEF Tails
    <3> QED BY <1>1, <1>6, <3>1, StartSound, SoundStays DEF TailInv
  <2> QED BY <1>4, <2>1, <2>2
<1> QED BY ZenonT(60), <1>1, <1>2, <1>6, <1>7, TailStep DEF Stat, TailInv, TailTypeOK
\* A budget full of one unfinished line holds no line's end: nothing is passed
\* over, and the line the skip stops in outgrows the budget.
LEMMA SkipIsSound ==
  ASSUME TailTypeOK, NEW offset \in Nat, NEW base \in Nat, Passed(offset, base), Aligned(offset, base),
         Complete(file, offset) = {}, Oversized(file, offset)
  PROVE  Passed(offset + MaxBytesPerPoll, base) /\ Aligned(offset + MaxBytesPerPoll, base)
<1>0. MaxBytesPerPoll \in Nat /\ file.vis \in Nat /\ \A l \in file.content : l.at \in Nat /\ l.end \in Nat /\ l.at < l.end
  BY TailAssumption, FileWellFormed, LineShape
<1>1. Least(file.vis, offset + MaxBytesPerPoll) = offset + MaxBytesPerPoll
  BY <1>0 DEF Oversized, Least
<1>2. ASSUME NEW l \in file.content PROVE l.end <= offset \/ l.end > offset + MaxBytesPerPoll
  <2>1. ~(l.end > offset /\ l.end <= offset + MaxBytesPerPoll)
    BY <1>1 DEF Complete
  <2> QED BY <1>0, <2>1
<1>3. Passed(offset + MaxBytesPerPoll, base)
  BY <1>0, <1>2 DEF Passed
<1>4. ASSUME NEW l \in file.content, l.at >= base, l.at < offset + MaxBytesPerPoll, offset + MaxBytesPerPoll < l.end
      PROVE  l.end - l.at > MaxBytesPerPoll
  <2>1. l.at \in Nat /\ l.end \in Nat
    BY <1>0
  <2>2. CASE l.at > offset
    <3>1. PICK k \in file.content : k.end = l.at
      BY <2>1, <2>2, LineShape
    <3> QED BY <1>0, <1>2, <1>4, <2>1, <2>2, <3>1
  <2>3. CASE l.at = offset
    BY <1>0, <1>4, <2>1, <2>3
  <2>4. CASE l.at < offset
    BY <1>0, <1>4, <2>1, <2>4 DEF Aligned
  <2> QED BY <2>1, <2>2, <2>3, <2>4
<1>5. Aligned(offset + MaxBytesPerPoll, base)
  BY <1>4 DEF Aligned
<1> QED BY <1>3, <1>5

LEMMA ReadTail == ASSUME TailInv, Read PROVE TailInv'
<1>1. SameFile
  BY DEF SameFile, Read
<1>2. tail \in Tails /\ file.vis \in Nat /\ file.inc \in Nat /\ WellFormed(file.content) /\ file.content \subseteq Lines
  BY FileWellFormed DEF TailInv, TailTypeOK
<1>3. PICK from : from = IF tail.offset = 0 THEN [tail EXCEPT !.inc = file.inc, !.base = 0] ELSE tail
  OBVIOUS
<1>4. from \in Tails /\ from.offset = tail.offset
  BY <1>2, <1>3 DEF Tails
<1>5. Sound(from)
  <2>1. CASE tail.offset = 0
    <3>1. from.inc <= file.inc /\ from.offset = 0
      BY <1>2, <1>3, <2>1 DEF Tails
    <3> QED BY <1>4, <3>1, StartSound DEF TailInv
  <2>2. CASE tail.offset # 0
    BY <1>3, <2>2 DEF TailInv, Read
  <2> QED BY <2>1, <2>2
<1>6. PICK buf, at : /\ buf = Complete(file, from.offset)
                     /\ at = IF buf = {} /\ Oversized(file, from.offset) THEN from.offset + MaxBytesPerPoll ELSE from.offset
  OBVIOUS
<1>7. PICK t : t = tail'
  OBVIOUS
<1>8. t = [from EXCEPT !.pc = "lines", !.n = 0, !.buf = buf, !.offset = at, !.of = file.inc]
  BY <1>3, <1>4, <1>6, <1>7 DEF Read
<1>9. buf \in SUBSET Lines /\ buf \subseteq file.content
  BY <1>2, <1>6 DEF Complete
<1>10. t \in Tails
  <2>1. at \in Nat
    BY <1>4, <1>6, TailAssumption DEF Tails
  <2>2. PICK u1 \in Tails : u1 = [from EXCEPT !.pc = "lines"]
    BY <1>4, TailFields
  <2>3. PICK u2 \in Tails : u2 = [u1 EXCEPT !.n = 0]
    BY TailFields
  <2>4. PICK u3 \in Tails : u3 = [u2 EXCEPT !.buf = buf]
    BY <1>9, TailFields
  <2>5. PICK u4 \in Tails : u4 = [u3 EXCEPT !.offset = at]
    BY <2>1, TailFields
  <2>6. t = [u4 EXCEPT !.of = file.inc]
    BY <1>8, <2>2, <2>3, <2>4, <2>5
  <2> QED BY <1>2, <2>6, TailFields
<1>11. /\ t.pc = "lines" /\ t.buf = buf /\ t.inc = from.inc /\ t.base = from.base /\ t.of = file.inc /\ t.offset = at
  BY <1>4, <1>8 DEF Tails
<1>12. Sound(t)
  <2>1. CASE buf = {} /\ Oversized(file, from.offset)
    <3>1. from.offset \in Nat /\ from.base \in Nat
      BY <1>4 DEF Tails
    <3>2. CASE from.inc = file.inc
      <4>1. Passed(from.offset, from.base) /\ Aligned(from.offset, from.base)
        BY <1>5, <3>2 DEF Sound
      <4>2. PICK o, b : o = from.offset /\ b = from.base
        OBVIOUS
      <4>3. Passed(o + MaxBytesPerPoll, b) /\ Aligned(o + MaxBytesPerPoll, b)
        BY <1>6, <2>1, <3>1, <4>1, <4>2, SkipIsSound DEF TailInv
      <4> QED BY <1>5, <1>6, <1>11, <2>1, <4>2, <4>3 DEF Sound
    <3>3. CASE from.inc # file.inc
      BY <1>5, <1>11, <3>3 DEF Sound
    <3> QED BY <3>2, <3>3
  <2>2. CASE ~(buf = {} /\ Oversized(file, from.offset))
    BY <1>5, <1>6, <1>11, <2>2, SoundLike
  <2> QED BY <2>1, <2>2
<1>13. Sound(t)'
  BY <1>1, <1>12, SoundStays
<1>14. Buffered'
  <2>1. tail'.inc <= tail'.of /\ tail'.of <= file'.inc
    BY <1>1, <1>2, <1>5, <1>7, <1>11 DEF Sound, SameFile
  <2>2. ASSUME NEW l \in buf PROVE at = from.offset /\ l \in file.content /\ l.end > from.offset
    BY <1>6, <1>9 DEF Complete
  <2>3. ASSUME NEW l \in buf, NEW k \in file.content, k.end > from.offset, k.end <= l.end PROVE k \in buf
    <3>1. l \in file.content /\ l.end <= Least(file.vis, from.offset + MaxBytesPerPoll)
      BY <1>6 DEF Complete
    <3>2. k.end \in Nat /\ l.end \in Nat /\ Least(file.vis, from.offset + MaxBytesPerPoll) \in Int
      BY <1>2, <1>4, <3>1, TailAssumption, LineShape DEF TailInv, Least, Tails
    <3>3. k.end <= Least(file.vis, from.offset + MaxBytesPerPoll)
      BY <2>3, <3>1, <3>2
    <3> QED BY <1>6, <2>3, <3>3 DEF Complete
  <2> QED BY <1>1, <1>7, <1>11, <2>1, <2>2, <2>3 DEF Buffered, SameFile
<1>15. cfg' = cfg /\ canceled' = canceled /\ file' = file /\ cursor' = cursor
  BY DEF Read
<1>16. /\ canceled' \in BOOLEAN
       /\ \E c \in Contents : file' \in [inc : Nat, content : {c.lines}, cuts : {c.cuts}, vis : Nat, born : Int]
  BY <1>15 DEF TailInv, TailTypeOK
<1> QED BY <1>1, <1>7, <1>10, <1>13, <1>14, <1>15, <1>16, TailStep
\* Two lines of a file do not end in the same place.
LEMMA EndsDiffer ==
  ASSUME TailTypeOK, NEW k \in file.content, NEW l \in file.content, k.end = l.end
  PROVE  k = l
<1>1. k.at \in Nat /\ k.end \in Nat /\ k.at < k.end /\ l.at \in Nat /\ l.end \in Nat /\ l.at < l.end
  BY LineShape
<1>2. k # l => k.end <= l.at \/ l.end <= k.at
  BY LinesApart
<1> QED BY <1>1, <1>2

\* The foremost line of the buffer starts no later than the offset.
LEMMA ForemostStarts ==
  ASSUME TailInv, tail.pc = "lines", tail.of = file.inc, NEW l \in tail.buf, Foremost(l, tail.buf)
  PROVE  l \in file.content /\ l.at \in Nat /\ l.end \in Nat /\ l.at <= tail.offset /\ tail.offset < l.end
<1>1. l \in file.content /\ tail.offset < l.end /\ tail.offset \in Nat
  BY DEF TailInv, TailTypeOK, Tails, Buffered
<1>2. l.at \in Nat /\ l.end \in Nat /\ l.at < l.end /\ (l.at = 0 \/ \E k \in file.content : k.end = l.at)
  BY <1>1, LineShape DEF TailInv
<1>3. ASSUME l.at > tail.offset PROVE FALSE
  <2>1. PICK k \in file.content : k.end = l.at
    BY <1>1, <1>2, <1>3
  <2>2. k \in tail.buf
    BY <1>2, <1>3, <2>1 DEF TailInv, Buffered
  <2> QED BY <1>2, <2>1, <2>2 DEF Foremost
<1> QED BY <1>1, <1>2, <1>3

\* A line that is consumed was sent, or cannot be emitted.
LEMMA ConsumedSound ==
  ASSUME TailInv, tail.pc = "lines", NEW l \in tail.buf, Foremost(l, tail.buf), SameFile,
         Emits(l, tail.offset) => <<tail.of, l.end>> \in sent',
         NEW t, t.inc = tail.inc, t.base = tail.base, t.offset = l.end
  PROVE  Sound(t)'
<1>1. Sound(tail) /\ tail.inc <= tail.of /\ tail.of <= file.inc /\ tail.inc \in Nat /\ tail.of \in Nat /\ file.inc \in Nat
  BY FileWellFormed DEF TailInv, TailTypeOK, Tails, Buffered
<1>2. CASE tail.inc # file.inc
  BY <1>1, <1>2 DEF Sound, SameFile
<1>3. CASE tail.inc = file.inc
  <2>1. tail.of = file.inc
    BY <1>1, <1>3
  <2>2. l \in file.content /\ l.at \in Nat /\ l.end \in Nat /\ l.at <= tail.offset /\ tail.offset < l.end /\ tail.offset \in Nat
    BY <2>1, ForemostStarts DEF TailInv, TailTypeOK, Tails
  <2>3. Passed(tail.offset, tail.base) /\ Aligned(tail.offset, tail.base)
    BY <1>1, <1>3 DEF Sound
  <2>4. ASSUME NEW k \in file.content, k.at >= tail.base, k.end <= l.end, Emittable(k)
        PROVE  <<file.inc, k.end>> \in sent'
    <3>1. k.at \in Nat /\ k.end \in Nat
      BY LineShape DEF TailInv
    <3>2. CASE k.end <= tail.offset
      BY <2>3, <2>4, <3>2 DEF Passed, SameFile
    <3>3. CASE k.end > tail.offset
      <4>1. k \in tail.buf
        BY <2>1, <2>4, <3>3 DEF TailInv, Buffered
      <4>2. k.end = l.end
        BY <2>2, <2>4, <3>1, <4>1 DEF Foremost
      <4>3. k = l
        BY <2>2, <4>2, EndsDiffer DEF TailInv
      <4>4. tail.offset = l.at
        <5>1. l.end - l.at <= MaxBytesPerPoll
          BY <2>4, <4>3, Zenon DEF Emittable
        <5>2. l.at >= tail.base
          BY <2>4, <4>3
        <5> QED BY <2>2, <2>3, <5>1, <5>2, TailAssumption DEF Aligned
      <4>5. l.end - l.at > 1
        BY <2>2, <2>4, <4>3, LineLong DEF TailInv, Emittable
      <4>6. Emits(l, tail.offset)
        <5>1. l.end - l.at - 1 <= MaxRecordBytes /\ EventType(l) # ""
          BY <2>4, <4>3, Zenon DEF Emittable
        <5>2. ~(l.at < l.at)
          BY <2>2
        <5> QED BY <4>4, <4>5, <5>1, <5>2, Zenon DEF Emits, Rest
      <4> QED BY <2>1, <4>3, <4>6
    <3> QED BY <2>2, <3>1, <3>2, <3>3
  <2>5. ASSUME NEW k \in file.content, k.at < l.end, l.end < k.end PROVE FALSE
    <3>1. k.at \in Nat /\ k.end \in Nat
      BY LineShape DEF TailInv
    <3>2. k.end <= l.at \/ l.end <= k.at
      BY <2>2, <2>5, <3>1, LinesApart DEF TailInv
    <3>3. l.at < l.end
      BY <2>2, LineShape DEF TailInv
    <3> QED BY <2>2, <2>5, <3>1, <3>2, <3>3
  <2>6. Passed(t.offset, t.base)'
    BY <2>4 DEF Passed, SameFile, Emittable
  <2>7. Aligned(t.offset, t.base)'
    BY <2>5 DEF Aligned, SameFile
  <2> QED BY <1>3, <2>6, <2>7, <1>1 DEF Sound, SameFile
<1> QED BY <1>2, <1>3

\* What is left of the buffer after its foremost line.
LEMMA ConsumedBuffered ==
  ASSUME TailInv, tail.pc = "lines", NEW l \in tail.buf, Foremost(l, tail.buf), SameFile,
         tail'.inc = tail.inc, tail'.of = tail.of, tail'.offset = l.end, tail'.buf \in {{}, tail.buf \ {l}}
  PROVE  Buffered'
<1>1. tail.inc <= tail.of /\ tail.of <= file.inc
  BY DEF TailInv, Buffered
<1>2. CASE tail.of # file.inc
  BY <1>1, <1>2 DEF Buffered, SameFile
<1>3. CASE tail.of = file.inc
  <2>1. l \in file.content /\ l.end \in Nat /\ tail.offset < l.end /\ tail.offset \in Nat
    BY <1>3, ForemostStarts DEF TailInv, TailTypeOK, Tails
  <2>2. ASSUME NEW k \in tail.buf \ {l} PROVE k \in file.content /\ k.end \in Nat /\ k.end > l.end
    <3>1. k \in file.content /\ k.end \in Nat /\ l.end <= k.end
      BY <1>3, LineShape DEF TailInv, Buffered, Foremost
    <3>2. k.end # l.end
      BY <2>1, <2>2, <3>1, EndsDiffer DEF TailInv
    <3> QED BY <2>1, <3>1, <3>2
  <2>3. ASSUME NEW k \in tail.buf \ {l}, NEW m \in file.content, m.end > l.end, m.end <= k.end PROVE m \in tail.buf \ {l}
    <3>1. m.end \in Nat
      BY LineShape DEF TailInv
    <3>2. m \in tail.buf
      BY <1>3, <2>1, <2>3, <3>1 DEF TailInv, Buffered
    <3> QED BY <2>1, <2>3, <3>1, <3>2
  <2> QED BY <1>1, <2>2, <2>3 DEF Buffered, SameFile
<1> QED BY <1>2, <1>3
LEMMA SkipLineTail == ASSUME TailInv, SkipLine PROVE TailInv'
<1>1. SameFile
  BY DEF SameFile, SkipLine
<1>2. PICK l \in tail.buf : /\ Foremost(l, tail.buf) /\ ~Emits(l, tail.offset)
                            /\ \E sid : /\ tail' = [Consumed(tail, l) EXCEPT !.sid = sid]
                                        /\ sid = tail.sid \/ (l.kind = "meta" /\ sid = l.text.words)
  BY DEF SkipLine, TailInv, TailTypeOK, Tails, Consumed
<1>3. PICK sid : /\ tail' = [Consumed(tail, l) EXCEPT !.sid = sid]
                 /\ sid = tail.sid \/ (l.kind = "meta" /\ sid = l.text.words)
  BY <1>2
<1>4. tail \in Tails /\ l \in Lines
  BY DEF TailInv, TailTypeOK, Tails
<1>5. sid \in Sids
  BY <1>3, <1>4 DEF Tails, Sids
<1>6. l.end \in Nat
  BY <1>4, TailAssumption DEF Lines, WellFormed
<1>7. PICK t : t = tail'
  OBVIOUS
<1>8. t = [tail EXCEPT !.offset = l.end, !.buf = @ \ {l}, !.sid = sid]
  BY <1>3, <1>7 DEF Consumed
<1>9. t \in Tails
  BY <1>4, <1>5, <1>6, <1>8 DEF Tails
<1>10. t.inc = tail.inc /\ t.of = tail.of /\ t.base = tail.base /\ t.offset = l.end /\ t.buf = tail.buf \ {l}
  BY <1>4, <1>8 DEF Tails
<1>11. Sound(t)'
  BY <1>1, <1>2, <1>10, ConsumedSound DEF SkipLine
<1>12. Buffered'
  BY <1>1, <1>2, <1>7, <1>10, ConsumedBuffered DEF SkipLine
<1> QED BY <1>1, <1>7, <1>9, <1>11, <1>12, TailStep DEF SkipLine, TailInv, TailTypeOK

LEMMA SendLineTail == ASSUME TailInv, SendLine PROVE TailInv'
<1>1. SameFile
  BY DEF SameFile, SendLine
<1>2. PICK l \in tail.buf :
        /\ Foremost(l, tail.buf) /\ Emits(l, tail.offset) /\ sent' = sent \union {<<tail.of, l.end>>}
        /\ LET u == [Consumed(tail, l) EXCEPT !.n = @ + 1, !.emitted = IF cfg.maxEvents > 0 THEN @ + 1 ELSE 0]
           IN  tail' = u \/ tail' = [u EXCEPT !.buf = {}]
  BY DEF SendLine
<1>3. tail \in Tails /\ l \in Lines
  BY DEF TailInv, TailTypeOK, Tails
<1>4. l.end \in Nat
  BY <1>3, TailAssumption DEF Lines, WellFormed
<1>5. PICK t, emitted : t = tail' /\ emitted = IF cfg.maxEvents > 0 THEN tail.emitted + 1 ELSE 0
  OBVIOUS
<1>6. \/ t = [tail EXCEPT !.offset = l.end, !.buf = @ \ {l}, !.n = @ + 1, !.emitted = emitted]
      \/ t = [tail EXCEPT !.offset = l.end, !.buf = {}, !.n = @ + 1, !.emitted = emitted]
  BY <1>2, <1>3, <1>5 DEF Consumed, Tails
<1>7. emitted \in Nat
  BY <1>3, <1>5 DEF Tails
<1>8. t \in Tails
  <2>1. PICK buf \in SUBSET Lines : t = [tail EXCEPT !.offset = l.end, !.buf = buf, !.n = @ + 1, !.emitted = emitted]
    BY <1>3, <1>6 DEF Tails
  <2>2. PICK u1 \in Tails : u1 = [tail EXCEPT !.offset = l.end]
    BY <1>3, <1>4, TailFields
  <2>3. PICK u2 \in Tails : u2 = [u1 EXCEPT !.buf = buf]
    BY TailFields
  <2>4. tail.n + 1 \in Nat
    BY <1>3 DEF Tails
  <2>5. PICK u3 \in Tails : u3 = [u2 EXCEPT !.n = tail.n + 1]
    BY <2>4, TailFields
  <2>6. t = [u3 EXCEPT !.emitted = emitted]
    BY <1>3, <2>1, <2>2, <2>3, <2>5 DEF Tails
  <2> QED BY <1>7, <2>6, TailFields
<1>9. t.inc = tail.inc /\ t.of = tail.of /\ t.base = tail.base /\ t.offset = l.end /\ t.buf \in {{}, tail.buf \ {l}}
  BY <1>3, <1>6 DEF Tails
<1>10. Sound(t)'
  BY <1>1, <1>2, <1>9, ConsumedSound DEF SendLine
<1>11. Buffered'
  BY <1>1, <1>2, <1>5, <1>9, ConsumedBuffered DEF SendLine
<1> QED BY <1>1, <1>5, <1>8, <1>10, <1>11, TailStep DEF SendLine, TailInv, TailTypeOK

\* A cursor saved from the tail stands where the tail does.
LEMMA SavedStands ==
  ASSUME TailInv, NEW c, c = Saved(tail)
  PROVE  c = cursor \/ (c \in Cursors /\ c.offset = tail.offset /\ c.inc = tail.inc /\ c.base = tail.base)
BY DEF Saved, TailInv, TailTypeOK, Tails, Cursors

LEMMA StopTail ==
  ASSUME TailInv, tail.pc # "down", Stop(tail), UNCHANGED <<cfg, file, canceled, sent>>
  PROVE  TailInv'
<1>1. SameFile
  BY DEF SameFile
<1>2. PICK t, c : t = tail' /\ c = cursor'
  OBVIOUS
<1>3. t \in Tails /\ t.pc = "down"
  BY <1>2 DEF Stop, TailInv, TailTypeOK, Tails
<1>4. c = Saved(tail)
  BY <1>2 DEF Stop
<1>5. c = cursor \/ (c \in Cursors /\ c.offset = tail.offset /\ c.inc = tail.inc /\ c.base = tail.base)
  BY <1>4, SavedStands
<1> QED BY <1>1, <1>2, <1>3, <1>5, TailStep DEF TailInv, TailTypeOK

LEMMA AbortSendTail == ASSUME TailInv, AbortSend PROVE TailInv'
<1>1. tail \in Tails
  BY DEF TailInv, TailTypeOK
<1>2. PICK l \in tail.buf : Stop([tail EXCEPT !.offset = AbortOffset(tail, l)])
  BY DEF AbortSend
<1>3. [tail EXCEPT !.offset = AbortOffset(tail, l)] = tail
  BY <1>1 DEF AbortOffset, Tails
<1>4. Stop(tail)
  BY <1>2, <1>3
<1> QED BY <1>4, StopTail DEF AbortSend

LEMMA StopAtTopTail == ASSUME TailInv, StopAtTop PROVE TailInv'
BY StopTail DEF StopAtTop

LEMMA EndPollTail == ASSUME TailInv, EndPoll PROVE TailInv'
<1>1. SameFile
  BY DEF SameFile, EndPoll
<1>2. PICK t, c : t = tail' /\ c = cursor'
  OBVIOUS
<1>3. tail \in Tails
  BY DEF TailInv, TailTypeOK
<1>4. \E pc \in {"stat", "ended"} : t = [tail EXCEPT !.n = 0, !.pc = pc] \/ t = [tail EXCEPT !.pc = pc]
  BY <1>2 DEF EndPoll
<1>5. t \in Tails /\ t.pc # "lines" /\ t.inc = tail.inc /\ t.offset = tail.offset /\ t.base = tail.base
  <2>1. PICK pc \in {"stat", "ended"} : t = [tail EXCEPT !.n = 0, !.pc = pc] \/ t = [tail EXCEPT !.pc = pc]
    BY <1>4
  <2>3. PICK u1 \in Tails : u1 = [tail EXCEPT !.n = 0]
    BY <1>3, TailFields
  <2>4. t = [u1 EXCEPT !.pc = pc] \/ t = [tail EXCEPT !.pc = pc]
    BY <2>1, <2>3
  <2>5. t \in Tails
    BY <1>3, <2>4, TailFields
  <2> QED BY <1>3, <2>1, <2>5 DEF Tails
<1>6. c = cursor \/ c = Saved(tail)
  BY <1>2 DEF EndPoll
<1>7. c = cursor \/ (c \in Cursors /\ c.offset = tail.offset /\ c.inc = tail.inc /\ c.base = tail.base)
  BY <1>6, SavedStands
<1>8. Sound(t)'
  BY <1>1, <1>5, StandsSound DEF EndPoll
<1> QED BY <1>1, <1>2, <1>5, <1>7, <1>8, TailStep DEF EndPoll, TailInv, TailTypeOK
\* The handler's steps leave the tail alone.
LEMMA HandleTail ==
  ASSUME TailInv, UNCHANGED <<cfg, file, cursor, tail, canceled, sent>>
  PROVE  TailInv'
BY DEF TailInv, TailTypeOK, Sound, Passed, Aligned, Buffered, Emittable

\* A crash leaves the cursor, which is sound on its own.
LEMMA CrashTail == ASSUME TailInv, Crash PROVE TailInv'
<1>1. SameFile /\ cfg' = cfg /\ canceled' \in BOOLEAN /\ tail' \in Tails /\ cursor' = cursor /\ file' = file
  BY DownTyped DEF Crash, SameFile
<1>2. tail'.pc = "down"
  BY DEF Crash, Down
<1>3. \E c \in Contents : file' \in [inc : Nat, content : {c.lines}, cuts : {c.cuts}, vis : Nat, born : Int]
  BY <1>1 DEF TailInv, TailTypeOK
<1> QED BY <1>1, <1>2, <1>3, TailStep

LEMMA StartTail == ASSUME TInit PROVE TailInv
<1>1. \E c \in Contents : file \in [inc : Nat, content : {c.lines}, cuts : {c.cuts}, vis : Nat, born : Int]
  <2>1. PICK c \in Contents : file = File(c)
    BY DEF TInit
  <2> QED BY <2>1 DEF File, Born
<1>2. tail \in Tails /\ tail.pc = "down"
  BY DownTyped, Zenon DEF TInit, Down
<1>3. TailTypeOK
  BY <1>1, <1>2 DEF TInit, TailTypeOK
<1> QED BY <1>2, <1>3 DEF TInit, TailInv

\* Every step of the pipeline keeps the tail's invariant.
LEMMA TailKept == TailInv /\ [PNext]_<<tvars, pvars, rows>> => TailInv'
<1> SUFFICES ASSUME TailInv, [PNext]_<<tvars, pvars, rows>> PROVE TailInv'
  OBVIOUS
<1>1. CASE Follow
  BY <1>1, LoadTail, StatTail, ReadTail, SkipLineTail, SendLineTail, AbortSendTail, EndPollTail, StopAtTopTail DEF Follow
<1>2. CASE World
  BY <1>2, GrowTail, ReplaceTail, BackdateTail, ReadFailsTail, CancelTail, GarbleTail DEF World
<1>3. CASE Handle
  BY <1>3, HandleTail DEF Handle, HandleAppend, HandleObserve, tvars
<1>4. CASE Crash
  BY <1>4, CrashTail
<1>5. CASE UNCHANGED <<tvars, pvars, rows>>
  BY <1>5, HandleTail DEF tvars
<1> QED BY <1>1, <1>2, <1>3, <1>4, <1>5 DEF PNext

\* For every rollout, configuration and number of faults: no record the tail has
\* passed on the file it follows is lost, whether a send was cancelled, a batch
\* ended, a line outgrew the poll, the file was replaced or the tail came back
\* from its cursor (adapter/codex_tail.go Events and readNew).
THEOREM TailSkipsNothing == PSpec => []NothingSkipped
<1>1. PInit => TailInv
  BY StartTail DEF PInit
<1>2. TailInv => NothingSkipped
  BY DEF TailInv, NothingSkipped, Sound, Passed, Emittable
<1> QED BY <1>1, <1>2, TailKept, PTL DEF PSpec
-----------------------------------------------------------------------------
(* The pipeline *)

\* The failure of an event is that of its type and its payload.
LEMMA FailureFrom ==
  ASSUME NEW e, NEW d, e.type = d.type, e.payload = d.payload
  PROVE  FailureOf(e) = FailureOf(d)
BY DEF FailureOf, ExtractFailureText

\* Every event the tail makes of a line is traced.
LEMMA MadeIsTraced ==
  ASSUME NEW l \in Lines, EventType(l) # "", NEW sid \in Sids, NEW gen \in Int, NEW of \in Nat
  PROVE  Traced(MakeEvent(sid, gen, l.end, EventType(l), l.text, <<of, l.end>>))
<1>1. PICK t : t = EventType(l)
  OBVIOUS
<1>2. t \in {"tool_call", "error"}
  BY <1>1 DEF EventType
<1>3. PICK p : p = Payload(t, l.text)
  OBVIOUS
<1>4. p \in Payloads
  BY <1>2, <1>3, Zenon DEF Payloads
<1>5. PICK s : s = IF sid = "" THEN "codex-unknown" ELSE sid
  OBVIOUS
<1>6. s \in Sessions
  BY <1>5, PipelineAssumption
<1>7. l.end \in Nat
  BY TailAssumption DEF Lines, WellFormed
<1>8. PICK e : e = [id |-> <<s, gen, l.end, t>>, session |-> s, seq |-> l.end, type |-> t, payload |-> p, rec |-> <<of, l.end>>]
  OBVIOUS
<1>9. e = MakeEvent(sid, gen, l.end, EventType(l), l.text, <<of, l.end>>)
  BY <1>1, <1>3, <1>5, <1>8 DEF MakeEvent, FormatEventID
<1>10. e \in Events
  BY <1>2, <1>4, <1>6, <1>7, <1>8 DEF Events
<1>11. FailureOf(e) = FailureOf([type |-> t, payload |-> p])
  BY <1>8, FailureFrom
<1>12. FailureOf(e) \in Fingerprints \union {""}
  BY <1>1, <1>3, <1>11, PipelineAssumption
<1>13. Traced(e)
  BY <1>8, <1>10, <1>12 DEF Traced
<1> QED BY <1>9, <1>13

\* A queue without its head.
LEMMA RestOfSeq ==
  ASSUME NEW S, NEW q \in Seq(S), q # <<>>
  PROVE  LET t == SubSeq(q, 2, Len(q))
         IN  t \in Seq(S) /\ Len(t) = Len(q) - 1 /\ \A i \in 1..Len(t) : t[i] = q[i + 1]
BY TailIsSubSeq, HeadTailProperties

\* The channel holds traced events only.
LEMMA ChannelKept == TailInv /\ ChannelInv /\ [PNext]_<<tvars, pvars, rows>> => ChannelInv'
<1> SUFFICES ASSUME TailInv, ChannelInv, [PNext]_<<tvars, pvars, rows>> PROVE ChannelInv'
  OBVIOUS
<1>1. CASE UNCHANGED chan
  BY <1>1 DEF ChannelInv
<1>2. CASE SendLine
  <2>1. PICK l \in tail.buf :
          /\ Emits(l, tail.offset)
          /\ chan' = Append(chan, MakeEvent(tail.sid, tail.gen, l.end, EventType(l), l.text, <<tail.of, l.end>>))
    BY <1>2 DEF SendLine
  <2>2. PICK e : e = MakeEvent(tail.sid, tail.gen, l.end, EventType(l), l.text, <<tail.of, l.end>>)
    OBVIOUS
  <2>3. l \in Lines /\ tail.sid \in Sids /\ tail.gen \in Int /\ tail.of \in Nat
    BY DEF TailInv, TailTypeOK, Tails
  <2>4. Traced(e)
    BY <2>1, <2>2, <2>3, MadeIsTraced DEF Emits
  <2>5. e \in Events
    BY <2>4 DEF Traced
  <2>6. chan' = Append(chan, e) /\ chan \in Seq(Events)
    BY <2>1, <2>2 DEF ChannelInv
  <2>7. chan' \in Seq(Events) /\ \A i \in 1..Len(chan') : chan'[i] = e \/ (i \in 1..Len(chan) /\ chan'[i] = chan[i])
    BY <2>5, <2>6
  <2> QED BY <2>4, <2>7 DEF ChannelInv
<1>3. CASE HandleAppend
  <2>1. chan' = SubSeq(chan, 2, Len(chan)) /\ chan \in Seq(Events) /\ chan # <<>>
    BY <1>3 DEF HandleAppend, ChannelInv
  <2>2. chan' \in Seq(Events) /\ Len(chan') = Len(chan) - 1 /\ \A i \in 1..Len(chan') : chan'[i] = chan[i + 1]
    BY <2>1, RestOfSeq
  <2>3. \A i \in 1..Len(chan') : i + 1 \in 1..Len(chan)
    BY <2>1, <2>2
  <2> QED BY <2>2, <2>3 DEF ChannelInv
<1>4. CASE Crash
  <2>1. chan' = <<>>
    BY <1>4, SMTT(30) DEF Crash
  <2>2. <<>> \in Seq(Events) /\ Len(<<>>) = 0
    BY SMTT(30)
  <2> QED BY <2>1, <2>2 DEF ChannelInv
<1>5. CASE Follow \/ World
  BY <1>1, <1>2, <1>5 DEF Follow, World, Load, Stat, Read, SkipLine, AbortSend, EndPoll, StopAtTop,
                          Grow, Replace, Backdate, ReadFails, Cancel, Garble
<1> QED BY <1>1, <1>3, <1>4, <1>5 DEF PNext, Handle, HandleObserve, tvars

\* The reports of a failure are finitely many.
LEMMA ReportsFinite ==
  ASSUME RowsInv, NEW s, NEW fp
  PROVE  IsFiniteSet(Reports(s, fp)) /\ Cardinality(Reports(s, fp)) \in Nat
<1>1. Reports(s, fp) \subseteq rows /\ IsFiniteSet(rows)
  BY DEF Reports, RowsInv
<1>2. IsFiniteSet(Reports(s, fp))
  BY <1>1, FS_Subset
<1> QED BY <1>2, FS_CardinalityType

\* A new row is one report more of its failure and of no other.
LEMMA ReportAdded ==
  ASSUME RowsInv, NEW e, e \notin rows, rows' = rows \union {e}, NEW s, NEW fp
  PROVE  Cardinality(Reports(s, fp)') = Cardinality(Reports(s, fp)) + (IF e.session = s /\ FailureOf(e) = fp THEN 1 ELSE 0)
<1>1. IsFiniteSet(Reports(s, fp)) /\ e \notin Reports(s, fp) /\ Cardinality(Reports(s, fp)) \in Nat
  BY ReportsFinite DEF Reports
<1>2. CASE e.session = s /\ FailureOf(e) = fp
  <2>1. Reports(s, fp)' = Reports(s, fp) \union {e}
    BY <1>2 DEF Reports
  <2> QED BY <1>1, <1>2, <2>1, FS_AddElement, ZenonT(60)
<1>3. CASE ~(e.session = s /\ FailureOf(e) = fp)
  <2>1. Reports(s, fp)' = Reports(s, fp)
    BY <1>3 DEF Reports
  <2> QED BY <1>1, <1>3, <2>1
<1> QED BY <1>2, <1>3
\* What the store makes of one event, and what the handler does next.
LEMMA AppendOutcome ==
  ASSUME NEW tab, NEW e
  PROVE  \/ /\ InsertOne(tab, e).tab = tab \union {e} /\ AfterAppend(InsertOne(tab, e), e) = [pc |-> "observe", ev |-> e]
            /\ ~\E r \in tab : r.session = e.session /\ r.seq = e.seq
         \/ InsertOne(tab, e).tab = tab /\ AfterAppend(InsertOne(tab, e), e) = Idle
<1>1. CASE \E r \in tab : r.session = e.session /\ r.seq = e.seq
  <2>1. Conflict(tab, e) = "uniq_session_seq"
    BY <1>1 DEF Conflict
  <2> QED BY <2>1 DEF InsertOne, AfterAppend, MapWriteErr, MapSQLiteError, Domain
<1>2. CASE ~(\E r \in tab : r.session = e.session /\ r.seq = e.seq) /\ \E r \in tab : r.id = e.id
  <2>1. Conflict(tab, e) = "primary_key"
    BY <1>2 DEF Conflict
  <2> QED BY <2>1 DEF InsertOne, AfterAppend, MapWriteErr, MapSQLiteError, Domain
<1>3. CASE ~(\E r \in tab : r.session = e.session /\ r.seq = e.seq) /\ ~\E r \in tab : r.id = e.id
  <2>1. Conflict(tab, e) = "none"
    BY <1>3 DEF Conflict
  <2>2. MapWriteErr("none", FALSE, FALSE) = "none"
    BY DEF MapWriteErr, MapSQLiteError, Domain, WrapDBErr
  <2> QED BY <1>3, <2>1, <2>2 DEF InsertOne, AfterAppend
<1> QED BY <1>1, <1>2, <1>3

\* The part of the invariant that the handler keeps.
HandlerInv == RowsInv /\ CountInv /\ SignalInv

\* A step that leaves the rows and the detector alone, and awaits nothing new.
LEMMA HandlerQuiet ==
  ASSUME HandlerInv, UNCHANGED <<rows, counts, signals>>, handler' = handler \/ handler' = Idle
  PROVE  HandlerInv'
<1>1. RowsInv' /\ SignalInv'
  BY DEF HandlerInv, RowsInv, SignalInv, Reports
<1>2. \A s, fp : Reports(s, fp)' = Reports(s, fp)
  BY DEF Reports
<1>3. CASE handler' = handler
  <2>1. \A s, fp : Awaited(s, fp)' => Awaited(s, fp)
    BY <1>3 DEF Awaited
  <2> QED BY <1>1, <1>2, <1>3, <2>1 DEF HandlerInv, CountInv
<1>4. CASE handler' = Idle
  <2>1. handler'.pc = "idle"
    BY <1>4 DEF Idle
  <2>2. \A s, fp : ~Awaited(s, fp)'
    BY <2>1 DEF Awaited
  <2> QED BY <1>1, <1>2, <2>1, <2>2 DEF HandlerInv, CountInv
<1> QED BY <1>3, <1>4

\* The append stores a new record and awaits its observation, or drops the event.
LEMMA AppendKept == ASSUME ChannelInv, HandlerInv, HandleAppend PROVE HandlerInv'
<1>1. PICK e : e = chan[1]
  OBVIOUS
<1>2. Traced(e) /\ handler.pc = "idle"
  <2>1. chan \in Seq(Events) /\ chan # <<>>
    BY DEF ChannelInv, HandleAppend
  <2>2. 1 \in 1..Len(chan)
    BY <2>1
  <2> QED BY <1>1, <2>2 DEF ChannelInv, HandleAppend
<1>3. rows' = InsertOne(rows, e).tab /\ handler' = AfterAppend(InsertOne(rows, e), e) /\ UNCHANGED <<counts, signals>>
  BY <1>1 DEF HandleAppend
<1>4. CASE rows' = rows /\ handler' = Idle
  BY <1>3, <1>4, HandlerQuiet
<1>5. CASE /\ rows' = rows \union {e} /\ handler' = [pc |-> "observe", ev |-> e]
           /\ ~\E r \in rows : r.session = e.session /\ r.seq = e.seq
  <2>1. e \notin rows
    BY <1>5
  <2>2. RowsInv'
    <3>1. IsFiniteSet(rows')
      BY <1>5, FS_AddElement DEF HandlerInv, RowsInv
    <3>2. \A r \in rows' : Traced(r)
      BY <1>2, <1>5 DEF HandlerInv, RowsInv
    <3>3. \A a, b \in rows' : a.session = b.session /\ a.seq = b.seq => a = b
      BY <1>5 DEF HandlerInv, RowsInv
    <3> QED BY <3>1, <3>2, <3>3 DEF RowsInv
  <2>3. ASSUME NEW s, NEW fp
        PROVE  /\ Cardinality(Reports(s, fp)) \in Nat
               /\ Cardinality(Reports(s, fp)') = Cardinality(Reports(s, fp)) + (IF e.session = s /\ FailureOf(e) = fp THEN 1 ELSE 0)
    BY <1>5, <2>1, ReportsFinite, ReportAdded DEF HandlerInv
  <2>4. CountInv'
    <3>1. handler'.pc = "observe" /\ handler'.ev = e /\ e \in rows'
      BY <1>5
    <3>2. counts' = counts /\ counts \in [Sessions -> [Fingerprints -> Nat]]
      BY <1>3 DEF HandlerInv, CountInv
    <3>3. ASSUME NEW s \in Sessions, NEW fp \in Fingerprints
          PROVE  /\ counts'[s][fp] <= Cardinality(Reports(s, fp)')
                 /\ Awaited(s, fp)' => counts'[s][fp] + 1 <= Cardinality(Reports(s, fp)')
      <4>1. counts[s][fp] \in Nat /\ counts[s][fp] <= Cardinality(Reports(s, fp))
        BY <3>2 DEF HandlerInv, CountInv
      <4>2. Awaited(s, fp)' => e.session = s /\ FailureOf(e) = fp
        BY <3>1 DEF Awaited
      <4> QED BY <2>3, <3>2, <4>1, <4>2
    <3> QED BY <3>1, <3>2, <3>3 DEF CountInv
  <2>5. SignalInv'
    <3> SUFFICES ASSUME NEW sg \in signals PROVE Cardinality(Reports(sg[1], sg[2])') >= Threshold
      BY <1>3 DEF SignalInv
    <3>1. Cardinality(Reports(sg[1], sg[2])) >= Threshold
      BY DEF HandlerInv, SignalInv
    <3>2. Threshold \in Nat
      BY Zenon, PipelineAssumption
    <3> QED BY <2>3, <3>1, <3>2
  <2> QED BY <2>2, <2>4, <2>5 DEF HandlerInv
<1> QED BY <1>3, <1>4, <1>5, AppendOutcome

\* The detector counts the awaited report, which is stored already.
LEMMA ObserveKept == ASSUME HandlerInv, HandleObserve PROVE HandlerInv'
<1>1. PICK e : e = handler.ev
  OBVIOUS
<1>2. e \in rows /\ Traced(e) /\ handler.pc = "observe"
  BY <1>1 DEF HandlerInv, CountInv, RowsInv, HandleObserve
<1>3. PICK s : s = e.session
  OBVIOUS
<1>4. PICK fp : fp = FailureOf(e)
  OBVIOUS
<1>5. s \in Sessions /\ fp \in Fingerprints \union {""}
  BY <1>2, <1>3, <1>4 DEF Traced, Events
<1>6. PICK r : r = ObserveFailure(counts[s], fp, Threshold)
  OBVIOUS
<1>7. /\ handler' = Idle /\ rows' = rows /\ counts' = [counts EXCEPT ![s] = r.counts]
      /\ signals' = IF r.fired THEN signals \union {<<s, fp>>} ELSE signals
  BY <1>1, <1>3, <1>4, <1>6 DEF HandleObserve
<1>8. counts \in [Sessions -> [Fingerprints -> Nat]]
  BY DEF HandlerInv, CountInv
<1>9. CASE fp = ""
  <2>1. r.counts = counts[s] /\ ~r.fired
    BY <1>6, <1>9 DEF ObserveFailure, Blank
  <2>2. counts' = counts /\ signals' = signals
    BY <1>5, <1>7, <1>8, <2>1
  <2> QED BY <1>7, <2>2, HandlerQuiet
<1>10. CASE fp # ""
  <2>1. fp \in Fingerprints
    BY <1>5, <1>10, Zenon
  <2>11. s \in Sessions
    BY <1>5, Zenon
  <2>12. counts[s][fp] \in Nat
    BY <1>8, <2>1, <2>11
  <2>2. PICK n : n = counts[s][fp] + 1
    OBVIOUS
  <2>3. r.counts = [counts[s] EXCEPT ![fp] = n] /\ (r.fired <=> n >= Threshold)
    BY <1>6, <1>10, <2>2 DEF ObserveFailure, Blank
  <2>4. n \in Nat /\ n <= Cardinality(Reports(s, fp))
    <3>1. Awaited(s, fp)
      BY <1>1, <1>2, <1>3, <1>4 DEF Awaited
    <3> QED BY <2>11, <2>12, <2>1, <2>2, <3>1 DEF HandlerInv, CountInv
  <2>5. counts' \in [Sessions -> [Fingerprints -> Nat]]
    <3>1. r.counts \in [Fingerprints -> Nat]
      BY <2>11, <1>8, <2>1, <2>3, <2>4
    <3> QED BY <2>11, <1>7, <1>8, <3>1
  <2>6. ASSUME NEW s1 \in Sessions, NEW f1 \in Fingerprints
        PROVE  counts'[s1][f1] <= Cardinality(Reports(s1, f1))
    <3>1. counts[s1][f1] <= Cardinality(Reports(s1, f1))
      BY DEF HandlerInv, CountInv
    <3>2. CASE s1 = s /\ f1 = fp
      BY <2>11, <1>7, <1>8, <2>1, <2>3, <2>4, <3>2
    <3>3. CASE ~(s1 = s /\ f1 = fp)
      BY <2>11, <1>7, <1>8, <2>1, <2>3, <3>1, <3>3
    <3> QED BY <3>2, <3>3
  <2>7. \A s1, f1 : Reports(s1, f1)' = Reports(s1, f1)
    BY <1>7 DEF Reports
  <2>8. CountInv'
    <3>1. handler'.pc = "idle"
      BY <1>7 DEF Idle
    <3>2. \A s1 \in Sessions, f1 \in Fingerprints : ~Awaited(s1, f1)'
      BY <3>1 DEF Awaited
    <3> QED BY <2>5, <2>6, <2>7, <3>1, <3>2 DEF CountInv
  <2>9. SignalInv'
    <3>1. \A sg \in signals' : Cardinality(Reports(sg[1], sg[2])) >= Threshold
      <4>1. Cardinality(Reports(s, fp)) \in Nat
        BY ReportsFinite DEF HandlerInv
      <4>2. r.fired => Cardinality(Reports(s, fp)) >= Threshold
        <5>1. Threshold \in Nat
          BY Zenon, PipelineAssumption
        <5> QED BY <2>3, <2>4, <4>1, <5>1
      <4> QED BY <1>7, <4>2 DEF HandlerInv, SignalInv
    <3> QED BY <2>7, <3>1 DEF SignalInv
  <2>10. RowsInv'
    BY <1>7 DEF HandlerInv, RowsInv
  <2> QED BY <2>8, <2>9, <2>10 DEF HandlerInv
<1> QED BY <1>9, <1>10

\* After a crash the detector starts from nothing; the rows are the same.
LEMMA CrashKept == ASSUME HandlerInv, Crash PROVE HandlerInv'
<1>1. handler' = Idle /\ counts' = NoCounts /\ UNCHANGED <<rows, signals>>
  BY DEF Crash
<1>2. RowsInv' /\ SignalInv'
  BY <1>1 DEF HandlerInv, RowsInv, SignalInv, Reports
<1>3. counts' \in [Sessions -> [Fingerprints -> Nat]] /\ \A s \in Sessions, fp \in Fingerprints : counts'[s][fp] = 0
  BY <1>1 DEF NoCounts, Zero
<1>4. \A s, fp : Reports(s, fp)' = Reports(s, fp) /\ Cardinality(Reports(s, fp)) \in Nat
  BY <1>1, ReportsFinite DEF Reports, HandlerInv
<1>5. handler'.pc = "idle"
  BY <1>1 DEF Idle
<1>6. CountInv'
  BY <1>3, <1>4, <1>5 DEF CountInv, Awaited
<1> QED BY <1>2, <1>6 DEF HandlerInv
LEMMA PipelineStep == PipelineInv /\ [PNext]_<<tvars, pvars, rows>> => PipelineInv'
<1> SUFFICES ASSUME PipelineInv, [PNext]_<<tvars, pvars, rows>> PROVE PipelineInv'
  OBVIOUS
<1>1. TailInv' /\ ChannelInv'
  BY TailKept, ChannelKept DEF PipelineInv
<1>2. HandlerInv
  BY DEF PipelineInv, HandlerInv
<1>3. HandlerInv'
  <2>1. CASE UNCHANGED <<pvars, rows>>
    BY <1>2, <2>1, HandlerQuiet DEF pvars
  <2> QED BY <1>2, <2>1, AppendKept, ObserveKept, CrashKept DEF PNext, Handle, PipelineInv
<1> QED BY <1>1, <1>3 DEF PipelineInv, HandlerInv

\* Different reports of a session come from different records.
LEMMA RecordsDiffer ==
  ASSUME RowsInv, NEW s, NEW fp
  PROVE  Cardinality({ r.rec : r \in Reports(s, fp) }) = Cardinality(Reports(s, fp))
<1> DEFINE R == Reports(s, fp)
           T == { r.rec : r \in R }
           f == [r \in R |-> r.rec]
<1>1. IsFiniteSet(R)
  BY ReportsFinite
<1>2. f \in Surjection(R, T)
  BY DEF Surjection
<1>3. \A a, b \in R : f[a] = f[b] => a = b
  <2> SUFFICES ASSUME NEW a \in R, NEW b \in R, a.rec = b.rec PROVE a = b
    OBVIOUS
  <2>1. a \in rows /\ b \in rows /\ a.session = b.session
    BY DEF Reports
  <2>2. a.seq = b.seq
    <3>1. a.rec[2] = a.seq /\ b.rec[2] = b.seq
      BY <2>1 DEF RowsInv, Traced
    <3> QED BY <3>1
  <2> QED BY <2>1, <2>2 DEF RowsInv
<1>4. f \in Bijection(R, T)
  <2>1. f \in [R -> T] /\ (\A t \in T : \E r \in R : f[r] = t)
    BY <1>2 DEF Surjection
  <2> HIDE DEF R, T, f
  <2> QED BY <1>3, <2>1 DEF Bijection, Injection, Surjection, IsInjective
<1>5. ExistsBijection(R, T)
  BY <1>4 DEF ExistsBijection
<1> HIDE DEF R, T, f
<1>6. Cardinality(T) = Cardinality(R)
  BY <1>1, <1>5, FS_Bijection
<1> QED BY <1>6 DEF R, T

\* For every rollout, threshold and number of crashes: a signal of repeated
\* failure rests on that many different stored records of its session, however
\* often the tail emitted one of them again (supervisor HandleEvent, the store's
\* unique sequence and RepeatedFailureDetector.Observe).
THEOREM SignalsAreEarned == PSpec => []SignalEarned
<1>1. PInit /\ rows = {} => PipelineInv
  <2> SUFFICES ASSUME PInit, rows = {} PROVE PipelineInv
    OBVIOUS
  <2>1. TailInv
    BY StartTail DEF PInit
  <2>2. ChannelInv
    <3>1. chan = <<>> /\ <<>> \in Seq(Events) /\ Len(<<>>) = 0
      BY DEF PInit, TInit
    <3> QED BY <3>1 DEF ChannelInv
  <2>3. RowsInv
    BY FS_EmptySet DEF RowsInv
  <2>4. CountInv
    <3>1. handler.pc = "idle"
      BY DEF PInit, Idle
    <3>2. counts \in [Sessions -> [Fingerprints -> Nat]] /\ \A s \in Sessions, fp \in Fingerprints : counts[s][fp] = 0
      BY DEF PInit, NoCounts, Zero
    <3>3. \A s, fp : Cardinality(Reports(s, fp)) \in Nat
      BY <2>3, ReportsFinite
    <3> QED BY <3>1, <3>2, <3>3 DEF CountInv, Awaited
  <2>5. SignalInv
    BY DEF PInit, SignalInv
  <2> QED BY <2>1, <2>2, <2>3, <2>4, <2>5 DEF PipelineInv
<1>2. PipelineInv => SignalEarned
  BY RecordsDiffer DEF PipelineInv, SignalInv, SignalEarned
<1> QED BY <1>1, <1>2, PipelineStep, PTL DEF PSpec
-----------------------------------------------------------------------------
(* The detectors *)

\* g is the history h with the observation o at its end.
Follows(h, g, o) == /\ Len(h) \in Nat /\ Len(g) = Len(h) + 1
                    /\ g[Len(g)] = o /\ \A i \in 1..Len(h) : g[i] = h[i]

LEMMA AppendFollows ==
  ASSUME NEW S, NEW h \in Seq(S), NEW o \in S
  PROVE  Follows(h, Append(h, o), o) /\ Append(h, o) \in Seq(S)
BY AppendProperties DEF Follows

\* What a reset hides and what another observation adds.
LEMMA SinceFollows ==
  ASSUME NEW h, NEW g, NEW o, Follows(h, g, o)
  PROVE  /\ Since(h) \subseteq 1..Len(h)
         /\ o.kind = "reset" => Since(g) = {}
         /\ o.kind # "reset" => Since(g) = Since(h) \union {Len(g)}
<1>1. ASSUME NEW i \in 1..Len(g), o.kind = "reset" PROVE g[Len(g)].kind = "reset" /\ Len(g) \in i..Len(g)
  BY <1>1 DEF Follows
<1>2. o.kind = "reset" => Since(g) = {}
  BY <1>1 DEF Since
<1>3. ASSUME NEW i \in 1..Len(h), o.kind # "reset" PROVE i \in Since(g) <=> i \in Since(h)
  <2>1. i..Len(g) = (i..Len(h)) \union {Len(g)} /\ i \in 1..Len(g)
    BY DEF Follows
  <2>2. \A j \in i..Len(h) : g[j] = h[j]
    BY DEF Follows
  <2> QED BY <1>3, <2>1, <2>2 DEF Since, Follows
<1>4. ASSUME o.kind # "reset" PROVE Len(g) \in Since(g)
  <2>1. Len(g)..Len(g) = {Len(g)} /\ Len(g) \in 1..Len(g)
    BY DEF Follows
  <2> QED BY <1>4, <2>1 DEF Since, Follows
<1>5. Since(g) \subseteq (1..Len(h)) \union {Len(g)} /\ Since(h) \subseteq 1..Len(h)
  BY DEF Since, Follows
<1> QED BY <1>2, <1>3, <1>4, <1>5

LEMMA KindFollows ==
  ASSUME NEW h, NEW g, NEW o, Follows(h, g, o), NEW k
  PROVE  /\ Kind(h, k) \subseteq 1..Len(h)
         /\ o.kind = "reset" => Kind(g, k) = {}
         /\ o.kind \notin {"reset", k} => Kind(g, k) = Kind(h, k)
         /\ o.kind # "reset" /\ o.kind = k => Kind(g, k) = Kind(h, k) \union {Len(g)}
<1>1. \A i \in Since(h) : g[i] = h[i]
  BY SinceFollows DEF Follows
<1>2. g[Len(g)] = o
  BY DEF Follows
<1> QED BY <1>1, <1>2, SinceFollows DEF Kind

LEMMA AlikeFollows ==
  ASSUME NEW h, NEW g, NEW o, Follows(h, g, o), NEW k, NEW f
  PROVE  /\ Alike(h, k, f) \subseteq 1..Len(h)
         /\ o.kind = "reset" => Alike(g, k, f) = {}
         /\ o.kind # "reset" /\ ~(o.kind = k /\ Fp(o) = f) => Alike(g, k, f) = Alike(h, k, f)
         /\ o.kind # "reset" /\ o.kind = k /\ Fp(o) = f => Alike(g, k, f) = Alike(h, k, f) \union {Len(g)}
<1>1. \A i \in Kind(h, k) : g[i] = h[i]
  BY KindFollows DEF Follows
<1>2. g[Len(g)] = o
  BY DEF Follows
<1> QED BY <1>1, <1>2, KindFollows DEF Alike

\* The next index counts one more.
LEMMA NextCounts ==
  ASSUME NEW h, NEW g, NEW o, Follows(h, g, o), NEW A, A \subseteq 1..Len(h)
  PROVE  /\ IsFiniteSet(A) /\ Cardinality(A) \in Nat
         /\ \A B : B = A \union {Len(g)} => Cardinality(B) = Cardinality(A) + 1
         /\ \A B : B = {Len(g)} => Cardinality(B) = 1
<1>1. IsFiniteSet(1..Len(h))
  BY FS_Interval DEF Follows
<1>2. IsFiniteSet(A) /\ Cardinality(A) \in Nat
  BY <1>1, FS_Subset, FS_CardinalityType
<1>3. Len(g) \notin A
  BY DEF Follows
<1> QED BY <1>2, <1>3, FS_AddElement, FS_Singleton, ZenonT(60)

LEMMA ToolRunFollows ==
  ASSUME NEW h, NEW g, NEW o, Follows(h, g, o)
  PROVE  /\ ToolRun(h) \subseteq 1..Len(h)
         /\ o.kind = "reset" => ToolRun(g) = {}
         /\ o.kind \notin {"reset", "event"} => ToolRun(g) = ToolRun(h)
         /\ o.kind = "event" /\ o.type = "tool_call" => ToolRun(g) = ToolRun(h) \union {Len(g)}
         /\ o.kind = "event" /\ o.type \in Progress => ToolRun(g) = {}
         /\ o.kind = "event" /\ o.type \notin Progress \union {"tool_call"} => ToolRun(g) = ToolRun(h)
<1>1. \A i \in Kind(h, "event") : g[i] = h[i] /\ i \in Nat /\ i < Len(g)
  BY KindFollows DEF Follows
<1>2. g[Len(g)] = o /\ Len(g) \in Nat
  BY DEF Follows
<1>3. "tool_call" \notin Progress
  BY DEF Progress
<1>4. ToolRun(h) \subseteq 1..Len(h)
  BY KindFollows DEF ToolRun
<1>5. CASE o.kind = "reset"
  BY <1>5, KindFollows, <1>4 DEF ToolRun
<1>6. CASE o.kind \notin {"reset", "event"}
  <2>1. Kind(g, "event") = Kind(h, "event")
    BY <1>6, KindFollows
  <2> QED BY <1>1, <1>4, <1>6, <2>1 DEF ToolRun
<1>7. CASE o.kind = "event"
  <2>1. Kind(g, "event") = Kind(h, "event") \union {Len(g)}
    BY <1>7, KindFollows
  <2>2. CASE o.type = "tool_call"
    BY <1>1, <1>2, <1>3, <1>4, <1>7, <2>1, <2>2 DEF ToolRun
  <2>3. CASE o.type \in Progress
    BY <1>1, <1>2, <1>3, <1>4, <1>7, <2>1, <2>3 DEF ToolRun
  <2>4. CASE o.type \notin Progress \union {"tool_call"}
    BY <1>1, <1>2, <1>4, <1>7, <2>1, <2>4 DEF ToolRun
  <2> QED BY <1>4, <1>7, <2>2, <2>3, <2>4
<1> QED BY <1>5, <1>6, <1>7

LEMMA StandingFollows ==
  ASSUME NEW h, NEW g, NEW o, Follows(h, g, o)
  PROVE  /\ Standing(h) \subseteq 1..Len(h)
         /\ o.kind = "reset" => Standing(g) = {}
         /\ o.kind \notin {"reset", "validate"} => Standing(g) = Standing(h)
         /\ o.kind = "validate" /\ ~Succeeded(o) => Standing(g) = Standing(h)
         /\ o.kind = "validate" /\ Succeeded(o) /\ ~o.attempt.workspaceChanged =>
              Standing(g) = Standing(h) \union {Len(g)}
         /\ o.kind = "validate" /\ Succeeded(o) /\ o.attempt.workspaceChanged => Standing(g) = {Len(g)}
<1>1. \A i \in Kind(h, "validate") : g[i] = h[i] /\ i \in Nat /\ i < Len(g)
  BY KindFollows DEF Follows
<1>2. g[Len(g)] = o /\ Len(g) \in Nat
  BY DEF Follows
<1>3. Standing(h) \subseteq 1..Len(h)
  BY KindFollows DEF Standing
<1>4. CASE o.kind = "reset"
  BY <1>4, KindFollows, <1>3 DEF Standing
<1>5. CASE o.kind \notin {"reset", "validate"}
  <2>1. Kind(g, "validate") = Kind(h, "validate")
    BY <1>5, KindFollows
  <2> QED BY <1>1, <1>3, <1>5, <2>1 DEF Standing
<1>6. CASE o.kind = "validate"
  <2>1. Kind(g, "validate") = Kind(h, "validate") \union {Len(g)}
    BY <1>6, KindFollows
  <2>2. CASE ~Succeeded(o)
    BY <1>1, <1>2, <1>3, <1>6, <2>1, <2>2 DEF Standing
  <2>3. CASE Succeeded(o) /\ ~o.attempt.workspaceChanged
    BY <1>1, <1>2, <1>3, <1>6, <2>1, <2>3 DEF Standing
  <2>4. CASE Succeeded(o) /\ o.attempt.workspaceChanged
    BY <1>1, <1>2, <1>3, <1>6, <2>1, <2>4 DEF Standing
  <2> QED BY <1>3, <1>6, <2>2, <2>3, <2>4
<1> QED BY <1>4, <1>5, <1>6

\* What was known below an index is known there still.
LEMMA KnownBelow ==
  ASSUME NEW h, NEW g, NEW o, Follows(h, g, o), NEW f, o.kind # "reset", NEW n \in 1..Len(g)
  PROVE  Known(g, f, n) = Known(h, f, n)
<1> DEFINE A == Alike(h, "hypothesis", f)
           B == Alike(g, "hypothesis", f)
<1>1. A \subseteq 1..Len(h) /\ A \subseteq B /\ B \subseteq A \union {Len(g)}
  BY AlikeFollows
<1>2. \A i \in A : g[i] = h[i] /\ i \in Nat /\ i < Len(g)
  BY <1>1 DEF Follows
<1>3. { j \in B : j < n } = { j \in A : j < n }
  BY <1>1, <1>2 DEF Follows
<1>4. { g[j].ids : j \in { j \in B : j < n } } = { h[j].ids : j \in { j \in A : j < n } }
  BY <1>2, <1>3
<1> QED BY <1>4, Zenon DEF Known

\* The last observation adds its own evidence.
LEMMA KnownNext ==
  ASSUME NEW h, NEW g, NEW o, Follows(h, g, o), NEW f, o.kind # "reset"
  PROVE  /\ o.kind = "hypothesis" /\ Fp(o) = f => Known(g, f, Len(g) + 1) = Known(h, f, Len(g)) \union o.ids
         /\ ~(o.kind = "hypothesis" /\ Fp(o) = f) => Known(g, f, Len(g) + 1) = Known(h, f, Len(g))
<1> DEFINE A == Alike(h, "hypothesis", f)
           B == Alike(g, "hypothesis", f)
<1>1. A \subseteq 1..Len(h) /\ A \subseteq B /\ B \subseteq A \union {Len(g)}
  BY AlikeFollows
<1>2. \A i \in A : g[i] = h[i] /\ i \in Nat /\ i < Len(g)
  BY <1>1 DEF Follows
<1>3. g[Len(g)] = o /\ Len(g) \in Nat
  BY DEF Follows
<1>5. { j \in A : j < Len(g) } = A
  BY <1>2
<1>6. { j \in B : j < Len(g) + 1 } = B
  BY <1>1, <1>2, <1>3
<1>7. PICK Y : Y = { h[j].ids : j \in A }
  OBVIOUS
<1>8. PICK X : X = { g[j].ids : j \in B }
  OBVIOUS
<1>9. Known(h, f, Len(g)) = {Blank} \union UNION Y
  BY <1>5, <1>7, Zenon DEF Known
<1>10. Known(g, f, Len(g) + 1) = {Blank} \union UNION X
  BY <1>6, <1>8, Zenon DEF Known
<1>11. ASSUME o.kind = "hypothesis", Fp(o) = f PROVE Known(g, f, Len(g) + 1) = Known(h, f, Len(g)) \union o.ids
  <2>1. B = A \union {Len(g)}
    BY <1>11, AlikeFollows
  <2>2. X = Y \union {o.ids}
    BY <1>2, <1>3, <1>7, <1>8, <2>1
  <2>3. UNION X = (UNION Y) \union o.ids
    BY ONLY <2>2
  <2> QED BY ONLY <1>9, <1>10, <2>3
<1>12. ASSUME ~(o.kind = "hypothesis" /\ Fp(o) = f) PROVE Known(g, f, Len(g) + 1) = Known(h, f, Len(g))
  <2>1. B = A
    BY <1>12, AlikeFollows
  <2>2. X = Y
    BY <1>2, <1>7, <1>8, <2>1
  <2> QED BY ONLY <1>9, <1>10, <2>2
<1> QED BY <1>11, <1>12, Zenon

LEMMA EvidenceFollows ==
  ASSUME NEW h, NEW g, NEW o, Follows(h, g, o), o.kind # "reset"
  PROVE  /\ \A i \in 1..Len(h) : NewEvidence(g, i) <=> NewEvidence(h, i)
         /\ NewEvidence(g, Len(g)) <=> ~(o.ids \subseteq Known(h, Fp(o), Len(g)))
<1>1. ASSUME NEW i \in 1..Len(h) PROVE NewEvidence(g, i) <=> NewEvidence(h, i)
  <2>1. g[i] = h[i] /\ i \in 1..Len(g)
    BY DEF Follows
  <2>2. ASSUME NEW f PROVE Known(g, f, i) = Known(h, f, i)
    BY <2>1, KnownBelow
  <2>3. PICK x, K : x = h[i] /\ K = Known(h, Fp(h[i]), i)
    OBVIOUS
  <2>4. g[i] = x /\ Known(g, Fp(g[i]), i) = K
    BY <2>1, <2>2, <2>3, Zenon
  <2> QED BY ONLY <2>3, <2>4 DEF NewEvidence
<1>2. g[Len(g)] = o /\ Len(g) \in 1..Len(g)
  BY DEF Follows
<1>3. PICK K : K = Known(h, Fp(o), Len(g))
  OBVIOUS
<1>4. Known(g, Fp(g[Len(g)]), Len(g)) = K
  <2>1. ASSUME NEW f PROVE Known(g, f, Len(g)) = Known(h, f, Len(g))
    BY <1>2, KnownBelow
  <2> QED BY <1>2, <1>3, <2>1, Zenon
<1>5. NewEvidence(g, Len(g)) <=> ~(o.ids \subseteq K)
  BY ONLY <1>2, <1>4 DEF NewEvidence
<1> QED BY <1>1, <1>3, <1>5, Zenon

LEMMA RepeatedFollows ==
  ASSUME NEW h, NEW g, NEW o, Follows(h, g, o), NEW f
  PROVE  /\ Repeated(h, f) \subseteq 1..Len(h)
         /\ o.kind = "reset" => Repeated(g, f) = {}
         /\ o.kind # "reset" /\ ~(o.kind = "hypothesis" /\ Fp(o) = f) => Repeated(g, f) = Repeated(h, f)
         /\ o.kind = "hypothesis" /\ Fp(o) = f /\ ~NewEvidence(g, Len(g)) =>
              Repeated(g, f) = Repeated(h, f) \union {Len(g)}
         /\ o.kind = "hypothesis" /\ Fp(o) = f /\ NewEvidence(g, Len(g)) => Repeated(g, f) = {Len(g)}
<1> DEFINE A == Alike(h, "hypothesis", f)
           B == Alike(g, "hypothesis", f)
<1>1. A \subseteq 1..Len(h)
  BY AlikeFollows
<1>2. \A i \in A : i \in Nat /\ i < Len(g)
  BY <1>1 DEF Follows
<1>3. Len(g) \in Nat
  BY DEF Follows
<1>4. Repeated(h, f) \subseteq 1..Len(h)
  BY <1>1 DEF Repeated
<1>5. CASE o.kind = "reset"
  BY <1>5, AlikeFollows, <1>4 DEF Repeated
<1>6. CASE o.kind # "reset" /\ ~(o.kind = "hypothesis" /\ Fp(o) = f)
  <2>1. B = A
    BY <1>6, AlikeFollows
  <2>2. \A j \in A : NewEvidence(g, j) <=> NewEvidence(h, j)
    BY <1>1, <1>6, EvidenceFollows
  <2> QED BY <1>4, <1>6, <2>1, <2>2 DEF Repeated
<1>7. CASE o.kind = "hypothesis" /\ Fp(o) = f
  <2>1. B = A \union {Len(g)}
    BY <1>7, AlikeFollows
  <2>2. \A j \in A : NewEvidence(g, j) <=> NewEvidence(h, j)
    BY <1>1, <1>7, EvidenceFollows
  <2>3. CASE NewEvidence(g, Len(g))
    BY <1>2, <1>3, <1>4, <1>7, <2>1, <2>3 DEF Repeated
  <2>4. CASE ~NewEvidence(g, Len(g))
    BY <1>2, <1>3, <1>4, <1>7, <2>1, <2>2, <2>4 DEF Repeated
  <2> QED BY <1>4, <1>7, <2>3, <2>4
<1> QED BY <1>5, <1>6, <1>7

\* What a detector's observation makes of its counters.
LEMMA FailureCounted ==
  ASSUME NEW c \in [Fingerprints -> Nat], NEW f \in Fingerprints \union {Blank}, NEW r, r = ObserveFailure(c, f, Threshold)
  PROVE  /\ r.counts \in [Fingerprints -> Nat]
         /\ \A x \in Fingerprints \ {f, Blank} : r.counts[x] = c[x]
         /\ f # Blank => r.counts[f] = c[f] + 1
         /\ r.fired <=> f # Blank /\ r.counts[f] >= Threshold
<1>1. CASE f = Blank
  BY <1>1 DEF ObserveFailure
<1>2. CASE f # Blank
  <2>1. f \in Fingerprints /\ c[f] + 1 \in Nat
    BY <1>2
  <2>2. PICK n : n = c[f] + 1
    OBVIOUS
  <2>3. r.counts = [c EXCEPT ![f] = n] /\ (r.fired <=> n >= Threshold)
    BY <1>2, <2>2 DEF ObserveFailure
  <2>4. r.counts \in [Fingerprints -> Nat] /\ r.counts[f] = n /\ \A x \in Fingerprints \ {f} : r.counts[x] = c[x]
    BY <2>1, <2>2, <2>3
  <2> QED BY <1>2, <2>2, <2>3, <2>4, Zenon
<1> QED BY <1>1, <1>2

\* The marks stay while the validations that stand do.
LEMMA MarksKept ==
  ASSUME NEW h, NEW g, NEW o, Follows(h, g, o), o.kind \notin {"reset", "validate"} \/ (o.kind = "validate" /\ ~Succeeded(o))
  PROVE  Marks(g) = Marks(h)
<1>1. Standing(g) = Standing(h) /\ Standing(h) \subseteq 1..Len(h)
  BY StandingFollows
<1>2. \A i \in Standing(h) : g[i] = h[i]
  BY <1>1 DEF Follows
<1> QED BY <1>1, <1>2 DEF Marks

\* The other counters of the library, as a failure, a tool or a validation leaves
\* them; h and g differ in the last observation.
LEMMA FailureStep ==
  ASSUME NEW h, NEW g, NEW o \in Observations, Follows(h, g, o), NEW l, Counters(h, l), o.kind = "failure",
         NEW r, r = ObserveFailure(l.rf, Fp(o), Threshold), NEW m, m = [l EXCEPT !.rf = r.counts]
  PROVE  Counters(g, m) /\ (r.fired <=> CallsFor(g, o))
<1>1. Fp(o) \in Fingerprints \union {Blank}
  BY SignalAssumption
<1>2. /\ r.counts \in [Fingerprints -> Nat]
      /\ \A x \in Fingerprints \ {Fp(o), Blank} : r.counts[x] = l.rf[x]
      /\ Fp(o) # Blank => r.counts[Fp(o)] = l.rf[Fp(o)] + 1
      /\ r.fired <=> Fp(o) # Blank /\ r.counts[Fp(o)] >= Threshold
  BY <1>1, FailureCounted DEF Counters
<1>3. /\ DOMAIN m = DOMAIN l /\ m.rf = r.counts /\ m.tb = l.tb /\ m.vc = l.vc /\ m.hl = l.hl
  BY DEF Counters
<1>4. ASSUME NEW f \in Fingerprints \ {Blank} PROVE m.rf[f] = Cardinality(Alike(g, "failure", f))
  <2>1. Alike(h, "failure", f) \subseteq 1..Len(h) /\ l.rf[f] = Cardinality(Alike(h, "failure", f))
    BY <1>4, AlikeFollows DEF Counters
  <2>2. CASE f = Fp(o)
    <3>1. Alike(g, "failure", f) = Alike(h, "failure", f) \union {Len(g)}
      BY <2>2, AlikeFollows
    <3>2. Cardinality(Alike(g, "failure", f)) = Cardinality(Alike(h, "failure", f)) + 1
      BY <2>1, <3>1, NextCounts
    <3>3. m.rf[f] = l.rf[f] + 1
      BY <1>2, <1>3, <2>2
    <3> QED BY <2>1, <3>2, <3>3
  <2>3. CASE f # Fp(o)
    <3>1. Alike(g, "failure", f) = Alike(h, "failure", f)
      BY <2>3, AlikeFollows
    <3> QED BY <1>2, <1>3, <2>1, <2>3, <3>1
  <2> QED BY <2>2, <2>3
<1>5. Counters(g, m)
  <2>1. ASSUME NEW f \in Fingerprints \ {Blank}
        PROVE  m.hl.counts[f] = Cardinality(Repeated(g, f)) /\ m.hl.seen[f] = Known(g, f, Len(g) + 1) \ {Blank}
    <3>1. Repeated(g, f) = Repeated(h, f) /\ Known(g, f, Len(g) + 1) = Known(h, f, Len(g)) /\ Len(g) = Len(h) + 1
      BY RepeatedFollows, KnownNext DEF Follows
    <3> QED BY <1>3, <3>1 DEF Counters
  <2>2. m.tb.toolsSinceProgress = Cardinality(ToolRun(g))
    BY <1>3, ToolRunFollows DEF Counters
  <2>3. m.vc = Marks(g)
    BY <1>3, MarksKept DEF Counters
  <2> QED BY <1>2, <1>3, <1>4, <2>1, <2>2, <2>3 DEF Counters
<1>6. CallsFor(g, o) <=> FailureLoop(g, o)
  BY DEF CallsFor
<1>7. Fp(o) # Blank => r.counts[Fp(o)] = Cardinality(Alike(g, "failure", Fp(o)))
  BY <1>1, <1>3, <1>4
<1> QED BY <1>2, <1>5, <1>6, <1>7 DEF FailureLoop

\* What stays when the last observation is of another kind.
LEMMA FailuresKept ==
  ASSUME NEW h, NEW g, NEW o, Follows(h, g, o), o.kind \notin {"reset", "failure"}, NEW f
  PROVE  Alike(g, "failure", f) = Alike(h, "failure", f)
BY AlikeFollows

LEMMA HypothesesKept ==
  ASSUME NEW h, NEW g, NEW o, Follows(h, g, o), o.kind \notin {"reset", "hypothesis"}, NEW f
  PROVE  Repeated(g, f) = Repeated(h, f) /\ Known(g, f, Len(g) + 1) = Known(h, f, Len(h) + 1)
<1>1. Len(g) = Len(h) + 1
  BY DEF Follows
<1>2. Known(g, f, Len(g) + 1) = Known(h, f, Len(g))
  BY KnownNext
<1> QED BY <1>1, <1>2, RepeatedFollows

LEMMA ToolStep ==
  ASSUME NEW h, NEW g, NEW o \in Observations, Follows(h, g, o), NEW l, Counters(h, l), o.kind = "event",
         NEW r, r = ObserveToolEvent(l.tb, o.type, MaxTools, o.override), NEW m, m = [l EXCEPT !.tb = r.st]
  PROVE  Counters(g, m) /\ (r.fired <=> CallsFor(g, o))
<1>1. DOMAIN m = DOMAIN l /\ m.rf = l.rf /\ m.tb = r.st /\ m.vc = l.vc /\ m.hl = l.hl
  BY DEF Counters
<1>2. ToolRun(h) \subseteq 1..Len(h) /\ l.tb.toolsSinceProgress = Cardinality(ToolRun(h))
  BY ToolRunFollows DEF Counters
<1>3. PICK max : max = IF o.override > 0 THEN o.override ELSE MaxTools
  OBVIOUS
<1>4. CallsFor(g, o) <=> ToolChurn(g, o)
  BY DEF CallsFor
<1>5. DOMAIN m.tb = DOMAIN l.tb /\ m.tb.toolsSinceProgress = Cardinality(ToolRun(g)) /\ (r.fired <=> ToolChurn(g, o))
  <2>1. CASE o.type = "tool_call"
    <3>1. PICK n : n = l.tb.toolsSinceProgress + 1
      OBVIOUS
    <3>2. r.st = [l.tb EXCEPT !.toolCalls = @ + 1, !.toolsSinceProgress = n] /\ (r.fired <=> n >= max)
      <4>1. r = RecordTool(l.tb, MaxTools, o.override)
        BY <2>1 DEF ObserveToolEvent, Progress
      <4>2. r.st = [l.tb EXCEPT !.toolCalls = @ + 1, !.toolsSinceProgress = n]
        BY <3>1, <4>1 DEF RecordTool
      <4>3. r.fired <=> n >= max
        BY ONLY <1>3, <3>1, <4>1 DEF RecordTool
      <4> QED BY <4>2, <4>3
    <3>3. DOMAIN r.st = DOMAIN l.tb /\ r.st.toolsSinceProgress = n
      BY <3>2 DEF Counters
    <3>4. ToolRun(g) = ToolRun(h) \union {Len(g)}
      BY <2>1, ToolRunFollows
    <3>5. Cardinality(ToolRun(g)) = n
      BY <1>2, <3>1, <3>4, NextCounts
    <3>6. ToolChurn(g, o) <=> n >= max
      BY <1>3, <2>1, <3>5 DEF ToolChurn
    <3> QED BY <1>1, <3>2, <3>3, <3>5, <3>6
  <2>2. CASE o.type \in Progress
    <3>1. o.type # "tool_call"
      BY <2>2 DEF Progress
    <3>2. r.st = [l.tb EXCEPT !.progressHits = @ + 1, !.toolsSinceProgress = 0] /\ r.fired = FALSE
      BY <2>2, <3>1 DEF ObserveToolEvent, MarkProgress
    <3>3. DOMAIN r.st = DOMAIN l.tb /\ r.st.toolsSinceProgress = 0
      BY <3>2 DEF Counters
    <3>4. ToolRun(g) = {}
      BY <2>2, ToolRunFollows
    <3>5. Cardinality(ToolRun(g)) = 0
      BY <3>4, FS_EmptySet
    <3> QED BY <1>1, <3>1, <3>2, <3>3, <3>5 DEF ToolChurn
  <2>3. CASE o.type \notin Progress \union {"tool_call"}
    <3>1. r.st = l.tb /\ r.fired = FALSE
      BY <2>3 DEF ObserveToolEvent
    <3>2. ToolRun(g) = ToolRun(h)
      BY <2>3, ToolRunFollows
    <3> QED BY <1>1, <1>2, <2>3, <3>1, <3>2 DEF ToolChurn
  <2> QED BY <2>1, <2>2, <2>3
<1>6. m.vc = Marks(g)
  BY <1>1, MarksKept DEF Counters
<1>7. ASSUME NEW f \in Fingerprints \ {Blank}
      PROVE  /\ m.rf[f] = Cardinality(Alike(g, "failure", f)) /\ m.hl.counts[f] = Cardinality(Repeated(g, f))
             /\ m.hl.seen[f] = Known(g, f, Len(g) + 1) \ {Blank}
  <2>1. Alike(g, "failure", f) = Alike(h, "failure", f)
    BY FailuresKept
  <2>2. Repeated(g, f) = Repeated(h, f) /\ Known(g, f, Len(g) + 1) = Known(h, f, Len(h) + 1)
    BY HypothesesKept
  <2> QED BY <1>1, <2>1, <2>2 DEF Counters
<1>8. Counters(g, m)
  BY <1>1, <1>5, <1>6, <1>7 DEF Counters
<1> QED BY <1>4, <1>5, <1>8

\* A successful validation adds its mark, to none if the workspace changed.
LEMMA MarksFollow ==
  ASSUME NEW h, NEW g, NEW o, Follows(h, g, o), o.kind = "validate", Succeeded(o)
  PROVE  /\ o.attempt.workspaceChanged => Marks(g) = {ValidationFingerprint(o.attempt)}
         /\ ~o.attempt.workspaceChanged => Marks(g) = Marks(h) \union {ValidationFingerprint(o.attempt)}
<1>1. g[Len(g)] = o /\ Standing(h) \subseteq 1..Len(h)
  BY StandingFollows DEF Follows
<1>2. \A i \in Standing(h) : g[i] = h[i]
  BY <1>1 DEF Follows
<1>3. CASE o.attempt.workspaceChanged
  <2>1. Standing(g) = {Len(g)}
    BY <1>3, StandingFollows
  <2> QED BY <1>1, <1>3, <2>1 DEF Marks
<1>4. CASE ~o.attempt.workspaceChanged
  <2>1. Standing(g) = Standing(h) \union {Len(g)}
    BY <1>4, StandingFollows
  <2> QED BY <1>1, <1>2, <1>4, <2>1 DEF Marks
<1> QED BY <1>3, <1>4

\* The redundant run is the one whose mark is there.
LEMMA RedundantIs ==
  ASSUME NEW h, NEW g, NEW o, Follows(h, g, o), o.kind = "validate"
  PROVE  RedundantRun(g, o) <=> /\ Succeeded(o) /\ ~o.attempt.exempt /\ ~o.attempt.workspaceChanged
                                /\ ValidationFingerprint(o.attempt) \in Marks(h)
<1>1. CASE Succeeded(o) /\ ~o.attempt.workspaceChanged
  <2>1. Standing(g) = Standing(h) \union {Len(g)}
    BY <1>1, StandingFollows
  <2>2. \A i \in Standing(h) : g[i] = h[i] /\ i # Len(g)
    BY StandingFollows DEF Follows
  <2>3. Standing(g) \ {Len(g)} = Standing(h)
    BY <2>1, <2>2
  <2>4. ValidationFingerprint(o.attempt) \in Marks(h) <=>
          \E i \in Standing(h) : ValidationFingerprint(h[i].attempt) = ValidationFingerprint(o.attempt)
    BY DEF Marks
  <2> QED BY <1>1, <2>2, <2>3, <2>4 DEF RedundantRun
<1>2. CASE ~(Succeeded(o) /\ ~o.attempt.workspaceChanged)
  BY <1>2 DEF RedundantRun
<1> QED BY <1>1, <1>2

LEMMA ValidateStep ==
  ASSUME NEW h, NEW g, NEW o \in Observations, Follows(h, g, o), NEW l, Counters(h, l), o.kind = "validate",
         NEW r, r = ObserveValidation(l.vc, o.attempt), NEW m, m = [l EXCEPT !.vc = r.st]
  PROVE  Counters(g, m) /\ (r.fired <=> CallsFor(g, o))
<1>1. DOMAIN m = DOMAIN l /\ m.rf = l.rf /\ m.tb = l.tb /\ m.vc = r.st /\ m.hl = l.hl /\ l.vc = Marks(h)
  BY DEF Counters
<1>2. CallsFor(g, o) <=> RedundantRun(g, o)
  BY DEF CallsFor
<1>3. PICK a, v : a = o.attempt /\ v = ValidationFingerprint(a)
  OBVIOUS
<1>4. a.succeeded \in BOOLEAN /\ a.exempt \in BOOLEAN /\ a.workspaceChanged \in BOOLEAN
  BY <1>3, SignalAssumption
<1>5. Succeeded(o) <=> a.succeeded /\ NormalizeFingerprint(a.command) # Blank
  BY <1>3 DEF Succeeded
<1>6. /\ ~Succeeded(o) => r.st = Marks(h)
      /\ Succeeded(o) => r.st = (IF a.workspaceChanged THEN {} ELSE Marks(h)) \union {v}
      /\ r.fired <=> Succeeded(o) /\ ~a.exempt /\ ~a.workspaceChanged /\ v \in Marks(h)
  <2>1. CASE NormalizeFingerprint(a.command) = Blank
    BY <1>1, <1>3, <1>5, <2>1 DEF ObserveValidation
  <2>2. CASE NormalizeFingerprint(a.command) # Blank /\ (a.exempt \/ a.workspaceChanged)
    BY <1>1, <1>3, <1>4, <1>5, <2>2 DEF ObserveValidation, RecordSuccessIfNeeded
  <2>3. CASE NormalizeFingerprint(a.command) # Blank /\ ~(a.exempt \/ a.workspaceChanged)
    BY <1>1, <1>3, <1>4, <1>5, <2>3 DEF ObserveValidation
  <2> QED BY <2>1, <2>2, <2>3
<1>7. r.fired <=> RedundantRun(g, o)
  BY <1>3, <1>6, RedundantIs
<1>8. m.vc = Marks(g)
  <2>1. CASE ~Succeeded(o)
    BY <1>1, <1>6, <2>1, MarksKept
  <2>2. CASE Succeeded(o)
    BY <1>1, <1>3, <1>4, <1>6, <2>2, MarksFollow
  <2> QED BY <2>1, <2>2
<1>9. m.tb.toolsSinceProgress = Cardinality(ToolRun(g))
  BY <1>1, ToolRunFollows DEF Counters
<1>10. ASSUME NEW f \in Fingerprints \ {Blank}
       PROVE  /\ m.rf[f] = Cardinality(Alike(g, "failure", f)) /\ m.hl.counts[f] = Cardinality(Repeated(g, f))
              /\ m.hl.seen[f] = Known(g, f, Len(g) + 1) \ {Blank}
  <2>1. Alike(g, "failure", f) = Alike(h, "failure", f)
    BY FailuresKept
  <2>2. Repeated(g, f) = Repeated(h, f) /\ Known(g, f, Len(g) + 1) = Known(h, f, Len(h) + 1)
    BY HypothesesKept
  <2> QED BY <1>1, <2>1, <2>2 DEF Counters
<1>11. Counters(g, m)
  BY <1>1, <1>8, <1>9, <1>10 DEF Counters
<1> QED BY <1>2, <1>7, <1>11

\* A conclusion's counter starts anew at 1 with evidence not seen before.
ConclusionCounted(l, f, own, r) ==
  /\ {"counts", "seen"} \subseteq DOMAIN r.st /\ r.st.counts \in [Fingerprints -> Nat] /\ DOMAIN r.st.seen = Fingerprints
  /\ \A x \in Fingerprints \ {f, Blank} : r.st.counts[x] = l.counts[x] /\ r.st.seen[x] = l.seen[x]
  /\ f # Blank =>
       /\ r.st.seen[f] = l.seen[f] \union own
       /\ own \subseteq l.seen[f] => r.st.counts[f] = l.counts[f] + 1
       /\ ~(own \subseteq l.seen[f]) => r.st.counts[f] = 1
  /\ r.fired <=> f # Blank /\ own \subseteq l.seen[f] /\ r.st.counts[f] >= Threshold

LEMMA HypothesisCounted ==
  ASSUME NEW l, {"counts", "seen"} \subseteq DOMAIN l, l.counts \in [Fingerprints -> Nat], DOMAIN l.seen = Fingerprints,
         NEW text, NEW f, f = NormalizeFingerprint(text), f \in Fingerprints \union {Blank}, NEW ids, NEW own, own = ids \ {Blank},
         NEW r, r = ObserveHypothesis(l, text, ids, Threshold)
  PROVE  ConclusionCounted(l, f, own, r)
<1>1. CASE f = Blank
  <2>1. r = [st |-> l, fired |-> FALSE]
    BY <1>1, Zenon DEF ObserveHypothesis
  <2>2. r.st = l /\ ~r.fired
    BY <2>1
  <2> QED BY <1>1, <2>2 DEF ConclusionCounted
<1>2. CASE f # Blank
  <2>1. f \in Fingerprints
    BY <1>2
  <2>2. PICK fresh : fresh = (ids \ {Blank}) \ l.seen[f]
    OBVIOUS
  <2>3. PICK n : n = IF fresh # {} THEN 1 ELSE l.counts[f] + 1
    OBVIOUS
  <2>4. r = [st |-> [counts |-> [l.counts EXCEPT ![f] = n], seen |-> [l.seen EXCEPT ![f] = @ \union fresh]],
             fired |-> fresh = {} /\ n >= Threshold]
    BY <1>2, <2>2, <2>3, Zenon DEF ObserveHypothesis
  <2>5. r.fired <=> fresh = {} /\ n >= Threshold
    <3>1. PICK b \in BOOLEAN : b <=> fresh = {} /\ n >= Threshold
      OBVIOUS
    <3>2. b = (fresh = {} /\ n >= Threshold)
      BY <3>1
    <3>3. r = [st |-> [counts |-> [l.counts EXCEPT ![f] = n], seen |-> [l.seen EXCEPT ![f] = @ \union fresh]], fired |-> b]
      BY <2>4, <3>2, Zenon
    <3> QED BY <3>1, <3>3
  <2>6. r.st = [counts |-> [l.counts EXCEPT ![f] = n], seen |-> [l.seen EXCEPT ![f] = @ \union fresh]]
    BY <2>4
  <2>7. r.st.counts = [l.counts EXCEPT ![f] = n] /\ r.st.seen = [l.seen EXCEPT ![f] = l.seen[f] \union fresh]
    BY <2>6
  <2>8. n \in Nat /\ (fresh # {} => n = 1) /\ (fresh = {} => n = l.counts[f] + 1)
    BY <2>1, <2>3
  <2>9. fresh = {} <=> own \subseteq l.seen[f]
    BY <2>2
  <2>10. l.seen[f] \union fresh = l.seen[f] \union own
    BY <2>2
  <2>11. {"counts", "seen"} \subseteq DOMAIN r.st /\ r.st.counts \in [Fingerprints -> Nat] /\ DOMAIN r.st.seen = Fingerprints
    BY <2>1, <2>6, <2>7, <2>8
  <2>12. \A x \in Fingerprints \ {f, Blank} : r.st.counts[x] = l.counts[x] /\ r.st.seen[x] = l.seen[x]
    BY <2>1, <2>7
  <2>13. r.st.counts[f] = n /\ r.st.seen[f] = l.seen[f] \union fresh
    BY <2>1, <2>7
  <2> QED BY <1>2, <2>5, <2>8, <2>9, <2>10, <2>11, <2>12, <2>13 DEF ConclusionCounted
<1> QED BY <1>1, <1>2

LEMMA HypothesisStep ==
  ASSUME NEW h, NEW g, NEW o \in Observations, Follows(h, g, o), NEW l, Counters(h, l), o.kind = "hypothesis",
         NEW r, r = ObserveHypothesis(l.hl, o.text, o.ids, Threshold), NEW m, m = [l EXCEPT !.hl = r.st]
  PROVE  Counters(g, m) /\ (r.fired <=> CallsFor(g, o))
<1>1. DOMAIN m = DOMAIN l /\ m.rf = l.rf /\ m.tb = l.tb /\ m.vc = l.vc /\ m.hl = r.st
  BY DEF Counters
<1>2. CallsFor(g, o) <=> ThoughtLoop(g, o)
  BY DEF CallsFor
<1>3. PICK f : f = Fp(o)
  OBVIOUS
<1>4. f \in Fingerprints \union {Blank} /\ f = NormalizeFingerprint(o.text)
  BY <1>3, SignalAssumption DEF Fp
<1>5. PICK K : K = Known(h, f, Len(g))
  OBVIOUS
<1>6. Len(g) = Len(h) + 1 /\ Blank \in K
  <2>1. Blank \in Known(h, f, Len(g))
    BY Zenon DEF Known
  <2> QED BY <1>5, <2>1 DEF Follows
<1>7. NewEvidence(g, Len(g)) <=> ~(o.ids \subseteq K)
  BY <1>3, <1>5, EvidenceFollows
<1>8. f # Blank => l.hl.seen[f] = K \ {Blank} /\ l.hl.counts[f] = Cardinality(Repeated(h, f))
  BY <1>4, <1>5, <1>6 DEF Counters
<1>9. f # Blank => (o.ids \ {Blank} \subseteq l.hl.seen[f] <=> ~NewEvidence(g, Len(g)))
  BY <1>6, <1>7, <1>8
<1>10. /\ {"counts", "seen"} \subseteq DOMAIN r.st /\ r.st.counts \in [Fingerprints -> Nat] /\ DOMAIN r.st.seen = Fingerprints
       /\ \A x \in Fingerprints \ {f, Blank} : r.st.counts[x] = l.hl.counts[x] /\ r.st.seen[x] = l.hl.seen[x]
       /\ f # Blank => r.st.seen[f] = l.hl.seen[f] \union (o.ids \ {Blank})
       /\ f # Blank /\ ~NewEvidence(g, Len(g)) => r.st.counts[f] = l.hl.counts[f] + 1
       /\ f # Blank /\ NewEvidence(g, Len(g)) => r.st.counts[f] = 1
       /\ r.fired <=> f # Blank /\ ~NewEvidence(g, Len(g)) /\ r.st.counts[f] >= Threshold
  <2>1. PICK own : own = o.ids \ {Blank}
    OBVIOUS
  <2>2. PICK k : k = l.hl
    OBVIOUS
  <2>3. {"counts", "seen"} \subseteq DOMAIN k /\ k.counts \in [Fingerprints -> Nat] /\ DOMAIN k.seen = Fingerprints
    BY <2>2 DEF Counters
  <2>4. r = ObserveHypothesis(k, o.text, o.ids, Threshold)
    BY <2>2
  <2>5. f # Blank => (own \subseteq k.seen[f] <=> ~NewEvidence(g, Len(g)))
    BY <1>9, <2>1, <2>2, Zenon
  <2>6. ConclusionCounted(k, f, own, r)
    BY ONLY <1>4, <2>1, <2>3, <2>4, HypothesisCounted
  <2>7. f # Blank /\ ~NewEvidence(g, Len(g)) => r.st.counts[f] = k.counts[f] + 1
    BY ONLY <2>5, <2>6, Zenon DEF ConclusionCounted
  <2>8. f # Blank /\ NewEvidence(g, Len(g)) => r.st.counts[f] = 1
    BY ONLY <2>5, <2>6, Zenon DEF ConclusionCounted
  <2>9. r.fired <=> f # Blank /\ ~NewEvidence(g, Len(g)) /\ r.st.counts[f] >= Threshold
    BY ONLY <2>5, <2>6, Zenon DEF ConclusionCounted
  <2>10. f # Blank => r.st.seen[f] = l.hl.seen[f] \union (o.ids \ {Blank})
    BY ONLY <2>1, <2>2, <2>6, Zenon DEF ConclusionCounted
  <2>11. \A x \in Fingerprints \ {f, Blank} : r.st.counts[x] = l.hl.counts[x] /\ r.st.seen[x] = l.hl.seen[x]
    BY ONLY <2>2, <2>6, Zenon DEF ConclusionCounted
  <2> QED BY ONLY <2>2, <2>6, <2>7, <2>8, <2>9, <2>10, <2>11, Zenon DEF ConclusionCounted
<1>11. f # Blank => r.st.counts[f] = Cardinality(Repeated(g, f))
  <2>1. Repeated(h, f) \subseteq 1..Len(h)
    BY RepeatedFollows
  <2>2. ASSUME f # Blank, NewEvidence(g, Len(g)) PROVE r.st.counts[f] = Cardinality(Repeated(g, f))
    <3>1. Repeated(g, f) = {Len(g)}
      BY <1>3, <2>2, RepeatedFollows
    <3>2. Cardinality(Repeated(g, f)) = 1
      BY <2>1, <3>1, NextCounts
    <3> QED BY <1>10, <2>2, <3>2
  <2>3. ASSUME f # Blank, ~NewEvidence(g, Len(g)) PROVE r.st.counts[f] = Cardinality(Repeated(g, f))
    <3>1. Repeated(g, f) = Repeated(h, f) \union {Len(g)}
      BY <1>3, <2>3, RepeatedFollows
    <3>2. Cardinality(Repeated(g, f)) = Cardinality(Repeated(h, f)) + 1
      BY <2>1, <3>1, NextCounts
    <3> QED BY <1>8, <1>10, <2>3, <3>2
  <2> QED BY <2>2, <2>3
<1>12. f # Blank => r.st.seen[f] = Known(g, f, Len(g) + 1) \ {Blank}
  <2>1. Known(g, f, Len(g) + 1) = K \union o.ids
    BY <1>3, <1>5, KnownNext
  <2> QED BY <1>8, <1>10, <2>1
<1>13. ASSUME NEW x \in Fingerprints \ {Blank}
       PROVE  /\ m.rf[x] = Cardinality(Alike(g, "failure", x)) /\ m.hl.counts[x] = Cardinality(Repeated(g, x))
              /\ m.hl.seen[x] = Known(g, x, Len(g) + 1) \ {Blank}
  <2>1. Alike(g, "failure", x) = Alike(h, "failure", x)
    BY FailuresKept
  <2>2. m.rf[x] = Cardinality(Alike(g, "failure", x))
    BY <1>1, <2>1 DEF Counters
  <2>3. CASE x = f
    BY <1>1, <1>11, <1>12, <2>2, <2>3
  <2>4. CASE x # f
    <3>1. Repeated(g, x) = Repeated(h, x) /\ Known(g, x, Len(g) + 1) = Known(h, x, Len(h) + 1)
      BY <1>3, <1>6, <2>4, RepeatedFollows, KnownNext
    <3>2. m.hl.counts[x] = l.hl.counts[x] /\ m.hl.seen[x] = l.hl.seen[x]
      BY <1>1, <1>10, <2>4
    <3> QED BY <2>2, <3>1, <3>2 DEF Counters
  <2> QED BY <2>3, <2>4
<1>14. m.vc = Marks(g) /\ m.tb.toolsSinceProgress = Cardinality(ToolRun(g))
  BY <1>1, MarksKept, ToolRunFollows DEF Counters
<1>15. Counters(g, m)
  BY <1>1, <1>10, <1>13, <1>14 DEF Counters
<1>16. r.fired <=> ThoughtLoop(g, o)
  BY <1>3, <1>10, <1>11 DEF ThoughtLoop
<1> QED BY <1>2, <1>15, <1>16
\* A signal of the validation detector is never of high confidence: the answer
\* zooms out only after a review.
LEMMA ValidationReviewed ==
  ASSUME NEW sig, sig = Signals["validate"], sig # None, NEW unsure, NEW contract, NEW ledger, NEW prompt, NEW review,
         NEW s, s = EvaluateSlow(sig, unsure, contract, ledger, prompt, review), s.action = "ZOOM_OUT_PROMPT"
  PROVE  s.reviewed
<1>1. ~IsHighConfidenceRepeatedFailure(sig)
  BY DEF Signals, Signal, IsHighConfidenceRepeatedFailure
<1>2. CASE review = None
  <2>1. \E advice : s = Slow("no_intervention", advice, FALSE, FALSE)
    BY <1>1, <1>2, Zenon DEF EvaluateSlow
  <2> QED BY <2>1 DEF Slow
<1>3. CASE review # None /\ review.err
  <2>1. \E advice : s = Slow("none", advice, TRUE, TRUE)
    BY <1>1, <1>3, Zenon DEF EvaluateSlow
  <2> QED BY <2>1 DEF Slow
<1>4. CASE review # None /\ ~review.err
  <2>1. \E action, advice : s = Slow(action, advice, TRUE, FALSE)
    BY <1>1, <1>4, Zenon DEF EvaluateSlow
  <2>2. s.reviewed = TRUE
    BY <2>1 DEF Slow
  <2> QED BY <2>2
<1> QED BY <1>2, <1>3, <1>4

\* A session that starts, or is reset, has counted nothing.
LEMMA FreshCounts ==
  ASSUME NEW g, Len(g) \in Nat, Since(g) = {}
  PROVE  Counters(g, FreshLib)
<1>1. \A k : Kind(g, k) = {}
  BY DEF Kind
<1>2. \A k, f : Alike(g, k, f) = {}
  BY <1>1 DEF Alike
<1>3. \A f : Repeated(g, f) = {}
  BY <1>2 DEF Repeated
<1>4. ToolRun(g) = {} /\ Standing(g) = {}
  BY <1>1 DEF ToolRun, Standing
<1>5. Marks(g) = {}
  BY <1>4 DEF Marks
<1>6. ASSUME NEW f PROVE Known(g, f, Len(g) + 1) \ {Blank} = {}
  <2>1. PICK X : X = { g[j].ids : j \in { j \in Alike(g, "hypothesis", f) : j < Len(g) + 1 } }
    OBVIOUS
  <2>2. X = {}
    BY <1>2, <2>1
  <2>3. Known(g, f, Len(g) + 1) = {Blank} \union UNION X
    BY <2>1, Zenon DEF Known
  <2> QED BY ONLY <2>2, <2>3
<1>7. Cardinality({}) = 0
  BY FS_EmptySet
<1>8. /\ {"rf", "tb", "vc", "hl"} \subseteq DOMAIN FreshLib /\ {"counts", "seen"} \subseteq DOMAIN FreshLib.hl
      /\ {"progressHits", "toolCalls", "toolsSinceProgress"} \subseteq DOMAIN FreshLib.tb
      /\ FreshLib.rf \in [Fingerprints -> Nat] /\ FreshLib.hl.counts \in [Fingerprints -> Nat]
      /\ DOMAIN FreshLib.hl.seen = Fingerprints
      /\ \A f \in Fingerprints : FreshLib.rf[f] = 0 /\ FreshLib.hl.counts[f] = 0 /\ FreshLib.hl.seen[f] = {}
      /\ FreshLib.tb.toolsSinceProgress = 0 /\ FreshLib.vc = {}
  BY DEF FreshLib, FreshBudget, Zero
<1> QED BY <1>2, <1>3, <1>4, <1>5, <1>6, <1>7, <1>8 DEF Counters

\* One observation.
LEMMA ObserveStep ==
  ASSUME DetectorInv, NEW o \in Observations, Observe(o)
  PROVE  DetectorInv'
<1>1. PICK g : g = hist'
  OBVIOUS
<1>2. g = Append(hist, o) /\ slow' = None
  BY <1>1 DEF Observe
<1>3. Follows(hist, g, o) /\ g \in Seq(Observations)
  BY <1>2, AppendFollows DEF DetectorInv
<1>4. g # <<>> /\ g[Len(g)] = o
  BY <1>3 DEF Follows
<1>5. Counters(hist, lib)
  BY DEF DetectorInv
<1>6. Counters(g, lib') /\ (signal' # None <=> CallsFor(g, o)) /\ (signal' # None => signal' = Signals[o.kind])
  <2>0. \A k \in {"failure", "event", "validate", "hypothesis"} : Signals[k] # None
    BY SignalAssumption DEF Signals
  <2>1. CASE o.kind = "failure"
    <3>1. PICK r : r = ObserveFailure(lib.rf, Fp(o), Threshold)
      OBVIOUS
    <3>2. Fp(o) = NormalizeFingerprint(ExtractFailureText(o.event))
      BY <2>1 DEF Fp
    <3>3. lib' = [lib EXCEPT !.rf = r.counts] /\ signal' = IF r.fired THEN Signals["failure"] ELSE None
      BY <2>1, <3>1, <3>2 DEF Observe, Raised
    <3>4. Counters(g, lib') /\ (r.fired <=> CallsFor(g, o))
      BY <1>3, <1>5, <2>1, <3>1, <3>3, FailureStep
    <3> QED BY <2>0, <2>1, <3>3, <3>4
  <2>2. CASE o.kind = "event"
    <3>1. PICK r : r = ObserveToolEvent(lib.tb, o.type, MaxTools, o.override)
      OBVIOUS
    <3>2. lib' = [lib EXCEPT !.tb = r.st] /\ signal' = IF r.fired THEN Signals["event"] ELSE None
      BY <2>2, <3>1 DEF Observe, Raised
    <3>3. Counters(g, lib') /\ (r.fired <=> CallsFor(g, o))
      BY <1>3, <1>5, <2>2, <3>1, <3>2, ToolStep
    <3> QED BY <2>0, <2>2, <3>2, <3>3
  <2>3. CASE o.kind = "validate"
    <3>1. PICK r : r = ObserveValidation(lib.vc, o.attempt)
      OBVIOUS
    <3>2. lib' = [lib EXCEPT !.vc = r.st] /\ signal' = IF r.fired THEN Signals["validate"] ELSE None
      BY <2>3, <3>1 DEF Observe, Raised
    <3>3. Counters(g, lib') /\ (r.fired <=> CallsFor(g, o))
      BY <1>3, <1>5, <2>3, <3>1, <3>2, ValidateStep
    <3> QED BY <2>0, <2>3, <3>2, <3>3
  <2>4. CASE o.kind = "hypothesis"
    <3>1. PICK r : r = ObserveHypothesis(lib.hl, o.text, o.ids, Threshold)
      OBVIOUS
    <3>2. lib' = [lib EXCEPT !.hl = r.st] /\ signal' = IF r.fired THEN Signals["hypothesis"] ELSE None
      BY <2>4, <3>1 DEF Observe, Raised
    <3>3. Counters(g, lib') /\ (r.fired <=> CallsFor(g, o))
      BY <1>3, <1>5, <2>4, <3>1, <3>2, HypothesisStep
    <3> QED BY <2>0, <2>4, <3>2, <3>3
  <2>5. CASE o.kind = "reset"
    <3>1. lib' = FreshLib /\ signal' = None
      BY <2>5 DEF Observe
    <3>2. Len(g) \in Nat /\ Since(g) = {}
      BY <1>3, <2>5, SinceFollows DEF Follows
    <3>3. ~CallsFor(g, o)
      BY <2>5 DEF CallsFor
    <3> QED BY <3>1, <3>2, <3>3, FreshCounts
  <2> QED BY <2>1, <2>2, <2>3, <2>4, <2>5, SignalAssumption
<1>7. SignalsMatchHistory'
  BY <1>1, <1>2, <1>4, <1>6 DEF SignalsMatchHistory
<1> QED BY <1>1, <1>3, <1>4, <1>6, <1>7 DEF DetectorInv

\* For every stream of observations, whatever the thresholds and the answers of
\* the reviewer: a detector signals exactly when the session's history since its
\* last reset calls for it, and a repeated validation is zoomed out only after a
\* review (pkg/detector, policy.Engine.EvaluateSlow).
THEOREM SignalsAreGrounded == LSpec => []SignalsMatchHistory
<1>1. LInit => DetectorInv
  <2> SUFFICES ASSUME LInit PROVE DetectorInv
    OBVIOUS
  <2>1. hist = <<>> /\ Len(hist) = 0 /\ lib = FreshLib /\ signal = None /\ slow = None
    BY DEF LInit
  <2>2. Since(hist) = {}
    BY <2>1 DEF Since
  <2>3. Counters(hist, lib)
    BY <2>1, <2>2, FreshCounts
  <2> QED BY <2>1, <2>3 DEF DetectorInv, SignalsMatchHistory
<1>2. DetectorInv /\ [LNext]_lvars => DetectorInv'
  <2> SUFFICES ASSUME DetectorInv, [LNext]_lvars PROVE DetectorInv'
    OBVIOUS
  <2>1. ASSUME NEW o \in Observations, Observe(o) PROVE DetectorInv'
    BY <2>1, ObserveStep
  <2>2. ASSUME NEW a \in Adjudications, Adjudicate(a) PROVE DetectorInv'
    <3>1. UNCHANGED <<hist, lib, signal>> /\ signal # None /\ slow' = EvaluateSlow(signal, a.uncertain, a.contract, a.ledger, a.prompt, a.review)
      BY <2>2 DEF Adjudicate
    <3>2. hist # <<>> /\ signal = Signals[hist[Len(hist)].kind]
      BY <3>1 DEF DetectorInv
    <3>3. ASSUME hist[Len(hist)].kind = "validate", slow'.action = "ZOOM_OUT_PROMPT" PROVE slow'.reviewed
      <4>1. signal = Signals["validate"]
        BY <3>2, <3>3
      <4>2. PICK s : s = slow'
        OBVIOUS
      <4> QED BY <3>1, <3>3, <4>1, <4>2, ValidationReviewed
    <3> QED BY <3>1, <3>2, <3>3 DEF DetectorInv, SignalsMatchHistory
  <2>3. CASE UNCHANGED lvars
    BY <2>3 DEF lvars, DetectorInv, SignalsMatchHistory
  <2> QED BY <2>1, <2>2, <2>3 DEF LNext
<1>3. DetectorInv => SignalsMatchHistory
  BY DEF DetectorInv
<1> QED BY <1>1, <1>2, <1>3, PTL DEF LSpec
=============================================================================
