--------------------------- MODULE ChallengeProofs ---------------------------
(***************************************************************************)
(* TLAPS proofs about ChallengeService, for any number of callers,         *)
(* challenges, fingerprints, policy generations and retry identities, that *)
(* it implements OneShotAppeal, and that its log replays to the records.   *)
(***************************************************************************)
EXTENDS ChallengeRefinement, ChallengeReplay, FiniteSetTheorems, TLAPS

Payloads == Fps \cup Justs \cup Keys \cup {None}
EventTypes == {"opened", "justified", "budget_consumed", "allowed_once", "rejected",
               "human_review", "abandoned", "expired"}

StoreType ==
    /\ seq \in Nat
    /\ byID \in [Ids -> Record]
    /\ log \in [Ids -> Seq(Event)]
    /\ openByFP \in [Fps -> Ids \cup {None}]
    /\ barrier \in [Fps -> [gen : Gens \cup {None}, mark : Nat]]

CallerType ==
    /\ idSeq \in 0..MaxChallenges
    /\ termCh \in [Ids -> {"none", "open", "closed"}]
    /\ pc \in [Callers -> Labels]
    /\ loc \in [Callers -> Local]
    /\ denies \in 0..MaxDenies
    /\ mints \in [Ids -> Nat]
    /\ grants \in [Ids -> SUBSET Keys]

-----------------------------------------------------------------------------
(* Sets of ids *)

LEMMA IdsCardinality ==
  ASSUME NEW S \in SUBSET Ids
  PROVE  Cardinality(S) \in Nat
<1>1. IsFiniteSet(Ids)
  BY FS_Interval, BoundsAssumption DEF Ids
<1>2. IsFiniteSet(S)
  BY <1>1, FS_Subset
<1> QED
  BY <1>2, FS_CardinalityType

\* Covering is symmetric: same fingerprint, or same session and semantics.
LEMMA CoversSymmetric ==
  ASSUME NEW f, NEW g
  PROVE  Covers(f, g) <=> Covers(g, f)
BY DEF Covers, SameAction

-----------------------------------------------------------------------------
(* Types of the store operators *)

LEMMA NoRecType == NoRec \in Record
BY DEF NoRec, Record, ActiveStates, TerminalStates

LEMMA NoLocType == NoLoc \in Local
BY DEF NoLoc, Local

LEMMA ExpireInType ==
  ASSUME NEW b \in [Ids -> Record], NEW S \in SUBSET Ids
  PROVE  ExpireIn(b, S) \in [Ids -> Record]
BY DEF ExpireIn, Record, TerminalStates, ActiveStates

LEMMA PutLockedType ==
  ASSUME NEW b \in [Ids -> Record], NEW id \in Ids, NEW rec \in Record
  PROVE  PutLocked(b, id, rec) \in [Ids -> Record]
<1> SUFFICES ASSUME NEW i \in Ids
             PROVE  PutLocked(b, id, rec)[i] \in Record
  BY DEF PutLocked
<1>1. [b[i] EXCEPT !.state = "EXPIRED"] \in Record
  BY DEF Record, TerminalStates
<1> QED
  BY <1>1 DEF PutLocked

LEMMA LogInType ==
  ASSUME NEW l \in [Ids -> Seq(Event)], NEW S \in SUBSET Ids,
         NEW type \in EventTypes, NEW payload \in Payloads
  PROVE  LogIn(l, S, type, payload) \in [Ids -> Seq(Event)]
<1>1. [type |-> type, payload |-> payload] \in Event
  BY DEF Event, EventTypes, Payloads
<1> QED
  BY <1>1 DEF LogIn

LEMMA UnindexInType ==
  ASSUME NEW o \in [Fps -> Ids \cup {None}], NEW S \in SUBSET Ids
  PROVE  UnindexIn(o, S) \in [Fps -> Ids \cup {None}]
BY DEF UnindexIn

LEMMA IndexPutType ==
  ASSUME NEW o \in [Fps -> Ids \cup {None}], NEW id \in Ids, NEW rec \in Record
  PROVE  IndexPut(o, id, rec) \in [Fps -> Ids \cup {None}]
BY DEF IndexPut

-----------------------------------------------------------------------------
(* Steps of the store *)

StoreInv == StoreType /\ RecOK /\ IndexAgrees /\ BarrierHolds

\* A step keeps the fingerprint of every record and inserts none but id.
Kept(id) ==
    \A i \in Ids :
        IF byID[i].state = "NONE" THEN i # id => byID'[i] = byID[i]
        ELSE byID'[i].state # "NONE" /\ byID'[i].fp = byID[i].fp

\* A live record, expired, still satisfies RecordOK.
LEMMA ExpiredRecordOK ==
  ASSUME NEW i \in Ids, NEW r \in Record, NEW m, NEW g, RecordOK(i, r, m, g),
         r.state \in ActiveStates
  PROVE  /\ RecordOK(i, [r EXCEPT !.state = "EXPIRED"], m, g)
         /\ [r EXCEPT !.state = "EXPIRED"].fp = r.fp
         /\ [r EXCEPT !.state = "EXPIRED"].state = "EXPIRED"
BY DEF RecordOK, Record, ActiveStates, NoRec

\* Expiring live records keeps records well formed and the index in step.
LEMMA ExpireStep ==
  ASSUME StoreType, RecOK, IndexAgrees,
         NEW S \in SUBSET Ids, \A i \in S : Active(i),
         byID' = ExpireIn(byID, S), openByFP' = UnindexIn(openByFP, S),
         UNCHANGED <<idSeq, mints, grants>>
  PROVE  /\ RecOK' /\ IndexAgrees' /\ Kept(0)
         /\ \A i \in Ids : Active(i)' <=> Active(i) /\ i \notin S
         /\ \A i \in Ids \ S : byID'[i] = byID[i]
<1>1. \A i \in Ids : byID'[i] = IF i \in S THEN [byID[i] EXCEPT !.state = "EXPIRED"] ELSE byID[i]
  BY DEF ExpireIn
<1>2. \A i \in Ids : byID[i] \in Record
  BY DEF StoreType
<1>3. \A i \in S : /\ RecordOK(i, byID'[i], mints[i], grants[i])
                    /\ byID'[i].fp = byID[i].fp /\ byID'[i].state = "EXPIRED"
  <2> SUFFICES ASSUME NEW i \in S
               PROVE  /\ RecordOK(i, byID'[i], mints[i], grants[i])
                      /\ byID'[i].fp = byID[i].fp /\ byID'[i].state = "EXPIRED"
    OBVIOUS
  <2>1. RecordOK(i, byID[i], mints[i], grants[i]) /\ byID[i].state \in ActiveStates
    BY DEF RecOK, Active
  <2>2. byID'[i] = [byID[i] EXCEPT !.state = "EXPIRED"]
    BY <1>1
  <2> QED
    BY <1>2, <2>1, <2>2, ExpiredRecordOK
<1>4. RecOK'
  BY ZenonT(60), <1>1, <1>3 DEF RecOK, RecordOK
<1>5. \A i \in Ids : Active(i)' <=> Active(i) /\ i \notin S
  BY <1>1, <1>3 DEF Active, ActiveStates
<1>6. Kept(0)
  BY <1>1, <1>3 DEF Kept, Active, ActiveStates
<1>7. \A f \in Fps : openByFP'[f] = IF openByFP[f] \in S THEN None ELSE openByFP[f]
  BY DEF UnindexIn
<1>8. IndexAgrees'
  <2> SUFFICES ASSUME NEW f \in Fps, NEW i \in Ids
               PROVE  openByFP'[f] = i <=> Active(i)' /\ byID'[i].fp = f
    BY DEF IndexAgrees
  <2>1. openByFP[f] = i <=> Active(i) /\ byID[i].fp = f
    BY DEF IndexAgrees
  <2>2. byID'[i].fp = byID[i].fp
    BY <1>1, <1>3
  <2>3. None # i
    BY NoneAssumption DEF Ids
  <2> QED
    BY <1>5, <1>7, <2>1, <2>2, <2>3
<1> QED
  BY <1>1, <1>4, <1>5, <1>6, <1>8

LEMMA ExpireAllStep ==
  ASSUME StoreInv, NEW S \in SUBSET Ids, \A i \in S : Active(i), NEW p \in Payloads,
         ExpireAll(S, p), UNCHANGED <<idSeq, mints, grants>>
  PROVE  StoreInv' /\ Kept(0)
<1>1. StoreType'
  <2>1. seq' \in Nat
    BY IdsCardinality DEF StoreInv, StoreType, ExpireAll
  <2>2. byID' \in [Ids -> Record]
    BY ExpireInType DEF StoreInv, StoreType, ExpireAll
  <2>3. log' \in [Ids -> Seq(Event)]
    BY LogInType DEF StoreInv, StoreType, ExpireAll, EventTypes
  <2>4. openByFP' \in [Fps -> Ids \cup {None}]
    BY UnindexInType DEF StoreInv, StoreType, ExpireAll
  <2> QED
    BY <2>1, <2>2, <2>3, <2>4 DEF StoreInv, StoreType, ExpireAll
<1>2. /\ RecOK' /\ IndexAgrees' /\ Kept(0)
      /\ \A i \in Ids : Active(i)' <=> Active(i) /\ i \notin S
      /\ \A i \in Ids \ S : byID'[i] = byID[i]
  BY ExpireStep DEF StoreInv, ExpireAll
<1>3. BarrierHolds'
  BY <1>2 DEF StoreInv, BarrierHolds, ExpireAll
<1> QED
  BY <1>1, <1>2, <1>3 DEF StoreInv

\* Moving one live challenge on: no rival is live, so only its record changes.
LEMMA TransitionStep ==
  ASSUME StoreInv, NEW id \in Ids, Active(id), NEW rec \in Record,
         NEW type \in EventTypes, NEW p \in Payloads,
         Transition(id, rec, type, p), UNCHANGED idSeq,
         rec.fp = byID[id].fp, rec.gen = byID[id].gen, rec.ticket = byID[id].ticket,
         rec.state # "NONE", RecordOK(id, rec, mints'[id], grants'[id]),
         \A i \in Ids \ {id} : mints'[i] = mints[i] /\ grants'[i] = grants[i]
  PROVE  StoreInv' /\ Kept(0)
<1>1. StoreType'
  <2>1. seq' \in Nat
    BY DEF StoreInv, StoreType, Transition
  <2>2. byID' \in [Ids -> Record]
    BY PutLockedType DEF StoreInv, StoreType, Transition
  <2>3. log' \in [Ids -> Seq(Event)]
    BY LogInType DEF StoreInv, StoreType, Transition
  <2>4. openByFP' \in [Fps -> Ids \cup {None}]
    BY IndexPutType DEF StoreInv, StoreType, Transition
  <2> QED
    BY <2>1, <2>2, <2>3, <2>4 DEF StoreInv, StoreType, Transition
<1>2. \A i \in Ids \ {id} : ~(Active(i) /\ byID[i].fp = rec.fp)
  BY DEF StoreInv, IndexAgrees, RecOK, RecordOK, Active, ActiveStates, StoreType
<1>3. \A i \in Ids : byID'[i] = IF i = id THEN rec ELSE byID[i]
  BY <1>2 DEF Transition, PutLocked, Active
<1>4. RecOK'
  BY <1>3 DEF StoreInv, RecOK, RecordOK
<1>5. rec.fp \in Fps
  BY DEF StoreInv, RecOK, RecordOK, Active, ActiveStates
<1>6. \A f \in Fps : openByFP'[f] =
         IF f # rec.fp THEN openByFP[f]
         ELSE IF rec.state \in ActiveStates THEN id
         ELSE IF openByFP[f] = id THEN None ELSE openByFP[f]
  BY <1>5 DEF Transition, IndexPut, StoreInv, StoreType
<1>7. IndexAgrees'
  BY <1>2, <1>3, <1>5, <1>6, NoneAssumption DEF StoreInv, IndexAgrees, Active, Ids
<1>8. BarrierHolds'
  BY <1>3 DEF StoreInv, BarrierHolds, Transition, Active
<1>9. Kept(0)
  BY <1>3 DEF Kept, Active, ActiveStates
<1> QED
  BY <1>1, <1>4, <1>7, <1>8, <1>9 DEF StoreInv

\* Inserting a fresh record after expiring S, which holds every live rival.
LEMMA InsertStep ==
  ASSUME StoreType, RecOK, IndexAgrees, CallerType,
         NEW S \in SUBSET Ids, \A i \in S : Active(i),
         NEW id \in Ids, byID[id] = NoRec, NEW rec \in Record, rec.fp \in Fps,
         rec.state # "NONE", RecordOK(id, rec, mints[id], grants[id]),
         rec.state \in ActiveStates => Hits(rec.fp) \subseteq S,
         byID' = PutLocked(ExpireIn(byID, S), id, rec),
         openByFP' = IndexPut(UnindexIn(openByFP, S), id, rec),
         UNCHANGED <<idSeq, mints, grants>>
  PROVE  /\ RecOK' /\ IndexAgrees' /\ Kept(id)
         /\ \A i \in Ids \ {id} : Active(i)' <=> Active(i) /\ i \notin S
         /\ \A i \in Ids \ (S \cup {id}) : byID'[i] = byID[i]
         /\ byID'[id] = rec
<1>1. ~Active(id) /\ id \notin S
  BY DEF Active, ActiveStates, NoRec
<1>2. \A i \in Ids : ExpireIn(byID, S)[i] =
                 IF i \in S THEN [byID[i] EXCEPT !.state = "EXPIRED"] ELSE byID[i]
  BY DEF ExpireIn
<1>3. \A i \in S : /\ RecordOK(i, [byID[i] EXCEPT !.state = "EXPIRED"], mints[i], grants[i])
                    /\ [byID[i] EXCEPT !.state = "EXPIRED"].fp = byID[i].fp
                    /\ [byID[i] EXCEPT !.state = "EXPIRED"].state = "EXPIRED"
  <2> TAKE i \in S
  <2>1. /\ RecordOK(i, byID[i], mints[i], grants[i])
        /\ byID[i].state \in ActiveStates /\ byID[i] \in Record
    BY DEF RecOK, Active, StoreType
  <2> QED
    BY <2>1, ExpiredRecordOK
<1>4. \A i \in Ids : byID'[i] = IF i = id THEN rec ELSE ExpireIn(byID, S)[i]
  BY <1>2, <1>3 DEF PutLocked, Hits, Active, ActiveStates
<1>5. RecOK'
  <2>1. \A i \in Ids : RecordOK(i, byID'[i], mints[i], grants[i])
    <3> TAKE i \in Ids
    <3>1. CASE i = id
      BY <1>4, <3>1
    <3>2. CASE i \in S
      <4>1. byID'[i] = [byID[i] EXCEPT !.state = "EXPIRED"]
        BY <1>1, <1>2, <1>4, <3>2
      <4> QED
        BY <1>3, <3>2, <4>1
    <3>3. CASE i # id /\ i \notin S
      <4>1. byID'[i] = byID[i]
        BY <1>2, <1>4, <3>3
      <4> QED
        BY <4>1 DEF RecOK
    <3> QED
      BY <3>1, <3>2, <3>3
  <2> QED
    BY <2>1 DEF RecOK, RecordOK
<1>6. \A i \in Ids \ {id} : Active(i)' <=> Active(i) /\ i \notin S
  BY ZenonT(60), <1>2, <1>3, <1>4 DEF Active, ActiveStates
<1>7. Kept(id)
  <2>1. byID[id].state = "NONE"
    BY DEF NoRec
  <2>2. \A i \in S : byID[i].state # "NONE"
    BY DEF Active, ActiveStates
  <2>3. \A i \in Ids \ {id} : byID'[i] = IF i \in S THEN [byID[i] EXCEPT !.state = "EXPIRED"]
                                       ELSE byID[i]
    BY <1>2, <1>4
  <2> QED
    BY <1>3, <2>1, <2>2, <2>3 DEF Kept
<1>8. \A f \in Fps : UnindexIn(openByFP, S)[f] = IF openByFP[f] \in S THEN None ELSE openByFP[f]
  BY DEF UnindexIn
<1>9. \A f \in Fps : openByFP'[f] =
         IF f # rec.fp THEN UnindexIn(openByFP, S)[f]
         ELSE IF rec.state \in ActiveStates THEN id
         ELSE IF UnindexIn(openByFP, S)[f] = id THEN None ELSE UnindexIn(openByFP, S)[f]
  BY UnindexInType DEF IndexPut, StoreType
<1>10. \A i \in Ids \ {id} : byID'[i].fp = byID[i].fp
  BY ZenonT(60), <1>2, <1>3, <1>4
<1>11. IndexAgrees'
  <2> SUFFICES ASSUME NEW f \in Fps, NEW i \in Ids
               PROVE  openByFP'[f] = i <=> Active(i)' /\ byID'[i].fp = f
    BY DEF IndexAgrees
  <2>1. openByFP[f] = i <=> Active(i) /\ byID[i].fp = f
    BY DEF IndexAgrees
  <2>2. openByFP[f] # id
    BY <1>1 DEF IndexAgrees
  <2>3. None # i /\ None # id
    BY NoneAssumption DEF Ids
  <2>4. CASE i = id
    BY <1>4, <1>8, <1>9, <2>2, <2>3, <2>4 DEF Active
  <2>5. CASE i # id
    <3>1. byID'[i].fp = byID[i].fp /\ (Active(i)' <=> Active(i) /\ i \notin S)
      BY <1>6, <1>10, <2>5
    <3>2. rec.state \in ActiveStates /\ f = rec.fp => ~(Active(i) /\ byID[i].fp = f /\ i \notin S)
      BY DEF Hits
    <3> QED
      BY <1>8, <1>9, <2>1, <2>2, <2>3, <2>5, <3>1, <3>2
  <2> QED
    BY <2>4, <2>5
<1> QED
  BY <1>2, <1>4, <1>5, <1>6, <1>7, <1>11

-----------------------------------------------------------------------------
(* Steps of the callers *)

\* The callers that do not move still satisfy CallerOK.
LEMMA OthersOK ==
  ASSUME LocOK, CallerType, NEW c \in Callers, NEW x, Kept(x),
         x = 0 \/ (pc[c] = "open" /\ loc[c].class # "hard_block" /\ x = loc[c].id),
         \A d \in Callers \ {c} : pc'[d] = pc[d] /\ loc'[d] = loc[d],
         pc'[c] # "open", idSeq' = idSeq
  PROVE  \A d \in Callers \ {c} : CallerOK(d)'
<1> SUFFICES ASSUME NEW d \in Callers \ {c}
             PROVE  CallerOK(d)'
  OBVIOUS
<1>1. CallerOK(d) /\ CallerOK(c) /\ pc'[d] = pc[d] /\ loc'[d] = loc[d]
  BY DEF LocOK
<1>2. ASSUME pc[d] = "open" PROVE FreshId(d)'
  <2>1. SUFFICES ASSUME loc[d].class # "hard_block" PROVE FreshId(d)'
    BY <1>1, <1>2 DEF FreshId, CallerOK
  <2>2. FreshId(d) /\ loc[d].id \in 1..idSeq /\ byID[loc[d].id] = NoRec
    BY <1>1, <1>2, <2>1 DEF CallerOK, FreshId
  <2>3. loc[d].id \in Ids
    BY <2>2, BoundsAssumption DEF CallerType, Ids
  <2>4. loc[d].id # x
    BY <1>1, <1>2, <2>2 DEF CallerOK, FreshId
  <2>5. byID'[loc[d].id] = NoRec
    BY <2>2, <2>3, <2>4 DEF Kept, NoRec
  <2>6. \A e \in Callers \ {d} : pc'[e] = "open" => loc'[e].id # loc'[d].id
    BY <1>1, <2>1, <2>2 DEF FreshId
  <2> QED
    BY <1>1, <2>2, <2>5, <2>6 DEF FreshId
<1>3. pc[d] = "justify" => byID'[loc[d].id].state # "NONE"
  BY <1>1 DEF CallerOK, Kept
<1>4. pc[d] \in RetryLabels => /\ byID'[loc[d].id].state # "NONE"
                               /\ byID'[loc[d].id].fp = byID[loc[d].id].fp
  BY <1>1 DEF CallerOK, Kept
<1> QED
  BY <1>1, <1>2, <1>3, <1>4 DEF CallerOK

\* A call that ends, with or without a signal still to send.
LEMMA ReturnStep ==
  ASSUME IInv, NEW c \in Callers, NEW x, Kept(x), StoreInv',
         x = 0 \/ (pc[c] = "open" /\ loc[c].class # "hard_block" /\ x = loc[c].id),
         Return(c) \/ (\E S \in SUBSET Ids : ReturnAfterSignal(c, S)),
         UNCHANGED <<idSeq, denies>>,
         termCh' \in [Ids -> {"none", "open", "closed"}],
         mints' \in [Ids -> Nat], grants' \in [Ids -> SUBSET Keys]
  PROVE  IInv'
<1>1. CallerType /\ LocOK
  BY DEF IInv, TypeOK, CallerType
<1> DEFINE Left == /\ pc' \in [Callers -> Labels] /\ loc' \in [Callers -> Local]
                   /\ pc'[c] \in {"idle", "signal"}
                   /\ \A d \in Callers \ {c} : pc'[d] = pc[d] /\ loc'[d] = loc[d]
<1>2. Left
  <2>1. CASE Return(c)
    BY <1>1, <2>1, NoLocType DEF CallerType, Return, Labels
  <2>2. ASSUME NEW S \in SUBSET Ids, ReturnAfterSignal(c, S) PROVE Left
    <3>1. [NoLoc EXCEPT !.sig = S] \in Local
      BY DEF NoLoc, Local
    <3> QED
      BY <1>1, <2>2, <3>1 DEF CallerType, ReturnAfterSignal, Labels
  <2> QED
    BY <2>1, <2>2
<1>3. CallerType'
  BY <1>1, <1>2 DEF CallerType
<1>4. \A d \in Callers \ {c} : CallerOK(d)'
  BY <1>1, <1>2, OthersOK
<1>5. CallerOK(c)'
  BY <1>2 DEF CallerOK, RetryLabels
<1>6. LocOK'
  BY <1>4, <1>5 DEF LocOK
<1> QED
  BY <1>3, <1>6 DEF IInv, TypeOK, StoreInv, StoreType, CallerType

\* A retry that moves on to its next step.
LEMMA GoStep ==
  ASSUME IInv, NEW c \in Callers, Kept(0), StoreInv',
         pc[c] \in RetryLabels, NEW label \in RetryLabels, Go(c, label),
         UNCHANGED <<idSeq, denies, mints, grants>>,
         termCh' \in [Ids -> {"none", "open", "closed"}]
  PROVE  IInv'
<1>1. CallerType /\ LocOK
  BY DEF IInv, TypeOK, CallerType
<1>2. /\ pc' \in [Callers -> Labels] /\ loc' = loc /\ pc'[c] = label
      /\ \A d \in Callers \ {c} : pc'[d] = pc[d]
  BY <1>1 DEF CallerType, Go, Labels, RetryLabels
<1>3. CallerType'
  BY <1>1, <1>2 DEF CallerType
<1>4. pc'[c] # "open"
  BY <1>2 DEF RetryLabels
<1>5. \A d \in Callers \ {c} : CallerOK(d)'
  BY <1>1, <1>2, <1>4, OthersOK
<1>6. CallerOK(c)'
  BY <1>1, <1>2 DEF LocOK, CallerOK, Kept, RetryLabels
<1>7. LocOK'
  BY <1>5, <1>6 DEF LocOK
<1> QED
  BY <1>3, <1>7 DEF IInv, TypeOK, StoreInv, StoreType, CallerType

LEMMA Unpack ==
  ASSUME IInv
  PROVE  StoreInv /\ CallerType /\ LocOK
BY DEF IInv, TypeOK, StoreInv, StoreType, CallerType

LEMMA SameStore ==
  ASSUME StoreInv, UNCHANGED <<store, idSeq, mints, grants>>
  PROVE  StoreInv' /\ Kept(0)
<1>1. StoreType' /\ IndexAgrees' /\ BarrierHolds'
  BY DEF StoreInv, StoreType, IndexAgrees, BarrierHolds, store, Active
<1>2. RecOK'
  BY DEF StoreInv, RecOK, RecordOK, store
<1>3. Kept(0)
  BY DEF Kept, store
<1> QED
  BY <1>1, <1>2, <1>3 DEF StoreInv

LEMMA CloseAllType ==
  ASSUME CallerType, NEW S, CloseAll(S)
  PROVE  termCh' \in [Ids -> {"none", "open", "closed"}]
BY DEF CallerType, CloseAll

\* Telling ALLOW again to the identity that consumed it changes no history.
LEMMA ReplayIsStutter ==
  ASSUME StoreInv, CallerType, NEW c, NEW id \in Ids, ReplayResult(c, id)
  PROVE  UNCHANGED <<mints, grants>>
<1>1. CASE Replays(c, id)
  <2>1. grants[id] = {Key(c)}
    BY <1>1 DEF Replays, StoreInv, RecOK, RecordOK
  <2> QED
    BY ZenonT(60), <1>1, <2>1 DEF ReplayResult, Grant, CallerType
<1>2. CASE ~Replays(c, id)
  BY <1>2 DEF ReplayResult, NoResult
<1> QED
  BY <1>1, <1>2

LEMMA ExpireFirstInv ==
  ASSUME IInv, NEW c \in Callers, NEW id \in Ids, ExpireFirst(c, id)
  PROVE  IInv'
<1>1. StoreInv /\ CallerType /\ Active(id)
  BY Unpack DEF ExpireFirst, Due
<1>2. StoreInv' /\ Kept(0)
  BY <1>1, ExpireAllStep DEF ExpireFirst, NoResult, Payloads
<1> QED
  BY <1>1, <1>2, ReturnStep DEF ExpireFirst, NoResult, CallerType

-----------------------------------------------------------------------------
(* Open *)

LEMMA BeginOpenInv ==
  ASSUME IInv, NEW c \in Callers, NEW fp \in Fps, NEW class \in Classes,
         NEW gen \in Gens, NEW reason \in Reasons, NEW ttl \in TTLs,
         BeginOpen(c, fp, class, gen, reason, ttl)
  PROVE  IInv'
<1>1. StoreInv /\ CallerType /\ LocOK
  BY Unpack
<1>2. idSeq' \in 0..MaxChallenges /\ denies' \in 0..MaxDenies /\ idSeq <= idSeq'
  BY <1>1, BoundsAssumption DEF BeginOpen, CallerType
<1>3. StoreType' /\ IndexAgrees' /\ BarrierHolds'
  BY <1>1 DEF BeginOpen, StoreInv, StoreType, IndexAgrees, BarrierHolds, store, Active
<1>4. RecOK'
  BY <1>1, <1>2 DEF BeginOpen, StoreInv, RecOK, RecordOK, store, NoResult, CallerType, Ids
<1> DEFINE id == IF class = "hard_block" THEN 0 ELSE idSeq + 1
           new == [NoLoc EXCEPT !.id = id, !.fp = fp, !.class = class, !.gen = gen,
                                !.reason = reason, !.ttl = ttl, !.ticket = seq]
<1>5. /\ new \in Local /\ new.id = id /\ new.fp = fp /\ new.class = class
      /\ new.gen = gen /\ new.reason = reason
  <2>1. id \in Ids \cup {0} /\ seq \in Nat
    BY <1>1, BoundsAssumption DEF BeginOpen, CallerType, Ids, StoreInv, StoreType
  <2> QED
    BY <2>1 DEF NoLoc, Local
<1>6. /\ pc' \in [Callers -> Labels] /\ loc' \in [Callers -> Local]
      /\ pc'[c] = "open" /\ loc'[c] = new
      /\ \A d \in Callers \ {c} : pc'[d] = pc[d] /\ loc'[d] = loc[d]
  BY <1>1, <1>5 DEF BeginOpen, CallerType, Labels
<1>7. CallerType'
  BY <1>1, <1>2, <1>6 DEF CallerType, BeginOpen, NoResult
<1>8. \A d \in Callers \ {c} :
         pc[d] = "open" /\ loc[d].class # "hard_block" => loc[d].id \in 1..idSeq /\ loc[d].id # id
  BY <1>1 DEF LocOK, CallerOK, FreshId, CallerType
<1>9. byID' = byID
  BY DEF BeginOpen, store
<1>10. \A d \in Callers \ {c} : CallerOK(d)'
  <2> TAKE d \in Callers \ {c}
  <2>1. CallerOK(d) /\ pc'[d] = pc[d] /\ loc'[d] = loc[d]
    BY <1>1, <1>6 DEF LocOK
  <2>2. pc[d] = "open" => FreshId(d)'
    <3> SUFFICES ASSUME pc[d] = "open", loc[d].class # "hard_block" PROVE FreshId(d)'
      BY <2>1 DEF FreshId, CallerOK
    <3>1. loc[d].id \in 1..idSeq' /\ byID'[loc[d].id] = NoRec
      BY <1>1, <1>2, <1>9, <2>1 DEF CallerOK, FreshId, CallerType
    <3>2. \A e \in Callers \ {d} : pc'[e] = "open" => loc'[e].id # loc[d].id
      <4>1. loc'[c].id # loc[d].id
        BY <1>5, <1>6, <1>8
      <4>2. \A e \in Callers \ {d} : pc[e] = "open" => loc[e].id # loc[d].id
        BY <2>1 DEF CallerOK, FreshId
      <4> QED
        BY <1>6, <4>1, <4>2
    <3> QED
      BY <2>1, <3>1, <3>2 DEF FreshId
  <2> QED
    BY <1>9, <2>1, <2>2 DEF CallerOK
<1>11. FreshId(c)'
  <2> SUFFICES ASSUME class # "hard_block" PROVE FreshId(c)'
    BY <1>5, <1>6 DEF FreshId
  <2>1. idSeq' = idSeq + 1 /\ id = idSeq + 1 /\ id \in Ids
    BY <1>1, BoundsAssumption DEF BeginOpen, CallerType, Ids
  <2>2. byID[id] = NoRec
    BY <1>1, <2>1 DEF StoreInv, RecOK, RecordOK, CallerType
  <2>3. \A d \in Callers \ {c} : pc'[d] = "open" => loc'[d].id # id
    <3> SUFFICES ASSUME NEW d \in Callers \ {c}, pc[d] = "open" PROVE loc[d].id # id
      BY <1>6
    <3>1. CASE loc[d].class # "hard_block"
      BY <1>8, <3>1
    <3>2. CASE loc[d].class = "hard_block"
      BY <1>1, <2>1, <3>2 DEF LocOK, CallerOK, FreshId, CallerType, Ids
    <3> QED
      BY <3>1, <3>2
  <2> QED
    BY <1>1, <1>5, <1>6, <1>9, <2>1, <2>2, <2>3 DEF FreshId, CallerType
<1>12. CallerOK(c)'
  BY <1>5, <1>6, <1>11 DEF CallerOK, RetryLabels
<1> QED
  BY <1>3, <1>4, <1>7, <1>10, <1>12 DEF IInv, TypeOK, StoreType, CallerType, LocOK

LEMMA OpenHardBlockInv ==
  ASSUME IInv, NEW c \in Callers, OpenHardBlock(c)
  PROVE  IInv'
<1> DEFINE fp == loc[c].fp
           S == Superseded(fp)
<1>1. StoreInv /\ CallerType /\ CallerOK(c)
  BY Unpack DEF LocOK
<1>2. fp \in Fps /\ loc[c].gen \in Gens
  BY <1>1 DEF CallerOK, OpenHardBlock
<1>3. S \in SUBSET Ids /\ \A i \in S : Active(i)
  BY DEF Superseded
<1>4. Cardinality(S) \in Nat
  BY <1>3, IdsCardinality
<1>5. /\ RecOK' /\ IndexAgrees' /\ Kept(0)
      /\ \A i \in Ids : Active(i)' <=> Active(i) /\ i \notin S
      /\ \A i \in Ids \ S : byID'[i] = byID[i]
  BY <1>1, <1>3, ExpireStep DEF OpenHardBlock, StoreInv, NoResult
<1>6. StoreType'
  <2>1. seq' \in Nat
    BY <1>1, <1>4 DEF OpenHardBlock, StoreInv, StoreType
  <2>2. byID' \in [Ids -> Record] /\ openByFP' \in [Fps -> Ids \cup {None}]
    BY <1>1, <1>3, ExpireInType, UnindexInType DEF OpenHardBlock, StoreInv, StoreType
  <2>3. log' \in [Ids -> Seq(Event)]
    BY <1>1, <1>2, <1>3, LogInType DEF OpenHardBlock, StoreInv, StoreType, EventTypes, Payloads
  <2>4. barrier' \in [Fps -> [gen : Gens \cup {None}, mark : Nat]]
    BY <1>1, <1>2, <2>1 DEF OpenHardBlock, MarkBarrier, StoreInv, StoreType
  <2> QED
    BY <2>1, <2>2, <2>3, <2>4 DEF StoreType
<1>7. BarrierHolds'
  <2> SUFFICES ASSUME NEW f \in Fps, NEW i \in Ids, Active(i)', Covers(f, byID'[i].fp)
               PROVE  byID'[i].gen # barrier'[f].gen /\ byID'[i].ticket >= barrier'[f].mark
    BY DEF BarrierHolds
  <2>1. Active(i) /\ i \notin S /\ byID'[i] = byID[i]
    BY <1>5
  <2>2. f # fp
    BY <2>1, CoversSymmetric DEF Superseded
  <2>3. barrier'[f] = barrier[f]
    BY <1>1, <2>2 DEF OpenHardBlock, MarkBarrier, StoreInv, StoreType
  <2> QED
    BY <1>1, <2>1, <2>3 DEF StoreInv, BarrierHolds
<1>8. termCh' \in [Ids -> {"none", "open", "closed"}]
  BY <1>1, CloseAllType DEF OpenHardBlock
<1> QED
  BY <1>1, <1>5, <1>6, <1>7, <1>8, ReturnStep DEF OpenHardBlock, StoreInv, NoResult, CallerType

LEMMA OpenHumanReviewInv ==
  ASSUME IInv, NEW c \in Callers, OpenHumanReview(c)
  PROVE  IInv'
<1> DEFINE fp == loc[c].fp
           S == Superseded(fp)
           id == loc[c].id
           rec == [NoRec EXCEPT !.state = "HUMAN_REVIEW", !.fp = loc[c].fp,
                                !.gen = loc[c].gen, !.reason = loc[c].reason,
                                !.ticket = loc[c].ticket, !.interv = "HUMAN_REVIEW"]
<1>1. StoreInv /\ CallerType /\ CallerOK(c) /\ loc[c] \in Local
  BY Unpack DEF LocOK, CallerType
<1>2. /\ fp \in Fps /\ loc[c].gen \in Gens /\ loc[c].reason \in Reasons
      /\ id \in 1..idSeq /\ id \in Ids /\ byID[id] = NoRec
      /\ pc[c] = "open" /\ loc[c].class # "hard_block" /\ loc[c].ticket \in Nat
  BY <1>1, BoundsAssumption DEF CallerOK, FreshId, OpenHumanReview, CallerType, Ids, Local
<1>3. S \in SUBSET Ids /\ \A i \in S : Active(i)
  BY DEF Superseded
<1>4. Cardinality(S) \in Nat
  BY <1>3, IdsCardinality
<1>5. /\ rec \in Record /\ rec.fp = fp /\ rec.gen = loc[c].gen /\ rec.state = "HUMAN_REVIEW"
  BY <1>2 DEF NoRec, Record, ActiveStates, TerminalStates
<1>6. RecordOK(id, rec, mints[id], grants[id])
  <2>1. mints[id] = 0 /\ grants[id] = {}
    BY <1>1, <1>2 DEF StoreInv, RecOK, RecordOK, NoRec
  <2> QED
    BY <1>1, <1>2, <1>5, <2>1 DEF RecordOK, CallerType
<1>7. /\ RecOK' /\ IndexAgrees' /\ Kept(id)
      /\ \A i \in Ids \ {id} : Active(i)' <=> Active(i) /\ i \notin S
      /\ \A i \in Ids \ (S \cup {id}) : byID'[i] = byID[i]
      /\ byID'[id] = rec
  <2>1. rec.state \notin ActiveStates /\ rec.state # "NONE"
    BY <1>5 DEF ActiveStates
  <2>2. /\ byID' = PutLocked(ExpireIn(byID, S), id, rec)
        /\ openByFP' = IndexPut(UnindexIn(openByFP, S), id, rec)
        /\ UNCHANGED <<idSeq, mints, grants>>
    BY DEF OpenHumanReview, NoResult
  <2>3. StoreType /\ RecOK /\ IndexAgrees
    BY <1>1 DEF StoreInv
  <2> HIDE DEF rec, S, id, fp
  <2> QED
    BY <1>1, <1>2, <1>3, <1>5, <1>6, <2>1, <2>2, <2>3, InsertStep
<1>8. StoreType'
  <2>1. seq' \in Nat
    BY <1>1, <1>4 DEF OpenHumanReview, StoreInv, StoreType
  <2>2. byID' \in [Ids -> Record] /\ openByFP' \in [Fps -> Ids \cup {None}]
    BY <1>1, <1>2, <1>3, <1>5, ExpireInType, UnindexInType, PutLockedType, IndexPutType
       DEF OpenHumanReview, StoreInv, StoreType
  <2>3. LogIn(log, S, "expired", fp) \in [Ids -> Seq(Event)]
    BY <1>1, <1>2, <1>3, LogInType DEF StoreInv, StoreType, EventTypes, Payloads
  <2>4. log' \in [Ids -> Seq(Event)]
    <3>1. log' = LogIn(LogIn(log, S, "expired", fp), {id}, "human_review", fp)
      BY <1>5 DEF OpenHumanReview
    <3>2. fp \in Payloads /\ "human_review" \in EventTypes /\ {id} \in SUBSET Ids
      BY <1>2 DEF Payloads, EventTypes
    <3> HIDE DEF fp, id, S
    <3> QED
      BY <2>3, <3>1, <3>2, LogInType
  <2>5. barrier' \in [Fps -> [gen : Gens \cup {None}, mark : Nat]]
    BY <1>1, <1>2, <1>4, <1>5, SMTT(30) DEF OpenHumanReview, MarkBarrier, StoreInv, StoreType
  <2> QED
    BY <2>1, <2>2, <2>4, <2>5 DEF StoreType
<1>9. BarrierHolds'
  <2> SUFFICES ASSUME NEW f \in Fps, NEW i \in Ids, Active(i)', Covers(f, byID'[i].fp)
               PROVE  byID'[i].gen # barrier'[f].gen /\ byID'[i].ticket >= barrier'[f].mark
    BY DEF BarrierHolds
  <2>1. i # id
    BY <1>5, <1>7 DEF Active, ActiveStates
  <2>2. Active(i) /\ i \notin S /\ byID'[i] = byID[i]
    BY <1>7, <2>1
  <2>3. f # fp
    BY <2>2, CoversSymmetric DEF Superseded
  <2>4. barrier'[f] = barrier[f]
    BY <1>1, <1>5, <2>3 DEF OpenHumanReview, MarkBarrier, StoreInv, StoreType
  <2> QED
    BY <1>1, <2>2, <2>4 DEF StoreInv, BarrierHolds
<1>10. termCh' \in [Ids -> {"none", "open", "closed"}]
  BY <1>1, CloseAllType DEF OpenHumanReview
<1>11. \E T \in SUBSET Ids : ReturnAfterSignal(c, T)
  BY <1>2 DEF OpenHumanReview
<1> QED
  BY <1>1, <1>2, <1>7, <1>8, <1>9, <1>10, <1>11, ReturnStep
     DEF OpenHumanReview, StoreInv, NoResult, CallerType

LEMMA OpenReuseInv ==
  ASSUME IInv, NEW c \in Callers, OpenReuse(c)
  PROVE  IInv'
<1>1. StoreInv /\ CallerType /\ CallerOK(c)
  BY Unpack DEF LocOK
<1>2. loc[c].fp \in Fps
  BY <1>1 DEF CallerOK, OpenReuse, AppealableOpen
<1>3. PICK m \in Hits(loc[c].fp) :
         ExpireAll(Hits(loc[c].fp) \ {m}, loc[c].fp) /\ CloseAll(Hits(loc[c].fp) \ {m})
  BY DEF OpenReuse
<1>4. StoreInv' /\ Kept(0)
  BY <1>1, <1>2, <1>3, ExpireAllStep DEF Hits, OpenReuse, NoResult, Payloads
<1>5. termCh' \in [Ids -> {"none", "open", "closed"}]
  BY <1>1, <1>3, CloseAllType
<1> QED
  BY <1>1, <1>4, <1>5, ReturnStep DEF OpenReuse, NoResult, CallerType

LEMMA OpenNewInv ==
  ASSUME IInv, NEW c \in Callers, OpenNew(c)
  PROVE  IInv'
<1> DEFINE fp == loc[c].fp
           S == Hits(fp)
           id == loc[c].id
           due == IF loc[c].ttl > 0 THEN seq + Cardinality(S) + 1 + loc[c].ttl ELSE 0
           rec == [NoRec EXCEPT
                     !.state = "OPEN", !.fp = loc[c].fp, !.gen = loc[c].gen,
                     !.reason = loc[c].reason, !.budget = 1, !.ticket = loc[c].ticket,
                     !.expiresAt = due, !.interv = "APPEALABLE_CHALLENGE"]
<1>1. StoreInv /\ CallerType /\ CallerOK(c) /\ loc[c] \in Local
  BY Unpack DEF LocOK, CallerType
<1>2. /\ fp \in Fps /\ loc[c].gen \in Gens /\ loc[c].reason \in Reasons
      /\ id \in 1..idSeq /\ id \in Ids /\ byID[id] = NoRec
      /\ pc[c] = "open" /\ loc[c].class # "hard_block"
      /\ loc[c].ticket \in Nat /\ loc[c].ttl \in Nat
  BY <1>1, BoundsAssumption, TTLAssumption
     DEF CallerOK, FreshId, OpenNew, AppealableOpen, CallerType, Ids, Local
<1>3. S \in SUBSET Ids /\ \A i \in S : Active(i)
  BY DEF Hits
<1>4. Cardinality(S) \in Nat /\ seq \in Nat
  BY <1>1, <1>3, IdsCardinality DEF StoreInv, StoreType
<1>5. /\ rec \in Record /\ rec.fp = fp /\ rec.gen = loc[c].gen /\ rec.state = "OPEN"
      /\ rec.budget = 1 /\ rec.ticket = loc[c].ticket
  <2>1. due \in Nat
    BY <1>2, <1>4
  <2> HIDE DEF due
  <2> QED
    BY <1>2, <2>1 DEF NoRec, Record, ActiveStates, TerminalStates
<1>6. RecordOK(id, rec, mints[id], grants[id])
  <2>1. mints[id] = 0 /\ grants[id] = {}
    BY <1>1, <1>2 DEF StoreInv, RecOK, RecordOK, NoRec
  <2> QED
    BY <1>1, <1>2, <1>5, <2>1 DEF RecordOK, CallerType
<1>7. /\ RecOK' /\ IndexAgrees' /\ Kept(id)
      /\ \A i \in Ids \ {id} : Active(i)' <=> Active(i) /\ i \notin S
      /\ \A i \in Ids \ (S \cup {id}) : byID'[i] = byID[i]
      /\ byID'[id] = rec
  <2>1. Hits(rec.fp) \subseteq S /\ rec.state # "NONE"
    BY SMTT(30), <1>5
  <2>2. /\ byID' = PutLocked(ExpireIn(byID, S), id, rec)
        /\ openByFP' = IndexPut(UnindexIn(openByFP, S), id, rec)
        /\ UNCHANGED <<idSeq, mints, grants>>
    BY SMTT(30) DEF OpenNew, NoResult
  <2>3. StoreType /\ RecOK /\ IndexAgrees
    BY <1>1 DEF StoreInv
  <2> HIDE DEF rec, S, id, fp
  <2> QED
    BY <1>1, <1>2, <1>3, <1>5, <1>6, <2>1, <2>2, <2>3, InsertStep
<1>8. StoreType'
  <2>1. seq' \in Nat
    BY <1>4 DEF OpenNew
  <2>2. byID' \in [Ids -> Record] /\ openByFP' \in [Fps -> Ids \cup {None}]
    BY ZenonT(60), <1>1, <1>2, <1>3, <1>5, ExpireInType, UnindexInType, PutLockedType, IndexPutType
       DEF OpenNew, StoreInv, StoreType
  <2>3. LogIn(log, S, "expired", fp) \in [Ids -> Seq(Event)]
    BY <1>1, <1>2, <1>3, LogInType DEF StoreInv, StoreType, EventTypes, Payloads
  <2>4. log' \in [Ids -> Seq(Event)]
    <3>1. log' = LogIn(LogIn(log, S, "expired", fp), {id}, "opened", fp)
      BY <1>5 DEF OpenNew
    <3>2. fp \in Payloads /\ "opened" \in EventTypes /\ {id} \in SUBSET Ids
      BY <1>2 DEF Payloads, EventTypes
    <3> HIDE DEF fp, id, S
    <3> QED
      BY <2>3, <3>1, <3>2, LogInType, ZenonT(60)
  <2> QED
    BY <1>1, <2>1, <2>2, <2>4 DEF StoreInv, StoreType, OpenNew
<1>9. BarrierHolds'
  <2>0. barrier' = barrier
    BY DEF OpenNew
  <2> HIDE DEF fp, S, id, due, rec
  <2> SUFFICES ASSUME NEW f \in Fps, NEW i \in Ids, Active(i)', Covers(f, byID'[i].fp)
               PROVE  byID'[i].gen # barrier[f].gen /\ byID'[i].ticket >= barrier[f].mark
    BY <2>0 DEF BarrierHolds
  <2> USE DEF fp, S, id, due, rec
  <2>1. CASE i = id
    <3>1. byID'[i].gen = loc[c].gen /\ byID'[i].ticket = loc[c].ticket /\ byID'[i].fp = fp
      BY <1>5, <1>7, <2>1
    <3>2. ~BarrierPolicyHit(barrier[f], loc[c].gen, loc[c].ticket)
      BY <3>1 DEF OpenNew, OpenBarred, Barred
    <3>3. barrier[f].mark \in Nat
      BY <1>1 DEF StoreInv, StoreType
    <3> QED
      BY SMTT(30), <1>2, <3>1, <3>2, <3>3 DEF BarrierPolicyHit
  <2>2. CASE i # id
    <3>1. Active(i) /\ byID'[i] = byID[i]
      BY <1>7, <2>2
    <3> QED
      BY <1>1, <3>1 DEF StoreInv, BarrierHolds
  <2> QED
    BY SMTT(30), <2>1, <2>2
<1>10. termCh' \in [Ids -> {"none", "open", "closed"}]
  BY <1>1, CloseAllType DEF OpenNew
<1> QED
  BY <1>1, <1>2, <1>7, <1>8, <1>9, <1>10, ReturnStep DEF OpenNew, StoreInv, NoResult, CallerType

-----------------------------------------------------------------------------
(* Calls that leave the store alone *)

\* A call that returns and changes neither the store nor the history.
LEMMA QuietReturn ==
  ASSUME IInv, NEW c \in Callers, Return(c),
         UNCHANGED <<store, idSeq, denies, mints, grants>>,
         termCh' \in [Ids -> {"none", "open", "closed"}]
  PROVE  IInv'
<1>1. StoreInv /\ CallerType
  BY Unpack
<1>2. StoreInv' /\ Kept(0)
  BY <1>1, SameStore
<1> QED
  BY <1>1, <1>2, ReturnStep DEF CallerType

\* A retry that goes on and changes neither the store nor the history.
LEMMA QuietGo ==
  ASSUME IInv, NEW c \in Callers, pc[c] \in RetryLabels,
         NEW label \in RetryLabels, Go(c, label),
         UNCHANGED <<store, idSeq, denies, mints, grants>>,
         termCh' \in [Ids -> {"none", "open", "closed"}]
  PROVE  IInv'
<1>1. StoreInv' /\ Kept(0)
  BY Unpack, SameStore
<1> QED
  BY <1>1, GoStep

LEMMA SignalTerminalInv ==
  ASSUME IInv, NEW c \in Callers, SignalTerminal(c)
  PROVE  IInv'
<1>1. termCh' \in [Ids -> {"none", "open", "closed"}]
  BY Unpack, CloseAllType DEF SignalTerminal
<1> QED
  BY <1>1, QuietReturn DEF SignalTerminal, NoResult

LEMMA ReturnOnlyInv ==
  ASSUME IInv, NEW c \in Callers,
         OpenRefused(c) \/ JustifyNoChange(c) \/ WaitCanceled(c)
  PROVE  IInv'
<1>1. CallerType
  BY Unpack
<1> QED
  BY <1>1, QuietReturn DEF OpenRefused, JustifyNoChange, WaitCanceled, NoResult, CallerType

\* The retries answered from a finished record.
LEMMA ReplayInv ==
  ASSUME IInv, NEW c \in Callers, RetryOfTerminal(c) \/ WaitReturn(c) \/ FinalizeLost(c)
  PROVE  IInv'
<1>1. StoreInv /\ CallerType /\ CallerOK(c) /\ pc[c] \in RetryLabels
  BY Unpack DEF LocOK, RetryOfTerminal, WaitReturn, FinalizeLost, RetryLabels
<1>2. loc[c].id \in Ids
  BY <1>1 DEF CallerOK
<1>3. UNCHANGED <<mints, grants>>
  BY <1>1, <1>2, ReplayIsStutter DEF RetryOfTerminal, WaitReturn, FinalizeLost
<1>4. termCh' \in [Ids -> {"none", "open", "closed"}]
  BY <1>1, CloseAllType DEF RetryOfTerminal, WaitReturn, FinalizeLost, CallerType
<1> QED
  BY <1>3, <1>4, QuietReturn DEF RetryOfTerminal, WaitReturn, FinalizeLost

LEMMA WaitInv ==
  ASSUME IInv, NEW c \in Callers,
         RetryJoin(c) \/ WaitGet(c) \/ WaitRegister(c) \/ WaitWoken(c)
  PROVE  IInv'
<1>1. CallerType
  BY Unpack
<1>2. CASE RetryJoin(c)
  <2>1. "wait_get" \in RetryLabels /\ pc[c] \in RetryLabels
    BY <1>2 DEF RetryLabels, RetryJoin
  <2> QED
    BY <1>1, <1>2, <2>1, QuietGo DEF RetryJoin, NoResult, CallerType
<1>3. CASE WaitGet(c)
  <2>1. /\ "wait_register" \in RetryLabels /\ "wait_select" \in RetryLabels
        /\ pc[c] \in RetryLabels
    BY <1>3 DEF RetryLabels, WaitGet
  <2> QED
    BY <1>1, <1>3, <2>1, QuietGo DEF WaitGet, NoResult, CallerType
<1>4. CASE WaitRegister(c)
  <2>1. "wait_recheck" \in RetryLabels /\ pc[c] \in RetryLabels
    BY <1>4 DEF RetryLabels, WaitRegister
  <2>2. termCh' \in [Ids -> {"none", "open", "closed"}]
    BY <1>1, <1>4 DEF WaitRegister, CallerType
  <2> QED
    BY <1>4, <2>1, <2>2, QuietGo DEF WaitRegister, NoResult
<1>5. CASE WaitWoken(c)
  <2>1. "wait_get" \in RetryLabels /\ pc[c] \in RetryLabels
    BY <1>5 DEF RetryLabels, WaitWoken
  <2> QED
    BY <1>1, <1>5, <2>1, QuietGo DEF WaitWoken, NoResult, CallerType
<1> QED
  BY <1>2, <1>3, <1>4, <1>5

-----------------------------------------------------------------------------
(* Justify and AttemptRetry *)

\* A call that passed expireIfNeeded and its checks and heads for the lock.
LEMMA BeginInv ==
  ASSUME IInv, NEW c \in Callers, NEW label \in {"justify", "retry"}, NEW new \in Local,
         pc' = [pc EXCEPT ![c] = label], loc' = [loc EXCEPT ![c] = new],
         new.id \in Ids, byID[new.id].state # "NONE",
         label = "justify" => new.att \in Justs,
         label = "retry" => /\ new.att \in Attempts /\ new.fp \in Fps
                            /\ Bound(new.fp, byID[new.id].fp),
         UNCHANGED <<store, idSeq, termCh, denies, mints, grants>>
  PROVE  IInv'
<1>1. StoreInv /\ CallerType /\ LocOK
  BY Unpack
<1>2. StoreInv' /\ Kept(0)
  BY <1>1, SameStore
<1>3. /\ pc' \in [Callers -> Labels] /\ loc' \in [Callers -> Local]
      /\ pc'[c] = label /\ loc'[c] = new
      /\ \A d \in Callers \ {c} : pc'[d] = pc[d] /\ loc'[d] = loc[d]
  BY <1>1 DEF CallerType, Labels
<1>4. CallerType'
  BY <1>1, <1>3 DEF CallerType
<1>5. pc'[c] # "open"
  BY <1>3
<1>6. \A d \in Callers \ {c} : CallerOK(d)'
  BY <1>1, <1>2, <1>3, <1>5, OthersOK
<1>7. CallerOK(c)'
  BY <1>3 DEF CallerOK, store, RetryLabels
<1>8. LocOK'
  BY <1>6, <1>7 DEF LocOK
<1> QED
  BY <1>2, <1>4, <1>8 DEF IInv, TypeOK, StoreInv, StoreType, CallerType

LEMMA BeginJustifyInv ==
  ASSUME IInv, NEW c \in Callers, NEW id \in Ids, NEW j \in Justs, BeginJustify(c, id, j)
  PROVE  IInv'
<1>1. CASE ExpireFirst(c, id)
  BY <1>1, ExpireFirstInv
<1>2. CASE ~ExpireFirst(c, id)
  <2> DEFINE new == [NoLoc EXCEPT !.id = id, !.att = j]
  <2>1. new \in Local /\ new.id = id /\ new.att = j
    BY DEF NoLoc, Local
  <2>2. /\ pc' = [pc EXCEPT ![c] = "justify"] /\ loc' = [loc EXCEPT ![c] = new]
        /\ byID[id].state # "NONE"
        /\ UNCHANGED <<store, idSeq, termCh, denies, mints, grants>>
    BY <1>2 DEF BeginJustify, NoResult
  <2> HIDE DEF new
  <2> QED
    BY <2>1, <2>2, BeginInv
<1> QED
  BY <1>1, <1>2

LEMMA BeginRetryInv ==
  ASSUME IInv, NEW c \in Callers, NEW id \in Ids, NEW att \in Attempts, NEW fp \in Fps,
         BeginRetry(c, id, att, fp)
  PROVE  IInv'
<1>1. CASE ExpireFirst(c, id)
  BY <1>1, ExpireFirstInv
<1>2. CASE ~ExpireFirst(c, id)
  <2> DEFINE new == [NoLoc EXCEPT !.id = id, !.att = att, !.fp = fp]
  <2>1. new \in Local /\ new.id = id /\ new.att = att /\ new.fp = fp
    BY DEF NoLoc, Local
  <2>2. /\ pc' = [pc EXCEPT ![c] = "retry"] /\ loc' = [loc EXCEPT ![c] = new]
        /\ byID[id].state # "NONE" /\ Bound(fp, byID[id].fp)
        /\ UNCHANGED <<store, idSeq, termCh, denies, mints, grants>>
    BY <1>2 DEF BeginRetry, NoResult
  <2> HIDE DEF new
  <2> QED
    BY <2>1, <2>2, BeginInv
<1> QED
  BY <1>1, <1>2

\* The expiries found under the lock.
LEMMA ExpiredUnderLockInv ==
  ASSUME IInv, NEW c \in Callers, JustifyExpired(c) \/ RetryExpired(c) \/ FinalizeExpired(c)
  PROVE  IInv'
<1>1. StoreInv /\ CallerType /\ CallerOK(c)
  BY Unpack DEF LocOK
<1>2. CASE JustifyExpired(c)
  BY <1>1, <1>2, ExpireFirstInv DEF JustifyExpired, CallerOK
<1>3. CASE RetryExpired(c) \/ FinalizeExpired(c)
  <2>1. loc[c].id \in Ids /\ loc[c].fp \in Payloads /\ Active(loc[c].id)
    BY <1>1, <1>3 DEF RetryExpired, FinalizeExpired, CallerOK, RetryLabels, Due, Payloads
  <2>2. ExpireAll({loc[c].id}, loc[c].fp) /\ UNCHANGED <<idSeq, mints, grants>>
    BY <1>3 DEF RetryExpired, FinalizeExpired, NoResult
  <2>3. StoreInv' /\ Kept(0)
    BY <1>1, <2>1, <2>2, ExpireAllStep
  <2>4. termCh' \in [Ids -> {"none", "open", "closed"}]
    BY <1>1, <1>3, CloseAllType DEF RetryExpired, FinalizeExpired, CallerType
  <2>5. Return(c) \/ \E S \in SUBSET Ids : ReturnAfterSignal(c, S)
    BY <1>3, <2>1 DEF RetryExpired, FinalizeExpired
  <2> QED
    BY <1>1, <1>3, <2>3, <2>4, <2>5, ReturnStep
       DEF RetryExpired, FinalizeExpired, NoResult, CallerType
<1> QED
  BY <1>2, <1>3

\* What is known of a live challenge a caller is about to move.
LEMMA LiveRecord ==
  ASSUME StoreInv, NEW id \in Ids, Active(id)
  PROVE  /\ byID[id] \in Record /\ byID[id].fp \in Fps /\ byID[id].gen \in Gens
         /\ id <= idSeq /\ mints[id] = 0 /\ grants[id] = {}
         /\ RecordOK(id, byID[id], mints[id], grants[id])
BY DEF StoreInv, StoreType, RecOK, RecordOK, Active, ActiveStates

LEMMA JustifyAcceptInv ==
  ASSUME IInv, NEW c \in Callers, JustifyAccept(c)
  PROVE  IInv'
<1> DEFINE id == loc[c].id
           rec == [byID[id] EXCEPT !.state = "JUSTIFIED", !.just = loc[c].att]
<1>1. StoreInv /\ CallerType /\ CallerOK(c)
  BY Unpack DEF LocOK
<1>2. id \in Ids /\ loc[c].att \in Justs /\ byID[id].state = "OPEN" /\ Active(id)
  BY <1>1 DEF CallerOK, JustifyAccept, Active, ActiveStates
<1>3. /\ byID[id] \in Record /\ byID[id].fp \in Fps /\ byID[id].gen \in Gens
      /\ id <= idSeq /\ mints[id] = 0 /\ grants[id] = {}
      /\ RecordOK(id, byID[id], mints[id], grants[id])
  BY <1>1, <1>2, LiveRecord
<1>4. /\ rec \in Record /\ rec.fp = byID[id].fp /\ rec.gen = byID[id].gen
      /\ rec.ticket = byID[id].ticket /\ rec.state = "JUSTIFIED"
      /\ rec.budget = byID[id].budget /\ rec.just = loc[c].att
  BY <1>2, <1>3 DEF Record, ActiveStates
<1>5. RecordOK(id, rec, mints'[id], grants'[id])
  BY <1>2, <1>3, <1>4 DEF RecordOK, JustifyAccept, NoResult
<1>6. /\ Transition(id, rec, "justified", loc[c].att) /\ UNCHANGED <<idSeq, mints, grants>>
      /\ "justified" \in EventTypes /\ loc[c].att \in Payloads
  BY <1>2 DEF JustifyAccept, NoResult, EventTypes, Payloads
<1>7. StoreInv' /\ Kept(0)
  <2> HIDE DEF rec, id
  <2> QED
    BY <1>1, <1>2, <1>4, <1>5, <1>6, TransitionStep
<1> QED
  BY <1>1, <1>7, ReturnStep DEF JustifyAccept, NoResult, CallerType

\* A live challenge ends in a state other than ALLOWED_ONCE.
LEMMA EndStep ==
  ASSUME StoreInv, NEW id \in Ids, Active(id), NEW rec \in Record,
         rec.state \in {"REJECTED", "HUMAN_REVIEW", "ABANDONED"},
         rec.fp = byID[id].fp, rec.gen = byID[id].gen, rec.ticket = byID[id].ticket,
         NEW type \in EventTypes, NEW p \in Payloads, Transition(id, rec, type, p),
         UNCHANGED <<idSeq, mints, grants>>
  PROVE  StoreInv' /\ Kept(0)
<1>1. /\ byID[id].fp \in Fps /\ byID[id].gen \in Gens
      /\ id <= idSeq /\ mints[id] = 0 /\ grants[id] = {}
  BY LiveRecord
<1>2. RecordOK(id, rec, mints'[id], grants'[id])
  BY <1>1 DEF RecordOK
<1> QED
  BY <1>2, TransitionStep

LEMMA RetryRefusedInv ==
  ASSUME IInv, NEW c \in Callers, RetryRefused(c)
  PROVE  IInv'
<1> DEFINE id == loc[c].id
           rec == [byID[id] EXCEPT !.state = "REJECTED", !.stage2 = "BLOCK"]
<1>1. StoreInv /\ CallerType /\ CallerOK(c)
  BY Unpack DEF LocOK
<1>2. id \in Ids /\ loc[c].fp \in Fps /\ Active(id)
  BY <1>1 DEF CallerOK, RetryRefused, Refused, Active, ActiveStates, RetryLabels
<1>3. byID[id] \in Record
  BY <1>1, <1>2, LiveRecord
<1>4. /\ rec \in Record /\ rec.fp = byID[id].fp /\ rec.gen = byID[id].gen
      /\ rec.ticket = byID[id].ticket /\ rec.state = "REJECTED"
  BY ZenonT(60), <1>3 DEF Record, TerminalStates
<1>5. /\ Transition(id, rec, "rejected", loc[c].fp) /\ UNCHANGED <<idSeq, mints, grants>>
      /\ "rejected" \in EventTypes /\ loc[c].fp \in Payloads
  BY <1>2 DEF RetryRefused, NoResult, EventTypes, Payloads
<1>6. StoreInv' /\ Kept(0)
  <2> HIDE DEF rec, id
  <2> QED
    BY <1>1, <1>2, <1>4, <1>5, EndStep
<1>7. \E S \in SUBSET Ids : ReturnAfterSignal(c, S)
  BY <1>2 DEF RetryRefused
<1> QED
  BY <1>1, <1>6, <1>7, ReturnStep DEF RetryRefused, NoResult, CallerType

LEMMA RetryConsumeInv ==
  ASSUME IInv, NEW c \in Callers, RetryConsume(c)
  PROVE  IInv'
<1> DEFINE id == loc[c].id
           rec == [byID[id] EXCEPT !.state = "RETRY_PENDING", !.budget = @ - 1]
<1>1. StoreInv /\ CallerType /\ CallerOK(c)
  BY Unpack DEF LocOK
<1>2. /\ id \in Ids /\ Key(c) \in Keys /\ byID[id].state = "JUSTIFIED" /\ Active(id)
      /\ pc[c] \in RetryLabels
  BY <1>1 DEF CallerOK, RetryConsume, Active, ActiveStates, RetryLabels, Key, Keys
<1>3. /\ byID[id] \in Record /\ byID[id].fp \in Fps /\ byID[id].gen \in Gens
      /\ id <= idSeq /\ mints[id] = 0 /\ grants[id] = {}
      /\ byID[id].budget = 1 /\ byID[id].just \in Justs
  BY <1>1, <1>2, LiveRecord DEF RecordOK
<1>4. /\ rec \in Record /\ rec.fp = byID[id].fp /\ rec.gen = byID[id].gen
      /\ rec.ticket = byID[id].ticket /\ rec.state = "RETRY_PENDING"
      /\ rec.budget = 0 /\ rec.just = byID[id].just
  <2>1. rec = [byID[id] EXCEPT !.state = "RETRY_PENDING", !.budget = 0]
    BY <1>3
  <2> QED
    BY <1>3, <2>1 DEF Record, ActiveStates
<1>5. RecordOK(id, rec, mints'[id], grants'[id])
  BY <1>3, <1>4 DEF RecordOK, RetryConsume, NoResult
<1>6. /\ Transition(id, rec, "budget_consumed", Key(c)) /\ UNCHANGED <<idSeq, mints, grants>>
      /\ "budget_consumed" \in EventTypes /\ Key(c) \in Payloads
  BY <1>2 DEF RetryConsume, NoResult, EventTypes, Payloads
<1>7. StoreInv' /\ Kept(0)
  <2> HIDE DEF rec, id
  <2> QED
    BY <1>1, <1>2, <1>4, <1>5, <1>6, TransitionStep
<1>8. "reeval" \in RetryLabels
  BY DEF RetryLabels
<1> QED
  BY <1>1, <1>2, <1>7, <1>8, GoStep DEF RetryConsume, NoResult, CallerType

\* The retries that end in REJECTED or HUMAN_REVIEW.
LEMMA RetryEndsInv ==
  ASSUME IInv, NEW c \in Callers, pc[c] = "reeval", byID[loc[c].id].state = "RETRY_PENDING",
         NEW type \in {"rejected", "human_review"}, NEW rec,
         rec = IF type = "rejected"
                 THEN [byID[loc[c].id] EXCEPT !.state = "REJECTED", !.stage2 = "BLOCK",
                                              !.key = Key(c)]
                 ELSE [byID[loc[c].id] EXCEPT !.state = "HUMAN_REVIEW", !.stage2 = "BLOCK",
                                              !.interv = "HUMAN_REVIEW", !.key = Key(c)],
         Transition(loc[c].id, rec, type, Key(c)), CloseAll({loc[c].id}), Return(c),
         UNCHANGED <<idSeq, denies, mints, grants>>
  PROVE  IInv'
<1> DEFINE id == loc[c].id
<1>1. StoreInv /\ CallerType /\ CallerOK(c)
  BY Unpack DEF LocOK
<1>2. id \in Ids /\ Key(c) \in Keys /\ Active(id)
  BY <1>1 DEF CallerOK, Active, ActiveStates, RetryLabels, Key, Keys
<1>3. byID[id] \in Record
  BY <1>1, <1>2, LiveRecord
<1>4. /\ rec \in Record /\ rec.fp = byID[id].fp /\ rec.gen = byID[id].gen
      /\ rec.ticket = byID[id].ticket /\ rec.state \in {"REJECTED", "HUMAN_REVIEW"}
  <2>1. CASE type = "rejected"
    BY ZenonT(60), <1>2, <1>3, <2>1 DEF Record, TerminalStates
  <2>2. CASE type = "human_review"
    BY ZenonT(60), <1>2, <1>3, <2>2 DEF Record, TerminalStates
  <2> QED
    BY <2>1, <2>2
<1>5. type \in EventTypes /\ Key(c) \in Payloads
  BY <1>2 DEF EventTypes, Payloads
<1>6. StoreInv' /\ Kept(0)
  BY <1>1, <1>2, <1>4, <1>5, EndStep
<1>7. termCh' \in [Ids -> {"none", "open", "closed"}]
  BY <1>1, CloseAllType
<1> QED
  BY <1>1, <1>6, <1>7, ReturnStep DEF CallerType

LEMMA RetryCanceledInv ==
  ASSUME IInv, NEW c \in Callers, RetryCanceled(c)
  PROVE  IInv'
<1>1. CASE byID[loc[c].id].state = "RETRY_PENDING"
  BY <1>1, RetryEndsInv DEF RetryCanceled, NoResult
<1>2. CASE byID[loc[c].id].state # "RETRY_PENDING"
  <2>1. CallerType
    BY Unpack
  <2>2. Return(c) /\ UNCHANGED <<store, idSeq, denies, mints, grants, termCh>>
    BY <1>2 DEF RetryCanceled, NoResult
  <2>3. termCh' \in [Ids -> {"none", "open", "closed"}]
    BY <2>1, <2>2 DEF CallerType
  <2> QED
    BY <2>2, <2>3, QuietReturn
<1> QED
  BY SMTT(60), <1>1, <1>2

LEMMA FinalizeEndsInv ==
  ASSUME IInv, NEW c \in Callers, FinalizeReject(c) \/ FinalizeHumanReview(c)
  PROVE  IInv'
<1>1. CASE FinalizeReject(c)
  BY ZenonT(60), <1>1, RetryEndsInv DEF FinalizeReject, Finalizable, NoResult
<1>2. CASE FinalizeHumanReview(c)
  BY <1>2, RetryEndsInv DEF FinalizeHumanReview, Finalizable, NoResult
<1> QED
  BY SMTT(60), <1>1, <1>2

LEMMA FinalizeAllowInv ==
  ASSUME IInv, NEW c \in Callers, FinalizeAllow(c)
  PROVE  IInv'
<1> DEFINE id == loc[c].id
           rec == [byID[id] EXCEPT !.state = "ALLOWED_ONCE", !.stage2 = "ALLOW",
                                   !.interv = "none", !.key = Key(c)]
<1>1. StoreInv /\ CallerType /\ CallerOK(c)
  BY Unpack DEF LocOK
<1>2. /\ id \in Ids /\ Key(c) \in Keys /\ Key(c)[2] = loc[c].fp /\ Bound(loc[c].fp, byID[id].fp)
      /\ byID[id].state = "RETRY_PENDING" /\ Active(id)
  BY <1>1 DEF CallerOK, FinalizeAllow, Finalizable, Active, ActiveStates, RetryLabels, Key, Keys
<1>3. /\ byID[id] \in Record /\ byID[id].fp \in Fps /\ byID[id].gen \in Gens
      /\ id <= idSeq /\ mints[id] = 0 /\ grants[id] = {}
      /\ byID[id].budget = 0 /\ byID[id].just \in Justs
  BY <1>1, <1>2, LiveRecord DEF RecordOK
<1>4. /\ rec \in Record /\ rec.fp = byID[id].fp /\ rec.gen = byID[id].gen
      /\ rec.ticket = byID[id].ticket /\ rec.state = "ALLOWED_ONCE"
      /\ rec.budget = byID[id].budget /\ rec.just = byID[id].just /\ rec.key = Key(c)
  BY <1>2, <1>3 DEF Record, TerminalStates
<1>5. /\ mints' \in [Ids -> Nat] /\ grants' \in [Ids -> SUBSET Keys]
      /\ mints'[id] = 1 /\ grants'[id] = {Key(c)}
      /\ \A i \in Ids \ {id} : mints'[i] = mints[i] /\ grants'[i] = grants[i]
  <2>1. /\ grants' = [grants EXCEPT ![id] = @ \cup {Key(c)}]
        /\ mints' = [mints EXCEPT ![id] = @ + 1]
    BY DEF FinalizeAllow, Grant
  <2> QED
    BY <1>1, <1>2, <1>3, <2>1 DEF CallerType
<1>6. RecordOK(id, rec, mints'[id], grants'[id])
  <2> HIDE DEF rec, id
  <2> QED
    BY <1>2, <1>3, <1>4, <1>5 DEF RecordOK
<1>7. /\ Transition(id, rec, "allowed_once", Key(c)) /\ UNCHANGED idSeq
      /\ "allowed_once" \in EventTypes /\ Key(c) \in Payloads
  BY <1>2 DEF FinalizeAllow, EventTypes, Payloads
<1>8. StoreInv' /\ Kept(0)
  <2> HIDE DEF rec, id
  <2> QED
    BY <1>1, <1>2, <1>4, <1>5, <1>6, <1>7, TransitionStep
<1>9. termCh' \in [Ids -> {"none", "open", "closed"}]
  BY <1>1, CloseAllType DEF FinalizeAllow
<1> QED
  BY <1>5, <1>8, <1>9, ReturnStep DEF FinalizeAllow

LEMMA AbandonInv ==
  ASSUME IInv, NEW c \in Callers, NEW id \in Ids, Abandon(c, id)
  PROVE  IInv'
<1> DEFINE rec == [byID[id] EXCEPT !.state = "ABANDONED"]
<1>1. StoreInv /\ CallerType /\ Active(id)
  BY Unpack DEF Abandon, Active, ActiveStates
<1>2. byID[id] \in Record
  BY <1>1, LiveRecord
<1>3. /\ rec \in Record /\ rec.fp = byID[id].fp /\ rec.gen = byID[id].gen
      /\ rec.ticket = byID[id].ticket /\ rec.state = "ABANDONED"
  BY <1>2 DEF Record, TerminalStates
<1>4. /\ Transition(id, rec, "abandoned", None) /\ UNCHANGED <<idSeq, mints, grants>>
      /\ "abandoned" \in EventTypes /\ None \in Payloads
  BY DEF Abandon, NoResult, EventTypes, Payloads
<1>5. StoreInv' /\ Kept(0)
  <2> HIDE DEF rec
  <2> QED
    BY <1>1, <1>3, <1>4, EndStep
<1> QED
  BY <1>1, <1>5, ReturnStep DEF Abandon, NoResult, CallerType

LEMMA ExpireDueInv ==
  ASSUME IInv, NEW c \in Callers, ExpireDue(c)
  PROVE  IInv'
<1> DEFINE S == {i \in Ids : Due(i)}
<1>1. StoreInv /\ CallerType
  BY Unpack
<1>2. S \in SUBSET Ids /\ \A i \in S : Active(i)
  BY DEF Due
<1>3. /\ ExpireAll(S, None) /\ ReturnAfterSignal(c, S)
      /\ UNCHANGED <<idSeq, termCh, denies, mints, grants>>
  BY DEF ExpireDue, NoResult
<1>4. None \in Payloads
  BY DEF Payloads
<1> HIDE DEF S
<1>5. StoreInv' /\ Kept(0)
  BY <1>1, <1>2, <1>3, <1>4, ExpireAllStep
<1> QED
  BY <1>1, <1>2, <1>3, <1>5, ReturnStep DEF CallerType

-----------------------------------------------------------------------------
(* The invariant and its consequences *)

LEMMA InitInv == Init => IInv
<1> SUFFICES ASSUME Init PROVE IInv
  OBVIOUS
<1>1. StoreType
  BY NoRecType DEF Init, StoreType
<1>2. CallerType
  BY NoLocType, BoundsAssumption DEF Init, CallerType, Labels
<1>3. LocOK
  BY DEF Init, LocOK, CallerOK, RetryLabels
<1>4. RecOK
  BY DEF Init, RecOK, RecordOK, NoRec
<1>5. IndexAgrees
  BY NoneAssumption DEF Init, IndexAgrees, Active, ActiveStates, NoRec, Ids
<1>6. BarrierHolds
  BY DEF Init, BarrierHolds, Active, ActiveStates, NoRec
<1> QED
  BY <1>1, <1>2, <1>3, <1>4, <1>5, <1>6 DEF IInv, TypeOK, StoreType, CallerType

LEMMA NextInv == IInv /\ [Next]_vars => IInv'
<1> SUFFICES ASSUME IInv, [Next]_vars PROVE IInv'
  OBVIOUS
<1>1. ASSUME NEW c \in Callers, Begin(c) PROVE IInv'
  BY <1>1, BeginOpenInv, BeginJustifyInv, BeginRetryInv, AbandonInv, ExpireDueInv DEF Begin
<1>2. ASSUME NEW c \in Callers, Continue(c) PROVE IInv'
  BY <1>2, SignalTerminalInv, OpenHardBlockInv, OpenHumanReviewInv, ReturnOnlyInv, OpenReuseInv,
     OpenNewInv, ExpiredUnderLockInv, JustifyAcceptInv, ReplayInv, RetryRefusedInv, WaitInv,
     RetryConsumeInv, FinalizeEndsInv, FinalizeAllowInv DEF Continue
<1>3. ASSUME NEW c \in Callers, Cancel(c) PROVE IInv'
  BY <1>3, ReturnOnlyInv, RetryCanceledInv DEF Cancel
<1>4. CASE UNCHANGED vars
  <2>1. StoreInv' /\ Kept(0)
    BY <1>4, Unpack, SameStore DEF vars
  <2>2. CallerType' /\ LocOK'
    BY <1>4, Unpack DEF vars, store, CallerType, LocOK, CallerOK, FreshId
  <2> QED
    BY <2>1, <2>2 DEF IInv, TypeOK, StoreInv, StoreType, CallerType
<1> QED
  BY <1>1, <1>2, <1>3, <1>4 DEF Next

\* The inductive invariant holds in every reachable state of the service.
THEOREM ServiceInvariant == Spec => []IInv
BY InitInv, NextInv, PTL DEF Spec

\* Types of the store, the callers and the history, for every instance.
THEOREM TypeCorrect == Spec => []TypeOK
<1>1. IInv => TypeOK
  BY DEF IInv
<1> QED
  BY <1>1, ServiceInvariant, PTL

\* Two live challenges never share a fingerprint, so that putLocked's silent
\* expiry is never reached, whatever the callers do.
THEOREM OneLiveChallenge == Spec => []SingleActive
<1>1. IInv => SingleActive
  BY DEF IInv, IndexAgrees, SingleActive, RecOK, RecordOK, Active, ActiveStates
<1> QED
  BY <1>1, ServiceInvariant, PTL

\* A challenge authorises afresh at most once, and only the retry identity it
\* consumed is ever told ALLOW.
THEOREM OneShotHolds == Spec => []OneShot
<1>1. IInv => OneShot
  BY DEF IInv, RecOK, RecordOK, OneShot
<1> QED
  BY <1>1, ServiceInvariant, PTL

\* Every authorisation was justified, paid for with the retry budget and given
\* to the challenged action.
THEOREM AllowEarnedHolds == Spec => []AllowEarned
<1>1. IInv => AllowEarned
  BY NoneAssumption DEF IInv, RecOK, RecordOK, AllowEarned, Keys
<1> QED
  BY <1>1, ServiceInvariant, PTL

\* No live challenge survives, or slips in behind, a hard denial or a human
\* review of its action, except one opened later under another policy.
THEOREM BarrierTheorem == Spec => []BarrierHolds
<1>1. IInv => BarrierHolds
  BY DEF IInv
<1> QED
  BY <1>1, ServiceInvariant, PTL

-----------------------------------------------------------------------------
(* The refinement: every behaviour of ChallengeService is a behaviour of    *)
(* OneShotAppeal, and no authorisation is minted late.  Every step of the   *)
(* service is first classified by what it does to the records, to the log   *)
(* and to the retries under way; the refinement then follows from the class *)
(* of the step.                                                             *)

ClosedStates == TerminalStates \ {"ALLOWED_ONCE"}

\* No consumption is added to the log.
SameSpends == \A i \in Ids : Spends(i)' = Spends(i) /\ SpenderOf(i)' = SpenderOf(i)
\* No retry starts its re-evaluation.
NoNewOwner == \A d \in Callers : pc'[d] = "reeval" => pc[d] = "reeval" /\ loc'[d] = loc[d]

-----------------------------------------------------------------------------
(* Classes of steps *)

Quiet == UNCHANGED <<byID, log, grants>> /\ NoNewOwner

\* The live challenges of S end without an authorisation.
Close(S) ==
    /\ \A i \in S : Active(i) /\ byID'[i].state \in ClosedStates /\ byID'[i].fp = byID[i].fp
    /\ \A i \in Ids \ S : byID'[i] = byID[i]
    /\ grants' = grants /\ SameSpends /\ NoNewOwner

\* A fresh id is inserted after the live challenges of S were closed.
Insert(id, S) ==
    /\ byID[id] = NoRec /\ id \notin S /\ byID'[id].fp \in Fps /\ Hits(byID'[id].fp) \subseteq S
    /\ byID'[id].state = "HUMAN_REVIEW" \/ (byID'[id].state = "OPEN" /\ S = Hits(byID'[id].fp))
    /\ \A i \in S : Active(i) /\ byID'[i].state \in ClosedStates /\ byID'[i].fp = byID[i].fp
    /\ \A i \in Ids \ (S \cup {id}) : byID'[i] = byID[i]
    /\ grants' = grants /\ SameSpends /\ NoNewOwner

\* Challenge id, and no other, moves from one state to the next.
Move(id, from, to) ==
    /\ byID[id].state = from /\ byID'[id].state = to /\ byID'[id].fp = byID[id].fp
    /\ \A i \in Ids \ {id} : byID'[i] = byID[i]

Argued(id) == Move(id, "OPEN", "JUSTIFIED") /\ grants' = grants /\ SameSpends /\ NoNewOwner

\* Caller c consumes the budget of its challenge id.
Consumed(c, id) ==
    /\ id = loc[c].id /\ Key(c) \in Keys /\ Move(id, "JUSTIFIED", "RETRY_PENDING")
    /\ grants' = grants
    /\ Spends(id)' # {} /\ (Spends(id) = {} => SpenderOf(id)' = Key(c))
    /\ \A i \in Ids \ {id} : Spends(i)' = Spends(i) /\ SpenderOf(i)' = SpenderOf(i)
    /\ loc' = loc /\ \A d \in Callers \ {c} : pc'[d] = pc[d]

\* Caller c, whose re-evaluation answered ALLOW in time, is told so.
Allowed(c, id) ==
    /\ id = loc[c].id /\ pc[c] = "reeval" /\ ~Due(id) /\ Move(id, "RETRY_PENDING", "ALLOWED_ONCE")
    /\ grants' = [grants EXCEPT ![id] = {Key(c)}]
    /\ SameSpends /\ NoNewOwner

Classified ==
    \/ Quiet
    \/ \E S \in SUBSET Ids : Close(S)
    \/ \E id \in Ids, S \in SUBSET Ids : Insert(id, S)
    \/ \E id \in Ids : Argued(id)
    \/ \E c \in Callers, id \in Ids : Consumed(c, id) \/ Allowed(c, id)

-----------------------------------------------------------------------------
(* The log *)

OtherEvents == EventTypes \ {"budget_consumed"}

SpendsOf(s) == {n \in DOMAIN s : s[n].type = "budget_consumed"}

LEMMA AppendSpends ==
  ASSUME NEW s \in Seq(Event), NEW e \in Event, e.type # "budget_consumed"
  PROVE  SpendsOf(Append(s, e)) = SpendsOf(s) /\ \A n \in SpendsOf(s) : Append(s, e)[n] = s[n]
<1>1. Len(s) \in Nat /\ DOMAIN s = 1..Len(s) /\ DOMAIN Append(s, e) = 1..(Len(s) + 1)
  OBVIOUS
<1>2. \A n \in 1..Len(s) : Append(s, e)[n] = s[n]
  OBVIOUS
<1>3. Append(s, e)[Len(s) + 1] = e
  OBVIOUS
<1> QED
  BY <1>1, <1>2, <1>3 DEF SpendsOf

\* Events other than budget_consumed leave the consumptions alone.
LEMMA LogInSpends ==
  ASSUME NEW l \in [Ids -> Seq(Event)], NEW S, NEW type \in OtherEvents,
         NEW p \in Payloads
  PROVE  \A i \in Ids : /\ SpendsOf(LogIn(l, S, type, p)[i]) = SpendsOf(l[i])
                        /\ \A n \in SpendsOf(l[i]) : LogIn(l, S, type, p)[i][n] = l[i][n]
<1> TAKE i \in Ids
<1> DEFINE e == [type |-> type, payload |-> p]
<1>1. e \in Event /\ e.type # "budget_consumed" /\ l[i] \in Seq(Event)
  BY DEF Event, OtherEvents, EventTypes, Payloads
<1>2. LogIn(l, S, type, p)[i] = IF i \in S THEN Append(l[i], e) ELSE l[i]
  BY DEF LogIn
<1> HIDE DEF e
<1>3. /\ SpendsOf(Append(l[i], e)) = SpendsOf(l[i])
      /\ \A n \in SpendsOf(l[i]) : Append(l[i], e)[n] = l[i][n]
  BY <1>1, AppendSpends
<1> QED
  BY <1>2, <1>3

LEMMA SpenderKept ==
  ASSUME NEW i \in Ids, SpendsOf(log'[i]) = SpendsOf(log[i]),
         \A n \in SpendsOf(log[i]) : log'[i][n] = log[i][n]
  PROVE  Spends(i)' = Spends(i) /\ SpenderOf(i)' = SpenderOf(i)
<1>1. Spends(i)' = Spends(i) /\ Spends(i) = SpendsOf(log[i])
  BY DEF Spends, SpendsOf
<1>2. CASE Spends(i) = {}
  BY <1>1, <1>2 DEF SpenderOf
<1>3. CASE Spends(i) # {}
  <2>1. (CHOOSE n \in Spends(i) : TRUE) \in Spends(i)
    BY <1>3
  <2>2. (CHOOSE n \in Spends(i)' : TRUE) = (CHOOSE n \in Spends(i) : TRUE)
    BY <1>1
  <2>3. SpenderOf(i)' = log'[i][CHOOSE n \in Spends(i) : TRUE].payload
    BY <1>1, <1>3, <2>2 DEF SpenderOf
  <2>4. SpenderOf(i) = log[i][CHOOSE n \in Spends(i) : TRUE].payload
    BY <1>3 DEF SpenderOf
  <2> QED
    BY <1>1, <2>1, <2>3, <2>4
<1> QED
  BY <1>1, <1>2, <1>3

LEMMA SameSpendsRule ==
  ASSUME \A i \in Ids : /\ SpendsOf(log'[i]) = SpendsOf(log[i])
                        /\ \A n \in SpendsOf(log[i]) : log'[i][n] = log[i][n]
  PROVE  SameSpends
BY SpenderKept DEF SameSpends

LEMMA OneEventSpends ==
  ASSUME StoreType, NEW S, NEW type \in OtherEvents,
         NEW p \in Payloads, log' = LogIn(log, S, type, p)
  PROVE  SameSpends
<1>1. log \in [Ids -> Seq(Event)]
  BY DEF StoreType
<1>2. \A i \in Ids : /\ SpendsOf(log'[i]) = SpendsOf(log[i])
                     /\ \A n \in SpendsOf(log[i]) : log'[i][n] = log[i][n]
  BY <1>1, LogInSpends
<1> QED
  BY <1>2, SameSpendsRule

LEMMA TwoEventsSpends ==
  ASSUME StoreType, NEW S \in SUBSET Ids, NEW T, NEW p \in Payloads, NEW q \in Payloads,
         NEW first \in OtherEvents, NEW second \in OtherEvents,
         log' = LogIn(LogIn(log, S, first, p), T, second, q)
  PROVE  SameSpends
<1>1. log \in [Ids -> Seq(Event)] /\ first \in EventTypes
  BY DEF OtherEvents, StoreType
<1>2. PICK l : l = LogIn(log, S, first, p)
  OBVIOUS
<1>3. l \in [Ids -> Seq(Event)]
  BY <1>1, <1>2, LogInType
<1>4. \A i \in Ids : /\ SpendsOf(l[i]) = SpendsOf(log[i])
                     /\ \A n \in SpendsOf(log[i]) : l[i][n] = log[i][n]
  BY <1>1, <1>2, LogInSpends
<1>5. \A i \in Ids : /\ SpendsOf(log'[i]) = SpendsOf(l[i])
                     /\ \A n \in SpendsOf(l[i]) : log'[i][n] = l[i][n]
  BY <1>2, <1>3, LogInSpends
<1> QED
  BY <1>4, <1>5, SameSpendsRule

\* The consumption itself.
LEMMA ConsumeSpends ==
  ASSUME StoreType, NEW id \in Ids, NEW k \in Keys,
         log' = LogIn(log, {id}, "budget_consumed", k)
  PROVE  /\ Spends(id)' # {} /\ (Spends(id) = {} => SpenderOf(id)' = k)
         /\ \A i \in Ids \ {id} : Spends(i)' = Spends(i) /\ SpenderOf(i)' = SpenderOf(i)
<1> DEFINE e == [type |-> "budget_consumed", payload |-> k]
<1>1. log'[id] = Append(log[id], e) /\ \A i \in Ids \ {id} : log'[i] = log[i]
  BY DEF LogIn
<1>2. log[id] \in Seq(Event) /\ e.type = "budget_consumed" /\ e.payload = k
  BY DEF StoreType
<1> HIDE DEF e
<1>3. ASSUME NEW i \in Ids \ {id} PROVE Spends(i)' = Spends(i) /\ SpenderOf(i)' = SpenderOf(i)
  <2>1. log'[i] = log[i] /\ i \in Ids
    BY <1>1
  <2> QED
    BY <2>1, SpenderKept
<1> DEFINE m == Len(log[id]) + 1
<1>4. m \in Nat /\ DOMAIN log'[id] = 1..m /\ log'[id][m] = e
  BY <1>1, <1>2
<1>5. m \in Spends(id)'
  BY <1>2, <1>4 DEF Spends
<1> HIDE DEF m
<1>6. ASSUME Spends(id) = {} PROVE SpenderOf(id)' = k
  <2>1. \A n \in 1..Len(log[id]) : Append(log[id], e)[n] = log[id][n] /\ n \in DOMAIN log[id]
    BY <1>2
  <2>2. \A n \in Spends(id)' : n = m
    <3> SUFFICES ASSUME NEW n \in Spends(id)', n # m PROVE FALSE
      OBVIOUS
    <3>1. n \in 1..Len(log[id]) /\ log'[id][n].type = "budget_consumed"
      BY <1>2, <1>4 DEF Spends, m
    <3>2. n \in Spends(id)
      BY <1>1, <2>1, <3>1 DEF Spends
    <3> QED
      BY <1>6, <3>2
  <2>3. (CHOOSE n \in Spends(id)' : TRUE) \in Spends(id)'
    BY <1>5, Zenon
  <2>4. (CHOOSE n \in Spends(id)' : TRUE) = m
    BY <2>2, <2>3
  <2>5. SpenderOf(id)' = log'[id][CHOOSE n \in Spends(id)' : TRUE].payload
    BY <1>5, Zenon DEF SpenderOf
  <2> QED
    BY <1>2, <1>4, <2>4, <2>5
<1> QED
  BY <1>3, <1>5, <1>6
-----------------------------------------------------------------------------
(* The records *)

LEMMA TransitionRecords ==
  ASSUME StoreInv, NEW id \in Ids, Active(id), NEW rec \in Record, rec.fp = byID[id].fp,
         NEW type, NEW p, Transition(id, rec, type, p)
  PROVE  \A i \in Ids : byID'[i] = IF i = id THEN rec ELSE byID[i]
<1>1. \A i \in Ids \ {id} : ~(Active(i) /\ byID[i].fp = rec.fp)
  BY DEF StoreInv, IndexAgrees, RecOK, RecordOK, Active, ActiveStates, StoreType
<1> QED
  BY <1>1 DEF Transition, PutLocked, Active

LEMMA ExpireRecords ==
  ASSUME StoreType, NEW S \in SUBSET Ids
  PROVE  /\ \A i \in S : /\ ExpireIn(byID, S)[i].state = "EXPIRED"
                         /\ ExpireIn(byID, S)[i].fp = byID[i].fp
         /\ \A i \in Ids \ S : ExpireIn(byID, S)[i] = byID[i]
<1> SUFFICES ASSUME NEW i \in Ids
             PROVE  IF i \in S THEN /\ ExpireIn(byID, S)[i].state = "EXPIRED"
                                   /\ ExpireIn(byID, S)[i].fp = byID[i].fp
                    ELSE ExpireIn(byID, S)[i] = byID[i]
  OBVIOUS
<1>1. byID[i] \in Record
  BY DEF StoreType
<1>2. ExpireIn(byID, S)[i] = IF i \in S THEN [byID[i] EXCEPT !.state = "EXPIRED"] ELSE byID[i]
  BY DEF ExpireIn
<1> QED
  BY <1>1, <1>2 DEF Record

LEMMA InsertRecords ==
  ASSUME StoreType, NEW S \in SUBSET Ids, NEW id \in Ids, id \notin S, NEW rec \in Record,
         rec.state \in ActiveStates => Hits(rec.fp) \subseteq S,
         byID' = PutLocked(ExpireIn(byID, S), id, rec)
  PROVE  /\ byID'[id] = rec
         /\ \A i \in S : byID'[i].state = "EXPIRED" /\ byID'[i].fp = byID[i].fp
         /\ \A i \in Ids \ (S \cup {id}) : byID'[i] = byID[i]
<1>1. \A i \in Ids : ExpireIn(byID, S)[i].state \in ActiveStates => Active(i) /\ i \notin S
  BY ExpireRecords DEF Active, ActiveStates
<1>2. \A i \in Ids : byID'[i] = IF i = id THEN rec ELSE ExpireIn(byID, S)[i]
  BY <1>1, ExpireRecords DEF PutLocked, Hits
<1> QED
  BY <1>2, ExpireRecords

-----------------------------------------------------------------------------
(* The retries under way *)

LEMMA LabelOwner ==
  ASSUME CallerType, NEW c \in Callers, NEW label, label # "reeval",
         pc' = [pc EXCEPT ![c] = label],
         \A d \in Callers \ {c} : loc'[d] = loc[d]
  PROVE  NoNewOwner
BY DEF CallerType, NoNewOwner

LEMMA ReturnOwner ==
  ASSUME CallerType, NEW c \in Callers,
         Return(c) \/ \E S \in SUBSET Ids : ReturnAfterSignal(c, S)
  PROVE  NoNewOwner
<1>1. \A d \in Callers \ {c} : loc'[d] = loc[d]
  BY DEF Return, ReturnAfterSignal, CallerType
<1>2. pc' = [pc EXCEPT ![c] = "idle"] \/ pc' = [pc EXCEPT ![c] = "signal"]
  BY DEF Return, ReturnAfterSignal
<1> QED
  BY <1>1, <1>2, LabelOwner

LEMMA GoOwner ==
  ASSUME CallerType, NEW c \in Callers, NEW label, label # "reeval", Go(c, label)
  PROVE  NoNewOwner
BY LabelOwner DEF Go

-----------------------------------------------------------------------------
(* Every step is in a class *)

LEMMA ExpireAllClass ==
  ASSUME IInv, NEW S \in SUBSET Ids, \A i \in S : Active(i), NEW p \in Payloads,
         ExpireAll(S, p), grants' = grants, NoNewOwner
  PROVE  Close(S)
<1>1. StoreInv /\ StoreType
  BY Unpack DEF StoreInv
<1>2. SameSpends
  <2>1. "expired" \in OtherEvents
    BY DEF OtherEvents, EventTypes
  <2> QED
    BY <1>1, <2>1, OneEventSpends DEF ExpireAll
<1>3. /\ \A i \in S : byID'[i].state = "EXPIRED" /\ byID'[i].fp = byID[i].fp
      /\ \A i \in Ids \ S : byID'[i] = byID[i]
  BY <1>1, ExpireRecords DEF ExpireAll
<1> QED
  BY <1>2, <1>3 DEF Close, ClosedStates, TerminalStates

LEMMA EndClass ==
  ASSUME IInv, NEW id \in Ids, Active(id), NEW rec \in Record, rec.fp = byID[id].fp,
         rec.state \in ClosedStates, NEW type \in OtherEvents, NEW p \in Payloads,
         Transition(id, rec, type, p), grants' = grants, NoNewOwner
  PROVE  Close({id})
<1>1. StoreInv /\ StoreType
  BY Unpack DEF StoreInv
<1>2. SameSpends
  BY <1>1, OneEventSpends DEF Transition
<1>3. \A i \in Ids : byID'[i] = IF i = id THEN rec ELSE byID[i]
  BY <1>1, TransitionRecords
<1> QED
  BY <1>2, <1>3 DEF Close

LEMMA QuietClass ==
  ASSUME IInv, NEW c \in Callers,
         \/ SignalTerminal(c) \/ OpenRefused(c) \/ JustifyNoChange(c) \/ WaitCanceled(c)
         \/ RetryJoin(c) \/ WaitGet(c) \/ WaitRegister(c) \/ WaitWoken(c)
  PROVE  Quiet
<1>1. CallerType
  BY Unpack
<1>2. UNCHANGED <<byID, log, grants>>
  BY DEF SignalTerminal, OpenRefused, JustifyNoChange, WaitCanceled, RetryJoin, WaitGet,
         WaitRegister, WaitWoken, NoResult, store
<1>3. CASE SignalTerminal(c) \/ OpenRefused(c) \/ JustifyNoChange(c) \/ WaitCanceled(c)
  <2>1. Return(c)
    BY <1>3 DEF SignalTerminal, OpenRefused, JustifyNoChange, WaitCanceled
  <2> QED
    BY <1>1, <1>2, <2>1, ReturnOwner DEF Quiet
<1>4. CASE RetryJoin(c) \/ WaitGet(c) \/ WaitRegister(c) \/ WaitWoken(c)
  <2>1. \E label \in RetryLabels \ {"reeval"} : Go(c, label)
    BY <1>4 DEF RetryJoin, WaitGet, WaitRegister, WaitWoken, RetryLabels
  <2> QED
    BY <1>1, <1>2, <2>1, GoOwner DEF Quiet
<1> QED
  BY <1>3, <1>4

\* Telling ALLOW again is no step of the abstract appeal.
LEMMA ReplayClass ==
  ASSUME IInv, NEW c \in Callers, RetryOfTerminal(c) \/ WaitReturn(c) \/ FinalizeLost(c)
  PROVE  Quiet
<1>1. StoreInv /\ CallerType /\ CallerOK(c)
  BY Unpack DEF LocOK
<1>2. loc[c].id \in Ids
  BY <1>1 DEF CallerOK, RetryOfTerminal, WaitReturn, FinalizeLost, RetryLabels
<1>3. ReplayResult(c, loc[c].id) /\ Return(c) /\ UNCHANGED store
  BY DEF RetryOfTerminal, WaitReturn, FinalizeLost
<1>4. grants' = grants
  BY <1>1, <1>2, <1>3, ReplayIsStutter
<1>5. NoNewOwner
  BY <1>1, <1>3, ReturnOwner
<1> QED
  BY <1>3, <1>4, <1>5 DEF Quiet, store

LEMMA ExpireFirstClass ==
  ASSUME IInv, NEW c \in Callers, NEW id \in Ids, ExpireFirst(c, id)
  PROVE  Close({id})
<1>1. CallerType /\ Active(id) /\ None \in Payloads
  BY Unpack DEF ExpireFirst, Due, Payloads
<1>2. NoNewOwner
  BY <1>1, ReturnOwner DEF ExpireFirst
<1> QED
  BY <1>1, <1>2, ExpireAllClass DEF ExpireFirst, NoResult

\* An operation begins: nothing but the caller moves, unless its challenge is due.
LEMMA BeginClass ==
  ASSUME IInv, NEW c \in Callers, Begin(c)
  PROVE  Classified
<1>1. CallerType
  BY Unpack
<1>2. ASSUME NEW fp \in Fps, NEW class \in Classes, NEW gen \in Gens, NEW reason \in Reasons,
             NEW ttl \in TTLs, BeginOpen(c, fp, class, gen, reason, ttl)
      PROVE  Quiet
  <2>1. \A d \in Callers \ {c} : loc'[d] = loc[d]
    BY <1>1, <1>2 DEF BeginOpen, CallerType
  <2>2. NoNewOwner
    BY <1>1, <1>2, <2>1, LabelOwner DEF BeginOpen
  <2> QED
    BY <1>2, <2>2 DEF BeginOpen, NoResult, store, Quiet
<1>3. ASSUME NEW id \in Ids, NEW j \in Justs, BeginJustify(c, id, j), ~ExpireFirst(c, id)
      PROVE  Quiet
  <2>1. \A d \in Callers \ {c} : loc'[d] = loc[d]
    BY <1>1, <1>3 DEF BeginJustify, CallerType
  <2>2. NoNewOwner
    BY <1>1, <1>3, <2>1, LabelOwner DEF BeginJustify
  <2> QED
    BY <1>3, <2>2 DEF BeginJustify, NoResult, store, Quiet
<1>4. ASSUME NEW id \in Ids, NEW att \in Attempts, NEW fp \in Fps, BeginRetry(c, id, att, fp),
             ~ExpireFirst(c, id)
      PROVE  Quiet
  <2>1. \A d \in Callers \ {c} : loc'[d] = loc[d]
    BY <1>1, <1>4 DEF BeginRetry, CallerType
  <2>2. NoNewOwner
    BY <1>1, <1>4, <2>1, LabelOwner DEF BeginRetry
  <2> QED
    BY <1>4, <2>2 DEF BeginRetry, NoResult, store, Quiet
<1>5. ASSUME NEW id \in Ids, Abandon(c, id) PROVE Close({id})
  <2> DEFINE rec == [byID[id] EXCEPT !.state = "ABANDONED"]
  <2>1. Active(id) /\ byID[id] \in Record
    BY <1>5, Unpack, LiveRecord DEF Abandon, Active, ActiveStates
  <2>2. rec \in Record /\ rec.fp = byID[id].fp /\ rec.state \in ClosedStates
    BY <2>1 DEF Record, TerminalStates, ClosedStates
  <2>3. "abandoned" \in OtherEvents /\ None \in Payloads
    BY DEF OtherEvents, EventTypes, Payloads
  <2>4. Transition(id, rec, "abandoned", None) /\ grants' = grants
    BY <1>5 DEF Abandon, NoResult
  <2>5. NoNewOwner
    BY <1>1, <1>5, ReturnOwner DEF Abandon
  <2> HIDE DEF rec
  <2> QED
    BY <2>1, <2>2, <2>3, <2>4, <2>5, EndClass
<1>6. ASSUME ExpireDue(c) PROVE \E S \in SUBSET Ids : Close(S)
  <2>1. PICK S \in SUBSET Ids : S = {i \in Ids : Due(i)}
    OBVIOUS
  <2>2. /\ \A i \in S : Active(i)
        /\ ExpireAll(S, None) /\ ReturnAfterSignal(c, S) /\ grants' = grants
    BY <1>6, <2>1 DEF ExpireDue, Due, NoResult
  <2>3. NoNewOwner /\ None \in Payloads
    BY <1>1, <2>2, ReturnOwner DEF Payloads
  <2> QED
    BY <2>2, <2>3, ExpireAllClass
<1> QED
  BY <1>2, <1>3, <1>4, <1>5, <1>6, ExpireFirstClass DEF Begin, Classified

\* What an Open under way knows.
LEMMA OpenKnows ==
  ASSUME IInv, NEW c \in Callers, pc[c] = "open"
  PROVE  /\ loc[c].fp \in Fps /\ loc[c].fp \in Payloads /\ loc[c].gen \in Gens
         /\ loc[c].reason \in Reasons /\ loc[c].ticket \in Nat /\ loc[c].ttl \in Nat
         /\ loc[c].class # "hard_block" => loc[c].id \in Ids /\ byID[loc[c].id] = NoRec
<1>1. CallerType /\ CallerOK(c)
  BY Unpack DEF LocOK
<1>2. loc[c] \in Local /\ idSeq \in 0..MaxChallenges
  BY <1>1 DEF CallerType
<1>3. loc[c].ticket \in Nat /\ loc[c].ttl \in Nat
  <2>1. loc[c].ticket \in Nat /\ loc[c].ttl \in TTLs \cup {0}
    BY <1>2 DEF Local
  <2>2. TTLs \cup {0} \subseteq Nat
    BY TTLAssumption
  <2> QED
    BY <2>1, <2>2
<1>4. /\ loc[c].fp \in Fps /\ loc[c].gen \in Gens /\ loc[c].reason \in Reasons
      /\ FreshId(c)
  BY <1>1 DEF CallerOK
<1>5. loc[c].class # "hard_block" => loc[c].id \in 1..idSeq /\ byID[loc[c].id] = NoRec
  BY <1>4 DEF FreshId
<1>6. 1..idSeq \subseteq Ids
  BY <1>2, BoundsAssumption DEF Ids
<1> QED
  BY <1>3, <1>4, <1>5, <1>6 DEF Payloads

LEMMA OpenHardBlockClass ==
  ASSUME IInv, NEW c \in Callers, OpenHardBlock(c)
  PROVE  \E S \in SUBSET Ids : Close(S)
<1>1. StoreType /\ CallerType /\ loc[c].fp \in Payloads /\ "expired" \in OtherEvents
  BY Unpack, OpenKnows DEF StoreInv, OpenHardBlock, OtherEvents, EventTypes
<1>2. PICK S \in SUBSET Ids : S = Superseded(loc[c].fp)
  BY DEF Superseded
<1>3. /\ \A i \in S : Active(i)
      /\ byID' = ExpireIn(byID, S) /\ log' = LogIn(log, S, "expired", loc[c].fp)
      /\ Return(c) /\ grants' = grants
  BY <1>2 DEF OpenHardBlock, Superseded, NoResult
<1>4. SameSpends /\ NoNewOwner
  BY <1>1, <1>3, OneEventSpends, ReturnOwner
<1>5. /\ \A i \in S : byID'[i].state = "EXPIRED" /\ byID'[i].fp = byID[i].fp
      /\ \A i \in Ids \ S : byID'[i] = byID[i]
  BY <1>1, <1>3, ExpireRecords
<1>6. Close(S)
  BY <1>3, <1>4, <1>5 DEF Close, ClosedStates, TerminalStates
<1> QED
  BY <1>6

LEMMA OpenHumanReviewClass ==
  ASSUME IInv, NEW c \in Callers, OpenHumanReview(c)
  PROVE  \E id \in Ids, S \in SUBSET Ids : Insert(id, S)
<1> DEFINE id == loc[c].id
           rec == [NoRec EXCEPT !.state = "HUMAN_REVIEW", !.fp = loc[c].fp,
                                !.gen = loc[c].gen, !.reason = loc[c].reason,
                                !.ticket = loc[c].ticket, !.interv = "HUMAN_REVIEW"]
<1>1. StoreType /\ CallerType
  BY Unpack DEF StoreInv
<1>2. /\ loc[c].fp \in Fps /\ loc[c].fp \in Payloads /\ loc[c].gen \in Gens
      /\ loc[c].reason \in Reasons /\ loc[c].ticket \in Nat
      /\ id \in Ids /\ byID[id] = NoRec
  BY OpenKnows DEF OpenHumanReview
<1>3. rec \in Record /\ rec.fp = loc[c].fp /\ rec.state = "HUMAN_REVIEW"
  BY <1>2 DEF NoRec, Record, TerminalStates
<1>4. PICK S \in SUBSET Ids : S = Superseded(loc[c].fp)
  BY DEF Superseded
<1>5. (\A i \in S : Active(i)) /\ Hits(loc[c].fp) \subseteq S /\ id \notin S
  BY <1>2, <1>4 DEF Superseded, Hits, Covers, Active, ActiveStates, NoRec
<1>6. /\ byID' = PutLocked(ExpireIn(byID, S), id, rec)
      /\ log' = LogIn(LogIn(log, S, "expired", rec.fp), {id}, "human_review", rec.fp)
      /\ ReturnAfterSignal(c, {id}) /\ grants' = grants
  BY <1>4 DEF OpenHumanReview, NoResult
<1> HIDE DEF rec, id
<1>7. {"expired", "human_review"} \subseteq OtherEvents
  BY DEF OtherEvents, EventTypes
<1>8. SameSpends
  BY <1>1, <1>2, <1>3, <1>6, <1>7, TwoEventsSpends
<1>9. NoNewOwner
  BY <1>1, <1>2, <1>6, ReturnOwner
<1>10. rec.state \notin ActiveStates
  BY <1>3 DEF ActiveStates
<1>11. /\ byID'[id] = rec
       /\ \A i \in S : byID'[i].state = "EXPIRED" /\ byID'[i].fp = byID[i].fp
       /\ \A i \in Ids \ (S \cup {id}) : byID'[i] = byID[i]
  BY <1>1, <1>2, <1>3, <1>5, <1>6, <1>10, InsertRecords
<1>12. Insert(id, S)
  BY <1>2, <1>3, <1>5, <1>6, <1>8, <1>9, <1>11 DEF Insert, ClosedStates, TerminalStates
<1> QED
  BY <1>2, <1>12

LEMMA OpenNewClass ==
  ASSUME IInv, NEW c \in Callers, OpenNew(c)
  PROVE  \E id \in Ids, S \in SUBSET Ids : Insert(id, S)
<1> DEFINE id == loc[c].id
           X(S) == IF loc[c].ttl > 0 THEN seq + Cardinality(S) + 1 + loc[c].ttl ELSE 0
           rec(S) == [NoRec EXCEPT
                        !.state = "OPEN", !.fp = loc[c].fp, !.gen = loc[c].gen,
                        !.reason = loc[c].reason, !.budget = 1, !.ticket = loc[c].ticket,
                        !.expiresAt = X(S), !.interv = "APPEALABLE_CHALLENGE"]
<1>1. StoreType /\ CallerType
  BY Unpack DEF StoreInv
<1>2. /\ loc[c].fp \in Fps /\ loc[c].fp \in Payloads /\ loc[c].gen \in Gens
      /\ loc[c].reason \in Reasons /\ loc[c].ticket \in Nat /\ loc[c].ttl \in Nat
      /\ id \in Ids /\ byID[id] = NoRec
  BY OpenKnows DEF OpenNew, AppealableOpen
<1>3. PICK S \in SUBSET Ids : S = Hits(loc[c].fp)
  BY DEF Hits
<1>4. X(S) \in Nat
  <2>1. PICK n, ttl \in Nat : n = Cardinality(S) /\ ttl = loc[c].ttl
    BY <1>2, IdsCardinality
  <2>2. seq \in Nat
    BY <1>1 DEF StoreType
  <2> QED
    BY <2>1, <2>2
<1>5. /\ byID' = PutLocked(ExpireIn(byID, S), id, rec(S))
      /\ log' = LogIn(LogIn(log, S, "expired", rec(S).fp), {id}, "opened", rec(S).fp)
      /\ Return(c) /\ grants' = grants
  BY <1>3 DEF OpenNew, NoResult
<1> HIDE DEF X
<1>6. rec(S) \in Record /\ rec(S).fp = loc[c].fp /\ rec(S).state = "OPEN"
  BY <1>2, <1>4 DEF NoRec, Record, ActiveStates
<1>7. (\A i \in S : Active(i)) /\ id \notin S
  BY <1>2, <1>3 DEF Hits, Active, ActiveStates, NoRec
<1> HIDE DEF rec, id
<1>8. {"expired", "opened"} \subseteq OtherEvents
  BY DEF OtherEvents, EventTypes
<1>9. SameSpends
  BY <1>1, <1>2, <1>5, <1>6, <1>8, TwoEventsSpends
<1>10. NoNewOwner
  BY <1>1, <1>5, ReturnOwner
<1>11. /\ byID'[id] = rec(S)
       /\ \A i \in S : byID'[i].state = "EXPIRED" /\ byID'[i].fp = byID[i].fp
       /\ \A i \in Ids \ (S \cup {id}) : byID'[i] = byID[i]
  BY <1>1, <1>2, <1>3, <1>5, <1>6, <1>7, InsertRecords
<1>12. Insert(id, S)
  BY <1>2, <1>3, <1>5, <1>6, <1>7, <1>9, <1>10, <1>11 DEF Insert, ClosedStates, TerminalStates
<1> QED
  BY <1>2, <1>12

LEMMA OpenReuseClass ==
  ASSUME IInv, NEW c \in Callers, OpenReuse(c)
  PROVE  \E S \in SUBSET Ids : Close(S)
<1>1. CallerType /\ loc[c].fp \in Payloads
  BY Unpack, OpenKnows DEF OpenReuse, AppealableOpen
<1>2. PICK S \in SUBSET Ids : (\A i \in S : Active(i)) /\ ExpireAll(S, loc[c].fp)
  BY DEF OpenReuse, Hits
<1>3. NoNewOwner /\ grants' = grants
  BY <1>1, ReturnOwner DEF OpenReuse, NoResult
<1>4. Close(S)
  BY <1>1, <1>2, <1>3, ExpireAllClass
<1> QED
  BY <1>4

\* The expiries found under the lock.
LEMMA ExpiredClass ==
  ASSUME IInv, NEW c \in Callers, JustifyExpired(c) \/ RetryExpired(c) \/ FinalizeExpired(c)
  PROVE  \E S \in SUBSET Ids : Close(S)
<1>1. CallerType /\ CallerOK(c)
  BY Unpack DEF LocOK
<1>2. CASE JustifyExpired(c)
  <2>1. loc[c].id \in Ids
    BY <1>1, <1>2 DEF CallerOK, JustifyExpired
  <2> QED
    BY <1>2, <2>1, ExpireFirstClass DEF JustifyExpired
<1>3. CASE RetryExpired(c) \/ FinalizeExpired(c)
  <2>1. loc[c].id \in Ids /\ loc[c].fp \in Payloads /\ Active(loc[c].id)
    BY <1>1, <1>3 DEF RetryExpired, FinalizeExpired, CallerOK, RetryLabels, Due, Payloads
  <2>2. ExpireAll({loc[c].id}, loc[c].fp) /\ grants' = grants
    BY <1>3 DEF RetryExpired, FinalizeExpired, NoResult
  <2>3. Return(c) \/ \E S \in SUBSET Ids : ReturnAfterSignal(c, S)
    BY <1>3, <2>1 DEF RetryExpired, FinalizeExpired
  <2>4. NoNewOwner
    BY <1>1, <2>3, ReturnOwner
  <2>5. Close({loc[c].id})
    BY <2>1, <2>2, <2>4, ExpireAllClass
  <2> QED
    BY <2>1, <2>5
<1> QED
  BY <1>2, <1>3

LEMMA JustifyAcceptClass ==
  ASSUME IInv, NEW c \in Callers, JustifyAccept(c)
  PROVE  \E id \in Ids : Argued(id)
<1> DEFINE id == loc[c].id
           rec == [byID[id] EXCEPT !.state = "JUSTIFIED", !.just = loc[c].att]
<1>1. StoreInv /\ StoreType /\ CallerType /\ CallerOK(c)
  BY Unpack DEF LocOK, StoreInv
<1>2. id \in Ids /\ loc[c].att \in Justs /\ byID[id].state = "OPEN" /\ Active(id)
  BY <1>1 DEF CallerOK, JustifyAccept, Active, ActiveStates
<1>3. byID[id] \in Record
  BY <1>1, <1>2, LiveRecord
<1>4. rec \in Record /\ rec.fp = byID[id].fp /\ rec.state = "JUSTIFIED"
  BY <1>2, <1>3 DEF Record, ActiveStates
<1>5. /\ Transition(id, rec, "justified", loc[c].att) /\ grants' = grants /\ Return(c)
      /\ "justified" \in OtherEvents /\ loc[c].att \in Payloads
  BY <1>2 DEF JustifyAccept, NoResult, OtherEvents, EventTypes, Payloads
<1> HIDE DEF rec, id
<1>6. \A i \in Ids : byID'[i] = IF i = id THEN rec ELSE byID[i]
  BY <1>1, <1>2, <1>4, <1>5, TransitionRecords
<1>7. SameSpends
  BY <1>1, <1>5, OneEventSpends DEF Transition
<1>8. NoNewOwner
  BY <1>1, <1>5, ReturnOwner
<1>9. Argued(id)
  BY <1>2, <1>4, <1>5, <1>6, <1>7, <1>8 DEF Argued, Move
<1> QED
  BY <1>2, <1>9

LEMMA RetryRefusedClass ==
  ASSUME IInv, NEW c \in Callers, RetryRefused(c)
  PROVE  \E S \in SUBSET Ids : Close(S)
<1> DEFINE id == loc[c].id
           rec == [byID[id] EXCEPT !.state = "REJECTED", !.stage2 = "BLOCK"]
<1>1. StoreInv /\ CallerType /\ CallerOK(c)
  BY Unpack DEF LocOK
<1>2. id \in Ids /\ loc[c].fp \in Fps /\ Active(id)
  BY <1>1 DEF CallerOK, RetryRefused, Refused, Active, ActiveStates, RetryLabels
<1>3. byID[id] \in Record
  BY <1>1, <1>2, LiveRecord
<1>4. rec \in Record /\ rec.fp = byID[id].fp /\ rec.state \in ClosedStates
  BY ZenonT(60), <1>3 DEF Record, TerminalStates, ClosedStates
<1>5. /\ Transition(id, rec, "rejected", loc[c].fp) /\ grants' = grants
      /\ "rejected" \in OtherEvents /\ loc[c].fp \in Payloads
  BY <1>2 DEF RetryRefused, NoResult, OtherEvents, EventTypes, Payloads
<1>6. NoNewOwner
  BY <1>1, <1>2, ReturnOwner DEF RetryRefused
<1>7. Close({id})
  <2> HIDE DEF rec, id
  <2> QED
    BY <1>2, <1>4, <1>5, <1>6, EndClass
<1> QED
  BY <1>2, <1>7

LEMMA RetryConsumeClass ==
  ASSUME IInv, NEW c \in Callers, RetryConsume(c)
  PROVE  \E id \in Ids : Consumed(c, id)
<1>1. StoreInv /\ StoreType /\ CallerType /\ CallerOK(c)
  BY Unpack DEF LocOK, StoreInv
<1>2. PICK id \in Ids : id = loc[c].id
  BY <1>1 DEF CallerOK, RetryConsume, RetryLabels
<1> DEFINE rec == [byID[id] EXCEPT !.state = "RETRY_PENDING", !.budget = @ - 1]
<1>3. Key(c) \in Keys /\ byID[id].state = "JUSTIFIED" /\ Active(id)
  BY <1>1, <1>2 DEF CallerOK, RetryConsume, Active, ActiveStates, RetryLabels, Key, Keys
<1>4. byID[id] \in Record /\ byID[id].budget = 1
  BY <1>1, <1>3, LiveRecord DEF RecordOK
<1>5. rec \in Record /\ rec.fp = byID[id].fp /\ rec.state = "RETRY_PENDING"
  <2>1. rec = [byID[id] EXCEPT !.state = "RETRY_PENDING", !.budget = 0]
    BY <1>4
  <2> QED
    BY <1>4, <2>1 DEF Record, ActiveStates
<1>6. Transition(id, rec, "budget_consumed", Key(c)) /\ grants' = grants /\ Go(c, "reeval")
  BY <1>2 DEF RetryConsume, NoResult
<1>7. \A i \in Ids : byID'[i] = IF i = id THEN rec ELSE byID[i]
  <2> HIDE DEF rec
  <2> QED
    BY <1>1, <1>3, <1>5, <1>6, TransitionRecords
<1>8. /\ Spends(id)' # {} /\ (Spends(id) = {} => SpenderOf(id)' = Key(c))
      /\ \A i \in Ids \ {id} : Spends(i)' = Spends(i) /\ SpenderOf(i)' = SpenderOf(i)
  <2>1. log' = LogIn(log, {id}, "budget_consumed", Key(c))
    BY <1>6 DEF Transition
  <2>2. PICK k \in Keys : k = Key(c)
    BY <1>3
  <2>3. /\ Spends(id)' # {} /\ (Spends(id) = {} => SpenderOf(id)' = k)
        /\ \A i \in Ids \ {id} : Spends(i)' = Spends(i) /\ SpenderOf(i)' = SpenderOf(i)
    BY <1>1, <2>1, <2>2, ConsumeSpends
  <2> QED
    BY <2>2, <2>3
<1>9. loc' = loc /\ \A d \in Callers \ {c} : pc'[d] = pc[d]
  BY <1>1, <1>6 DEF Go, CallerType
<1>10. Move(id, "JUSTIFIED", "RETRY_PENDING")
  BY <1>3, <1>5, <1>7 DEF Move
<1>11. Consumed(c, id)
  BY <1>2, <1>3, <1>6, <1>8, <1>9, <1>10 DEF Consumed
<1> QED
  BY <1>11

\* The retries that end without an authorisation.
LEMMA RetryEndsClass ==
  ASSUME IInv, NEW c \in Callers, FinalizeReject(c) \/ FinalizeHumanReview(c) \/ RetryCanceled(c)
  PROVE  Quiet \/ \E S \in SUBSET Ids : Close(S)
<1>1. StoreInv /\ CallerType /\ CallerOK(c)
  BY Unpack DEF LocOK
<1>2. PICK id \in Ids : id = loc[c].id
  BY <1>1 DEF CallerOK, FinalizeReject, FinalizeHumanReview, Finalizable, RetryCanceled, RetryLabels
<1>3. NoNewOwner /\ grants' = grants
  BY <1>1, ReturnOwner DEF FinalizeReject, FinalizeHumanReview, RetryCanceled, NoResult
<1>4. CASE byID[id].state # "RETRY_PENDING"
  BY <1>2, <1>3, <1>4 DEF FinalizeReject, FinalizeHumanReview, Finalizable, RetryCanceled,
     Quiet, store
<1>5. CASE byID[id].state = "RETRY_PENDING"
  <2>1. Active(id) /\ Key(c) \in Payloads /\ Key(c) \in Keys
    BY <1>1, <1>2, <1>5 DEF Active, ActiveStates, CallerOK, FinalizeReject, FinalizeHumanReview,
       Finalizable, RetryCanceled, RetryLabels, Key, Keys, Payloads
  <2>2. byID[id] \in Record
    BY <1>1, <2>1, LiveRecord
  <2> DEFINE rejected == [byID[id] EXCEPT !.state = "REJECTED", !.stage2 = "BLOCK",
                                          !.key = Key(c)]
             reviewed == [byID[id] EXCEPT !.state = "HUMAN_REVIEW", !.stage2 = "BLOCK",
                                          !.interv = "HUMAN_REVIEW", !.key = Key(c)]
  <2>3. \/ Transition(id, rejected, "rejected", Key(c))
        \/ Transition(id, reviewed, "human_review", Key(c))
    BY <1>2, <1>5 DEF FinalizeReject, FinalizeHumanReview, RetryCanceled
  <2>4. rejected \in Record /\ rejected.fp = byID[id].fp /\ rejected.state \in ClosedStates
    BY ZenonT(60), <2>1, <2>2 DEF Record, TerminalStates, ClosedStates
  <2>5. reviewed \in Record /\ reviewed.fp = byID[id].fp /\ reviewed.state \in ClosedStates
    BY ZenonT(60), <2>1, <2>2 DEF Record, TerminalStates, ClosedStates
  <2>6. "rejected" \in OtherEvents /\ "human_review" \in OtherEvents
    BY DEF OtherEvents, EventTypes
  <2> HIDE DEF rejected, reviewed
  <2>7. Close({id})
    BY <1>3, <2>1, <2>3, <2>4, <2>5, <2>6, EndClass
  <2> QED
    BY <2>7
<1> QED
  BY <1>4, <1>5

LEMMA FinalizeAllowClass ==
  ASSUME IInv, NEW c \in Callers, FinalizeAllow(c)
  PROVE  \E id \in Ids : Allowed(c, id)
<1>1. StoreInv /\ StoreType /\ CallerType /\ CallerOK(c)
  BY Unpack DEF LocOK, StoreInv
<1>2. PICK id \in Ids : id = loc[c].id
  BY <1>1 DEF CallerOK, FinalizeAllow, Finalizable, RetryLabels
<1> DEFINE rec == [byID[id] EXCEPT !.state = "ALLOWED_ONCE", !.stage2 = "ALLOW",
                                   !.interv = "none", !.key = Key(c)]
<1>3. /\ pc[c] = "reeval" /\ ~Due(id) /\ byID[id].state = "RETRY_PENDING" /\ Active(id)
      /\ Key(c) \in Keys /\ Key(c) \in Payloads
  BY <1>1, <1>2 DEF FinalizeAllow, Finalizable, Active, ActiveStates, CallerOK, RetryLabels,
     Key, Keys, Payloads
<1>4. byID[id] \in Record /\ grants[id] = {}
  BY <1>1, <1>3, LiveRecord
<1>5. rec \in Record /\ rec.fp = byID[id].fp /\ rec.state = "ALLOWED_ONCE"
  BY <1>3, <1>4 DEF Record, TerminalStates
<1>6. /\ Transition(id, rec, "allowed_once", Key(c)) /\ Return(c)
      /\ grants' = [grants EXCEPT ![id] = @ \cup {Key(c)}]
  BY <1>2 DEF FinalizeAllow, Grant
<1>7. \A i \in Ids : byID'[i] = IF i = id THEN rec ELSE byID[i]
  <2> HIDE DEF rec
  <2> QED
    BY <1>1, <1>3, <1>5, <1>6, TransitionRecords
<1>8. SameSpends
  <2>1. "allowed_once" \in OtherEvents
    BY DEF OtherEvents, EventTypes
  <2> QED
    BY <1>1, <1>3, <1>6, <2>1, OneEventSpends DEF Transition
<1>9. NoNewOwner
  BY <1>1, <1>6, ReturnOwner
<1>10. grants' = [grants EXCEPT ![id] = {Key(c)}]
  BY <1>1, <1>4, <1>6 DEF CallerType
<1>11. Allowed(c, id)
  BY <1>2, <1>3, <1>5, <1>7, <1>8, <1>9, <1>10 DEF Allowed, Move
<1> QED
  BY <1>11

LEMMA StepClassified ==
  ASSUME IInv, [Next]_vars
  PROVE  Classified
<1>1. ASSUME NEW c \in Callers, Continue(c) PROVE Classified
  BY <1>1, QuietClass, ReplayClass, OpenHardBlockClass, OpenHumanReviewClass, OpenReuseClass,
     OpenNewClass, ExpiredClass, JustifyAcceptClass, RetryRefusedClass, RetryConsumeClass,
     RetryEndsClass, FinalizeAllowClass DEF Continue, Classified
<1>2. ASSUME NEW c \in Callers, Cancel(c) PROVE Classified
  BY <1>2, QuietClass, RetryEndsClass DEF Cancel, Classified
<1>3. CASE UNCHANGED vars
  BY <1>3 DEF vars, store, Classified, Quiet, NoNewOwner
<1> QED
  BY <1>1, <1>2, <1>3, BeginClass DEF Next

-----------------------------------------------------------------------------
(* The consumption invariant *)

LEMMA SpendInit == Init => SpendInv
BY DEF Init, SpendInv, Spends

LEMMA SpendStep ==
  ASSUME IInv, SpendInv, [Next]_vars
  PROVE  SpendInv'
<1> DEFINE Unspent == {"NONE", "OPEN", "JUSTIFIED"}
<1>1. Classified
  BY StepClassified
<1>2. ASSUME SameSpends, NoNewOwner,
             \A i \in Ids : byID'[i].state \in Unspent /\ byID'[i] # byID[i] =>
                               byID[i].state \in Unspent
      PROVE  SpendInv'
  <2>1. ASSUME NEW i \in Ids, byID'[i].state \in Unspent PROVE Spends(i)' = {}
    BY <1>2, <2>1 DEF SameSpends, SpendInv
  <2>2. ASSUME NEW c \in Callers, NEW i \in Ids, pc'[c] = "reeval", loc'[c].id = i
        PROVE  Spends(i)' # {} /\ SpenderOf(i)' = Key(c)'
    BY <1>2, <2>2 DEF SameSpends, NoNewOwner, SpendInv, Key
  <2> QED
    BY <2>1, <2>2 DEF SpendInv
<1>3. CASE Quiet
  <2>1. SameSpends
    BY <1>3, SameSpendsRule DEF Quiet
  <2> QED
    BY <1>2, <1>3, <2>1 DEF Quiet
<1>4. ASSUME NEW S \in SUBSET Ids, Close(S) PROVE SpendInv'
  BY <1>2, <1>4 DEF Close, ClosedStates, TerminalStates
<1>5. ASSUME NEW id \in Ids, NEW S \in SUBSET Ids, Insert(id, S) PROVE SpendInv'
  <2>1. \A i \in Ids : byID'[i].state \in Unspent /\ byID'[i] # byID[i] =>
                          byID[i].state \in Unspent
    BY <1>5 DEF Insert, ClosedStates, TerminalStates, NoRec
  <2> QED
    BY <1>2, <1>5, <2>1 DEF Insert
<1>6. ASSUME NEW id \in Ids, Argued(id) PROVE SpendInv'
  BY <1>2, <1>6 DEF Argued, Move
<1>7. ASSUME NEW c \in Callers, NEW id \in Ids, Consumed(c, id) PROVE SpendInv'
  <2>1. Spends(id) = {}
    BY <1>7 DEF Consumed, Move, SpendInv
  <2>2. ASSUME NEW i \in Ids, byID'[i].state \in Unspent PROVE Spends(i)' = {}
    BY <1>7, <2>2 DEF Consumed, Move, SpendInv
  <2>3. ASSUME NEW d \in Callers, NEW i \in Ids, pc'[d] = "reeval", loc'[d].id = i
        PROVE  Spends(i)' # {} /\ SpenderOf(i)' = Key(d)'
    <3>1. Key(d)' = Key(d) /\ loc[d].id = i
      BY <1>7, <2>3 DEF Consumed, Key
    <3>2. CASE i = id
      <4>1. d = c
        BY <1>7, <2>1, <2>3, <3>1, <3>2 DEF Consumed, SpendInv
      <4> QED
        BY <1>7, <2>1, <3>1, <3>2, <4>1 DEF Consumed
    <3>3. CASE i # id
      <4>1. pc[d] = "reeval"
        BY <1>7, <2>3, <3>1, <3>3 DEF Consumed
      <4> QED
        BY <1>7, <3>1, <3>3, <4>1 DEF Consumed, SpendInv
    <3> QED
      BY <3>2, <3>3
  <2> QED
    BY <2>2, <2>3 DEF SpendInv
<1>8. ASSUME NEW c \in Callers, NEW id \in Ids, Allowed(c, id) PROVE SpendInv'
  BY <1>2, <1>8 DEF Allowed, Move
<1> QED
  BY <1>1, <1>3, <1>4, <1>5, <1>6, <1>7, <1>8 DEF Classified

-----------------------------------------------------------------------------
(* The refinement *)

LEMMA StageCases ==
  ASSUME IInv, NEW i \in Ids
  PROVE  /\ Active(i) <=> StageOf(i) \in {"filed", "argued", "spent"}
         /\ byID[i].state \in ClosedStates => StageOf(i) = "closed"
         /\ byID[i].state = "NONE" => StageOf(i) = "unfiled"
         /\ byID[i].state = "OPEN" => StageOf(i) = "filed"
         /\ byID[i].state = "JUSTIFIED" => StageOf(i) = "argued"
         /\ byID[i].state = "RETRY_PENDING" => StageOf(i) = "spent"
         /\ byID[i].state = "ALLOWED_ONCE" => StageOf(i) = "granted"
<1>1. byID[i].state \in {"NONE"} \cup ActiveStates \cup TerminalStates
  BY DEF IInv, TypeOK, Record
<1> QED
  BY <1>1 DEF StageOf, Active, ActiveStates, TerminalStates, ClosedStates

LEMMA StagePrimed ==
  ASSUME NEW i \in Ids
  PROVE  /\ byID'[i] = byID[i] => StageOf(i)' = StageOf(i)
         /\ byID'[i].state \in ClosedStates => StageOf(i)' = "closed"
         /\ byID'[i].state = "OPEN" => StageOf(i)' = "filed"
         /\ byID'[i].state = "JUSTIFIED" => StageOf(i)' = "argued"
         /\ byID'[i].state = "RETRY_PENDING" => StageOf(i)' = "spent"
         /\ byID'[i].state = "ALLOWED_ONCE" => StageOf(i)' = "granted"
BY DEF StageOf, ClosedStates, TerminalStates

\* The abstract state, read off the detailed one.
Stages == [i \in Ids |-> StageOf(i)]
Subjects == [i \in Ids |-> byID[i].fp]
Spenders == [i \in Ids |-> SpenderOf(i)]

LEMMA SpendersKept ==
  ASSUME SameSpends
  PROVE  Spenders' = Spenders
BY DEF Spenders, SameSpends

LEMMA CloseRefines ==
  ASSUME IInv, NEW S \in SUBSET Ids, Close(S)
  PROVE  Appeal!ANext \/ UNCHANGED Appeal!avars
<1>1. Stages' = [i \in Ids |-> IF i \in S THEN "closed" ELSE Stages[i]]
  BY StagePrimed DEF Close, Stages
<1>2. Subjects' = Subjects /\ Spenders' = Spenders /\ grants' = grants
  BY SpendersKept DEF Close, Subjects
<1>3. \A i \in S : Stages[i] \in {"filed", "argued", "spent"}
  BY StageCases DEF Close, Stages
<1>4. CASE S = {}
  <2>1. Stages' = Stages
    BY <1>1, <1>4 DEF Stages
  <2> QED
    BY <1>2, <2>1 DEF Appeal!avars, Stages, Subjects, Spenders
<1>5. CASE S # {}
  <2>1. Appeal!CloseSome(S)
    BY <1>1, <1>2, <1>3, <1>5
       DEF Appeal!CloseSome, Appeal!CloseIn, Appeal!Live, Stages, Subjects, Spenders
  <2> QED
    BY <2>1 DEF Appeal!ANext
<1> QED
  BY <1>4, <1>5

LEMMA InsertRefines ==
  ASSUME IInv, NEW id \in Ids, NEW S \in SUBSET Ids, Insert(id, S)
  PROVE  Appeal!ANext
<1>1. PICK fp \in Fps : fp = byID'[id].fp
  BY DEF Insert
<1> DEFINE Closing == [i \in Ids |-> IF i \in S THEN "closed" ELSE Stages[i]]
<1>2. Stages[id] = "unfiled" /\ id \notin S
  BY StageCases DEF Insert, Stages, NoRec
<1>3. Stages' = [Closing EXCEPT ![id] = IF byID'[id].state = "OPEN" THEN "filed" ELSE "closed"]
  BY StagePrimed DEF Insert, Stages, ClosedStates, TerminalStates
<1>4. Subjects' = [Subjects EXCEPT ![id] = fp] /\ Spenders' = Spenders /\ grants' = grants
  BY <1>1, SpendersKept DEF Insert, Subjects
<1>5. \A i \in Ids : Active(i) <=> Stages[i] \in {"filed", "argued", "spent"}
  BY StageCases DEF Stages
<1>6. \A i \in Ids : i \in Hits(fp) <=> Active(i) /\ Subjects[i] = fp
  BY DEF Hits, Subjects
<1>7. S \subseteq Appeal!Live /\ {i \in Appeal!Live : Subjects[i] = fp} \subseteq S
  BY <1>1, <1>5, <1>6 DEF Insert, Appeal!Live, Stages
<1>8. CASE byID'[id].state = "OPEN"
  <2>1. S = {i \in Appeal!Live : Subjects[i] = fp}
    BY <1>1, <1>5, <1>6, <1>8 DEF Insert, Appeal!Live, Stages
  <2>2. Appeal!File(id, fp)
    <3>1. Stages' = [Closing EXCEPT ![id] = "filed"]
      BY <1>3, <1>8
    <3>2. Closing = Appeal!CloseIn({i \in Appeal!Live : Subjects[i] = fp})
      BY <2>1 DEF Appeal!CloseIn, Stages
    <3> HIDE DEF Closing
    <3> QED
      BY <1>2, <1>4, <3>1, <3>2 DEF Appeal!File, Stages, Subjects, Spenders
  <2> QED
    BY <2>2 DEF Appeal!ANext
<1>9. CASE byID'[id].state # "OPEN"
  <2>1. Appeal!Refer(id, fp, S)
    <3>1. Stages' = [Closing EXCEPT ![id] = "closed"]
      BY <1>3, <1>9
    <3>2. Closing = Appeal!CloseIn(S)
      BY DEF Appeal!CloseIn, Stages
    <3> HIDE DEF Closing
    <3> QED
      BY <1>2, <1>4, <1>7, <3>1, <3>2 DEF Appeal!Refer, Stages, Subjects, Spenders
  <2> QED
    BY <2>1 DEF Appeal!ANext
<1> QED
  BY <1>8, <1>9

\* The stages and the subjects after one challenge moved on.
LEMMA MoveStages ==
  ASSUME IInv, NEW id \in Ids, NEW from, NEW to, Move(id, from, to)
  PROVE  /\ Stages' = [Stages EXCEPT ![id] = StageOf(id)']
         /\ Subjects' = Subjects
BY StagePrimed DEF Move, Stages, Subjects

LEMMA ArguedRefines ==
  ASSUME IInv, NEW id \in Ids, Argued(id)
  PROVE  Appeal!ANext
<1>1. /\ Stages' = [Stages EXCEPT ![id] = "argued"] /\ Subjects' = Subjects
      /\ Stages[id] = "filed"
  BY MoveStages, StagePrimed, StageCases DEF Argued, Move, Stages
<1>2. Spenders' = Spenders /\ grants' = grants
  BY SpendersKept DEF Argued
<1>3. Appeal!Argue(id)
  BY <1>1, <1>2 DEF Appeal!Argue, Stages, Subjects, Spenders
<1> QED
  BY <1>3 DEF Appeal!ANext

LEMMA ConsumedRefines ==
  ASSUME IInv, SpendInv, NEW c \in Callers, NEW id \in Ids, Consumed(c, id)
  PROVE  Appeal!ANext
<1>1. PICK k \in Keys : k = Key(c)
  BY DEF Consumed
<1>2. /\ Stages' = [Stages EXCEPT ![id] = "spent"] /\ Subjects' = Subjects
      /\ Stages[id] = "argued"
  BY MoveStages, StagePrimed, StageCases DEF Consumed, Move, Stages
<1>3. Spends(id) = {}
  BY DEF Consumed, Move, SpendInv
<1>4. Spenders' = [Spenders EXCEPT ![id] = k] /\ grants' = grants
  BY <1>1, <1>3 DEF Consumed, Spenders
<1>5. Appeal!Spend(id, k)
  BY <1>2, <1>4 DEF Appeal!Spend, Stages, Subjects, Spenders
<1> QED
  BY <1>5 DEF Appeal!ANext

LEMMA AllowedRefines ==
  ASSUME IInv, SpendInv, NEW c \in Callers, NEW id \in Ids, Allowed(c, id)
  PROVE  Appeal!ANext
<1>1. /\ Stages' = [Stages EXCEPT ![id] = "granted"] /\ Subjects' = Subjects
      /\ Stages[id] = "spent"
  BY MoveStages, StagePrimed, StageCases DEF Allowed, Move, Stages
<1>2. Spenders' = Spenders
  BY SpendersKept DEF Allowed
<1>3. Spenders[id] = Key(c)
  BY DEF Allowed, SpendInv, Spenders
<1>4. grants' = [grants EXCEPT ![id] = {Spenders[id]}]
  BY <1>3 DEF Allowed
<1>5. Appeal!GrantAppeal(id)
  BY <1>1, <1>2, <1>4 DEF Appeal!GrantAppeal, Stages, Subjects, Spenders
<1> QED
  BY <1>5 DEF Appeal!ANext

LEMMA StepRefines ==
  ASSUME IInv, SpendInv, [Next]_vars
  PROVE  [Appeal!ANext]_(Appeal!avars)
<1>1. CASE Quiet
  <2>1. SameSpends
    BY <1>1, SameSpendsRule DEF Quiet
  <2>2. Stages' = Stages /\ Subjects' = Subjects /\ Spenders' = Spenders /\ grants' = grants
    BY <1>1, <2>1, StagePrimed, SpendersKept DEF Quiet, Stages, Subjects
  <2> QED
    BY <2>2 DEF Appeal!avars, Stages, Subjects, Spenders
<1> QED
  BY <1>1, StepClassified, CloseRefines, InsertRefines, ArguedRefines, ConsumedRefines,
     AllowedRefines DEF Classified

LEMMA InitRefines == Init => Appeal!AInit
<1> SUFFICES ASSUME Init PROVE Appeal!AInit
  OBVIOUS
<1>1. \A i \in Ids : StageOf(i) = "unfiled" /\ SpenderOf(i) = None /\ byID[i].fp = None
  BY DEF Init, StageOf, SpenderOf, Spends, NoRec
<1> QED
  BY <1>1 DEF Init, Appeal!AInit

-----------------------------------------------------------------------------
\* Before RETRY_PENDING no retry was charged, and a retry under re-evaluation is
\* the one the log says was charged: what the refinement rests on.
THEOREM SpendInvariant == Spec => []SpendInv
BY SpendInit, SpendStep, ServiceInvariant, PTL DEF Spec

\* The service implements the one-shot appeal: every step of any number of
\* callers files, argues, spends, grants or closes appeals as the abstract
\* specification allows, or changes nothing it can see; in particular the
\* identity told ALLOW is the one whose budget_consumed event the log holds.
THEOREM ServiceImplementsAppeal == Spec => ImplementsAppeal
BY InitRefines, StepRefines, ServiceInvariant, SpendInvariant, PTL
   DEF Spec, ImplementsAppeal, Appeal!ASpec

\* A challenge becomes ALLOWED_ONCE only before its expiry sequence, because the
\* expiry is looked at again under the lock after ReEvaluate.
THEOREM AllowInTime == Spec => NoLateAllow
<1> DEFINE InTime == \A i \in Ids :
             byID'[i].state = "ALLOWED_ONCE" /\ byID[i].state # "ALLOWED_ONCE" =>
                 byID[i].expiresAt = 0 \/ seq < byID[i].expiresAt
<1>1. ASSUME IInv, [Next]_vars PROVE [InTime]_vars
  <2>1. SUFFICES ASSUME NEW i \in Ids, byID'[i].state = "ALLOWED_ONCE",
                        byID[i].state # "ALLOWED_ONCE"
                 PROVE  byID[i].expiresAt = 0 \/ seq < byID[i].expiresAt
    OBVIOUS
  <2>2. PICK c \in Callers : Allowed(c, i)
    <3>1. Classified
      BY <1>1, StepClassified
    <3>2. ASSUME NEW c \in Callers, NEW id \in Ids, Consumed(c, id) \/ Allowed(c, id)
          PROVE  id = i /\ Allowed(c, i)
      BY <2>1, <3>2 DEF Consumed, Allowed, Move
    <3>3. ~Quiet
      BY <2>1 DEF Quiet
    <3>4. ASSUME NEW S \in SUBSET Ids, Close(S) PROVE FALSE
      BY <2>1, <3>4 DEF Close, ClosedStates
    <3>5. ASSUME NEW id \in Ids, NEW S \in SUBSET Ids, Insert(id, S) PROVE FALSE
      BY <2>1, <3>5 DEF Insert, ClosedStates
    <3>6. ASSUME NEW id \in Ids, Argued(id) PROVE FALSE
      BY <2>1, <3>6 DEF Argued, Move
    <3> QED
      BY <3>1, <3>2, <3>3, <3>4, <3>5, <3>6 DEF Classified
  <2>3. ~Due(i) /\ Active(i)
    BY <2>2 DEF Allowed, Move, Active, ActiveStates
  <2>4. seq \in Nat /\ byID[i].expiresAt \in Nat
    BY <1>1 DEF IInv, TypeOK, Record
  <2> QED
    BY <2>3, <2>4 DEF Due
<1> QED
  BY <1>1, ServiceInvariant, PTL DEF Spec, NoLateAllow
-----------------------------------------------------------------------------
(* The log tells the record: every step that changes a record appends the   *)
(* one event that ReplayFromStore reads the change from.                    *)

LEMMA EventStates ==
  /\ ToState("opened") = "OPEN" /\ ToState("justified") = "JUSTIFIED"
  /\ ToState("budget_consumed") = "RETRY_PENDING" /\ ToState("allowed_once") = "ALLOWED_ONCE"
  /\ ToState("rejected") = "REJECTED" /\ ToState("human_review") = "HUMAN_REVIEW"
  /\ ToState("abandoned") = "ABANDONED" /\ ToState("expired") = "EXPIRED"
BY DEF ToState

LEMMA CourseEvents ==
  Course[1] = "opened" /\ Course[2] = "justified" /\ Course[3] = "budget_consumed"
BY DEF Course

LEMMA AppendLog ==
  ASSUME NEW l \in Seq(Event), NEW e \in Event
  PROVE  /\ Len(Append(l, e)) = Len(l) + 1 /\ Append(l, e)[Len(l) + 1] = e
         /\ \A k \in 1..Len(l) : Append(l, e)[k] = l[k]
OBVIOUS

\* A live challenge is at the end of the course it has run so far.
LEMMA LiveCourse ==
  ASSUME NEW l \in Seq(Event), NEW r, Told(l, r), r.state \in ActiveStates
  PROVE  \E n \in 1..3 : Follows(l, r, n) /\ Len(l) = n /\ r.state = ToState(Course[n])
<1>1. r.state # "NONE" /\ ~Referred(l, r)
  BY DEF ActiveStates, Referred
<1>2. PICK n \in 1..3 : Follows(l, r, n)
  BY <1>1 DEF Told
<1>3. Len(l) # n + 1
  <2> SUFFICES ASSUME Len(l) = n + 1 PROVE FALSE
    OBVIOUS
  <2>1. l[n + 1].type \in Endings /\ r.state = ToState(l[n + 1].type)
    BY <1>2 DEF Follows
  <2> QED
    BY <2>1, EventStates DEF Endings, ActiveStates
<1> QED
  BY <1>2, <1>3 DEF Follows

\* What a step does to a challenge: nothing, or one event and the change it names.
Says(i, type, p) ==
    \E e \in Event : e.type = type /\ e.payload = p /\ log'[i] = Append(log[i], e)
Untold(i) == byID'[i] = byID[i] /\ log'[i] = log[i]
Opened(i) ==
    /\ byID[i] = NoRec /\ (\E p \in Payloads : Says(i, "opened", p)) /\ byID'[i].state = "OPEN"
    /\ byID'[i].just = None /\ byID'[i].budget = 1 /\ byID'[i].stage2 = "BLOCK"
    /\ byID'[i].key = None
ReferredOn(i) ==
    /\ byID[i] = NoRec /\ (\E p \in Fps : Says(i, "human_review", p))
    /\ byID'[i].state = "HUMAN_REVIEW"
    /\ byID'[i].just = None /\ byID'[i].budget = 0 /\ byID'[i].stage2 = "BLOCK"
    /\ byID'[i].interv = "HUMAN_REVIEW" /\ byID'[i].key = None
Advanced(i, n) ==
    /\ byID[i].state = ToState(Course[n]) /\ byID'[i].state = ToState(Course[n + 1])
    /\ \E p \in Payloads : Says(i, Course[n + 1], p)
    /\ byID'[i].budget = (IF n = 2 THEN 0 ELSE byID[i].budget)
    /\ byID'[i].stage2 = byID[i].stage2 /\ byID'[i].key = byID[i].key
\* The identity an ending of the given type, with payload p, leaves in record s of r.
KeyLeft(r, s, type, p) ==
    IF type \in KeyEvents /\ r.state = "RETRY_PENDING" THEN s.key = p /\ p # None
    ELSE s.key = r.key /\ (type \in KeyEvents => p \in Fps)
Ended(i, type) ==
    /\ Active(i) /\ byID'[i].state = ToState(type)
    /\ \E p \in Payloads : Says(i, type, p) /\ KeyLeft(byID[i], byID'[i], type, p)
    /\ ValidateTransition(byID[i].state, ToState(type))
    /\ byID'[i].just = byID[i].just /\ byID'[i].budget = byID[i].budget
    /\ IF type = "allowed_once" THEN byID'[i].stage2 = "ALLOW" /\ byID'[i].interv = "none"
       ELSE byID'[i].stage2 \in {byID[i].stage2, "BLOCK"}
    /\ type = "human_review" => byID'[i].interv = "HUMAN_REVIEW" /\ byID'[i].budget = 0

Tells(i) ==
    \/ Untold(i) \/ Opened(i) \/ ReferredOn(i)
    \/ Advanced(i, 1) \/ Advanced(i, 2)
    \/ \E type \in Endings : Ended(i, type)

LEMMA BornTold ==
  ASSUME NEW i \in Ids, log[i] \in Seq(Event), Told(log[i], byID[i]),
         Opened(i) \/ ReferredOn(i)
  PROVE  Told(log'[i], byID'[i])
<1>1. Len(log[i]) = 0
  BY DEF Told, Opened, ReferredOn, NoRec
<1>2. CASE Opened(i)
  <2>1. PICK e \in Event : e.type = "opened" /\ log'[i] = Append(log[i], e)
    BY <1>2 DEF Opened, Says
  <2>0. byID'[i].key = None /\ "opened" \notin KeyEvents
    BY <1>2 DEF Opened, KeyEvents
  <2>2. Len(log'[i]) = 1 /\ log'[i][1].type = "opened"
    BY <1>1, <2>1, AppendLog
  <2>3. byID'[i].state = "OPEN" /\ byID'[i].just = None /\ byID'[i].budget = 1
        /\ byID'[i].stage2 = "BLOCK"
    BY <1>2 DEF Opened
  <2>4. Follows(log'[i], byID'[i], 1)
    BY <2>0, <2>2, <2>3, EventStates, CourseEvents DEF Follows
  <2> QED
    BY <2>3, <2>4 DEF Told
<1>3. CASE ReferredOn(i)
  <2>1. PICK e \in Event : /\ e.type = "human_review" /\ e.payload \in Fps
                          /\ log'[i] = Append(log[i], e)
    BY <1>3 DEF ReferredOn, Says
  <2>2. Len(log'[i]) = 1 /\ log'[i][1].type = "human_review" /\ log'[i][1].payload \in Fps
    BY <1>1, <2>1, AppendLog
  <2>3. Referred(log'[i], byID'[i])
    BY <1>3, <2>2 DEF ReferredOn, Referred
  <2> QED
    BY <2>3 DEF Told, Referred
<1> QED
  BY <1>2, <1>3

LEMMA AdvancedTold ==
  ASSUME NEW i \in Ids, log[i] \in Seq(Event), Told(log[i], byID[i]),
         NEW n \in 1..2, Advanced(i, n)
  PROVE  Told(log'[i], byID'[i])
<1>1. byID[i].state \in ActiveStates
  BY EventStates, CourseEvents DEF Advanced, ActiveStates
<1>2. PICK m \in 1..3 : /\ Follows(log[i], byID[i], m) /\ Len(log[i]) = m
                        /\ byID[i].state = ToState(Course[m])
  BY <1>1, LiveCourse
<1>3. m = n
  <2>1. ToState(Course[m]) = ToState(Course[n])
    BY <1>2 DEF Advanced
  <2>2. /\ ToState(Course[1]) = "OPEN" /\ ToState(Course[2]) = "JUSTIFIED"
        /\ ToState(Course[3]) = "RETRY_PENDING"
    BY EventStates, CourseEvents
  <2>3. m \in {1, 2, 3} /\ n \in {1, 2}
    OBVIOUS
  <2> QED
    BY <2>1, <2>2, <2>3
<1>4. PICK e \in Event : e.type = Course[n + 1] /\ log'[i] = Append(log[i], e)
  BY DEF Advanced, Says
<1>5. /\ Len(log'[i]) = n + 1 /\ log'[i][n + 1].type = Course[n + 1]
      /\ \A k \in 1..n : log'[i][k] = log[i][k]
  BY <1>2, <1>3, <1>4, AppendLog
<1>6. \A k \in 1..(n + 1) : log'[i][k].type = Course[k]
  <2>1. \A k \in 1..n : log[i][k].type = Course[k]
    BY <1>2, <1>3 DEF Follows
  <2> QED
    BY <1>5, <2>1
<1>7. /\ byID'[i].state = ToState(Course[n + 1]) /\ byID'[i].state \in {"JUSTIFIED", "RETRY_PENDING"}
      /\ byID'[i].stage2 = byID[i].stage2
      /\ byID'[i].budget = IF n = 2 THEN 0 ELSE byID[i].budget
  BY EventStates, CourseEvents DEF Advanced
<1>8. byID[i].stage2 = "BLOCK" /\ byID[i].budget = 1
  BY <1>1, <1>2, <1>3 DEF Follows, ActiveStates
<1>10. byID'[i].key = None
  BY <1>2 DEF Follows, Advanced
<1>9. Follows(log'[i], byID'[i], n + 1)
  BY <1>5, <1>6, <1>7, <1>8, <1>10 DEF Follows
<1> QED
  BY <1>7, <1>9 DEF Told

LEMMA EndedTold ==
  ASSUME NEW i \in Ids, log[i] \in Seq(Event), Told(log[i], byID[i]),
         NEW type \in Endings, Ended(i, type)
  PROVE  Told(log'[i], byID'[i])
<1>1. PICK n \in 1..3 : /\ Follows(log[i], byID[i], n) /\ Len(log[i]) = n
                        /\ byID[i].state = ToState(Course[n])
  BY LiveCourse DEF Ended, Active
<1>2. PICK e \in Event : /\ e.type = type /\ log'[i] = Append(log[i], e)
                        /\ KeyLeft(byID[i], byID'[i], type, e.payload)
  BY DEF Ended, Says
<1>3. /\ Len(log'[i]) = n + 1 /\ log'[i][n + 1] = e
      /\ \A k \in 1..n : log'[i][k] = log[i][k]
  BY <1>1, <1>2, AppendLog
<1>4. \A k \in 1..n : log'[i][k].type = Course[k]
  BY <1>1, <1>3 DEF Follows
<1>5. /\ byID'[i].state = ToState(type) /\ byID'[i].state \in TerminalStates
      /\ byID'[i].state = "ALLOWED_ONCE" <=> type = "allowed_once"
      /\ byID'[i].state = "HUMAN_REVIEW" <=> type = "human_review"
  <2>1. byID'[i].state = ToState(type)
    BY DEF Ended
  <2>2. \/ type = "allowed_once" /\ ToState(type) = "ALLOWED_ONCE"
        \/ type = "rejected" /\ ToState(type) = "REJECTED"
        \/ type = "human_review" /\ ToState(type) = "HUMAN_REVIEW"
        \/ type = "abandoned" /\ ToState(type) = "ABANDONED"
        \/ type = "expired" /\ ToState(type) = "EXPIRED"
    BY EventStates DEF Endings
  <2> QED
    BY <2>1, <2>2 DEF TerminalStates
<1>6. byID[i].stage2 = "BLOCK"
  BY <1>1 DEF Follows, Ended, Active, ActiveStates
<1>7. byID'[i].stage2 = IF type = "allowed_once" THEN "ALLOW" ELSE "BLOCK"
  BY <1>6 DEF Ended
<1>8. /\ n = 1 => byID'[i].just = None
      /\ byID'[i].budget = IF n = 3 THEN 0 ELSE 1
  BY <1>1 DEF Follows, Ended
<1>9. ValidateTransition(ToState(Course[n]), byID'[i].state)
  BY <1>1, <1>5 DEF Ended
<1>11. IF type \in KeyEvents
         THEN IF n = 3 THEN byID'[i].key = e.payload /\ byID'[i].key # None
              ELSE byID'[i].key = None /\ e.payload \in Fps
         ELSE byID'[i].key = None
  <2>1. byID[i].key = None
    BY <1>1 DEF Follows
  <2>2. byID[i].state = "RETRY_PENDING" <=> n = 3
    BY <1>1, EventStates, CourseEvents
  <2> QED
    BY <1>2, <2>1, <2>2 DEF KeyLeft
<1>12. /\ log'[i][n + 1].type = type /\ log'[i][n + 1].payload = e.payload
  BY <1>2, <1>3
<1>10. Follows(log'[i], byID'[i], n)
  BY <1>3, <1>4, <1>5, <1>7, <1>8, <1>9, <1>11, <1>12 DEF Follows, Ended
<1> QED
  BY <1>5, <1>10 DEF Told, TerminalStates

LEMMA TellsStep ==
  ASSUME TypeOK, ToldInv, \A i \in Ids : Tells(i)
  PROVE  ToldInv'
<1> SUFFICES ASSUME NEW i \in Ids PROVE Told(log'[i], byID'[i])
  BY DEF ToldInv
<1>1. log[i] \in Seq(Event) /\ Told(log[i], byID[i]) /\ Tells(i)
  BY DEF TypeOK, ToldInv
<1> QED
  BY <1>1, BornTold, AdvancedTold, EndedTold DEF Tells, Untold\* LogIn gives each challenge of S the one event, and no other challenge any.
Entry(type, p) == [type |-> type, payload |-> p]

LEMMA EntryType ==
  ASSUME NEW type \in EventTypes, NEW p \in Payloads
  PROVE  Entry(type, p) \in Event /\ Entry(type, p).type = type /\ Entry(type, p).payload = p
BY DEF Entry, Event, EventTypes, Payloads

LEMMA LogInSpeaks ==
  ASSUME NEW l, NEW S, NEW type, NEW p, NEW i \in Ids, i \in S
  PROVE  LogIn(l, S, type, p)[i] = Append(l[i], Entry(type, p))
BY DEF LogIn, Entry

LEMMA LogInSilent ==
  ASSUME NEW l, NEW S, NEW type, NEW p, NEW i \in Ids, i \notin S
  PROVE  LogIn(l, S, type, p)[i] = l[i]
BY DEF LogIn

\* A live challenge that expires tells so.
LEMMA ExpiredTells ==
  ASSUME NEW i \in Ids, Active(i), byID[i] \in Record, NEW p \in Payloads, Says(i, "expired", p),
         byID'[i] = [byID[i] EXCEPT !.state = "EXPIRED"]
  PROVE  Tells(i)
<1>1. /\ byID'[i].state = "EXPIRED" /\ byID'[i].just = byID[i].just
      /\ byID'[i].budget = byID[i].budget /\ byID'[i].stage2 = byID[i].stage2
      /\ byID'[i].key = byID[i].key
  BY DEF Record
<1>2. ValidateTransition(byID[i].state, "EXPIRED")
  BY DEF ValidateTransition, Active, ActiveStates
<1>3. Ended(i, "expired")
  BY <1>1, <1>2, EventStates DEF Ended, KeyLeft, KeyEvents
<1>4. "expired" \in Endings
  BY DEF Endings
<1> QED
  BY <1>3, <1>4 DEF Tells

LEMMA ExpiringTells ==
  ASSUME StoreType, NEW S \in SUBSET Ids, \A i \in S : Active(i), NEW p \in Payloads,
         byID' = ExpireIn(byID, S), log' = LogIn(log, S, "expired", p)
  PROVE  \A i \in Ids : Tells(i)
<1> TAKE i \in Ids
<1>1. log \in [Ids -> Seq(Event)] /\ byID[i] \in Record /\ "expired" \in EventTypes
  BY DEF StoreType, EventTypes
<1>2. byID'[i] = IF i \in S THEN [byID[i] EXCEPT !.state = "EXPIRED"] ELSE byID[i]
  BY DEF ExpireIn
<1>3. CASE i \in S
  <2>1. Says(i, "expired", p)
    <3>1. log'[i] = Append(log[i], Entry("expired", p))
      BY <1>3, LogInSpeaks
    <3>2. /\ Entry("expired", p) \in Event /\ Entry("expired", p).type = "expired"
          /\ Entry("expired", p).payload = p
      BY <1>1, EntryType
    <3> QED
      BY <3>1, <3>2 DEF Says
  <2> QED
    BY <1>1, <1>2, <1>3, <2>1, ExpiredTells
<1>4. CASE i \notin S
  BY <1>1, <1>2, <1>4, LogInSilent DEF Tells, Untold
<1> QED
  BY <1>3, <1>4

\* A challenge that is inserted, and the rivals that expire before it.
LEMMA InsertingTells ==
  ASSUME StoreType, NEW S \in SUBSET Ids, \A i \in S : Active(i), NEW id \in Ids,
         byID[id] = NoRec, NEW rec \in Record, NEW type \in EventTypes,
         rec.state \in ActiveStates => Hits(rec.fp) \subseteq S,
         NEW p \in Payloads, byID' = PutLocked(ExpireIn(byID, S), id, rec),
         log' = LogIn(LogIn(log, S, "expired", p), {id}, type, p)
  PROVE  /\ byID'[id] = rec /\ Says(id, type, p)
         /\ \A i \in Ids \ {id} : Tells(i)
<1>1. PICK l : l = LogIn(log, S, "expired", p)
  OBVIOUS
<1>2. l \in [Ids -> Seq(Event)] /\ log \in [Ids -> Seq(Event)] /\ "expired" \in EventTypes
  BY <1>1, LogInType DEF StoreType, EventTypes
<1>3. id \notin S
  BY DEF Active, ActiveStates, NoRec
<1>4. l[id] = log[id]
  BY <1>1, <1>3, LogInSilent
<1>5. Says(id, type, p)
  <2>1. LogIn(l, {id}, type, p)[id] = Append(l[id], Entry(type, p))
    BY LogInSpeaks
  <2>2. Entry(type, p) \in Event /\ Entry(type, p).type = type /\ Entry(type, p).payload = p
    BY EntryType
  <2> QED
    BY <2>2, <1>1, <1>4, <2>1 DEF Says
<1>6. byID'[id] = rec
  BY DEF PutLocked
<1>7. ASSUME NEW i \in Ids \ {id} PROVE Tells(i)
  <2>1. log'[i] = l[i]
    BY <1>1, <1>7, LogInSilent
  <2>2. byID[i] \in Record
    BY DEF StoreType
  <2>3. ExpireIn(byID, S)[i] = IF i \in S THEN [byID[i] EXCEPT !.state = "EXPIRED"] ELSE byID[i]
    BY DEF ExpireIn
  <2>4. CASE i \in S
    <3>1. PICK r : r = [byID[i] EXCEPT !.state = "EXPIRED"]
      OBVIOUS
    <3>2. r.state = "EXPIRED"
      BY <2>2, <3>1 DEF Record
    <3>3. ExpireIn(byID, S)[i] = r /\ r.state \notin ActiveStates
      BY <2>3, <2>4, <3>1, <3>2 DEF ActiveStates
    <3>4. byID'[i] = r
      BY <1>7, <3>3 DEF PutLocked
    <3>5. Says(i, "expired", p)
      <4>1. l[i] = Append(log[i], Entry("expired", p))
        BY <1>1, <1>7, <2>4, LogInSpeaks
      <4>2. /\ Entry("expired", p) \in Event /\ Entry("expired", p).type = "expired"
            /\ Entry("expired", p).payload = p
        BY <1>2, EntryType
      <4> QED
        BY <2>1, <4>1, <4>2 DEF Says
    <3> QED
      BY <2>2, <2>4, <3>1, <3>4, <3>5, ExpiredTells
  <2>5. CASE i \notin S
    <3>1. ExpireIn(byID, S)[i] = byID[i]
      BY <2>3, <2>5
    <3>2. byID'[i] = byID[i]
      BY <1>7, <2>5, <3>1 DEF PutLocked, Hits, Active
    <3>3. l[i] = log[i]
      BY <1>1, <2>5, LogInSilent
    <3> QED
      BY <2>1, <3>2, <3>3 DEF Tells, Untold
  <2> QED
    BY <2>4, <2>5
<1> QED
  BY <1>5, <1>6, <1>7

\* A transition appends its event to its own challenge and touches no other.
LEMMA TransitionTells ==
  ASSUME StoreInv, NEW id \in Ids, Active(id), NEW rec \in Record, rec.fp = byID[id].fp,
         NEW type \in EventTypes, NEW p \in Payloads, Transition(id, rec, type, p)
  PROVE  /\ byID'[id] = rec /\ Says(id, type, p)
         /\ \A i \in Ids \ {id} : Tells(i)
<1>1. \A i \in Ids : byID'[i] = IF i = id THEN rec ELSE byID[i]
  BY TransitionRecords
<1>2. log \in [Ids -> Seq(Event)] /\ log' = LogIn(log, {id}, type, p)
  BY DEF StoreInv, StoreType, Transition
<1>3. Says(id, type, p)
  <2>1. LogIn(log, {id}, type, p)[id] = Append(log[id], Entry(type, p))
    BY LogInSpeaks
  <2>2. Entry(type, p) \in Event /\ Entry(type, p).type = type /\ Entry(type, p).payload = p
    BY EntryType
  <2> QED
    BY <2>2, <1>2, <2>1 DEF Says
<1>4. ASSUME NEW i \in Ids \ {id} PROVE Tells(i)
  <2>1. log'[i] = log[i]
    BY <1>2, <1>4, LogInSilent
  <2> QED
    BY <1>1, <2>1 DEF Tells, Untold
<1> QED
  BY <1>1, <1>3, <1>4

\* A challenge ended by a transition.
LEMMA EndingTells ==
  ASSUME StoreInv, NEW id \in Ids, Active(id), NEW rec \in Record, rec.fp = byID[id].fp,
         NEW type \in Endings, NEW p \in Payloads, Transition(id, rec, type, p),
         rec.state = ToState(type), ValidateTransition(byID[id].state, ToState(type)),
         rec.just = byID[id].just, rec.budget = byID[id].budget,
         IF type = "allowed_once" THEN rec.stage2 = "ALLOW" /\ rec.interv = "none"
         ELSE rec.stage2 \in {byID[id].stage2, "BLOCK"},
         type = "human_review" => rec.interv = "HUMAN_REVIEW" /\ rec.budget = 0,
         KeyLeft(byID[id], rec, type, p)
  PROVE  \A i \in Ids : Tells(i)
<1>1. type \in EventTypes
  BY DEF Endings, EventTypes
<1>2. byID'[id] = rec /\ Says(id, type, p) /\ \A i \in Ids \ {id} : Tells(i)
  BY <1>1, TransitionTells
<1>3. Ended(id, type)
  BY <1>2 DEF Ended
<1> QED
  BY <1>2, <1>3 DEF Tells\* Every action tells what it does.
LEMMA QuietTells ==
  ASSUME UNCHANGED <<byID, log>>
  PROVE  \A i \in Ids : Tells(i)
BY DEF Tells, Untold

LEMMA ExpireAllTells ==
  ASSUME IInv, NEW S \in SUBSET Ids, \A i \in S : Active(i), NEW p \in Payloads, ExpireAll(S, p)
  PROVE  \A i \in Ids : Tells(i)
<1>1. StoreType
  BY Unpack DEF StoreInv
<1> QED
  BY <1>1, ExpiringTells DEF ExpireAll

LEMMA ExpireFirstTells ==
  ASSUME IInv, NEW c \in Callers, NEW id \in Ids, ExpireFirst(c, id)
  PROVE  \A i \in Ids : Tells(i)
<1>1. /\ {id} \in SUBSET Ids /\ (\A i \in {id} : Active(i)) /\ None \in Payloads
      /\ ExpireAll({id}, None)
  BY DEF ExpireFirst, Due, Payloads
<1> QED
  BY <1>1, ExpireAllTells

LEMMA BeginTells ==
  ASSUME IInv, NEW c \in Callers, Begin(c)
  PROVE  \A i \in Ids : Tells(i)
<1>1. ASSUME NEW fp \in Fps, NEW class \in Classes, NEW gen \in Gens, NEW reason \in Reasons,
             NEW ttl \in TTLs, BeginOpen(c, fp, class, gen, reason, ttl)
      PROVE  \A i \in Ids : Tells(i)
  BY <1>1, QuietTells DEF BeginOpen, store
<1>2. ASSUME NEW id \in Ids, NEW j \in Justs, BeginJustify(c, id, j), ~ExpireFirst(c, id)
      PROVE  \A i \in Ids : Tells(i)
  BY <1>2, QuietTells DEF BeginJustify, store
<1>3. ASSUME NEW id \in Ids, NEW att \in Attempts, NEW fp \in Fps, BeginRetry(c, id, att, fp),
             ~ExpireFirst(c, id)
      PROVE  \A i \in Ids : Tells(i)
  BY <1>3, QuietTells DEF BeginRetry, store
<1>4. ASSUME NEW id \in Ids, Abandon(c, id) PROVE \A i \in Ids : Tells(i)
  <2> DEFINE rec == [byID[id] EXCEPT !.state = "ABANDONED"]
  <2>1. StoreInv /\ Active(id) /\ byID[id] \in Record /\ byID[id].state \in {"OPEN", "JUSTIFIED"}
    BY <1>4, Unpack, LiveRecord DEF Abandon, Active, ActiveStates
  <2>2. /\ rec \in Record /\ rec.fp = byID[id].fp /\ rec.state = "ABANDONED"
        /\ rec.just = byID[id].just /\ rec.budget = byID[id].budget
        /\ rec.stage2 = byID[id].stage2 /\ KeyLeft(byID[id], rec, "abandoned", None)
    BY <2>1 DEF Record, TerminalStates, KeyLeft, KeyEvents
  <2>3. "abandoned" \in Endings /\ None \in Payloads
    BY DEF Endings, Payloads
  <2>4. Transition(id, rec, "abandoned", None)
    BY <1>4 DEF Abandon
  <2>5. /\ ToState("abandoned") = "ABANDONED"
        /\ ValidateTransition(byID[id].state, "ABANDONED")
    BY <2>1, EventStates DEF ValidateTransition
  <2> HIDE DEF rec
  <2> QED
    BY <2>1, <2>2, <2>3, <2>4, <2>5, EndingTells
<1>5. ASSUME ExpireDue(c) PROVE \A i \in Ids : Tells(i)
  <2>1. PICK S \in SUBSET Ids : S = {i \in Ids : Due(i)}
    OBVIOUS
  <2>2. (\A i \in S : Active(i)) /\ ExpireAll(S, None) /\ None \in Payloads
    BY <1>5, <2>1 DEF ExpireDue, Due, Payloads
  <2> QED
    BY <2>2, ExpireAllTells
<1> QED
  BY <1>1, <1>2, <1>3, <1>4, <1>5, ExpireFirstTells DEF Begin

LEMMA OpenHardBlockTells ==
  ASSUME IInv, NEW c \in Callers, OpenHardBlock(c)
  PROVE  \A i \in Ids : Tells(i)
<1>1. StoreType /\ loc[c].fp \in Payloads
  BY Unpack, OpenKnows DEF StoreInv, OpenHardBlock
<1>2. PICK S \in SUBSET Ids : S = Superseded(loc[c].fp)
  BY DEF Superseded
<1>3. /\ \A i \in S : Active(i)
      /\ byID' = ExpireIn(byID, S) /\ log' = LogIn(log, S, "expired", loc[c].fp)
  BY <1>2 DEF OpenHardBlock, Superseded
<1> QED
  BY <1>1, <1>3, ExpiringTells

LEMMA OpenHumanReviewTells ==
  ASSUME IInv, NEW c \in Callers, OpenHumanReview(c)
  PROVE  \A i \in Ids : Tells(i)
<1> DEFINE rec == [NoRec EXCEPT !.state = "HUMAN_REVIEW", !.fp = loc[c].fp,
                                !.gen = loc[c].gen, !.reason = loc[c].reason,
                                !.ticket = loc[c].ticket, !.interv = "HUMAN_REVIEW"]
<1>1. StoreType
  BY Unpack DEF StoreInv
<1>2. PICK id : id = loc[c].id
  OBVIOUS
<1>3. /\ loc[c].fp \in Fps /\ loc[c].fp \in Payloads /\ loc[c].gen \in Gens
      /\ loc[c].reason \in Reasons /\ loc[c].ticket \in Nat
      /\ id \in Ids /\ byID[id] = NoRec
  BY <1>2, OpenKnows DEF OpenHumanReview
<1>4. /\ rec \in Record /\ rec.fp = loc[c].fp /\ rec.state = "HUMAN_REVIEW" /\ rec.just = None
      /\ rec.budget = 0 /\ rec.stage2 = "BLOCK" /\ rec.interv = "HUMAN_REVIEW" /\ rec.key = None
  BY <1>3 DEF NoRec, Record, TerminalStates
<1>5. PICK S \in SUBSET Ids : S = Superseded(loc[c].fp)
  BY DEF Superseded
<1>6. (\A i \in S : Active(i)) /\ rec.state \notin ActiveStates /\ "human_review" \in EventTypes
  BY <1>4, <1>5 DEF Superseded, ActiveStates, EventTypes
<1>7. /\ byID' = PutLocked(ExpireIn(byID, S), id, rec)
      /\ log' = LogIn(LogIn(log, S, "expired", rec.fp), {id}, "human_review", rec.fp)
  BY <1>2, <1>5 DEF OpenHumanReview
<1> HIDE DEF rec
<1>8. byID'[id] = rec /\ Says(id, "human_review", rec.fp) /\ \A i \in Ids \ {id} : Tells(i)
  BY <1>1, <1>3, <1>4, <1>6, <1>7, InsertingTells
<1>9. ReferredOn(id)
  BY <1>3, <1>4, <1>8 DEF ReferredOn
<1> QED
  BY <1>8, <1>9 DEF Tells

LEMMA OpenNewTells ==
  ASSUME IInv, NEW c \in Callers, OpenNew(c)
  PROVE  \A i \in Ids : Tells(i)
<1> DEFINE X(S) == IF loc[c].ttl > 0 THEN seq + Cardinality(S) + 1 + loc[c].ttl ELSE 0
           rec(S) == [NoRec EXCEPT
                        !.state = "OPEN", !.fp = loc[c].fp, !.gen = loc[c].gen,
                        !.reason = loc[c].reason, !.budget = 1, !.ticket = loc[c].ticket,
                        !.expiresAt = X(S), !.interv = "APPEALABLE_CHALLENGE"]
<1>1. StoreType
  BY Unpack DEF StoreInv
<1>2. PICK id : id = loc[c].id
  OBVIOUS
<1>3. /\ loc[c].fp \in Fps /\ loc[c].fp \in Payloads /\ loc[c].gen \in Gens
      /\ loc[c].reason \in Reasons /\ loc[c].ticket \in Nat /\ loc[c].ttl \in Nat
      /\ id \in Ids /\ byID[id] = NoRec
  BY <1>2, OpenKnows DEF OpenNew, AppealableOpen
<1>4. PICK S \in SUBSET Ids : S = Hits(loc[c].fp)
  BY DEF Hits
<1>5. X(S) \in Nat
  <2>1. Cardinality(S) \in Nat
    BY IdsCardinality
  <2>2. seq \in Nat
    BY <1>1 DEF StoreType
  <2> QED
    BY <1>3, <2>1, <2>2
<1>6. /\ byID' = PutLocked(ExpireIn(byID, S), id, rec(S))
      /\ log' = LogIn(LogIn(log, S, "expired", rec(S).fp), {id}, "opened", rec(S).fp)
  BY <1>2, <1>4 DEF OpenNew
<1> HIDE DEF X
<1>7. /\ rec(S) \in Record /\ rec(S).fp = loc[c].fp /\ rec(S).state = "OPEN"
      /\ rec(S).just = None /\ rec(S).budget = 1 /\ rec(S).stage2 = "BLOCK"
      /\ rec(S).key = None
  BY <1>3, <1>5 DEF NoRec, Record, ActiveStates
<1>8. (\A i \in S : Active(i)) /\ "opened" \in EventTypes
  BY <1>4 DEF Hits, EventTypes
<1> HIDE DEF rec
<1>9. Hits(rec(S).fp) \subseteq S
  <2>1. Hits(rec(S).fp) = S
    <3>1. rec(S).fp = loc[c].fp
      BY <1>7
    <3> QED
      BY ONLY <1>4, <3>1
  <2> QED
    BY ONLY <2>1
<1>10. byID'[id] = rec(S) /\ Says(id, "opened", rec(S).fp) /\ \A i \in Ids \ {id} : Tells(i)
  BY <1>1, <1>3, <1>6, <1>7, <1>8, <1>9, InsertingTells
<1>11. Opened(id)
  BY <1>3, <1>7, <1>10 DEF Opened
<1> QED
  BY <1>10, <1>11 DEF Tells

LEMMA OpenReuseTells ==
  ASSUME IInv, NEW c \in Callers, OpenReuse(c)
  PROVE  \A i \in Ids : Tells(i)
<1>1. loc[c].fp \in Payloads
  BY OpenKnows DEF OpenReuse, AppealableOpen
<1>2. PICK S \in SUBSET Ids : (\A i \in S : Active(i)) /\ ExpireAll(S, loc[c].fp)
  BY DEF OpenReuse, Hits
<1> QED
  BY <1>1, <1>2, ExpireAllTells

LEMMA ExpiredCallTells ==
  ASSUME IInv, NEW c \in Callers, JustifyExpired(c) \/ RetryExpired(c) \/ FinalizeExpired(c)
  PROVE  \A i \in Ids : Tells(i)
<1>1. CallerOK(c)
  BY Unpack DEF LocOK
<1>2. CASE JustifyExpired(c)
  <2>1. loc[c].id \in Ids
    BY <1>1, <1>2 DEF CallerOK, JustifyExpired
  <2> QED
    BY <1>2, <2>1, ExpireFirstTells DEF JustifyExpired
<1>3. CASE RetryExpired(c) \/ FinalizeExpired(c)
  <2>1. PICK id : id = loc[c].id
    OBVIOUS
  <2>2. id \in Ids /\ loc[c].fp \in Payloads /\ Active(id) /\ ExpireAll({id}, loc[c].fp)
    BY <1>1, <1>3, <2>1 DEF RetryExpired, FinalizeExpired, CallerOK, RetryLabels, Due, Payloads
  <2>3. {id} \in SUBSET Ids /\ \A i \in {id} : Active(i)
    BY <2>2
  <2> QED
    BY <2>2, <2>3, ExpireAllTells
<1> QED
  BY <1>2, <1>3

LEMMA JustifyAcceptTells ==
  ASSUME IInv, NEW c \in Callers, JustifyAccept(c)
  PROVE  \A i \in Ids : Tells(i)
<1>1. StoreInv /\ CallerOK(c)
  BY Unpack DEF LocOK
<1>2. PICK id : id = loc[c].id
  OBVIOUS
<1> DEFINE rec == [byID[id] EXCEPT !.state = "JUSTIFIED", !.just = loc[c].att]
<1>3. id \in Ids /\ loc[c].att \in Justs /\ byID[id].state = "OPEN" /\ Active(id)
  BY <1>1, <1>2 DEF CallerOK, JustifyAccept, Active, ActiveStates
<1>4. byID[id] \in Record
  BY <1>1, <1>3, LiveRecord
<1>5. /\ rec \in Record /\ rec.fp = byID[id].fp /\ rec.state = "JUSTIFIED"
      /\ rec.budget = byID[id].budget /\ rec.stage2 = byID[id].stage2 /\ rec.key = byID[id].key
  BY <1>3, <1>4 DEF Record, ActiveStates
<1>6. /\ Transition(id, rec, "justified", loc[c].att)
      /\ "justified" \in EventTypes /\ loc[c].att \in Payloads
  BY <1>2, <1>3 DEF JustifyAccept, EventTypes, Payloads
<1> HIDE DEF rec
<1>7. byID'[id] = rec /\ Says(id, "justified", loc[c].att) /\ \A i \in Ids \ {id} : Tells(i)
  BY <1>1, <1>3, <1>5, <1>6, TransitionTells
<1>8. Advanced(id, 1)
  BY <1>3, <1>5, <1>6, <1>7, EventStates, CourseEvents DEF Advanced
<1> QED
  BY <1>7, <1>8 DEF Tells

LEMMA RetryConsumeTells ==
  ASSUME IInv, NEW c \in Callers, RetryConsume(c)
  PROVE  \A i \in Ids : Tells(i)
<1>1. StoreInv /\ CallerOK(c)
  BY Unpack DEF LocOK
<1>2. PICK id : id = loc[c].id
  OBVIOUS
<1> DEFINE rec == [byID[id] EXCEPT !.state = "RETRY_PENDING", !.budget = @ - 1]
<1>3. id \in Ids /\ Key(c) \in Payloads /\ byID[id].state = "JUSTIFIED" /\ Active(id)
  BY <1>1, <1>2 DEF CallerOK, RetryConsume, Active, ActiveStates, RetryLabels, Key, Keys, Payloads
<1>4. byID[id] \in Record /\ byID[id].budget = 1
  BY <1>1, <1>3, LiveRecord DEF RecordOK
<1>5. /\ rec \in Record /\ rec.fp = byID[id].fp /\ rec.state = "RETRY_PENDING"
      /\ rec.budget = 0 /\ rec.stage2 = byID[id].stage2 /\ rec.key = byID[id].key
  <2>1. rec = [byID[id] EXCEPT !.state = "RETRY_PENDING", !.budget = 0]
    BY <1>4
  <2> QED
    BY <1>4, <2>1 DEF Record, ActiveStates
<1>6. Transition(id, rec, "budget_consumed", Key(c)) /\ "budget_consumed" \in EventTypes
  BY <1>2 DEF RetryConsume, EventTypes
<1> HIDE DEF rec
<1>7. PICK p \in Payloads : p = Key(c)
  BY <1>3
<1>8. byID'[id] = rec /\ Says(id, "budget_consumed", p) /\ \A i \in Ids \ {id} : Tells(i)
  BY <1>1, <1>3, <1>5, <1>6, <1>7, TransitionTells
<1>9. Advanced(id, 2)
  BY <1>3, <1>5, <1>8, EventStates, CourseEvents DEF Advanced
<1> QED
  BY <1>8, <1>9 DEF Tells

LEMMA RetryRefusedTells ==
  ASSUME IInv, NEW c \in Callers, RetryRefused(c)
  PROVE  \A i \in Ids : Tells(i)
<1>1. StoreInv /\ CallerOK(c)
  BY Unpack DEF LocOK
<1>2. PICK id : id = loc[c].id
  OBVIOUS
<1> DEFINE rec == [byID[id] EXCEPT !.state = "REJECTED", !.stage2 = "BLOCK"]
<1>3. /\ id \in Ids /\ loc[c].fp \in Fps /\ loc[c].fp \in Payloads /\ Active(id)
      /\ byID[id].state \in {"OPEN", "JUSTIFIED"}
  BY <1>1, <1>2 DEF CallerOK, RetryRefused, Refused, Active, ActiveStates, RetryLabels, Payloads
<1>4. byID[id] \in Record
  BY <1>1, <1>3, LiveRecord
<1>5. /\ rec \in Record /\ rec.fp = byID[id].fp /\ rec.state = "REJECTED"
      /\ rec.just = byID[id].just /\ rec.budget = byID[id].budget /\ rec.stage2 = "BLOCK"
      /\ rec.key = byID[id].key
  BY ZenonT(60), <1>4 DEF Record, TerminalStates
<1>6. Transition(id, rec, "rejected", loc[c].fp) /\ "rejected" \in Endings
  BY <1>2 DEF RetryRefused, Endings
<1>7. ToState("rejected") = "REJECTED" /\ ValidateTransition(byID[id].state, "REJECTED")
  BY <1>3, EventStates DEF ValidateTransition
<1>8. KeyLeft(byID[id], rec, "rejected", loc[c].fp)
  BY <1>3, <1>5 DEF KeyLeft
<1> HIDE DEF rec
<1> QED
  BY <1>1, <1>3, <1>5, <1>6, <1>7, <1>8, EndingTells

LEMMA FinalizedTells ==
  ASSUME IInv, NEW c \in Callers,
         FinalizeAllow(c) \/ FinalizeReject(c) \/ FinalizeHumanReview(c) \/ RetryCanceled(c)
  PROVE  \A i \in Ids : Tells(i)
<1>1. StoreInv /\ CallerOK(c) /\ pc[c] = "reeval"
  BY Unpack DEF LocOK, FinalizeAllow, FinalizeReject, FinalizeHumanReview, Finalizable,
     RetryCanceled
<1>2. PICK id : id = loc[c].id
  OBVIOUS
<1>3. id \in Ids /\ Key(c) \in Keys /\ Key(c) \in Payloads
  BY <1>1, <1>2 DEF CallerOK, RetryLabels, Key, Keys, Payloads
<1>4. CASE byID[id].state # "RETRY_PENDING"
  BY <1>2, <1>4, QuietTells DEF FinalizeAllow, FinalizeReject, FinalizeHumanReview, Finalizable,
     RetryCanceled, store
<1>5. CASE byID[id].state = "RETRY_PENDING"
  <2>1. Active(id) /\ byID[id] \in Record /\ byID[id].budget = 0
    BY <1>1, <1>3, <1>5, LiveRecord DEF Active, ActiveStates, RecordOK
  <2> DEFINE allowed == [byID[id] EXCEPT !.state = "ALLOWED_ONCE", !.stage2 = "ALLOW",
                                         !.interv = "none", !.key = Key(c)]
             rejected == [byID[id] EXCEPT !.state = "REJECTED", !.stage2 = "BLOCK",
                                          !.key = Key(c)]
             reviewed == [byID[id] EXCEPT !.state = "HUMAN_REVIEW", !.stage2 = "BLOCK",
                                          !.interv = "HUMAN_REVIEW", !.key = Key(c)]
  <2>2. \/ Transition(id, allowed, "allowed_once", Key(c))
        \/ Transition(id, rejected, "rejected", Key(c))
        \/ Transition(id, reviewed, "human_review", Key(c))
    BY <1>2, <1>5 DEF FinalizeAllow, FinalizeReject, FinalizeHumanReview, RetryCanceled
  <2>3. /\ allowed \in Record /\ allowed.fp = byID[id].fp /\ allowed.state = "ALLOWED_ONCE"
        /\ allowed.just = byID[id].just /\ allowed.budget = byID[id].budget
        /\ allowed.stage2 = "ALLOW" /\ allowed.interv = "none" /\ allowed.key = Key(c)
    BY ZenonT(60), <1>3, <2>1 DEF Record, TerminalStates
  <2>4. /\ rejected \in Record /\ rejected.fp = byID[id].fp /\ rejected.state = "REJECTED"
        /\ rejected.just = byID[id].just /\ rejected.budget = byID[id].budget
        /\ rejected.stage2 = "BLOCK" /\ rejected.key = Key(c)
    BY ZenonT(60), <1>3, <2>1 DEF Record, TerminalStates
  <2>5. /\ reviewed \in Record /\ reviewed.fp = byID[id].fp /\ reviewed.state = "HUMAN_REVIEW"
        /\ reviewed.just = byID[id].just /\ reviewed.budget = byID[id].budget
        /\ reviewed.stage2 = "BLOCK" /\ reviewed.interv = "HUMAN_REVIEW" /\ reviewed.key = Key(c)
    BY ZenonT(60), <1>3, <2>1 DEF Record, TerminalStates
  <2>6. /\ ToState("allowed_once") = "ALLOWED_ONCE" /\ ToState("rejected") = "REJECTED"
        /\ ToState("human_review") = "HUMAN_REVIEW"
    BY EventStates
  <2>7. /\ ValidateTransition(byID[id].state, "ALLOWED_ONCE")
        /\ ValidateTransition(byID[id].state, "REJECTED")
        /\ ValidateTransition(byID[id].state, "HUMAN_REVIEW")
    BY <1>5 DEF ValidateTransition
  <2>8. {"allowed_once", "rejected", "human_review"} \subseteq Endings
    BY DEF Endings
  <2>9. PICK p \in Payloads : p = Key(c)
    BY <1>3
  <2>13. p # None
    BY <1>3, <2>9, NoneAssumption DEF Keys
  <2> HIDE DEF allowed, rejected, reviewed
  <2>14. /\ KeyLeft(byID[id], allowed, "allowed_once", p)
         /\ KeyLeft(byID[id], rejected, "rejected", p)
         /\ KeyLeft(byID[id], reviewed, "human_review", p)
    BY <1>5, <2>3, <2>4, <2>5, <2>9, <2>13 DEF KeyLeft, KeyEvents
  <2>10. CASE Transition(id, allowed, "allowed_once", Key(c))
    BY <1>1, <1>3, <2>1, <2>3, <2>6, <2>7, <2>8, <2>9, <2>10, <2>14, EndingTells
  <2>11. CASE Transition(id, rejected, "rejected", Key(c))
    BY <1>1, <1>3, <2>1, <2>4, <2>6, <2>7, <2>8, <2>9, <2>11, <2>14, EndingTells
  <2>12. CASE Transition(id, reviewed, "human_review", Key(c))
    BY <1>1, <1>3, <2>1, <2>5, <2>6, <2>7, <2>8, <2>9, <2>12, <2>14, EndingTells
  <2> QED
    BY <2>2, <2>10, <2>11, <2>12
<1> QED
  BY <1>4, <1>5

LEMMA StillTells ==
  ASSUME IInv, NEW c \in Callers,
         \/ SignalTerminal(c) \/ OpenRefused(c) \/ JustifyNoChange(c) \/ WaitCanceled(c)
         \/ RetryJoin(c) \/ WaitGet(c) \/ WaitRegister(c) \/ WaitWoken(c)
         \/ RetryOfTerminal(c) \/ WaitReturn(c) \/ FinalizeLost(c)
  PROVE  \A i \in Ids : Tells(i)
<1>1. CASE RetryOfTerminal(c) \/ WaitReturn(c) \/ FinalizeLost(c)
  BY <1>1, QuietTells DEF RetryOfTerminal, WaitReturn, FinalizeLost, store
<1>2. CASE ~(RetryOfTerminal(c) \/ WaitReturn(c) \/ FinalizeLost(c))
  BY <1>2, QuietClass, QuietTells DEF Quiet
<1> QED
  BY <1>1, <1>2

LEMMA EveryStepTells ==
  ASSUME IInv, [Next]_vars
  PROVE  \A i \in Ids : Tells(i)
<1>1. ASSUME NEW c \in Callers, Continue(c) PROVE \A i \in Ids : Tells(i)
  BY <1>1, StillTells, OpenHardBlockTells, OpenHumanReviewTells, OpenReuseTells, OpenNewTells,
     ExpiredCallTells, JustifyAcceptTells, RetryRefusedTells, RetryConsumeTells,
     FinalizedTells DEF Continue
<1>2. ASSUME NEW c \in Callers, Cancel(c) PROVE \A i \in Ids : Tells(i)
  BY <1>2, StillTells, FinalizedTells DEF Cancel
<1>3. CASE UNCHANGED vars
  BY <1>3, QuietTells DEF vars, store
<1> QED
  BY <1>1, <1>2, <1>3, BeginTells DEF Next

LEMMA ToldInit == Init => ToldInv
BY DEF Init, ToldInv, Told, NoRec

LEMMA ToldStep == IInv /\ ToldInv /\ [Next]_vars => ToldInv'
BY EveryStepTells, TellsStep DEF IInv-----------------------------------------------------------------------------
(* What ReplayFromStore makes of such a log *)

\* The records the replay goes through: the key may be any payload.
Draft == [state : {Unset} \cup ActiveStates \cup TerminalStates,
          fp : Fps \cup {None}, gen : Gens \cup {None}, reason : Reasons \cup {None},
          budget : {0, 1}, expiresAt : Nat, ticket : Nat, just : Justs \cup {None},
          key : Payloads, stage2 : {"ALLOW", "BLOCK"},
          interv : {"none", "APPEALABLE_CHALLENGE", "HUMAN_REVIEW"}]

LEMMA UnsetDiffers == Unset \notin ActiveStates \cup TerminalStates
BY Zenon DEF Unset, ActiveStates, TerminalStates

LEMMA ReplayOpened ==
  ASSUME NEW snap \in Record, NEW rec \in Draft, rec.state = Unset,
         NEW ev \in Event, ev.type = "opened", NEW next, next = ReplayStep(snap, rec, ev)
  PROVE  /\ next \in Draft /\ next.state = "OPEN" /\ next.stage2 = "BLOCK"
         /\ next.interv = snap.interv /\ next.budget = rec.budget /\ next.just = rec.just
         /\ next.key = rec.key
<1>1. PICK seeded : seeded = [rec EXCEPT !.interv = snap.interv]
  OBVIOUS
<1>2. /\ seeded \in Draft /\ seeded.state = Unset /\ seeded.interv = snap.interv
      /\ seeded.budget = rec.budget /\ seeded.just = rec.just /\ seeded.key = rec.key
  BY <1>1 DEF Draft, Record
<1>3. next = ApplyEvent(seeded, ev)
  BY <1>1 DEF ReplayStep, KeyEvents
<1>4. ToState(ev.type) = "OPEN" /\ seeded.state # "OPEN"
  BY <1>2, EventStates, UnsetDiffers DEF ActiveStates
<1>5. next = [[seeded EXCEPT !.state = "OPEN"] EXCEPT !.stage2 = "BLOCK"]
  BY <1>3, <1>4 DEF ApplyEvent
<1> QED
  BY <1>2, <1>5 DEF Draft, ActiveStates

LEMMA ReplayJustified ==
  ASSUME NEW snap \in Record, NEW rec \in Draft, rec.state = "OPEN",
         NEW ev \in Event, ev.type = "justified", NEW next, next = ReplayStep(snap, rec, ev)
  PROVE  /\ next \in Draft /\ next.state = "JUSTIFIED" /\ next.stage2 = rec.stage2
         /\ next.interv = rec.interv /\ next.budget = rec.budget /\ next.just = snap.just
         /\ next.key = rec.key
<1>1. PICK seeded : seeded = [rec EXCEPT !.just = snap.just]
  OBVIOUS
<1>2. /\ seeded \in Draft /\ seeded.state = "OPEN" /\ seeded.interv = rec.interv
      /\ seeded.budget = rec.budget /\ seeded.just = snap.just /\ seeded.stage2 = rec.stage2
      /\ seeded.key = rec.key
  BY <1>1 DEF Draft, Record
<1>3. next = ApplyEvent(seeded, ev)
  BY <1>1 DEF ReplayStep, KeyEvents
<1>4. next = [seeded EXCEPT !.state = "JUSTIFIED"]
  BY <1>2, <1>3, EventStates DEF ApplyEvent
<1> QED
  BY <1>2, <1>4 DEF Draft, ActiveStates

LEMMA ReplayConsumed ==
  ASSUME NEW snap \in Record, NEW rec \in Draft, rec.budget = 1,
         NEW ev \in Event, ev.type = "budget_consumed", NEW next, next = ReplayStep(snap, rec, ev)
  PROVE  /\ next \in Draft /\ next.state = "RETRY_PENDING" /\ next.stage2 = rec.stage2
         /\ next.interv = rec.interv /\ next.budget = 0 /\ next.just = rec.just
         /\ next.key = rec.key
<1>1. next = ApplyEvent(rec, ev)
  BY DEF ReplayStep, KeyEvents
<1>2. next = [[rec EXCEPT !.state = "RETRY_PENDING"] EXCEPT !.budget = 0]
  <2>1. PICK to : to = [rec EXCEPT !.state = "RETRY_PENDING"]
    OBVIOUS
  <2>2. to.budget = 1
    BY <2>1 DEF Draft
  <2>3. next = [to EXCEPT !.budget = IF @ > 0 THEN @ - 1 ELSE @]
    <3>1. ToState(ev.type) = "RETRY_PENDING" /\ ~(ev.type # "budget_consumed")
      BY EventStates
    <3> QED
      BY <1>1, <2>1, <3>1 DEF ApplyEvent
  <2>4. next = [to EXCEPT !.budget = 0]
    BY <2>2, <2>3
  <2> QED
    BY <2>1, <2>4
<1> QED
  BY <1>2 DEF Draft, ActiveStates

\* The ending: the payload of some endings becomes the consumed identity.
LEMMA ReplayEnding ==
  ASSUME NEW snap \in Record, NEW rec \in Draft, NEW ev \in Event, ev.type \in Endings,
         rec.state # ToState(ev.type), NEW next, next = ReplayStep(snap, rec, ev)
  PROVE  /\ next.state = ToState(ev.type) /\ next.just = rec.just
         /\ next.stage2 = CASE ev.type = "allowed_once" -> "ALLOW"
                            [] ev.type \in {"rejected", "human_review"} -> "BLOCK"
                            [] OTHER -> rec.stage2
         /\ next.interv = CASE ev.type = "allowed_once" -> "none"
                            [] ev.type = "human_review" -> "HUMAN_REVIEW"
                            [] OTHER -> rec.interv
         /\ next.budget = IF ev.type = "human_review" THEN 0 ELSE rec.budget
         /\ next.key = IF ev.type \in KeyEvents /\ ev.payload # None THEN ev.payload ELSE rec.key
<1>1. PICK to : to = [rec EXCEPT !.state = ToState(ev.type)]
  OBVIOUS
<1>2. /\ to.state = ToState(ev.type) /\ to.just = rec.just /\ to.stage2 = rec.stage2
      /\ to.interv = rec.interv /\ to.budget = rec.budget /\ to.key = rec.key
      /\ {"state", "just", "stage2", "interv", "budget", "key"} \subseteq DOMAIN to
  BY <1>1 DEF Draft
<1>3. PICK projected : projected = ApplyEvent(rec, ev)
  OBVIOUS
<1>4. projected = CASE ev.type = "allowed_once" -> [to EXCEPT !.stage2 = "ALLOW", !.interv = "none"]
                    [] ev.type = "rejected" -> [to EXCEPT !.stage2 = "BLOCK"]
                    [] ev.type = "human_review" ->
                         [to EXCEPT !.stage2 = "BLOCK", !.interv = "HUMAN_REVIEW", !.budget = 0]
                    [] OTHER -> to
  BY <1>1, <1>3 DEF ApplyEvent, Endings
<1>5. next = IF ev.type \in KeyEvents /\ ev.payload # None
             THEN [projected EXCEPT !.key = ev.payload] ELSE projected
  BY <1>3 DEF ReplayStep, Endings
<1>6. /\ projected.state = ToState(ev.type) /\ projected.just = rec.just
      /\ projected.stage2 = CASE ev.type = "allowed_once" -> "ALLOW"
                              [] ev.type \in {"rejected", "human_review"} -> "BLOCK"
                              [] OTHER -> rec.stage2
      /\ projected.interv = CASE ev.type = "allowed_once" -> "none"
                              [] ev.type = "human_review" -> "HUMAN_REVIEW"
                              [] OTHER -> rec.interv
      /\ projected.budget = IF ev.type = "human_review" THEN 0 ELSE rec.budget
      /\ projected.key = rec.key
      /\ {"state", "just", "stage2", "interv", "budget", "key"} \subseteq DOMAIN projected
  BY <1>2, <1>4 DEF Endings
<1> QED
  BY <1>5, <1>6\* A log has at most four events: the replay, unrolled.
LEMMA ReplayUnrolled ==
  ASSUME NEW i \in Ids, Len(log[i]) \in 1..4,
         NEW s0, s0 = [byID[i] EXCEPT !.state = Unset, !.just = None, !.budget = BudgetInitial(i)],
         NEW s1, s1 = ReplayStep(byID[i], s0, log[i][1]),
         NEW s2, s2 = ReplayStep(byID[i], s1, log[i][2]),
         NEW s3, s3 = ReplayStep(byID[i], s2, log[i][3]),
         NEW s4, s4 = ReplayStep(byID[i], s3, log[i][4])
  PROVE  /\ Len(log[i]) = 1 => ReplayFromStore(i) = s1
         /\ Len(log[i]) = 2 => ReplayFromStore(i) = s2
         /\ Len(log[i]) = 3 => ReplayFromStore(i) = s3
         /\ Len(log[i]) = 4 => ReplayFromStore(i) = s4
<1> DEFINE last == Len(log[i])
           seed == [byID[i] EXCEPT !.state = Unset, !.just = None, !.budget = BudgetInitial(i)]
           after[n \in 0..last] ==
              IF n = 0 THEN seed ELSE ReplayStep(byID[i], after[n - 1], log[i][n])
           w == [n \in 0..last |-> IF n = 0 THEN s0 ELSE IF n = 1 THEN s1 ELSE IF n = 2 THEN s2
                                   ELSE IF n = 3 THEN s3 ELSE s4]
<1>1. ReplayFromStore(i) = after[last]
  BY SMTT(30) DEF ReplayFromStore
<1>2. \A n \in 0..last : w[n] = IF n = 0 THEN seed ELSE ReplayStep(byID[i], w[n - 1], log[i][n])
  <2> TAKE n \in 0..last
  <2> HIDE DEF seed
  <2>0. last \in 1..4
    OBVIOUS
  <2> HIDE DEF last
  <2>1. last \in 1..4 /\ n \in {0, 1, 2, 3, 4} /\ n <= last
    BY <2>0
  <2>2. CASE n = 0
    BY <2>1, <2>2 DEF seed
  <2>3. CASE n = 1
    <3>1. w[1] = s1 /\ w[0] = s0
      BY <2>1, <2>3
    <3> QED
      BY <2>3, <3>1
  <2>4. CASE n = 2
    <3>1. w[2] = s2 /\ w[1] = s1
      BY <2>1, <2>4
    <3> QED
      BY <2>4, <3>1
  <2>5. CASE n = 3
    <3>1. w[3] = s3 /\ w[2] = s2
      BY <2>1, <2>5
    <3> QED
      BY <2>5, <3>1
  <2>6. CASE n = 4
    <3>1. w[4] = s4 /\ w[3] = s3
      BY <2>1, <2>6
    <3> QED
      BY <2>6, <3>1
  <2> QED
    BY <2>1, <2>2, <2>3, <2>4, <2>5, <2>6
<1> DEFINE step(f) == [n \in 0..last |-> IF n = 0 THEN seed
                                       ELSE ReplayStep(byID[i], f[n - 1], log[i][n])]
<1>3. after = CHOOSE f : f = step(f)
  BY SMTT(30)
<1>4. w = step(w)
  BY <1>2, ZenonT(60)
<1> HIDE DEF after, w, step, seed
<1>5. after = step(after)
  BY <1>3, <1>4
<1>6. /\ after[0] = s0
      /\ \A n \in 1..last : after[n] = ReplayStep(byID[i], after[n - 1], log[i][n])
  <2>1. \A n \in 0..last : step(after)[n] =
            IF n = 0 THEN seed ELSE ReplayStep(byID[i], after[n - 1], log[i][n])
    BY DEF step
  <2>2. seed = s0
    BY DEF seed
  <2>3. PICK g : g = step(after)
    OBVIOUS
  <2>4. after = g /\ \A n \in 0..last :
            g[n] = IF n = 0 THEN seed ELSE ReplayStep(byID[i], after[n - 1], log[i][n])
    BY <1>5, <2>1, <2>3
  <2>5. last \in 1..4
    OBVIOUS
  <2> HIDE DEF last
  <2> QED
    BY <2>2, <2>4, <2>5
<1>0. last \in 1..4
  OBVIOUS
<1> HIDE DEF last
<1>7. after[1] = s1
  BY <1>0, <1>6
<1>8. last >= 2 => after[2] = s2
  BY <1>0, <1>6, <1>7
<1>9. last >= 3 => after[3] = s3
  BY <1>0, <1>6, <1>8
<1>10. last >= 4 => after[4] = s4
  BY <1>0, <1>6, <1>9
<1>11. /\ last = 1 => after[last] = s1
       /\ last = 2 => after[last] = s2
       /\ last = 3 => after[last] = s3
       /\ last = 4 => after[last] = s4
  BY <1>7, <1>8, <1>9, <1>10
<1> QED
  BY <1>1, <1>11, SMTT(30) DEF last

\* The record as far as the replay is compared with it.
AgreesWith(r, s) ==
    /\ r.state = s.state /\ r.stage2 = s.stage2 /\ r.interv = s.interv
    /\ r.budget = s.budget /\ r.just = s.just
KeyAgrees(i, r) ==
    IF Uncharged(i) THEN byID[i].key = None /\ r.key \in Fps ELSE r.key = byID[i].key

\* The draft after n events of the course.
CourseDraft(d, snap, n) ==
    /\ d \in Draft /\ d.state = ToState(Course[n]) /\ d.stage2 = "BLOCK"
    /\ d.interv = snap.interv /\ d.budget = (IF n = 3 THEN 0 ELSE 1)
    /\ d.just = (IF n = 1 THEN None ELSE snap.just) /\ d.key = snap.key

LEMMA SeedDraft ==
  ASSUME TypeOK, NEW i \in Ids, byID[i].state # "NONE", NEW s0,
         s0 = [byID[i] EXCEPT !.state = Unset, !.just = None, !.budget = BudgetInitial(i)]
  PROVE  /\ s0 \in Draft /\ s0.state = Unset /\ s0.just = None /\ s0.budget = BudgetInitial(i)
         /\ s0.key = byID[i].key
<1>1. byID[i] \in Record /\ BudgetInitial(i) \in {0, 1}
  BY DEF TypeOK, BudgetInitial
<1>2. byID[i].key \in Payloads
  BY <1>1 DEF Record, Payloads
<1> QED
  BY <1>1, <1>2 DEF Draft, Record

\* The replay of n events of the course, and of the ending after them.
LEMMA ReplayCourse ==
  ASSUME TypeOK, NEW i \in Ids, NEW n \in 1..3, Follows(log[i], byID[i], n),
         byID[i].state # "NONE"
  PROVE  \E d : /\ CourseDraft(d, byID[i], n)
                /\ Len(log[i]) = n => ReplayFromStore(i) = d
                /\ Len(log[i]) = n + 1 =>
                     ReplayFromStore(i) = ReplayStep(byID[i], d, log[i][n + 1])
<1>1. byID[i] \in Record /\ log[i] \in Seq(Event)
  BY DEF TypeOK
<1>2. Len(log[i]) \in {n, n + 1} /\ \A k \in 1..n : log[i][k].type = Course[k]
  BY DEF Follows
<1>3. Len(log[i]) \in 1..4 /\ \A k \in 1..n : log[i][k] \in Event
  <2>1. n \in {1, 2, 3}
    OBVIOUS
  <2>2. PICK l \in Seq(Event) : l = log[i]
    BY <1>1
  <2>3. Len(l) \in {n, n + 1} /\ Len(l) \in 1..4
    <3>1. Len(l) \in {n, n + 1}
      BY <1>2, <2>2
    <3>2. PICK m : m = Len(l)
      OBVIOUS
    <3>3. m = n \/ m = n + 1
      BY <3>1, <3>2
    <3>4. m \in 1..4
      BY ONLY <2>1, <3>3
    <3> QED
      BY <3>1, <3>2, <3>4
  <2>4. \A k \in 1..Len(l) : l[k] \in Event
    OBVIOUS
  <2> QED
    BY <2>1, <2>2, <2>3, <2>4
<1>4. PICK s0 : s0 = [byID[i] EXCEPT !.state = Unset, !.just = None,
                                     !.budget = BudgetInitial(i)]
  OBVIOUS
<1>5. PICK s1 : s1 = ReplayStep(byID[i], s0, log[i][1])
  OBVIOUS
<1>6. PICK s2 : s2 = ReplayStep(byID[i], s1, log[i][2])
  OBVIOUS
<1>7. PICK s3 : s3 = ReplayStep(byID[i], s2, log[i][3])
  OBVIOUS
<1>8. PICK s4 : s4 = ReplayStep(byID[i], s3, log[i][4])
  OBVIOUS
<1>9. /\ Len(log[i]) = 1 => ReplayFromStore(i) = s1
      /\ Len(log[i]) = 2 => ReplayFromStore(i) = s2
      /\ Len(log[i]) = 3 => ReplayFromStore(i) = s3
      /\ Len(log[i]) = 4 => ReplayFromStore(i) = s4
  BY <1>3, <1>4, <1>5, <1>6, <1>7, <1>8, ReplayUnrolled, ZenonT(60)
<1>10. log[i][1].type = "opened" /\ log[i][1] \in Event
  BY <1>2, <1>3, CourseEvents
<1>11. s0 \in Draft /\ s0.state = Unset /\ s0.just = None /\ s0.budget = 1
       /\ s0.key = byID[i].key
  BY <1>4, <1>10, SeedDraft DEF BudgetInitial
<1>12. CourseDraft(s1, byID[i], 1)
  <2>1. /\ s1 \in Draft /\ s1.state = "OPEN" /\ s1.stage2 = "BLOCK"
        /\ s1.interv = byID[i].interv /\ s1.budget = s0.budget /\ s1.just = s0.just
        /\ s1.key = s0.key
    BY <1>1, <1>5, <1>10, <1>11, ReplayOpened
  <2> QED
    BY <1>11, <2>1, EventStates, CourseEvents DEF CourseDraft
<1>13. n >= 2 => CourseDraft(s2, byID[i], 2)
  <2> SUFFICES ASSUME n >= 2 PROVE CourseDraft(s2, byID[i], 2)
    OBVIOUS
  <2>1. log[i][2].type = "justified" /\ log[i][2] \in Event
    BY <1>2, <1>3, CourseEvents
  <2>2. s1 \in Draft /\ s1.state = "OPEN" /\ s1.stage2 = "BLOCK" /\ s1.budget = 1
        /\ s1.interv = byID[i].interv /\ s1.key = byID[i].key
    BY <1>12, EventStates, CourseEvents DEF CourseDraft
  <2>3. /\ s2 \in Draft /\ s2.state = "JUSTIFIED" /\ s2.stage2 = s1.stage2
        /\ s2.interv = s1.interv /\ s2.budget = s1.budget /\ s2.just = byID[i].just
        /\ s2.key = s1.key
    BY <1>1, <1>6, <2>1, <2>2, ReplayJustified
  <2> QED
    BY <2>2, <2>3, EventStates, CourseEvents DEF CourseDraft
<1>14. n = 3 => CourseDraft(s3, byID[i], 3)
  <2> SUFFICES ASSUME n = 3 PROVE CourseDraft(s3, byID[i], 3)
    OBVIOUS
  <2>1. log[i][3].type = "budget_consumed" /\ log[i][3] \in Event
    BY <1>2, <1>3, CourseEvents
  <2>2. s2 \in Draft /\ s2.stage2 = "BLOCK" /\ s2.budget = 1
        /\ s2.interv = byID[i].interv /\ s2.just = byID[i].just /\ s2.key = byID[i].key
    BY <1>13 DEF CourseDraft
  <2>3. /\ s3 \in Draft /\ s3.state = "RETRY_PENDING" /\ s3.stage2 = s2.stage2
        /\ s3.interv = s2.interv /\ s3.budget = 0 /\ s3.just = s2.just /\ s3.key = s2.key
    BY <1>1, <1>7, <2>1, <2>2, ReplayConsumed
  <2> QED
    BY <2>2, <2>3, EventStates, CourseEvents DEF CourseDraft
<1>15. CASE n = 1
  BY <1>6, <1>9, <1>12, <1>15
<1>16. CASE n = 2
  BY <1>7, <1>9, <1>13, <1>16
<1>17. CASE n = 3
  BY <1>8, <1>9, <1>14, <1>17
<1> QED
  BY <1>15, <1>16, <1>17

\* What the ending of a course says of the consumed identity.
LEMMA KeyTold ==
  ASSUME NEW i \in Ids, log[i] \in Seq(Event), NEW n \in 1..3, Follows(log[i], byID[i], n),
         Len(log[i]) = n + 1, NEW ev \in Event, ev = log[i][n + 1],
         byID[i].state = ToState(ev.type), ev.type \in Endings, NEW r,
         r.key = IF ev.type \in KeyEvents /\ ev.payload # None THEN ev.payload ELSE byID[i].key
  PROVE  KeyAgrees(i, r)
<1>1. /\ \A k \in 1..n : log[i][k].type = Course[k]
      /\ IF ev.type \in KeyEvents
           THEN IF n = 3 THEN byID[i].key = ev.payload /\ byID[i].key # None
                ELSE byID[i].key = None /\ ev.payload \in Fps
           ELSE byID[i].key = None
      /\ ValidateTransition(ToState(Course[n]), byID[i].state)
  BY DEF Follows
<1>2. n \in {1, 2, 3} /\ DOMAIN log[i] = 1..(n + 1)
  OBVIOUS
<1>3. CASE ev.type \notin KeyEvents
  <2>1. byID[i].state \notin {"REJECTED", "HUMAN_REVIEW"}
    BY <1>3, EventStates DEF KeyEvents, Endings
  <2> QED
    BY <1>3, <2>1 DEF KeyAgrees, Uncharged
<1>4. CASE ev.type \in KeyEvents /\ n = 3
  <2>1. log[i][3].type = "budget_consumed" /\ 3 \in DOMAIN log[i]
    BY <1>1, <1>2, <1>4, CourseEvents
  <2>2. ~Uncharged(i)
    BY <2>1 DEF Uncharged
  <2> QED
    BY <1>1, <1>4, <2>2 DEF KeyAgrees
<1>5. CASE ev.type \in KeyEvents /\ n # 3
  <2>1. ToState(Course[n]) \in {"OPEN", "JUSTIFIED"}
    BY <1>2, <1>5, EventStates, CourseEvents
  <2>2. byID[i].state # "ALLOWED_ONCE"
    BY <1>1, <2>1 DEF ValidateTransition
  <2>3. byID[i].state \in {"REJECTED", "HUMAN_REVIEW"}
    BY <1>5, <2>2, EventStates DEF KeyEvents
  <2>4. \A k \in DOMAIN log[i] : log[i][k].type # "budget_consumed"
    <3> TAKE k \in DOMAIN log[i]
    <3>1. CASE k = n + 1
      BY <1>5, <3>1 DEF KeyEvents
    <3>2. CASE k # n + 1
      <4>1. k \in 1..n /\ k \in {1, 2}
        BY <1>2, <1>5, <3>2
      <4> QED
        BY <1>1, <4>1, CourseEvents
    <3> QED
      BY <3>1, <3>2
  <2>5. Uncharged(i)
    BY <2>3, <2>4 DEF Uncharged
  <2>6. ev.payload # None
    BY <1>1, <1>5, NoneAssumption
  <2> QED
    BY <1>1, <1>5, <2>5, <2>6 DEF KeyAgrees
<1> QED
  BY <1>3, <1>4, <1>5

LEMMA ReplayTold ==
  ASSUME TypeOK, NEW i \in Ids, byID[i].state # "NONE", Told(log[i], byID[i])
  PROVE  AgreesWith(ReplayFromStore(i), byID[i]) /\ KeyAgrees(i, ReplayFromStore(i))
<1>1. byID[i] \in Record /\ log[i] \in Seq(Event)
  BY DEF TypeOK
<1>2. CASE Referred(log[i], byID[i])
  <2>1. PICK s0 : s0 = [byID[i] EXCEPT !.state = Unset, !.just = None,
                                       !.budget = BudgetInitial(i)]
    OBVIOUS
  <2>2. s0 \in Draft /\ s0.state = Unset /\ s0.just = None
    BY <2>1, SeedDraft
  <2>3. /\ Len(log[i]) = 1 /\ log[i][1].type = "human_review" /\ log[i][1] \in Event
        /\ byID[i].key = None /\ log[i][1].payload \in Fps /\ byID[i].state = "HUMAN_REVIEW"
    BY <1>1, <1>2 DEF Referred
  <2>4. PICK s1 : s1 = ReplayStep(byID[i], s0, log[i][1])
    OBVIOUS
  <2>5. ReplayFromStore(i) = s1
    <3>1. PICK s2 : s2 = ReplayStep(byID[i], s1, log[i][2])
      OBVIOUS
    <3>2. PICK s3 : s3 = ReplayStep(byID[i], s2, log[i][3])
      OBVIOUS
    <3>3. PICK s4 : s4 = ReplayStep(byID[i], s3, log[i][4])
      OBVIOUS
    <3>4. Len(log[i]) \in 1..4
      BY <2>3
    <3>5. Len(log[i]) = 1 => ReplayFromStore(i) = s1
      BY <2>1, <2>4, <3>1, <3>2, <3>3, <3>4, ReplayUnrolled
    <3> QED
      BY <2>3, <3>5
  <2>6. log[i][1].type \in Endings /\ s0.state # ToState(log[i][1].type)
    BY <2>2, <2>3, EventStates, UnsetDiffers DEF Endings, TerminalStates
  <2>7. /\ s1.state = "HUMAN_REVIEW" /\ s1.just = None /\ s1.stage2 = "BLOCK"
        /\ s1.interv = "HUMAN_REVIEW" /\ s1.budget = 0
    BY <1>1, <2>2, <2>3, <2>4, <2>6, ReplayEnding, EventStates
  <2>8. s1.key = log[i][1].payload
    <3>1. log[i][1].payload # None /\ "human_review" \in KeyEvents
      BY <2>3, NoneAssumption DEF KeyEvents
    <3> QED
      BY <1>1, <2>2, <2>3, <2>4, <2>6, <3>1, ReplayEnding
  <2>9. Uncharged(i)
    BY <1>1, <2>3 DEF Uncharged
  <2> QED
    BY <1>2, <2>3, <2>5, <2>7, <2>8, <2>9 DEF Referred, AgreesWith, KeyAgrees
<1>3. ASSUME NEW n \in 1..3, Follows(log[i], byID[i], n)
      PROVE  AgreesWith(ReplayFromStore(i), byID[i]) /\ KeyAgrees(i, ReplayFromStore(i))
  <2>1. PICK d : /\ CourseDraft(d, byID[i], n)
                 /\ Len(log[i]) = n => ReplayFromStore(i) = d
                 /\ Len(log[i]) = n + 1 =>
                      ReplayFromStore(i) = ReplayStep(byID[i], d, log[i][n + 1])
    BY <1>3, ReplayCourse
  <2>2. d.state \in ActiveStates
    BY <2>1, EventStates, CourseEvents DEF CourseDraft, ActiveStates
  <2>3. CASE Len(log[i]) = n
    <3>1. d.state = byID[i].state
      BY <1>3, <2>1, <2>3 DEF Follows, CourseDraft
    <3>2. ~Uncharged(i)
      BY <2>2, <3>1 DEF Uncharged, ActiveStates
    <3>3. d.key = byID[i].key
      BY <2>1 DEF CourseDraft
    <3>4. KeyAgrees(i, ReplayFromStore(i))
      BY <2>1, <2>3, <3>2, <3>3 DEF KeyAgrees
    <3> QED
      BY <1>3, <2>1, <2>2, <2>3, <3>1, <3>4 DEF Follows, CourseDraft, AgreesWith, ActiveStates
  <2>4. CASE Len(log[i]) = n + 1
    <3>1. PICK ev : ev = log[i][n + 1]
      OBVIOUS
    <3>2. PICK r : r = ReplayFromStore(i)
      OBVIOUS
    <3>3. ev \in Event /\ ev.type \in Endings /\ byID[i].state = ToState(ev.type)
      BY <1>1, <1>3, <2>4, <3>1 DEF Follows
    <3>4. r = ReplayStep(byID[i], d, ev) /\ d \in Draft
      BY <2>1, <2>4, <3>1, <3>2 DEF CourseDraft
    <3>5. d.state # ToState(ev.type)
      BY <2>2, <3>3, EventStates DEF ActiveStates, Endings
    <3>6. /\ r.state = ToState(ev.type) /\ r.just = d.just
          /\ r.stage2 = CASE ev.type = "allowed_once" -> "ALLOW"
                          [] ev.type \in {"rejected", "human_review"} -> "BLOCK"
                          [] OTHER -> d.stage2
          /\ r.interv = CASE ev.type = "allowed_once" -> "none"
                          [] ev.type = "human_review" -> "HUMAN_REVIEW"
                          [] OTHER -> d.interv
          /\ r.budget = IF ev.type = "human_review" THEN 0 ELSE d.budget
          /\ r.key = IF ev.type \in KeyEvents /\ ev.payload # None THEN ev.payload ELSE d.key
      BY <1>1, <3>3, <3>4, <3>5, ReplayEnding
    <3>7. /\ byID[i].state = "ALLOWED_ONCE" <=> ev.type = "allowed_once"
          /\ byID[i].state = "HUMAN_REVIEW" <=> ev.type = "human_review"
      <4>1. \/ ev.type = "allowed_once" /\ ToState(ev.type) = "ALLOWED_ONCE"
            \/ ev.type = "rejected" /\ ToState(ev.type) = "REJECTED"
            \/ ev.type = "human_review" /\ ToState(ev.type) = "HUMAN_REVIEW"
            \/ ev.type = "abandoned" /\ ToState(ev.type) = "ABANDONED"
            \/ ev.type = "expired" /\ ToState(ev.type) = "EXPIRED"
        BY <3>3, EventStates DEF Endings
      <4> QED
        BY <3>3, <4>1
    <3>8. r.stage2 = byID[i].stage2
      BY <1>3, <2>1, <3>3, <3>6, <3>7 DEF Follows, CourseDraft
    <3>9. r.interv = byID[i].interv
      BY <1>3, <2>1, <3>3, <3>6, <3>7 DEF Follows, CourseDraft
    <3>10. r.budget = byID[i].budget /\ r.just = byID[i].just
      BY <1>3, <2>1, <3>3, <3>6, <3>7 DEF Follows, CourseDraft
    <3>11. KeyAgrees(i, r)
      BY <1>1, <1>3, <2>1, <2>4, <3>1, <3>3, <3>6, KeyTold DEF CourseDraft
    <3> QED
      BY <3>2, <3>3, <3>6, <3>8, <3>9, <3>10, <3>11 DEF AgreesWith
  <2> QED
    BY <1>3, <2>3, <2>4 DEF Follows
<1> QED
  BY <1>2, <1>3 DEF Told

\* The exported Replay accepts the log.
LEMMA ToldReplayable ==
  ASSUME NEW i \in Ids, byID[i].state # "NONE", Told(log[i], byID[i])
  PROVE  Replayable(i)
<1>1. CASE Referred(log[i], byID[i])
  BY <1>1 DEF Referred, Replayable
<1>2. ASSUME NEW n \in 1..3, Follows(log[i], byID[i], n) PROVE Replayable(i)
  <2> SUFFICES ASSUME NEW k \in 2..Len(log[i])
               PROVE  ValidateTransition(ToState(log[i][k - 1].type), ToState(log[i][k].type))
    BY DEF Replayable
  <2>1. Len(log[i]) \in {n, n + 1} /\ \A m \in 1..n : log[i][m].type = Course[m]
    BY <1>2 DEF Follows
  <2>2. CASE k \in 2..n
    <3>1. log[i][k - 1].type = Course[k - 1] /\ log[i][k].type = Course[k] /\ k \in {2, 3}
      BY <2>1, <2>2
    <3>2. /\ ToState(Course[1]) = "OPEN" /\ ToState(Course[2]) = "JUSTIFIED"
          /\ ToState(Course[3]) = "RETRY_PENDING"
      BY EventStates, CourseEvents
    <3>3. /\ ValidateTransition("OPEN", "JUSTIFIED")
          /\ ValidateTransition("JUSTIFIED", "RETRY_PENDING")
      BY DEF ValidateTransition
    <3> QED
      BY <3>1, <3>2, <3>3
  <2>3. CASE k = n + 1
    <3>1. Len(log[i]) = n + 1 /\ log[i][k - 1].type = Course[n]
      BY <2>1, <2>3
    <3> QED
      BY <1>2, <2>3, <3>1 DEF Follows
  <2> QED
    BY <2>1, <2>2, <2>3
<1> QED
  BY <1>1, <1>2 DEF Told

\* The log of every challenge tells the record the service holds: whatever the
\* callers interleave, a record changes only together with the one event that
\* names the change; the silent expiry of putLocked, which would break this,
\* never finds a rival to expire.
THEOREM LogTellsTheRecord == Spec => []ToldInv
BY ToldInit, ToldStep, ServiceInvariant, PTL DEF Spec

\* Replay rebuilds the live record from the events, the consumed retry identity
\* included except where no retry was charged, and the exported Replay accepts
\* every log the service writes, however the callers interleave.
THEOREM ReplayIsFaithful == Spec => []LiveEqualsReplay
<1>1. ASSUME IInv, ToldInv PROVE LiveEqualsReplay
  <2> SUFFICES ASSUME NEW i \in Ids, byID[i].state # "NONE"
               PROVE  /\ AgreesWith(ReplayFromStore(i), byID[i])
                      /\ KeyAgrees(i, ReplayFromStore(i)) /\ Replayable(i)
    BY DEF LiveEqualsReplay, AgreesWith, KeyAgrees
  <2>1. TypeOK /\ Told(log[i], byID[i])
    BY <1>1 DEF IInv, ToldInv
  <2> QED
    BY <2>1, ReplayTold, ToldReplayable
<1> QED
  BY <1>1, ServiceInvariant, LogTellsTheRecord, PTL
=============================================================================
