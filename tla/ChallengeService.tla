-------------------------- MODULE ChallengeService --------------------------
(***************************************************************************)
(* The appeal ("challenge") service of pkg/challenge: Service and the      *)
(* Store it shares with every other Service instance.  A tool call that    *)
(* policy blocked may be OPENed as a challenge, JUSTIFIED by the agent and *)
(* retried ONCE; the retry is re-evaluated outside the store's lock and    *)
(* becomes ALLOWED_ONCE, REJECTED or HUMAN_REVIEW.  A hard denial or a     *)
(* human review of the same action leaves a barrier that keeps a weaker    *)
(* Open of that action out.                                                *)
(*                                                                         *)
(* Every caller is a goroutine; an action is one critical section of       *)
(* store.mu (or of termMu), together with the lock-free work before it.    *)
(* A call that only returns an error and changes nothing is a stuttering   *)
(* step and is left out.                                                   *)
(***************************************************************************)
EXTENDS Integers, Sequences, FiniteSets

CONSTANTS
    Callers,        \* goroutines calling the service
    Fps,            \* action fingerprints (each binds one session)
    SessionOf,      \* [Fps -> sessions]
    Sem,            \* [Fps -> side effect + targets + operation digest]
    NoSem,          \* Sem of an action whose operation digest is empty
    Rewritable,     \* the Sem values of deletes with targets (rewriteEligible)
    Gens,           \* policy generations: PolicyVersion + RulesetHash
    Reasons,        \* the other fields policyIdentityMatch compares
    Attempts,       \* retry identities: ActionID + CorrelationID + RetryRequestID
    Justs,          \* justification hashes
    TTLs,           \* values of OpenRequest.ExpiresAfterSequences
    None,           \* absent value
    MaxChallenges,  \* bound on the challenge ids the store hands out
    MaxDenies       \* bound on the hard denials

ASSUME BoundsAssumption == MaxChallenges \in Nat /\ MaxDenies \in Nat
ASSUME TTLAssumption == TTLs \subseteq Nat
ASSUME ActionAssumption == DOMAIN SessionOf = Fps /\ DOMAIN Sem = Fps
ASSUME NoneAssumption ==
    /\ None \notin Fps \cup Gens \cup Justs
    /\ None \notin Attempts \X Fps
    /\ None \notin 1..MaxChallenges

VARIABLES
    seq,        \* Store.seq
    byID,       \* Store.byID, [Ids -> record], state "NONE" when absent
    log,        \* Store.events, split by challenge
    openByFP,   \* Store.openByFP
    barrier,    \* Store.nonAppealBarrier, gen None when absent
    idSeq,      \* Store.idSeq
    termCh,     \* Store.terminalCh: "none", "open" or "closed"
    pc, loc,    \* where each caller is, and its local variables
    denies,     \* hard denials requested so far
    mints,      \* history: fresh (not replayed) ALLOW results per challenge
    grants      \* history: retry identities that were told ALLOW

store == <<seq, byID, log, openByFP, barrier>>
vars == <<store, idSeq, termCh, pc, loc, denies, mints, grants>>

Ids == 1..MaxChallenges
Keys == Attempts \X Fps      \* retryAttemptKey, per challenge

ActiveStates == {"OPEN", "JUSTIFIED", "RETRY_PENDING"}
TerminalStates == {"ALLOWED_ONCE", "REJECTED", "HUMAN_REVIEW", "ABANDONED", "EXPIRED"}

NoRec == [state |-> "NONE", fp |-> None, gen |-> None, reason |-> None,
          budget |-> 0, expiresAt |-> 0, ticket |-> 0, just |-> None,
          key |-> None, stage2 |-> "BLOCK", interv |-> "none"]

NoLoc == [id |-> 0, fp |-> None, gen |-> None, reason |-> None, ttl |-> 0,
          ticket |-> 0, class |-> "none", att |-> None, sig |-> {}]

-----------------------------------------------------------------------------
(* Store *)

Active(i) == byID[i].state \in ActiveStates
Terminal(i) == byID[i].state \in TerminalStates

\* semanticActionMatch within one session: a tool-name variant of the action.
SameAction(f, g) ==
    SessionOf[f] = SessionOf[g] /\ Sem[f] # NoSem /\ Sem[f] = Sem[g]

Covers(f, g) == f = g \/ SameAction(f, g)

BarrierPolicyHit(e, gen, ticket) == e.gen = gen \/ ticket < e.mark

\* nonAppealBarrierNoteLocked: the exact key first, then its variants.
Barred(fp, gen, ticket) ==
    \E f \in Fps : Covers(f, fp) /\ BarrierPolicyHit(barrier[f], gen, ticket)

\* appendTransition(..., EXPIRED, "expired", ...) for each id in S.
ExpireIn(b, S) == [i \in Ids |-> IF i \in S THEN [b[i] EXCEPT !.state = "EXPIRED"] ELSE b[i]]
\* Mutant: expiries leave no event.
LogIn_NoExpiry(l, S, type, payload) ==
    [i \in Ids |-> IF i \in S /\ type # "expired"
                     THEN Append(l[i], [type |-> type, payload |-> payload]) ELSE l[i]]
LogIn(l, S, type, payload) ==
    [i \in Ids |-> IF i \in S THEN Append(l[i], [type |-> type, payload |-> payload]) ELSE l[i]]
UnindexIn(o, S) == [f \in Fps |-> IF o[f] \in S THEN None ELSE o[f]]

\* Mutant: the map as it was before the rivals expired.
PutLocked_Stale(b, id, rec) == [byID EXCEPT ![id] = rec]

\* putLocked: the record, the silent expiry of its rivals, and the index.
PutLocked(b, id, rec) ==
    [i \in Ids |->
        CASE i = id -> rec
          [] i # id /\ rec.state \in ActiveStates
                    /\ b[i].fp = rec.fp /\ b[i].state \in ActiveStates
                -> [b[i] EXCEPT !.state = "EXPIRED"]
          [] OTHER -> b[i]]
\* Mutant: the entry is overwritten with the zero id, not deleted.
IndexPut_Zero(o, id, rec) ==
    [o EXCEPT ![rec.fp] = IF rec.state \in ActiveStates THEN id
                          ELSE IF @ = id THEN 0 ELSE @]
IndexPut(o, id, rec) ==
    [o EXCEPT ![rec.fp] = IF rec.state \in ActiveStates THEN id
                          ELSE IF @ = id THEN None ELSE @]

\* appendTransition of one challenge to the state rec carries.
Transition(id, rec, type, payload) ==
    /\ seq' = seq + 1
    /\ byID' = PutLocked(byID, id, rec)
    /\ openByFP' = IndexPut(openByFP, id, rec)
    /\ log' = LogIn(log, {id}, type, payload)
    /\ UNCHANGED barrier

ExpireAll(S, payload) ==
    /\ seq' = seq + Cardinality(S)
    /\ byID' = ExpireIn(byID, S)
    /\ openByFP' = UnindexIn(openByFP, S)
    /\ log' = LogIn(log, S, "expired", payload)
    /\ UNCHANGED barrier

Due(i) == byID[i].expiresAt > 0 /\ seq >= byID[i].expiresAt /\ Active(i)

\* Mutant: signalTerminal is forgotten where a retry is finished.
CloseAll_Forgotten(S) == UNCHANGED termCh
CloseAll(S) == termCh' = [i \in Ids |-> IF i \in S THEN "closed" ELSE termCh[i]]

-----------------------------------------------------------------------------
(* Control of a caller *)

Go(c, label) == pc' = [pc EXCEPT ![c] = label] /\ UNCHANGED loc
Return(c) == pc' = [pc EXCEPT ![c] = "idle"] /\ loc' = [loc EXCEPT ![c] = NoLoc]
\* Unlock first, signalTerminal afterwards.
ReturnAfterSignal(c, S) ==
    /\ pc' = [pc EXCEPT ![c] = "signal"]
    /\ loc' = [loc EXCEPT ![c] = [NoLoc EXCEPT !.sig = S]]

NoResult == UNCHANGED <<mints, grants>>
\* The caller is told ALLOW for its retry identity.
Grant(id, key, fresh) ==
    /\ grants' = [grants EXCEPT ![id] = @ \cup {key}]
    /\ mints' = [mints EXCEPT ![id] = IF fresh THEN @ + 1 ELSE @]
Key(c) == <<loc[c].att, loc[c].fp>>

SignalTerminal(c) ==
    /\ pc[c] = "signal"
    /\ CloseAll(loc[c].sig)
    /\ Return(c)
    /\ NoResult
    /\ UNCHANGED <<store, idSeq, denies>>

\* expireIfNeeded found the challenge due: expire it and report the error.
ExpireFirst(c, id) ==
    /\ Due(id)
    /\ ExpireAll({id}, None)
    /\ ReturnAfterSignal(c, {id})
    /\ NoResult
    /\ UNCHANGED <<idSeq, termCh, denies>>

-----------------------------------------------------------------------------
(* Open *)

\* Sample the ticket, validate, classify; newID is folded in (nobody else
\* reads idSeq between here and the critical section).
BeginOpen(c, fp, class, gen, reason, ttl) ==
    /\ pc[c] = "idle"
    /\ IF class = "hard_block"
         THEN denies < MaxDenies /\ denies' = denies + 1 /\ UNCHANGED idSeq
         ELSE idSeq < MaxChallenges /\ idSeq' = idSeq + 1 /\ UNCHANGED denies
    /\ pc' = [pc EXCEPT ![c] = "open"]
    /\ loc' = [loc EXCEPT ![c] =
                 [NoLoc EXCEPT !.id = IF class = "hard_block" THEN 0 ELSE idSeq + 1,
                               !.fp = fp, !.class = class, !.gen = gen,
                               !.reason = reason, !.ttl = ttl, !.ticket = seq]]
    /\ NoResult
    /\ UNCHANGED <<store, termCh>>

\* Mutant: tool-name variants of the denied action are missed.
Superseded_ExactOnly(fp) == {i \in Ids : Active(i) /\ byID[i].fp = fp}
\* expireActiveBySemanticLocked: what a harder denial of fp supersedes.
Superseded(fp) == {i \in Ids : Active(i) /\ Covers(byID[i].fp, fp)}

MarkBarrier(fp, gen, mark) ==
    barrier' = [barrier EXCEPT ![fp] = [gen |-> gen, mark |-> mark]]

OpenHardBlock(c) ==
    LET S == Superseded(loc[c].fp) IN
    /\ pc[c] = "open" /\ loc[c].class = "hard_block"
    /\ seq' = seq + Cardinality(S) + 1
    /\ byID' = ExpireIn(byID, S)
    /\ openByFP' = UnindexIn(openByFP, S)
    /\ log' = LogIn(log, S, "expired", loc[c].fp)
    /\ MarkBarrier(loc[c].fp, loc[c].gen, seq')
    /\ CloseAll(S)
    /\ Return(c)
    /\ NoResult
    /\ UNCHANGED <<idSeq, denies>>

OpenHumanReview(c) ==
    LET S == Superseded(loc[c].fp)
        id == loc[c].id
        rec == [NoRec EXCEPT !.state = "HUMAN_REVIEW", !.fp = loc[c].fp,
                             !.gen = loc[c].gen, !.reason = loc[c].reason,
                             !.ticket = loc[c].ticket, !.interv = "HUMAN_REVIEW"]
    IN
    /\ pc[c] = "open" /\ loc[c].class = "human_review"
    /\ seq' = seq + Cardinality(S) + 2
    /\ byID' = PutLocked(ExpireIn(byID, S), id, rec)
    /\ openByFP' = IndexPut(UnindexIn(openByFP, S), id, rec)
    /\ log' = LogIn(LogIn(log, S, "expired", rec.fp), {id}, "human_review", rec.fp)
    /\ MarkBarrier(rec.fp, rec.gen, seq + Cardinality(S) + 1)
    /\ CloseAll(S)
    /\ ReturnAfterSignal(c, {id})
    /\ NoResult
    /\ UNCHANGED <<idSeq, denies>>

Hits(fp) == {i \in Ids : Active(i) /\ byID[i].fp = fp}
PolicyIdentityMatch(i, c) ==
    byID[i].gen = loc[c].gen /\ byID[i].reason = loc[c].reason

AppealableOpen(c) == pc[c] = "open" /\ loc[c].class = "appealable"
OpenBarred(c) == Barred(loc[c].fp, loc[c].gen, loc[c].ticket)

OpenRefused(c) ==
    /\ AppealableOpen(c) /\ OpenBarred(c)
    /\ Return(c)
    /\ NoResult
    /\ UNCHANGED <<store, idSeq, termCh, denies>>

\* A live challenge under the same policy identity is handed out again.
OpenReuse(c) ==
    /\ AppealableOpen(c) /\ ~OpenBarred(c)
    /\ \E m \in Hits(loc[c].fp) :
          LET S == Hits(loc[c].fp) \ {m} IN
          /\ PolicyIdentityMatch(m, c)
          /\ ExpireAll(S, loc[c].fp)
          /\ CloseAll(S)
    /\ Return(c)
    /\ NoResult
    /\ UNCHANGED <<idSeq, denies>>

\* Live challenges under another policy identity expire; a new one opens.
OpenNew(c) ==
    LET S == Hits(loc[c].fp)
        id == loc[c].id
        rec == [NoRec EXCEPT
                  !.state = "OPEN", !.fp = loc[c].fp, !.gen = loc[c].gen,
                  !.reason = loc[c].reason, !.budget = 1, !.ticket = loc[c].ticket,
                  !.expiresAt = IF loc[c].ttl > 0
                                  THEN seq + Cardinality(S) + 1 + loc[c].ttl ELSE 0,
                  !.interv = "APPEALABLE_CHALLENGE"]
    IN
    /\ AppealableOpen(c) /\ ~OpenBarred(c)
    /\ ~ \E m \in S : PolicyIdentityMatch(m, c)
    /\ seq' = seq + Cardinality(S) + 1
    /\ byID' = PutLocked(ExpireIn(byID, S), id, rec)
    /\ openByFP' = IndexPut(UnindexIn(openByFP, S), id, rec)
    /\ log' = LogIn(LogIn(log, S, "expired", rec.fp), {id}, "opened", rec.fp)
    /\ CloseAll(S)
    /\ Return(c)
    /\ NoResult
    /\ UNCHANGED <<barrier, idSeq, denies>>

-----------------------------------------------------------------------------
(* Justify *)

BeginJustify(c, id, j) ==
    /\ pc[c] = "idle" /\ byID[id].state \notin {"NONE", "EXPIRED"}
    /\ \/ ExpireFirst(c, id)
       \/ /\ ~Due(id)
          /\ pc' = [pc EXCEPT ![c] = "justify"]
          /\ loc' = [loc EXCEPT ![c] = [NoLoc EXCEPT !.id = id, !.att = j]]
          /\ NoResult
          /\ UNCHANGED <<store, idSeq, termCh, denies>>

\* Expired while the justification was validated.
JustifyExpired(c) ==
    /\ pc[c] = "justify"
    /\ ExpireFirst(c, loc[c].id)

\* Already justified by the same text, or no longer OPEN: nothing changes.
JustifyNoChange(c) ==
    /\ pc[c] = "justify" /\ ~Due(loc[c].id) /\ byID[loc[c].id].state # "OPEN"
    /\ Return(c)
    /\ NoResult
    /\ UNCHANGED <<store, idSeq, termCh, denies>>

\* Mutant: the justification is not stored.
JustifyAccept_Unstored(c) ==
    LET id == loc[c].id IN
    /\ pc[c] = "justify" /\ ~Due(id) /\ byID[id].state = "OPEN"
    /\ Transition(id, [byID[id] EXCEPT !.state = "JUSTIFIED"], "justified", loc[c].att)
    /\ Return(c)
    /\ NoResult
    /\ UNCHANGED <<idSeq, termCh, denies>>

JustifyAccept(c) ==
    LET id == loc[c].id IN
    /\ pc[c] = "justify" /\ ~Due(id) /\ byID[id].state = "OPEN"
    /\ Transition(id, [byID[id] EXCEPT !.state = "JUSTIFIED", !.just = loc[c].att],
                  "justified", loc[c].att)
    /\ Return(c)
    /\ NoResult
    /\ UNCHANGED <<idSeq, termCh, denies>>

-----------------------------------------------------------------------------
(* AttemptRetry *)

\* checkOwnership and ClassifyRelationship: the same action, or a syntactic
\* rewrite of the same delete.
Bound(fp, original) ==
    \/ fp = original
    \/ SameAction(fp, original) /\ Sem[fp] \in Rewritable

BeginRetry(c, id, att, fp) ==
    /\ pc[c] = "idle" /\ byID[id].state # "NONE"
    /\ \/ ExpireFirst(c, id)
       \/ /\ ~Due(id)
          /\ Bound(fp, byID[id].fp)
          /\ pc' = [pc EXCEPT ![c] = "retry"]
          /\ loc' = [loc EXCEPT ![c] = [NoLoc EXCEPT !.id = id, !.att = att, !.fp = fp]]
          /\ NoResult
          /\ UNCHANGED <<store, idSeq, termCh, denies>>

RetryExpired(c) ==
    LET id == loc[c].id IN
    /\ pc[c] = "retry" /\ Due(id)
    /\ ExpireAll({id}, loc[c].fp)
    /\ ReturnAfterSignal(c, {id})
    /\ NoResult
    /\ UNCHANGED <<idSeq, termCh, denies>>

\* The one-shot rule on a finished challenge: only the retry identity that
\* consumed an ALLOWED_ONCE is told ALLOW again.
\* Mutant: whoever retries a granted challenge is told ALLOW.
Replays_AnyKey(c, id) == byID[id].state = "ALLOWED_ONCE"
Replays(c, id) == byID[id].state = "ALLOWED_ONCE" /\ byID[id].key = Key(c)
ReplayResult(c, id) == IF Replays(c, id) THEN Grant(id, Key(c), FALSE) ELSE NoResult

RetryOfTerminal(c) ==
    /\ pc[c] = "retry" /\ Terminal(loc[c].id)
    /\ ReplayResult(c, loc[c].id)
    /\ Return(c)
    /\ UNCHANGED <<store, idSeq, termCh, denies>>

\* retry_without_justification, or budget_exhausted.
Refused(id) ==
    byID[id].state = "OPEN" \/ (byID[id].state = "JUSTIFIED" /\ byID[id].budget <= 0)

RetryRefused(c) ==
    LET id == loc[c].id IN
    /\ pc[c] = "retry" /\ ~Due(id) /\ Refused(id)
    /\ Transition(id, [byID[id] EXCEPT !.state = "REJECTED", !.stage2 = "BLOCK"],
                  "rejected", loc[c].fp)
    /\ ReturnAfterSignal(c, {id})
    /\ NoResult
    /\ UNCHANGED <<idSeq, termCh, denies>>

RetryJoin(c) ==
    /\ pc[c] = "retry" /\ ~Due(loc[c].id) /\ byID[loc[c].id].state = "RETRY_PENDING"
    /\ Go(c, "wait_get")
    /\ NoResult
    /\ UNCHANGED <<store, idSeq, termCh, denies>>

\* Consume the budget and leave the lock for ReEvaluate.
RetryConsume(c) ==
    LET id == loc[c].id IN
    /\ pc[c] = "retry" /\ ~Due(id)
    /\ byID[id].state = "JUSTIFIED" /\ byID[id].budget > 0
    /\ Transition(id, [byID[id] EXCEPT !.state = "RETRY_PENDING", !.budget = @ - 1],
                  "budget_consumed", Key(c))
    /\ Go(c, "reeval")
    /\ NoResult
    /\ UNCHANGED <<idSeq, termCh, denies>>

\* waitTerminal: Get, register on the channel, Get again, select.
WaitReturn(c) ==
    /\ pc[c] \in {"wait_get", "wait_recheck"} /\ Terminal(loc[c].id)
    /\ ReplayResult(c, loc[c].id)
    /\ Return(c)
    /\ UNCHANGED <<store, idSeq, termCh, denies>>

WaitGet(c) ==
    /\ pc[c] \in {"wait_get", "wait_recheck"} /\ ~Terminal(loc[c].id)
    /\ Go(c, IF pc[c] = "wait_get" THEN "wait_register" ELSE "wait_select")
    /\ NoResult
    /\ UNCHANGED <<store, idSeq, termCh, denies>>

WaitRegister(c) ==
    /\ pc[c] = "wait_register"
    /\ termCh' = [termCh EXCEPT ![loc[c].id] = IF @ = "none" THEN "open" ELSE @]
    /\ Go(c, "wait_recheck")
    /\ NoResult
    /\ UNCHANGED <<store, idSeq, denies>>

WaitWoken(c) ==
    /\ pc[c] = "wait_select" /\ termCh[loc[c].id] = "closed"
    /\ Go(c, "wait_get")
    /\ NoResult
    /\ UNCHANGED <<store, idSeq, termCh, denies>>

WaitCanceled(c) ==
    /\ pc[c] = "wait_select"
    /\ Return(c)
    /\ NoResult
    /\ UNCHANGED <<store, idSeq, termCh, denies>>

\* ReEvaluate failed because the owner's context ended.
RetryCanceled(c) ==
    LET id == loc[c].id IN
    /\ pc[c] = "reeval"
    /\ IF byID[id].state = "RETRY_PENDING"
         THEN /\ Transition(id, [byID[id] EXCEPT !.state = "REJECTED", !.stage2 = "BLOCK",
                                                 !.key = Key(c)],
                            "rejected", Key(c))
              /\ CloseAll({id})
         ELSE UNCHANGED <<store, termCh>>
    /\ Return(c)
    /\ NoResult
    /\ UNCHANGED <<idSeq, denies>>

\* The challenge came due while it was re-evaluated.
FinalizeExpired(c) ==
    LET id == loc[c].id IN
    /\ pc[c] = "reeval" /\ Due(id)
    /\ ExpireAll({id}, loc[c].fp)
    /\ CloseAll({id})
    /\ Return(c)
    /\ NoResult
    /\ UNCHANGED <<idSeq, denies>>

\* Somebody else ended the challenge while it was re-evaluated; the paths
\* for ALLOWED_ONCE, REJECTED and HUMAN_REVIEW signal once more.
FinalizeLost(c) ==
    LET id == loc[c].id IN
    /\ pc[c] = "reeval" /\ ~Due(id) /\ byID[id].state # "RETRY_PENDING"
    /\ ReplayResult(c, id)
    /\ CloseAll(IF byID[id].state \in {"ALLOWED_ONCE", "REJECTED", "HUMAN_REVIEW"}
                  THEN {id} ELSE {})
    /\ Return(c)
    /\ UNCHANGED <<store, idSeq, denies>>

\* Mutants: the state, or the expiry, is not looked at again after ReEvaluate.
Finalizable_StateUnchecked(c) == pc[c] = "reeval" /\ ~Due(loc[c].id)
Finalizable_ExpiryUnchecked(c) == pc[c] = "reeval" /\ byID[loc[c].id].state = "RETRY_PENDING"

Finalizable(c) ==
    pc[c] = "reeval" /\ ~Due(loc[c].id) /\ byID[loc[c].id].state = "RETRY_PENDING"

\* Intervention HUMAN_REVIEW.
FinalizeHumanReview(c) ==
    LET id == loc[c].id IN
    /\ Finalizable(c)
    /\ Transition(id, [byID[id] EXCEPT !.state = "HUMAN_REVIEW", !.stage2 = "BLOCK",
                                       !.interv = "HUMAN_REVIEW", !.key = Key(c)],
                  "human_review", Key(c))
    /\ CloseAll({id})
    /\ Return(c)
    /\ NoResult
    /\ UNCHANGED <<idSeq, denies>>

\* ALLOW for a reason that is not a provider failure.
FinalizeAllow(c) ==
    LET id == loc[c].id IN
    /\ Finalizable(c)
    /\ Transition(id, [byID[id] EXCEPT !.state = "ALLOWED_ONCE", !.stage2 = "ALLOW",
                                       !.interv = "none", !.key = Key(c)],
                  "allowed_once", Key(c))
    /\ CloseAll({id})
    /\ Return(c)
    /\ Grant(id, Key(c), TRUE)
    /\ UNCHANGED <<idSeq, denies>>

\* BLOCK, a fail-open ALLOW, or an error of the re-evaluation.
FinalizeReject(c) ==
    LET id == loc[c].id IN
    /\ Finalizable(c)
    /\ Transition(id, [byID[id] EXCEPT !.state = "REJECTED", !.stage2 = "BLOCK",
                                       !.key = Key(c)],
                  "rejected", Key(c))
    /\ CloseAll({id})
    /\ Return(c)
    /\ NoResult
    /\ UNCHANGED <<idSeq, denies>>

-----------------------------------------------------------------------------
(* Abandon, ExpireDue *)

Abandon(c, id) ==
    /\ pc[c] = "idle" /\ byID[id].state \in {"OPEN", "JUSTIFIED"}
    /\ Transition(id, [byID[id] EXCEPT !.state = "ABANDONED"], "abandoned", None)
    /\ ReturnAfterSignal(c, {id})
    /\ NoResult
    /\ UNCHANGED <<idSeq, termCh, denies>>

ExpireDue(c) ==
    LET S == {i \in Ids : Due(i)} IN
    /\ pc[c] = "idle" /\ S # {}
    /\ ExpireAll(S, None)
    /\ ReturnAfterSignal(c, S)
    /\ NoResult
    /\ UNCHANGED <<idSeq, termCh, denies>>

-----------------------------------------------------------------------------
Classes == {"appealable", "human_review", "hard_block"}

Init ==
    /\ seq = 0
    /\ byID = [i \in Ids |-> NoRec]
    /\ log = [i \in Ids |-> <<>>]
    /\ openByFP = [f \in Fps |-> None]
    /\ barrier = [f \in Fps |-> [gen |-> None, mark |-> 0]]
    /\ idSeq = 0
    /\ termCh = [i \in Ids |-> "none"]
    /\ pc = [c \in Callers |-> "idle"]
    /\ loc = [c \in Callers |-> NoLoc]
    /\ denies = 0
    /\ mints = [i \in Ids |-> 0]
    /\ grants = [i \in Ids |-> {}]

\* A caller starts an operation.
Begin(c) ==
    \/ \E fp \in Fps, class \in Classes, gen \in Gens, reason \in Reasons, ttl \in TTLs :
          BeginOpen(c, fp, class, gen, reason, ttl)
    \/ \E id \in Ids, j \in Justs : BeginJustify(c, id, j)
    \/ \E id \in Ids, att \in Attempts, fp \in Fps : BeginRetry(c, id, att, fp)
    \/ \E id \in Ids : Abandon(c, id)
    \/ ExpireDue(c)

\* A caller continues the operation it is in.
Continue(c) ==
    \/ SignalTerminal(c)
    \/ OpenHardBlock(c) \/ OpenHumanReview(c)
    \/ OpenRefused(c) \/ OpenReuse(c) \/ OpenNew(c)
    \/ JustifyExpired(c) \/ JustifyNoChange(c) \/ JustifyAccept(c)
    \/ RetryExpired(c) \/ RetryOfTerminal(c) \/ RetryRefused(c)
    \/ RetryJoin(c) \/ RetryConsume(c)
    \/ WaitReturn(c) \/ WaitGet(c) \/ WaitRegister(c) \/ WaitWoken(c)
    \/ FinalizeExpired(c) \/ FinalizeLost(c)
    \/ FinalizeHumanReview(c) \/ FinalizeAllow(c) \/ FinalizeReject(c)

\* A caller's context ends.
Cancel(c) == WaitCanceled(c) \/ RetryCanceled(c)

Next == \E c \in Callers : Begin(c) \/ Continue(c) \/ Cancel(c)

Spec == Init /\ [][Next]_vars

\* Goroutines are scheduled and ReEvaluate returns (providers have deadlines).
Fairness == \A c \in Callers : WF_vars(Continue(c))
FairSpec == Spec /\ Fairness

-----------------------------------------------------------------------------
(* Types *)

Record == [state : {"NONE"} \cup ActiveStates \cup TerminalStates,
           fp : Fps \cup {None}, gen : Gens \cup {None}, reason : Reasons \cup {None},
           budget : {0, 1}, expiresAt : Nat, ticket : Nat, just : Justs \cup {None},
           key : Keys \cup {None}, stage2 : {"ALLOW", "BLOCK"},
           interv : {"none", "APPEALABLE_CHALLENGE", "HUMAN_REVIEW"}]
Event == [type : {"opened", "justified", "budget_consumed", "allowed_once", "rejected",
                  "human_review", "abandoned", "expired"},
          payload : Fps \cup Justs \cup Keys \cup {None}]
Labels == {"idle", "signal", "open", "justify", "retry", "reeval",
           "wait_get", "wait_register", "wait_recheck", "wait_select"}
Local == [id : Ids \cup {0}, fp : Fps \cup {None}, gen : Gens \cup {None},
          reason : Reasons \cup {None}, ttl : TTLs \cup {0}, ticket : Nat,
          class : Classes \cup {"none"}, att : Attempts \cup Justs \cup {None},
          sig : SUBSET Ids]

\* Type invariant of the store, of the callers and of the history.
TypeOK ==
    /\ seq \in Nat
    /\ byID \in [Ids -> Record]
    /\ log \in [Ids -> Seq(Event)]
    /\ openByFP \in [Fps -> Ids \cup {None}]
    /\ barrier \in [Fps -> [gen : Gens \cup {None}, mark : Nat]]
    /\ idSeq \in 0..MaxChallenges
    /\ termCh \in [Ids -> {"none", "open", "closed"}]
    /\ pc \in [Callers -> Labels]
    /\ loc \in [Callers -> Local]
    /\ denies \in 0..MaxDenies
    /\ mints \in [Ids -> Nat]
    /\ grants \in [Ids -> SUBSET Keys]

-----------------------------------------------------------------------------
(* Correctness *)

\* At most one live challenge per session and fingerprint, so the silent,
\* unlogged and unsignalled expiry inside putLocked never has a rival to expire.
SingleActive ==
    \A i, j \in Ids : Active(i) /\ Active(j) /\ byID[i].fp = byID[j].fp => i = j

\* openByFP, which ActiveByFingerprint reads, names exactly the live challenges
\* in byID: no operation leaves an entry behind or forgets one.
IndexAgrees ==
    \A f \in Fps, i \in Ids : openByFP[f] = i <=> Active(i) /\ byID[i].fp = f

\* The one-shot promise of AttemptRetry: over any interleaving of retries and
\* duplicates, a challenge authorises afresh at most once, and every caller that
\* was ever told ALLOW presented the very retry identity the record consumed.
OneShot ==
    \A i \in Ids :
        /\ mints[i] <= 1
        /\ grants[i] # {} => byID[i].state = "ALLOWED_ONCE" /\ grants[i] = {byID[i].key}

\* An ALLOWED_ONCE was justified, spent the whole retry budget, and was given to
\* the challenged action or to a rewrite of the same delete: no shortcut through
\* Justify, AttemptRetry and the finalisation leads there.
AllowEarned ==
    \A i \in Ids : byID[i].state = "ALLOWED_ONCE" =>
        /\ byID[i].just # None /\ byID[i].budget = 0
        /\ byID[i].key # None /\ Bound(byID[i].key[2], byID[i].fp)

\* After a hard denial or a human review of an action, no challenge on it or on
\* a tool-name variant is live unless it was opened under another policy
\* generation by a call that started after the mark: neither an Open that was
\* already under way nor a retry in flight outlives the denial.
BarrierHolds ==
    \A f \in Fps, i \in Ids :
        Active(i) /\ Covers(f, byID[i].fp) =>
            byID[i].gen # barrier[f].gen /\ byID[i].ticket >= barrier[f].mark

\* No authorisation is minted at or after the challenge's ExpiresAtSequence, even
\* when other callers advance the store's sequence during the re-evaluation.
NoLateAllow ==
    [][\A i \in Ids :
          byID'[i].state = "ALLOWED_ONCE" /\ byID[i].state # "ALLOWED_ONCE" =>
              byID[i].expiresAt = 0 \/ seq < byID[i].expiresAt]_vars

\* Every call returns: a retry that joined one in flight is woken once that one
\* ends, whichever way it ends.
CallsReturn == \A c \in Callers : pc[c] # "idle" ~> pc[c] = "idle"

-----------------------------------------------------------------------------
(* The inductive invariant behind the theorems of ChallengeProofs. *)

RetryLabels == {"retry", "reeval", "wait_get", "wait_register", "wait_recheck", "wait_select"}

\* An id handed to an Open under way is in no record and in no other Open.
FreshId(c) ==
    IF loc[c].class = "hard_block" THEN loc[c].id = 0
    ELSE /\ loc[c].id \in 1..idSeq /\ byID[loc[c].id] = NoRec
         /\ \A d \in Callers \ {c} : pc[d] = "open" => loc[d].id # loc[c].id

\* What the label of a caller says about its local variables.
CallerOK(c) ==
    /\ pc[c] = "open" =>
          /\ loc[c].fp \in Fps /\ loc[c].gen \in Gens /\ loc[c].reason \in Reasons
          /\ loc[c].class \in Classes /\ FreshId(c)
    /\ pc[c] = "justify" =>
          loc[c].id \in Ids /\ loc[c].att \in Justs /\ byID[loc[c].id].state # "NONE"
    /\ pc[c] \in RetryLabels =>
          /\ loc[c].id \in Ids /\ loc[c].att \in Attempts /\ loc[c].fp \in Fps
          /\ byID[loc[c].id].state # "NONE" /\ Bound(loc[c].fp, byID[loc[c].id].fp)

LocOK == \A c \in Callers : CallerOK(c)

\* What the state of record r of challenge i says about its other fields and its
\* history m of fresh ALLOWs and g of identities told ALLOW.
RecordOK(i, r, m, g) ==
    /\ IF r.state = "NONE" THEN r = NoRec ELSE i <= idSeq /\ r.fp \in Fps /\ r.gen \in Gens
    /\ r.state \in {"OPEN", "JUSTIFIED"} => r.budget = 1
    /\ r.state \in {"RETRY_PENDING", "ALLOWED_ONCE"} => r.budget = 0
    /\ r.state \in {"JUSTIFIED", "RETRY_PENDING", "ALLOWED_ONCE"} => r.just \in Justs
    /\ IF r.state = "ALLOWED_ONCE"
         THEN r.key \in Keys /\ Bound(r.key[2], r.fp) /\ m = 1 /\ g = {r.key}
         ELSE m = 0 /\ g = {}

RecOK == \A i \in Ids : RecordOK(i, byID[i], mints[i], grants[i])

IInv == TypeOK /\ LocOK /\ RecOK /\ IndexAgrees /\ BarrierHolds

=============================================================================
