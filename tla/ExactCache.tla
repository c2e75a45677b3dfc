----------------------------- MODULE ExactCache -----------------------------
(***************************************************************************)
(* The process-local exact assessment cache of                             *)
(* src/pkg/classifier/exact_cache.go: ExactAssessmentCache (a bounded      *)
(* LRU store with a TTL) and CachingClassifierProvider, which lets         *)
(* concurrent requests with one key share one provider call.               *)
(*                                                                         *)
(* Callers are goroutines in Assess for a cacheable key; a shared call is  *)
(* a goroutine of its own that outlives the caller that started it.  An    *)
(* action is one critical section of cache.mu, or the provider's answer.   *)
(***************************************************************************)
EXTENDS Integers, Sequences, FiniteSets, SequencesExt

CONSTANTS
  Callers,       \* goroutines calling Assess
  Keys,          \* key hashes
  Modes,         \* values of ExactCacheConfig.Singleflight
  MaxEntries,    \* ExactCacheConfig.MaxEntries
  MaxBytes,      \* ExactCacheConfig.MaxBytes
  Sizes,         \* sizes of a serialised assessment
  TTL,           \* ExactCacheConfig.TTL
  MaxTime,       \* bound on the clock
  MaxCalls       \* bound on the shared calls

ASSUME CacheAssumption ==
  /\ {MaxEntries, MaxBytes, TTL} \subseteq Nat \ {0}
  /\ {MaxTime, MaxCalls} \subseteq Nat
  /\ Sizes \subseteq Nat \ {0}
  /\ Modes \subseteq BOOLEAN

VARIABLES
  singleflight,  \* ExactCacheConfig.Singleflight, as configured
  now,       \* the clock
  entries,   \* ExactAssessmentCache.entries; size 0 when absent
  order,     \* ExactAssessmentCache.order, oldest first
  bytes,     \* ExactAssessmentCache.bytes
  inflight,  \* ExactAssessmentCache.inflight: the call of each key, or 0
  calls,     \* every exactInflight ever made, with its goroutine
  issued,    \* how many calls were made
  pc, loc    \* where each caller is: the key, the call it waits on, the result

cache == <<entries, order, bytes>>
env   == <<singleflight, now>>
vars  == <<env, cache, inflight, calls, issued, pc, loc>>

CallIds == 1..MaxCalls
NoEntry == [exp |-> 0, size |-> 0]
NoCall  == [key |-> "none", at |-> "unused", wait |-> 0, exp |-> 0]
NoLoc   == [key |-> "none", call |-> 0, exp |-> 0]

Present(k) == entries[k].size > 0
Fresh(k)   == Present(k) /\ now < entries[k].exp

Go(c, label) == pc' = [pc EXCEPT ![c] = label] /\ UNCHANGED loc
Return(c) == pc' = [pc EXCEPT ![c] = "idle"] /\ loc' = [loc EXCEPT ![c] = NoLoc]

-----------------------------------------------------------------------------
(* ExactAssessmentCache *)

\* Mutant: removeLocked leaves the key in the LRU order.
Without_Order(o, k) == o
\* removeOrderLocked.
Without(o, k) == RemoveFirst(o, k)

\* removeLocked.
RemoveEntry(k) ==
  /\ entries' = [entries EXCEPT ![k] = NoEntry]
  /\ order' = Without(order, k)
  /\ bytes' = bytes - entries[k].size

\* touchLocked.
Touch(k) ==
  /\ order' = Append(Without(order, k), k)
  /\ UNCHANGED <<entries, bytes>>

\* There is room for one more entry beside count others, for total bytes.
Fits(count, total) == count < MaxEntries /\ total <= MaxBytes

\* BytesOf(e, o)[n] is what the first n keys of o take up in the entries e.
BytesOf(e, o) ==
  LET sum[n \in 0..Len(o)] == IF n = 0 THEN 0 ELSE sum[n - 1] + e[o[n]].size
  IN sum

\* Admit: the previous entry of the key goes first, then the oldest ones until
\* the new one fits; an assessment larger than the whole cache is refused.
Admit(k, exp, size) ==
  LET rest    == Without(order, k)
      left(n) == bytes - entries[k].size - BytesOf(entries, rest)[n]
      n       == Min({m \in 0..Len(rest) :
                        m = Len(rest) \/ Fits(Len(rest) - m, left(m) + size)})
      Gone(j) == \E i \in 1..n : rest[i] = j
  IN IF size > MaxBytes THEN UNCHANGED cache
     ELSE /\ order' = Append(SubSeq(rest, n + 1, Len(rest)), k)
          /\ entries' = [j \in Keys |-> IF j = k THEN [exp |-> exp, size |-> size]
                                        ELSE IF Gone(j) THEN NoEntry ELSE entries[j]]
          /\ bytes' = left(n) + size

-----------------------------------------------------------------------------
(* CachingClassifierProvider.Assess *)

\* Get: a hit answers the caller, an expired entry is removed.
Get(c, k) ==
  /\ pc[c] = "idle"
  /\ IF Fresh(k)
     THEN Touch(k) /\ UNCHANGED <<pc, loc>>
     ELSE /\ IF Present(k) THEN RemoveEntry(k) ELSE UNCHANGED cache
          /\ pc' = [pc EXCEPT ![c] = IF singleflight THEN "coalesce" ELSE "assess"]
          /\ loc' = [loc EXCEPT ![c] = [NoLoc EXCEPT !.key = k]]
  /\ UNCHANGED <<env, inflight, calls, issued>>

\* assessAndAdmit: this caller's own provider call; its error is returned.
Assess(c) ==
  /\ pc[c] = "assess"
  /\ \/ Return(c)
     \/ /\ pc' = [pc EXCEPT ![c] = "admit"]
        /\ loc' = [loc EXCEPT ![c].exp = now + TTL]
  /\ UNCHANGED <<env, cache, inflight, calls, issued>>

TryAdmit(c) ==
  /\ pc[c] = "admit"
  /\ \E size \in Sizes : Admit(loc[c].key, loc[c].exp, size)
  /\ Return(c)
  /\ UNCHANGED <<env, inflight, calls, issued>>

\* assessCoalesced, all under one lock: a hit after all, ...
CoalesceHit(c) ==
  /\ pc[c] = "coalesce" /\ Fresh(loc[c].key)
  /\ Touch(loc[c].key)
  /\ Return(c)
  /\ UNCHANGED <<env, inflight, calls, issued>>

\* The entry went stale since Get looked.
DropStale(k) == IF Present(k) THEN RemoveEntry(k) ELSE UNCHANGED cache

\* ... or a call to join, ...
Join(c) ==
  LET f == inflight[loc[c].key] IN
  /\ pc[c] = "coalesce" /\ ~Fresh(loc[c].key) /\ f # 0
  /\ DropStale(loc[c].key)
  /\ calls' = [calls EXCEPT ![f].wait = @ + 1]
  /\ pc' = [pc EXCEPT ![c] = "wait"]
  /\ loc' = [loc EXCEPT ![c].call = f]
  /\ UNCHANGED <<env, inflight, issued>>

NewCall(k) == [key |-> k, at |-> "running", wait |-> 1, exp |-> 0]

\* ... or a call to start.
Lead(c) ==
  LET k == loc[c].key
      f == issued + 1
  IN
  /\ pc[c] = "coalesce" /\ ~Fresh(k) /\ inflight[k] = 0 /\ issued < MaxCalls
  /\ DropStale(k)
  /\ issued' = f
  /\ calls' = [calls EXCEPT ![f] = NewCall(k)]
  /\ inflight' = [inflight EXCEPT ![k] = f]
  /\ pc' = [pc EXCEPT ![c] = "wait"]
  /\ loc' = [loc EXCEPT ![c].call = f]
  /\ UNCHANGED env

-----------------------------------------------------------------------------
(* The goroutine of a shared call *)

\* The provider answers with a cacheable assessment, with one that is not or
\* with an error, or it panics.
Answer(f) ==
  /\ calls[f].at = "running"
  /\ \/ calls' = [calls EXCEPT ![f].at = "admit", ![f].exp = now + TTL]
     \/ calls' = [calls EXCEPT ![f].at = "close"]
  /\ UNCHANGED <<env, cache, inflight, issued, pc, loc>>

AdmitShared(f) ==
  /\ calls[f].at = "admit"
  /\ \E size \in Sizes : Admit(calls[f].key, calls[f].exp, size)
  /\ calls' = [calls EXCEPT ![f].at = "close"]
  /\ UNCHANGED <<env, inflight, issued, pc, loc>>

\* Mutant: the deferred function frees the slot but does not close the channel.
Close_Silent(f) ==
  /\ calls[f].at = "close"
  /\ calls' = [calls EXCEPT ![f].at = "lost"]
  /\ inflight' = [inflight EXCEPT ![calls[f].key] = 0]
  /\ UNCHANGED <<env, cache, issued, pc, loc>>
\* The deferred function: free the slot and wake everybody.
Close(f) ==
  /\ calls[f].at = "close"
  /\ calls' = [calls EXCEPT ![f].at = "done"]
  /\ inflight' = [inflight EXCEPT ![calls[f].key] = 0]
  /\ UNCHANGED <<env, cache, issued, pc, loc>>

-----------------------------------------------------------------------------
(* waitInflight *)

Woken(c) ==
  /\ pc[c] = "wait" /\ calls[loc[c].call].at = "done"
  /\ Return(c)
  /\ UNCHANGED <<env, cache, inflight, calls, issued>>

\* The caller's context ends; it gives up its place in a second step.
Cancel(c) ==
  /\ pc[c] = "wait"
  /\ Go(c, "leave")
  /\ UNCHANGED <<env, cache, inflight, calls, issued>>

\* Mutant: a caller that gives up takes the slot with it.
Leave_FreesSlot(c) ==
  LET k == loc[c].key IN
  /\ pc[c] = "leave"
  /\ inflight' = IF inflight[k] = loc[c].call THEN [inflight EXCEPT ![k] = 0] ELSE inflight
  /\ Return(c)
  /\ UNCHANGED <<env, cache, calls, issued>>

Leave(c) ==
  LET k == loc[c].key IN
  /\ pc[c] = "leave"
  /\ calls' = IF inflight[k] = loc[c].call
              THEN [calls EXCEPT ![loc[c].call].wait = @ - 1] ELSE calls
  /\ Return(c)
  /\ UNCHANGED <<env, cache, inflight, issued>>

Tick ==
  /\ now < MaxTime
  /\ now' = now + 1
  /\ UNCHANGED <<singleflight, cache, inflight, calls, issued, pc, loc>>

-----------------------------------------------------------------------------
Init ==
  /\ singleflight \in Modes /\ now = 0
  /\ entries = [k \in Keys |-> NoEntry] /\ order = <<>> /\ bytes = 0
  /\ inflight = [k \in Keys |-> 0]
  /\ calls = [f \in CallIds |-> NoCall] /\ issued = 0
  /\ pc = [c \in Callers |-> "idle"] /\ loc = [c \in Callers |-> NoLoc]

Continue(c) ==
  \/ Assess(c) \/ TryAdmit(c)
  \/ CoalesceHit(c) \/ Join(c) \/ Lead(c)
  \/ Woken(c) \/ Leave(c)

Shared(f) == Answer(f) \/ AdmitShared(f) \/ Close(f)

Next ==
  \/ \E c \in Callers : Continue(c) \/ Cancel(c) \/ \E k \in Keys : Get(c, k)
  \/ \E f \in CallIds : Shared(f)
  \/ Tick

Spec == Init /\ [][Next]_vars

\* Goroutines are scheduled, and the adapters bound their provider calls by a
\* timeout of their own (a shared call has no deadline of the caller's).
Fairness ==
  /\ \A c \in Callers : WF_vars(Continue(c))
  /\ \A f \in CallIds : WF_vars(Shared(f))
FairSpec == Spec /\ Fairness

-----------------------------------------------------------------------------
Running(f) == calls[f].at \in {"running", "admit", "close"}

\* The three views of the store agree and stay within its limits, whatever is
\* admitted, replaced, evicted or expires in whichever goroutine: the LRU order
\* lists every entry once and nothing else, and the byte count is the sum of the
\* sizes of the entries it lists.
LRUConsistent ==
  /\ IsInjective(order)
  /\ {order[i] : i \in DOMAIN order} = {k \in Keys : Present(k)}
  /\ bytes = BytesOf(entries, order)[Len(order)]
  /\ Len(order) <= MaxEntries /\ bytes <= MaxBytes

\* "Concurrent identical keys produce one provider call": of the calls for a key
\* at most one has not ended, callers that gave up included.
OneCallPerKey ==
  \A f, g \in CallIds : Running(f) /\ Running(g) /\ calls[f].key = calls[g].key => f = g

\* Every Assess returns, also when the shared call fails, panics, or was started
\* by a caller that is gone.
AssessReturns ==
  \A c \in Callers : pc[c] \in {"wait", "leave", "assess", "admit"} ~> pc[c] = "idle"

-----------------------------------------------------------------------------
(* The inductive invariants behind the theorems of CacheProofs. *)

Call  == [key : Keys \cup {"none"}, at : {"unused", "running", "admit", "close", "done"},
          wait : Int, exp : Nat]
Local == [key : Keys \cup {"none"}, call : CallIds \cup {0}, exp : Nat]

\* Types of the shared calls and of the callers.
CallTypes ==
  /\ now \in Nat /\ issued \in 0..MaxCalls
  /\ inflight \in [Keys -> CallIds \cup {0}]
  /\ calls \in [CallIds -> Call]
  /\ pc \in [Callers -> {"idle", "coalesce", "assess", "admit", "wait", "leave"}]
  /\ loc \in [Callers -> Local]

\* The slot of a key holds exactly the call for that key that has not ended, and
\* the ids not handed out yet are unused.
SlotsMatch ==
  /\ \A f \in CallIds : f > issued => calls[f].at = "unused"
  /\ \A f \in CallIds : Running(f) => calls[f].key \in Keys /\ inflight[calls[f].key] = f
  /\ \A k \in Keys : inflight[k] # 0 => Running(inflight[k]) /\ calls[inflight[k]].key = k

\* A caller past Get has a key; one that waits, waits for a call of that key.
WaitsOwnKey ==
  \A c \in Callers :
    /\ pc[c] # "idle" => loc[c].key \in Keys
    /\ pc[c] \in {"wait", "leave"} =>
          /\ loc[c].call \in CallIds /\ calls[loc[c].call].key = loc[c].key
          /\ calls[loc[c].call].at # "unused"

CallInv == CallTypes /\ SlotsMatch /\ WaitsOwnKey

\* The store is well typed and its views agree.
StoreInv ==
  /\ entries \in [Keys -> [exp : Nat, size : Nat]] /\ order \in Seq(Keys)
  /\ LRUConsistent
=============================================================================
