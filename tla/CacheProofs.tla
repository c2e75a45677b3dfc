----------------------------- MODULE CacheProofs -----------------------------
(***************************************************************************)
(* TLAPS proofs about ExactCache, for any number of callers, keys, calls   *)
(* and any configuration: its shared calls, then its store.                *)
(***************************************************************************)
EXTENDS ExactCache, WellFoundedInduction, TLAPS

LEMMA CallRecords ==
  /\ NoCall \in Call /\ NoLoc \in Local
  /\ \A k \in Keys : NewCall(k) \in Call
<1>1. NoCall \in Call
  BY DEF NoCall, Call
<1>2. NoLoc \in Local
  BY DEF NoLoc, Local
<1>3. ASSUME NEW k \in Keys PROVE NewCall(k) \in Call
  BY DEF NewCall, Call
<1> QED
  BY <1>1, <1>2, <1>3

\* What expiresAt is computed from.
LEMMA ExpiryType ==
  ASSUME CallInv
  PROVE  now + TTL \in Nat
<1>1. now \in Nat /\ TTL \in Nat
  BY CacheAssumption DEF CallInv, CallTypes
<1> QED
  BY <1>1

LEMMA InitCallInv == Init => CallInv
<1> SUFFICES ASSUME Init PROVE CallInv
  OBVIOUS
<1>1. CallTypes
  BY CallRecords, CacheAssumption DEF Init, CallTypes
<1>2. SlotsMatch
  BY DEF Init, SlotsMatch, Running, NoCall
<1>3. WaitsOwnKey
  BY DEF Init, WaitsOwnKey
<1> QED
  BY <1>1, <1>2, <1>3 DEF CallInv

-----------------------------------------------------------------------------
(* What a step may do to the callers *)

\* A call that returns, or that only changes its label among those before the
\* wait, while calls and slots stay as they are.
LEMMA ReturnKeeps ==
  ASSUME CallInv, NEW c \in Callers, Return(c), UNCHANGED <<inflight, calls, issued>>, now' \in Nat
  PROVE  CallInv'
<1>1. CallTypes'
  BY CallRecords DEF CallInv, CallTypes, Return
<1>2. SlotsMatch'
  BY DEF CallInv, SlotsMatch, Running
<1>3. WaitsOwnKey'
  BY DEF CallInv, CallTypes, WaitsOwnKey, Return
<1> QED
  BY <1>1, <1>2, <1>3 DEF CallInv

LEMMA GetKeeps ==
  ASSUME CallInv, NEW c \in Callers, NEW k \in Keys, Get(c, k)
  PROVE  CallInv'
<1>1. CASE Fresh(k)
  BY <1>1 DEF Get, CallInv, CallTypes, SlotsMatch, WaitsOwnKey, Running, env
<1>2. CASE ~Fresh(k)
  <2>1. UNCHANGED <<now, inflight, calls, issued>>
    BY <1>2 DEF Get, env
  <2>2. PICK label \in {"coalesce", "assess"} :
          /\ pc' = [pc EXCEPT ![c] = label]
          /\ loc' = [loc EXCEPT ![c] = [NoLoc EXCEPT !.key = k]]
    BY <1>2 DEF Get
  <2>3. [NoLoc EXCEPT !.key = k] \in Local /\ [NoLoc EXCEPT !.key = k].key = k
    BY DEF NoLoc, Local
  <2>4. CallTypes'
    BY <2>1, <2>2, <2>3 DEF CallInv, CallTypes
  <2>5. SlotsMatch'
    BY <2>1 DEF CallInv, SlotsMatch, Running
  <2>6. WaitsOwnKey'
    BY <2>1, <2>2, <2>3 DEF CallInv, CallTypes, WaitsOwnKey
  <2> QED
    BY <2>4, <2>5, <2>6 DEF CallInv
<1> QED
  BY <1>1, <1>2

LEMMA AssessKeeps ==
  ASSUME CallInv, NEW c \in Callers, Assess(c)
  PROVE  CallInv'
<1>1. CASE Return(c)
  BY <1>1, ReturnKeeps DEF Assess, env, CallInv, CallTypes
<1>2. CASE ~Return(c)
  <2>1. /\ pc' = [pc EXCEPT ![c] = "admit"] /\ loc' = [loc EXCEPT ![c].exp = now + TTL]
        /\ UNCHANGED <<now, inflight, calls, issued>> /\ pc[c] = "assess"
    BY <1>2 DEF Assess, env
  <2>2. loc'[c] \in Local /\ loc'[c].key = loc[c].key /\ \A d \in Callers \ {c} : loc'[d] = loc[d]
    BY <2>1, ExpiryType DEF CallInv, CallTypes, Local
  <2>3. CallTypes'
    BY <2>1, <2>2 DEF CallInv, CallTypes
  <2>4. SlotsMatch'
    BY <2>1 DEF CallInv, SlotsMatch, Running
  <2>5. WaitsOwnKey'
    BY <2>1, <2>2 DEF CallInv, CallTypes, WaitsOwnKey
  <2> QED
    BY <2>3, <2>4, <2>5 DEF CallInv
<1> QED
  BY <1>1, <1>2

LEMMA CancelKeeps ==
  ASSUME CallInv, NEW c \in Callers, Cancel(c)
  PROVE  CallInv'
<1>1. CallTypes'
  BY DEF CallInv, CallTypes, Cancel, Go, env
<1>2. SlotsMatch'
  BY DEF CallInv, SlotsMatch, Running, Cancel
<1>3. WaitsOwnKey'
  BY DEF CallInv, CallTypes, WaitsOwnKey, Cancel, Go
<1> QED
  BY <1>1, <1>2, <1>3 DEF CallInv

-----------------------------------------------------------------------------
(* What a step may do to the calls *)

\* The caller joins call f, or starts it: both put it to wait for f.
LEMMA WaitKeeps ==
  ASSUME CallInv, NEW c \in Callers, NEW f \in CallIds, pc[c] = "coalesce",
         pc' = [pc EXCEPT ![c] = "wait"], loc' = [loc EXCEPT ![c].call = f],
         calls' \in [CallIds -> Call], inflight' \in [Keys -> CallIds \cup {0}],
         issued' \in 0..MaxCalls, UNCHANGED now, SlotsMatch',
         calls'[f].key = loc[c].key, calls'[f].at # "unused",
         \A g \in CallIds : calls[g].at # "unused" =>
             calls'[g].key = calls[g].key /\ calls'[g].at # "unused"
  PROVE  CallInv'
<1>1. /\ loc'[c] \in Local /\ loc'[c].key = loc[c].key /\ loc'[c].call = f
      /\ \A d \in Callers \ {c} : loc'[d] = loc[d]
  BY DEF CallInv, CallTypes, Local
<1>2. CallTypes'
  BY <1>1 DEF CallInv, CallTypes
<1>3. WaitsOwnKey'
  BY <1>1 DEF CallInv, CallTypes, WaitsOwnKey
<1> QED
  BY <1>2, <1>3 DEF CallInv

LEMMA JoinKeeps ==
  ASSUME CallInv, NEW c \in Callers, Join(c)
  PROVE  CallInv'
<1>1. pc[c] = "coalesce" /\ loc[c].key \in Keys
  BY DEF CallInv, WaitsOwnKey, Join
<1>2. PICK f \in CallIds : f = inflight[loc[c].key]
  BY <1>1 DEF CallInv, CallTypes, Join
<1>3. Running(f) /\ calls[f].key = loc[c].key
  BY <1>1, <1>2 DEF CallInv, SlotsMatch, Join
<1>4. /\ calls' = [calls EXCEPT ![f].wait = @ + 1]
      /\ pc' = [pc EXCEPT ![c] = "wait"] /\ loc' = [loc EXCEPT ![c].call = f]
      /\ UNCHANGED <<now, inflight, issued>>
  BY <1>2 DEF Join, env
<1>5. /\ calls' \in [CallIds -> Call]
      /\ \A g \in CallIds : calls'[g].key = calls[g].key /\ calls'[g].at = calls[g].at
  <2>1. calls[f] \in Call
    BY DEF CallInv, CallTypes
  <2>2. calls[f].wait + 1 \in Int
    BY <2>1 DEF Call
  <2>3. [calls[f] EXCEPT !.wait = calls[f].wait + 1] \in Call
    BY <2>1, <2>2 DEF Call
  <2>4. calls' = [calls EXCEPT ![f] = [calls[f] EXCEPT !.wait = calls[f].wait + 1]]
    BY <1>4
  <2> QED
    BY <2>1, <2>2, <2>3, <2>4 DEF CallInv, CallTypes, Call
<1>6. SlotsMatch'
  BY <1>4, <1>5 DEF CallInv, CallTypes, SlotsMatch, Running
<1>7. calls[f].at # "unused"
  BY <1>3 DEF Running
<1> QED
  BY <1>1, <1>3, <1>4, <1>5, <1>6, <1>7, WaitKeeps DEF CallInv, CallTypes

LEMMA LeadKeeps ==
  ASSUME CallInv, NEW c \in Callers, Lead(c)
  PROVE  CallInv'
<1>1. PICK k \in Keys : k = loc[c].key
  BY DEF CallInv, WaitsOwnKey, Lead
<1>2. PICK f \in CallIds : f = issued + 1
  BY CacheAssumption DEF CallInv, CallTypes, Lead, CallIds
<1>3. /\ calls' = [calls EXCEPT ![f] = NewCall(k)] /\ inflight' = [inflight EXCEPT ![k] = f]
      /\ issued' = f /\ pc' = [pc EXCEPT ![c] = "wait"] /\ loc' = [loc EXCEPT ![c].call = f]
      /\ UNCHANGED now /\ pc[c] = "coalesce" /\ inflight[k] = 0
  BY <1>1, <1>2 DEF Lead, env
<1>4. calls[f].at = "unused" /\ f # 0
  BY <1>2 DEF CallInv, CallTypes, SlotsMatch, CallIds
<1>5. /\ calls' \in [CallIds -> Call] /\ inflight' \in [Keys -> CallIds \cup {0}]
      /\ issued' \in 0..MaxCalls
  BY <1>2, <1>3, CallRecords, CacheAssumption DEF CallInv, CallTypes, CallIds
<1>6. /\ calls'[f].key = k /\ calls'[f].at = "running" /\ inflight'[k] = f
      /\ \A g \in CallIds \ {f} : calls'[g] = calls[g]
      /\ \A j \in Keys \ {k} : inflight'[j] = inflight[j]
  BY <1>3 DEF CallInv, CallTypes, NewCall
<1>7. SlotsMatch'
  <2>1. \A g \in CallIds : g > issued' => calls'[g].at = "unused"
    BY <1>2, <1>3, <1>6 DEF CallInv, CallTypes, SlotsMatch, CallIds
  <2>2. ASSUME NEW g \in CallIds, Running(g)'
        PROVE  calls'[g].key \in Keys /\ inflight'[calls'[g].key] = g
    BY <1>3, <1>4, <1>6, <2>2 DEF CallInv, SlotsMatch, Running, CallIds
  <2>3. ASSUME NEW j \in Keys, inflight'[j] # 0
        PROVE  Running(inflight[j])' /\ calls'[inflight'[j]].key = j
    <3>1. CASE j = k
      BY <1>6, <3>1 DEF Running
    <3>2. CASE j # k
      <4>1. /\ inflight'[j] = inflight[j] /\ inflight[j] \in CallIds
            /\ Running(inflight[j]) /\ calls[inflight[j]].key = j
        BY <1>6, <2>3, <3>2 DEF CallInv, CallTypes, SlotsMatch
      <4>2. inflight[j] # f
        BY <1>4, <4>1 DEF Running
      <4> QED
        BY <1>6, <4>1, <4>2 DEF Running
    <3> QED
      BY <3>1, <3>2
  <2> QED
    BY <2>1, <2>2, <2>3 DEF SlotsMatch
<1>8. \A g \in CallIds : calls[g].at # "unused" =>
             calls'[g].key = calls[g].key /\ calls'[g].at # "unused"
  BY <1>4, <1>6
<1> QED
  BY <1>1, <1>3, <1>5, <1>6, <1>7, <1>8, WaitKeeps

\* A shared call moves on; only Close, which frees its slot, ends it.
LEMMA SharedKeeps ==
  ASSUME CallInv, NEW f \in CallIds, Shared(f)
  PROVE  CallInv'
<1>1. UNCHANGED <<now, issued, pc, loc>>
  BY DEF Shared, Answer, AdmitShared, Close, env
<1>2. calls[f] \in Call /\ now + TTL \in Nat
  BY ExpiryType DEF CallInv, CallTypes
<1>3. PICK r \in Call :
        /\ calls' = [calls EXCEPT ![f] = r] /\ r.key = calls[f].key
        /\ \/ r.at \in {"admit", "close"} /\ inflight' = inflight
           \/ r.at = "done" /\ inflight' = [inflight EXCEPT ![calls[f].key] = 0]
  <2>1. CASE Answer(f) /\ calls' = [calls EXCEPT ![f].at = "admit", ![f].exp = now + TTL]
    <3> DEFINE r == [calls[f] EXCEPT !.at = "admit", !.exp = now + TTL]
    <3>1. r \in Call /\ r.key = calls[f].key /\ r.at = "admit"
      BY <1>2 DEF Call
    <3>2. calls' = [calls EXCEPT ![f] = r] /\ inflight' = inflight
      BY <2>1 DEF Answer, CallInv, CallTypes
    <3> QED
      BY <3>1, <3>2
  <2>2. CASE (Answer(f) \/ AdmitShared(f)) /\ calls' = [calls EXCEPT ![f].at = "close"]
    <3> DEFINE r == [calls[f] EXCEPT !.at = "close"]
    <3>1. r \in Call /\ r.key = calls[f].key /\ r.at = "close"
      BY <1>2 DEF Call
    <3>2. calls' = [calls EXCEPT ![f] = r] /\ inflight' = inflight
      BY <2>2 DEF Answer, AdmitShared, CallInv, CallTypes
    <3> QED
      BY <3>1, <3>2
  <2>3. CASE Close(f)
    <3> DEFINE r == [calls[f] EXCEPT !.at = "done"]
    <3>1. r \in Call /\ r.key = calls[f].key /\ r.at = "done"
      BY <1>2 DEF Call
    <3>2. calls' = [calls EXCEPT ![f] = r] /\ inflight' = [inflight EXCEPT ![calls[f].key] = 0]
      BY <2>3 DEF Close, CallInv, CallTypes
    <3> QED
      BY <3>1, <3>2
  <2> QED
    BY <2>1, <2>2, <2>3 DEF Shared, Answer, AdmitShared
<1>4. calls'[f] = r /\ \A g \in CallIds \ {f} : calls'[g] = calls[g]
  BY <1>3 DEF CallInv, CallTypes
<1>5. Running(f) /\ r.at # "unused"
  BY <1>3 DEF Shared, Answer, AdmitShared, Close, Running
<1>6. calls[f].key \in Keys /\ inflight[calls[f].key] = f
  BY <1>5 DEF CallInv, SlotsMatch
<1>7. CallTypes'
  BY <1>1, <1>3, <1>6 DEF CallInv, CallTypes
<1>8. WaitsOwnKey'
  BY <1>1, <1>3, <1>4, <1>5 DEF CallInv, WaitsOwnKey
<1>9. SlotsMatch'
  <2>1. \A g \in CallIds : g > issued' => calls'[g].at = "unused"
    BY <1>1, <1>4, <1>5 DEF CallInv, SlotsMatch, Running
  <2>2. CASE r.at \in {"admit", "close"} /\ inflight' = inflight
    <3>1. \A g \in CallIds : (Running(g)' <=> Running(g)) /\ calls'[g].key = calls[g].key
      BY <1>3, <1>4, <1>5, <2>2 DEF Running
    <3> QED
      BY <2>1, <2>2, <3>1 DEF CallInv, CallTypes, SlotsMatch, Running
  <2>3. CASE r.at = "done" /\ inflight' = [inflight EXCEPT ![calls[f].key] = 0]
    <3>1. /\ inflight'[calls[f].key] = 0
          /\ \A j \in Keys : j # calls[f].key => inflight'[j] = inflight[j]
      BY <1>6, <2>3 DEF CallInv, CallTypes
    <3>2. ASSUME NEW g \in CallIds, Running(g)'
          PROVE  calls'[g].key \in Keys /\ inflight'[calls'[g].key] = g
      <4>1. g # f /\ calls'[g] = calls[g] /\ Running(g)
        BY <1>4, <2>3, <3>2 DEF Running
      <4> QED
        BY <1>6, <3>1, <4>1 DEF CallInv, SlotsMatch
    <3>3. ASSUME NEW j \in Keys, inflight'[j] # 0
          PROVE  Running(inflight[j])' /\ calls'[inflight'[j]].key = j
      <4>1. /\ inflight'[j] = inflight[j] /\ inflight[j] \in CallIds /\ inflight[j] # f
            /\ Running(inflight[j]) /\ calls[inflight[j]].key = j
        BY <1>6, <3>1, <3>3 DEF CallInv, CallTypes, SlotsMatch
      <4> QED
        BY <1>4, <4>1 DEF Running
    <3> QED
      BY <2>1, <3>2, <3>3 DEF SlotsMatch
  <2> QED
    BY <1>3, <2>2, <2>3
<1> QED
  BY <1>7, <1>8, <1>9 DEF CallInv

\* A caller that gives up lowers a count and leaves the call alone.
LEMMA LeaveKeeps ==
  ASSUME CallInv, NEW c \in Callers, Leave(c)
  PROVE  CallInv'
<1>1. loc[c].call \in CallIds
  BY DEF CallInv, WaitsOwnKey, Leave
<1>2. /\ calls' \in [CallIds -> Call]
      /\ \A g \in CallIds : calls'[g].key = calls[g].key /\ calls'[g].at = calls[g].at
  <2>1. calls[loc[c].call] \in Call
    BY <1>1 DEF CallInv, CallTypes
  <2>2. calls[loc[c].call].wait - 1 \in Int
    BY <2>1 DEF Call
  <2> DEFINE r == [calls[loc[c].call] EXCEPT !.wait = calls[loc[c].call].wait - 1]
  <2>3. r \in Call /\ r.key = calls[loc[c].call].key /\ r.at = calls[loc[c].call].at
    BY <2>1, <2>2 DEF Call
  <2>4. calls' = [calls EXCEPT ![loc[c].call] = r] \/ calls' = calls
    BY DEF Leave
  <2> HIDE DEF r
  <2> QED
    BY <1>1, <2>3, <2>4 DEF CallInv, CallTypes
<1>3. Return(c) /\ UNCHANGED <<now, inflight, issued>>
  BY DEF Leave, env
<1>4. CallTypes'
  BY <1>2, <1>3, CallRecords DEF CallInv, CallTypes, Return
<1>5. SlotsMatch'
  BY <1>2, <1>3 DEF CallInv, CallTypes, SlotsMatch, Running
<1>6. WaitsOwnKey'
  BY <1>2, <1>3 DEF CallInv, CallTypes, WaitsOwnKey, Return
<1> QED
  BY <1>4, <1>5, <1>6 DEF CallInv

-----------------------------------------------------------------------------
LEMMA NextCallInv == CallInv /\ [Next]_vars => CallInv'
<1> SUFFICES ASSUME CallInv, [Next]_vars PROVE CallInv'
  OBVIOUS
<1>1. ASSUME NEW c \in Callers, Continue(c) PROVE CallInv'
  <2>1. CASE TryAdmit(c) \/ CoalesceHit(c) \/ Woken(c)
    BY <2>1, ReturnKeeps DEF TryAdmit, CoalesceHit, Woken, env, CallInv, CallTypes
  <2> QED
    BY <1>1, <2>1, AssessKeeps, JoinKeeps, LeadKeeps, LeaveKeeps DEF Continue
<1>2. CASE Tick
  BY <1>2, CacheAssumption DEF Tick, CallInv, CallTypes, SlotsMatch, WaitsOwnKey, Running
<1>3. CASE UNCHANGED vars
  BY <1>3 DEF vars, env, CallInv, CallTypes, SlotsMatch, WaitsOwnKey, Running
<1> QED
  BY <1>1, <1>2, <1>3, CancelKeeps, GetKeeps, SharedKeeps DEF Next

\* The calls, the slots and the waiting callers agree in every reachable state.
THEOREM CacheInvariant == Spec => []CallInv
BY InitCallInv, NextCallInv, PTL DEF Spec

\* Of the provider calls for one key at most one has not ended, however many
\* callers ask for it, join it or give up on it: the slot of the key is freed
\* only by the call that holds it.
THEOREM SingleCallPerKey == Spec => []OneCallPerKey
<1>1. CallInv => OneCallPerKey
  BY DEF CallInv, SlotsMatch, OneCallPerKey
<1> QED
  BY <1>1, CacheInvariant, PTL

-----------------------------------------------------------------------------
(* The least of a set of numbers, from the library's well-founded minimum:  *)
(* what an induction over a concrete predicate needs.                       *)

Less == {ss \in Nat \X Nat : ss[1] < ss[2]}

LEMMA LeastOf ==
  ASSUME NEW T, T \subseteq Nat, T # {}
  PROVE  \E x \in T : \A y \in T : x <= y
<1>1. IsWellFoundedOn(Less, Nat)
  BY NatLessThanWellFounded DEF OpToRel, Less
<1>2. PICK x \in T : \A y \in T : <<y, x>> \notin Less
  BY <1>1, WFMin
<1>3. \A y \in T : ~(y < x)
  BY <1>2 DEF Less
<1> QED
  BY <1>3

\* Induction, over the set of the numbers a predicate holds for.
LEMMA SetInduction ==
  ASSUME NEW T, 0 \in T, \A n \in Nat : n \in T => n + 1 \in T
  PROVE  \A n \in Nat : n \in T
<1> SUFFICES ASSUME Nat \ T # {} PROVE FALSE
  OBVIOUS
<1>1. PICK x \in Nat \ T : \A y \in Nat \ T : x <= y
  BY LeastOf
<1>2. x - 1 \in Nat /\ x - 1 \in T
  BY <1>1
<1> QED
  BY <1>1, <1>2

\* A start and a step function define a function on the numbers.
Follows(g, S, b, step) == g \in [Nat -> S] /\ g[0] = b /\ \A n \in Nat : g[n + 1] = step[<<n, g[n]>>]

LEMMA RecursionExists ==
  ASSUME NEW S, NEW b \in S, NEW step \in [Nat \X S -> S]
  PROVE  \E g : Follows(g, S, b, step)
<1> DEFINE Run(h, k) == h \in [0..k -> S] /\ h[0] = b /\ \A n \in 0..(k - 1) : h[n + 1] = step[<<n, h[n]>>]
<1>1. \A k \in Nat : \E h : Run(h, k)
  <2> DEFINE T == {k \in Nat : \E h : Run(h, k)}
  <2>1. 0 \in T
    <3>1. Run([n \in 0..0 |-> b], 0)
      OBVIOUS
    <3> QED
      BY <3>1
  <2>2. ASSUME NEW k \in Nat, k \in T PROVE k + 1 \in T
    <3>1. PICK h : Run(h, k)
      BY <2>2
    <3>2. /\ \A n \in Nat : n <= k => h[n] \in S
          /\ h[0] = b /\ \A n \in Nat : n + 1 <= k => h[n + 1] = step[<<n, h[n]>>]
      BY <3>1
    <3> DEFINE h1 == [n \in 0..(k + 1) |-> IF n <= k THEN h[n] ELSE step[<<k, h[k]>>]]
    <3>3. step[<<k, h[k]>>] \in S
      BY <3>2
    <3>4. h1 \in [0..(k + 1) -> S]
      BY <3>2, <3>3
    <3>5. \A n \in Nat : n <= k => h1[n] = h[n]
      OBVIOUS
    <3>6. h1[k + 1] = step[<<k, h[k]>>]
      OBVIOUS
    <3> HIDE DEF h1
    <3>7. \A n \in 0..k : h1[n + 1] = step[<<n, h1[n]>>]
      <4> TAKE n \in 0..k
      <4>1. h1[n] = h[n]
        BY <3>5
      <4>2. CASE n = k
        BY <3>6, <4>1, <4>2
      <4>3. CASE n # k
        <5>1. n \in Nat /\ n + 1 \in Nat /\ n + 1 <= k
          BY <4>3
        <5> QED
          BY ONLY <3>2, <3>5, <4>1, <5>1
      <4> QED
        BY <4>2, <4>3
    <3>8. h1[0] = b
      BY <3>2, <3>5
    <3>9. Run(h1, k + 1)
      BY <3>4, <3>7, <3>8
    <3> QED
      BY <3>9
  <2> HIDE DEF T
  <2>3. \A k \in Nat : k \in T
    BY <2>1, <2>2, SetInduction
  <2> QED
    BY <2>3 DEF T
<1>2. ASSUME NEW i \in Nat, NEW j \in Nat, i <= j, NEW h, Run(h, i), NEW f, Run(f, j) PROVE h[i] = f[i]
  <2> DEFINE T == {k \in Nat : k <= i => h[k] = f[k]}
  <2>1. 0 \in T
    BY <1>2
  <2>2. ASSUME NEW k \in Nat, k \in T PROVE k + 1 \in T
    <3> SUFFICES ASSUME k + 1 <= i PROVE h[k + 1] = f[k + 1]
      OBVIOUS
    <3>1. h[k] = f[k] /\ k \in 0..(i - 1) /\ k \in 0..(j - 1)
      BY <1>2, <2>2
    <3>2. h[k + 1] = step[<<k, h[k]>>] /\ f[k + 1] = step[<<k, f[k]>>]
      BY <1>2, <3>1
    <3> QED
      BY <3>1, <3>2
  <2> HIDE DEF T
  <2>3. \A k \in Nat : k \in T
    BY <2>1, <2>2, SetInduction
  <2> QED
    BY <2>3 DEF T
<1> DEFINE H(k) == CHOOSE h : Run(h, k)
           g == [n \in Nat |-> H(n)[n]]
<1> HIDE DEF Run
<1>3. \A k \in Nat : Run(H(k), k)
  BY <1>1
<1> HIDE DEF H
<1>4. \A n \in Nat : g[n] = H(n)[n]
  OBVIOUS
<1>5. \A k \in Nat : H(k)[k] \in S /\ H(k)[0] = b
  BY <1>3 DEF Run
<1>6. g \in [Nat -> S]
  BY <1>5
<1> HIDE DEF g
<1>7. ASSUME NEW n \in Nat PROVE g[n + 1] = step[<<n, g[n]>>]
  <2>1. Run(H(n), n) /\ Run(H(n + 1), n + 1) /\ n <= n + 1
    BY <1>3
  <2>2. H(n)[n] = H(n + 1)[n]
    BY <1>2, <2>1
  <2>3. H(n + 1)[n + 1] = step[<<n, H(n + 1)[n]>>]
    BY <2>1 DEF Run
  <2> QED
    BY <1>4, <2>2, <2>3
<1>8. g[0] = b
  BY <1>4, <1>5
<1> QED
  BY <1>6, <1>7, <1>8 DEF Follows

-----------------------------------------------------------------------------
(* The bytes of the keys of a sequence *)

Entries == [Keys -> [exp : Nat, size : Nat]]

\* sum holds the bytes of the first n keys of o, for each n.
Sums(sum, e, o) ==
  /\ sum \in [0..Len(o) -> Nat] /\ sum[0] = 0
  /\ \A n \in 1..Len(o) : sum[n] = sum[n - 1] + e[o[n]].size

LEMMA SumsExist ==
  ASSUME NEW e \in Entries, NEW o \in Seq(Keys)
  PROVE  Sums(BytesOf(e, o), e, o)
<1> DEFINE L == Len(o)
           next(f) == [n \in 0..L |-> IF n = 0 THEN 0 ELSE f[n - 1] + e[o[n]].size]
           sum[n \in 0..L] == IF n = 0 THEN 0 ELSE sum[n - 1] + e[o[n]].size
<1>1. BytesOf(e, o) = sum
  BY DEF BytesOf
<1>2. L \in Nat /\ \A n \in 1..L : e[o[n]].size \in Nat
  <2>1. \A n \in 1..L : o[n] \in Keys
    OBVIOUS
  <2> QED
    BY <2>1 DEF Entries
<1> HIDE DEF L
<1>3. \E f \in [0..L -> Nat] : f = next(f)
  <2> DEFINE step == [p \in Nat \X Nat |-> IF p[1] < L THEN p[2] + e[o[p[1] + 1]].size ELSE p[2]]
  <2>1. step \in [Nat \X Nat -> Nat]
    <3> SUFFICES ASSUME NEW p \in Nat \X Nat
                 PROVE  (IF p[1] < L THEN p[2] + e[o[p[1] + 1]].size ELSE p[2]) \in Nat
      OBVIOUS
    <3>1. p[1] \in Nat /\ p[2] \in Nat
      OBVIOUS
    <3>2. CASE p[1] < L
      <4>1. p[1] + 1 \in 1..L
        BY <1>2, <3>1, <3>2
      <4>2. e[o[p[1] + 1]].size \in Nat
        BY <1>2, <4>1
      <4> QED
        BY <3>1, <3>2, <4>2
    <3> QED
      BY <3>1, <3>2
  <2>2. \A n \in Nat, s \in Nat : n < L => step[<<n, s>>] = s + e[o[n + 1]].size
    OBVIOUS
  <2> HIDE DEF step
  <2>3. PICK g \in [Nat -> Nat] : g[0] = 0 /\ \A n \in Nat : g[n + 1] = step[<<n, g[n]>>]
    <3>1. PICK S : S = Nat
      OBVIOUS
    <3>2. PICK b \in S : b = 0
      BY <3>1
    <3>3. step \in [Nat \X S -> S]
      BY <2>1, <3>1
    <3>4. PICK g : Follows(g, S, b, step)
      BY ONLY <3>2, <3>3, RecursionExists
    <3> QED
      BY ONLY <3>1, <3>2, <3>4 DEF Follows
  <2> DEFINE f == [n \in 0..L |-> g[n]]
  <2>4. f \in [0..L -> Nat] /\ \A n \in 0..L : f[n] = g[n]
    BY <2>3
  <2>5. \A n \in 0..L : g[n] = IF n = 0 THEN 0 ELSE f[n - 1] + e[o[n]].size
    <3> SUFFICES ASSUME NEW n \in 0..L, n # 0 PROVE g[n] = f[n - 1] + e[o[n]].size
      BY <2>3
    <3>1. n - 1 \in Nat /\ n - 1 < L /\ (n - 1) + 1 = n /\ n - 1 \in 0..L
      <4>1. L \in Nat /\ n \in Nat /\ n <= L /\ n # 0
        BY <1>2
      <4> QED
        BY ONLY <4>1
    <3>2. g[n - 1] \in Nat /\ f[n - 1] = g[n - 1]
      BY <2>3, <2>4, <3>1
    <3> QED
      BY <2>2, <2>3, <3>1, <3>2
  <2>6. f = [n \in 0..L |-> IF n = 0 THEN 0 ELSE f[n - 1] + e[o[n]].size]
    BY <2>5
  <2> HIDE DEF f
  <2>7. f = next(f)
    BY <2>6
  <2> QED
    BY <2>4, <2>7
<1>4. sum = CHOOSE f : f = next(f)
  OBVIOUS
<1> HIDE DEF sum, next
<1>5. sum = next(sum)
  BY <1>3, <1>4
<1>6. sum[0] = 0 /\ \A n \in 1..L : sum[n] = sum[n - 1] + e[o[n]].size
  BY <1>2, <1>5 DEF next
<1>7. sum = [n \in 0..L |-> sum[n]]
  <2>1. DOMAIN next(sum) = 0..L /\ next(sum) = [n \in 0..L |-> next(sum)[n]]
    BY DEF next
  <2> HIDE DEF next
  <2> QED
    BY <1>5, <2>1
<1> DEFINE T == {n \in Nat : n <= L => sum[n] \in Nat}
<1>8. 0 \in T
  BY <1>6
<1>9. ASSUME NEW n \in Nat, n \in T PROVE n + 1 \in T
  <2> SUFFICES ASSUME n + 1 <= L PROVE sum[n + 1] \in Nat
    OBVIOUS
  <2>1. n + 1 \in 1..L /\ (n + 1) - 1 = n /\ sum[n] \in Nat
    BY <1>2, <1>9
  <2>2. e[o[n + 1]].size \in Nat /\ sum[n + 1] = sum[n] + e[o[n + 1]].size
    BY <1>2, <1>6, <2>1
  <2> QED
    BY ONLY <2>1, <2>2
<1> HIDE DEF T
<1>10. \A n \in Nat : n \in T
  BY <1>8, <1>9, SetInduction
<1>11. \A n \in 0..L : sum[n] \in Nat
  BY <1>10 DEF T
<1>12. sum \in [0..L -> Nat]
  BY <1>7, <1>11
<1> QED
  BY <1>1, <1>6, <1>12 DEF Sums, L

\* Two sums grow by the same amounts from a to b.
Parallel(p, q, a, b) ==
  /\ \A n \in a..b : p[n] \in Int /\ q[n] \in Int
  /\ \A n \in (a + 1)..b : p[n] - p[n - 1] = q[n] - q[n - 1]

LEMMA SumsKeepPace ==
  ASSUME NEW a \in Nat, NEW b \in Nat, a <= b, NEW p, NEW q, Parallel(p, q, a, b)
  PROVE  p[b] - p[a] = q[b] - q[a]
<1> USE DEF Parallel
<1> DEFINE T == {n \in Nat : a <= n /\ n <= b => p[n] - p[a] = q[n] - q[a]}
<1>1. p[a] \in Int /\ q[a] \in Int
  OBVIOUS
<1>2. 0 \in T
  BY <1>1
<1>3. ASSUME NEW n \in Nat, n \in T PROVE n + 1 \in T
  <2> SUFFICES ASSUME a <= n + 1, n + 1 <= b PROVE p[n + 1] - p[a] = q[n + 1] - q[a]
    OBVIOUS
  <2>1. CASE a = n + 1
    BY <1>1, <2>1
  <2>2. CASE a # n + 1
    <3>1. n + 1 \in (a + 1)..b /\ n \in a..b /\ n + 1 \in a..b /\ (n + 1) - 1 = n
      BY <2>2
    <3>2. p[n + 1] - p[n] = q[n + 1] - q[n]
      BY <3>1
    <3>3. p[n] - p[a] = q[n] - q[a]
      BY <1>3, <3>1
    <3>4. p[n] \in Int /\ p[n + 1] \in Int /\ q[n] \in Int /\ q[n + 1] \in Int
      BY <3>1
    <3> QED
      BY ONLY <1>1, <3>2, <3>3, <3>4
  <2> QED
    BY <2>1, <2>2
<1> HIDE DEF T
<1>4. \A n \in Nat : n \in T
  BY <1>2, <1>3, SetInduction
<1> QED
  BY <1>4 DEF T

-----------------------------------------------------------------------------
(* Taking a key out of the order, the oldest keys, and putting one in *)

\* r is o without its i-th key.
Dropped(r, o, i) ==
  /\ r \in Seq(Keys) /\ Len(r) = Len(o) - 1
  /\ \A j \in 1..Len(r) : r[j] = IF j < i THEN o[j] ELSE o[j + 1]

LEMMA WithoutListed ==
  ASSUME NEW o \in Seq(Keys), IsInjective(o), NEW i \in 1..Len(o), NEW k, k = o[i]
  PROVE  Dropped(Without(o, k), o, i)
<1> DEFINE I == {j \in 1..Len(o) : o[j] = k}
<1>1. I = {i}
  BY DEF IsInjective
<1>2. Min(I) = i
  BY <1>1 DEF Min
<1>3. Without(o, k) = RemoveAt(o, i)
  BY <1>1, <1>2 DEF Without, RemoveFirst, SelectInSeq
<1>4. PICK s, t : s = SubSeq(o, 1, i - 1) /\ t = SubSeq(o, i + 1, Len(o))
  OBVIOUS
<1>5. /\ s \in Seq(Keys) /\ Len(s) = i - 1 /\ \A j \in 1..(i - 1) : s[j] = o[j]
  BY <1>4
<1>6. /\ t \in Seq(Keys) /\ Len(t) = Len(o) - i /\ \A j \in 1..(Len(o) - i) : t[j] = o[j + i]
  BY <1>4
<1>7. Without(o, k) = s \o t
  BY <1>3, <1>4 DEF RemoveAt
<1>8. s \o t \in Seq(Keys) /\ Len(s \o t) = Len(o) - 1
  BY <1>5, <1>6
<1>9. ASSUME NEW j \in 1..(Len(o) - 1) PROVE (s \o t)[j] = IF j < i THEN o[j] ELSE o[j + 1]
  <2>1. CASE j < i
    <3>1. (s \o t)[j] = s[j]
      BY <1>5, <1>6, <2>1
    <3> QED
      BY <1>5, <2>1, <3>1
  <2>2. CASE ~(j < i)
    <3>1. (s \o t)[j] = t[j - (i - 1)] /\ j - (i - 1) \in 1..(Len(o) - i) /\ (j - (i - 1)) + i = j + 1
      BY <1>5, <1>6, <2>2
    <3> QED
      BY <1>6, <2>2, <3>1
  <2> QED
    BY <2>1, <2>2
<1> QED
  BY <1>7, <1>8, <1>9 DEF Dropped

LEMMA WithoutUnlisted ==
  ASSUME NEW o \in Seq(Keys), NEW k, \A j \in 1..Len(o) : o[j] # k
  PROVE  Without(o, k) = o
BY DEF Without, RemoveFirst

\* The order o lists what is present in the entries e, once each; b is its size.
Views(e, o, b) ==
  /\ e \in Entries /\ o \in Seq(Keys) /\ IsInjective(o)
  /\ \A j \in Keys : e[j].size > 0 <=> \E a \in 1..Len(o) : o[a] = j
  /\ b = BytesOf(e, o)[Len(o)]

LEMMA ViewsSums ==
  ASSUME NEW e, NEW o, NEW b, Views(e, o, b)
  PROVE  \E p : /\ p = BytesOf(e, o) /\ Sums(p, e, o) /\ b = p[Len(o)]
                /\ Len(o) \in Nat /\ b \in Nat /\ \A n \in 0..Len(o) : p[n] \in Nat
<1>1. PICK p : p = BytesOf(e, o)
  OBVIOUS
<1>2. Sums(p, e, o)
  BY <1>1, SumsExist DEF Views
<1>3. Len(o) \in Nat
  BY DEF Views
<1>4. \A n \in 0..Len(o) : p[n] \in Nat
  BY <1>2 DEF Sums
<1>5. b = p[Len(o)]
  BY <1>1 DEF Views
<1>6. b \in Nat
  BY <1>3, <1>4, <1>5
<1> QED
  BY <1>1, <1>2, <1>3, <1>4, <1>5, <1>6

\* Entries that agree on the keys of o give o the same bytes.
Agree(e, f, o) == \A a \in 1..Len(o) : f[o[a]].size = e[o[a]].size

LEMMA SumsAgree ==
  ASSUME NEW e, NEW f, NEW o \in Seq(Keys), NEW p, NEW q, Sums(p, e, o), Sums(q, f, o),
         Agree(e, f, o)
  PROVE  \A n \in 0..Len(o) : q[n] = p[n]
<1>1. p[0] = 0 /\ q[0] = 0 /\ Len(o) \in Nat
  BY DEF Sums
<1>2. \A i \in 1..Len(o) : p[i] = p[i - 1] + e[o[i]].size /\ q[i] = q[i - 1] + f[o[i]].size
  BY DEF Sums
<1> DEFINE T == {n \in Nat : n <= Len(o) => q[n] = p[n]}
<1>3. 0 \in T
  BY <1>1
<1>4. ASSUME NEW n \in Nat, n \in T PROVE n + 1 \in T
  <2> SUFFICES ASSUME n + 1 <= Len(o) PROVE q[n + 1] = p[n + 1]
    OBVIOUS
  <2>1. n + 1 \in 1..Len(o) /\ (n + 1) - 1 = n /\ q[n] = p[n]
    BY <1>1, <1>4
  <2> QED
    BY <1>2, <2>1 DEF Agree
<1> HIDE DEF T
<1>5. \A n \in Nat : n \in T
  BY <1>3, <1>4, SetInduction
<1> QED
  BY <1>1, <1>5 DEF T
LEMMA DroppedKeys ==
  ASSUME NEW o \in Seq(Keys), IsInjective(o), NEW i \in 1..Len(o), NEW r, Dropped(r, o, i)
  PROVE  /\ IsInjective(r)
         /\ \A j \in Keys : (\E a \in 1..Len(r) : r[a] = j)
                               <=> (j # o[i] /\ \E a \in 1..Len(o) : o[a] = j)
<1> DEFINE at(a) == IF a < i THEN a ELSE a + 1
<1>1. /\ r \in Seq(Keys) /\ Len(r) \in Nat /\ Len(o) \in Nat /\ Len(r) = Len(o) - 1
      /\ \A a \in 1..Len(r) : r[a] = o[at(a)]
  BY DEF Dropped
<1>2. \A a \in 1..Len(r) : at(a) \in 1..Len(o) /\ at(a) # i
  BY <1>1
<1>3. \A a \in 1..Len(o) \ {i} : \E c \in 1..Len(r) : at(c) = a
  <2> SUFFICES ASSUME NEW a \in 1..Len(o), a # i PROVE \E c \in 1..Len(r) : at(c) = a
    OBVIOUS
  <2>1. CASE a < i
    BY <1>1, <2>1
  <2>2. CASE ~(a < i)
    <3>1. a - 1 \in 1..Len(r) /\ at(a - 1) = a
      BY <1>1, <2>2
    <3> QED
      BY <3>1
  <2> QED
    BY <2>1, <2>2
<1>4. \A a, c \in 1..Len(r) : at(a) = at(c) => a = c
  OBVIOUS
<1> HIDE DEF at
<1>5. IsInjective(r)
  <2> SUFFICES ASSUME NEW a \in 1..Len(r), NEW c \in 1..Len(r), r[a] = r[c] PROVE a = c
    BY <1>1 DEF IsInjective
  <2>1. o[at(a)] = o[at(c)] /\ at(a) \in DOMAIN o /\ at(c) \in DOMAIN o
    BY <1>1, <1>2
  <2>2. at(a) = at(c)
    BY <2>1 DEF IsInjective
  <2> QED
    BY <1>4, <2>2
<1>6. ASSUME NEW j \in Keys, NEW a \in 1..Len(r), r[a] = j
      PROVE  j # o[i] /\ \E c \in 1..Len(o) : o[c] = j
  <2>1. j = o[at(a)] /\ at(a) \in 1..Len(o) /\ at(a) # i
    BY <1>1, <1>2, <1>6
  <2> QED
    BY <2>1 DEF IsInjective
<1>7. ASSUME NEW j \in Keys, j # o[i], NEW a \in 1..Len(o), o[a] = j
      PROVE  \E c \in 1..Len(r) : r[c] = j
  <2>1. PICK c \in 1..Len(r) : at(c) = a
    BY <1>3, <1>7
  <2> QED
    BY <1>1, <1>7, <2>1
<1> QED
  BY <1>5, <1>6, <1>7

LEMMA DroppedBytes ==
  ASSUME NEW e \in Entries, NEW o \in Seq(Keys), NEW i \in 1..Len(o), NEW r, Dropped(r, o, i),
         NEW p, NEW q, Sums(p, e, o), Sums(q, e, r)
  PROVE  q[Len(r)] = p[Len(o)] - e[o[i]].size
<1>1. PICK L \in Nat : L = Len(o) /\ Len(r) = L - 1 /\ L - 1 \in Nat /\ i \in 1..L
  BY DEF Dropped
<1>2. /\ p \in [0..L -> Nat] /\ p[0] = 0 /\ \A n \in 1..L : p[n] = p[n - 1] + e[o[n]].size
      /\ q \in [0..(L - 1) -> Nat] /\ q[0] = 0
      /\ \A n \in 1..(L - 1) : q[n] = q[n - 1] + e[r[n]].size
  BY <1>1 DEF Sums
<1>3. \A j \in 1..(L - 1) : r[j] = IF j < i THEN o[j] ELSE o[j + 1]
  BY <1>1 DEF Dropped
<1>4. \A n \in 0..L : p[n] \in Int
  BY <1>2
<1>5. \A n \in 0..(L - 1) : q[n] \in Int
  BY <1>2
<1>6. ASSUME NEW n \in 1..L PROVE e[o[n]].size \in Nat /\ p[n] - p[n - 1] = e[o[n]].size
  <2>1. o[n] \in Keys /\ n \in 0..L /\ n - 1 \in 0..L
    BY <1>1
  <2>2. e[o[n]].size \in Nat
    BY <2>1 DEF Entries
  <2>3. p[n] \in Int /\ p[n - 1] \in Int /\ p[n] = p[n - 1] + e[o[n]].size
    BY <1>2, <1>4, <2>1
  <2> QED
    BY ONLY <2>2, <2>3
<1>7. ASSUME NEW n \in 1..(L - 1) PROVE q[n] - q[n - 1] = e[r[n]].size
  <2>1. n \in 1..L /\ n + 1 \in 1..L /\ n \in 0..(L - 1) /\ n - 1 \in 0..(L - 1)
    BY <1>1
  <2>2. e[r[n]].size \in Nat
    BY <1>3, <1>6, <2>1
  <2>3. q[n] \in Int /\ q[n - 1] \in Int /\ q[n] = q[n - 1] + e[r[n]].size
    BY <1>2, <1>5, <2>1
  <2> QED
    BY ONLY <2>2, <2>3
<1>8. PICK m \in Nat : m = i - 1 /\ m <= L - 1 /\ L - 1 \in Nat
  <2>1. i - 1 \in Nat /\ i - 1 <= L - 1 /\ L - 1 \in Nat
    BY ONLY <1>1
  <2> QED
    BY ONLY <2>1
<1>9. q[m] = p[m]
  <2>1. \A n \in 0..m : q[n] \in Int /\ p[n] \in Int
    BY <1>1, <1>4, <1>5, <1>8
  <2>2. ASSUME NEW n \in (0 + 1)..m PROVE q[n] - q[n - 1] = p[n] - p[n - 1]
    <3>1. n \in 1..L /\ n \in 1..(L - 1) /\ n < i
      BY ONLY <1>1, <1>8, n \in (0 + 1)..m
    <3> QED
      BY <1>3, <1>6, <1>7, <3>1
  <2>3. q[m] - q[0] = p[m] - p[0]
    <3>1. Parallel(q, p, 0, m) /\ 0 <= m
      BY <2>1, <2>2 DEF Parallel
    <3> QED
      BY ONLY <1>8, <3>1, m \in Nat, SumsKeepPace
  <2>4. p[m] \in Int /\ q[m] \in Int
    BY <1>8, <2>1
  <2> QED
    BY ONLY <1>2, <2>3, <2>4
<1>10. q[L - 1] - q[m] = p[L] - p[i]
  <2> DEFINE s == [n \in m..(L - 1) |-> p[n + 1]]
  <2>1. \A n \in m..(L - 1) : s[n] = p[n + 1] /\ n + 1 \in 0..L /\ n \in 0..(L - 1)
    BY <1>1, <1>8
  <2>2. \A n \in m..(L - 1) : q[n] \in Int /\ s[n] \in Int
    BY <1>4, <1>5, <2>1
  <2>3. ASSUME NEW n \in (m + 1)..(L - 1) PROVE q[n] - q[n - 1] = s[n] - s[n - 1]
    <3>1. /\ n \in 1..(L - 1) /\ n + 1 \in 1..L /\ ~(n < i) /\ (n + 1) - 1 = n
          /\ n \in m..(L - 1) /\ n - 1 \in m..(L - 1) /\ (n - 1) + 1 = n
      BY ONLY <1>1, <1>8, n \in (m + 1)..(L - 1)
    <3>2. q[n] - q[n - 1] = e[r[n]].size /\ r[n] = o[n + 1]
      BY <1>3, <1>7, <3>1
    <3>3. p[n + 1] - p[n] = e[o[n + 1]].size
      BY <1>6, <3>1
    <3>4. s[n] = p[n + 1] /\ s[n - 1] = p[n]
      BY <2>1, <3>1
    <3> QED
      BY ONLY <3>2, <3>3, <3>4
  <2>4. m \in m..(L - 1) /\ L - 1 \in m..(L - 1) /\ m + 1 = i /\ (L - 1) + 1 = L
    BY <1>1, <1>8
  <2>5. s[m] = p[i] /\ s[L - 1] = p[L]
    BY <2>1, <2>4
  <2> HIDE DEF s
  <2>6. q[L - 1] - q[m] = s[L - 1] - s[m]
    <3>1. Parallel(q, s, m, L - 1)
      BY <2>2, <2>3 DEF Parallel
    <3> QED
      BY ONLY <1>8, <3>1, m \in Nat, SumsKeepPace
  <2> QED
    BY ONLY <2>5, <2>6
<1>11. p[i] - p[m] = e[o[i]].size /\ e[o[i]].size \in Nat
  <2>1. p[i] - p[i - 1] = e[o[i]].size /\ e[o[i]].size \in Nat
    BY <1>1, <1>6
  <2> QED
    BY ONLY <1>8, <2>1
<1>12. /\ p[L] \in Int /\ p[i] \in Int /\ p[m] \in Int
       /\ q[L - 1] \in Int /\ q[m] \in Int
  <2>1. L \in 0..L /\ i \in 0..L /\ m \in 0..L /\ L - 1 \in 0..(L - 1) /\ m \in 0..(L - 1)
    BY ONLY <1>1, <1>8
  <2> QED
    BY ONLY <1>4, <1>5, <2>1
<1>13. q[L - 1] = p[L] - e[o[i]].size
  <2>1. PICK x, y, z, u, v : x = q[L - 1] /\ y = p[m] /\ z = p[L] /\ u = p[i] /\ v = e[o[i]].size
    OBVIOUS
  <2>2. x \in Int /\ y \in Int /\ z \in Int /\ u \in Int /\ v \in Nat
    BY <1>11, <1>12, <2>1
  <2>3. x - y = z - u /\ u - y = v
    BY <1>9, <1>10, <1>11, <2>1
  <2>4. x = z - v
    BY ONLY <2>2, <2>3
  <2> QED
    BY ONLY <2>1, <2>4
<1>14. Len(r) = L - 1 /\ Len(o) = L
  BY ONLY <1>1
<1> QED
  BY ONLY <1>13, <1>14

-----------------------------------------------------------------------------
(* What the operations do to the views *)

\* removeLocked, of a key that may be absent, leaves f, r and c.
Removal(k, e, o, b, f, r, c) ==
  /\ Views(e, o, b)
  /\ f = [e EXCEPT ![k] = NoEntry] /\ r = Without(o, k) /\ c = b - e[k].size

LEMMA ViewsDrop ==
  ASSUME NEW k \in Keys, NEW e, NEW o, NEW b, NEW f, NEW r, NEW c, Removal(k, e, o, b, f, r, c)
  PROVE  /\ Views(f, r, c) /\ f[k].size = 0
         /\ Len(r) <= Len(o) /\ (e[k].size > 0 => Len(r) = Len(o) - 1)
<1> SUFFICES ASSUME Views(e, o, b), f = [e EXCEPT ![k] = NoEntry], r = Without(o, k)
             PROVE  /\ Views(f, r, b - e[k].size) /\ f[k].size = 0
                    /\ Len(r) <= Len(o) /\ (e[k].size > 0 => Len(r) = Len(o) - 1)
  BY DEF Removal
<1>1. e \in Entries /\ o \in Seq(Keys) /\ IsInjective(o) /\ Len(o) \in Nat
  BY DEF Views
<1>2. /\ f \in Entries /\ f[k].size = 0 /\ \A j \in Keys : j # k => f[j] = e[j]
  BY <1>1 DEF Entries, NoEntry
<1>3. PICK p : Sums(p, e, o) /\ b = p[Len(o)] /\ b \in Nat
  BY ViewsSums
<1>4. e[k].size \in Nat
  BY <1>1 DEF Entries
<1>5. CASE e[k].size > 0
  <2>1. PICK i \in 1..Len(o) : o[i] = k
    BY <1>5 DEF Views
  <2>2. Dropped(r, o, i)
    BY <1>1, <2>1, WithoutListed
  <2>3. r \in Seq(Keys) /\ Len(r) = Len(o) - 1 /\ Len(r) \in Nat
    BY <2>2 DEF Dropped
  <2>4. /\ IsInjective(r)
        /\ \A j \in Keys : (\E a \in 1..Len(r) : r[a] = j)
                              <=> (j # k /\ \E a \in 1..Len(o) : o[a] = j)
    BY <1>1, <2>1, <2>2, DroppedKeys, SMTT(30)
  <2>5. \A j \in Keys : f[j].size > 0 <=> \E a \in 1..Len(r) : r[a] = j
    <3> TAKE j \in Keys
    <3>1. CASE j = k
      BY <1>2, <2>4, <3>1
    <3>2. CASE j # k
      BY <1>2, <2>4, <3>2 DEF Views
    <3> QED
      BY <3>1, <3>2
  <2>6. PICK q : q = BytesOf(e, r)
    OBVIOUS
  <2>7. PICK t : t = BytesOf(f, r)
    OBVIOUS
  <2>8. Sums(q, e, r) /\ Sums(t, f, r)
    BY <1>1, <1>2, <2>3, <2>6, <2>7, SumsExist
  <2>9. q[Len(r)] = p[Len(o)] - e[k].size
    BY <1>1, <1>3, <2>1, <2>2, <2>8, DroppedBytes
  <2>10. t[Len(r)] = q[Len(r)]
    <3>1. Agree(e, f, r)
      <4> SUFFICES ASSUME NEW a \in 1..Len(r) PROVE f[r[a]].size = e[r[a]].size
        BY DEF Agree
      <4>1. r[a] \in Keys /\ r[a] # k
        BY <2>3, <2>4
      <4> QED
        BY <1>2, <4>1
    <3>2. \A n \in 0..Len(r) : t[n] = q[n]
      BY <2>3, <2>8, <3>1, SumsAgree
    <3> QED
      BY <2>3, <3>2
  <2>11. BytesOf(f, r)[Len(r)] = b - e[k].size
    BY <1>3, <2>7, <2>9, <2>10
  <2>12. Views(f, r, b - e[k].size)
    BY <1>2, <2>3, <2>4, <2>5, <2>11 DEF Views
  <2> QED
    BY <1>1, <1>2, <2>3, <2>12
<1>6. CASE ~(e[k].size > 0)
  <2>1. e[k].size = 0 /\ \A a \in 1..Len(o) : o[a] # k
    BY <1>4, <1>6 DEF Views
  <2>2. r = o
    BY <1>1, <2>1, WithoutUnlisted
  <2>3. \A j \in Keys : f[j].size = e[j].size
    BY <1>2, <2>1
  <2>4. \A j \in Keys : f[j].size > 0 <=> \E a \in 1..Len(r) : r[a] = j
    BY <2>2, <2>3 DEF Views
  <2>5. PICK t : t = BytesOf(f, o) /\ Sums(t, f, o)
    BY <1>1, <1>2, SumsExist
  <2>6. Agree(e, f, o)
    BY <1>1, <2>3 DEF Agree
  <2>7. \A n \in 0..Len(o) : t[n] = p[n]
    BY <1>1, <1>3, <2>5, <2>6, SumsAgree
  <2>8. t[Len(o)] = b
    BY <1>1, <1>3, <2>7
  <2>9. b - e[k].size = b
    BY <1>3, <2>1
  <2>10. Views(f, r, b - e[k].size)
    BY <1>1, <1>2, <2>2, <2>4, <2>5, <2>8, <2>9 DEF Views
  <2> QED
    BY <1>1, <1>2, <1>6, <2>2, <2>10
<1> QED
  BY <1>5, <1>6
\* The new entry of a key that is absent goes to the end of the order.
Addition(k, x, z, e, o, b, f, r, c) ==
  /\ Views(e, o, b) /\ e[k].size = 0 /\ x \in Nat /\ z \in Nat \ {0}
  /\ f = [e EXCEPT ![k] = [exp |-> x, size |-> z]] /\ r = Append(o, k) /\ c = b + z

LEMMA ViewsAdd ==
  ASSUME NEW k \in Keys, NEW x, NEW z, NEW e, NEW o, NEW b, NEW f, NEW r, NEW c,
         Addition(k, x, z, e, o, b, f, r, c)
  PROVE  Views(f, r, c) /\ Len(r) = Len(o) + 1
<1> SUFFICES ASSUME Views(e, o, b), e[k].size = 0, x \in Nat, z \in Nat \ {0},
                    f = [e EXCEPT ![k] = [exp |-> x, size |-> z]], r = Append(o, k)
             PROVE  Views(f, r, b + z) /\ Len(r) = Len(o) + 1
  BY DEF Addition
<1>1. e \in Entries /\ o \in Seq(Keys) /\ IsInjective(o) /\ Len(o) \in Nat
  BY DEF Views
<1>2. f \in Entries /\ f[k].size = z /\ \A j \in Keys : j # k => f[j] = e[j]
  BY <1>1 DEF Entries
<1>3. PICK p : Sums(p, e, o) /\ b = p[Len(o)] /\ b \in Nat
  BY ViewsSums
<1>4. \A a \in 1..Len(o) : o[a] \in Keys /\ o[a] # k
  BY <1>1 DEF Views
<1>5. PICK L \in Nat : L = Len(o) /\ Len(r) = L + 1
  BY <1>1
<1>6. r \in Seq(Keys) /\ r[L + 1] = k /\ \A a \in 1..L : r[a] = o[a]
  BY <1>1, <1>5
<1>7. IsInjective(r)
  <2> SUFFICES ASSUME NEW a \in 1..(L + 1), NEW d \in 1..(L + 1), r[a] = r[d] PROVE a = d
    BY <1>5, <1>6 DEF IsInjective
  <2>1. CASE a \in 1..L /\ d \in 1..L
    <3>1. o[a] = o[d] /\ a \in DOMAIN o /\ d \in DOMAIN o
      BY <1>1, <1>5, <1>6, <2>1
    <3> QED
      BY <1>1, <3>1 DEF IsInjective
  <2>2. CASE a = L + 1 \/ d = L + 1
    BY <1>4, <1>5, <1>6, <2>2
  <2> QED
    BY <2>1, <2>2
<1>8. \A j \in Keys : f[j].size > 0 <=> \E a \in 1..Len(r) : r[a] = j
  <2> TAKE j \in Keys
  <2>1. CASE j = k
    <3>1. L + 1 \in 1..Len(r) /\ r[L + 1] = j /\ f[j].size > 0
      BY <1>2, <1>5, <1>6, <2>1
    <3> QED
      BY <3>1
  <2>2. CASE j # k
    <3>1. f[j].size > 0 <=> \E a \in 1..Len(o) : o[a] = j
      BY <1>2, <2>2 DEF Views
    <3>2. \A a \in 1..Len(r) : r[a] = j => a \in 1..L /\ o[a] = j
      BY <1>5, <1>6, <2>2
    <3>3. \A a \in 1..Len(o) : a \in 1..Len(r) /\ r[a] = o[a]
      BY <1>5, <1>6
    <3> QED
      BY <1>5, <3>1, <3>2, <3>3
  <2> QED
    BY <2>1, <2>2
<1>9. PICK q : q = BytesOf(f, r) /\ Sums(q, f, r)
  BY <1>2, <1>6, SumsExist
<1> DEFINE h == [n \in 0..L |-> q[n]]
<1>10. /\ q[0] = 0 /\ \A n \in 1..(L + 1) : q[n] = q[n - 1] + f[r[n]].size
       /\ \A n \in 0..(L + 1) : q[n] \in Nat
  BY <1>5, <1>9 DEF Sums
<1>11. \A n \in 0..L : n \in 0..(L + 1) /\ h[n] = q[n]
  OBVIOUS
<1>12. h \in [0..L -> Nat]
  BY <1>10, <1>11
<1> HIDE DEF h
<1>13. Sums(h, f, o)
  <2>1. h[0] = 0
    BY <1>10, <1>11
  <2>2. ASSUME NEW n \in 1..L PROVE h[n] = h[n - 1] + f[o[n]].size
    <3>1. n \in 0..L /\ n - 1 \in 0..L /\ n \in 1..(L + 1)
      OBVIOUS
    <3> QED
      BY <1>6, <1>10, <1>11, <3>1
  <2> QED
    BY <1>5, <1>12, <2>1, <2>2 DEF Sums
<1>14. Agree(e, f, o)
  BY <1>2, <1>4 DEF Agree
<1>15. \A n \in 0..Len(o) : h[n] = p[n]
  BY <1>1, <1>3, <1>13, <1>14, SumsAgree
<1>16. q[L] = b
  BY <1>3, <1>5, <1>11, <1>15
<1>17. q[L + 1] = b + z
  <2>1. L + 1 \in 1..(L + 1) /\ (L + 1) - 1 = L
    OBVIOUS
  <2>2. q[L + 1] = q[L] + f[r[L + 1]].size
    BY ONLY <1>10, <2>1
  <2>3. f[r[L + 1]].size = z
    BY ONLY <1>2, <1>6
  <2> QED
    BY ONLY <1>16, <2>2, <2>3
<1> QED
  BY <1>2, <1>5, <1>6, <1>7, <1>8, <1>9, <1>17 DEF Views

\* The first n of the order go.
Evicted(e, o, n) == [j \in Keys |-> IF \E i \in 1..n : o[i] = j THEN NoEntry ELSE e[j]]

Eviction(n, p, e, o, b, f, r, c) ==
  /\ Views(e, o, b) /\ Sums(p, e, o) /\ n \in 0..Len(o)
  /\ f = Evicted(e, o, n) /\ r = SubSeq(o, n + 1, Len(o)) /\ c = b - p[n]

LEMMA ViewsEvict ==
  ASSUME NEW n \in Nat, NEW p, NEW e, NEW o, NEW b, NEW f, NEW r, NEW c, Eviction(n, p, e, o, b, f, r, c)
  PROVE  Views(f, r, c) /\ Len(r) = Len(o) - n
<1> SUFFICES ASSUME Views(e, o, b), Sums(p, e, o), n \in 0..Len(o), f = Evicted(e, o, n),
                    r = SubSeq(o, n + 1, Len(o))
             PROVE  Views(f, r, b - p[n]) /\ Len(r) = Len(o) - n
  BY DEF Eviction
<1>1. e \in Entries /\ o \in Seq(Keys) /\ IsInjective(o) /\ Len(o) \in Nat
  BY DEF Views
<1>2. PICK L \in Nat : L = Len(o) /\ n \in Nat /\ n <= L
  BY <1>1
<1>3. PICK m \in Nat : m = L - n
  <2>1. L - n \in Nat
    BY ONLY <1>2, L \in Nat
  <2> QED
    BY ONLY <2>1
<1>4. r \in Seq(Keys) /\ Len(r) = m /\ \A a \in 1..m : r[a] = o[a + n]
  BY <1>1, <1>2, <1>3
<1>5. \A a \in 1..m : a + n \in 1..L /\ ~(a + n <= n)
  BY <1>2, <1>3
<1>6. \A i \in 1..L, j \in 1..L : o[i] = o[j] => i = j
  BY <1>1, <1>2 DEF IsInjective
<1>7. f \in Entries
  <2>1. NoEntry \in [exp : Nat, size : Nat]
    BY DEF NoEntry
  <2> QED
    BY <1>1, <2>1 DEF Entries, Evicted
<1>8. \A a \in 1..m : r[a] \in Keys /\ f[r[a]] = e[r[a]]
  <2> TAKE a \in 1..m
  <2>1. r[a] \in Keys /\ r[a] = o[a + n] /\ a + n \in 1..L
    <3>1. r[a] \in Keys
      BY <1>4
    <3> QED
      BY ONLY <1>4, <1>5, <3>1, a \in 1..m
  <2>2. ~\E i \in 1..n : o[i] = r[a]
    <3> SUFFICES ASSUME NEW i \in 1..n, o[i] = o[a + n] PROVE FALSE
      BY <2>1
    <3>1. i \in 1..L /\ i <= n
      BY <1>2
    <3>2. i = a + n
      BY <1>6, <2>1, <3>1
    <3> QED
      BY <1>5, <3>1, <3>2
  <2> QED
    BY <2>1, <2>2 DEF Evicted
<1>9. IsInjective(r)
  <2>1. DOMAIN r = 1..m
    BY ONLY <1>4
  <2>2. ASSUME NEW a \in 1..m, NEW d \in 1..m, r[a] = r[d] PROVE a = d
    <3>1. a + n = d + n
      BY <1>4, <1>5, <1>6, <2>2
    <3> QED
      BY <1>2, <3>1
  <2> QED
    BY ONLY <2>1, <2>2 DEF IsInjective
<1>10. \A j \in Keys : f[j].size > 0 <=> \E a \in 1..Len(r) : r[a] = j
  <2>1. ASSUME NEW j \in Keys, NEW a \in 1..m, r[a] = j PROVE f[j].size > 0
    <3>1. f[j] = e[j] /\ a + n \in 1..L /\ o[a + n] = j
      BY <1>4, <1>5, <1>8, <2>1
    <3> QED
      BY <1>2, <3>1 DEF Views
  <2>2. ASSUME NEW j \in Keys, f[j].size > 0 PROVE \E a \in 1..m : r[a] = j
    <3>1. f[j] = e[j] /\ ~\E i \in 1..n : o[i] = j
      BY <2>2 DEF NoEntry, Evicted
    <3>2. PICK i \in 1..L : o[i] = j
      BY <1>2, <2>2, <3>1 DEF Views
    <3>3. ~(i <= n)
      BY <1>2, <3>1, <3>2
    <3>4. i - n \in 1..m /\ (i - n) + n = i
      BY <1>2, <1>3, <3>3
    <3> QED
      BY <1>4, <3>2, <3>4
  <2> QED
    BY <1>4, <2>1, <2>2
<1>11. PICK t : t = BytesOf(f, r) /\ Sums(t, f, r)
  BY <1>4, <1>7, SumsExist
<1>12. /\ t[0] = 0 /\ \A a \in 1..m : t[a] = t[a - 1] + f[r[a]].size
       /\ \A a \in 0..m : t[a] \in Nat
  BY <1>4, <1>11 DEF Sums
<1>13. /\ \A a \in 1..L : p[a] = p[a - 1] + e[o[a]].size
       /\ \A a \in 0..L : p[a] \in Nat
  BY <1>2 DEF Sums
<1> DEFINE s == [a \in 0..m |-> p[a + n]]
<1>14. \A a \in 0..m : s[a] = p[a + n] /\ a + n \in 0..L
  BY <1>2, <1>3
<1> HIDE DEF s
<1>15. Parallel(t, s, 0, m)
  <2>1. ASSUME NEW a \in 0..m PROVE t[a] \in Int /\ s[a] \in Int
    <3>1. t[a] \in Nat
      BY ONLY <1>12, a \in 0..m
    <3>2. s[a] \in Nat
      BY ONLY <1>13, <1>14, a \in 0..m
    <3> QED
      BY ONLY <3>1, <3>2
  <2>2. ASSUME NEW a \in (0 + 1)..m PROVE t[a] - t[a - 1] = s[a] - s[a - 1]
    <3>1. /\ a \in 1..m /\ a \in 0..m /\ a - 1 \in 0..m /\ (a - 1) + n = (a + n) - 1
      BY <1>2
    <3>2. t[a] = t[a - 1] + f[r[a]].size /\ f[r[a]] = e[r[a]] /\ r[a] = o[a + n]
      BY <1>4, <1>8, <1>12, <3>1
    <3>3. p[a + n] = p[(a + n) - 1] + e[o[a + n]].size
      BY <1>5, <1>13, <3>1
    <3>4. s[a] = p[a + n] /\ s[a - 1] = p[(a + n) - 1]
      BY <1>14, <3>1
    <3>5. e[o[a + n]].size \in Nat
      BY <1>1, <1>4, <1>8, <3>1 DEF Entries
    <3>6. PICK y : y = e[o[a + n]].size /\ y \in Nat /\ t[a] = t[a - 1] + y /\ s[a] = s[a - 1] + y
      BY <3>2, <3>3, <3>4, <3>5
    <3>7. t[a - 1] \in Int /\ s[a - 1] \in Int
      BY <2>1, <3>1
    <3> QED
      BY ONLY <3>6, <3>7
  <2> QED
    BY <2>1, <2>2 DEF Parallel
<1>16. t[m] - t[0] = s[m] - s[0]
  <2>1. 0 <= m /\ 0 \in Nat
    OBVIOUS
  <2> QED
    BY ONLY <1>15, <2>1, m \in Nat, SumsKeepPace
<1>17. t[m] = b - p[n]
  <2>1. 0 \in 0..m /\ m \in 0..m /\ 0 + n = n /\ m + n = L
    BY <1>2, <1>3
  <2>2. s[0] = p[n] /\ s[m] = p[L] /\ t[m] \in Nat
    BY <1>12, <1>14, <2>1
  <2>3. p[L] = b
    <3>1. PICK q : q = BytesOf(e, o) /\ b = q[Len(o)] /\ Sums(q, e, o)
      BY ViewsSums
    <3>2. Agree(e, e, o)
      BY DEF Agree
    <3>3. \A a \in 0..Len(o) : q[a] = p[a]
      BY <1>1, <3>1, <3>2, SumsAgree
    <3> QED
      BY <1>2, <3>1, <3>3
  <2>4. p[n] \in Nat /\ p[L] \in Nat
    BY <1>2, <1>13
  <2> QED
    BY ONLY <1>12, <1>16, <2>2, <2>3, <2>4
<1> QED
  BY <1>2, <1>3, <1>4, <1>7, <1>9, <1>10, <1>11, <1>17 DEF Views
-----------------------------------------------------------------------------
(* The store *)

LEMMA StoreViews ==
  ASSUME StoreInv
  PROVE  /\ Views(entries, order, bytes)
         /\ Len(order) <= MaxEntries /\ bytes <= MaxBytes
<1>1. /\ entries \in Entries /\ order \in Seq(Keys) /\ IsInjective(order)
      /\ bytes = BytesOf(entries, order)[Len(order)]
      /\ Len(order) <= MaxEntries /\ bytes <= MaxBytes
  BY DEF StoreInv, LRUConsistent, Entries
<1>2. {order[i] : i \in DOMAIN order} = {k \in Keys : Present(k)} /\ DOMAIN order = 1..Len(order)
  BY <1>1 DEF StoreInv, LRUConsistent
<1>3. \A j \in Keys : entries[j].size > 0 <=> \E a \in 1..Len(order) : order[a] = j
  BY <1>2 DEF Present
<1> QED
  BY <1>1, <1>3 DEF Views

LEMMA ViewsStore ==
  ASSUME Views(entries', order', bytes'), Len(order') <= MaxEntries, bytes' <= MaxBytes
  PROVE  StoreInv'
<1>1. /\ entries' \in Entries /\ order' \in Seq(Keys) /\ IsInjective(order')
      /\ bytes' = BytesOf(entries', order')[Len(order')]
      /\ \A j \in Keys : entries'[j].size > 0 <=> \E a \in 1..Len(order') : order'[a] = j
  BY DEF Views
<1>2. DOMAIN order' = 1..Len(order') /\ \A a \in 1..Len(order') : order'[a] \in Keys
  BY <1>1
<1>3. {order'[i] : i \in DOMAIN order'} = {k \in Keys : entries'[k].size > 0}
  BY <1>1, <1>2
<1> QED
  BY <1>1, <1>3 DEF StoreInv, LRUConsistent, Present, Entries

LEMMA RemoveEntryKeeps ==
  ASSUME StoreInv, NEW k \in Keys, RemoveEntry(k)
  PROVE  StoreInv'
<1>1. Views(entries, order, bytes) /\ Len(order) <= MaxEntries /\ bytes <= MaxBytes
  BY StoreViews
<1>2. Removal(k, entries, order, bytes, entries', order', bytes')
  BY <1>1 DEF Removal, RemoveEntry
<1>3. Views(entries', order', bytes') /\ Len(order') <= Len(order)
  BY <1>2, ViewsDrop
<1>4. bytes' = bytes - entries[k].size
  BY DEF RemoveEntry
<1>5. Len(order) \in Nat /\ Len(order') \in Nat /\ entries[k].size \in Nat /\ bytes \in Nat
  <2>1. bytes \in Nat
    BY <1>1, ViewsSums
  <2> QED
    BY <1>1, <1>3, <2>1 DEF Views, Entries
<1>6. Len(order') <= MaxEntries /\ bytes' <= MaxBytes
  BY ONLY <1>1, <1>3, <1>4, <1>5, CacheAssumption, SMTT(30) DEF CacheAssumption
<1> QED
  BY <1>3, <1>6, ViewsStore

LEMMA TouchKeeps ==
  ASSUME StoreInv, NEW k \in Keys, Present(k), Touch(k)
  PROVE  StoreInv'
<1>1. Views(entries, order, bytes) /\ Len(order) <= MaxEntries /\ bytes <= MaxBytes
  BY StoreViews
<1>2. PICK f, r, c : Removal(k, entries, order, bytes, f, r, c)
  BY <1>1 DEF Removal
<1>3. /\ Views(f, r, c) /\ f[k].size = 0
      /\ Len(r) <= Len(order) /\ (entries[k].size > 0 => Len(r) = Len(order) - 1)
  BY <1>2, ViewsDrop
<1>4. /\ f = [entries EXCEPT ![k] = NoEntry] /\ r = Without(order, k)
      /\ c = bytes - entries[k].size
  BY <1>2 DEF Removal
<1>5. Len(r) = Len(order) - 1
  BY <1>3 DEF Present
<1>6. PICK x \in Nat, z \in Nat \ {0} : x = entries[k].exp /\ z = entries[k].size /\ entries \in Entries
  BY <1>1 DEF Views, Entries, Present
<1>7. bytes \in Nat /\ Len(order) \in Nat
  BY <1>1, ViewsSums
<1>8. Addition(k, x, z, f, r, c, entries', order', bytes')
  <2>1. entries' = [f EXCEPT ![k] = [exp |-> x, size |-> z]]
    BY <1>4, <1>6 DEF Entries, Touch
  <2>2. order' = Append(r, k) /\ bytes' = c + z
    BY <1>4, <1>6, <1>7 DEF Touch
  <2> QED
    BY <1>3, <2>1, <2>2 DEF Addition
<1>9. Views(entries', order', bytes') /\ Len(order') = Len(r) + 1
  BY <1>8, ViewsAdd
<1>10. Len(order') <= MaxEntries /\ bytes' <= MaxBytes
  BY <1>1, <1>5, <1>7, <1>9 DEF Touch
<1> QED
  BY <1>9, <1>10, ViewsStore

LEMMA AdmitKeeps ==
  ASSUME StoreInv, NEW k \in Keys, NEW exp \in Nat, NEW size \in Sizes, Admit(k, exp, size)
  PROVE  StoreInv'
<1>1. Views(entries, order, bytes) /\ Len(order) <= MaxEntries /\ bytes <= MaxBytes
  BY StoreViews
<1>2. CASE size > MaxBytes
  BY <1>1, <1>2, ViewsStore DEF Admit, cache
<1>3. CASE ~(size > MaxBytes)
  <2> DEFINE R == Without(order, k)
             left(m) == bytes - entries[k].size - BytesOf(entries, R)[m]
             N == Min({m \in 0..Len(R) : m = Len(R) \/ Fits(Len(R) - m, left(m) + size)})
  <2>0. /\ order' = Append(SubSeq(R, N + 1, Len(R)), k)
        /\ entries' = [j \in Keys |-> IF j = k THEN [exp |-> exp, size |-> size]
                                      ELSE IF \E i \in 1..N : R[i] = j THEN NoEntry
                                      ELSE entries[j]]
        /\ bytes' = left(N) + size
    BY <1>3 DEF Admit
  <2> HIDE DEF N
  <2>1. PICK rest, p, b1 :
          rest = R /\ p = BytesOf(entries, rest) /\ b1 = bytes - entries[k].size
    OBVIOUS
  <2>2. PICK S : S = {m \in 0..Len(rest) : m = Len(rest) \/ Fits(Len(rest) - m, b1 - p[m] + size)}
    OBVIOUS
  <2>3. PICK n : n = N /\ n = Min(S)
    BY <2>1, <2>2 DEF N
  <2>4. /\ order' = Append(SubSeq(rest, n + 1, Len(rest)), k)
        /\ entries' = [j \in Keys |-> IF j = k THEN [exp |-> exp, size |-> size]
                                      ELSE IF \E i \in 1..n : rest[i] = j THEN NoEntry
                                      ELSE entries[j]]
        /\ bytes' = b1 - p[n] + size
    BY ONLY <2>0, <2>1, <2>3
  <2> HIDE DEF R, left
  <2>5. PICK e1 : Removal(k, entries, order, bytes, e1, rest, b1) /\ e1 = [entries EXCEPT ![k] = NoEntry]
    BY <1>1, <2>1 DEF Removal, R
  <2>6. Views(e1, rest, b1) /\ e1[k].size = 0 /\ Len(rest) <= Len(order)
    BY <2>5, ViewsDrop
  <2>7. entries \in Entries /\ rest \in Seq(Keys) /\ Len(rest) \in Nat /\ e1 \in Entries
    BY <1>1, <2>6 DEF Views
  <2>8. n \in S /\ n \in 0..Len(rest)
    <3>1. S \subseteq Nat /\ Len(rest) \in S
      BY <2>2, <2>7
    <3>2. PICK x \in S : \A y \in S : x <= y
      BY <3>1, LeastOf
    <3> QED
      BY <2>2, <2>3, <3>2 DEF Min
  <2>9. PICK q : q = BytesOf(e1, rest) /\ Sums(q, e1, rest)
    BY <2>7, SumsExist
  <2>10. q[n] = p[n]
    <3>1. Agree(entries, e1, rest)
      <4> SUFFICES ASSUME NEW a \in 1..Len(rest) PROVE e1[rest[a]].size = entries[rest[a]].size
        BY DEF Agree
      <4>1. rest[a] \in Keys /\ e1[rest[a]].size > 0
        BY <2>6, <2>7 DEF Views
      <4>2. rest[a] # k
        BY <2>6, <4>1
      <4> QED
        BY <2>5, <2>7, <4>1, <4>2 DEF Entries
    <3>2. Sums(p, entries, rest)
      BY <2>1, <2>7, SumsExist
    <3>3. \A a \in 0..Len(rest) : q[a] = p[a]
      BY <2>7, <2>9, <3>1, <3>2, SumsAgree
    <3> QED
      BY <2>8, <3>3
  <2>11. PICK e2, r2, b2 :
           /\ Eviction(n, q, e1, rest, b1, e2, r2, b2)
           /\ e2 = Evicted(e1, rest, n)
           /\ r2 = SubSeq(rest, n + 1, Len(rest)) /\ b2 = b1 - q[n]
    BY <2>6, <2>8, <2>9 DEF Eviction
  <2>12. Views(e2, r2, b2) /\ Len(r2) = Len(rest) - n
    <3>1. n \in Nat /\ Eviction(n, q, e1, rest, b1, e2, r2, b2)
      BY <2>8, <2>11
    <3> QED
      BY ONLY <3>1, ViewsEvict
  <2>13. e2[k].size = 0
    BY <2>6, <2>11 DEF NoEntry, Evicted
  <2>14. size \in Nat \ {0} /\ MaxEntries \in Nat \ {0}
    BY CacheAssumption DEF CacheAssumption
  <2>15. Addition(k, exp, size, e2, r2, b2, entries', order', bytes')
    <3>1. entries' = [e2 EXCEPT ![k] = [exp |-> exp, size |-> size]]
      BY <2>4, <2>5, <2>7, <2>11 DEF Entries, Evicted
    <3>2. order' = Append(r2, k) /\ bytes' = b2 + size
      BY <2>4, <2>10, <2>11
    <3> QED
      BY <2>12, <2>13, <2>14, <3>1, <3>2 DEF Addition
  <2>16. Views(entries', order', bytes') /\ Len(order') = Len(r2) + 1
    BY <2>15, ViewsAdd
  <2>17. bytes' = b2 + size
    BY <2>15 DEF Addition
  <2>18. Len(order') <= MaxEntries /\ bytes' <= MaxBytes
    <3>1. n = Len(rest) \/ Fits(Len(rest) - n, b1 - p[n] + size)
      BY <2>2, <2>8
    <3>2. CASE n = Len(rest)
      <4>1. Len(r2) = 0
        BY <2>7, <2>12, <3>2
      <4>2. b2 = 0
        <5>1. PICK t : b2 = t[Len(r2)] /\ Sums(t, e2, r2)
          BY <2>12, ViewsSums
        <5> QED
          BY <4>1, <5>1 DEF Sums
      <4> QED
        BY <1>3, <2>14, <2>16, <2>17, <4>1, <4>2, CacheAssumption DEF CacheAssumption
    <3>3. CASE Fits(Len(rest) - n, b1 - p[n] + size)
      BY <2>7, <2>8, <2>10, <2>11, <2>12, <2>14, <2>16, <2>17, <3>3 DEF Fits
    <3> QED
      BY <3>1, <3>2, <3>3
  <2> QED
    BY <2>16, <2>18, ViewsStore
<1> QED
  BY <1>2, <1>3
-----------------------------------------------------------------------------
LEMMA InitStoreInv == Init => StoreInv
<1> SUFFICES ASSUME Init PROVE StoreInv
  OBVIOUS
<1>1. entries = [k \in Keys |-> NoEntry] /\ order = <<>> /\ bytes = 0
  BY DEF Init
<1>2. entries \in Entries /\ order \in Seq(Keys) /\ Len(order) = 0
  BY <1>1 DEF Entries, NoEntry
<1>3. PICK sum : sum = BytesOf(entries, order) /\ Sums(sum, entries, order)
  BY <1>2, SumsExist
<1>4. bytes = BytesOf(entries, order)[Len(order)]
  BY <1>1, <1>2, <1>3 DEF Sums
<1>5. {order[i] : i \in DOMAIN order} = {k \in Keys : Present(k)}
  BY <1>1 DEF Present, NoEntry
<1>6. IsInjective(order)
  BY <1>1 DEF IsInjective
<1>7. Len(order) <= MaxEntries /\ bytes <= MaxBytes
  BY <1>1, <1>2, CacheAssumption DEF CacheAssumption
<1> QED
  BY <1>2, <1>4, <1>5, <1>6, <1>7 DEF StoreInv, LRUConsistent, Entries

LEMMA SameStore ==
  ASSUME StoreInv, UNCHANGED cache
  PROVE  StoreInv'
BY DEF StoreInv, LRUConsistent, Present, cache

\* Every step does one thing to the store at most.
LEMMA StepStoreInv ==
  ASSUME CallInv, StoreInv, [Next]_vars
  PROVE  StoreInv'
<1>1. ASSUME NEW k \in Keys, RemoveEntry(k) \/ (Present(k) /\ Touch(k)) \/ UNCHANGED cache
      PROVE  StoreInv'
  BY <1>1, RemoveEntryKeeps, TouchKeeps, SameStore
<1>2. ASSUME NEW c \in Callers, NEW k \in Keys, Get(c, k) PROVE StoreInv'
  BY <1>1, <1>2 DEF Get, Fresh
<1>3. ASSUME NEW c \in Callers, Continue(c) PROVE StoreInv'
  <2>1. CASE Assess(c) \/ Woken(c) \/ Leave(c)
    BY <2>1, SameStore DEF Assess, Woken, Leave
  <2>2. CASE TryAdmit(c)
    <3>1. loc[c].key \in Keys /\ loc[c].exp \in Nat
      BY <2>2 DEF TryAdmit, CallInv, WaitsOwnKey, CallTypes, Local
    <3>2. PICK size \in Sizes : Admit(loc[c].key, loc[c].exp, size)
      BY <2>2 DEF TryAdmit
    <3> QED
      BY <3>1, <3>2, AdmitKeeps
  <2>3. CASE CoalesceHit(c) \/ Join(c) \/ Lead(c)
    <3>1. loc[c].key \in Keys
      BY <2>3 DEF CoalesceHit, Join, Lead, CallInv, WaitsOwnKey
    <3> QED
      BY <1>1, <2>3, <3>1 DEF CoalesceHit, Join, Lead, DropStale, Fresh
  <2> QED
    BY <1>3, <2>1, <2>2, <2>3 DEF Continue
<1>4. ASSUME NEW f \in CallIds, Shared(f) PROVE StoreInv'
  <2>1. CASE Answer(f) \/ Close(f)
    BY <2>1, SameStore DEF Answer, Close
  <2>2. CASE AdmitShared(f)
    <3>1. calls[f].key \in Keys /\ calls[f].exp \in Nat
      BY <2>2 DEF AdmitShared, CallInv, SlotsMatch, Running, CallTypes, Call
    <3>2. PICK size \in Sizes : Admit(calls[f].key, calls[f].exp, size)
      BY <2>2 DEF AdmitShared
    <3> QED
      BY <3>1, <3>2, AdmitKeeps
  <2> QED
    BY <1>4, <2>1, <2>2 DEF Shared
<1>5. CASE Tick \/ (\E c \in Callers : Cancel(c)) \/ UNCHANGED vars
  BY <1>5, SameStore DEF Tick, Cancel, vars
<1> QED
  BY <1>2, <1>3, <1>4, <1>5 DEF Next

\* The three views of the store agree and stay within the configured limits in
\* every reachable state, whichever goroutines admit, replace, evict, touch and
\* expire entries: what Admit evicts is what it needs to, and no more than the
\* order lists.
THEOREM StoreStaysConsistent == Spec => []LRUConsistent
<1>1. Init => CallInv /\ StoreInv
  BY InitCallInv, InitStoreInv
<1>2. (CallInv /\ StoreInv) /\ [Next]_vars => (CallInv /\ StoreInv)'
  BY NextCallInv, StepStoreInv
<1>3. CallInv /\ StoreInv => LRUConsistent
  BY DEF StoreInv
<1> QED
  BY <1>1, <1>2, <1>3, PTL DEF Spec
=============================================================================
