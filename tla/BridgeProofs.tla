---------------------------- MODULE BridgeProofs ----------------------------
(***************************************************************************)
(* TLAPS proofs about ClaudeBridge, for any number of processes,           *)
(* challenges, actions and retry identities.                               *)
(***************************************************************************)
EXTENDS ClaudeBridge, TLAPS

Stores == [Ids -> Rec]

LEMMA EmptyStore == NoRec \in Rec /\ Empty \in Stores
<1>1. NoRec \in Rec
  BY DEF NoRec, Rec
<1> QED
  BY <1>1 DEF Empty, Stores

LEMMA EmptySound ==
  ASSUME NEW n, NEW A
  PROVE  Sound(Empty, n, A)
BY DEF Sound, Empty, NoRec

LEMMA Answers ==
  /\ Deny \in Answer /\ ~Deny.allow /\ Deny.id = 0
  /\ [Deny EXCEPT !.cmd = "appeal"] \in Answer
  /\ ~[Deny EXCEPT !.cmd = "appeal"].allow /\ [Deny EXCEPT !.cmd = "appeal"].id = 0
  /\ \A i \in Ids : Show(i) \in Answer /\ ~Show(i).allow /\ Show(i).id = i
  /\ \A i \in Ids, k \in Keys : Verdict(i, TRUE, k) \in Answer /\ Verdict(i, TRUE, k).allow
                                /\ Verdict(i, TRUE, k).id = i /\ Verdict(i, TRUE, k).key = k
  /\ \A i, k : Verdict(i, FALSE, k) = Deny
<1>1. Deny \in Answer /\ ~Deny.allow /\ Deny.id = 0
  BY DEF Deny, Answer
<1>2. /\ [Deny EXCEPT !.cmd = "appeal"] \in Answer
      /\ ~[Deny EXCEPT !.cmd = "appeal"].allow /\ [Deny EXCEPT !.cmd = "appeal"].id = 0
  BY DEF Deny, Answer
<1>3. ASSUME NEW i \in Ids PROVE Show(i) \in Answer /\ ~Show(i).allow /\ Show(i).id = i
  BY DEF Deny, Answer, Show
<1>4. ASSUME NEW i \in Ids, NEW k \in Keys
      PROVE  /\ Verdict(i, TRUE, k) \in Answer /\ Verdict(i, TRUE, k).allow
             /\ Verdict(i, TRUE, k).id = i /\ Verdict(i, TRUE, k).key = k
  BY DEF Deny, Answer, Verdict
<1>5. \A i, k : Verdict(i, FALSE, k) = Deny
  BY DEF Verdict
<1> QED
  BY <1>1, <1>2, <1>3, <1>4, <1>5

LEMMA SoundMono ==
  ASSUME NEW s, NEW n \in Nat, NEW m \in Nat, n <= m, NEW A, NEW B, A \subseteq B, Sound(s, n, A)
  PROVE  Sound(s, m, B)
BY DEF Sound, Ids

\* What a process finds when it loads the store.
LEMMA LoadedSound ==
  ASSUME BridgeInv, NEW cmd, NEW store \in Loaded(cmd)
  PROVE  store \in Stores /\ Sound(store, issued, appealed)
<1>1. store = file \/ store = Empty
  BY DEF Loaded
<1> QED
  BY <1>1, EmptyStore, EmptySound DEF BridgeInv, BridgeTypes, StoresSound, Stores

-----------------------------------------------------------------------------
(* Steps of a process *)

\* A handler keeps the invariant if the store it computed is sound and, when it
\* was computed from the file, extends the file and backs the answer.
LEMMA HandleKeeps ==
  ASSUME BridgeInv, NEW p \in Procs, NEW store, NEW store2 \in Stores, NEW ans \in Answer,
         Handle(p, store, store2, ans),
         issued' \in 0..MaxChallenges, issued <= issued',
         appealed \subseteq appealed', appealed' \subseteq Ids,
         Sound(store2, issued', appealed'), Promised(ans, appealed'),
         store = file => Extends(store2, file) /\ Backs(store2, ans)
  PROVE  BridgeInv'
<1>1. /\ pc' = [pc EXCEPT ![p] = "save"] /\ mem' = [mem EXCEPT ![p] = store2]
      /\ out' = [out EXCEPT ![p] = ans] /\ UNCHANGED <<file, shown, allowed>>
  BY DEF Handle
<1>2. BridgeTypes
  BY DEF BridgeInv
<1>3. orderly' \in BOOLEAN /\ (orderly' => orderly /\ store = file /\ \A q \in Procs : pc[q] # "save")
  BY DEF Handle
<1>4. BridgeTypes'
  BY <1>1, <1>2, <1>3 DEF BridgeTypes, Stores
<1>5. /\ pc'[p] = "save" /\ mem'[p] = store2 /\ out'[p] = ans
      /\ \A q \in Procs \ {p} : pc'[q] = pc[q] /\ mem'[q] = mem[q] /\ out'[q] = out[q]
  BY <1>1, <1>2 DEF BridgeTypes
<1>6. StoresSound'
  <2>1. issued \in Nat /\ issued' \in Nat
    BY <1>2, BridgeAssumption DEF BridgeTypes
  <2>2. Sound(file, issued', appealed') /\ \A q \in Procs : Sound(mem[q], issued', appealed')
    BY <2>1, SoundMono DEF BridgeInv, StoresSound
  <2>3. \A q \in Procs : Promised(out[q], appealed')
    BY DEF BridgeInv, StoresSound, Promised
  <2>4. AllowAppealed'
    BY <1>1 DEF BridgeInv, StoresSound, AllowAppealed
  <2>5. \A q \in Procs : Sound(mem'[q], issued', appealed') /\ Promised(out'[q], appealed')
    BY <1>5, <2>2, <2>3
  <2> QED
    BY <1>1, <2>2, <2>4, <2>5 DEF StoresSound
<1>7. ASSUME orderly' PROVE InTurn'
  <2>1. orderly /\ store = file /\ \A q \in Procs : pc[q] # "save"
    BY <1>3, <1>7
  <2>2. Extends(store2, file) /\ Backs(store2, ans) /\ InTurn
    BY <2>1 DEF BridgeInv
  <2>3. \A q \in Procs : pc'[q] = "save" => q = p
    BY <1>5, <2>1
  <2>4. \A q \in Procs : pc'[q] = "save" => Extends(mem'[q], file') /\ Backs(mem'[q], out'[q])
    BY <1>1, <1>5, <2>2, <2>3
  <2>5. \A q \in Procs : pc'[q] = "reply" => Backs(file', out'[q])
    BY <1>1, <1>5, <2>2 DEF InTurn
  <2> QED
    BY <2>3, <2>4, <2>5 DEF InTurn
<1>8. AnswersBacked'
  <2>1. orderly' => orderly
    BY <1>3
  <2> QED
    BY <1>1, <2>1 DEF BridgeInv, AnswersBacked
<1> QED
  BY <1>4, <1>6, <1>7, <1>8 DEF BridgeInv

LEMMA SaveKeeps ==
  ASSUME BridgeInv, NEW p \in Procs, Save(p)
  PROVE  BridgeInv'
<1>1. /\ file' = mem[p] /\ mem' = [mem EXCEPT ![p] = Empty] /\ pc' = [pc EXCEPT ![p] = "reply"]
      /\ UNCHANGED <<out, issued, shown, appealed, allowed, orderly>> /\ pc[p] = "save"
  BY DEF Save, Saved, Written
<1>2. BridgeTypes
  BY DEF BridgeInv
<1>3. BridgeTypes'
  BY <1>1, <1>2, EmptyStore DEF BridgeTypes, Stores
<1>4. /\ pc'[p] = "reply" /\ mem'[p] = Empty
      /\ \A q \in Procs \ {p} : pc'[q] = pc[q] /\ mem'[q] = mem[q]
  BY <1>1, <1>2 DEF BridgeTypes
<1>5. StoresSound'
  <2>1. \A q \in Procs : Sound(mem'[q], issued, appealed)
    BY <1>4, EmptySound DEF BridgeInv, StoresSound
  <2> QED
    BY <1>1, <2>1 DEF BridgeInv, StoresSound, AllowAppealed
<1>6. ASSUME orderly PROVE InTurn' /\ AnswersBacked'
  <2>1. InTurn /\ Extends(mem[p], file) /\ Backs(mem[p], out[p])
    BY <1>1, <1>6 DEF BridgeInv, InTurn
  <2>2. \A q \in Procs : pc'[q] # "save"
    BY <1>1, <1>4, <2>1 DEF InTurn
  <2>3. ASSUME NEW q \in Procs, pc'[q] = "reply" PROVE Backs(file', out'[q])
    <3>1. CASE q = p
      BY <1>1, <2>1, <3>1
    <3>2. CASE q # p
      <4>1. Backs(file, out[q]) /\ out[q] \in Answer
        BY <1>2, <1>4, <2>1, <2>3, <3>2 DEF InTurn, BridgeTypes
      <4>2. out[q].id \in Ids \cup {0} /\ (out[q].allow => out[q].id \in Ids)
        BY <1>2, <4>1 DEF Answer, BridgeInv, StoresSound, Promised, BridgeTypes
      <4> QED
        BY <1>1, <2>1, <4>1, <4>2 DEF Backs, Extends
    <3> QED
      BY <3>1, <3>2
  <2>4. AnswersBacked'
    BY <1>1, <1>2, <1>6, <2>1 DEF BridgeInv, AnswersBacked, Extends, BridgeTypes
  <2> QED
    BY <2>2, <2>3, <2>4 DEF InTurn
<1> QED
  BY <1>1, <1>3, <1>5, <1>6 DEF BridgeInv, AnswersBacked
-----------------------------------------------------------------------------
(* What the handlers make of the store they loaded *)

LEMMA ExtendsSelf ==
  ASSUME NEW s \in Stores
  PROVE  Extends(s, s)
BY DEF Extends

\* One challenge of the store moves on, and it was not a consumed one.
Moves(s, t, i, r) ==
  /\ t = [s EXCEPT ![i] = r]
  /\ s[i].state # "NONE" /\ s[i].state # "ALLOWED_ONCE" /\ r.state # "NONE"

LEMMA MovesSound ==
  ASSUME NEW s \in Stores, NEW i \in Ids, NEW r \in Rec, NEW n, NEW A, NEW B, Sound(s, n, A),
         A \subseteq B, NEW t, Moves(s, t, i, r), r.state \in {"JUSTIFIED", "ALLOWED_ONCE"} => i \in B
  PROVE  t \in Stores /\ Sound(t, n, B) /\ Extends(t, s) /\ t[i] = r
<1>1. t \in Stores /\ t[i] = r /\ \A j \in Ids \ {i} : t[j] = s[j]
  BY DEF Stores, Moves
<1>2. i <= n
  BY DEF Sound, Moves
<1>3. Sound(t, n, B)
  BY <1>1, <1>2 DEF Sound
<1>4. Extends(t, s)
  BY <1>1 DEF Extends, Moves
<1> QED
  BY <1>1, <1>3, <1>4

LEMMA StateUpdate ==
  ASSUME NEW r \in Rec, NEW st \in {"OPEN", "JUSTIFIED", "EXPIRED", "REJECTED", "HUMAN_REVIEW", "ALLOWED_ONCE"}
  PROVE  /\ [r EXCEPT !.state = st] \in Rec /\ [r EXCEPT !.state = st].state = st
         /\ [r EXCEPT !.state = st].key = r.key /\ [r EXCEPT !.state = st].fp = r.fp
BY DEF Rec

\* Justify: the store it leaves, given that the challenge counts as appealed
\* when it was OPEN.
LEMMA JustifiedSound ==
  ASSUME NEW s \in Stores, NEW i \in Ids, NEW n, NEW A, NEW B, A \subseteq B, Sound(s, n, A),
         s[i].state = "OPEN" => i \in B, NEW t, t = Justified(s, i)
  PROVE  /\ t \in Stores /\ Sound(t, n, B) /\ Extends(t, s)
         /\ t[i].state = (IF s[i].state = "OPEN" THEN "JUSTIFIED" ELSE s[i].state)
<1>1. CASE s[i].state = "OPEN"
  <2>1. PICK r : r = [s[i] EXCEPT !.state = "JUSTIFIED"]
    OBVIOUS
  <2>2. s[i] \in Rec
    BY DEF Stores
  <2>3. r \in Rec /\ r.state = "JUSTIFIED"
    BY <2>1, <2>2, StateUpdate
  <2>4. t = [s EXCEPT ![i] = r]
    BY <1>1, <2>1 DEF Justified
  <2>5. Moves(s, t, i, r) /\ i \in B
    BY <1>1, <2>3, <2>4 DEF Moves
  <2>6. t \in Stores /\ Sound(t, n, B) /\ Extends(t, s) /\ t[i] = r
    BY <2>3, <2>5, MovesSound
  <2> QED
    BY <1>1, <2>3, <2>6
<1>2. CASE s[i].state # "OPEN"
  <2>1. t = s
    BY <1>2 DEF Justified
  <2>2. Sound(t, n, B)
    BY <2>1 DEF Sound
  <2> QED
    BY <1>2, <2>1, <2>2, ExtendsSelf
<1> QED
  BY <1>1, <1>2

\* The same for a retry, which justifies only when it carries a justification.
LEMMA PresentedSound ==
  ASSUME BridgeInv, NEW s \in Stores, NEW i \in Ids, Sound(s, issued, appealed),
         NEW just \in BOOLEAN, Appealed(s, i, just), NEW t, t = Presented(s, i, just)
  PROVE  /\ t \in Stores /\ Sound(t, issued, appealed') /\ Extends(t, s)
         /\ t[i].state = (IF just /\ s[i].state = "OPEN" THEN "JUSTIFIED" ELSE s[i].state)
         /\ appealed \subseteq appealed' /\ appealed' \subseteq Ids
<1>1. appealed \subseteq appealed' /\ appealed' \subseteq Ids
  BY DEF Appealed, BridgeInv, BridgeTypes
<1>2. CASE just
  <2>1. t = Justified(s, i) /\ (s[i].state = "OPEN" => i \in appealed')
    BY <1>2 DEF Presented, Appealed
  <2>2. /\ t \in Stores /\ Sound(t, issued, appealed') /\ Extends(t, s)
        /\ t[i].state = (IF s[i].state = "OPEN" THEN "JUSTIFIED" ELSE s[i].state)
    BY <1>1, <2>1, JustifiedSound
  <2> QED
    BY <1>1, <1>2, <2>2
<1>3. CASE ~just
  <2>1. t = s
    BY <1>3 DEF Presented
  <2>2. Sound(t, issued, appealed')
    BY <1>1, <2>1 DEF Sound
  <2> QED
    BY <1>1, <1>3, <2>1, <2>2, ExtendsSelf
<1> QED
  BY <1>2, <1>3

\* Open: the new challenge takes an id no store holds, and only live challenges
\* expire.
LEMMA OpenedSound ==
  ASSUME NEW s \in Stores, NEW n \in Nat, n + 1 \in Ids, NEW A, Sound(s, n, A),
         NEW fp \in Fps, NEW reason \in Reasons, NEW id, id = n + 1, NEW t, t = Opened(s, id, fp, reason)
  PROVE  t \in Stores /\ Sound(t, n + 1, A) /\ Extends(t, s) /\ t[id].state # "NONE"
<1>1. PICK r : r = [NoRec EXCEPT !.state = "OPEN", !.fp = fp, !.reason = reason]
  OBVIOUS
<1>2. r \in Rec /\ r.state = "OPEN"
  BY <1>1 DEF NoRec, Rec
<1>3. \A i \in Ids : t[i] = IF i = id THEN r
                            ELSE IF i \in LiveOn(s, fp) THEN [s[i] EXCEPT !.state = "EXPIRED"] ELSE s[i]
  BY <1>1 DEF Opened
<1>4. ASSUME NEW i \in Ids
      PROVE  [s[i] EXCEPT !.state = "EXPIRED"] \in Rec /\ [s[i] EXCEPT !.state = "EXPIRED"].state = "EXPIRED"
  BY StateUpdate DEF Stores
<1>5. t \in Stores
  <2>1. t = [i \in Ids |-> IF i = id THEN r
                           ELSE IF i \in LiveOn(s, fp) THEN [s[i] EXCEPT !.state = "EXPIRED"] ELSE s[i]]
    BY <1>1 DEF Opened
  <2>2. \A i \in Ids : t[i] \in Rec
    BY <1>2, <1>3, <1>4 DEF Stores
  <2> QED
    BY <2>1, <2>2 DEF Stores
<1>6. s[id].state = "NONE"
  BY DEF Sound, Ids
<1>7. ASSUME NEW i \in Ids
      PROVE  /\ t[i].state # "NONE" => s[i].state # "NONE" \/ i = id
             /\ s[i].state # "NONE" => t[i].state # "NONE"
             /\ t[i].state \in {"JUSTIFIED", "ALLOWED_ONCE"} => t[i] = s[i]
             /\ s[i].state = "ALLOWED_ONCE" => t[i] = s[i]
  <2>1. CASE i = id
    BY <1>2, <1>3, <1>6, <2>1
  <2>2. CASE i # id /\ i \in LiveOn(s, fp)
    BY <1>3, <1>4, <2>2 DEF LiveOn, Live
  <2>3. CASE i # id /\ i \notin LiveOn(s, fp)
    BY <1>3, <2>3
  <2> QED
    BY <2>1, <2>2, <2>3
<1>8. Sound(t, n + 1, A)
  <2>1. \A i \in Ids : i \in Nat
    BY BridgeAssumption DEF Ids
  <2> QED
    BY <1>7, <2>1 DEF Sound
<1>9. Extends(t, s)
  BY <1>7 DEF Extends
<1> QED
  BY <1>2, <1>3, <1>5, <1>8, <1>9
-----------------------------------------------------------------------------
(* One lemma per handler *)

LEMMA PromisedNothing ==
  ASSUME NEW ans, ~ans.allow, NEW A
  PROVE  Promised(ans, A)
BY DEF Promised

LEMMA IssuedSame ==
  ASSUME BridgeInv, UNCHANGED issued
  PROVE  issued' \in 0..MaxChallenges /\ issued <= issued'
BY BridgeAssumption DEF BridgeInv, BridgeTypes

\* A handler that leaves the ids and the appeals alone, and the store too.
LEMMA ReadOnly ==
  ASSUME BridgeInv, NEW p \in Procs, NEW cmd, NEW store \in Loaded(cmd), NEW ans \in Answer,
         Handle(p, store, store, ans), UNCHANGED <<issued, appealed>>,
         Promised(ans, appealed), Backs(store, ans)
  PROVE  BridgeInv'
<1>1. store \in Stores /\ Sound(store, issued, appealed)
  BY LoadedSound
<1>2. Extends(store, store)
  BY <1>1, ExtendsSelf
<1>3. issued' \in 0..MaxChallenges /\ issued <= issued'
  BY IssuedSame
<1>4. appealed \subseteq appealed' /\ appealed' \subseteq Ids
  BY DEF BridgeInv, BridgeTypes
<1>5. Sound(store, issued', appealed') /\ Promised(ans, appealed')
  BY <1>1
<1>6. store = file => Extends(store, file) /\ Backs(store, ans)
  BY <1>2
<1> QED
  BY <1>1, <1>3, <1>4, <1>5, <1>6, HandleKeeps

LEMMA NoChallengeKeeps ==
  ASSUME BridgeInv, NEW p \in Procs, NoChallenge(p)
  PROVE  BridgeInv'
<1>1. PICK store \in Loaded("pretool") : Handle(p, store, store, Deny)
  BY DEF NoChallenge
<1>2. UNCHANGED <<issued, appealed>>
  BY DEF NoChallenge
<1>3. Deny \in Answer /\ ~Deny.allow /\ Deny.id = 0
  BY Answers
<1>4. Backs(store, Deny) /\ Promised(Deny, appealed)
  BY <1>3 DEF Backs, Promised
<1> QED
  BY <1>1, <1>2, <1>3, <1>4, ReadOnly

LEMMA OpenReuseKeeps ==
  ASSUME BridgeInv, NEW p \in Procs, NEW fp, NEW reason, OpenReuse(p, fp, reason)
  PROVE  BridgeInv'
<1>1. PICK store \in Loaded("pretool") : \E i \in LiveOn(store, fp) : Handle(p, store, store, Show(i))
  BY DEF OpenReuse
<1>2. PICK i \in LiveOn(store, fp) : Handle(p, store, store, Show(i))
  BY <1>1
<1>3. UNCHANGED <<issued, appealed>>
  BY DEF OpenReuse
<1>4. i \in Ids /\ store[i].state # "NONE"
  BY <1>2 DEF LiveOn, Live
<1>5. Show(i) \in Answer /\ ~Show(i).allow /\ Show(i).id = i
  BY <1>4, Answers
<1>6. Backs(store, Show(i)) /\ Promised(Show(i), appealed)
  BY <1>4, <1>5 DEF Backs, Promised
<1> QED
  BY <1>1, <1>2, <1>3, <1>5, <1>6, ReadOnly

LEMMA OpenNewKeeps ==
  ASSUME BridgeInv, NEW p \in Procs, NEW fp \in Denied, NEW reason \in Reasons, OpenNew(p, fp, reason)
  PROVE  BridgeInv'
<1>1. issued < MaxChallenges /\ issued' = issued + 1 /\ UNCHANGED appealed
  BY DEF OpenNew
<1>2. PICK store \in Loaded("pretool") : Handle(p, store, Opened(store, issued', fp, reason), Show(issued'))
  BY DEF OpenNew
<1>3. PICK n, id, t : n \in Nat /\ n = issued /\ id = n + 1 /\ t = Opened(store, id, fp, reason)
  BY BridgeAssumption DEF BridgeInv, BridgeTypes
<1>4. issued' = id /\ issued' = n + 1
  BY <1>1, <1>3
<1>5. Handle(p, store, t, Show(id))
  BY <1>2, <1>3, <1>4
<1>6. n + 1 \in Ids /\ id \in Ids
  BY <1>1, <1>3, BridgeAssumption DEF Ids
<1>7. store \in Stores /\ Sound(store, n, appealed) /\ fp \in Fps
  BY <1>2, <1>3, LoadedSound, BridgeAssumption
<1>8. t \in Stores /\ Sound(t, n + 1, appealed) /\ Extends(t, store) /\ t[id].state # "NONE"
  BY <1>3, <1>6, <1>7, OpenedSound
<1>9. Show(id) \in Answer /\ ~Show(id).allow /\ Show(id).id = id
  BY <1>6, Answers
<1>10. Backs(t, Show(id)) /\ Promised(Show(id), appealed')
  BY <1>8, <1>9 DEF Backs, Promised
<1>11. issued' \in 0..MaxChallenges /\ issued <= issued'
  BY <1>1, <1>3, BridgeAssumption
<1>12. appealed \subseteq appealed' /\ appealed' \subseteq Ids
  BY <1>1 DEF BridgeInv, BridgeTypes
<1>13. Sound(t, issued', appealed')
  BY <1>1, <1>4, <1>8
<1>14. store = file => Extends(t, file) /\ Backs(t, Show(id))
  BY <1>8, <1>10
<1> QED
  BY <1>5, <1>8, <1>9, <1>10, <1>11, <1>12, <1>13, <1>14, HandleKeeps

LEMMA RetryMismatchKeeps ==
  ASSUME BridgeInv, NEW p \in Procs, NEW i \in Ids, NEW key \in Keys, NEW just \in BOOLEAN,
         RetryMismatch(p, i, key, just)
  PROVE  BridgeInv'
<1>1. PICK store \in Loaded("pretool") : /\ Handle(p, store, Presented(store, i, just), Deny)
                                         /\ Appealed(store, i, just)
  BY DEF RetryMismatch
<1>2. PICK t : t = Presented(store, i, just)
  OBVIOUS
<1>3. store \in Stores /\ Sound(store, issued, appealed)
  BY LoadedSound
<1>4. /\ t \in Stores /\ Sound(t, issued, appealed') /\ Extends(t, store)
      /\ appealed \subseteq appealed' /\ appealed' \subseteq Ids
  BY <1>1, <1>2, <1>3, PresentedSound
<1>5. Deny \in Answer /\ ~Deny.allow /\ Deny.id = 0
  BY Answers
<1>6. Backs(t, Deny) /\ Promised(Deny, appealed')
  BY <1>5 DEF Backs, Promised
<1>7. UNCHANGED issued
  BY DEF RetryMismatch
<1>8. issued' \in 0..MaxChallenges /\ issued <= issued'
  BY <1>7, IssuedSame
<1>9. Sound(t, issued', appealed') /\ Handle(p, store, t, Deny) /\ (store = file => Extends(t, file) /\ Backs(t, Deny))
  BY <1>1, <1>2, <1>4, <1>6, <1>7
<1> QED
  BY <1>4, <1>5, <1>6, <1>8, <1>9, HandleKeeps

LEMMA RetryFinishedKeeps ==
  ASSUME BridgeInv, NEW p \in Procs, NEW i \in Ids, NEW key \in Keys, RetryFinished(p, i, key)
  PROVE  BridgeInv'
<1>1. PICK store \in Loaded("pretool") :
         Handle(p, store, store, Verdict(i, Replayed(store[i], key), key))
  BY DEF RetryFinished
<1>2. UNCHANGED <<issued, appealed>>
  BY DEF RetryFinished
<1>3. CASE Replayed(store[i], key)
  <2>1. PICK ans : ans = Verdict(i, TRUE, key)
    OBVIOUS
  <2>2. ans = Verdict(i, Replayed(store[i], key), key)
    BY <1>3, <2>1 DEF Verdict
  <2>3. ans \in Answer /\ ans.allow /\ ans.id = i /\ ans.key = key
    BY <2>1, Answers
  <2>4. store[i].state = "ALLOWED_ONCE" /\ store[i].key = key
    BY <1>3 DEF Replayed
  <2>5. i \in appealed
    BY <2>4, LoadedSound DEF Sound
  <2>6. Backs(store, ans) /\ Promised(ans, appealed)
    BY <2>3, <2>4, <2>5 DEF Backs, Promised
  <2>7. Handle(p, store, store, ans)
    BY <1>1, <2>2
  <2> QED
    BY <1>2, <2>3, <2>6, <2>7, ReadOnly
<1>4. CASE ~Replayed(store[i], key)
  <2>1. Verdict(i, Replayed(store[i], key), key) = Deny
    BY <1>4 DEF Verdict
  <2>2. Handle(p, store, store, Deny)
    BY <1>1, <2>1
  <2>3. Deny \in Answer /\ ~Deny.allow /\ Deny.id = 0
    BY Answers
  <2>4. Backs(store, Deny) /\ Promised(Deny, appealed)
    BY <2>3 DEF Backs, Promised
  <2> QED
    BY <1>2, <2>2, <2>3, <2>4, ReadOnly
<1> QED
  BY <1>3, <1>4

LEMMA RetryRefusedKeeps ==
  ASSUME BridgeInv, NEW p \in Procs, NEW i \in Ids, NEW key \in Keys, RetryRefused(p, i, key)
  PROVE  BridgeInv'
<1>1. PICK store \in Loaded("pretool") : /\ store[i].state = "OPEN"
                                         /\ Handle(p, store, [store EXCEPT ![i].state = "REJECTED"], Deny)
  BY DEF RetryRefused
<1>2. UNCHANGED <<issued, appealed>>
  BY DEF RetryRefused
<1>3. PICK r, t : r = [store[i] EXCEPT !.state = "REJECTED"] /\ t = [store EXCEPT ![i] = r]
  OBVIOUS
<1>4. store \in Stores /\ Sound(store, issued, appealed)
  BY LoadedSound
<1>5. r \in Rec /\ r.state = "REJECTED"
  BY <1>3, <1>4, StateUpdate DEF Stores
<1>6. t = [store EXCEPT ![i].state = "REJECTED"]
  BY <1>3
<1>7. Moves(store, t, i, r) /\ (r.state \in {"JUSTIFIED", "ALLOWED_ONCE"} => i \in appealed)
  BY <1>1, <1>3, <1>5 DEF Moves
<1>8. t \in Stores /\ Sound(t, issued, appealed) /\ Extends(t, store)
  <2>1. appealed \subseteq appealed /\ i \in Ids /\ r.state \notin {"JUSTIFIED", "ALLOWED_ONCE"}
    BY <1>5
  <2> QED
    BY <1>4, <1>5, <1>7, <2>1, MovesSound
<1>9. Deny \in Answer /\ ~Deny.allow /\ Deny.id = 0
  BY Answers
<1>10. Backs(t, Deny) /\ Promised(Deny, appealed')
  BY <1>9 DEF Backs, Promised
<1>11. issued' \in 0..MaxChallenges /\ issued <= issued'
  BY <1>2, IssuedSame
<1>12. appealed \subseteq appealed' /\ appealed' \subseteq Ids /\ Sound(t, issued', appealed')
  BY <1>2, <1>8 DEF BridgeInv, BridgeTypes
<1>13. Handle(p, store, t, Deny) /\ (store = file => Extends(t, file) /\ Backs(t, Deny))
  BY <1>1, <1>6, <1>8, <1>10
<1> QED
  BY <1>8, <1>9, <1>10, <1>11, <1>12, <1>13, HandleKeeps

\* The one retry that consumes the challenge.
LEMMA RetryConsumeKeeps ==
  ASSUME BridgeInv, NEW p \in Procs, NEW i \in Ids, NEW key \in Keys, NEW just \in BOOLEAN,
         RetryConsume(p, i, key, just)
  PROVE  BridgeInv'
<1>1. PICK store \in Loaded("pretool"), to \in {"ALLOWED_ONCE", "REJECTED", "HUMAN_REVIEW"} :
         /\ Bound(store, i, key) /\ Retriable(Presented(store, i, just)[i])
         /\ Handle(p, store, [Presented(store, i, just) EXCEPT ![i].state = to, ![i].key = key],
                   Verdict(i, to = "ALLOWED_ONCE", key))
         /\ Appealed(store, i, just)
  BY DEF RetryConsume
<1>2. UNCHANGED issued
  BY DEF RetryConsume
<1>3. PICK s : s = Presented(store, i, just)
  OBVIOUS
<1>4. store \in Stores /\ Sound(store, issued, appealed)
  BY LoadedSound
<1>5. /\ s \in Stores /\ Sound(s, issued, appealed') /\ Extends(s, store)
      /\ appealed \subseteq appealed' /\ appealed' \subseteq Ids
  BY <1>1, <1>3, <1>4, PresentedSound
<1>6. s[i].state = "JUSTIFIED"
  BY <1>1, <1>3 DEF Retriable
<1>7. i \in appealed'
  BY <1>5, <1>6 DEF Sound
<1>8. PICK r, t : r = [s[i] EXCEPT !.state = to, !.key = key] /\ t = [s EXCEPT ![i] = r]
  OBVIOUS
<1>9. r \in Rec /\ r.state = to /\ r.key = key
  <2>1. s[i] \in Rec
    BY <1>5 DEF Stores
  <2> QED
    BY <1>1, <1>8, <2>1 DEF Rec
<1>10. t = [Presented(store, i, just) EXCEPT ![i].state = to, ![i].key = key]
  BY <1>3, <1>5, <1>8 DEF Stores
<1>11. Moves(s, t, i, r)
  BY <1>1, <1>6, <1>8, <1>9 DEF Moves
<1>12. t \in Stores /\ Sound(t, issued, appealed') /\ Extends(t, s) /\ t[i] = r
  <2>1. PICK B : B = appealed'
    OBVIOUS
  <2>2. Sound(s, issued, B) /\ B \subseteq B /\ i \in B
    BY <1>5, <1>7, <2>1
  <2>3. t \in Stores /\ Sound(t, issued, B) /\ Extends(t, s) /\ t[i] = r
    BY <1>5, <1>9, <1>11, <2>2, MovesSound
  <2> QED
    BY <2>1, <2>3
<1>13. Extends(t, store)
  BY <1>5, <1>12 DEF Extends
<1>14. PICK ans : ans = Verdict(i, to = "ALLOWED_ONCE", key)
  OBVIOUS
<1>15. ans \in Answer /\ Backs(t, ans) /\ Promised(ans, appealed')
  <2>1. CASE to = "ALLOWED_ONCE"
    <3>1. ans = Verdict(i, TRUE, key)
      BY <1>14, <2>1 DEF Verdict
    <3>2. ans \in Answer /\ ans.allow /\ ans.id = i /\ ans.key = key
      BY <3>1, Answers
    <3> QED
      BY <1>7, <1>9, <1>12, <2>1, <3>2 DEF Backs, Promised
  <2>2. CASE to # "ALLOWED_ONCE"
    <3>1. ans = Deny
      BY <1>14, <2>2 DEF Verdict
    <3>2. ans \in Answer /\ ~ans.allow /\ ans.id = 0
      BY <3>1, Answers
    <3> QED
      BY <3>2 DEF Backs, Promised
  <2> QED
    BY <2>1, <2>2
<1>16. issued' \in 0..MaxChallenges /\ issued <= issued'
  BY <1>2, IssuedSame
<1>17. /\ Handle(p, store, t, ans) /\ Sound(t, issued', appealed')
       /\ store = file => Extends(t, file) /\ Backs(t, ans)
  BY <1>1, <1>2, <1>10, <1>12, <1>13, <1>14, <1>15
<1> QED
  BY <1>5, <1>12, <1>15, <1>16, <1>17, HandleKeeps

LEMMA AppealKeeps ==
  ASSUME BridgeInv, NEW p \in Procs, NEW i \in Ids, Appeal(p, i)
  PROVE  BridgeInv'
<1>1. PICK store \in Loaded("appeal") : Handle(p, store, Justified(store, i), [Deny EXCEPT !.cmd = "appeal"])
  BY DEF Appeal
<1>2. appealed' = appealed \cup {i} /\ UNCHANGED issued
  BY DEF Appeal
<1>3. PICK t, ans, B : t = Justified(store, i) /\ ans = [Deny EXCEPT !.cmd = "appeal"] /\ B = appealed'
  OBVIOUS
<1>4. store \in Stores /\ Sound(store, issued, appealed)
  BY LoadedSound
<1>5. appealed \subseteq B /\ i \in B /\ appealed' \subseteq Ids
  BY <1>2, <1>3 DEF BridgeInv, BridgeTypes
<1>6. t \in Stores /\ Sound(t, issued, B) /\ Extends(t, store)
  BY <1>3, <1>4, <1>5, JustifiedSound
<1>7. ans \in Answer /\ ~ans.allow /\ ans.id = 0
  BY <1>3, Answers
<1>8. Backs(t, ans) /\ Promised(ans, appealed')
  BY <1>7 DEF Backs, Promised
<1>9. issued' \in 0..MaxChallenges /\ issued <= issued'
  BY <1>2, IssuedSame
<1>10. /\ Handle(p, store, t, ans) /\ Sound(t, issued', appealed') /\ appealed \subseteq appealed'
       /\ store = file => Extends(t, file) /\ Backs(t, ans)
  BY <1>1, <1>2, <1>3, <1>5, <1>6, <1>8
<1> QED
  BY <1>5, <1>6, <1>7, <1>8, <1>9, <1>10, HandleKeeps
-----------------------------------------------------------------------------
(* The steps that end a process *)

\* A process that exits takes its store and its answer with it.
LEMMA ExitKeeps ==
  ASSUME BridgeInv, NEW p \in Procs, Exit(p), UNCHANGED <<file, issued, shown, appealed, allowed>>,
         orderly' \in BOOLEAN, orderly' => orderly
  PROVE  BridgeInv'
<1>1. BridgeTypes
  BY DEF BridgeInv
<1>2. BridgeTypes'
  BY <1>1, EmptyStore, Answers DEF BridgeTypes, Exit, Stores
<1>3. /\ pc'[p] = "idle" /\ mem'[p] = Empty /\ out'[p] = Deny
      /\ \A q \in Procs \ {p} : pc'[q] = pc[q] /\ mem'[q] = mem[q] /\ out'[q] = out[q]
  BY <1>1 DEF BridgeTypes, Exit
<1>4. StoresSound'
  <2>1. Promised(Deny, appealed) /\ Sound(Empty, issued, appealed)
    BY Answers, PromisedNothing, EmptySound
  <2>2. \A q \in Procs : Sound(mem'[q], issued, appealed) /\ Promised(out'[q], appealed)
    BY <1>3, <2>1 DEF BridgeInv, StoresSound
  <2> QED
    BY <2>2 DEF BridgeInv, StoresSound, AllowAppealed
<1>5. ASSUME orderly' PROVE InTurn'
  <2>1. InTurn
    BY <1>5 DEF BridgeInv
  <2> QED
    BY <1>3, <2>1 DEF InTurn
<1>6. AnswersBacked'
  BY DEF BridgeInv, AnswersBacked
<1> QED
  BY <1>2, <1>4, <1>5, <1>6 DEF BridgeInv

LEMMA KillKeeps ==
  ASSUME BridgeInv, NEW p \in Procs, Kill(p)
  PROVE  BridgeInv'
<1>1. Exit(p) /\ UNCHANGED <<file, issued, shown, appealed, allowed, orderly>>
  BY DEF Kill
<1>2. orderly' \in BOOLEAN /\ (orderly' => orderly)
  BY <1>1 DEF BridgeInv, BridgeTypes
<1> QED
  BY <1>1, <1>2, ExitKeeps

\* The save that fails: what the file lacks is no longer promised.
LEMMA SaveFailedKeeps ==
  ASSUME BridgeInv, NEW p \in Procs, SaveFailed(p)
  PROVE  BridgeInv'
<1>1. orderly' = FALSE /\ UNCHANGED <<file, issued, shown, appealed, allowed>>
  BY DEF SaveFailed
<1>2. CASE Exit(p)
  BY <1>1, <1>2, ExitKeeps
<1>3. CASE Saved(p)
  <2>1. BridgeTypes
    BY DEF BridgeInv
  <2>2. BridgeTypes'
    BY <1>1, <1>3, <2>1, EmptyStore DEF BridgeTypes, Saved, Stores
  <2>3. \A q \in Procs : mem'[q] = (IF q = p THEN Empty ELSE mem[q])
    BY <1>3, <2>1 DEF BridgeTypes, Saved
  <2>4. \A q \in Procs : Sound(mem'[q], issued, appealed)
    BY <2>3, EmptySound DEF BridgeInv, StoresSound
  <2>5. StoresSound'
    BY <1>1, <1>3, <2>4 DEF BridgeInv, StoresSound, AllowAppealed, Saved
  <2> QED
    BY <1>1, <2>2, <2>5 DEF BridgeInv, AnswersBacked
<1> QED
  BY <1>2, <1>3 DEF SaveFailed

\* Printing the answer: the ghosts take it over, and the file backs it.
LEMMA ReplyKeeps ==
  ASSUME BridgeInv, NEW p \in Procs, Reply(p)
  PROVE  BridgeInv'
<1>1. /\ pc[p] = "reply" /\ Exit(p) /\ UNCHANGED <<file, issued, appealed, orderly>>
      /\ shown' = (IF ~out[p].allow THEN shown \cup ({out[p].id} \ {0}) ELSE shown)
      /\ allowed' = (IF out[p].allow THEN allowed \cup {<<out[p].id, out[p].key>>} ELSE allowed)
  BY DEF Reply
<1>2. BridgeTypes
  BY DEF BridgeInv
<1>3. PICK id, key, ok : id = out[p].id /\ key = out[p].key /\ ok = out[p].allow
  OBVIOUS
<1>4. out[p] \in Answer
  BY <1>2 DEF BridgeTypes
<1>5. id \in Ids \cup {0} /\ ok \in BOOLEAN
  BY <1>3, <1>4 DEF Answer
<1>6. ok => id \in appealed /\ id \in Ids /\ key \in Keys
  BY <1>2, <1>3 DEF BridgeInv, StoresSound, Promised, BridgeTypes
<1>7. /\ shown' = (IF ~ok THEN shown \cup ({id} \ {0}) ELSE shown)
      /\ allowed' = (IF ok THEN allowed \cup {<<id, key>>} ELSE allowed)
  BY <1>1, <1>3
<1>8. shown' \subseteq Ids /\ allowed' \subseteq Ids \X Keys
  BY <1>2, <1>5, <1>6, <1>7 DEF BridgeTypes
<1>9. BridgeTypes'
  BY <1>1, <1>2, <1>8, EmptyStore, Answers DEF BridgeTypes, Exit, Stores
<1>10. /\ pc'[p] = "idle" /\ mem'[p] = Empty /\ out'[p] = Deny
       /\ \A q \in Procs \ {p} : pc'[q] = pc[q] /\ mem'[q] = mem[q] /\ out'[q] = out[q]
  BY <1>1, <1>2 DEF BridgeTypes, Exit
<1>11. AllowAppealed'
  <2>1. ASSUME NEW a \in allowed' PROVE a[1] \in appealed
    <3>1. CASE a \in allowed
      BY <3>1 DEF BridgeInv, StoresSound, AllowAppealed
    <3>2. CASE ok /\ a = <<id, key>>
      BY <1>6, <3>2
    <3> QED
      BY <1>7, <2>1, <3>1, <3>2
  <2> QED
    BY <1>1, <2>1 DEF AllowAppealed
<1>12. StoresSound'
  <2>1. Promised(Deny, appealed) /\ Sound(Empty, issued, appealed)
    BY Answers, PromisedNothing, EmptySound
  <2>2. \A q \in Procs : Sound(mem'[q], issued, appealed) /\ Promised(out'[q], appealed)
    BY <1>10, <2>1 DEF BridgeInv, StoresSound
  <2> QED
    BY <1>1, <1>11, <2>2 DEF BridgeInv, StoresSound
<1>13. ASSUME orderly' PROVE InTurn'
  <2>1. InTurn
    BY <1>1, <1>13 DEF BridgeInv
  <2> QED
    BY <1>1, <1>10, <2>1 DEF InTurn
<1>14. AnswersBacked'
  <2> SUFFICES ASSUME orderly PROVE /\ \A i \in shown' : file[i].state # "NONE"
                                    /\ \A a \in allowed' : file[a[1]].state = "ALLOWED_ONCE" /\ file[a[1]].key = a[2]
    BY <1>1 DEF AnswersBacked
  <2>1. Backs(file, out[p])
    BY <1>1 DEF BridgeInv, InTurn
  <2>2. IF ok THEN file[id].state = "ALLOWED_ONCE" /\ file[id].key = key
        ELSE id # 0 => file[id].state # "NONE"
    BY <1>3, <2>1 DEF Backs
  <2>3. ASSUME NEW i \in shown' PROVE file[i].state # "NONE"
    BY <1>7, <2>2, <2>3 DEF BridgeInv, AnswersBacked
  <2>4. ASSUME NEW a \in allowed' PROVE file[a[1]].state = "ALLOWED_ONCE" /\ file[a[1]].key = a[2]
    <3>1. CASE a \in allowed
      BY <3>1 DEF BridgeInv, AnswersBacked
    <3>2. CASE ok /\ a = <<id, key>>
      BY <2>2, <3>2
    <3> QED
      BY <1>7, <2>4, <3>1, <3>2
  <2> QED
    BY <2>3, <2>4
<1> QED
  BY <1>9, <1>12, <1>13, <1>14 DEF BridgeInv

-----------------------------------------------------------------------------
(* Theorems *)

LEMMA InitBridgeInv == Init => BridgeInv
<1> SUFFICES ASSUME Init PROVE BridgeInv
  OBVIOUS
<1>1. /\ file = Empty /\ mem = [p \in Procs |-> Empty] /\ pc = [p \in Procs |-> "idle"]
      /\ out = [p \in Procs |-> Deny] /\ issued = 0
      /\ shown = {} /\ appealed = {} /\ allowed = {} /\ orderly = TRUE
  BY DEF Init
<1>2. BridgeTypes
  BY <1>1, EmptyStore, Answers, BridgeAssumption DEF BridgeTypes, Stores
<1>3. StoresSound
  <2>1. Promised(Deny, appealed) /\ Sound(Empty, issued, appealed)
    BY Answers, PromisedNothing, EmptySound
  <2> QED
    BY <1>1, <2>1 DEF StoresSound, AllowAppealed
<1>4. InTurn /\ AnswersBacked
  BY <1>1 DEF InTurn, AnswersBacked
<1> QED
  BY <1>2, <1>3, <1>4 DEF BridgeInv

LEMMA NextBridgeInv ==
  ASSUME BridgeInv, Next
  PROVE  BridgeInv'
<1>1. PICK p \in Procs : \/ PreTool(p) \/ Retry(p) \/ \E i \in shown : Appeal(p, i)
                         \/ Save(p) \/ SaveFailed(p) \/ Reply(p) \/ Kill(p)
  BY DEF Next
<1>2. shown \subseteq Ids
  BY DEF BridgeInv, BridgeTypes
<1>3. CASE PreTool(p)
  BY <1>3, NoChallengeKeeps, OpenReuseKeeps, OpenNewKeeps DEF PreTool
<1>4. CASE Retry(p)
  <2>1. PICK i \in Ids, key \in Keys :
          \/ RetryFinished(p, i, key) \/ RetryRefused(p, i, key)
          \/ \E just \in BOOLEAN : RetryMismatch(p, i, key, just) \/ RetryConsume(p, i, key, just)
    BY <1>2, <1>4 DEF Retry
  <2> QED
    BY <2>1, RetryFinishedKeeps, RetryRefusedKeeps, RetryMismatchKeeps, RetryConsumeKeeps
<1>5. CASE \E i \in shown : Appeal(p, i)
  BY <1>2, <1>5, AppealKeeps
<1>6. CASE Save(p) \/ SaveFailed(p)
  BY <1>6, SaveKeeps, SaveFailedKeeps
<1>7. CASE Reply(p) \/ Kill(p)
  BY <1>7, ReplyKeeps, KillKeeps
<1> QED
  BY <1>1, <1>3, <1>4, <1>5, <1>6, <1>7

\* The invariant of the hook command: every store is sound whatever overlaps or
\* fails, and while the processes take turns every answer is backed by the file.
THEOREM BridgeInvariant == Spec => []BridgeInv
<1>1. BridgeInv /\ UNCHANGED vars => BridgeInv'
  BY DEF BridgeInv, BridgeTypes, StoresSound, AllowAppealed, InTurn, AnswersBacked, vars
<1> QED
  BY <1>1, InitBridgeInv, NextBridgeInv, PTL DEF Spec

\* However the hook processes overlap, crash or fail to load and save, no ALLOW
\* is printed for a challenge nobody justified (claude_challenge.go handleRetry).
THEOREM AllowedWasAppealed == Spec => []AllowAppealed
<1>1. BridgeInv => AllowAppealed
  BY DEF BridgeInv, StoresSound
<1> QED
  BY <1>1, BridgeInvariant, PTL

\* Saving before printing: while the processes take turns, the file has every
\* challenge that was shown and every retry that was allowed.
THEOREM FileBacksAnswers == Spec => []AnswersBacked
<1>1. BridgeInv => AnswersBacked
  BY DEF BridgeInv
<1> QED
  BY <1>1, BridgeInvariant, PTL

\* And so the one-shot retry survives the processes: all ALLOWs of a challenge
\* go to one retry identity.
THEOREM DurableInOrder == Spec => []OneShotInOrder
<1>1. BridgeInv => OneShotInOrder
  BY DEF BridgeInv, AnswersBacked, OneShotInOrder, DurableOneShot
<1> QED
  BY <1>1, BridgeInvariant, PTL
=============================================================================
