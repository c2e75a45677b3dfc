---------------------------- MODULE ClaudeBridge ----------------------------
(***************************************************************************)
(* The Claude hook command (src/cmd/claudebridge) over the challenge       *)
(* bridge of src/pkg/challenge/claude_challenge.go.  The host runs one     *)
(* process per hook call and per appeal; each loads the whole challenge    *)
(* store from a JSON file, acts on its private copy, writes the whole copy *)
(* back and only then prints its answer.  Nothing locks the file between   *)
(* the load and the save.                                                  *)
(*                                                                         *)
(* What a process does between the load and the save touches its own copy  *)
(* only, so the load and the handler are one step; saving and replying are *)
(* the next two.  The command sets no ExpiresAfterSequences and opens      *)
(* appealable challenges only, so there is no expiry by age and no         *)
(* barrier, and a store is saved only after AttemptRetry returned, so      *)
(* that RETRY_PENDING never reaches the file.                              *)
(***************************************************************************)
EXTENDS Integers, FiniteSets

CONSTANTS
  Procs,          \* processes that may run at the same time
  Fps,            \* action fingerprints
  Denied,         \* those policy denies with the right of appeal
  Binds,          \* pairs <<retried, original>> that ClassifyRelationship binds
  Reasons,        \* reason codes of a denial
  Tools,          \* tool_use_ids
  MaxChallenges,  \* bound on the challenges opened
  SaveFails,      \* SaveToFile may fail
  LoadFails,      \* LoadFromFile may fail
  None

ASSUME BridgeAssumption ==
  /\ MaxChallenges \in Nat /\ {SaveFails, LoadFails} \subseteq BOOLEAN
  /\ Denied \subseteq Fps /\ \A f \in Fps : <<f, f>> \in Binds
  /\ None \notin Fps \cup Reasons \cup (Tools \X Fps)

VARIABLES
  file,      \* the store in the file: [Ids -> record]
  mem,       \* the store in each process, until it is saved
  pc,        \* "idle", "save" or "reply"
  out,       \* what each process is about to print
  issued,    \* ids handed out; newID hashes the clock, so none comes twice
  shown,     \* ghost: challenge ids printed to the agent
  appealed,  \* ghost: challenges some process accepted a justification for
  allowed,   \* ghost: pairs <<challenge, retry identity>> that were printed ALLOW
  orderly    \* ghost: every load followed the save before it, and none failed

vars == <<file, mem, pc, out, issued, shown, appealed, allowed, orderly>>

Ids   == 1..MaxChallenges
Keys  == Tools \X Fps       \* retryAttemptKey, per challenge
NoRec == [state |-> "NONE", fp |-> None, reason |-> None, key |-> None]
Empty == [i \in Ids |-> NoRec]

\* An answer: ALLOW or not, the challenge it shows or grants (0 for none), the
\* retry it grants.
Deny    == [cmd |-> "pretool", allow |-> FALSE, id |-> 0, key |-> None]
Show(i) == [Deny EXCEPT !.id = i]
Verdict(i, allow, key) ==
  IF allow THEN [Deny EXCEPT !.allow = TRUE, !.id = i, !.key = key] ELSE Deny

Live(rec) == rec.state \in {"OPEN", "JUSTIFIED"}

-----------------------------------------------------------------------------
\* Exit, and with it the private copy of the store.
Exit(p) ==
  /\ pc'  = [pc  EXCEPT ![p] = "idle"]
  /\ mem' = [mem EXCEPT ![p] = Empty]
  /\ out' = [out EXCEPT ![p] = Deny]

\* What LoadFromFile leaves in memory.  runPretool ignores its error and goes on
\* with an empty store; runAppeal gives up.
Loaded(cmd) == IF LoadFails /\ cmd # "appeal" THEN {file, Empty} ELSE {file}

\* A process loaded store, turned it into store2 and will answer ans.
Handle(p, store, store2, ans) ==
  /\ pc[p] = "idle"
  /\ pc'  = [pc  EXCEPT ![p] = "save"]
  /\ mem' = [mem EXCEPT ![p] = store2]
  /\ out' = [out EXCEPT ![p] = ans]
  /\ orderly' = (orderly /\ store = file /\ \A q \in Procs : pc[q] # "save")
  /\ UNCHANGED <<file, shown, allowed>>

-----------------------------------------------------------------------------
(* EvaluatePreTool *)

\* Policy allows or defers the tool, denies it without appeal, or Open failed:
\* the store is saved as it was loaded.
NoChallenge(p) ==
  /\ \E store \in Loaded("pretool") : Handle(p, store, store, Deny)
  /\ UNCHANGED <<issued, appealed>>

\* service.Open: a live challenge on the action under the same identity is
\* handed out again; one under another identity expires and a new one opens.
LiveOn(store, fp) == {i \in Ids : Live(store[i]) /\ store[i].fp = fp}

OpenReuse(p, fp, reason) ==
  /\ \E store \in Loaded("pretool") : \E i \in LiveOn(store, fp) :
       /\ store[i].reason = reason
       /\ Handle(p, store, store, Show(i))
  /\ UNCHANGED <<issued, appealed>>

Opened(store, id, fp, reason) ==
  [i \in Ids |->
     IF i = id THEN [NoRec EXCEPT !.state = "OPEN", !.fp = fp, !.reason = reason]
     ELSE IF i \in LiveOn(store, fp) THEN [store[i] EXCEPT !.state = "EXPIRED"]
     ELSE store[i]]

OpenNew(p, fp, reason) ==
  /\ issued < MaxChallenges
  /\ issued' = issued + 1
  /\ \E store \in Loaded("pretool") :
       /\ \A i \in LiveOn(store, fp) : store[i].reason # reason
       /\ Handle(p, store, Opened(store, issued', fp, reason), Show(issued'))
  /\ UNCHANGED appealed

-----------------------------------------------------------------------------
(* handleRetry of a challenge the agent was shown, and so knows the nonce  *)
(* of: Justify when the call carries a justification and the challenge is  *)
(* OPEN, then AttemptRetry.  A challenge the store does not hold and a     *)
(* justification that is refused are errors: the process ends unsaved.     *)

Justified(store, i) ==
  IF store[i].state = "OPEN" THEN [store EXCEPT ![i].state = "JUSTIFIED"] ELSE store

\* The store AttemptRetry starts from.
Presented(store, i, just) == IF just THEN Justified(store, i) ELSE store
Appealed(store, i, just) ==
  appealed' = IF just /\ store[i].state = "OPEN" THEN appealed \cup {i} ELSE appealed

Bound(store, i, key) == store[i].state # "NONE" /\ <<key[2], store[i].fp>> \in Binds

\* Not the challenged action: denied, and nothing but the justification stays.
RetryMismatch(p, i, key, just) ==
  /\ \E store \in Loaded("pretool") :
       /\ store[i].state # "NONE" /\ ~Bound(store, i, key)
       /\ Handle(p, store, Presented(store, i, just), Deny)
       /\ Appealed(store, i, just)
  /\ UNCHANGED issued

\* Mutant: any retry of a granted challenge is answered ALLOW.
Replayed_AnyTool(rec, key) == rec.state = "ALLOWED_ONCE"
\* The one-shot rule of a finished challenge.
Replayed(rec, key) == rec.state = "ALLOWED_ONCE" /\ rec.key = key

RetryFinished(p, i, key) ==
  /\ \E store \in Loaded("pretool") :
       /\ Bound(store, i, key) /\ ~Live(store[i])
       /\ Handle(p, store, store, Verdict(i, Replayed(store[i], key), key))
  /\ UNCHANGED <<issued, appealed>>

\* Retried without a justification.
RetryRefused(p, i, key) ==
  /\ \E store \in Loaded("pretool") :
       /\ Bound(store, i, key) /\ store[i].state = "OPEN"
       /\ Handle(p, store, [store EXCEPT ![i].state = "REJECTED"], Deny)
  /\ UNCHANGED <<issued, appealed>>

\* Mutant: AttemptRetry forgets that the challenge must be justified.
Retriable_Open(rec) == Live(rec)
Retriable(rec) == rec.state = "JUSTIFIED"

\* The one retry: the default ReEvalContext allows it, unless the action looks
\* irreversible or like a leak.
RetryConsume(p, i, key, just) ==
  /\ \E store \in Loaded("pretool"), to \in {"ALLOWED_ONCE", "REJECTED", "HUMAN_REVIEW"} :
       LET presented == Presented(store, i, just) IN
       /\ Bound(store, i, key) /\ Retriable(presented[i])
       /\ Handle(p, store, [presented EXCEPT ![i].state = to, ![i].key = key],
                 Verdict(i, to = "ALLOWED_ONCE", key))
       /\ Appealed(store, i, just)
  /\ UNCHANGED issued

\* runAppeal: Justify alone; anything but an OPEN challenge, or one justified
\* with the same text, is an error.
Appeal(p, i) ==
  /\ \E store \in Loaded("appeal") :
       /\ Live(store[i])
       /\ Handle(p, store, Justified(store, i), [Deny EXCEPT !.cmd = "appeal"])
  /\ appealed' = appealed \cup {i}
  /\ UNCHANGED issued

-----------------------------------------------------------------------------
(* SaveToFile, then the answer on standard output.                         *)

\* Mutant: a granted retry is not written back.
Written_NoGrant(p) == IF out[p].allow THEN file ELSE mem[p]
\* The temporary file and its rename replace the whole store.
Written(p) == mem[p]

Saved(p) ==
  /\ mem' = [mem EXCEPT ![p] = Empty]     \* not read any more
  /\ pc' = [pc EXCEPT ![p] = "reply"]
  /\ UNCHANGED out

Save(p) ==
  /\ pc[p] = "save"
  /\ file' = Written(p)
  /\ Saved(p)
  /\ UNCHANGED <<issued, shown, appealed, allowed, orderly>>

\* runPretool ignores the error of the save as well; runAppeal reports it.
SaveFailed(p) ==
  /\ pc[p] = "save" /\ SaveFails
  /\ IF out[p].cmd = "appeal" THEN Exit(p) ELSE Saved(p)
  /\ orderly' = FALSE
  /\ UNCHANGED <<file, issued, shown, appealed, allowed>>

Reply(p) ==
  /\ pc[p] = "reply"
  /\ shown' = IF ~out[p].allow THEN shown \cup ({out[p].id} \ {0}) ELSE shown
  /\ allowed' = IF out[p].allow THEN allowed \cup {<<out[p].id, out[p].key>>} ELSE allowed
  /\ Exit(p)
  /\ UNCHANGED <<file, issued, appealed, orderly>>

\* The process dies, or the host gives up on it.
Kill(p) ==
  /\ pc[p] # "idle"
  /\ Exit(p)
  /\ UNCHANGED <<file, issued, shown, appealed, allowed, orderly>>

-----------------------------------------------------------------------------
Init ==
  /\ file = Empty
  /\ mem = [p \in Procs |-> Empty]
  /\ pc = [p \in Procs |-> "idle"]
  /\ out = [p \in Procs |-> Deny]
  /\ issued = 0
  /\ shown = {} /\ appealed = {} /\ allowed = {} /\ orderly = TRUE

PreTool(p) ==
  \/ NoChallenge(p)
  \/ \E fp \in Denied, reason \in Reasons : OpenReuse(p, fp, reason) \/ OpenNew(p, fp, reason)

Retry(p) ==
  \E i \in shown, key \in Keys :
    \/ RetryFinished(p, i, key) \/ RetryRefused(p, i, key)
    \/ \E just \in BOOLEAN : RetryMismatch(p, i, key, just) \/ RetryConsume(p, i, key, just)

Next ==
  \E p \in Procs :
    \/ PreTool(p) \/ Retry(p) \/ \E i \in shown : Appeal(p, i)
    \/ Save(p) \/ SaveFailed(p) \/ Reply(p) \/ Kill(p)

Spec == Init /\ [][Next]_vars

-----------------------------------------------------------------------------

\* The durable one-shot retry: the ALLOWs printed for a challenge all go to one
\* retry identity (claudebridge's load, AttemptRetry, save and print).
DurableOneShot == \A a, b \in allowed : a[1] = b[1] => a[2] = b[2]

\* It holds wherever processes die, as long as each loads what the one before it
\* saved and no load or save fails.
OneShotInOrder == orderly => DurableOneShot

\* As long as that is so, an answer is never ahead of the file: a challenge the
\* agent was shown can be appealed by the next process, and a printed ALLOW is on
\* record as consumed by the retry it was printed for.
AnswersBacked == orderly =>
  /\ \A i \in shown : file[i].state # "NONE"
  /\ \A a \in allowed : file[a[1]].state = "ALLOWED_ONCE" /\ file[a[1]].key = a[2]

\* However the processes overlap and whichever load or save fails, no ALLOW is
\* printed for a challenge nobody justified.
AllowAppealed == \A a \in allowed : a[1] \in appealed

-----------------------------------------------------------------------------
(* The inductive invariant behind the theorems of BridgeProofs. *)

Rec == [state : {"NONE", "OPEN", "JUSTIFIED", "EXPIRED", "REJECTED", "HUMAN_REVIEW",
                 "ALLOWED_ONCE"},
        fp : Fps \cup {None}, reason : Reasons \cup {None}, key : Keys \cup {None}]
Answer == [cmd : {"pretool", "appeal"}, allow : BOOLEAN, id : Ids \cup {0},
           key : Keys \cup {None}]

BridgeTypes ==
  /\ file \in [Ids -> Rec] /\ mem \in [Procs -> [Ids -> Rec]]
  /\ pc \in [Procs -> {"idle", "save", "reply"}]
  /\ out \in [Procs -> Answer]
  /\ issued \in 0..MaxChallenges
  /\ shown \subseteq Ids /\ appealed \subseteq Ids /\ allowed \subseteq Ids \X Keys
  /\ orderly \in BOOLEAN

\* A store, in the file or in a process, holds no id past the n handed out, and
\* no challenge outside A that is past its justification.
Sound(store, n, A) ==
  \A i \in Ids :
    /\ store[i].state # "NONE" => i <= n
    /\ store[i].state \in {"JUSTIFIED", "ALLOWED_ONCE"} => i \in A
Promised(ans, A) == ans.allow => ans.id \in A /\ ans.key \in Keys

\* The store has what the answer says.
Backs(store, ans) ==
  IF ans.allow THEN store[ans.id].state = "ALLOWED_ONCE" /\ store[ans.id].key = ans.key
  ELSE ans.id # 0 => store[ans.id].state # "NONE"

\* What one store shows or grants, a later one still does.
Extends(later, store) ==
  \A i \in Ids :
    /\ store[i].state # "NONE" => later[i].state # "NONE"
    /\ store[i].state = "ALLOWED_ONCE" =>
          later[i].state = "ALLOWED_ONCE" /\ later[i].key = store[i].key

StoresSound ==
  /\ Sound(file, issued, appealed) /\ AllowAppealed
  /\ \A p \in Procs : Sound(mem[p], issued, appealed) /\ Promised(out[p], appealed)

\* While the processes take turns, one at a time is between its load and its
\* save, what it will save extends the file, and every answer is backed by the
\* store it follows.
InTurn ==
  /\ \A p, q \in Procs : pc[p] = "save" /\ pc[q] = "save" => p = q
  /\ \A p \in Procs : pc[p] = "save" => Extends(mem[p], file) /\ Backs(mem[p], out[p])
  /\ \A p \in Procs : pc[p] = "reply" => Backs(file, out[p])

BridgeInv == BridgeTypes /\ StoresSound /\ (orderly => InTurn) /\ AnswersBacked
=============================================================================
