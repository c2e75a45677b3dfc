------------------------------ MODULE GrokPrompts ------------------------------
(***************************************************************************)
(* Advice over the Grok client (src/pkg/adapter/grok_acp.go and            *)
(* grok_advice_actuator.go): a delivery takes the client's gate, drains    *)
(* the queue of updates, prompts, and for a while watches the queue for an *)
(* update that proves the session saw the prompt.  The client's lastACK is *)
(* left out: it is a diagnostic no delivery reads.                         *)
(***************************************************************************)
EXTENDS RpcClient

CONSTANTS
  Advice,    \* an intervention id: every delivery is a retry of the others
  Shapes     \* which identities the child puts on its updates

ASSUME PromptAssumption == Advice # None

VARIABLES
  gate,      \* who is in deliverGate
  updates,   \* c.updates
  proof      \* the request each claimed session_visible is really about, or 0

prompting == <<gate, updates, proof>>

-----------------------------------------------------------------------------
(* Which updates prove a delivery.  An update carries, over its envelope   *)
(* layers and the aliases of each key, a set of values for each identity:  *)
(* several values conflict, 0 and None stand for ones that do not parse.   *)

\* isSessionUpdateNotification, abstracted to its verdict.
IsSessionUpdate(u) == u.method

\* envelopeIdentityMap: layers that disagree.
Conflicted(u) == \E vals \in {u.iids, u.cids, u.rids} : Cardinality(vals) > 1

\* identityAliasConflicts: aliases that disagree are among the above; a value
\* of the wrong type, or a request id that is no integer, is refused as well.
Malformed(u) == None \in u.iids \cup u.cids \/ 0 \in u.rids

\* Mutant: the intervention id is enough.
Required_Any(u, cid, rid) == TRUE
\* A delivery with a request id needs that id, or its challenge, on the update.
Required(u, cid, rid) == rid > 0 => rid \in u.rids \/ (cid # None /\ cid \in u.cids)

UpdateStrongCorrelation(u, iid, cid, rid) ==
  LET matched == (iid # None /\ iid \in u.iids) \/ (cid # None /\ cid \in u.cids) \/ rid \in u.rids
      mismatched == \/ iid # None /\ u.iids \ {iid} # {}
                    \/ cid # None /\ u.cids \ {cid} # {}
                    \/ rid > 0 /\ u.rids \ {rid} # {}
  IN  /\ IsSessionUpdate(u) /\ ~Conflicted(u) /\ ~Malformed(u)
      /\ matched /\ ~mismatched
      /\ Required(u, cid, rid)

-----------------------------------------------------------------------------
(* The client                                                              *)

UpdateOf(id, s) ==
  [type |-> "update", id |-> id, method |-> s.method, session |-> s.session, iids |-> s.iids,
   cids |-> {}, rids |-> (IF s.own THEN {id} ELSE {}) \cup (IF s.junk THEN {0} ELSE {})]

\* The child reports on a prompt it read, at any time and as often as it likes.
UpdateLines == {UpdateOf(id, s) : id \in asked, s \in Shapes}

\* The reader queues a notification; an overflow is noted under the mutex.
ReadUpdate ==
  /\ client = "grok" /\ reader.at = "read"
  /\ \E u \in UpdateLines :
       IF Len(updates) < QueueDepth THEN updates' = Append(updates, u) ELSE MuFree /\ UNCHANGED updates
  /\ UNCHANGED <<rpc, gate, proof>>

-----------------------------------------------------------------------------
(* Deliver                                                                 *)

Steps(c, label) ==
  /\ Go(c, label)
  /\ UNCHANGED <<flags, calls, call, reader, seen, lock, closer, wires>>

BeginDeliver(c) ==
  /\ client = "grok" /\ pc[c] = "idle" /\ nextID < MaxCalls
  /\ Steps(c, "gate")
  /\ UNCHANGED prompting

\* Mutant: deliveries do not wait for one another.
GateFree_Always == TRUE
GateFree == gate = None

AcquireDeliver(c) ==
  /\ pc[c] = "gate" /\ GateFree /\ MuFree
  /\ gate' = c
  /\ Steps(c, "check")
  /\ UNCHANGED <<updates, proof>>

\* The context is done first: not sent.
AcquireCanceled(c) ==
  /\ pc[c] = "gate"
  /\ Steps(c, "idle")
  /\ UNCHANGED prompting

\* No session, another session's pin, empty or private advice, a context
\* already done: not sent.
RejectLocally(c) ==
  /\ pc[c] = "check"
  /\ Steps(c, "release")
  /\ UNCHANGED prompting

DrainUpdates(c) ==
  /\ pc[c] = "check"
  /\ updates' = <<>>
  /\ Steps(c, "prompt")
  /\ UNCHANGED <<gate, proof>>

SessionPromptMeta(c) ==
  /\ pc[c] = "prompt" /\ MuFree
  /\ \/ NewCall(c, Advice)
     \/ closed /\ Steps(c, "release")
  /\ UNCHANGED prompting

\* The call came back.  WaitUpdate may be 0.
Prompted(c) ==
  /\ pc[c] = "return" /\ call[c].job = Advice /\ MuFree
  /\ IF Succeeded(call[c].answer)
     THEN \E next \in {"watch", "release"} : Go(c, next)
     ELSE Go(c, "release")
  /\ UNCHANGED <<flags, calls, call, reader, seen, lock, closer, wires, gate, updates, proof>>

\* updateMatchesTargetSession, then the strong correlation.
Proves(u, id) == u.session /\ UpdateStrongCorrelation(u, Advice, None, id)

Watch(c) ==
  /\ pc[c] = "watch" /\ updates # <<>> /\ MuFree
  /\ updates' = Tail(updates)
  /\ IF Proves(Head(updates), call[c].id)
     THEN /\ proof' = [proof EXCEPT ![c] = Head(updates).id]
          /\ Steps(c, "release")
     ELSE UNCHANGED <<proof, rpc>>
  /\ UNCHANGED gate

\* The deadline of the watch, or the context's.
WatchEnds(c) ==
  /\ pc[c] = "watch"
  /\ Steps(c, "release")
  /\ UNCHANGED prompting

\* Mutant: a failed prompt keeps the gate.
Released_Sent(c) == IF Succeeded(call[c].answer) THEN None ELSE gate
Released(c) == None

ReleaseDeliver(c) ==
  /\ pc[c] = "release" /\ MuFree
  /\ gate' = Released(c)
  /\ proof' = [proof EXCEPT ![c] = 0]
  /\ Go(c, "idle")
  /\ call' = [call EXCEPT ![c] = NoCall]
  /\ UNCHANGED <<flags, calls, reader, seen, lock, closer, wires, updates>>

-----------------------------------------------------------------------------
PromptInit == gate = None /\ updates = <<>> /\ proof = [c \in Callers |-> 0]

DeliverStep(c) ==
  DrainUpdates(c) \/ SessionPromptMeta(c) \/ Prompted(c) \/ Watch(c) \/ WatchEnds(c) \/ ReleaseDeliver(c)

PromptNext ==
  \/ \E c \in Callers : BeginDeliver(c) \/ AcquireDeliver(c) \/ AcquireCanceled(c)
                          \/ RejectLocally(c) \/ DeliverStep(c)
  \/ ReadUpdate

-----------------------------------------------------------------------------
\* UpdateStrongCorrelation: a delivery that reports session_visible does so on
\* an update about its own prompt, never on a late one about another prompt
\* with the same intervention id.
SourceCorrelated == \A c \in Callers : proof[c] # 0 => proof[c] = call[c].id

\* deliverGate: an update that proves a prompt still under way leaves the
\* queue only into the hands of that delivery.
KeepsOwnUpdates ==
  \A c \in Callers :
    pc[c] \in {"write", "wait", "leave", "return", "watch"} /\ call[c].job = Advice =>
      \A i \in DOMAIN updates :
        Proves(updates[i], call[c].id) /\ updates[i] \notin {updates'[j] : j \in DOMAIN updates'}
          => pc'[c] # pc[c]
OwnUpdateKept == [][KeepsOwnUpdates]_<<rpc, prompting>>
=============================================================================
