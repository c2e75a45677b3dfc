------------------------------ MODULE RpcSession ------------------------------
(***************************************************************************)
(* A client with its callers, its consumers and deliveries, its child, and *)
(* Close: the Codex client carries approvals, the Grok client advice.      *)
(***************************************************************************)
EXTENDS CodexApprovals, GrokPrompts

vars == <<rpc, approving, prompting>>

Init == RpcInit /\ ApprovalInit /\ PromptInit

Next ==
  \/ RpcNext /\ UNCHANGED <<approving, prompting>>
  \/ ApprovalNext /\ UNCHANGED prompting
  \/ PromptNext /\ UNCHANGED approving

(***************************************************************************)
(* Fairness.  Every goroutine that can go on does; Close's waits are       *)
(* bounded by timers, and so is the watch of a delivery.  A delivery that  *)
(* waits for the gate is queued by the channel, and gets it among those    *)
(* that keep coming.  A dead child has left a finite number of lines, so   *)
(* its reader comes to their end.  Nothing else is assumed of the child,   *)
(* and nothing of contexts or of who calls Close.                          *)
(***************************************************************************)
Fairness ==
  /\ \A c \in Callers :
       /\ WF_vars(\/ CallStep(c) /\ UNCHANGED <<approving, prompting>>
                  \/ ConsumeStep(c) /\ UNCHANGED prompting
                  \/ DeliverStep(c) /\ UNCHANGED approving)
       /\ SF_vars(AcquireDeliver(c) /\ UNCHANGED approving)
  /\ WF_vars(\/ ReadStep /\ UNCHANGED <<approving, prompting>>
             \/ ApprovalReadStep /\ UNCHANGED prompting
             \/ ReadUpdate /\ UNCHANGED approving)
  /\ SF_vars(ReadEOF /\ UNCHANGED <<approving, prompting>>)
  /\ WF_vars(CloseStep /\ UNCHANGED <<approving, prompting>>)

Spec     == Init /\ [][Next]_vars
FairSpec == Spec /\ Fairness

-----------------------------------------------------------------------------

\* call, failAllPending: once terminalErr is set no request is or gets registered,
\* and before that every registered request has its caller; and a call succeeds
\* only on a result the child gave to that very request: neither an error, nor the
\* reader's end, nor another line counts as one.  The one exception is Grok's: its
\* reader takes a request of the child's own under the call's id for the answer
\* (readLoop), so that call succeeds with an empty result; Codex's never does.
CallsAccounted ==
  /\ term => pending = {}
  /\ pending \subseteq {call[c].id : c \in {d \in Callers : pc[d] \in {"write", "wait", "leave"}}}
  /\ \A c \in Callers : Succeeded(call[c].answer) =>
       \/ call[c].answer = "result" /\ call[c].id \in asked
       \/ client = "grok" /\ call[c].answer = "request" /\ call[c].id \in ForeignIds

\* Close: a Grok client's Close ends, also with a write blocked on a child
\* that does not read.
GrokCloseEnds == (client = "grok" /\ closed) ~> (closer = "done")

\* Once stdin is closed every call, response and delivery under way returns:
\* none is left waiting for an answer, a lock or the gate.
CallersReturn == \A c \in Callers : (~stdin /\ pc[c] # "idle") ~> (pc[c] = "idle")

-----------------------------------------------------------------------------
(* The inductive invariants behind the theorems of RpcProofs. *)

Registered == {"write", "wait", "leave"}
Calling    == Registered \cup {"register"}
Delivering == {"check", "prompt", "return", "watch", "release"}
Labels     == {"idle", "gate", "respond", "reply"} \cup Calling \cup Delivering

Answers  == {"none", "error", "result", "request"}
Jobs     == {None, Advice} \cup {Job(r) : r \in ApprovalIds}
Calls    == [id : 0..MaxCalls, answer : Answers, job : Jobs]
PipeLine == [type : {"earlier", "request", "response"}, id : 0..MaxCalls]

CallTypes ==
  /\ stdin \in BOOLEAN /\ server \in BOOLEAN /\ nextID \in 0..MaxCalls
  /\ pc \in [Callers -> Labels] /\ call \in [Callers -> Calls]
  /\ ch \in [CallIds -> Answers]
  /\ inpipe \in Seq(PipeLine) /\ asked \subseteq 0..MaxCalls

\* A caller under way, and one with an answer, has a request id of its own.
Suits(at, l) ==
  /\ l.answer # "none" => l.id \in CallIds
  /\ at \in Calling => l.id \in CallIds /\ l.job \in {None, Advice}
  /\ at \in {"return", "watch"} => l.id \in CallIds /\ l.job = Advice
OwnIds ==
  /\ \A c \in Callers : Suits(pc[c], call[c])
  /\ \A c \in Callers : call[c].id <= nextID
  /\ \A c, d \in Callers : call[c].id = call[d].id /\ call[c].id # 0 => c = d

\* An answer on its way to request id, or there: a result only to a request the
\* child has read, and a request of the child's own only to the Grok client and
\* under an id the child chose.
Due(answer, id) ==
  /\ answer = "result" => id \in asked
  /\ answer = "request" => client = "grok" /\ id \in ForeignIds
AnswersDue ==
  /\ reader.at = "send" => reader.line.type \in Answers /\ Due(reader.line.type, reader.line.id)
  /\ \A i \in CallIds : Due(ch[i], i)
  /\ \A c \in Callers : Due(call[c].answer, call[c].id)

PendingOwned ==
  /\ term => pending = {}
  /\ pending \subseteq {call[c].id : c \in {d \in Callers : pc[d] \in Registered}}

RpcInv == CallTypes /\ OwnIds /\ AnswersDue /\ PendingOwned

\* A delivery holds the gate from its acquisition to its release.
Gated(at, l) == at \in Delivering \/ (at \in Calling /\ l.job = Advice)

PromptInv ==
  /\ updates \in Seq({UpdateOf(id, s) : id \in 0..MaxCalls, s \in Shapes})
  /\ proof \in [Callers -> 0..MaxCalls]
  /\ \A c \in Callers : Gated(pc[c], call[c]) => gate = c
  /\ \A c \in Callers : proof[c] # 0 => pc[c] = "release" /\ proof[c] = call[c].id

\* Where a question of the child's can be.
Queued(r)      == \E i \in DOMAIN approvals : approvals[i] = r
Answering(c, r) == pc[c] = "reply" /\ call[c].job.approval = r

ApprovalTypes ==
  /\ posed \in 0..MaxApprovals /\ replies \in [ApprovalIds -> Nat]
  /\ approvals \in Seq(ApprovalIds)
  /\ \A r \in ApprovalIds : Queued(r) => r <= posed
  /\ taken \subseteq 1..posed /\ heard \subseteq 1..posed /\ spa \subseteq heard

\* The newest question, before consumers can know of it: registered, or refused
\* because the queue was full.
Newest ==
  /\ reader.at = "enqueue" =>
       reader.line.id = posed /\ posed \in spa /\ posed \notin taken /\ ~Queued(posed)
  /\ reader.at = "deny" /\ reader.line.id # 0 =>
       /\ reader.line.id = posed /\ posed \in heard \ spa /\ posed \notin taken
       /\ ~Queued(posed) /\ replies[posed] = 0

ApprovalInv ==
  /\ ApprovalTypes /\ Newest
  /\ \A c \in Callers : pc[c] = "respond" => \E r \in taken : call[c].job = Job(r)
  /\ \A c \in Callers : pc[c] = "reply" =>
       \E r \in taken \cap heard : call[c].job = Job(r) /\ r \notin spa /\ replies[r] = 0
  /\ \A c, d \in Callers, r \in ApprovalIds : Answering(c, r) /\ Answering(d, r) => c = d
  /\ \A r \in ApprovalIds : r \in spa \/ r > posed => replies[r] = 0
  /\ ApprovalSettledOnce

SessionInv == RpcInv /\ ApprovalInv /\ PromptInv
=============================================================================
