---------------------------- MODULE CodexApprovals ----------------------------
(***************************************************************************)
(* Approvals over the Codex client (src/pkg/adapter/codex_app_server.go):  *)
(* the child asks whether a command may run, as a request or as a          *)
(* notification; the reader queues the question; a consumer takes it and   *)
(* responds.  A full queue is answered with an error at once.  What the    *)
(* consumer decides is left out: it changes no state here.                 *)
(***************************************************************************)
EXTENDS RpcClient

CONSTANT MaxApprovals

ASSUME ApprovalAssumption == MaxApprovals \in Nat

VARIABLES
  approvals,  \* c.approvalRequests
  spa,        \* keys of c.serverPendingApprovals
  taken,      \* what consumers took off the queue
  posed,      \* how many questions the reader has read
  heard,      \* the ones among them that are requests
  replies     \* how many answers were written to each request

approving == <<approvals, spa, taken, posed, heard, replies>>

ApprovalIds == 1..MaxApprovals

-----------------------------------------------------------------------------
(* The reader                                                              *)

HasRoom == Len(approvals) < QueueDepth

\* The child has a question; every one has a requestId of its own.
Question ==
  /\ client = "codex" /\ reader.at = "read" /\ posed < MaxApprovals
  /\ posed' = posed + 1

\* handleServerNotification: queued, or lost.
ReadNotice ==
  /\ Question
  /\ approvals' = IF HasRoom THEN Append(approvals, posed') ELSE approvals
  /\ UNCHANGED <<rpc, spa, taken, heard, replies>>

\* handleServerRequest: registered first, so that a quick consumer finds it.
ReadApproval ==
  /\ Question
  /\ spa' = spa \cup {posed'}
  /\ heard' = heard \cup {posed'}
  /\ Reads("enqueue", Line("approval", posed'))
  /\ UNCHANGED <<flags, calls, pc, call, seen, lock, closer, wires, approvals, taken, replies>>

AfterOverflow == [at |-> "deny", line |-> reader.line]

Enqueue ==
  /\ reader.at = "enqueue"
  /\ IF HasRoom
     THEN /\ approvals' = Append(approvals, reader.line.id)
          /\ Reads("read", NoLine)
          /\ UNCHANGED spa
     ELSE /\ spa' = spa \ {reader.line.id}
          /\ reader' = AfterOverflow
          /\ UNCHANGED approvals
  /\ UNCHANGED <<flags, calls, pc, call, seen, lock, closer, wires, taken, posed, heard, replies>>

\* A request of another kind gets "method not found".
ReadRequest ==
  /\ client = "codex" /\ reader.at = "read" /\ ForeignIds # {}
  /\ Reads("deny", Line("request", 0))
  /\ UNCHANGED <<flags, calls, pc, call, seen, lock, closer, wires, approving>>

Response == Line("response", 0)

\* An answer that reaches the pipe.
Replied(r) ==
  replies' = IF Broken \/ r = 0 THEN replies ELSE [replies EXCEPT ![r] = @ + 1]

\* Both error responses are written by the reader itself.
Deny ==
  /\ reader.at = "deny"
  /\ \/ WriteBlocks("reader") /\ UNCHANGED <<reader, replies>>
     \/ /\ WriteNow(Response) \/ WriteResumes("reader", Response)
        /\ Replied(reader.line.id)
        /\ Reads("read", NoLine)
  /\ UNCHANGED <<flags, calls, pc, call, seen, closer, asked, server,
                 approvals, spa, taken, posed, heard>>

-----------------------------------------------------------------------------
(* The consumer                                                            *)

Job(r) == [approval |-> r]

Takes(c, r) ==
  /\ pc[c] = "idle"
  /\ call' = [call EXCEPT ![c] = [NoCall EXCEPT !.job = Job(r)]]
  /\ Go(c, "respond")
  /\ UNCHANGED <<flags, calls, reader, seen, lock, closer, wires, spa, posed, heard, replies>>

Take(c) ==
  /\ approvals # <<>>
  /\ Takes(c, Head(approvals))
  /\ taken' = taken \cup {Head(approvals)}
  /\ approvals' = Tail(approvals)

\* RespondApproval for a question taken, and perhaps answered, before.
TakeAgain(c) ==
  /\ \E r \in taken : Takes(c, r)
  /\ UNCHANGED <<approvals, taken>>

\* Mutant: the entry stays.
Claimed_Kept(r) == spa
Claimed(r) == spa \ {r}

\* RespondApproval on a pending request: the entry is claimed, then written.
Respond(c) ==
  /\ pc[c] = "respond" /\ call[c].job.approval \in spa
  /\ spa' = Claimed(call[c].job.approval)
  /\ Go(c, "reply")
  /\ UNCHANGED <<flags, calls, call, reader, seen, lock, closer, wires,
                 approvals, taken, posed, heard, replies>>

Reply(c) ==
  /\ pc[c] = "reply"
  /\ \/ WriteBlocks(c) /\ UNCHANGED <<pc, call, replies>>
     \/ /\ WriteNow(Response) \/ WriteResumes(c, Response)
        /\ Replied(call[c].job.approval)
        /\ Go(c, "idle")
        /\ call' = [call EXCEPT ![c] = NoCall]
  /\ UNCHANGED <<flags, calls, reader, seen, closer, asked, server,
                 approvals, spa, taken, posed, heard>>

\* Without an entry it is the request approval/respond, refused once closed.
RespondByCall(c) ==
  /\ pc[c] = "respond" /\ call[c].job.approval \notin spa
  /\ \/ NewCall(c, None)
     \/ /\ closed
        /\ Go(c, "idle")
        /\ call' = [call EXCEPT ![c] = NoCall]
        /\ UNCHANGED <<flags, calls, reader, seen, lock, closer, wires>>
  /\ UNCHANGED approving

-----------------------------------------------------------------------------
ApprovalInit ==
  /\ approvals = <<>> /\ spa = {} /\ taken = {} /\ heard = {}
  /\ posed = 0
  /\ replies = [r \in ApprovalIds |-> 0]

ConsumeStep(c) == Respond(c) \/ Reply(c) \/ RespondByCall(c)
ApprovalReadStep == ReadNotice \/ ReadApproval \/ Enqueue \/ ReadRequest \/ Deny

ApprovalNext ==
  \/ \E c \in Callers : Take(c) \/ TakeAgain(c) \/ ConsumeStep(c)
  \/ ApprovalReadStep

-----------------------------------------------------------------------------
\* handleServerRequest, RespondApproval: every request of the child's that the
\* reader has read is settled exactly once. However often consumers respond it
\* is answered at most once, and until it is answered it is on its way
\* (registered and in a consumer's reach, or being answered), unless the pipe
\* broke: no full queue swallows it.
ApprovalSettledOnce ==
  /\ \A r \in ApprovalIds : replies[r] <= 1
  /\ \A r \in heard :
       \/ replies[r] > 0 \/ Broken
       \/ reader.at \in {"enqueue", "deny"} /\ reader.line.id = r
       \/ r \in spa /\ (r \in taken \/ \E i \in DOMAIN approvals : approvals[i] = r)
       \/ \E c \in Callers : pc[c] = "reply" /\ call[c].job.approval = r
=============================================================================
