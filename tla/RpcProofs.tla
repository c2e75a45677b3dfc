------------------------------ MODULE RpcProofs ------------------------------
(***************************************************************************)
(* TLAPS proofs about RpcSession, for any number of callers, requests,     *)
(* questions and updates, and for any depth of the pipe and the queues.    *)
(***************************************************************************)
EXTENDS RpcSession, SequenceTheorems, TLAPS

LEMMA Sorts ==
  /\ Registered \subseteq Calling /\ Calling \subseteq Labels /\ Delivering \subseteq Labels
  /\ {"idle", "gate", "respond", "reply"} \subseteq Labels
  /\ {"idle", "gate", "respond", "reply"} \cap (Calling \cup Delivering) = {}
  /\ Calling \cap Delivering = {} /\ "register" \notin Registered
  /\ {"write", "wait", "leave"} \subseteq Registered /\ "register" \in Calling
  /\ {"check", "prompt", "return", "watch", "release"} \subseteq Delivering
BY DEF Registered, Calling, Delivering, Labels

LEMMA NoCallFits == NoCall \in Calls /\ NoCall.id = 0 /\ NoCall.answer = "none" /\ NoCall.job = None
<1>1. 0 \in 0..MaxCalls
  BY RpcAssumption
<1> QED
  BY <1>1 DEF NoCall, Calls, Answers, Jobs

-----------------------------------------------------------------------------
(* A caller moves: what its step has to show for RpcInv to hold afterwards. *)

Moved(c, at, l) == pc' = [pc EXCEPT ![c] = at] /\ call' = [call EXCEPT ![c] = l]

\* The caller keeps its id, gives it up, or takes the next one.
Numbered(c, l) ==
  \/ nextID' = nextID /\ (l.id = 0 \/ l.id = call[c].id)
  \/ nextID < MaxCalls /\ nextID' = nextID + 1 /\ l.id = nextID + 1

\* The map of pending requests loses this caller's entry, or gains it.
Entered(c, at, l) ==
  /\ term => pending' = {}
  /\ pending' \subseteq pending \cup (IF at \in Registered THEN {l.id} ELSE {})
  /\ call[c].id \in pending' /\ pc[c] \in Registered => at \in Registered /\ l.id = call[c].id

Channels == ch' \in [CallIds -> Answers] /\ \A i \in CallIds : ch'[i] = ch[i] \/ ch'[i] = "none"

LEMMA CallerStep ==
  ASSUME RpcInv, NEW c \in Callers, NEW at \in Labels, NEW l \in Calls, Moved(c, at, l),
         Suits(at, l), Due(l.answer, l.id), Numbered(c, l), Entered(c, at, l), Channels,
         UNCHANGED <<client, reader, asked, term, stdin, server>>, inpipe' \in Seq(PipeLine)
  PROVE  RpcInv'
<1>1. CallTypes /\ OwnIds /\ AnswersDue /\ PendingOwned
  BY DEF RpcInv
<1>2. /\ pc'[c] = at /\ call'[c] = l
      /\ \A d \in Callers \ {c} : pc'[d] = pc[d] /\ call'[d] = call[d]
  BY <1>1 DEF Moved, CallTypes
<1>3. nextID \in Nat /\ MaxCalls \in Nat /\ nextID <= MaxCalls /\ nextID' \in 0..MaxCalls /\ nextID <= nextID'
  BY <1>1, RpcAssumption DEF Numbered, CallTypes
<1>4. CallTypes'
  BY <1>1, <1>3 DEF CallTypes, Moved, Channels
<1>5. OwnIds'
  <2>1. \A d \in Callers : Suits(pc[d], call[d])'
    BY <1>1, <1>2 DEF OwnIds, Suits
  <2>2. \A d \in Callers : call[d].id \in 0..MaxCalls /\ call[d].id <= nextID
    BY <1>1 DEF CallTypes, Calls, OwnIds
  <2>3. \A d \in Callers : call'[d].id <= nextID'
    BY <1>2, <1>3, <2>2 DEF Numbered
  <2>4. ASSUME NEW d \in Callers, NEW e \in Callers, call'[d].id = call'[e].id, call'[d].id # 0 PROVE d = e
    <3>1. ASSUME NEW f \in Callers \ {c}, l.id = call[f].id, l.id # 0 PROVE FALSE
      <4>1. call[c].id # call[f].id \/ call[f].id = 0
        BY <1>1, <3>1 DEF OwnIds
      <4> QED
        BY <1>3, <2>2, <3>1, <4>1 DEF Numbered
    <3> QED
      BY <1>1, <1>2, <2>4, <3>1 DEF OwnIds
  <2> QED
    BY <2>1, <2>3, <2>4 DEF OwnIds
<1>6. AnswersDue'
  <2>1. \A i \in CallIds : Due(ch[i], i)'
    BY <1>1 DEF AnswersDue, Due, Channels
  <2>2. \A d \in Callers : Due(call[d].answer, call[d].id)'
    BY <1>1, <1>2 DEF AnswersDue, Due
  <2>3. reader'.at = "send" => reader'.line.type \in Answers /\ Due(reader.line.type, reader.line.id)'
    BY <1>1 DEF AnswersDue, Due
  <2> QED
    BY <2>1, <2>2, <2>3 DEF AnswersDue
<1>7. PendingOwned'
  <2>1. ASSUME NEW i \in pending' PROVE \E d \in Callers : pc'[d] \in Registered /\ call'[d].id = i
    <3>1. CASE at \in Registered /\ i = l.id
      BY <1>2, <3>1
    <3>2. CASE i \in pending
      <4>1. PICK d \in Callers : pc[d] \in Registered /\ call[d].id = i
        BY <1>1, <3>2 DEF PendingOwned
      <4>2. CASE d = c
        BY <1>2, <2>1, <4>1, <4>2 DEF Entered
      <4>3. CASE d # c
        BY <1>2, <4>1, <4>3
      <4> QED
        BY <4>2, <4>3
    <3> QED
      BY <2>1, <3>1, <3>2 DEF Entered
  <2>2. term' => pending' = {}
    BY DEF Entered
  <2> QED
    BY <2>1, <2>2 DEF PendingOwned
<1> QED
  BY <1>4, <1>5, <1>6, <1>7 DEF RpcInv

\* Nobody moves: the reader, Close or the child.
LEMMA OtherStep ==
  ASSUME RpcInv, UNCHANGED <<client, pc, call, nextID>>, asked \subseteq asked', asked' \subseteq 0..MaxCalls,
         stdin' \in BOOLEAN, server' \in BOOLEAN, inpipe' \in Seq(PipeLine),
         ch' \in [CallIds -> Answers], \A i \in CallIds : Due(ch'[i], i),
         reader'.at = "send" => reader'.line.type \in Answers /\ Due(reader'.line.type, reader'.line.id),
         pending' \subseteq pending, term' => pending' = {}
  PROVE  RpcInv'
<1>1. CallTypes /\ OwnIds /\ AnswersDue /\ PendingOwned
  BY DEF RpcInv
<1>2. CallTypes'
  BY <1>1 DEF CallTypes
<1>3. OwnIds'
  BY <1>1 DEF OwnIds, Suits
<1>4. AnswersDue'
  BY <1>1 DEF AnswersDue, Due
<1>5. PendingOwned'
  BY <1>1 DEF PendingOwned
<1> QED
  BY <1>2, <1>3, <1>4, <1>5 DEF RpcInv

-----------------------------------------------------------------------------
(* Steps that do not concern approvals or deliveries. *)

LEMMA ApprovalAside ==
  ASSUME ApprovalInv, RpcInv, UNCHANGED approving, Broken => Broken',
         \/ reader' = reader
         \/ /\ reader.at \notin {"enqueue", "deny"} /\ reader'.at # "enqueue"
            /\ reader'.at = "deny" => reader'.line.id = 0,
         \A c \in Callers : /\ pc'[c] \in {"respond", "reply"} => pc'[c] = pc[c] /\ call'[c] = call[c]
                            /\ pc[c] = "reply" => pc'[c] = "reply"
  PROVE  ApprovalInv'
<1>1. ApprovalTypes'
  BY DEF ApprovalInv, ApprovalTypes, approving, Queued
<1>2. Newest'
  BY DEF ApprovalInv, Newest, Queued, approving
<1>3. \A c \in Callers : pc'[c] = "reply" <=> pc[c] = "reply"
  OBVIOUS
<1>4. \A c \in Callers : pc'[c] = "respond" => \E r \in taken' : call'[c].job = Job(r)
  BY DEF ApprovalInv, approving
<1>5. \A c \in Callers : pc'[c] = "reply" =>
       \E r \in taken' \cap heard' : call'[c].job = Job(r) /\ r \notin spa' /\ replies'[r] = 0
  BY DEF ApprovalInv, approving
<1>6. \A c, d \in Callers, r \in ApprovalIds : Answering(c, r)' /\ Answering(d, r)' => c = d
  BY DEF ApprovalInv, approving, Answering
<1>7. \A r \in ApprovalIds : r \in spa' \/ r > posed' => replies'[r] = 0
  BY DEF ApprovalInv, approving
<1>8. ApprovalSettledOnce'
  <2>1. ApprovalSettledOnce
    BY DEF ApprovalInv
  <2>2. \A r \in ApprovalIds : replies'[r] <= 1
    BY <2>1 DEF ApprovalSettledOnce, approving
  <2>3. ASSUME NEW r \in heard'
        PROVE  \/ replies'[r] > 0 \/ Broken'
               \/ reader'.at \in {"enqueue", "deny"} /\ reader'.line.id = r
               \/ r \in spa' /\ (r \in taken' \/ \E i \in DOMAIN approvals' : approvals'[i] = r)
               \/ \E c \in Callers : pc'[c] = "reply" /\ call'[c].job.approval = r
    BY <1>3, <2>1, <2>3 DEF ApprovalSettledOnce, approving
  <2> QED
    BY <2>2, <2>3 DEF ApprovalSettledOnce
<1> QED
  BY <1>1, <1>2, <1>4, <1>5, <1>6, <1>7, <1>8 DEF ApprovalInv

LEMMA PromptAside ==
  ASSUME PromptInv, UNCHANGED prompting,
         \A c \in Callers : /\ Gated(pc[c], call[c])' => Gated(pc[c], call[c])
                            /\ pc[c] = "release" => pc'[c] = "release" /\ call'[c] = call[c]
  PROVE  PromptInv'
<1>1. updates' \in Seq({UpdateOf(id, s) : id \in 0..MaxCalls, s \in Shapes}) /\ proof' \in [Callers -> 0..MaxCalls]
  BY DEF PromptInv, prompting
<1>2. \A c \in Callers : Gated(pc[c], call[c])' => gate' = c
  BY DEF PromptInv, prompting
<1>3. \A c \in Callers : proof'[c] # 0 => pc'[c] = "release" /\ proof'[c] = call'[c].id
  BY DEF PromptInv, prompting
<1> QED
  BY <1>1, <1>2, <1>3 DEF PromptInv, UpdateOf
\* A caller outside a reply and a release moves, on the same side of the gate.
LEMMA CallerAside ==
  ASSUME SessionInv, NEW c \in Callers, NEW at, NEW l, Moved(c, at, l),
         pc[c] \notin {"reply", "release"}, at \notin {"respond", "reply"},
         Gated(at, l) => Gated(pc[c], call[c]),
         UNCHANGED <<approving, prompting, reader, stdin, server>>
  PROVE  ApprovalInv' /\ PromptInv'
<1>1. /\ pc'[c] = at /\ call'[c] = l
      /\ \A d \in Callers \ {c} : pc'[d] = pc[d] /\ call'[d] = call[d]
  BY DEF Moved, SessionInv, RpcInv, CallTypes
<1>2. ApprovalInv'
  <2>1. Broken => Broken'
    BY DEF Broken
  <2> QED
    BY <1>1, <2>1, ApprovalAside DEF SessionInv
<1>3. PromptInv'
  <2>1. ASSUME NEW d \in Callers PROVE Gated(pc[d], call[d])' => Gated(pc[d], call[d])
    BY <1>1 DEF Gated
  <2>2. \A d \in Callers : pc[d] = "release" => pc'[d] = "release" /\ call'[d] = call[d]
    BY <1>1
  <2> QED
    BY <2>1, <2>2, PromptAside DEF SessionInv
<1> QED
  BY <1>2, <1>3

\* Nobody moves, and the reader is not at a question.
LEMMA OtherAside ==
  ASSUME SessionInv, UNCHANGED <<pc, call, approving, prompting>>, Broken => Broken',
         reader' = reader \/ (reader.at \notin {"enqueue", "deny"} /\ reader'.at \notin {"enqueue", "deny"})
  PROVE  ApprovalInv' /\ PromptInv'
<1>1. ApprovalInv'
  BY ApprovalAside DEF SessionInv
<1>2. PromptInv'
  BY PromptAside DEF SessionInv, Gated
<1> QED
  BY <1>1, <1>2

\* What reaches the pipe are lines.
LEMMA PipeTypes ==
  ASSUME CallTypes, NEW line \in PipeLine, NEW who,
         WriteBlocks(who) \/ WriteNow(line) \/ WriteResumes(who, line)
  PROVE  inpipe' \in Seq(PipeLine)
<1>1. inpipe \in Seq(PipeLine)
  BY DEF CallTypes
<1>2. Append(inpipe, line) \in Seq(PipeLine)
  BY <1>1
<1>3. inpipe' = inpipe \/ inpipe' = Append(inpipe, line)
  BY ZenonT(20) DEF WriteBlocks, WriteNow, WriteResumes
<1> QED
  BY <1>1, <1>2, <1>3

LEMMA Facts ==
  ASSUME SessionInv, NEW c \in Callers
  PROVE  /\ CallTypes /\ pc[c] \in Labels /\ call[c] \in Calls /\ Suits(pc[c], call[c])
         /\ Due(call[c].answer, call[c].id) /\ call[c].id \in 0..MaxCalls
BY DEF SessionInv, RpcInv, CallTypes, OwnIds, AnswersDue, Calls

LEMMA SameChannels ==
  ASSUME SessionInv, ch' = ch
  PROVE  Channels
BY DEF SessionInv, RpcInv, CallTypes, Channels

-----------------------------------------------------------------------------
(* call, callWithID *)

\* A step of a caller that keeps its call.
LEMMA GoStep ==
  ASSUME SessionInv, NEW c \in Callers, NEW at \in Labels, Go(c, at), call' = call,
         Suits(at, call[c]), Entered(c, at, call[c]),
         UNCHANGED <<ch, nextID, reader, asked, client, term, stdin, server>>, inpipe' \in Seq(PipeLine)
  PROVE  RpcInv' /\ Moved(c, at, call[c])
<1>1. PICK l \in Calls : l = call[c]
  BY Facts
<1>2. Moved(c, at, l)
  BY <1>1, Facts DEF Moved, Go, CallTypes
<1>3. Numbered(c, l) /\ Due(l.answer, l.id) /\ Suits(at, l) /\ Entered(c, at, l)
  BY <1>1, Facts DEF Numbered
<1> QED
  BY <1>1, <1>2, <1>3, SameChannels, CallerStep DEF SessionInv

\* A new call, whoever makes it.
LEMMA NewCallStep ==
  ASSUME SessionInv, NEW c \in Callers, pc[c] \notin Registered, NEW job \in {None, Advice}, NewCall(c, job)
  PROVE  RpcInv' /\ \E l \in Calls : Moved(c, "register", l) /\ l.job = job
<1>1. PICK l : l = [NoCall EXCEPT !.id = nextID', !.job = job]
  OBVIOUS
<1>2. nextID \in Nat /\ nextID < MaxCalls /\ nextID' = nextID + 1 /\ nextID' \in CallIds
  BY Facts, RpcAssumption DEF NewCall, CallTypes, CallIds
<1>3. l.id = nextID' /\ l.job = job /\ l.answer = "none"
  BY <1>1 DEF NoCall
<1>4. l \in Calls
  <2>1. nextID' \in 0..MaxCalls /\ job \in Jobs /\ "none" \in Answers
    BY <1>2, RpcAssumption DEF CallIds, Jobs, Answers
  <2> QED
    BY <1>1, <2>1 DEF NoCall, Calls
<1>5. Moved(c, "register", l)
  BY <1>1 DEF NewCall, Go, Moved
<1>6. Suits("register", l) /\ Numbered(c, l) /\ Due(l.answer, l.id)
  BY <1>2, <1>3 DEF Suits, Numbered, Due
<1>7. Entered(c, "register", l)
  BY Sorts DEF Entered, NewCall, SessionInv, RpcInv, PendingOwned
<1>8. Channels /\ UNCHANGED <<reader, asked, client, term, stdin, server>> /\ inpipe' \in Seq(PipeLine)
  BY Facts, SameChannels DEF NewCall, flags, wires, CallTypes
<1>9. RpcInv'
  BY <1>4, <1>5, <1>6, <1>7, <1>8, Sorts, CallerStep DEF SessionInv
<1> QED
  BY <1>3, <1>4, <1>5, <1>9

\* A call comes back: to nobody, or to a delivery.
LEMMA ReturnsStep ==
  ASSUME SessionInv, NEW c \in Callers, pc[c] \in Calling, Returns(c),
         call[c].id \in pending' => pc[c] \notin Registered, term => pending' = {}, pending' \subseteq pending, Channels,
         UNCHANGED <<nextID, reader, asked, client, term, stdin, server, inpipe>>
  PROVE  RpcInv' /\ \E at \in {"idle", "return"}, l \in Calls : Moved(c, at, l) /\ (Gated(at, l) => Gated(pc[c], call[c]))
<1>1. CASE call[c].job = None
  <2>1. Moved(c, "idle", NoCall)
    BY <1>1 DEF Returns, Go, Moved
  <2>2. Suits("idle", NoCall) /\ Numbered(c, NoCall) /\ Due(NoCall.answer, NoCall.id) /\ Entered(c, "idle", NoCall)
    BY NoCallFits, Sorts DEF Suits, Numbered, Due, Entered
  <2>3. inpipe' \in Seq(PipeLine)
    BY Facts DEF CallTypes
  <2>4. RpcInv'
    BY <2>1, <2>2, <2>3, NoCallFits, Sorts, CallerStep DEF SessionInv
  <2>5. ~Gated("idle", NoCall)
    BY Sorts DEF Gated
  <2> QED
    BY <2>1, <2>4, <2>5, NoCallFits
<1>2. CASE call[c].job # None
  <2>1. PICK l \in Calls : l = call[c]
    BY Facts
  <2>2. Moved(c, "return", l)
    BY <1>2, <2>1, Facts DEF Returns, Go, Moved, CallTypes
  <2>3. l.job = Advice /\ l.id \in CallIds
    BY <1>2, <2>1, Facts DEF Suits
  <2>4. Suits("return", l) /\ Numbered(c, l) /\ Due(l.answer, l.id) /\ Entered(c, "return", l)
    BY <2>1, <2>3, Facts, Sorts DEF Suits, Numbered, Entered
  <2>5. inpipe' \in Seq(PipeLine)
    BY Facts DEF CallTypes
  <2>6. RpcInv'
    BY <2>2, <2>4, <2>5, Sorts, CallerStep DEF SessionInv
  <2>7. Gated(pc[c], call[c])
    BY <2>1, <2>3 DEF Gated
  <2> QED
    BY <2>1, <2>2, <2>6, <2>7
<1> QED
  BY <1>1, <1>2

LEMMA BeginCallKeeps ==
  ASSUME SessionInv, NEW c \in Callers, BeginCall(c), UNCHANGED <<approving, prompting>>
  PROVE  SessionInv'
<1>1. pc[c] = "idle" /\ NewCall(c, None)
  BY DEF BeginCall
<1>2. PICK l \in Calls : Moved(c, "register", l) /\ l.job = None /\ RpcInv'
  BY <1>1, NewCallStep, Sorts
<1>3. ~Gated("register", l)
  BY <1>2, PromptAssumption, Sorts DEF Gated
<1>4. UNCHANGED <<reader, stdin, server>>
  BY <1>1 DEF NewCall, flags, wires
<1> QED
  BY <1>1, <1>2, <1>3, <1>4, CallerAside DEF SessionInv

LEMMA RegisterKeeps ==
  ASSUME SessionInv, NEW c \in Callers, Register(c), UNCHANGED <<approving, prompting>>
  PROVE  SessionInv'
<1>1. pc[c] = "register" /\ UNCHANGED <<ch, nextID, reader, asked, client, term, stdin, server, inpipe>>
  BY DEF Register, flags, wires
<1>2. inpipe' \in Seq(PipeLine)
  BY <1>1, Facts DEF CallTypes
<1>3. CASE MayRegister
  <2>1. ~term /\ pending' = pending \cup {call[c].id} /\ Go(c, "write") /\ call' = call
    BY <1>3 DEF Register, MayRegister
  <2>2. Suits("write", call[c]) /\ Entered(c, "write", call[c])
    BY <1>1, <2>1, Facts, Sorts DEF Suits, Entered
  <2>3. RpcInv' /\ Moved(c, "write", call[c])
    BY <1>1, <1>2, <2>1, <2>2, Sorts, GoStep
  <2>4. Gated("write", call[c]) => Gated(pc[c], call[c])
    BY <1>1, Sorts DEF Gated
  <2> QED
    BY <1>1, <2>3, <2>4, CallerAside DEF SessionInv
<1>4. CASE ~MayRegister
  <2>1. Returns(c) /\ pending' = pending
    BY <1>4 DEF Register
  <2>2. term => pending' = {}
    BY <2>1 DEF SessionInv, RpcInv, PendingOwned
  <2>3. PICK at \in {"idle", "return"}, l \in Calls : Moved(c, at, l) /\ (Gated(at, l) => Gated(pc[c], call[c])) /\ RpcInv'
    BY <1>1, <2>1, <2>2, ReturnsStep, SameChannels, Sorts
  <2> QED
    BY <1>1, <2>3, CallerAside DEF SessionInv
<1> QED
  BY <1>3, <1>4

\* A registered call goes on within the call.
LEMMA CallGoes ==
  ASSUME SessionInv, NEW c \in Callers, pc[c] \in Registered, NEW at \in Registered, Go(c, at),
         UNCHANGED <<call, calls, reader, flags, asked, server, approving, prompting>>, inpipe' \in Seq(PipeLine)
  PROVE  SessionInv'
<1>1. UNCHANGED <<client, ch, nextID, pending, term, stdin>>
  BY DEF calls, flags
<1>2. Suits(at, call[c]) /\ Entered(c, at, call[c])
  BY <1>1, Facts, Sorts DEF Suits, Entered, SessionInv, RpcInv, PendingOwned, Delivering
<1>3. RpcInv' /\ Moved(c, at, call[c])
  BY <1>1, <1>2, Sorts, GoStep
<1>4. Gated(at, call[c]) => Gated(pc[c], call[c])
  BY Sorts DEF Gated
<1>5. pc[c] \notin {"reply", "release"} /\ at \notin {"respond", "reply"}
  BY DEF Registered
<1> QED
  BY <1>1, <1>3, <1>4, <1>5, CallerAside DEF SessionInv

LEMMA WriteKeeps ==
  ASSUME SessionInv, NEW c \in Callers, Write(c), UNCHANGED <<approving, prompting>>
  PROVE  SessionInv'
<1>1. PICK line : line = Line("request", call[c].id)
  OBVIOUS
<1>2. line \in PipeLine
  BY <1>1, Facts DEF Line, PipeLine
<1>3. /\ pc[c] = "write" /\ UNCHANGED <<call, calls, reader, flags, asked, server>>
      /\ \/ WriteBlocks(c) /\ UNCHANGED pc
         \/ (WriteNow(line) \/ WriteResumes(c, line)) /\ Go(c, IF Broken THEN "leave" ELSE "wait")
  BY <1>1 DEF Write
<1>4. inpipe' \in Seq(PipeLine)
  BY <1>2, <1>3, Facts, PipeTypes
<1>5. \E at \in {"write", "leave", "wait"} : Go(c, at)
  <2>1. UNCHANGED pc => Go(c, "write")
    BY <1>3, Facts DEF Go, CallTypes
  <2> QED
    BY <1>3, <2>1
<1> QED
  BY <1>3, <1>4, <1>5, CallGoes, Sorts

LEMMA WaitEnds ==
  ASSUME SessionInv, NEW c \in Callers, TooLarge(c) \/ ReaderGone(c) \/ ContextDone(c), UNCHANGED <<approving, prompting>>
  PROVE  SessionInv'
<1>1. /\ pc[c] \in {"write", "wait"} /\ Go(c, "leave")
      /\ UNCHANGED <<call, calls, reader, flags, asked, server, inpipe>>
  BY DEF TooLarge, ReaderGone, ContextDone, wires
<1>2. inpipe' \in Seq(PipeLine)
  BY <1>1, Facts DEF CallTypes
<1> QED
  BY <1>1, <1>2, CallGoes, Sorts

LEMMA AnsweredKeeps ==
  ASSUME SessionInv, NEW c \in Callers, Answered(c), UNCHANGED <<approving, prompting>>
  PROVE  SessionInv'
<1>1. /\ pc[c] = "wait" /\ UNCHANGED <<pending, ch, nextID, reader, asked, client, term, stdin, server, inpipe>>
  BY DEF Answered, calls, flags, wires
<1>2. call[c].id \in CallIds
  BY <1>1, Facts, Sorts DEF Suits
<1>3. PICK a \in Answers : a = ch[call[c].id] /\ Due(a, call[c].id)
  BY <1>2, Facts DEF CallTypes, SessionInv, RpcInv, AnswersDue
<1>4. PICK l : l = [call[c] EXCEPT !.answer = a]
  OBVIOUS
<1>5. l \in Calls /\ l.id = call[c].id /\ l.job = call[c].job /\ l.answer = a
  BY <1>4, Facts DEF Calls
<1>6. Moved(c, "leave", l)
  BY <1>3, <1>4 DEF Answered, Moved, Go
<1>7. Suits("leave", l) /\ Due(l.answer, l.id) /\ Numbered(c, l) /\ Entered(c, "leave", l)
  BY <1>1, <1>3, <1>5, Facts, Sorts DEF Suits, Numbered, Entered, SessionInv, RpcInv, PendingOwned, Delivering
<1>8. inpipe' \in Seq(PipeLine)
  BY <1>1, Facts DEF CallTypes
<1>9. RpcInv'
  BY <1>1, <1>5, <1>6, <1>7, <1>8, SameChannels, Sorts, CallerStep DEF SessionInv
<1>10. Gated("leave", l) => Gated(pc[c], call[c])
  BY <1>1, <1>5, Sorts DEF Gated
<1> QED
  BY <1>1, <1>6, <1>9, <1>10, CallerAside DEF SessionInv

LEMMA LeaveKeeps ==
  ASSUME SessionInv, NEW c \in Callers, Leave(c), UNCHANGED <<approving, prompting>>
  PROVE  SessionInv'
<1>1. /\ pc[c] = "leave" /\ UNCHANGED <<nextID, reader, asked, client, term, stdin, server, inpipe>>
      /\ pending' = pending \ {call[c].id} /\ Returns(c)
  BY DEF Leave, flags, wires
<1>2. Channels
  BY Facts DEF Leave, Channels, CallTypes, Answers
<1>3. term => pending' = {}
  BY <1>1 DEF SessionInv, RpcInv, PendingOwned
<1>4. PICK at \in {"idle", "return"}, l \in Calls : Moved(c, at, l) /\ (Gated(at, l) => Gated(pc[c], call[c])) /\ RpcInv'
  BY <1>1, <1>2, <1>3, ReturnsStep, Sorts
<1> QED
  BY <1>1, <1>4, CallerAside DEF SessionInv
-----------------------------------------------------------------------------
(* readLoop, Close and the child *)

\* The reader goes from one line to the next; the channels do not change.
LEMMA ReaderGoes ==
  ASSUME SessionInv, UNCHANGED <<flags, calls, pc, call, wires, approving, prompting>>,
         reader.at \notin {"enqueue", "deny"}, reader'.at \notin {"enqueue", "deny"},
         reader'.at = "send" => reader'.line.type \in Answers /\ Due(reader'.line.type, reader'.line.id)
  PROVE  SessionInv'
<1>1. UNCHANGED <<client, stdin, term, pending, ch, nextID, inpipe, asked, server>>
  BY DEF flags, calls, wires
<1>2. CallTypes /\ AnswersDue /\ PendingOwned
  BY DEF SessionInv, RpcInv
<1>3. RpcInv'
  <2>1. /\ stdin' \in BOOLEAN /\ server' \in BOOLEAN /\ inpipe' \in Seq(PipeLine)
        /\ ch' \in [CallIds -> Answers] /\ asked' \subseteq 0..MaxCalls
    BY <1>1, <1>2 DEF CallTypes
  <2>2. \A i \in CallIds : Due(ch'[i], i)
    BY <1>1, <1>2 DEF AnswersDue
  <2>3. term' => pending' = {}
    BY <1>1, <1>2 DEF PendingOwned
  <2> QED
    BY <1>1, <2>1, <2>2, <2>3, OtherStep DEF SessionInv
<1>4. Broken => Broken'
  BY <1>1 DEF Broken
<1> QED
  BY <1>3, <1>4, OtherAside DEF SessionInv

LEMMA ReadAnswerKeeps ==
  ASSUME SessionInv, ReadAnswer, UNCHANGED <<approving, prompting>>
  PROVE  SessionInv'
<1>1. PICK line \in AnswerLines : IF Handed(line.id) THEN Reads("send", line) ELSE Reads("read", NoLine)
  BY DEF ReadAnswer
<1>2. reader.at = "read" /\ UNCHANGED <<flags, calls, pc, call, wires>>
  BY DEF ReadAnswer
<1>3. line.type \in Answers /\ Due(line.type, line.id)
  BY <1>1 DEF AnswerLines, Line, Answers, Due
<1>4. /\ reader'.at \in {"send", "read"}
      /\ reader'.at = "send" => reader'.line = line
  BY <1>1 DEF Reads
<1> QED
  BY <1>2, <1>3, <1>4, ReaderGoes

LEMMA ReaderStops ==
  ASSUME SessionInv, ReadOversized \/ ReadEOF, UNCHANGED <<approving, prompting>>
  PROVE  SessionInv'
<1>1. /\ reader.at = "read" /\ reader'.at = "fail" /\ UNCHANGED <<flags, calls, pc, call, wires>>
  BY DEF ReadOversized, ReadEOF, Reads
<1> QED
  BY <1>1, ReaderGoes

\* The answer goes into the channel of the request it names, and no other.
LEMMA SendAnswerKeeps ==
  ASSUME SessionInv, SendAnswer, UNCHANGED <<approving, prompting>>
  PROVE  SessionInv'
<1>1. /\ reader.at = "send" /\ reader'.at = "read"
      /\ UNCHANGED <<client, stdin, term, pending, nextID, pc, call, inpipe, asked, server>>
  BY DEF SendAnswer, Reads, flags, wires
<1>2. CallTypes /\ AnswersDue /\ PendingOwned /\ OwnIds
  BY DEF SessionInv, RpcInv
<1>3. PICK id : id = reader.line.id
  OBVIOUS
<1>4. PICK type \in Answers : type = reader.line.type /\ Due(type, id)
  BY <1>1, <1>2, <1>3 DEF AnswersDue
<1>5. ch' = ch \/ (id \in CallIds /\ ch' = [ch EXCEPT ![id] = type])
  <2>1. ASSUME NEW c \in Callers, call[c].id = id, pc[c] \in {"write", "wait"} PROVE id \in CallIds
    BY <1>2, <2>1, Sorts DEF OwnIds, Suits
  <2> QED
    BY <1>3, <1>4, <2>1 DEF SendAnswer
<1>6. ch' \in [CallIds -> Answers] /\ \A i \in CallIds : Due(ch'[i], i)
  BY <1>2, <1>4, <1>5 DEF CallTypes, AnswersDue
<1>7. RpcInv'
  <2>1. stdin' \in BOOLEAN /\ server' \in BOOLEAN /\ inpipe' \in Seq(PipeLine) /\ asked' \subseteq 0..MaxCalls
    BY <1>1, <1>2 DEF CallTypes
  <2>2. term' => pending' = {}
    BY <1>1, <1>2 DEF PendingOwned
  <2> QED
    BY <1>1, <1>6, <2>1, <2>2, OtherStep DEF SessionInv
<1>8. Broken => Broken'
  BY <1>1 DEF Broken
<1> QED
  BY <1>1, <1>7, <1>8, OtherAside DEF SessionInv

\* failAllPending, by the reader at its end or by Close.
LEMMA FailAllKeeps ==
  ASSUME SessionInv, FailAllPending, UNCHANGED <<client, stdin, nextID, pc, call, wires, approving, prompting>>,
         reader' = reader \/ (reader.at = "fail" /\ reader'.at = "done")
  PROVE  SessionInv'
<1>1. UNCHANGED <<inpipe, asked, server>> /\ pending' = {}
  BY DEF wires, FailAllPending
<1>2. CallTypes /\ AnswersDue
  BY DEF SessionInv, RpcInv
<1>3. \A i \in CallIds : ch'[i] = ch[i] \/ ch'[i] = "error"
  BY DEF FailAllPending
<1>4. ch' \in [CallIds -> Answers] /\ \A i \in CallIds : Due(ch'[i], i)
  <2>1. \A i \in CallIds : ch'[i] \in Answers /\ Due(ch'[i], i)
    BY <1>2, <1>3 DEF CallTypes, AnswersDue, Due, Answers
  <2>2. ch' = [i \in CallIds |-> ch'[i]]
    BY DEF FailAllPending
  <2> QED
    BY <2>1, <2>2
<1>5. RpcInv'
  <2>1. stdin' \in BOOLEAN /\ server' \in BOOLEAN /\ inpipe' \in Seq(PipeLine) /\ asked' \subseteq 0..MaxCalls
    BY <1>1, <1>2 DEF CallTypes
  <2>2. reader'.at = "send" => reader'.line.type \in Answers /\ Due(reader'.line.type, reader'.line.id)
    BY <1>2 DEF AnswersDue
  <2> QED
    BY <1>1, <1>4, <2>1, <2>2, OtherStep DEF SessionInv
<1>6. Broken => Broken'
  BY <1>1 DEF Broken
<1> QED
  BY <1>5, <1>6, OtherAside DEF SessionInv

\* Steps of Close and of the child that leave calls, reader and consumers alone.
LEMMA OutsideKeeps ==
  ASSUME SessionInv, UNCHANGED <<client, term, calls, pc, call, reader, approving, prompting>>,
         stdin' \in BOOLEAN, server' \in BOOLEAN, stdin' => stdin, server' => server,
         asked \subseteq asked', asked' \subseteq 0..MaxCalls, inpipe' \in Seq(PipeLine)
  PROVE  SessionInv'
<1>1. UNCHANGED <<pending, ch, nextID>>
  BY DEF calls
<1>2. CallTypes /\ AnswersDue /\ PendingOwned
  BY DEF SessionInv, RpcInv
<1>3. RpcInv'
  <2>1. ch' \in [CallIds -> Answers] /\ \A i \in CallIds : Due(ch'[i], i)
    BY <1>1, <1>2 DEF CallTypes, AnswersDue
  <2>2. reader'.at = "send" => reader'.line.type \in Answers /\ Due(reader'.line.type, reader'.line.id)
    BY <1>2 DEF AnswersDue
  <2>3. term' => pending' = {}
    BY <1>1, <1>2 DEF PendingOwned
  <2> QED
    BY <1>1, <2>1, <2>2, <2>3, OtherStep DEF SessionInv
<1>4. Broken => Broken'
  BY DEF Broken
<1> QED
  BY <1>3, <1>4, OtherAside DEF SessionInv

LEMMA ClosingKeeps ==
  ASSUME SessionInv, BeginClose \/ CloseStdin \/ StopProcess \/ ServerDies, UNCHANGED <<approving, prompting>>
  PROVE  SessionInv'
<1>1. CallTypes
  BY DEF SessionInv, RpcInv
<1>2. /\ UNCHANGED <<client, term, calls, pc, call, reader, inpipe, asked>>
      /\ stdin' = stdin \/ ~stdin'
      /\ server' = server \/ ~server'
  <2>1. CASE BeginClose
    BY <2>1 DEF BeginClose, wires
  <2>2. CASE CloseStdin
    BY <2>2 DEF CloseStdin, wires
  <2>3. CASE StopProcess
    BY <2>3 DEF StopProcess, flags
  <2>4. CASE ServerDies
    BY <2>4 DEF ServerDies, flags
  <2> QED
    BY <2>1, <2>2, <2>3, <2>4
<1>3. stdin' \in BOOLEAN /\ server' \in BOOLEAN
  BY <1>1 DEF CallTypes, BeginClose, CloseStdin, StopProcess, ServerDies, flags, wires
<1>4. (stdin' => stdin) /\ (server' => server)
  BY <1>2
<1>5. asked' \subseteq 0..MaxCalls /\ inpipe' \in Seq(PipeLine)
  BY <1>1, <1>2 DEF CallTypes
<1> QED
  BY <1>2, <1>3, <1>4, <1>5, OutsideKeeps

LEMMA ServerReadsKeeps ==
  ASSUME SessionInv, ServerReads, UNCHANGED <<approving, prompting>>
  PROVE  SessionInv'
<1>1. CallTypes
  BY DEF SessionInv, RpcInv
<1>2. UNCHANGED <<client, term, calls, pc, call, reader, stdin, server>>
  BY DEF ServerReads, flags
<1>3. Head(inpipe) \in PipeLine /\ Tail(inpipe) \in Seq(PipeLine)
  BY <1>1 DEF ServerReads, CallTypes
<1>4. Head(inpipe).id \in 0..MaxCalls
  BY <1>3 DEF PipeLine
<1>5. asked \subseteq asked' /\ asked' \subseteq 0..MaxCalls /\ inpipe' \in Seq(PipeLine)
  BY <1>1, <1>3, <1>4 DEF ServerReads, CallTypes
<1>6. stdin' \in BOOLEAN /\ server' \in BOOLEAN
  BY <1>1, <1>2 DEF CallTypes
<1> QED
  BY <1>2, <1>5, <1>6, OutsideKeeps

LEMMA RpcKeeps ==
  ASSUME SessionInv, RpcNext, UNCHANGED <<approving, prompting>>
  PROVE  SessionInv'
<1>1. ASSUME NEW c \in Callers, BeginCall(c) \/ CallStep(c) \/ TooLarge(c) \/ ContextDone(c) PROVE SessionInv'
  BY <1>1, BeginCallKeeps, RegisterKeeps, WriteKeeps, WaitEnds, AnsweredKeeps, LeaveKeeps DEF CallStep
<1>2. CASE ReadStep
  <2>1. CASE ReaderFails
    BY <2>1, FailAllKeeps DEF ReaderFails, Reads
  <2> QED
    BY <1>2, <2>1, ReadAnswerKeeps, SendAnswerKeeps, ReaderStops DEF ReadStep
<1>3. CASE BeginClose \/ CloseStep
  <2>1. CASE CloseFails
    BY <2>1, FailAllKeeps DEF CloseFails
  <2> QED
    BY <1>3, <2>1, ClosingKeeps DEF CloseStep
<1>4. CASE ServerStep
  BY <1>4, ServerReadsKeeps, ClosingKeeps DEF ServerStep
<1> QED
  BY <1>1, <1>2, <1>3, <1>4 DEF RpcNext
-----------------------------------------------------------------------------
(* The reader and the questions of the child *)

\* What a queue holds after one element came or went.
LEMMA AppendHolds ==
  ASSUME NEW S, NEW q \in Seq(S), NEW e \in S, NEW r
  PROVE  (\E i \in DOMAIN Append(q, e) : Append(q, e)[i] = r) <=> r = e \/ \E i \in DOMAIN q : q[i] = r
<1>1. DOMAIN q = 1..Len(q) /\ Len(q) \in Nat /\ DOMAIN Append(q, e) = 1..(Len(q) + 1)
  OBVIOUS
<1>2. Append(q, e)[Len(q) + 1] = e /\ \A i \in 1..Len(q) : Append(q, e)[i] = q[i]
  BY <1>1
<1> QED
  BY <1>1, <1>2

LEMMA TailHolds ==
  ASSUME NEW S, NEW q \in Seq(S), q # <<>>, NEW r
  PROVE  /\ Head(q) \in S /\ Tail(q) \in Seq(S) /\ \E i \in DOMAIN q : q[i] = Head(q)
         /\ (\E i \in DOMAIN q : q[i] = r) <=> r = Head(q) \/ \E i \in DOMAIN Tail(q) : Tail(q)[i] = r
<1>1. DOMAIN q = 1..Len(q) /\ Len(q) \in Nat /\ Len(q) > 0 /\ Head(q) = q[1] /\ Head(q) \in S /\ Tail(q) \in Seq(S)
  OBVIOUS
<1>2. DOMAIN Tail(q) = 1..(Len(q) - 1) /\ \A i \in 1..(Len(q) - 1) : Tail(q)[i] = q[i + 1]
  BY <1>1
<1>3. ASSUME NEW i \in 1..Len(q), i # 1 PROVE i - 1 \in 1..(Len(q) - 1) /\ q[i] = Tail(q)[i - 1]
  <2>1. i - 1 \in 1..(Len(q) - 1) /\ (i - 1) + 1 = i
    BY <1>1, <1>3
  <2> QED
    BY <1>2, <2>1
<1>4. ASSUME NEW i \in DOMAIN q, q[i] = r PROVE r = Head(q) \/ \E j \in DOMAIN Tail(q) : Tail(q)[j] = r
  <2>1. CASE i = 1
    BY <1>1, <1>4, <2>1
  <2>2. CASE i # 1
    BY <1>1, <1>2, <1>3, <1>4, <2>2
  <2> QED
    BY <2>1, <2>2
<1>5. ASSUME NEW j \in DOMAIN Tail(q), Tail(q)[j] = r PROVE \E i \in DOMAIN q : q[i] = r
  <2>1. j + 1 \in DOMAIN q /\ q[j + 1] = r
    BY <1>1, <1>2, <1>5
  <2> QED
    BY <2>1
<1>6. 1 \in DOMAIN q
  BY <1>1
<1> QED
  BY <1>1, <1>4, <1>5, <1>6

\* The reader's own steps, as far as calls and deliveries go.
LEMMA QuestionAside ==
  ASSUME SessionInv, UNCHANGED <<flags, calls, pc, call, asked, server, prompting>>,
         inpipe' \in Seq(PipeLine), reader' = reader \/ reader'.at # "send"
  PROVE  RpcInv' /\ PromptInv'
<1>1. UNCHANGED <<client, stdin, term, pending, ch, nextID>>
  BY DEF flags, calls
<1>2. CallTypes /\ AnswersDue /\ PendingOwned
  BY DEF SessionInv, RpcInv
<1>3. RpcInv'
  <2>1. stdin' \in BOOLEAN /\ server' \in BOOLEAN /\ ch' \in [CallIds -> Answers] /\ asked' \subseteq 0..MaxCalls
    BY <1>1, <1>2 DEF CallTypes
  <2>2. \A i \in CallIds : Due(ch'[i], i)
    BY <1>1, <1>2 DEF AnswersDue
  <2>3. reader'.at = "send" => reader'.line.type \in Answers /\ Due(reader'.line.type, reader'.line.id)
    BY <1>2 DEF AnswersDue
  <2>4. term' => pending' = {}
    BY <1>1, <1>2 DEF PendingOwned
  <2> QED
    BY <1>1, <2>1, <2>2, <2>3, <2>4, OtherStep DEF SessionInv
<1>4. PromptInv'
  BY PromptAside DEF SessionInv, Gated
<1> QED
  BY <1>3, <1>4

LEMMA AskedFacts ==
  ASSUME SessionInv
  PROVE  /\ posed \in Nat /\ MaxApprovals \in Nat /\ posed <= MaxApprovals /\ ApprovalTypes /\ Newest
         /\ approvals \in Seq(ApprovalIds)
         /\ ApprovalSettledOnce /\ inpipe \in Seq(PipeLine)
         /\ \A r \in ApprovalIds : r \in spa \/ r > posed => replies[r] = 0
         /\ taken \subseteq ApprovalIds /\ heard \subseteq ApprovalIds /\ spa \subseteq heard
BY ApprovalAssumption DEF SessionInv, RpcInv, CallTypes, ApprovalInv, ApprovalTypes, ApprovalIds

\* A question that is a mere notice is queued or lost; nobody owes it an answer.
LEMMA ReadNoticeKeeps ==
  ASSUME SessionInv, ReadNotice, UNCHANGED prompting
  PROVE  SessionInv'
<1>1. /\ reader.at = "read" /\ posed < MaxApprovals /\ posed' = posed + 1
      /\ UNCHANGED <<rpc, spa, taken, heard, replies>>
  BY DEF ReadNotice, Question
<1>2. UNCHANGED <<flags, calls, pc, call, reader, asked, server, inpipe, stdin>>
  BY <1>1 DEF rpc, wires, flags
<1>3. posed' \in ApprovalIds /\ posed \in Nat /\ approvals \in Seq(ApprovalIds)
  BY <1>1, AskedFacts DEF ApprovalIds
<1>4. approvals' = approvals \/ approvals' = Append(approvals, posed')
  BY DEF ReadNotice
<1>5. approvals' \in Seq(ApprovalIds)
  BY <1>3, <1>4
<1>6. \A r : /\ Queued(r) => Queued(r)'
             /\ Queued(r)' => Queued(r) \/ r = posed'
  BY <1>3, <1>4, AppendHolds DEF Queued
<1>7. ApprovalTypes'
  BY <1>1, <1>3, <1>5, <1>6, AskedFacts DEF ApprovalTypes, ApprovalIds
<1>8. ApprovalInv'
  <2>1. Newest'
    BY <1>1, <1>2 DEF Newest
  <2>2. /\ \A c \in Callers : pc'[c] = "respond" => \E r \in taken' : call'[c].job = Job(r)
        /\ \A c \in Callers : pc'[c] = "reply" =>
             \E r \in taken' \cap heard' : call'[c].job = Job(r) /\ r \notin spa' /\ replies'[r] = 0
        /\ \A c, d \in Callers, r \in ApprovalIds : Answering(c, r)' /\ Answering(d, r)' => c = d
    BY <1>1, <1>2 DEF SessionInv, ApprovalInv, Answering
  <2>3. \A r \in ApprovalIds : r \in spa' \/ r > posed' => replies'[r] = 0
    BY <1>1, <1>3, AskedFacts DEF ApprovalIds
  <2>4. ApprovalSettledOnce'
    <3>1. Broken' = Broken
      BY <1>2 DEF Broken
    <3> QED
      BY <1>1, <1>2, <1>6, <3>1, AskedFacts DEF ApprovalSettledOnce, Queued
  <2> QED
    BY <1>7, <2>1, <2>2, <2>3, <2>4 DEF ApprovalInv
<1> QED
  BY <1>2, <1>8, QuestionAside, AskedFacts DEF SessionInv

\* A request is registered before it is queued.
LEMMA ReadApprovalKeeps ==
  ASSUME SessionInv, ReadApproval, UNCHANGED prompting
  PROVE  SessionInv'
<1>1. /\ reader.at = "read" /\ posed < MaxApprovals /\ posed' = posed + 1
      /\ spa' = spa \cup {posed'} /\ heard' = heard \cup {posed'}
      /\ reader'.at = "enqueue" /\ reader'.line.id = posed'
      /\ UNCHANGED <<flags, calls, pc, call, asked, server, inpipe, stdin, approvals, taken, replies>>
  BY DEF ReadApproval, Question, Reads, Line, flags, wires
<1>2. posed' \in ApprovalIds /\ posed \in Nat /\ posed' > posed
  BY <1>1, AskedFacts DEF ApprovalIds
<1>3. posed' \notin taken /\ posed' \notin heard /\ ~Queued(posed')
  BY <1>1, <1>2, AskedFacts DEF ApprovalTypes
<1>4. \A r : Queued(r)' <=> Queued(r)
  BY <1>1 DEF Queued
<1>5. ApprovalTypes'
  BY <1>1, <1>2, <1>4, AskedFacts DEF ApprovalTypes, ApprovalIds
<1>6. Newest'
  BY <1>1, <1>3 DEF Newest, Queued
<1>7. /\ \A c \in Callers : pc'[c] = "respond" => \E r \in taken' : call'[c].job = Job(r)
      /\ \A c, d \in Callers, r \in ApprovalIds : Answering(c, r)' /\ Answering(d, r)' => c = d
  BY <1>1 DEF SessionInv, ApprovalInv, Answering
<1>8. \A c \in Callers : pc'[c] = "reply" =>
        \E r \in taken' \cap heard' : call'[c].job = Job(r) /\ r \notin spa' /\ replies'[r] = 0
  BY <1>1, <1>3 DEF SessionInv, ApprovalInv
<1>9. \A r \in ApprovalIds : r \in spa' \/ r > posed' => replies'[r] = 0
  BY <1>1, <1>2, AskedFacts DEF ApprovalIds
<1>10. ApprovalSettledOnce'
  <2>1. Broken' = Broken
    BY <1>1 DEF Broken
  <2> QED
    BY <1>1, <2>1, AskedFacts DEF ApprovalSettledOnce
<1> QED
  BY <1>1, <1>5, <1>6, <1>7, <1>8, <1>9, <1>10, QuestionAside, AskedFacts DEF SessionInv, ApprovalInv

\* Queued, or out of the registry and about to be refused.
LEMMA EnqueueKeeps ==
  ASSUME SessionInv, Enqueue, UNCHANGED prompting
  PROVE  SessionInv'
<1>1. /\ reader.at = "enqueue"
      /\ UNCHANGED <<flags, calls, pc, call, asked, server, inpipe, stdin, taken, posed, heard, replies>>
      /\ \/ approvals' = Append(approvals, posed) /\ reader'.at = "read" /\ spa' = spa
         \/ /\ approvals' = approvals /\ spa' = spa \ {posed}
            /\ reader'.at = "deny" /\ reader'.line.id = posed
  <2>1. reader.at = "enqueue" /\ reader.line.id = posed
    BY AskedFacts DEF Enqueue, Newest
  <2>2. UNCHANGED <<flags, calls, pc, call, asked, server, inpipe, stdin, taken, posed, heard, replies>>
    BY DEF Enqueue, flags, wires
  <2>3. CASE HasRoom
    BY <2>1, <2>2, <2>3 DEF Enqueue, Reads
  <2>4. CASE ~HasRoom
    BY <2>1, <2>2, <2>4 DEF Enqueue, AfterOverflow
  <2> QED
    BY <2>3, <2>4
<1>2. posed \in ApprovalIds /\ posed \in spa /\ posed \notin taken /\ ~Queued(posed) /\ replies[posed] = 0
  BY <1>1, AskedFacts DEF Newest
<1>3. /\ approvals' \in Seq(ApprovalIds) /\ (reader'.at = "read" => Queued(posed)')
      /\ \A r : Queued(r) => Queued(r)'
      /\ \A r : Queued(r)' => Queued(r) \/ (r = posed /\ reader'.at = "read")
  <2>1. approvals \in Seq(ApprovalIds)
    BY AskedFacts
  <2>2. CASE approvals' = Append(approvals, posed) /\ reader'.at = "read"
    <3>1. ASSUME NEW r PROVE Queued(r)' <=> r = posed \/ Queued(r)
      <4>1. (\E i \in DOMAIN Append(approvals, posed) : Append(approvals, posed)[i] = r)
              <=> r = posed \/ \E i \in DOMAIN approvals : approvals[i] = r
        BY SMTT(30), <1>2, <2>1, AppendHolds
      <4> QED
        BY <2>2, <4>1 DEF Queued
    <3>2. approvals' \in Seq(ApprovalIds)
      BY <1>2, <2>1, <2>2
    <3>3. Queued(posed)'
      <4>1. PICK p : p = posed
        OBVIOUS
      <4>2. Queued(p)'
        BY <3>1, <4>1
      <4> QED
        BY <1>1, <4>1, <4>2 DEF Queued
    <3> QED
      BY <2>2, <3>1, <3>2, <3>3
  <2>3. CASE approvals' = approvals /\ reader'.at = "deny"
    BY <2>1, <2>3 DEF Queued
  <2> QED
    BY <1>1, <2>2, <2>3
<1>4. ApprovalTypes'
  BY <1>1, <1>2, <1>3, AskedFacts DEF ApprovalTypes
<1>5. Newest'
  BY <1>1, <1>2, <1>3, AskedFacts DEF Newest, Queued
<1>6. /\ \A c \in Callers : pc'[c] = "respond" => \E r \in taken' : call'[c].job = Job(r)
      /\ \A c, d \in Callers, r \in ApprovalIds : Answering(c, r)' /\ Answering(d, r)' => c = d
  BY <1>1 DEF SessionInv, ApprovalInv, Answering
<1>7. \A c \in Callers : pc'[c] = "reply" =>
        \E r \in taken' \cap heard' : call'[c].job = Job(r) /\ r \notin spa' /\ replies'[r] = 0
  BY <1>1 DEF SessionInv, ApprovalInv
<1>8. \A r \in ApprovalIds : r \in spa' \/ r > posed' => replies'[r] = 0
  BY <1>1, AskedFacts
<1>9. ApprovalSettledOnce'
  <2>1. Broken' = Broken
    BY <1>1 DEF Broken
  <2>2. ASSUME NEW r \in heard
        PROVE  \/ replies[r] > 0 \/ Broken
               \/ reader'.at \in {"enqueue", "deny"} /\ reader'.line.id = r
               \/ r \in spa' /\ (r \in taken \/ Queued(r)')
               \/ \E c \in Callers : pc[c] = "reply" /\ call[c].job.approval = r
    <3>1. CASE r = posed
      BY <1>1, <1>2, <1>3, <3>1
    <3>2. CASE r # posed
      <4>1. reader.line.id = posed
        BY <1>1, AskedFacts DEF Newest
      <4> QED
        BY <1>1, <1>3, <2>2, <3>2, <4>1, AskedFacts DEF ApprovalSettledOnce, Queued
    <3> QED
      BY <3>1, <3>2
  <2> QED
    BY <1>1, <2>1, <2>2, AskedFacts DEF ApprovalSettledOnce, Queued
<1> QED
  BY <1>1, <1>4, <1>5, <1>6, <1>7, <1>8, <1>9, QuestionAside, AskedFacts DEF SessionInv, ApprovalInv
LEMMA ReadRequestKeeps ==
  ASSUME SessionInv, ReadRequest, UNCHANGED prompting
  PROVE  SessionInv'
<1>1. /\ reader.at = "read" /\ reader'.at = "deny" /\ reader'.line.id = 0
      /\ UNCHANGED <<flags, calls, pc, call, asked, server, inpipe, stdin, approving>>
  BY DEF ReadRequest, Reads, Line, flags, wires
<1>2. Broken => Broken'
  BY <1>1 DEF Broken
<1>3. ApprovalInv'
  BY <1>1, <1>2, ApprovalAside DEF SessionInv
<1> QED
  BY <1>1, <1>3, QuestionAside, AskedFacts DEF SessionInv

\* The refusal is the one answer of a request that found the queue full.
LEMMA DenyKeeps ==
  ASSUME SessionInv, Deny, UNCHANGED prompting
  PROVE  SessionInv'
<1>1. /\ reader.at = "deny"
      /\ UNCHANGED <<flags, calls, pc, call, asked, server, stdin, approvals, spa, taken, posed, heard>>
  BY DEF Deny, flags
<1>2. Response \in PipeLine
  BY RpcAssumption DEF Response, Line, PipeLine
<1>3. inpipe' \in Seq(PipeLine)
  BY <1>2, PipeTypes DEF Deny, SessionInv, RpcInv
<1>4. Broken' = Broken
  BY <1>1 DEF Broken
<1>5. CASE UNCHANGED <<reader, replies>>
  <2>1. ApprovalInv'
    BY <1>1, <1>4, <1>5, ApprovalAside DEF SessionInv, approving
  <2> QED
    BY <1>1, <1>3, <1>5, <2>1, QuestionAside DEF SessionInv
<1>6. CASE Replied(reader.line.id) /\ Reads("read", NoLine)
  <2>1. reader'.at = "read"
    BY <1>6 DEF Reads
  <2>2. CASE Broken \/ reader.line.id = 0
    <3>1. replies' = replies
      BY <1>6, <2>2 DEF Replied
    <3>2. ApprovalTypes' /\ Newest'
      BY <1>1, <2>1, <3>1, AskedFacts DEF ApprovalTypes, Newest, Queued
    <3>3. /\ \A c \in Callers : pc'[c] = "respond" => \E r \in taken' : call'[c].job = Job(r)
          /\ \A c \in Callers : pc'[c] = "reply" =>
               \E r \in taken' \cap heard' : call'[c].job = Job(r) /\ r \notin spa' /\ replies'[r] = 0
          /\ \A c, d \in Callers, r \in ApprovalIds : Answering(c, r)' /\ Answering(d, r)' => c = d
          /\ \A r \in ApprovalIds : r \in spa' \/ r > posed' => replies'[r] = 0
      BY <1>1, <3>1 DEF SessionInv, ApprovalInv, Answering
    <3>4. \A r \in heard : r # 0
      BY AskedFacts DEF ApprovalIds
    <3>5. ApprovalSettledOnce'
      BY <1>1, <1>4, <2>1, <2>2, <3>1, <3>4, AskedFacts DEF ApprovalSettledOnce
    <3>6. ApprovalInv'
      BY <3>2, <3>3, <3>5 DEF ApprovalInv
    <3> QED
      BY <1>1, <1>3, <2>1, <3>6, QuestionAside DEF SessionInv
  <2>3. CASE ~Broken /\ reader.line.id # 0
    <3>1. /\ reader.line.id = posed /\ posed \in heard /\ posed \notin spa /\ posed \notin taken
          /\ replies[posed] = 0 /\ posed \in ApprovalIds
      BY <1>1, <2>3, AskedFacts DEF Newest
    <3>2. replies' = [replies EXCEPT ![posed] = @ + 1]
      BY <1>6, <2>3, <3>1 DEF Replied
    <3>3. replies'[posed] = 1 /\ \A r \in ApprovalIds \ {posed} : replies'[r] = replies[r]
      BY <3>1, <3>2, AskedFacts DEF ApprovalTypes
    <3>4. ApprovalTypes' /\ Newest'
      <4>1. replies' \in [ApprovalIds -> Nat]
        <5>1. replies \in [ApprovalIds -> Nat]
          BY AskedFacts DEF ApprovalTypes
        <5>2. replies[posed] + 1 \in Nat
          BY <3>1
        <5> QED
          BY <3>1, <3>2, <5>1, <5>2
      <4>2. \A r : Queued(r)' <=> Queued(r)
        BY <1>1 DEF Queued
      <4>3. ApprovalTypes'
        BY <1>1, <4>1, <4>2, AskedFacts DEF ApprovalTypes
      <4> QED
        BY <2>1, <4>3 DEF Newest
    <3>5. /\ \A c \in Callers : pc'[c] = "respond" => \E r \in taken' : call'[c].job = Job(r)
          /\ \A c, d \in Callers, r \in ApprovalIds : Answering(c, r)' /\ Answering(d, r)' => c = d
      BY <1>1 DEF SessionInv, ApprovalInv, Answering
    <3>6. \A c \in Callers : pc'[c] = "reply" =>
             \E r \in taken' \cap heard' : call'[c].job = Job(r) /\ r \notin spa' /\ replies'[r] = 0
      <4>1. ASSUME NEW r \in taken PROVE replies'[r] = replies[r]
        BY <3>1, <3>3, AskedFacts
      <4> QED
        BY <1>1, <4>1 DEF SessionInv, ApprovalInv
    <3>7. \A r \in ApprovalIds : r \in spa' \/ r > posed' => replies'[r] = 0
      BY <1>1, <3>1, <3>3, AskedFacts
    <3>8. ApprovalSettledOnce'
      BY <1>1, <1>4, <3>1, <3>3, AskedFacts DEF ApprovalSettledOnce
    <3>9. ApprovalInv'
      BY <3>4, <3>5, <3>6, <3>7, <3>8 DEF ApprovalInv
    <3> QED
      BY <1>1, <1>3, <2>1, <3>9, QuestionAside DEF SessionInv
  <2> QED
    BY <2>2, <2>3
<1> QED
  BY <1>5, <1>6 DEF Deny

-----------------------------------------------------------------------------
(* The consumer *)

LEMMA JobFits ==
  ASSUME NEW r \in ApprovalIds, NEW l, l = [NoCall EXCEPT !.job = Job(r)]
  PROVE  l \in Calls /\ l.id = 0 /\ l.answer = "none" /\ l.job = Job(r)
<1>1. Job(r) \in Jobs
  BY DEF Jobs
<1> QED
  BY <1>1, NoCallFits DEF NoCall, Calls

\* A caller outside calls and deliveries moves to such a place.
LEMMA ConsumerStep ==
  ASSUME SessionInv, NEW c \in Callers, NEW at \in {"idle", "respond", "reply"}, NEW l \in Calls, Moved(c, at, l),
         pc[c] \in {"idle", "respond", "reply"}, l.id = 0 \/ l.id = call[c].id, Due(l.answer, l.id),
         l.answer = "none" \/ l.id \in CallIds,
         UNCHANGED <<flags, calls, reader, asked, server, prompting>>, inpipe' \in Seq(PipeLine)
  PROVE  RpcInv' /\ PromptInv'
<1>1. UNCHANGED <<client, stdin, term, pending, ch, nextID>>
  BY DEF flags, calls
<1>2. at \in Labels /\ at \notin Calling /\ at \notin Registered /\ at \notin Delivering
      /\ pc[c] \notin Registered /\ pc[c] \notin Delivering
  BY Sorts
<1>3. Suits(at, l) /\ Numbered(c, l)
  BY <1>1, <1>2 DEF Suits, Numbered
<1>4. Entered(c, at, l)
  BY <1>1, <1>2 DEF Entered, SessionInv, RpcInv, PendingOwned
<1>5. RpcInv'
  BY <1>1, <1>2, <1>3, <1>4, SameChannels, CallerStep DEF SessionInv
<1>6. PromptInv'
  <2>1. /\ pc'[c] = at /\ \A d \in Callers \ {c} : pc'[d] = pc[d] /\ call'[d] = call[d]
    BY DEF Moved, SessionInv, RpcInv, CallTypes
  <2>2. ASSUME NEW d \in Callers PROVE Gated(pc[d], call[d])' => Gated(pc[d], call[d])
    BY <1>2, <2>1 DEF Gated
  <2>3. \A d \in Callers : pc[d] = "release" => pc'[d] = "release" /\ call'[d] = call[d]
    BY <2>1
  <2> QED
    BY <2>2, <2>3, PromptAside DEF SessionInv
<1> QED
  BY <1>5, <1>6

\* Whatever the consumer takes, it was queued or taken before.
LEMMA TakesKeeps ==
  ASSUME SessionInv, NEW c \in Callers, NEW r \in ApprovalIds, Takes(c, r), UNCHANGED prompting,
         taken' = taken \cup {r}, r <= posed, approvals' \in Seq(ApprovalIds),
         \A q : Queued(q)' => Queued(q), \A q : Queued(q) => Queued(q)' \/ q = r,
         Newest => r # posed \/ reader.at \notin {"enqueue", "deny"} \/ reader.line.id = 0
  PROVE  SessionInv'
<1>1. PICK l : l = [NoCall EXCEPT !.job = Job(r)]
  OBVIOUS
<1>2. l \in Calls /\ l.id = 0 /\ l.answer = "none" /\ l.job = Job(r)
  BY <1>1, JobFits
<1>3. /\ pc[c] = "idle" /\ Moved(c, "respond", l)
      /\ UNCHANGED <<flags, calls, reader, stdin, asked, server, inpipe, spa, posed, heard, replies>>
  BY <1>1 DEF Takes, Moved, Go, flags, wires
<1>4. RpcInv' /\ PromptInv'
  BY <1>2, <1>3, ConsumerStep, AskedFacts DEF Due
<1>5. /\ pc'[c] = "respond" /\ call'[c] = l
      /\ \A d \in Callers \ {c} : pc'[d] = pc[d] /\ call'[d] = call[d]
  BY <1>3 DEF Moved, SessionInv, RpcInv, CallTypes
<1>6. ApprovalTypes'
  <2>1. r \in 1..posed
    BY AskedFacts DEF ApprovalIds
  <2> QED
    BY <1>3, <2>1, AskedFacts DEF ApprovalTypes
<1>7. Newest'
  <2>1. ~Queued(posed) => ~Queued(posed)'
    <3>1. PICK p : p = posed
      OBVIOUS
    <3>2. ~Queued(p) => ~Queued(p)'
      OBVIOUS
    <3> QED
      BY <1>3, <3>1, <3>2 DEF Queued
  <2>2. ASSUME reader.at = "enqueue" \/ (reader.at = "deny" /\ reader.line.id # 0) PROVE posed \notin taken /\ r # posed
    <3>1. Newest /\ posed \in ApprovalIds
      BY <2>2, AskedFacts DEF Newest
    <3>2. posed # 0
      BY <3>1 DEF ApprovalIds
    <3>3. posed \notin taken /\ reader.line.id = posed
      BY <2>2, <3>1 DEF Newest
    <3> QED
      BY <2>2, <3>1, <3>2, <3>3
  <2>3. Newest
    BY AskedFacts
  <2> QED
    BY <1>3, <2>1, <2>2, <2>3 DEF Newest
<1>8. \A d \in Callers : pc'[d] = "respond" => \E q \in taken' : call'[d].job = Job(q)
  BY <1>2, <1>5 DEF SessionInv, ApprovalInv
<1>9. \A d \in Callers : pc'[d] = "reply" =>
        \E q \in taken' \cap heard' : call'[d].job = Job(q) /\ q \notin spa' /\ replies'[q] = 0
  BY <1>3, <1>5 DEF SessionInv, ApprovalInv
<1>10. \A d, e \in Callers, q \in ApprovalIds : Answering(d, q)' /\ Answering(e, q)' => d = e
  BY <1>5 DEF SessionInv, ApprovalInv, Answering
<1>11. \A q \in ApprovalIds : q \in spa' \/ q > posed' => replies'[q] = 0
  BY <1>3, AskedFacts
<1>12. ApprovalSettledOnce'
  <2>1. Broken' = Broken
    BY <1>3 DEF Broken
  <2>2. ASSUME NEW q \in heard
        PROVE  \/ replies[q] > 0 \/ Broken
               \/ reader.at \in {"enqueue", "deny"} /\ reader.line.id = q
               \/ q \in spa /\ (q \in taken' \/ Queued(q)')
               \/ \E d \in Callers : pc'[d] = "reply" /\ call'[d].job.approval = q
    <3>1. \/ replies[q] > 0 \/ Broken
          \/ reader.at \in {"enqueue", "deny"} /\ reader.line.id = q
          \/ q \in spa /\ (q \in taken \/ Queued(q))
          \/ \E d \in Callers : pc[d] = "reply" /\ call[d].job.approval = q
      BY <2>2, AskedFacts DEF ApprovalSettledOnce, Queued
    <3>2. ASSUME NEW d \in Callers, pc[d] = "reply" PROVE pc'[d] = pc[d] /\ call'[d] = call[d]
      BY <1>3, <1>5, <3>2
    <3>3. Queued(q) => Queued(q)' \/ q \in taken'
      OBVIOUS
    <3> QED
      BY <3>1, <3>2, <3>3
  <2> QED
    BY <1>3, <2>1, <2>2, AskedFacts DEF ApprovalSettledOnce, Queued
<1> QED
  BY <1>4, <1>6, <1>7, <1>8, <1>9, <1>10, <1>11, <1>12 DEF SessionInv, ApprovalInv
LEMMA TakeKeeps ==
  ASSUME SessionInv, NEW c \in Callers, Take(c), UNCHANGED prompting
  PROVE  SessionInv'
<1>1. approvals \in Seq(ApprovalIds) /\ approvals # <<>>
  BY AskedFacts DEF Take
<1>2. PICK r : r = Head(approvals)
  OBVIOUS
<1>3. r \in ApprovalIds /\ Queued(r) /\ Tail(approvals) \in Seq(ApprovalIds)
  BY <1>1, <1>2, TailHolds DEF Queued
<1>4. Takes(c, r) /\ taken' = taken \cup {r} /\ approvals' = Tail(approvals)
  BY <1>2 DEF Take
<1>5. ASSUME NEW q PROVE Queued(q) <=> q = r \/ Queued(q)'
  <2>1. (\E i \in DOMAIN approvals : approvals[i] = q)
          <=> q = r \/ \E i \in DOMAIN Tail(approvals) : Tail(approvals)[i] = q
    BY SMTT(30), <1>1, <1>2, TailHolds
  <2> QED
    BY <1>4, <2>1 DEF Queued
<1>6. r <= posed
  BY <1>3, AskedFacts DEF ApprovalTypes
<1>7. r # posed \/ reader.at \notin {"enqueue", "deny"} \/ reader.line.id = 0
  BY <1>3, AskedFacts DEF Newest
<1> QED
  BY <1>3, <1>4, <1>5, <1>6, <1>7, TakesKeeps

LEMMA TakeAgainKeeps ==
  ASSUME SessionInv, NEW c \in Callers, TakeAgain(c), UNCHANGED prompting
  PROVE  SessionInv'
<1>1. PICK r \in taken : Takes(c, r)
  BY DEF TakeAgain
<1>2. taken' = taken \cup {r} /\ approvals' = approvals
  BY DEF TakeAgain
<1>3. r \in ApprovalIds /\ r <= posed /\ approvals' \in Seq(ApprovalIds)
  BY <1>2, AskedFacts DEF ApprovalTypes
<1>4. \A q : Queued(q)' <=> Queued(q)
  BY <1>2 DEF Queued
<1>5. r # posed \/ reader.at \notin {"enqueue", "deny"} \/ reader.line.id = 0
  BY AskedFacts DEF Newest
<1> QED
  BY <1>1, <1>2, <1>3, <1>4, <1>5, TakesKeeps

\* The claim takes the question out of everyone else's reach.
LEMMA RespondKeeps ==
  ASSUME SessionInv, NEW c \in Callers, Respond(c), UNCHANGED prompting
  PROVE  SessionInv'
<1>1. PICK r \in taken : call[c].job = Job(r)
  BY DEF Respond, SessionInv, ApprovalInv
<1>2. call[c].job.approval = r
  BY <1>1 DEF Job
<1>3. /\ pc[c] = "respond" /\ r \in spa /\ spa' = spa \ {r} /\ Go(c, "reply") /\ call' = call
      /\ UNCHANGED <<flags, calls, reader, stdin, asked, server, inpipe, approvals, taken, posed, heard, replies>>
  BY <1>2 DEF Respond, Claimed, flags, wires
<1>4. r \in ApprovalIds /\ r \in heard /\ replies[r] = 0
  BY <1>3, AskedFacts
<1>5. PICK l \in Calls : l = call[c]
  BY Facts
<1>6. Moved(c, "reply", l)
  BY <1>3, <1>5, Facts DEF Moved, Go, CallTypes
<1>7. RpcInv' /\ PromptInv'
  BY <1>3, <1>5, <1>6, Facts, ConsumerStep, AskedFacts DEF Suits
<1>8. /\ pc'[c] = "reply" /\ \A d \in Callers \ {c} : pc'[d] = pc[d]
  BY <1>3, Facts DEF Go, CallTypes
<1>9. \A q : Queued(q)' <=> Queued(q)
  BY <1>3 DEF Queued
<1>10. ApprovalTypes'
  BY <1>3, <1>9, AskedFacts DEF ApprovalTypes
<1>11. Newest'
  BY <1>3, AskedFacts DEF Newest, Queued
<1>12. \A d \in Callers : pc'[d] = "respond" => \E q \in taken' : call'[d].job = Job(q)
  BY <1>3, <1>8 DEF SessionInv, ApprovalInv
<1>13. ASSUME NEW d \in Callers, pc'[d] = "reply"
       PROVE  \E q \in taken' \cap heard' : call'[d].job = Job(q) /\ q \notin spa' /\ replies'[q] = 0
  <2>1. CASE d = c
    BY <1>1, <1>3, <1>4, <2>1
  <2>2. CASE d # c
    BY <1>3, <1>8, <1>13, <2>2 DEF SessionInv, ApprovalInv
  <2> QED
    BY <2>1, <2>2
<1>14. ASSUME NEW d \in Callers, NEW e \in Callers, NEW q \in ApprovalIds, Answering(d, q)', Answering(e, q)' PROVE d = e
  <2>1. ASSUME NEW f \in Callers \ {c}, Answering(f, q)' PROVE Answering(f, q) /\ q # r
    <3>1. Answering(f, q)
      BY <1>3, <1>8, <2>1 DEF Answering
    <3>2. PICK p \in taken \cap heard : call[f].job = Job(p) /\ p \notin spa
      BY <3>1 DEF Answering, SessionInv, ApprovalInv
    <3>3. q = p
      BY <3>1, <3>2 DEF Answering, Job
    <3> QED
      BY <1>3, <3>1, <3>2, <3>3
  <2>2. Answering(c, q)' => q = r
    BY <1>2, <1>3 DEF Answering
  <2>3. \A f, g \in Callers : Answering(f, q) /\ Answering(g, q) => f = g
    BY DEF SessionInv, ApprovalInv
  <2> QED
    BY <1>14, <2>1, <2>2, <2>3
<1>15. \A q \in ApprovalIds : q \in spa' \/ q > posed' => replies'[q] = 0
  BY <1>3, AskedFacts
<1>16. ApprovalSettledOnce'
  <2>1. Broken' = Broken
    BY <1>3 DEF Broken
  <2>2. ASSUME NEW q \in heard
        PROVE  \/ replies[q] > 0 \/ Broken
               \/ reader.at \in {"enqueue", "deny"} /\ reader.line.id = q
               \/ q \in spa' /\ (q \in taken \/ \E i \in DOMAIN approvals : approvals[i] = q)
               \/ \E d \in Callers : pc'[d] = "reply" /\ call[d].job.approval = q
    <3>1. CASE q = r
      BY <1>2, <1>8, <3>1
    <3>2. CASE q # r
      <4>1. \A d \in Callers : pc[d] = "reply" => pc'[d] = "reply"
        BY <1>3, <1>8
      <4> QED
        BY <1>3, <2>2, <3>2, <4>1, AskedFacts DEF ApprovalSettledOnce
    <3> QED
      BY <3>1, <3>2
  <2> QED
    BY <1>3, <2>1, <2>2, AskedFacts DEF ApprovalSettledOnce
<1> QED
  BY <1>7, <1>10, <1>11, <1>12, <1>13, <1>14, <1>15, <1>16 DEF SessionInv, ApprovalInv

\* The answer is written once, or the pipe is broken.
LEMMA ReplyKeeps ==
  ASSUME SessionInv, NEW c \in Callers, Reply(c), UNCHANGED prompting
  PROVE  SessionInv'
<1>1. /\ pc[c] = "reply"
      /\ UNCHANGED <<flags, calls, reader, stdin, asked, server, approvals, spa, taken, posed, heard>>
  BY DEF Reply, flags
<1>2. PICK r \in taken \cap heard : call[c].job = Job(r) /\ r \notin spa /\ replies[r] = 0
  BY <1>1 DEF SessionInv, ApprovalInv
<1>3. call[c].job.approval = r
  BY <1>2 DEF Job
<1>4. r \in ApprovalIds /\ r # 0
  BY AskedFacts DEF ApprovalIds
<1>5. Response \in PipeLine
  BY RpcAssumption DEF Response, Line, PipeLine
<1>6. inpipe' \in Seq(PipeLine)
  BY <1>5, PipeTypes DEF Reply, SessionInv, RpcInv
<1>7. Broken' = Broken
  BY <1>1 DEF Broken
<1>8. CASE UNCHANGED <<pc, call, replies>>
  <2>1. PICK l \in Calls : l = call[c]
    BY Facts
  <2>2. Moved(c, "reply", l)
    BY <1>1, <1>8, <2>1, Facts DEF Moved, CallTypes
  <2>3. RpcInv' /\ PromptInv'
    BY <1>1, <1>6, <2>1, <2>2, Facts, ConsumerStep DEF Suits
  <2>4. ApprovalInv'
    BY <1>1, <1>7, <1>8, ApprovalAside DEF SessionInv, approving
  <2> QED
    BY <2>3, <2>4 DEF SessionInv
<1>9. CASE Replied(r) /\ Moved(c, "idle", NoCall)
  <2>1. RpcInv' /\ PromptInv'
    BY <1>1, <1>6, <1>9, NoCallFits, ConsumerStep DEF Due
  <2>2. /\ pc'[c] = "idle" /\ \A d \in Callers \ {c} : pc'[d] = pc[d] /\ call'[d] = call[d]
    BY <1>9, Facts DEF Moved, CallTypes
  <2>3. /\ replies' \in [ApprovalIds -> Nat] /\ \A q \in ApprovalIds \ {r} : replies'[q] = replies[q]
        /\ replies'[r] \in {0, 1} /\ (Broken \/ replies'[r] = 1)
    <3>1. replies \in [ApprovalIds -> Nat] /\ replies[r] + 1 = 1
      BY <1>2, AskedFacts DEF ApprovalTypes
    <3> QED
      BY <1>2, <1>4, <1>9, <3>1 DEF Replied
  <2>4. r \notin spa /\ r <= posed /\ (reader.at = "deny" /\ reader.line.id # 0 => r # posed)
    BY <1>2, AskedFacts DEF ApprovalTypes, Newest
  <2>5. \A q : Queued(q)' <=> Queued(q)
    BY <1>1 DEF Queued
  <2>6. ApprovalTypes'
    BY <1>1, <2>3, <2>5, AskedFacts DEF ApprovalTypes
  <2>7. Newest'
    <3>1. Newest /\ heard \subseteq ApprovalIds
      BY AskedFacts
    <3> QED
      BY <1>1, <2>3, <2>4, <3>1 DEF Newest, Queued
  <2>8. \A d \in Callers : pc'[d] = "respond" => \E q \in taken' : call'[d].job = Job(q)
    BY <1>1, <2>2 DEF SessionInv, ApprovalInv
  <2>9. ASSUME NEW d \in Callers, pc'[d] = "reply"
        PROVE  \E q \in taken' \cap heard' : call'[d].job = Job(q) /\ q \notin spa' /\ replies'[q] = 0
    <3>1. d # c /\ pc[d] = "reply" /\ call'[d] = call[d]
      BY <2>2, <2>9
    <3>2. PICK q \in taken \cap heard : call[d].job = Job(q) /\ q \notin spa /\ replies[q] = 0
      BY <3>1 DEF SessionInv, ApprovalInv
    <3>3. call[d].job.approval = q
      BY <3>2 DEF Job
    <3>4. q \in ApprovalIds /\ q # r
      BY <1>1, <1>3, <1>4, <3>1, <3>3, AskedFacts DEF SessionInv, ApprovalInv, Answering
    <3> QED
      BY <1>1, <2>3, <3>1, <3>2, <3>4
  <2>10. \A d, e \in Callers, q \in ApprovalIds : Answering(d, q)' /\ Answering(e, q)' => d = e
    BY <2>2 DEF SessionInv, ApprovalInv, Answering
  <2>11. \A q \in ApprovalIds : q \in spa' \/ q > posed' => replies'[q] = 0
    <3>1. posed \in Nat /\ r \in Nat
      BY <1>4, AskedFacts DEF ApprovalIds
    <3> QED
      BY <1>1, <2>3, <2>4, <3>1, AskedFacts DEF ApprovalIds
  <2>12. ApprovalSettledOnce'
    <3>1. \A q \in ApprovalIds : replies'[q] <= 1
      BY <2>3, AskedFacts DEF ApprovalSettledOnce
    <3>2. ASSUME NEW q \in heard
          PROVE  \/ replies'[q] > 0 \/ Broken
                 \/ reader.at \in {"enqueue", "deny"} /\ reader.line.id = q
                 \/ q \in spa /\ (q \in taken \/ \E i \in DOMAIN approvals : approvals[i] = q)
                 \/ \E d \in Callers : pc'[d] = "reply" /\ call'[d].job.approval = q
      <4>1. CASE q = r
        BY <2>3, <4>1
      <4>2. CASE q # r
        <5>1. replies'[q] = replies[q]
          BY <2>3, <4>2, AskedFacts
        <5>2. ASSUME NEW d \in Callers, pc[d] = "reply", call[d].job.approval = q PROVE pc'[d] = "reply" /\ call'[d] = call[d]
          BY <1>3, <2>2, <4>2, <5>2
        <5> QED
          BY <3>2, <5>1, <5>2, AskedFacts DEF ApprovalSettledOnce
      <4> QED
        BY <4>1, <4>2
    <3> QED
      BY <1>1, <1>7, <3>1, <3>2 DEF ApprovalSettledOnce
  <2> QED
    BY <2>1, <2>6, <2>7, <2>8, <2>9, <2>10, <2>11, <2>12 DEF SessionInv, ApprovalInv
<1> QED
  BY <1>3, <1>8, <1>9 DEF Reply, Moved, Go

LEMMA RespondByCallKeeps ==
  ASSUME SessionInv, NEW c \in Callers, RespondByCall(c), UNCHANGED prompting
  PROVE  SessionInv'
<1>1. pc[c] = "respond" /\ UNCHANGED approving
  BY DEF RespondByCall
<1>2. CASE NewCall(c, None)
  <2>1. PICK l \in Calls : Moved(c, "register", l) /\ l.job = None /\ RpcInv'
    BY <1>1, <1>2, NewCallStep, Sorts
  <2>2. ~Gated("register", l)
    BY <2>1, PromptAssumption, Sorts DEF Gated
  <2>3. UNCHANGED <<reader, stdin, server>>
    BY <1>2 DEF NewCall, flags, wires
  <2> QED
    BY <1>1, <2>1, <2>2, <2>3, CallerAside DEF SessionInv
<1>3. CASE /\ Go(c, "idle") /\ call' = [call EXCEPT ![c] = NoCall]
           /\ UNCHANGED <<flags, calls, reader, seen, lock, closer, wires>>
  <2>1. Moved(c, "idle", NoCall)
    BY <1>3 DEF Moved, Go
  <2>2. UNCHANGED <<flags, calls, reader, stdin, asked, server, inpipe>>
    BY <1>3 DEF flags, wires
  <2>3. RpcInv'
    BY <1>1, <2>1, <2>2, NoCallFits, AskedFacts, ConsumerStep DEF Due
  <2>4. ~Gated("idle", NoCall)
    BY Sorts DEF Gated
  <2> QED
    BY <1>1, <2>1, <2>2, <2>3, <2>4, CallerAside DEF SessionInv
<1> QED
  BY <1>2, <1>3 DEF RespondByCall

LEMMA ApprovalKeeps ==
  ASSUME SessionInv, ApprovalNext, UNCHANGED prompting
  PROVE  SessionInv'
<1>1. ASSUME NEW c \in Callers, Take(c) \/ TakeAgain(c) \/ ConsumeStep(c) PROVE SessionInv'
  BY <1>1, TakeKeeps, TakeAgainKeeps, RespondKeeps, ReplyKeeps, RespondByCallKeeps DEF ConsumeStep
<1>2. CASE ApprovalReadStep
  BY <1>2, ReadNoticeKeeps, ReadApprovalKeeps, EnqueueKeeps, ReadRequestKeeps, DenyKeeps DEF ApprovalReadStep
<1> QED
  BY <1>1, <1>2 DEF ApprovalNext
-----------------------------------------------------------------------------
(* Deliveries *)

\* Whoever is past the gate is alone there.
LEMMA Alone ==
  ASSUME SessionInv, NEW c \in Callers, Gated(pc[c], call[c])
  PROVE  gate = c /\ \A d \in Callers \ {c} : ~Gated(pc[d], call[d])
BY DEF SessionInv, PromptInv

\* An update that proves a prompt carries its request id: the intervention id,
\* which retries share, is not enough.
LEMMA ProvesOwn ==
  ASSUME NEW id \in CallIds, NEW s, NEW uid, NEW u, u = UpdateOf(uid, s), Proves(u, id)
  PROVE  u.id = id
<1>1. id > 0 /\ id # 0
  BY RpcAssumption DEF CallIds
<1>2. Required(u, None, id)
  BY DEF Proves, UpdateStrongCorrelation
<1>3. id \in u.rids
  BY <1>1, <1>2 DEF Required
<1>4. u.id = uid /\ u.rids = (IF s.own THEN {uid} ELSE {}) \cup (IF s.junk THEN {0} ELSE {})
  BY DEF UpdateOf
<1> QED
  BY <1>1, <1>3, <1>4

\* Every update the child can send, now or later.
AnyUpdate == {UpdateOf(id, s) : id \in 0..MaxCalls, s \in Shapes}

LEMMA AnyProvesOwn ==
  ASSUME NEW u \in AnyUpdate, NEW id \in CallIds, Proves(u, id)
  PROVE  u.id = id
BY ProvesOwn DEF AnyUpdate

LEMMA UpdateFacts ==
  ASSUME SessionInv
  PROVE  updates \in Seq(AnyUpdate) /\ proof \in [Callers -> 0..MaxCalls]
BY DEF SessionInv, PromptInv, AnyUpdate

\* What a step of a delivery has to show.
LEMMA DeliveryStep ==
  ASSUME SessionInv, NEW c \in Callers, NEW at, NEW l, Moved(c, at, l), updates' \in Seq(AnyUpdate),
         proof' \in [Callers -> 0..MaxCalls], \A d \in Callers \ {c} : proof'[d] = proof[d],
         proof'[c] # 0 => at = "release" /\ proof'[c] = l.id,
         \A d \in Callers \ {c} : Gated(pc[d], call[d]) => gate' = d, Gated(at, l) => gate' = c
  PROVE  PromptInv'
<1>1. /\ pc'[c] = at /\ call'[c] = l
      /\ \A d \in Callers \ {c} : pc'[d] = pc[d] /\ call'[d] = call[d]
  BY Facts DEF Moved, CallTypes
<1>2. ASSUME NEW d \in Callers, proof'[d] # 0 PROVE pc'[d] = "release" /\ proof'[d] = call'[d].id
  <2>1. CASE d = c
    BY <1>1, <1>2, <2>1
  <2>2. CASE d # c
    BY SMTT(30), <1>1, <1>2, <2>2 DEF SessionInv, PromptInv
  <2> QED
    BY <2>1, <2>2
<1>3. ASSUME NEW d \in Callers PROVE Gated(pc[d], call[d])' => gate' = d
  BY <1>1 DEF Gated
<1> QED
  BY <1>2, <1>3 DEF PromptInv, AnyUpdate, UpdateOf

\* A delivery goes from one of its own steps to the next, outside the call.
LEMMA DeliveryGoes ==
  ASSUME SessionInv, NEW c \in Callers, NEW at \in {"idle", "gate", "check", "prompt", "watch", "release"},
         pc[c] \in {"idle", "gate"} \cup Delivering, Steps(c, at), UNCHANGED approving, Suits(at, call[c])
  PROVE  RpcInv' /\ ApprovalInv' /\ Moved(c, at, call[c])
<1>1. /\ Go(c, at) /\ call' = call /\ UNCHANGED <<pending, ch, nextID, reader, asked, client, term, stdin, server, inpipe>>
  BY DEF Steps, flags, calls, wires
<1>2. at \in Labels /\ at \notin Registered /\ pc[c] \notin Registered /\ pc[c] # "reply"
  BY Sorts DEF Delivering, Registered
<1>3. Entered(c, at, call[c])
  BY <1>1, <1>2 DEF Entered, SessionInv, RpcInv, PendingOwned
<1>4. RpcInv' /\ Moved(c, at, call[c])
  BY <1>1, <1>2, <1>3, AskedFacts, GoStep
<1>5. \A d \in Callers \ {c} : pc'[d] = pc[d]
  BY <1>1, Facts DEF Go, CallTypes
<1>6. pc'[c] = at
  BY <1>1, Facts DEF Go, CallTypes
<1>7. Broken => Broken'
  BY <1>1 DEF Broken
<1>8. ApprovalInv'
  BY <1>1, <1>2, <1>5, <1>6, <1>7, ApprovalAside DEF SessionInv
<1> QED
  BY <1>4, <1>8

\* The delivery keeps the gate, the proofs and perhaps not the queue.
LEMMA DeliveryKeeps ==
  ASSUME SessionInv, NEW c \in Callers, NEW at \in {"idle", "gate", "check", "prompt", "watch", "release"},
         pc[c] \in {"idle", "gate"} \cup Delivering, pc[c] # "release", Steps(c, at), UNCHANGED <<approving, gate, proof>>,
         Suits(at, call[c]), updates' \in Seq(AnyUpdate), Gated(at, call[c]) => Gated(pc[c], call[c])
  PROVE  SessionInv'
<1>1. PICK l \in Calls : l = call[c]
  BY Facts
<1>2. RpcInv' /\ ApprovalInv' /\ Moved(c, at, l)
  BY <1>1, DeliveryGoes
<1>3. proof'[c] = 0
  BY DEF SessionInv, PromptInv
<1>4. (Gated(at, l) => gate' = c) /\ \A d \in Callers \ {c} : Gated(pc[d], call[d]) => gate' = d
  BY <1>1 DEF SessionInv, PromptInv
<1>5. PromptInv'
  BY <1>2, <1>3, <1>4, UpdateFacts, DeliveryStep
<1> QED
  BY <1>2, <1>5 DEF SessionInv

LEMMA SimpleDeliveryKeeps ==
  ASSUME SessionInv, NEW c \in Callers, UNCHANGED approving,
         BeginDeliver(c) \/ AcquireCanceled(c) \/ RejectLocally(c) \/ DrainUpdates(c) \/ WatchEnds(c)
  PROVE  SessionInv'
<1>1. PICK at \in {"idle", "gate", "prompt", "release"} :
        /\ Steps(c, at) /\ UNCHANGED <<gate, proof>> /\ (updates' = updates \/ updates' = <<>>)
        /\ \/ pc[c] \in {"idle", "gate"} /\ at \in {"idle", "gate"}
           \/ pc[c] \in {"check", "watch"} /\ at \in {"prompt", "release"}
  <2>1. CASE BeginDeliver(c)
    BY <2>1 DEF BeginDeliver, prompting
  <2>2. CASE AcquireCanceled(c)
    BY <2>2 DEF AcquireCanceled, prompting
  <2>3. CASE RejectLocally(c)
    BY <2>3 DEF RejectLocally, prompting
  <2>4. CASE DrainUpdates(c)
    BY <2>4 DEF DrainUpdates
  <2>5. CASE WatchEnds(c)
    BY <2>5 DEF WatchEnds, prompting
  <2> QED
    BY <2>1, <2>2, <2>3, <2>4, <2>5
<1>2. updates' \in Seq(AnyUpdate)
  <2>1. <<>> \in Seq(AnyUpdate)
    OBVIOUS
  <2>2. updates \in Seq(AnyUpdate)
    BY UpdateFacts
  <2> QED
    BY <1>1, <2>1, <2>2
<1>3. at \notin Calling /\ at \notin {"return", "watch"}
  BY <1>1, Sorts
<1>4. Gated(at, call[c]) => Gated(pc[c], call[c])
  BY <1>1, Sorts DEF Gated
<1>5. Suits(at, call[c])
  BY <1>3, Facts DEF Suits
<1>6. pc[c] \in {"idle", "gate"} \cup Delivering /\ pc[c] # "release"
  BY <1>1, Sorts
<1> QED
  BY <1>1, <1>2, <1>4, <1>5, <1>6, DeliveryKeeps

LEMMA AcquireDeliverKeeps ==
  ASSUME SessionInv, NEW c \in Callers, AcquireDeliver(c), UNCHANGED approving
  PROVE  SessionInv'
<1>1. pc[c] = "gate" /\ gate = None /\ gate' = c /\ Steps(c, "check") /\ UNCHANGED <<updates, proof>>
  BY DEF AcquireDeliver, GateFree
<1>2. PICK l \in Calls : l = call[c]
  BY Facts
<1>3. Suits("check", l)
  BY <1>2, Facts, Sorts DEF Suits
<1>4. RpcInv' /\ ApprovalInv' /\ Moved(c, "check", l)
  BY <1>1, <1>2, <1>3, DeliveryGoes
<1>5. \A d \in Callers : ~Gated(pc[d], call[d])
  BY <1>1, RpcAssumption DEF SessionInv, PromptInv
<1>6. proof'[c] = 0
  BY <1>1 DEF SessionInv, PromptInv
<1>7. PromptInv'
  BY <1>1, <1>4, <1>5, <1>6, UpdateFacts, DeliveryStep
<1> QED
  BY <1>4, <1>7 DEF SessionInv

LEMMA SessionPromptKeeps ==
  ASSUME SessionInv, NEW c \in Callers, SessionPromptMeta(c), UNCHANGED approving
  PROVE  SessionInv'
<1>1. pc[c] = "prompt" /\ UNCHANGED prompting
  BY DEF SessionPromptMeta
<1>2. Gated(pc[c], call[c])
  BY <1>1, Sorts DEF Gated
<1>3. CASE NewCall(c, Advice)
  <2>1. PICK l \in Calls : Moved(c, "register", l) /\ l.job = Advice /\ RpcInv'
    BY <1>1, <1>3, NewCallStep, Sorts
  <2>2. UNCHANGED <<reader, stdin, server>>
    BY <1>3 DEF NewCall, flags, wires
  <2> QED
    BY <1>1, <1>2, <2>1, <2>2, CallerAside DEF SessionInv
<1>4. CASE Steps(c, "release")
  <2>1. Suits("release", call[c])
    BY Facts, Sorts DEF Suits
  <2> QED
    BY <1>1, <1>2, <1>4, <2>1, Sorts, UpdateFacts, DeliveryKeeps DEF prompting
<1> QED
  BY <1>3, <1>4 DEF SessionPromptMeta

LEMMA PromptedKeeps ==
  ASSUME SessionInv, NEW c \in Callers, Prompted(c), UNCHANGED approving
  PROVE  SessionInv'
<1>1. PICK at \in {"watch", "release"} : Go(c, at)
  BY DEF Prompted
<1>2. pc[c] = "return" /\ Steps(c, at) /\ UNCHANGED <<gate, updates, proof>>
  BY <1>1 DEF Prompted, Steps
<1>3. Suits(at, call[c]) /\ Gated(pc[c], call[c])
  BY <1>2, Facts, Sorts DEF Suits, Gated
<1> QED
  BY <1>2, <1>3, Sorts, UpdateFacts, DeliveryKeeps

\* Without a step of any caller, the queue may change.
LEMMA QueueKeeps ==
  ASSUME SessionInv, UNCHANGED <<rpc, approving, gate, proof>>, updates' \in Seq(AnyUpdate)
  PROVE  SessionInv'
<1>1. UNCHANGED <<client, flags, calls, pc, call, reader, wires, stdin, server, term, asked, inpipe, pending, ch, nextID>>
  BY DEF rpc, flags, calls, wires
<1>2. RpcInv'
  BY <1>1 DEF SessionInv, RpcInv, CallTypes, OwnIds, Suits, AnswersDue, Due, PendingOwned
<1>3. ApprovalInv'
  <2>1. Broken => Broken'
    BY <1>1 DEF Broken
  <2> QED
    BY <1>1, <2>1, ApprovalAside DEF SessionInv
<1>4. PromptInv'
  BY <1>1 DEF SessionInv, PromptInv, AnyUpdate, UpdateOf, Gated
<1> QED
  BY <1>2, <1>3, <1>4 DEF SessionInv

\* What proves the delivery is an update about its own prompt.
LEMMA WatchKeeps ==
  ASSUME SessionInv, NEW c \in Callers, Watch(c), UNCHANGED approving
  PROVE  SessionInv'
<1>1. pc[c] = "watch" /\ updates # <<>> /\ updates' = Tail(updates) /\ UNCHANGED gate
  BY DEF Watch
<1>2. Head(updates) \in AnyUpdate /\ updates' \in Seq(AnyUpdate)
  BY <1>1, UpdateFacts
<1>3. call[c].id \in CallIds
  BY <1>1, Facts DEF Suits
<1>4. CASE Proves(Head(updates), call[c].id)
  <2>1. PICK l \in Calls : l = call[c]
    BY Facts
  <2>2. Steps(c, "release") /\ proof' = [proof EXCEPT ![c] = Head(updates).id]
    BY <1>4 DEF Watch
  <2>3. Head(updates).id = l.id /\ l.id \in 0..MaxCalls
    BY <1>2, <1>3, <1>4, <2>1, AnyProvesOwn, Facts
  <2>4. Suits("release", l)
    BY <2>1, Facts, Sorts DEF Suits
  <2>5. RpcInv' /\ ApprovalInv' /\ Moved(c, "release", l)
    BY <1>1, <2>1, <2>2, <2>4, Sorts, DeliveryGoes
  <2>6. /\ proof' \in [Callers -> 0..MaxCalls] /\ proof'[c] = l.id
        /\ \A d \in Callers \ {c} : proof'[d] = proof[d]
    BY <2>2, <2>3, UpdateFacts
  <2>7. gate' = c /\ \A d \in Callers \ {c} : ~Gated(pc[d], call[d])
    BY <1>1, Sorts, Alone DEF Gated
  <2>8. PromptInv'
    BY <1>2, <2>5, <2>6, <2>7, DeliveryStep
  <2> QED
    BY <2>5, <2>8 DEF SessionInv
<1>5. CASE ~Proves(Head(updates), call[c].id)
  BY <1>1, <1>2, <1>5, QueueKeeps DEF Watch
<1> QED
  BY <1>4, <1>5

LEMMA ReleaseDeliverKeeps ==
  ASSUME SessionInv, NEW c \in Callers, ReleaseDeliver(c), UNCHANGED approving
  PROVE  SessionInv'
<1>1. /\ pc[c] = "release" /\ Moved(c, "idle", NoCall) /\ proof' = [proof EXCEPT ![c] = 0]
      /\ UNCHANGED <<pending, ch, nextID, reader, asked, client, term, stdin, server, inpipe, updates>>
  BY DEF ReleaseDeliver, Moved, Go, flags, calls, wires
<1>2. Suits("idle", NoCall) /\ Numbered(c, NoCall) /\ Due(NoCall.answer, NoCall.id)
  BY <1>1, NoCallFits, Sorts DEF Suits, Numbered, Due
<1>3. Entered(c, "idle", NoCall)
  BY <1>1, Sorts DEF Entered, SessionInv, RpcInv, PendingOwned, Delivering, Registered
<1>4. RpcInv'
  BY <1>1, <1>2, <1>3, NoCallFits, Sorts, SameChannels, AskedFacts, CallerStep DEF SessionInv
<1>5. /\ pc'[c] = "idle" /\ \A d \in Callers \ {c} : pc'[d] = pc[d] /\ call'[d] = call[d]
  BY <1>1, Facts DEF Moved, CallTypes
<1>6. ApprovalInv'
  <2>1. Broken => Broken'
    BY <1>1 DEF Broken
  <2> QED
    BY <1>1, <1>5, <2>1, ApprovalAside DEF SessionInv
<1>7. PromptInv'
  <2>1. \A d \in Callers \ {c} : ~Gated(pc[d], call[d])
    BY <1>1, Sorts, Alone DEF Gated
  <2>2. ~Gated("idle", NoCall)
    BY Sorts DEF Gated
  <2>3. 0 \in 0..MaxCalls
    BY RpcAssumption
  <2>4. proof' \in [Callers -> 0..MaxCalls] /\ proof'[c] = 0 /\ \A d \in Callers \ {c} : proof'[d] = proof[d]
    BY <1>1, <2>3, UpdateFacts
  <2> QED
    BY <1>1, <2>1, <2>2, <2>4, UpdateFacts, DeliveryStep
<1> QED
  BY <1>4, <1>6, <1>7 DEF SessionInv

LEMMA ReadUpdateKeeps ==
  ASSUME SessionInv, ReadUpdate, UNCHANGED approving
  PROVE  SessionInv'
<1>1. PICK u \in UpdateLines : updates' = Append(updates, u) \/ updates' = updates
  BY DEF ReadUpdate
<1>2. u \in AnyUpdate
  BY DEF UpdateLines, AnyUpdate, SessionInv, RpcInv, CallTypes
<1>3. updates' \in Seq(AnyUpdate)
  BY <1>1, <1>2, UpdateFacts
<1> QED
  BY <1>3, QueueKeeps DEF ReadUpdate

LEMMA PromptKeeps ==
  ASSUME SessionInv, PromptNext, UNCHANGED approving
  PROVE  SessionInv'
<1>1. ASSUME NEW c \in Callers, DeliverStep(c) PROVE SessionInv'
  BY <1>1, SimpleDeliveryKeeps, SessionPromptKeeps, PromptedKeeps, WatchKeeps, ReleaseDeliverKeeps DEF DeliverStep
<1> QED
  BY <1>1, SimpleDeliveryKeeps, AcquireDeliverKeeps, ReadUpdateKeeps DEF PromptNext

-----------------------------------------------------------------------------
LEMMA InitSession == Init => SessionInv
<1> SUFFICES ASSUME Init PROVE SessionInv
  OBVIOUS
<1>1. MaxCalls \in Nat /\ 0 \in 0..MaxCalls /\ MaxApprovals \in Nat
  BY RpcAssumption, ApprovalAssumption
<1>2. CallTypes
  <2>1. inpipe \in Seq(PipeLine)
    <3>1. Line("earlier", 0) \in PipeLine
      BY <1>1 DEF Line, PipeLine
    <3>2. <<>> \in Seq(PipeLine)
      OBVIOUS
    <3>3. <<Line("earlier", 0)>> \in Seq(PipeLine)
      BY <3>1
    <3> QED
      BY <3>2, <3>3 DEF Init, RpcInit
  <2> QED
    BY <1>1, <2>1, NoCallFits, Sorts DEF Init, RpcInit, CallTypes, Answers
<1>3. \A c \in Callers : pc[c] = "idle" /\ call[c] = NoCall
  BY DEF Init, RpcInit
<1>4. OwnIds
  BY <1>1, <1>3, NoCallFits, Sorts DEF OwnIds, Suits, Init, RpcInit
<1>5. AnswersDue /\ PendingOwned
  BY <1>3, NoCallFits DEF AnswersDue, PendingOwned, Due, Init, RpcInit
<1>6. ApprovalInv
  <2>1. ApprovalTypes
    BY <1>1 DEF ApprovalTypes, Queued, Init, ApprovalInit
  <2>2. Newest
    BY DEF Newest, Init, RpcInit
  <2>3. ApprovalSettledOnce
    BY DEF ApprovalSettledOnce, Init, ApprovalInit
  <2> QED
    BY <1>3, <2>1, <2>2, <2>3 DEF ApprovalInv, Answering, Init, ApprovalInit
<1>7. PromptInv
  BY <1>1, <1>3, NoCallFits, Sorts DEF PromptInv, Gated, Init, PromptInit
<1> QED
  BY <1>2, <1>4, <1>5, <1>6, <1>7 DEF SessionInv, RpcInv

LEMMA NextSession ==
  ASSUME SessionInv, [Next]_vars
  PROVE  SessionInv'
<1>1. CASE UNCHANGED vars
  <2>1. UNCHANGED <<rpc, approving, gate, proof, updates>>
    BY <1>1 DEF vars, prompting
  <2> QED
    BY <2>1, QueueKeeps, UpdateFacts
<1> QED
  BY <1>1, RpcKeeps, ApprovalKeeps, PromptKeeps DEF Next

\* The inductive invariant of a session: request ids belong to one caller,
\* answers to the requests they name, the gate to one delivery, and every
\* question of the child's is in exactly one place.
THEOREM SessionInvariant == Spec => []SessionInv
<1>1. Init => SessionInv
  BY InitSession
<1>2. SessionInv /\ [Next]_vars => SessionInv'
  BY NextSession
<1> QED
  BY <1>1, <1>2, PTL DEF Spec

\* Every request of the child's is settled exactly once, however many consumers
\* respond to it and however full the queue is (handleServerRequest,
\* RespondApproval).
THEOREM QuestionsSettledOnce == Spec => []ApprovalSettledOnce
<1>1. SessionInv => ApprovalSettledOnce
  BY DEF SessionInv, ApprovalInv
<1> QED
  BY <1>1, SessionInvariant, PTL

\* A delivery claims session_visible on an update about its own prompt only
\* (updateStrongCorrelation), whatever the child reports and when.
THEOREM ProofsAreOwn == Spec => []SourceCorrelated
<1>1. SessionInv => SourceCorrelated
  BY DEF SessionInv, PromptInv, SourceCorrelated
<1> QED
  BY <1>1, SessionInvariant, PTL

\* Pending requests belong to callers under way, none survives the end of the
\* reader, and no call succeeds on anything but the child's result for it, but
\* for a Grok call whose id the child uses for a request of its own: whatever ids
\* the child chooses (callWithID, readLoop, failAllPending).
THEOREM CallsAreAccounted == Spec => []CallsAccounted
<1>1. SessionInv => CallsAccounted
  <2> SUFFICES ASSUME SessionInv PROVE CallsAccounted
    OBVIOUS
  <2>1. PendingOwned
    BY DEF SessionInv, RpcInv
  <2>2. ASSUME NEW c \in Callers, Succeeded(call[c].answer)
        PROVE  \/ call[c].answer = "result" /\ call[c].id \in asked
               \/ client = "grok" /\ call[c].answer = "request" /\ call[c].id \in ForeignIds
    <3>1. call[c].answer \in {"result", "request"}
      BY <2>2, Facts DEF Succeeded, Calls, Answers
    <3>2. Due(call[c].answer, call[c].id)
      BY Facts
    <3> QED
      BY <3>1, <3>2 DEF Due
  <2> QED
    BY <2>1, <2>2 DEF CallsAccounted, PendingOwned, Registered
<1> QED
  BY <1>1, SessionInvariant, PTL
LEMMA OwnUpdateStep ==
  ASSUME SessionInv, [Next]_vars
  PROVE  [KeepsOwnUpdates]_<<rpc, prompting>>
<1> SUFFICES ASSUME NEW c \in Callers, pc[c] \in {"write", "wait", "leave", "return", "watch"}, call[c].job = Advice,
                    NEW i \in DOMAIN updates, Proves(updates[i], call[c].id),
                    updates[i] \notin {updates'[j] : j \in DOMAIN updates'}
             PROVE  pc'[c] # pc[c]
  BY DEF KeepsOwnUpdates
<1>1. updates \in Seq(AnyUpdate) /\ pc \in [Callers -> Labels]
  BY UpdateFacts, Facts DEF CallTypes
<1>2. \A d \in Callers \ {c} : ~Gated(pc[d], call[d])
  <2>1. Gated(pc[c], call[c])
    BY Sorts DEF Gated
  <2> QED
    BY <2>1, Alone
<1>3. CASE UNCHANGED updates
  BY <1>3
<1>4. ASSUME NEW u \in AnyUpdate, updates' = Append(updates, u) PROVE FALSE
  <2>1. \E j \in DOMAIN Append(updates, u) : Append(updates, u)[j] = updates[i]
    BY <1>1, AppendHolds
  <2> QED
    BY <1>4, <2>1
<1>5. ASSUME NEW d \in Callers, DrainUpdates(d) PROVE FALSE
  <2>1. pc[d] = "check" /\ Gated(pc[d], call[d])
    BY <1>5, Sorts DEF DrainUpdates, Gated
  <2> QED
    BY <1>2, <2>1
<1>6. ASSUME NEW d \in Callers, Watch(d) PROVE pc'[c] # pc[c]
  <2>1. pc[d] = "watch" /\ Gated(pc[d], call[d]) /\ updates # <<>> /\ updates' = Tail(updates)
    BY <1>6, Sorts DEF Watch, Gated
  <2>2. d = c
    BY <1>2, <2>1
  <2>3. updates[i] = Head(updates)
    <3>1. PICK u : u = updates[i]
      OBVIOUS
    <3>2. u = Head(updates) \/ \E j \in DOMAIN Tail(updates) : Tail(updates)[j] = u
      BY <1>1, <2>1, <3>1, TailHolds
    <3> QED
      BY <2>1, <3>1, <3>2
  <2>4. Go(c, "release")
    BY <1>6, <2>2, <2>3 DEF Watch, Steps
  <2> QED
    BY <1>1, <2>1, <2>2, <2>4 DEF Go
<1>7. CASE PromptNext
  <2>1. CASE ReadUpdate
    <3>1. PICK u \in UpdateLines : updates' = Append(updates, u) \/ updates' = updates
      BY <2>1 DEF ReadUpdate
    <3>2. u \in AnyUpdate
      BY DEF UpdateLines, AnyUpdate, SessionInv, RpcInv, CallTypes
    <3> QED
      BY <1>3, <1>4, <3>1, <3>2
  <2>2. ASSUME NEW d \in Callers,
               \/ BeginDeliver(d) \/ AcquireDeliver(d) \/ AcquireCanceled(d) \/ RejectLocally(d)
               \/ SessionPromptMeta(d) \/ Prompted(d) \/ WatchEnds(d) \/ ReleaseDeliver(d)
        PROVE  UNCHANGED updates
    BY <2>2 DEF BeginDeliver, AcquireDeliver, AcquireCanceled, RejectLocally, SessionPromptMeta, Prompted,
                WatchEnds, ReleaseDeliver, prompting
  <2> QED
    BY <1>3, <1>5, <1>6, <1>7, <2>1, <2>2 DEF PromptNext, DeliverStep
<1> QED
  BY <1>3, <1>7 DEF Next, vars, prompting

\* The gate keeps an update that proves a prompt in the queue until the delivery
\* of that prompt takes it: no other delivery drains it or reads past it.
THEOREM OwnUpdatesKept == Spec => OwnUpdateKept
<1>1. SessionInv /\ [Next]_vars => [KeepsOwnUpdates]_<<rpc, prompting>>
  BY OwnUpdateStep
<1> QED
  BY <1>1, SessionInvariant, PTL DEF Spec, OwnUpdateKept
=============================================================================
