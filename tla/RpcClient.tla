------------------------------ MODULE RpcClient ------------------------------
(***************************************************************************)
(* The JSON-RPC clients over a child process's pipes: what                 *)
(* src/pkg/adapter/codex_app_server.go and src/pkg/adapter/grok_acp.go     *)
(* have in common.  Callers register a request, write it to the child's    *)
(* stdin and wait; one reader goroutine hands the answers out; Close ends  *)
(* both.  The two clients differ in their locks: the Codex client writes   *)
(* under writeMu, which Close takes as well; the Grok client writes under  *)
(* mu, which guards pending and which Close does not take.                 *)
(*                                                                         *)
(* A write to a full pipe blocks with the lock held.  The child is outside *)
(* this code: it reads its stdin when it likes, and the reader may find on *)
(* its stdout any line it can have written by then, also after its death.  *)
(* The state starts after the initialize handshake, perhaps with a line    *)
(* the child has not read yet.                                             *)
(***************************************************************************)
EXTENDS Integers, Sequences, FiniteSets

CONSTANTS
  Clients,    \* which of "codex" and "grok" to look at
  Callers,    \* goroutines calling the client
  MaxCalls,   \* bound on the request ids
  PipeCap,    \* lines the child's stdin holds
  QueueDepth, \* capacity of the channel the reader feeds
  ForeignIds, \* ids the child gives to requests of its own
  None

ASSUME RpcAssumption ==
  /\ Clients \subseteq {"codex", "grok"}
  /\ MaxCalls \in Nat /\ PipeCap \in Nat \ {0}
  /\ QueueDepth \in Nat \ {0} /\ ForeignIds \subseteq Nat
  /\ None \notin Callers

VARIABLES
  client,    \* "codex" or "grok"
  closed,    \* the closed flag
  stdin,     \* the write end of the child's stdin is open
  term,      \* terminalErr is set
  pending,   \* ids in the pending map
  ch,        \* the buffered channel of each request
  nextID,
  pc, call,  \* where each caller is; its request, what it asks for, its outcome
  reader,    \* where the reader is, and the line it works on
  seen,      \* Grok: seenIDs
  lock,      \* who is blocked in a write, with the lock held
  closer,    \* where Close is
  inpipe,    \* the lines in the child's stdin
  asked,     \* ids of the requests the child has read
  server     \* the child runs

flags == <<client, closed, stdin, term>>
calls == <<pending, ch, nextID>>
wires == <<inpipe, asked, server>>
rpc   == <<flags, calls, pc, call, reader, seen, lock, closer, wires>>

CallIds == 1..MaxCalls
NoCall  == [id |-> 0, answer |-> "none", job |-> None]
NoLine  == [type |-> "none", id |-> 0]
Line(type, id) == [type |-> type, id |-> id]

\* The mutex of pending is free: the Grok client writes with it held.
MuFree == client = "codex" \/ lock = None

-----------------------------------------------------------------------------
(* Writing a line                                                          *)

Broken == ~stdin \/ ~server
Room == Len(inpipe) < PipeCap

\* Who gets the lock and can write at once, or finds the pipe broken.
WriteNow(line) ==
  /\ lock = None /\ (Room \/ Broken)
  /\ inpipe' = IF Broken THEN inpipe ELSE Append(inpipe, line)
  /\ UNCHANGED lock

\* Who gets the lock and finds the pipe full, with nobody reading.
WriteBlocks(who) ==
  /\ lock = None /\ ~Room /\ ~Broken
  /\ lock' = who
  /\ UNCHANGED inpipe

WriteResumes(who, line) ==
  /\ lock = who /\ (Room \/ Broken)
  /\ inpipe' = IF Broken THEN inpipe ELSE Append(inpipe, line)
  /\ lock' = None

-----------------------------------------------------------------------------
(* call, callWithID                                                        *)

Go(c, label) == pc' = [pc EXCEPT ![c] = label]

\* Past the check of closed, with an id of its own.
NewCall(c, job) ==
  /\ ~closed /\ nextID < MaxCalls
  /\ nextID' = nextID + 1
  /\ Go(c, "register")
  /\ call' = [call EXCEPT ![c] = [NoCall EXCEPT !.id = nextID', !.job = job]]
  /\ UNCHANGED <<flags, pending, ch, reader, seen, lock, closer, wires>>

BeginCall(c) == pc[c] = "idle" /\ NewCall(c, None)

\* Back to who called: somebody who is done now, or a delivery that goes on.
Returns(c) ==
  IF call[c].job = None
  THEN Go(c, "idle") /\ call' = [call EXCEPT ![c] = NoCall]
  ELSE Go(c, "return") /\ UNCHANGED call

\* Mutant: the reader's end is not looked at.
MayRegister_Always == TRUE
MayRegister == ~term

Register(c) ==
  /\ pc[c] = "register" /\ MuFree
  /\ IF MayRegister
     THEN pending' = pending \cup {call[c].id} /\ Go(c, "write") /\ UNCHANGED call
     ELSE Returns(c) /\ UNCHANGED pending
  /\ UNCHANGED <<flags, ch, nextID, reader, seen, lock, closer, wires>>

Write(c) ==
  LET line == Line("request", call[c].id) IN
  /\ pc[c] = "write"
  /\ \/ WriteBlocks(c) /\ UNCHANGED pc
     \/ (WriteNow(line) \/ WriteResumes(c, line)) /\ Go(c, IF Broken THEN "leave" ELSE "wait")
  /\ UNCHANGED <<flags, calls, call, reader, seen, closer, asked, server>>

\* The request is larger than MaxMessageBytes.
TooLarge(c) ==
  /\ pc[c] = "write" /\ lock # c
  /\ Go(c, "leave")
  /\ UNCHANGED <<flags, calls, call, reader, seen, lock, closer, wires>>

Succeeded(answer) == answer \notin {"none", "error"}

\* The select: an answer (or failAllPending's error), the reader's end, the
\* caller's context.  With several ready any is taken.
Answered(c) ==
  /\ pc[c] = "wait" /\ ch[call[c].id] # "none"
  /\ call' = [call EXCEPT ![c].answer = ch[call[c].id]]
  /\ Go(c, "leave")
  /\ UNCHANGED <<flags, calls, reader, seen, lock, closer, wires>>

ReaderGone(c) ==
  /\ pc[c] = "wait" /\ reader.at = "done"
  /\ Go(c, "leave")
  /\ UNCHANGED <<flags, calls, call, reader, seen, lock, closer, wires>>

ContextDone(c) ==
  /\ pc[c] = "wait"
  /\ Go(c, "leave")
  /\ UNCHANGED <<flags, calls, call, reader, seen, lock, closer, wires>>

\* The deferred delete; the channel is garbage from here on.
Leave(c) ==
  /\ pc[c] = "leave" /\ MuFree
  /\ pending' = pending \ {call[c].id}
  /\ ch' = [ch EXCEPT ![call[c].id] = "none"]
  /\ Returns(c)
  /\ UNCHANGED <<flags, nextID, reader, seen, lock, closer, wires>>

-----------------------------------------------------------------------------
(* readLoop                                                                *)

Reads(at, line) == reader' = [at |-> at, line |-> line]

\* A line of the child's that goes to whoever waits on its id: an answer, or,
\* to the Grok reader, also a request of the child's own.
AnswerLines ==
  {Line(type, id) : type \in {"result", "error"}, id \in asked}
    \cup (IF client = "grok" THEN {Line("request", id) : id \in ForeignIds} ELSE {})

\* A duplicate of an answer (Grok), or one nobody waits for, is dropped.
Handed(id) == id \in pending /\ (client = "grok" => id \notin seen)

ReadAnswer ==
  /\ reader.at = "read" /\ MuFree
  /\ \E line \in AnswerLines :
       /\ seen' = IF client = "grok" THEN seen \cup ({line.id} \cap CallIds) ELSE seen
       /\ IF Handed(line.id) THEN Reads("send", line) ELSE Reads("read", NoLine)
  /\ UNCHANGED <<flags, calls, pc, call, lock, closer, wires>>

\* Outside the mutex and without blocking; by now the caller may be gone.
SendAnswer ==
  /\ reader.at = "send"
  /\ LET id == reader.line.id IN
       ch' = IF ch[id] = "none" /\ \E c \in Callers : call[c].id = id /\ pc[c] \in {"write", "wait"}
             THEN [ch EXCEPT ![id] = reader.line.type] ELSE ch
  /\ Reads("read", NoLine)
  /\ UNCHANGED <<flags, pending, nextID, pc, call, seen, lock, closer, wires>>

\* A line over MaxMessageBytes: the Codex reader skips it, the scanner of the
\* Grok reader stops.
ReadOversized ==
  /\ reader.at = "read" /\ client = "grok"
  /\ Reads("fail", NoLine)
  /\ UNCHANGED <<flags, calls, pc, call, seen, lock, closer, wires>>

ReadEOF ==
  /\ reader.at = "read" /\ ~server
  /\ Reads("fail", NoLine)
  /\ UNCHANGED <<flags, calls, pc, call, seen, lock, closer, wires>>

\* failAllPending.
FailAllPending ==
  /\ MuFree
  /\ term' = TRUE
  /\ pending' = {}
  /\ ch' = [i \in CallIds |-> IF i \in pending /\ ch[i] = "none" THEN "error" ELSE ch[i]]

\* Then readerDone is closed, which nobody can tell from the step before.
ReaderFails ==
  /\ reader.at = "fail"
  /\ FailAllPending
  /\ Reads("done", NoLine)
  /\ UNCHANGED <<client, closed, stdin, nextID, pc, call, seen, lock, closer, wires>>

-----------------------------------------------------------------------------
(* Close                                                                   *)

BeginClose ==
  /\ ~closed
  /\ closed' = TRUE
  /\ closer' = "stdin"
  /\ UNCHANGED <<client, stdin, term, calls, pc, call, reader, seen, lock, wires>>

\* Mutant: the Grok client takes its mutex, too.
MayCloseStdin_Locked == lock = None
\* The Codex client closes stdin under writeMu.
MayCloseStdin == client = "codex" => lock = None

CloseStdin ==
  /\ closer = "stdin" /\ MayCloseStdin
  /\ stdin' = FALSE
  /\ closer' = "stop"
  /\ UNCHANGED <<client, closed, term, calls, pc, call, reader, seen, lock, wires>>

\* The reader ended, or the grace period did; then the process tree is
\* signalled, and at last killed.
StopProcess ==
  /\ closer = "stop"
  /\ server' = FALSE
  /\ closer' = IF client = "codex" THEN "fail" ELSE "done"
  /\ UNCHANGED <<flags, calls, pc, call, reader, seen, lock, inpipe, asked>>

CloseFails ==
  /\ closer = "fail"
  /\ FailAllPending
  /\ closer' = "done"
  /\ UNCHANGED <<client, closed, stdin, nextID, pc, call, reader, seen, lock, wires>>

-----------------------------------------------------------------------------
(* The child: it may read, stall, or die.                                  *)

ServerReads ==
  /\ server /\ inpipe # <<>>
  /\ inpipe' = Tail(inpipe)
  /\ asked' = IF Head(inpipe).type = "request" THEN asked \cup {Head(inpipe).id} ELSE asked
  /\ UNCHANGED <<flags, calls, pc, call, reader, seen, lock, closer, server>>

ServerDies ==
  /\ server /\ server' = FALSE
  /\ UNCHANGED <<flags, calls, pc, call, reader, seen, lock, closer, inpipe, asked>>

-----------------------------------------------------------------------------
RpcInit ==
  /\ client \in Clients
  /\ closed = FALSE /\ stdin = TRUE /\ term = FALSE
  /\ pending = {} /\ ch = [i \in CallIds |-> "none"] /\ nextID = 0
  /\ pc = [c \in Callers |-> "idle"] /\ call = [c \in Callers |-> NoCall]
  /\ reader = [at |-> "read", line |-> NoLine] /\ seen = {}
  /\ lock = None /\ closer = "none"
  /\ inpipe \in {<<>>, <<Line("earlier", 0)>>} /\ asked = {} /\ server = TRUE

CallStep(c) == Register(c) \/ Write(c) \/ Answered(c) \/ ReaderGone(c) \/ Leave(c)
ReadStep == ReadAnswer \/ SendAnswer \/ ReadOversized \/ ReadEOF \/ ReaderFails
CloseStep == CloseStdin \/ StopProcess \/ CloseFails
ServerStep == ServerReads \/ ServerDies

RpcNext ==
  \/ \E c \in Callers : BeginCall(c) \/ CallStep(c) \/ TooLarge(c) \/ ContextDone(c)
  \/ ReadStep \/ BeginClose \/ CloseStep \/ ServerStep
=============================================================================
