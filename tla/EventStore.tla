------------------------------ MODULE EventStore ------------------------------
(***************************************************************************)
(* The append-only SQLite event store (pkg/state): migrations, appends,    *)
(* reads, and Close racing all of them.  An operation loads `closed`,      *)
(* counts itself in flight and loads `closed` again; Close swaps the flag, *)
(* waits for the count to reach zero or for its deadline, then closes the  *)
(* database.  A write holds SQLite's write lock from BEGIN IMMEDIATE to    *)
(* COMMIT, so the other writers see "busy" and try again.                  *)
(*                                                                         *)
(* An event is [id, session, seq, type]; "" and 0 are the missing values.  *)
(***************************************************************************)
EXTENDS Integers, Sequences, SequencesExt, FiniteSets

CONSTANTS Requests, Versions

VARIABLES rows,      \* the table events
          applied,   \* schema_migrations: the versions whose SQL ran, in order
          closed, inFlight,
          db,        \* "open" or "closed": the connection pool
          closer,    \* Close: "idle", "draining", "returned"
          late,      \* the drain deadline has passed
          op         \* per request: [pc, next, res]
svars == <<rows, applied, closed, inFlight, db, closer, late, op>>

-----------------------------------------------------------------------------
(* Rows and errors *)

ValidEvent(e) == e.id # "" /\ e.session # "" /\ e.type # "" /\ e.seq > 0

Conflict(tab, e) ==
  IF \E r \in tab : r.session = e.session /\ r.seq = e.seq THEN "uniq_session_seq"
  ELSE IF \E r \in tab : r.id = e.id THEN "primary_key" ELSE "none"

\* One statement: AppendEvent's batch of one.
InsertOne(tab, e) == LET c == Conflict(tab, e)
                     IN  [tab |-> IF c = "none" THEN tab \union {e} ELSE tab, err |-> c]

\* The statements up to the first conflict, each against what those before it
\* inserted.
InsertAll(tab, es) ==
  LET With(k) == tab \union {es[j] : j \in 1..k}
      bad == {k \in 1..Len(es) : Conflict(With(k - 1), es[k]) # "none"}
      first == CHOOSE k \in bad : \A j \in bad : k <= j
  IN  IF bad = {} THEN [tab |-> With(Len(es)), err |-> "none"]
      ELSE [tab |-> With(first - 1), err |-> Conflict(With(first - 1), es[first])]

Insert_KeepsPrefix(tab, es) == InsertAll(tab, es)

\* The statements of one transaction: the first conflict rolls all of them back.
Insert(tab, es) == LET w == InsertAll(tab, es)
                   IN  IF w.err = "none" THEN w ELSE [w EXCEPT !.tab = tab]

InScope(e, f) == /\ f.session \in {"", e.session}
                 /\ f.types = {} \/ e.type \in f.types
                 /\ e.seq >= f.from /\ e.seq <= f.to

Page(s, f) == LET rest == IF f.offset > 0 THEN SubSeq(s, f.offset + 1, Len(s)) ELSE s
              IN  IF f.limit > 0 THEN SubSeq(rest, 1, IF f.limit < Len(rest) THEN f.limit ELSE Len(rest)) ELSE rest

QueryRows(tab, f) ==
  LET hits == { e \in tab : InScope(e, f) }
  IN  Page(SetToSortSeq(hits, LAMBDA a, b : IF f.ascending THEN a.seq < b.seq ELSE a.seq > b.seq), f)

LatestSequence(tab, session) ==
  LET seqs == { e.seq : e \in { e \in tab : e.session = session } }
  IN  IF seqs = {} THEN 0 ELSE CHOOSE n \in seqs : \A k \in seqs : k <= n

MapSQLiteError(err) == CASE err = "uniq_session_seq" -> "ErrDuplicateSequence"
                         [] err = "primary_key" -> "ErrDuplicateEventID"
                         [] OTHER -> err

Domain == {"ErrDuplicateSequence", "ErrDuplicateEventID", "ErrInvalidEvent"}
IsInterrupt(err) == err = "interrupted"

WrapDBErr(err, isClosed) ==
  IF err \in Domain \union {"none"} THEN err
  ELSE IF err \in {"database is closed", "tx done"} \/ IsInterrupt(err) \/ isClosed THEN "ErrStoreClosed" ELSE err

MapWriteErr(err, ctxDead, isClosed) ==
  LET mapped == MapSQLiteError(err)
  IN  IF mapped \in Domain THEN mapped
      ELSE IF ctxDead /\ IsInterrupt(err) THEN "ctx" ELSE WrapDBErr(mapped, isClosed)

-----------------------------------------------------------------------------
(* Operations *)

Names == DOMAIN Requests
ASSUME StoreAssumption ==
  /\ IsFiniteSet(DOMAIN Requests)
  /\ \A o \in DOMAIN Requests : Requests[o].kind = "append" => Requests[o].events \in Seq(ToSet(Requests[o].events))

IsWrite(o) == Requests[o].kind = "append"

SInit == /\ rows = {} /\ applied = <<>> /\ closed = FALSE /\ inFlight = 0 /\ db = "open"
         /\ closer = "idle" /\ late = FALSE
         /\ op = [o \in Names |-> [pc |-> IF Requests[o].kind = "open" THEN "migrate" ELSE "idle",
                                   next |-> 1, res |-> "none", got |-> <<>>]]

Goes(o, pc) == op' = [op EXCEPT ![o].pc = pc]
Finish(o, res) == op' = [op EXCEPT ![o].pc = "done", ![o].res = res]

\* AppendEvent checks the event before it enters; enter's three steps follow.
EnterCheck(o) ==
  /\ op[o].pc = "idle"
  /\ IF IsWrite(o) /\ Len(Requests[o].events) = 1 /\ ~ValidEvent(Requests[o].events[1]) THEN Finish(o, "ErrInvalidEvent")
     ELSE IF closed THEN Finish(o, "ErrStoreClosed") ELSE Goes(o, "entering")
  /\ UNCHANGED <<rows, applied, closed, inFlight, db, closer, late>>

EnterCount(o) == /\ op[o].pc = "entering"
                 /\ inFlight' = inFlight + 1 /\ Goes(o, "recheck")
                 /\ UNCHANGED <<rows, applied, closed, db, closer, late>>

EnterRecheck_Missing(o) == /\ op[o].pc = "recheck"
                           /\ Goes(o, "run")
                           /\ UNCHANGED <<rows, applied, closed, inFlight, db, closer, late>>

EnterRecheck(o) ==
  /\ op[o].pc = "recheck"
  /\ IF closed THEN inFlight' = inFlight - 1 /\ Finish(o, "ErrStoreClosed")
               ELSE Goes(o, "run") /\ UNCHANGED inFlight
  /\ UNCHANGED <<rows, applied, closed, db, closer, late>>

Leave(o, res, got) == /\ inFlight' = inFlight - 1
                      /\ op' = [op EXCEPT ![o].pc = "done", ![o].res = res, ![o].got = got]

\* AppendEvents after enter: the empty batch, the validation, the transaction
\* (whose context may be dead), the retries while another write holds the lock.
Begin(o) ==
  /\ op[o].pc = "run" /\ IsWrite(o)
  /\ LET es == Requests[o].events
     IN  \/ es = <<>> /\ Leave(o, "none", <<>>)
         \/ es # <<>> /\ (\E e \in ToSet(es) : ~ValidEvent(e)) /\ Leave(o, "ErrInvalidEvent", <<>>)
         \/ /\ es # <<>> /\ \A e \in ToSet(es) : ValidEvent(e)
            /\ \/ Leave(o, MapWriteErr("ctx", TRUE, closed), <<>>)
               \/ db = "closed" /\ Leave(o, MapWriteErr("database is closed", FALSE, closed), <<>>)
               \/ db = "open" /\ (\A p \in Names \ {o} : op[p].pc # "tx") /\ Goes(o, "tx") /\ UNCHANGED inFlight
               \/ db = "open" /\ (\E p \in Names \ {o} : op[p].pc = "tx") /\ Leave(o, MapWriteErr("busy", FALSE, closed), <<>>)
  /\ UNCHANGED <<rows, applied, closed, db, closer, late>>

\* The inserts and the commit.  Under a pool closed meanwhile they succeed or
\* fail; an interrupt fails them too.
Commit(o) ==
  /\ op[o].pc = "tx"
  /\ LET w == Insert(rows, Requests[o].events)
     IN  \/ rows' = w.tab /\ Leave(o, MapWriteErr(w.err, FALSE, closed), <<>>)
         \/ /\ \E err \in {"interrupted"} \union (IF db = "closed" THEN {"tx done"} ELSE {}), dead \in BOOLEAN :
                 Leave(o, MapWriteErr(err, dead, closed), <<>>)
            /\ rows' = rows
  /\ UNCHANGED <<applied, closed, db, closer, late>>

\* QueryEvents and GetLatestSequenceNum.
ReadRows(o) ==
  /\ op[o].pc = "run" /\ Requests[o].kind \in {"query", "latest"}
  /\ \/ db = "open" /\ Leave(o, "none", IF Requests[o].kind = "query" THEN QueryRows(rows, Requests[o].filter)
                                        ELSE <<LatestSequence(rows, Requests[o].session)>>)
     \/ db = "closed" /\ Leave(o, WrapDBErr("database is closed", closed), <<>>)
     \/ Leave(o, WrapDBErr("ctx", closed), <<>>)
  /\ UNCHANGED <<rows, applied, closed, db, closer, late>>

\* NewStore of another process on the same file: one transaction per version,
\* the check whether it was applied inside it.
Migrate(o) ==
  LET v == op[o].next
  IN  /\ op[o].pc = "migrate" /\ \A p \in Names : op[p].pc # "tx"
      /\ applied' = IF v \in ToSet(applied) THEN applied ELSE Append(applied, v)
      /\ op' = [op EXCEPT ![o].next = v + 1, ![o].pc = IF v = Versions THEN "done" ELSE @]
      /\ UNCHANGED <<rows, closed, inFlight, db, closer, late>>

-----------------------------------------------------------------------------
(* Close *)

CloseSwap == /\ closer \in {"idle", "returned"}
             /\ closed' = TRUE
             /\ closer' = IF closed THEN "returned" ELSE "draining"
             /\ UNCHANGED <<rows, applied, inFlight, db, late, op>>

DrainDeadline == closer = "draining" /\ ~late /\ late' = TRUE
                 /\ UNCHANGED <<rows, applied, closed, inFlight, db, closer, op>>

CloseDB == /\ closer = "draining" /\ (inFlight = 0 \/ late)
           /\ db' = "closed" /\ closer' = "returned"
           /\ UNCHANGED <<rows, applied, closed, inFlight, late, op>>

SNext == \/ \E o \in Names : \/ EnterCheck(o) \/ EnterCount(o) \/ EnterRecheck(o)
                             \/ Begin(o) \/ Commit(o) \/ ReadRows(o) \/ Migrate(o)
         \/ CloseSwap \/ DrainDeadline \/ CloseDB

StoreSpec == SInit /\ [][SNext]_svars

-----------------------------------------------------------------------------
(* Properties *)

\* Close never pulls the database from under an operation it should have waited
\* for: unless its deadline passed, no operation is running when the pool is
\* closed, and none starts afterwards (state/store.go enter and Close).
CloseDrains == db = "closed" /\ ~late => \A o \in Names : op[o].pc \notin {"run", "tx"}

\* The inductive invariant of Close: inFlight counts the operations between the
\* two loads of enter and their leave, and the pool is closed only after the flag.
Counted == { o \in Names : op[o].pc \in {"recheck", "run", "tx"} }
StoreInv ==
  /\ DOMAIN op = Names /\ \A o \in Names : {"pc", "next", "res", "got"} \subseteq DOMAIN op[o]
  /\ inFlight = Cardinality(Counted)
  /\ closer = "draining" \/ db = "closed" => closed
  /\ CloseDrains

\* A batch is stored as a whole exactly when AppendEvents returned nil, whatever
\* the conflict, the interrupt or the Close it met; no two rows share an event id
\* or a session's sequence number; each migration ran once, in order.
AppendAtomic ==
  /\ \A o \in Names : IsWrite(o) =>
       LET mine == ToSet(Requests[o].events)
       IN  IF op[o].pc = "done" /\ op[o].res = "none" THEN mine \subseteq rows
           ELSE \A e \in mine : e \in rows =>
                  \E p \in Names \ {o} : /\ IsWrite(p) /\ e \in ToSet(Requests[p].events)
                                         /\ op[p].pc = "done" /\ op[p].res = "none"
  /\ \A a, b \in rows : a # b => a.id # b.id /\ ~(a.session = b.session /\ a.seq = b.seq)
  /\ \A i \in 1..Len(applied) : applied[i] = i

\* The inductive invariant of the appends: every row was stored by an append that
\* returned nil and every such append stored its batch, no two rows conflict, and
\* an open is at most one version behind the migrations that ran.
Stored(o) == IsWrite(o) /\ op[o].pc = "done" /\ op[o].res = "none"
NoTwins(tab) == \A a, b \in tab : a # b => a.id # b.id /\ ~(a.session = b.session /\ a.seq = b.seq)
AppendInv ==
  /\ \A r \in rows : \E o \in Names : Stored(o) /\ r \in ToSet(Requests[o].events)
  /\ \A o \in Names : Stored(o) => ToSet(Requests[o].events) \subseteq rows
  /\ NoTwins(rows)
  /\ applied \in Seq(Nat) /\ \A i \in 1..Len(applied) : applied[i] = i
  /\ \A o \in Names : op[o].pc = "migrate" => ~IsWrite(o) /\ op[o].next \in 1..(Len(applied) + 1)
=============================================================================
