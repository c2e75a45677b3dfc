------------------------------ MODULE CodexTail ------------------------------
(***************************************************************************)
(* The tail of a Codex rollout file (adapter: codex_tail, codex_cursor,    *)
(* codex_identity, codex_parse, codex_rollout): polls a file another       *)
(* process appends to and may replace, emits one event per record on a     *)
(* bounded channel, and saves a cursor it resumes from.                    *)
(*                                                                         *)
(* A line is [kind, text, at, end], `vis` units of the file are on disk,   *)
(* so the last line may lack its newline; a write makes the file younger.  *)
(* inc counts the files that had this path: only the model sees it.        *)
(***************************************************************************)
EXTENDS HookGate

CONSTANTS Contents, Configs, MaxBytesPerPoll, MaxRecordBytes, ChanCap, MaxFaults, MaxFiles

Lines == UNION { c.lines : c \in Contents }

VARIABLES cfg,      \* [batch, maxEvents, startAtEnd, failClosed, override, cursor]
          file,     \* [inc, content, cuts, vis, born]
          cursor,   \* the cursor file: None, Garbled or a cursor
          tail, chan, canceled, faults,
          sent      \* the records put on the channel: <<inc, end>>
tvars == <<cfg, file, cursor, tail, chan, canceled, faults, sent>>

-----------------------------------------------------------------------------
(* Bytes and records *)

Least(a, b) == IF a < b THEN a ELSE b

\* readNew's buffer: the lines that end within the budget.
Complete(f, offset) == { l \in f.content : l.end > offset /\ l.end <= Least(f.vis, offset + MaxBytesPerPoll) }

Oversized_Waits(f, offset) == FALSE

\* A full budget without a newline.
Oversized(f, offset) == f.vis >= offset + MaxBytesPerPoll
ModTime(f) == f.born + f.vis

RotationDetected(offset, prev, now) ==
  \/ now.size < offset
  \/ prev.size > 0 /\ now.size < prev.size
  \/ prev.mod # 0 /\ now.mod # 0 /\ now.mod < prev.mod /\ offset > 0
  \/ prev.size > 0 /\ now.size >= offset /\ prev.mod # 0 /\ now.mod # prev.mod /\ now.size # prev.size /\ offset > prev.size

FormatEventID(sid, gen, offset, kind) == <<sid, gen, offset, kind>>
Payload(type, text) == IF type = "error" THEN [error |-> text] ELSE [input |-> text]
MakeEvent(sid, gen, offset, type, text, rec) ==
  LET session == IF sid = "" THEN "codex-unknown" ELSE sid
  IN  [id |-> FormatEventID(session, gen, offset, type), session |-> session, seq |-> offset, type |-> type,
       payload |-> Payload(type, text), rec |-> rec]

\* parseCodexRolloutLine: what a line's kind makes of it.  An output line is
\* emitted when looksLikeFailure.
LooksLikeFailure(line) == line.text.words # ""
EventType(line) == CASE line.kind = "call" -> "tool_call"
                     [] line.kind = "output" /\ LooksLikeFailure(line) -> "error"
                     [] OTHER -> ""
\* A line that starts before the offset is the rest of one skipped for its length.
Rest(line, offset) == line.at < offset
Emits(line, offset) == /\ ~Rest(line, offset) /\ line.end - offset > 1 /\ line.end - offset - 1 <= MaxRecordBytes
                       /\ EventType(line) # ""

\* The lines of a file follow one another from its first byte, and a line that
\* makes an event is not empty.
WellFormed(lines) ==
  /\ \A l \in lines : /\ l.at \in Nat /\ l.end \in Nat /\ l.at < l.end
                      /\ l.at = 0 \/ \E k \in lines : k.end = l.at
                      /\ EventType(l) # "" => l.end - l.at > 1
  /\ \A k, l \in lines : k # l => k.end <= l.at \/ l.end <= k.at
ASSUME TailAssumption ==
  /\ MaxBytesPerPoll \in Nat /\ MaxRecordBytes \in Nat
  /\ \A c \in Contents : c.cuts \subseteq Nat /\ WellFormed(c.lines)

-----------------------------------------------------------------------------
(* The file's writer *)

Born == 60
File(c) == [inc |-> 0, content |-> c.lines, cuts |-> c.cuts, vis |-> 0, born |-> Born]
NoPrint == [size |-> 0, mod |-> 0]
Down == [pc |-> "down", offset |-> 0, gen |-> 0, sid |-> "", print |-> NoPrint, buf |-> {}, n |-> 0, emitted |-> 0,
         inc |-> 0, base |-> 0, of |-> 0]
TInit == /\ cfg \in Configs /\ cursor = None /\ tail = Down /\ chan = <<>>
         /\ file \in { File(c) : c \in Contents }
         /\ canceled = FALSE /\ faults = 0 /\ sent = {}

\* The writer flushes up to its next cut, which may lie before a line's newline.
Grow == /\ \E cut \in file.cuts :
             cut > file.vis /\ (\A c \in file.cuts : c > file.vis => c >= cut) /\ file' = [file EXCEPT !.vis = cut]
        /\ UNCHANGED <<cfg, cursor, tail, chan, canceled, faults, sent>>

\* Another file under the same path, empty or with a first flush, newer or older.
Replace == /\ file.inc + 1 < MaxFiles
           /\ \E c \in Contents, born \in {Born - 20, Born + 20} :
                \E vis \in {0} \union { x \in c.cuts : \A y \in c.cuts : x <= y } :
                  file' = [File(c) EXCEPT !.inc = file.inc + 1, !.vis = vis, !.born = born]
           /\ UNCHANGED <<cfg, cursor, tail, chan, canceled, faults, sent>>

Fault == faults < MaxFaults /\ faults' = faults + 1

\* The same file with an older time stamp.
Backdate == Fault /\ file' = [file EXCEPT !.born = Born - 40]
            /\ UNCHANGED <<cfg, cursor, tail, chan, canceled, sent>>

-----------------------------------------------------------------------------
(* The follower *)

\* The cursor on disk after a save that works.
Saved(t) == IF cfg.cursor THEN [offset |-> t.offset, gen |-> t.gen, sid |-> t.sid, print |-> t.print, inc |-> t.inc, base |-> t.base]
            ELSE cursor

\* Where the cursor says to go on; garbled: generation 1 from the start.
Garbled == cfg.cursor /\ cursor # None /\ cursor.gen < 0
Resumed ==
  IF cfg.cursor /\ cursor # None /\ ~Garbled
  THEN [Down EXCEPT !.offset = cursor.offset, !.gen = cursor.gen, !.print = cursor.print,
                    !.inc = cursor.inc, !.base = cursor.base,
                    !.sid = IF cfg.override # "" THEN cfg.override ELSE cursor.sid]
  ELSE [Down EXCEPT !.gen = IF Garbled THEN 1 ELSE 0, !.sid = cfg.override]

\* Events: the cursor is loaded (garbled: possibly an abort), and with
\* StartAtEnd a zero offset moves to the end.
Load ==
  /\ tail.pc = "down" /\ chan = <<>>
  /\ tail' = IF Garbled /\ cfg.failClosed THEN [Resumed EXCEPT !.pc = "ended"]
             ELSE IF cfg.startAtEnd /\ Resumed.offset = 0
             THEN [Resumed EXCEPT !.pc = "stat", !.offset = file.vis, !.base = file.vis, !.inc = file.inc]
             ELSE [Resumed EXCEPT !.pc = "stat"]
  /\ canceled' = FALSE /\ UNCHANGED <<cfg, file, cursor, chan, faults, sent>>

Stat ==
  /\ tail.pc = "stat" /\ ~canceled
  /\ LET now == [size |-> file.vis, mod |-> ModTime(file)]
         t == [tail EXCEPT !.pc = "read", !.print = now]
     IN  tail' = IF RotationDetected(tail.offset, tail.print, now)
                 THEN [t EXCEPT !.offset = 0, !.gen = @ + 1, !.inc = file.inc, !.base = 0] ELSE t
  /\ UNCHANGED <<cfg, file, cursor, chan, canceled, faults, sent>>

\* readNew up to its buffer; a budget full of one unfinished line is skipped.
\* It may fail, and the poll is over.
Read ==
  /\ tail.pc = "read"
  /\ LET from == IF tail.offset = 0 THEN [tail EXCEPT !.inc = file.inc, !.base = 0] ELSE tail
         buf == Complete(file, tail.offset)
         skip == buf = {} /\ Oversized(file, tail.offset)
     IN  tail' = [from EXCEPT !.pc = "lines", !.n = 0, !.buf = buf, !.offset = IF skip THEN @ + MaxBytesPerPoll ELSE @,
                              !.of = file.inc]
  /\ UNCHANGED <<cfg, file, cursor, chan, canceled, faults, sent>>

ReadFails == /\ tail.pc = "read" /\ Fault /\ tail' = [tail EXCEPT !.pc = "stat"]
             /\ UNCHANGED <<cfg, file, cursor, chan, canceled, sent>>

\* The scan takes the lines of the buffer in the order of the file.
Foremost(l, buf) == \A k \in buf : l.end <= k.end
Consumed(t, l) == [t EXCEPT !.offset = l.end, !.buf = @ \ {l}]

\* A line that makes no event: empty, too long, the rest of one, not JSON,
\* unknown, or the session's metadata, whose id sticks.
SkipLine ==
  /\ tail.pc = "lines"
  /\ \E l \in tail.buf :
       /\ Foremost(l, tail.buf) /\ ~Emits(l, tail.offset)
       /\ LET meta == l.kind = "meta" /\ ~Rest(l, tail.offset) /\ tail.sid = ""
          IN  tail' = [Consumed(tail, l) EXCEPT !.sid = IF meta THEN l.text.words ELSE @]
  /\ UNCHANGED <<cfg, file, cursor, chan, canceled, faults, sent>>

SendLine ==
  /\ tail.pc = "lines" /\ Len(chan) < ChanCap
  /\ \E l \in tail.buf :
       /\ Foremost(l, tail.buf) /\ Emits(l, tail.offset)
       /\ LET t == [Consumed(tail, l) EXCEPT !.n = @ + 1, !.emitted = IF cfg.maxEvents > 0 THEN @ + 1 ELSE 0]
              full == (cfg.batch > 0 /\ t.n >= cfg.batch) \/ (cfg.maxEvents > 0 /\ t.emitted >= cfg.maxEvents)
          IN  tail' = IF full THEN [t EXCEPT !.buf = {}] ELSE t
       /\ chan' = Append(chan, MakeEvent(tail.sid, tail.gen, l.end, EventType(l), l.text, <<tail.of, l.end>>))
       /\ sent' = sent \union {<<tail.of, l.end>>}
  /\ UNCHANGED <<cfg, file, cursor, canceled, faults>>

\* The offset a cancelled, blocked send is left at.
AbortOffset_Advanced(t, l) == l.end

AbortOffset(t, l) == t.offset

Stop(t) == tail' = [t EXCEPT !.pc = "down", !.buf = {}] /\ cursor' = Saved(t)

\* ctx.Done while the send blocks (or wins the select): the line is not consumed.
AbortSend == /\ tail.pc = "lines" /\ canceled
             /\ \E l \in tail.buf : /\ Foremost(l, tail.buf) /\ Emits(l, tail.offset)
                                    /\ Stop([tail EXCEPT !.offset = AbortOffset(tail, l)])
             /\ UNCHANGED <<cfg, file, chan, canceled, faults, sent>>

\* The end of a poll: the cursor is saved when something was emitted; a save that
\* fails ends a fail-closed tail; MaxEvents ends the tail.
EndPoll ==
  /\ tail.pc = "lines" /\ tail.buf = {}
  /\ LET save == cfg.cursor /\ tail.n > 0
         over == cfg.maxEvents > 0 /\ tail.emitted >= cfg.maxEvents
     IN  \/ /\ cursor' = IF save \/ over THEN Saved(tail) ELSE cursor
            /\ tail' = [tail EXCEPT !.n = 0, !.pc = IF over THEN "ended" ELSE "stat"] /\ UNCHANGED faults
         \/ /\ save /\ Fault /\ UNCHANGED cursor
            /\ tail' = [tail EXCEPT !.pc = IF over \/ cfg.failClosed THEN "ended" ELSE "stat"]
  /\ UNCHANGED <<cfg, file, chan, canceled, sent>>

\* ctx.Done at the head of the loop or while it waits for the tick.
StopAtTop == tail.pc = "stat" /\ canceled /\ Stop(tail) /\ UNCHANGED <<cfg, file, chan, canceled, faults, sent>>

\* The caller cancels; the cursor file is damaged while the tail is down.
Cancel == tail.pc \notin {"down", "ended"} /\ ~canceled /\ Fault /\ canceled' = TRUE
          /\ UNCHANGED <<cfg, file, cursor, tail, chan, sent>>
Garble == tail.pc = "down" /\ cursor # None /\ Fault /\ cursor' = [cursor EXCEPT !.gen = -1]
          /\ UNCHANGED <<cfg, file, tail, chan, canceled, sent>>

Follow == Load \/ Stat \/ Read \/ SkipLine \/ SendLine \/ AbortSend \/ EndPoll \/ StopAtTop
World == Grow \/ Replace \/ Backdate \/ ReadFails \/ Cancel \/ Garble

-----------------------------------------------------------------------------
(* Properties *)

\* Every complete record of the file the tail is on that lies between where it
\* started and its offset was put on the channel, or cannot be emitted: no
\* cancelled send, batch limit, oversized line, replacement, failed read or
\* restart from the cursor lets a record fall between two polls.
NothingSkipped ==
  tail.pc # "down" /\ tail.inc = file.inc =>
    \A l \in file.content :
      /\ l.at >= tail.base /\ l.end <= tail.offset
      /\ EventType(l) # "" /\ l.end - l.at - 1 <= MaxRecordBytes /\ l.end - l.at <= MaxBytesPerPoll
      => <<file.inc, l.end>> \in sent

\* The inductive invariant of the tail.  A place [offset, base, inc], the tail's
\* or the cursor's, has passed only lines that were sent or cannot be, and lies
\* within a line only if that line outgrows a poll.
Emittable(l) == /\ EventType(l) # "" /\ l.end - l.at - 1 <= MaxRecordBytes /\ l.end - l.at <= MaxBytesPerPoll
Passed(offset, base) ==
  \A l \in file.content : l.at >= base /\ l.end <= offset /\ Emittable(l) => <<file.inc, l.end>> \in sent
Aligned(offset, base) ==
  \A l \in file.content : l.at >= base /\ l.at < offset /\ offset < l.end => l.end - l.at > MaxBytesPerPoll
Sound(p) == p.inc <= file.inc /\ (p.inc = file.inc => Passed(p.offset, p.base) /\ Aligned(p.offset, p.base))

\* The buffer holds the lines after the offset up to its last one, of the file
\* that was read: if it is still the file under the path.
Buffered ==
  /\ tail.inc <= tail.of /\ tail.of <= file.inc
  /\ tail.of = file.inc =>
       /\ \A l \in tail.buf : l \in file.content /\ l.end > tail.offset
       /\ \A l \in tail.buf, k \in file.content : k.end > tail.offset /\ k.end <= l.end => k \in tail.buf

Sids == {""} \union { c.override : c \in Configs } \union { l.text.words : l \in { l \in Lines : l.kind = "meta" } }
Prints == [size : Int, mod : Int]
Cursors == [offset : Nat, gen : Int, sid : Sids, print : Prints, inc : Nat, base : Nat]
Tails == [pc : {"down", "stat", "read", "lines", "ended"}, offset : Nat, gen : Int, sid : Sids, print : Prints,
          buf : SUBSET Lines, n : Nat, emitted : Nat, inc : Nat, base : Nat, of : Nat]
TailTypeOK ==
  /\ cfg \in Configs /\ canceled \in BOOLEAN /\ tail \in Tails
  /\ \E c \in Contents : file \in [inc : Nat, content : {c.lines}, cuts : {c.cuts}, vis : Nat, born : Int]
  /\ cursor # None => cursor \in Cursors

TailInv ==
  /\ TailTypeOK
  /\ tail.pc # "down" => Sound(tail)
  /\ cursor # None => Sound(cursor)
  /\ tail.pc = "lines" => Buffered

\* Once the writer and the faults have stopped, a tail that runs reaches the end
\* of the last complete line, oversized lines and replacements included.
TailCatchesUp ==
  <>[](tail.pc \notin {"down", "ended"} =>
         \A l \in file.content : l.end <= file.vis => l.end <= tail.offset)
=============================================================================
