------------------------------ MODULE HookFiles ------------------------------
(***************************************************************************)
(* Installing, removing and diagnosing the hooks in a file the user and    *)
(* the host edit too: Claude's settings.json, Codex's hooks.json, Grok's   *)
(* own hook file.  An operation of a manager is a read, a backup, a check  *)
(* that the file did not change, and a rename; the user's editor saves     *)
(* between any two of them.                                                *)
(*                                                                         *)
(* A file is [text, hooks, events, owner, hash, stamp]: text is "absent",  *)
(* "link", "empty", "malformed" or "json"; hooks the shape of its "hooks"  *)
(* value; events[e] = [shape, entries]; owner and hash the root markers;   *)
(* stamp its size and mtime, new at every write.  An entry is [mark,       *)
(* nested, user, command, ok]: an owner marker on the group, one on a      *)
(* handler inside it, the user's handlers in it, the bridge command, and   *)
(* whether its schema is well formed.                                      *)
(***************************************************************************)
EXTENDS Naturals, Sequences, SequencesExt, FiniteSets

CONSTANTS Managers, Commands, HookEvents, InitialFiles, MaxSaves, MaxOps

VARIABLES manager, file, backups, work, saves, ops, lost, unsaved
hvars == <<manager, file, backups, work, saves, ops, lost, unsaved>>

(* No string: no command, no hash, no operation, no refusal.                *)
NoText == ""
Entry(user) == [mark |-> FALSE, nested |-> FALSE, user |-> user, command |-> NoText, ok |-> TRUE]
OwnedEntry(m, c) == [mark |-> TRUE, nested |-> m # "claude", user |-> {}, command |-> c, ok |-> TRUE]
Managed(m) == IF m = "claude" THEN {"PreToolUse"} ELSE HookEvents
NoEvents == [e \in HookEvents |-> [shape |-> "absent", entries |-> <<>>]]
Absent == [text |-> "absent", hooks |-> "absent", events |-> NoEvents, owner |-> FALSE, hash |-> NoText, stamp |-> 0]
EmptyRoot == [Absent EXCEPT !.text = "json"]
Content(f) == [f EXCEPT !.stamp = 0]
UserHooks(f) == UNION UNION {{x.user : x \in ToSet(f.events[e].entries)} : e \in HookEvents}

-----------------------------------------------------------------------------
(* What stands in a file the managers meet for the first time.  Only one    *)
(* that exists has a stamp, only a JSON object a hooks value, only a hooks  *)
(* object events, and only an event that is an array entries.  The commands *)
(* and hashes are those the managers write, and what stood there before.    *)
Written == Commands \union {NoText} \union {f.hash : f \in InitialFiles}
           \union UNION {{x.command : x \in UNION {ToSet(f.events[e].entries) : e \in HookEvents}} : f \in InitialFiles}
Groups == [mark : BOOLEAN, nested : BOOLEAN, user : SUBSET Nat, command : Written, ok : BOOLEAN]
Files == [text : {"absent", "link", "empty", "malformed", "json"}, hooks : {"absent", "object", "other"},
          events : [HookEvents -> [shape : {"absent", "array", "other"}, entries : Seq(Groups)]],
          owner : BOOLEAN, hash : Written, stamp : Nat]
Proper(f) == /\ f.text = "absent" => f = Absent
             /\ f.text # "absent" => f.stamp > 0
             /\ f.text # "json" => f.hooks = "absent"
             /\ \A e \in HookEvents : f.hooks # "object" \/ f.events[e].shape # "array" => f.events[e].entries = <<>>
ASSUME FileAssumption ==
  /\ Managers \subseteq {"claude", "codex", "grok"} /\ "PreToolUse" \in HookEvents
  /\ NoText \notin Commands
  /\ \A f \in InitialFiles : f \in Files /\ Proper(f) /\ f.stamp <= 1

-----------------------------------------------------------------------------
(* Claude claims an entry by the marker on the group only, Codex also by a  *)
(* marker on any handler inside it.                                         *)
IsOwned(m, x) == x.mark \/ (m = "codex" /\ x.nested)
DropOwned(m, entries) ==
  LET kept[n \in 0..Len(entries)] == IF n = 0 THEN <<>>
                                     ELSE IF IsOwned(m, entries[n]) THEN kept[n - 1]
                                     ELSE Append(kept[n - 1], entries[n])
  IN  kept[Len(entries)]
(* Where entries of ours stand.                                             *)
Owned(m, f, e) == {i \in DOMAIN f.events[e].entries : IsOwned(m, f.events[e].entries[i])}

RejectSymlink(f) == f.text = "link"
ParseRoot(m, f) == IF f.text = "empty" /\ m = "codex" THEN Absent
                   ELSE IF f.text \in {"absent", "empty"} THEN EmptyRoot
                   ELSE IF f.text = "malformed" THEN Absent
                   ELSE Content(f)
(* Claude fails closed on a hooks or PreToolUse value of another shape;     *)
(* Codex replaces a hooks value that is no object and an event no array.    *)
ShapeRefused(m, r) == m = "claude" /\ (r.hooks = "other" \/ r.events["PreToolUse"].shape = "other")
Entries(r, e) == IF r.hooks = "object" /\ r.events[e].shape = "array" THEN r.events[e].entries ELSE <<>>

Installed(m, r, c) ==
  [r EXCEPT !.hooks = "object",
            !.events = [e \in HookEvents |-> IF e \in Managed(m)
                                             THEN [shape |-> "array", entries |-> Append(DropOwned(m, Entries(r, e)), OwnedEntry(m, c))]
                                             ELSE @[e]],
            !.owner = (m = "codex") \/ @, !.hash = IF m = "codex" THEN c ELSE @]
NothingToRemove(m, r) == m = "claude" /\ (r.hooks = "absent" \/ r.events["PreToolUse"].shape = "absent")
(* Codex marshals an event left without groups as null.                     *)
Uninstalled(m, r) ==
  LET Left(e) == DropOwned(m, Entries(r, e))
      Shape(e) == IF Left(e) = <<>> /\ m = "codex" THEN "absent" ELSE "array"
  IN [r EXCEPT !.events = [e \in HookEvents |-> IF r.hooks = "object" /\ e \in Managed(m)
                                                THEN [shape |-> Shape(e), entries |-> Left(e)] ELSE @[e]],
               !.owner = @ /\ m # "codex", !.hash = IF m = "codex" THEN NoText ELSE @]
OwnedHooksDocument(c) == [Installed("grok", EmptyRoot, c) EXCEPT !.owner = TRUE, !.hash = c]

(* Doctor reads the file; it reports OK or not.                             *)
ValidOwned(m, x, c) == /\ x.ok /\ x.command # NoText
                       /\ m = "codex" => x.mark /\ x.command = c
ClaudeDoctor(f, c) ==
  LET r == ParseRoot("claude", f)
  IN /\ f.text \notin {"absent", "link"} /\ r # Absent /\ r.hooks = "object"
     /\ ~ShapeRefused("claude", r)
     /\ \E i \in Owned("claude", r, "PreToolUse") : ValidOwned("claude", r.events["PreToolUse"].entries[i], c)
CodexDoctor(f, c) ==
  LET r == ParseRoot("codex", f)
  IN /\ f.text \notin {"absent", "link"} /\ r # Absent /\ r.hooks = "object"
     /\ \A e \in HookEvents : \E i \in Owned("codex", r, e) : ValidOwned("codex", r.events[e].entries[i], c)
     /\ r.hash \in {NoText, c}
GrokDoctor(f, c) == f.text = "json" /\ f.owner /\ f.hash \in {NoText, c} /\ f.hooks = "object" /\ f.events["PreToolUse"].shape # "absent"
Doctor(m, f, c) == CASE m = "claude" -> ClaudeDoctor(f, c) [] m = "codex" -> CodexDoctor(f, c) [] OTHER -> GrokDoctor(f, c)

-----------------------------------------------------------------------------
(* One manager works at a time; work is its operation: what it does, the    *)
(* file as it read it, the document it will write, and two history flags:   *)
(* whether the user saved at all since the read, and whether in the time no *)
(* check covers.  Two more variables are history: lost, the user's hooks a  *)
(* manager took out of the file, and unsaved, those that stood in it when   *)
(* Grok's backup failed.                                                    *)
Idle == [pc |-> "idle", op |-> NoText, command |-> NoText, before |-> Absent, doc |-> Absent, saved |-> FALSE, late |-> FALSE]
HInit == /\ manager \in Managers /\ file \in InitialFiles /\ backups = <<>> /\ work = Idle
         /\ saves = 0 /\ ops = 0 /\ lost = {} /\ unsaved = {}

Answer(result) == [work EXCEPT !.pc = "done", !.op = IF result = "ok" THEN @ ELSE "failed"]
NoWrite(result) == work' = Answer(result) /\ UNCHANGED <<manager, file, backups, saves, ops, lost, unsaved>>

(* PlanInstall or validatePaths, then readState.                            *)
Start(op, c) == /\ work.pc \in {"idle", "done"} /\ ops < MaxOps /\ ops' = ops + 1
                /\ work' = [Idle EXCEPT !.pc = "read", !.op = op, !.command = c]
                /\ UNCHANGED <<manager, file, backups, saves, lost, unsaved>>

Plan(m, op, c, f) == LET r == ParseRoot(m, f) IN
  IF m = "grok" /\ op = "install" THEN [result |-> NoText, doc |-> OwnedHooksDocument(c)]
  ELSE IF m = "grok" THEN [result |-> IF f.text = "json" /\ f.owner THEN NoText ELSE IF f.text = "absent" THEN "ok" ELSE "refused", doc |-> Absent]
  ELSE IF op = "uninstall" /\ f.text = "absent" THEN [result |-> "ok", doc |-> Absent]
  ELSE IF r = Absent \/ ShapeRefused(m, r) THEN [result |-> "refused", doc |-> Absent]
  ELSE IF op = "uninstall" /\ NothingToRemove(m, r) THEN [result |-> "ok", doc |-> Absent]
  ELSE [result |-> NoText, doc |-> IF op = "install" THEN Installed(m, r, c) ELSE Uninstalled(m, r)]

Read == LET p == Plan(manager, work.op, work.command, file) IN
  /\ work.pc = "read"
  /\ \/ (RejectSymlink(file) \/ p.result = "refused") /\ NoWrite("refused")
     \/ ~RejectSymlink(file) /\ p.result = "ok" /\ NoWrite("ok")
     \/ /\ ~RejectSymlink(file) /\ p.result = NoText
        /\ work' = [work EXCEPT !.before = file, !.doc = p.doc, !.pc = IF manager = "grok" /\ work.op = "uninstall" THEN "rename" ELSE "backup"]
        /\ UNCHANGED <<manager, file, backups, saves, ops, lost, unsaved>>

(* Claude keeps the last two backups, Codex and Grok one per content; they  *)
(* take what the file holds now, not what was read.                         *)
Newest(bs) == SubSeq(bs, 1, IF bs = <<>> THEN 0 ELSE 1)
Kept(m, bs, f) == IF m = "claude" THEN <<f>> \o Newest(bs)
                  ELSE IF f \in ToSet(bs) THEN bs ELSE <<f>> \o bs
BackupIfExists ==
  /\ work.pc = "backup"
  /\ \/ manager = "claude" /\ RejectSymlink(file) /\ NoWrite("refused")
     \/ /\ ~(manager = "claude" /\ RejectSymlink(file))
        /\ backups' = IF file.text = "absent" THEN backups ELSE Kept(manager, backups, Content(file))
        /\ work' = [work EXCEPT !.pc = IF manager = "grok" THEN "rename" ELSE "check"]
        /\ UNCHANGED <<manager, file, saves, ops, lost, unsaved>>

(* The file cannot be read, or the copy not be written, or the manager dies *)
(* at it: Claude rotates before it writes, and a write cut short leaves a   *)
(* torn copy, over an earlier one of the same content if there is one.      *)
(* Claude and Codex give up; Grok ignores both errors and goes on.          *)
Torn == [Absent EXCEPT !.text = "malformed"]
LeftOf(m, bs, f) == IF m = "claude" THEN {bs, Newest(bs), <<Torn>> \o Newest(bs)}
                    ELSE {bs, [i \in DOMAIN bs |-> IF bs[i] = f THEN Torn ELSE bs[i]]}
BackupFails ==
  /\ work.pc = "backup" /\ file.text # "absent" /\ ~(manager = "claude" /\ RejectSymlink(file))
  /\ backups' \in LeftOf(manager, backups, Content(file))
  /\ \/ work' = Answer("failed")
     \/ manager = "grok" /\ work' = [work EXCEPT !.pc = "rename"]
  /\ unsaved' = unsaved \union IF manager = "grok" THEN UserHooks(file) ELSE {}
  /\ UNCHANGED <<manager, file, saves, ops, lost>>

(* Claude compares size and mtime with the read if the file existed then,   *)
(* Codex the bytes if there were any and the file can still be read.        *)
Unchanged_Never(m, before, f) == TRUE
Unchanged(m, before, f) == IF m = "claude" THEN before.text = "absent" \/ f.stamp = before.stamp
                           ELSE before.text = "absent" \/ f.text = "absent" \/ Content(f) = Content(before)
Check == /\ work.pc = "check"
         /\ \/ ~Unchanged(manager, work.before, file) /\ NoWrite("concurrent modification")
            \/ /\ Unchanged(manager, work.before, file)
               /\ work' = [work EXCEPT !.pc = "rename"] /\ UNCHANGED <<manager, file, backups, saves, ops, lost, unsaved>>

Replaced == LET now == IF work.doc.text = "absent" THEN Absent ELSE [work.doc EXCEPT !.stamp = saves + ops + 2]
                gone == UserHooks(file) \ UserHooks(now)
            IN /\ file' = now /\ work' = Answer("ok")
               /\ lost' = lost \union {[hook |-> h, op |-> work.op, late |-> work.late, before |-> work.before] : h \in gone}
               /\ UNCHANGED <<manager, backups, saves, ops, unsaved>>
(* Rename over the file; Grok's Uninstall removes it.                       *)
Rename == work.pc = "rename" /\ Replaced
(* The directory or the temporary file cannot be made or written, or the    *)
(* manager dies.                                                            *)
WriteFails == work.pc \in {"backup", "check", "rename"} /\ NoWrite("failed")

-----------------------------------------------------------------------------
(* The user, or the host, saves the file: with one more hook, without one,  *)
(* deleted, or written from scratch.  Each save is a new stamp.             *)
AddHook(f, h) == [ (IF f.text = "json" THEN f ELSE EmptyRoot) EXCEPT !.hooks = "object", !.stamp = saves + ops + 2,
                   !.events = [e \in HookEvents |-> [shape |-> "array", entries |-> Append(Entries(f, e), Entry({h}))]] ]
Uncovered == \/ work.pc = "rename"
             \/ work.pc \in {"backup", "check"} /\ (work.before.text = "absent" \/ manager = "grok")
Save == /\ file.text # "link" /\ saves < MaxSaves /\ saves' = saves + 1
        /\ \/ file' = AddHook(file, saves + 10)
           \/ file.text # "absent" /\ file' = Absent
           \/ file.text = "json" /\ file' = [EmptyRoot EXCEPT !.stamp = saves + ops + 2]
        /\ work' = [work EXCEPT !.saved = @ \/ work.pc # "idle", !.late = @ \/ Uncovered]
        /\ UNCHANGED <<manager, backups, ops, lost, unsaved>>

HNext == \/ \E op \in {"install", "uninstall"}, c \in Commands : Start(op, c)
         \/ Read \/ BackupIfExists \/ BackupFails \/ Check \/ Rename \/ WriteFails \/ Save

HSpec == HInit /\ [][HNext]_hvars

-----------------------------------------------------------------------------
Shared(l) == \E e \in HookEvents : \E x \in ToSet(l.before.events[e].entries) : l.hook \in x.user /\ IsOwned(manager, x)
Excused(l) == \/ l.late
              \/ manager # "grok" /\ Shared(l)
              \/ /\ manager = "grok"
                 /\ l.op = "uninstall" \/ l.hook \in unsaved \/ \E b \in ToSet(backups) : l.hook \in UserHooks(b)

(* A manager never takes a hook of the user's out of the file, unless the   *)
(* user saved it in the time between the change check and the rename (or    *)
(* while a file was first created), it shared a group with a marker of      *)
(* ours, or it stood in the file Grok's manager owns and removes, or        *)
(* overwrites: with a backup that still holds the hook, or without one when *)
(* the backup of a file with the hook failed, an error Grok's manager       *)
(* ignores.  And when an operation succeeded and nobody saved meanwhile,    *)
(* Install left exactly one owned entry per event that Doctor accepts for   *)
(* the same command, however often it ran, and Uninstall left none of ours  *)
(* and Doctor not OK (Install, Uninstall, writeAtomic).                     *)
InstallSound ==
  /\ \A l \in lost : Excused(l)
  /\ work.pc = "done" /\ ~work.saved /\ work.op \in {"install", "uninstall"} =>
       /\ Doctor(manager, file, work.command) <=> work.op = "install"
       /\ \A e \in Managed(manager) : Cardinality(Owned(manager, file, e)) = IF work.op = "install" THEN 1 ELSE 0
=============================================================================
