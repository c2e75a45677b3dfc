--------------------------- MODULE ManagedWorktree ---------------------------
(***************************************************************************)
(* Managed worktrees (pkg/workspace/managed.go): creation, adoption after  *)
(* a restart, clean-only checkpoints and hard-reset rollbacks, each a run  *)
(* of git commands between which the agent edits, commits and checks out.  *)
(*                                                                         *)
(* A commit is [n, marker]: the ownership marker is a tracked file, so a   *)
(* checkout or a reset changes it.  A tree is [place, marker, head, edits, *)
(* common]; an edit is [n, tracked], uncommitted.  A worktree record and a *)
(* checkpoint name a tree by its path, which is also its id: the path is   *)
(* the root joined with the id.                                            *)
(***************************************************************************)
EXTENDS Naturals, FiniteSets

CONSTANTS Paths, Outside, WorkSessions, MaxWork, MaxRequests

ASSUME PathAssumption == "" \notin Paths

VARIABLES trees, commits, held, store, sup, worked, asked, dropped, late
wvars == <<trees, commits, held, store, sup, worked, asked, dropped, late>>

NoMarker == [id |-> "", session |-> ""]
Base == [n |-> 0, marker |-> NoMarker]
NoTree == [exists |-> FALSE, marker |-> NoMarker, head |-> Base, edits |-> {}, common |-> ""]
UnderRoot(p) == p \in Paths
ReadMarker(p) == trees[p].marker
RequireClean(p) == trees[p].edits = {}

-----------------------------------------------------------------------------
(* What the supervisor holds are the records the registry handed out; its   *)
(* map of them is written and never read.                                   *)
Worktree(id, session, path, gen) == [id |-> id, session |-> session, path |-> path, common |-> trees[path].common, generation |-> gen]

(* git worktree add, marker, .gitignore, commit: a failure removes the tree *)
(* again, a crash leaves one without a marker or with an uncommitted one.   *)
CreateWorktree(s, p) ==
  LET marker == [id |-> p, session |-> s]
      made == [n |-> Cardinality(commits), marker |-> marker]
      tree == [NoTree EXCEPT !.exists = TRUE, !.common = "repo"]
  IN /\ sup.pc = "idle" /\ s # "" /\ UnderRoot(p) /\ ~trees[p].exists /\ asked < MaxRequests /\ asked' = asked + 1
     /\ \/ /\ trees' = [trees EXCEPT ![p] = [tree EXCEPT !.marker = marker, !.head = made]]
           /\ commits' = commits \union {made}
           /\ held' = held \union {[id |-> p, session |-> s, path |-> p, common |-> "repo", generation |-> 1]}
        \/ UNCHANGED <<trees, commits, held>>
        \/ /\ \/ trees' = [trees EXCEPT ![p] = tree]
              \/ trees' = [trees EXCEPT ![p] = [tree EXCEPT !.marker = marker, !.edits = {[n |-> 0, tracked |-> FALSE]}]]
           /\ held' = {} /\ UNCHANGED commits
     /\ UNCHANGED <<store, sup, worked, dropped, late>>

AdoptedGeneration == 1
AdoptExisting(s, p) ==
  LET m == ReadMarker(p)
  IN /\ sup.pc = "idle" /\ trees[p].exists /\ asked < MaxRequests /\ asked' = asked + 1
     /\ held' = IF UnderRoot(p) /\ m # NoMarker /\ (m.session = "" \/ s = "" \/ m.session = s)
                THEN held \union {Worktree(m.id, s, p, AdoptedGeneration)} ELSE held
     /\ UNCHANGED <<trees, commits, store, sup, worked, dropped, late>>

-----------------------------------------------------------------------------
(* Checkpoint and Rollback, one git command a step.                         *)
NoRecord == [id |-> 0, session |-> "", worktree |-> "", generation |-> 0, common |-> "", path |-> "", head |-> Base]
Quiet == [pc |-> "idle", op |-> "", wt |-> [id |-> ""], rec |-> NoRecord, result |-> "", seen |-> NoTree]
Path == sup.wt.path
Reply(result) == sup' = [sup EXCEPT !.pc = "idle", !.result = result, !.seen = trees[Path]]
Goto(pc) == sup' = [sup EXCEPT !.pc = pc]
Rest == UNCHANGED <<trees, commits, held, store, worked, asked, dropped, late>>

Request(op, wt, rec) == /\ sup.pc = "idle" /\ asked < MaxRequests /\ asked' = asked + 1
                        /\ sup' = [Quiet EXCEPT !.pc = "validate", !.op = op, !.wt = wt, !.rec = rec]
                        /\ UNCHANGED <<trees, commits, held, store, worked, dropped, late>>

ValidateOwned(wt) == /\ UnderRoot(wt.path) /\ trees[wt.path].exists
                     /\ wt.id # "" /\ ReadMarker(wt.path).id = wt.id
                     /\ wt.session # "" /\ ReadMarker(wt.path).session = wt.session
RecordMatches(wt, rec) == /\ rec.worktree = wt.id
                          /\ rec.session # "" /\ rec.session = wt.session
                          /\ rec.generation = 0 \/ wt.generation = 0 \/ rec.generation = wt.generation
                          /\ trees[wt.path].common = rec.common \/ rec.common = ""
Validate == /\ sup.pc = "validate" /\ Rest
            /\ IF ValidateOwned(sup.wt) /\ (sup.op = "rollback" => RecordMatches(sup.wt, sup.rec))
               THEN Goto("clean") ELSE Reply("rejected")
CleanCheck_Skipped == sup.pc = "clean" /\ Rest /\ Goto(IF sup.op = "rollback" THEN "reset" ELSE "record")
CleanCheck == /\ sup.pc = "clean" /\ Rest
              /\ IF RequireClean(Path) THEN Goto(IF sup.op = "rollback" THEN "reset" ELSE "record") ELSE Reply("rejected")

(* rev-parse HEAD, then the record in the private store; the write may fail.*)
Record == LET wt == sup.wt
              rec == [id |-> Cardinality(store) + 1, session |-> wt.session, worktree |-> wt.id, generation |-> wt.generation,
                      common |-> wt.common, path |-> wt.path, head |-> trees[Path].head]
          IN /\ sup.pc = "record"
             /\ \/ store' = store \union {rec} /\ Reply("checkpointed")
                \/ UNCHANGED store /\ Reply("git failed")
             /\ UNCHANGED <<trees, commits, held, worked, asked, dropped, late>>

(* reset --hard to a commit that must exist: the tracked edits are gone,    *)
(* untracked files stay.                                                    *)
Reset == /\ sup.pc = "reset"
         /\ \/ /\ sup.rec.head \in commits
               /\ LET gone == {e \in trees[Path].edits : e.tracked}
                  IN /\ trees' = [trees EXCEPT ![Path].head = sup.rec.head, ![Path].marker = sup.rec.head.marker, ![Path].edits = @ \ gone]
                     /\ dropped' = dropped \union gone
               /\ Goto("verify")
            \/ Reply("git failed") /\ UNCHANGED <<trees, dropped>>
         /\ UNCHANGED <<commits, held, store, worked, asked, late>>
Verify == /\ sup.pc = "verify" /\ Rest
          /\ Reply(IF trees[Path].head = sup.rec.head THEN "success" ELSE "verification failed")

(* The supervisor dies: the records it held are gone, store and trees stay. *)
Crash == /\ held # {} /\ held' = {} /\ sup' = Quiet
         /\ UNCHANGED <<trees, commits, store, worked, asked, dropped, late>>

-----------------------------------------------------------------------------
(* The agent in tree p.                                                     *)
Busy(p) == sup.op = "rollback" /\ sup.pc = "reset" /\ Path = p
Work(p) == trees[p].exists /\ worked < MaxWork /\ worked' = worked + 1 /\ UNCHANGED <<held, store, sup, asked, dropped>>
Edit(p) == \E tracked \in BOOLEAN :
  LET e == [n |-> worked + 1, tracked |-> tracked]
  IN /\ Work(p) /\ trees' = [trees EXCEPT ![p].edits = @ \union {e}]
     /\ late' = IF Busy(p) THEN late \union {e} ELSE late
     /\ UNCHANGED commits
CommitAll(p) == LET made == [n |-> Cardinality(commits), marker |-> trees[p].marker]
             IN /\ Work(p) /\ trees[p].edits # {} /\ commits' = commits \union {made}
                /\ trees' = [trees EXCEPT ![p].edits = {}, ![p].head = made] /\ UNCHANGED late
Checkout(p) == \E c \in commits \ {trees[p].head} :
  /\ Work(p) /\ RequireClean(p) /\ trees' = [trees EXCEPT ![p].head = c, ![p].marker = c.marker] /\ UNCHANGED <<commits, late>>

WInit == /\ trees = [p \in Paths \union Outside |-> IF p \in Paths THEN NoTree ELSE [NoTree EXCEPT !.exists = TRUE, !.common = "repo"]]
         /\ commits = {Base} /\ held = {} /\ store = {} /\ sup = Quiet /\ worked = 0 /\ asked = 0 /\ dropped = {} /\ late = {}

WNext == \/ \E s \in WorkSessions, p \in Paths : CreateWorktree(s, p)
         \/ \E s \in WorkSessions, p \in Paths \union Outside : AdoptExisting(s, p)
         \/ \E wt \in held : Request("checkpoint", wt, NoRecord) \/ \E rec \in store : Request("rollback", wt, rec)
         \/ Validate \/ CleanCheck \/ Record \/ Reset \/ Verify \/ Crash
         \/ \E p \in Paths \union Outside : Edit(p) \/ CommitAll(p) \/ Checkout(p)

WSpec == WInit /\ [][WNext]_wvars

-----------------------------------------------------------------------------

(* A rollback destroys no uncommitted work except edits made after its own  *)
(* clean check, in the time before the reset, and what it answers is true:  *)
(* on success the tree stood at the checkpoint's commit, and a record that  *)
(* its own session made of this tree is refused only if the tree was dirty  *)
(* or no longer carried the marker, also after a crash, adoption and a      *)
(* reload of the record (Rollback, AdoptExisting, LoadCheckpoint).          *)
RollbackSound ==
  /\ dropped \subseteq late
  /\ sup.pc = "idle" /\ sup.op = "rollback" =>
       /\ sup.result = "success" => sup.seen.head = sup.rec.head
       /\ sup.result = "rejected" /\ sup.rec.session = sup.wt.session /\ sup.rec.path = sup.wt.path /\ sup.rec.worktree = sup.wt.id =>
            sup.seen.edits # {} \/ sup.seen.marker # [id |-> sup.rec.worktree, session |-> sup.rec.session]
=============================================================================
