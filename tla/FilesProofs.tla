----------------------------- MODULE FilesProofs -----------------------------
(***************************************************************************)
(* TLAPS proofs about the managed worktrees, the Codex threads and items,  *)
(* the router, the model catalog and the hook files, each for any sets of  *)
(* its constants.                                                          *)
(***************************************************************************)
EXTENDS ModelCatalog, CodexThreads, HookFiles, ManagedWorktree,
        FiniteSetTheorems, WellFoundedInduction, TLAPS

-----------------------------------------------------------------------------
(* The least of a set of numbers, from the library's well-founded minimum:  *)
(* what an induction over a concrete predicate needs.                       *)

Less == {ss \in Nat \X Nat : ss[1] < ss[2]}

LEMMA LeastOf ==
  ASSUME NEW T, T \subseteq Nat, T # {}
  PROVE  \E x \in T : \A y \in T : x <= y
<1>1. IsWellFoundedOn(Less, Nat)
  BY NatLessThanWellFounded DEF OpToRel, Less
<1>2. PICK x \in T : \A y \in T : <<y, x>> \notin Less
  BY <1>1, WFMin
<1>3. \A y \in T : ~(y < x)
  BY <1>2 DEF Less
<1> QED
  BY <1>3

\* Induction, over the set of the numbers a predicate holds for.
LEMMA SetInduction ==
  ASSUME NEW T, 0 \in T, \A n \in Nat : n \in T => n + 1 \in T
  PROVE  \A n \in Nat : n \in T
<1> SUFFICES ASSUME Nat \ T # {} PROVE FALSE
  OBVIOUS
<1>1. PICK x \in Nat \ T : \A y \in Nat \ T : x <= y
  BY LeastOf
<1>2. x - 1 \in Nat /\ x - 1 \in T
  BY <1>1
<1> QED
  BY <1>1, <1>2

\* A start and a step function define a function on the numbers.
Follows(g, S, b, step) == g \in [Nat -> S] /\ g[0] = b /\ \A n \in Nat : g[n + 1] = step[<<n, g[n]>>]

LEMMA RecursionExists ==
  ASSUME NEW S, NEW b \in S, NEW step \in [Nat \X S -> S]
  PROVE  \E g : Follows(g, S, b, step)
<1> DEFINE Run(h, k) == h \in [0..k -> S] /\ h[0] = b /\ \A n \in 0..(k - 1) : h[n + 1] = step[<<n, h[n]>>]
<1>1. \A k \in Nat : \E h : Run(h, k)
  <2> DEFINE T == {k \in Nat : \E h : Run(h, k)}
  <2>1. 0 \in T
    <3>1. Run([n \in 0..0 |-> b], 0)
      OBVIOUS
    <3> QED
      BY <3>1
  <2>2. ASSUME NEW k \in Nat, k \in T PROVE k + 1 \in T
    <3>1. PICK h : Run(h, k)
      BY <2>2
    <3>2. /\ \A n \in Nat : n <= k => h[n] \in S
          /\ h[0] = b /\ \A n \in Nat : n + 1 <= k => h[n + 1] = step[<<n, h[n]>>]
      BY <3>1
    <3> DEFINE h1 == [n \in 0..(k + 1) |-> IF n <= k THEN h[n] ELSE step[<<k, h[k]>>]]
    <3>3. step[<<k, h[k]>>] \in S
      BY <3>2
    <3>4. h1 \in [0..(k + 1) -> S]
      BY <3>2, <3>3
    <3>5. \A n \in Nat : n <= k => h1[n] = h[n]
      OBVIOUS
    <3>6. h1[k + 1] = step[<<k, h[k]>>]
      OBVIOUS
    <3> HIDE DEF h1
    <3>7. \A n \in 0..k : h1[n + 1] = step[<<n, h1[n]>>]
      <4> TAKE n \in 0..k
      <4>1. h1[n] = h[n]
        BY <3>5
      <4>2. CASE n = k
        BY <3>6, <4>1, <4>2
      <4>3. CASE n # k
        <5>1. n \in Nat /\ n + 1 \in Nat /\ n + 1 <= k
          BY <4>3
        <5> QED
          BY ONLY <3>2, <3>5, <4>1, <5>1
      <4> QED
        BY <4>2, <4>3
    <3>8. h1[0] = b
      BY <3>2, <3>5
    <3>9. Run(h1, k + 1)
      BY <3>4, <3>7, <3>8
    <3> QED
      BY <3>9
  <2> HIDE DEF T
  <2>3. \A k \in Nat : k \in T
    BY <2>1, <2>2, SetInduction
  <2> QED
    BY <2>3 DEF T
<1>2. ASSUME NEW i \in Nat, NEW j \in Nat, i <= j, NEW h, Run(h, i), NEW f, Run(f, j) PROVE h[i] = f[i]
  <2> DEFINE T == {k \in Nat : k <= i => h[k] = f[k]}
  <2>1. 0 \in T
    BY <1>2
  <2>2. ASSUME NEW k \in Nat, k \in T PROVE k + 1 \in T
    <3> SUFFICES ASSUME k + 1 <= i PROVE h[k + 1] = f[k + 1]
      OBVIOUS
    <3>1. h[k] = f[k] /\ k \in 0..(i - 1) /\ k \in 0..(j - 1)
      BY <1>2, <2>2
    <3>2. h[k + 1] = step[<<k, h[k]>>] /\ f[k + 1] = step[<<k, f[k]>>]
      BY <1>2, <3>1
    <3> QED
      BY <3>1, <3>2
  <2> HIDE DEF T
  <2>3. \A k \in Nat : k \in T
    BY <2>1, <2>2, SetInduction
  <2> QED
    BY <2>3 DEF T
<1> DEFINE H(k) == CHOOSE h : Run(h, k)
           g == [n \in Nat |-> H(n)[n]]
<1> HIDE DEF Run
<1>3. \A k \in Nat : Run(H(k), k)
  BY <1>1
<1> HIDE DEF H
<1>4. \A n \in Nat : g[n] = H(n)[n]
  OBVIOUS
<1>5. \A k \in Nat : H(k)[k] \in S /\ H(k)[0] = b
  BY <1>3 DEF Run
<1>6. g \in [Nat -> S]
  BY <1>5
<1> HIDE DEF g
<1>7. ASSUME NEW n \in Nat PROVE g[n + 1] = step[<<n, g[n]>>]
  <2>1. Run(H(n), n) /\ Run(H(n + 1), n + 1) /\ n <= n + 1
    BY <1>3
  <2>2. H(n)[n] = H(n + 1)[n]
    BY <1>2, <2>1
  <2>3. H(n + 1)[n + 1] = step[<<n, H(n + 1)[n]>>]
    BY <2>1 DEF Run
  <2> QED
    BY <1>4, <2>2, <2>3
<1>8. g[0] = b
  BY <1>4, <1>5
<1> QED
  BY <1>6, <1>7, <1>8 DEF Follows

-----------------------------------------------------------------------------
(* Managed worktrees                                                        *)

Places == Paths \union Outside
Commons == {"", "repo"}
Named == WorkSessions \ {""}
Markers == {NoMarker} \union [id : Paths, session : Named]
Commits == [n : Nat, marker : Markers]
Trees == [exists : BOOLEAN, marker : Markers, head : Commits, edits : SUBSET [n : Nat, tracked : BOOLEAN],
          common : Commons]
Worktrees == [id : Paths, session : WorkSessions, path : Paths, common : {"repo"}, generation : {1}]
Checkpoints == [id : Nat, session : Named, worktree : Paths, generation : {1}, common : {"repo"},
                path : Paths, head : Commits]
Results == {"rejected", "checkpointed", "git failed", "success", "verification failed"}
Sups == [pc : {"idle", "validate", "clean", "record", "reset", "verify"}, op : {"", "checkpoint", "rollback"},
         wt : Worktrees \union {[id |-> ""]}, rec : Checkpoints \union {NoRecord},
         result : Results \union {""}, seen : Trees]

WorkTypes == /\ trees \in [Places -> Trees] /\ commits \in SUBSET Commits /\ IsFiniteSet(commits) /\ held \in SUBSET Worktrees
             /\ store \in SUBSET Checkpoints /\ IsFiniteSet(store) /\ sup \in Sups /\ worked \in Nat

\* A record the supervisor holds, or works with, is of a tree that exists: a
\* tree once made by git is never removed.
TreesExist == /\ \A p \in Paths : trees[p].exists => trees[p].common = "repo"
              /\ \A wt \in held : trees[wt.path].exists
              /\ sup.op # "" => sup.wt \in Worktrees /\ trees[sup.wt.path].exists
SupWorks == /\ sup.pc # "idle" => sup.op # ""
            /\ sup.op = "rollback" => sup.rec \in Checkpoints
            /\ sup.pc \in {"clean", "record"} => sup.wt.session # ""
            /\ sup.pc \in {"reset", "verify"} => sup.op = "rollback"
            /\ sup.pc = "record" => sup.op = "checkpoint"

\* What the supervisor u last answered is true of the tree it had seen.
Truthful(u) ==
  u.pc = "idle" /\ u.op = "rollback" =>
    /\ u.result = "success" => u.seen.head = u.rec.head
    /\ u.result = "rejected" /\ u.rec.session = u.wt.session /\ u.rec.path = u.wt.path /\ u.rec.worktree = u.wt.id =>
         u.seen.edits # {} \/ u.seen.marker # [id |-> u.rec.worktree, session |-> u.rec.session]

\* Whatever is uncommitted in the tree about to be reset came after its clean check.
WorkInv == WorkTypes /\ TreesExist /\ SupWorks /\ dropped \subseteq late /\ Truthful(sup)
           /\ (sup.pc = "reset" => trees[sup.wt.path].edits \subseteq late)

LEMMA WorkConstants ==
  /\ NoMarker \in Markers /\ Base \in Commits /\ NoTree \in Trees
  /\ \A t \in Trees : [Quiet EXCEPT !.seen = t] \in Sups
  /\ Quiet \in Sups /\ Quiet.pc = "idle" /\ Quiet.op = "" /\ Quiet.result = ""
<1>1. NoMarker \in Markers
  BY DEF Markers
<1>2. Base \in Commits
  BY <1>1 DEF Base, Commits
<1>3. NoTree \in Trees
  BY <1>1, <1>2 DEF NoTree, Trees, Commons
<1> QED
  BY <1>1, <1>2, <1>3 DEF Quiet, Sups

LEMMA WorkInit ==
  ASSUME WInit
  PROVE  WorkInv
<1> DEFINE Made(p) == IF p \in Paths THEN NoTree ELSE [NoTree EXCEPT !.exists = TRUE, !.common = "repo"]
<1>1. \A p \in Places : Made(p) \in Trees /\ (p \in Paths => ~Made(p).exists)
  <2>1. "repo" \in Commons
    BY DEF Commons
  <2>2. PICK t \in Trees : t = NoTree
    BY WorkConstants
  <2>3. [t EXCEPT !.exists = TRUE, !.common = "repo"] \in Trees
    BY <2>1, <2>2 DEF Trees
  <2>4. ~NoTree.exists
    BY Zenon DEF NoTree
  <2> QED
    BY <2>2, <2>3, <2>4
<1>2. trees = [p \in Places |-> Made(p)]
  BY DEF WInit, Places
<1>3. IsFiniteSet(commits) /\ IsFiniteSet(store)
  BY FS_Singleton, FS_EmptySet DEF WInit
<1>4. WorkTypes
  BY <1>1, <1>2, <1>3, WorkConstants DEF WInit, WorkTypes
<1>5. TreesExist
  BY <1>1, <1>2, WorkConstants DEF WInit, TreesExist, Places
<1> QED
  BY <1>4, <1>5, WorkConstants DEF WInit, WorkInv, SupWorks, Truthful
LEMMA CreateKeeps ==
  ASSUME WorkInv, NEW s \in WorkSessions, NEW p \in Paths, CreateWorktree(s, p)
  PROVE  WorkInv'
<1> DEFINE marker == [id |-> p, session |-> s]
           made == [n |-> Cardinality(commits), marker |-> marker]
           tree == [NoTree EXCEPT !.exists = TRUE, !.common = "repo"]
           t1 == [tree EXCEPT !.marker = marker, !.head = made]
           t2 == [tree EXCEPT !.marker = marker, !.edits = {[n |-> 0, tracked |-> FALSE]}]
           wt == [id |-> p, session |-> s, path |-> p, common |-> "repo", generation |-> 1]
<1>1. /\ sup.pc = "idle" /\ s # "" /\ ~trees[p].exists /\ UNCHANGED <<store, sup, worked, dropped, late>>
      /\ p \in Places /\ p # ""
  BY PathAssumption DEF CreateWorktree, Places
<1>2. marker \in Markers /\ Cardinality(commits) \in Nat
  <2>1. s \in Named
    BY ZenonT(20), <1>1 DEF Named
  <2> QED
    BY <2>1, FS_CardinalityType DEF Markers, WorkInv, WorkTypes
<1>3. made \in Commits
  BY <1>2 DEF Commits
<1>4. tree \in Trees /\ tree.exists /\ tree.common = "repo"
  <2>1. "repo" \in Commons
    BY DEF Commons
  <2>2. PICK t \in Trees : t = NoTree
    BY WorkConstants
  <2>3. [t EXCEPT !.exists = TRUE, !.common = "repo"] \in Trees
    BY <2>1 DEF Trees
  <2>4. [t EXCEPT !.exists = TRUE, !.common = "repo"].exists /\ [t EXCEPT !.exists = TRUE, !.common = "repo"].common = "repo"
    BY DEF Trees
  <2> QED
    BY <2>2, <2>3, <2>4
<1>5. t1 \in Trees /\ t1.exists /\ t1.common = "repo" /\ t2 \in Trees /\ t2.exists /\ t2.common = "repo"
  <2>1. PICK t \in Trees : t = tree /\ t.exists /\ t.common = "repo"
    BY <1>4
  <2>2. PICK mk, c, e : mk = marker /\ c = made /\ e = {[n |-> 0, tracked |-> FALSE]}
    OBVIOUS
  <2>3. e \in SUBSET [n : Nat, tracked : BOOLEAN] /\ mk \in Markers /\ c \in Commits
    BY <1>2, <1>3, <2>2
  <2>4. [t EXCEPT !.marker = mk, !.head = c] \in Trees /\ [t EXCEPT !.marker = mk, !.edits = e] \in Trees
    BY <2>3 DEF Trees
  <2>5. /\ [t EXCEPT !.marker = mk, !.head = c].exists /\ [t EXCEPT !.marker = mk, !.head = c].common = "repo"
        /\ [t EXCEPT !.marker = mk, !.edits = e].exists /\ [t EXCEPT !.marker = mk, !.edits = e].common = "repo"
    BY <2>1 DEF Trees
  <2> QED
    BY <2>1, <2>2, <2>4, <2>5
<1>6. wt \in Worktrees /\ wt.path = p
  BY DEF Worktrees
<1>7. /\ trees' = trees \/ \E t \in {tree, t1, t2} : trees' = [trees EXCEPT ![p] = t]
      /\ held' \subseteq held \/ (held' = held \union {wt} /\ trees' = [trees EXCEPT ![p] = t1])
      /\ commits' \in {commits, commits \union {made}}
  BY DEF CreateWorktree
<1>8. trees' = trees \/ \E t \in Trees : t.exists /\ t.common = "repo" /\ trees' = [trees EXCEPT ![p] = t]
  BY <1>4, <1>5, <1>7
<1>9. /\ trees' \in [Places -> Trees] /\ \A q \in Paths : trees'[q].exists => trees'[q].common = "repo"
      /\ \A q \in Paths : trees[q].exists => trees'[q] = trees[q]
  BY <1>1, <1>8 DEF WorkInv, WorkTypes, TreesExist, Places
<1>10. held' \in SUBSET Worktrees /\ \A w \in held' : trees'[w.path].exists
  <2>1. CASE held' \subseteq held
    BY <2>1, <1>9 DEF WorkInv, WorkTypes, TreesExist, Worktrees
  <2>2. CASE held' = held \union {wt} /\ trees' = [trees EXCEPT ![p] = t1]
    <3>1. trees'[wt.path].exists
      BY <2>2, <1>1, <1>5, <1>6 DEF WorkInv, WorkTypes
    <3>2. \A w \in held : w \in Worktrees /\ trees'[w.path].exists
      BY <1>9 DEF WorkInv, WorkTypes, TreesExist, Worktrees
    <3> QED
      BY <2>2, <3>1, <3>2, <1>6
  <2> QED
    BY <2>1, <2>2, <1>7
<1>11. commits' \in SUBSET Commits /\ IsFiniteSet(commits')
  <2>1. commits \in SUBSET Commits /\ IsFiniteSet(commits)
    BY DEF WorkInv, WorkTypes
  <2>2. IsFiniteSet(commits \union {made})
    BY <2>1, FS_AddElement
  <2> HIDE DEF made
  <2> QED
    BY <2>1, <2>2, <1>3, <1>7
<1>12. WorkTypes'
  BY <1>1, <1>9, <1>10, <1>11 DEF WorkInv, WorkTypes
<1>13. TreesExist'
  BY <1>1, <1>9, <1>10 DEF WorkInv, TreesExist, Worktrees
<1> QED
  BY <1>1, <1>12, <1>13 DEF WorkInv, SupWorks, Truthful

LEMMA AdoptKeeps ==
  ASSUME WorkInv, NEW s \in WorkSessions, NEW p \in Places, AdoptExisting(s, p)
  PROVE  WorkInv'
<1> DEFINE m == ReadMarker(p)
           wt == [id |-> m.id, session |-> s, path |-> p, common |-> trees[p].common, generation |-> 1]
<1>1. /\ trees[p].exists /\ UNCHANGED <<trees, commits, store, sup, worked, dropped, late>>
      /\ held' = IF UnderRoot(p) /\ m # NoMarker /\ (m.session = "" \/ s = "" \/ m.session = s)
                 THEN held \union {wt} ELSE held
  BY DEF AdoptExisting, AdoptedGeneration, Worktree
<1>2. ASSUME UnderRoot(p), m # NoMarker PROVE wt \in Worktrees /\ trees[wt.path].exists
  <2>1. m \in Markers
    BY DEF ReadMarker, WorkInv, WorkTypes, Trees
  <2>2. m.id \in Paths
    BY <2>1, <1>2 DEF Markers
  <2>3. trees[p].common = "repo" /\ p \in Paths
    BY <1>1, <1>2 DEF UnderRoot, WorkInv, TreesExist
  <2> QED
    BY <1>1, <2>2, <2>3 DEF Worktrees
<1>3. held' \in SUBSET Worktrees /\ \A w \in held' : trees[w.path].exists
  BY <1>1, <1>2 DEF WorkInv, WorkTypes, TreesExist
<1> QED
  BY <1>1, <1>3 DEF WorkInv, WorkTypes, TreesExist, SupWorks, Truthful

\* The tree an operation works on.
LEMMA SupTree ==
  ASSUME WorkInv, sup.op # ""
  PROVE  sup \in Sups /\ sup.wt \in Worktrees /\ Path \in Paths /\ Path \in Places /\ trees[Path] \in Trees
<1>1. sup.wt \in Worktrees
  BY DEF WorkInv, TreesExist
<1>2. Path \in Paths /\ Path \in Places
  BY <1>1 DEF Path, Worktrees, Places
<1>3. trees[Path] \in Trees
  BY <1>2 DEF WorkInv, WorkTypes
<1> QED
  BY <1>1, <1>2, <1>3 DEF WorkInv, WorkTypes

LEMMA RequestKeeps ==
  ASSUME WorkInv, NEW wt \in held, NEW rec,
         \/ Request("checkpoint", wt, NoRecord)
         \/ rec \in store /\ Request("rollback", wt, rec)
  PROVE  WorkInv'
<1>1. wt \in Worktrees /\ trees[wt.path].exists /\ (rec \in store => rec \in Checkpoints)
  BY DEF WorkInv, WorkTypes, TreesExist
<1>2. UNCHANGED <<trees, commits, held, store, worked, dropped, late>>
  BY DEF Request
<1>3. /\ sup' \in Sups /\ sup'.pc = "validate" /\ sup'.wt = wt /\ sup'.op \in {"checkpoint", "rollback"}
      /\ sup'.op = "rollback" => sup'.rec \in Checkpoints
  <2>1. CASE Request("checkpoint", wt, NoRecord)
    BY <1>1, <2>1, WorkConstants DEF Request, Quiet, Sups
  <2>2. CASE rec \in store /\ Request("rollback", wt, rec)
    BY <1>1, <2>2, WorkConstants DEF Request, Quiet, Sups
  <2> QED
    BY <2>1, <2>2
<1> QED
  BY <1>1, <1>2, <1>3 DEF WorkInv, WorkTypes, TreesExist, SupWorks, Truthful

\* A step that only moves the supervisor on.
LEMMA MoveKeeps ==
  ASSUME WorkInv, sup.op # "", NEW pc \in {"clean", "record", "reset", "verify"}, Goto(pc),
         UNCHANGED <<commits, held, store, worked, asked, late>>,
         trees' \in [Places -> Trees], \A p \in Paths : trees'[p].exists = trees[p].exists /\ trees'[p].common = trees[p].common,
         dropped' \subseteq late,
         pc \in {"clean", "record"} => sup.wt.session # "",
         pc \in {"reset", "verify"} => sup.op = "rollback",
         pc = "record" => sup.op = "checkpoint",
         pc = "reset" => trees'[sup.wt.path].edits \subseteq late
  PROVE  WorkInv'
<1>1. /\ sup' \in Sups /\ sup'.pc = pc /\ sup'.op = sup.op /\ sup'.wt = sup.wt /\ sup'.rec = sup.rec
  <2>1. sup \in Sups
    BY SupTree
  <2>2. PICK u, v : u = sup /\ v = sup'
    OBVIOUS
  <2>3. v = [u EXCEPT !.pc = pc]
    BY <2>2 DEF Goto
  <2> QED
    BY ONLY <2>1, <2>2, <2>3, pc \in {"clean", "record", "reset", "verify"}, ZenonT(60) DEF Sups
<1>2. WorkTypes'
  BY <1>1 DEF WorkInv, WorkTypes
<1>3. TreesExist'
  BY <1>1, <1>2, ZenonT(60) DEF WorkInv, WorkTypes, TreesExist, Worktrees
<1>4. SupWorks'
  BY <1>1 DEF WorkInv, SupWorks
<1>5. dropped' \subseteq late' /\ Truthful(sup')
  BY <1>1 DEF Truthful
<1>6. sup'.pc = "reset" => trees'[sup'.wt.path].edits \subseteq late'
  BY <1>1
<1> QED
  BY <1>2, <1>3, <1>4, <1>5, <1>6 DEF WorkInv

\* A step that answers the request.
LEMMA ReplyKeeps ==
  ASSUME WorkInv, sup.op # "",
         NEW result \in Results, Reply(result),
         UNCHANGED <<trees, commits, held, worked, asked, dropped, late>>,
         store' \in SUBSET Checkpoints, IsFiniteSet(store'),
         result = "success" => trees[Path].head = sup.rec.head,
         result = "rejected" /\ sup.op = "rollback" =>
           (/\ sup.rec.session = sup.wt.session /\ sup.rec.path = sup.wt.path /\ sup.rec.worktree = sup.wt.id
            => \/ trees[Path].edits # {} \/ trees[Path].marker # [id |-> sup.rec.worktree, session |-> sup.rec.session])
  PROVE  WorkInv'
<1>1. /\ sup' \in Sups /\ sup'.pc = "idle" /\ sup'.op = sup.op /\ sup'.wt = sup.wt /\ sup'.rec = sup.rec
      /\ sup'.result = result /\ sup'.seen = trees[Path]
  <2>1. sup \in Sups /\ trees[Path] \in Trees
    BY SupTree
  <2>2. PICK u, v, t : u = sup /\ v = sup' /\ t = trees[Path]
    OBVIOUS
  <2>3. v = [u EXCEPT !.pc = "idle", !.result = result, !.seen = t]
    BY <2>2 DEF Reply
  <2>4. u \in Sups /\ t \in Trees /\ result \in Results
    BY ONLY <2>1, <2>2, result \in Results
  <2>5. /\ v \in Sups /\ v.pc = "idle" /\ v.op = u.op /\ v.wt = u.wt /\ v.rec = u.rec
        /\ v.result = result /\ v.seen = t
    BY ONLY <2>3, <2>4 DEF Sups, Results
  <2> QED
    BY ONLY <2>2, <2>5
<1>2. WorkTypes'
  BY <1>1 DEF WorkInv, WorkTypes
<1>3. TreesExist' /\ SupWorks'
  BY <1>1 DEF WorkInv, TreesExist, SupWorks
<1>4. dropped' \subseteq late' /\ Truthful(sup')
  BY <1>1 DEF Truthful, WorkInv
<1> QED
  BY <1>1, <1>2, <1>3, <1>4 DEF WorkInv

LEMMA ValidateKeeps ==
  ASSUME WorkInv, Validate
  PROVE  WorkInv'
<1> DEFINE ok == ValidateOwned(sup.wt) /\ (sup.op = "rollback" => RecordMatches(sup.wt, sup.rec))
<1>1. sup.pc = "validate" /\ sup.op # "" /\ UNCHANGED <<trees, commits, held, store, worked, asked, dropped, late>>
  BY DEF Validate, Rest, WorkInv, SupWorks
<1>2. dropped \subseteq late /\ store \in SUBSET Checkpoints /\ IsFiniteSet(store) /\ trees \in [Places -> Trees]
  BY DEF WorkInv, WorkTypes
<1>3. CASE ok
  <2>1. Goto("clean") /\ sup.wt.session # ""
    BY <1>3 DEF Validate, ValidateOwned
  <2> QED
    BY <1>1, <1>2, <2>1, MoveKeeps
<1>4. CASE ~ok
  <2>1. Reply("rejected")
    BY <1>4 DEF Validate
  <2>2. ASSUME sup.op = "rollback", sup.rec.session = sup.wt.session, sup.rec.worktree = sup.wt.id,
               trees[Path].marker = [id |-> sup.rec.worktree, session |-> sup.rec.session]
        PROVE  FALSE
    <3>1. sup.wt \in Worktrees /\ sup.rec \in Checkpoints /\ trees[sup.wt.path].exists
      BY <1>1, <2>2 DEF WorkInv, TreesExist, SupWorks
    <3>2. /\ sup.wt.path \in Paths /\ sup.wt.id # "" /\ sup.rec.session # "" /\ sup.rec.generation = 1
          /\ sup.wt.generation = 1 /\ sup.rec.common = "repo"
      <4>1. sup.wt.path \in Paths /\ sup.wt.id \in Paths /\ sup.rec.session \in Named
        BY ONLY <3>1 DEF Worktrees, Checkpoints
      <4>2. sup.rec.generation = 1 /\ sup.wt.generation = 1 /\ sup.rec.common = "repo"
        BY ONLY <3>1 DEF Worktrees, Checkpoints
      <4>3. sup.wt.id # "" /\ sup.rec.session # ""
        BY ONLY Zenon, <4>1, PathAssumption DEF Named
      <4> QED
        BY <4>1, <4>2, <4>3
    <3>3. trees[sup.wt.path].common = "repo"
      BY <3>1, <3>2 DEF WorkInv, TreesExist
    <3>4. /\ trees[sup.wt.path].marker.id = sup.wt.id
          /\ trees[sup.wt.path].marker.session = sup.wt.session
      BY <2>2 DEF Path
    <3>5. ValidateOwned(sup.wt)
      <4>1. sup.wt.session # ""
        BY <2>2, <3>2
      <4>2. UnderRoot(sup.wt.path)
        BY <3>2 DEF UnderRoot
      <4>3. ReadMarker(sup.wt.path) = trees[sup.wt.path].marker
        BY DEF ReadMarker
      <4> QED
        BY ONLY Zenon, <3>1, <3>2, <3>4, <4>1, <4>2, <4>3 DEF ValidateOwned
    <3>6. RecordMatches(sup.wt, sup.rec)
      BY <2>2, <3>2, <3>3 DEF RecordMatches
    <3> QED
      BY <1>4, <3>5, <3>6
  <2> QED
    BY <1>1, <1>2, <2>1, <2>2, ReplyKeeps DEF Results
<1> QED
  BY <1>3, <1>4

LEMMA CleanCheckKeeps ==
  ASSUME WorkInv, CleanCheck
  PROVE  WorkInv'
<1>1. /\ sup.pc = "clean" /\ sup.op \in {"checkpoint", "rollback"} /\ sup.wt.session # ""
      /\ UNCHANGED <<trees, commits, held, store, worked, asked, dropped, late>>
  BY DEF CleanCheck, Rest, WorkInv, SupWorks, WorkTypes, Sups
<1>2. dropped \subseteq late /\ store \in SUBSET Checkpoints /\ IsFiniteSet(store) /\ trees \in [Places -> Trees]
  BY DEF WorkInv, WorkTypes
<1>3. CASE RequireClean(Path)
  <2>1. trees[sup.wt.path].edits \subseteq late
    BY <1>3 DEF RequireClean, Path
  <2>2. Goto(IF sup.op = "rollback" THEN "reset" ELSE "record")
    BY <1>3 DEF CleanCheck
  <2>3. CASE sup.op = "rollback"
    BY <1>1, <1>2, <2>1, <2>2, <2>3, MoveKeeps
  <2>4. CASE sup.op = "checkpoint"
    BY <1>1, <1>2, <2>2, <2>4, MoveKeeps
  <2> QED
    BY <1>1, <2>3, <2>4
<1>4. CASE ~RequireClean(Path)
  <2>1. Reply("rejected") /\ trees[Path].edits # {}
    BY <1>4 DEF CleanCheck, RequireClean
  <2> QED
    BY <1>1, <1>2, <2>1, ReplyKeeps DEF Results
<1> QED
  BY <1>3, <1>4

LEMMA RecordKeeps ==
  ASSUME WorkInv, Record
  PROVE  WorkInv'
<1> DEFINE wt == sup.wt
           rec == [id |-> Cardinality(store) + 1, session |-> wt.session, worktree |-> wt.id, generation |-> wt.generation,
                   common |-> wt.common, path |-> wt.path, head |-> trees[Path].head]
<1>1. /\ sup.pc = "record" /\ sup.op = "checkpoint" /\ sup.wt.session # ""
      /\ UNCHANGED <<trees, commits, held, worked, asked, dropped, late>>
  BY DEF Record, WorkInv, SupWorks
<1>2. store \in SUBSET Checkpoints /\ IsFiniteSet(store) /\ trees \in [Places -> Trees]
  BY DEF WorkInv, WorkTypes
<1>3. wt \in Worktrees /\ trees[Path] \in Trees
  BY <1>1, SupTree
<1>4. rec \in Checkpoints
  <2>1. sup.wt.session \in Named
    BY ZenonT(20), <1>1, <1>3 DEF Named, Worktrees
  <2> QED
    BY <1>2, <1>3, <2>1, FS_CardinalityType DEF Worktrees, Checkpoints, Trees
<1>5. \/ store' = store \union {rec} /\ Reply("checkpointed")
      \/ store' = store /\ Reply("git failed")
  BY DEF Record
<1> HIDE DEF rec
<1>6. store' \in SUBSET Checkpoints
  BY <1>2, <1>4, <1>5
<1>7. IsFiniteSet(store')
  <2>1. IsFiniteSet(store \union {rec})
    BY <1>2, FS_AddElement
  <2> QED
    BY <1>2, <1>5, <2>1
<1>8. CASE Reply("checkpointed")
  BY <1>1, <1>6, <1>7, <1>8, ReplyKeeps DEF Results
<1>9. CASE Reply("git failed")
  BY <1>1, <1>6, <1>7, <1>9, ReplyKeeps DEF Results
<1> QED
  BY <1>5, <1>8, <1>9
LEMMA ResetKeeps ==
  ASSUME WorkInv, Reset
  PROVE  WorkInv'
<1>1. /\ sup.pc = "reset" /\ sup.op = "rollback" /\ sup.op # "" /\ sup.rec \in Checkpoints
      /\ trees[sup.wt.path].edits \subseteq late
      /\ UNCHANGED <<commits, held, store, worked, asked, late>>
  BY DEF Reset, WorkInv, SupWorks
<1>2. dropped \subseteq late /\ store \in SUBSET Checkpoints /\ IsFiniteSet(store) /\ trees \in [Places -> Trees]
  BY DEF WorkInv, WorkTypes
<1>3. CASE Goto("verify")
  <2> DEFINE t == trees[Path]
             gone == {e \in t.edits : e.tracked}
             t1 == [t EXCEPT !.head = sup.rec.head, !.marker = sup.rec.head.marker, !.edits = @ \ gone]
  <2>1. CASE trees' = trees /\ dropped' = dropped
    BY <1>1, <1>2, <1>3, <2>1, MoveKeeps
  <2>2. CASE trees' = [trees EXCEPT ![Path] = t1] /\ dropped' = dropped \union gone
    <3>1. t \in Trees /\ Path \in Places /\ Path \in Paths
      BY <1>1, SupTree
    <3>2. sup.rec.head \in Commits /\ sup.rec.head.marker \in Markers
      BY <1>1 DEF Checkpoints, Commits
    <3>3. t1 \in Trees /\ t1.exists = t.exists /\ t1.common = t.common
      BY <3>1, <3>2 DEF Trees
    <3>4. trees' \in [Places -> Trees]
      BY <1>2, <2>2, <3>1, <3>3
    <3>5. \A p \in Paths : trees'[p].exists = trees[p].exists /\ trees'[p].common = trees[p].common
      BY <1>2, <2>2, <3>1, <3>3 DEF Places
    <3>6. dropped' \subseteq late
      BY <1>1, <1>2, <2>2 DEF Path
    <3> QED
      BY <1>1, <1>2, <1>3, <3>4, <3>5, <3>6, MoveKeeps
  <2>3. trees' = [trees EXCEPT ![Path] = t1] /\ dropped' = dropped \union gone
    <3>1. \/ trees' = [trees EXCEPT ![Path].head = sup.rec.head, ![Path].marker = sup.rec.head.marker, ![Path].edits = @ \ gone]
             /\ dropped' = dropped \union gone
          \/ Reply("git failed")
      BY DEF Reset
    <3>2. ~Reply("git failed")
      BY <1>1, <1>3, SupTree DEF Goto, Reply, Sups
    <3>3. Path \in Places /\ trees[Path] \in Trees
      BY <1>1, SupTree
    <3>4. [trees EXCEPT ![Path].head = sup.rec.head, ![Path].marker = sup.rec.head.marker, ![Path].edits = @ \ gone]
          = [trees EXCEPT ![Path] = t1]
      BY <1>2, <3>3 DEF Trees
    <3> QED
      BY <3>1, <3>2, <3>4
  <2> QED
    BY <2>2, <2>3
<1>4. CASE Reply("git failed")
  <2>1. UNCHANGED <<trees, dropped>>
    BY <1>1, <1>4, SupTree DEF Reset, Goto, Reply, Sups
  <2> QED
    BY <1>1, <1>2, <1>4, <2>1, ReplyKeeps DEF Results
<1> QED
  BY <1>3, <1>4 DEF Reset

LEMMA VerifyKeeps ==
  ASSUME WorkInv, Verify
  PROVE  WorkInv'
<1>1. /\ sup.pc = "verify" /\ sup.op # "" /\ UNCHANGED <<trees, commits, held, store, worked, asked, dropped, late>>
  BY DEF Verify, Rest, WorkInv, SupWorks
<1>2. store \in SUBSET Checkpoints /\ IsFiniteSet(store)
  BY DEF WorkInv, WorkTypes
<1>3. CASE trees[Path].head = sup.rec.head
  <2>1. Reply("success")
    BY <1>3 DEF Verify
  <2> QED
    BY <1>1, <1>2, <1>3, <2>1, ReplyKeeps DEF Results
<1>4. CASE trees[Path].head # sup.rec.head
  <2>1. Reply("verification failed")
    BY <1>4 DEF Verify
  <2> QED
    BY <1>1, <1>2, <2>1, ReplyKeeps DEF Results
<1> QED
  BY <1>3, <1>4

LEMMA CrashKeeps ==
  ASSUME WorkInv, Crash
  PROVE  WorkInv'
<1>1. held' = {} /\ UNCHANGED <<trees, commits, store, worked, asked, dropped, late>>
  BY DEF Crash
<1>2. sup' \in Sups /\ sup'.pc = "idle" /\ sup'.op = ""
  BY WorkConstants DEF Crash
<1>3. WorkTypes'
  BY <1>1, <1>2 DEF WorkInv, WorkTypes
<1>4. TreesExist'
  BY <1>1, <1>2 DEF WorkInv, TreesExist
<1>5. SupWorks' /\ Truthful(sup')
  BY <1>2 DEF SupWorks, Truthful
<1> QED
  BY <1>1, <1>2, <1>3, <1>4, <1>5 DEF WorkInv

\* The agent works in a tree: the tree stays the same tree of the same
\* repository, and what it leaves uncommitted while that tree waits for its
\* reset is recorded as late.
LEMMA AgentKeeps ==
  ASSUME WorkInv, NEW p \in Places, NEW t \in Trees, t.exists = trees[p].exists, t.common = trees[p].common,
         trees' = [trees EXCEPT ![p] = t], UNCHANGED <<held, store, sup, asked, dropped>>,
         worked' = worked + 1, late \subseteq late', commits' \in SUBSET Commits, IsFiniteSet(commits'),
         Busy(p) => t.edits \subseteq late'
  PROVE  WorkInv'
<1>1. trees' \in [Places -> Trees] /\ trees'[p] = t /\ \A q \in Places : q # p => trees'[q] = trees[q]
  BY DEF WorkInv, WorkTypes
<1>2. \A q \in Paths : trees'[q].exists = trees[q].exists /\ trees'[q].common = trees[q].common
  BY <1>1 DEF Places
<1>3. WorkTypes'
  BY <1>1 DEF WorkInv, WorkTypes
<1>4. TreesExist'
  BY <1>2, <1>3, ZenonT(60) DEF WorkInv, WorkTypes, TreesExist, Worktrees
<1>5. SupWorks' /\ Truthful(sup') /\ dropped' \subseteq late'
  BY DEF WorkInv, SupWorks
<1>6. sup'.pc = "reset" => trees'[sup'.wt.path].edits \subseteq late'
  <2> SUFFICES ASSUME sup.pc = "reset" PROVE trees'[sup.wt.path].edits \subseteq late'
    OBVIOUS
  <2>1. sup.op = "rollback" /\ Path \in Places /\ trees[Path].edits \subseteq late
    BY SupTree DEF WorkInv, SupWorks, Path
  <2>2. CASE Path = p
    BY <1>1, <2>1, <2>2 DEF Busy, Path
  <2>3. CASE Path # p
    BY <1>1, <2>1, <2>3 DEF Path
  <2> QED
    BY <2>2, <2>3
<1> QED
  BY <1>3, <1>4, <1>5, <1>6 DEF WorkInv

LEMMA EditKeeps ==
  ASSUME WorkInv, NEW p \in Places, Edit(p)
  PROVE  WorkInv'
<1>1. PICK tracked \in BOOLEAN :
        /\ Work(p) /\ trees' = [trees EXCEPT ![p].edits = @ \union {[n |-> worked + 1, tracked |-> tracked]}]
        /\ late' = IF Busy(p) THEN late \union {[n |-> worked + 1, tracked |-> tracked]} ELSE late
        /\ commits' = commits
  BY DEF Edit
<1> DEFINE e == [n |-> worked + 1, tracked |-> tracked]
           t == [trees[p] EXCEPT !.edits = @ \union {e}]
<1>2. trees[p] \in Trees /\ trees \in [Places -> Trees] /\ worked \in Nat /\ commits \in SUBSET Commits /\ IsFiniteSet(commits)
  BY DEF WorkInv, WorkTypes
<1>3. t \in Trees /\ t.exists = trees[p].exists /\ t.common = trees[p].common /\ t.edits = trees[p].edits \union {e}
  BY <1>2 DEF Trees
<1>4. trees' = [trees EXCEPT ![p] = t]
  BY <1>1, <1>2 DEF Trees
<1>5. Busy(p) => t.edits \subseteq late'
  <2> SUFFICES ASSUME Busy(p) PROVE t.edits \subseteq late'
    OBVIOUS
  <2>1. trees[p].edits \subseteq late
    BY DEF Busy, Path, WorkInv
  <2> QED
    BY <1>1, <1>3, <2>1
<1>6. late \subseteq late' /\ UNCHANGED <<held, store, sup, asked, dropped>> /\ worked' = worked + 1
  BY <1>1 DEF Work
<1> HIDE DEF t
<1> QED
  BY <1>1, <1>2, <1>3, <1>4, <1>5, <1>6, AgentKeeps

LEMMA CommitKeeps ==
  ASSUME WorkInv, NEW p \in Places, CommitAll(p)
  PROVE  WorkInv'
<1> DEFINE made == [n |-> Cardinality(commits), marker |-> trees[p].marker]
           t == [trees[p] EXCEPT !.edits = {}, !.head = made]
<1>1. /\ Work(p) /\ commits' = commits \union {made} /\ late' = late
      /\ trees' = [trees EXCEPT ![p].edits = {}, ![p].head = made]
  BY DEF CommitAll
<1>2. trees[p] \in Trees /\ trees \in [Places -> Trees] /\ commits \in SUBSET Commits /\ IsFiniteSet(commits)
  BY DEF WorkInv, WorkTypes
<1>3. made \in Commits
  BY <1>2, FS_CardinalityType DEF Trees, Commits
<1> HIDE DEF made
<1>4. t \in Trees /\ t.exists = trees[p].exists /\ t.common = trees[p].common /\ t.edits = {}
  BY <1>2, <1>3 DEF Trees
<1>5. trees' = [trees EXCEPT ![p] = t]
  BY <1>1, <1>2 DEF Trees
<1>6. commits' \in SUBSET Commits /\ IsFiniteSet(commits')
  BY <1>1, <1>2, <1>3, FS_AddElement
<1>7. UNCHANGED <<held, store, sup, asked, dropped>> /\ worked' = worked + 1
  BY <1>1 DEF Work
<1> HIDE DEF t
<1> QED
  BY <1>1, <1>4, <1>5, <1>6, <1>7, AgentKeeps

LEMMA CheckoutKeeps ==
  ASSUME WorkInv, NEW p \in Places, Checkout(p)
  PROVE  WorkInv'
<1>1. PICK c \in commits : /\ Work(p) /\ RequireClean(p) /\ UNCHANGED <<commits, late>>
                           /\ trees' = [trees EXCEPT ![p].head = c, ![p].marker = c.marker]
  BY DEF Checkout
<1> DEFINE t == [trees[p] EXCEPT !.head = c, !.marker = c.marker]
<1>2. trees[p] \in Trees /\ trees \in [Places -> Trees] /\ commits \in SUBSET Commits /\ IsFiniteSet(commits)
  BY DEF WorkInv, WorkTypes
<1>3. c \in Commits /\ c.marker \in Markers
  BY <1>2 DEF Commits
<1>4. t \in Trees /\ t.exists = trees[p].exists /\ t.common = trees[p].common /\ t.edits = {}
  BY <1>1, <1>2, <1>3 DEF Trees, RequireClean
<1>5. trees' = [trees EXCEPT ![p] = t]
  BY <1>1, <1>2 DEF Trees
<1>6. UNCHANGED <<held, store, sup, asked, dropped>> /\ worked' = worked + 1
  BY <1>1 DEF Work
<1> HIDE DEF t
<1> QED
  BY <1>1, <1>2, <1>4, <1>5, <1>6, AgentKeeps

LEMMA WorkStep ==
  ASSUME WorkInv, [WNext]_wvars
  PROVE  WorkInv'
<1>1. ASSUME NEW s \in WorkSessions, NEW p \in Paths, CreateWorktree(s, p) PROVE WorkInv'
  BY <1>1, CreateKeeps
<1>2. ASSUME NEW s \in WorkSessions, NEW p \in Paths \union Outside, AdoptExisting(s, p) PROVE WorkInv'
  BY <1>2, AdoptKeeps DEF Places
<1>3. ASSUME NEW wt \in held, Request("checkpoint", wt, NoRecord) \/ \E rec \in store : Request("rollback", wt, rec)
      PROVE  WorkInv'
  BY <1>3, RequestKeeps
<1>4. CASE Validate
  BY <1>4, ValidateKeeps
<1>5. CASE CleanCheck
  BY <1>5, CleanCheckKeeps
<1>6. CASE Record
  BY <1>6, RecordKeeps
<1>7. CASE Reset
  BY <1>7, ResetKeeps
<1>8. CASE Verify
  BY <1>8, VerifyKeeps
<1>9. CASE Crash
  BY <1>9, CrashKeeps
<1>10. ASSUME NEW p \in Paths \union Outside, Edit(p) \/ CommitAll(p) \/ Checkout(p) PROVE WorkInv'
  BY <1>10, EditKeeps, CommitKeeps, CheckoutKeeps DEF Places
<1>11. CASE UNCHANGED wvars
  BY <1>11 DEF wvars, WorkInv, WorkTypes, TreesExist, SupWorks
<1> QED
  BY <1>1, <1>2, <1>3, <1>4, <1>5, <1>6, <1>7, <1>8, <1>9, <1>10, <1>11 DEF WNext

\* Checkpoint, Rollback and AdoptExisting: a reset destroys only what was
\* edited between the clean check and itself, and what a rollback answered is
\* true of the tree.
THEOREM RollbackIsSound == WSpec => []RollbackSound
<1>1. WInit => WorkInv
  BY WorkInit
<1>2. WorkInv /\ [WNext]_wvars => WorkInv'
  BY WorkStep
<1>3. WorkInv => RollbackSound
  BY DEF WorkInv, RollbackSound, Truthful
<1> QED
  BY <1>1, <1>2, <1>3, PTL DEF WSpec
-----------------------------------------------------------------------------
(* Codex threads and items                                                  *)

CallFields == {"pc", "op", "thread", "model", "fallback", "report", "ident", "err", "known"}

\* A model identity is kept only for a thread it was verified for, and what was
\* verified is a model the server had named.
ThreadsProven == /\ DOMAIN threadModels = DOMAIN proven
                 /\ \A t \in DOMAIN proven : threadModels[t].reported \in proven[t] /\ threadModels[t].reported # ""

\* What a caller was told, with what was known of its thread when it was told.
Grounded(r) ==
  r.pc = "done" /\ r.err = "" /\ r.op # "turn/interrupt" =>
    /\ r.known # {} \/ r.report # "" \/ r.op # "turn/start" => r.ident.reported \in (r.known \union {r.report}) \ {""}
    /\ r.model \notin {"", r.ident.reported} /\ ~r.fallback /\ r.op # "thread/resume" =>
         r.op = "turn/start" /\ r.report = "" /\ r.ident.reported \in r.known
CallsGrounded == /\ DOMAIN tcalls = Clients
                 /\ \A c \in Clients : DOMAIN tcalls[c] = CallFields /\ Grounded(tcalls[c])

LEMMA VerifiedModel ==
  ASSUME NEW requested, NEW reported, NEW fallback, VerifyModelIdentity(requested, reported, fallback).err = ""
  PROVE  LET i == VerifyModelIdentity(requested, reported, fallback).ident
         IN  /\ i.reported = reported /\ reported # ""
             /\ requested # "" /\ ~fallback => reported = requested
BY Zenon DEF VerifyModelIdentity, Verified, Identity

LEMMA ErrorsNamed == \A hints : MapServerRPCError(hints) # ""
<1> DEFINE Codes == {"auth_required", "auth_expired", "unsupported_version", "rate_limited", "model_unavailable",
                     "model_identity_unproven", "approval_unsupported", "request_timeout", "protocol_oversized",
                     "runtime_crashed", "protocol_malformed"}
<1>1. "" \notin Codes /\ "protocol_malformed" \in Codes
  BY Zenon
<1>2. DOMAIN ErrorCodes \subseteq Nat /\ \A i \in DOMAIN ErrorCodes : ErrorCodes[i] \in Codes
  BY DEF ErrorCodes
<1> SUFFICES ASSUME NEW hints PROVE MapServerRPCError(hints) \in Codes
  BY <1>1
<1> DEFINE hits == {i \in DOMAIN ErrorCodes : ErrorCodes[i] \in hints}
<1> HIDE DEF Codes
<1>3. CASE hits = {}
  BY Zenon, <1>1, <1>3 DEF MapServerRPCError
<1>4. CASE hits # {}
  <2> DEFINE first == CHOOSE i \in hits : \A j \in hits : i <= j
  <2>1. \E i \in hits : \A j \in hits : i <= j
    BY <1>2, <1>4, LeastOf
  <2>2. first \in hits
    BY <2>1
  <2>3. MapServerRPCError(hints) = ErrorCodes[first]
    BY Zenon, <1>4 DEF MapServerRPCError
  <2> QED
    BY <1>2, <2>2, <2>3
<1> QED
  BY <1>3, <1>4

\* The turn's own model, its thread's, or none that anyone had ever named.
LEMMA TurnGrounded ==
  ASSUME ThreadsProven, NEW r, NEW model, NEW known, known = (IF r.thread \in DOMAIN proven THEN proven[r.thread] ELSE {}),
         TurnIdentity(r, model).err = ""
  PROVE  /\ known # {} \/ model # "" => TurnIdentity(r, model).ident.reported \in (known \union {model}) \ {""}
         /\ r.model \notin {"", TurnIdentity(r, model).ident.reported} /\ ~r.fallback =>
              model = "" /\ TurnIdentity(r, model).ident.reported \in known
<1>1. CASE model # ""
  <2>1. TurnIdentity(r, model) = VerifyModelIdentity(r.model, model, r.fallback)
    BY <1>1, Zenon DEF TurnIdentity
  <2>2. TurnIdentity(r, model).ident.reported = model /\ (r.model # "" /\ ~r.fallback => model = r.model)
    <3>1. VerifyModelIdentity(r.model, model, r.fallback).err = ""
      BY ONLY <2>1, TurnIdentity(r, model).err = ""
    <3>2. /\ VerifyModelIdentity(r.model, model, r.fallback).ident.reported = model
          /\ r.model # "" /\ ~r.fallback => model = r.model
      BY ONLY <3>1, <1>1, Zenon DEF VerifyModelIdentity, Verified, Identity
    <3> QED
      BY ONLY <2>1, <3>2, Zenon
  <2> QED
    BY <1>1, <2>2, Zenon
<1>2. CASE model = "" /\ r.thread \in DOMAIN threadModels
  <2>1. TurnIdentity(r, model).ident = threadModels[r.thread]
    BY <1>2, Zenon DEF TurnIdentity, Verified
  <2> QED
    BY <1>2, <2>1, Zenon DEF ThreadsProven
<1>3. CASE model = "" /\ r.thread \notin DOMAIN threadModels
  <2>1. TurnIdentity(r, model).ident.reported = r.model
    BY <1>3, Zenon DEF TurnIdentity, Verified, Identity
  <2> QED
    BY <1>3, <2>1, Zenon DEF ThreadsProven
<1> QED
  BY <1>1, <1>2, <1>3

\* A call returns what Grounded wants, or an error.
LEMMA ReturnKeeps ==
  ASSUME CallsGrounded, NEW c \in Clients, NEW thread, NEW report, NEW v, Returned(c, thread, report, v),
         \A known : known = (IF thread \in DOMAIN proven THEN proven[thread] ELSE {}) /\ v.err = "" /\ tcalls[c].op # "turn/interrupt" =>
            /\ known # {} \/ report # "" \/ tcalls[c].op # "turn/start" => v.ident.reported \in (known \union {report}) \ {""}
            /\ tcalls[c].model \notin {"", v.ident.reported} /\ ~tcalls[c].fallback /\ tcalls[c].op # "thread/resume" =>
                 tcalls[c].op = "turn/start" /\ report = "" /\ v.ident.reported \in known
  PROVE  CallsGrounded'
<1> DEFINE known == IF thread \in DOMAIN proven THEN proven[thread] ELSE {}
           told1 == IF v.err = "" THEN thread ELSE ""
           u == [tcalls[c] EXCEPT !.pc = "done", !.thread = told1, !.report = report, !.ident = v.ident, !.err = v.err, !.known = known]
<1>1. DOMAIN tcalls = Clients /\ DOMAIN tcalls[c] = CallFields
  BY DEF CallsGrounded
<1>2. tcalls' = [tcalls EXCEPT ![c] = u]
  BY Zenon DEF Returned
<1>3. /\ DOMAIN u = CallFields /\ u.pc = "done" /\ u.op = tcalls[c].op /\ u.model = tcalls[c].model
      /\ u.fallback = tcalls[c].fallback /\ u.report = report /\ u.ident = v.ident /\ u.err = v.err /\ u.known = known
  <2>1. PICK r, th, k, i, e, w : /\ r = tcalls[c] /\ th = told1 /\ k = known /\ i = v.ident /\ e = v.err
                                 /\ w = [r EXCEPT !.pc = "done", !.thread = th, !.report = report, !.ident = i, !.err = e, !.known = k]
    OBVIOUS
  <2>2. /\ DOMAIN w = CallFields /\ w.pc = "done" /\ w.op = r.op /\ w.model = r.model /\ w.fallback = r.fallback
        /\ w.report = report /\ w.ident = i /\ w.err = e /\ w.known = k
    <3>1. DOMAIN r = CallFields
      BY ONLY <1>1, <2>1
    <3>2. w = [r EXCEPT !.pc = "done", !.thread = th, !.report = report, !.ident = i, !.err = e, !.known = k]
      BY ONLY <2>1
    <3> QED
      BY ONLY <3>1, <3>2 DEF CallFields
  <2>3. u = w
    BY ONLY Zenon, <2>1
  <2> QED
    BY ONLY <2>1, <2>2, <2>3
<1> HIDE DEF known, u
<1>4. Grounded(u)
  <2>1. /\ known # {} \/ report # "" \/ tcalls[c].op # "turn/start" => v.ident.reported \in (known \union {report}) \ {""}
        /\ tcalls[c].model \notin {"", v.ident.reported} /\ ~tcalls[c].fallback /\ tcalls[c].op # "thread/resume" =>
                 tcalls[c].op = "turn/start" /\ report = "" /\ v.ident.reported \in known
        \/ v.err # "" \/ tcalls[c].op = "turn/interrupt"
    BY Zenon DEF known
  <2> QED
    BY <1>3, <2>1, Zenon DEF Grounded
<1>5. DOMAIN tcalls' = Clients /\ \A d \in Clients : tcalls'[d] = IF d = c THEN u ELSE tcalls[d]
  BY <1>1, <1>2
<1> QED
  BY <1>3, <1>4, <1>5 DEF CallsGrounded

LEMMA RememberKeeps ==
  ASSUME ThreadsProven, NEW thread, NEW v, Remember(thread, v), v.err = "" => v.ident.reported # ""
  PROVE  ThreadsProven'
<1>1. CASE v.err # ""
  BY <1>1, Zenon DEF Remember, ThreadsProven
<1>2. CASE v.err = ""
  <2> DEFINE models == {v.ident.reported} \union IF thread \in DOMAIN proven THEN proven[thread] ELSE {}
  <2>1. threadModels' = Put(threadModels, thread, v.ident) /\ proven' = Put(proven, thread, models)
    BY <1>2, Zenon DEF Remember
  <2>2. v.ident.reported \in models /\ v.ident.reported # ""
    BY <1>2
  <2> HIDE DEF models
  <2>3. /\ DOMAIN threadModels' = DOMAIN threadModels \union {thread} /\ DOMAIN proven' = DOMAIN proven \union {thread}
        /\ \A t \in DOMAIN threadModels \union {thread} : threadModels'[t] = IF t = thread THEN v.ident ELSE threadModels[t]
        /\ \A t \in DOMAIN proven \union {thread} : proven'[t] = IF t = thread THEN models ELSE proven[t]
    BY <2>1 DEF Put
  <2>4. DOMAIN threadModels' = DOMAIN proven'
    BY <2>3 DEF ThreadsProven
  <2>5. ASSUME NEW t \in DOMAIN proven' PROVE threadModels'[t].reported \in proven'[t] /\ threadModels'[t].reported # ""
    <3>1. CASE t = thread
      <4>1. threadModels'[t] = v.ident /\ proven'[t] = models
        BY <2>3, <3>1
      <4> QED
        BY ONLY <2>2, <4>1, Zenon
    <3>2. CASE t # thread
      <4>1. t \in DOMAIN proven /\ threadModels'[t] = threadModels[t] /\ proven'[t] = proven[t]
        BY <2>3, <2>4, <2>5, <3>2 DEF ThreadsProven
      <4> QED
        BY <4>1, Zenon DEF ThreadsProven
    <3> QED
      BY <3>1, <3>2
  <2> QED
    BY <2>4, <2>5, Zenon DEF ThreadsProven
<1> QED
  BY <1>1, <1>2

LEMMA ThreadInit ==
  ASSUME TInit
  PROVE  ThreadsProven /\ CallsGrounded
<1>1. DOMAIN threadModels = {} /\ DOMAIN proven = {}
  BY DEF TInit
<1>2. DOMAIN tcalls = Clients /\ \A c \in Clients : tcalls[c] = NoTCall
  BY DEF TInit
<1>3. DOMAIN NoTCall = CallFields
  BY Zenon DEF NoTCall, CallFields
<1>4. Grounded(NoTCall)
  BY Zenon DEF NoTCall, Grounded
<1> QED
  BY <1>1, <1>2, <1>3, <1>4 DEF ThreadsProven, CallsGrounded
LEMMA ThreadStep ==
  ASSUME ThreadsProven, CallsGrounded, [ThreadNext \/ ItemNext]_tvars
  PROVE  ThreadsProven' /\ CallsGrounded'
<1>1. ASSUME NEW c \in Clients, NEW r \in ThreadCalls, Call(c, r) PROVE ThreadsProven' /\ CallsGrounded'
  <2> DEFINE u == [NoTCall EXCEPT !.pc = "asked", !.op = r.op, !.thread = r.thread, !.model = r.model, !.fallback = r.fallback]
  <2>1. tcalls' = [tcalls EXCEPT ![c] = u] /\ UNCHANGED <<threadModels, proven>>
    BY <1>1, Zenon DEF Call
  <2>2. DOMAIN u = CallFields /\ u.pc = "asked"
    <3>1. DOMAIN NoTCall = CallFields
      BY Zenon DEF NoTCall, CallFields
    <3>2. PICK n, th, m, f, o : n = NoTCall /\ th = r.thread /\ m = r.model /\ f = r.fallback /\ o = r.op
      OBVIOUS
    <3>3. [n EXCEPT !.pc = "asked", !.op = o, !.thread = th, !.model = m, !.fallback = f].pc = "asked"
      BY ONLY <3>1, <3>2 DEF CallFields
    <3>4. DOMAIN [n EXCEPT !.pc = "asked", !.op = o, !.thread = th, !.model = m, !.fallback = f] = CallFields
      BY ONLY <3>1, <3>2 DEF CallFields
    <3> QED
      BY ONLY <3>2, <3>3, <3>4
  <2>3. Grounded(u)
    BY <2>2, Zenon DEF Grounded
  <2> HIDE DEF u
  <2>4. DOMAIN tcalls' = Clients /\ \A d \in Clients : tcalls'[d] = IF d = c THEN u ELSE tcalls[d]
    BY <2>1 DEF CallsGrounded
  <2>5. CallsGrounded'
    BY <2>2, <2>3, <2>4 DEF CallsGrounded
  <2> QED
    BY <2>1, <2>5 DEF ThreadsProven
<1>2. ASSUME NEW c \in Clients, NEW id, NEW model, StartThread(c, id, model) PROVE ThreadsProven' /\ CallsGrounded'
  <2> DEFINE thread == IF id # "" THEN id ELSE tcalls[c].thread
  <2>1. PICK v : v = VerifyModelIdentity(tcalls[c].model, model, tcalls[c].fallback)
    OBVIOUS
  <2>2. Remember(thread, v) /\ Returned(c, thread, model, v)
    BY <1>2, <2>1, Zenon DEF StartThread
  <2>3. v.err = "" => v.ident.reported = model /\ model # "" /\ (tcalls[c].model # "" /\ ~tcalls[c].fallback => model = tcalls[c].model)
    BY ONLY <2>1, Zenon DEF VerifyModelIdentity, Verified, Identity
  <2>4. ThreadsProven'
    BY <2>2, <2>3, RememberKeeps
  <2>5. CallsGrounded'
    BY <2>2, <2>3, ReturnKeeps, Zenon
  <2> QED
    BY <2>4, <2>5
<1>3. ASSUME NEW c \in Clients, NEW model, ResumeThread(c, model) PROVE ThreadsProven' /\ CallsGrounded'
  <2>1. PICK v : v = VerifyModelIdentity("", model, tcalls[c].fallback)
    OBVIOUS
  <2>2. Remember(tcalls[c].thread, v) /\ Returned(c, tcalls[c].thread, model, v) /\ tcalls[c].op = "thread/resume"
    BY <1>3, <2>1, Zenon DEF ResumeThread, Answering
  <2>3. v.err = "" => v.ident.reported = model /\ model # ""
    BY ONLY <2>1, Zenon DEF VerifyModelIdentity, Verified, Identity
  <2>4. ThreadsProven'
    BY <2>2, <2>3, RememberKeeps
  <2>5. CallsGrounded'
    BY <2>2, <2>3, ReturnKeeps, Zenon
  <2> QED
    BY <2>4, <2>5
<1>4. ASSUME NEW c \in Clients, NEW model, StartTurn(c, model) PROVE ThreadsProven' /\ CallsGrounded'
  <2>1. PICK v, r : v = TurnIdentity(tcalls[c], model) /\ r = tcalls[c]
    OBVIOUS
  <2>2. /\ Returned(c, r.thread, model, v) /\ r.op = "turn/start" /\ v = TurnIdentity(r, model)
        /\ UNCHANGED <<threadModels, proven>>
    BY <1>4, <2>1, Zenon DEF StartTurn, Answering
  <2>3. ASSUME NEW known, known = (IF r.thread \in DOMAIN proven THEN proven[r.thread] ELSE {}), v.err = ""
        PROVE  /\ known # {} \/ model # "" => v.ident.reported \in (known \union {model}) \ {""}
               /\ r.model \notin {"", v.ident.reported} /\ ~r.fallback => model = "" /\ v.ident.reported \in known
    <3>1. TurnIdentity(r, model).err = ""
      BY <2>2, <2>3
    <3> QED
      BY <2>2, <2>3, <3>1, TurnGrounded
  <2>4. CallsGrounded'
    BY <2>1, <2>2, <2>3, ReturnKeeps, Zenon
  <2> QED
    BY <2>2, <2>4 DEF ThreadsProven
<1>5. ASSUME NEW c \in Clients, InterruptTurn(c) PROVE ThreadsProven' /\ CallsGrounded'
  <2>1. /\ Returned(c, tcalls[c].thread, "", Verified(NoIdentity, "")) /\ tcalls[c].op = "turn/interrupt"
        /\ UNCHANGED <<threadModels, proven>>
    BY <1>5, Zenon DEF InterruptTurn, Answering
  <2>2. CallsGrounded'
    BY <2>1, ReturnKeeps, Zenon
  <2> QED
    BY <2>1, <2>2 DEF ThreadsProven
<1>6. ASSUME NEW c \in Clients, NEW hints, CallFails(c, hints) PROVE ThreadsProven' /\ CallsGrounded'
  <2>1. PICK v : v = Verified(NoIdentity, MapServerRPCError(hints))
    OBVIOUS
  <2>2. Returned(c, "", "", v) /\ UNCHANGED <<threadModels, proven>>
    BY <1>6, <2>1, Zenon DEF CallFails
  <2>3. v.err # ""
    <3>1. v.err = MapServerRPCError(hints)
      BY <2>1, SMTT(30) DEF Verified
    <3> QED
      BY <3>1, ErrorsNamed
  <2>4. CallsGrounded'
    BY <2>2, <2>3, ReturnKeeps, ZenonT(60)
  <2> QED
    BY <2>2, <2>4 DEF ThreadsProven
<1>7. CASE ItemNext \/ UNCHANGED tvars
  <2>1. UNCHANGED <<threadModels, proven, tcalls>>
    BY <1>7 DEF ItemNext, tvars, Notify, TakeEvent, ReadApprovalMessage, RespondToApproval
  <2> QED
    BY <2>1, ZenonT(60) DEF ThreadsProven, CallsGrounded
<1> QED
  BY <1>1, <1>2, <1>3, <1>4, <1>5, <1>6, <1>7, Zenon DEF ThreadNext
\* The key of an item under its thread and turn, which has an id.
FullKey(k) == \E t, u, i : k = ItemKey(t, u, i) /\ i # ""

\* Whatever was told of an item under its thread and turn is in the cache under
\* them, as it was told last: the bare ids are keys of another length.
CacheHolds == /\ \A k \in DOMAIN told : k \in DOMAIN itemCache /\ itemCache[k] = told[k]
              /\ \A k \in DOMAIN told : FullKey(k)

ApprovalFields == {"pc", "msg", "kind", "is", "own", "policy", "wire"}
\* What is known of the approval a: its message's fields, the item it is about,
\* the path it is judged by and what it was answered.
ApprovalSound(a) ==
  LET s == Stated(a.msg)
      path == IF s.path # "" THEN s.path ELSE a.own[1].path
  IN  /\ DOMAIN a = ApprovalFields
      /\ \A f \in DOMAIN s : s[f] # "" => a.is[f] = s[f]
      /\ a.own # <<>> => /\ \A f \in DOMAIN s : s[f] = "" => a.is[f] \in {"", a.own[1][f]}
                         /\ a.is.path = path
                         /\ a.wire \in {"accept", "acceptForSession"} =>
                              LET p == a.policy[1]
                              IN  \/ p.scope = {} \/ path \in p.scope
                                  \/ p.failOpen /\ a.policy[2] = "ends"
ItemInv == CacheHolds /\ (approval = NoApproval \/ ApprovalSound(approval))

LEMMA KeysDiffer == \A k : FullKey(k) => \A j : k # <<j>>
<1>1. \A t, u, i, j : ItemKey(t, u, i) # <<j>>
  BY DEF ItemKey
<1> QED
  BY <1>1, Zenon DEF FullKey

LEMMA CacheKeeps ==
  ASSUME CacheHolds, NEW p, CacheItemState(p)
  PROVE  CacheHolds'
<1>1. CASE p.item.id = ""
  <2>1. UNCHANGED <<itemCache, told>>
    BY <1>1, Zenon DEF CacheItemState
  <2> QED
    BY <2>1 DEF CacheHolds
<1>2. CASE p.item.id # ""
  <2> DEFINE full == IF p.thread # "" /\ p.turn # "" THEN {ItemKey(p.thread, p.turn, p.item.id)} ELSE {}
  <2>1. /\ itemCache' = [k \in DOMAIN itemCache \union full \union {<<p.item.id>>} |->
                          IF k \in full \union {<<p.item.id>>} THEN p.item ELSE itemCache[k]]
        /\ told' = [k \in DOMAIN told \union full |-> IF k \in full THEN p.item ELSE told[k]]
    BY <1>2, Zenon DEF CacheItemState
  <2>2. \A k \in full : FullKey(k)
    BY <1>2, Zenon DEF FullKey
  <2> HIDE DEF full
  <2>3. DOMAIN told' = DOMAIN told \union full /\ DOMAIN itemCache' = DOMAIN itemCache \union full \union {<<p.item.id>>}
    BY <2>1
  <2>4. \A k \in DOMAIN told' : FullKey(k)
    BY <2>2, <2>3, Zenon DEF CacheHolds
  <2>5. ASSUME NEW k \in DOMAIN told' PROVE k \in DOMAIN itemCache' /\ itemCache'[k] = told'[k]
    <3>1. k # <<p.item.id>>
      BY ONLY <2>4, <2>5, KeysDiffer
    <3>2. CASE k \in full
      BY <2>1, <2>3, <3>2
    <3>3. CASE k \notin full
      <4>1. k \in DOMAIN told /\ k \in DOMAIN itemCache /\ itemCache[k] = told[k]
        BY <2>3, <2>5, <3>3 DEF CacheHolds
      <4> QED
        BY <2>1, <2>3, <3>1, <3>3, <4>1
    <3> QED
      BY <3>2, <3>3
  <2> QED
    BY <2>4, <2>5, Zenon DEF CacheHolds
<1> QED
  BY <1>1, <1>2

\* What is stated stays, and what is not comes from the note under k, if any.
FilledFrom(is, s, k, notes) ==
  /\ \A f \in DOMAIN s : s[f] # "" => is[f] = s[f]
  /\ k \in DOMAIN notes => /\ \A f \in DOMAIN s : s[f] = "" => is[f] \in {"", notes[k][f]}
                           /\ is.path = IF s.path # "" THEN s.path ELSE notes[k].path

\* parseApprovalRequest: what is missing comes from the item of the message's
\* own thread and turn, if that was told.
LEMMA CompletedSound ==
  ASSUME NEW m, NEW cache, NEW notes,
         \A k \in DOMAIN notes : k \in DOMAIN cache /\ cache[k] = notes[k],
         \A k \in DOMAIN notes : FullKey(k),
         NEW k, k = ItemKey(m.thread, m.turn, m.itemID),
         NEW s, s = Stated(m), NEW is, is = Completed(m, cache)
  PROVE  FilledFrom(is, s, k, notes)
<1>1. "path" \in DOMAIN s /\ \A f \in DOMAIN s : f \in {"path", "command", "tool"}
  BY DEF Stated
<1>2. s.path = s["path"] /\ is.path = is["path"]
  OBVIOUS
<1>3. k \in DOMAIN notes => m.itemID # "" /\ LookupItem(m, cache) = notes[k]
  <2> SUFFICES ASSUME k \in DOMAIN notes PROVE m.itemID # "" /\ LookupItem(m, cache) = notes[k]
    OBVIOUS
  <2>1. PICK t, u, i : k = ItemKey(t, u, i) /\ i # ""
    <3>1. FullKey(k)
      OBVIOUS
    <3> QED
      BY ONLY <3>1, Zenon DEF FullKey
  <2>2. i = m.itemID
    <3>1. ItemKey(t, u, i) = ItemKey(m.thread, m.turn, m.itemID)
      BY <2>1, Zenon
    <3> QED
      BY ONLY <3>1 DEF ItemKey
  <2>3. k \in DOMAIN cache /\ cache[k] = notes[k]
    OBVIOUS
  <2> QED
    BY <2>1, <2>2, <2>3, Zenon DEF LookupItem
<1>4. CASE m.itemID = "" \/ (s.path # "" /\ s.command # "")
  <2>1. is = s
    BY <1>4, Zenon DEF Completed
  <2>2. k \in DOMAIN notes => s.path # ""
    BY <1>3, <1>4
  <2> QED
    BY <2>1, <2>2, Zenon DEF FilledFrom
<1>5. CASE ~(m.itemID = "" \/ (s.path # "" /\ s.command # ""))
  <2>1. is = [f \in DOMAIN s |-> IF s[f] = "" THEN LookupItem(m, cache)[f] ELSE s[f]]
    BY <1>5, Zenon DEF Completed
  <2>2. \A f \in DOMAIN s : is[f] = IF s[f] = "" THEN LookupItem(m, cache)[f] ELSE s[f]
    BY <2>1, Zenon
  <2>3. is["path"] = IF s["path"] = "" THEN LookupItem(m, cache)["path"] ELSE s["path"]
    BY <1>1, <2>2
  <2>4. \A f \in DOMAIN s : s[f] # "" => is[f] = s[f]
    BY <2>2, Zenon
  <2>5. k \in DOMAIN notes => \A f \in DOMAIN s : s[f] = "" => is[f] \in {"", notes[k][f]}
    BY <1>3, <2>2, Zenon
  <2>6. k \in DOMAIN notes => is.path = IF s.path # "" THEN s.path ELSE notes[k].path
    BY <1>2, <1>3, <2>3
  <2> QED
    BY <2>4, <2>5, <2>6, Zenon DEF FilledFrom
<1> QED
  BY <1>4, <1>5

\* RouteApprovalRequest: an acceptance is policy's, on the path the approval
\* names, or a timeout's under a policy that fails open.
LEMMA AcceptedOnlyIf ==
  ASSUME NEW a, NEW p, NEW ctx, "allow" \in RouteApprovalRequest(a, p, ctx)
  PROVE  p.scope = {} \/ a.is.path \in p.scope \/ (p.failOpen /\ ctx = "ends")
<1> DEFINE v == Verdict(p, HookRequest(a))
           late1 == IF p.failOpen THEN "allow" ELSE "deny"
           Said(x) == IF x = "allow" THEN "allow" ELSE IF ctx = "live" THEN "deny" ELSE "cancel"
<1>1. v = "allow" => p.scope = {} \/ a.is.path \in p.scope
  <2>1. HookRequest(a).path = a.is.path
    BY DEF HookRequest
  <2> QED
    BY <2>1, Zenon DEF Verdict
<1>2. late1 = "allow" => p.failOpen
  BY Zenon
<1>3. \A x : Said(x) = "allow" => x = "allow"
  BY Zenon
<1>4. \/ RouteApprovalRequest(a, p, ctx) = {"cancel"}
      \/ ctx = "ends" /\ RouteApprovalRequest(a, p, ctx) = {Said(v), Said(late1)}
      \/ RouteApprovalRequest(a, p, ctx) = {Said(v)}
  BY Zenon DEF RouteApprovalRequest
<1> HIDE DEF v, late1, Said
<1>5. CASE RouteApprovalRequest(a, p, ctx) = {"cancel"}
  BY <1>5, Zenon
<1>6. CASE ctx = "ends" /\ RouteApprovalRequest(a, p, ctx) = {Said(v), Said(late1)}
  BY <1>1, <1>2, <1>3, <1>6, Zenon
<1>7. CASE RouteApprovalRequest(a, p, ctx) = {Said(v)}
  BY <1>1, <1>3, <1>7, Zenon
<1> QED
  BY <1>4, <1>5, <1>6, <1>7
LEMMA ReadKeeps ==
  ASSUME ItemInv, NEW m, ReadApprovalMessage(m)
  PROVE  ItemInv'
<1> DEFINE k == ItemKey(m.thread, m.turn, m.itemID)
           s == Stated(m)
           Empty == ""
<1> HIDE DEF Empty
<1>1. CacheHolds'
  BY CacheKeeps DEF ItemInv, ReadApprovalMessage
<1>2. PICK a, own, is, cache, notes, blank :
        /\ blank = Empty
        /\ a = approval' /\ cache = itemCache' /\ notes = told' /\ is = Completed(m, cache)
        /\ own = IF k \in DOMAIN notes THEN <<notes[k]>> ELSE <<>>
        /\ a = [pc |-> "queued", msg |-> m, kind |-> ApprovalKind(m), is |-> is, own |-> own, policy |-> <<>>, wire |-> blank]
  <2>1. /\ approval' = [pc |-> "queued", msg |-> m, kind |-> ApprovalKind(m), is |-> Completed(m, itemCache'),
                         own |-> IF k \in DOMAIN told' THEN <<told'[k]>> ELSE <<>>, policy |-> <<>>, wire |-> ""]
    BY Zenon DEF ReadApprovalMessage
  <2>2. PICK blank, is, own : /\ blank = Empty /\ is = Completed(m, itemCache')
                              /\ own = IF k \in DOMAIN told' THEN <<told'[k]>> ELSE <<>>
    OBVIOUS
  <2>3. approval' = [pc |-> "queued", msg |-> m, kind |-> ApprovalKind(m), is |-> is, own |-> own, policy |-> <<>>, wire |-> blank]
    BY ONLY <2>1, <2>2, Zenon DEF Empty
  <2> HIDE DEF k
  <2> QED
    BY ONLY <2>2, <2>3
<1>3. /\ \A n \in DOMAIN notes : n \in DOMAIN cache /\ cache[n] = notes[n]
      /\ \A n \in DOMAIN notes : FullKey(n)
  BY <1>1, <1>2 DEF CacheHolds
<1>4. FilledFrom(is, s, k, notes)
  <2>1. is = Completed(m, cache)
    BY ONLY <1>2
  <2> QED
    BY ONLY <1>3, <2>1, CompletedSound
<1>5. DOMAIN a = ApprovalFields /\ a.msg = m /\ a.is = is /\ a.own = own /\ a.wire = ""
  <2>1. PICK kind, none : a = [pc |-> "queued", msg |-> m, kind |-> kind, is |-> is, own |-> own, policy |-> none, wire |-> blank]
    BY ONLY <1>2, Zenon
  <2>2. DOMAIN a = ApprovalFields /\ a.msg = m /\ a.is = is /\ a.own = own /\ a.wire = blank
    BY ONLY <2>1 DEF ApprovalFields
  <2> QED
    BY ONLY <1>2, <2>2, Zenon DEF Empty
<1>6. a.wire \notin {"accept", "acceptForSession"}
  BY ONLY <1>5, Zenon
<1>7. own # <<>> => k \in DOMAIN notes /\ own[1] = notes[k]
  BY ONLY <1>2
<1> HIDE DEF k
<1>8. ApprovalSound(a)
  BY ONLY <1>4, <1>5, <1>6, <1>7, Zenon DEF ApprovalSound, FilledFrom
<1>9. approval' = NoApproval \/ ApprovalSound(approval')
  BY ONLY <1>2, <1>8
<1> QED
  BY <1>1, <1>9 DEF ItemInv

LEMMA RespondKeeps ==
  ASSUME ItemInv, NEW p, NEW ctx, NEW forSession, RespondToApproval(p, ctx, forSession)
  PROVE  ItemInv'
<1>1. approval.pc = "queued" /\ UNCHANGED <<itemCache, told>>
  BY DEF RespondToApproval
<1>2. PICK d \in RouteApprovalRequest(approval, p, ctx) :
        approval' = [approval EXCEPT !.pc = "answered", !.policy = <<p, ctx>>, !.wire = WireDecision(d, forSession)]
  BY DEF RespondToApproval
<1>3. approval # NoApproval
  <2>1. NoApproval.pc # "queued"
    BY DEF NoApproval
  <2> QED
    BY <1>1, <2>1
<1>4. PICK a, b, w : /\ a = approval /\ b = approval' /\ w = WireDecision(d, forSession)
                     /\ b = [a EXCEPT !.pc = "answered", !.policy = <<p, ctx>>, !.wire = w]
  BY <1>2
<1>5. ApprovalSound(a)
  BY <1>3, <1>4 DEF ItemInv
<1>6. DOMAIN a = ApprovalFields
  BY <1>5, Zenon DEF ApprovalSound
<1>7. /\ DOMAIN b = ApprovalFields /\ b.msg = a.msg /\ b.is = a.is /\ b.own = a.own /\ b.wire = w
      /\ b.policy[1] = p /\ b.policy[2] = ctx
  BY ONLY <1>4, <1>6 DEF ApprovalFields
<1>8. w \in {"accept", "acceptForSession"} => p.scope = {} \/ a.is.path \in p.scope \/ (p.failOpen /\ ctx = "ends")
  <2>1. w \in {"accept", "acceptForSession"} => d = "allow"
    BY <1>4, Zenon DEF WireDecision
  <2>2. d = "allow" => p.scope = {} \/ a.is.path \in p.scope \/ (p.failOpen /\ ctx = "ends")
    BY <1>2, <1>4, AcceptedOnlyIf
  <2> QED
    BY <2>1, <2>2
<1>9. ApprovalSound(b)
  <2> DEFINE s == Stated(a.msg)
             path == IF s.path # "" THEN s.path ELSE a.own[1].path
  <2>1. /\ \A f \in DOMAIN s : s[f] # "" => a.is[f] = s[f]
        /\ a.own # <<>> => (\A f \in DOMAIN s : s[f] = "" => a.is[f] \in {"", a.own[1][f]}) /\ a.is.path = path
    BY ONLY <1>5, Zenon DEF ApprovalSound
  <2>2. s = Stated(b.msg) /\ path = IF s.path # "" THEN s.path ELSE b.own[1].path
    BY ONLY <1>7, Zenon
  <2> HIDE DEF s, path
  <2>3. b.own # <<>> /\ b.wire \in {"accept", "acceptForSession"} =>
          LET q == b.policy[1] IN q.scope = {} \/ path \in q.scope \/ (q.failOpen /\ b.policy[2] = "ends")
    BY ONLY <1>7, <1>8, <2>1, Zenon
  <2>4. /\ \A f \in DOMAIN s : s[f] # "" => b.is[f] = s[f]
        /\ b.own # <<>> => (\A f \in DOMAIN s : s[f] = "" => b.is[f] \in {"", b.own[1][f]}) /\ b.is.path = path
    BY ONLY <1>7, <2>1, Zenon
  <2> QED
    BY ONLY <1>7, <2>2, <2>3, <2>4, ZenonT(60) DEF ApprovalSound
<1>10. CacheHolds'
  BY <1>1 DEF ItemInv, CacheHolds
<1> QED
  BY <1>4, <1>9, <1>10 DEF ItemInv

LEMMA ItemStep ==
  ASSUME ItemInv, [ThreadNext \/ ItemNext]_tvars
  PROVE  ItemInv'
<1>1. CASE UNCHANGED <<itemCache, told, approval>>
  BY <1>1 DEF ItemInv, CacheHolds
<1>2. CASE ThreadNext
  <2>1. UNCHANGED <<itemCache, told, approval>>
    BY <1>2 DEF ThreadNext, Call, StartThread, ResumeThread, StartTurn, InterruptTurn, CallFails, Keep
  <2> QED
    BY <1>1, <2>1, SMTT(30)
<1>3. ASSUME NEW n, Notify(n) PROVE ItemInv'
  <2>1. CacheItemState(n) /\ approval' = approval
    BY <1>3 DEF Notify
  <2>2. CacheHolds'
    BY <2>1, CacheKeeps DEF ItemInv
  <2> QED
    BY <2>1, <2>2 DEF ItemInv
<1>4. CASE TakeEvent
  BY <1>1, <1>4 DEF TakeEvent
<1> QED
  BY <1>1, <1>2, <1>3, <1>4, ReadKeeps, RespondKeeps DEF ItemNext, tvars

\* StartTurn, VerifyModelIdentity, parseApprovalRequest, RouteApprovalRequest: a
\* caller is told a model the server had named, the one it asked for unless it gave
\* leave or the turn inherits its thread's, and an approval is completed from its
\* own item and accepted only on its own path.
THEOREM AnswersAreGrounded == TSpec => []ServerGrounded
<1>1. TInit => ThreadsProven /\ CallsGrounded /\ ItemInv
  <2> SUFFICES ASSUME TInit PROVE ItemInv
    BY ThreadInit
  <2>1. DOMAIN told = {} /\ approval = NoApproval
    BY DEF TInit
  <2> QED
    BY <2>1 DEF ItemInv, CacheHolds
<1>2. ThreadsProven /\ CallsGrounded /\ ItemInv /\ [ThreadNext \/ ItemNext]_tvars => (ThreadsProven /\ CallsGrounded /\ ItemInv)'
  BY ThreadStep, ItemStep
<1>3. CallsGrounded /\ ItemInv => ServerGrounded
  <2> SUFFICES ASSUME CallsGrounded, ItemInv PROVE ServerGrounded
    OBVIOUS
  <2>1. \A c \in Clients : Grounded(tcalls[c])
    BY Zenon DEF CallsGrounded
  <2>2. approval # NoApproval => ApprovalSound(approval)
    BY Zenon DEF ItemInv
  <2> QED
    BY ONLY <2>1, <2>2, Zenon DEF ServerGrounded, Grounded, ApprovalSound
<1> QED
  BY <1>1, <1>2, <1>3, PTL DEF TSpec
-----------------------------------------------------------------------------
(* The router                                                               *)

LEMMA NothingUnset ==
  /\ Unset \notin Roles /\ Unset \notin Intents
  /\ Unset \notin {"sub", "api", "fail_closed", "same_lane_only", "no_route", "auth_mismatch", "cross_lane_prohibited",
                   "capability_not_met", "model_unavailable", "agent_api_key_prohibited", "classifier_oauth_prohibited"}
BY Zenon DEF Unset, Roles, Intents, AgentIntents

\* FirstOf: what it finds is one of the hits.
LEMMA FirstIsHit ==
  ASSUME NEW s, NEW hits, hits \subseteq Nat, FirstOf(s, hits) # <<>>
  PROVE  \E i \in hits : FirstOf(s, hits)[1] = s[i]
<1> DEFINE first == CHOOSE i \in hits : \A j \in hits : i <= j
<1>1. hits # {}
  BY DEF FirstOf
<1>2. first \in hits
  <2>1. \E i \in hits : \A j \in hits : i <= j
    BY <1>1, LeastOf
  <2> QED
    BY <2>1
<1>3. FirstOf(s, hits) = <<s[first]>>
  BY <1>1 DEF FirstOf
<1> HIDE DEF first
<1> QED
  BY <1>2, <1>3

\* What GetModel finds has the id's name; a name finds the same as another that
\* differs in case only.
LEMMA FoundModel ==
  ASSUME NEW cat, DOMAIN cat.models \subseteq Nat, NEW id
  PROVE  /\ GetModel(cat, id) # <<>> => id # NoModel /\ EqualFold(GetModel(cat, id)[1].id, id)
         /\ \A other : EqualFold(id, other) /\ id # NoModel /\ other # NoModel => GetModel(cat, id) = GetModel(cat, other)
<1> DEFINE Hits(x) == {i \in DOMAIN cat.models : x # NoModel /\ EqualFold(cat.models[i].id, x)}
<1>1. ASSUME GetModel(cat, id) # <<>> PROVE id # NoModel /\ EqualFold(GetModel(cat, id)[1].id, id)
  <2>1. FirstOf(cat.models, Hits(id)) # <<>> /\ GetModel(cat, id) = FirstOf(cat.models, Hits(id))
    BY <1>1 DEF GetModel
  <2>2. Hits(id) \subseteq Nat
    OBVIOUS
  <2>3. PICK i \in Hits(id) : FirstOf(cat.models, Hits(id))[1] = cat.models[i]
    BY ONLY <2>1, <2>2, FirstIsHit
  <2> QED
    BY <2>1, <2>3
<1>2. ASSUME NEW other, EqualFold(id, other), id # NoModel, other # NoModel
      PROVE  GetModel(cat, id) = GetModel(cat, other)
  <2>1. Hits(id) = Hits(other)
    BY <1>2 DEF EqualFold
  <2> QED
    BY <2>1 DEF GetModel
<1> QED
  BY <1>1, <1>2

\* What a resolution found in the lane's catalog: a model that catalog lists, with
\* its capabilities and, unless the request names another state, selectable.
Listed(cat, req, model, caps) ==
  model # NoModel =>
    LET entry == GetModel(cat, model)
    IN  /\ entry # <<>> /\ (entry[1].caps # {} => req.caps \subseteq entry[1].caps /\ caps = entry[1].caps)
        /\ req.supportState = Unset => IsSelectable(entry[1])
Asked(req, model) == req.model # NoModel /\ ~req.allowSubstitution => model = req.model

LEMMA CatalogModel ==
  ASSUME NEW cat, DOMAIN cat.models \subseteq Nat, NEW laneCaps, NEW req,
         NEW got, got = ResolveCatalogModel(cat, laneCaps, req), got.err = Unset
  PROVE  Listed(cat, req, got.model, got.caps) /\ Asked(req, got.model)
<1> DEFINE wanted == IF req.model # NoModel THEN req.model
                     ELSE IF DefaultModel(cat) # <<>> THEN DefaultModel(cat)[1].id
                     ELSE IF cat.models # <<>> THEN cat.models[1].id
                     ELSE NoModel
           found == GetModel(cat, wanted)
           desc == IF found = <<>> /\ req.allowSubstitution THEN GetModel(cat, req.fallbackModel) ELSE found
           supported == IF req.supportState # Unset THEN Satisfies(desc[1].state, req.supportState) ELSE IsSelectable(desc[1])
           chosen == IF found # <<>> THEN wanted ELSE desc[1].id
           caps == IF desc[1].caps # {} THEN desc[1].caps ELSE laneCaps
<1>1. got = IF wanted = NoModel THEN Chosen(NoModel, laneCaps)
            ELSE IF desc = <<>> \/ ~supported THEN Refuse("model_unavailable")
            ELSE IF desc[1].caps # {} /\ ~(req.caps \subseteq desc[1].caps) THEN Refuse("capability_not_met")
            ELSE Chosen(chosen, caps)
  BY Zenon DEF ResolveCatalogModel
<1>2. req.model # NoModel => wanted = req.model
  OBVIOUS
<1>3. found # <<>> => desc = found
  OBVIOUS
<1>4. found = <<>> /\ desc # <<>> => desc = GetModel(cat, req.fallbackModel) /\ req.allowSubstitution
  OBVIOUS
<1>5. caps = (IF desc[1].caps # {} THEN desc[1].caps ELSE laneCaps) /\ chosen = (IF found # <<>> THEN wanted ELSE desc[1].id)
      /\ (req.supportState = Unset => supported = IsSelectable(desc[1])) /\ found = GetModel(cat, wanted)
  OBVIOUS
<1> HIDE DEF wanted, found, desc, supported, chosen, caps
<1>6. \A e : Refuse(e).err = e
  BY DEF Refuse
<1>7. \A m, c : Chosen(m, c).model = m /\ Chosen(m, c).caps = c
  BY DEF Chosen
<1>8. CASE wanted = NoModel
  BY <1>1, <1>2, <1>7, <1>8 DEF Listed, Asked
<1>9. CASE wanted # NoModel
  <2>1. /\ desc # <<>> /\ supported /\ (desc[1].caps # {} => req.caps \subseteq desc[1].caps)
        /\ got.model = chosen /\ got.caps = caps
    BY <1>1, <1>6, <1>7, <1>9, NothingUnset
  <2>2. GetModel(cat, chosen) = desc \/ chosen = NoModel
    <3>1. CASE found # <<>>
      BY <1>3, <1>5, <3>1
    <3>2. CASE found = <<>>
      <4>1. desc = GetModel(cat, req.fallbackModel) /\ chosen = desc[1].id
        BY <1>4, <1>5, <2>1, <3>2
      <4>2. req.fallbackModel # NoModel /\ EqualFold(desc[1].id, req.fallbackModel)
        BY <2>1, <4>1, FoundModel
      <4> QED
        BY <4>1, <4>2, FoundModel
    <3> QED
      BY <3>1, <3>2
  <2>3. Listed(cat, req, got.model, got.caps)
    BY <1>5, <2>1, <2>2 DEF Listed
  <2>4. Asked(req, got.model)
    BY <1>2, <1>4, <1>5, <2>1 DEF Asked
  <2> QED
    BY <2>3, <2>4
<1> QED
  BY <1>8, <1>9
\* Both lanes: an enabled lane, its own catalog if it has one.
LEMMA LaneModel ==
  ASSUME NEW lane, DOMAIN lane.catalog.models \subseteq Nat, NEW req, NEW got, got.err = Unset,
         got = ResolveSubscriptionModel(lane, req) \/ got = ResolveAPIResponsesModel(lane, req)
  PROVE  /\ lane.catalog.known => Listed(lane.catalog, req, got.model, got.caps)
         /\ Asked(req, got.model)
         /\ got = ResolveSubscriptionModel(lane, req) /\ lane.auth.known => lane.auth.state = "authenticated"
<1> DEFINE InCatalog == ResolveCatalogModel(lane.catalog, lane.caps, req)
           Default(n) == Chosen(OrDefault(req.model, n), lane.caps)
<1>1. \A e : Refuse(e).err = e
  BY DEF Refuse
<1>2. \A m, c : Chosen(m, c).model = m
  BY DEF Chosen
<1>3. CASE got = ResolveSubscriptionModel(lane, req)
  <2>1. /\ lane.auth.known => lane.auth.state = "authenticated"
        /\ got = IF lane.catalog.known THEN InCatalog ELSE Default("gpt-5.3-codex")
    BY <1>1, <1>3, NothingUnset, Zenon DEF ResolveSubscriptionModel
  <2>2. CASE lane.catalog.known
    BY <2>1, <2>2, <1>3, CatalogModel
  <2>3. CASE ~lane.catalog.known
    BY <1>2, <2>1, <2>3 DEF Asked, OrDefault
  <2> QED
    BY <2>1, <2>2, <2>3
<1>4. CASE got = ResolveAPIResponsesModel(lane, req) /\ got # ResolveSubscriptionModel(lane, req)
  <2>1. got = IF lane.catalog.known THEN InCatalog
              ELSE IF lane.models # <<>> THEN ResolveListedModel(lane.models, lane.caps, req) ELSE Default("gpt-4o")
    BY <1>1, <1>4, NothingUnset, Zenon DEF ResolveAPIResponsesModel
  <2>2. CASE lane.catalog.known
    BY <2>1, <2>2, CatalogModel, <1>4
  <2>3. CASE ~lane.catalog.known /\ lane.models = <<>>
    BY <1>2, <1>4, <2>1, <2>3 DEF Asked, OrDefault
  <2>4. CASE ~lane.catalog.known /\ lane.models # <<>>
    <3>1. got = ResolveListedModel(lane.models, lane.caps, req)
      BY <2>1, <2>4
    <3>2. Asked(req, got.model)
      BY <1>1, <1>2, <3>1, NothingUnset, Zenon DEF ResolveListedModel, Asked
    <3> QED
      BY <1>4, <2>4, <3>2
  <2> QED
    BY <2>2, <2>3, <2>4
<1> QED
  BY <1>3, <1>4

\* What ResolveRouteLocked decides when it succeeds.
LEMMA Resolved ==
  ASSUME NEW r, DOMAIN r.sub.catalog.models \subseteq Nat, DOMAIN r.api.catalog.models \subseteq Nat,
         NEW req, NEW got, got = ResolveRouteLocked(r, req), got.err = Unset
  PROVE  LET d == got.dec
             cfg == IF d.lane = "sub" THEN r.sub ELSE r.api
         IN  /\ d.role = InferRole(req) /\ d.role \in Roles
             /\ d.intent = InferIntent(req, d.role) /\ d.intent \in Intents
             /\ d.lane = TargetLane(r, req, d.role) /\ d.lane \in {"sub", "api"}
             /\ d.role = "classifier" => d.lane = "api"
             /\ d.role = "agent" /\ d.lane = "api" => OptIn(r, req)
             /\ d.lane = "sub" /\ r.sub.auth.known => r.sub.auth.state = "authenticated"
             /\ d.owner = cfg.owner /\ d.billing = cfg.billing /\ d.required = req.caps
             /\ d.policy = Or(Or(req.policy, r.defaultFallback), "fail_closed")
             /\ d.fallbackAllowed = (d.policy = "same_lane_only")
             /\ cfg.catalog.known => Listed(cfg.catalog, req, d.model, d.caps)
             /\ Asked(req, d.model)
<1> DEFINE role == InferRole(req)
           intent == InferIntent(req, role)
           lane == TargetLane(r, req, role)
           cfg == IF lane = "sub" THEN r.sub ELSE r.api
           policy == Or(Or(req.policy, r.defaultFallback), "fail_closed")
           res == IF lane = "sub" THEN ResolveSubscriptionModel(r.sub, req) ELSE ResolveAPIResponsesModel(r.api, req)
           made == [lane |-> lane, owner |-> cfg.owner, mode |-> cfg.mode, model |-> res.model, required |-> req.caps, caps |-> res.caps,
                    billing |-> cfg.billing, role |-> role, intent |-> intent, policy |-> policy,
                    fallbackAllowed |-> policy = "same_lane_only"]
<1>1. \A e : Failed(e).err = e
  BY DEF Failed
<1>2. /\ role \in Roles /\ intent \in Intents /\ Isolation(r, req, role, intent) = Unset /\ lane \in {"sub", "api"}
      /\ res.err = Unset /\ got = [err |-> Unset, dec |-> made]
  <2>1. got = IF role \notin Roles \/ intent \notin Intents THEN Failed("no_route")
              ELSE IF Isolation(r, req, role, intent) # Unset THEN Failed(Isolation(r, req, role, intent))
              ELSE IF lane \notin {"sub", "api"} THEN Failed("no_route")
              ELSE IF ~CredentialFits(req, lane) THEN Failed("auth_mismatch")
              ELSE IF res.err # Unset THEN Failed(res.err)
              ELSE [err |-> Unset, dec |-> made]
    BY Zenon DEF ResolveRouteLocked
  <2> HIDE DEF role, intent, lane, cfg, policy, res, made
  <2> QED
    BY <1>1, <2>1, NothingUnset
<1>3. role = "classifier" => lane = "api"
  <2>1. Isolation(r, req, role, intent) = Unset /\ role = "classifier" => req.lane # "sub"
    BY NothingUnset, Zenon DEF Isolation
  <2>2. lane # "api" /\ role # "agent" => lane = req.lane
    BY Zenon DEF TargetLane
  <2> HIDE DEF lane, role
  <2> QED
    BY <1>2, <2>1, <2>2
<1>4. role = "agent" /\ lane = "api" => OptIn(r, req)
  <2>1. Isolation(r, req, role, intent) = Unset /\ role = "agent" /\ req.lane = "api" => OptIn(r, req)
    BY NothingUnset, Zenon DEF Isolation
  <2>2. role = "agent" /\ lane = "api" => req.lane = "api" \/ OptIn(r, req)
    BY Zenon DEF TargetLane
  <2> QED
    BY <1>2, <2>1, <2>2
<1>5. cfg = IF lane = "sub" THEN r.sub ELSE r.api
  OBVIOUS
<1>6. /\ cfg.catalog.known => Listed(cfg.catalog, req, res.model, res.caps)
      /\ Asked(req, res.model)
      /\ lane = "sub" /\ r.sub.auth.known => r.sub.auth.state = "authenticated"
  <2>1. CASE lane = "sub"
    <3>1. res = ResolveSubscriptionModel(r.sub, req) /\ cfg = r.sub
      BY <2>1
    <3> HIDE DEF res, cfg, lane
    <3> QED
      BY <1>2, <2>1, <3>1, LaneModel
  <2>2. CASE lane # "sub"
    <3>1. res = ResolveAPIResponsesModel(r.api, req) /\ cfg = r.api
      BY <2>2
    <3> HIDE DEF res, cfg, lane
    <3> QED
      BY <1>2, <2>2, <3>1, LaneModel
  <2> QED
    BY <2>1, <2>2
<1>7. PICK ro, it, la, cf, po, rs : /\ ro = role /\ it = intent /\ la = lane /\ cf = cfg /\ po = policy /\ rs = res
                                    /\ got = [err |-> Unset, dec |-> made]
  BY <1>2
<1>8. LET d == got.dec
      IN  /\ d.role = ro /\ d.intent = it /\ d.lane = la /\ d.owner = cf.owner /\ d.billing = cf.billing /\ d.required = req.caps
          /\ d.policy = po /\ d.fallbackAllowed = (po = "same_lane_only") /\ d.model = rs.model /\ d.caps = rs.caps
  <2>1. got.dec = [lane |-> la, owner |-> cf.owner, mode |-> cf.mode, model |-> rs.model, required |-> req.caps, caps |-> rs.caps,
                   billing |-> cf.billing, role |-> ro, intent |-> it, policy |-> po, fallbackAllowed |-> po = "same_lane_only"]
    BY ONLY <1>7
  <2> QED
    BY ONLY <2>1
<1>9. role = InferRole(req) /\ intent = InferIntent(req, role) /\ lane = TargetLane(r, req, role)
      /\ policy = Or(Or(req.policy, r.defaultFallback), "fail_closed")
  OBVIOUS
<1> HIDE DEF role, intent, lane, cfg, policy, res, made
<1> QED
  BY ONLY <1>2, <1>3, <1>4, <1>5, <1>6, <1>7, <1>8, <1>9
SubFields == {"owner", "mode", "billing", "auth", "catalog"}
ApiFields == {"owner", "mode", "billing", "hasKey", "catalog", "allowAgentRouting"}
RouterSound(r) == /\ DOMAIN r = {"sub", "api", "defaultFallback"} /\ SubFields \subseteq DOMAIN r.sub /\ ApiFields \subseteq DOMAIN r.api
                  /\ DOMAIN r.sub.catalog.models \subseteq Nat /\ DOMAIN r.api.catalog.models \subseteq Nat
\* What no update changes.
Static(r) == <<r.sub.owner, r.sub.billing, r.api.owner, r.api.billing, r.api.allowAgentRouting>>
CfgOf(r, lane) == IF lane = "sub" THEN r.sub ELSE r.api

\* The decision d, made of the router r for a caller whose request was req and
\* whose first decision was f.
Decided(r, req, f, d) ==
  LET entry == GetModel(CfgOf(r, d.lane).catalog, d.model)
  IN  /\ d.role \in Roles /\ d.intent \in Intents /\ d.lane \in {"sub", "api"}
      /\ d.role = "classifier" => d.lane = "api"
      /\ d.role = "agent" /\ d.lane = "api" => OptIn(r, req)
      /\ d.lane = "sub" /\ r.sub.auth.known => r.sub.auth.state = "authenticated"
      /\ d.owner = CfgOf(r, d.lane).owner /\ d.billing = CfgOf(r, d.lane).billing
      /\ d.fallbackAllowed = (d.policy = "same_lane_only")
      /\ d.role = f.role /\ d.intent = f.intent /\ d.lane = f.lane /\ d.owner = f.owner /\ d.billing = f.billing
      /\ d # f => ~EqualFold(d.model, f.model) /\ d.policy = "fail_closed" /\ f.fallbackAllowed
      /\ CfgOf(r, d.lane).catalog.known /\ d.model # NoModel =>
           /\ entry # <<>> /\ (entry[1].caps # {} => d.required \subseteq entry[1].caps /\ d.caps = entry[1].caps)
           /\ d # f \/ req.supportState = Unset => IsSelectable(entry[1])

RouteFields == {"held", "err", "req", "first", "dec", "at"}
HeldSound(r, rt) == /\ DOMAIN rt = RouteFields /\ RouterSound(rt.at) /\ Static(rt.at) = Static(r)
                    /\ rt.err = Unset => Decided(rt.at, rt.req, rt.first, rt.dec)
RouteInv == RouterSound(router) /\ (route = NoRoute \/ HeldSound(router, route))

LEMMA FirstDecided ==
  ASSUME NEW r, RouterSound(r), NEW req, NEW got, got = ResolveRouteLocked(r, req), got.err = Unset
  PROVE  Decided(r, req, got.dec, got.dec)
<1> DEFINE d == got.dec
<1>1. /\ d.role \in Roles /\ d.intent \in Intents /\ d.lane \in {"sub", "api"}
      /\ d.role = "classifier" => d.lane = "api"
      /\ d.role = "agent" /\ d.lane = "api" => OptIn(r, req)
      /\ d.lane = "sub" /\ r.sub.auth.known => r.sub.auth.state = "authenticated"
      /\ d.owner = CfgOf(r, d.lane).owner /\ d.billing = CfgOf(r, d.lane).billing /\ d.required = req.caps
      /\ d.fallbackAllowed = (d.policy = "same_lane_only")
      /\ CfgOf(r, d.lane).catalog.known => Listed(CfgOf(r, d.lane).catalog, req, d.model, d.caps)
  BY Resolved DEF RouterSound, CfgOf
<1> HIDE DEF d
<1>2. Decided(r, req, d, d)
  BY ONLY <1>1 DEF Decided, Listed
<1> QED
  BY <1>2 DEF d

LEMMA FallbackDecided ==
  ASSUME NEW r, RouterSound(r), NEW at, Static(at) = Static(r), NEW req, NEW f, NEW orig, Decided(at, req, f, orig),
         NEW opt, NEW got, got = ResolveFallbackLocked(r, orig, opt), got.err = Unset
  PROVE  Decided(r, req, f, got.dec)
<1> DEFINE again == FallbackRequest(orig, opt)
           res == ResolveRouteLocked(r, again)
           d == got.dec
<1>1. /\ orig.policy = "same_lane_only" /\ opt.model # NoModel /\ ~EqualFold(opt.model, orig.model)
      /\ res.err = Unset /\ res.dec.lane = orig.lane /\ res.dec.billing = orig.billing /\ got = res
  <2>1. \A e : Failed(e).err = e
    BY DEF Failed
  <2>2. got = IF orig.policy # "same_lane_only" THEN Failed("cross_lane_prohibited")
              ELSE IF opt.model = NoModel \/ EqualFold(opt.model, orig.model) THEN Failed("no_route")
              ELSE IF res.err # Unset THEN Failed("no_route")
              ELSE IF res.dec.lane # orig.lane \/ res.dec.billing # orig.billing THEN Failed("cross_lane_prohibited")
              ELSE res
    BY Zenon DEF ResolveFallbackLocked
  <2> HIDE DEF res
  <2> QED
    BY <2>1, <2>2, NothingUnset
<1>2. /\ again.role = orig.role /\ again.intent = orig.intent /\ again.model = opt.model /\ ~again.allowSubstitution
      /\ again.supportState = Unset /\ again.policy = "fail_closed"
  BY DEF FallbackRequest
<1>3. orig = f /\ f.fallbackAllowed
  <2>1. orig # f => orig.policy = "fail_closed"
    BY Zenon DEF Decided
  <2>2. orig.fallbackAllowed = (orig.policy = "same_lane_only")
    BY Zenon DEF Decided
  <2> QED
    BY <1>1, <2>1, <2>2
<1> HIDE DEF again, res
<1>4. Decided(r, again, d, d)
  BY <1>1, FirstDecided DEF res
<1>5. /\ d.role = InferRole(again) /\ d.intent = InferIntent(again, d.role)
      /\ d.policy = Or(Or(again.policy, r.defaultFallback), "fail_closed") /\ Asked(again, d.model)
  BY <1>1, Resolved DEF RouterSound, res
<1>6. d.role = f.role /\ d.intent = f.intent
  <2>1. orig.role # Unset /\ orig.intent # Unset
    BY NothingUnset DEF Decided
  <2> QED
    BY <1>2, <1>3, <1>5, <2>1 DEF InferRole, InferIntent
<1>7. d.policy = "fail_closed" /\ ~EqualFold(d.model, f.model)
  <2>1. d.policy = "fail_closed"
    BY <1>2, <1>5, NothingUnset DEF Or
  <2>2. d.model = opt.model
    BY <1>1, <1>2, <1>5 DEF Asked
  <2> QED
    BY <1>1, <1>3, <2>1, <2>2
<1>8. /\ CfgOf(at, f.lane).owner = CfgOf(r, f.lane).owner /\ CfgOf(at, f.lane).billing = CfgOf(r, f.lane).billing
      /\ at.api.allowAgentRouting = r.api.allowAgentRouting
  BY DEF Static, CfgOf
<1>9. d.lane = f.lane /\ d.owner = f.owner /\ d.billing = f.billing
  <2>1. d.lane = f.lane
    BY <1>1, <1>3
  <2>2. f.owner = CfgOf(at, f.lane).owner /\ f.billing = CfgOf(at, f.lane).billing
    BY <1>3, Zenon DEF Decided
  <2>3. d.owner = CfgOf(r, d.lane).owner /\ d.billing = CfgOf(r, d.lane).billing
    BY <1>4, Zenon DEF Decided
  <2> QED
    BY ONLY <1>8, <2>1, <2>2, <2>3
<1>10. d.role = "agent" /\ d.lane = "api" => OptIn(r, req)
  <2>1. d.role = "agent" /\ d.lane = "api" => OptIn(at, req)
    BY <1>3, <1>6, <1>9, Zenon DEF Decided
  <2> QED
    BY <1>8, <2>1 DEF OptIn
<1> HIDE DEF d
<1>11. Decided(r, req, f, d)
  BY ONLY <1>2, <1>3, <1>4, <1>6, <1>7, <1>9, <1>10 DEF Decided
<1> QED
  BY <1>11 DEF d
LEMMA RouteInit ==
  ASSUME RInit
  PROVE  RouteInv
<1>1. PICK c \in RouterConfigs : router = NewDualLaneRouter(c)
  BY DEF RInit
<1>2. PICK s, a, o1, m1, b1, o2, m2, b2 :
        /\ s = [c.sub EXCEPT !.owner = o1, !.mode = m1, !.billing = b1] /\ a = [c.api EXCEPT !.owner = o2, !.mode = m2, !.billing = b2]
        /\ router = [sub |-> s, api |-> a, defaultFallback |-> c.defaultFallback]
  BY <1>1, Zenon DEF NewDualLaneRouter
<1>3. /\ SubFields \subseteq DOMAIN c.sub /\ ApiFields \subseteq DOMAIN c.api
      /\ DOMAIN c.sub.catalog.models \subseteq Nat /\ DOMAIN c.api.catalog.models \subseteq Nat
  BY RouterAssumption DEF SubFields, ApiFields
<1>4. SubFields \subseteq DOMAIN s /\ ApiFields \subseteq DOMAIN a /\ s.catalog = c.sub.catalog /\ a.catalog = c.api.catalog
  BY ONLY <1>2, <1>3 DEF SubFields, ApiFields
<1>5. RouterSound(router)
  BY ONLY <1>2, <1>3, <1>4 DEF RouterSound
<1> QED
  BY <1>5 DEF RInit, RouteInv

LEMMA UpdatedRouter ==
  ASSUME NEW r, RouterSound(r), NEW v, NEW u,
         \/ u = [r EXCEPT !.sub.catalog = v] /\ DOMAIN v.models \subseteq Nat
         \/ u = [r EXCEPT !.sub.auth = v]
         \/ u = [r EXCEPT !.api.catalog = v] /\ DOMAIN v.models \subseteq Nat
         \/ u = [r EXCEPT !.api.hasKey = v]
  PROVE  RouterSound(u) /\ Static(u) = Static(r)
<1>1. CASE u = [r EXCEPT !.sub.catalog = v] /\ DOMAIN v.models \subseteq Nat
  <2>1. u.sub = [r.sub EXCEPT !.catalog = v] /\ u.api = r.api /\ DOMAIN u = DOMAIN r
    BY ONLY <1>1, RouterSound(r) DEF RouterSound
  <2> QED
    BY ONLY <1>1, <2>1, RouterSound(r) DEF RouterSound, Static, SubFields
<1>2. CASE u = [r EXCEPT !.sub.auth = v]
  <2>1. u.sub = [r.sub EXCEPT !.auth = v] /\ u.api = r.api /\ DOMAIN u = DOMAIN r
    BY ONLY <1>2, RouterSound(r) DEF RouterSound
  <2> QED
    BY ONLY <1>2, <2>1, RouterSound(r) DEF RouterSound, Static, SubFields
<1>3. CASE u = [r EXCEPT !.api.catalog = v] /\ DOMAIN v.models \subseteq Nat
  <2>1. u.api = [r.api EXCEPT !.catalog = v] /\ u.sub = r.sub /\ DOMAIN u = DOMAIN r
    BY ONLY <1>3, RouterSound(r) DEF RouterSound
  <2> QED
    BY ONLY <1>3, <2>1, RouterSound(r) DEF RouterSound, Static, ApiFields
<1>4. CASE u = [r EXCEPT !.api.hasKey = v]
  <2>1. u.api = [r.api EXCEPT !.hasKey = v] /\ u.sub = r.sub /\ DOMAIN u = DOMAIN r
    BY ONLY <1>4, RouterSound(r) DEF RouterSound
  <2> QED
    BY ONLY <1>4, <2>1, RouterSound(r) DEF RouterSound, Static, ApiFields
<1> QED
  BY <1>1, <1>2, <1>3, <1>4

LEMMA UpdateKeeps ==
  ASSUME RouteInv, NEW u, RouterSound(u), Static(u) = Static(router), Update(u)
  PROVE  RouteInv'
BY DEF Update, RouteInv, HeldSound

LEMMA ResolveKeeps ==
  ASSUME RouteInv, NEW req, ResolveRoute(req)
  PROVE  RouteInv'
<1>1. PICK got, rt, r : /\ got = ResolveRouteLocked(router, req) /\ rt = route' /\ r = router
                        /\ rt = [held |-> TRUE, err |-> got.err, req |-> req, first |-> got.dec, dec |-> got.dec, at |-> r]
  BY DEF ResolveRoute
<1>2. RouterSound(r) /\ router' = r
  BY <1>1 DEF RouteInv, ResolveRoute
<1>3. DOMAIN rt = RouteFields /\ rt.err = got.err /\ rt.req = req /\ rt.first = got.dec /\ rt.dec = got.dec /\ rt.at = r
  BY ONLY <1>1 DEF RouteFields
<1>4. got.err = Unset => Decided(r, req, got.dec, got.dec)
  BY <1>1, <1>2, FirstDecided
<1>5. HeldSound(r, rt)
  BY ONLY <1>2, <1>3, <1>4 DEF HeldSound
<1> QED
  BY ONLY <1>1, <1>2, <1>5 DEF RouteInv

LEMMA FallbackKeeps ==
  ASSUME RouteInv, NEW failed \in BOOLEAN, NEW opt, ResolveFallback(failed, opt)
  PROVE  RouteInv'
<1>1. PICK got, rt, now, r : /\ got = ResolveFallbackLocked(router, route.dec, opt) /\ rt = route /\ now = route' /\ r = router
                             /\ now = IF failed THEN [rt EXCEPT !.err = got.err, !.dec = got.dec, !.at = r] ELSE rt
  BY ZenonT(60) DEF ResolveFallback
<1>2. RouterSound(r) /\ router' = r /\ rt.held /\ rt.err = Unset
  BY <1>1 DEF RouteInv, ResolveFallback
<1>3. HeldSound(r, rt)
  BY <1>1, <1>2 DEF RouteInv, NoRoute
<1>4. CASE failed
  <2>1. /\ DOMAIN now = RouteFields /\ now.err = got.err /\ now.req = rt.req /\ now.first = rt.first /\ now.dec = got.dec /\ now.at = r
    BY ONLY <1>1, <1>3, <1>4 DEF HeldSound, RouteFields
  <2>2. Decided(rt.at, rt.req, rt.first, rt.dec) /\ Static(rt.at) = Static(r)
    BY ONLY <1>2, <1>3, Zenon DEF HeldSound
  <2>3. got.err = Unset => Decided(r, rt.req, rt.first, got.dec)
    BY ONLY <1>1, <1>2, <2>2, FallbackDecided
  <2>4. HeldSound(r, now)
    BY ONLY <1>2, <2>1, <2>3 DEF HeldSound
  <2> QED
    BY ONLY <1>1, <1>2, <2>4 DEF RouteInv
<1>5. CASE ~failed
  BY ONLY <1>1, <1>2, <1>3, <1>5 DEF RouteInv
<1> QED
  BY <1>4, <1>5

LEMMA RouteStep ==
  ASSUME RouteInv, [RNext]_rvars
  PROVE  RouteInv'
<1>0. RouterSound(router)
  BY DEF RouteInv
<1>1. CASE Forget
  BY <1>1 DEF Forget, RouteInv
<1>2. ASSUME NEW c \in Catalogs, Update([router EXCEPT !.sub.catalog = c]) \/ Update([router EXCEPT !.api.catalog = c]) PROVE RouteInv'
  <2>1. DOMAIN c.models \subseteq Nat
    BY RouterAssumption
  <2>2. PICK r, u1, u2 : r = router /\ u1 = [r EXCEPT !.sub.catalog = c] /\ u2 = [r EXCEPT !.api.catalog = c]
    OBVIOUS
  <2>3. RouterSound(u1) /\ Static(u1) = Static(router) /\ RouterSound(u2) /\ Static(u2) = Static(router)
    BY <1>0, <2>1, <2>2, UpdatedRouter
  <2>4. Update(u1) \/ Update(u2)
    BY <1>2, <2>2
  <2> QED
    BY <2>3, <2>4, UpdateKeeps
<1>3. ASSUME NEW v, Update([router EXCEPT !.sub.auth = v]) \/ Update([router EXCEPT !.api.hasKey = v]) PROVE RouteInv'
  <2>2. PICK r, u1, u2 : r = router /\ u1 = [r EXCEPT !.sub.auth = v] /\ u2 = [r EXCEPT !.api.hasKey = v]
    OBVIOUS
  <2>3. RouterSound(u1) /\ Static(u1) = Static(router) /\ RouterSound(u2) /\ Static(u2) = Static(router)
    BY <1>0, <2>2, UpdatedRouter
  <2>4. Update(u1) \/ Update(u2)
    BY <1>3, <2>2
  <2> QED
    BY <2>3, <2>4, UpdateKeeps
<1>4. CASE UNCHANGED rvars
  BY <1>4 DEF rvars, RouteInv
<1> QED
  BY <1>1, <1>2, <1>3, <1>4, ResolveKeeps, FallbackKeeps
     DEF RNext, UpdateSubscriptionCatalog, UpdateAPICatalog, UpdateSubscriptionAuth, SetAPIAvailability

\* ResolveRoute, ResolveFallback: whatever the updates between them, a route a
\* caller holds keeps to its lane's rules and its fallback to its first decision.
THEOREM RoutesIsolated == RSpec => []RouteIsolated
<1>1. RInit => RouteInv
  BY RouteInit
<1>2. RouteInv /\ [RNext]_rvars => RouteInv'
  BY RouteStep
<1>3. RouteInv => RouteIsolated
  <2> SUFFICES ASSUME RouteInv, route.held, route.err = Unset PROVE RouteIsolated
    BY Zenon DEF RouteIsolated
  <2>1. route # NoRoute
    BY DEF NoRoute
  <2>2. Decided(route.at, route.req, route.first, route.dec)
    BY <2>1, Zenon DEF RouteInv, HeldSound
  <2>3. PICK d, f, at, req : d = route.dec /\ f = route.first /\ at = route.at /\ req = route.req
    OBVIOUS
  <2>4. d # f => ~d.fallbackAllowed
    <3>1. d # f => d.policy = "fail_closed"
      BY <2>2, <2>3, Zenon DEF Decided
    <3>2. d.fallbackAllowed = (d.policy = "same_lane_only")
      BY <2>2, <2>3, Zenon DEF Decided
    <3> QED
      BY <3>1, <3>2
  <2>5. Decided(at, req, f, d)
    BY <2>2, <2>3
  <2> HIDE DEF GetModel, IsSelectable
  <2>6. LET lane == IF d.lane = "sub" THEN at.sub ELSE at.api
            entry == GetModel(lane.catalog, d.model)
        IN /\ d.role = "classifier" => d.lane = "api"
           /\ d.role = "agent" /\ d.lane = "api" => OptIn(at, req)
           /\ d.lane = "sub" /\ at.sub.auth.known => at.sub.auth.state = "authenticated"
           /\ <<d.role, d.intent, d.lane, d.owner, d.billing>> = <<f.role, f.intent, f.lane, f.owner, f.billing>>
           /\ d # f => ~EqualFold(d.model, f.model) /\ ~d.fallbackAllowed /\ f.fallbackAllowed
           /\ lane.catalog.known /\ d.model # NoModel =>
                /\ entry # <<>> /\ (entry[1].caps # {} => d.required \subseteq entry[1].caps /\ d.caps = entry[1].caps)
                /\ d # f \/ req.supportState = Unset => IsSelectable(entry[1])
    BY ONLY <2>4, <2>5, Zenon DEF Decided, CfgOf
  <2> QED
    BY ONLY <2>3, <2>6 DEF RouteIsolated
<1> QED
  BY <1>1, <1>2, <1>3, PTL DEF RSpec
-----------------------------------------------------------------------------
(* The model catalog                                                        *)

Distinct(ms) == \A i, j \in DOMAIN ms : EqualFold(ms[i].id, ms[j].id) => i = j

\* A model that GetModel does not find may be added to a list of distinct ones.
LEMMA AppendDistinct ==
  ASSUME NEW D, NEW out \in Seq(D), Distinct(out), NEW x, x.id # NoModel, GetModel([models |-> out], x.id) = <<>>
  PROVE  Distinct(Append(out, x))
<1>1. [models |-> out].models = out
  OBVIOUS
<1>2. {i \in DOMAIN out : x.id # NoModel /\ EqualFold(out[i].id, x.id)} = {}
  <2> DEFINE hits == {i \in DOMAIN out : x.id # NoModel /\ EqualFold(out[i].id, x.id)}
  <2>1. FirstOf(out, hits) = <<>>
    BY <1>1 DEF GetModel
  <2> HIDE DEF hits
  <2>2. hits = {}
    BY <2>1 DEF FirstOf
  <2> QED
    BY <2>2 DEF hits
<1>3. \A i \in DOMAIN out : out[i].id.name # x.id.name
  BY <1>2 DEF EqualFold
<1>4. PICK n \in Nat : n = Len(out) /\ DOMAIN out = 1..n
  OBVIOUS
<1>5. PICK long : long = Append(out, x)
  OBVIOUS
<1>6. DOMAIN long = 1..(n + 1) /\ long[n + 1] = x /\ \A i \in 1..n : long[i] = out[i]
  BY <1>4, <1>5
<1>7. \A i, j \in 1..n : out[i].id.name = out[j].id.name => i = j
  BY <1>4 DEF Distinct, EqualFold
<1>8. \A i, j \in DOMAIN long : long[i].id.name = long[j].id.name => i = j
  <2> TAKE i, j \in DOMAIN long
  <2>1. CASE i \in 1..n /\ j \in 1..n
    BY ONLY <1>6, <1>7, <2>1
  <2>2. CASE i \in 1..n /\ j = n + 1
    BY ONLY <1>3, <1>4, <1>6, <2>2
  <2>3. CASE i = n + 1 /\ j \in 1..n
    BY ONLY <1>3, <1>4, <1>6, <2>3
  <2> QED
    BY ONLY <1>4, <1>6, <2>1, <2>2, <2>3, i \in DOMAIN long, j \in DOMAIN long
<1> QED
  BY <1>5, <1>8 DEF Distinct, EqualFold

\* ParseModelListResponse: no two models of one name.
LEMMA ParsedDistinct ==
  ASSUME NEW raw, raw.items \in Seq(Range(raw.items))
  PROVE  Distinct(ParseModelListResponse(raw))
<1> DEFINE L == Len(raw.items)
           D == {ParseItem(raw.items[i]) : i \in 1..L}
           More(n, out) == LET i == raw.items[n] IN IF i.id = NoModel \/ GetModel([models |-> out], i.id) # <<>> THEN out
                                                    ELSE Append(out, ParseItem(i))
           Equation(f) == f = [n \in 0..L |-> IF n = 0 THEN <<>> ELSE More(n, f[n - 1])]
           parsed == CHOOSE f : Equation(f)
<1>1. ParseModelListResponse(raw) = parsed[L]
  BY Zenon DEF ParseModelListResponse
<1>2. L \in Nat
  OBVIOUS
<1>3. \A n \in 1..L : \A out \in Seq(D) : More(n, out) \in Seq(D)
  <2> TAKE n \in 1..L
  <2>1. ParseItem(raw.items[n]) \in D
    OBVIOUS
  <2> HIDE DEF D
  <2> TAKE out \in Seq(D)
  <2>2. Append(out, ParseItem(raw.items[n])) \in Seq(D)
    BY <2>1
  <2> QED
    BY <2>2
<1>4. <<>> \in Seq(D)
  OBVIOUS
<1> HIDE DEF D, More, L
<1>5. \E f : Equation(f)
  <2> DEFINE S == Seq(D)
             step == [p \in Nat \X S |-> IF p[1] < L THEN More(p[1] + 1, p[2]) ELSE p[2]]
  <2>1. step \in [Nat \X S -> S]
    BY <1>2, <1>3
  <2>2. \A n \in Nat, out \in S : n < L => step[<<n, out>>] = More(n + 1, out)
    OBVIOUS
  <2> HIDE DEF S, step
  <2>3. PICK g \in [Nat -> S] : g[0] = <<>> /\ \A n \in Nat : g[n + 1] = step[<<n, g[n]>>]
    <3>1. PICK b, st : b = <<>> /\ b \in S /\ st = step
      BY <1>4 DEF S
    <3>2. st \in [Nat \X S -> S]
      BY <2>1, <3>1
    <3>3. PICK g : Follows(g, S, b, st)
      BY ONLY <3>1, <3>2, RecursionExists
    <3> QED
      BY ONLY <3>1, <3>3 DEF Follows
  <2> DEFINE f == [n \in 0..L |-> g[n]]
  <2>4. \A n \in 0..L : f[n] = g[n]
    OBVIOUS
  <2>5. f = [n \in 0..L |-> IF n = 0 THEN <<>> ELSE More(n, g[n - 1])]
    <3>1. \A n \in 0..L : n # 0 => g[n] = More(n, g[n - 1])
      <4> SUFFICES ASSUME NEW n \in 0..L, n # 0 PROVE g[n] = More(n, g[n - 1])
        OBVIOUS
      <4>1. n - 1 \in Nat /\ n - 1 < L /\ (n - 1) + 1 = n
        BY <1>2
      <4>2. g[n - 1] \in S
        BY <2>3, <4>1
      <4> QED
        BY <2>2, <2>3, <4>1, <4>2
    <3>2. \A n \in 0..L : g[n] = IF n = 0 THEN <<>> ELSE More(n, g[n - 1])
      BY ONLY <2>3, <3>1
    <3> QED
      BY ONLY <3>2
  <2>6. \A n \in 0..L : n # 0 => f[n - 1] = g[n - 1]
    BY <1>2
  <2> HIDE DEF f
  <2>7. Equation(f)
    BY <2>5, <2>6
  <2> QED
    BY <2>7
<1> HIDE DEF Equation
<1>6. Equation(parsed)
  BY <1>5
<1> HIDE DEF parsed
<1>7. parsed[0] = <<>> /\ \A n \in 1..L : parsed[n] = More(n, parsed[n - 1])
  BY <1>2, <1>6 DEF Equation
<1> DEFINE T == {n \in Nat : n <= L => parsed[n] \in Seq(D) /\ Distinct(parsed[n])}
<1>8. 0 \in T
  <2>1. Distinct(<<>>)
    BY DEF Distinct
  <2> QED
    BY <1>4, <1>7, <2>1
<1>9. ASSUME NEW n \in Nat, n \in T PROVE n + 1 \in T
  <2> SUFFICES ASSUME n + 1 <= L PROVE parsed[n + 1] \in Seq(D) /\ Distinct(parsed[n + 1])
    OBVIOUS
  <2>1. PICK out : out = parsed[n] /\ out \in Seq(D) /\ Distinct(out)
    BY <1>2, <1>9
  <2>2. n + 1 \in 1..L /\ (n + 1) - 1 = n
    BY <1>2
  <2>3. parsed[n + 1] = More(n + 1, out)
    BY <1>7, <2>1, <2>2
  <2>4. More(n + 1, out) \in Seq(D)
    BY <1>3, <2>1, <2>2
  <2>5. Distinct(More(n + 1, out))
    <3> DEFINE i == raw.items[n + 1]
    <3>1. ParseItem(i).id = i.id
      BY DEF ParseItem
    <3>2. CASE i.id = NoModel \/ GetModel([models |-> out], i.id) # <<>>
      BY <2>1, <3>2 DEF More
    <3>3. CASE ~(i.id = NoModel \/ GetModel([models |-> out], i.id) # <<>>)
      <4>1. More(n + 1, out) = Append(out, ParseItem(i))
        BY <3>3 DEF More
      <4> HIDE DEF i
      <4>2. Distinct(Append(out, ParseItem(i)))
        BY ONLY <2>1, <3>1, <3>3, AppendDistinct
      <4> QED
        BY <4>1, <4>2
    <3> QED
      BY <3>2, <3>3
  <2> QED
    BY <2>3, <2>4, <2>5
<1> HIDE DEF T
<1>10. \A n \in Nat : n \in T
  BY <1>8, <1>9, SetInduction
<1> QED
  BY <1>1, <1>2, <1>10 DEF T
CatFields == {"pc", "auth", "force", "floor", "err", "snap"}
\* What is served is of the service's own key, and newer than all that was cleared.
ServiceSound(s) == /\ DOMAIN s = {"key", "snap", "cleared"} /\ s.cleared \in Nat
                   /\ s.snap # NoSnapshot => /\ s.snap.fetch \in Nat /\ s.snap.fetch > s.cleared
                                             /\ s.snap.of = s.key
                   /\ Distinct(s.snap.models)
\* A call began after what had been cleared by then, and what it returned is newer.
CallEntitled(k, cleared) ==
  /\ DOMAIN k = CatFields /\ k.floor \in Nat /\ k.floor <= cleared
  /\ k.pc = "done" /\ k.err = Unset => k.snap.of = CacheKeyPartition(k.auth) /\ k.snap.fetch > k.floor
CatalogInv == /\ ServiceSound(service) /\ fetches \in Nat /\ service.cleared <= fetches
              /\ DOMAIN calls = Callers /\ \A c \in Callers : CallEntitled(calls[c], service.cleared)

LEMMA CatalogInit ==
  ASSUME CInit
  PROVE  CatalogInv
<1>1. DOMAIN NoCall = CatFields /\ NoCall.floor = 0 /\ NoCall.pc = "idle"
  BY DEF NoCall, CatFields
<1>2. Distinct(NoSnapshot.models)
  BY DEF NoSnapshot, Distinct
<1>3. service = [key |-> NoKey, snap |-> NoSnapshot, cleared |-> 0] /\ fetches = 0 /\ calls = [c \in Callers |-> NoCall]
  BY DEF CInit
<1>4. ServiceSound(service)
  BY <1>2, <1>3 DEF ServiceSound
<1>5. CallEntitled(NoCall, 0)
  BY <1>1 DEF CallEntitled
<1> QED
  BY <1>3, <1>4, <1>5 DEF CatalogInv

\* What is cleared only grows, which no call minds.
LEMMA ServiceMoves ==
  ASSUME CatalogInv, NEW s, ServiceSound(s), NEW n \in Nat, s.cleared >= service.cleared, s.cleared <= n,
         service' = s, fetches' = n, NEW c \in Callers, NEW u, CallEntitled(u, s.cleared), calls' = [calls EXCEPT ![c] = u]
  PROVE  CatalogInv'
<1>1. \A d \in Callers : CallEntitled(calls[d], s.cleared)
  BY DEF CatalogInv, CallEntitled, ServiceSound
<1>2. DOMAIN calls' = Callers /\ \A d \in Callers : CallEntitled(calls'[d], s.cleared)
  BY <1>1 DEF CatalogInv
<1> QED
  BY <1>2 DEF CatalogInv

LEMMA CallMoves ==
  ASSUME CatalogInv, NEW c \in Callers, NEW u, CallEntitled(u, service.cleared), calls' = [calls EXCEPT ![c] = u],
         UNCHANGED <<service, fetches>>
  PROVE  CatalogInv'
<1>1. DOMAIN calls' = Callers /\ \A d \in Callers : CallEntitled(calls'[d], service.cleared)
  BY DEF CatalogInv
<1> QED
  BY <1>1 DEF CatalogInv

LEMMA ReturnedEntitled ==
  ASSUME NEW k, NEW cleared, CallEntitled(k, cleared), NEW err, NEW snap, NEW u,
         u = [k EXCEPT !.pc = "done", !.err = err, !.snap = snap],
         err = Unset => snap.of = CacheKeyPartition(k.auth) /\ snap.fetch > k.floor
  PROVE  CallEntitled(u, cleared)
<1>1. DOMAIN u = CatFields /\ u.floor = k.floor /\ u.auth = k.auth /\ u.err = err /\ u.snap = snap
  BY DEF CallEntitled, CatFields
<1> QED
  BY <1>1 DEF CallEntitled

LEMMA FailedEntitled ==
  ASSUME NEW k, NEW cleared, CallEntitled(k, cleared), NEW err, err # Unset, NEW snap, NEW u,
         u = [k EXCEPT !.pc = "done", !.err = err, !.snap = snap]
  PROVE  CallEntitled(u, cleared)
<1>1. DOMAIN u = CatFields /\ u.floor = k.floor /\ u.err = err
  BY DEF CallEntitled, CatFields
<1> QED
  BY <1>1 DEF CallEntitled

LEMMA PassedEntitled ==
  ASSUME NEW k, NEW cleared, CallEntitled(k, cleared), NEW pc, pc # "done", NEW u, u = [k EXCEPT !.pc = pc]
  PROVE  CallEntitled(u, cleared)
<1>1. DOMAIN u = CatFields /\ u.floor = k.floor /\ u.pc = pc
  BY DEF CallEntitled, CatFields
<1> QED
  BY <1>1 DEF CallEntitled

LEMMA ClearedSound ==
  ASSUME CatalogInv
  PROVE  ServiceSound(Cleared(service)) /\ Cleared(service).cleared = fetches
<1>1. Distinct(NoSnapshot.models)
  BY DEF NoSnapshot, Distinct
<1> QED
  BY <1>1 DEF Cleared, ServiceSound, CatalogInv

LEMMA CatalogStep ==
  ASSUME CatalogInv, [CNext]_cvars
  PROVE  CatalogInv'
<1>0. /\ ServiceSound(service) /\ fetches \in Nat /\ service.cleared <= fetches /\ service.cleared \in Nat
      /\ \A c \in Callers : CallEntitled(calls[c], service.cleared)
  BY DEF CatalogInv, ServiceSound
<1>1. ASSUME NEW c \in Callers, NEW a, NEW force, Ask(c, a, force) PROVE CatalogInv'
  <2>1. PICK n, pc, err, floor : /\ n = NoCall /\ pc = (IF a.valid THEN "enter" ELSE "done") /\ floor = service.cleared
                                 /\ err = (IF a.valid THEN Unset ELSE "invalid snapshot")
    OBVIOUS
  <2>2. PICK u : u = [n EXCEPT !.pc = pc, !.err = err, !.auth = a, !.force = force, !.floor = floor]
    OBVIOUS
  <2>3. calls' = [calls EXCEPT ![c] = u] /\ UNCHANGED <<service, fetches>>
    BY <1>1, <2>1, <2>2 DEF Ask
  <2>4. DOMAIN NoCall = CatFields
    BY DEF NoCall, CatFields
  <2>5. DOMAIN u = CatFields /\ u.pc = pc /\ u.err = err /\ u.floor = floor
    BY ONLY <2>1, <2>2, <2>4 DEF CatFields
  <2>6. "invalid snapshot" # Unset
    BY Zenon DEF Unset
  <2>7. CallEntitled(u, service.cleared)
    <3>1. ~(pc = "done" /\ err = Unset)
      <4>1. CASE a.valid
        <5>1. pc = "enter"
          BY ONLY <2>1, <4>1, Zenon
        <5> QED
          BY ONLY <5>1, Zenon
      <4>2. CASE ~a.valid
        <5>1. err = "invalid snapshot"
          BY ONLY <2>1, <4>2, Zenon
        <5> QED
          BY ONLY <2>6, <5>1, Zenon
      <4> QED
        BY ONLY <4>1, <4>2
    <3>2. floor \in Nat /\ floor <= service.cleared
      <4>1. floor = service.cleared
        BY ONLY <2>1, Zenon
      <4> QED
        BY ONLY <1>0, <4>1
    <3> QED
      BY ONLY <2>5, <3>1, <3>2 DEF CallEntitled
  <2> QED
    BY ONLY CatalogInv, <2>3, <2>7, CallMoves
<1>2. ASSUME NEW c \in Callers, Enter(c) PROVE CatalogInv'
  <2>1. CASE ClearAll /\ Returns(c, "unauthenticated", NoSnapshot)
    <3>1. PICK k, u : k = calls[c] /\ u = [k EXCEPT !.pc = "done", !.err = "unauthenticated", !.snap = NoSnapshot]
      OBVIOUS
    <3>2. calls' = [calls EXCEPT ![c] = u]
      BY <2>1, <3>1 DEF Returns, CatalogInv
    <3>3. "unauthenticated" # Unset
      BY Zenon DEF Unset
    <3>4. PICK s : s = Cleared(service) /\ ServiceSound(s) /\ s.cleared = fetches
      BY ClearedSound
    <3>5. CallEntitled(k, s.cleared)
      BY <1>0, <3>1, <3>4 DEF CallEntitled
    <3>6. CallEntitled(u, s.cleared)
      BY ONLY <3>1, <3>3, <3>5, FailedEntitled
    <3>7. service' = s /\ fetches' = fetches
      BY <1>2, <2>1, <3>4 DEF Enter, ClearAll
    <3>8. s.cleared >= service.cleared /\ s.cleared <= fetches /\ fetches \in Nat
      BY <1>0, <3>4
    <3> QED
      BY ONLY CatalogInv, <3>2, <3>4, <3>6, <3>7, <3>8, ServiceMoves
  <2>2. CASE CacheHit(c) /\ Returns(c, Unset, service.snap) /\ UNCHANGED service
    <3>1. PICK k, snap, u : k = calls[c] /\ snap = service.snap /\ u = [k EXCEPT !.pc = "done", !.err = Unset, !.snap = snap]
      OBVIOUS
    <3>2. calls' = [calls EXCEPT ![c] = u]
      BY <2>2, <3>1 DEF Returns, CatalogInv
    <3>3. snap # NoSnapshot /\ service.key = CacheKeyPartition(k.auth)
      BY <2>2, <3>1 DEF CacheHit
    <3>4. snap.of = CacheKeyPartition(k.auth)
      BY <1>0, <3>1, <3>3 DEF ServiceSound
    <3>5. CallEntitled(k, service.cleared) /\ snap.fetch > k.floor
      BY <1>0, <3>1, <3>3 DEF CallEntitled, ServiceSound
    <3>6. CallEntitled(u, service.cleared)
      BY ONLY <3>1, <3>4, <3>5, ReturnedEntitled
    <3>7. fetches' = fetches /\ service' = service
      BY <1>2, <2>2 DEF Enter
    <3> QED
      BY ONLY CatalogInv, <3>2, <3>6, <3>7, CallMoves
  <2>3. CASE calls' = [calls EXCEPT ![c].pc = "refresh"] /\ UNCHANGED service
    <3>1. PICK k, u : k = calls[c] /\ u = [k EXCEPT !.pc = "refresh"]
      OBVIOUS
    <3>2. calls' = [calls EXCEPT ![c] = u] /\ fetches' = fetches
      BY <1>2, <2>3, <3>1 DEF Enter
    <3>3. CallEntitled(u, service.cleared)
      BY <1>0, <3>1, PassedEntitled
    <3> QED
      BY ONLY CatalogInv, <2>3, <3>2, <3>3, CallMoves
  <2> QED
    BY <1>2, <2>1, <2>2, <2>3 DEF Enter
<1>3. ASSUME NEW c \in Callers, RefreshBegins(c) PROVE CatalogInv'
  <2>1. PICK k, u : k = calls[c] /\ u = [k EXCEPT !.pc = "list"]
    OBVIOUS
  <2>2. calls' = [calls EXCEPT ![c] = u] /\ UNCHANGED <<service, fetches>>
    BY <1>3, <2>1 DEF RefreshBegins
  <2>3. CallEntitled(u, service.cleared)
    BY <1>0, <2>1, PassedEntitled
  <2> QED
    BY ONLY CatalogInv, <2>2, <2>3, CallMoves
<1>4. ASSUME NEW c \in Callers, RefreshFails(c) PROVE CatalogInv'
  <2>1. PICK k, u : k = calls[c] /\ u = [k EXCEPT !.pc = "done", !.err = "model/list failed", !.snap = NoSnapshot]
    OBVIOUS
  <2>2. calls' = [calls EXCEPT ![c] = u] /\ UNCHANGED <<service, fetches>>
    BY <1>4, <2>1 DEF RefreshFails, Returns, CatalogInv
  <2>3. "model/list failed" # Unset
    BY Zenon DEF Unset
  <2>4. CallEntitled(k, service.cleared)
    BY <1>0, <2>1
  <2>5. CallEntitled(u, service.cleared)
    BY ONLY <2>1, <2>3, <2>4, FailedEntitled
  <2> QED
    BY ONLY CatalogInv, <2>2, <2>5, CallMoves
<1>5. ASSUME NEW c \in Callers, RefreshEnds(c) PROVE CatalogInv'
  <2>1. PICK raw \in Responses :
          LET snap == NewModelCatalogSnapshot(calls[c].auth, ParseModelListResponse(raw), fetches + 1)
          IN  /\ service' = [service EXCEPT !.key = CacheKeyPartition(calls[c].auth), !.snap = snap]
              /\ fetches' = fetches + 1 /\ Returns(c, Unset, snap)
    BY <1>5 DEF RefreshEnds
  <2>2. Distinct(ParseModelListResponse(raw))
    BY ParsedDistinct, ResponsesAssumption
  <2>3. PICK ms, s0, s, k, n, snap, u :
          /\ ms = ParseModelListResponse(raw) /\ s0 = service /\ s = service' /\ k = calls[c] /\ n = fetches
          /\ snap = [generation |-> k.auth.generation, scope |-> k.auth.scope, models |-> ms, fetch |-> n + 1,
                     of |-> CacheKeyPartition(k.auth)]
          /\ s = [s0 EXCEPT !.key = CacheKeyPartition(k.auth), !.snap = snap]
          /\ u = [k EXCEPT !.pc = "done", !.err = Unset, !.snap = snap]
    BY <2>1 DEF NewModelCatalogSnapshot
  <2>4. calls' = [calls EXCEPT ![c] = u]
    BY <2>1, <2>3 DEF Returns, CatalogInv, NewModelCatalogSnapshot
  <2>5. n \in Nat /\ s0.cleared \in Nat /\ s0.cleared <= n /\ ServiceSound(s0) /\ CallEntitled(k, s0.cleared)
    BY <1>0, <2>3
  <2>6. snap.of = CacheKeyPartition(k.auth) /\ snap.fetch = n + 1 /\ snap.models = ms
    BY ONLY <2>3
  <2>7. DOMAIN s = DOMAIN s0 /\ s.cleared = s0.cleared /\ s.snap = snap /\ s.key = snap.of
    BY ONLY <2>3, <2>5, <2>6 DEF ServiceSound
  <2>8. ServiceSound(s)
    BY ONLY <2>2, <2>3, <2>5, <2>6, <2>7 DEF ServiceSound
  <2>9. snap.fetch > k.floor
    BY <2>5, <2>6 DEF CallEntitled
  <2>10. CallEntitled(u, s.cleared)
    BY ONLY <2>3, <2>5, <2>6, <2>7, <2>9, ReturnedEntitled
  <2>11. s.cleared >= service.cleared /\ s.cleared <= n + 1 /\ n + 1 \in Nat /\ service' = s /\ fetches' = n + 1
    BY <2>1, <2>3, <2>5, <2>7
  <2> QED
    BY ONLY <2>4, <2>8, <2>10, <2>11, CatalogInv, ServiceMoves
<1>6. CASE Invalidate
  <2>1. PICK s : s = Cleared(service) /\ ServiceSound(s) /\ s.cleared = fetches
    BY ClearedSound
  <2>2. service' = s /\ UNCHANGED <<calls, fetches>>
    BY <1>6, <2>1 DEF Invalidate, ClearAll
  <2>3. DOMAIN calls = Callers /\ \A d \in Callers : CallEntitled(calls[d], s.cleared)
    BY <1>0, <2>1 DEF CatalogInv, CallEntitled
  <2> QED
    BY <1>0, <2>1, <2>2, <2>3 DEF CatalogInv
<1>7. CASE Expires \/ UNCHANGED cvars
  BY <1>7 DEF Expires, cvars, CatalogInv
<1> QED
  BY <1>1, <1>2, <1>3, <1>4, <1>5, <1>6, <1>7 DEF CNext

\* The lock's holder lists for the manager's partition; what is served is of it
\* once the lock is free again, unless the latest refresh failed.
LockHeld == lock # "free" => /\ lock \in Callers /\ calls[lock].pc = "list"
                             /\ partition = CacheKeyPartition(calls[lock].auth)
Admitted(k) == k.pc \in {"refresh", "list"} => k.auth.authenticated
Served == service.snap # NoSnapshot => partition # NoKey /\ (lock = "free" => service.snap.of = partition \/ refused)
ManagerInv == LockHeld /\ Served /\ \A c \in Callers : Admitted(calls[c])

LEMMA KeysAreNotEmpty ==
  ASSUME NEW a
  PROVE  CacheKeyPartition(a) # NoKey
<1>1. DOMAIN CacheKeyPartition(a) = 1..5 /\ DOMAIN NoKey = {} /\ 1 \in 1..5
  BY DEF CacheKeyPartition, NoKey
<1> QED
  BY ONLY <1>1

\* One caller moves while nobody holds the lock.
LEMMA FreeMoves ==
  ASSUME CatalogInv, ManagerInv, NEW c \in Callers, NEW u, Admitted(u), calls' = [calls EXCEPT ![c] = u],
         lock' = "free", Served'
  PROVE  ManagerInv'
<1>1. \A d \in Callers : Admitted(calls'[d])
  BY DEF ManagerInv, CatalogInv
<1> QED
  BY <1>1 DEF ManagerInv, LockHeld, Admitted

LEMMA ReturnsDone ==
  ASSUME NEW c \in Callers, c \in DOMAIN calls, DOMAIN calls[c] = CatFields, NEW err, NEW snap, Returns(c, err, snap)
  PROVE  \E u : calls' = [calls EXCEPT ![c] = u] /\ u.pc = "done"
<1>1. PICK u : u = [calls[c] EXCEPT !.pc = "done", !.err = err, !.snap = snap]
  OBVIOUS
<1>2. u.pc = "done"
  BY ONLY <1>1, DOMAIN calls[c] = CatFields DEF CatFields
<1>3. calls' = [calls EXCEPT ![c] = u]
  BY <1>1 DEF Returns
<1> QED
  BY <1>2, <1>3

LEMMA ManagerStep ==
  ASSUME CatalogInv, ManagerInv, [CNext]_cvars
  PROVE  ManagerInv'
<1>0. /\ DOMAIN calls = Callers /\ \A c \in Callers : DOMAIN calls[c] = CatFields /\ Admitted(calls[c])
      /\ Served /\ LockHeld /\ "free" \notin Callers
  BY CallersAssumption DEF CatalogInv, ManagerInv, CallEntitled
<1>1. ASSUME NEW c \in Callers, NEW a, NEW force, Ask(c, a, force) PROVE ManagerInv'
  <2>1. calls[c].pc # "list" /\ UNCHANGED <<service, partition, lock, refused>>
    BY <1>1 DEF Ask
  <2>2. PICK u : /\ calls' = [calls EXCEPT ![c] = u]
                 /\ u = [NoCall EXCEPT !.pc = IF a.valid THEN "enter" ELSE "done", !.err = IF a.valid THEN Unset ELSE "invalid snapshot",
                                       !.auth = a, !.force = force, !.floor = service.cleared]
    BY <1>1 DEF Ask
  <2>3. u.pc \in {"enter", "done"}
    BY <2>2 DEF NoCall
  <2>4. \A d \in Callers : Admitted(calls'[d]) /\ (d # c => calls'[d] = calls[d])
    BY <1>0, <2>2, <2>3 DEF Admitted
  <2>5. LockHeld'
    BY <1>0, <2>1, <2>4 DEF LockHeld
  <2> QED
    BY <1>0, <2>1, <2>4, <2>5 DEF ManagerInv, Served
<1>2. ASSUME NEW c \in Callers, Enter(c) PROVE ManagerInv'
  <2>1. lock = "free" /\ lock' = "free" /\ refused' = refused
    BY <1>2 DEF Enter
  <2>2. CASE ClearAll /\ Returns(c, "unauthenticated", NoSnapshot)
    <3>1. PICK u : calls' = [calls EXCEPT ![c] = u] /\ u.pc = "done"
      BY <1>0, <2>2, ReturnsDone
    <3>2. service'.snap = NoSnapshot
      BY <2>2 DEF ClearAll, Cleared
    <3> QED
      BY <2>1, <3>1, <3>2, FreeMoves DEF Served, Admitted
  <2>3. CASE /\ UNCHANGED <<service, partition>>
             /\ \/ Returns(c, Unset, service.snap)
                \/ calls[c].auth.authenticated /\ calls' = [calls EXCEPT ![c].pc = "refresh"]
    <3>1. PICK u : calls' = [calls EXCEPT ![c] = u] /\ Admitted(u)
      <4>1. CASE Returns(c, Unset, service.snap)
        <5>1. PICK u : calls' = [calls EXCEPT ![c] = u] /\ u.pc = "done"
          BY <1>0, <4>1, ReturnsDone
        <5> QED
          BY <5>1 DEF Admitted
      <4>2. CASE calls[c].auth.authenticated /\ calls' = [calls EXCEPT ![c].pc = "refresh"]
        <5>1. PICK u : u = [calls[c] EXCEPT !.pc = "refresh"]
          OBVIOUS
        <5>2. calls' = [calls EXCEPT ![c] = u] /\ u.auth = calls[c].auth
          BY <1>0, <4>2, <5>1 DEF CatFields
        <5> QED
          BY <4>2, <5>2 DEF Admitted
      <4> QED
        BY <2>3, <4>1, <4>2
    <3>2. Served'
      BY <1>0, <2>1, <2>3 DEF Served
    <3> QED
      BY <2>1, <3>1, <3>2, FreeMoves
  <2> QED
    BY <1>2, <2>2, <2>3 DEF Enter
<1>3. ASSUME NEW c \in Callers, RefreshBegins(c) PROVE ManagerInv'
  <2>1. PICK u : u = [calls[c] EXCEPT !.pc = "list"]
    OBVIOUS
  <2>2. calls' = [calls EXCEPT ![c] = u] /\ u.pc = "list" /\ u.auth = calls[c].auth
    BY <1>0, <1>3, <2>1 DEF RefreshBegins, CatFields
  <2>3. calls[c].auth.authenticated
    BY <1>0, <1>3 DEF RefreshBegins, Admitted
  <2>4. partition' = CacheKeyPartition(u.auth) /\ lock' = c /\ service' = service
    BY <1>3, <2>2, <2>3 DEF RefreshBegins, UpdateSnapshot
  <2>5. \A d \in Callers : Admitted(calls'[d])
    BY <1>0, <2>2, <2>3 DEF Admitted
  <2>6. LockHeld'
    BY <1>0, <2>2, <2>4 DEF LockHeld
  <2>7. Served'
    BY <1>0, <2>4, KeysAreNotEmpty DEF Served
  <2> QED
    BY <2>5, <2>6, <2>7 DEF ManagerInv
<1>4. ASSUME NEW c \in Callers, RefreshFails(c) PROVE ManagerInv'
  <2>1. PICK u : calls' = [calls EXCEPT ![c] = u] /\ u.pc = "done"
    BY <1>0, <1>4, ReturnsDone DEF RefreshFails
  <2>2. lock' = "free" /\ refused' /\ UNCHANGED <<service, partition>>
    BY <1>4 DEF RefreshFails
  <2> QED
    BY <1>0, <2>1, <2>2, FreeMoves DEF Served, Admitted
<1>5. ASSUME NEW c \in Callers, RefreshEnds(c) PROVE ManagerInv'
  <2>1. PICK snap :
          /\ \E models : snap = NewModelCatalogSnapshot(calls[c].auth, models, fetches + 1)
          /\ service' = [service EXCEPT !.key = CacheKeyPartition(calls[c].auth), !.snap = snap]
          /\ lock = c /\ lock' = "free" /\ Returns(c, Unset, snap) /\ UNCHANGED partition
    BY <1>5 DEF RefreshEnds
  <2>3. PICK u : calls' = [calls EXCEPT ![c] = u] /\ u.pc = "done"
    BY <1>0, <2>1, ReturnsDone
  <2>4. snap.of = CacheKeyPartition(calls[c].auth)
    BY <2>1 DEF NewModelCatalogSnapshot
  <2>5. service'.snap = snap
    BY <2>1 DEF CatalogInv, ServiceSound
  <2>6. partition = CacheKeyPartition(calls[c].auth)
    BY <1>0, <2>1 DEF LockHeld
  <2> QED
    BY <2>1, <2>3, <2>4, <2>5, <2>6, KeysAreNotEmpty, FreeMoves DEF Served, Admitted
<1>6. CASE Invalidate
  BY <1>0, <1>6 DEF Invalidate, ClearAll, Cleared, ManagerInv, LockHeld, Served
<1>7. CASE Expires \/ UNCHANGED cvars
  BY <1>0, <1>7 DEF Expires, cvars, ManagerInv, LockHeld, Served
<1> QED
  BY <1>1, <1>2, <1>3, <1>4, <1>5, <1>6, <1>7 DEF CNext

\* Discover, Refresh, Invalidate: however callers of several accounts overlap,
\* each is answered from its own partition and not from what was cleared before,
\* and the service serves the manager's partition unless the latest refresh failed.
THEOREM CatalogIsEntitled == CSpec => []CatalogEntitled
<1>1. CInit => CatalogInv /\ ManagerInv
  <2> SUFFICES ASSUME CInit PROVE ManagerInv
    BY CatalogInit
  <2>1. \A c \in Callers : calls[c].pc = "idle"
    BY DEF CInit, NoCall
  <2> QED
    BY <2>1 DEF CInit, ManagerInv, LockHeld, Served, Admitted
<1>2. CatalogInv /\ ManagerInv /\ [CNext]_cvars => CatalogInv' /\ ManagerInv'
  BY CatalogStep, ManagerStep
<1>3. CatalogInv /\ ManagerInv => CatalogEntitled
  <2> SUFFICES ASSUME CatalogInv, ManagerInv PROVE CatalogEntitled
    OBVIOUS
  <2>1. Distinct(CurrentModels(service, expired))
    BY DEF CurrentModels, CatalogInv, ServiceSound, Distinct
  <2>2. \A c \in Callers : calls[c].pc = "done" /\ calls[c].err = Unset =>
          calls[c].snap.of = CacheKeyPartition(calls[c].auth) /\ calls[c].snap.fetch > calls[c].floor
    BY DEF CatalogInv, CallEntitled
  <2>3. service.snap # NoSnapshot /\ lock = "free" => partition # NoKey /\ (service.snap.of = partition \/ refused)
    BY DEF ManagerInv, Served
  <2> QED
    BY <2>1, <2>2, <2>3 DEF CatalogEntitled, Distinct
<1> QED
  BY <1>1, <1>2, <1>3, PTL DEF CSpec
-----------------------------------------------------------------------------
(* Hook files                                                               *)

\* DropOwned keeps what is not ours, and nothing that is.
LEMMA DropKeeps ==
  ASSUME NEW m, NEW entries \in Seq(Groups)
  PROVE  /\ DropOwned(m, entries) \in Seq(Groups)
         /\ \A i \in DOMAIN DropOwned(m, entries) : ~IsOwned(m, DropOwned(m, entries)[i])
         /\ \A i \in DOMAIN entries : IsOwned(m, entries[i]) \/ \E j \in DOMAIN DropOwned(m, entries) : DropOwned(m, entries)[j] = entries[i]
<1> DEFINE L == Len(entries)
           More(n, out) == IF IsOwned(m, entries[n]) THEN out ELSE Append(out, entries[n])
           Equation(f) == f = [n \in 0..L |-> IF n = 0 THEN <<>> ELSE More(n, f[n - 1])]
           kept == CHOOSE f : Equation(f)
           Holds(n, out) == /\ out \in Seq(Groups)
                            /\ \A i \in DOMAIN out : ~IsOwned(m, out[i])
                            /\ \A i \in 1..n : IsOwned(m, entries[i]) \/ \E j \in DOMAIN out : out[j] = entries[i]
<1>1. DropOwned(m, entries) = kept[L]
  BY Zenon DEF DropOwned
<1>2. L \in Nat /\ DOMAIN entries = 1..L /\ \A n \in 1..L : entries[n] \in Groups
  OBVIOUS
<1> HIDE DEF L
<1>3. \A n \in 1..L : \A out \in Seq(Groups) : More(n, out) \in Seq(Groups)
  <2> TAKE n \in 1..L
  <2> TAKE out \in Seq(Groups)
  <2>1. Append(out, entries[n]) \in Seq(Groups)
    BY <1>2
  <2> QED
    BY <2>1
<1>4. <<>> \in Seq(Groups)
  OBVIOUS
<1>5. ASSUME NEW n \in Nat, n + 1 <= L, NEW out, Holds(n, out) PROVE Holds(n + 1, More(n + 1, out))
  <2>1. CASE IsOwned(m, entries[n + 1])
    <3>1. More(n + 1, out) = out
      BY <2>1
    <3>2. \A i \in 1..(n + 1) : i \in 1..n \/ i = n + 1
      OBVIOUS
    <3> HIDE DEF More
    <3> QED
      BY ONLY <1>5, <2>1, <3>1, <3>2
  <2>2. CASE ~IsOwned(m, entries[n + 1])
    <3> DEFINE x == entries[n + 1]
               k == Len(out)
               long == Append(out, x)
    <3>1. More(n + 1, out) = long
      BY <2>2
    <3>2. x \in Groups /\ out \in Seq(Groups)
      BY <1>2, <1>5
    <3> HIDE DEF x, More
    <3>3. /\ k \in Nat /\ DOMAIN out = 1..k /\ long \in Seq(Groups) /\ DOMAIN long = 1..(k + 1)
          /\ long[k + 1] = x /\ \A j \in 1..k : long[j] = out[j]
      BY <3>2
    <3> HIDE DEF k, long
    <3>4. \A i \in DOMAIN long : ~IsOwned(m, long[i])
      <4> TAKE i \in DOMAIN long
      <4>1. i \in 1..k \/ i = k + 1
        BY <3>3
      <4>2. CASE i \in 1..k
        BY <1>5, <3>3, <4>2
      <4>3. CASE i = k + 1
        BY <2>2, <3>3, <4>3 DEF x
      <4> QED
        BY <4>1, <4>2, <4>3
    <3>5. \A i \in 1..(n + 1) : IsOwned(m, entries[i]) \/ \E j \in DOMAIN long : long[j] = entries[i]
      <4> TAKE i \in 1..(n + 1)
      <4>1. CASE i = n + 1
        <5>1. k + 1 \in DOMAIN long
          BY <3>3
        <5> QED
          BY <3>3, <4>1, <5>1 DEF x
      <4>2. CASE i \in 1..n
        <5>1. \A j \in DOMAIN out : j \in DOMAIN long /\ long[j] = out[j]
          BY <3>3
        <5> QED
          BY <1>5, <4>2, <5>1
      <4> QED
        BY <4>1, <4>2
    <3> QED
      BY <3>1, <3>3, <3>4, <3>5
  <2> QED
    BY <2>1, <2>2
<1> HIDE DEF More
<1>6. \E f : Equation(f)
  <2> DEFINE S == Seq(Groups)
             step == [p \in Nat \X S |-> IF p[1] < L THEN More(p[1] + 1, p[2]) ELSE p[2]]
  <2>1. step \in [Nat \X S -> S]
    BY <1>2, <1>3
  <2>2. \A n \in Nat, out \in S : n < L => step[<<n, out>>] = More(n + 1, out)
    OBVIOUS
  <2> HIDE DEF S, step
  <2>3. PICK g \in [Nat -> S] : g[0] = <<>> /\ \A n \in Nat : g[n + 1] = step[<<n, g[n]>>]
    <3>1. PICK b, st : b = <<>> /\ b \in S /\ st = step
      BY <1>4 DEF S
    <3>2. st \in [Nat \X S -> S]
      BY <2>1, <3>1
    <3>3. PICK g : Follows(g, S, b, st)
      BY ONLY <3>1, <3>2, RecursionExists
    <3> QED
      BY ONLY <3>1, <3>3 DEF Follows
  <2> DEFINE f == [n \in 0..L |-> g[n]]
  <2>4. f = [n \in 0..L |-> IF n = 0 THEN <<>> ELSE More(n, g[n - 1])]
    <3>1. \A n \in 0..L : n # 0 => g[n] = More(n, g[n - 1])
      <4> SUFFICES ASSUME NEW n \in 0..L, n # 0 PROVE g[n] = More(n, g[n - 1])
        OBVIOUS
      <4>1. n - 1 \in Nat /\ n - 1 < L /\ (n - 1) + 1 = n
        BY <1>2
      <4>2. g[n - 1] \in S
        BY <2>3, <4>1
      <4> QED
        BY <2>2, <2>3, <4>1, <4>2
    <3>2. \A n \in 0..L : g[n] = IF n = 0 THEN <<>> ELSE More(n, g[n - 1])
      BY ONLY <2>3, <3>1
    <3> QED
      BY ONLY <3>2
  <2>5. \A n \in 0..L : n # 0 => f[n - 1] = g[n - 1]
    BY <1>2
  <2> HIDE DEF f
  <2>6. Equation(f)
    BY <2>4, <2>5
  <2> QED
    BY <2>6
<1> HIDE DEF Equation
<1>7. Equation(kept)
  BY <1>6
<1> HIDE DEF kept
<1>8. kept[0] = <<>> /\ \A n \in 1..L : kept[n] = More(n, kept[n - 1])
  BY <1>2, <1>7 DEF Equation
<1> DEFINE T == {n \in Nat : n <= L => Holds(n, kept[n])}
<1>9. 0 \in T
  <2>1. Holds(0, <<>>)
    BY <1>4
  <2> QED
    BY <1>8, <2>1
<1> HIDE DEF Holds
<1>10. ASSUME NEW n \in Nat, n \in T PROVE n + 1 \in T
  <2> SUFFICES ASSUME n + 1 <= L PROVE Holds(n + 1, kept[n + 1])
    OBVIOUS
  <2>1. Holds(n, kept[n])
    BY <1>2, <1>10
  <2>2. n + 1 \in 1..L /\ (n + 1) - 1 = n
    BY <1>2
  <2>3. kept[n + 1] = More(n + 1, kept[n])
    BY <1>8, <2>2
  <2> QED
    BY <1>5, <2>1, <2>3
<1>11. \A n \in Nat : n \in T
  <2> HIDE DEF T
  <2> QED
    BY <1>9, <1>10, SetInduction
<1> QED
  BY <1>1, <1>2, <1>11 DEF Holds
Texts == {"absent", "link", "empty", "malformed", "json"}
Shapes == {"absent", "array", "other"}

\* The hook h stands in the file f, in an entry of ours in the second case.
Stands(f, h) == \E e \in HookEvents : \E i \in DOMAIN f.events[e].entries : h \in f.events[e].entries[i].user
StandsWithOurs(m, f, h) == \E e \in HookEvents : \E i \in DOMAIN f.events[e].entries :
                             h \in f.events[e].entries[i].user /\ IsOwned(m, f.events[e].entries[i])

LEMMA UserHooksStand ==
  ASSUME NEW f, NEW h
  PROVE  h \in UserHooks(f) <=> Stands(f, h)
<1>1. \A e \in HookEvents : ToSet(f.events[e].entries) = {f.events[e].entries[i] : i \in DOMAIN f.events[e].entries}
  BY DEF ToSet
<1>2. h \in UserHooks(f) <=> \E e \in HookEvents : \E x \in ToSet(f.events[e].entries) : h \in x.user
  BY DEF UserHooks
<1>3. \A e \in HookEvents : (\E x \in ToSet(f.events[e].entries) : h \in x.user)
                           <=> \E i \in DOMAIN f.events[e].entries : h \in f.events[e].entries[i].user
  <2> TAKE e \in HookEvents
  <2> DEFINE s == f.events[e].entries
  <2>1. ToSet(s) = {s[i] : i \in DOMAIN s}
    BY <1>1
  <2> HIDE DEF s
  <2>2. (\E x \in ToSet(s) : h \in x.user) <=> \E i \in DOMAIN s : h \in s[i].user
    BY ONLY <2>1
  <2> QED
    BY <2>2 DEF s
<1> QED
  BY ONLY <1>2, <1>3 DEF Stands

LEMMA SharedStands ==
  ASSUME NEW l
  PROVE  Shared(l) <=> StandsWithOurs(manager, l.before, l.hook)
<1>1. \A e \in HookEvents : ToSet(l.before.events[e].entries) = {l.before.events[e].entries[i] : i \in DOMAIN l.before.events[e].entries}
  BY DEF ToSet
<1>2. \A e \in HookEvents : (\E x \in ToSet(l.before.events[e].entries) : l.hook \in x.user /\ IsOwned(manager, x))
                           <=> \E i \in DOMAIN l.before.events[e].entries : /\ l.hook \in l.before.events[e].entries[i].user
                                                                          /\ IsOwned(manager, l.before.events[e].entries[i])
  <2> TAKE e \in HookEvents
  <2> DEFINE s == l.before.events[e].entries
  <2>1. ToSet(s) = {s[i] : i \in DOMAIN s}
    BY <1>1
  <2> HIDE DEF s
  <2>2. (\E x \in ToSet(s) : l.hook \in x.user /\ IsOwned(manager, x)) <=> \E i \in DOMAIN s : l.hook \in s[i].user /\ IsOwned(manager, s[i])
    BY ONLY <2>1
  <2> QED
    BY <2>2 DEF s
<1> QED
  BY ONLY <1>2 DEF Shared, StandsWithOurs

\* A file once read, less its stamp.
Parsed(r) == /\ r \in Files /\ r.text = "json"
             /\ \A e \in HookEvents : r.hooks # "object" \/ r.events[e].shape # "array" => r.events[e].entries = <<>>

LEMMA AbsentIsFile == Absent \in Files /\ Proper(Absent) /\ Absent.text = "absent" /\ Absent.stamp = 0
                      /\ \A e \in HookEvents : Absent.events[e].entries = <<>>
<1>1. NoEvents \in [HookEvents -> [shape : Shapes, entries : Seq(Groups)]]
  BY DEF NoEvents, Shapes
<1>2. NoText \in Written
  BY DEF Written
<1>3. \A e \in HookEvents : NoEvents[e].entries = <<>>
  BY DEF NoEvents
<1>4. PICK n : n = NoEvents
  OBVIOUS
<1>5. PICK t : t = NoText
  OBVIOUS
<1>6. Absent = [text |-> "absent", hooks |-> "absent", events |-> n, owner |-> FALSE, hash |-> t, stamp |-> 0]
  BY <1>4, <1>5 DEF Absent
<1>7. Absent \in Files
  BY <1>1, <1>2, <1>4, <1>5, <1>6 DEF Files, Shapes
<1>8. Absent.text = "absent" /\ Absent.stamp = 0 /\ Absent.hooks = "absent" /\ \A e \in HookEvents : Absent.events[e].entries = <<>>
  BY <1>3, <1>4, <1>6
<1> QED
  BY <1>7, <1>8 DEF Proper

LEMMA EmptyRootParsed == Parsed(EmptyRoot) /\ EmptyRoot.hooks = "absent" /\ \A h : ~Stands(EmptyRoot, h)
<1>1. EmptyRoot \in Files /\ EmptyRoot.text = "json" /\ EmptyRoot.events = Absent.events /\ EmptyRoot.hooks = Absent.hooks
  BY AbsentIsFile DEF EmptyRoot, Files
<1>2. Absent.hooks = "absent"
  BY DEF Absent
<1> QED
  BY <1>1, <1>2, AbsentIsFile DEF Parsed, Stands

LEMMA ContentOf ==
  ASSUME NEW f \in Files
  PROVE  /\ Content(f) \in Files /\ Content(f).text = f.text /\ Content(f).hooks = f.hooks
         /\ Content(f).events = f.events /\ Content(f).owner = f.owner /\ Content(f).hash = f.hash
BY DEF Content, Files

\* What the manager m plans on is what stands in the file.
LEMMA ReadIsParsed ==
  ASSUME NEW m, NEW f \in Files, Proper(f), f.text # "link", ParseRoot(m, f) # Absent
  PROVE  LET r == ParseRoot(m, f)
         IN  /\ Parsed(r) /\ \A e \in HookEvents : r.events[e].entries = f.events[e].entries
             /\ f.text = "json" => r = Content(f)
             /\ f.text # "json" => r = EmptyRoot
<1>1. CASE f.text = "json"
  <2>1. ParseRoot(m, f) = Content(f)
    BY <1>1 DEF ParseRoot
  <2> QED
    BY <1>1, <2>1, ContentOf DEF Parsed, Proper
<1>2. CASE f.text # "json"
  <2>1. ParseRoot(m, f) = EmptyRoot
    BY <1>2 DEF ParseRoot, Files
  <2>2. f.hooks = "absent" /\ \A e \in HookEvents : f.events[e].entries = <<>>
    BY <1>2 DEF Proper
  <2>3. EmptyRoot.hooks # "object"
    BY EmptyRootParsed
  <2>4. \A e \in HookEvents : EmptyRoot.events[e].entries = <<>>
    BY <2>3, EmptyRootParsed DEF Parsed
  <2> QED
    BY <1>2, <2>1, <2>2, <2>4, EmptyRootParsed
<1> QED
  BY <1>1, <1>2
LEMMA EntriesAre ==
  ASSUME NEW r, Parsed(r), NEW e \in HookEvents
  PROVE  Entries(r, e) = r.events[e].entries /\ r.events[e].entries \in Seq(Groups)
BY DEF Entries, Parsed, Files

LEMMA ManagedEvents ==
  ASSUME NEW m \in Managers
  PROVE  /\ m \in {"claude", "codex", "grok"} /\ "PreToolUse" \in Managed(m) /\ Managed(m) \subseteq HookEvents
         /\ m # "claude" => Managed(m) = HookEvents
BY FileAssumption DEF Managed

LEMMA OwnedEntryIs ==
  ASSUME NEW m, NEW c \in Commands
  PROVE  /\ OwnedEntry(m, c) \in Groups /\ IsOwned(m, OwnedEntry(m, c)) /\ OwnedEntry(m, c).mark
         /\ OwnedEntry(m, c).ok /\ OwnedEntry(m, c).command = c /\ c # NoText
BY FileAssumption DEF OwnedEntry, Groups, Written, IsOwned

\* What Install writes for the manager m: what is not ours and one entry of ours.
LEMMA InstalledDoc ==
  ASSUME NEW m \in Managers, NEW r, Parsed(r), NEW c \in Commands, m = "claude" => r.hooks # "other"
  PROVE  LET d == Installed(m, r, c)
         IN  /\ Parsed(d) /\ d.hooks = "object" /\ d.stamp = r.stamp
             /\ \A e \in Managed(m) : /\ d.events[e].shape = "array"
                                      /\ d.events[e].entries = Append(DropOwned(m, r.events[e].entries), OwnedEntry(m, c))
             /\ \A e \in HookEvents \ Managed(m) : d.events[e] = r.events[e]
             /\ m = "codex" => d.hash = c
<1> DEFINE New(e) == [shape |-> "array", entries |-> Append(DropOwned(m, Entries(r, e)), OwnedEntry(m, c))]
           d == Installed(m, r, c)
           evs == [e \in HookEvents |-> IF e \in Managed(m) THEN New(e) ELSE r.events[e]]
<1>1. r \in Files /\ r.text = "json" /\ r.events \in [HookEvents -> [shape : Shapes, entries : Seq(Groups)]]
  BY DEF Parsed, Files, Shapes
<1>2. \A e \in HookEvents : New(e) \in [shape : Shapes, entries : Seq(Groups)]
  <2> TAKE e \in HookEvents
  <2>1. DropOwned(m, Entries(r, e)) \in Seq(Groups)
    BY EntriesAre, DropKeeps
  <2>2. OwnedEntry(m, c) \in Groups
    BY OwnedEntryIs
  <2>3. Append(DropOwned(m, Entries(r, e)), OwnedEntry(m, c)) \in Seq(Groups)
    BY <2>1, <2>2
  <2> QED
    BY <2>3 DEF Shapes
<1>3. \A e \in HookEvents : New(e).shape = "array" /\ New(e).entries = Append(DropOwned(m, r.events[e].entries), OwnedEntry(m, c))
  BY EntriesAre
<1> HIDE DEF New
<1>4. evs \in [HookEvents -> [shape : Shapes, entries : Seq(Groups)]]
  BY <1>1, <1>2
<1>5. c \in Written
  BY DEF Written
<1>6. d = [r EXCEPT !.hooks = "object", !.events = evs, !.owner = (m = "codex") \/ @, !.hash = IF m = "codex" THEN c ELSE @]
  BY DEF Installed, New
<1>7. \A e \in HookEvents : evs[e] = IF e \in Managed(m) THEN New(e) ELSE r.events[e]
  OBVIOUS
<1> HIDE DEF d, evs
<1>8. /\ d \in Files /\ d.text = "json" /\ d.hooks = "object" /\ d.events = evs /\ d.stamp = r.stamp
      /\ m = "codex" => d.hash = c
  BY <1>1, <1>4, <1>5, <1>6 DEF Files, Shapes
<1>9. \A e \in HookEvents : d.events[e].shape # "array" => d.events[e].entries = <<>>
  <2> TAKE e \in HookEvents
  <2>1. CASE e \in Managed(m)
    BY <1>3, <1>7, <1>8, <2>1
  <2>2. CASE e \notin Managed(m)
    BY <1>7, <1>8, <2>2 DEF Parsed
  <2> QED
    BY <2>1, <2>2
<1>10. Managed(m) \subseteq HookEvents
  BY ManagedEvents
<1>11. Parsed(d)
  BY <1>8, <1>9 DEF Parsed
<1> QED
  BY <1>3, <1>7, <1>8, <1>10, <1>11 DEF d

\* What Uninstall writes: what is not ours.
LEMMA UninstalledDoc ==
  ASSUME NEW m \in Managers, NEW r, Parsed(r)
  PROVE  LET d == Uninstalled(m, r)
         IN  /\ Parsed(d) /\ d.stamp = r.stamp
             /\ \A e \in Managed(m) : d.events[e].entries = IF r.hooks = "object" THEN DropOwned(m, r.events[e].entries) ELSE <<>>
             /\ \A e \in HookEvents \ Managed(m) : d.events[e] = r.events[e]
             /\ r.hooks # "object" => d.events = r.events
<1> DEFINE Left(e) == DropOwned(m, Entries(r, e))
           New(e) == [shape |-> IF Left(e) = <<>> /\ m = "codex" THEN "absent" ELSE "array", entries |-> Left(e)]
           d == Uninstalled(m, r)
           evs == [e \in HookEvents |-> IF r.hooks = "object" /\ e \in Managed(m) THEN New(e) ELSE r.events[e]]
<1>1. r \in Files /\ r.text = "json" /\ r.events \in [HookEvents -> [shape : Shapes, entries : Seq(Groups)]]
  BY DEF Parsed, Files, Shapes
<1>2. \A e \in HookEvents : Left(e) \in Seq(Groups) /\ Left(e) = DropOwned(m, r.events[e].entries)
  BY EntriesAre, DropKeeps
<1>3. d = [r EXCEPT !.events = evs, !.owner = @ /\ m # "codex", !.hash = IF m = "codex" THEN NoText ELSE @]
  BY DEF Uninstalled
<1> HIDE DEF Left
<1>4. \A e \in HookEvents : New(e) \in [shape : Shapes, entries : Seq(Groups)]
  BY <1>2 DEF Shapes
<1>5. \A e \in HookEvents : New(e).entries = Left(e) /\ (New(e).shape # "array" => New(e).entries = <<>>)
  OBVIOUS
<1> HIDE DEF New
<1>6. evs \in [HookEvents -> [shape : Shapes, entries : Seq(Groups)]]
  BY <1>1, <1>4
<1>7. NoText \in Written
  BY DEF Written
<1>8. \A e \in HookEvents : evs[e] = IF r.hooks = "object" /\ e \in Managed(m) THEN New(e) ELSE r.events[e]
  OBVIOUS
<1> HIDE DEF d, evs
<1>9. d \in Files /\ d.text = "json" /\ d.hooks = r.hooks /\ d.events = evs /\ d.stamp = r.stamp
  BY <1>1, <1>3, <1>6, <1>7 DEF Files, Shapes
<1>10. \A e \in HookEvents : d.hooks # "object" \/ d.events[e].shape # "array" => d.events[e].entries = <<>>
  <2> TAKE e \in HookEvents
  <2>1. CASE r.hooks = "object" /\ e \in Managed(m)
    BY <1>5, <1>8, <1>9, <2>1
  <2>2. CASE ~(r.hooks = "object" /\ e \in Managed(m))
    BY <1>8, <1>9, <2>2 DEF Parsed
  <2> QED
    BY <2>1, <2>2
<1>11. Managed(m) \subseteq HookEvents
  BY ManagedEvents
<1>12. \A e \in Managed(m) : d.events[e].entries = IF r.hooks = "object" THEN DropOwned(m, r.events[e].entries) ELSE <<>>
  BY <1>2, <1>5, <1>8, <1>9, <1>10, <1>11
<1>13. r.hooks # "object" => d.events = r.events
  BY <1>1, <1>6, <1>8, <1>9
<1> QED
  BY <1>8, <1>9, <1>10, <1>11, <1>12, <1>13 DEF d, Parsed
\* A hook that stood in r still stands in d, unless in an entry of ours.
LEMMA HooksKept ==
  ASSUME NEW m, NEW r, Parsed(r), NEW d, NEW h, Stands(r, h),
         \A e \in HookEvents : \A i \in DOMAIN r.events[e].entries :
           \/ IsOwned(m, r.events[e].entries[i])
           \/ \E j \in DOMAIN d.events[e].entries : d.events[e].entries[j] = r.events[e].entries[i]
  PROVE  Stands(d, h) \/ StandsWithOurs(m, r, h)
<1>1. PICK e \in HookEvents : \E i \in DOMAIN r.events[e].entries : h \in r.events[e].entries[i].user
  BY DEF Stands
<1>2. PICK i \in DOMAIN r.events[e].entries : h \in r.events[e].entries[i].user
  BY <1>1
<1>3. CASE IsOwned(m, r.events[e].entries[i])
  BY <1>2, <1>3 DEF StandsWithOurs
<1>4. CASE ~IsOwned(m, r.events[e].entries[i])
  <2>1. PICK j \in DOMAIN d.events[e].entries : d.events[e].entries[j] = r.events[e].entries[i]
    BY <1>4
  <2> QED
    BY <1>2, <2>1 DEF Stands
<1> QED
  BY <1>3, <1>4

LEMMA InstallKeeps ==
  ASSUME NEW m \in Managers, NEW r, Parsed(r), NEW c \in Commands, m = "claude" => r.hooks # "other", NEW h, Stands(r, h)
  PROVE  Stands(Installed(m, r, c), h) \/ StandsWithOurs(m, r, h)
<1> DEFINE d == Installed(m, r, c)
<1>1. ASSUME NEW e \in HookEvents, NEW i \in DOMAIN r.events[e].entries
      PROVE  \/ IsOwned(m, r.events[e].entries[i])
             \/ \E j \in DOMAIN d.events[e].entries : d.events[e].entries[j] = r.events[e].entries[i]
  <2> DEFINE s == r.events[e].entries
             k == DropOwned(m, s)
             own == OwnedEntry(m, c)
  <2>1. s \in Seq(Groups)
    BY EntriesAre
  <2>2. CASE e \in Managed(m)
    <3>1. d.events[e].entries = Append(k, own)
      BY <2>2, InstalledDoc
    <3>2. k \in Seq(Groups) /\ (IsOwned(m, s[i]) \/ \E j \in DOMAIN k : k[j] = s[i])
      <4> HIDE DEF s
      <4>1. i \in DOMAIN s
        BY DEF s
      <4> QED
        BY ONLY <2>1, <4>1, DropKeeps
    <3> HIDE DEF k, own, s, d
    <3>3. \A j \in DOMAIN k : j \in DOMAIN Append(k, own) /\ Append(k, own)[j] = k[j]
      BY <3>2
    <3>4. IsOwned(m, s[i]) \/ \E j \in DOMAIN Append(k, own) : Append(k, own)[j] = s[i]
      BY ONLY <3>2, <3>3
    <3>5. IsOwned(m, s[i]) \/ \E j \in DOMAIN d.events[e].entries : d.events[e].entries[j] = s[i]
      BY ONLY <3>1, <3>4
    <3> QED
      BY ONLY <3>5 DEF s
  <2>3. CASE e \notin Managed(m)
    <3>1. d.events[e] = r.events[e]
      BY <2>3, InstalledDoc
    <3> QED
      BY <3>1
  <2> QED
    BY <2>2, <2>3
<1> HIDE DEF d
<1> QED
  BY <1>1, HooksKept DEF d

LEMMA UninstallKeeps ==
  ASSUME NEW m \in Managers, NEW r, Parsed(r), NEW h, Stands(r, h)
  PROVE  Stands(Uninstalled(m, r), h) \/ StandsWithOurs(m, r, h)
<1> DEFINE d == Uninstalled(m, r)
<1>1. ASSUME NEW e \in HookEvents, NEW i \in DOMAIN r.events[e].entries
      PROVE  \/ IsOwned(m, r.events[e].entries[i])
             \/ \E j \in DOMAIN d.events[e].entries : d.events[e].entries[j] = r.events[e].entries[i]
  <2>1. CASE e \in Managed(m) /\ r.hooks = "object"
    <3>1. d.events[e].entries = DropOwned(m, r.events[e].entries)
      BY <2>1, UninstalledDoc
    <3>2. r.events[e].entries \in Seq(Groups)
      BY EntriesAre
    <3> QED
      BY <3>1, <3>2, DropKeeps
  <2>2. CASE ~(e \in Managed(m) /\ r.hooks = "object")
    <3>1. d.events[e] = r.events[e]
      BY <2>2, UninstalledDoc
    <3> QED
      BY <3>1
  <2> QED
    BY <2>1, <2>2
<1> HIDE DEF d
<1> QED
  BY <1>1, HooksKept DEF d

\* What must hold of the file f after the operation op.
Outcome(m, op, c, f) == /\ Doctor(m, f, c) <=> op = "install"
                        /\ \A e \in Managed(m) : Cardinality(Owned(m, f, e)) = IF op = "install" THEN 1 ELSE 0

LEMMA OwnedAfterInstall ==
  ASSUME NEW m, NEW f, NEW e, NEW s \in Seq(Groups), NEW own, IsOwned(m, own),
         f.events[e].entries = Append(DropOwned(m, s), own)
  PROVE  /\ Owned(m, f, e) = {Len(DropOwned(m, s)) + 1} /\ Cardinality(Owned(m, f, e)) = 1
         /\ f.events[e].entries[Len(DropOwned(m, s)) + 1] = own
<1>1. PICK k : k = DropOwned(m, s)
  OBVIOUS
<1>2. k \in Seq(Groups) /\ \A i \in DOMAIN k : ~IsOwned(m, k[i])
  BY <1>1, DropKeeps
<1>3. PICK n, long : n = Len(k) /\ long = Append(k, own)
  OBVIOUS
<1>4. /\ n \in Nat /\ DOMAIN k = 1..n /\ DOMAIN long = 1..(n + 1) /\ long[n + 1] = own
      /\ \A i \in 1..n : long[i] = k[i]
  BY <1>2, <1>3
<1>5. \A i \in DOMAIN long : IsOwned(m, long[i]) <=> i = n + 1
  <2> TAKE i \in DOMAIN long
  <2>1. CASE i \in 1..n
    BY <1>2, <1>4, <2>1
  <2>2. CASE i = n + 1
    BY <1>4, <2>2
  <2> QED
    BY <1>4, <2>1, <2>2
<1>6. {i \in DOMAIN long : IsOwned(m, long[i])} = {n + 1}
  BY <1>4, <1>5
<1>7. f.events[e].entries = long
  BY <1>1, <1>3
<1>8. Owned(m, f, e) = {n + 1}
  BY ONLY <1>6, <1>7 DEF Owned
<1>9. Cardinality({n + 1}) = 1
  BY FS_Singleton
<1> QED
  BY ONLY <1>1, <1>3, <1>4, <1>7, <1>8, <1>9

LEMMA NothingOwned ==
  ASSUME NEW m, NEW f, NEW e, \A i \in DOMAIN f.events[e].entries : ~IsOwned(m, f.events[e].entries[i])
  PROVE  Owned(m, f, e) = {} /\ Cardinality(Owned(m, f, e)) = 0
<1>1. Owned(m, f, e) = {}
  BY DEF Owned
<1> QED
  BY <1>1, FS_EmptySet
\* f holds what d does.
Alike(f, d) == f \in Files /\ f.text = d.text /\ f.hooks = d.hooks /\ f.events = d.events /\ f.hash = d.hash

LEMMA InstallOutcome ==
  ASSUME NEW m \in Managers, m # "grok", NEW r, Parsed(r), NEW c \in Commands, m = "claude" => r.hooks # "other",
         NEW f, Alike(f, Installed(m, r, c))
  PROVE  Outcome(m, "install", c, f)
<1> DEFINE d == Installed(m, r, c)
           at(e) == Len(DropOwned(m, r.events[e].entries)) + 1
<1>1. /\ f \in Files /\ f.text = "json" /\ f.hooks = "object" /\ (m = "codex" => f.hash = c)
      /\ \A e \in Managed(m) : /\ f.events[e].shape = "array"
                               /\ f.events[e].entries = Append(DropOwned(m, r.events[e].entries), OwnedEntry(m, c))
  BY InstalledDoc DEF Alike, Parsed
<1>2. m \in {"claude", "codex"} /\ "PreToolUse" \in Managed(m) /\ Managed(m) \subseteq HookEvents /\ (m = "codex" => Managed(m) = HookEvents)
  BY ManagedEvents
<1>3. ASSUME NEW e \in Managed(m)
      PROVE  /\ Owned(m, f, e) = {at(e)} /\ Cardinality(Owned(m, f, e)) = 1
             /\ f.events[e].entries[at(e)] = OwnedEntry(m, c)
  <2>1. PICK s : s = r.events[e].entries
    OBVIOUS
  <2>2. s \in Seq(Groups)
    BY <1>2, <2>1, EntriesAre
  <2>3. IsOwned(m, OwnedEntry(m, c))
    BY OwnedEntryIs
  <2>4. f.events[e].entries = Append(DropOwned(m, s), OwnedEntry(m, c))
    BY <1>1, <2>1
  <2> QED
    BY ONLY <2>1, <2>2, <2>3, <2>4, OwnedAfterInstall
<1> HIDE DEF at
<1>4. ValidOwned(m, OwnedEntry(m, c), c)
  BY OwnedEntryIs DEF ValidOwned
<1>5. ParseRoot(m, f) = Content(f)
  BY <1>1 DEF ParseRoot
<1>6. PICK q : q = Content(f)
  OBVIOUS
<1>7. q \in Files /\ q.text = "json" /\ q.hooks = "object" /\ q.events = f.events /\ q.hash = f.hash
  BY <1>1, <1>6, ContentOf
<1>8. q # Absent
  BY <1>7, AbsentIsFile
<1>9. \A e \in Managed(m) : Owned(m, q, e) = Owned(m, f, e)
  BY <1>7 DEF Owned
<1>10. \A e \in Managed(m) : \E i \in Owned(m, q, e) : ValidOwned(m, q.events[e].entries[i], c)
  <2> TAKE e \in Managed(m)
  <2>1. at(e) \in Owned(m, q, e) /\ q.events[e].entries[at(e)] = OwnedEntry(m, c)
    BY <1>3, <1>7, <1>9
  <2> QED
    BY <1>4, <2>1
<1>11. Doctor(m, f, c)
  <2>1. CASE m = "claude"
    <3>1. ~ShapeRefused("claude", q)
      BY <1>1, <1>2, <1>7 DEF ShapeRefused
    <3>2. ClaudeDoctor(f, c)
      BY <1>1, <1>2, <1>5, <1>6, <1>7, <1>8, <1>10, <2>1, <3>1 DEF ClaudeDoctor
    <3> QED
      BY <2>1, <3>2 DEF Doctor
  <2>2. CASE m = "codex"
    <3>1. CodexDoctor(f, c)
      BY <1>1, <1>2, <1>5, <1>6, <1>7, <1>8, <1>10, <2>2 DEF CodexDoctor
    <3> QED
      BY <2>2, <3>1 DEF Doctor
  <2> QED
    BY <1>2, <2>1, <2>2
<1> QED
  BY <1>3, <1>11 DEF Outcome

\* Grok's own document.
LEMMA OwnedDocument ==
  ASSUME "grok" \in Managers, NEW c \in Commands
  PROVE  /\ Parsed(OwnedHooksDocument(c))
         /\ \A f : Alike(f, OwnedHooksDocument(c)) /\ f.owner = TRUE => Outcome("grok", "install", c, f)
         /\ OwnedHooksDocument(c).owner = TRUE
<1> DEFINE b == Installed("grok", EmptyRoot, c)
           d == OwnedHooksDocument(c)
<1>1. Parsed(EmptyRoot)
  BY EmptyRootParsed
<1>2. /\ Parsed(b) /\ b.hooks = "object"
      /\ \A e \in Managed("grok") : /\ b.events[e].shape = "array"
                                    /\ b.events[e].entries = Append(DropOwned("grok", EmptyRoot.events[e].entries), OwnedEntry("grok", c))
  BY <1>1, InstalledDoc
<1>3. d = [b EXCEPT !.owner = TRUE, !.hash = c]
  BY DEF OwnedHooksDocument
<1> HIDE DEF b, d
<1>4. c \in Written
  BY DEF Written
<1>5. d \in Files /\ d.text = b.text /\ d.hooks = b.hooks /\ d.events = b.events /\ d.owner = TRUE /\ d.hash = c
  BY <1>2, <1>3, <1>4 DEF Parsed, Files
<1>6. Parsed(d)
  BY <1>2, <1>5 DEF Parsed
<1>7. ASSUME NEW f, Alike(f, d), f.owner = TRUE PROVE Outcome("grok", "install", c, f)
  <2>1. f.text = "json" /\ f.hooks = "object" /\ f.events = b.events /\ f.hash = c
    BY <1>2, <1>5, <1>7 DEF Alike, Parsed
  <2>2. "PreToolUse" \in Managed("grok") /\ Managed("grok") = HookEvents
    BY ManagedEvents
  <2>3. f.events["PreToolUse"].shape # "absent"
    BY <1>2, <2>1, <2>2
  <2>4. GrokDoctor(f, c)
    BY <1>7, <2>1, <2>3 DEF GrokDoctor
  <2>5. Doctor("grok", f, c)
    BY <2>4 DEF Doctor
  <2>6. \A e \in Managed("grok") : Cardinality(Owned("grok", f, e)) = 1
    <3> TAKE e \in Managed("grok")
    <3>1. EmptyRoot.events[e].entries \in Seq(Groups)
      BY <1>1, <2>2, EntriesAre
    <3> QED
      BY <1>2, <2>1, <3>1, OwnedEntryIs, OwnedAfterInstall
  <2> QED
    BY <2>5, <2>6 DEF Outcome
<1> QED
  BY <1>5, <1>6, <1>7 DEF d

\* Without an entry of ours Doctor is not satisfied.
LEMMA NoneOwned ==
  ASSUME NEW m \in {"claude", "codex"}, m \in Managers, NEW f \in Files, f.text # "link", Proper(f) \/ f.text = "json", NEW c,
         \A e \in Managed(m) : Owned(m, f, e) = {} /\ Cardinality(Owned(m, f, e)) = 0
  PROVE  Outcome(m, "uninstall", c, f)
<1>1. "PreToolUse" \in Managed(m) /\ "PreToolUse" \in HookEvents
  BY ManagedEvents
<1>2. ~Doctor(m, f, c)
  <2> SUFFICES ASSUME f.text \notin {"absent", "link"}, ParseRoot(m, f) # Absent, ParseRoot(m, f).hooks = "object"
               PROVE  \A i \in Owned(m, ParseRoot(m, f), "PreToolUse") : FALSE
    BY <1>1 DEF Doctor, ClaudeDoctor, CodexDoctor
  <2>1. f.text = "json"
    BY EmptyRootParsed DEF ParseRoot, Files
  <2>2. ParseRoot(m, f) = Content(f)
    BY <2>1 DEF ParseRoot
  <2>3. Owned(m, ParseRoot(m, f), "PreToolUse") = Owned(m, f, "PreToolUse")
    BY <2>2, ContentOf DEF Owned
  <2> QED
    BY <1>1, <2>3
<1> QED
  BY <1>2 DEF Outcome

LEMMA UninstallOutcome ==
  ASSUME NEW m \in Managers, m # "grok", NEW r, Parsed(r), NEW c, NEW f, Alike(f, Uninstalled(m, r))
  PROVE  Outcome(m, "uninstall", c, f)
<1>1. /\ f \in Files /\ f.text = "json"
      /\ \A e \in Managed(m) : f.events[e].entries = IF r.hooks = "object" THEN DropOwned(m, r.events[e].entries) ELSE <<>>
  BY UninstalledDoc DEF Alike, Parsed
<1>2. m \in {"claude", "codex"} /\ "PreToolUse" \in Managed(m) /\ Managed(m) \subseteq HookEvents
  BY ManagedEvents
<1>3. ASSUME NEW e \in Managed(m) PROVE Owned(m, f, e) = {} /\ Cardinality(Owned(m, f, e)) = 0
  <2>1. \A i \in DOMAIN f.events[e].entries : ~IsOwned(m, f.events[e].entries[i])
    <3>1. CASE r.hooks = "object"
      BY <1>1, <1>2, <3>1, EntriesAre, DropKeeps
    <3>2. CASE r.hooks # "object"
      BY <1>1, <3>2
    <3> QED
      BY <3>1, <3>2
  <2> QED
    BY <2>1, NothingOwned
<1> QED
  BY <1>1, <1>2, <1>3, NoneOwned
LEMMA TextsDiffer == NoText # "ok" /\ NoText # "refused" /\ NoText # "install" /\ NoText # "uninstall"
BY Zenon DEF NoText

\* A new document, written with the stamp k.
AsFile(d, k) == IF d.text = "absent" THEN Absent ELSE [d EXCEPT !.stamp = k]

LEMMA WrittenAlike ==
  ASSUME NEW d, Parsed(d), NEW k \in Nat, k > 0
  PROVE  /\ Alike(AsFile(d, k), d) /\ AsFile(d, k).owner = d.owner /\ AsFile(d, k).stamp = k
         /\ AsFile(d, k) \in Files /\ Proper(AsFile(d, k))
         /\ \A h : Stands(AsFile(d, k), h) <=> Stands(d, h)
<1> DEFINE g == AsFile(d, k)
<1>1. g = [d EXCEPT !.stamp = k]
  BY DEF AsFile, Parsed
<1>2. g \in Files /\ g.text = "json" /\ g.hooks = d.hooks /\ g.events = d.events /\ g.owner = d.owner /\ g.hash = d.hash /\ g.stamp = k
  BY <1>1 DEF Parsed, Files
<1> HIDE DEF g
<1>3. Proper(g)
  BY <1>2 DEF Proper, Parsed
<1> QED
  BY <1>2, <1>3 DEF Alike, Parsed, Stands, g

\* What an operation is about to write when Plan does not end it.
LEMMA PlanSound ==
  ASSUME NEW m \in Managers, NEW op \in {"install", "uninstall"}, NEW c \in Commands,
         NEW f \in Files, Proper(f), f.text # "link", NEW d, Plan(m, op, c, f) = [result |-> NoText, doc |-> d],
         NEW k \in Nat, k > 0
  PROVE  /\ d \in Files /\ AsFile(d, k) \in Files /\ Proper(AsFile(d, k)) /\ AsFile(d, k).stamp <= k
         /\ Outcome(m, op, c, AsFile(d, k))
         /\ m # "grok" => \A h : Stands(f, h) => Stands(AsFile(d, k), h) \/ StandsWithOurs(m, f, h)
<1> USE TextsDiffer
<1> DEFINE r == ParseRoot(m, f)
<1>1. CASE m = "grok" /\ op = "install"
  <2>1. d = OwnedHooksDocument(c)
    BY <1>1 DEF Plan
  <2>2. Parsed(d) /\ d.owner = TRUE
    BY <1>1, <2>1, OwnedDocument
  <2>3. Outcome("grok", "install", c, AsFile(d, k))
    BY <1>1, <2>1, <2>2, WrittenAlike, OwnedDocument
  <2> QED
    BY <1>1, <2>2, <2>3, WrittenAlike DEF Parsed
<1>2. CASE m = "grok" /\ op = "uninstall"
  <2>1. d = Absent
    BY <1>2 DEF Plan
  <2>2. AsFile(d, k) = Absent
    BY <2>1, AbsentIsFile DEF AsFile
  <2>3. ~Doctor("grok", Absent, c)
    BY AbsentIsFile DEF Doctor, GrokDoctor
  <2>4. \A e \in Managed("grok") : Cardinality(Owned("grok", Absent, e)) = 0
    <3> TAKE e \in Managed("grok")
    <3>1. e \in HookEvents
      BY <1>2, ManagedEvents
    <3>2. Absent.events[e].entries = <<>>
      BY <3>1, AbsentIsFile
    <3> QED
      BY <3>2, NothingOwned
  <2> QED
    BY <1>2, <2>1, <2>2, <2>3, <2>4, AbsentIsFile DEF Outcome
<1>3. CASE m # "grok"
  <2>1. r # Absent /\ ~ShapeRefused(m, r) /\ d = (IF op = "install" THEN Installed(m, r, c) ELSE Uninstalled(m, r))
    BY <1>3 DEF Plan
  <2>2. Parsed(r) /\ \A e \in HookEvents : r.events[e].entries = f.events[e].entries
    BY <2>1, ReadIsParsed
  <2>3. m = "claude" => r.hooks # "other"
    BY <2>1 DEF ShapeRefused
  <2>4. \A h : /\ Stands(f, h) => Stands(r, h)
               /\ StandsWithOurs(m, r, h) => StandsWithOurs(m, f, h)
    BY <2>2 DEF Stands, StandsWithOurs
  <2> HIDE DEF r
  <2>5. CASE op = "install"
    <3>1. Parsed(d)
      BY <2>1, <2>2, <2>3, <2>5, InstalledDoc
    <3>2. \A h : Stands(r, h) => Stands(d, h) \/ StandsWithOurs(m, r, h)
      BY <2>1, <2>2, <2>3, <2>5, InstallKeeps
    <3>3. Outcome(m, op, c, AsFile(d, k))
      BY <1>3, <2>1, <2>2, <2>3, <2>5, <3>1, WrittenAlike, InstallOutcome
    <3> QED
      BY <2>4, <3>1, <3>2, <3>3, WrittenAlike DEF Parsed
  <2>6. CASE op = "uninstall"
    <3>1. d = Uninstalled(m, r)
      BY <2>1, <2>6
    <3>2. Parsed(d)
      BY <2>2, <3>1, UninstalledDoc
    <3>3. \A h : Stands(r, h) => Stands(d, h) \/ StandsWithOurs(m, r, h)
      BY <2>2, <3>1, UninstallKeeps
    <3>4. Outcome(m, op, c, AsFile(d, k))
      BY <1>3, <2>2, <2>6, <3>1, <3>2, WrittenAlike, UninstallOutcome
    <3> QED
      BY <2>4, <3>2, <3>3, <3>4, WrittenAlike DEF Parsed
  <2> QED
    BY <2>5, <2>6
<1> QED
  BY <1>1, <1>2, <1>3

\* An operation that Plan ends well is an Uninstall that finds nothing of ours.
LEMMA PlanEnds ==
  ASSUME NEW m \in Managers, NEW op \in {"install", "uninstall"}, NEW c \in Commands,
         NEW f \in Files, Proper(f), f.text # "link", Plan(m, op, c, f).result = "ok"
  PROVE  Outcome(m, op, c, f)
<1> USE TextsDiffer
<1> DEFINE r == ParseRoot(m, f)
<1>1. \A e \in HookEvents : f.events[e].entries = <<>> => Owned(m, f, e) = {} /\ Cardinality(Owned(m, f, e)) = 0
  BY NothingOwned
<1>2. "PreToolUse" \in Managed(m) /\ Managed(m) \subseteq HookEvents /\ m \in {"claude", "codex", "grok"}
  BY ManagedEvents
<1>3. CASE m = "grok"
  <2>1. op = "uninstall" /\ f.text = "absent"
    BY <1>3 DEF Plan
  <2>2. \A e \in HookEvents : f.events[e].entries = <<>>
    BY <2>1, AbsentIsFile DEF Proper
  <2>3. ~Doctor(m, f, c)
    BY <1>3, <2>1 DEF Doctor, GrokDoctor
  <2> QED
    BY <1>1, <1>2, <2>1, <2>2, <2>3 DEF Outcome
<1>4. CASE m # "grok" /\ op = "uninstall" /\ f.text = "absent"
  <2>1. \A e \in HookEvents : f.events[e].entries = <<>>
    BY <1>4, AbsentIsFile DEF Proper
  <2> QED
    BY <1>1, <1>2, <1>4, <2>1, NoneOwned
<1>5. CASE m # "grok" /\ ~(op = "uninstall" /\ f.text = "absent")
  <2>1. r # Absent /\ op = "uninstall" /\ NothingToRemove(m, r)
    BY <1>5 DEF Plan
  <2>2. m = "claude" /\ (r.hooks = "absent" \/ r.events["PreToolUse"].shape = "absent")
    BY <2>1 DEF NothingToRemove
  <2>3. Parsed(r) /\ r.events["PreToolUse"].entries = f.events["PreToolUse"].entries
    BY <1>2, <2>1, ReadIsParsed
  <2>4. f.events["PreToolUse"].entries = <<>>
    BY <1>2, <2>2, <2>3 DEF Parsed
  <2>5. Managed(m) = {"PreToolUse"}
    BY <2>2 DEF Managed
  <2> QED
    BY <1>1, <1>2, <2>1, <2>2, <2>4, <2>5, NoneOwned
<1> QED
  BY <1>3, <1>4, <1>5
Operations == {"install", "uninstall"}
Underway == {"read", "backup", "check", "rename"}
Works == [pc : Underway \union {"idle", "done"}, op : Operations \union {NoText, "failed"}, command : Commands \union {NoText},
          before : Files, doc : Files, saved : BOOLEAN, late : BOOLEAN]

\* Excused, of the manager m, the backups bs and the unsaved hooks un.
ExcusedBy(m, bs, un, l) == \/ l.late
                           \/ m # "grok" /\ StandsWithOurs(m, l.before, l.hook)
                           \/ m = "grok" /\ (l.op = "uninstall" \/ l.hook \in un \/ \E b \in ToSet(bs) : Stands(b, l.hook))
\* Every write so far, n of them with the operations, had its own stamp.
Stamped(w, f, n) == /\ f.stamp <= n + 2
                    /\ w.pc \in Underway => f.stamp <= n + 1
                    /\ w.pc \in {"backup", "check", "rename"} => w.before.stamp <= n + 1
\* What is under way was planned on the file as it was read.
PlannedWell(m, w) ==
  /\ w.pc \in Underway => w.op \in Operations /\ w.command \in Commands
  /\ w.pc \in {"backup", "check", "rename"} => /\ Proper(w.before) /\ w.before.text # "link"
                                               /\ Plan(m, w.op, w.command, w.before) = [result |-> NoText, doc |-> w.doc]
  /\ w.pc \in {"backup", "check"} => ~(m = "grok" /\ w.op = "uninstall")
  /\ w.pc = "check" => m # "grok"
\* Unless the user saved when no check looks, the file is what was read, and
\* Grok's is in a backup before it is overwritten or its hooks are unsaved.
Current(m, w, f, bs, un) ==
  /\ w.pc \in {"backup", "check"} /\ m = "claude" /\ f.stamp = w.before.stamp => f = w.before
  /\ w.pc \in {"backup", "check"} /\ w.before.text = "absent" /\ ~w.late => f = w.before
  /\ w.pc \in {"backup", "rename"} /\ m = "grok" /\ ~w.late => f = w.before
  /\ w.pc = "rename" /\ ~w.late /\ m # "grok" => Content(f) = Content(w.before) \/ f.text = "absent"
  /\ w.pc = "rename" /\ ~w.late /\ m = "grok" /\ w.op = "install" /\ f.text # "absent" => Content(f) \in ToSet(bs) \/ \A h : Stands(f, h) => h \in un
Ended(m, w, f) == w.pc = "done" /\ ~w.saved /\ w.op \in Operations => Outcome(m, w.op, w.command, f)

HookTypes == /\ manager \in Managers /\ file \in Files /\ Proper(file) /\ backups \in Seq(Files)
             /\ work \in Works /\ saves \in Nat /\ ops \in Nat
HookInv == /\ HookTypes
           /\ Stamped(work, file, saves + ops) /\ PlannedWell(manager, work) /\ Current(manager, work, file, backups, unsaved)
           /\ Ended(manager, work, file)
           /\ \A l \in lost : ExcusedBy(manager, backups, unsaved, l)

LEMMA ExcusedIs ==
  ASSUME NEW l
  PROVE  Excused(l) <=> ExcusedBy(manager, backups, unsaved, l)
<1>1. Shared(l) <=> StandsWithOurs(manager, l.before, l.hook)
  BY SharedStands
<1>2. \A b : l.hook \in UserHooks(b) <=> Stands(b, l.hook)
  BY UserHooksStand
<1> QED
  BY <1>1, <1>2 DEF Excused, ExcusedBy

LEMMA HookInvImplies == HookInv => InstallSound
BY ExcusedIs DEF HookInv, InstallSound, Ended, Outcome, Operations

LEMMA HookInit == HInit => HookInv
<1> SUFFICES ASSUME HInit PROVE HookInv
  OBVIOUS
<1>1. /\ manager \in Managers /\ file \in Files /\ Proper(file) /\ file.stamp <= 1 /\ backups = <<>>
      /\ saves = 0 /\ ops = 0 /\ lost = {} /\ work = Idle
  BY FileAssumption DEF HInit
<1>2. work \in Works /\ work.pc = "idle"
  BY <1>1, AbsentIsFile DEF Idle, Works
<1>3. file.stamp \in Nat
  BY <1>1 DEF Files
<1> QED
  BY <1>1, <1>2, <1>3 DEF HookInv, HookTypes, Stamped, PlannedWell, Current, Ended, Underway

\* A step that only ends the operation, without a result unless the plan's.
LEMMA EndingKeeps ==
  ASSUME HookInv, NEW result, NoWrite(result), result = "ok" => work.pc \in Underway /\ Outcome(manager, work.op, work.command, file)
  PROVE  HookInv'
<1>1. /\ work' = [work EXCEPT !.pc = "done", !.op = IF result = "ok" THEN work.op ELSE "failed"]
      /\ UNCHANGED <<manager, file, backups, saves, ops, lost, unsaved>>
  BY DEF NoWrite, Answer
<1>2. PICK u : u = work'
  OBVIOUS
<1>3. /\ u \in Works /\ u.pc = "done" /\ u.op = (IF result = "ok" THEN work.op ELSE "failed") /\ u.command = work.command
      /\ u.saved = work.saved
  BY <1>1, <1>2 DEF HookInv, HookTypes, Works
<1>4. Ended(manager, u, file)
  BY <1>3 DEF Ended, Operations
<1>5. Stamped(u, file, saves + ops) /\ PlannedWell(manager, u) /\ Current(manager, u, file, backups, unsaved)
  BY <1>3 DEF HookInv, Stamped, PlannedWell, Current, Underway
<1> QED
  BY ONLY HookInv, <1>1, <1>2, <1>3, <1>4, <1>5 DEF HookInv, HookTypes
LEMMA StartKeeps ==
  ASSUME HookInv, NEW op \in Operations, NEW c \in Commands, Start(op, c)
  PROVE  HookInv'
<1>1. /\ ops' = ops + 1 /\ work' = [Idle EXCEPT !.pc = "read", !.op = op, !.command = c]
      /\ UNCHANGED <<manager, file, backups, saves, lost, unsaved>>
  BY DEF Start
<1>2. PICK u : u = work'
  OBVIOUS
<1>3. Idle \in Works
  BY AbsentIsFile DEF Idle, Works
<1>4. u \in Works /\ u.pc = "read" /\ u.op = op /\ u.command = c
  BY <1>1, <1>2, <1>3 DEF Works, Underway
<1>5. Ended(manager, u, file) /\ PlannedWell(manager, u) /\ Current(manager, u, file, backups, unsaved)
  BY <1>4 DEF Ended, PlannedWell, Current, Underway
<1>6. Stamped(u, file, saves + (ops + 1))
  BY <1>4 DEF Stamped, HookInv, HookTypes, Files, Underway
<1> QED
  BY <1>1, <1>2, <1>4, <1>5, <1>6 DEF HookInv, HookTypes

LEMMA PlanGivesFile ==
  ASSUME NEW m \in Managers, NEW op \in Operations, NEW c \in Commands, NEW f \in Files, Proper(f), f.text # "link",
         Plan(m, op, c, f).result = NoText
  PROVE  /\ Plan(m, op, c, f) = [result |-> NoText, doc |-> Plan(m, op, c, f).doc]
         /\ Plan(m, op, c, f).doc \in Files
<1>1. \E r, d : Plan(m, op, c, f) = [result |-> r, doc |-> d]
  BY DEF Plan
<1>2. Plan(m, op, c, f) = [result |-> NoText, doc |-> Plan(m, op, c, f).doc]
  BY <1>1
<1>3. PICK d : d = Plan(m, op, c, f).doc
  OBVIOUS
<1>4. PICK k \in Nat : k > 0
  OBVIOUS
<1> QED
  BY ONLY <1>2, <1>3, <1>4, PlanSound, m \in Managers, op \in Operations, c \in Commands, f \in Files, Proper(f), f.text # "link" DEF Operations

LEMMA FileReadKeeps ==
  ASSUME HookInv, Read
  PROVE  HookInv'
<1> DEFINE p == Plan(manager, work.op, work.command, file)
<1>1. /\ manager \in Managers /\ file \in Files /\ Proper(file) /\ work \in Works /\ work.pc = "read"
      /\ work.op \in Operations /\ work.command \in Commands
  BY DEF Read, HookInv, HookTypes, PlannedWell, Underway
<1>2. CASE NoWrite("refused")
  BY <1>2, EndingKeeps
<1>3. CASE file.text # "link" /\ p.result = "ok" /\ NoWrite("ok")
  <2>1. Outcome(manager, work.op, work.command, file)
    BY <1>1, <1>3, PlanEnds DEF Operations
  <2> QED
    BY <1>1, <1>3, <2>1, EndingKeeps DEF Underway
<1>4. CASE /\ file.text # "link" /\ p.result = NoText
           /\ work' = [work EXCEPT !.before = file, !.doc = p.doc, !.pc = IF manager = "grok" /\ work.op = "uninstall" THEN "rename" ELSE "backup"]
           /\ UNCHANGED <<manager, file, backups, saves, ops, lost, unsaved>>
  <2>1. PICK q : q = p
    OBVIOUS
  <2>2. q = [result |-> NoText, doc |-> q.doc] /\ q.doc \in Files
    BY <1>1, <1>4, <2>1, PlanGivesFile
  <2>3. PICK u : u = work'
    OBVIOUS
  <2> HIDE DEF p
  <2>4. /\ u \in Works /\ u.op = work.op /\ u.command = work.command /\ u.before = file /\ u.doc = q.doc /\ u.late = work.late
        /\ u.pc = IF manager = "grok" /\ work.op = "uninstall" THEN "rename" ELSE "backup"
    BY <1>1, <1>4, <2>1, <2>2, <2>3 DEF Works, Underway
  <2>5. Plan(manager, u.op, u.command, u.before) = [result |-> NoText, doc |-> u.doc]
    BY <2>1, <2>2, <2>4 DEF p
  <2>6. PlannedWell(manager, u)
    BY <1>1, <1>4, <2>4, <2>5 DEF PlannedWell
  <2>7. Current(manager, u, file, backups, unsaved) /\ Ended(manager, u, file)
    BY <1>1, <2>4 DEF Current, Ended, Operations
  <2>8. Stamped(u, file, saves + ops)
    BY <1>1, <2>4 DEF Stamped, HookInv, Underway
  <2> QED
    BY ONLY HookInv, <1>4, <2>3, <2>4, <2>6, <2>7, <2>8 DEF HookInv, HookTypes
<1> QED
  BY <1>2, <1>3, <1>4 DEF Read, RejectSymlink

LEMMA NewestHolds ==
  ASSUME NEW bs \in Seq(Files)
  PROVE  Newest(bs) \in Seq(Files)
<1>1. CASE bs = <<>>
  <2>1. SubSeq(bs, 1, 0) = <<>>
    BY <1>1
  <2> QED
    BY <1>1, <2>1 DEF Newest
<1>2. CASE bs # <<>>
  <2>1. SubSeq(bs, 1, 1) \in Seq(Files)
    BY <1>2
  <2> QED
    BY <1>2, <2>1 DEF Newest
<1> QED
  BY <1>1, <1>2

LEMMA KeptHolds ==
  ASSUME NEW m, NEW bs \in Seq(Files), NEW f \in Files
  PROVE  /\ Kept(m, bs, f) \in Seq(Files)
         /\ m # "claude" => f \in ToSet(Kept(m, bs, f)) /\ ToSet(bs) \subseteq ToSet(Kept(m, bs, f))
<1>1. << f >> \o bs \in Seq(Files)
  OBVIOUS
<1>2. PICK n, long : n = Len(bs) /\ long = << f >> \o bs
  OBVIOUS
<1>3. n \in Nat /\ DOMAIN long = 1..(n + 1) /\ long[1] = f /\ DOMAIN bs = 1..n /\ \A i \in 1..n : long[i + 1] = bs[i]
  BY <1>2
<1>4. f \in ToSet(long)
  <2>1. 1 \in DOMAIN long
    BY <1>3
  <2> QED
    BY <1>3, <2>1 DEF ToSet
<1>5. ToSet(bs) \subseteq ToSet(long)
  <2> SUFFICES ASSUME NEW i \in DOMAIN bs PROVE bs[i] \in ToSet(long)
    BY DEF ToSet
  <2>1. i + 1 \in DOMAIN long /\ long[i + 1] = bs[i]
    BY <1>3
  <2> QED
    BY <2>1 DEF ToSet
<1>6. CASE m = "claude"
  <2>1. << f >> \o Newest(bs) \in Seq(Files)
    BY NewestHolds
  <2> QED
    BY <1>6, <2>1 DEF Kept
<1>7. CASE m # "claude" /\ f \in ToSet(bs)
  BY <1>7 DEF Kept
<1>8. CASE m # "claude" /\ f \notin ToSet(bs)
  <2>1. Kept(m, bs, f) = long
    BY <1>2, <1>8 DEF Kept
  <2> QED
    BY <1>1, <1>2, <1>4, <1>5, <1>8, <2>1
<1> QED
  BY <1>6, <1>7, <1>8

LEMMA BackupKeeps ==
  ASSUME HookInv, BackupIfExists
  PROVE  HookInv'
<1>1. /\ manager \in Managers /\ file \in Files /\ Proper(file) /\ work \in Works /\ work.pc = "backup" /\ backups \in Seq(Files)
  BY DEF BackupIfExists, HookInv, HookTypes
<1>2. CASE NoWrite("refused")
  BY <1>2, EndingKeeps
<1>3. CASE /\ backups' = IF file.text = "absent" THEN backups ELSE Kept(manager, backups, Content(file))
           /\ work' = [work EXCEPT !.pc = IF manager = "grok" THEN "rename" ELSE "check"]
           /\ UNCHANGED <<manager, file, saves, ops, lost, unsaved>>
  <2>1. PICK u, bs : u = work' /\ bs = backups'
    OBVIOUS
  <2>2. /\ u \in Works /\ u.op = work.op /\ u.command = work.command /\ u.before = work.before /\ u.doc = work.doc
        /\ u.late = work.late /\ u.pc = IF manager = "grok" THEN "rename" ELSE "check"
    BY <1>1, <1>3, <2>1 DEF Works, Underway
  <2>3. Content(file) \in Files
    BY <1>1, ContentOf
  <2>4. /\ bs \in Seq(Files)
        /\ manager # "claude" => ToSet(backups) \subseteq ToSet(bs) /\ (file.text # "absent" => Content(file) \in ToSet(bs))
    BY <1>1, <1>3, <2>1, <2>3, KeptHolds
  <2>5. PlannedWell(manager, u) /\ Stamped(u, file, saves + ops) /\ Ended(manager, u, file)
    BY <1>1, <2>2 DEF HookInv, PlannedWell, Stamped, Ended, Underway
  <2>6. Current(manager, u, file, bs, unsaved)
    BY <1>1, <2>2, <2>4 DEF HookInv, Current, PlannedWell
  <2>7. \A l \in lost : ExcusedBy(manager, bs, unsaved, l)
    BY <2>4 DEF HookInv, ExcusedBy
  <2> QED
    BY ONLY HookInv, <1>3, <2>1, <2>2, <2>4, <2>5, <2>6, <2>7 DEF HookInv, HookTypes
<1> QED
  BY <1>2, <1>3 DEF BackupIfExists

LEMMA ContentStands ==
  ASSUME NEW f \in Files, NEW h
  PROVE  Stands(Content(f), h) <=> Stands(f, h)
BY ContentOf DEF Stands

\* A failed backup leaves every other copy as it was, and of this one what
\* holds nobody's hooks.
LEMMA LeftHolds ==
  ASSUME NEW m, NEW bs \in Seq(Files), NEW f \in Files, NEW left \in LeftOf(m, bs, f)
  PROVE  /\ left \in Seq(Files)
         /\ m # "claude" => \A b \in ToSet(bs) : b = f \/ b \in ToSet(left)
<1>1. Torn \in Files
  <2>1. PICK a : a = Absent
    OBVIOUS
  <2> QED
    BY <2>1, AbsentIsFile DEF Torn, Files
<1>2. CASE m = "claude"
  <2>1. << Torn >> \o Newest(bs) \in Seq(Files)
    BY <1>1, NewestHolds
  <2> QED
    BY <1>2, <2>1, NewestHolds DEF LeftOf
<1>3. CASE m # "claude" /\ left = bs
  BY <1>3
<1>4. CASE m # "claude" /\ left = [i \in DOMAIN bs |-> IF bs[i] = f THEN Torn ELSE bs[i]]
  <2>1. PICK n \in Nat : DOMAIN bs = 1..n /\ \A i \in 1..n : bs[i] \in Files
    <3>1. Len(bs) \in Nat /\ DOMAIN bs = 1..Len(bs) /\ \A i \in 1..Len(bs) : bs[i] \in Files
      OBVIOUS
    <3> QED
      BY <3>1
  <2>2. DOMAIN left = 1..n /\ \A i \in 1..n : left[i] \in Files /\ left[i] = IF bs[i] = f THEN Torn ELSE bs[i]
    BY <1>1, <1>4, <2>1
  <2>3. left \in [1..n -> Files]
    BY <1>1, <1>4, <2>1
  <2>4. left \in Seq(Files)
    BY <2>3
  <2>5. ASSUME NEW b \in ToSet(bs), b # f PROVE b \in ToSet(left)
    <3>1. PICK i \in 1..n : bs[i] = b
      BY <2>1 DEF ToSet
    <3>2. left[i] = b
      BY <2>2, <2>5, <3>1
    <3> QED
      BY <2>2, <3>2 DEF ToSet
  <2> QED
    BY <2>4, <2>5
<1> QED
  BY <1>2, <1>3, <1>4 DEF LeftOf

LEMMA FailedBackupKeeps ==
  ASSUME HookInv, BackupFails
  PROVE  HookInv'
<1>1. /\ manager \in Managers /\ file \in Files /\ Proper(file) /\ work \in Works /\ work.pc = "backup" /\ backups \in Seq(Files)
  BY DEF BackupFails, HookInv, HookTypes
<1>2. PICK u, bs, un : u = work' /\ bs = backups' /\ un = unsaved'
  OBVIOUS
<1>3. /\ bs \in LeftOf(manager, backups, Content(file)) /\ UNCHANGED <<manager, file, saves, ops, lost>>
      /\ un = unsaved \union (IF manager = "grok" THEN UserHooks(file) ELSE {})
      /\ u = Answer("failed") \/ (manager = "grok" /\ u = [work EXCEPT !.pc = "rename"])
  BY <1>2 DEF BackupFails
<1>4. /\ u \in Works /\ u.command = work.command /\ u.before = work.before /\ u.doc = work.doc /\ u.late = work.late
      /\ \/ u.pc = "done" /\ u.op = "failed"
         \/ manager = "grok" /\ u.pc = "rename" /\ u.op = work.op
  BY <1>1, <1>3 DEF Answer, Works, Underway
<1>5. Content(file) \in Files /\ \A h : Stands(Content(file), h) <=> h \in UserHooks(file)
  BY <1>1, ContentOf, ContentStands, UserHooksStand
<1>6. /\ bs \in Seq(Files)
      /\ manager # "claude" => \A b \in ToSet(backups) : b = Content(file) \/ b \in ToSet(bs)
  BY <1>1, <1>3, <1>5, LeftHolds
<1>7. PlannedWell(manager, u) /\ Stamped(u, file, saves + ops) /\ Ended(manager, u, file)
  BY <1>1, <1>4 DEF HookInv, PlannedWell, Stamped, Ended, Underway, Operations
<1>8. manager = "grok" => \A h : Stands(file, h) => h \in un
  BY <1>3, UserHooksStand
<1>9. Current(manager, u, file, bs, un)
  BY <1>1, <1>4, <1>8 DEF HookInv, Current
<1>10. ASSUME NEW l \in lost PROVE ExcusedBy(manager, bs, un, l)
  <2>1. ExcusedBy(manager, backups, unsaved, l)
    BY DEF HookInv
  <2>2. ASSUME manager = "grok", NEW b \in ToSet(backups), Stands(b, l.hook)
        PROVE  l.hook \in un \/ \E c \in ToSet(bs) : Stands(c, l.hook)
    BY <1>3, <1>5, <1>6, <2>2
  <2> QED
    BY <1>3, <2>1, <2>2 DEF ExcusedBy
<1> QED
  BY ONLY HookInv, <1>2, <1>3, <1>4, <1>6, <1>7, <1>9, <1>10 DEF HookInv, HookTypes

LEMMA FileCheckKeeps ==
  ASSUME HookInv, Check
  PROVE  HookInv'
<1>1. /\ manager \in Managers /\ file \in Files /\ Proper(file) /\ work \in Works /\ work.pc = "check"
      /\ manager # "grok" /\ Current(manager, work, file, backups, unsaved)
  BY DEF Check, HookInv, HookTypes, PlannedWell
<1>2. CASE NoWrite("concurrent modification")
  BY <1>2, EndingKeeps
<1>3. CASE /\ Unchanged(manager, work.before, file) /\ work' = [work EXCEPT !.pc = "rename"]
           /\ UNCHANGED <<manager, file, backups, saves, ops, lost, unsaved>>
  <2>1. PICK u : u = work'
    OBVIOUS
  <2>2. /\ u \in Works /\ u.op = work.op /\ u.command = work.command /\ u.before = work.before /\ u.doc = work.doc
        /\ u.late = work.late /\ u.pc = "rename"
    BY <1>1, <1>3, <2>1 DEF Works, Underway
  <2>3. PlannedWell(manager, u) /\ Stamped(u, file, saves + ops) /\ Ended(manager, u, file)
    BY <1>1, <2>2 DEF HookInv, PlannedWell, Stamped, Ended, Underway
  <2>4. ~work.late => Content(file) = Content(work.before) \/ file.text = "absent"
    <3> SUFFICES ASSUME ~work.late PROVE file = work.before \/ Content(file) = Content(work.before) \/ file.text = "absent"
      OBVIOUS
    <3>1. CASE work.before.text = "absent"
      BY <1>1, <3>1 DEF Current
    <3>2. CASE work.before.text # "absent" /\ manager = "claude"
      BY <1>1, <1>3, <3>2 DEF Current, Unchanged
    <3>3. CASE work.before.text # "absent" /\ manager # "claude"
      BY <1>3, <3>3 DEF Unchanged
    <3> QED
      BY <3>1, <3>2, <3>3
  <2>5. Current(manager, u, file, backups, unsaved)
    BY <1>1, <2>2, <2>4 DEF Current
  <2> QED
    BY ONLY HookInv, <1>3, <2>1, <2>2, <2>3, <2>5 DEF HookInv, HookTypes
<1> QED
  BY <1>2, <1>3 DEF Check

LEMMA AbsentIsBare == \A h : ~Stands(Absent, h)
BY AbsentIsFile DEF Stands

LEMMA FileRenameKeeps ==
  ASSUME HookInv, Rename
  PROVE  HookInv'
<1> DEFINE k == saves + ops + 2
           w == work
<1>1. /\ manager \in Managers /\ file \in Files /\ Proper(file) /\ w \in Works /\ w.pc = "rename" /\ saves \in Nat /\ ops \in Nat
      /\ Current(manager, w, file, backups, unsaved) /\ k \in Nat /\ k > 0
  BY DEF Rename, HookInv, HookTypes
<1>2. /\ w.op \in Operations /\ w.command \in Commands /\ w.before \in Files /\ Proper(w.before) /\ w.before.text # "link"
      /\ Plan(manager, w.op, w.command, w.before) = [result |-> NoText, doc |-> w.doc] /\ w.late \in BOOLEAN
  BY <1>1 DEF HookInv, PlannedWell, Underway, Works
<1>3. /\ file' = AsFile(w.doc, k) /\ work' = Answer("ok")
      /\ lost' = lost \union {[hook |-> h, op |-> w.op, late |-> w.late, before |-> w.before] : h \in UserHooks(file) \ UserHooks(AsFile(w.doc, k))}
      /\ UNCHANGED <<manager, backups, saves, ops, unsaved>>
  BY DEF Rename, Replaced, AsFile
<1> HIDE DEF k, w
<1>4. PICK now : now = AsFile(w.doc, k)
  OBVIOUS
<1>5. /\ now \in Files /\ Proper(now) /\ now.stamp <= k /\ Outcome(manager, w.op, w.command, now)
      /\ manager # "grok" => \A h : Stands(w.before, h) => Stands(now, h) \/ StandsWithOurs(manager, w.before, h)
  BY ONLY <1>1, <1>2, <1>4, PlanSound DEF Operations
<1>6. PICK u : u = work'
  OBVIOUS
<1>7. u \in Works /\ u.pc = "done" /\ u.op = w.op /\ u.command = w.command
  BY <1>1, <1>2, <1>3, <1>6 DEF Answer, Works, w
<1>8. Stamped(u, now, saves + ops) /\ PlannedWell(manager, u) /\ Current(manager, u, now, backups, unsaved) /\ Ended(manager, u, now)
  BY <1>1, <1>5, <1>7 DEF Stamped, PlannedWell, Current, Ended, Underway, k
<1>9. ASSUME NEW h, h \in UserHooks(file) \ UserHooks(now), ~w.late
      PROVE  \/ manager # "grok" /\ StandsWithOurs(manager, w.before, h)
             \/ manager = "grok" /\ (w.op = "uninstall" \/ h \in unsaved \/ \E b \in ToSet(backups) : Stands(b, h))
  <2>1. Stands(file, h) /\ ~Stands(now, h)
    BY <1>9, UserHooksStand
  <2>2. file.text # "absent"
    BY <1>1, <2>1, AbsentIsBare DEF Proper
  <2>3. CASE manager # "grok"
    <3>1. Content(file) = Content(w.before)
      BY <1>1, <1>9, <2>2, <2>3 DEF Current
    <3>2. Stands(w.before, h)
      BY <1>1, <1>2, <2>1, <3>1, ContentStands
    <3> QED
      BY <1>5, <2>1, <2>3, <3>2
  <2>4. CASE manager = "grok" /\ w.op = "install"
    <3>1. Content(file) \in ToSet(backups) \/ h \in unsaved
      BY <1>1, <1>9, <2>1, <2>2, <2>4 DEF Current
    <3> QED
      BY <1>1, <2>1, <2>4, <3>1, ContentStands
  <2> QED
    BY <1>2, <2>3, <2>4 DEF Operations
<1>10. ASSUME NEW l \in lost' PROVE ExcusedBy(manager, backups, unsaved, l)
  <2>1. CASE l \in lost
    BY <2>1 DEF HookInv
  <2>2. CASE l \notin lost
    <3>1. PICK h \in UserHooks(file) \ UserHooks(now) : l = [hook |-> h, op |-> w.op, late |-> w.late, before |-> w.before]
      BY <1>3, <1>4, <2>2
    <3>2. l.hook = h /\ l.op = w.op /\ l.late = w.late /\ l.before = w.before
      BY <3>1
    <3>3. CASE w.late
      BY <3>2, <3>3 DEF ExcusedBy
    <3>4. CASE ~w.late
      BY <1>9, <3>2, <3>4 DEF ExcusedBy
    <3> QED
      BY <3>3, <3>4
  <2> QED
    BY <2>1, <2>2
<1> QED
  BY ONLY HookInv, <1>3, <1>4, <1>5, <1>6, <1>7, <1>8, <1>10 DEF HookInv, HookTypes

LEMMA AddHookIsProper ==
  ASSUME NEW f \in Files, Proper(f), NEW h \in Nat, saves \in Nat, ops \in Nat
  PROVE  AddHook(f, h) \in Files /\ Proper(AddHook(f, h)) /\ AddHook(f, h).stamp = saves + ops + 2
<1> DEFINE r == IF f.text = "json" THEN f ELSE EmptyRoot
           evs == [e \in HookEvents |-> [shape |-> "array", entries |-> Append(Entries(f, e), Entry({h}))]]
           k == saves + ops + 2
<1>1. r \in Files /\ r.text = "json"
  BY EmptyRootParsed DEF Parsed
<1>2. Entry({h}) \in Groups
  BY DEF Entry, Groups, Written
<1>3. \A e \in HookEvents : Entries(f, e) \in Seq(Groups)
  BY DEF Entries, Files
<1>4. evs \in [HookEvents -> [shape : Shapes, entries : Seq(Groups)]]
  <2> SUFFICES ASSUME NEW e \in HookEvents PROVE Append(Entries(f, e), Entry({h})) \in Seq(Groups)
    BY DEF Shapes
  <2> QED
    BY <1>2, <1>3
<1>5. \A e \in HookEvents : evs[e].shape = "array"
  OBVIOUS
<1>6. AddHook(f, h) = [r EXCEPT !.hooks = "object", !.stamp = k, !.events = evs]
  BY DEF AddHook
<1>7. k \in Nat /\ k > 0
  OBVIOUS
<1>8. PICK g : g = AddHook(f, h)
  OBVIOUS
<1> HIDE DEF r, evs, k
<1>9. g \in Files /\ g.text = "json" /\ g.hooks = "object" /\ g.events = evs /\ g.stamp = k
  BY <1>1, <1>4, <1>6, <1>7, <1>8 DEF Files, Shapes
<1>10. Proper(g)
  BY <1>5, <1>7, <1>9 DEF Proper
<1> QED
  BY <1>8, <1>9, <1>10 DEF k

LEMMA FileSaveKeeps ==
  ASSUME HookInv, Save
  PROVE  HookInv'
<1> DEFINE k == saves + ops + 2
           w == work
<1>1. /\ manager \in Managers /\ file \in Files /\ Proper(file) /\ w \in Works /\ saves \in Nat /\ ops \in Nat
      /\ Current(manager, w, file, backups, unsaved) /\ k \in Nat /\ k > 0 /\ Stamped(w, file, saves + ops)
  BY DEF HookInv, HookTypes
<1>2. /\ work' = [w EXCEPT !.saved = @ \/ w.pc # "idle", !.late = @ \/ Uncovered]
      /\ saves' = saves + 1 /\ UNCHANGED <<manager, backups, ops, lost, unsaved>>
  BY DEF Save
<1>3. \/ file' = AddHook(file, saves + 10)
      \/ file' = Absent
      \/ file' = [EmptyRoot EXCEPT !.stamp = k]
  BY DEF Save
<1>4. PICK g : g = file'
  OBVIOUS
<1>5. g \in Files /\ Proper(g) /\ (g = Absent \/ g.stamp = k)
  <2>1. CASE g = AddHook(file, saves + 10)
    BY <1>1, <2>1, AddHookIsProper
  <2>2. CASE g = Absent
    BY <2>2, AbsentIsFile
  <2>3. CASE g = [EmptyRoot EXCEPT !.stamp = k]
    <3>1. AsFile(EmptyRoot, k) = g
      BY <2>3, EmptyRootParsed DEF AsFile, Parsed
    <3> QED
      BY <1>1, <3>1, EmptyRootParsed, WrittenAlike
  <2> QED
    BY <1>3, <1>4, <2>1, <2>2, <2>3
<1>6. PICK u : u = work'
  OBVIOUS
<1>7. Uncovered \in BOOLEAN
  BY DEF Uncovered
<1>8. w.saved \in BOOLEAN /\ w.late \in BOOLEAN
  BY <1>1 DEF Works
<1>9. /\ u \in Works /\ u.pc = w.pc /\ u.op = w.op /\ u.command = w.command /\ u.before = w.before /\ u.doc = w.doc
      /\ u.saved = (w.saved \/ w.pc # "idle") /\ u.late = (w.late \/ Uncovered)
  <2>1. PICK sv, lt : sv = (w.saved \/ w.pc # "idle") /\ lt = (w.late \/ Uncovered)
    OBVIOUS
  <2>2. sv \in BOOLEAN /\ lt \in BOOLEAN
    BY <2>1
  <2>3. u = [w EXCEPT !.saved = sv, !.late = lt]
    BY <1>2, <1>6, <2>1
  <2> HIDE DEF w
  <2>4. /\ u \in Works /\ u.pc = w.pc /\ u.op = w.op /\ u.command = w.command /\ u.before = w.before /\ u.doc = w.doc
        /\ u.saved = sv /\ u.late = lt
    BY <1>1, <2>2, <2>3 DEF Works
  <2> QED
    BY <2>1, <2>4, Zenon
<1>10. Ended(manager, u, g)
  BY <1>9 DEF Ended
<1>11. g.stamp <= k
  BY <1>1, <1>5, AbsentIsFile
<1>12. Stamped(u, g, saves' + ops')
  <2>1. PICK n \in Nat : n = saves + ops
    BY <1>1
  <2>2. saves' + ops' = n + 1 /\ k = n + 2
    BY <1>1, <1>2, <2>1
  <2>3. g.stamp \in Nat /\ u.before.stamp \in Nat
    BY <1>5, <1>9 DEF Files, Works
  <2> QED
    BY <1>1, <1>9, <1>11, <2>1, <2>2, <2>3 DEF Stamped, Underway
<1>13. PlannedWell(manager, u)
  BY <1>9 DEF HookInv, PlannedWell
<1>14. Current(manager, u, g, backups, unsaved)
  <2>1. w.pc \in {"backup", "check"} /\ manager = "claude" /\ g.stamp = w.before.stamp => g = w.before
    <3> SUFFICES ASSUME w.pc \in {"backup", "check"}, manager = "claude", g.stamp = w.before.stamp PROVE g = w.before
      OBVIOUS
    <3>1. w.before \in Files /\ Proper(w.before) /\ w.before.stamp <= (saves + ops) + 1
      BY <1>1 DEF HookInv, PlannedWell, Stamped, Works
    <3>2. g = Absent
      BY <1>1, <1>5, <3>1 DEF Files
    <3> QED
      BY <3>1, <3>2, AbsentIsFile DEF Proper
  <2>2. w.pc \in {"backup", "check"} /\ w.before.text = "absent" => Uncovered
    BY DEF Uncovered
  <2>3. w.pc \in {"backup", "rename"} /\ manager = "grok" => Uncovered
    BY DEF Uncovered
  <2>4. w.pc = "rename" => Uncovered
    BY DEF Uncovered
  <2> HIDE DEF w
  <2> QED
    BY <1>9, <2>1, <2>2, <2>3, <2>4 DEF Current
<1> HIDE DEF w, k
<1> QED
  BY ONLY HookInv, <1>1, <1>2, <1>4, <1>5, <1>6, <1>9, <1>10, <1>12, <1>13, <1>14 DEF HookInv, HookTypes

LEMMA HookStep ==
  ASSUME HookInv, [HNext]_hvars
  PROVE  HookInv'
<1>1. ASSUME NEW op \in Operations, NEW c \in Commands, Start(op, c) PROVE HookInv'
  BY <1>1, StartKeeps
<1>2. CASE WriteFails
  BY <1>2, EndingKeeps DEF WriteFails
<1>3. CASE UNCHANGED hvars
  BY ONLY HookInv, <1>3 DEF hvars, HookInv, HookTypes
<1> QED
  BY <1>1, <1>2, <1>3, FileReadKeeps, BackupKeeps, FailedBackupKeeps, FileCheckKeeps, FileRenameKeeps, FileSaveKeeps DEF HNext, Operations

(* Whatever the user saves in between, wherever a manager stops and whether *)
(* or not its backup could be written: no hook of the user's is lost but    *)
(* for the excuses InstallSound names, and after                            *)
(* an undisturbed Install Doctor is satisfied, after an Uninstall it is not *)
(* (ClaudeSettingsManager, CodexHooksManager, GrokHooksManager).            *)
THEOREM HooksAreKept == HSpec => []InstallSound
<1>1. HInit => HookInv
  BY HookInit
<1>2. HookInv /\ [HNext]_hvars => HookInv'
  BY HookStep
<1>3. HookInv => InstallSound
  BY HookInvImplies
<1> QED
  BY <1>1, <1>2, <1>3, PTL DEF HSpec
=============================================================================
