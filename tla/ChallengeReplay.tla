--------------------------- MODULE ChallengeReplay ---------------------------
(***************************************************************************)
(* ReplayFromStore and ApplyEvent of pkg/challenge: rebuilding a challenge *)
(* from its append-only events, against the record the live service keeps. *)
(***************************************************************************)
EXTENDS ChallengeService

\* ChallengeEvent.ToState for each event type the service appends.
ToState(type) ==
    CASE type = "opened" -> "OPEN"
      [] type = "justified" -> "JUSTIFIED"
      [] type = "budget_consumed" -> "RETRY_PENDING"
      [] type = "allowed_once" -> "ALLOWED_ONCE"
      [] type = "rejected" -> "REJECTED"
      [] type = "human_review" -> "HUMAN_REVIEW"
      [] type = "abandoned" -> "ABANDONED"
      [] type = "expired" -> "EXPIRED"

\* ApplyEvent: the projector of one event.
ApplyEvent(rec, ev) ==
    LET to == [rec EXCEPT !.state = ToState(ev.type)] IN
    IF rec.state = ToState(ev.type) /\ ev.type # "budget_consumed" THEN rec
    ELSE CASE ev.type = "opened" -> [to EXCEPT !.stage2 = "BLOCK"]
           [] ev.type = "budget_consumed" ->
                [to EXCEPT !.budget = IF @ > 0 THEN @ - 1 ELSE @]
           [] ev.type = "allowed_once" -> [to EXCEPT !.stage2 = "ALLOW", !.interv = "none"]
           [] ev.type = "rejected" -> [to EXCEPT !.stage2 = "BLOCK"]
           [] ev.type = "human_review" ->
                [to EXCEPT !.stage2 = "BLOCK", !.interv = "HUMAN_REVIEW", !.budget = 0]
           [] OTHER -> to

\* The events whose payload replay takes for the consumed retry identity.
KeyEvents == {"allowed_once", "rejected", "human_review"}

\* One round of ReplayFromStore's loop: metadata and justification from the
\* snapshot, the projector, the consumed identity from the event's payload.
ReplayStep(snap, rec, ev) ==
    LET seeded == CASE ev.type = "opened" -> [rec EXCEPT !.interv = snap.interv]
                    [] ev.type = "justified" -> [rec EXCEPT !.just = snap.just]
                    [] OTHER -> rec
        next == ApplyEvent(seeded, ev)
    IN IF ev.type \in KeyEvents /\ ev.payload # None
         THEN [next EXCEPT !.key = ev.payload] ELSE next

\* RetryBudgetInitial: a human review opens with no budget.
BudgetInitial(id) == IF log[id][1].type = "opened" THEN 1 ELSE 0

\* The state of the seed record, before any event is applied.
Unset == ""

ReplayFromStore(id) ==
    LET seed == [byID[id] EXCEPT !.state = Unset, !.just = None, !.budget = BudgetInitial(id)]
        after[n \in 0..Len(log[id])] ==
            IF n = 0 THEN seed ELSE ReplayStep(byID[id], after[n - 1], log[id][n])
    IN after[Len(log[id])]

\* validateTransition, which only the exported Replay consults.
ValidateTransition(from, to) ==
    \/ from = to
    \/ from = "OPEN" /\ to \in {"JUSTIFIED", "REJECTED", "ABANDONED", "EXPIRED", "HUMAN_REVIEW"}
    \/ from = "JUSTIFIED" /\ to \in {"RETRY_PENDING", "ABANDONED", "EXPIRED", "REJECTED",
                                     "HUMAN_REVIEW"}
    \/ from = "RETRY_PENDING" /\ to \in {"ALLOWED_ONCE", "REJECTED", "HUMAN_REVIEW", "EXPIRED"}

\* The exported Replay takes every event of the log: it validates all but the
\* first, and skips what follows a terminal state.
Replayable(id) ==
    \A n \in 2..Len(log[id]) :
        ValidateTransition(ToState(log[id][n - 1].type), ToState(log[id][n].type))

\* A challenge refused or referred to a human before a retry was charged to it:
\* retry_without_justification, budget_exhausted, or opened as a review.
Uncharged(i) ==
    /\ byID[i].state \in {"REJECTED", "HUMAN_REVIEW"}
    /\ \A n \in DOMAIN log[i] : log[i][n].type # "budget_consumed"

\* What ReplayFromStore answers agrees with the live record in state, Stage-2
\* decision, intervention, retry budget, justification and consumed retry identity
\* after every step of every interleaving, and the exported Replay never refuses
\* the log or ignores a part of it: no path changes a record without logging it,
\* logs what it does not do, or revives a finished challenge.  The one exception
\* is the identity of an uncharged challenge: the live record has none, and replay
\* takes the fingerprint in the event's payload for it (Open, AttemptRetry).
LiveEqualsReplay ==
    \A i \in Ids : byID[i].state # "NONE" =>
        LET r == ReplayFromStore(i) IN
        /\ r.state = byID[i].state /\ r.stage2 = byID[i].stage2
        /\ r.interv = byID[i].interv /\ r.budget = byID[i].budget
        /\ r.just = byID[i].just
        /\ IF Uncharged(i) THEN byID[i].key = None /\ r.key \in Fps
           ELSE r.key = byID[i].key
        /\ Replayable(i)

-----------------------------------------------------------------------------
(* The inductive invariant behind LiveEqualsReplay. *)

\* The events a challenge goes through while it is live, and those that end it.
Course == <<"opened", "justified", "budget_consumed">>
Endings == {"allowed_once", "rejected", "human_review", "abandoned", "expired"}

\* The log l opens with n events of the course and r is where the last one left
\* the record: live, or at an ending that the course so far allows.
Follows(l, r, n) ==
    /\ Len(l) \in {n, n + 1} /\ \A k \in 1..n : l[k].type = Course[k]
    /\ Len(l) = n => r.state = ToState(Course[n])
    /\ Len(l) = n + 1 =>
          /\ l[n + 1].type \in Endings /\ r.state = ToState(l[n + 1].type)
          /\ ValidateTransition(ToState(Course[n]), r.state)
    /\ n = 1 => r.just = None
    /\ r.budget = IF n = 3 THEN 0 ELSE 1
    /\ r.stage2 = IF r.state = "ALLOWED_ONCE" THEN "ALLOW" ELSE "BLOCK"
    /\ r.state = "ALLOWED_ONCE" => r.interv = "none"
    /\ r.state = "HUMAN_REVIEW" => r.interv = "HUMAN_REVIEW" /\ r.budget = 0
    /\ IF Len(l) = n + 1 /\ l[n + 1].type \in KeyEvents
         THEN IF n = 3 THEN r.key = l[n + 1].payload /\ r.key # None
              ELSE r.key = None /\ l[n + 1].payload \in Fps
         ELSE r.key = None

\* A challenge born as a human review has the one event.
Referred(l, r) ==
    /\ Len(l) = 1 /\ l[1].type = "human_review" /\ r.state = "HUMAN_REVIEW"
    /\ r.just = None /\ r.budget = 0 /\ r.stage2 = "BLOCK" /\ r.interv = "HUMAN_REVIEW"
    /\ r.key = None /\ l[1].payload \in Fps

Told(l, r) ==
    IF r.state = "NONE" THEN l = <<>>
    ELSE Referred(l, r) \/ \E n \in 1..3 : Follows(l, r, n)

ToldInv == \A i \in Ids : Told(log[i], byID[i])
=============================================================================
