------------------------- MODULE ChallengeRefinement -------------------------
(* ChallengeService implements OneShotAppeal: the mapping of its state. *)
EXTENDS ChallengeService

StageOf(i) ==
    LET st == byID[i].state IN
    CASE st = "NONE" -> "unfiled"
      [] st = "OPEN" -> "filed"
      [] st = "JUSTIFIED" -> "argued"
      [] st = "RETRY_PENDING" -> "spent"
      [] st = "ALLOWED_ONCE" -> "granted"
      [] OTHER -> "closed"

\* The events that record a consumption, and the retry they name.
Spends(i) == {n \in DOMAIN log[i] : log[i][n].type = "budget_consumed"}
SpenderOf(i) == IF Spends(i) = {} THEN None ELSE log[i][CHOOSE n \in Spends(i) : TRUE].payload

Appeal == INSTANCE OneShotAppeal WITH
    Appeals <- Ids, Subjects <- Fps, Identities <- Keys, Nobody <- None,
    stage <- [i \in Ids |-> StageOf(i)],
    subject <- [i \in Ids |-> byID[i].fp],
    spender <- [i \in Ids |-> SpenderOf(i)],
    told <- grants

\* Every behaviour of the service is a behaviour of the one-shot appeal: the
\* authorisation goes to the retry whose budget_consumed event the log holds, at
\* most once, and only along file, argue, spend, grant.
ImplementsAppeal == Appeal!ASpec

\* The strengthening of IInv behind the refinement theorem of ChallengeProofs: no
\* budget is spent before RETRY_PENDING, and a retry that is being re-evaluated
\* outside the lock is the one whose budget_consumed event the log holds.
SpendInv ==
    /\ \A i \in Ids : byID[i].state \in {"NONE", "OPEN", "JUSTIFIED"} => Spends(i) = {}
    /\ \A c \in Callers, i \in Ids : pc[c] = "reeval" /\ loc[c].id = i =>
          Spends(i) # {} /\ SpenderOf(i) = Key(c)
=============================================================================
