---------------------------- MODULE OneShotAppeal ----------------------------
(***************************************************************************)
(* What the challenge service promises, without locks, callers, sequence   *)
(* numbers, events or barriers: an appeal on a subject is filed, argued,   *)
(* spent by one retry identity, and then either granted to that identity   *)
(* or closed.  Filing an appeal closes the live appeals on its subject.    *)
(***************************************************************************)
EXTENDS Naturals

CONSTANTS Appeals, Subjects, Identities, Nobody

VARIABLES
    stage,    \* [Appeals -> Stages]
    subject,  \* [Appeals -> Subjects]
    spender,  \* [Appeals -> Identities]: the retry that spent the appeal
    told      \* [Appeals -> SUBSET Identities]: who was told it may proceed

avars == <<stage, subject, spender, told>>

Live == {a \in Appeals : stage[a] \in {"filed", "argued", "spent"}}

AInit ==
    /\ stage = [a \in Appeals |-> "unfiled"]
    /\ subject = [a \in Appeals |-> Nobody]
    /\ spender = [a \in Appeals |-> Nobody]
    /\ told = [a \in Appeals |-> {}]

CloseIn(S) == [a \in Appeals |-> IF a \in S THEN "closed" ELSE stage[a]]

\* File a on subject s; exactly the live appeals on s are closed.
File(a, s) ==
    /\ stage[a] = "unfiled"
    /\ stage' = [CloseIn({b \in Live : subject[b] = s}) EXCEPT ![a] = "filed"]
    /\ subject' = [subject EXCEPT ![a] = s]
    /\ UNCHANGED <<spender, told>>

\* Refer a on subject s to a human: it is never live, and closes live appeals.
Refer(a, s, S) ==
    /\ stage[a] = "unfiled" /\ S \subseteq Live /\ {b \in Live : subject[b] = s} \subseteq S
    /\ stage' = [CloseIn(S) EXCEPT ![a] = "closed"]
    /\ subject' = [subject EXCEPT ![a] = s]
    /\ UNCHANGED <<spender, told>>

Argue(a) ==
    /\ stage[a] = "filed"
    /\ stage' = [stage EXCEPT ![a] = "argued"]
    /\ UNCHANGED <<subject, spender, told>>

Spend(a, k) ==
    /\ stage[a] = "argued"
    /\ stage' = [stage EXCEPT ![a] = "spent"]
    /\ spender' = [spender EXCEPT ![a] = k]
    /\ UNCHANGED <<subject, told>>

\* Only the identity that spent the appeal is told.
GrantAppeal(a) ==
    /\ stage[a] = "spent"
    /\ stage' = [stage EXCEPT ![a] = "granted"]
    /\ told' = [told EXCEPT ![a] = {spender[a]}]
    /\ UNCHANGED <<subject, spender>>

CloseSome(S) ==
    /\ S # {} /\ S \subseteq Live
    /\ stage' = CloseIn(S)
    /\ UNCHANGED <<subject, spender, told>>

ANext ==
    \/ \E a \in Appeals, s \in Subjects : File(a, s)
    \/ \E a \in Appeals, s \in Subjects, S \in SUBSET Appeals : Refer(a, s, S)
    \/ \E a \in Appeals : Argue(a) \/ GrantAppeal(a)
    \/ \E a \in Appeals, k \in Identities : Spend(a, k)
    \/ \E S \in SUBSET Appeals : CloseSome(S)

ASpec == AInit /\ [][ANext]_avars
=============================================================================
