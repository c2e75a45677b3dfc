------------------------- MODULE MCChallengeService -------------------------
(* Instances of the challenge service for TLC. *)
EXTENDS ChallengeReplay, ChallengeRefinement, TLC

CONSTANTS bash, shell,   \* one delete under two tool names: two fingerprints
          rmTree,        \* its side effect, targets and operation digest
          edit           \* another action

MCSessionOf == [f \in Fps |-> "s1"]
MCSem == [f \in Fps |-> IF f = edit THEN NoSem ELSE rmTree]
Rewrites == {rmTree}     \* the delete may be retried under either tool name
NoRewrites == {}

Symmetry == Permutations(Callers) \cup Permutations(Gens) \cup Permutations(Fps)
            \cup Permutations(Attempts)
=============================================================================
