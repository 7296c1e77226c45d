---------------------------- MODULE MCSlackAgent ----------------------------
(***************************************************************************)
(* Instances of SlackAgent for TLC.                                        *)
(***************************************************************************)
EXTENDS SlackAgent, TLC

\* Jobs that choose no channel.
NoPodChannel == [p \in Pods |-> Nil]

\* The agents are alike.
AgentSymmetry == Permutations(Agents)

=============================================================================
