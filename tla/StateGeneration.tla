-------------------------- MODULE StateGeneration --------------------------
(***************************************************************************)
(* What the state package promises of a state directory: it always holds   *)
(* exactly one generation of the agent's files. An agent that is serving   *)
(* rewrites it; a restore replaces it with one snapshot, whole, and only   *)
(* while no agent is serving. Crashes and failures change nothing.         *)
(***************************************************************************)
CONSTANTS
  Generations,  \* what an agent may leave in its state directory
  Snapshots     \* what a restore may install

VARIABLES
  generation,  \* name -> content of the one generation there is
  serving      \* an agent has the directory open

vars == <<generation, serving>>

Init == generation \in Generations /\ serving = FALSE

Serve == serving' = TRUE /\ UNCHANGED generation

Stop == serving' = FALSE /\ UNCHANGED generation

Write == serving /\ generation' \in Generations /\ UNCHANGED serving

Install == ~serving /\ generation' \in Snapshots /\ UNCHANGED serving

Next == Serve \/ Stop \/ Write \/ Install

Spec == Init /\ [][Next]_vars
=============================================================================
