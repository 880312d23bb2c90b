----------------------------- MODULE MCProposer -----------------------------
(***************************************************************************)
(* The proposing of blocks, and their execution by graph on the nodes that *)
(* verify them.  The two share no state: `part' says which one a behaviour *)
(* is about, and the other stays in an initial state in which nothing is   *)
(* enabled that fairness would force.                                      *)
(***************************************************************************)
EXTENDS MCDagSimulation, Proposer

CONSTANTS r1, r2

VARIABLE part

proposingVars == <<part, vars, proposerVars>>

\* Two goroutines with one proposer, with and without the debug option; one with two.
MCProposerConfigs ==
    {[isHaltPropose |-> halt, last |-> 1, rounds |-> {r1, r2}] : halt \in BOOLEAN}
        \cup {[isHaltPropose |-> FALSE, last |-> 2, rounds |-> {r1}]}

ProposingInit ==
    /\ part \in {"simulation", "proposer"}
    /\ Init /\ ProposerInit
    /\ part # "proposer" => config = CHOOSE c \in ProposerConfigs : TRUE
    /\ part # "simulation" => store = [l \in Loc |-> 0]

ProposingNext ==
    /\ UNCHANGED part
    /\ \/ part = "simulation" /\ Next /\ UNCHANGED proposerVars
       \/ part = "proposer" /\ ProposerNext /\ UNCHANGED vars

ProposingSpec ==
    ProposingInit /\ [][ProposingNext]_proposingVars /\ SimulationFairness /\ ProposerFairness
=============================================================================
