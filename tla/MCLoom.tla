-------------------------------- MODULE MCLoom ------------------------------
(***************************************************************************)
(* The two halves of LOOM, each on its own: what the agents report is      *)
(* arbitrary in LoomArchitect, and when main ends them in LoomAgents.  Six *)
(* tasks are one more than the architect has time for (of a graph that is  *)
(* there before the first run six, five or none are open), two commits     *)
(* enough for one to overwrite the other.                                  *)
(***************************************************************************)
EXTENDS LoomAgents, LoomArchitect

VARIABLE half   \* the one that runs; the other stays where it starts

Log == <<1, 2>>

LoomInit ==
  /\ half \in {"agents", "architect"}
  /\ Init
  /\ ArchitectInit /\ (half = "agents" => saved = NoGraph /\ ~waits)
  /\ Cardinality(Pending(saved)) \in {0, 5, 6}

LoomNext ==
  /\ UNCHANGED half
  /\ IF half = "agents" THEN Next ELSE UNCHANGED vars
  /\ IF half = "architect" THEN ArchitectNext ELSE UNCHANGED architectVars

\* The fairness of the two halves, each where it runs: the other takes no step.
LoomSpec ==
  /\ LoomInit /\ [][LoomNext]_<<half, vars, architectVars>>
  /\ \A w \in Workers : /\ WF_vars(half = "agents" /\ Act(w))
                         /\ WF_vars(half = "agents" /\ Handle(w))
  /\ WF_architectVars(half = "architect" /\ Step)
=============================================================================
