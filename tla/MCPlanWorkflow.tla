---------------------------- MODULE MCPlanWorkflow ----------------------------
(* Instances of PlanWorkflow for TLC. *)
EXTENDS PlanWorkflow, TLC

Symmetry == Permutations(Request)

\* The state a first plan request leaves: one version, waiting for its approval.
FirstLog == <<Mk("PlanGenerated", None), Mk("Suspended", Word("plan_approval"))>>

InitPlanned ==
    /\ record = [v \in Version |-> IF v = 1 THEN "pending_approval" ELSE "none"]
    /\ events = [v \in Version |-> IF v = 1 THEN FirstLog ELSE <<>>]
    /\ row = [v \in Version |-> IF v = 1
                 THEN [projectWorkflow(createInitialState, FirstLog) EXCEPT !.rev = 1]
                 ELSE NoRow]
    /\ job = [r \in Request |-> Idle]
    /\ served = 0 /\ faults = 0

SpecPlanned == InitPlanned /\ [][Next]_vars
=============================================================================
