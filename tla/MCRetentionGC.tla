----------------------------- MODULE MCRetentionGC -----------------------------
(* Values of RetentionGC's constants for TLC: a session that refers to the trace *)
(* before it, and a younger trace; the budget of traces does not hold both.    *)
EXTENDS RetentionGC, TLC

CONSTANTS i1, i2

MCKind == <<"query_trace", "agent_query_session", "query_trace">>
MCSize == <<1, 1, 2>>
MCRefs == <<{}, {1}, {}>>

MCBudget ==
    [kind \in ArtifactTypes |->
        IF kind = "query_trace" THEN [age |-> 4, count |-> 1, bytes |-> 2]
                                ELSE [age |-> 1, count |-> 1, bytes |-> 1]]

MCEvidences ==
    {[pins |-> {}, active |-> {}], [pins |-> {3}, active |-> {}],
     [pins |-> {}, active |-> {2}]}

Symmetry == Permutations(Instances)
===============================================================================
