---------------------------- MODULE MCAgentWait ----------------------------
(***************************************************************************)
(* AgentWait on small instances.                                           *)
(***************************************************************************)
EXTENDS AgentWait

Written(kind, default, same) ==
    [adapter |-> kind, defaultKey |-> default, sameNode |-> same]

\* Every adapter that the repository ships: Temporal with keys of its own and with the
\* default one, LangGraph with the questions in one node and in two.
AllPrograms ==
    {Written("direct", FALSE, FALSE),
     Written("temporal", FALSE, FALSE), Written("temporal", TRUE, FALSE),
     Written("langgraph", FALSE, FALSE), Written("langgraph", FALSE, TRUE)}
=============================================================================
