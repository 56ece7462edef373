---------------------------- MODULE MCAgentTurns ----------------------------
(* AgentTurns on small instances.                                           *)
EXTENDS AgentTurns

(* Two configurations: the plan on the SDK and the rest on OpenCode, and    *)
(* the other way round.                                                     *)
MCRoles == {"worker", "review", "lead"}
MCRoutings ==
    {[role \in MCRoles |-> IF role = "lead" THEN "sdk" ELSE "acp"],
     [role \in MCRoles |-> IF role = "lead" THEN "acp" ELSE "sdk"]}
=============================================================================
