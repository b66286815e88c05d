----------------------------- MODULE MCAgentAuth ------------------------------
(* Instances of AgentAuth for TLC.  Agents and file descriptors are        *)
(* interchangeable.                                                        *)
EXTENDS AgentAuth, TLC

CONSTANTS a1, a2, f1, f2

Symmetry == Permutations(Agents) \cup Permutations(Fds)

UseOf(timeouts, refused, ops) ==
    [timeouts |-> timeouts, refused |-> refused, ops |-> ops]

\* Nothing goes wrong; anything may; and the program is careless as well.
AllUses ==
    {UseOf(FALSE, FALSE, {"agent_auth", "Agent"}),
     UseOf(FALSE, TRUE, {"agent_auth", "Agent"}),
     UseOf(TRUE, TRUE, {"agent_auth", "Agent"}),
     UseOf(TRUE, FALSE, {"agent_auth", "Agent", "agent_init"}),
     UseOf(FALSE, FALSE, {"agent_auth", "Agent", "keep_keys"}),
     UseOf(FALSE, FALSE, {"agent_auth", "Agent", "reconnect"})}

\* agent_auth on a session with a timeout.
TimeoutUses == {UseOf(TRUE, FALSE, {"agent_auth"})}

\* An Agent that is connected twice.
ReconnectUses == {UseOf(FALSE, FALSE, {"Agent", "reconnect"})}
===============================================================================
