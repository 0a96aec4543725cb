------------------------------ MODULE MCP900Bridge ------------------------------
(* Constants of the bridge's run.  One behavior has the traffic of one kind: the     *)
(* newest-only stream of a follower, which is relayed, with that of the leader; the   *)
(* queued stream of a follower, which is relayed; or the station's queued commands.    *)
EXTENDS P900Bridge

VARIABLE traffic

StateSources == {<<"f2", "local_state">>, <<"leader", "local_state">>}
Traffic == {StateSources, {<<"f2", "live">>}, {<<"station", "command">>}}
AllSources == UNION Traffic
LeaderSamples == 1     \* bound on the leader's own states

MCInit == Init /\ traffic \in Traffic

MCNext ==
    /\ Next /\ UNCHANGED traffic
    /\ \A s \in Sources \ traffic : made'[s] = made[s]
    /\ made'[<<"leader", "local_state">>] <= LeaderSamples

MCSpec == MCInit /\ [][MCNext]_<<vars, traffic>> /\ Fairness
=============================================================================
