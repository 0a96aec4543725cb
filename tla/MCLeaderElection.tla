---------------------------- MODULE MCLeaderElection ----------------------------
(* The bounds of the election's run: all drones and few events, and then a registered *)
(* formation after an unknown one, or one drone fewer, which never starts, and more   *)
(* events.                                                                         *)
EXTENDS LeaderElection

CONSTANT MaxEventsOfAll     \* bound on the events if all drones take part

VARIABLE absent

MCInit == Init /\ absent \in {{}, {Max(Drones)}} /\ up \cap absent = {}

MCNext ==
    /\ Next /\ UNCHANGED absent
    /\ up' \cap absent = {}
    /\ absent = {} => \/ events' <= MaxEventsOfAll
                      \/ UNCHANGED events
                      \/ "unknown" \in {pattern[d] : d \in up} /\ FormationCommand(up, "known")

MCSpec == MCInit /\ [][MCNext]_<<vars, absent>> /\ Fairness
=============================================================================
