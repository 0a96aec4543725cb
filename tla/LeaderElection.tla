----------------------------- MODULE LeaderElection -----------------------------
(***************************************************************************)
(* How the drones of a swarm find each other and choose their leader        *)
(* (swarm_single_no_tf_yaw, communication.py), and the formation slot that  *)
(* follows from the topology each of them believes in (formation.py).       *)
(*                                                                         *)
(* There is no agreement protocol.  Every drone broadcasts its liveness,    *)
(* keeps a dictionary of the neighbours it hears, and after every change of *)
(* it names the lowest identifier it knows, its own included, as leader.    *)
(*                                                                         *)
(* Time advances in broadcast intervals (Tick).  Every timer of a running    *)
(* drone fires within the interval it is due in.  An age counts the          *)
(* intervals since a neighbour was heard, so the elapsed time differs from  *)
(* it by less than one: a neighbour of age exactly Timeout may or may not    *)
(* have timed out.                                                          *)
(*                                                                         *)
(* The network is best effort.  Drones crash and restart and liveness        *)
(* messages are delayed or lost until it settles (calm > 0); from then on   *)
(* a broadcast arrives within its interval.                                 *)
(***************************************************************************)
EXTENDS Integers, FiniteSets, FiniteSetsExt

CONSTANTS
    Drones,    \* the identifiers of the drones
    Timeout,   \* neighbor_timeout, also the period of its timer, in intervals (4)
    MaxEvents  \* bound of events

ASSUME DronesAssumption == Drones \subseteq Nat /\ IsFiniteSet(Drones) /\ Drones # {}
ASSUME TimeoutAssumption == Timeout \in Nat /\ Timeout >= 2
ASSUME MaxEventsAssumption == MaxEvents \in Nat

VARIABLES
    up,          \* the drones whose node is running
    last_seen,   \* last_seen_neighbors: the age of each neighbour in the dictionary
    leader_id,
    is_leader,
    pattern,     \* pattern_name: none, or one that is registered or not
    slot,        \* the place _base_offset was computed for, 0 when it is None
    wire,        \* liveness messages under way, <<sender, receiver>>
    broadcast_due,  \* drones whose liveness timer is due
    check_in,    \* intervals until the timeout timer is due
    calm,        \* intervals since the network settled, plus one; 0 before
    events       \* starts, crashes, losses, late intervals, commands

views == <<last_seen, leader_id, is_leader, slot>>
clock == <<broadcast_due, check_in>>
net   == <<calm, events>>
vars  == <<up, views, pattern, wire, clock, net>>

(* By then every trace of an earlier topology is gone; calm is capped here.    *)
Settled == 2 * Timeout + 2

TypeOK ==
    /\ up \subseteq Drones
    /\ DOMAIN last_seen = Drones
    /\ \A d \in Drones :
         /\ DOMAIN last_seen[d] \subseteq Drones \ {d}
         /\ last_seen[d] \in [DOMAIN last_seen[d] -> Nat]
    /\ leader_id \in [Drones -> Drones]
    /\ is_leader \in [Drones -> BOOLEAN]
    /\ pattern \in [Drones -> {"none", "known", "unknown"}]
    /\ slot \in [Drones -> Nat]
    /\ wire \subseteq Drones \X Drones
    /\ broadcast_due \subseteq Drones
    /\ check_in \in [Drones -> 0..Timeout]
    /\ calm \in 0..Settled
    /\ events \in 0..MaxEvents

-----------------------------------------------------------------------------
NoNeighbors == [n \in {} |-> 0]

(* Some drones are launched together.  A node that is not running is kept in    *)
(* the state its constructor leaves: no neighbour, and the referendum that     *)
(* made it its own leader.                                                   *)
Init ==
    /\ up \in SUBSET Drones
    /\ last_seen = [d \in Drones |-> NoNeighbors]
    /\ leader_id = [d \in Drones |-> d]
    /\ is_leader = [d \in Drones |-> TRUE]
    /\ pattern = [d \in Drones |-> "none"]
    /\ slot = [d \in Drones |-> 0]
    /\ wire = {}
    /\ broadcast_due = {}
    /\ check_in = [d \in Drones |-> Timeout]
    /\ calm = 0 /\ events = 0

(* The environment disturbs the swarm: until it settles, MaxEvents times at     *)
(* most.                                                                      *)
Event ==
    /\ calm = 0 /\ events < MaxEvents
    /\ events' = events + 1
    /\ UNCHANGED calm

(* The node is launched, or restarted by systemd.                            *)
Start(d) ==
    /\ d \notin up /\ Event
    /\ up' = up \cup {d}
    /\ UNCHANGED <<views, pattern, wire, clock>>

(* The node dies: an unhandled exception of a callback, or its computer.      *)
Crash(d) ==
    /\ d \in up /\ Event
    /\ up' = up \ {d}
    /\ last_seen' = [last_seen EXCEPT ![d] = NoNeighbors]
    /\ leader_id' = [leader_id EXCEPT ![d] = d]
    /\ is_leader' = [is_leader EXCEPT ![d] = TRUE]
    /\ pattern' = [pattern EXCEPT ![d] = "none"]
    /\ slot' = [slot EXCEPT ![d] = 0]
    /\ wire' = {m \in wire : m[2] # d}
    /\ broadcast_due' = broadcast_due \ {d}
    /\ check_in' = [check_in EXCEPT ![d] = Timeout]

-----------------------------------------------------------------------------
Members(d, seen) == DOMAIN seen \cup {d}

(* Mutant: a running leader keeps the role when a lower identifier appears.    *)
ElectedSticky(d, seen) ==
    IF is_leader[d] THEN d ELSE Min(Members(d, seen))

Elected(d, seen) == Min(Members(d, seen))

(* calculate_position: the index of d among the followers it knows of, sorted. *)
SlotOf(d, seen, leader) ==
    Cardinality({e \in Members(d, seen) \ {leader} : e <= d})

(* Mutant: the formation is refreshed only when the leader changes.           *)
RefreshOnNewLeader(d, seen, leader) ==
    slot' = IF pattern[d] = "known" /\ d # leader /\ leader # leader_id[d]
              THEN [slot EXCEPT ![d] = SlotOf(d, seen, leader)] ELSE slot

(* refresh_pattern sets the stored pattern again.  A name that is not in the    *)
(* registry is stored like any other, and then set_pattern returns before it    *)
(* computes a place, as it does at the leader: the old place is kept.          *)
RefreshPattern(d, seen, leader) ==
    slot' = IF pattern[d] = "known" /\ d # leader
              THEN [slot EXCEPT ![d] = SlotOf(d, seen, leader)] ELSE slot

(* referendum_conducting, on the new dictionary seen of d.  The role changes   *)
(* (become_leader, step_down_as_leader) only when the leader does.            *)
Referendum(d, seen) ==
    LET leader == Elected(d, seen) IN
    /\ last_seen' = [last_seen EXCEPT ![d] = seen]
    /\ leader_id' = [leader_id EXCEPT ![d] = leader]
    /\ is_leader' = [is_leader EXCEPT ![d] =
                        IF leader = leader_id[d] THEN @ ELSE leader = d]
    /\ RefreshPattern(d, seen, leader)

(* _broadcast_liveness; a drone ignores its own.                              *)
BroadcastLiveness(d) ==
    /\ d \in up /\ d \in broadcast_due
    /\ wire' = wire \cup {<<d, n>> : n \in up \ {d}}
    /\ broadcast_due' = broadcast_due \ {d}
    /\ UNCHANGED <<up, views, pattern, check_in, net>>

(* _neighbor_liveness_callback at d: the time of arrival is what counts, not   *)
(* the stamp of the message, so a late one revives a neighbour that is gone.   *)
NeighborLiveness(n, d) ==
    /\ <<n, d>> \in wire /\ d \in up
    /\ wire' = wire \ {<<n, d>>}
    /\ LET seen == [e \in DOMAIN last_seen[d] \cup {n} |->
                       IF e = n THEN 0 ELSE last_seen[d][e]]
       IN \/ n \notin DOMAIN last_seen[d] /\ Referendum(d, seen)
          \/ /\ n \in DOMAIN last_seen[d]
             /\ last_seen' = [last_seen EXCEPT ![d] = seen]
             /\ UNCHANGED <<leader_id, is_leader, slot>>
    /\ UNCHANGED <<up, pattern, clock, net>>

Lose(n, d) ==
    /\ <<n, d>> \in wire /\ Event
    /\ wire' = wire \ {<<n, d>>}
    /\ UNCHANGED <<up, views, pattern, clock>>

(* Mutant: a neighbour is dropped one timeout too late.                       *)
TimedOutLate(d) == {n \in DOMAIN last_seen[d] : last_seen[d][n] > 2 * Timeout}

(* Neighbours that must have, and that may have, timed out.                   *)
MustTimeOut(d) == {n \in DOMAIN last_seen[d] : last_seen[d][n] > Timeout}
MayTimeOut(d)  == {n \in DOMAIN last_seen[d] : last_seen[d][n] = Timeout}

(* Mutant: a timeout changes the dictionary and conducts no referendum.        *)
CheckWithoutReferendum(d) ==
    /\ d \in up /\ check_in[d] = 0
    /\ check_in' = [check_in EXCEPT ![d] = Timeout]
    /\ last_seen' = [last_seen EXCEPT ![d] =
                        [n \in DOMAIN @ \ MustTimeOut(d) |-> last_seen[d][n]]]
    /\ UNCHANGED <<up, leader_id, is_leader, slot, pattern, wire, broadcast_due, net>>

(* _check_neighbor_timeouts.                                                 *)
CheckNeighborTimeouts(d) ==
    /\ d \in up /\ check_in[d] = 0
    /\ check_in' = [check_in EXCEPT ![d] = Timeout]
    /\ \E late \in SUBSET MayTimeOut(d) :
         LET kept == DOMAIN last_seen[d] \ (MustTimeOut(d) \cup late)
         IN \/ kept = DOMAIN last_seen[d] /\ UNCHANGED views
            \/ /\ kept # DOMAIN last_seen[d]
               /\ Referendum(d, [n \in kept |-> last_seen[d][n]])
    /\ UNCHANGED <<up, pattern, wire, broadcast_due, net>>

(* The "leader_is_dead" command at a follower: del last_seen_neighbors[        *)
(* leader_id], which raises unless the leader is in the dictionary.           *)
LeaderIsDead(d) ==
    /\ d \in up /\ Event /\ ~is_leader[d]
    /\ leader_id[d] \in DOMAIN last_seen[d]
    /\ Referendum(d, [n \in DOMAIN last_seen[d] \ {leader_id[d]} |-> last_seen[d][n]])
    /\ UNCHANGED <<up, pattern, wire, clock>>

(* A formation command: the station's at a leader (which relays it), the         *)
(* relayed one at the followers it reaches.  Nobody checks the name before      *)
(* set_pattern has stored it.                                                 *)
FormationCommand(reached, name) ==
    /\ reached # {} /\ Event
    /\ pattern' = [d \in Drones |-> IF d \in reached THEN name ELSE pattern[d]]
    /\ slot' = [d \in Drones |->
                   IF d \in reached /\ name = "known" /\ d # leader_id[d]
                     THEN SlotOf(d, last_seen[d], leader_id[d]) ELSE slot[d]]
    /\ UNCHANGED <<up, last_seen, leader_id, is_leader, wire, clock>>

-----------------------------------------------------------------------------
Settle ==
    /\ calm = 0 /\ calm' = 1
    /\ wire = {} /\ broadcast_due = up
    /\ UNCHANGED <<up, views, pattern, wire, clock, events>>

(* One broadcast interval passes; messages still under way are late.          *)
Tick ==
    /\ broadcast_due = {}
    /\ \A d \in up : check_in[d] > 0
    /\ \/ wire = {} /\ UNCHANGED events
       \/ wire # {} /\ calm = 0 /\ events < MaxEvents /\ events' = events + 1
    /\ last_seen' = [d \in Drones |->
                        [n \in DOMAIN last_seen[d] |-> last_seen[d][n] + 1]]
    /\ broadcast_due' = up
    /\ check_in' = [d \in Drones |-> IF d \in up THEN check_in[d] - 1 ELSE check_in[d]]
    /\ calm' = IF calm \in 1..(Settled - 1) THEN calm + 1 ELSE calm
    /\ UNCHANGED <<up, leader_id, is_leader, slot, pattern, wire>>

Deliver == \E n, d \in Drones : NeighborLiveness(n, d)

Timers == \E d \in Drones : BroadcastLiveness(d) \/ CheckNeighborTimeouts(d)

Faults ==
    \/ \E d \in Drones : Start(d) \/ Crash(d) \/ LeaderIsDead(d)
    \/ \E n, d \in Drones : Lose(n, d)

Next ==
    \/ Timers \/ Deliver \/ Tick \/ Settle \/ Faults
    \/ \E reached \in SUBSET up, name \in {"known", "unknown"} :
           FormationCommand(reached, name)

Spec == Init /\ [][Next]_vars

(* Running timers fire, time passes, a message that is not lost arrives, and    *)
(* the environment does settle.                                              *)
Fairness == WF_vars(Timers) /\ WF_vars(Tick) /\ WF_vars(Deliver) /\ SF_vars(Settle)

FairSpec == Spec /\ Fairness
-----------------------------------------------------------------------------
(* Each drone follows the lowest identifier it knows, and holds the leader's   *)
(* role exactly when that is its own: referendum_conducting is called after    *)
(* every change of the dictionary and skips the role only when it is right.    *)
LeaderIsLowest ==
    \A d \in Drones :
        /\ leader_id[d] = Min(Members(d, last_seen[d]))
        /\ is_leader[d] <=> leader_id[d] = d

(* Two drones that lead at once (after a start, a loss or a partition) never    *)
(* hear each other: the higher one has not heard the lower one.               *)
LeadersDoNotMeet ==
    \A d, e \in Drones : is_leader[d] /\ is_leader[e] /\ d < e => d \notin DOMAIN last_seen[e]

(* The leader a follower believes in is in its dictionary, so the deletion of   *)
(* the "leader_is_dead" command cannot raise a KeyError and kill the node.     *)
FollowedLeaderIsSeen ==
    \A d \in Drones : ~is_leader[d] => leader_id[d] \in DOMAIN last_seen[d]

(* Two followers that fly a registered pattern and believe in the same topology  *)
(* never have the same place in it, whichever of its changes made them          *)
(* recompute it, and whatever names they were sent before: an unknown name      *)
(* stops the recomputation, and the next registered one makes up for it.        *)
SlotsDistinct ==
    \A d, e \in up :
        /\ d # e /\ Members(d, last_seen[d]) = Members(e, last_seen[e])
        /\ pattern[d] = "known" /\ pattern[e] = "known"
        /\ ~is_leader[d] /\ ~is_leader[e]
        => slot[d] # slot[e]

(* A neighbour silent for two timeouts is out of the dictionary: one timeout,   *)
(* and at most one period of the timer that looks for it.                      *)
SilentNeighborDropped ==
    \A d \in up : \A n \in DOMAIN last_seen[d] : last_seen[d][n] <= 2 * Timeout

(* Every running drone follows the lowest running one, which leads.            *)
Agreed ==
    \A d \in up :
        /\ Members(d, last_seen[d]) = up
        /\ leader_id[d] = Min(up)
        /\ is_leader[d] <=> d = Min(up)

(* Two timeouts after the last fault the swarm agrees, and goes on agreeing.    *)
AgreedWhenSettled == calm = Settled => Agreed

(* A network that settles leads to one leader for good.                       *)
ElectionSettles == <>[]Agreed
=============================================================================
