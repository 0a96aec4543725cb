-------------------------- MODULE LeaderElectionProofs --------------------------
(***************************************************************************)
(* Proofs about LeaderElection, for every set of drones and every timeout.  *)
(*                                                                         *)
(* LeaderIsLowest is inductive together with the shape of the dictionaries; *)
(* the other two facts about leaders follow from it.  The bound on the age  *)
(* of a neighbour needs the time left until the next check (AgeWithinCheck). *)
(*                                                                         *)
(* Two more invariants rest on that one: a slot is the one of its drone's    *)
(* present view (SlotFollowsView), which keeps slots apart, and in a calm    *)
(* swarm every drone has lately been heard or soon is (CalmInv), which makes *)
(* it agree once it has settled.                                            *)
(***************************************************************************)
EXTENDS LeaderElection, FiniteSetTheorems, TLAPS

(* A set of identifiers has a lowest one, and Min finds it: the intervals 0..x  *)
(* of its members x are finite sets, among which inclusion is well founded.    *)
LEMMA MinIsLowest ==
    ASSUME NEW S, S \subseteq Nat, S # {}
    PROVE  Min(S) \in S /\ \A x \in S : Min(S) <= x
<1> DEFINE Below == {0..x : x \in S}
<1>1. Below \subseteq FiniteSubsetsOf(Nat)
  <2>1. \A x \in S : IsFiniteSet(0..x)
    BY FS_Interval
  <2> QED
    BY <2>1 DEF FiniteSubsetsOf
<1>2. PICK B \in Below : \A C \in Below : ~(<<C, B>> \in StrictSubsetOrdering(Nat))
  <2>1. Below # {}
    OBVIOUS
  <2> HIDE DEF Below
  <2> QED
    BY <1>1, <2>1, WFMin, FS_StrictSubsetOrderingWellFounded
<1>3. PICK m \in S : B = 0..m
  OBVIOUS
<1>4. \A x \in S : m <= x
  <2> SUFFICES ASSUME NEW x \in S, x < m PROVE FALSE
    OBVIOUS
  <2>1. 0..x \in Below
    OBVIOUS
  <2>2. 0..x \subseteq 0..m /\ 0..x # 0..m /\ 0..x \in SUBSET Nat /\ 0..m \in SUBSET Nat
    OBVIOUS
  <2> HIDE DEF Below
  <2> QED
    BY <1>2, <1>3, <2>1, <2>2 DEF StrictSubsetOrdering
<1> QED
  BY <1>4 DEF Min
-----------------------------------------------------------------------------
(* What lies under way was sent by another drone.                             *)
NoSelfLiveness == \A m \in wire : m[1] # m[2]

(* A node that is not running knows nobody.                                   *)
DownKnowsNobody == \A d \in Drones \ up : last_seen[d] = NoNeighbors

(* The age a neighbour will have when the timeout timer next fires.            *)
AgeWithinCheck ==
    \A d \in Drones : \A n \in DOMAIN last_seen[d] :
        last_seen[d][n] + check_in[d] <= 2 * Timeout

IInv ==
    /\ TypeOK
    /\ NoSelfLiveness
    /\ DownKnowsNobody
    /\ LeaderIsLowest
    /\ AgeWithinCheck

(* A dictionary that drone d may hold.                                        *)
DictionaryOf(d, seen) ==
    DOMAIN seen \subseteq Drones \ {d} /\ seen \in [DOMAIN seen -> Nat]

(* The slot computed from a dictionary is a number.                           *)
LEMMA SlotType ==
    ASSUME NEW d \in Drones, NEW seen, DictionaryOf(d, seen), NEW leader
    PROVE  SlotOf(d, seen, leader) \in Nat
<1> DEFINE Ahead == {e \in Members(d, seen) \ {leader} : e <= d}
<1>1. Ahead \in SUBSET Drones
  BY DEF Members, DictionaryOf
<1>2. Cardinality(Ahead) \in Nat
  BY <1>1, FS_Subset, FS_CardinalityType, DronesAssumption
<1> QED
  BY <1>2 DEF SlotOf

(* The winner of a referendum is a drone.                                     *)
LEMMA ElectedType ==
    ASSUME NEW d \in Drones, NEW seen, DictionaryOf(d, seen)
    PROVE  Elected(d, seen) \in Drones
<1>1. Members(d, seen) \subseteq Drones /\ Members(d, seen) # {}
  BY DEF Members, DictionaryOf
<1> QED
  BY <1>1, MinIsLowest, DronesAssumption DEF Elected

(* A referendum on any dictionary leaves the drone with a right leader and the  *)
(* right role, and well typed.                                                *)
LEMMA ReferendumElects ==
    ASSUME TypeOK, LeaderIsLowest, NEW d \in Drones, NEW seen, DictionaryOf(d, seen),
           Referendum(d, seen), UNCHANGED pattern
    PROVE  /\ DOMAIN last_seen' = Drones
           /\ last_seen' = [last_seen EXCEPT ![d] = seen]
           /\ leader_id' \in [Drones -> Drones]
           /\ is_leader' \in [Drones -> BOOLEAN]
           /\ slot' \in [Drones -> Nat]
           /\ LeaderIsLowest'
<1>1. /\ Elected(d, seen) \in Drones
      /\ SlotOf(d, seen, Elected(d, seen)) \in Nat
  BY ElectedType, SlotType
<1>2. /\ last_seen' = [last_seen EXCEPT ![d] = seen]
      /\ leader_id' = [leader_id EXCEPT ![d] = Elected(d, seen)]
      /\ is_leader' = [is_leader EXCEPT ![d] =
                         IF Elected(d, seen) = leader_id[d] THEN is_leader[d]
                         ELSE Elected(d, seen) = d]
  BY DEF Referendum
<1>3. DOMAIN last_seen' = Drones
  BY <1>2 DEF TypeOK
<1>4. leader_id' \in [Drones -> Drones]
  BY <1>1, <1>2 DEF TypeOK
<1>5. is_leader' \in [Drones -> BOOLEAN]
  BY <1>2 DEF TypeOK
<1>6. slot' \in [Drones -> Nat]
  BY <1>1 DEF Referendum, RefreshPattern, TypeOK
<1>7. ASSUME NEW e \in Drones
      PROVE  /\ leader_id'[e] = Min(Members(e, last_seen'[e]))
             /\ is_leader'[e] <=> leader_id'[e] = e
  <2>1. CASE e = d
    BY <1>2, <2>1 DEF LeaderIsLowest, TypeOK, Elected
  <2>2. CASE e # d
    BY <1>2, <2>2 DEF LeaderIsLowest, TypeOK
  <2> QED
    BY <2>1, <2>2
<1> QED
  BY <1>2, <1>3, <1>4, <1>5, <1>6, <1>7 DEF LeaderIsLowest

(* A referendum whose dictionary is young enough keeps the whole invariant.     *)
LEMMA ReferendumKeeps ==
    ASSUME IInv, NEW d \in up, NEW seen, DictionaryOf(d, seen),
           Referendum(d, seen), UNCHANGED <<up, pattern, broadcast_due>>,
           wire' \subseteq wire, calm' \in 0..Settled, events' \in 0..MaxEvents,
           check_in' \in [Drones -> 0..Timeout],
           \A e \in Drones \ {d} : check_in'[e] = check_in[e],
           \A n \in DOMAIN seen : seen[n] + check_in'[d] <= 2 * Timeout
    PROVE  IInv'
<1>1. d \in Drones /\ TypeOK /\ LeaderIsLowest
  BY DEF IInv, TypeOK
<1>2. /\ DOMAIN last_seen' = Drones
      /\ last_seen' = [last_seen EXCEPT ![d] = seen]
      /\ leader_id' \in [Drones -> Drones]
      /\ is_leader' \in [Drones -> BOOLEAN]
      /\ slot' \in [Drones -> Nat]
      /\ LeaderIsLowest'
  BY <1>1, ReferendumElects
<1>3. \A e \in Drones : DictionaryOf(e, last_seen'[e])
  BY <1>1, <1>2 DEF TypeOK, DictionaryOf
<1>4. TypeOK'
  BY <1>1, <1>2, <1>3 DEF TypeOK, DictionaryOf
<1>5. AgeWithinCheck'
  BY <1>1, <1>2 DEF IInv, TypeOK, AgeWithinCheck
<1>6. DownKnowsNobody' /\ NoSelfLiveness'
  BY <1>1, <1>2 DEF IInv, TypeOK, DownKnowsNobody, NoSelfLiveness
<1> QED
  BY <1>2, <1>4, <1>5, <1>6 DEF IInv

(* A step that changes no dictionary, role or timer keeps what is said of them. *)
LEMMA QuietKeeps ==
    ASSUME IInv, UNCHANGED <<up, last_seen, leader_id, is_leader, check_in>>,
           TypeOK', NoSelfLiveness'
    PROVE  IInv'
  BY DEF IInv, DownKnowsNobody, LeaderIsLowest, AgeWithinCheck, Members
-----------------------------------------------------------------------------
(* Launched drones know nobody and lead themselves.                           *)
LEMMA InitIInv == Init => IInv
<1> SUFFICES ASSUME Init PROVE IInv
  OBVIOUS
<1> USE TimeoutAssumption, MaxEventsAssumption, DronesAssumption
<1>1. \A d \in Drones : DOMAIN last_seen[d] = {} /\ DictionaryOf(d, last_seen[d])
  BY DEF Init, NoNeighbors, DictionaryOf
<1>2. TypeOK
  BY <1>1 DEF Init, TypeOK, DictionaryOf, Settled
<1>3. LeaderIsLowest
  <2> SUFFICES ASSUME NEW d \in Drones PROVE Min(Members(d, last_seen[d])) = d
    BY DEF LeaderIsLowest, Init
  <2>1. Members(d, last_seen[d]) = {d}
    BY <1>1 DEF Members
  <2> QED
    BY <2>1, MinIsLowest
<1>4. NoSelfLiveness /\ DownKnowsNobody /\ AgeWithinCheck
  BY <1>1 DEF Init, NoSelfLiveness, DownKnowsNobody, AgeWithinCheck
<1> QED
  BY <1>2, <1>3, <1>4 DEF IInv

(* Every step keeps the invariant.                                            *)
LEMMA NextIInv == IInv /\ [Next]_vars => IInv'
<1> SUFFICES ASSUME IInv, [Next]_vars PROVE IInv'
  OBVIOUS
<1> USE TimeoutAssumption, MaxEventsAssumption, DronesAssumption
<1>1. CASE UNCHANGED vars
  BY <1>1 DEF vars, views, clock, net, IInv, TypeOK, NoSelfLiveness, DownKnowsNobody,
      LeaderIsLowest, AgeWithinCheck, Members
<1>2. ASSUME NEW d \in Drones, Start(d) PROVE IInv'
  BY <1>2 DEF Start, Event, views, clock, IInv, TypeOK, NoSelfLiveness,
      DownKnowsNobody, LeaderIsLowest, AgeWithinCheck, Members
<1>3. ASSUME NEW d \in Drones, Crash(d) PROVE IInv'
  <2> USE <1>3 DEF Crash, Event
  <2>1. \A e \in Drones :
          /\ e = d => DOMAIN last_seen'[e] = {} /\ DictionaryOf(e, last_seen'[e])
          /\ e # d => last_seen'[e] = last_seen[e] /\ leader_id'[e] = leader_id[e]
                      /\ (is_leader'[e] <=> is_leader[e]) /\ check_in'[e] = check_in[e]
    BY DEF IInv, TypeOK, NoNeighbors, DictionaryOf
  <2>2. TypeOK'
    BY <2>1 DEF IInv, TypeOK, DictionaryOf
  <2>3. LeaderIsLowest'
    <3> SUFFICES ASSUME NEW e \in Drones
                 PROVE  /\ leader_id'[e] = Min(Members(e, last_seen'[e]))
                        /\ is_leader'[e] <=> leader_id'[e] = e
      BY DEF LeaderIsLowest
    <3>1. CASE e = d
      <4>1. Members(e, last_seen'[e]) = {e}
        BY <2>1, <3>1 DEF Members
      <4>2. Min({e}) = e
        BY MinIsLowest
      <4> QED
        BY <3>1, <4>1, <4>2 DEF IInv, TypeOK
    <3>2. CASE e # d
      BY <2>1, <3>2 DEF IInv, LeaderIsLowest, Members
    <3> QED
      BY <3>1, <3>2
  <2>4. NoSelfLiveness' /\ DownKnowsNobody' /\ AgeWithinCheck'
    BY <2>1 DEF IInv, TypeOK, NoSelfLiveness, DownKnowsNobody, AgeWithinCheck
  <2> QED
    BY <2>2, <2>3, <2>4 DEF IInv
<1>4. ASSUME NEW d \in Drones, BroadcastLiveness(d) PROVE IInv'
  <2>1. TypeOK' /\ NoSelfLiveness'
    BY <1>4 DEF BroadcastLiveness, views, net, IInv, TypeOK, NoSelfLiveness
  <2> QED
    BY <1>4, <2>1, QuietKeeps DEF BroadcastLiveness, views
<1>5. ASSUME NEW n \in Drones, NEW d \in Drones, NeighborLiveness(n, d) PROVE IInv'
  <2> DEFINE seen == [e \in DOMAIN last_seen[d] \cup {n} |->
                        IF e = n THEN 0 ELSE last_seen[d][e]]
  <2>1. n # d /\ d \in up
    BY <1>5 DEF NeighborLiveness, IInv, NoSelfLiveness
  <2>2. DictionaryOf(d, seen)
    BY <2>1 DEF IInv, TypeOK, DictionaryOf
  <2>3. \A e \in DOMAIN seen : seen[e] + check_in[d] <= 2 * Timeout
    BY DEF IInv, TypeOK, AgeWithinCheck
  <2>4. UNCHANGED <<up, pattern, clock, net>> /\ wire' \subseteq wire
    BY <1>5 DEF NeighborLiveness
  <2>5. CASE Referendum(d, seen)
    <3> HIDE DEF seen
    <3> QED
      BY <2>1, <2>2, <2>3, <2>4, <2>5, ReferendumKeeps DEF clock, net, IInv, TypeOK
  <2>6. CASE /\ n \in DOMAIN last_seen[d]
             /\ last_seen' = [last_seen EXCEPT ![d] = seen]
             /\ UNCHANGED <<leader_id, is_leader, slot>>
    <3>1. DOMAIN seen = DOMAIN last_seen[d]
      BY <2>6
    <3> HIDE DEF seen
    <3>2. TypeOK'
      BY <2>2, <2>4, <2>6 DEF clock, net, IInv, TypeOK, DictionaryOf
    <3>3. LeaderIsLowest'
      BY <2>6, <3>1 DEF IInv, TypeOK, LeaderIsLowest, Members
    <3>4. NoSelfLiveness' /\ DownKnowsNobody' /\ AgeWithinCheck'
      BY <2>1, <2>3, <2>4, <2>6 DEF clock, IInv, TypeOK, NoSelfLiveness,
          DownKnowsNobody, AgeWithinCheck
    <3> QED
      BY <3>2, <3>3, <3>4 DEF IInv
  <2> QED
    BY <1>5, <2>5, <2>6 DEF NeighborLiveness
<1>6. ASSUME NEW n \in Drones, NEW d \in Drones, Lose(n, d) PROVE IInv'
  <2>1. TypeOK' /\ NoSelfLiveness'
    BY <1>6 DEF Lose, Event, views, clock, IInv, TypeOK, NoSelfLiveness
  <2> QED
    BY <1>6, <2>1, QuietKeeps DEF Lose, views, clock
<1>7. ASSUME NEW d \in Drones, CheckNeighborTimeouts(d) PROVE IInv'
  <2>1. /\ d \in up /\ check_in' = [check_in EXCEPT ![d] = Timeout]
        /\ UNCHANGED <<up, pattern, wire, broadcast_due, net>>
    BY <1>7 DEF CheckNeighborTimeouts
  <2>2. PICK late \in SUBSET MayTimeOut(d) :
          LET kept == DOMAIN last_seen[d] \ (MustTimeOut(d) \cup late)
          IN \/ kept = DOMAIN last_seen[d] /\ UNCHANGED views
             \/ /\ kept # DOMAIN last_seen[d]
                /\ Referendum(d, [n \in kept |-> last_seen[d][n]])
    BY <1>7 DEF CheckNeighborTimeouts
  <2> DEFINE kept == DOMAIN last_seen[d] \ (MustTimeOut(d) \cup late)
             seen == [n \in kept |-> last_seen[d][n]]
  <2>3. DictionaryOf(d, seen)
    BY DEF IInv, TypeOK, DictionaryOf
  <2>4. \A n \in kept : last_seen[d][n] + check_in'[d] <= 2 * Timeout
    BY <2>1 DEF IInv, TypeOK, MustTimeOut
  <2>5. CASE kept = DOMAIN last_seen[d] /\ UNCHANGED views
    <3>1. AgeWithinCheck'
      BY <2>1, <2>4, <2>5 DEF views, IInv, TypeOK, AgeWithinCheck
    <3>2. check_in' \in [Drones -> 0..Timeout]
      BY <2>1 DEF IInv, TypeOK
    <3>3. TypeOK' /\ NoSelfLiveness' /\ DownKnowsNobody'
      BY <2>1, <2>5, <3>2 DEF views, net, IInv, TypeOK, NoSelfLiveness, DownKnowsNobody
    <3>4. LeaderIsLowest'
      BY <2>5 DEF views, IInv, LeaderIsLowest, Members
    <3> QED
      BY <3>1, <3>3, <3>4 DEF IInv
  <2>6. CASE Referendum(d, seen)
    <3>1. \A n \in DOMAIN seen : seen[n] + check_in'[d] <= 2 * Timeout
      BY <2>4
    <3>2. /\ check_in' \in [Drones -> 0..Timeout]
          /\ \A e \in Drones \ {d} : check_in'[e] = check_in[e]
      BY <2>1 DEF IInv, TypeOK
    <3>3. calm' \in 0..Settled /\ events' \in 0..MaxEvents
      BY <2>1 DEF net, IInv, TypeOK
    <3>4. wire' \subseteq wire /\ UNCHANGED <<up, pattern, broadcast_due>>
      BY <2>1
    <3> HIDE DEF seen
    <3> QED
      BY <2>1, <2>3, <2>6, <3>1, <3>2, <3>3, <3>4, ReferendumKeeps
  <2> QED
    BY <2>2, <2>5, <2>6
<1>8. ASSUME NEW d \in Drones, LeaderIsDead(d) PROVE IInv'
  <2> DEFINE seen == [n \in DOMAIN last_seen[d] \ {leader_id[d]} |-> last_seen[d][n]]
  <2>1. /\ d \in up /\ Event /\ Referendum(d, seen)
        /\ UNCHANGED <<up, pattern, wire, clock>>
    BY <1>8 DEF LeaderIsDead
  <2>2. DictionaryOf(d, last_seen[d])
    BY DEF IInv, TypeOK, DictionaryOf
  <2>3. DictionaryOf(d, seen)
    BY <2>2 DEF DictionaryOf
  <2>4. \A n \in DOMAIN seen : seen[n] + check_in[d] <= 2 * Timeout
    BY DEF IInv, AgeWithinCheck
  <2>5. /\ calm' \in 0..Settled /\ events' \in 0..MaxEvents
        /\ check_in' \in [Drones -> 0..Timeout] /\ UNCHANGED <<check_in, broadcast_due>>
    BY <2>1 DEF Event, clock, IInv, TypeOK
  <2> HIDE DEF seen
  <2> QED
    BY <2>1, <2>3, <2>4, <2>5, ReferendumKeeps
<1>9. ASSUME NEW reached \in SUBSET up, NEW name \in {"known", "unknown"},
             FormationCommand(reached, name)
      PROVE  IInv'
  <2>1. \A d \in Drones : SlotOf(d, last_seen[d], leader_id[d]) \in Nat
    BY SlotType DEF IInv, TypeOK, DictionaryOf
  <2>2. /\ slot' \in [Drones -> Nat]
        /\ pattern' \in [Drones -> {"none", "known", "unknown"}]
    BY <1>9, <2>1 DEF FormationCommand, IInv, TypeOK
  <2>3. TypeOK' /\ NoSelfLiveness'
    BY <1>9, <2>2 DEF FormationCommand, Event, clock, IInv, TypeOK, NoSelfLiveness
  <2> QED
    BY <1>9, <2>3, QuietKeeps DEF FormationCommand, clock
<1>10. CASE Settle
  <2>1. TypeOK' /\ NoSelfLiveness'
    BY <1>10 DEF Settle, Settled, views, clock, IInv, TypeOK, NoSelfLiveness
  <2> QED
    BY <1>10, <2>1, QuietKeeps DEF Settle, views, clock
<1>11. CASE Tick
  <2> USE <1>11 DEF Tick
  <2>1. \A d \in Drones : /\ DOMAIN last_seen'[d] = DOMAIN last_seen[d]
                          /\ last_seen'[d] \in [DOMAIN last_seen[d] -> Nat]
    BY DEF IInv, TypeOK
  <2>2. check_in' \in [Drones -> 0..Timeout]
    BY DEF IInv, TypeOK
  <2>3. calm' \in 0..Settled /\ events' \in 0..MaxEvents
    BY DEF IInv, TypeOK, Settled
  <2>4. TypeOK'
    BY <2>1, <2>2, <2>3 DEF IInv, TypeOK
  <2>5. LeaderIsLowest'
    BY <2>1 DEF IInv, LeaderIsLowest, Members
  <2>6. \A d \in Drones \ up : DOMAIN last_seen[d] = {} /\ last_seen'[d] = NoNeighbors
    BY DEF IInv, DownKnowsNobody, NoNeighbors
  <2>7. AgeWithinCheck'
    <3> SUFFICES ASSUME NEW d \in Drones, NEW n \in DOMAIN last_seen'[d]
                 PROVE  last_seen'[d][n] + check_in'[d] <= 2 * Timeout
      BY DEF AgeWithinCheck
    <3>1. d \in up /\ n \in DOMAIN last_seen[d]
      BY <2>1, <2>6
    <3>2. last_seen'[d][n] = last_seen[d][n] + 1 /\ check_in'[d] = check_in[d] - 1
      BY <3>1
    <3>3. last_seen[d][n] \in Nat /\ check_in[d] \in Nat
      BY <3>1 DEF IInv, TypeOK
    <3> QED
      BY <3>1, <3>2, <3>3 DEF IInv, AgeWithinCheck
  <2>8. DownKnowsNobody' /\ NoSelfLiveness'
    BY <2>6 DEF IInv, DownKnowsNobody, NoSelfLiveness
  <2> QED
    BY <2>4, <2>5, <2>7, <2>8 DEF IInv
<1> QED
  BY <1>1, <1>2, <1>3, <1>4, <1>5, <1>6, <1>7, <1>8, <1>9, <1>10, <1>11
  DEF Next, Timers, Deliver, Faults
-----------------------------------------------------------------------------
(* The invariant holds in every reachable state.                              *)
LEMMA Inductive == Spec => []IInv
  BY InitIInv, NextIInv, PTL DEF Spec

(* The type invariant of LeaderElection holds for every set of drones.         *)
THEOREM TypeCorrect == Spec => []TypeOK
<1>1. IInv => TypeOK
  BY DEF IInv
<1> QED
  BY <1>1, Inductive, PTL

(* Every drone follows the lowest identifier it knows, and leads exactly when   *)
(* that is its own, whatever order messages, timeouts and crashes come in.     *)
THEOREM LeaderAlwaysLowest == Spec => []LeaderIsLowest
<1>1. IInv => LeaderIsLowest
  BY DEF IInv
<1> QED
  BY <1>1, Inductive, PTL

(* Of two drones that lead at once, the higher has not heard the lower.         *)
THEOREM LeadersNeverMeet == Spec => []LeadersDoNotMeet
<1>1. IInv => LeadersDoNotMeet
  <2> SUFFICES ASSUME IInv, NEW d \in Drones, NEW e \in Drones, is_leader[e], d < e,
                      d \in DOMAIN last_seen[e]
               PROVE  FALSE
    BY DEF LeadersDoNotMeet
  <2>1. e = Min(Members(e, last_seen[e]))
    BY DEF IInv, LeaderIsLowest
  <2>2. d \in Members(e, last_seen[e]) /\ Members(e, last_seen[e]) \subseteq Nat
    BY DronesAssumption DEF IInv, TypeOK, Members
  <2>3. Min(Members(e, last_seen[e])) <= d
    BY <2>2, MinIsLowest
  <2> QED
    BY <2>1, <2>3, DronesAssumption
<1> QED
  BY <1>1, Inductive, PTL

(* "leader_is_dead" always finds the leader in the follower's dictionary.       *)
THEOREM FollowedLeaderAlwaysSeen == Spec => []FollowedLeaderIsSeen
<1>1. IInv => FollowedLeaderIsSeen
  <2> SUFFICES ASSUME IInv, NEW d \in Drones, ~is_leader[d]
               PROVE  leader_id[d] \in DOMAIN last_seen[d]
    BY DEF FollowedLeaderIsSeen
  <2>1. leader_id[d] = Min(Members(d, last_seen[d])) /\ leader_id[d] # d
    BY DEF IInv, LeaderIsLowest
  <2>2. Members(d, last_seen[d]) \subseteq Nat /\ Members(d, last_seen[d]) # {}
    BY DronesAssumption DEF IInv, TypeOK, Members
  <2> QED
    BY <2>1, <2>2, MinIsLowest DEF Members
<1> QED
  BY <1>1, Inductive, PTL

(* No dictionary holds a neighbour that was silent for more than two timeouts.  *)
THEOREM SilentNeighborAlwaysDropped == Spec => []SilentNeighborDropped
<1>1. IInv => SilentNeighborDropped
  <2> SUFFICES ASSUME IInv, NEW d \in up, NEW n \in DOMAIN last_seen[d]
               PROVE  last_seen[d][n] <= 2 * Timeout
    BY DEF SilentNeighborDropped
  <2>1. d \in Drones /\ last_seen[d][n] \in Nat /\ check_in[d] \in Nat
    BY DEF IInv, TypeOK
  <2>2. last_seen[d][n] + check_in[d] <= 2 * Timeout
    BY <2>1 DEF IInv, AgeWithinCheck
  <2> QED
    BY <2>1, <2>2, TimeoutAssumption
<1> QED
  BY <1>1, Inductive, PTL
-----------------------------------------------------------------------------
(* A follower with a registered pattern has the slot of the topology it believes in,  *)
(* whatever slot an unknown name or the leader's role had kept for it before.       *)
SlotFollowsView ==
    \A d \in Drones : pattern[d] = "known" /\ d # leader_id[d]
                          => slot[d] = SlotOf(d, last_seen[d], leader_id[d])

LEMMA ReferendumSlots ==
    ASSUME TypeOK, SlotFollowsView, NEW d \in Drones, NEW seen, Referendum(d, seen),
           UNCHANGED pattern
    PROVE  SlotFollowsView'
<1>1. /\ last_seen' = [last_seen EXCEPT ![d] = seen]
      /\ leader_id' = [leader_id EXCEPT ![d] = Elected(d, seen)]
      /\ slot' = IF pattern[d] = "known" /\ d # Elected(d, seen)
                   THEN [slot EXCEPT ![d] = SlotOf(d, seen, Elected(d, seen))] ELSE slot
  BY DEF Referendum, RefreshPattern
<1>2. ASSUME NEW e \in Drones, pattern[e] = "known", e # leader_id'[e]
      PROVE  slot'[e] = SlotOf(e, last_seen'[e], leader_id'[e])
  <2>1. CASE e = d
    BY <1>1, <1>2, <2>1 DEF TypeOK
  <2>2. CASE e # d
    <3>1. slot'[e] = slot[e] /\ last_seen'[e] = last_seen[e] /\ leader_id'[e] = leader_id[e]
      BY <1>1, <2>2 DEF TypeOK
    <3> QED
      BY <1>2, <3>1 DEF SlotFollowsView
  <2> QED
    BY <2>1, <2>2
<1> QED
  BY <1>2 DEF SlotFollowsView

(* It depends on the drones of the dictionary and not on their ages.             *)
LEMMA SameMembersSlots ==
    ASSUME SlotFollowsView, UNCHANGED <<pattern, leader_id, slot>>,
           \A d \in Drones : DOMAIN last_seen'[d] = DOMAIN last_seen[d]
    PROVE  SlotFollowsView'
<1>1. ASSUME NEW d \in Drones, NEW l
      PROVE  SlotOf(d, last_seen'[d], l) = SlotOf(d, last_seen[d], l)
  BY DEF SlotOf, Members
<1> QED
  BY <1>1 DEF SlotFollowsView

LEMMA NextSlots == IInv /\ SlotFollowsView /\ [Next]_vars => SlotFollowsView'
<1> SUFFICES ASSUME IInv, SlotFollowsView, [Next]_vars PROVE SlotFollowsView'
  OBVIOUS
<1>1. TypeOK
  BY DEF IInv
<1>2. CASE UNCHANGED <<last_seen, leader_id, slot, pattern>>
  BY <1>2, SameMembersSlots
<1>3. ASSUME NEW d \in Drones, Crash(d) PROVE SlotFollowsView'
  <2>1. ASSUME NEW e \in Drones, pattern'[e] = "known"
        PROVE  /\ pattern[e] = "known" /\ slot'[e] = slot[e] /\ last_seen'[e] = last_seen[e]
               /\ leader_id'[e] = leader_id[e]
    BY <1>1, <1>3, <2>1 DEF Crash, TypeOK
  <2> QED
    BY <2>1 DEF SlotFollowsView
<1>4. ASSUME NEW n \in Drones, NEW d \in Drones, NeighborLiveness(n, d) PROVE SlotFollowsView'
  <2> DEFINE seen == [e \in DOMAIN last_seen[d] \cup {n} |->
                        IF e = n THEN 0 ELSE last_seen[d][e]]
  <2>1. UNCHANGED pattern
    BY <1>4 DEF NeighborLiveness
  <2>2. CASE Referendum(d, seen)
    BY <1>1, <2>1, <2>2, ReferendumSlots
  <2>3. CASE /\ n \in DOMAIN last_seen[d] /\ UNCHANGED <<leader_id, slot>>
             /\ last_seen' = [last_seen EXCEPT ![d] = seen]
    <3>1. DOMAIN seen = DOMAIN last_seen[d]
      BY <2>3
    <3> HIDE DEF seen
    <3>2. \A e \in Drones : DOMAIN last_seen'[e] = DOMAIN last_seen[e]
      BY <1>1, <2>3, <3>1 DEF TypeOK
    <3> QED
      BY <2>1, <2>3, <3>2, SameMembersSlots
  <2> QED
    BY <1>4, <2>2, <2>3 DEF NeighborLiveness
<1>5. ASSUME NEW d \in Drones, CheckNeighborTimeouts(d) PROVE SlotFollowsView'
  <2>1. UNCHANGED pattern
    BY <1>5 DEF CheckNeighborTimeouts
  <2>2. UNCHANGED views \/ \E seen : Referendum(d, seen)
    BY <1>5 DEF CheckNeighborTimeouts
  <2> QED
    BY <1>1, <1>2, <2>1, <2>2, ReferendumSlots DEF views
<1>6. ASSUME NEW d \in Drones, LeaderIsDead(d) PROVE SlotFollowsView'
  BY <1>1, <1>6, ReferendumSlots DEF LeaderIsDead
<1>7. ASSUME NEW reached \in SUBSET up, NEW name \in {"known", "unknown"},
             FormationCommand(reached, name)
      PROVE  SlotFollowsView'
  <2>1. /\ UNCHANGED <<last_seen, leader_id>>
        /\ \A d \in Drones :
             /\ pattern'[d] = IF d \in reached THEN name ELSE pattern[d]
             /\ slot'[d] = IF d \in reached /\ name = "known" /\ d # leader_id[d]
                             THEN SlotOf(d, last_seen[d], leader_id[d]) ELSE slot[d]
    BY <1>7 DEF FormationCommand
  <2> QED
    BY <2>1 DEF SlotFollowsView
<1>8. CASE Tick
  <2>1. \A d \in Drones : DOMAIN last_seen'[d] = DOMAIN last_seen[d]
    BY <1>8 DEF Tick
  <2> QED
    BY <1>8, <2>1, SameMembersSlots DEF Tick
<1>9. ASSUME NEW d \in Drones, Start(d) \/ BroadcastLiveness(d) PROVE SlotFollowsView'
  BY <1>2, <1>9 DEF Start, BroadcastLiveness, views
<1>10. ASSUME NEW n \in Drones, NEW d \in Drones, Lose(n, d) PROVE SlotFollowsView'
  BY <1>2, <1>10 DEF Lose, views
<1>11. CASE Settle \/ UNCHANGED vars
  BY <1>2, <1>11 DEF Settle, vars, views
<1> QED
  BY <1>3, <1>4, <1>5, <1>6, <1>7, <1>8, <1>9, <1>10, <1>11 DEF Next, Timers, Deliver, Faults

(* Of two followers of the same topology, the lower one has the lower slot.        *)
LEMMA LowerSlot ==
    ASSUME TypeOK, NEW d \in Drones, NEW e \in Drones, NEW l \in Drones, d < e, l # e, l # d,
           Members(d, last_seen[d]) = Members(e, last_seen[e])
    PROVE  SlotOf(d, last_seen[d], l) < SlotOf(e, last_seen[e], l)
<1> DEFINE M == Members(e, last_seen[e])
           A == {x \in M \ {l} : x <= d}
           B == {x \in M \ {l} : x <= e}
<1>1. M \subseteq Drones /\ M \subseteq Nat /\ d \in Nat /\ e \in Nat /\ e \in M
  BY DronesAssumption DEF Members, TypeOK
<1>2. IsFiniteSet(B)
  <2>1. B \subseteq Drones
    BY <1>1
  <2> QED
    BY <2>1, DronesAssumption, FS_Subset
<1>3. A \subseteq B /\ e \in B /\ e \notin A
  BY <1>1
<1>4. SlotOf(d, last_seen[d], l) = Cardinality(A) /\ SlotOf(e, last_seen[e], l) = Cardinality(B)
  BY DEF SlotOf
<1> HIDE DEF A, B
<1>5. /\ Cardinality(A) <= Cardinality(B) /\ Cardinality(A) # Cardinality(B)
      /\ Cardinality(A) \in Nat /\ Cardinality(B) \in Nat
  <2>1. IsFiniteSet(A) /\ Cardinality(A) <= Cardinality(B) /\ (Cardinality(A) = Cardinality(B) => A = B)
    BY <1>2, <1>3, FS_Subset
  <2> QED
    BY <1>2, <1>3, <2>1, FS_CardinalityType
<1> QED
  BY <1>4, <1>5

(* Followers that fly a registered pattern and believe in the same topology never hold   *)
(* the same slot, in whatever order it, the leader and the pattern changed, unknown     *)
(* names that set_pattern stores and stops at among them (refresh_pattern,             *)
(* calculate_position).                                                       *)
THEOREM SlotsAlwaysDistinct == Spec => []SlotsDistinct
<1>1. Init => SlotFollowsView
  BY DEF Init, SlotFollowsView
<1>2. IInv /\ SlotFollowsView => SlotsDistinct
  <2> SUFFICES ASSUME IInv, SlotFollowsView, NEW d \in up, NEW e \in up, d # e,
                      Members(d, last_seen[d]) = Members(e, last_seen[e]),
                      pattern[d] = "known", pattern[e] = "known",
                      ~is_leader[d], ~is_leader[e]
               PROVE  slot[d] # slot[e]
    BY DEF SlotsDistinct
  <2>1. TypeOK /\ d \in Drones /\ e \in Drones /\ d \in Nat /\ e \in Nat
    BY DronesAssumption DEF IInv, TypeOK
  <2>2. leader_id[d] = leader_id[e] /\ leader_id[d] # d /\ leader_id[d] # e
        /\ leader_id[d] \in Drones
    BY <2>1 DEF IInv, LeaderIsLowest, TypeOK
  <2>3. /\ slot[d] = SlotOf(d, last_seen[d], leader_id[d])
        /\ slot[e] = SlotOf(e, last_seen[e], leader_id[d])
        /\ slot[d] \in Nat /\ slot[e] \in Nat
    BY <2>1, <2>2 DEF SlotFollowsView, TypeOK
  <2>4. d < e \/ e < d
    BY <2>1
  <2>5. CASE d < e
    <3>1. slot[d] < slot[e]
      BY <2>1, <2>2, <2>3, <2>5, LowerSlot
    <3> QED
      BY <2>3, <3>1
  <2>6. CASE e < d
    <3>1. slot[e] < slot[d]
      BY <2>1, <2>2, <2>3, <2>6, LowerSlot
    <3> QED
      BY <2>3, <3>1
  <2> QED
    BY <2>4, <2>5, <2>6
<1> QED
  BY <1>1, <1>2, NextSlots, Inductive, PTL DEF Spec
-----------------------------------------------------------------------------
(* Once the network is calm every running drone has broadcast in this interval, or will,   *)
(* and its message arrives in it; a drone that is gone is as old as the calm.       *)
HeardOrComing(d, n) ==
    \/ d \in broadcast_due
    \/ <<d, n>> \in wire
    \/ d \in DOMAIN last_seen[n] /\ last_seen[n][d] = 0

Heard(d, n) == d \in DOMAIN last_seen[n] /\ last_seen[n][d] <= 1

(* What drone n holds of drone d when the network is calm.                        *)
CalmView(d, n) ==
    /\ d \in up /\ d # n => HeardOrComing(d, n)
    /\ d \in up /\ d # n /\ calm >= 2 => Heard(d, n)
    /\ d \notin up /\ d \in DOMAIN last_seen[n] => last_seen[n][d] >= calm - 1

CalmInv ==
    calm > 0 => /\ wire \subseteq up \X up
                /\ \A n \in up, d \in Drones : CalmView(d, n)

(* A drone that only updates its dictionary in the calm: what it drops is old or gone.   *)
LEMMA DictionaryCalm ==
    ASSUME TypeOK, TypeOK', CalmInv, calm > 0, NEW m \in up, UNCHANGED <<up, calm, broadcast_due>>,
           wire' \subseteq wire,
           \A n \in Drones \ {m} : last_seen'[n] = last_seen[n],
           \A d, n : <<d, n>> \in wire \ wire' =>
               n = m /\ d \in DOMAIN last_seen'[m] /\ last_seen'[m][d] = 0,
           \A d \in DOMAIN last_seen[m] : last_seen[m][d] <= 1 =>
               /\ d \in DOMAIN last_seen'[m]
               /\ last_seen'[m][d] = 0 \/ last_seen'[m][d] = last_seen[m][d],
           \A d \in DOMAIN last_seen'[m] :
               \/ d \in up /\ last_seen'[m][d] = 0
               \/ d \in DOMAIN last_seen[m] /\ last_seen'[m][d] = last_seen[m][d]
    PROVE  CalmInv'
<1>1. wire \subseteq up \X up /\ \A n \in up, d \in Drones : CalmView(d, n)
  BY DEF CalmInv
<1>2. ASSUME NEW n \in up, NEW d \in Drones PROVE CalmView(d, n)'
  <2>1. n \in Drones /\ CalmView(d, n)
    BY <1>1 DEF TypeOK
  <2>2. d \in DOMAIN last_seen[n] => last_seen[n][d] \in Nat
    BY <2>1 DEF TypeOK
  <2>3. CASE n # m
    BY <2>1, <2>3 DEF CalmView, HeardOrComing, Heard
  <2>4. CASE n = m
    <3>1. d \in up /\ d # n => HeardOrComing(d, n)'
      BY <2>1, <2>2, <2>4 DEF CalmView, HeardOrComing
    <3>2. d \in up /\ d # n /\ calm >= 2 => Heard(d, n)'
      BY <2>1, <2>2, <2>4 DEF CalmView, Heard
    <3>3. d \notin up /\ d \in DOMAIN last_seen'[n] => last_seen'[n][d] >= calm - 1
      BY <2>1, <2>4 DEF CalmView
    <3> QED
      BY <3>1, <3>2, <3>3 DEF CalmView
  <2> QED
    BY <2>3, <2>4
<1>3. wire' \subseteq up' \X up'
  BY <1>1
<1> QED
  BY <1>2, <1>3 DEF CalmInv

LEMMA NextCalm == IInv /\ IInv' /\ CalmInv /\ [Next]_vars => CalmInv'
<1> SUFFICES ASSUME IInv, IInv', CalmInv, [Next]_vars PROVE CalmInv'
  OBVIOUS
<1> USE TimeoutAssumption
<1>1. TypeOK /\ TypeOK' /\ up \subseteq Drones
  BY DEF IInv, TypeOK
<1>2. CASE Event
  BY <1>2 DEF Event, CalmInv
<1>3. CASE UNCHANGED vars
  BY <1>3 DEF vars, views, clock, net, CalmInv, CalmView, HeardOrComing, Heard
<1>4. CASE Settle
  <2>1. calm' = 1 /\ wire' = {} /\ broadcast_due' = up' /\ UNCHANGED <<up, last_seen>>
    BY <1>4 DEF Settle, views, clock
  <2>2. ASSUME NEW n \in up, NEW d \in Drones PROVE CalmView(d, n)'
    <3>1. d \in DOMAIN last_seen[n] => last_seen[n][d] \in Nat
      BY <1>1 DEF TypeOK
    <3> QED
      BY <2>1, <3>1 DEF CalmView, HeardOrComing
  <2> QED
    BY <2>1, <2>2 DEF CalmInv
<1>5. ASSUME NEW m \in Drones, BroadcastLiveness(m), calm > 0 PROVE CalmInv'
  <2>1. /\ m \in up /\ wire' = wire \cup {<<m, n>> : n \in up \ {m}}
        /\ broadcast_due' = broadcast_due \ {m} /\ UNCHANGED <<up, last_seen, calm>>
    BY <1>5 DEF BroadcastLiveness, views, net
  <2>2. \A n \in up \ {m} : <<m, n>> \in wire'
    BY <2>1
  <2>3. wire' \subseteq up' \X up'
    BY <1>5, <2>1 DEF CalmInv
  <2>4. wire \subseteq wire'
    BY <2>1
  <2>5. ASSUME NEW n \in up, NEW d \in Drones PROVE CalmView(d, n)'
    <3>1. CalmView(d, n)
      BY <1>5 DEF CalmInv
    <3>2. d \in up /\ d # n => HeardOrComing(d, n)'
      BY <2>1, <2>2, <2>4, <3>1 DEF CalmView, HeardOrComing
    <3> QED
      BY <2>1, <3>1, <3>2 DEF CalmView, Heard
  <2> QED
    BY <2>1, <2>3, <2>5 DEF CalmInv
<1>6. ASSUME NEW s \in Drones, NEW m \in Drones, NeighborLiveness(s, m), calm > 0
      PROVE  CalmInv'
  <2> DEFINE seen == [e \in DOMAIN last_seen[m] \cup {s} |->
                        IF e = s THEN 0 ELSE last_seen[m][e]]
  <2>1. /\ <<s, m>> \in wire /\ m \in up /\ wire' = wire \ {<<s, m>>}
        /\ UNCHANGED <<up, calm, broadcast_due>>
        /\ last_seen' = [last_seen EXCEPT ![m] = seen]
    BY <1>6 DEF NeighborLiveness, Referendum, clock, net
  <2>2. s \in up
    BY <1>6, <2>1 DEF CalmInv
  <2>3. /\ DOMAIN seen = DOMAIN last_seen[m] \cup {s} /\ seen[s] = 0
        /\ \A e \in DOMAIN last_seen[m] : e # s => seen[e] = last_seen[m][e]
    OBVIOUS
  <2> HIDE DEF seen
  <2>4. last_seen'[m] = seen /\ \A n \in Drones \ {m} : last_seen'[n] = last_seen[n]
    BY <1>1, <2>1 DEF TypeOK
  <2>5. \A d, n : <<d, n>> \in wire \ wire' => d = s /\ n = m
    BY <2>1
  <2>6. wire' \subseteq wire
    BY <2>1
  <2>7. \A d \in DOMAIN seen : \/ d \in up /\ seen[d] = 0
                               \/ d \in DOMAIN last_seen[m] /\ seen[d] = last_seen[m][d]
    BY <2>2, <2>3
  <2>8. \A d \in DOMAIN last_seen[m] :
            d \in DOMAIN seen /\ (seen[d] = 0 \/ seen[d] = last_seen[m][d])
    BY <2>3
  <2> QED
    BY <1>1, <1>6, <2>1, <2>3, <2>4, <2>5, <2>6, <2>7, <2>8, DictionaryCalm
<1>7. ASSUME NEW m \in Drones, CheckNeighborTimeouts(m), calm > 0 PROVE CalmInv'
  <2>1. m \in up /\ UNCHANGED <<up, wire, calm, broadcast_due>>
    BY <1>7 DEF CheckNeighborTimeouts, net
  <2>2. PICK late \in SUBSET MayTimeOut(m) :
          LET kept == DOMAIN last_seen[m] \ (MustTimeOut(m) \cup late)
          IN \/ kept = DOMAIN last_seen[m] /\ UNCHANGED views
             \/ /\ kept # DOMAIN last_seen[m]
                /\ Referendum(m, [n \in kept |-> last_seen[m][n]])
    BY <1>7 DEF CheckNeighborTimeouts
  <2> DEFINE kept == DOMAIN last_seen[m] \ (MustTimeOut(m) \cup late)
             seen == [n \in kept |-> last_seen[m][n]]
  <2>3. \A d \in DOMAIN last_seen[m] : last_seen[m][d] \in Nat
    BY <1>1, <2>1 DEF TypeOK
  <2>4. \A d \in DOMAIN last_seen[m] : last_seen[m][d] <= 1 => d \in kept
    BY <2>3 DEF MustTimeOut, MayTimeOut
  <2>5. UNCHANGED last_seen \/ last_seen' = [last_seen EXCEPT ![m] = seen]
    BY <2>2 DEF views, Referendum
  <2>6. /\ kept \subseteq DOMAIN last_seen[m] /\ DOMAIN seen = kept
        /\ \A d \in kept : seen[d] = last_seen[m][d]
    OBVIOUS
  <2> HIDE DEF seen, kept
  <2>7. CASE UNCHANGED last_seen
    BY <1>1, <1>7, <2>1, <2>7, DictionaryCalm
  <2>8. CASE last_seen' = [last_seen EXCEPT ![m] = seen]
    <3>1. last_seen'[m] = seen /\ \A n \in Drones \ {m} : last_seen'[n] = last_seen[n]
      BY <1>1, <2>8 DEF TypeOK
    <3> QED
      BY <1>1, <1>7, <2>1, <2>4, <2>6, <3>1, DictionaryCalm
  <2> QED
    BY <2>5, <2>7, <2>8
<1>8. ASSUME Tick, calm > 0 PROVE CalmInv'
  <2>1. /\ broadcast_due = {} /\ wire = {} /\ UNCHANGED <<up, wire>> /\ broadcast_due' = up
        /\ calm' = IF calm \in 1..(Settled - 1) THEN calm + 1 ELSE calm
    BY <1>8 DEF Tick
  <2>2. \A n \in Drones : /\ DOMAIN last_seen'[n] = DOMAIN last_seen[n]
                          /\ \A d \in DOMAIN last_seen[n] :
                                 last_seen'[n][d] = last_seen[n][d] + 1
    BY <1>8 DEF Tick
  <2>3. calm \in Nat /\ calm' \in Nat /\ calm' <= calm + 1
    BY <1>1, <2>1 DEF TypeOK, Settled
  <2>4. ASSUME NEW n \in up, NEW d \in Drones PROVE CalmView(d, n)'
    <3>1. CalmView(d, n) /\ n \in Drones
      BY <1>1, <1>8 DEF CalmInv
    <3>2. d \in DOMAIN last_seen[n] => last_seen[n][d] \in Nat
      BY <1>1, <3>1 DEF TypeOK
    <3>3. d \in up /\ d # n => d \in DOMAIN last_seen[n] /\ last_seen[n][d] = 0
      BY <2>1, <3>1 DEF CalmView, HeardOrComing
    <3>4. d \in up /\ d # n => HeardOrComing(d, n)'
      BY <2>1 DEF HeardOrComing
    <3>5. d \in up /\ d # n => Heard(d, n)'
      BY <2>2, <3>1, <3>3 DEF Heard
    <3>6. d \notin up /\ d \in DOMAIN last_seen'[n] => last_seen'[n][d] >= calm' - 1
      BY <2>2, <2>3, <3>1, <3>2 DEF CalmView
    <3> QED
      BY <2>1, <3>4, <3>5, <3>6 DEF CalmView
  <2> QED
    BY <2>1, <2>4 DEF CalmInv
<1>9. CASE ~(calm > 0)
  <2>1. ~(calm > 0) /\ UNCHANGED calm => CalmInv'
    BY DEF CalmInv
  <2>2. Tick => UNCHANGED calm
    BY <1>9 DEF Tick
  <2> QED
    BY <1>2, <1>3, <1>4, <1>9, <2>1, <2>2
    DEF Next, Timers, Deliver, Faults, BroadcastLiveness, NeighborLiveness,
        CheckNeighborTimeouts, net, Start, Crash, LeaderIsDead, Lose, FormationCommand
<1>10. CASE calm > 0
  BY <1>2, <1>3, <1>4, <1>5, <1>6, <1>7, <1>8, <1>10
  DEF Next, Timers, Deliver, Faults, Start, Crash, LeaderIsDead, Lose, FormationCommand
<1> QED
  BY <1>9, <1>10

(* Two timeouts and two intervals after the last fault every running drone knows the running *)
(* ones and no other, and follows the lowest of them, for any swarm and any timeout      *)
(* (_broadcast_liveness, _check_neighbor_timeouts, referendum_conducting).         *)
THEOREM AlwaysAgreedWhenSettled == Spec => []AgreedWhenSettled
<1>1. Init => CalmInv
  BY DEF Init, CalmInv
<1>2. IInv /\ CalmInv => AgreedWhenSettled
  <2> SUFFICES ASSUME IInv, CalmInv, calm = Settled, NEW n \in up
               PROVE  /\ Members(n, last_seen[n]) = up
                      /\ leader_id[n] = Min(up)
                      /\ is_leader[n] <=> n = Min(up)
    BY DEF AgreedWhenSettled, Agreed
  <2>1. calm > 0 /\ calm >= 2 /\ calm = 2 * Timeout + 2 /\ Timeout \in Nat
    BY TimeoutAssumption DEF Settled
  <2>2. TypeOK /\ n \in Drones /\ DOMAIN last_seen[n] \subseteq Drones \ {n}
        /\ check_in[n] \in Nat
    BY DEF IInv, TypeOK
  <2>3. \A d \in up \ {n} : d \in DOMAIN last_seen[n]
    BY <2>1, <2>2 DEF CalmInv, CalmView, Heard, TypeOK
  <2>4. ASSUME NEW d \in DOMAIN last_seen[n], d \notin up PROVE FALSE
    <3>1. last_seen[n][d] >= calm - 1
      BY <2>1, <2>2, <2>4 DEF CalmInv, CalmView
    <3>2. last_seen[n][d] + check_in[n] <= 2 * Timeout /\ last_seen[n][d] \in Nat
      BY <2>2 DEF IInv, AgeWithinCheck, TypeOK
    <3> QED
      BY <2>1, <2>2, <3>1, <3>2
  <2>5. Members(n, last_seen[n]) = up
    BY <2>2, <2>3, <2>4 DEF Members
  <2> QED
    BY <2>2, <2>5 DEF IInv, LeaderIsLowest
<1> QED
  BY <1>1, <1>2, NextCalm, Inductive, PTL DEF Spec
================================================================================
