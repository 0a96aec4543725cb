-------------------------------- MODULE FullStatus --------------------------------
(***************************************************************************)
(* The one-shot health report of swarm_single_no_tf_yaw: the station asks the      *)
(* leader, which relays the request to the followers; every drone collects its     *)
(* report in a thread, so as not to hold up its flight callbacks; a timer publishes *)
(* what is done, by the role the drone has by then: the leader to the station, a     *)
(* follower to the leader, which passes it on.  Meanwhile roles may change.        *)
(*                                                                         *)
(* Messages are not lost, but a drone that changes role drops its subscriptions     *)
(* with what waits in them.  What a report says is not modelled: collect_full_status *)
(* turns every failure of a query into an entry of it.                           *)
(***************************************************************************)
EXTENDS Naturals, Sequences, FiniteSets, SequencesExt

CONSTANTS
    Members,         \* the drones
    StatusRequests,  \* the requests the station may make
    SeenLimit,       \* requests and forwarded reports a drone remembers (64)
    StationLimit,    \* reports the station remembers (128)
    MaxRoleChanges   \* bound on the role changes

ASSUME StatusAssumption ==
    /\ SeenLimit \in Nat \ {0} /\ StationLimit \in Nat \ {0} /\ MaxRoleChanges \in Nat

VARIABLES
    leads,           \* is_leader of every drone
    asked,           \* requests waiting at a drone's command subscription
    seen,            \* _full_status_seen_requests
    collecting,      \* the requests a thread of the drone collects
    results,         \* _full_status_results
    responses,       \* followers' reports waiting at a drone: <<request, drone>>
    forwarded,       \* _full_status_forwarded_reports
    reports,         \* reports on their way to the station
    pending,         \* pending_full_status: the requests open, with expected and received
    received_keys,   \* _full_status_received_keys
    printed,         \* how often the station printed a drone's report
    requested,       \* the requests made
    calm,            \* those made under one leader, with no role change since
    role_changes

droneVars == <<leads, asked, seen, collecting, results, responses, forwarded>>
stationVars == <<pending, received_keys, printed, requested>>
statusVars == <<droneVars, reports, stationVars, calm, role_changes>>

Keys == StatusRequests \X Members
Closed == [open |-> FALSE, expected |-> {}, received |-> {}]

StatusTypeOK ==
    /\ leads \in [Members -> BOOLEAN]
    /\ asked \in [Members -> Seq(StatusRequests)]
    /\ seen \in [Members -> Seq(StatusRequests)]
    /\ collecting \in [Members -> SUBSET StatusRequests]
    /\ results \in [Members -> Seq(StatusRequests)]
    /\ responses \in [Members -> Seq(Keys)] /\ forwarded \in [Members -> Seq(Keys)]
    /\ reports \in Seq(Keys) /\ received_keys \in Seq(Keys)
    /\ \A m \in Members : Len(seen[m]) <= SeenLimit /\ Len(forwarded[m]) <= SeenLimit
    /\ Len(received_keys) <= StationLimit
    /\ pending \in [StatusRequests -> [open : BOOLEAN, expected : SUBSET Members,
                                       received : SUBSET Members]]
    /\ printed \in [StatusRequests -> [Members -> Nat]]
    /\ requested \subseteq StatusRequests /\ calm \subseteq requested
    /\ role_changes \in 0..MaxRoleChanges

StatusInit ==
    /\ \E leader \in Members : leads = [m \in Members |-> m = leader]
    /\ asked = [m \in Members |-> <<>>] /\ seen = [m \in Members |-> <<>>]
    /\ collecting = [m \in Members |-> {}] /\ results = [m \in Members |-> <<>>]
    /\ responses = [m \in Members |-> <<>>] /\ forwarded = [m \in Members |-> <<>>]
    /\ reports = <<>> /\ received_keys = <<>>
    /\ pending = [r \in StatusRequests |-> Closed]
    /\ printed = [r \in StatusRequests |-> [m \in Members |-> 0]]
    /\ requested = {} /\ calm = {} /\ role_changes = 0
-----------------------------------------------------------------------------
Leaders == {m \in Members : leads[m]}

(* The bounded memory of _remember_once: the oldest go.                           *)
Remembered(items, key, limit) ==
    LET all == Append(items, key)
    IN  IF Len(all) <= limit THEN all ELSE SubSeq(all, Len(all) - limit + 1, Len(all))

Knows(items, key) == key \in ToSet(items)

(* send_full_status_command: expected are the members of the last status, if any.   *)
RequestFullStatus(r, expected) ==
    /\ r \notin requested
    /\ requested' = requested \cup {r}
    /\ pending' = [pending EXCEPT ![r] = [open |-> TRUE, expected |-> expected, received |-> {}]]
    /\ asked' = [m \in Members |-> IF leads[m] THEN Append(asked[m], r) ELSE asked[m]]
    /\ calm' = IF Cardinality(Leaders) = 1 THEN calm \cup {r} ELSE calm
    /\ UNCHANGED <<leads, seen, collecting, results, responses, forwarded, reports,
                   received_keys, printed, role_changes>>

(* full_status in command_callback and command_leader_callback, with                *)
(* _start_full_status_collection: a drone starts one thread per request it has not     *)
(* seen, and a leader that does relays the request to the followers.                 *)
TakeRequest(m) ==
    /\ asked[m] # <<>>
    /\ LET r == Head(asked[m])
           new == ~Knows(seen[m], r)
       IN  /\ asked' = [other \in Members |->
                            CASE other = m -> Tail(asked[m])
                              [] new /\ leads[m] /\ ~leads[other] -> Append(asked[other], r)
                              [] OTHER -> asked[other]]
           /\ seen' = IF new THEN [seen EXCEPT ![m] = Remembered(@, r, SeenLimit)] ELSE seen
           /\ collecting' = IF new THEN [collecting EXCEPT ![m] = @ \cup {r}] ELSE collecting
    /\ UNCHANGED <<leads, results, responses, forwarded, reports, stationVars, calm, role_changes>>

(* collect_in_background puts its result in the queue, the report or a failure.       *)
Collected(m, r) ==
    /\ r \in collecting[m]
    /\ collecting' = [collecting EXCEPT ![m] = @ \ {r}]
    /\ results' = [results EXCEPT ![m] = Append(@, r)]
    /\ UNCHANGED <<leads, asked, seen, responses, forwarded, reports, stationVars, calm,
                   role_changes>>

(* _drain_full_status_results, a timer: everything that is done.                     *)
DrainResults(m) ==
    LET done == [i \in DOMAIN results[m] |-> <<results[m][i], m>>]
    IN  /\ results[m] # <<>>
        /\ results' = [results EXCEPT ![m] = <<>>]
        /\ IF leads[m]
           THEN reports' = reports \o done /\ UNCHANGED responses
           ELSE /\ responses' = [other \in Members |-> responses[other] \o done]
                /\ UNCHANGED reports
        /\ UNCHANGED <<leads, asked, seen, collecting, forwarded, stationVars, calm, role_changes>>

(* Mutant: a leader forwards one report per request.                               *)
RequestKey(key) == <<key[1], CHOOSE m \in Members : TRUE>>

ForwardKey(key) == key

(* _full_status_response_callback: only a leader forwards, not its own, once.         *)
ForwardResponse(m) ==
    /\ responses[m] # <<>>
    /\ LET key == Head(responses[m])
           forwards == /\ leads[m] /\ key[2] # m
                       /\ ~Knows(forwarded[m], ForwardKey(key))
       IN  /\ forwarded' = IF forwards
                           THEN [forwarded EXCEPT
                                    ![m] = Remembered(@, ForwardKey(key), SeenLimit)]
                           ELSE forwarded
           /\ reports' = IF forwards THEN Append(reports, key) ELSE reports
    /\ responses' = [responses EXCEPT ![m] = Tail(@)]
    /\ UNCHANGED <<leads, asked, seen, collecting, results, stationVars, calm, role_changes>>
-----------------------------------------------------------------------------
CountPrinted(key) == printed' = [printed EXCEPT ![key[1]][key[2]] = @ + 1]

(* Mutant: only reports of open requests are told from repeated ones.               *)
AlreadyPrintedOpen(key) == pending[key[1]].open /\ Knows(received_keys, key)

AlreadyPrinted(key) == Knows(received_keys, key)

(* _full_status_report_callback: a new report is printed, whether its request is       *)
(* still open or not, and closes it if it was the last expected.                     *)
TakeReport ==
    /\ reports # <<>> /\ reports' = Tail(reports)
    /\ LET key == Head(reports)
           r == key[1]
           received == pending[r].received \cup {key[2]}
           complete == /\ pending[r].expected # {}
                       /\ pending[r].expected \subseteq received
       IN  IF AlreadyPrinted(key) THEN UNCHANGED stationVars
           ELSE /\ received_keys' = Remembered(received_keys, key, StationLimit)
                /\ CountPrinted(key)
                /\ pending' = CASE ~pending[r].open -> pending
                                [] pending[r].open /\ complete -> [pending EXCEPT ![r] = Closed]
                                [] OTHER -> [pending EXCEPT ![r].received = received]
                /\ UNCHANGED requested
    /\ UNCHANGED <<droneVars, calm, role_changes>>

(* _check_full_status_timeouts: the time is up for an open request.                  *)
RequestTimesOut(r) ==
    /\ pending[r].open
    /\ pending' = [pending EXCEPT ![r] = Closed]
    /\ UNCHANGED <<droneVars, reports, received_keys, printed, requested, calm, role_changes>>

(* become_leader, step_down_as_leader, and the subscriptions they replace; several    *)
(* drones may lead for a while, or none.                                           *)
ChangeRole(m) ==
    /\ role_changes < MaxRoleChanges /\ role_changes' = role_changes + 1
    /\ leads' = [leads EXCEPT ![m] = ~@]
    /\ asked' = [asked EXCEPT ![m] = <<>>]
    /\ calm' = {}
    /\ UNCHANGED <<seen, collecting, results, responses, forwarded, reports, stationVars>>

StatusNext ==
    \/ \E r \in StatusRequests, expected \in {{}, Members} : RequestFullStatus(r, expected)
    \/ \E m \in Members : \/ TakeRequest(m) \/ DrainResults(m) \/ ForwardResponse(m)
                          \/ ChangeRole(m) \/ \E r \in StatusRequests : Collected(m, r)
    \/ TakeReport
    \/ \E r \in StatusRequests : RequestTimesOut(r)

StatusSpec == StatusInit /\ [][StatusNext]_statusVars

(* The executors serve their queues and timers, and a collection ends: its only        *)
(* blocking query, of the services, has a timeout.                                  *)
StatusFairness ==
    /\ WF_statusVars(TakeReport)
    /\ \A m \in Members :
          /\ WF_statusVars(TakeRequest(m)) /\ WF_statusVars(DrainResults(m))
          /\ WF_statusVars(ForwardResponse(m))
          /\ WF_statusVars(\E r \in StatusRequests : Collected(m, r))

FairStatusSpec == StatusSpec /\ StatusFairness
-----------------------------------------------------------------------------
(* However the roles change, and although several leaders may forward it, the station *)
(* prints the report of a drone once per request.                                  *)
ReportedOnce == \A r \in StatusRequests, m \in Members : printed[r][m] <= 1

(* Under one leader every drone's report is printed, early or after the timeout.      *)
EveryDroneReports ==
    \A r \in StatusRequests :
        r \in calm ~> (r \notin calm \/ \A m \in Members : printed[r][m] = 1)
================================================================================
