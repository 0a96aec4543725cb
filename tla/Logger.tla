---------------------------------- MODULE Logger ----------------------------------
(***************************************************************************)
(* swarm_logger counts what it hears in reporting windows.  Its callbacks run in     *)
(* several threads and record under a lock; the report timer takes the window and    *)
(* has the host's health collected in the background; another timer of the same        *)
(* mutually exclusive group emits the report when the collection is done.  A thread   *)
(* of its own reads the Wi-Fi events of a child process, which stop() must end.        *)
(*                                                                         *)
(* What a message, a report or a health sample says is not modelled, nor the deque of *)
(* recent events, which forgets by design.                                       *)
(***************************************************************************)
EXTENDS Naturals, FiniteSets, FiniteSetsExt

CONSTANTS
    Writers,       \* publishers of /tf, told apart by their DDS identifiers
    WriterLimit,   \* the writers tracked (32)
    MaxHeard       \* bound on the messages heard

ASSUME LoggerAssumption ==
    /\ WriterLimit \in Nat /\ MaxHeard \in Nat
    /\ IsFiniteSet(Writers) /\ Writers \cap {"topic", "untracked", "wifi"} = {}

Kinds == {"topic", "tf", "wifi"}
Counters == {"topic", "untracked", "wifi"} \cup Writers
NoCounts == [c \in Counters |-> 0]

VARIABLES
    heard,         \* how many messages of every kind were heard
    tracked,       \* the keys of _tf_writers
    window,        \* the counters of the current window
    prime,         \* _health_prime
    health,        \* _health_future
    capture,       \* where _report is
    captured,      \* the counters of the report taken, not emitted yet
    emitted,       \* sums of the counters of the reports emitted
    wifi_thread,   \* where WifiEventMonitor._run is
    child,         \* the iw process
    stopping,      \* where WifiEventMonitor.stop is, in close_diagnostics
    overlooked     \* stop found no process, though the thread was to start one

reportVars == <<window, prime, health, capture, captured, emitted>>
wifiVars == <<wifi_thread, child, stopping, overlooked>>
loggerVars == <<heard, tracked, reportVars, wifiVars>>

Counts == [Counters -> 0..MaxHeard]

LoggerTypeOK ==
    /\ heard \in [Kinds -> 0..MaxHeard] /\ tracked \subseteq Writers
    /\ window \in Counts /\ captured \in Counts /\ emitted \in Counts
    /\ prime \in BOOLEAN /\ health \in {"none", "running", "done"}
    /\ capture \in {"idle", "taken", "pending"}
    /\ wifi_thread \in {"starting", "started", "reading", "ended"}
    /\ child \in {"none", "running", "terminated", "dead"}
    /\ stopping \in {"no", "asked", "waiting", "stopped"} /\ overlooked \in BOOLEAN

LoggerInit ==
    /\ heard = [k \in Kinds |-> 0] /\ tracked = {}
    /\ window = NoCounts /\ captured = NoCounts /\ emitted = NoCounts
    /\ prime = TRUE /\ health = "running" /\ capture = "idle"
    /\ wifi_thread = "starting" /\ child = "none"
    /\ stopping = "no" /\ overlooked = FALSE
-----------------------------------------------------------------------------
Hear(kind, counter) ==
    /\ SumFunction(heard) < MaxHeard
    /\ heard' = [heard EXCEPT ![kind] = @ + 1]
    /\ window' = [window EXCEPT ![counter] = @ + 1]
    /\ UNCHANGED <<prime, health, capture, captured, emitted>>

(* The callbacks of the swarm's and the vehicle's topics: _record_locked.             *)
TopicCallback == Hear("topic", "topic") /\ UNCHANGED <<tracked, wifiVars>>

(* _handle_tf: a new writer gets a tracker while there is room.                      *)
HandleTf(w) ==
    /\ tracked' = IF Cardinality(tracked) < WriterLimit THEN tracked \cup {w} ELSE tracked
    /\ Hear("tf", IF w \in tracked' THEN w ELSE "untracked")
    /\ UNCHANGED wifiVars
-----------------------------------------------------------------------------
(* _report: nothing while a report is pending or the first health sample is not       *)
(* there; then _snapshot_ros_state takes and resets all but the Wi-Fi counters.        *)
ReportTimer ==
    /\ capture = "idle" /\ (prime => health = "done")
    /\ prime' = FALSE /\ health' = "none" /\ capture' = "taken"
    /\ captured' = [window EXCEPT !["wifi"] = 0]
    /\ window' = [NoCounts EXCEPT !["wifi"] = window["wifi"]]
    /\ UNCHANGED <<heard, tracked, emitted, wifiVars>>

(* _report goes on: the Wi-Fi window, and the health collection in the background,       *)
(* which cannot be submitted once the logger is closed.                              *)
ReportCaptured ==
    /\ capture = "taken" /\ stopping = "no"
    /\ capture' = "pending" /\ health' = "running"
    /\ captured' = [captured EXCEPT !["wifi"] = window["wifi"]]
    /\ window' = [window EXCEPT !["wifi"] = 0]
    /\ UNCHANGED <<heard, tracked, prime, emitted, wifiVars>>

(* collect returns or raises.                                                   *)
HealthCollected ==
    /\ health = "running" /\ health' = "done"
    /\ UNCHANGED <<heard, tracked, window, prime, capture, captured, emitted, wifiVars>>

(* Mutant: the window starts anew when its report is emitted.                        *)
EmitAndReset ==
    /\ emitted' = [c \in Counters |-> emitted[c] + captured[c]]
    /\ captured' = NoCounts /\ window' = NoCounts

Emit ==
    /\ emitted' = [c \in Counters |-> emitted[c] + captured[c]]
    /\ captured' = NoCounts /\ UNCHANGED window

(* _flush_pending_report, _emit_report.                                          *)
FlushPendingReport ==
    /\ capture = "pending" /\ health = "done"
    /\ capture' = "idle" /\ health' = "none"
    /\ Emit
    /\ UNCHANGED <<heard, tracked, prime, wifiVars>>
-----------------------------------------------------------------------------
(* _run starts the child, or there is no iw or it does not start.                     *)
WifiStart ==
    /\ wifi_thread = "starting"
    /\ \/ wifi_thread' = "ended" /\ UNCHANGED child
       \/ wifi_thread' = "started" /\ child' = "running"
    /\ UNCHANGED <<heard, tracked, reportVars, stopping, overlooked>>

(* self._process = process: now stop can find it.                                   *)
WifiProcessKnown ==
    /\ wifi_thread = "started" /\ wifi_thread' = "reading"
    /\ UNCHANGED <<heard, tracked, reportVars, child, stopping, overlooked>>

(* A line of the child: counted under the monitor's lock, unless stop() was called.    *)
WifiLine ==
    /\ wifi_thread = "reading" /\ child = "running"
    /\ IF stopping = "no"
       THEN Hear("wifi", "wifi") /\ UNCHANGED wifi_thread
       ELSE wifi_thread' = "ended" /\ UNCHANGED <<heard, reportVars>>
    /\ UNCHANGED <<tracked, child, stopping, overlooked>>

WifiChildExits ==
    /\ child = "running" /\ child' = "dead"
    /\ UNCHANGED <<heard, tracked, reportVars, wifi_thread, stopping, overlooked>>

WifiEndOfFile ==
    /\ wifi_thread = "reading" /\ child = "dead" /\ wifi_thread' = "ended"
    /\ UNCHANGED <<heard, tracked, reportVars, child, stopping, overlooked>>

(* close_diagnostics and stop: _stop is set, for the thread to see.                   *)
Close ==
    /\ stopping = "no" /\ stopping' = "asked"
    /\ UNCHANGED <<heard, tracked, reportVars, wifi_thread, child, overlooked>>

Known == wifi_thread \notin {"starting", "started"} /\ child # "none"

(* stop terminates the process it finds.                                           *)
StopTerminate ==
    /\ stopping = "asked"
    /\ IF Known /\ child = "running"
       THEN stopping' = "waiting" /\ child' = "terminated"
       ELSE stopping' = "stopped" /\ UNCHANGED child
    /\ overlooked' = (wifi_thread \in {"starting", "started"})
    /\ UNCHANGED <<heard, tracked, reportVars, wifi_thread>>

WifiTerminates ==
    /\ child = "terminated" /\ child' = "dead"
    /\ UNCHANGED <<heard, tracked, reportVars, wifi_thread, stopping, overlooked>>

(* Mutant: a child that outlasts the wait is left to itself.                         *)
StopWaitOnly ==
    /\ stopping = "waiting" /\ stopping' = "stopped"
    /\ UNCHANGED <<heard, tracked, reportVars, wifi_thread, child, overlooked>>

(* stop waits for the process, and kills it when the time is up.                      *)
StopWait ==
    /\ stopping = "waiting" /\ stopping' = "stopped" /\ child' = "dead"
    /\ UNCHANGED <<heard, tracked, reportVars, wifi_thread, overlooked>>

WifiMonitor ==
    \/ WifiStart \/ WifiProcessKnown \/ WifiLine \/ WifiChildExits \/ WifiEndOfFile
    \/ WifiTerminates \/ Close \/ StopTerminate \/ StopWait

LoggerNext ==
    \/ TopicCallback \/ \E w \in Writers : HandleTf(w)
    \/ ReportTimer \/ ReportCaptured \/ HealthCollected \/ FlushPendingReport
    \/ WifiMonitor

LoggerSpec == LoggerInit /\ [][LoggerNext]_loggerVars
-----------------------------------------------------------------------------
CountersOf(kind) ==
    CASE kind = "topic" -> {"topic"} [] kind = "wifi" -> {"wifi"}
      [] kind = "tf" -> Writers \cup {"untracked"}

Reported == [c \in Counters |-> emitted[c] + captured[c] + window[c]]

(* Every message is in one report: emitted, waiting for its health sample, or the        *)
(* next.  None falls between two windows, whatever thread hears it while a report is     *)
(* taken or emitted, and none is uncounted because the writers are too many.  A logger   *)
(* that is closed loses the report it was working on.                              *)
EveryMessageReported ==
    stopping = "no" =>
        \A kind \in Kinds : heard[kind] = SumFunctionOnSet(Reported, CountersOf(kind))

(* stop() leaves no child behind, except one the thread was starting as it looked.       *)
WifiChildEnds == stopping = "stopped" => child \in {"none", "dead"} \/ overlooked
================================================================================
