-------------------------------- MODULE Launcher --------------------------------
(***************************************************************************)
(* The flight launcher's session with one drone (swarm_flight_launcher):     *)
(* one SSH connection over which the components of the drone's software are  *)
(* started and stopped, by worker threads that the buttons of the GUI start  *)
(* and that run at the same time.  The sessions of the drones are            *)
(* independent of each other, but that on_close closes them in turn: one      *)
(* that waits for its lock holds up the others.                             *)
(*                                                                         *)
(* A process is started as "setsid --wait bash": a wrapper that belongs to   *)
(* the SSH channel, and a child in a session of its own, which prints its    *)
(* process group and becomes the component.  A channel that closes takes the *)
(* wrapper with it, never the child.                                        *)
(*                                                                         *)
(* A worker that calls the drone keeps the session's lock while it dials, or  *)
(* opens an SSH session, which time out, and while it waits for the reply to  *)
(* its requests, which does not.  Threads interleave between the steps of     *)
(* these critical sections and at every other wait.  The link may fall       *)
(* silent, and it may drop, MaxDrops times.                                 *)
(***************************************************************************)
EXTENDS Naturals, Sequences, FiniteSets, SequencesExt

CONSTANTS
    Order,       \* COMPONENT_ORDER, in which components are started
    Checklists,  \* the lists of components that the operator checks
    Starters,    \* worker threads of the start buttons
    Stoppers,    \* worker threads of the stop buttons
    MaxProcs,    \* bound: processes started
    MaxDrops     \* bound: losses of the SSH link

Components == Range(Order)
Closer     == "close"                  \* the thread of stop_all started by on_close
Threads    == Stoppers \cup {Closer}
Workers    == Starters \cup Threads
Nobody     == "nobody"
Procs      == 1..MaxProcs

ASSUME OrderAssumption ==
    /\ Order \in Seq(STRING) /\ Order # <<>>
    /\ \A i, j \in DOMAIN Order : Order[i] = Order[j] => i = j

(* start_drone lists the checked components in the launcher's order.           *)
Precedes(c, d) == \E k, l \in DOMAIN Order : k < l /\ Order[k] = c /\ Order[l] = d

ASSUME ChecklistsAssumption ==
    \A list \in Checklists :
        /\ list \in Seq(Components)
        /\ \A i, j \in DOMAIN list : i < j => Precedes(list[i], list[j])
ASSUME ThreadsAssumption ==
    Closer \notin Stoppers /\ Starters \cap Threads = {} /\ Nobody \notin Workers
ASSUME BoundsAssumption == MaxProcs \in Nat /\ MaxDrops \in Nat

VARIABLES
    link,         \* self.client and its transport: none, live, dead
    processes,    \* self.processes: the last process started per component, or 0
    started,      \* processes started so far, numbered from 1
    component,    \* of each process
    lock,         \* the worker that keeps self._lock over a wait
    remote,       \* each process at the drone: unborn, booting, running, gone
    channel,      \* its SSH channel: closed means exit_status_ready()
    pid_known,    \* the reader thread has seen its process group
    int_sent, term_sent,  \* processes that were signalled
    starter,      \* the step of each starting thread
    todo,         \* the components each thread has still to treat
    stopper,      \* the step of each stopping thread
    victim,       \* the process each stopping thread treats
    gui,          \* open, closing (on_close was confirmed), joined, closed
    severed,      \* processes whose channel was closed under them
    drops

session == <<link, processes, started, component>>
hosts   == <<remote, channel, pid_known, severed>>
signals == <<int_sent, term_sent>>
starts  == <<starter>>
stops   == <<stopper, victim>>
vars    == <<session, lock, hosts, signals, starts, todo, stops, gui, drops>>

Alive == {i \in Procs : remote[i] \in {"booting", "running"}}
Open  == {i \in Procs : channel[i] = "open"}

StarterSteps == {"idle", "connect", "check", "probe", "probe_answer", "exec", "begun"}
StopperSteps == {"idle", "look", "int", "int_answer", "wait", "term", "term_answer", "failed"}

(* Types; and a thread at work has a component to treat.                      *)
TypeOK ==
    /\ link \in {"none", "live", "dead"}
    /\ processes \in [Components -> 0..MaxProcs]
    /\ started \in 0..MaxProcs
    /\ component \in [Procs -> Components]
    /\ lock \in Workers \cup {Nobody}
    /\ remote \in [Procs -> {"unborn", "booting", "running", "gone"}]
    /\ channel \in [Procs -> {"open", "closed"}]
    /\ pid_known \subseteq Procs /\ severed \subseteq Procs
    /\ int_sent \subseteq Procs /\ term_sent \subseteq Procs
    /\ starter \in [Starters -> StarterSteps]
    /\ stopper \in [Threads -> StopperSteps]
    /\ todo \in [Workers -> Seq(Components)]
    /\ \A s \in Starters : starter[s] \notin {"idle", "connect"} => todo[s] # <<>>
    /\ \A t \in Threads : stopper[t] # "idle" => todo[t] # <<>>
    /\ victim \in [Threads -> 0..MaxProcs]
    /\ \A t \in Threads : stopper[t] \notin {"idle", "look"} => victim[t] \in Procs
    /\ gui \in {"open", "closing", "joined", "closed"}
    /\ drops \in 0..MaxDrops

Init ==
    /\ link = "none"
    /\ processes = [c \in Components |-> 0]
    /\ started = 0
    /\ component = [i \in Procs |-> Order[1]]
    /\ lock = Nobody
    /\ remote = [i \in Procs |-> "unborn"]
    /\ channel = [i \in Procs |-> "closed"]
    /\ pid_known = {} /\ int_sent = {} /\ term_sent = {} /\ severed = {}
    /\ starter = [s \in Starters |-> "idle"]
    /\ todo = [w \in Workers |-> <<>>]
    /\ stopper = [t \in Threads |-> "idle"]
    /\ victim = [t \in Threads |-> 0]
    /\ gui = "open"
    /\ drops = 0

(* The launcher's threads are daemons: they end with it.                       *)
ThreadsEnd ==
    /\ starter' = [s \in Starters |-> "idle"]
    /\ todo' = [w \in Workers |-> <<>>]
    /\ stopper' = [t \in Threads |-> "idle"]
    /\ victim' = [t \in Threads |-> 0]

(* Every open channel closes; what ran behind it goes on unattended.           *)
Sever ==
    /\ channel' = [i \in Procs |-> "closed"]
    /\ severed' = severed \cup (Open \cap Alive)

(* "with self._lock": a section without a wait needs the lock free; one that      *)
(* waits takes it.                                                           *)
Free     == lock = Nobody
Takes(w) == Free /\ lock' = w
Releases == lock' = Nobody

StarterTo(s, step) == starter' = [starter EXCEPT ![s] = step]
StopperTo(t, step) == stopper' = [stopper EXCEPT ![t] = step]
-----------------------------------------------------------------------------
(* start_drone: the checked components, in the launcher's order; connect_drone   *)
(* with none.  Nothing disables the buttons while a worker runs or the GUI      *)
(* closes.                                                                    *)
StartDrone(s, checked) ==
    /\ gui # "closed" /\ starter[s] = "idle"
    /\ starter' = [starter EXCEPT ![s] = "connect"]
    /\ todo' = [todo EXCEPT ![s] = checked]
    /\ UNCHANGED <<session, lock, hosts, signals, stops, gui, drops>>

(* An exception ends the worker, and with it its list.                         *)
GiveUp(s) == StarterTo(s, "idle") /\ todo' = [todo EXCEPT ![s] = <<>>]

Connected(s) == StarterTo(s, IF todo[s] = <<>> THEN "idle" ELSE "check") /\ UNCHANGED todo

(* connect: reuse a live link or dial.                                        *)
Dial(s) ==
    /\ starter[s] = "connect" /\ Free
    /\ \/ link = "live" /\ Connected(s) /\ UNCHANGED lock
       \/ link # "live" /\ Takes(s) /\ UNCHANGED <<starts, todo>>
    /\ UNCHANGED <<session, hosts, signals, stops, gui, drops>>

Dialled(s) ==
    /\ starter[s] = "connect" /\ lock = s /\ Releases
    /\ \/ link' = "live" /\ Connected(s)
       \/ GiveUp(s) /\ UNCHANGED link
    /\ UNCHANGED <<processes, started, component, hosts, signals, stops, gui, drops>>

Wanted(s) == Head(todo[s])

(* The worker is done with a component and takes the next one.                *)
NextWanted(s) ==
    /\ todo' = [todo EXCEPT ![s] = Tail(@)]
    /\ StarterTo(s, IF Len(todo[s]) = 1 THEN "idle" ELSE "check")

(* start_component, first critical section: a managed process is left alone.    *)
Managed(c) == processes[c] \in Open

Check(s) ==
    /\ starter[s] = "check" /\ Free
    /\ \/ Managed(Wanted(s)) /\ NextWanted(s)
       \/ ~Managed(Wanted(s)) /\ StarterTo(s, "probe") /\ UNCHANGED todo
    /\ UNCHANGED <<session, lock, hosts, signals, stops, gui, drops>>
-----------------------------------------------------------------------------
(* The workers that are about to run something on the drone: the probe, a signal  *)
(* (_run_short) or a component (start_component).                             *)
Calls(w) ==
    IF w \in Starters THEN starter[w] \in {"probe", "exec"} ELSE stopper[w] \in {"int", "term"}

(* They take the lock, open an SSH session and send their requests over it.  No   *)
(* process is started beyond the bound.                                       *)
Ask(w) ==
    /\ Calls(w) /\ Takes(w)
    /\ w \in Starters /\ starter[w] = "exec" => started < MaxProcs
    /\ UNCHANGED <<session, hosts, signals, starts, todo, stops, gui, drops>>

(* The session is not opened in time, a request is refused, or the link is gone   *)
(* while the worker waits: the exception ends a start worker.                   *)
StartRaises(s) ==
    /\ lock = s /\ Releases
    /\ Calls(s) \/ (starter[s] = "begun" /\ link # "live")
    /\ GiveUp(s)
    /\ UNCHANGED <<session, hosts, signals, stops, gui, drops>>

(* In stop_all it ends the treatment of the component.                         *)
StopRaises(t) ==
    /\ lock = t /\ Releases
    /\ Calls(t) /\ StopperTo(t, "failed")
    /\ UNCHANGED <<session, hosts, signals, starts, todo, victim, gui, drops>>

(* Second critical section: the probe is under way.                           *)
ProbeSent(s) ==
    /\ starter[s] = "probe" /\ lock = s /\ link = "live"
    /\ Releases /\ StarterTo(s, "probe_answer")
    /\ UNCHANGED <<session, hosts, signals, todo, stops, gui, drops>>

(* Mutant: the drone is not asked what runs on it.                            *)
NothingFound(c) == {}

(* The duplicate probe matches the script that starts an agent or a controller    *)
(* as well as the program; it matches the vision only when its program runs.    *)
Found(c) == {i \in Alive : component[i] = c /\ (c = "vision" => remote[i] = "running")}

(* Its answer, or an exception when its output is not complete in time.         *)
ProbeAnswer(s) ==
    /\ starter[s] = "probe_answer"
    /\ \/ Found(Wanted(s)) # {} /\ NextWanted(s)
       \/ Found(Wanted(s)) = {} /\ StarterTo(s, "exec") /\ UNCHANGED todo
       \/ GiveUp(s)
    /\ UNCHANGED <<session, lock, hosts, signals, stops, gui, drops>>

(* Third: the command is executed, and the worker waits for the reply.           *)
Begin(s) ==
    LET i == started + 1 IN
    /\ starter[s] = "exec" /\ lock = s /\ link = "live" /\ started < MaxProcs
    /\ started' = i
    /\ component' = [component EXCEPT ![i] = Wanted(s)]
    /\ remote' = [remote EXCEPT ![i] = "booting"]
    /\ channel' = [channel EXCEPT ![i] = "open"]
    /\ StarterTo(s, "begun")
    /\ UNCHANGED <<link, processes, lock, pid_known, severed, signals, todo, stops, gui, drops>>

(* A process nobody can find yet.                                            *)
BeingStarted == {i \in Procs : i = started /\ \E s \in Starters : starter[s] = "begun"}

(* Mutant: the process is started and not recorded.                           *)
ForgetProcess(c, i) == UNCHANGED processes

(* The new process takes the component's place, whatever held it.             *)
RecordProcess(c, i) == processes' = [processes EXCEPT ![c] = i]

Recorded(s) ==
    /\ starter[s] = "begun" /\ lock = s /\ link = "live"
    /\ RecordProcess(Wanted(s), started)
    /\ NextWanted(s) /\ Releases
    /\ UNCHANGED <<link, started, component, hosts, signals, stops, gui, drops>>

(* _read_remote_output: the marker gives the process group.                    *)
ReadPid(i) ==
    /\ gui # "closed" /\ i \in Open \ BeingStarted
    /\ remote[i] = "running" /\ i \notin pid_known
    /\ pid_known' = pid_known \cup {i}
    /\ UNCHANGED <<session, lock, remote, channel, severed, signals, starts, todo, stops, gui,
                   drops>>
-----------------------------------------------------------------------------
(* stop_drone and stop_all of the GUI; StopAll is RemoteDroneSession.stop_all.  *)
StopAll(t) ==
    /\ StopperTo(t, "look")
    /\ todo' = [todo EXCEPT ![t] = Reverse(Order)]
    /\ UNCHANGED victim

StopDrone(t) ==
    /\ gui # "closed" /\ t \in Stoppers /\ stopper[t] = "idle"
    /\ StopAll(t)
    /\ UNCHANGED <<session, lock, hosts, signals, starts, gui, drops>>

NextStop(t) ==
    /\ todo' = [todo EXCEPT ![t] = Tail(@)]
    /\ StopperTo(t, IF Len(todo[t]) = 1 THEN "idle" ELSE "look")
    /\ victim' = [victim EXCEPT ![t] = 0]

(* stop_component: an unmanaged component is skipped.                          *)
Skip(t) ==
    /\ stopper[t] = "look" /\ Free
    /\ ~Managed(Head(todo[t]))
    /\ NextStop(t)
    /\ UNCHANGED <<session, lock, hosts, signals, starts, gui, drops>>

Treat(t, i, step) ==
    /\ stopper[t] = "look" /\ Free
    /\ Managed(Head(todo[t])) /\ i = processes[Head(todo[t])]
    /\ StopperTo(t, step)
    /\ victim' = [victim EXCEPT ![t] = i]
    /\ UNCHANGED todo

(* One whose process group is known is interrupted.                           *)
Interrupt(t) ==
    /\ \E i \in pid_known : Treat(t, i, "int")
    /\ UNCHANGED <<session, lock, hosts, signals, starts, gui, drops>>

(* Another gets a control character on its channel.  It ends the wrapper and     *)
(* closes the channel; a child that has its own session does not notice.       *)
ControlC(t) ==
    /\ \E i \in Procs \ pid_known :
         /\ Treat(t, i, "wait")
         /\ channel' = [channel EXCEPT ![i] = "closed"]
         /\ \/ remote[i] = "booting" /\ remote' = [remote EXCEPT ![i] = "gone"]
               /\ UNCHANGED severed
            \/ UNCHANGED remote /\ severed' = severed \cup ({i} \cap Alive)
    /\ UNCHANGED <<session, lock, pid_known, signals, starts, gui, drops>>

(* The reply to a signal: it is on its way to the process.                     *)
Signalled(t) ==
    /\ lock = t /\ link = "live" /\ Releases
    /\ \/ /\ stopper[t] = "int" /\ StopperTo(t, "int_answer")
          /\ int_sent' = int_sent \cup {victim[t]} /\ UNCHANGED term_sent
       \/ /\ stopper[t] = "term" /\ StopperTo(t, "term_answer")
          /\ term_sent' = term_sent \cup {victim[t]} /\ UNCHANGED int_sent
    /\ UNCHANGED <<session, hosts, starts, todo, victim, gui, drops>>

(* recv_exit_status waits for the answer without the lock and without a timeout;  *)
(* reading the output that belongs to it may time out.                         *)
Answered(t) ==
    /\ \/ stopper[t] = "int_answer" /\ StopperTo(t, "wait") /\ UNCHANGED <<todo, victim>>
       \/ stopper[t] = "term_answer" /\ NextStop(t)
       \/ /\ stopper[t] \in {"int_answer", "term_answer"}
          /\ StopperTo(t, "failed") /\ UNCHANGED <<todo, victim>>
    /\ UNCHANGED <<session, lock, hosts, signals, starts, gui, drops>>

(* stop_all reports the exception and goes on with the next component.          *)
StopFailed(t) ==
    /\ stopper[t] = "failed"
    /\ NextStop(t)
    /\ UNCHANGED <<session, lock, hosts, signals, starts, gui, drops>>

Waited(t) ==
    /\ stopper[t] = "wait" /\ victim[t] \notin Open
    /\ NextStop(t)
    /\ UNCHANGED <<session, lock, hosts, signals, starts, gui, drops>>

(* Mutant: no second signal.                                                 *)
NoEscalation(t) ==
    /\ stopper[t] = "wait" /\ victim[t] \in Open
    /\ NextStop(t)
    /\ UNCHANGED <<session, lock, hosts, signals, starts, gui, drops>>

(* The wait times out: terminate, without waiting again.                       *)
Escalate(t) ==
    /\ stopper[t] = "wait" /\ victim[t] \in Open
    /\ StopperTo(t, "term")
    /\ UNCHANGED <<session, lock, hosts, signals, starts, todo, victim, gui, drops>>
-----------------------------------------------------------------------------
(* on_close, confirmed: stop_all in a thread.                                 *)
OnClose ==
    /\ gui = "open" /\ gui' = "closing"
    /\ StopAll(Closer)
    /\ UNCHANGED <<session, lock, hosts, signals, starts, drops>>

(* Where a stopping thread may spend more than eight seconds: waits of five       *)
(* seconds, an answer, or the lock, its own or another's.                      *)
Slow(t) ==
    \/ stopper[t] = "wait" /\ victim[t] \in Open
    \/ stopper[t] \in {"int_answer", "term_answer"}
    \/ ~Free

(* Mutant: the thread is joined without a timeout.                            *)
JoinedAtEnd ==
    /\ gui = "closing" /\ gui' = "joined"
    /\ stopper[Closer] = "idle"
    /\ UNCHANGED <<session, lock, hosts, signals, starts, todo, stops, drops>>

(* shutdown_worker joins it for eight seconds at most.                         *)
Joined ==
    /\ gui = "closing" /\ gui' = "joined"
    /\ stopper[Closer] = "idle" \/ Slow(Closer)
    /\ UNCHANGED <<session, lock, hosts, signals, starts, todo, stops, drops>>

(* close needs the lock; then the launcher ends with all its threads.           *)
Close ==
    /\ gui = "joined" /\ Free
    /\ gui' = "closed" /\ link' = "none"
    /\ Sever /\ ThreadsEnd
    /\ UNCHANGED <<processes, started, component, lock, remote, pid_known, signals, drops>>
-----------------------------------------------------------------------------
(* The drone: the child announces itself, and ends by itself or by a signal; then  *)
(* nothing reads any more what was noted of it.                                *)
Announce(i) ==
    /\ remote[i] = "booting"
    /\ remote' = [remote EXCEPT ![i] = "running"]
    /\ UNCHANGED <<session, lock, channel, pid_known, severed, signals, starts, todo, stops,
                   gui, drops>>

Exit(i) ==
    /\ i \in Alive
    /\ remote' = [remote EXCEPT ![i] = "gone"]
    /\ channel' = [channel EXCEPT ![i] = "closed"]
    /\ pid_known' = pid_known \ {i} /\ severed' = severed \ {i}
    /\ int_sent' = int_sent \ {i} /\ term_sent' = term_sent \ {i}
    /\ UNCHANGED <<session, lock, starts, todo, stops, gui, drops>>

(* A lost link ends every wait for an answer, which is then empty: the probe has  *)
(* found nothing.  A worker that waits with the lock raises.                    *)
LinkDrops ==
    /\ link = "live" /\ drops < MaxDrops
    /\ link' = "dead" /\ drops' = drops + 1
    /\ Sever
    /\ starter' = [s \in Starters |->
                      IF starter[s] = "probe_answer" THEN "exec" ELSE starter[s]]
    /\ stopper' = [t \in Threads |->
                      IF stopper[t] \in {"int_answer", "term_answer"} THEN "wait" ELSE stopper[t]]
    /\ UNCHANGED <<processes, started, component, lock, remote, pid_known, signals, todo,
                   victim, gui>>

StartStep(s) ==
    \/ Dial(s) \/ Dialled(s) \/ Check(s)
    \/ ProbeSent(s) \/ ProbeAnswer(s) \/ Begin(s) \/ Recorded(s) \/ StartRaises(s)

StopStep(t) ==
    \/ Skip(t) \/ Interrupt(t) \/ ControlC(t) \/ Ask(t)
    \/ Waited(t) \/ Escalate(t) \/ StopFailed(t)

Drone == \E i \in Procs : Announce(i) \/ Exit(i)

Next ==
    \/ \E s \in Starters : (\E checked \in Checklists : StartDrone(s, checked))
                           \/ Ask(s) \/ StartStep(s)
    \/ \E i \in Procs : ReadPid(i)
    \/ \E t \in Threads : StopDrone(t) \/ StopStep(t)
                          \/ Signalled(t) \/ Answered(t) \/ StopRaises(t)
    \/ OnClose \/ Joined \/ Close \/ Drone \/ LinkDrops

Spec == Init /\ [][Next]_vars

(* What ends a wait with the lock by itself: the timeouts of a dialled link, and   *)
(* the loss of the link for a request.                                         *)
WaitEnds(w) ==
    /\ link # "live"
    /\ \/ w \in Starters /\ (Dialled(w) \/ StartRaises(w))
       \/ w \in Threads /\ StopRaises(w)

(* Stopping threads run and get the lock when it is free again and again, as the   *)
(* closing does; timeouts expire; a terminated process ends.  A reply or an      *)
(* answer over a live link may never come.                                    *)
Fairness ==
    /\ WF_vars(Joined) /\ SF_vars(Close)
    /\ WF_vars(\E w \in Workers : WaitEnds(w))
    /\ \A t \in Threads : SF_vars(StopStep(t))
    /\ \A i \in Procs : WF_vars(i \in term_sent /\ Exit(i))

FairSpec == Spec /\ Fairness
-----------------------------------------------------------------------------
(* With one start at a time, the check and the probe keep two processes of one   *)
(* component from running, over lost links, early stops and reconnections; only   *)
(* a vision that was cut off while it booted is overlooked.                     *)
OneLivePerComponent ==
    \A i, j \in Alive :
        i < j /\ component[i] = component[j] => component[i] = "vision" /\ i \in severed

(* A live process is either the one recorded for its component, on an open       *)
(* channel, and can be stopped; or its worker waits for the reply that its       *)
(* command is executed; or its channel was closed under it, by a lost link, by a  *)
(* stop before its process group was known, or by the end.                     *)
UnmanagedOnlyWhenSevered ==
    \A i \in Alive :
        (i = processes[component[i]] /\ i \in Open) \/ i \in BeingStarted \cup severed

(* No request that a worker makes with the lock stays without a reply on a live   *)
(* link.  (A session that does not open times out.)                            *)
RepliesCome == []<>(Free \/ link # "live")

(* No signal that was sent stays without its exit status.                      *)
AnswersCome == \A t \in Threads : []<>(stopper[t] \notin {"int_answer", "term_answer"})

(* A component that is to be interrupted goes away, also one that ignores the     *)
(* interrupt, unless the launcher is cut off from it or reports that the stop     *)
(* failed: it is not left alive silently.  A drone that stays connected and      *)
(* silent is excluded, for then the thread waits forever.                      *)
InterruptedEnds ==
    RepliesCome /\ AnswersCome =>
        \A i \in Procs :
            (\E t \in Threads : stopper[t] = "int" /\ victim[t] = i)
                ~> \/ i \notin Alive \/ i \in severed
                   \/ \E t \in Threads : stopper[t] = "failed" /\ victim[t] = i

(* Closing the launcher ends, though the answer to a signal may never come and    *)
(* the workers contend for the lock; but not if a request made with the lock     *)
(* is never replied to.                                                       *)
ClosingEnds == RepliesCome => (gui = "closing" ~> gui = "closed")

(* on_close: "Closing this GUI will stop every process that it started": at the   *)
(* end every process still alive has at least been signalled.                   *)
ClosedStopsEverything == gui = "closed" => Alive \subseteq int_sent \cup term_sent

(* README: "refuses to start an obvious duplicate", whoever starts it.           *)
NoDuplicateStarted ==
    \A i, j \in Alive : component[i] = component[j] => i = j
=============================================================================
