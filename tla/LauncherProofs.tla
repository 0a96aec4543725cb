----------------------------- MODULE LauncherProofs -----------------------------
(***************************************************************************)
(* The safety of a launcher session with one start worker at a time, for any  *)
(* components and lists of them, stop workers, processes and losses of the    *)
(* link.  The inductive invariant says what the check and the probe have       *)
(* established that still holds when the command is executed.                 *)
(***************************************************************************)
EXTENDS Launcher, SequenceTheorems, TLAPS

(* The processes born are numbered from 1, and each has the component it was started for.   *)
Numbered ==
    /\ \A i \in Procs : i > started => i \notin Alive \cup Open \cup severed
    /\ \A c \in Components :
          processes[c] = 0 \/ (processes[c] \in 1..started /\ component[processes[c]] = c)

(* What lives has its channel or lost it; channels are open over a live link only.       *)
Attended ==
    /\ \A i \in Alive : i \in Open \cup severed
    /\ link # "live" => Open = {}

Busy == {"probe", "probe_answer", "exec", "begun"}

(* Since the check nothing manages the wanted component; since the answer of the probe, if  *)
(* the link is still the same, nothing of it lives but what the probe cannot see; and a   *)
(* command whose reply is awaited has started the wanted component.                    *)
Checked ==
    \A s \in Starters :
        /\ starter[s] \in Busy => ~Managed(Wanted(s))
        /\ starter[s] = "exec" /\ link = "live" =>
              \A i \in Alive : component[i] = Wanted(s) => Wanted(s) = "vision" /\ i \in severed
        /\ starter[s] = "begun" => started \in 1..MaxProcs /\ component[started] = Wanted(s)

IInv ==
    /\ TypeOK /\ Numbered /\ Attended /\ Checked
    /\ OneLivePerComponent /\ UnmanagedOnlyWhenSevered

LEMMA WorkerSets ==
    /\ Starters \subseteq Workers /\ Threads \subseteq Workers /\ Starters \cap Threads = {}
    /\ Closer \in Threads /\ Nobody \notin Workers
BY ThreadsAssumption DEF Workers, Threads

LEMMA OrderTyped ==
    /\ Order \in Seq(Components) /\ Len(Order) \in Nat \ {0} /\ Order[1] \in Components
    /\ Reverse(Order) \in Seq(Components) /\ Reverse(Order) # <<>>
<1>1. Order \in [1..Len(Order) -> STRING] /\ DOMAIN Order = 1..Len(Order)
      /\ Len(Order) \in Nat \ {0}
    BY OrderAssumption, LenProperties, EmptySeq
<1>2. \A i \in 1..Len(Order) : Order[i] \in Components
    BY <1>1 DEF Components, Range
<1>3. Order \in [1..Len(Order) -> Components]
    BY <1>1, <1>2
<1>4. Order \in Seq(Components)
    BY <1>1, <1>3, SeqDef
<1>5. Reverse(Order) \in [1..Len(Order) -> Components]
  <2>1. \A i \in 1..Len(Order) : (Len(Order) - i) + 1 \in 1..Len(Order)
      BY <1>1
  <2>2. QED  BY <1>2, <2>1 DEF Reverse
<1>6. Reverse(Order) \in Seq(Components)
    BY <1>1, <1>5, SeqDef
<1>7. Len(Reverse(Order)) = Len(Order)
    BY <1>1, <1>5, <1>6, LenProperties
<1>8. Reverse(Order) # <<>>
    BY <1>1, <1>7
<1>9. QED  BY <1>1, <1>2, <1>4, <1>6, <1>8

LEMMA QueueTail ==
    ASSUME NEW S, NEW s \in Seq(S), s # <<>>
    PROVE  /\ Head(s) \in S /\ Tail(s) \in Seq(S)
           /\ Len(s) # 1 => Tail(s) # <<>>
<1>1. Head(s) \in S /\ Tail(s) \in Seq(S) /\ Len(Tail(s)) = Len(s) - 1
    BY HeadTailProperties
<1>2. Len(s) \in Nat \ {0} /\ (Tail(s) = <<>> => Len(Tail(s)) = 0)
    BY EmptySeq
<1>3. QED  BY <1>1, <1>2
-----------------------------------------------------------------------------
LEMMA InitIInv == Init => IInv
<1> SUFFICES ASSUME Init PROVE IInv
    OBVIOUS
<1>1. Alive = {} /\ Open = {}
    BY DEF Init, Alive, Open
<1>2. TypeOK
    BY OrderTyped, EmptySeq, BoundsAssumption
    DEF Init, TypeOK, StarterSteps, StopperSteps
<1>3. Numbered
    BY <1>1 DEF Init, Numbered, Procs
<1>4. Attended /\ Checked
    BY <1>1 DEF Init, Attended, Checked, Busy
<1>5. OneLivePerComponent /\ UnmanagedOnlyWhenSevered
    BY <1>1 DEF OneLivePerComponent, UnmanagedOnlyWhenSevered
<1>6. QED  BY <1>2, <1>3, <1>4, <1>5 DEF IInv
-----------------------------------------------------------------------------
(* The part of the types that a start worker's step changes.                        *)
StarterPart ==
    /\ starter \in [Starters -> StarterSteps]
    /\ todo \in [Workers -> Seq(Components)]
    /\ \A s \in Starters : starter[s] \notin {"idle", "connect"} => todo[s] # <<>>

LEMMA StarterMoves ==
    ASSUME TypeOK, NEW s \in Starters,
           \/ NextWanted(s) /\ todo[s] # <<>>
           \/ GiveUp(s)
           \/ \E step \in StarterSteps : StarterTo(s, step) /\ UNCHANGED todo
                                      /\ (step \notin {"idle", "connect"} => todo[s] # <<>>)
    PROVE  StarterPart' /\ \A t \in Threads : todo'[t] = todo[t]
<1> USE WorkerSets DEF TypeOK, StarterPart, StarterSteps, StarterTo
<1>1. CASE NextWanted(s) /\ todo[s] # <<>>
  <2>1. /\ todo' \in [Workers -> Seq(Components)]
        /\ Len(todo[s]) # 1 => todo'[s] # <<>>
        /\ \A u \in Workers \ {s} : todo'[u] = todo[u]
    <3>1. s \in Workers /\ todo[s] \in Seq(Components) /\ todo[s] # <<>>
        BY <1>1
    <3>2. Tail(todo[s]) \in Seq(Components) /\ (Len(todo[s]) # 1 => Tail(todo[s]) # <<>>)
        BY <3>1, QueueTail
    <3>3. todo' = [todo EXCEPT ![s] = Tail(todo[s])]
        BY <1>1 DEF NextWanted
    <3>4. QED  BY <3>1, <3>2, <3>3
  <2>2. starter' = [starter EXCEPT ![s] = IF Len(todo[s]) = 1 THEN "idle" ELSE "check"]
      BY <1>1 DEF NextWanted
  <2>3. QED  BY <2>1, <2>2
<1>2. CASE GiveUp(s)
    BY <1>2, EmptySeq DEF GiveUp
<1>3. CASE \E step \in StarterSteps : StarterTo(s, step) /\ UNCHANGED todo
                                  /\ (step \notin {"idle", "connect"} => todo[s] # <<>>)
    BY <1>3
<1>4. QED  BY <1>1, <1>2, <1>3

LEMMA WantedTyped ==
    ASSUME TypeOK, NEW s \in Starters, starter[s] \notin {"idle", "connect"}
    PROVE  Wanted(s) \in Components
    BY QueueTail, WorkerSets DEF TypeOK, Wanted

LEMMA StarterTypes ==
    ASSUME TypeOK, NEW s \in Starters,
           (\E checked \in Checklists : StartDrone(s, checked)) \/ StartStep(s)
    PROVE  TypeOK'
<1> USE WorkerSets DEF TypeOK, session, hosts, signals, stops
<1>1. ASSUME NEW checked \in Checklists, StartDrone(s, checked) PROVE TypeOK'
    BY <1>1, ChecklistsAssumption DEF StartDrone, StarterSteps
<1>2. ASSUME Dial(s) \/ Dialled(s) \/ Check(s) \/ ProbeSent(s) \/ ProbeAnswer(s)
             \/ StartRaises(s)
      PROVE  TypeOK'
  <2>1. StarterPart' /\ \A t \in Threads : todo'[t] = todo[t]
    <3>1. \/ NextWanted(s) /\ todo[s] # <<>>
          \/ GiveUp(s)
          \/ \E step \in StarterSteps : StarterTo(s, step) /\ UNCHANGED todo
                                     /\ (step \notin {"idle", "connect"} => todo[s] # <<>>)
      <4>1. CASE Dial(s)
        <5>1. CASE UNCHANGED <<starts, todo>>
          <6>1. StarterTo(s, starter[s]) /\ starter[s] \in StarterSteps
              BY <5>1 DEF StarterTo, starts
          <6>2. QED  BY <5>1, <6>1
        <5>2. CASE Connected(s)
            BY <5>2 DEF Connected, StarterSteps
        <5>3. QED  BY <4>1, <5>1, <5>2 DEF Dial
      <4>2. CASE Dialled(s) \/ Check(s) \/ ProbeSent(s) \/ ProbeAnswer(s) \/ StartRaises(s)
          BY <4>2 DEF Dialled, Connected, Check, ProbeSent, ProbeAnswer, StartRaises, StarterSteps
      <4>3. QED  BY <1>2, <4>1, <4>2
    <3>2. QED  BY <3>1, StarterMoves
  <2>2. lock' \in Workers \cup {Nobody} /\ link' \in {"none", "live", "dead"}
        /\ UNCHANGED <<processes, started, component, hosts, signals, stops, gui, drops>>
      BY <1>2 DEF Dial, Dialled, Check, ProbeSent, ProbeAnswer, StartRaises, Takes, Releases
  <2>3. QED  BY <2>1, <2>2 DEF StarterPart
<1>3. ASSUME Begin(s) PROVE TypeOK'
  <2> DEFINE i == started + 1
  <2>1. /\ started' = i /\ component' = [component EXCEPT ![i] = Wanted(s)]
        /\ remote' = [remote EXCEPT ![i] = "booting"]
        /\ channel' = [channel EXCEPT ![i] = "open"]
        /\ StarterTo(s, "begun")
        /\ UNCHANGED <<link, processes, lock, pid_known, severed, signals, todo, stops, gui, drops>>
      BY <1>3 DEF Begin
  <2>2. i \in 0..MaxProcs /\ Wanted(s) \in Components
    <3>1. started \in Nat /\ started < MaxProcs /\ MaxProcs \in Nat
        BY <1>3, BoundsAssumption DEF Begin
    <3>2. Wanted(s) \in Components
        BY <1>3, WantedTyped DEF Begin
    <3>3. QED  BY <3>1, <3>2
  <2> HIDE DEF i
  <2>3. /\ started' \in 0..MaxProcs /\ component' \in [Procs -> Components]
        /\ remote' \in [Procs -> {"unborn", "booting", "running", "gone"}]
        /\ channel' \in [Procs -> {"open", "closed"}]
      BY <2>1, <2>2
  <2>4. StarterPart'
      BY <1>3, <2>1, StarterMoves DEF Begin, StarterSteps
  <2>5. QED  BY <2>1, <2>3, <2>4 DEF StarterPart
<1>4. ASSUME Recorded(s) PROVE TypeOK'
  <2>1. Wanted(s) \in Components /\ todo[s] # <<>>
      BY <1>4, WantedTyped DEF Recorded
  <2>2. StarterPart' /\ \A t \in Threads : todo'[t] = todo[t]
      BY <1>4, <2>1, StarterMoves DEF Recorded
  <2>3. processes' \in [Components -> 0..MaxProcs] /\ lock' \in Workers \cup {Nobody}
        /\ UNCHANGED <<link, started, component, hosts, signals, stops, gui, drops>>
      BY <1>4, <2>1 DEF Recorded, RecordProcess, Releases
  <2>4. QED  BY <2>2, <2>3 DEF StarterPart
<1>5. QED  BY <1>1, <1>2, <1>3, <1>4 DEF StartStep

LEMMA AskTypes == ASSUME TypeOK, NEW w \in Workers, Ask(w) PROVE TypeOK'
    BY DEF Ask, Takes, TypeOK, session, hosts, signals, starts, stops

(* The part of the types that a stopping thread's step changes.                      *)
StopperPart ==
    /\ stopper \in [Threads -> StopperSteps]
    /\ todo \in [Workers -> Seq(Components)]
    /\ victim \in [Threads -> 0..MaxProcs]
    /\ \A t \in Threads : stopper[t] # "idle" => todo[t] # <<>>
    /\ \A t \in Threads : stopper[t] \notin {"idle", "look"} => victim[t] \in Procs

LEMMA StopperMoves ==
    ASSUME TypeOK, NEW t \in Threads, stopper[t] # "idle",
           \/ NextStop(t)
           \/ /\ UNCHANGED <<todo, victim>> /\ victim[t] \in Procs
              /\ \E step \in StopperSteps \ {"idle"} : StopperTo(t, step)
    PROVE  StopperPart' /\ \A s \in Starters : todo'[s] = todo[s]
<1> USE WorkerSets DEF TypeOK, StopperPart, StopperSteps, StopperTo
<1>1. CASE NextStop(t)
  <2>1. /\ todo' \in [Workers -> Seq(Components)]
        /\ Len(todo[t]) # 1 => todo'[t] # <<>>
        /\ \A u \in Workers \ {t} : todo'[u] = todo[u]
    <3>1. t \in Workers /\ todo[t] \in Seq(Components) /\ todo[t] # <<>>
        BY <1>1
    <3>2. Tail(todo[t]) \in Seq(Components) /\ (Len(todo[t]) # 1 => Tail(todo[t]) # <<>>)
        BY <3>1, QueueTail
    <3>3. todo' = [todo EXCEPT ![t] = Tail(todo[t])]
        BY <1>1 DEF NextStop
    <3>4. QED  BY <3>1, <3>2, <3>3
  <2>2. /\ stopper' = [stopper EXCEPT ![t] = IF Len(todo[t]) = 1 THEN "idle" ELSE "look"]
        /\ victim' = [victim EXCEPT ![t] = 0] /\ 0 \in 0..MaxProcs
      BY <1>1, BoundsAssumption DEF NextStop
  <2>3. QED  BY <2>1, <2>2
<1>2. CASE /\ UNCHANGED <<todo, victim>> /\ victim[t] \in Procs
           /\ \E step \in StopperSteps \ {"idle"} : StopperTo(t, step)
    BY <1>2
<1>3. QED  BY <1>1, <1>2

LEMMA TreatTypes ==
    ASSUME TypeOK, NEW t \in Threads, NEW i \in Procs, NEW step \in {"int", "wait"},
           Treat(t, i, step)
    PROVE  StopperPart' /\ UNCHANGED todo
    BY BoundsAssumption DEF Treat, TypeOK, StopperPart, StopperSteps, StopperTo, Procs

LEMMA StopperTypes ==
    ASSUME TypeOK, NEW t \in Threads,
           \/ StopDrone(t) \/ (StopStep(t) /\ ~Ask(t))
           \/ Signalled(t) \/ Answered(t) \/ StopRaises(t)
    PROVE  TypeOK'
<1> USE WorkerSets DEF TypeOK, session, hosts, signals, starts
<1>1. ASSUME StopDrone(t) PROVE TypeOK'
    BY <1>1, OrderTyped DEF StopDrone, StopAll, StopperTo, StopperSteps
<1>2. ASSUME Skip(t) \/ Waited(t) \/ Escalate(t) \/ StopFailed(t) \/ Answered(t)
      PROVE  TypeOK'
  <2>1. StopperPart' /\ \A s \in Starters : todo'[s] = todo[s]
      BY <1>2, StopperMoves DEF Skip, Waited, Escalate, StopFailed, Answered, StopperSteps
  <2>2. UNCHANGED <<session, lock, hosts, signals, starts, gui, drops>>
      BY <1>2 DEF Skip, Waited, Escalate, StopFailed, Answered
  <2>3. QED  BY <2>1, <2>2 DEF StopperPart
<1>3. ASSUME StopRaises(t) \/ Signalled(t) PROVE TypeOK'
  <2>1. stopper[t] \in {"int", "term"} /\ t \notin Starters
      BY <1>3 DEF StopRaises, Signalled, Calls
  <2>2. StopperPart' /\ \A s \in Starters : todo'[s] = todo[s]
      BY <1>3, <2>1, StopperMoves DEF StopRaises, Signalled, StopperSteps
  <2>3. /\ lock' = Nobody /\ UNCHANGED <<session, hosts, starts, gui, drops>>
        /\ int_sent' \subseteq Procs /\ term_sent' \subseteq Procs
      BY <1>3, <2>1 DEF StopRaises, Signalled, Releases
  <2>4. QED  BY <2>2, <2>3 DEF StopperPart
<1>4. ASSUME Interrupt(t) PROVE TypeOK'
  <2>1. StopperPart' /\ UNCHANGED todo
      BY <1>4, TreatTypes DEF Interrupt
  <2>2. QED  BY <1>4, <2>1 DEF Interrupt, StopperPart
<1>5. ASSUME ControlC(t) PROVE TypeOK'
  <2>1. PICK i \in Procs :
           /\ Treat(t, i, "wait")
           /\ channel' = [channel EXCEPT ![i] = "closed"]
           /\ \/ remote' = [remote EXCEPT ![i] = "gone"] /\ UNCHANGED severed
              \/ UNCHANGED remote /\ severed' = severed \cup ({i} \cap Alive)
      BY <1>5 DEF ControlC
  <2>2. StopperPart' /\ UNCHANGED todo
      BY <2>1, TreatTypes
  <2>3. /\ channel' \in [Procs -> {"open", "closed"}]
        /\ remote' \in [Procs -> {"unborn", "booting", "running", "gone"}]
        /\ severed' \subseteq Procs
        /\ UNCHANGED <<session, lock, pid_known, signals, starts, gui, drops>>
      BY <1>5, <2>1 DEF ControlC
  <2>4. QED  BY <2>2, <2>3 DEF StopperPart
<1>6. QED  BY <1>1, <1>2, <1>3, <1>4, <1>5 DEF StopStep

LEMMA OtherTypes ==
    ASSUME TypeOK,
           (\E i \in Procs : ReadPid(i)) \/ OnClose \/ Joined \/ Close \/ Drone \/ LinkDrops
    PROVE  TypeOK'
<1> USE WorkerSets DEF TypeOK, session, hosts, signals, starts, stops
<1>1. ASSUME NEW i \in Procs, ReadPid(i) \/ Announce(i) \/ Exit(i) PROVE TypeOK'
    BY <1>1 DEF ReadPid, Announce, Exit
<1>2. ASSUME OnClose \/ Joined PROVE TypeOK'
  <2>1. CASE OnClose
      BY <2>1, OrderTyped DEF OnClose, StopAll, StopperTo, StopperSteps
  <2>2. CASE Joined
      BY <2>2 DEF Joined
  <2>3. QED  BY <1>2, <2>1, <2>2
<1>3. ASSUME Close PROVE TypeOK'
  <2>1. <<>> \in Seq(Components) /\ 0 \in 0..MaxProcs
      BY EmptySeq, BoundsAssumption
  <2>2. QED  BY <1>3, <2>1 DEF Close, Sever, ThreadsEnd, Open, StarterSteps, StopperSteps
<1>4. ASSUME LinkDrops PROVE TypeOK'
    BY <1>4, BoundsAssumption, SMTT(30) DEF LinkDrops, Sever, Open, StarterSteps, StopperSteps
<1>5. QED  BY <1>1, <1>2, <1>3, <1>4 DEF Drone

LEMMA StepTypes == TypeOK /\ [Next]_vars => TypeOK'
<1>1. ASSUME TypeOK, UNCHANGED vars PROVE TypeOK'
    BY <1>1 DEF vars, session, hosts, signals, starts, stops, TypeOK
<1>2. ASSUME TypeOK, NEW t \in Threads, StopStep(t) PROVE TypeOK'
    BY <1>2, AskTypes, StopperTypes, WorkerSets
<1>3. QED  BY <1>1, <1>2, StarterTypes, AskTypes, StopperTypes, OtherTypes, WorkerSets DEF Next

(* The types of a session's variables, and that a thread at work has a component to treat,    *)
(* for any components, threads, processes and losses of the link.                  *)
THEOREM TypeCorrect == Spec => []TypeOK
<1>1. Init => TypeOK
    BY InitIInv DEF IInv
<1>2. QED  BY <1>1, StepTypes, PTL DEF Spec

-----------------------------------------------------------------------------
(* What every step but the start of a process and its record does to the processes: it starts  *)
(* and reopens none, and a channel closed under a live process is noted, also of one whose  *)
(* worker stops waiting for its reply.                                          *)
Calm ==
    /\ UNCHANGED <<processes, started, component>>
    /\ Alive' \subseteq Alive /\ Open' \subseteq Open
    /\ severed \cap Alive' \subseteq severed' /\ severed' \subseteq severed \cup Alive
    /\ Alive' \cap Open \subseteq Open' \cup severed'
    /\ Alive' \cap BeingStarted \subseteq BeingStarted' \cup severed'
    /\ link' # "live" => link # "live" \/ Open' = {}

(* And what it does to a start worker after its check: nothing, unless it ends it, or brings   *)
(* it to the execution over a link that is gone.                                 *)
Steady ==
    \A s \in Starters :
        starter'[s] \in Busy =>
            /\ starter[s] \in Busy /\ todo'[s] = todo[s]
            /\ starter'[s] = "exec" /\ link' = "live" => starter[s] = "exec" /\ link = "live"
            /\ starter'[s] = "begun" => starter[s] = "begun"

LEMMA CalmHosts == UNCHANGED <<session, hosts, starts>> => Calm
    BY DEF Calm, session, hosts, starts, Alive, Open, BeingStarted

LEMMA CalmSafe ==
    ASSUME IInv, Calm
    PROVE  /\ Numbered' /\ Attended' /\ OneLivePerComponent' /\ UnmanagedOnlyWhenSevered'
           /\ \A c \in Components : Managed(c)' => Managed(c)
<1> USE DEF IInv, Calm
<1>1. Alive \subseteq Procs /\ Procs \subseteq Nat
    BY DEF Alive, Procs
<1>2. Numbered'
    BY DEF Numbered
<1>3. OneLivePerComponent'
    BY DEF OneLivePerComponent
<1>4. UnmanagedOnlyWhenSevered'
  <2> SUFFICES ASSUME NEW i \in Alive'
               PROVE  \/ i = processes'[component'[i]] /\ i \in Open'
                      \/ i \in BeingStarted' \cup severed'
      BY DEF UnmanagedOnlyWhenSevered
  <2>1. i \in Alive
      OBVIOUS
  <2>2. (i = processes[component[i]] /\ i \in Open) \/ i \in BeingStarted \/ i \in severed
      BY <2>1 DEF UnmanagedOnlyWhenSevered
  <2>3. QED  BY <2>2
<1>5. \A c \in Components : Managed(c)' => Managed(c)
    BY DEF Managed
<1>6. Attended'
    BY DEF Attended
<1>7. QED  BY <1>2, <1>3, <1>4, <1>5, <1>6

LEMMA SteadyChecked ==
    ASSUME IInv, Calm, Steady
    PROVE  Checked'
<1> SUFFICES ASSUME NEW s \in Starters
             PROVE  /\ starter'[s] \in Busy => ~Managed(Wanted(s))'
                    /\ starter'[s] = "exec" /\ link' = "live" =>
                          \A i \in Alive' : component'[i] = Wanted(s)' =>
                              Wanted(s)' = "vision" /\ i \in severed'
                    /\ starter'[s] = "begun" =>
                          started' \in 1..MaxProcs /\ component'[started'] = Wanted(s)'
    BY DEF Checked
<1>1. CASE starter'[s] \in Busy
  <2>1. starter[s] \in Busy /\ Wanted(s)' = Wanted(s)
      BY <1>1 DEF Steady, Wanted
  <2>2. ~Managed(Wanted(s))
      BY <2>1 DEF IInv, Checked
  <2>3. ~Managed(Wanted(s))'
      BY <2>1, <2>2 DEF Calm, Managed
  <2>4. starter'[s] = "exec" /\ link' = "live" =>
           \A i \in Alive' : component'[i] = Wanted(s)' => Wanted(s)' = "vision" /\ i \in severed'
      BY <1>1, <2>1 DEF IInv, Checked, Calm, Steady
  <2>5. starter'[s] = "begun" => started' \in 1..MaxProcs /\ component'[started'] = Wanted(s)'
      BY <1>1, <2>1 DEF IInv, Checked, Calm, Steady
  <2>6. QED  BY <2>3, <2>4, <2>5
<1>2. CASE ~(starter'[s] \in Busy)
    BY <1>2 DEF Busy
<1>3. QED  BY <1>1, <1>2

(* One start worker at a time: the buttons of one drone.                            *)
OneStarter == \A s, t \in Starters : s = t

LEMMA StarterSteady ==
    ASSUME TypeOK, Attended, OneStarter, NEW s \in Starters,
           \/ \E checked \in Checklists : StartDrone(s, checked)
           \/ Dial(s) \/ Dialled(s) \/ ProbeSent(s) \/ StartRaises(s)
    PROVE  Calm /\ Steady
<1> USE DEF session, hosts, signals, starts, stops, TypeOK, Busy
<1>1. ASSUME NEW checked \in Checklists, StartDrone(s, checked) PROVE Calm /\ Steady
  <2>1. UNCHANGED <<Alive, Open, BeingStarted, link, processes, started, component, severed>>
      BY <1>1 DEF StartDrone, Alive, Open, BeingStarted
  <2>2. Steady
      BY <1>1, WorkerSets DEF StartDrone, Steady
  <2>3. QED  BY <2>1, <2>2 DEF Calm
<1>2. CASE Dial(s) \/ Dialled(s) \/ ProbeSent(s)
  <2>1. /\ starter[s] # "begun" /\ starter'[s] \in {"idle", "connect", "check", "probe_answer"}
        /\ starter'[s] = "probe_answer" => starter[s] = "probe" /\ todo'[s] = todo[s]
      BY <1>2 DEF Dial, Dialled, Connected, ProbeSent, StarterTo, GiveUp
  <2>2. Steady /\ BeingStarted = {}
      BY <2>1 DEF Steady, OneStarter, BeingStarted
  <2>3. UNCHANGED <<Alive, Open, processes, started, component, severed>>
        /\ (link' = link \/ link' = "live")
      BY <1>2 DEF Dial, Dialled, ProbeSent, Alive, Open
  <2>4. QED  BY <2>2, <2>3 DEF Calm
<1>3. CASE StartRaises(s)
  <2>1. UNCHANGED <<Alive, Open, link, processes, started, component, severed>>
      BY <1>3 DEF StartRaises, Alive, Open
  <2>2. starter'[s] = "idle" /\ (starter[s] = "begun" => link # "live")
      BY <1>3 DEF StartRaises, GiveUp, StarterTo, Calls
  <2>3. Steady
      BY <2>2 DEF Steady, OneStarter
  <2>4. Alive' \cap BeingStarted \subseteq severed'
      BY <2>1, <2>2 DEF BeingStarted, OneStarter, Attended
  <2>5. QED  BY <2>1, <2>3, <2>4 DEF Calm
<1>4. QED  BY <1>1, <1>2, <1>3

LEMMA StopperSteady ==
    ASSUME TypeOK, NEW t \in Threads,
           \/ StopDrone(t) \/ StopStep(t) \/ Signalled(t) \/ Answered(t) \/ StopRaises(t)
    PROVE  Calm /\ Steady
<1> USE WorkerSets DEF session, hosts, signals, starts, stops
<1>1. UNCHANGED <<starter, link, processes, started, component>>
      /\ \A s \in Starters : todo'[s] = todo[s]
    BY DEF StopDrone, StopAll, StopStep, Skip, Interrupt, ControlC, Ask, Treat, Waited,
       Escalate, StopFailed, NextStop, Signalled, Answered, StopRaises, TypeOK
<1>2. Steady
    BY <1>1 DEF Steady
<1>3. CASE ControlC(t)
  <2>1. PICK i \in Procs :
           /\ channel' = [channel EXCEPT ![i] = "closed"]
           /\ \/ remote' = [remote EXCEPT ![i] = "gone"] /\ UNCHANGED severed
              \/ UNCHANGED remote /\ severed' = severed \cup ({i} \cap Alive)
      BY <1>3 DEF ControlC
  <2>2. Alive' \subseteq Alive /\ Open' = Open \ {i} /\ (i \in Alive' => i \in severed')
        /\ severed \subseteq severed' /\ severed' \subseteq severed \cup Alive
      BY <2>1 DEF Alive, Open, TypeOK
  <2>3. BeingStarted' = BeingStarted
      BY <1>1 DEF BeingStarted
  <2>4. QED  BY <1>1, <1>2, <2>2, <2>3 DEF Calm
<1>4. CASE ~ControlC(t)
  <2>1. UNCHANGED <<session, hosts, starts>>
      BY <1>4 DEF StopDrone, StopStep, Skip, Interrupt, Ask, Waited, Escalate, StopFailed,
         Signalled, Answered, StopRaises
  <2>2. QED  BY <1>2, <2>1, CalmHosts
<1>5. QED  BY <1>3, <1>4

LEMMA OtherSteady ==
    ASSUME TypeOK, Attended,
           \/ \E s \in Starters : Ask(s)
           \/ \E i \in Procs : ReadPid(i)
           \/ OnClose \/ Joined \/ Close \/ Drone \/ LinkDrops
    PROVE  Calm /\ Steady
<1> USE WorkerSets DEF session, hosts, signals, starts, stops
<1>1. ASSUME NEW s \in Starters, Ask(s) PROVE Calm /\ Steady
    BY <1>1, CalmHosts DEF Ask, Steady
<1>2. ASSUME NEW i \in Procs, ReadPid(i) \/ Announce(i) PROVE Calm /\ Steady
  <2>1. UNCHANGED <<starter, todo, session, channel, severed>>
        /\ Alive' = Alive
      BY <1>2 DEF ReadPid, Announce, Alive, TypeOK
  <2>2. Open' = Open /\ BeingStarted' = BeingStarted
      BY <2>1 DEF Open, BeingStarted
  <2>3. QED  BY <2>1, <2>2 DEF Calm, Steady
<1>3. ASSUME NEW i \in Procs, Exit(i) PROVE Calm /\ Steady
  <2>1. UNCHANGED <<starter, todo, session>> /\ severed' = severed \ {i}
        /\ Alive' = Alive \ {i} /\ Open' = Open \ {i}
      BY <1>3 DEF Exit, Alive, Open, TypeOK
  <2>2. BeingStarted' = BeingStarted
      BY <2>1 DEF BeingStarted
  <2>3. QED  BY <2>1, <2>2 DEF Calm, Steady
<1>4. CASE OnClose \/ Joined
  <2>1. UNCHANGED <<session, hosts, starts>> /\ \A s \in Starters : todo'[s] = todo[s]
      BY <1>4 DEF OnClose, Joined, StopAll, TypeOK
  <2>2. QED  BY <2>1, CalmHosts DEF Steady
<1>5. CASE Close \/ LinkDrops
  <2>1. UNCHANGED <<processes, started, component>> /\ Alive' = Alive /\ Open' = {}
        /\ severed' = severed \cup (Open \cap Alive) /\ link' # "live"
      BY <1>5 DEF Close, LinkDrops, Sever, Alive, Open
  <2>2. Steady
      BY <1>5, <2>1 DEF Close, LinkDrops, ThreadsEnd, Steady, Busy
  <2>3. Alive \subseteq severed'
      BY <2>1 DEF Attended
  <2>4. severed' \subseteq severed \cup Alive
      BY <2>1
  <2>5. QED  BY <2>1, <2>2, <2>3, <2>4 DEF Calm
<1>6. QED  BY <1>1, <1>2, <1>3, <1>4, <1>5 DEF Drone

LEMMA CheckStep ==
    ASSUME IInv, OneStarter, NEW s \in Starters, Check(s) \/ ProbeAnswer(s)
    PROVE  Calm /\ Checked'
<1> USE DEF IInv, TypeOK
<1>1. /\ UNCHANGED <<Alive, Open, component, processes, severed, started, link>>
      /\ starter[s] \in {"check", "probe_answer"}
      /\ starter'[s] \in {"idle", "check", "probe", "exec"}
    BY DEF Check, ProbeAnswer, NextWanted, GiveUp, StarterTo, session, hosts, Alive, Open
<1>2. BeingStarted = {}
    BY <1>1 DEF BeingStarted, OneStarter
<1>3. Calm
    BY <1>1, <1>2 DEF Calm
<1>4. starter'[s] \in Busy =>
         UNCHANGED todo /\ \/ starter'[s] = "probe" /\ ~Managed(Wanted(s))
                           \/ starter'[s] = "exec" /\ starter[s] = "probe_answer"
                              /\ Found(Wanted(s)) = {}
    BY DEF Check, ProbeAnswer, NextWanted, GiveUp, StarterTo, Busy
<1>5. starter'[s] \in Busy => ~Managed(Wanted(s)) /\ Wanted(s)' = Wanted(s)
    BY <1>4 DEF Checked, Wanted, Busy
<1>6. ASSUME starter'[s] = "exec", NEW i \in Alive, component[i] = Wanted(s)
      PROVE  Wanted(s) = "vision" /\ i \in severed
  <2>1. Wanted(s) = "vision"
      BY <1>4, <1>6 DEF Found, Busy
  <2>2. i \notin Open \/ i # processes[component[i]]
      BY <1>5, <1>6 DEF Managed, Busy
  <2>3. QED  BY <1>2, <2>1, <2>2 DEF UnmanagedOnlyWhenSevered
<1>7. starter'[s] \in Busy => ~Managed(Wanted(s))'
    BY <1>1, <1>5 DEF Managed
<1>8. ASSUME NEW u \in Starters PROVE u = s
    BY DEF OneStarter
<1>9. QED  BY <1>1, <1>3, <1>5, <1>6, <1>7, <1>8 DEF Checked, Busy

LEMMA BeginStep ==
    ASSUME IInv, TypeOK', OneStarter, NEW s \in Starters, Begin(s)
    PROVE  IInv'
<1> USE DEF IInv
<1> DEFINE i == started + 1
<1> DEFINE c == Wanted(s)
<1>1. /\ started < MaxProcs /\ started' = i /\ component' = [component EXCEPT ![i] = c]
      /\ remote' = [remote EXCEPT ![i] = "booting"]
      /\ channel' = [channel EXCEPT ![i] = "open"]
      /\ starter' = [starter EXCEPT ![s] = "begun"]
      /\ link = "live" /\ starter[s] = "exec"
      /\ UNCHANGED <<link, processes, severed, todo>>
    BY DEF Begin, StarterTo
<1>2. i \in Procs /\ i \in Nat /\ started \in Nat /\ i \in 1..MaxProcs
    BY <1>1, BoundsAssumption DEF TypeOK, Procs
<1>3. c \in Components
    BY <1>1, WantedTyped
<1>4. i \notin Alive \cup Open \cup severed
    BY <1>2 DEF Numbered
<1>5. \A j \in Alive : component[j] = c => c = "vision" /\ j \in severed
    BY <1>1 DEF Checked
<1>6. ~Managed(c)
    BY <1>1 DEF Checked, Busy
<1>7. BeingStarted = {} /\ BeingStarted' = {i}
    BY <1>1, <1>2 DEF BeingStarted, OneStarter, TypeOK
<1> HIDE DEF i, c
<1>8. Alive' = Alive \cup {i} /\ Open' = Open \cup {i}
    BY <1>1, <1>2 DEF Alive, Open, TypeOK
<1>9. component'[i] = c /\ \A j \in Alive : j # i /\ component'[j] = component[j]
    BY <1>1, <1>2, <1>3, <1>4 DEF TypeOK, Alive
<1>10. Alive \subseteq 1..started
    BY <1>2 DEF Numbered, Alive, Procs
<1>11. ASSUME NEW d \in Components
       PROVE  \/ processes[d] = 0
              \/ /\ processes[d] \in 1..started' /\ processes[d] # i
                 /\ component'[processes[d]] = d
  <2>1. CASE processes[d] = 0
      BY <2>1
  <2>2. CASE processes[d] \in 1..started /\ component[processes[d]] = d
    <3>1. processes[d] \in 1..started' /\ processes[d] # i /\ processes[d] \in Procs
        BY <1>1, <1>2, <2>2, BoundsAssumption DEF i, Procs
    <3>2. component'[processes[d]] = d
        BY <1>1, <2>2, <3>1 DEF TypeOK
    <3>3. QED  BY <3>1, <3>2
  <2>3. QED  BY <2>1, <2>2 DEF Numbered
<1>12. Numbered'
  <2>1. \A j \in Procs : j > started' => j \notin Alive' \cup Open' \cup severed'
      BY <1>1, <1>2, <1>8 DEF Numbered, Procs, i
  <2>2. QED  BY <1>1, <1>11, <2>1 DEF Numbered
<1>13. Attended'
    BY <1>1, <1>8 DEF Attended
<1>14. Checked'
  <2>1. Wanted(s)' = c /\ starter'[s] = "begun" /\ starter'[s] # "exec"
      BY <1>1 DEF Wanted, TypeOK, c
  <2>2. processes'[c] \notin Open'
    <3>1. processes'[c] = processes[c] /\ processes[c] \notin Open
        BY <1>1, <1>6 DEF Managed
    <3>2. processes[c] # i
        BY <1>2, <1>3, <1>11
    <3>3. QED  BY <1>8, <3>1, <3>2
  <2>3. ~Managed(Wanted(s))'
      BY <2>1, <2>2 DEF Managed
  <2>4. \A u \in Starters : u = s
      BY DEF OneStarter
  <2>5. started' \in 1..MaxProcs /\ component'[started'] = Wanted(s)'
      BY <1>1, <1>2, <1>9, <2>1
  <2>6. QED  BY <2>1, <2>3, <2>4, <2>5 DEF Checked
<1>15. OneLivePerComponent'
  <2> SUFFICES ASSUME NEW j \in Alive', NEW k \in Alive', j < k, component'[j] = component'[k]
               PROVE  component'[j] = "vision" /\ j \in severed'
      BY DEF OneLivePerComponent
  <2>1. CASE k = i
    <3>1. j \in Alive
        BY <1>2, <1>8, <2>1
    <3>2. QED  BY <1>1, <1>5, <1>9, <2>1, <3>1
  <2>2. CASE k # i
    <3>1. k \in Alive /\ k < i
        BY <1>2, <1>8, <1>10, <2>2 DEF i
    <3>2. j # i
        BY <1>2, <3>1, <1>10 DEF i
    <3>3. QED  BY <1>1, <1>8, <1>9, <3>1, <3>2 DEF OneLivePerComponent
  <2>3. QED  BY <2>1, <2>2
<1>16. UnmanagedOnlyWhenSevered'
    BY <1>1, <1>7, <1>8, <1>9 DEF UnmanagedOnlyWhenSevered
<1>17. QED  BY <1>12, <1>13, <1>14, <1>15, <1>16

LEMMA RecordedStep ==
    ASSUME IInv, TypeOK', OneStarter, NEW s \in Starters, Recorded(s)
    PROVE  IInv'
<1> USE DEF IInv
<1> DEFINE c == Wanted(s)
<1>1. /\ processes' = [processes EXCEPT ![c] = started] /\ starter[s] = "begun"
      /\ starter'[s] \in {"idle", "check"}
      /\ UNCHANGED <<Alive, Open, link, started, component, severed>>
    BY DEF Recorded, RecordProcess, NextWanted, StarterTo, TypeOK, hosts, Alive, Open
<1>2. c \in Components /\ started \in 1..MaxProcs /\ component[started] = c /\ ~Managed(c)
    BY <1>1, WantedTyped DEF Checked, Busy
<1> HIDE DEF c
<1>3. processes'[c] = started /\ \A d \in Components \ {c} : processes'[d] = processes[d]
    BY <1>1, <1>2 DEF TypeOK
<1>4. Numbered'
    BY <1>1, <1>2, <1>3 DEF Numbered
<1>5. Attended' /\ OneLivePerComponent'
    BY <1>1 DEF Attended, OneLivePerComponent
<1>6. Checked'
    BY <1>1 DEF Checked, OneStarter, Busy
<1>7. ASSUME NEW j \in Alive
      PROVE  (j = processes'[component[j]] /\ j \in Open) \/ j \in severed
  <2>1. component[j] \in Components /\ j \in Open \cup severed
      BY DEF TypeOK, Attended, Alive
  <2>2. (j = processes[component[j]] /\ j \in Open) \/ j = started \/ j \in severed
      BY DEF UnmanagedOnlyWhenSevered, BeingStarted
  <2>3. CASE j = started
      BY <1>2, <1>3, <2>1, <2>3
  <2>4. CASE j # started /\ component[j] = c
      BY <1>2, <2>2, <2>4 DEF Managed
  <2>5. CASE j # started /\ component[j] # c
      BY <1>3, <2>1, <2>2, <2>5
  <2>6. QED  BY <2>3, <2>4, <2>5
<1>8. UnmanagedOnlyWhenSevered'
    BY <1>1, <1>7 DEF UnmanagedOnlyWhenSevered
<1>9. QED  BY <1>4, <1>5, <1>6, <1>8

LEMMA StepIInv == OneStarter /\ IInv /\ [Next]_vars => IInv'
<1> SUFFICES ASSUME OneStarter, IInv, [Next]_vars PROVE IInv'
    OBVIOUS
<1>1. TypeOK'
    BY StepTypes DEF IInv
<1>2. ASSUME Calm, Steady PROVE IInv'
    BY <1>1, <1>2, CalmSafe, SteadyChecked DEF IInv
<1>3. CASE UNCHANGED vars
  <2>1. Calm /\ Steady
      BY <1>3, CalmHosts DEF vars, session, starts, Steady
  <2>2. QED  BY <1>2, <2>1
<1>4. ASSUME NEW s \in Starters, Check(s) \/ ProbeAnswer(s) PROVE IInv'
    BY <1>1, <1>4, CheckStep, CalmSafe DEF IInv
<1>5. ASSUME NEW s \in Starters, Begin(s) \/ Recorded(s) PROVE IInv'
    BY <1>1, <1>5, BeginStep, RecordedStep
<1>6. ASSUME NEW s \in Starters,
             \/ \E checked \in Checklists : StartDrone(s, checked)
             \/ Dial(s) \/ Dialled(s) \/ ProbeSent(s) \/ StartRaises(s)
      PROVE  IInv'
    BY <1>2, <1>6, StarterSteady DEF IInv
<1>7. ASSUME NEW t \in Threads,
             StopDrone(t) \/ StopStep(t) \/ Signalled(t) \/ Answered(t) \/ StopRaises(t)
      PROVE  IInv'
    BY <1>2, <1>7, StopperSteady DEF IInv
<1>8. ASSUME \/ \E s \in Starters : Ask(s)
             \/ \E i \in Procs : ReadPid(i)
             \/ OnClose \/ Joined \/ Close \/ Drone \/ LinkDrops
      PROVE  IInv'
    BY <1>2, <1>8, OtherSteady DEF IInv
<1>9. QED  BY <1>3, <1>4, <1>5, <1>6, <1>7, <1>8 DEF Next, StartStep

LEMMA Inductive == OneStarter /\ Spec => []IInv
<1>1. ASSUME OneStarter PROVE Spec => []IInv
  <2>1. IInv /\ [Next]_vars => IInv'
      BY <1>1, StepIInv
  <2>2. QED  BY <2>1, InitIInv, PTL DEF Spec
<1>2. QED  BY <1>1

(* With one start worker the check and the probe keep two processes of one component from    *)
(* running, whatever the stop workers, the closing and the link do meanwhile; only a     *)
(* vision that was cut off while it booted escapes the probe.                      *)
THEOREM OneAlwaysLives == OneStarter /\ Spec => []OneLivePerComponent
<1>1. IInv => OneLivePerComponent
    BY DEF IInv
<1>2. QED  BY <1>1, Inductive, PTL

(* A live process is the one recorded for its component and its channel is open, or that      *)
(* channel was closed under it.                                                  *)
THEOREM UnmanagedWasSevered == OneStarter /\ Spec => []UnmanagedOnlyWhenSevered
<1>1. IInv => UnmanagedOnlyWhenSevered
    BY DEF IInv
<1>2. QED  BY <1>1, Inductive, PTL
=============================================================================
