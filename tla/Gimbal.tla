--------------------------------- MODULE Gimbal ---------------------------------
(***************************************************************************)
(* swarm_gimbal: a rate command (rotation, manual zoom) moves the camera until *)
(* it is told to stop, so the node arms a watchdog for each and stops a motion  *)
(* that is not refreshed.  Packets go over UDP: one may be lost, and a socket    *)
(* that is closed or in error refuses it, which _send reports.  The camera is    *)
(* external.  Time is counted in periods of the watchdog timer.               *)
(***************************************************************************)
EXTENDS Naturals

CONSTANT Timeouts     \* the watchdogs' timeouts to choose from; 0 is no watchdog

ASSUME TimeoutsAssumption == Timeouts \subseteq Nat

Axes == {"rotation", "zoom"}

VARIABLES
    timeout,     \* speed_timeout, zoom_timeout: fixed for ever
    socket_open,
    active,      \* _speed_active, _zoom_active
    deadline,    \* periods until _speed_deadline, _zoom_deadline; 0 is none
    moving,      \* whether the camera carries out a rate command
    age,         \* periods since the node sent the last rate command
    unstopped    \* the packet that should have stopped the camera is given up

gimbalVars == <<timeout, socket_open, active, deadline, moving, age, unstopped>>

Longest(a) == timeout[a] + 1

GimbalTypeOK ==
    /\ timeout \in [Axes -> Timeouts] /\ socket_open \in BOOLEAN
    /\ active \in [Axes -> BOOLEAN] /\ moving \in [Axes -> BOOLEAN]
    /\ unstopped \in [Axes -> BOOLEAN]
    /\ \A a \in Axes : deadline[a] \in 0..timeout[a] /\ age[a] \in 0..Longest(a)

GimbalInit ==
    /\ timeout \in [Axes -> Timeouts] /\ socket_open = TRUE
    /\ active = [a \in Axes |-> FALSE] /\ moving = [a \in Axes |-> FALSE]
    /\ unstopped = [a \in Axes |-> FALSE]
    /\ deadline = [a \in Axes |-> 0] /\ age = [a \in Axes |-> 0]
-----------------------------------------------------------------------------
(* _send, send_command and the network: the fate of one packet.  A datagram the  *)
(* socket accepted may be lost.                                              *)
Fates == {"taken", "lost", "refused"}
Sent(fate) == fate # "refused"

(* speed, move and zoom with a direction: arm the watchdog if the packet went out. *)
Move(a, fate) ==
    /\ active' = [active EXCEPT ![a] = @ \/ Sent(fate)]
    /\ deadline' = [deadline EXCEPT ![a] = IF Sent(fate) THEN timeout[a] ELSE @]
    /\ age' = [age EXCEPT ![a] = IF Sent(fate) THEN 0 ELSE @]
    /\ moving' = [moving EXCEPT ![a] = @ \/ fate = "taken"]
    /\ unstopped' = [unstopped EXCEPT ![a] = @ /\ fate # "taken"]

MoveCommand(a) ==
    /\ \E fate \in Fates : Move(a, fate)
    /\ UNCHANGED <<timeout, socket_open>>

(* The packets that end the motion of some axes.  Disarmed are the axes whose    *)
(* watchdog is off afterwards; the code gives some up on purpose.               *)
EndMotion(fate, disarmed, given_up) ==
    /\ moving' = [a \in Axes |-> moving[a] /\ ~(a \in DOMAIN fate /\ fate[a] = "taken")]
    /\ active' = [a \in Axes |-> active[a] /\ a \notin disarmed]
    /\ deadline' = [a \in Axes |-> IF a \in disarmed THEN 0 ELSE deadline[a]]
    /\ unstopped' = [a \in Axes |-> IF a \in given_up THEN fate[a] # "taken"
                                                     ELSE unstopped[a]]
    /\ UNCHANGED <<timeout, age>>

Accepted(fate) == {a \in DOMAIN fate : Sent(fate[a])}

(* Mutant: a stop whose first packet went out disarms both watchdogs.            *)
StopDisarmsAll(axes) ==
    /\ \E fate \in [axes -> Fates] :
          EndMotion(fate, IF Accepted(fate) = {} THEN {} ELSE axes, Accepted(fate))
    /\ UNCHANGED socket_open

(* stop (both axes), zoom_stop and a rate of zero (one): a refused packet leaves  *)
(* its watchdog armed, whatever became of the other packet.                     *)
StopCommand(axes) ==
    /\ \E fate \in [axes -> Fates] : EndMotion(fate, Accepted(fate), Accepted(fate))
    /\ UNCHANGED socket_open

(* zoom_absolute, set_zoom and zoom with a level disarm even if it was refused.   *)
AbsoluteZoomCommand ==
    /\ \E fate \in [{"zoom"} -> Fates] : EndMotion(fate, {"zoom"}, {"zoom"})
    /\ UNCHANGED socket_open

(* angle, center and down replace a rotation the camera carries out; they leave   *)
(* the watchdog armed, whose stop will come in the middle of the new movement.    *)
AimCommand ==
    /\ \E fate \in Fates :
          moving' = [moving EXCEPT !["rotation"] = @ /\ fate # "taken"]
    /\ UNCHANGED <<timeout, socket_open, active, deadline, age, unstopped>>

(* A period passes and the watchdog timer runs: it disarms what it stops even if  *)
(* the stop could not be sent.                                               *)
WatchdogTimer ==
    LET late == [a \in Axes |-> IF age[a] < Longest(a) THEN age[a] + 1 ELSE age[a]]
        due == {a \in Axes : active[a] /\ deadline[a] = 1}
    IN  /\ \E fate \in [due -> Fates] :
              /\ moving' = [a \in Axes |-> moving[a] /\ ~(a \in due /\ fate[a] = "taken")]
              /\ unstopped' = [a \in Axes |-> IF a \in due THEN fate[a] # "taken"
                                                          ELSE unstopped[a]]
        /\ active' = [a \in Axes |-> active[a] /\ a \notin due]
        /\ deadline' = [a \in Axes |-> IF deadline[a] = 0 THEN 0 ELSE deadline[a] - 1]
        /\ age' = late
        /\ UNCHANGED <<timeout, socket_open>>

(* shutdown: both stops are sent, for better or worse, and the socket closed.     *)
Shutdown ==
    /\ socket_open /\ socket_open' = FALSE
    /\ \E fate \in [Axes -> Fates] :
          /\ moving' = [a \in Axes |-> moving[a] /\ fate[a] # "taken"]
          /\ unstopped' = [a \in Axes |-> fate[a] # "taken"]
    /\ UNCHANGED <<timeout, active, deadline, age>>

ControlCallback ==
    \/ \E a \in Axes : MoveCommand(a)
    \/ \E axes \in SUBSET Axes \ {{}} : StopCommand(axes)
    \/ AbsoluteZoomCommand \/ AimCommand

GimbalNext ==
    \/ socket_open /\ (ControlCallback \/ WatchdogTimer)
    \/ Shutdown

GimbalSpec == GimbalInit /\ [][GimbalNext]_gimbalVars
-----------------------------------------------------------------------------
(* A rotation or a zoom the camera carries out was refreshed within its timeout:  *)
(* whatever commands came in between, sent or refused, the watchdog is there to    *)
(* end it, and no motion outlives the node.  Given up are only the motions whose   *)
(* last stop was lost on the way, or refused to the watchdog itself.              *)
MotionIsWatched ==
    \A a \in Axes : moving[a] /\ ~unstopped[a] =>
        /\ socket_open
        /\ timeout[a] > 0 => age[a] < timeout[a]
================================================================================
