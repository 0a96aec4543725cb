------------------------------- MODULE Controllers -------------------------------
(***************************************************************************)
(* The four controller packages, one of which a drone runs: the flight state  *)
(* machine was copied from package to package and changed in each, and what   *)
(* makes it safe must hold in every copy.                                    *)
(***************************************************************************)
EXTENDS FlightControl

VARIABLE package      \* the installed package, fixed for ever: no_tf_yaw, no_tf, tf, decenter

NoTf == INSTANCE OlderControl
Tf   == INSTANCE TfControl
Dec  == INSTANCE DecentralizedControl

DroneInit ==
    \/ package = "no_tf_yaw" /\ Init
    \/ package = "no_tf" /\ NoTf!OlderInit
    \/ package = "tf" /\ Tf!TfInit
    \/ package = "decenter" /\ Dec!DroneInit

DroneNext ==
    /\ \/ package = "no_tf_yaw" /\ Next
       \/ package = "no_tf" /\ NoTf!OlderNext
       \/ package = "tf" /\ Tf!TfNext
       \/ package = "decenter" /\ Dec!DroneNext
    /\ UNCHANGED package

DroneSpec == DroneInit /\ [][DroneNext]_<<vars, package>>
-----------------------------------------------------------------------------
(* The automatic return has the drone to itself, led (no_tf_yaw) or alone        *)
(* (decenter); the older packages never start one.                              *)
ReturnHasDrone ==
    /\ package = "no_tf_yaw" => VisionReturnAlone
    /\ package = "decenter" => Dec!ReturnAlone
    /\ package \in {"no_tf", "tf"} => ~vision_return_land_active
=============================================================================
