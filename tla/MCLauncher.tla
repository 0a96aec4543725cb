------------------------------- MODULE MCLauncher -------------------------------
(* The bounds of the launcher's runs.                                         *)
EXTENDS Launcher

(* Two of the three components: one to start first, one to stop first; and the   *)
(* one whose probe differs.                                                    *)
ShortOrder == <<"agent", "vision">>

(* All of them, the one whose probe differs alone, or none to connect only.     *)
ShortLists == {ShortOrder, <<"vision">>, <<>>}

(* One thing is left out of a behaviour: the stop buttons, the closing, or every  *)
(* process but one of the last component.                                     *)
VARIABLE left_out

MCInit == Init /\ left_out \in {"stops", "closing", "processes"}

MCNext ==
    /\ Next /\ UNCHANGED left_out
    /\ left_out = "stops" => \A t \in Stoppers : stopper'[t] = "idle"
    /\ left_out = "closing" => gui' = "open"
    /\ left_out = "processes" => \A s \in Starters : Len(todo'[s]) <= 1
    /\ left_out = "processes" /\ started = 1 =>
          \A s \in Starters : starter[s] = "exec" => lock' # s

MCSpec == MCInit /\ [][MCNext]_<<vars, left_out>> /\ Fairness
=============================================================================
