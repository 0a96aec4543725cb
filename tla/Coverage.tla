--------------------------------- MODULE Coverage ---------------------------------
(***************************************************************************)
(* "online_mission" at the leader (online_waypoint_generator.py): plan a sweep of a    *)
(* rectangle by a formation in line abreast, which goes up and down the field in        *)
(* parallel passes joined by half circles, and hand the leader's path to             *)
(* start_mission (FlightControl's MissionCommand).                                *)
(*                                                                         *)
(* The code computes with floats; here a plan of n passes counts lengths in units of     *)
(* 1/Scale(n), in which everything but the arcs is whole.  The lengths of paths, which   *)
(* involve pi, are left out: which candidate is the shortest, and which ones exceed      *)
(* max_path_length, is any.  Of the waypoints their number is kept; their yaws, which    *)
(* alternate, their checkpoints and altitude are not modelled.                       *)
(***************************************************************************)
EXTENDS Integers, Sequences, FiniteSets, FiniteSetsExt, SequencesExt

CONSTANTS
    FieldSizes,         \* the values of Lx and Ly an operator chooses from
    FleetSizes,         \* of num_quads
    Distances,          \* of d, min_turn_radius and coverage_spacing
    WaypointSpacing,    \* ds_waypoint
    TurnWaypoints,      \* turn_waypoints
    WaypointLimit       \* max_mission_waypoints

ASSUME CoverageAssumption ==
    /\ FieldSizes \cup FleetSizes \cup Distances \subseteq Nat \ {0}
    /\ WaypointSpacing \in Nat \ {0} /\ TurnWaypoints \in Nat \ {0}
    /\ WaypointLimit \in Nat

(* Config.  What validate_config refuses is not among them.                         *)
Configs ==
    [Lx : FieldSizes, Ly : FieldSizes, num_quads : FleetSizes, d : Distances,
     min_turn_radius : Distances, coverage_spacing : Distances]

VARIABLES
    outcome,       \* what became of the command
    config,        \* its parameters, as a set with at most one member
    n_passes,      \* the passes of the plan
    quad_paths     \* the path of every drone, in its scale; empty if it has none

coverageVars == <<outcome, config, n_passes, quad_paths>>

CoverageTypeOK ==
    /\ outcome \in {"none", "refused", "planned", "frame_error", "crashed"}
    /\ config \subseteq Configs /\ Cardinality(config) <= 1
    /\ n_passes \in Nat /\ \A c \in config : n_passes <= c.Ly + 1
    /\ outcome \in {"planned", "crashed"} =>
          \A c \in config : DOMAIN quad_paths = 1..c.num_quads

CoverageInit ==
    outcome = "none" /\ config = {} /\ n_passes = 0 /\ quad_paths = <<>>
-----------------------------------------------------------------------------
Larger(a, b) == IF a > b THEN a ELSE b
CeilDiv(a, b) == (a + b - 1) \div b

Scale(n) == 2 * (n - 1)

(* Twice max_offset; usable_y_span.                                               *)
Width(c) == (c.num_quads - 1) * c.d
UsableSpan(c) == c.Ly - Width(c)

(* build_offsets, for a plan of n passes: the leader has the first.                    *)
OffsetOf(c, n, quad) == (quad - 1) * c.d * Scale(n) - Width(c) * (n - 1)

(* row_spacing is two of these; so is max_offset one half of Width.                     *)
TurnRadius(c) == UsableSpan(c)
MaxOffset(c, n) == Width(c) * (n - 1)
Margin(c, n) == TurnRadius(c) + MaxOffset(c, n)
-----------------------------------------------------------------------------
Line(right, from, to, y) ==
    [kind |-> "line", right |-> right, from |-> from, to |-> to, y |-> y]
Arc(right, x, y, radius) ==
    [kind |-> "arc", right |-> right, x |-> x, y |-> y, radius |-> radius]

GoesRight(pass) == pass % 2 = 1
RowY(c, n, pass) == c.Ly * Scale(n) - MaxOffset(c, n) - 2 * pass * TurnRadius(c)

(* A pass leaves room for the turns, except where the path starts and where it ends.     *)
PassEnd(c, n, right) ==
    IF right THEN c.Lx * Scale(n) - Margin(c, n) ELSE Margin(c, n)
FieldEnd(c, n, right) == IF right THEN c.Lx * Scale(n) ELSE 0

SpineLine(c, n, pass) ==
    LET right == GoesRight(pass)
    IN  Line(right,
             IF pass = 0 THEN FieldEnd(c, n, ~right) ELSE PassEnd(c, n, ~right),
             IF pass = n - 1 THEN FieldEnd(c, n, right) ELSE PassEnd(c, n, right),
             RowY(c, n, pass))

SpineArc(c, n, pass) ==
    Arc(GoesRight(pass), PassEnd(c, n, GoesRight(pass)), RowY(c, n, pass) - TurnRadius(c),
        TurnRadius(c))

(* build_spine: passes from the top of the field, the first to the left.                 *)
BuildSpine(c, n) ==
    [i \in 1..(2 * n - 1) |->
        IF i % 2 = 1 THEN SpineLine(c, n, i \div 2) ELSE SpineArc(c, n, i \div 2 - 1)]

(* Mutant: the offset does not change sides with the direction.                         *)
ShiftedUp(segment, offset) ==
    IF segment.kind = "line" THEN [segment EXCEPT !.y = @ + offset]
    ELSE [segment EXCEPT !.radius = @ + offset]

(* The segment at some distance to the left of it.                                    *)
Shifted(segment, offset) ==
    LET shift == IF segment.right THEN offset ELSE -offset
    IN  IF segment.kind = "line" THEN [segment EXCEPT !.y = @ + shift]
        ELSE [segment EXCEPT !.radius = @ + shift]

StartOf(segment) ==
    IF segment.kind = "line" THEN <<segment.from, segment.y>>
                             ELSE <<segment.x, segment.y + segment.radius>>
EndOf(segment) ==
    IF segment.kind = "line" THEN <<segment.to, segment.y>>
                             ELSE <<segment.x, segment.y - segment.radius>>

(* offset_path: none, here empty, if a turn would have no radius left.                   *)
OffsetPath(spine, offset) ==
    LET path == [i \in DOMAIN spine |-> Shifted(spine[i], offset)]
    IN  IF \E i \in DOMAIN path : path[i].kind = "arc" /\ path[i].radius <= 0
        THEN <<>> ELSE path
-----------------------------------------------------------------------------
(* n_pass_min: enough passes to leave no gap between them.                             *)
MinPasses(c) ==
    Larger(2, CeilDiv(UsableSpan(c), Width(c) + c.coverage_spacing) + 1)

(* n_pass_max: a turn has required_radius, which is at least max_offset.                *)
MaxPasses(c) == UsableSpan(c) \div Larger(2 * c.min_turn_radius, Width(c)) + 1

(* max_coverage_gap: between two drones and between two passes.                        *)
MaxCoverageGap(c, n) ==
    Larger(IF c.num_quads = 1 THEN 0 ELSE c.d * Scale(n),
           2 * TurnRadius(c) - 2 * MaxOffset(c, n))

(* The numbers of passes plan collects in its loop: wide enough turns, two margins fit    *)
(* into the field, the leader has a path, no gap is too wide.                         *)
Candidates(c) ==
    {n \in MinPasses(c)..MaxPasses(c) :
        /\ TurnRadius(c) >= Larger(c.min_turn_radius * Scale(n), MaxOffset(c, n))
        /\ c.Lx * Scale(n) > 2 * Margin(c, n)
        /\ OffsetPath(BuildSpine(c, n), OffsetOf(c, n, 1)) # <<>>
        /\ MaxCoverageGap(c, n) <= c.coverage_spacing * Scale(n)}

(* The refusals of plan before its loop.                                             *)
Feasible(c) ==
    /\ c.num_quads = 1 \/ c.d <= c.coverage_spacing
    /\ UsableSpan(c) > 0

(* path_to_flight_waypoints: how many.                                            *)
WaypointsOf(n, segment) ==
    IF segment.kind = "arc" THEN TurnWaypoints
    ELSE CeilDiv(Larger(segment.to - segment.from, segment.from - segment.to),
                 WaypointSpacing * Scale(n))

WaypointCount(n, path) ==
    1 + FoldLeft(LAMBDA sum, segment : sum + WaypointsOf(n, segment), 0, path)

(* plan and start_mission raise ValueError, which the command's handler reports.         *)
Refuse(c) ==
    /\ outcome' = "refused"
    /\ config' = {c} /\ UNCHANGED <<n_passes, quad_paths>>

(* The drones' first waypoints, in the frame of the waypoints: turned by half a circle,   *)
(* the leader starts at the origin and the others beside it.                          *)
Misplaced(c, n, paths) ==
    \E quad \in DOMAIN paths :
        /\ paths[quad] # <<>>
        /\ StartOf(paths[quad][1]) # <<c.Lx * Scale(n), (c.Ly - (quad - 1) * c.d) * Scale(n)>>

(* plan with its candidate n.  It checks each drone's first waypoint; a drone without a    *)
(* path has none, and looking at it raises IndexError, which nobody catches: the leader's  *)
(* node ends.                                                                  *)
Plan(c, n) ==
    LET paths == [quad \in 1..c.num_quads |-> OffsetPath(BuildSpine(c, n), OffsetOf(c, n, quad))]
    IN  /\ config' = {c} /\ n_passes' = n /\ quad_paths' = paths
        /\ outcome' = IF Misplaced(c, n, paths) THEN "frame_error"
                      ELSE IF <<>> \in Range(paths) THEN "crashed"
                      ELSE IF WaypointCount(n, paths[1]) > WaypointLimit THEN "refused"
                      ELSE "planned"

(* The command.  A candidate may be too long, so each of them may be the best one, and    *)
(* the command may be refused though there are some.  Planning keeps no state, so one     *)
(* command stands for all.                                                       *)
OnlineMission(c) ==
    \/ Refuse(c)
    \/ Feasible(c) /\ \E n \in Candidates(c) : Plan(c, n)

CoverageNext == outcome = "none" /\ \E c \in Configs : OnlineMission(c)
CoverageSpec == CoverageInit /\ [][CoverageNext]_coverageVars
-----------------------------------------------------------------------------
(* The points that reach furthest: of an arc, its sides and its outermost point.         *)
Extremes(segment) ==
    {StartOf(segment), EndOf(segment)} \cup
        IF segment.kind = "line" THEN {}
        ELSE {<<segment.x + (IF segment.right THEN segment.radius ELSE -segment.radius),
                segment.y>>}

Joined(path) == \A i \in 1..(Len(path) - 1) : EndOf(path[i]) = StartOf(path[i + 1])

InField(c, path) ==
    \A i \in DOMAIN path : \A point \in Extremes(path[i]) :
        /\ point[1] \in 0..(c.Lx * Scale(n_passes))
        /\ point[2] \in 0..(c.Ly * Scale(n_passes))

(* The heights at which some drone crosses the field.                                 *)
Tracks ==
    UNION {{quad_paths[quad][i].y : i \in {j \in DOMAIN quad_paths[quad] :
                                              quad_paths[quad][j].kind = "line"}} :
              quad \in DOMAIN quad_paths}

(* No strip of the field wider than coverage_spacing is left between two tracks, nor any  *)
(* at its edges.                                                                *)
NoGap(c) ==
    /\ {0, c.Ly * Scale(n_passes)} \subseteq Tracks
    /\ \A y \in Tracks \ {c.Ly * Scale(n_passes)} :
          \E next \in Tracks : next > y /\ next - y <= c.coverage_spacing * Scale(n_passes)

(* The drones stay abreast, d apart, in each pass.                                    *)
Abreast(c) ==
    \A quad \in 1..(c.num_quads - 1), i \in 1..(2 * n_passes - 1) :
        i % 2 = 1 => LET apart == quad_paths[quad + 1][i].y - quad_paths[quad][i].y
                     IN  apart \in {c.d * Scale(n_passes), -c.d * Scale(n_passes)}

(* Planning ends the node for two passes only, and a turn as tight as the formation is     *)
(* wide, about one of its own drones.                                              *)
EndsTightOnly ==
    \A c \in config :
        outcome = "crashed" => n_passes = 2 /\ TurnRadius(c) = MaxOffset(c, n_passes)

(* A plan that is handed over sweeps the whole field, by paths of one piece inside it on    *)
(* which the formation keeps its distances; plan's own checks of the frame never fail; and  *)
(* a plan ends the node in one case only.                                            *)
SweepIsFlyable ==
    /\ outcome # "frame_error" /\ EndsTightOnly
    /\ outcome = "planned" =>
          \A c \in config :
              /\ \A quad \in DOMAIN quad_paths :
                    Joined(quad_paths[quad]) /\ InField(c, quad_paths[quad])
              /\ NoGap(c) /\ Abreast(c)
================================================================================
