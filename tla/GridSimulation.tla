--------------------------- MODULE GridSimulation --------------------------
(***************************************************************************)
(* The discrete-event back end for vehicles on a grid:                     *)
(* pcag/plugins/simulation/discrete_event.py, as operators.  Coordinates   *)
(* are in half cells, so that a position between two cells exists.         *)
(***************************************************************************)
EXTENDS SafetyRules

CONSTANTS
    Vehicle,    \* vehicle ids, the implicit one included
    Agv01,      \* the vehicle that position_x and target_x speak of
    XField,     \* XField[a], YField[a]: the names of agv_..x and agv_..y
    YField,
    MoveTo      \* the action type "move_to"

ASSUME GridAssumption == Agv01 \in Vehicle /\ IsFiniteSet(Vehicle)

Cell == 2

Field(source, f, default) == IF Has(source, f) THEN source[f] ELSE default

-----------------------------------------------------------------------------
\* _extract_agv_positions: configuration, agv_* entries of the snapshot, and
\* position_x for agv_01, the later over the earlier.
AgvPositions(grid, sensor) ==
    LET reported == {a \in Vehicle : Has(sensor, XField[a]) \/ Has(sensor, YField[a])}
        single   == IF Has(sensor, "position_x") THEN {Agv01} ELSE {}
    IN [a \in DOMAIN grid.agvs \cup reported \cup single |->
          CASE a \in single ->
                 <<sensor["position_x"], Field(sensor, "position_y", Num(0))>>
            [] a \in reported \ single ->
                 <<Field(sensor, XField[a], Num(0)), Field(sensor, YField[a], Num(0))>>
            [] OTHER -> <<Num(grid.agvs[a].pos[1]), Num(grid.agvs[a].pos[2])>>]

HasTarget(action) == Has(action.params, "target_x") /\ Has(action.params, "target_y")

\* The action that decides the route of a vehicle: the last one that gives
\* a path or a complete target; 0 when none does.
RoutingAction(a, actions) ==
    LET routing == {i \in DOMAIN actions : /\ actions[i].type = MoveTo
                                           /\ actions[i].agv = a
                                           /\ actions[i].path # <<>> \/ HasTarget(actions[i])}
    IN IF routing = {} THEN 0 ELSE Max(routing)

Steps(from, to) == (IF to > from THEN to - from ELSE from - to) \div Cell
Toward(from, to, k) == IF to > from THEN from + k * Cell ELSE from - k * Cell

\* _generate_simple_path: cell by cell along x, then along y.
GenerateSimplePath(start, target) ==
    LET dx == Steps(start[1], target[1])
        dy == Steps(start[2], target[2])
    IN [k \in 1..(dx + dy) |->
          IF k <= dx THEN <<Toward(start[1], target[1], k), start[2]>>
          ELSE <<target[1], Toward(start[2], target[2], k - dx)>>]

Whole(v) == v % Cell = 0

\* Mutant: the loop only ever steps forward.
Meets_Forward(from, to) ==
    IF to < from THEN {FALSE} ELSE IF from = to \/ (Whole(from) /\ Whole(to)) THEN {TRUE}
    ELSE IF Whole(to - from) THEN BOOLEAN ELSE {FALSE}

\* "while x != target_x" with steps of one: whether it may end, and whether it
\* may step past to and go on forever.  Whole cells are counted exactly.  A
\* fraction is rounded: 1.1 - 1 is not 0.1 and never becomes it, 1.5 - 1 is 0.5.
Meets(from, to) ==
    IF from = to \/ (Whole(from) /\ Whole(to)) THEN {TRUE}
    ELSE IF Whole(to - from) THEN BOOLEAN ELSE {FALSE}

Point(p) == <<p[1].v, p[2].v>>

Points(positions) == [a \in DOMAIN positions |-> Point(positions[a])]

Start(positions, a) == IF a \in DOMAIN positions THEN positions[a] ELSE <<Num(0), Num(0)>>
Target(action) == <<action.params["target_x"], action.params["target_y"]>>

\* The route of the action is computed, also if a later action overwrites it.
Generates(action) == action.type = MoveTo /\ action.path = <<>> /\ HasTarget(action)

\* _extract_agv_paths
AgvPaths(grid, positions, actions) ==
    [a \in Vehicle |->
        LET i == RoutingAction(a, actions)
        IN CASE i # 0 /\ actions[i].path # <<>> -> actions[i].path[1]
             [] i # 0 /\ actions[i].path = <<>> ->
                  GenerateSimplePath(Point(Start(positions, a)), Point(Target(actions[i])))
             [] i = 0 /\ a \in DOMAIN grid.agvs -> grid.agvs[a].path
             [] OTHER -> <<>>]

MaxSteps(paths) == Max({Len(paths[a]) : a \in Vehicle})

\* _positions_for_step
PositionsForStep(step, positions, paths) ==
    [a \in DOMAIN positions |->
        IF step = 0 \/ paths[a] = <<>> THEN positions[a]
        ELSE paths[a][Min({step, Len(paths[a])})]]

-----------------------------------------------------------------------------
(* _detect_step_violations: the kinds of violation in the move from the     *)
(* positions at to the positions next.                                      *)

TooClose(at, a, b, minDistance) ==
    (at[a][1] - at[b][1]) * (at[a][1] - at[b][1]) + (at[a][2] - at[b][2]) * (at[a][2] - at[b][2])
        < minDistance * minDistance

Swap(at, next, a, b) == at[a] # at[b] /\ next[a] = at[b] /\ next[b] = at[a]

\* The blocker of every vehicle that is about to enter an occupied cell; of
\* two vehicles in one cell the later in the dict is the occupant.
WaitFor(at, next, order) ==
    LET occupant(p) == CHOOSE b \in DOMAIN at :
                          at[b] = p /\ \A c \in DOMAIN at : at[c] = p => order[c] <= order[b]
        blocked == {a \in DOMAIN at : /\ next[a] # at[a]
                                      /\ \E b \in DOMAIN at : at[b] = next[a]
                                      /\ occupant(next[a]) # a}
    IN [a \in blocked |-> occupant(next[a])]

Blocker(wait, a) == IF a \in DOMAIN wait THEN wait[a] ELSE a

\* Mutant: the cycle is taken from the start of the walk.
CycleFrom_WholeWalk(wait, start) ==
    LET walk[n \in 0..Cardinality(Vehicle)] ==
            IF n = 0 THEN start ELSE Blocker(wait, walk[n - 1])
    IN {walk[n] : n \in 0..Cardinality(Vehicle)}

\* The walk along wait_for from start and the cycle it runs into, {} if it
\* ends at a vehicle that waits for nobody.
CycleFrom(wait, start) ==
    LET walk[n \in 0..Cardinality(Vehicle)] ==
            IF n = 0 THEN start ELSE Blocker(wait, walk[n - 1])
        again == {n \in 1..Cardinality(Vehicle) : \E m \in 0..(n - 1) : walk[m] = walk[n]}
        last  == Min(again)
        first == CHOOSE m \in 0..(last - 1) : walk[m] = walk[last]
    IN IF walk[last] \notin DOMAIN wait THEN {} ELSE {walk[n] : n \in first..(last - 1)}

\* _detect_deadlock_cycles: a cycle of two is a swap and is not repeated.
DeadlockCycles(at, next, order) ==
    LET wait == WaitFor(at, next, order)
    IN {c \in {CycleFrom(wait, a) : a \in DOMAIN wait} :
            /\ Cardinality(c) >= 2
            /\ ~(\E a, b \in c : c = {a, b} /\ Swap(at, next, a, b))}

OffGrid(grid, p) == p[1] < 0 \/ p[1] >= grid.width \/ p[2] < 0 \/ p[2] >= grid.height

\* Ranges of position_x and position_y, applied to every vehicle.
OutOfRange(rule, p) ==
    /\ rule.type = "range" /\ rule.min # <<>> /\ rule.max # <<>>
    /\ \E i \in {1, 2} : /\ rule.field = <<"position_x", "position_y">>[i]
                         /\ p[i] < rule.min[1] \/ p[i] > rule.max[1]

\* Mutant: vehicles may exchange their cells.
DetectStepViolations_NoSwap(grid, at, next, ruleset) ==
    UNION {
        IF \E a, b \in DOMAIN at : a # b /\ TooClose(at, a, b, grid.minDistance)
            THEN {"min_distance"} ELSE {},
        IF DeadlockCycles(at, next, grid.order) # {} THEN {"deadlock_cycle"} ELSE {},
        IF \E a \in DOMAIN at : at[a] \in grid.obstacles THEN {"obstacle_collision"} ELSE {},
        IF \E a \in DOMAIN at : OffGrid(grid, at[a]) THEN {"grid_boundary"} ELSE {},
        IF \E a \in DOMAIN at, i \in DOMAIN ruleset : OutOfRange(ruleset[i], at[a])
            THEN {"rule"} ELSE {}}

DetectStepViolations(grid, at, next, ruleset) ==
    UNION {
        IF \E a, b \in DOMAIN at : a # b /\ TooClose(at, a, b, grid.minDistance)
            THEN {"min_distance"} ELSE {},
        IF \E a, b \in DOMAIN at : Swap(at, next, a, b) THEN {"edge_swap_conflict"} ELSE {},
        IF DeadlockCycles(at, next, grid.order) # {} THEN {"deadlock_cycle"} ELSE {},
        IF \E a \in DOMAIN at : at[a] \in grid.obstacles THEN {"obstacle_collision"} ELSE {},
        IF \E a \in DOMAIN at : OffGrid(grid, at[a]) THEN {"grid_boundary"} ELSE {},
        IF \E a \in DOMAIN at, i \in DOMAIN ruleset : OutOfRange(ruleset[i], at[a])
            THEN {"rule"} ELSE {}}
=============================================================================
