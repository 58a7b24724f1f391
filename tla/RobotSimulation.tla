-------------------------- MODULE RobotSimulation --------------------------
(***************************************************************************)
(* What the Isaac worker decides about a plan of a robot arm               *)
(* (_validate_trajectory of pcag/apps/safety_cluster/isaac_worker.py and   *)
(* pcag/plugins/simulation/isaac_collision.py).  The physics is open: a    *)
(* move may end beside its target, the pose of the end effector and the    *)
(* efforts may be anything, or unknown.                                    *)
(*                                                                         *)
(* Joint angles are tenths of a radian; space has one axis.                *)
(***************************************************************************)
EXTENDS SafetyRules

CONSTANTS
    MoveJoint,   \* the action type the worker simulates
    JointOf      \* field -> joint, by the number after "joint_" in its name

\* Other actions, and moves without target_positions, are passed over.
IsMove(action) == action.type = MoveJoint /\ action.targets # <<>>

\* A short target is padded with zeros, a long one cut.
Goal(robot, action) ==
    [j \in 1..robot.joints |->
        IF j <= Len(action.targets[1]) THEN action.targets[1][j] ELSE 0]

\* _check_constraints: the joint limits, then the range rules about joints.
OutOfLimits(robot, ruleset, at) ==
    \/ \E j \in DOMAIN robot.limits \cap DOMAIN at :
          at[j] < robot.limits[j][1] \/ at[j] > robot.limits[j][2]
    \/ \E i \in DOMAIN ruleset :
          LET rule == ruleset[i]
              x    == at[JointOf[rule.field]]
          IN /\ rule.type = "range" /\ Has(JointOf, rule.field)
             /\ JointOf[rule.field] \in DOMAIN at
             /\ \/ rule.min # <<>> /\ x < rule.min[1]
                \/ rule.max # <<>> /\ x > rule.max[1]

\* evaluate_collision_probe: a sphere around the end effector against boxes;
\* a fixture without geometry is passed over.
Touches(robot, pose) ==
    \E box \in robot.fixtures :
        /\ box # <<>>
        /\ Max({box[1] - pose[1], pose[1] - box[2], 0}) <= robot.radius

\* What the simulator may show of one move; the pose <<>> is unknown.
Observations(robot, goal) ==
    [reached : {[goal EXCEPT ![j] = @ + d] : j \in 1..robot.joints, d \in 0..2},
     during  : {s \in SUBSET robot.poses : Cardinality(s) \in 1..2},
     after   : robot.poses,
     effort  : {"within", "over", "unknown"}]

Check(name, fails, always) == [name |-> name, fails |-> fails, always |-> always]

\* The checks of one move, in the order of the code.  An unknown pose fails the
\* collision probe and passes the workspace check.
Checks(robot, ruleset, goal, o) ==
    <<Check("joint_target", OutOfLimits(robot, ruleset, goal), FALSE),
      Check("probe_unavailable", robot.collision /\ <<>> \in o.during, TRUE),
      Check("fixture_collision",
            robot.collision /\ \E p \in o.during \ {<<>>} : Touches(robot, p), TRUE),
      Check("torque", robot.torque /\ o.effort = "over", FALSE),
      Check("workspace", /\ robot.workspace # <<>> /\ o.after # <<>>
                         /\ \/ o.after[1] < robot.workspace[1]
                            \/ o.after[1] > robot.workspace[2], FALSE),
      Check("joint_reached", OutOfLimits(robot, ruleset, o.reached), FALSE),
      Check("divergence",
            \E j \in 1..Min({robot.arm, robot.joints}) : o.reached[j] - goal[j] \notin -1..1, FALSE)>>

\* All checks but the two of the probe are recorded only while
\* first_violation_step is None: the first that fails, if nothing was recorded.
Recorded(first, names, checks) ==
    LET fails == {i \in DOMAIN checks : checks[i].fails}
        kept  == {i \in fails : checks[i].always \/ (~first /\ \A k \in fails : i <= k)}
    IN [first |-> first \/ fails # {}, names |-> names \cup {checks[i].name : i \in kept}]
=============================================================================
