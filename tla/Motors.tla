------------------------------- MODULE Motors -------------------------------
(***************************************************************************)
(* The motor driver (motors.c): one program calls it, and the tachymeter   *)
(* interrupt counts edges and stops a motor that has turned far or long    *)
(* enough.  The interrupt can come between any two stores of a call; the   *)
(* tick, which can interrupt both, only moves time here.                   *)
(*                                                                         *)
(* A motor's count and target are kept as their difference `togo`, in      *)
(* edges or in milliseconds, and only while it is used.  A call takes      *)
(* microseconds and a motor gives at most an edge in a millisecond, so     *)
(* while a call is under way there is at most one interrupt from each      *)
(* motor and one tick; that edge may still be of the old direction.        *)
(***************************************************************************)
EXTENDS AvrCommand, Functions

CONSTANTS
  Asked,      \* the speeds a program asks nx_motors_rotate for
  Angles,     \* the angles it asks for, in edges
  Times,      \* the times it asks for, in milliseconds
  Brakes      \* the brake settings it asks for at the end of a rotation

ASSUME MotorsAssumption ==
  /\ Asked \subseteq -128 .. 127
  /\ Angles \subseteq Nat /\ Times \subseteq Nat /\ Brakes \subseteq BOOLEAN

VARIABLES
  motors_state,   \* of each motor: mode, brake, togo and its unit
  call,           \* the call under way: its steps to come and its arguments
  moved,          \* the motors that gave an edge during the call, and the tick
  asked           \* the motors last stopped with the brake asked for: what
                  \* BrakesWhenAsked compares with, no part of the code

motorVars == <<motors_state, call, moved, asked, to_avr>>

Modes == {"MOTOR_STOP", "MOTOR_CONFIGURING", "MOTOR_ON_CONTINUOUS",
          "MOTOR_ON_ANGLE", "MOTOR_ON_TIME"}
NoCall == [steps |-> <<>>, motor |-> 0, speed |-> 0, togo |-> 0, brake |-> FALSE,
           end |-> FALSE, loaded |-> {}]
Still == [edges |-> {}, tick |-> FALSE]

Capped(speed) == IF speed > 100 THEN 100 ELSE IF speed < -100 THEN -100 ELSE speed

-----------------------------------------------------------------------------
(* The calls, as the stores they make in their order *)

SetMotorSteps == <<"speed", "load", "store">>
StopSteps == <<"MOTOR_STOP">> \o SetMotorSteps
RotateSteps == <<"MOTOR_ON_CONTINUOUS">> \o SetMotorSteps
\* The goal is armed before its target is set.
GoalStepsArmed(mode) ==
  <<"MOTOR_CONFIGURING", mode, "target", "brake">> \o SetMotorSteps
GoalSteps(mode) == <<"MOTOR_CONFIGURING", "target", "brake", mode>> \o SetMotorSteps

Called(steps, m, speed, togo, brake, end) ==
  /\ call.steps = <<>>
  /\ call' = [steps |-> steps, motor |-> m, speed |-> speed, togo |-> togo,
              brake |-> brake, end |-> end, loaded |-> {}]
  /\ moved' = Still
  /\ asked' = IF brake THEN asked \union {m} ELSE asked \ {m}
  /\ UNCHANGED <<motors_state, to_avr>>

Stop(m, brake) == Called(StopSteps, m, 0, 0, brake, FALSE)

Rotate(m, speed) == Called(RotateSteps, m, Capped(speed), 0, FALSE, FALSE)

\* A goal for a motor that does not turn.
GoalStandingStill(mode, m, speed, togo, brake) ==
  Called(GoalSteps(mode), m, speed, togo, FALSE, brake)

\* Without speed the goal is never reached: nx_motors_stop is called instead.
Goal(mode, m, speed, togo, brake) ==
  IF speed = 0 THEN Stop(m, brake)
  ELSE Called(GoalSteps(mode), m, speed, togo, FALSE, brake)

\* The target is ahead whatever the direction.
RotateAngleForward(m, speed, angle, brake) ==
  Goal("MOTOR_ON_ANGLE", m, speed, angle, brake)

RotateAngle(m, speed, angle, brake) ==
  Goal("MOTOR_ON_ANGLE", m, speed, IF speed < 0 THEN -angle ELSE angle, brake)

RotateTime(m, speed, ms, brake) == Goal("MOTOR_ON_TIME", m, speed, ms, brake)

Call ==
  \E m \in MotorPorts :
    \/ \E brake \in Brakes : Stop(m, brake)
    \/ \E s \in Asked : Rotate(m, s)
    \/ \E s \in Speeds, a \in Angles, brake \in Brakes : RotateAngle(m, s, a, brake)
    \/ \E s \in Speeds, t \in Times, brake \in Brakes : RotateTime(m, s, t, brake)

-----------------------------------------------------------------------------
(* The next store of the call *)

InMode(state, mode) ==
  IF mode \in {"MOTOR_STOP", "MOTOR_CONFIGURING", "MOTOR_ON_CONTINUOUS"}
  THEN [state EXCEPT !.mode = mode, !.togo = 0, !.unit = "none"]
  ELSE [state EXCEPT !.mode = mode]

Step ==
  /\ call.steps # <<>>
  /\ LET m == call.motor
         step == Head(call.steps)
         done == IF Len(call.steps) = 1 THEN NoCall ELSE [call EXCEPT !.steps = Tail(@)] IN
     \/ /\ step \in Modes
        /\ motors_state' = [motors_state EXCEPT ![m] = InMode(@, step)]
        /\ call' = done
        /\ UNCHANGED to_avr
     \/ /\ step = "target"
        /\ motors_state' = [motors_state EXCEPT ![m].togo = call.togo,
                              ![m].unit = IF "MOTOR_ON_TIME" \in Range(call.steps)
                                          THEN "ms" ELSE "edges"]
        /\ call' = done
        /\ UNCHANGED to_avr
     \/ /\ step = "brake"
        /\ motors_state' = [motors_state EXCEPT ![m].brake = call.end]
        /\ call' = done
        /\ UNCHANGED to_avr
     \/ /\ step = "speed"
        /\ SetSpeed(m, call.speed)
        /\ call' = done
        /\ UNCHANGED motors_state
     \/ /\ step = "load"
        /\ call' = [done EXCEPT !.loaded = to_avr.brake]
        /\ UNCHANGED <<motors_state, to_avr>>
     \/ /\ step = "store"
        /\ StoreBrake(WithBrake(call.loaded, m, call.brake))
        /\ call' = done
        /\ UNCHANGED motors_state
  /\ moved' = IF Len(call.steps) = 1 THEN Still ELSE moved
  /\ UNCHANGED asked

-----------------------------------------------------------------------------
(* The tachymeter interrupt *)

\* One edge brings a motor that turns in direction d one nearer to its target.
Counted(state, d) ==
  IF state.unit = "edges" THEN [state EXCEPT !.togo = @ - d] ELSE state

\* The interrupt looks at angles only.
ReachedAngle(state) == state.mode = "MOTOR_ON_ANGLE" /\ state.togo = 0

Reached(state) ==
  \/ state.mode = "MOTOR_ON_ANGLE" /\ state.togo = 0
  \/ state.mode = "MOTOR_ON_TIME" /\ state.togo <= 0

Directions(m) ==
  IF call.steps # <<>> /\ call.motor = m THEN {-1, 1}
  ELSE IF to_avr.speed[m] < 0 THEN {-1} ELSE {1}

\* motors_isr for the motors S whose tachymeter changed: those that have
\* reached their goal are stopped, as nx_motors_stop does.
Edges(S, dir) ==
  LET counted == [m \in MotorPorts |->
                    IF m \in S THEN Counted(motors_state[m], dir[m]) ELSE motors_state[m]]
      reached == {m \in S : Reached(counted[m])} IN
  /\ S \intersect moved.edges = {}
  /\ motors_state' = [m \in MotorPorts |->
       IF m \in reached THEN InMode(counted[m], "MOTOR_STOP") ELSE counted[m]]
  /\ to_avr' = [to_avr EXCEPT
       !.speed = [m \in MotorPorts |-> IF m \in reached THEN 0 ELSE @[m]],
       !.brake = (@ \ reached) \union {m \in reached : motors_state[m].brake}]
  /\ asked' = (asked \ reached) \union {m \in reached : motors_state[m].brake}
  /\ moved' = IF call.steps = <<>> THEN Still ELSE [moved EXCEPT !.edges = @ \union S]
  /\ UNCHANGED call

Isr ==
  \E S \in SUBSET MotorPorts : \E dir \in [S -> {-1, 1}] :
    /\ \A m \in S : dir[m] \in Directions(m)
    /\ Edges(S, dir)

\* A millisecond passes: the time that is left shrinks, and stays at zero.
Tick ==
  /\ ~moved.tick
  /\ motors_state' = [m \in MotorPorts |->
       IF motors_state[m].unit = "ms" /\ motors_state[m].togo > 0
       THEN [motors_state[m] EXCEPT !.togo = @ - 1] ELSE motors_state[m]]
  /\ moved' = IF call.steps = <<>> THEN Still ELSE [moved EXCEPT !.tick = TRUE]
  /\ UNCHANGED <<call, asked, to_avr>>

Init ==
  /\ motors_state = [m \in MotorPorts |->
       [mode |-> "MOTOR_STOP", brake |-> TRUE, togo |-> 0, unit |-> "none"]]
  /\ call = NoCall
  /\ moved = Still
  /\ asked = {}
  /\ to_avr = IdleCommand

Next == Call \/ Step \/ Isr \/ Tick

-----------------------------------------------------------------------------
(* Properties *)

TypeOK ==
  /\ to_avr \in Command
  /\ \A m \in MotorPorts :
       /\ motors_state[m].mode \in Modes
       /\ motors_state[m].unit \in {"none", "edges", "ms"}
       /\ motors_state[m].mode = "MOTOR_ON_ANGLE" => motors_state[m].unit = "edges"
       /\ motors_state[m].mode = "MOTOR_ON_TIME" => motors_state[m].unit = "ms"

Busy(m) == call.steps # <<>> /\ call.motor = m

(* A motor in MOTOR_STOP that no call is changing has no speed, and one that  *)
(* turns to a goal has one: the interrupt's stop and the call's start, each   *)
(* of several stores, never leave a motor running that nobody will stop.      *)
NoRunaway ==
  \A m \in MotorPorts : ~Busy(m) =>
    /\ motors_state[m].mode = "MOTOR_STOP" => to_avr.speed[m] = 0
    /\ motors_state[m].mode \in {"MOTOR_ON_ANGLE", "MOTOR_ON_TIME"} => to_avr.speed[m] # 0

(* The target count of a motor lies ahead of it in the direction it turns:    *)
(* the interrupt tests for equality, and a target once passed is never met.   *)
TargetAhead ==
  \A m \in MotorPorts : ~Busy(m) /\ motors_state[m].mode = "MOTOR_ON_ANGLE" =>
    motors_state[m].togo * to_avr.speed[m] > 0

(* Whatever runs will be stopped by the interrupt, or was asked to run on.    *)
RunsAsAsked == TypeOK /\ NoRunaway /\ TargetAhead

(* A motor given an angle or a time stops or is given something else, as long *)
(* as it turns and time passes.                                               *)
GoalEnds ==
  \A m \in MotorPorts :
    [](motors_state[m].mode \in {"MOTOR_ON_ANGLE", "MOTOR_ON_TIME"} =>
       <>(motors_state[m].mode \notin {"MOTOR_ON_ANGLE", "MOTOR_ON_TIME"}))

(* A motor that has stopped brakes if that was asked for, and coasts if not.  *)
BrakesWhenAsked ==
  call = NoCall =>
    \A m \in MotorPorts : motors_state[m].mode = "MOTOR_STOP" =>
      (m \in to_avr.brake <=> m \in asked)

\* An edge of a motor with a speed that counts for its goal.
Turn(m) ==
  /\ to_avr.speed[m] # 0
  /\ \E d \in Directions(m) : Edges({m}, [i \in {m} |-> d])
  /\ motors_state'[m] # motors_state[m]

\* A motor with a speed turns, and time passes, whatever the program does.
Fairness ==
  /\ WF_motorVars(Step) /\ SF_motorVars(Tick)
  /\ \A m \in MotorPorts : SF_motorVars(Turn(m))

Spec == Init /\ [][Next]_motorVars /\ Fairness
=============================================================================
