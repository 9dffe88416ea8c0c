----------------------------- MODULE RcmdProofs -----------------------------
(***************************************************************************)
(* Theorems about the motor driver and the command files that drive it:    *)
(* what runs will be stopped or was asked to run on, whatever the program  *)
(* or the file asks for, and the interpreter does what the line says.      *)
(***************************************************************************)
EXTENDS Rcmd, SequenceTheorems, TLAPS

---------------------------------------------------------------------------
(* The inductive invariant of the driver *)

Goals == {"MOTOR_ON_ANGLE", "MOTOR_ON_TIME"}
Units == {"none", "edges", "ms"}
MotorState == [mode : Modes, brake : BOOLEAN, togo : Int, unit : Units]

Unit(mode) == IF mode = "MOTOR_ON_TIME" THEN "ms" ELSE "edges"

\* To go and speed have the same sign.
Ahead(togo, speed) == (togo > 0 /\ speed > 0) \/ (togo < 0 /\ speed < 0)

\* What a call to a goal needs: the one edge or the one tick that can come
\* before it is over must not bring it there.
GoalAsked(mode, speed, togo) ==
    /\ speed \in Speeds /\ togo \in Int /\ speed # 0
    /\ mode = "MOTOR_ON_ANGLE" => Ahead(togo, speed) /\ (togo > 1 \/ togo < -1)
    /\ mode = "MOTOR_ON_TIME" => togo > 1

MotorsTyped ==
    /\ to_avr \in Command
    /\ motors_state \in [MotorPorts -> MotorState]
    /\ moved \in [edges : SUBSET MotorPorts, tick : BOOLEAN]
    /\ asked \subseteq MotorPorts

Stores == Modes \cup {"target", "brake", "speed", "load", "store"}

Calls == [steps : Seq(Stores), motor : MotorPorts, speed : Speeds, togo : Int,
          brake : BOOLEAN, end : BOOLEAN, loaded : SUBSET MotorPorts]

\* A motor no call is changing.
Settled(s, speed) ==
    /\ s.mode = "MOTOR_STOP" => speed = 0
    /\ s.mode \in Goals => s.unit = Unit(s.mode) /\ speed # 0
    /\ s.mode = "MOTOR_ON_ANGLE" => Ahead(s.togo, speed)

\* What is to go differs from what was asked for by the edge or the tick
\* that came during the call.
Armed(mode) ==
    LET s == motors_state[call.motor] IN
    /\ GoalAsked(mode, call.speed, call.togo)
    /\ s.unit = Unit(mode)
    /\ mode = "MOTOR_ON_ANGLE" =>
           \/ s.togo = call.togo
           \/ /\ call.motor \in moved.edges
              /\ s.togo \in {call.togo - 1, call.togo + 1}
    /\ mode = "MOTOR_ON_TIME" =>
           s.togo = call.togo \/ (moved.tick /\ s.togo = call.togo - 1)

\* The mode is set and the speed to come, or the speed is set too.
Set ==
    LET mode == motors_state[call.motor].mode IN
    \/ mode = "MOTOR_STOP" /\ call.speed = 0
    \/ mode = "MOTOR_ON_CONTINUOUS"
    \/ mode \in Goals /\ Armed(mode)

GoalStepsLeft(mode) ==
    \/ /\ call.steps = GoalSteps(mode)
       /\ GoalAsked(mode, call.speed, call.togo)
    \/ /\ call.steps = <<"target", "brake", mode, "speed", "load", "store">>
       /\ GoalAsked(mode, call.speed, call.togo)
       /\ motors_state[call.motor].mode = "MOTOR_CONFIGURING"
    \/ /\ call.steps \in {<<"brake", mode, "speed", "load", "store">>,
                          <<mode, "speed", "load", "store">>}
       /\ motors_state[call.motor].mode = "MOTOR_CONFIGURING"
       /\ Armed(mode)

StepsLeft ==
    \/ call.steps = StopSteps /\ call.speed = 0
    \/ call.steps = RotateSteps
    \/ \E mode \in Goals : GoalStepsLeft(mode)
    \/ call.steps = SetMotorSteps /\ Set
    \/ /\ call.steps \in {<<"load", "store">>, <<"store">>}
       /\ Set
       /\ to_avr.speed[call.motor] = call.speed

MotorsInv ==
    /\ MotorsTyped
    /\ \A m \in MotorPorts :
           /\ motors_state[m].mode \in Goals =>
                  motors_state[m].unit = Unit(motors_state[m].mode)
           /\ ~Busy(m) => Settled(motors_state[m], to_avr.speed[m])
    /\ \/ call = NoCall /\ moved = Still
       \/ call \in Calls /\ call.steps # <<>> /\ StepsLeft

---------------------------------------------------------------------------
(* The steps of the calls *)

LEMMA SpeedsAreNumbers == Speeds \subseteq Int /\ 0 \in Speeds
BY CommandAssumption

\* Tuples as sequences.
LEMMA Tuples ==
    ASSUME NEW S, NEW a \in S, NEW b \in S, NEW c \in S, NEW d \in S
    PROVE  <<a, b, c, d>> \in Seq(S) /\ <<a>> \o <<b, c, d>> = <<a, b, c, d>>
<1> DEFINE s == <<a>> \o <<b, c, d>>
           t == <<a, b, c, d>>
<1>1. s \in Seq(S) /\ t \in Seq(S) /\ Len(s) = 4 /\ Len(t) = 4
    OBVIOUS
<1>2. s[1] = a /\ s[2] = b /\ s[3] = c /\ s[4] = d
    OBVIOUS
<1>3. \A i \in 1..4 : s[i] = t[i]
    BY <1>2
<1> QED
    BY <1>1, <1>3, SeqEqual

LEMMA LongTuples ==
    ASSUME NEW S, NEW a \in S, NEW b \in S, NEW c \in S, NEW d \in S, NEW e \in S,
           NEW f \in S, NEW g \in S
    PROVE  /\ <<a, b, c, d, e, f, g>> \in Seq(S)
           /\ <<a, b, c, d>> \o <<e, f, g>> = <<a, b, c, d, e, f, g>>
<1> DEFINE s == <<a, b, c, d>> \o <<e, f, g>>
           t == <<a, b, c, d, e, f, g>>
<1>1. s \in Seq(S) /\ t \in Seq(S) /\ Len(s) = 7 /\ Len(t) = 7
    OBVIOUS
<1>2. s[1] = a /\ s[2] = b /\ s[3] = c /\ s[4] = d
    OBVIOUS
<1>3. s[5] = e /\ s[6] = f /\ s[7] = g
    OBVIOUS
<1>4. \A i \in 1..7 : s[i] = t[i]
    BY <1>2, <1>3
<1> QED
    BY <1>1, <1>4, SeqEqual

\* The stores of each call, written out.
LEMMA StepsAre ==
    /\ StopSteps = <<"MOTOR_STOP", "speed", "load", "store">>
    /\ RotateSteps = <<"MOTOR_ON_CONTINUOUS", "speed", "load", "store">>
    /\ \A mode \in Stores :
           GoalSteps(mode) = <<"MOTOR_CONFIGURING", "target", "brake", mode,
                               "speed", "load", "store">>
    /\ StopSteps \in Seq(Stores) /\ RotateSteps \in Seq(Stores)
    /\ \A mode \in Stores : GoalSteps(mode) \in Seq(Stores) /\ GoalSteps(mode) # <<>>
<1>1. /\ "speed" \in Stores /\ "load" \in Stores /\ "store" \in Stores
      /\ "target" \in Stores /\ "brake" \in Stores /\ "MOTOR_STOP" \in Stores
      /\ "MOTOR_CONFIGURING" \in Stores /\ "MOTOR_ON_CONTINUOUS" \in Stores
    BY DEF Stores, Modes
<1>2. StopSteps = <<"MOTOR_STOP", "speed", "load", "store">> /\ StopSteps \in Seq(Stores)
    BY <1>1, Tuples DEF SetMotorSteps, StopSteps
<1>3. /\ RotateSteps = <<"MOTOR_ON_CONTINUOUS", "speed", "load", "store">>
      /\ RotateSteps \in Seq(Stores)
    BY <1>1, Tuples DEF SetMotorSteps, RotateSteps
<1>4. ASSUME NEW mode \in Stores
      PROVE  /\ GoalSteps(mode) = <<"MOTOR_CONFIGURING", "target", "brake", mode,
                                    "speed", "load", "store">>
             /\ GoalSteps(mode) \in Seq(Stores) /\ GoalSteps(mode) # <<>>
  <2>1. <<"MOTOR_CONFIGURING", "target", "brake", mode>> \o <<"speed", "load", "store">>
            = <<"MOTOR_CONFIGURING", "target", "brake", mode, "speed", "load", "store">>
    BY <1>1, LongTuples
  <2>2. <<"MOTOR_CONFIGURING", "target", "brake", mode, "speed", "load", "store">>
            \in Seq(Stores)
    BY <1>1, LongTuples
  <2>3. <<"MOTOR_CONFIGURING", "target", "brake", mode, "speed", "load", "store">> # <<>>
    OBVIOUS
  <2> QED
    BY <2>1, <2>2, <2>3 DEF SetMotorSteps, GoalSteps
<1> QED
    BY <1>2, <1>3, <1>4

LEMMA ModesAreStores == Modes \subseteq Stores /\ Goals \subseteq Modes
BY DEF Stores, Modes, Goals

\* A call starts with the arguments it was given, and changes nothing yet.
LEMMA CalledInv ==
    ASSUME MotorsInv, NEW m \in MotorPorts, NEW steps, NEW speed \in Speeds,
           NEW togo \in Int, NEW brake \in BOOLEAN, NEW end \in BOOLEAN,
           Called(steps, m, speed, togo, brake, end),
           \/ steps = StopSteps /\ speed = 0
           \/ steps = RotateSteps
           \/ \E mode \in Goals : steps = GoalSteps(mode) /\ GoalAsked(mode, speed, togo)
    PROVE  MotorsInv'
<1>1. steps \in Seq(Stores) /\ steps # <<>>
  <2>1. ASSUME steps \in {StopSteps, RotateSteps}
        PROVE  steps \in Seq(Stores) /\ steps # <<>>
    <3>1. StopSteps # <<>> /\ RotateSteps # <<>>
      BY StepsAre
    <3>2. StopSteps \in Seq(Stores) /\ RotateSteps \in Seq(Stores)
      BY StepsAre
    <3> QED
      BY <2>1, <3>1, <3>2
  <2>2. ASSUME NEW mode \in Goals, steps = GoalSteps(mode)
        PROVE  steps \in Seq(Stores) /\ steps # <<>>
    <3>1. mode \in Stores
      BY ModesAreStores
    <3> QED
      BY <2>2, <3>1, StepsAre
  <2> QED
    BY <2>1, <2>2
<1>2. call' \in Calls /\ call'.steps = steps /\ call'.speed = speed /\ call'.togo = togo
    BY <1>1 DEF Called, Calls
<1>3. StepsLeft'
  <2>1. CASE steps = StopSteps /\ speed = 0
    BY <1>2, <2>1 DEF StepsLeft
  <2>2. CASE steps = RotateSteps
    BY <1>2, <2>2 DEF StepsLeft
  <2>3. ASSUME NEW mode \in Goals, steps = GoalSteps(mode), GoalAsked(mode, speed, togo)
        PROVE  StepsLeft'
    BY <1>2, <2>3 DEF StepsLeft, GoalStepsLeft, GoalAsked
  <2> QED
    BY <2>1, <2>2, <2>3
<1>4. MotorsTyped'
    BY DEF MotorsInv, MotorsTyped, Called, Still
<1>5. \A n \in MotorPorts : ~Busy(n)
    BY DEF Called, Busy
<1>6. motors_state' = motors_state /\ to_avr' = to_avr
    BY DEF Called
<1> QED
    BY <1>1, <1>2, <1>3, <1>4, <1>5, <1>6 DEF MotorsInv

---------------------------------------------------------------------------
(* The interrupts *)

\* The changes of a motor's state.
LEMMA TogoChange ==
    ASSUME NEW s \in MotorState, NEW togo \in Int
    PROVE  LET t == [s EXCEPT !.togo = togo] IN
           t \in MotorState /\ t.togo = togo /\ t.mode = s.mode /\ t.unit = s.unit
BY DEF MotorState

LEMMA ModeChange ==
    ASSUME NEW s \in MotorState, NEW mode \in Modes
    PROVE  [s EXCEPT !.mode = mode] \in MotorState
BY DEF MotorState

LEMMA RestChange ==
    ASSUME NEW s \in MotorState, NEW mode \in Modes, NEW togo \in Int, NEW unit \in Units
    PROVE  [s EXCEPT !.mode = mode, !.togo = togo, !.unit = unit] \in MotorState
BY DEF MotorState

LEMMA InModeState ==
    ASSUME NEW s \in MotorState, NEW mode \in Modes
    PROVE  /\ InMode(s, mode) \in MotorState /\ InMode(s, mode).mode = mode
           /\ mode \in Goals =>
                  InMode(s, mode).togo = s.togo /\ InMode(s, mode).unit = s.unit
<1>1. "none" \in Units /\ 0 \in Int
    BY DEF Units
<1>2. InMode(s, mode) \in MotorState
    BY <1>1, ModeChange, RestChange DEF InMode
<1> QED
    BY <1>2 DEF InMode, MotorState, Goals

LEMMA TickInv ==
    ASSUME MotorsInv, Tick
    PROVE  MotorsInv'
<1> USE DEF MotorsInv
<1>1. /\ motors_state \in [MotorPorts -> MotorState]
      /\ moved \in [edges : SUBSET MotorPorts, tick : BOOLEAN]
      /\ call' = call /\ to_avr' = to_avr /\ asked' = asked
    BY DEF Tick, MotorsTyped
<1>2. ASSUME NEW m \in MotorPorts
      PROVE  /\ motors_state'[m] \in MotorState
             /\ motors_state'[m].mode = motors_state[m].mode
             /\ motors_state'[m].unit = motors_state[m].unit
             /\ \/ motors_state'[m].togo = motors_state[m].togo
                \/ /\ motors_state[m].unit = "ms"
                   /\ motors_state'[m].togo = motors_state[m].togo - 1
  <2> DEFINE s == motors_state[m]
             t == [s EXCEPT !.togo = s.togo - 1]
  <2>1. s \in MotorState /\ s.togo \in Int
    BY <1>1 DEF MotorState
  <2>2. /\ t \in MotorState /\ t.mode = s.mode /\ t.unit = s.unit
        /\ t.togo = s.togo - 1
    <3>1. s.togo - 1 \in Int
      BY <2>1
    <3> QED
      BY <2>1, <3>1, TogoChange
  <2>3. motors_state'[m] = IF s.unit = "ms" /\ s.togo > 0 THEN t ELSE s
    BY <1>1 DEF Tick
  <2> QED
    BY <2>1, <2>2, <2>3
<1>3. MotorsTyped'
    BY <1>1, <1>2 DEF Tick, MotorsTyped, Still
<1>4. ASSUME NEW m \in MotorPorts
      PROVE  /\ motors_state'[m].mode \in Goals =>
                    motors_state'[m].unit = Unit(motors_state'[m].mode)
             /\ ~Busy(m) => Settled(motors_state'[m], to_avr'.speed[m])
    BY <1>1, <1>2 DEF Settled, Unit, Goals
<1>5. CASE call = NoCall
    BY <1>1, <1>3, <1>4, <1>5 DEF Tick, NoCall, Busy
<1>6. CASE call # NoCall
  <2>1. call \in Calls /\ call.steps # <<>> /\ StepsLeft
    BY <1>6
  <2>2. moved' = [moved EXCEPT !.tick = TRUE] /\ ~moved.tick
    BY <2>1 DEF Tick
  <2>3. /\ call.motor \in MotorPorts
        /\ motors_state'[call.motor].mode = motors_state[call.motor].mode
    BY <1>2, <2>1 DEF Calls
  <2>4. ASSUME NEW mode \in Goals, Armed(mode)
        PROVE  Armed(mode)'
    BY <1>1, <1>2, <2>1, <2>2, <2>3, <2>4 DEF Armed, GoalAsked, Goals, Unit
  <2>5. Set => Set'
    BY <1>1, <2>3, <2>4 DEF Set
  <2>6. \A mode \in Goals : GoalStepsLeft(mode) => GoalStepsLeft(mode)'
    BY <1>1, <2>3, <2>4 DEF GoalStepsLeft
  <2>7. StepsLeft'
    BY <1>1, <2>1, <2>5, <2>6 DEF StepsLeft
  <2> QED
    BY <1>1, <1>3, <1>4, <2>1, <2>7 DEF Busy
<1> QED
    BY <1>5, <1>6

\* An edge brings a motor that nobody is changing nearer to its target or
\* stops it there, and does not stop one that a call is about to start.
LEMMA EdgesInv ==
    ASSUME MotorsInv, NEW S \in SUBSET MotorPorts, NEW dir \in [S -> {-1, 1}],
           \A m \in S : dir[m] \in Directions(m),
           Edges(S, dir)
    PROVE  MotorsInv'
<1> USE DEF MotorsInv
<1> DEFINE counted == [m \in MotorPorts |->
               IF m \in S THEN Counted(motors_state[m], dir[m]) ELSE motors_state[m]]
           reached == {m \in S : Reached(counted[m])}
<1>1. /\ motors_state \in [MotorPorts -> MotorState]
      /\ moved \in [edges : SUBSET MotorPorts, tick : BOOLEAN]
      /\ to_avr \in Command /\ asked \subseteq MotorPorts
      /\ call' = call
    BY DEF Edges, MotorsTyped
<1>2. ASSUME NEW m \in MotorPorts
      PROVE  /\ counted[m] \in MotorState
             /\ counted[m].mode = motors_state[m].mode
             /\ counted[m].unit = motors_state[m].unit
             /\ \/ counted[m].togo = motors_state[m].togo
                \/ /\ m \in S /\ motors_state[m].unit = "edges"
                   /\ counted[m].togo = motors_state[m].togo - dir[m]
  <2> DEFINE s == motors_state[m]
             t == [s EXCEPT !.togo = s.togo - dir[m]]
  <2>1. s \in MotorState /\ s.togo \in Int /\ (m \in S => dir[m] \in Int)
    BY <1>1 DEF MotorState
  <2>2. m \in S => /\ t \in MotorState /\ t.mode = s.mode /\ t.unit = s.unit
                   /\ t.togo = s.togo - dir[m]
    <3>1. ASSUME m \in S
          PROVE  s.togo - dir[m] \in Int
      BY <2>1, <3>1
    <3> QED
      BY <2>1, <3>1, TogoChange
  <2>3. counted[m] = IF m \in S /\ s.unit = "edges" THEN t ELSE s
    BY DEF Counted
  <2> QED
    BY <2>1, <2>2, <2>3
<1>3. /\ motors_state' = [m \in MotorPorts |->
             IF m \in reached THEN InMode(counted[m], "MOTOR_STOP") ELSE counted[m]]
      /\ to_avr' = [to_avr EXCEPT
             !.speed = [m \in MotorPorts |-> IF m \in reached THEN 0 ELSE @[m]],
             !.brake = (@ \ reached) \union {m \in reached : motors_state[m].brake}]
    BY DEF Edges
<1>4. ASSUME NEW m \in reached
      PROVE  /\ motors_state'[m] \in MotorState
             /\ motors_state'[m].mode = "MOTOR_STOP"
             /\ to_avr'.speed[m] = 0
  <2>1. m \in MotorPorts /\ counted[m] \in MotorState
    BY <1>2
  <2>2. motors_state'[m] = InMode(counted[m], "MOTOR_STOP")
    BY <1>3, <2>1
  <2>3. to_avr'.speed[m] = 0
    BY <1>1, <1>3, <2>1 DEF Command
  <2>4. "MOTOR_STOP" \in Modes
    BY DEF Modes
  <2> QED
    BY <2>1, <2>2, <2>3, <2>4, InModeState
<1>5. ASSUME NEW m \in MotorPorts, m \notin reached
      PROVE  motors_state'[m] = counted[m] /\ to_avr'.speed[m] = to_avr.speed[m]
    BY <1>1, <1>3, <1>5 DEF Command
<1>6. MotorsTyped'
  <2>1. to_avr' \in Command
    BY <1>1, <1>3, CommandAssumption DEF Command
  <2>2. motors_state' \in [MotorPorts -> MotorState]
    BY <1>2, <1>3, <1>4, <1>5
  <2> QED
    BY <1>1, <2>1, <2>2 DEF MotorsTyped, Edges, Still
<1>7. ASSUME NEW m \in MotorPorts
      PROVE  /\ motors_state'[m].mode \in Goals =>
                    motors_state'[m].unit = Unit(motors_state'[m].mode)
             /\ ~Busy(m) => Settled(motors_state'[m], to_avr'.speed[m])
  <2>1. CASE m \in reached
    BY <1>4, <2>1 DEF Settled, Goals
  <2>2. CASE m \notin reached
    <3>1. motors_state'[m] = counted[m] /\ to_avr'.speed[m] = to_avr.speed[m]
      BY <1>5, <2>2
    <3>2. counted[m].mode \in Goals => counted[m].unit = Unit(counted[m].mode)
      BY <1>2
    <3>3. ASSUME ~Busy(m), counted[m].mode = "MOTOR_ON_ANGLE", m \in S
          PROVE  Ahead(counted[m].togo, to_avr.speed[m])
      <4>1. Ahead(motors_state[m].togo, to_avr.speed[m])
        BY <1>2, <3>3 DEF Settled
      <4>2. dir[m] = IF to_avr.speed[m] < 0 THEN -1 ELSE 1
        BY <3>3 DEF Directions, Busy
      <4>3. counted[m].togo # 0
        BY <2>2, <3>3 DEF Reached
      <4>4. motors_state[m].togo \in Int /\ to_avr.speed[m] \in Int
        <5>1. to_avr.speed[m] \in Speeds
          BY <1>1 DEF Command
        <5> QED
          BY <1>1, <5>1, SpeedsAreNumbers DEF MotorState
      <4> QED
        BY <1>2, <3>3, <4>1, <4>2, <4>3, <4>4 DEF Ahead
    <3> QED
      BY <1>2, <3>1, <3>2, <3>3 DEF Settled
  <2> QED
    BY <2>1, <2>2
<1>8. CASE call = NoCall
    BY <1>1, <1>6, <1>7, <1>8 DEF Edges, NoCall, Busy
<1>9. CASE call # NoCall
  <2> DEFINE m == call.motor
  <2>1. call \in Calls /\ call.steps # <<>> /\ StepsLeft /\ m \in MotorPorts
    BY <1>9 DEF Calls
  <2>2. moved' = [moved EXCEPT !.edges = @ \union S] /\ S \intersect moved.edges = {}
    BY <2>1 DEF Edges
  <2>3. m \in reached =>
            motors_state[m].mode \in Goals /\ \A mode \in Goals : ~Armed(mode)
    <3>1. SUFFICES ASSUME m \in reached, NEW mode \in Goals, Armed(mode)
                   PROVE  FALSE
      BY <1>2, <2>1 DEF Reached, Goals
    <3>2. motors_state[m].mode = mode
      BY <1>2, <2>1, <3>1 DEF Reached, Armed, Unit, Goals
    <3>3. call.togo \in Int /\ motors_state[m].togo \in Int /\ dir[m] \in {-1, 1}
      BY <1>1, <2>1, <3>1 DEF Calls, MotorState
    <3>4. CASE mode = "MOTOR_ON_ANGLE"
      <4>1. counted[m].togo = 0
        BY <1>2, <2>1, <3>1, <3>2, <3>4 DEF Reached
      <4>2. m \notin moved.edges
        BY <2>2, <3>1
      <4>3. motors_state[m].togo = call.togo /\ (call.togo > 1 \/ call.togo < -1)
        BY <3>1, <3>4, <4>2 DEF Armed, GoalAsked
      <4> QED
        BY <1>2, <2>1, <3>3, <4>1, <4>3
    <3>5. CASE mode = "MOTOR_ON_TIME"
      <4>1. counted[m].togo <= 0
        BY <1>2, <2>1, <3>1, <3>2, <3>5 DEF Reached
      <4>2. motors_state[m].unit = "ms" /\ counted[m].togo = motors_state[m].togo
        BY <1>2, <2>1, <3>1, <3>5 DEF Armed, Unit
      <4>3. motors_state[m].togo >= call.togo - 1 /\ call.togo > 1
        BY <3>1, <3>3, <3>5 DEF Armed, GoalAsked
      <4> QED
        BY <3>3, <4>1, <4>2, <4>3
    <3> QED
      BY <3>4, <3>5 DEF Goals
  <2>4. ASSUME NEW mode \in Goals, Armed(mode)
        PROVE  Armed(mode)'
    <3>1. motors_state'[m] = counted[m]
      BY <1>5, <2>1, <2>3, <2>4
    <3>2. call.togo \in Int /\ motors_state[m].togo \in Int
          /\ (m \in S => dir[m] \in {-1, 1})
      BY <1>1, <2>1 DEF Calls, MotorState
    <3>3. CASE counted[m].togo = motors_state[m].togo
      BY <1>1, <1>2, <2>1, <2>2, <2>4, <3>1, <3>3 DEF Armed, GoalAsked
    <3>4. CASE /\ m \in S /\ motors_state[m].unit = "edges"
               /\ counted[m].togo = motors_state[m].togo - dir[m]
      <4>1. mode = "MOTOR_ON_ANGLE" /\ motors_state[m].togo = call.togo
        BY <2>2, <2>4, <3>4 DEF Armed, Unit, Goals
      <4>2. m \in moved'.edges
        BY <1>1, <2>2, <3>4
      <4>3. counted[m].togo \in {call.togo - 1, call.togo + 1}
        BY <3>2, <3>4, <4>1
      <4> QED
        BY <1>1, <1>2, <2>1, <2>4, <3>1, <4>1, <4>2, <4>3 DEF Armed, GoalAsked
    <3> QED
      BY <1>2, <2>1, <3>3, <3>4
  <2>5. Set => Set' /\ to_avr'.speed[m] = to_avr.speed[m]
    <3>1. Set => m \notin reached
      BY <2>3 DEF Set, Goals
    <3> QED
      BY <1>1, <1>2, <1>5, <2>1, <2>4, <3>1 DEF Set
  <2>6. ASSUME NEW mode \in Goals, GoalStepsLeft(mode)
        PROVE  GoalStepsLeft(mode)'
    <3>1. motors_state[m].mode = "MOTOR_CONFIGURING" =>
              motors_state'[m].mode = "MOTOR_CONFIGURING"
      BY <1>2, <1>5, <2>1, <2>3 DEF Goals
    <3> QED
      BY <1>1, <2>4, <2>6, <3>1 DEF GoalStepsLeft
  <2>7. StepsLeft'
    BY <1>1, <2>1, <2>5, <2>6 DEF StepsLeft
  <2> QED
    BY <1>1, <1>6, <1>7, <2>1, <2>7 DEF Busy
<1> QED
    BY <1>8, <1>9

---------------------------------------------------------------------------
(* The stores of a call *)

\* The stores that are left after the first.
LEMMA Rests ==
    ASSUME NEW mode \in Stores
    PROVE  /\ <<"store">> \in Seq(Stores) /\ <<"store">> # <<>>
           /\ <<"load", "store">> \in Seq(Stores) /\ <<"load", "store">> # <<>>
           /\ SetMotorSteps \in Seq(Stores) /\ SetMotorSteps # <<>>
           /\ LET s == <<mode, "speed", "load", "store">> IN s \in Seq(Stores) /\ s # <<>>
           /\ LET s == <<"brake", mode, "speed", "load", "store">> IN
              s \in Seq(Stores) /\ s # <<>>
           /\ LET s == <<"target", "brake", mode, "speed", "load", "store">> IN
              s \in Seq(Stores) /\ s # <<>>
<1>1. /\ "speed" \in Stores /\ "load" \in Stores /\ "store" \in Stores
      /\ "target" \in Stores /\ "brake" \in Stores
    BY DEF Stores
<1>2. ASSUME NEW S, NEW a \in S, NEW b \in S, NEW c \in S, NEW d \in S, NEW e \in S,
             NEW f \in S
      PROVE  /\ <<a>> \in Seq(S) /\ <<a, b>> \in Seq(S) /\ <<a, b, c>> \in Seq(S)
             /\ <<a, b, c, d>> \in Seq(S) /\ <<a, b, c, d, e>> \in Seq(S)
             /\ <<a, b, c, d, e, f>> \in Seq(S)
    OBVIOUS
<1>3. <<"target", "brake", mode, "speed", "load", "store">> \in Seq(Stores)
    BY <1>1, <1>2
<1>4. <<"brake", mode, "speed", "load", "store">> \in Seq(Stores)
    BY <1>1, <1>2
<1>5. <<mode, "speed", "load", "store">> \in Seq(Stores)
    BY <1>1, <1>2
<1>6. <<"speed", "load", "store">> \in Seq(Stores)
    BY <1>1, <1>2
<1>7. <<"load", "store">> \in Seq(Stores)
    BY <1>1, <1>2
<1>8. <<"store">> \in Seq(Stores)
    BY <1>1, <1>2
<1> QED
    BY <1>3, <1>4, <1>5, <1>6, <1>7, <1>8 DEF SetMotorSteps

LEMMA CallRest ==
    ASSUME call \in Calls, NEW t \in Seq(Stores), call' = [call EXCEPT !.steps = t]
    PROVE  /\ call' \in Calls /\ call'.steps = t /\ call'.motor = call.motor
           /\ call'.speed = call.speed /\ call'.togo = call.togo
BY DEF Calls

\* What is left of the call when its first store is done.
Rest == IF Len(call.steps) = 1 THEN NoCall ELSE [call EXCEPT !.steps = Tail(call.steps)]

\* Step, by the store it makes.
LEMMA StepStores ==
    ASSUME Step, NEW step, step = Head(call.steps)
    PROVE  /\ step \in Modes =>
                  /\ motors_state' = [motors_state EXCEPT
                         ![call.motor] = InMode(motors_state[call.motor], step)]
                  /\ call' = Rest /\ to_avr' = to_avr
           /\ step = "target" =>
                  /\ motors_state' = [motors_state EXCEPT
                         ![call.motor].togo = call.togo,
                         ![call.motor].unit = IF "MOTOR_ON_TIME" \in Range(call.steps)
                                              THEN "ms" ELSE "edges"]
                  /\ call' = Rest /\ to_avr' = to_avr
           /\ step = "brake" =>
                  /\ motors_state' = [motors_state EXCEPT ![call.motor].brake = call.end]
                  /\ call' = Rest /\ to_avr' = to_avr
           /\ step = "speed" =>
                  /\ SetSpeed(call.motor, call.speed)
                  /\ call' = Rest /\ motors_state' = motors_state
           /\ step = "load" =>
                  /\ call' = [Rest EXCEPT !.loaded = to_avr.brake]
                  /\ motors_state' = motors_state /\ to_avr' = to_avr
           /\ step = "store" =>
                  /\ StoreBrake(WithBrake(call.loaded, call.motor, call.brake))
                  /\ call' = Rest /\ motors_state' = motors_state
<1>1. Modes \cap {"target", "brake", "speed", "load", "store"} = {}
    BY DEF Modes
<1>2. \/ /\ step \in Modes
         /\ motors_state' = [motors_state EXCEPT
                ![call.motor] = InMode(motors_state[call.motor], step)]
         /\ call' = Rest /\ to_avr' = to_avr
      \/ /\ step = "target"
         /\ motors_state' = [motors_state EXCEPT
                ![call.motor].togo = call.togo,
                ![call.motor].unit = IF "MOTOR_ON_TIME" \in Range(call.steps)
                                     THEN "ms" ELSE "edges"]
         /\ call' = Rest /\ to_avr' = to_avr
      \/ /\ step = "brake"
         /\ motors_state' = [motors_state EXCEPT ![call.motor].brake = call.end]
         /\ call' = Rest /\ to_avr' = to_avr
      \/ /\ step = "speed"
         /\ SetSpeed(call.motor, call.speed)
         /\ call' = Rest /\ motors_state' = motors_state
      \/ /\ step = "load"
         /\ call' = [Rest EXCEPT !.loaded = to_avr.brake]
         /\ motors_state' = motors_state /\ to_avr' = to_avr
      \/ /\ step = "store"
         /\ StoreBrake(WithBrake(call.loaded, call.motor, call.brake))
         /\ call' = Rest /\ motors_state' = motors_state
    BY Zenon DEF Step, Rest
<1> QED
    BY <1>1, <1>2

LEMMA StepInv ==
    ASSUME MotorsInv, Step
    PROVE  MotorsInv'
<1> USE DEF MotorsInv
<1> DEFINE m == call.motor
<1>1. /\ motors_state \in [MotorPorts -> MotorState]
      /\ moved \in [edges : SUBSET MotorPorts, tick : BOOLEAN]
      /\ to_avr \in Command /\ asked \subseteq MotorPorts /\ asked' = asked
    BY DEF Step, MotorsTyped
<1>2. call \in Calls /\ call.steps # <<>> /\ StepsLeft /\ m \in MotorPorts
    BY DEF Step, NoCall, Calls
<1>3. moved' = IF Len(call.steps) = 1 THEN Still ELSE moved
    BY DEF Step
<1>4. ASSUME NEW t, Tail(call.steps) = t, Len(call.steps) # 1
      PROVE  Rest = [call EXCEPT !.steps = t] /\ moved' = moved
    BY <1>3, <1>4 DEF Rest
\* All but the last store leave a call that goes on.
<1>5. ASSUME call' \in Calls, call'.steps # <<>>, call'.motor = m, moved' = moved,
             motors_state' \in [MotorPorts -> MotorState], to_avr' \in Command,
             \A n \in MotorPorts \ {m} : /\ motors_state'[n] = motors_state[n]
                                         /\ to_avr'.speed[n] = to_avr.speed[n],
             motors_state'[m].mode \in Goals =>
                 motors_state'[m].unit = Unit(motors_state'[m].mode),
             StepsLeft'
      PROVE  MotorsInv'
  <2>1. MotorsTyped'
    BY <1>1, <1>5 DEF MotorsTyped
  <2>2. \A n \in MotorPorts : Busy(n)' <=> n = m
    BY <1>5 DEF Busy
  <2>3. \A n \in MotorPorts : Busy(n) <=> n = m
    BY <1>2 DEF Busy
  <2> QED
    BY <1>5, <2>1, <2>2, <2>3
\* A store into the motor's record.
<1>6. ASSUME NEW t \in Seq(Stores), t # <<>>, call' = [call EXCEPT !.steps = t],
             moved' = moved, to_avr' = to_avr,
             NEW s \in MotorState, motors_state' = [motors_state EXCEPT ![m] = s],
             s.mode \in Goals => s.unit = Unit(s.mode),
             motors_state'[m] = s => StepsLeft'
      PROVE  MotorsInv'
  <2>1. /\ motors_state' \in [MotorPorts -> MotorState] /\ motors_state'[m] = s
        /\ \A n \in MotorPorts \ {m} : motors_state'[n] = motors_state[n]
    BY <1>1, <1>2, <1>6
  <2>2. call' \in Calls /\ call'.steps = t /\ call'.motor = m
    BY <1>2, <1>6, CallRest
  <2> QED
    BY <1>1, <1>5, <1>6, <2>1, <2>2
<1>7. CASE call.steps = StopSteps /\ call.speed = 0
  <2> DEFINE s == InMode(motors_state[m], "MOTOR_STOP")
  <2>1. call.steps = <<"MOTOR_STOP", "speed", "load", "store">>
    BY <1>7, StepsAre
  <2>2. /\ Head(call.steps) = "MOTOR_STOP" /\ Len(call.steps) = 4
        /\ Tail(call.steps) = SetMotorSteps
    BY <2>1 DEF SetMotorSteps
  <2>3. "MOTOR_STOP" \in Modes /\ "MOTOR_STOP" \notin Goals
    BY DEF Modes, Goals
  <2>4. /\ call' = [call EXCEPT !.steps = SetMotorSteps] /\ moved' = moved
        /\ motors_state' = [motors_state EXCEPT ![m] = s] /\ to_avr' = to_avr
    BY <1>4, <2>2, <2>3, StepStores
  <2>5. s \in MotorState /\ s.mode = "MOTOR_STOP"
    BY <1>1, <1>2, <2>3, InModeState
  <2>6. SetMotorSteps \in Seq(Stores) /\ SetMotorSteps # <<>>
    BY Rests, ModesAreStores, <2>3
  <2>7. ASSUME motors_state'[m] = s
        PROVE  StepsLeft'
    BY <1>2, <1>7, <2>4, <2>5, <2>6, <2>7, CallRest DEF StepsLeft, Set
  <2> QED
    BY <1>6, <2>3, <2>4, <2>5, <2>6, <2>7
<1>8. CASE call.steps = RotateSteps
  <2> DEFINE s == InMode(motors_state[m], "MOTOR_ON_CONTINUOUS")
  <2>1. call.steps = <<"MOTOR_ON_CONTINUOUS", "speed", "load", "store">>
    BY <1>8, StepsAre
  <2>2. /\ Head(call.steps) = "MOTOR_ON_CONTINUOUS" /\ Len(call.steps) = 4
        /\ Tail(call.steps) = SetMotorSteps
    BY <2>1 DEF SetMotorSteps
  <2>3. "MOTOR_ON_CONTINUOUS" \in Modes /\ "MOTOR_ON_CONTINUOUS" \notin Goals
    BY DEF Modes, Goals
  <2>4. /\ call' = [call EXCEPT !.steps = SetMotorSteps] /\ moved' = moved
        /\ motors_state' = [motors_state EXCEPT ![m] = s] /\ to_avr' = to_avr
    BY <1>4, <2>2, <2>3, StepStores
  <2>5. s \in MotorState /\ s.mode = "MOTOR_ON_CONTINUOUS"
    BY <1>1, <1>2, <2>3, InModeState
  <2>6. SetMotorSteps \in Seq(Stores) /\ SetMotorSteps # <<>>
    BY Rests, ModesAreStores, <2>3
  <2>7. ASSUME motors_state'[m] = s
        PROVE  StepsLeft'
    BY <1>2, <1>8, <2>4, <2>5, <2>6, <2>7, CallRest DEF StepsLeft, Set
  <2> QED
    BY <1>6, <2>3, <2>4, <2>5, <2>6, <2>7
<1>9. ASSUME NEW mode \in Goals, call.steps = GoalSteps(mode),
             GoalAsked(mode, call.speed, call.togo)
      PROVE  MotorsInv'
  <2> DEFINE s == InMode(motors_state[m], "MOTOR_CONFIGURING")
             t == <<"target", "brake", mode, "speed", "load", "store">>
  <2>1. mode \in Stores
    BY ModesAreStores
  <2>2. call.steps = <<"MOTOR_CONFIGURING", "target", "brake", mode, "speed", "load", "store">>
    BY <1>9, <2>1, StepsAre
  <2>3. Rest = [call EXCEPT !.steps = t] /\ moved' = moved
    <3>1. Tail(call.steps) = t /\ Len(call.steps) # 1
      BY <2>2
    <3> QED
      BY <1>4, <3>1
  <2>4. "MOTOR_CONFIGURING" \in Modes /\ "MOTOR_CONFIGURING" \notin Goals
    BY DEF Modes, Goals
  <2>5. /\ call' = [call EXCEPT !.steps = t] /\ moved' = moved
        /\ motors_state' = [motors_state EXCEPT ![m] = s] /\ to_avr' = to_avr
    <3>1. Head(call.steps) = "MOTOR_CONFIGURING"
      BY <2>2
    <3> QED
      BY <2>3, <2>4, <3>1, StepStores
  <2>6. s \in MotorState /\ s.mode = "MOTOR_CONFIGURING"
    BY <1>1, <1>2, <2>4, InModeState
  <2>7. t \in Seq(Stores) /\ t # <<>>
    BY <2>1, Rests
  <2>8. ASSUME motors_state'[m] = s
        PROVE  StepsLeft'
    BY <1>2, <1>9, <2>5, <2>6, <2>7, <2>8, CallRest
       DEF StepsLeft, GoalStepsLeft, GoalAsked
  <2> QED
    BY <1>6, <2>4, <2>5, <2>6, <2>7, <2>8
<1>10. ASSUME NEW mode \in Goals,
             call.steps = <<"target", "brake", mode, "speed", "load", "store">>,
             GoalAsked(mode, call.speed, call.togo),
             motors_state[m].mode = "MOTOR_CONFIGURING"
      PROVE  MotorsInv'
  <2> DEFINE s == [motors_state[m] EXCEPT !.togo = call.togo, !.unit = Unit(mode)]
             t == <<"brake", mode, "speed", "load", "store">>
  <2>1. Rest = [call EXCEPT !.steps = t] /\ moved' = moved
    <3>1. Tail(call.steps) = t /\ Len(call.steps) # 1
      BY <1>10
    <3> QED
      BY <1>4, <3>1
  <2>2. "target" \notin Modes /\ "MOTOR_CONFIGURING" \notin Goals
    BY DEF Modes, Goals
  <2>3. "MOTOR_ON_TIME" \in Range(call.steps) <=> mode = "MOTOR_ON_TIME"
    BY <1>10 DEF Range, Goals
  <2>4. /\ call' = [call EXCEPT !.steps = t] /\ moved' = moved
        /\ motors_state' = [motors_state EXCEPT ![m] = s] /\ to_avr' = to_avr
    <3>1. Head(call.steps) = "target"
      BY <1>10
    <3>2. /\ motors_state' = [motors_state EXCEPT ![m].togo = call.togo,
                                                  ![m].unit = Unit(mode)]
          /\ call' = Rest /\ to_avr' = to_avr
      BY <2>3, <3>1, StepStores DEF Unit
    <3>3. motors_state' = [motors_state EXCEPT ![m] = s]
      BY <1>1, <1>2, <3>2
    <3> QED
      BY <2>1, <3>2, <3>3
  <2>5. /\ s \in MotorState /\ s.mode = "MOTOR_CONFIGURING"
        /\ s.togo = call.togo /\ s.unit = Unit(mode)
    <3>1. Unit(mode) \in Units /\ call.togo \in Int /\ motors_state[m] \in MotorState
      BY <1>1, <1>2 DEF Unit, Units, Calls
    <3>2. s \in MotorState
      BY <3>1 DEF MotorState
    <3>3. /\ s.mode = motors_state[m].mode
          /\ s.togo = call.togo /\ s.unit = Unit(mode)
      BY <3>1 DEF MotorState
    <3> QED
      BY <1>10, <3>2, <3>3
  <2>6. t \in Seq(Stores) /\ t # <<>>
    BY Rests, ModesAreStores
  <2>7. ASSUME motors_state'[m] = s
        PROVE  StepsLeft'
    <3>1. /\ call'.steps = t /\ call'.motor = m
          /\ call'.speed = call.speed /\ call'.togo = call.togo
      BY <1>2, <2>4, <2>6, CallRest
    <3>2. Armed(mode)'
      BY <1>10, <2>5, <2>7, <3>1 DEF Armed, GoalAsked
    <3> QED
      BY <2>5, <2>7, <3>1, <3>2 DEF StepsLeft, GoalStepsLeft
  <2> QED
    BY <1>6, <2>2, <2>4, <2>5, <2>6, <2>7
<1>11. ASSUME NEW mode \in Goals,
              call.steps = <<"brake", mode, "speed", "load", "store">>,
              motors_state[m].mode = "MOTOR_CONFIGURING", Armed(mode)
       PROVE  MotorsInv'
  <2> DEFINE s == [motors_state[m] EXCEPT !.brake = call.end]
             t == <<mode, "speed", "load", "store">>
  <2>1. Rest = [call EXCEPT !.steps = t] /\ moved' = moved
    <3>1. Tail(call.steps) = t /\ Len(call.steps) # 1
      BY <1>11
    <3> QED
      BY <1>4, <3>1
  <2>2. "brake" \notin Modes /\ "MOTOR_CONFIGURING" \notin Goals
    BY DEF Modes, Goals
  <2>3. /\ call' = [call EXCEPT !.steps = t] /\ moved' = moved
        /\ motors_state' = [motors_state EXCEPT ![m] = s] /\ to_avr' = to_avr
    <3>1. Head(call.steps) = "brake"
      BY <1>11
    <3>2. /\ motors_state' = [motors_state EXCEPT ![m].brake = call.end]
          /\ call' = Rest /\ to_avr' = to_avr
      BY <3>1, StepStores
    <3>3. motors_state' = [motors_state EXCEPT ![m] = s]
      BY <1>1, <1>2, <3>2
    <3> QED
      BY <2>1, <3>2, <3>3
  <2>4. /\ s \in MotorState /\ s.mode = "MOTOR_CONFIGURING"
        /\ s.togo = motors_state[m].togo /\ s.unit = motors_state[m].unit
    BY <1>1, <1>2, <1>11 DEF MotorState, Calls
  <2>5. t \in Seq(Stores) /\ t # <<>>
    BY Rests, ModesAreStores
  <2>6. ASSUME motors_state'[m] = s
        PROVE  StepsLeft'
    <3>1. /\ call'.steps = t /\ call'.motor = m
          /\ call'.speed = call.speed /\ call'.togo = call.togo
      BY <1>2, <2>3, <2>5, CallRest
    <3>2. Armed(mode)'
      BY <1>11, <2>3, <2>4, <2>6, <3>1 DEF Armed, GoalAsked
    <3> QED
      BY <2>4, <2>6, <3>1, <3>2 DEF StepsLeft, GoalStepsLeft
  <2> QED
    BY <1>6, <2>2, <2>3, <2>4, <2>5, <2>6
<1>12. ASSUME NEW mode \in Goals,
              call.steps = <<mode, "speed", "load", "store">>,
              motors_state[m].mode = "MOTOR_CONFIGURING", Armed(mode)
       PROVE  MotorsInv'
  <2> DEFINE s == InMode(motors_state[m], mode)
  <2>1. Rest = [call EXCEPT !.steps = SetMotorSteps] /\ moved' = moved
    <3>1. Tail(call.steps) = SetMotorSteps /\ Len(call.steps) # 1
      BY <1>12 DEF SetMotorSteps
    <3> QED
      BY <1>4, <3>1
  <2>2. mode \in Modes
    BY ModesAreStores
  <2>3. /\ call' = [call EXCEPT !.steps = SetMotorSteps] /\ moved' = moved
        /\ motors_state' = [motors_state EXCEPT ![m] = s] /\ to_avr' = to_avr
    <3>1. Head(call.steps) = mode
      BY <1>12
    <3> QED
      BY <2>1, <2>2, <3>1, StepStores
  <2>4. /\ s \in MotorState /\ s.mode = mode
        /\ s.togo = motors_state[m].togo /\ s.unit = motors_state[m].unit
    BY <1>1, <1>2, <2>2, InModeState
  <2>5. SetMotorSteps \in Seq(Stores) /\ SetMotorSteps # <<>>
    BY Rests, ModesAreStores
  <2>6. ASSUME motors_state'[m] = s
        PROVE  StepsLeft'
    <3>1. /\ call'.steps = SetMotorSteps /\ call'.motor = m
          /\ call'.speed = call.speed /\ call'.togo = call.togo
      BY <1>2, <2>3, <2>5, CallRest
    <3>2. Armed(mode)'
      BY <1>12, <2>3, <2>4, <2>6, <3>1 DEF Armed, GoalAsked
    <3> QED
      BY <2>4, <2>6, <3>1, <3>2 DEF StepsLeft, Set
  <2>7. s.unit = Unit(s.mode)
    BY <1>12, <2>4 DEF Armed
  <2> QED
    BY <1>6, <2>3, <2>4, <2>5, <2>6, <2>7
<1>13. CASE call.steps = SetMotorSteps /\ Set
  <2> DEFINE t == <<"load", "store">>
  <2>1. Rest = [call EXCEPT !.steps = t] /\ moved' = moved
    <3>1. Tail(call.steps) = t /\ Len(call.steps) # 1
      BY <1>13 DEF SetMotorSteps
    <3> QED
      BY <1>4, <3>1
  <2>2. /\ call' = [call EXCEPT !.steps = t] /\ moved' = moved
        /\ motors_state' = motors_state
        /\ to_avr' = [to_avr EXCEPT !.speed[m] = call.speed]
    <3>1. Head(call.steps) = "speed"
      BY <1>13 DEF SetMotorSteps
    <3> QED
      BY <2>1, <3>1, StepStores DEF SetSpeed
  <2>3. t \in Seq(Stores) /\ t # <<>>
    BY Rests, ModesAreStores DEF Goals
  <2>4. /\ call' \in Calls /\ call'.steps = t /\ call'.motor = m
        /\ call'.speed = call.speed /\ call'.togo = call.togo
    BY <1>2, <2>2, <2>3, CallRest
  <2>5. /\ to_avr' \in Command /\ to_avr'.speed[m] = call.speed
        /\ \A n \in MotorPorts \ {m} : to_avr'.speed[n] = to_avr.speed[n]
    BY <1>1, <1>2, <2>2 DEF Command, Calls
  <2>6. Set'
    BY <1>13, <2>2, <2>4 DEF Set, Armed, GoalAsked
  <2>7. StepsLeft'
    BY <2>4, <2>5, <2>6 DEF StepsLeft
  <2> QED
    BY <1>1, <1>2, <1>5, <2>2, <2>3, <2>4, <2>5, <2>7
<1>14. CASE call.steps = <<"load", "store">> /\ Set /\ to_avr.speed[m] = call.speed
  <2> DEFINE t == <<"store">>
  <2>1. Rest = [call EXCEPT !.steps = t] /\ moved' = moved
    <3>1. Tail(call.steps) = t /\ Len(call.steps) # 1
      BY <1>14
    <3> QED
      BY <1>4, <3>1
  <2>2. /\ call' = [[call EXCEPT !.steps = t] EXCEPT !.loaded = to_avr.brake]
        /\ moved' = moved /\ motors_state' = motors_state /\ to_avr' = to_avr
    <3>1. Head(call.steps) = "load"
      BY <1>14
    <3>2. /\ call' = [Rest EXCEPT !.loaded = to_avr.brake]
          /\ motors_state' = motors_state /\ to_avr' = to_avr
      BY <3>1, StepStores
    <3> QED
      BY <2>1, <3>2
  <2>3. t \in Seq(Stores) /\ t # <<>>
    BY Rests, ModesAreStores DEF Goals
  <2>4. /\ call' \in Calls /\ call'.steps = t /\ call'.motor = m
        /\ call'.speed = call.speed /\ call'.togo = call.togo
    BY <1>1, <1>2, <2>2, <2>3 DEF Calls, Command
  <2>5. Set'
    BY <1>14, <2>2, <2>4 DEF Set, Armed, GoalAsked
  <2>6. StepsLeft'
    BY <1>14, <2>2, <2>4, <2>5 DEF StepsLeft
  <2> QED
    BY <1>1, <1>2, <1>5, <2>2, <2>3, <2>4, <2>6
<1>15. CASE call.steps = <<"store">> /\ Set /\ to_avr.speed[m] = call.speed
  <2> DEFINE bits == WithBrake(call.loaded, m, call.brake)
  <2>1. Head(call.steps) = "store" /\ Len(call.steps) = 1
    BY <1>15
  <2>2. /\ call' = NoCall /\ moved' = Still /\ motors_state' = motors_state
        /\ to_avr' = [to_avr EXCEPT !.brake = bits]
    <3>1. /\ StoreBrake(bits) /\ call' = Rest /\ motors_state' = motors_state
      BY <2>1, StepStores
    <3> QED
      BY <1>3, <2>1, <3>1 DEF Rest, StoreBrake
  <2>3. to_avr' \in Command /\ to_avr'.speed = to_avr.speed
    BY <1>1, <1>2, <2>2 DEF Command, WithBrake, Calls
  <2>4. MotorsTyped'
    BY <1>1, <2>2, <2>3 DEF MotorsTyped, Still
  <2>5. Settled(motors_state[m], to_avr.speed[m])
    <3>1. motors_state[m].mode \in Goals /\ Armed(motors_state[m].mode)
              => Settled(motors_state[m], to_avr.speed[m])
      <4> DEFINE s == motors_state[m]
      <4>1. SUFFICES ASSUME s.mode \in Goals, Armed(s.mode)
                     PROVE  Settled(s, to_avr.speed[m])
        OBVIOUS
      <4>2. s.togo \in Int /\ call.togo \in Int /\ call.speed \in Int
        <5>1. s \in MotorState /\ call.speed \in Speeds
          BY <1>1, <1>2 DEF Calls
        <5> QED
          BY <1>2, <5>1, SpeedsAreNumbers DEF MotorState, Calls
      <4>3. s.unit = Unit(s.mode) /\ to_avr.speed[m] = call.speed /\ call.speed # 0
        BY <1>15, <4>1 DEF Armed, GoalAsked
      <4>4. s.mode = "MOTOR_ON_ANGLE" => Ahead(s.togo, call.speed)
        BY <4>1, <4>2 DEF Armed, GoalAsked, Ahead
      <4> QED
        BY <4>1, <4>3, <4>4 DEF Settled, Goals
    <3> QED
      BY <1>15, <3>1 DEF Set, Settled, Goals
  <2>6. \A n \in MotorPorts : ~Busy(n) \/ n = m
    BY DEF Busy
  <2> QED
    BY <2>2, <2>3, <2>4, <2>5, <2>6
<1>16. ASSUME NEW mode \in Goals, GoalStepsLeft(mode)
       PROVE  MotorsInv'
    BY <1>9, <1>10, <1>11, <1>12, <1>16 DEF GoalStepsLeft
<1> QED
    BY <1>2, <1>7, <1>8, <1>13, <1>14, <1>15, <1>16 DEF StepsLeft

---------------------------------------------------------------------------
(* The driver by itself *)

LEMMA MotorsInitInv == Init => MotorsInv
<1> SUFFICES ASSUME Init
             PROVE  MotorsInv
    OBVIOUS
<1>1. to_avr \in Command
    BY CommandAssumption DEF Init, IdleCommand, Command, PowerModes
<1>2. ASSUME NEW m \in MotorPorts
      PROVE  motors_state[m] \in MotorState /\ motors_state[m].mode = "MOTOR_STOP"
    BY DEF Init, MotorState, Modes, Units
<1>3. \A m \in MotorPorts : to_avr.speed[m] = 0
    BY DEF Init, IdleCommand
<1>4. MotorsTyped
    BY <1>1, <1>2 DEF Init, MotorsTyped, Still
<1> QED
    BY <1>2, <1>3, <1>4 DEF MotorsInv, Init, Settled, Goals

\* What a program asks for is a call that can be served.
LEMMA GoalInv ==
    ASSUME MotorsInv, NEW m \in MotorPorts, NEW mode \in Goals, NEW speed \in Speeds,
           NEW togo \in Int, NEW brake \in BOOLEAN,
           speed # 0 => GoalAsked(mode, speed, togo),
           Goal(mode, m, speed, togo, brake)
    PROVE  MotorsInv'
<1>1. CASE speed = 0
  <2>1. Called(StopSteps, m, 0, 0, brake, FALSE)
    BY <1>1 DEF Goal, Stop
  <2> QED
    BY <2>1, CalledInv, SpeedsAreNumbers
<1>2. CASE speed # 0
  <2>1. Called(GoalSteps(mode), m, speed, togo, FALSE, brake)
    BY <1>2 DEF Goal
  <2> QED
    BY <1>2, <2>1, CalledInv
<1> QED
    BY <1>1, <1>2

LEMMA StopInv ==
    ASSUME MotorsInv, NEW m \in MotorPorts, NEW brake \in BOOLEAN, Stop(m, brake)
    PROVE  MotorsInv'
<1>1. Called(StopSteps, m, 0, 0, brake, FALSE)
    BY DEF Stop
<1> QED
    BY <1>1, CalledInv, SpeedsAreNumbers

LEMMA CallInv ==
    ASSUME MotorsInv, NotTooNear, \A s \in Asked : Capped(s) \in Speeds, Call
    PROVE  MotorsInv'
<1> PICK m \in MotorPorts :
        \/ \E brake \in Brakes : Stop(m, brake)
        \/ \E s \in Asked : Rotate(m, s)
        \/ \E s \in Speeds, a \in Angles, brake \in Brakes : RotateAngle(m, s, a, brake)
        \/ \E s \in Speeds, t \in Times, brake \in Brakes : RotateTime(m, s, t, brake)
    BY DEF Call
<1>1. ASSUME NEW brake \in Brakes, Stop(m, brake)
      PROVE  MotorsInv'
    BY <1>1, StopInv, MotorsAssumption
<1>2. ASSUME NEW s \in Asked, Rotate(m, s)
      PROVE  MotorsInv'
  <2>1. Called(RotateSteps, m, Capped(s), 0, FALSE, FALSE) /\ Capped(s) \in Speeds
    BY <1>2 DEF Rotate
  <2> QED
    BY <2>1, CalledInv, SpeedsAreNumbers
<1>3. ASSUME NEW s \in Speeds, NEW a \in Angles, NEW brake \in Brakes,
             RotateAngle(m, s, a, brake)
      PROVE  MotorsInv'
  <2> DEFINE togo == IF s < 0 THEN -a ELSE a
  <2>1. s \in Int /\ a \in Nat /\ a > 1 /\ brake \in BOOLEAN
    BY CommandAssumption, MotorsAssumption DEF NotTooNear
  <2>2. togo \in Int /\ (s # 0 => GoalAsked("MOTOR_ON_ANGLE", s, togo))
    BY <2>1 DEF GoalAsked, Ahead
  <2>3. Goal("MOTOR_ON_ANGLE", m, s, togo, brake)
    BY <1>3 DEF RotateAngle
  <2> HIDE DEF togo
  <2> QED
    BY <2>1, <2>2, <2>3, GoalInv DEF Goals
<1>4. ASSUME NEW s \in Speeds, NEW t \in Times, NEW brake \in Brakes,
             RotateTime(m, s, t, brake)
      PROVE  MotorsInv'
  <2>1. t \in Int /\ t > 1 /\ brake \in BOOLEAN
    BY MotorsAssumption DEF NotTooNear
  <2>2. s # 0 => GoalAsked("MOTOR_ON_TIME", s, t)
    BY <2>1 DEF GoalAsked
  <2>3. Goal("MOTOR_ON_TIME", m, s, t, brake)
    BY <1>4 DEF RotateTime
  <2> QED
    BY <2>1, <2>2, <2>3, GoalInv DEF Goals
<1> QED
    BY <1>1, <1>2, <1>3, <1>4

LEMMA MotorsUnchanged ==
    ASSUME MotorsInv, UNCHANGED motorVars
    PROVE  MotorsInv'
BY DEF motorVars, MotorsInv, MotorsTyped, Busy, StepsLeft, GoalStepsLeft, Set, Armed

LEMMA IsrInv ==
    ASSUME MotorsInv, Isr
    PROVE  MotorsInv'
BY EdgesInv DEF Isr

LEMMA AheadIsPositive ==
    ASSUME NEW a \in Int, NEW b \in Int, Ahead(a, b)
    PROVE  a * b > 0
<1>1. CASE a > 0 /\ b > 0
    BY <1>1
<1>2. CASE a < 0 /\ b < 0
  <2>1. (-a) * (-b) > 0
    BY <1>2
  <2>2. (-a) * (-b) = a * b
    OBVIOUS
  <2> QED
    BY <2>1, <2>2
<1> QED
    BY <1>1, <1>2 DEF Ahead

LEMMA MotorsSafe == MotorsInv => RunsAsAsked
<1> SUFFICES ASSUME MotorsInv
             PROVE  RunsAsAsked
    OBVIOUS
<1> USE DEF MotorsInv
<1>1. ASSUME NEW m \in MotorPorts
      PROVE  /\ motors_state[m] \in MotorState
             /\ to_avr.speed[m] \in Int
  <2>1. to_avr.speed[m] \in Speeds
    BY DEF MotorsTyped, Command
  <2> QED
    BY <2>1, SpeedsAreNumbers DEF MotorsTyped
<1>2. TypeOK
    BY <1>1 DEF TypeOK, MotorsTyped, MotorState, Units, Goals, Unit
<1>3. NoRunaway
    BY DEF NoRunaway, Settled, Goals
<1>4. TargetAhead
  <2> SUFFICES ASSUME NEW m \in MotorPorts, ~Busy(m),
                      motors_state[m].mode = "MOTOR_ON_ANGLE"
               PROVE  motors_state[m].togo * to_avr.speed[m] > 0
    BY DEF TargetAhead
  <2>1. Ahead(motors_state[m].togo, to_avr.speed[m])
    BY DEF Settled
  <2>2. motors_state[m].togo \in Int
    BY <1>1 DEF MotorState
  <2> QED
    BY <1>1, <2>1, <2>2, AheadIsPositive
<1> QED
    BY <1>2, <1>3, <1>4 DEF RunsAsAsked

\* Whatever a program asks of the driver, and whenever the interrupt comes, a
\* motor that no call is changing runs as it was asked to: one in MOTOR_STOP has
\* no speed, one with a goal has a speed and its target ahead of it.
THEOREM MotorsRunAsAsked ==
    ASSUME NotTooNear, \A s \in Asked : Capped(s) \in Speeds
    PROVE  Spec => []RunsAsAsked
<1>1. MotorsInv /\ [Next]_motorVars => MotorsInv'
    BY CallInv, StepInv, IsrInv, TickInv, MotorsUnchanged DEF Next
<1> QED
    BY <1>1, MotorsInitInv, MotorsSafe, PTL DEF Spec

---------------------------------------------------------------------------
(* The driver under a command file *)

Lines(Pieces) == Seq(Pieces) \ {<<>>}
Places == {"none", "read", "do", "move", "play", "wait", "over"}

Errors == {"NO_ERROR", "INCORRECT_ARGC", "INVALID_PARAMETER", "COMMAND_NOT_FOUND"}

Interpreter(Pieces) ==
    [place : Places, todo : Seq(Lines(Pieces)), piece : Pieces \cup {Blank}, n : Nat,
     eof : BOOLEAN, error : Errors, motors : SUBSET MotorPorts, left : Nat, line : Nat,
     inside : BOOLEAN]

Tones == [cycles : Nat, on : BOOLEAN, asked : Nat, out : BOOLEAN]

RcmdTyped(Pieces) == rcmd \in Interpreter(Pieces) /\ tone \in Tones

\* The motors of a move are started, and a tone sounds, with arguments that
\* were looked at.
Checked ==
    /\ At("move") => /\ rcmd.piece.cmd = "move" /\ rcmd.piece.argc = 4
                     /\ ~MoveError(rcmd.piece.args)
    /\ At("play") => rcmd.piece.cmd = "play" /\ rcmd.piece.argc > 2

RcmdInv(Pieces) == MotorsInv /\ RcmdTyped(Pieces) /\ Checked

LEMMA PlacesAre ==
    /\ "none" \in Places /\ "read" \in Places /\ "do" \in Places /\ "move" \in Places
    /\ "play" \in Places /\ "wait" \in Places /\ "over" \in Places
BY DEF Places

LEMMA ErrorsAre ==
    /\ "NO_ERROR" \in Errors /\ "INCORRECT_ARGC" \in Errors
    /\ "INVALID_PARAMETER" \in Errors /\ "COMMAND_NOT_FOUND" \in Errors
BY DEF Errors

\* Reading a piece leaves lines of such pieces.
LEMMA ReadTyped ==
    ASSUME NEW Pieces, RcmdTyped(Pieces), Read
    PROVE  RcmdTyped(Pieces)' /\ rcmd'.place = "do"
<1> DEFINE number == rcmd.n + 1
           next == IF rcmd.inside THEN rcmd.line ELSE rcmd.line + 1
           Piece == Pieces \cup {Blank}
<1>1. /\ rcmd.todo \in Seq(Lines(Pieces)) /\ tone' = tone
      /\ number \in Nat /\ next \in Nat /\ rcmd.line + 1 \in Nat
  <2>1. rcmd.todo \in Seq(Lines(Pieces)) /\ rcmd.n \in Nat /\ rcmd.line \in Nat
    BY DEF RcmdTyped, Interpreter
  <2>2. tone' = tone
    BY DEF Read, Unmoved
  <2> QED
    BY <2>1, <2>2
<1>2. /\ rcmd \in [place : Places, todo : Seq(Lines(Pieces)), piece : Piece,
                   n : Nat, eof : BOOLEAN, error : Errors, motors : SUBSET MotorPorts,
                   left : Nat, line : Nat, inside : BOOLEAN]
      /\ tone \in Tones
      /\ Blank \in Piece /\ "do" \in Places /\ Pieces \subseteq Piece
    BY PlacesAre DEF RcmdTyped, Interpreter
<1>3. SUFFICES /\ rcmd' \in [place : Places, todo : Seq(Lines(Pieces)), piece : Piece,
                   n : Nat, eof : BOOLEAN, error : Errors, motors : SUBSET MotorPorts,
                   left : Nat, line : Nat, inside : BOOLEAN]
               /\ rcmd'.place = "do"
    BY <1>1, <1>2 DEF RcmdTyped, Interpreter
<1>4. CASE rcmd.todo = <<>>
  <2> DEFINE next1 == rcmd.line + 1
  <2>1. rcmd' = [rcmd EXCEPT !.place = "do", !.piece = Blank, !.eof = TRUE,
                             !.n = number, !.line = next1]
    BY <1>4 DEF Read, Numbered
  <2>2. next1 \in Nat
    BY <1>1
  <2> HIDE DEF number, next1, Piece
  <2> QED
    BY <1>1, <1>2, <2>1, <2>2
<1>5. CASE rcmd.todo # <<>>
  <2> DEFINE line == Head(rcmd.todo)
             todo == Following(line) \o Tail(rcmd.todo)
             piece == Head(line)
             inside == Len(line) > 1
  <2>1. line \in Seq(Pieces) /\ line # <<>> /\ Tail(rcmd.todo) \in Seq(Lines(Pieces))
    BY <1>1, <1>5, HeadTailProperties DEF Lines
  <2>2. piece \in Piece /\ Len(line) \in Nat \ {0} /\ inside \in BOOLEAN
    BY <1>2, <2>1, HeadTailProperties
  <2>3. Following(line) \in Seq(Lines(Pieces))
    <3>1. CASE Len(line) = 1
      <4>1. <<>> \in Seq(Lines(Pieces))
        OBVIOUS
      <4> QED
        BY <3>1, <4>1 DEF Following
    <3>2. CASE Len(line) # 1
      <4>1. Tail(line) \in Seq(Pieces) /\ Len(Tail(line)) = Len(line) - 1
        BY <2>1, HeadTailProperties
      <4>2. Tail(line) \in Lines(Pieces)
        <5>1. Len(Tail(line)) # 0
          BY <2>2, <3>2, <4>1
        <5>2. Tail(line) # <<>>
          <6>1. Len(<<>>) = 0
            OBVIOUS
          <6> QED
            BY <5>1, <6>1, Zenon
        <5> QED
          BY <4>1, <5>2 DEF Lines
      <4> QED
        BY <3>2, <4>2 DEF Following
    <3> QED
      BY <3>1, <3>2
  <2>4. todo \in Seq(Lines(Pieces))
    BY <2>1, <2>3, ConcatProperties
  <2>5. PICK eof \in BOOLEAN :
            rcmd' = [rcmd EXCEPT !.place = "do", !.piece = piece, !.todo = todo,
                       !.eof = eof, !.n = number, !.line = next, !.inside = inside]
    BY <1>5 DEF Read, Numbered
  <2> HIDE DEF todo, piece, line, inside, number, next, Piece
  <2> QED
    BY <1>1, <1>2, <2>2, <2>4, <2>5
<1> QED
    BY <1>4, <1>5

\* The changes of the interpreter's state.
LEMMA RcmdChanges ==
    ASSUME NEW Pieces, NEW r \in Interpreter(Pieces)
    PROVE  /\ Onward(r) \in Interpreter(Pieces) /\ Onward(r).place \in {"over", "read"}
           /\ \A error \in Errors : /\ Failed(r, error) \in Interpreter(Pieces)
                                    /\ Failed(r, error).place = "over"
           /\ \A place \in Places : [r EXCEPT !.place = place] \in Interpreter(Pieces)
           /\ \A S \in SUBSET MotorPorts :
                  /\ [r EXCEPT !.motors = S] \in Interpreter(Pieces)
                  /\ \A place \in Places :
                         [r EXCEPT !.place = place, !.motors = S] \in Interpreter(Pieces)
           /\ \A left \in Nat :
                  /\ [r EXCEPT !.left = left] \in Interpreter(Pieces)
                  /\ \A place \in Places :
                         [r EXCEPT !.place = place, !.left = left] \in Interpreter(Pieces)
<1> DEFINE Piece == Pieces \cup {Blank}
<1>1. r \in [place : Places, todo : Seq(Lines(Pieces)), piece : Piece, n : Nat,
             eof : BOOLEAN, error : Errors, motors : SUBSET MotorPorts, left : Nat,
             line : Nat, inside : BOOLEAN]
      /\ Interpreter(Pieces) =
            [place : Places, todo : Seq(Lines(Pieces)), piece : Piece, n : Nat,
             eof : BOOLEAN, error : Errors, motors : SUBSET MotorPorts, left : Nat,
             line : Nat, inside : BOOLEAN]
    BY DEF Interpreter
<1> HIDE DEF Piece
<1>2. /\ Onward(r) \in Interpreter(Pieces) /\ Onward(r).place \in {"over", "read"}
    BY <1>1, PlacesAre DEF Onward
<1>3. \A error \in Errors : /\ Failed(r, error) \in Interpreter(Pieces)
                            /\ Failed(r, error).place = "over"
    BY <1>1, PlacesAre DEF Failed
<1>4. \A place \in Places : [r EXCEPT !.place = place] \in Interpreter(Pieces)
    BY <1>1
<1>5. ASSUME NEW S \in SUBSET MotorPorts
      PROVE  /\ [r EXCEPT !.motors = S] \in Interpreter(Pieces)
             /\ \A place \in Places :
                    [r EXCEPT !.place = place, !.motors = S] \in Interpreter(Pieces)
    BY <1>1
<1>6. ASSUME NEW left \in Nat
      PROVE  /\ [r EXCEPT !.left = left] \in Interpreter(Pieces)
             /\ \A place \in Places :
                    [r EXCEPT !.place = place, !.left = left] \in Interpreter(Pieces)
    BY <1>1
<1> QED
    BY <1>2, <1>3, <1>4, <1>5, <1>6

LEMMA Fails ==
    ASSUME NEW Pieces, NEW r \in Interpreter(Pieces),
           NEW q \in {Failed(r, "INCORRECT_ARGC"), Failed(r, "INVALID_PARAMETER"),
                      Failed(r, "COMMAND_NOT_FOUND")}
    PROVE  q \in Interpreter(Pieces) /\ q.place = "over"
<1>1. CASE q = Failed(r, "INCORRECT_ARGC")
    BY <1>1, RcmdChanges, ErrorsAre
<1>2. CASE q = Failed(r, "INVALID_PARAMETER")
    BY <1>2, RcmdChanges, ErrorsAre
<1>3. CASE q = Failed(r, "COMMAND_NOT_FOUND")
    BY <1>3, RcmdChanges, ErrorsAre
<1> QED
    BY <1>1, <1>2, <1>3

\* The piece at hand is one of the file's, unless it is blank.
LEMMA PieceServed ==
    ASSUME NEW Pieces, PiecesServed(Pieces), RcmdTyped(Pieces), rcmd.piece.cmd # ""
    PROVE  /\ rcmd.piece \in Pieces /\ rcmd.piece.argc \in Nat
           /\ MoveServed(rcmd.piece) /\ ToneServed(rcmd.piece) /\ WaitServed(rcmd.piece)
<1>1. rcmd.piece \in Pieces \cup {Blank} /\ Blank.cmd = ""
    BY DEF RcmdTyped, Interpreter, Blank
<1> QED
    BY <1>1 DEF PiecesServed

\* A move that was found right starts each motor with arguments it can serve.
LEMMA ActivateInv ==
    ASSUME NEW Pieces, PiecesServed(Pieces), RcmdInv(Pieces), Activate
    PROVE  RcmdInv(Pieces)'
<1>1. /\ MotorsInv /\ RcmdTyped(Pieces) /\ rcmd \in Interpreter(Pieces)
      /\ rcmd.motors \subseteq MotorPorts /\ tone' = tone
    BY DEF RcmdInv, RcmdTyped, Interpreter, Activate
<1>2. /\ At("move") /\ rcmd.piece.cmd = "move" /\ rcmd.piece.argc = 4
      /\ ~MoveError(rcmd.piece.args)
    BY DEF RcmdInv, Checked, Activate
<1>3. CASE rcmd.motors = {} /\ rcmd' = Onward(rcmd) /\ UNCHANGED motorVars
  <2>1. MotorsInv'
    BY <1>1, <1>3, MotorsUnchanged
  <2>2. rcmd' \in Interpreter(Pieces) /\ rcmd'.place \in {"over", "read"}
    BY <1>1, <1>3, RcmdChanges
  <2> QED
    BY <1>1, <2>1, <2>2 DEF RcmdInv, RcmdTyped, Checked, At
<1>4. ASSUME NEW m \in rcmd.motors,
             LET speed == Nth(rcmd.piece.args[2], m) IN
             IF speed # 0 THEN RotateTime(m, speed, Nth(rcmd.piece.args[3], m), FALSE)
             ELSE Stop(m, TRUE),
             rcmd' = [rcmd EXCEPT !.motors = @ \ {m}]
      PROVE  RcmdInv(Pieces)'
  <2> DEFINE speed == Nth(rcmd.piece.args[2], m)
             ms == Nth(rcmd.piece.args[3], m)
  <2>1. m \in MotorPorts
    BY <1>1
  <2>2. /\ speed \in Speeds
        /\ speed # 0 => ms \in Nat /\ ms > 1
    <3>1. rcmd.piece \in Pieces /\ MoveServed(rcmd.piece)
      BY <1>1, <1>2, PieceServed
    <3>2. /\ speed \in Int
          /\ speed \in -100 .. 100 => speed \in Speeds /\ (speed # 0 => ms \in Nat \ {1})
      BY <1>2, <2>1, <3>1 DEF MoveServed
    <3>3. ~(speed > 100 \/ speed < -100) /\ ~(speed # 0 /\ ms = 0)
      BY <1>2, <2>1 DEF MoveError
    <3> HIDE DEF speed, ms
    <3> QED
      BY <3>2, <3>3
  <2>3. MotorsInv'
    <3>1. CASE speed # 0
      <4>1. Goal("MOTOR_ON_TIME", m, speed, ms, FALSE)
        BY <1>4, <3>1 DEF RotateTime
      <4>2. GoalAsked("MOTOR_ON_TIME", speed, ms) /\ ms \in Int
        BY <2>2, <3>1 DEF GoalAsked
      <4> HIDE DEF speed, ms
      <4> QED
        BY <1>1, <2>1, <2>2, <4>1, <4>2, GoalInv DEF Goals
    <3>2. CASE speed = 0
      <4>1. Stop(m, TRUE)
        BY <1>4, <3>2
      <4> QED
        BY <1>1, <2>1, <4>1, StopInv
    <3> QED
      BY <3>1, <3>2
  <2>4. /\ rcmd' \in Interpreter(Pieces)
        /\ rcmd'.piece = rcmd.piece /\ rcmd'.place = rcmd.place
    <3> DEFINE S == rcmd.motors \ {m}
    <3>1. S \in SUBSET MotorPorts /\ rcmd' = [rcmd EXCEPT !.motors = S]
      BY <1>1, <1>4
    <3> HIDE DEF S
    <3>2. rcmd' \in Interpreter(Pieces)
      BY <1>1, <3>1, RcmdChanges
    <3> QED
      BY <1>1, <3>1, <3>2 DEF Interpreter
  <2> QED
    BY <1>1, <1>2, <2>3, <2>4 DEF RcmdInv, RcmdTyped, Checked, At
<1> QED
    BY <1>3, <1>4 DEF Activate

LEMMA ToneTyped ==
    ASSUME NEW freq \in Nat, NEW ms \in Nat
    PROVE  Cycles(freq, ms) \in Nat /\ (freq * ms) \div WavePart \in Nat
<1>1. Word \in Nat /\ Word > 0 /\ WavePart \in Nat /\ WavePart > 0
    BY RcmdAssumption
<1>2. freq * ms \in Nat
    OBVIOUS
<1>3. (freq * ms) % Word \in Nat
    BY <1>1, <1>2
<1>4. ((freq * ms) % Word) \div WavePart \in Nat /\ (freq * ms) \div WavePart \in Nat
    BY <1>1, <1>2, <1>3
<1> QED
    BY <1>1, <1>4 DEF Cycles

\* The other steps of the interpreter leave the driver alone.
LEMMA ParseInv ==
    ASSUME NEW Pieces, PiecesServed(Pieces), RcmdInv(Pieces),
           Read \/ Move \/ Play \/ PlayOn \/ Wait \/ WaitOver \/ Write \/ Exec \/ Other
    PROVE  RcmdInv(Pieces)'
<1>1. /\ MotorsInv /\ RcmdTyped(Pieces) /\ rcmd \in Interpreter(Pieces) /\ tone \in Tones
    BY DEF RcmdInv, RcmdTyped
<1>2. MotorsInv'
  <2>1. UNCHANGED motorVars
    BY DEF Read, Move, Play, PlayOn, Wait, WaitOver, Write, Exec, Other, Unmoved
  <2> QED
    BY <1>1, <2>1, MotorsUnchanged
<1>3. SUFFICES RcmdTyped(Pieces)' /\ Checked'
    BY <1>2 DEF RcmdInv
<1>4. CASE Read
    BY <1>1, <1>4, ReadTyped DEF Checked, At
<1>5. CASE Move
  <2> DEFINE S == Range(rcmd.piece.args[1])
  <2>1. tone' = tone /\ rcmd.piece.cmd = "move"
    BY <1>5 DEF Move, Unmoved
  <2>2. CASE rcmd' \in {Failed(rcmd, "INCORRECT_ARGC"), Failed(rcmd, "INVALID_PARAMETER")}
    BY <1>1, <2>1, <2>2, Fails DEF RcmdTyped, Checked, At
  <2>3. CASE /\ rcmd.piece.argc = 4 /\ ~MoveError(rcmd.piece.args)
             /\ rcmd' = [rcmd EXCEPT !.place = "move", !.motors = S]
    <3>1. S \in SUBSET MotorPorts
      BY <2>3 DEF MoveError, Range
    <3> HIDE DEF S
    <3>2. rcmd' \in Interpreter(Pieces)
      BY <1>1, <2>3, <3>1, RcmdChanges, PlacesAre
    <3>3. rcmd'.piece = rcmd.piece /\ rcmd'.place = "move"
      BY <1>1, <2>3 DEF Interpreter
    <3> QED
      BY <1>1, <2>1, <2>3, <3>2, <3>3 DEF RcmdTyped, Checked, At
  <2> QED
    BY <1>5, <2>2, <2>3 DEF Move
<1>6. CASE Play
  <2> DEFINE freq == rcmd.piece.args[1]
             ms == rcmd.piece.args[2]
  <2>1. rcmd.piece.cmd = "play"
    BY <1>6 DEF Play
  <2>2. CASE /\ rcmd' \in {Failed(rcmd, "INCORRECT_ARGC"), Failed(rcmd, "INVALID_PARAMETER")}
             /\ tone' = tone
    BY <1>1, <2>2, Fails DEF RcmdTyped, Checked, At
  <2>3. CASE /\ ~(rcmd.piece.argc < 3)
             /\ rcmd' = [rcmd EXCEPT !.place = "play"]
             /\ tone' = [tone EXCEPT !.cycles = Cycles(freq, ms),
                                     !.asked = (freq * ms) \div WavePart]
    <3>1. freq \in Nat /\ ms \in Nat
      <4>1. rcmd.piece.argc \in Nat /\ ToneServed(rcmd.piece)
        BY <1>1, <2>1, PieceServed
      <4> QED
        BY <2>1, <2>3, <4>1 DEF ToneServed
    <3>2. /\ rcmd' \in Interpreter(Pieces)
          /\ rcmd'.place = "play" /\ rcmd'.piece = rcmd.piece
      BY <1>1, <2>3, RcmdChanges, PlacesAre DEF Interpreter
    <3>4. rcmd.piece.argc > 2
      <4>1. rcmd.piece.argc \in Nat
        BY <1>1, <2>1, PieceServed
      <4> QED
        BY <2>3, <4>1
    <3>3. tone' \in Tones
      <4> DEFINE c == Cycles(freq, ms)
                 a == (freq * ms) \div WavePart
      <4>1. c \in Nat /\ a \in Nat
        BY <3>1, ToneTyped
      <4>2. tone' = [tone EXCEPT !.cycles = c, !.asked = a]
        BY <2>3
      <4> HIDE DEF c, a
      <4> QED
        BY <1>1, <4>1, <4>2 DEF Tones
    <3> QED
      BY <2>1, <3>2, <3>3, <3>4 DEF RcmdTyped, Checked, At
  <2> QED
    BY <1>6, <2>2, <2>3 DEF Play
<1>7. CASE PlayOn
  <2>1. tone' \in Tones
    BY <1>1, <1>7 DEF PlayOn, Tones
  <2>2. rcmd' \in Interpreter(Pieces) /\ rcmd'.place \in {"wait", "over", "read"}
    <3>1. CASE rcmd.piece.argc = 4
      <4> DEFINE ms == rcmd.piece.args[2]
      <4>1. ms \in Nat
        <5>1. rcmd.piece.cmd = "play" /\ rcmd.piece.argc > 2
          BY <1>7 DEF RcmdInv, Checked, PlayOn
        <5>2. ToneServed(rcmd.piece)
          BY <1>1, <5>1, PieceServed
        <5> QED
          BY <5>1, <5>2 DEF ToneServed
      <4>2. rcmd' = [rcmd EXCEPT !.place = "wait", !.left = ms]
        BY <1>7, <3>1 DEF PlayOn
      <4> HIDE DEF ms
      <4>3. rcmd' \in Interpreter(Pieces)
        BY <1>1, <4>1, <4>2, RcmdChanges, PlacesAre
      <4> QED
        BY <1>1, <4>2, <4>3 DEF Interpreter
    <3>2. CASE rcmd.piece.argc # 4
      BY <1>1, <1>7, <3>2, RcmdChanges DEF PlayOn
    <3> QED
      BY <3>1, <3>2
  <2> QED
    BY <2>1, <2>2 DEF RcmdTyped, Checked, At
<1>8. CASE Wait
  <2>1. tone' = tone
    BY <1>8 DEF Wait, Unmoved
  <2>2. rcmd' \in Interpreter(Pieces) /\ rcmd'.place \in {"wait", "over"}
    <3>1. CASE rcmd' \in {Failed(rcmd, "INCORRECT_ARGC"), Failed(rcmd, "INVALID_PARAMETER")}
      BY <1>1, <3>1, Fails
    <3>2. CASE /\ rcmd.piece.argc = 2
               /\ rcmd' = [rcmd EXCEPT !.place = "wait", !.left = rcmd.piece.args[1]]
      <4> DEFINE ms == rcmd.piece.args[1]
      <4>1. ms \in Nat
        <5>1. rcmd.piece.cmd = "wait"
          BY <1>8 DEF Wait
        <5>2. WaitServed(rcmd.piece)
          BY <1>1, <5>1, PieceServed
        <5> QED
          BY <3>2, <5>1, <5>2 DEF WaitServed
      <4>2. rcmd' = [rcmd EXCEPT !.place = "wait", !.left = ms]
        BY <3>2
      <4> HIDE DEF ms
      <4>3. rcmd' \in Interpreter(Pieces)
        BY <1>1, <4>1, <4>2, RcmdChanges, PlacesAre
      <4> QED
        BY <1>1, <4>2, <4>3 DEF Interpreter
    <3> QED
      BY <1>8, <3>1, <3>2 DEF Wait
  <2> QED
    BY <1>1, <2>1, <2>2 DEF RcmdTyped, Checked, At
<1>9. CASE WaitOver \/ Write \/ Exec \/ Other
  <2>1. tone' = tone
    BY <1>9 DEF WaitOver, Write, Exec, Other, Unmoved
  <2>2. rcmd' \in {Onward(rcmd), Failed(rcmd, "INCORRECT_ARGC"),
                   Failed(rcmd, "COMMAND_NOT_FOUND")}
    BY <1>9 DEF WaitOver, Write, Exec, Other
  <2>3. rcmd' \in Interpreter(Pieces) /\ rcmd'.place \in {"over", "read"}
    <3>1. CASE rcmd' = Onward(rcmd)
      BY <1>1, <3>1, RcmdChanges
    <3>2. CASE rcmd' \in {Failed(rcmd, "INCORRECT_ARGC"), Failed(rcmd, "COMMAND_NOT_FOUND")}
      BY <1>1, <3>2, Fails
    <3> QED
      BY <2>2, <3>1, <3>2
  <2> QED
    BY <1>1, <2>1, <2>3 DEF RcmdTyped, Checked, At
<1> QED
    BY <1>4, <1>5, <1>6, <1>7, <1>8, <1>9

LEMMA RcmdTickInv ==
    ASSUME NEW Pieces, RcmdInv(Pieces), RcmdTick
    PROVE  RcmdInv(Pieces)'
<1> DEFINE left == IF rcmd.left = 0 THEN 0 ELSE rcmd.left - 1
<1>1. /\ MotorsInv' /\ tone' = tone /\ tone \in Tones
      /\ rcmd \in Interpreter(Pieces) /\ rcmd' = [rcmd EXCEPT !.left = left]
    BY TickInv DEF RcmdInv, RcmdTyped, RcmdTick
<1>2. left \in Nat
    BY <1>1 DEF Interpreter
<1> HIDE DEF left
<1>3. rcmd' \in Interpreter(Pieces)
    BY <1>1, <1>2, RcmdChanges
<1>4. rcmd'.place = rcmd.place /\ rcmd'.piece = rcmd.piece
    BY <1>1 DEF Interpreter
<1> QED
    BY <1>1, <1>3, <1>4 DEF RcmdInv, RcmdTyped, Checked, At

LEMMA SoundIsrTyped ==
    ASSUME tone \in Tones, SoundIsr
    PROVE  tone' \in Tones /\ rcmd' = rcmd /\ UNCHANGED motorVars
<1> DEFINE c == (tone.cycles + Word - 1) % Word
           on == tone.cycles # 0
           out == rcmd.place = "play"
<1>1. c \in Nat /\ on \in BOOLEAN /\ out \in BOOLEAN
    BY RcmdAssumption DEF Tones
<1>2. tone' = [tone EXCEPT !.cycles = c, !.on = on, !.out = out]
    BY DEF SoundIsr, WaveOut, Tones
<1> HIDE DEF c, on, out
<1> QED
    BY <1>1, <1>2 DEF Tones, SoundIsr

LEMMA RcmdInitInv ==
    ASSUME NEW Pieces, PiecesServed(Pieces), RcmdInit
    PROVE  RcmdInv(Pieces)
<1>1. MotorsInv
    BY MotorsInitInv DEF RcmdInit
<1>2. tone \in Tones
    BY DEF RcmdInit, Tones
<1>3. PICK f \in Files :
        rcmd = [place |-> IF f = <<>> THEN "none" ELSE "read", todo |-> f, piece |-> Blank,
                n |-> 0, eof |-> FALSE, error |-> "NO_ERROR", motors |-> {}, left |-> 0,
                line |-> 0, inside |-> FALSE]
    BY DEF RcmdInit
<1>4. rcmd \in Interpreter(Pieces) /\ rcmd.place \in {"none", "read"}
  <2> DEFINE place == IF f = <<>> THEN "none" ELSE "read"
  <2>1. f \in Seq(Lines(Pieces)) /\ place \in Places /\ place \in {"none", "read"}
    BY PlacesAre DEF PiecesServed, Lines
  <2>2. rcmd = [place |-> place, todo |-> f, piece |-> Blank,
                n |-> 0, eof |-> FALSE, error |-> "NO_ERROR", motors |-> {}, left |-> 0,
                line |-> 0, inside |-> FALSE]
    BY <1>3
  <2> HIDE DEF place
  <2> QED
    BY <2>1, <2>2, ErrorsAre DEF Interpreter
<1> QED
    BY <1>1, <1>2, <1>4 DEF RcmdInv, RcmdTyped, Checked, At

LEMMA RcmdNextInv ==
    ASSUME NEW Pieces, PiecesServed(Pieces), NotTooNear,
           \A s \in Asked : Capped(s) \in Speeds, RcmdInv(Pieces), [RcmdNext]_rcmdVars
    PROVE  RcmdInv(Pieces)'
<1>1. MotorsInv /\ RcmdTyped(Pieces) /\ Checked
    BY DEF RcmdInv
<1>2. ASSUME rcmd' = rcmd, tone' = tone, MotorsInv'
      PROVE  RcmdInv(Pieces)'
    BY <1>1, <1>2 DEF RcmdInv, RcmdTyped, Checked, At
<1>3. CASE Call /\ UNCHANGED <<rcmd, tone>>
    BY <1>1, <1>2, <1>3, CallInv
<1>4. CASE (Step \/ Isr) /\ UNCHANGED <<rcmd, tone>>
    BY <1>1, <1>2, <1>4, StepInv, IsrInv
<1>5. CASE RcmdTick
    BY <1>5, RcmdTickInv
<1>6. CASE Parse
    BY <1>6, ParseInv, ActivateInv DEF Parse
<1>7. CASE SoundIsr
  <2>1. tone' \in Tones /\ rcmd' = rcmd /\ UNCHANGED motorVars
    BY <1>1, <1>7, SoundIsrTyped DEF RcmdTyped
  <2> QED
    BY <1>1, <2>1, MotorsUnchanged DEF RcmdInv, RcmdTyped, Checked, At
<1>8. CASE UNCHANGED rcmdVars
    BY <1>1, <1>2, <1>8, MotorsUnchanged DEF rcmdVars
<1> QED
    BY <1>3, <1>4, <1>5, <1>6, <1>7, <1>8 DEF RcmdNext

\* The same under a command file, whatever lines it is made of, as long as its
\* moves are not over after one tick.
THEOREM FilesRunMotorsAsAsked ==
    ASSUME NEW Pieces, PiecesServed(Pieces), NotTooNear,
           \A s \in Asked : Capped(s) \in Speeds
    PROVE  RcmdSpec => []RunsAsAsked
<1>1. RcmdInit => RcmdInv(Pieces)
    BY RcmdInitInv
<1>2. RcmdInv(Pieces) /\ [RcmdNext]_rcmdVars => RcmdInv(Pieces)'
    BY RcmdNextInv
<1>3. RcmdInv(Pieces) => RunsAsAsked
    BY MotorsSafe DEF RcmdInv
<1> QED
    BY <1>1, <1>2, <1>3, PTL DEF RcmdSpec

---------------------------------------------------------------------------
(* What the interpreter reports and plays *)

\* Every line is one piece, and is counted once.
LineCounted ==
    /\ rcmd.n = rcmd.line /\ ~rcmd.inside
    /\ \A k \in DOMAIN rcmd.todo : Len(rcmd.todo[k]) = 1

\* A tone is prepared with waves to go, and the one wave that can end before it
\* is on leaves it no more.
Sounding ==
    /\ tone.asked < Word
    /\ At("play") => tone.cycles <= tone.asked /\ (~tone.out => tone.cycles > 0)
    /\ ~At("play") => ~tone.out /\ (tone.on => tone.cycles <= tone.asked)

LinesInv(Pieces) == RcmdInv(Pieces) /\ LineCounted /\ Sounding

LEMMA CountDown ==
    ASSUME NEW c \in Nat, c <= Word
    PROVE  /\ c > 0 => (c + Word - 1) % Word = c - 1
           /\ (c + Word - 1) % Word \in Nat
BY RcmdAssumption

\* The cycles of a tone are one less than the waves it is asked for.
LEMMA ToneStart ==
    ASSUME NEW freq \in Nat, NEW ms \in Nat, freq * ms < Word,
           freq >= MinFreq, ms >= MinMs, MinFreq * MinMs >= 2 * WavePart
    PROVE  LET waves == (freq * ms) \div WavePart IN
           /\ Cycles(freq, ms) = waves - 1 /\ waves - 1 > 0
           /\ waves < Word /\ waves \in Nat
<1> DEFINE both == freq * ms
           waves == both \div WavePart
<1>1. Word \in Nat /\ WavePart \in Nat /\ WavePart > 0 /\ MinFreq \in Nat /\ MinMs \in Nat
    BY RcmdAssumption
<1>2. both \in Nat /\ both >= MinFreq * MinMs
    BY <1>1
<1>3. both >= 2 * WavePart /\ both < Word /\ both % Word = both
    BY <1>1, <1>2
<1> HIDE DEF both
<1>4. waves \in Nat /\ waves >= 2 /\ waves <= both
    BY <1>1, <1>2, <1>3
<1>5. (waves + Word - 1) % Word = waves - 1
  <2> HIDE DEF waves
  <2>1. waves \in Nat /\ waves > 0 /\ waves <= Word
    BY <1>1, <1>2, <1>3, <1>4
  <2> QED
    BY <2>1, CountDown
<1>6. Cycles(freq, ms) = ((both % Word) \div WavePart + Word - 1) % Word
    BY DEF Cycles, both
<1> QED
    BY <1>1, <1>3, <1>4, <1>5, <1>6 DEF both

LEMMA LinesInitInv ==
    ASSUME NEW Pieces, PiecesServed(Pieces), LinesFit, RcmdInit
    PROVE  LinesInv(Pieces)
<1>1. RcmdInv(Pieces)
    BY RcmdInitInv
<1>2. LineCounted
    BY DEF RcmdInit, LineCounted, LinesFit
<1>3. Sounding
    BY RcmdAssumption DEF RcmdInit, Sounding, At
<1> QED
    BY <1>1, <1>2, <1>3 DEF LinesInv

LEMMA CountedNext ==
    ASSUME NEW Pieces, LinesInv(Pieces), [RcmdNext]_rcmdVars
    PROVE  LineCounted'
<1>1. rcmd \in Interpreter(Pieces) /\ LineCounted
    BY DEF LinesInv, RcmdInv, RcmdTyped
<1>2. ASSUME rcmd'.n = rcmd.n, rcmd'.line = rcmd.line, rcmd'.inside = rcmd.inside,
             rcmd'.todo = rcmd.todo
      PROVE  LineCounted'
    BY <1>1, <1>2 DEF LineCounted
<1>3. CASE Read
  <2>1. CASE rcmd.todo = <<>>
    <3>1. rcmd' = [rcmd EXCEPT !.place = "do", !.piece = Blank, !.eof = TRUE,
                               !.n = rcmd.n + 1, !.line = rcmd.line + 1]
      BY <1>3, <2>1 DEF Read, Numbered
    <3>2. /\ rcmd'.n = rcmd.n + 1 /\ rcmd'.line = rcmd.line + 1
          /\ rcmd'.inside = rcmd.inside /\ rcmd'.todo = rcmd.todo
      BY <1>1, <3>1 DEF Interpreter
    <3> QED
      BY <1>1, <3>2 DEF LineCounted
  <2>2. CASE rcmd.todo # <<>>
    <3> DEFINE line == Head(rcmd.todo)
               todo == Following(line) \o Tail(rcmd.todo)
    <3>1. rcmd.todo \in Seq(Lines(Pieces)) /\ rcmd.inside = FALSE
      BY <1>1 DEF Interpreter, LineCounted
    <3>2. Len(line) = 1 /\ Following(line) = <<>>
      BY <1>1, <2>2, <3>1 DEF LineCounted, Following
    <3>3. Tail(rcmd.todo) \in Seq(Lines(Pieces)) /\ todo = Tail(rcmd.todo)
      <4>1. Tail(rcmd.todo) \in Seq(Lines(Pieces))
        BY <2>2, <3>1, HeadTailProperties
      <4> QED
        BY <3>2, <4>1, ConcatEmptySeq
    <3>4. \A k \in DOMAIN todo : Len(todo[k]) = 1
      <4> DEFINE old == rcmd.todo
      <4>1. old \in Seq(Lines(Pieces)) /\ old # <<>>
            /\ \A k \in DOMAIN old : Len(old[k]) = 1
        BY <1>1, <2>2, <3>1 DEF LineCounted
      <4> HIDE DEF old
      <4>2. \A k \in DOMAIN Tail(old) : Len(Tail(old)[k]) = 1
        <5>1. /\ Tail(old) \in Seq(Lines(Pieces)) /\ Len(Tail(old)) = Len(old) - 1
              /\ \A k \in 1..Len(Tail(old)) : Tail(old)[k] = old[k + 1]
          BY <4>1, HeadTailProperties
        <5>2. ASSUME NEW k \in DOMAIN Tail(old)
              PROVE  Len(Tail(old)[k]) = 1
          <6>1. k \in 1..Len(Tail(old)) /\ k + 1 \in 1..Len(old)
            BY <4>1, <5>1
          <6>2. Tail(old)[k] = old[k + 1] /\ k + 1 \in DOMAIN old
            BY <4>1, <5>1, <6>1
          <6> QED
            BY <4>1, <6>2
        <5> QED
          BY <5>2
      <4> QED
        BY <3>3, <4>2 DEF old
    <3>5. PICK eof \in BOOLEAN :
              rcmd' = [rcmd EXCEPT !.place = "do", !.piece = Head(line), !.todo = todo,
                         !.eof = eof, !.n = rcmd.n + 1,
                         !.line = IF rcmd.inside THEN rcmd.line ELSE rcmd.line + 1,
                         !.inside = Len(line) > 1]
      BY <1>3, <2>2 DEF Read, Numbered
    <3>6. /\ rcmd'.n = rcmd.n + 1 /\ rcmd'.line = rcmd.line + 1
          /\ rcmd'.inside = FALSE /\ rcmd'.todo = todo
      <4> HIDE DEF todo, line
      <4> QED
        BY <1>1, <3>1, <3>2, <3>5 DEF Interpreter
    <3> HIDE DEF todo
    <3> QED
      BY <1>1, <3>4, <3>6 DEF LineCounted
  <2> QED
    BY <2>1, <2>2
<1>4. CASE \/ Move \/ Activate \/ Play \/ PlayOn \/ Wait \/ WaitOver \/ Write \/ Exec
           \/ Other \/ RcmdTick \/ UNCHANGED rcmd
  <2>1. /\ rcmd'.n = rcmd.n /\ rcmd'.line = rcmd.line
        /\ rcmd'.inside = rcmd.inside /\ rcmd'.todo = rcmd.todo
    BY <1>1, <1>4 DEF Interpreter, Move, Activate, Play, PlayOn, Wait, WaitOver, Write,
                     Exec, Other, RcmdTick, Onward, Failed
  <2> QED
    BY <1>2, <2>1
<1> QED
    BY <1>3, <1>4 DEF RcmdNext, Parse, SoundIsr, rcmdVars

LEMMA SoundingNext ==
    ASSUME NEW Pieces, PiecesServed(Pieces), MinFreq * MinMs >= 2 * WavePart,
           LinesInv(Pieces), [RcmdNext]_rcmdVars
    PROVE  Sounding'
<1>1. /\ rcmd \in Interpreter(Pieces) /\ tone \in Tones /\ RcmdTyped(Pieces)
      /\ Sounding /\ Word \in Nat
    BY RcmdAssumption DEF LinesInv, RcmdInv, RcmdTyped
<1>2. ASSUME tone' = tone, At("play")' <=> At("play")
      PROVE  Sounding'
    BY <1>1, <1>2 DEF Sounding
<1>3. CASE SoundIsr
  <2>1. rcmd' = rcmd /\ tone.on /\ ~tone.out
    BY <1>3 DEF SoundIsr
  <2>2. /\ tone'.cycles = (tone.cycles + Word - 1) % Word /\ tone'.asked = tone.asked
        /\ tone'.on = (tone.cycles # 0) /\ tone'.out = (rcmd.place = "play")
    BY <1>1, <1>3 DEF SoundIsr, WaveOut, Tones
  <2>3. tone.cycles \in Nat /\ tone.asked \in Nat /\ tone.cycles <= tone.asked
    BY <1>1, <2>1 DEF Sounding, Tones
  <2>4. tone.cycles > 0 => tone'.cycles = tone.cycles - 1
    BY <1>1, <2>2, <2>3, CountDown DEF Sounding
  <2> QED
    <3>1. At("play") => tone.cycles > 0 /\ tone'.out
      BY <1>1, <2>1, <2>2 DEF Sounding, At
    <3>2. ~At("play") => ~tone'.out
      BY <2>2 DEF At
    <3>3. tone'.on => tone.cycles > 0
      <4>1. tone'.on => tone.cycles # 0
        BY <2>2, Zenon
      <4> QED
        BY <2>3, <4>1
    <3>4. tone.cycles > 0 => tone'.cycles <= tone'.asked
      BY <2>2, <2>3, <2>4
    <3>5. tone'.asked < Word /\ (At("play")' <=> At("play"))
      BY <1>1, <2>1, <2>2 DEF Sounding, At
    <3> QED
      BY <3>1, <3>2, <3>3, <3>4, <3>5 DEF Sounding
<1>4. CASE Play
  <2> DEFINE freq == rcmd.piece.args[1]
             ms == rcmd.piece.args[2]
             waves == (freq * ms) \div WavePart
  <2>1. rcmd.piece.cmd = "play" /\ At("do")
    BY <1>4 DEF Play
  <2>2. CASE /\ rcmd' \in {Failed(rcmd, "INCORRECT_ARGC"), Failed(rcmd, "INVALID_PARAMETER")}
             /\ tone' = tone
    <3>1. rcmd'.place = "over"
      BY <1>1, <2>2, Fails
    <3> QED
      BY <1>1, <2>1, <2>2, <3>1 DEF Sounding, At
  <2>3. CASE /\ ~(rcmd.piece.argc < 3) /\ ~(freq < MinFreq \/ ms < MinMs)
             /\ rcmd' = [rcmd EXCEPT !.place = "play"]
             /\ tone' = [tone EXCEPT !.cycles = Cycles(freq, ms), !.asked = waves]
    <3>1. freq \in Nat /\ ms \in Nat /\ freq * ms < Word
      <4>1. rcmd.piece.argc \in Nat /\ ToneServed(rcmd.piece)
        BY <1>1, <2>1, PieceServed
      <4> QED
        BY <2>1, <2>3, <4>1 DEF ToneServed
    <3>2. /\ Cycles(freq, ms) = waves - 1 /\ waves - 1 > 0
          /\ waves < Word /\ waves \in Nat
      <4>1. freq >= MinFreq /\ ms >= MinMs
        BY <2>3, <3>1, RcmdAssumption
      <4> QED
        BY <3>1, <4>1, ToneStart
    <3>3. tone'.cycles = waves - 1 /\ tone'.asked = waves /\ rcmd'.place = "play"
      BY <1>1, <2>3, <3>2 DEF Tones, Interpreter
    <3> HIDE DEF waves
    <3> QED
      BY <3>2, <3>3 DEF Sounding, At
  <2> QED
    BY <1>4, <2>2, <2>3 DEF Play
<1>5. CASE PlayOn
  <2>1. rcmd'.place \in {"wait", "over", "read"}
    BY <1>1, <1>5 DEF PlayOn, Onward, Interpreter
  <2>2. /\ tone'.cycles = tone.cycles /\ tone'.asked = tone.asked /\ tone'.out = FALSE
    BY <1>1, <1>5 DEF PlayOn, Tones
  <2> QED
    BY <1>1, <1>5, <2>1, <2>2 DEF Sounding, At, PlayOn
<1>6. CASE Read \/ Move \/ Activate \/ Wait \/ WaitOver \/ Write \/ Exec \/ Other
  <2>1. tone' = tone /\ ~At("play")
    BY <1>6 DEF Read, Move, Activate, Wait, WaitOver, Write, Exec, Other, Unmoved, At
  <2>2. ~At("play")'
    BY <1>1, <1>6, <2>1 DEF Read, Move, Activate, Wait, WaitOver, Write, Exec, Other,
                           Onward, Failed, At, Interpreter
  <2> QED
    BY <1>2, <2>1, <2>2
<1>7. CASE RcmdTick
  <2>1. tone' = tone /\ rcmd'.place = rcmd.place
    BY <1>1, <1>7 DEF RcmdTick, Interpreter
  <2> QED
    BY <1>2, <2>1 DEF At
<1>8. CASE UNCHANGED <<rcmd, tone>>
    BY <1>2, <1>8 DEF At
<1> QED
    BY <1>3, <1>4, <1>5, <1>6, <1>7, <1>8 DEF RcmdNext, Parse, rcmdVars

\* The error of a file is reported with its line's number, if no line is longer
\* than the buffer, and a tone has never more waves to go than it was asked for, if
\* its frequency times its duration fits and the least tone has two waves.
THEOREM FilesAreObeyed ==
    ASSUME NEW Pieces, PiecesServed(Pieces), NotTooNear, LinesFit,
           \A s \in Asked : Capped(s) \in Speeds, MinFreq * MinMs >= 2 * WavePart
    PROVE  RcmdSpec => []LinesObeyed
<1>1. RcmdInit => LinesInv(Pieces)
    BY LinesInitInv
<1>2. LinesInv(Pieces) /\ [RcmdNext]_rcmdVars => LinesInv(Pieces)'
    BY RcmdNextInv, CountedNext, SoundingNext DEF LinesInv
<1>3. LinesInv(Pieces) => LinesObeyed
    BY DEF LinesInv, RcmdInv, RcmdTyped, LineCounted, Sounding, LinesObeyed, ErrorAtLine,
           ToneAsAsked
<1> QED
    BY <1>1, <1>2, <1>3, PTL DEF RcmdSpec
=============================================================================
