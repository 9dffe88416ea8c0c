------------------------------ MODULE MCMarvin ------------------------------
(***************************************************************************)
(* Instances of Marvin.  MainProgram has the shape of the tasks of main.c: *)
(* a consumer and a producer of one semaphore, a task that only computes,  *)
(* and a second sleeper.  The third may also wait for the semaphore and    *)
(* the fourth may end: two tasks can wait, and two alarms be pending.      *)
(***************************************************************************)
EXTENDS Marvin, TLC

CONSTANTS consumer, producer, display, sleeper, sem, aux

Sleep(ms) == [NoCall EXCEPT !.kind = "sleep", !.arg = ms]
On(kind, s) == [NoCall EXCEPT !.kind = kind, !.sem = s]
Plain(kind) == [NoCall EXCEPT !.kind = kind]

FourTasks == <<consumer, producer, display, sleeper>>

NoResource == [s \in {sem} |-> 0]

MainProgram ==
    consumer :> {On("dec", sem)}
    @@ producer :> {Sleep(2), On("inc", sem)}
    @@ display :> {Plain("yield_unlock"), On("dec", sem)}
    @@ sleeper :> {Sleep(1), Plain("exit")}

LiveTasks == <<consumer, producer>>

\* Two tasks that sleep, signal each other, and create and destroy a
\* semaphore: small enough for the liveness properties.  When both are
\* blocked the idle task runs.
LiveProgram ==
    consumer :> {On("dec", sem), Sleep(1), On("create", aux), On("destroy", aux)}
    @@ producer :> {Sleep(2), On("inc", sem), On("try_dec", sem),
                    Plain("lock"), Plain("yield")}

ThreeTasks == <<consumer, producer, sleeper>>

\* Three tasks that only sleep.
SleepersProgram ==
    consumer :> {Sleep(1)} @@ producer :> {Sleep(2)} @@ sleeper :> {Sleep(2)}

\* Every other instance meets the hypotheses of the theorems about the books.
ASSUME TwoOfEach == (TwoSleepers /\ TwoWaiters) \/ Program = SleepersProgram

=============================================================================
