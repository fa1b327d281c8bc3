------------------------ MODULE EdgeAISystemProofs -------------------------
(***************************************************************************)
(* Proofs about the life cycle of EdgeAISystem for every set of sensors    *)
(* and of signal-handler stop() tasks: the state stays well typed, and     *)
(* when main() returns every sensor loop has returned, every sensor is     *)
(* shut down and the last save came after the last experience.             *)
(*                                                                         *)
(* ExitQuiescent is not inductive: that main's stop() finds no loop        *)
(* running rests on what stop_streaming's gather waits for, on no task     *)
(* being created after main's stop() began, and on shutdown_all having     *)
(* visited every sensor still active.  SystemInv states these facts; each  *)
(* step of each task preserves it.                                         *)
(***************************************************************************)
EXTENDS EdgeAISystem, TLAPS

USE SystemAssumption, ManagerAssumption

-----------------------------------------------------------------------------
(* Type correctness.                                                       *)

\* main's own stop() is one of the stop() coroutines.
LEMMA MainIsStop == "main" \in Stops
BY DEF Stops

\* Every step of every task, and every signal, keeps the state well typed.
LEMMA NextType ==
    ASSUME TypeOK, Next
    PROVE  TypeOK'
<1> USE DEF TypeOK, ManagerTypeOK
<1>1. CASE StartBegin
    BY <1>1 DEF StartBegin, InitializeAllBegin
<1>2. CASE \E s \in Sensors : InitTask(s)
    BY <1>2 DEF InitTask, InitializeSensor, system_vars
<1>3. CASE StartStreams
    BY <1>3 DEF StartStreams, StartStreaming, LoopStates, TaskStates
<1>4. CASE \E t \in SignalStops : Signal(t)
    BY <1>4 DEF Signal, manager_vars, Stops, StopStates
<1>5. ASSUME NEW t \in Stops, StopBegin(t)
      PROVE  /\ ManagerTypeOK'
             /\ is_running' \in BOOLEAN
             /\ mon_cancel' \in BOOLEAN /\ save_cancel' \in BOOLEAN
             /\ stop_pc' \in [Stops -> StopStates]
             /\ join_set' \in [Stops -> SUBSET Sensors]
             /\ shut_pending' \in [Stops -> SUBSET Sensors]
             /\ UNCHANGED <<mon_pc, save_pc, dirty>>
    BY <1>5 DEF StopBegin, StopStreamingSet, StopStates
<1>6. CASE \E t \in SignalStops : RunStop(t)
    BY <1>6, <1>5 DEF RunStop, Stops, TaskStates
<1>7. CASE MainStops
    BY <1>7, <1>5, MainIsStop DEF MainStops, TaskStates
<1>8. CASE \E t \in Stops : StopJoin(t)
    BY <1>8 DEF StopJoin, ClearTasks, StopStates
<1>9. CASE \E t \in Stops : StopFinish(t)
    BY <1>9 DEF StopFinish, manager_vars, StopStates
<1>10. CASE \E t \in Stops, s \in Sensors : ShutdownTask(t, s)
    BY <1>10 DEF ShutdownTask, ShutdownSensor
<1>11. CASE \E s \in Sensors : LoopStep(s)
    BY <1>11 DEF LoopStep, StreamSensor, ReadSucceeds, LoopStates
<1>12. CASE MonitorTick
    BY <1>12 DEF MonitorTick, manager_vars, TaskStates
<1>13. CASE SaveTick
    BY <1>13 DEF SaveTick, manager_vars, TaskStates
<1>14. CASE Exited
    BY <1>14 DEF Exited, vars, manager_vars, system_vars
<1>15. QED
    BY <1>1, <1>2, <1>3, <1>4, <1>6, <1>7, <1>8, <1>9, <1>10, <1>11, <1>12,
       <1>13, <1>14 DEF Next, TaskStep

\* The state after __init__, setup_sensors and the handlers' installation
\* is well typed.
LEMMA InitType == Init => TypeOK
<1> SUFFICES ASSUME Init PROVE TypeOK
    OBVIOUS
<1>1. ManagerTypeOK
    <2>1. is_active \in [Sensors -> BOOLEAN] /\ stop_event \in BOOLEAN
        BY DEF Init, ManagerInit
    <2>2. loop_pc \in [Sensors -> LoopStates]
        BY DEF Init, ManagerInit, LoopStates
    <2>3. history \in [Sensors -> 0..BufferSize]
        BY DEF Init, ManagerInit
    <2>4. active_tasks \subseteq Sensors /\ init_pending \subseteq Sensors
        BY DEF Init, ManagerInit
    <2>5. QED
        BY <2>1, <2>2, <2>3, <2>4 DEF ManagerTypeOK
<1>2. QED
    BY <1>1 DEF Init, TypeOK, TaskStates, StopStates

\* The life cycle's state is well typed in every reachable state.
THEOREM SystemTypeCorrect == Spec => []TypeOK
<1>1. Init => TypeOK
    BY InitType
<1>2. TypeOK /\ [Next]_vars => TypeOK'
    BY NextType DEF vars, manager_vars, system_vars, TypeOK, ManagerTypeOK
<1>3. QED
    BY <1>1, <1>2, PTL DEF Spec

-----------------------------------------------------------------------------
(* Each step preserves SystemInv.                                          *)

\* start() up to the gather of initialize_all.
LEMMA StartBeginInv ==
    ASSUME SystemInv, TypeOK', StartBegin
    PROVE  SystemInv'
<1>1. TasksTracked'
    BY DEF SystemInv, TasksTracked, RunningLoops, TypeOK, Stops, StartBegin,
           InitializeAllBegin
<1>2. MainStopAfterStart'
    BY DEF SystemInv, MainStopAfterStart, RunningLoops, TypeOK, Stops,
           StartBegin, InitializeAllBegin
<1>3. JoinCoversLoops'
    BY DEF SystemInv, JoinCoversLoops, RunningLoops, TypeOK, Stops, StartBegin,
           InitializeAllBegin
<1>4. NoTasksBeforeStreaming'
    BY DEF SystemInv, NoTasksBeforeStreaming, RunningLoops, TypeOK, Stops,
           StartBegin, InitializeAllBegin
<1>5. InitializedAfterStart'
    BY DEF SystemInv, InitializedAfterStart, RunningLoops, TypeOK, Stops,
           StartBegin, InitializeAllBegin
<1>6. MainStopQuiet'
    BY DEF SystemInv, MainStopQuiet, RunningLoops, TypeOK, Stops, StartBegin,
           InitializeAllBegin
<1>7. ShutdownCoversActive'
    BY DEF SystemInv, ShutdownCoversActive, RunningLoops, TypeOK, Stops,
           StartBegin, InitializeAllBegin
<1>8. ExitQuiescent'
    BY DEF SystemInv, ExitQuiescent, RunningLoops, TypeOK, Stops, StartBegin,
           InitializeAllBegin
<1>9. QED
    BY <1>1, <1>2, <1>3, <1>4, <1>5, <1>6, <1>7, <1>8 DEF SystemInv

\* An initialize() task.
LEMMA InitTaskInv ==
    ASSUME SystemInv, TypeOK', NEW s \in Sensors, InitTask(s)
    PROVE  SystemInv'
<1>1. TasksTracked'
    BY DEF SystemInv, TasksTracked, RunningLoops, TypeOK, Stops, InitTask,
           InitializeSensor, Alive, system_vars
<1>2. MainStopAfterStart'
    BY DEF SystemInv, MainStopAfterStart, RunningLoops, TypeOK, Stops, InitTask,
           InitializeSensor, Alive, system_vars
<1>3. JoinCoversLoops'
    BY DEF SystemInv, JoinCoversLoops, RunningLoops, TypeOK, Stops, InitTask,
           InitializeSensor, Alive, system_vars
<1>4. NoTasksBeforeStreaming'
    BY DEF SystemInv, NoTasksBeforeStreaming, RunningLoops, TypeOK, Stops,
           InitTask, InitializeSensor, Alive, system_vars
<1>5. InitializedAfterStart'
    BY DEF SystemInv, InitializedAfterStart, RunningLoops, TypeOK, Stops,
           InitTask, InitializeSensor, Alive, system_vars
<1>6. MainStopQuiet'
    BY DEF SystemInv, MainStopQuiet, RunningLoops, TypeOK, Stops, InitTask,
           InitializeSensor, Alive, system_vars
<1>7. ShutdownCoversActive'
    BY DEF SystemInv, ShutdownCoversActive, InitializedAfterStart,
           MainStopAfterStart, ManagerTypeOK, RunningLoops, TypeOK, Stops,
           InitTask, InitializeSensor, Alive, system_vars
<1>8. ExitQuiescent'
    BY DEF SystemInv, ExitQuiescent, RunningLoops, TypeOK, Stops, InitTask,
           InitializeSensor, Alive, system_vars
<1>9. QED
    BY <1>1, <1>2, <1>3, <1>4, <1>5, <1>6, <1>7, <1>8 DEF SystemInv

\* The rest of start(): streaming, the tasks, is_running.
LEMMA StartStreamsInv ==
    ASSUME SystemInv, TypeOK', StartStreams
    PROVE  SystemInv'
<1>1. TasksTracked'
    BY DEF SystemInv, TasksTracked, RunningLoops, TypeOK, Stops, StartStreams,
           StartStreaming, InitializedAll
<1>2. MainStopAfterStart'
    BY DEF SystemInv, MainStopAfterStart, RunningLoops, TypeOK, Stops,
           StartStreams, StartStreaming, InitializedAll
<1>3. JoinCoversLoops'
    BY DEF SystemInv, JoinCoversLoops, NoTasksBeforeStreaming, RunningLoops,
           TypeOK, Stops, StartStreams, StartStreaming, InitializedAll
<1>4. NoTasksBeforeStreaming'
    BY DEF SystemInv, NoTasksBeforeStreaming, RunningLoops, TypeOK, Stops,
           StartStreams, StartStreaming, InitializedAll
<1>5. InitializedAfterStart'
    BY DEF SystemInv, InitializedAfterStart, RunningLoops, TypeOK, Stops,
           StartStreams, StartStreaming, InitializedAll
<1>6. MainStopQuiet'
    BY DEF SystemInv, MainStopQuiet, MainStopAfterStart, RunningLoops, TypeOK,
           Stops, StartStreams, StartStreaming, InitializedAll
<1>7. ShutdownCoversActive'
    BY DEF SystemInv, ShutdownCoversActive, RunningLoops, TypeOK, Stops,
           StartStreams, StartStreaming, InitializedAll
<1>8. ExitQuiescent'
    BY DEF SystemInv, ExitQuiescent, RunningLoops, TypeOK, Stops, StartStreams,
           StartStreaming, InitializedAll
<1>9. QED
    BY <1>1, <1>2, <1>3, <1>4, <1>5, <1>6, <1>7, <1>8 DEF SystemInv

\* The signal handler.
LEMMA SignalInv ==
    ASSUME SystemInv, TypeOK', NEW t \in SignalStops, Signal(t)
    PROVE  SystemInv'
<1>1. TasksTracked'
    BY DEF SystemInv, TasksTracked, RunningLoops, TypeOK, Stops, Signal, Alive,
           manager_vars
<1>2. MainStopAfterStart'
    BY DEF SystemInv, MainStopAfterStart, RunningLoops, TypeOK, Stops, Signal,
           Alive, manager_vars
<1>3. JoinCoversLoops'
    BY DEF SystemInv, JoinCoversLoops, RunningLoops, TypeOK, Stops, Signal,
           Alive, manager_vars
<1>4. NoTasksBeforeStreaming'
    BY DEF SystemInv, NoTasksBeforeStreaming, RunningLoops, TypeOK, Stops,
           Signal, Alive, manager_vars
<1>5. InitializedAfterStart'
    BY DEF SystemInv, InitializedAfterStart, RunningLoops, TypeOK, Stops,
           Signal, Alive, manager_vars
<1>6. MainStopQuiet'
    BY DEF SystemInv, MainStopQuiet, RunningLoops, TypeOK, Stops, Signal, Alive,
           manager_vars
<1>7. ShutdownCoversActive'
    BY DEF SystemInv, ShutdownCoversActive, RunningLoops, TypeOK, Stops, Signal,
           Alive, manager_vars
<1>8. ExitQuiescent'
    BY DEF SystemInv, ExitQuiescent, RunningLoops, TypeOK, Stops, Signal, Alive,
           manager_vars
<1>9. QED
    BY <1>1, <1>2, <1>3, <1>4, <1>5, <1>6, <1>7, <1>8 DEF SystemInv

\* stop_streaming after its gather.
LEMMA StopJoinInv ==
    ASSUME SystemInv, TypeOK', NEW t \in Stops, StopJoin(t)
    PROVE  SystemInv'
<1>1. TasksTracked'
    BY DEF SystemInv, TasksTracked, JoinCoversLoops, RunningLoops, TypeOK,
           Stops, StopJoin, Joined, ClearTasks, Alive
<1>2. MainStopAfterStart'
    BY DEF SystemInv, MainStopAfterStart, RunningLoops, TypeOK, Stops, StopJoin,
           Joined, ClearTasks, Alive
<1>3. JoinCoversLoops'
    BY DEF SystemInv, JoinCoversLoops, RunningLoops, TypeOK, Stops, StopJoin,
           Joined, ClearTasks, Alive
<1>4. NoTasksBeforeStreaming'
    BY DEF SystemInv, NoTasksBeforeStreaming, RunningLoops, TypeOK, Stops,
           StopJoin, Joined, ClearTasks, Alive
<1>5. InitializedAfterStart'
    BY DEF SystemInv, InitializedAfterStart, RunningLoops, TypeOK, Stops,
           StopJoin, Joined, ClearTasks, Alive
<1>6. MainStopQuiet'
    BY DEF SystemInv, MainStopQuiet, JoinCoversLoops, RunningLoops, TypeOK,
           Stops, StopJoin, Joined, ClearTasks, Alive
<1>7. ShutdownCoversActive'
    BY DEF SystemInv, ShutdownCoversActive, RunningLoops, TypeOK, Stops,
           StopJoin, Joined, ClearTasks, Alive
<1>8. ExitQuiescent'
    BY DEF SystemInv, ExitQuiescent, RunningLoops, TypeOK, Stops, StopJoin,
           Joined, ClearTasks, Alive
<1>9. QED
    BY <1>1, <1>2, <1>3, <1>4, <1>5, <1>6, <1>7, <1>8 DEF SystemInv

\* A shutdown() task of a shutdown_all.
LEMMA ShutdownTaskInv ==
    ASSUME SystemInv, TypeOK', NEW t \in Stops, NEW s \in Sensors, ShutdownTask(t, s)
    PROVE  SystemInv'
<1>1. TasksTracked'
    BY DEF SystemInv, TasksTracked, RunningLoops, TypeOK, Stops, ShutdownTask,
           ShutdownSensor, Alive
<1>2. MainStopAfterStart'
    BY DEF SystemInv, MainStopAfterStart, RunningLoops, TypeOK, Stops,
           ShutdownTask, ShutdownSensor, Alive
<1>3. JoinCoversLoops'
    BY DEF SystemInv, JoinCoversLoops, RunningLoops, TypeOK, Stops,
           ShutdownTask, ShutdownSensor, Alive
<1>4. NoTasksBeforeStreaming'
    BY DEF SystemInv, NoTasksBeforeStreaming, RunningLoops, TypeOK, Stops,
           ShutdownTask, ShutdownSensor, Alive
<1>5. InitializedAfterStart'
    BY DEF SystemInv, InitializedAfterStart, RunningLoops, TypeOK, Stops,
           ShutdownTask, ShutdownSensor, Alive
<1>6. MainStopQuiet'
    BY DEF SystemInv, MainStopQuiet, RunningLoops, TypeOK, Stops, ShutdownTask,
           ShutdownSensor, Alive
<1>7. ShutdownCoversActive'
    BY DEF SystemInv, ShutdownCoversActive, ManagerTypeOK, RunningLoops, TypeOK,
           Stops, ShutdownTask, ShutdownSensor, Alive
<1>8. ExitQuiescent'
    BY DEF SystemInv, ExitQuiescent, RunningLoops, TypeOK, Stops, ShutdownTask,
           ShutdownSensor, Alive
<1>9. QED
    BY <1>1, <1>2, <1>3, <1>4, <1>5, <1>6, <1>7, <1>8 DEF SystemInv

\* The final save of a stop().
LEMMA StopFinishInv ==
    ASSUME SystemInv, TypeOK', NEW t \in Stops, StopFinish(t)
    PROVE  SystemInv'
<1>1. TasksTracked'
    BY DEF SystemInv, TasksTracked, RunningLoops, TypeOK, Stops, StopFinish,
           Alive, manager_vars
<1>2. MainStopAfterStart'
    BY DEF SystemInv, MainStopAfterStart, RunningLoops, TypeOK, Stops,
           StopFinish, Alive, manager_vars
<1>3. JoinCoversLoops'
    BY DEF SystemInv, JoinCoversLoops, RunningLoops, TypeOK, Stops, StopFinish,
           Alive, manager_vars
<1>4. NoTasksBeforeStreaming'
    BY DEF SystemInv, NoTasksBeforeStreaming, RunningLoops, TypeOK, Stops,
           StopFinish, Alive, manager_vars
<1>5. InitializedAfterStart'
    BY DEF SystemInv, InitializedAfterStart, MainStopAfterStart, RunningLoops,
           TypeOK, Stops, StopFinish, Alive, manager_vars
<1>6. MainStopQuiet'
    BY DEF SystemInv, MainStopQuiet, RunningLoops, TypeOK, Stops, StopFinish,
           Alive, manager_vars
<1>7. ShutdownCoversActive'
    BY DEF SystemInv, ShutdownCoversActive, RunningLoops, TypeOK, Stops,
           StopFinish, Alive, manager_vars
<1>8. ExitQuiescent'
    <2>1. CASE t = "main"
        <3>1. stop_pc["main"] = "shutting" /\ shut_pending["main"] = {}
            BY <2>1 DEF StopFinish
        <3>2. \A s \in Sensors : loop_pc[s] \in {"none", "exited"}
            BY <3>1 DEF SystemInv, MainStopQuiet, RunningLoops, TypeOK,
                        ManagerTypeOK, LoopStates
        <3>3. \A s \in Sensors : ~is_active[s]
            BY <3>1 DEF SystemInv, ShutdownCoversActive
        <3>4. QED
            BY <3>2, <3>3 DEF ExitQuiescent, StopFinish, manager_vars
    <2>2. CASE t # "main"
        BY <2>2 DEF ExitQuiescent, StopFinish, Alive
    <2>3. QED
        BY <2>1, <2>2
<1>9. QED
    BY <1>1, <1>2, <1>3, <1>4, <1>5, <1>6, <1>7, <1>8 DEF SystemInv

\* An iteration of a sensor loop.
LEMMA LoopStepInv ==
    ASSUME SystemInv, TypeOK', NEW s \in Sensors, LoopStep(s)
    PROVE  SystemInv'
<1>1. TasksTracked'
    BY DEF SystemInv, TasksTracked, ManagerTypeOK, LoopStates, RunningLoops,
           TypeOK, Stops, LoopStep, StreamSensor, ReadSucceeds, Alive
<1>2. MainStopAfterStart'
    BY DEF SystemInv, MainStopAfterStart, RunningLoops, TypeOK, Stops, LoopStep,
           StreamSensor, ReadSucceeds, Alive
<1>3. JoinCoversLoops'
    BY DEF SystemInv, JoinCoversLoops, ManagerTypeOK, LoopStates, RunningLoops,
           TypeOK, Stops, LoopStep, StreamSensor, ReadSucceeds, Alive
<1>4. NoTasksBeforeStreaming'
    BY DEF SystemInv, NoTasksBeforeStreaming, RunningLoops, TypeOK, Stops,
           LoopStep, StreamSensor, ReadSucceeds, Alive
<1>5. InitializedAfterStart'
    BY DEF SystemInv, InitializedAfterStart, RunningLoops, TypeOK, Stops,
           LoopStep, StreamSensor, ReadSucceeds, Alive
<1>6. MainStopQuiet'
    BY DEF SystemInv, MainStopQuiet, RunningLoops, TypeOK, Stops, LoopStep,
           StreamSensor, ReadSucceeds, Alive
<1>7. ShutdownCoversActive'
    BY DEF SystemInv, ShutdownCoversActive, RunningLoops, TypeOK, Stops,
           LoopStep, StreamSensor, ReadSucceeds, Alive
<1>8. ExitQuiescent'
    BY DEF SystemInv, ExitQuiescent, RunningLoops, TypeOK, Stops, LoopStep,
           StreamSensor, ReadSucceeds, Alive
<1>9. QED
    BY <1>1, <1>2, <1>3, <1>4, <1>5, <1>6, <1>7, <1>8 DEF SystemInv

\* A step of continuous_monitoring.
LEMMA MonitorTickInv ==
    ASSUME SystemInv, TypeOK', MonitorTick
    PROVE  SystemInv'
<1>1. TasksTracked'
    BY DEF SystemInv, TasksTracked, RunningLoops, TypeOK, Stops, MonitorTick,
           Alive, manager_vars
<1>2. MainStopAfterStart'
    BY DEF SystemInv, MainStopAfterStart, RunningLoops, TypeOK, Stops,
           MonitorTick, Alive, manager_vars
<1>3. JoinCoversLoops'
    BY DEF SystemInv, JoinCoversLoops, RunningLoops, TypeOK, Stops, MonitorTick,
           Alive, manager_vars
<1>4. NoTasksBeforeStreaming'
    BY DEF SystemInv, NoTasksBeforeStreaming, RunningLoops, TypeOK, Stops,
           MonitorTick, Alive, manager_vars
<1>5. InitializedAfterStart'
    BY DEF SystemInv, InitializedAfterStart, RunningLoops, TypeOK, Stops,
           MonitorTick, Alive, manager_vars
<1>6. MainStopQuiet'
    BY DEF SystemInv, MainStopQuiet, RunningLoops, TypeOK, Stops, MonitorTick,
           Alive, manager_vars
<1>7. ShutdownCoversActive'
    BY DEF SystemInv, ShutdownCoversActive, RunningLoops, TypeOK, Stops,
           MonitorTick, Alive, manager_vars
<1>8. ExitQuiescent'
    BY DEF SystemInv, ExitQuiescent, RunningLoops, TypeOK, Stops, MonitorTick,
           Alive, manager_vars
<1>9. QED
    BY <1>1, <1>2, <1>3, <1>4, <1>5, <1>6, <1>7, <1>8 DEF SystemInv

\* A step of _periodic_save.
LEMMA SaveTickInv ==
    ASSUME SystemInv, TypeOK', SaveTick
    PROVE  SystemInv'
<1>1. TasksTracked'
    BY DEF SystemInv, TasksTracked, RunningLoops, TypeOK, Stops, SaveTick,
           Alive, manager_vars
<1>2. MainStopAfterStart'
    BY DEF SystemInv, MainStopAfterStart, RunningLoops, TypeOK, Stops, SaveTick,
           Alive, manager_vars
<1>3. JoinCoversLoops'
    BY DEF SystemInv, JoinCoversLoops, RunningLoops, TypeOK, Stops, SaveTick,
           Alive, manager_vars
<1>4. NoTasksBeforeStreaming'
    BY DEF SystemInv, NoTasksBeforeStreaming, RunningLoops, TypeOK, Stops,
           SaveTick, Alive, manager_vars
<1>5. InitializedAfterStart'
    BY DEF SystemInv, InitializedAfterStart, RunningLoops, TypeOK, Stops,
           SaveTick, Alive, manager_vars
<1>6. MainStopQuiet'
    BY DEF SystemInv, MainStopQuiet, RunningLoops, TypeOK, Stops, SaveTick,
           Alive, manager_vars
<1>7. ShutdownCoversActive'
    BY DEF SystemInv, ShutdownCoversActive, RunningLoops, TypeOK, Stops,
           SaveTick, Alive, manager_vars
<1>8. ExitQuiescent'
    BY DEF SystemInv, ExitQuiescent, RunningLoops, TypeOK, Stops, SaveTick,
           Alive, manager_vars
<1>9. QED
    BY <1>1, <1>2, <1>3, <1>4, <1>5, <1>6, <1>7, <1>8 DEF SystemInv

\* The first step of a stop(): main's from start()'s return, a signal's from "ready".
LEMMA StopBeginInv ==
    ASSUME SystemInv, TypeOK', NEW t \in Stops, StopBegin(t),
           t = "main" => main_pc = "running" /\ main_pc' = "stopping",
           t # "main" => stop_pc[t] = "ready" /\ main_pc # "exited" /\ UNCHANGED main_pc
    PROVE  SystemInv'
<1>1. TasksTracked'
    BY DEF SystemInv, TasksTracked, RunningLoops, TypeOK, Stops, StopBegin,
           StopStreamingSet
<1>2. MainStopAfterStart'
    BY DEF SystemInv, MainStopAfterStart, RunningLoops, TypeOK, Stops,
           StopBegin, StopStreamingSet
<1>3. JoinCoversLoops'
    BY DEF SystemInv, JoinCoversLoops, TasksTracked, RunningLoops, TypeOK,
           Stops, StopBegin, StopStreamingSet
<1>4. NoTasksBeforeStreaming'
    BY DEF SystemInv, NoTasksBeforeStreaming, RunningLoops, TypeOK, Stops,
           StopBegin, StopStreamingSet
<1>5. InitializedAfterStart'
    BY DEF SystemInv, InitializedAfterStart, RunningLoops, TypeOK, Stops,
           StopBegin, StopStreamingSet
<1>6. MainStopQuiet'
    BY DEF SystemInv, MainStopQuiet, TasksTracked, RunningLoops, TypeOK, Stops,
           StopBegin, StopStreamingSet
<1>7. ShutdownCoversActive'
    BY DEF SystemInv, ShutdownCoversActive, RunningLoops, TypeOK, Stops,
           StopBegin, StopStreamingSet
<1>8. ExitQuiescent'
    BY DEF SystemInv, ExitQuiescent, RunningLoops, TypeOK, Stops, StopBegin,
           StopStreamingSet
<1>9. QED
    BY <1>1, <1>2, <1>3, <1>4, <1>5, <1>6, <1>7, <1>8 DEF SystemInv

-----------------------------------------------------------------------------
(* The shutdown contract.                                                  *)

\* The initial state satisfies the strengthened invariant.
LEMMA InitInv == Init => SystemInv
<1> SUFFICES ASSUME Init PROVE SystemInv
    OBVIOUS
<1>1. TypeOK
    BY InitType
<1>2. QED
    BY <1>1, MainIsStop
       DEF Init, ManagerInit, SystemInv, TasksTracked, MainStopAfterStart,
           JoinCoversLoops, NoTasksBeforeStreaming, InitializedAfterStart,
           MainStopQuiet, ShutdownCoversActive, ExitQuiescent, RunningLoops

\* Every step of the system, whichever task or signal takes it, keeps
\* SystemInv.
LEMMA SystemInvStep ==
    ASSUME SystemInv, [Next]_vars
    PROVE  SystemInv'
<1>1. CASE UNCHANGED vars
    BY <1>1 DEF vars, manager_vars, system_vars, SystemInv, TypeOK,
                ManagerTypeOK, TasksTracked, MainStopAfterStart,
                JoinCoversLoops, NoTasksBeforeStreaming,
                InitializedAfterStart, MainStopQuiet,
                ShutdownCoversActive, ExitQuiescent, RunningLoops
<1>2. CASE Next
    <2>1. TypeOK'
        BY <1>2, NextType DEF SystemInv
    <2>2. CASE StartBegin
        BY <2>1, <2>2, StartBeginInv
    <2>3. CASE \E s \in Sensors : InitTask(s)
        BY <2>1, <2>3, InitTaskInv
    <2>4. CASE StartStreams
        BY <2>1, <2>4, StartStreamsInv
    <2>5. CASE \E t \in SignalStops : Signal(t)
        BY <2>1, <2>5, SignalInv
    <2>6. CASE \E t \in SignalStops : RunStop(t)
        <3>1. PICK t \in SignalStops : RunStop(t)
            BY <2>6
        <3>2. t \in Stops /\ t # "main"
            BY DEF Stops
        <3>3. QED
            BY <2>1, <3>1, <3>2, StopBeginInv DEF RunStop, Alive
    <2>7. CASE MainStops
        BY <2>1, <2>7, MainIsStop, StopBeginInv DEF MainStops
    <2>8. CASE \E t \in Stops : StopJoin(t)
        BY <2>1, <2>8, StopJoinInv
    <2>9. CASE \E t \in Stops : StopFinish(t)
        BY <2>1, <2>9, StopFinishInv
    <2>10. CASE \E t \in Stops, s \in Sensors : ShutdownTask(t, s)
        BY <2>1, <2>10, ShutdownTaskInv
    <2>11. CASE \E s \in Sensors : LoopStep(s)
        BY <2>1, <2>11, LoopStepInv
    <2>12. CASE MonitorTick
        BY <2>1, <2>12, MonitorTickInv
    <2>13. CASE SaveTick
        BY <2>1, <2>13, SaveTickInv
    <2>14. CASE Exited
        BY <2>14, <1>1 DEF Exited
    <2>15. QED
        BY <2>2, <2>3, <2>4, <2>5, <2>6, <2>7, <2>8, <2>9, <2>10, <2>11,
           <2>12, <2>13, <2>14, <1>2 DEF Next, TaskStep
<1>3. QED
    BY <1>1, <1>2

\* The bookkeeping of start(), stop() and SensorManager agrees in every
\* reachable state: every running loop task is tracked in _active_tasks,
\* every gather of stop_streaming waits for every running loop, no task
\* exists before start_streaming, main's stop() follows start(), and once
\* main's stop() is past its gather no loop runs and every active sensor is
\* one its shutdown_all has yet to shut down.
THEOREM SystemInvCorrect == Spec => []SystemInv
<1>1. Init => SystemInv
    BY InitInv
<1>2. QED
    BY <1>1, SystemInvStep, PTL DEF Spec

\* When main() returns, every sensor loop has returned, every sensor is
\* shut down and stop()'s final save came after the last experience the
\* loops added, for any number of sensors and of signals.
THEOREM ExitQuiescentCorrect == Spec => []ExitQuiescent
<1>1. SystemInv => ExitQuiescent
    BY DEF SystemInv
<1>2. QED
    BY <1>1, SystemInvCorrect, PTL

-----------------------------------------------------------------------------
(* No reading reaches the learner once main's stop() has begun.           *)

\* Once main's stop() has begun the stop event is set: its stop_streaming
\* set it, and start_streaming, the only code that clears it, runs before
\* start() returns.
MainStopEvent == stop_pc["main"] # "idle" => stop_event

\* Every step keeps MainStopEvent: a step that leaves the stop event alone
\* never returns main's stop() to "idle", and the one that clears it,
\* StartStreams, runs while main's stop() is still idle.
LEMMA MainStopEventStep ==
    ASSUME SystemInv, MainStopEvent, [Next]_vars
    PROVE  MainStopEvent'
<1> USE DEF MainStopEvent
<1>1. CASE UNCHANGED vars
    BY <1>1 DEF vars, manager_vars, system_vars
<1>2. CASE StartBegin
    BY <1>2 DEF StartBegin, InitializeAllBegin
<1>3. CASE \E s \in Sensors : InitTask(s)
    BY <1>3 DEF InitTask, InitializeSensor, system_vars
<1>4. CASE StartStreams
    <2>1. stop_pc["main"] = "idle"
        BY <1>4 DEF StartStreams, SystemInv, MainStopAfterStart
    <2>2. QED
        BY <1>4, <2>1 DEF StartStreams
<1>5. CASE \E t \in SignalStops : Signal(t)
    BY <1>5, MainIsStop DEF Signal, manager_vars, SystemInv, TypeOK, Stops
<1>6. CASE \E t \in SignalStops : RunStop(t)
    BY <1>6 DEF RunStop, StopBegin, StopStreamingSet
<1>7. CASE MainStops
    BY <1>7 DEF MainStops, StopBegin, StopStreamingSet
<1>8. CASE \E t \in Stops : StopJoin(t)
    BY <1>8, MainIsStop DEF StopJoin, ClearTasks, SystemInv, TypeOK
<1>9. CASE \E t \in Stops : StopFinish(t)
    BY <1>9, MainIsStop DEF StopFinish, manager_vars, SystemInv, TypeOK
<1>10. CASE \E t \in Stops, s \in Sensors : ShutdownTask(t, s)
    BY <1>10 DEF ShutdownTask, ShutdownSensor
<1>11. CASE \E s \in Sensors : LoopStep(s)
    BY <1>11 DEF LoopStep, StreamSensor
<1>12. CASE MonitorTick
    BY <1>12 DEF MonitorTick, manager_vars
<1>13. CASE SaveTick
    BY <1>13 DEF SaveTick, manager_vars
<1>14. CASE Exited
    BY <1>14 DEF Exited, vars, manager_vars, system_vars
<1>15. QED
    BY <1>1, <1>2, <1>3, <1>4, <1>5, <1>6, <1>7, <1>8, <1>9, <1>10, <1>11,
       <1>12, <1>13, <1>14 DEF Next, TaskStep

\* With the stop event set no loop iteration reads, so no step after main's
\* stop() began adds an unsaved experience.
LEMMA NoReadingStep ==
    ASSUME TypeOK, MainStopEvent, [Next]_vars
    PROVE  [stop_pc["main"] # "idle" => (dirty' => dirty)]_vars
<1> SUFFICES ASSUME stop_pc["main"] # "idle", dirty', Next
             PROVE  dirty
    BY DEF vars, system_vars
<1>1. stop_event
    BY DEF MainStopEvent
<1>2. CASE \E s \in Sensors : LoopStep(s)
    BY <1>1, <1>2 DEF LoopStep, ReadSucceeds
<1>3. CASE \E t \in Stops : StopFinish(t)
    BY <1>3 DEF StopFinish
<1>4. CASE SaveTick
    BY <1>4 DEF SaveTick
<1>5. CASE StartBegin \/ StartStreams \/ MainStops \/ MonitorTick \/ Exited
    BY <1>5 DEF StartBegin, StartStreams, MainStops, StopBegin, MonitorTick,
                Exited, vars, system_vars
<1>6. CASE \/ \E s \in Sensors : InitTask(s)
           \/ \E t \in SignalStops : RunStop(t) \/ Signal(t)
           \/ \E t \in Stops : StopJoin(t)
           \/ \E t \in Stops, s \in Sensors : ShutdownTask(t, s)
    BY <1>6 DEF InitTask, system_vars, RunStop, StopBegin, Signal, StopJoin,
                ShutdownTask
<1>7. QED
    BY <1>2, <1>3, <1>4, <1>5, <1>6 DEF Next, TaskStep

\* Once main's stop() has begun, no step turns a saved learner into one
\* with an unsaved experience: every loop iteration sees the stop event
\* main's stop_streaming set, for any number of sensors and of signals.
THEOREM NoReadingAfterMainStopCorrect == Spec => NoReadingAfterMainStop
<1>1. Init => SystemInv /\ MainStopEvent
    BY InitInv, MainIsStop DEF Init, MainStopEvent
<1>2. SystemInv /\ MainStopEvent /\ [Next]_vars => (SystemInv /\ MainStopEvent)'
    BY SystemInvStep, MainStopEventStep
<1>3. SystemInv /\ MainStopEvent /\ [Next]_vars
        => [stop_pc["main"] # "idle" => (dirty' => dirty)]_vars
    BY NoReadingStep DEF SystemInv
<1>4. QED
    BY <1>1, <1>2, <1>3, PTL DEF Spec, NoReadingAfterMainStop
=============================================================================
