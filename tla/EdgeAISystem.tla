--------------------------- MODULE EdgeAISystem ----------------------------
(***************************************************************************)
(* The life cycle of EdgeAISystem (src/src/edge_ai/edge_ai_system.py) as   *)
(* main() drives it: start() initializes the sensors, starts streaming,    *)
(* the monitoring and the periodic-save tasks and waits for them; SIGINT   *)
(* or SIGTERM makes the signal handler create a stop() task; when start()  *)
(* returns, main's finally awaits stop() once more, and when main returns  *)
(* asyncio.run cancels every task left.                                     *)
(*                                                                         *)
(* The learner is abstracted to whether it holds experiences that the      *)
(* learned-parameters file does not (dirty): a successful read adds one,   *)
(* save_learned_parameters writes them all.  Inference results are         *)
(* modelled in EdgeSLMInference; here the monitoring task is its loop.     *)
(***************************************************************************)
EXTENDS SensorManager

CONSTANTS
    SignalStops     \* the stop() tasks the signal handler may create

\* The stop() coroutines: those of the signal handler and main's own.
Stops == SignalStops \cup {"main"}

\* main's own stop() is not one the signal handler creates.
ASSUME SystemAssumption == "main" \notin SignalStops

VARIABLES
    main_pc,        \* where main() is
    is_running,     \* self.is_running
    mon_pc,         \* the continuous_monitoring task
    save_pc,        \* the _periodic_save task
    mon_cancel,     \* task.cancel() was called on the monitoring task
    save_cancel,    \* task.cancel() was called on the save task
    stop_pc,        \* stop_pc[t]: where stop() coroutine t is
    join_set,       \* join_set[t]: the loop tasks stop_streaming of t gathers
    shut_pending,   \* shut_pending[t]: shutdown() tasks of t not yet run
    dirty           \* the learner holds experiences not in the saved file

system_vars == <<main_pc, is_running, mon_pc, save_pc, mon_cancel,
                 save_cancel, stop_pc, join_set, shut_pending, dirty>>

vars == <<manager_vars, system_vars>>

\* "none": not created; "new": created, not yet run; "sleeping": in its
\* asyncio.sleep; "cancelled": ended by CancelledError; "returned": ended
\* normally.
TaskStates == {"none", "new", "sleeping", "cancelled", "returned"}

StopStates == {"idle", "ready", "joining", "shutting", "done"}

TypeOK ==
    /\ ManagerTypeOK
    /\ main_pc \in {"start", "initializing", "running", "stopping", "exited"}
    /\ is_running \in BOOLEAN
    /\ mon_pc \in TaskStates /\ save_pc \in TaskStates
    /\ mon_cancel \in BOOLEAN /\ save_cancel \in BOOLEAN
    /\ stop_pc \in [Stops -> StopStates]
    /\ join_set \in [Stops -> SUBSET Sensors]
    /\ shut_pending \in [Stops -> SUBSET Sensors]
    /\ dirty \in BOOLEAN

\* The system after __init__ and setup_sensors, with the signal handlers
\* installed, when main() awaits start().
Init ==
    /\ ManagerInit
    /\ main_pc = "start"
    /\ is_running = FALSE
    /\ mon_pc = "none" /\ save_pc = "none"
    /\ mon_cancel = FALSE /\ save_cancel = FALSE
    /\ stop_pc = [t \in Stops |-> "idle"]
    /\ join_set = [t \in Stops |-> {}]
    /\ shut_pending = [t \in Stops |-> {}]
    /\ dirty = FALSE

Alive == main_pc # "exited"

\* start() until its first suspension: the gather of initialize_all.
StartBegin ==
    /\ main_pc = "start"
    /\ InitializeAllBegin
    /\ main_pc' = "initializing"
    /\ UNCHANGED <<is_running, mon_pc, save_pc, mon_cancel, save_cancel,
                   stop_pc, join_set, shut_pending, dirty>>

InitTask(s) ==
    /\ Alive
    /\ InitializeSensor(s)
    /\ UNCHANGED system_vars

\* The rest of start() up to the gather of its tasks: report the result,
\* start streaming, create the monitoring and the save task, set
\* is_running.  (Loading the parameters file is in LearnerPersistence.)
StartStreams ==
    /\ main_pc = "initializing"
    /\ InitializedAll
    /\ StartStreaming
    /\ main_pc' = "running"
    /\ mon_pc' = "new" /\ save_pc' = "new"
    /\ is_running' = TRUE
    /\ UNCHANGED <<mon_cancel, save_cancel, stop_pc, join_set, shut_pending,
                   dirty>>

\* The signal handler: asyncio.create_task(system.stop()).
Signal(t) ==
    /\ Alive
    /\ stop_pc[t] = "idle"
    /\ stop_pc' = [stop_pc EXCEPT ![t] = "ready"]
    /\ UNCHANGED <<manager_vars, main_pc, is_running, mon_pc, save_pc,
                   mon_cancel, save_cancel, join_set, shut_pending, dirty>>

\* Mutant: stop_streaming that does not wait for the loops to return.
StopBeginNoJoin(t) ==
    /\ is_running' = FALSE
    /\ mon_cancel' = (mon_cancel \/ mon_pc # "none")
    /\ save_cancel' = (save_cancel \/ save_pc # "none")
    /\ StopStreamingSet
    /\ stop_pc' = [stop_pc EXCEPT ![t] = "shutting"]
    /\ shut_pending' = [shut_pending EXCEPT ![t] = Sensors]
    /\ UNCHANGED <<mon_pc, save_pc, dirty, join_set>>

\* Mutant: stop() that forgets to cancel self._tasks.
StopBeginNoCancel(t) ==
    /\ is_running' = FALSE
    /\ UNCHANGED <<mon_cancel, save_cancel>>
    /\ StopStreamingSet
    /\ IF active_tasks # {}
       THEN /\ stop_pc' = [stop_pc EXCEPT ![t] = "joining"]
            /\ join_set' = [join_set EXCEPT ![t] = active_tasks]
            /\ UNCHANGED shut_pending
       ELSE /\ stop_pc' = [stop_pc EXCEPT ![t] = "shutting"]
            /\ shut_pending' = [shut_pending EXCEPT ![t] = Sensors]
            /\ UNCHANGED join_set
    /\ UNCHANGED <<mon_pc, save_pc, dirty>>

\* stop() of coroutine t until its first suspension: clear is_running,
\* cancel the tasks in self._tasks (those created so far), then
\* shutdown_all -> stop_streaming: set the stop event and gather the loop
\* tasks, or, with none, go on to gather the sensors' shutdown() calls.
StopBegin(t) ==
    /\ is_running' = FALSE
    /\ mon_cancel' = (mon_cancel \/ mon_pc # "none")
    /\ save_cancel' = (save_cancel \/ save_pc # "none")
    /\ StopStreamingSet
    /\ IF active_tasks # {}
       THEN /\ stop_pc' = [stop_pc EXCEPT ![t] = "joining"]
            /\ join_set' = [join_set EXCEPT ![t] = active_tasks]
            /\ UNCHANGED shut_pending
       ELSE /\ stop_pc' = [stop_pc EXCEPT ![t] = "shutting"]
            /\ shut_pending' = [shut_pending EXCEPT ![t] = Sensors]
            /\ UNCHANGED join_set
    /\ UNCHANGED <<mon_pc, save_pc, dirty>>

\* The stop() task the signal handler created runs.
RunStop(t) ==
    /\ Alive
    /\ stop_pc[t] = "ready"
    /\ StopBegin(t)
    /\ UNCHANGED main_pc

\* The gather in start() raises CancelledError once one of its tasks was
\* cancelled (it cannot return normally: continuous_monitoring never
\* returns); start() returns and main's finally awaits stop().
MainStops ==
    /\ main_pc = "running"
    /\ "cancelled" \in {mon_pc, save_pc}
    /\ main_pc' = "stopping"
    /\ StopBegin("main")

\* stop_streaming of t resumes after its gather and clears the task list;
\* shutdown_all goes on to gather one shutdown() per sensor.
StopJoin(t) ==
    /\ Alive
    /\ stop_pc[t] = "joining"
    /\ Joined(join_set[t])
    /\ ClearTasks
    /\ stop_pc' = [stop_pc EXCEPT ![t] = "shutting"]
    /\ shut_pending' = [shut_pending EXCEPT ![t] = Sensors]
    /\ UNCHANGED <<main_pc, is_running, mon_pc, save_pc, mon_cancel,
                   save_cancel, join_set, dirty>>

ShutdownTask(t, s) ==
    /\ Alive
    /\ s \in shut_pending[t]
    /\ ShutdownSensor(s)
    /\ shut_pending' = [shut_pending EXCEPT ![t] = @ \ {s}]
    /\ UNCHANGED <<main_pc, is_running, mon_pc, save_pc, mon_cancel,
                   save_cancel, stop_pc, join_set, dirty>>

\* Mutant: stop() that returns without its final save.
StopFinishNoSave(t) ==
    /\ Alive
    /\ stop_pc[t] = "shutting"
    /\ shut_pending[t] = {}
    /\ stop_pc' = [stop_pc EXCEPT ![t] = "done"]
    /\ main_pc' = IF t = "main" THEN "exited" ELSE main_pc
    /\ UNCHANGED <<manager_vars, is_running, mon_pc, save_pc, mon_cancel,
                   save_cancel, join_set, shut_pending, dirty>>

\* The rest of stop() of t: save the learned parameters, export the log,
\* print the summary.  When main's stop() returns, main returns.
StopFinish(t) ==
    /\ Alive
    /\ stop_pc[t] = "shutting"
    /\ shut_pending[t] = {}
    /\ dirty' = FALSE
    /\ stop_pc' = [stop_pc EXCEPT ![t] = "done"]
    /\ main_pc' = IF t = "main" THEN "exited" ELSE main_pc
    /\ UNCHANGED <<manager_vars, is_running, mon_pc, save_pc, mon_cancel,
                   save_cancel, join_set, shut_pending>>

\* An iteration of a sensor loop; a successful read reaches the
\* _on_sensor_data callback, which adds an experience to the learner.
LoopStep(s) ==
    /\ Alive
    /\ dirty' = (dirty \/ ReadSucceeds(s))
    /\ StreamSensor(s)
    /\ UNCHANGED <<main_pc, is_running, mon_pc, save_pc, mon_cancel,
                   save_cancel, stop_pc, join_set, shut_pending>>

\* One step of continuous_monitoring: a pending cancel ends it at its
\* sleep (or before its first step); otherwise run_inference, the
\* callback and the next sleep.
MonitorTick ==
    /\ Alive
    /\ mon_pc \in {"new", "sleeping"}
    /\ mon_pc' = IF mon_cancel THEN "cancelled" ELSE "sleeping"
    /\ UNCHANGED <<manager_vars, main_pc, is_running, save_pc, mon_cancel,
                   save_cancel, stop_pc, join_set, shut_pending, dirty>>

\* One step of _periodic_save: a pending cancel ends it; otherwise, after
\* a sleep, save the learned parameters; then "while self.is_running".
SaveTick ==
    /\ Alive
    /\ save_pc \in {"new", "sleeping"}
    /\ IF save_cancel
       THEN save_pc' = "cancelled" /\ UNCHANGED dirty
       ELSE /\ dirty' = (dirty /\ save_pc = "new")
            /\ save_pc' = IF is_running THEN "sleeping" ELSE "returned"
    /\ UNCHANGED <<manager_vars, main_pc, is_running, mon_pc, mon_cancel,
                   save_cancel, stop_pc, join_set, shut_pending>>

\* asyncio.run(main()) has returned: every remaining task was cancelled.
Exited == main_pc = "exited" /\ UNCHANGED vars

\* The steps of the tasks the event loop runs; Signal is the environment.
TaskStep ==
    \/ StartBegin \/ StartStreams \/ MainStops \/ MonitorTick \/ SaveTick
    \/ \E s \in Sensors : InitTask(s) \/ LoopStep(s)
    \/ \E t \in SignalStops : RunStop(t)
    \/ \E t \in Stops : StopJoin(t) \/ StopFinish(t)
    \/ \E t \in Stops, s \in Sensors : ShutdownTask(t, s)

Next == TaskStep \/ (\E t \in SignalStops : Signal(t)) \/ Exited

\* The event loop runs every ready task and every sleep expires, so each
\* task that can take a step eventually does; no signal is ever forced.
Fairness ==
    /\ WF_vars(StartBegin) /\ WF_vars(StartStreams) /\ WF_vars(MainStops)
    /\ WF_vars(MonitorTick) /\ WF_vars(SaveTick)
    /\ \A s \in Sensors : WF_vars(InitTask(s)) /\ WF_vars(LoopStep(s))
    /\ \A t \in SignalStops : WF_vars(RunStop(t))
    /\ \A t \in Stops : WF_vars(StopJoin(t)) /\ WF_vars(StopFinish(t))
    /\ \A t \in Stops, s \in Sensors : WF_vars(ShutdownTask(t, s))

Spec == Init /\ [][Next]_vars /\ Fairness

-----------------------------------------------------------------------------
\* When main() returns, the shutdown contract of spec.md 5 has been kept:
\* every sensor loop has returned, every sensor is shut down, and the last
\* save of stop() came after the last experience the loops added.
ExitQuiescent ==
    main_pc = "exited" =>
        /\ \A s \in Sensors : loop_pc[s] \in {"none", "exited"}
        /\ \A s \in Sensors : ~is_active[s]
        /\ ~dirty

\* Every stop() that has started returns (or is cancelled when main
\* returns): stop_streaming's gather is not left waiting on a sensor loop.
StopCompletes ==
    \A t \in Stops :
        stop_pc[t] \in {"ready", "joining", "shutting"}
            ~> (stop_pc[t] = "done" \/ main_pc = "exited")

\* A signal whose stop() task runs once start() is waiting on its tasks
\* makes the process exit.
ExitAfterSignal ==
    \A t \in SignalStops :
        (stop_pc[t] = "ready" /\ main_pc = "running") ~> main_pc = "exited"

\* Once a stop() has returned no sensor loop is still running (spec.md 5:
\* shutdown waits for all loops to exit, then tears the sensors down).
QuietAfterStop ==
    \A t \in Stops :
        stop_pc[t] = "done" => \A s \in Sensors : loop_pc[s] \in {"none", "exited"}

\* Once main's stop() has begun (its stop_streaming has set the stop event),
\* no sensor loop iteration delivers a reading to _on_sensor_data: no step
\* turns a saved learner into one with an unsaved experience, whichever
\* signal stops, loops or saves interleave, so the final save of stop()
\* is not overtaken by a late experience.
NoReadingAfterMainStop ==
    [][stop_pc["main"] # "idle" => (dirty' => dirty)]_vars

-----------------------------------------------------------------------------
\* The sensors whose _stream_sensor task is created and has not returned.
RunningLoops == {s \in Sensors : loop_pc[s] \in {"new", "sleeping"}}

\* Every running loop is in _active_tasks.
TasksTracked == RunningLoops \subseteq active_tasks

\* main's stop() has begun only once start() returned.
MainStopAfterStart == stop_pc["main"] # "idle" => main_pc \in {"stopping", "exited"}

\* The gather of stop_streaming waits for every running loop.
JoinCoversLoops ==
    \A t \in Stops : stop_pc[t] = "joining" => RunningLoops \subseteq join_set[t]

\* Before start_streaming there are no loop tasks and no gathers on them.
NoTasksBeforeStreaming ==
    main_pc \in {"start", "initializing"} =>
        active_tasks = {} /\ \A t \in Stops : stop_pc[t] # "joining"

\* After initialize_all no initialize() task is pending.
InitializedAfterStart ==
    main_pc \in {"running", "stopping", "exited"} => init_pending = {}

\* Once main's stop() is past stop_streaming no loop runs.
MainStopQuiet == stop_pc["main"] \in {"shutting", "done"} => RunningLoops = {}

\* While main's shutdown_all gathers, every sensor still active is one it
\* has yet to shut down.
ShutdownCoversActive ==
    stop_pc["main"] = "shutting" =>
        \A s \in Sensors : is_active[s] => s \in shut_pending["main"]

\* The inductive strengthening of ExitQuiescent.  That main's stop() finds
\* no loop running and leaves no sensor active rests on what the gathers
\* wait for and on no task being created after main's stop() began.
SystemInv ==
    /\ TypeOK
    /\ TasksTracked
    /\ MainStopAfterStart
    /\ JoinCoversLoops
    /\ NoTasksBeforeStreaming
    /\ InitializedAfterStart
    /\ MainStopQuiet
    /\ ShutdownCoversActive
    /\ ExitQuiescent
=============================================================================
