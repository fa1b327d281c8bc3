--------------------------- MODULE SensorManager ---------------------------
(***************************************************************************)
(* SensorManager of src/src/edge_ai/sensor_manager.py, with the            *)
(* is_active flag of its sensors.                                          *)
(*                                                                         *)
(* Under asyncio a coroutine runs without interruption until it awaits     *)
(* something that suspends it.  sensor.read() awaits only the callbacks,   *)
(* which do not suspend, so one iteration of _stream_sensor (check the     *)
(* stop event, read, notify, append to the history, start the sleep) is   *)
(* one step; the tasks interleave at their sleeps and at the gathers.      *)
(*                                                                         *)
(* The sensors are registered before anything starts (setup_sensors), so   *)
(* the registered set is the constant Sensors.  Readings are abstracted    *)
(* away: the history of a sensor is its length.                            *)
(***************************************************************************)
EXTENDS Naturals

CONSTANTS
    Sensors,        \* the registered sensor ids
    FlakySensors,   \* the sensors whose hardware initialization may raise
    BufferSize      \* buffer_size of SensorManager.__init__

\* deque(maxlen=buffer_size) takes a non-negative length.
ASSUME ManagerAssumption == BufferSize \in Nat

VARIABLES
    is_active,      \* is_active[s]: the flag of sensor s
    stop_event,     \* self._stop_event is set
    loop_pc,        \* loop_pc[s]: where the _stream_sensor task of s is
    active_tasks,   \* the sensors whose loop task is in self._active_tasks
    history,        \* history[s]: len(self.data_buffers[s])
    init_pending    \* the sensors whose initialize() task has not run yet

manager_vars == <<is_active, stop_event, loop_pc, active_tasks, history,
                  init_pending>>

\* "none": no task; "new": created, not yet run; "sleeping": awaiting
\* asyncio.sleep; "exited": returned after seeing the stop event.
LoopStates == {"none", "new", "sleeping", "exited"}

ManagerTypeOK ==
    /\ is_active \in [Sensors -> BOOLEAN]
    /\ stop_event \in BOOLEAN
    /\ loop_pc \in [Sensors -> LoopStates]
    /\ active_tasks \subseteq Sensors
    /\ history \in [Sensors -> 0..BufferSize]
    /\ init_pending \subseteq Sensors

\* The sensors constructed with is_active = False, the manager with an
\* unset Event, no tasks and an empty deque per registered sensor.
ManagerInit ==
    /\ is_active = [s \in Sensors |-> FALSE]
    /\ stop_event = FALSE
    /\ loop_pc = [s \in Sensors |-> "none"]
    /\ active_tasks = {}
    /\ history = [s \in Sensors |-> 0]
    /\ init_pending = {}

\* initialize_all up to its gather: one initialize() task per sensor.
InitializeAllBegin ==
    /\ init_pending' = Sensors
    /\ UNCHANGED <<is_active, stop_event, loop_pc, active_tasks, history>>

\* The initialize() task of sensor s.  In the simulated branch it sets
\* is_active and returns True; on hardware an exception in the driver
\* calls is caught and it returns False with is_active unchanged.
InitializeSensor(s) ==
    /\ s \in init_pending
    /\ init_pending' = init_pending \ {s}
    /\ \/ is_active' = [is_active EXCEPT ![s] = TRUE]
       \/ s \in FlakySensors /\ UNCHANGED is_active
    /\ UNCHANGED <<stop_event, loop_pc, active_tasks, history>>

\* The gather of initialize_all has returned.
InitializedAll == init_pending = {}

\* start_streaming: clear the stop event and create one _stream_sensor
\* task for every registered sensor, whether it became active or not.
StartStreaming ==
    /\ stop_event' = FALSE
    /\ loop_pc' = [s \in Sensors |-> "new"]
    /\ active_tasks' = active_tasks \cup Sensors
    /\ UNCHANGED <<is_active, history, init_pending>>

\* A read of sensor s succeeds (the guard of read() passes) in the loop
\* iteration that StreamSensor(s) takes.
ReadSucceeds(s) == ~stop_event /\ is_active[s]

\* Mutant: a loop written "while True" that never polls the stop event.
StreamSensorNoExit(s) ==
    /\ loop_pc[s] \in {"new", "sleeping"}
    /\ loop_pc' = [loop_pc EXCEPT ![s] = "sleeping"]
    /\ history' = IF is_active[s] /\ history[s] < BufferSize
                  THEN [history EXCEPT ![s] = @ + 1]
                  ELSE history
    /\ UNCHANGED <<is_active, stop_event, active_tasks, init_pending>>

\* Mutant: the history deques created without maxlen.
StreamSensorUncapped(s) ==
    /\ loop_pc[s] \in {"new", "sleeping"}
    /\ IF stop_event
       THEN /\ loop_pc' = [loop_pc EXCEPT ![s] = "exited"]
            /\ UNCHANGED history
       ELSE /\ loop_pc' = [loop_pc EXCEPT ![s] = "sleeping"]
            /\ history' = IF is_active[s]
                          THEN [history EXCEPT ![s] = @ + 1]
                          ELSE history
    /\ UNCHANGED <<is_active, stop_event, active_tasks, init_pending>>

\* One iteration of _stream_sensor(s): leave the loop if the stop event is
\* set; otherwise read.  A successful read notifies the callbacks and is
\* appended to the bounded history; a read of an inactive sensor raises
\* RuntimeError, which is printed.  Either way the task then sleeps.
StreamSensor(s) ==
    /\ loop_pc[s] \in {"new", "sleeping"}
    /\ IF stop_event
       THEN /\ loop_pc' = [loop_pc EXCEPT ![s] = "exited"]
            /\ UNCHANGED history
       ELSE /\ loop_pc' = [loop_pc EXCEPT ![s] = "sleeping"]
            /\ history' = IF is_active[s] /\ history[s] < BufferSize
                          THEN [history EXCEPT ![s] = @ + 1]
                          ELSE history
    /\ UNCHANGED <<is_active, stop_event, active_tasks, init_pending>>

\* Mutant: stop_streaming that forgets self._stop_event.set().
StopStreamingSetNoEvent ==
    UNCHANGED <<is_active, stop_event, loop_pc, active_tasks, history, init_pending>>

\* stop_streaming up to its gather: set the stop event.
StopStreamingSet ==
    /\ stop_event' = TRUE
    /\ UNCHANGED <<is_active, loop_pc, active_tasks, history, init_pending>>

\* The loops a gather over the task set ts waits for have all returned.
Joined(ts) == \A s \in ts : loop_pc[s] = "exited"

\* stop_streaming after its gather: self._active_tasks.clear().
ClearTasks ==
    /\ active_tasks' = {}
    /\ UNCHANGED <<is_active, stop_event, loop_pc, history, init_pending>>

\* The shutdown() task of sensor s, one of those shutdown_all gathers.
ShutdownSensor(s) ==
    /\ is_active' = [is_active EXCEPT ![s] = FALSE]
    /\ UNCHANGED <<stop_event, loop_pc, active_tasks, history, init_pending>>
=============================================================================
