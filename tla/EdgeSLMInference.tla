-------------------------- MODULE EdgeSLMInference --------------------------
(***************************************************************************)
(* EdgeSLMInference of src/src/edge_ai/edge_slm_inference.py: one          *)
(* iteration of continuous_monitoring calls run_inference, which gathers   *)
(* the recent readings of every sensor, renders them as a context string   *)
(* and a prompt, and asks the model, falling back to the rule-based        *)
(* _simulate_response when no model is loaded or the call raises.  Only a  *)
(* model answer enters context_memory, which keeps the last max_context.   *)
(*                                                                         *)
(* A call is synchronous (the model blocks the event loop), so one         *)
(* iteration is one step.  Texts are abstracted: an answer is the number   *)
(* of the tick that produced it; the context and prompt strings are pure   *)
(* formatting and left out.                                                *)
(***************************************************************************)
EXTENDS Naturals, Sequences

CONSTANTS
    Sensors,        \* the sensors registered with the SensorManager
    MaxContext,     \* self.max_context
    MaxTicks        \* bound on the monitoring iterations of a run

ASSUME InferenceAssumption ==
    /\ MaxContext \in Nat \ {0}
    /\ MaxTicks \in Nat

VARIABLES
    model,          \* self.model is not None (_load_model succeeded)
    has_data,       \* the sensors whose data_buffers deque is non-empty
    context_memory, \* self.context_memory: the answers it keeps
    ticks,          \* iterations of continuous_monitoring so far
    answers,        \* every model answer so far, oldest first (history)
    last_result     \* where the last run_inference returned from

inference_vars == <<model, has_data, context_memory, ticks, answers,
                    last_result>>

InferenceTypeOK ==
    /\ model \in BOOLEAN
    /\ has_data \subseteq Sensors
    /\ context_memory \in Seq(1..MaxTicks)
    /\ Len(context_memory) <= MaxContext
    /\ ticks \in 0..MaxTicks
    /\ answers \in Seq(1..MaxTicks)
    /\ last_result \in {"none", "no_data", "model", "fallback"}

\* __init__: _load_model returns a Llama object, or None when the import
\* or the load fails; the manager's history buffers start empty.
InferenceInit ==
    /\ model \in BOOLEAN
    /\ has_data = {}
    /\ context_memory = <<>>
    /\ ticks = 0
    /\ answers = <<>>
    /\ last_result = "none"

\* A reading of sensor s is appended to its history (_stream_sensor); a
\* deque with maxlen never becomes empty again.
RecordReading(s) ==
    /\ has_data' = has_data \cup {s}
    /\ UNCHANGED <<model, context_memory, ticks, answers, last_result>>

\* Mutant: the trim of context_memory left out.
KeepAll(mem) == mem

\* Mutant: the trim keeps one answer fewer than max_context.
KeepLastShort(mem) ==
    IF Len(mem) >= MaxContext
    THEN SubSeq(mem, Len(mem) - MaxContext + 2, Len(mem))
    ELSE mem

\* if len(self.context_memory) > self.max_context:
\*     self.context_memory = self.context_memory[-self.max_context:]
KeepLast(mem) ==
    IF Len(mem) > MaxContext
    THEN SubSeq(mem, Len(mem) - MaxContext + 1, Len(mem))
    ELSE mem

\* One iteration of continuous_monitoring: run_inference returns the
\* no-data message when no sensor has readings; with a model, a call that
\* returns stores its answer in context_memory, one that raises falls
\* back; without a model it falls back.  The callback and the sleep
\* change nothing here.
MonitorIteration ==
    /\ ticks < MaxTicks
    /\ ticks' = ticks + 1
    /\ UNCHANGED <<model, has_data>>
    /\ \/ /\ has_data = {}
          /\ last_result' = "no_data"
          /\ UNCHANGED <<context_memory, answers>>
       \/ /\ has_data # {}
          /\ model
          /\ last_result' = "model"
          /\ answers' = Append(answers, ticks + 1)
          /\ context_memory' = KeepLast(Append(context_memory, ticks + 1))
       \/ /\ has_data # {}
          /\ last_result' = "fallback"
          /\ UNCHANGED <<context_memory, answers>>

\* The model's bound on iterations is reached: the loop would go on.
InferenceBounded == ticks = MaxTicks /\ UNCHANGED inference_vars

InferenceNext ==
    \/ \E s \in Sensors : RecordReading(s)
    \/ MonitorIteration
    \/ InferenceBounded

InferenceSpec == InferenceInit /\ [][InferenceNext]_inference_vars

-----------------------------------------------------------------------------
\* context_memory, which export_sensor_log writes out as the context
\* history, holds exactly the newest min(n, max_context) of the n model
\* answers so far, oldest first: no fallback text, no answer lost before
\* the bound, none kept past it.
ContextIsNewestAnswers ==
    LET k == IF Len(answers) < MaxContext THEN Len(answers) ELSE MaxContext
    IN  context_memory = SubSeq(answers, Len(answers) - k + 1, Len(answers))
=============================================================================
