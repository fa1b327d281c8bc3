----------------------- MODULE EdgeSLMInferenceProofs -----------------------
(***************************************************************************)
(* Proofs about context_memory of EdgeSLMInference, for every max_context *)
(* and every number of monitoring iterations: the list is bounded, and it *)
(* is exactly the newest max_context model answers.  The argument is one  *)
(* fact about the trim of run_inference: trimming after each append keeps *)
(* the same list as keeping the newest answers of the whole history.      *)
(***************************************************************************)
EXTENDS EdgeSLMInference, SequenceTheorems, TLAPS

USE InferenceAssumption

\* The newest min(Len(r), max_context) entries of r, oldest first.
NewestAnswers(r) ==
    SubSeq(r, Len(r) - (IF Len(r) < MaxContext THEN Len(r) ELSE MaxContext) + 1,
           Len(r))

\* The trim keeps a list of the element type that is never longer than
\* max_context, when the list before the append was not.
LEMMA KeepLastType ==
    ASSUME NEW S, NEW q \in Seq(S), NEW a \in S, Len(q) <= MaxContext
    PROVE  /\ KeepLast(Append(q, a)) \in Seq(S)
           /\ Len(KeepLast(Append(q, a))) <= MaxContext
BY DEF KeepLast

\* The two forms of NewestAnswers: the whole history while it is shorter
\* than max_context, its last max_context entries after.
LEMMA NewestAnswersForm ==
    ASSUME NEW S, NEW r \in Seq(S)
    PROVE  NewestAnswers(r) =
               IF Len(r) < MaxContext THEN r
               ELSE SubSeq(r, Len(r) - MaxContext + 1, Len(r))
<1>1. CASE Len(r) < MaxContext
    <2>1. NewestAnswers(r) = SubSeq(r, 1, Len(r))
        BY <1>1 DEF NewestAnswers
    <2>2. QED
        BY <1>1, <2>1, SubSeqFull
<1>2. CASE ~(Len(r) < MaxContext)
    BY <1>2 DEF NewestAnswers
<1>3. QED
    BY <1>1, <1>2

\* Appending an answer to the newest answers and trimming gives the newest
\* answers of the history with that answer appended.
LEMMA KeepLastNewest ==
    ASSUME NEW S, NEW r \in Seq(S), NEW a \in S
    PROVE  KeepLast(Append(NewestAnswers(r), a)) = NewestAnswers(Append(r, a))
<1>1. /\ Append(r, a) \in Seq(S) /\ Len(Append(r, a)) = Len(r) + 1
      /\ \A j \in 1..Len(r) : Append(r, a)[j] = r[j]
      /\ Append(r, a)[Len(r) + 1] = a
    BY AppendProperties
<1>2. CASE Len(r) + 1 < MaxContext \/ Len(r) + 1 = MaxContext
    <2>1. NewestAnswers(r) = r
        BY <1>2, NewestAnswersForm
    <2>2. NewestAnswers(Append(r, a)) = Append(r, a)
        <3>1. CASE Len(r) + 1 < MaxContext
            BY <1>1, <3>1, NewestAnswersForm
        <3>2. CASE Len(r) + 1 = MaxContext
            <4>1. NewestAnswers(Append(r, a))
                      = SubSeq(Append(r, a), 1, Len(Append(r, a)))
                <5>1. Len(Append(r, a))
                        - (IF Len(Append(r, a)) < MaxContext
                           THEN Len(Append(r, a)) ELSE MaxContext) + 1 = 1
                    BY <1>1, <3>2
                <5>2. QED
                    BY <5>1, Zenon DEF NewestAnswers
            <4>2. QED
                BY <1>1, <4>1, SubSeqFull
        <3>3. QED
            BY <1>2, <3>1, <3>2
    <2>3. KeepLast(Append(r, a)) = Append(r, a)
        BY <1>1, <1>2 DEF KeepLast
    <2>4. QED
        BY <2>1, <2>2, <2>3
<1>3. CASE Len(r) >= MaxContext
    <2>1. PICK n \in Nat : n = Len(r)
        OBVIOUS
    <2>2. PICK M \in Nat \ {0} : M = MaxContext
        OBVIOUS
    <2>3. PICK q \in Seq(S) :
              /\ q = SubSeq(r, n - M + 1, n) /\ Len(q) = M
              /\ \A j \in 1..M : q[j] = r[n - M + j]
        <3>1. \A j \in n - M + 1..n : r[j] \in S
            BY <1>3, <2>1, <2>2, ElementOfSeq
        <3>2. /\ SubSeq(r, n - M + 1, n) \in Seq(S)
              /\ Len(SubSeq(r, n - M + 1, n)) =
                     IF n - M + 1 <= n THEN n - (n - M + 1) + 1 ELSE 0
              /\ \A i \in 1..n - (n - M + 1) + 1 :
                     SubSeq(r, n - M + 1, n)[i] = r[(n - M + 1) + i - 1]
            BY <3>1, SubSeqProperties
        <3>3. /\ SubSeq(r, n - M + 1, n) \in Seq(S)
              /\ Len(SubSeq(r, n - M + 1, n)) = M
              /\ \A j \in 1..M : SubSeq(r, n - M + 1, n)[j] = r[n - M + j]
            BY <1>3, <2>1, <2>2, <3>2
        <3>4. QED
            BY <3>3, Zenon
    <2>4. PICK qa \in Seq(S) :
              /\ qa = Append(q, a) /\ Len(qa) = M + 1
              /\ \A j \in 1..M : qa[j] = q[j]
              /\ qa[M + 1] = a
        <3>1. /\ Append(q, a) \in Seq(S) /\ Len(Append(q, a)) = Len(q) + 1
              /\ \A j \in 1..Len(q) : Append(q, a)[j] = q[j]
              /\ Append(q, a)[Len(q) + 1] = a
            BY AppendProperties
        <3>2. /\ Append(q, a) \in Seq(S) /\ Len(Append(q, a)) = M + 1
              /\ \A j \in 1..M : Append(q, a)[j] = q[j]
              /\ Append(q, a)[M + 1] = a
            BY <2>3, <3>1
        <3>3. QED
            BY <3>2, Zenon
    <2>5. PICK ra \in Seq(S) :
              /\ ra = Append(r, a) /\ Len(ra) = n + 1
              /\ \A j \in 1..n : ra[j] = r[j]
              /\ ra[n + 1] = a
        <3>1. /\ Append(r, a) \in Seq(S) /\ Len(Append(r, a)) = n + 1
              /\ \A j \in 1..n : Append(r, a)[j] = r[j]
              /\ Append(r, a)[n + 1] = a
            BY <1>1, <2>1
        <3>2. QED
            BY <3>1, Zenon
    <2>6. /\ SubSeq(qa, 2, M + 1) \in Seq(S)
          /\ Len(SubSeq(qa, 2, M + 1)) = M
          /\ \A i \in 1..M : SubSeq(qa, 2, M + 1)[i] = qa[i + 1]
        <3>1. \A i \in 2..M + 1 : qa[i] \in S
            BY <2>4, ElementOfSeq
        <3>2. /\ SubSeq(qa, 2, M + 1) \in Seq(S)
              /\ Len(SubSeq(qa, 2, M + 1)) =
                     IF 2 <= M + 1 THEN (M + 1) - 2 + 1 ELSE 0
              /\ \A i \in 1..(M + 1) - 2 + 1 :
                     SubSeq(qa, 2, M + 1)[i] = qa[2 + i - 1]
            BY <3>1, SubSeqProperties
        <3>3. QED
            BY <2>2, <3>2
    <2>7. /\ SubSeq(ra, n - M + 2, n + 1) \in Seq(S)
          /\ Len(SubSeq(ra, n - M + 2, n + 1)) = M
          /\ \A i \in 1..M : SubSeq(ra, n - M + 2, n + 1)[i] = ra[n - M + 1 + i]
        <3>1. \A i \in n - M + 2..n + 1 : ra[i] \in S
            <4> TAKE i \in n - M + 2..n + 1
            <4>1. i \in 1..Len(ra)
                BY <1>3, <2>1, <2>2, <2>5
            <4>2. QED
                BY <4>1, ElementOfSeq
        <3>2. /\ SubSeq(ra, n - M + 2, n + 1) \in Seq(S)
              /\ Len(SubSeq(ra, n - M + 2, n + 1)) =
                     IF n - M + 2 <= n + 1 THEN (n + 1) - (n - M + 2) + 1 ELSE 0
              /\ \A i \in 1..(n + 1) - (n - M + 2) + 1 :
                     SubSeq(ra, n - M + 2, n + 1)[i] = ra[(n - M + 2) + i - 1]
            BY <3>1, SubSeqProperties
        <3>3. QED
            BY <1>3, <2>1, <2>2, <3>2
    <2>8. \A i \in 1..M : SubSeq(qa, 2, M + 1)[i] = SubSeq(ra, n - M + 2, n + 1)[i]
        <3> TAKE i \in 1..M
        <3>1. CASE i < M
            <4>1. SubSeq(qa, 2, M + 1)[i] = r[n - M + 1 + i]
                <5>1. SubSeq(qa, 2, M + 1)[i] = qa[i + 1]
                    BY <2>6
                <5>2. i + 1 \in 1..M
                    BY <2>2, <3>1
                <5>3. qa[i + 1] = q[i + 1]
                    BY <2>4, <5>2
                <5>4. q[i + 1] = r[n - M + (i + 1)]
                    BY <2>3, <5>2
                <5>5. QED
                    BY <5>1, <5>3, <5>4
            <4>2. SubSeq(ra, n - M + 2, n + 1)[i] = r[n - M + 1 + i]
                BY <1>3, <2>1, <2>2, <2>5, <2>7, <3>1
            <4>3. QED
                BY <4>1, <4>2
        <3>2. CASE i = M
            <4>1. SubSeq(qa, 2, M + 1)[i] = qa[M + 1]
                BY <2>6, <3>2
            <4>2. SubSeq(ra, n - M + 2, n + 1)[i] = ra[n + 1]
                BY <2>2, <2>7, <3>2
            <4>3. QED
                BY <2>4, <2>5, <4>1, <4>2
        <3>3. QED
            BY <2>2, <3>1, <3>2
    <2>9. SubSeq(qa, 2, M + 1) = SubSeq(ra, n - M + 2, n + 1)
        BY <2>6, <2>7, <2>8, SeqEqual
    <2>10. NewestAnswers(r) = q
        <3>1. ~(Len(r) < MaxContext)
            BY <1>3
        <3>2. NewestAnswers(r) = SubSeq(r, Len(r) - MaxContext + 1, Len(r))
            BY <3>1, NewestAnswersForm
        <3>3. QED
            BY <2>1, <2>2, <2>3, <3>2
    <2>11. NewestAnswers(ra) = SubSeq(ra, n - M + 2, n + 1)
        <3>1. ~(Len(ra) < MaxContext)
            BY <1>3, <2>1, <2>2, <2>5
        <3>2. NewestAnswers(ra) = SubSeq(ra, Len(ra) - MaxContext + 1, Len(ra))
            BY <3>1, NewestAnswersForm
        <3>3. Len(ra) - MaxContext + 1 = n - M + 2 /\ Len(ra) = n + 1
            BY <2>1, <2>2, <2>5
        <3>4. QED
            BY <3>2, <3>3, Zenon
    <2>12. KeepLast(qa) = SubSeq(qa, 2, M + 1)
        <3>1. Len(qa) > MaxContext /\ Len(qa) - MaxContext + 1 = 2
              /\ Len(qa) = M + 1
            BY <2>2, <2>4
        <3>2. QED
            BY <3>1, Zenon DEF KeepLast
    <2>13. QED
        BY <2>4, <2>5, <2>9, <2>10, <2>11, <2>12, Zenon
<1>4. QED
    BY <1>2, <1>3

\* The strengthening both theorems rest on.
InferenceInv == InferenceTypeOK /\ context_memory = NewestAnswers(answers)

LEMMA InitInferenceInv == InferenceInit => InferenceInv
BY DEF InferenceInit, InferenceInv, InferenceTypeOK, NewestAnswers

\* Each step keeps the strengthening.
LEMMA InferenceInvStep ==
    ASSUME InferenceInv, [InferenceNext]_inference_vars
    PROVE  InferenceInv'
<1> USE DEF InferenceInv
<1>1. CASE \E s \in Sensors : RecordReading(s)
    BY <1>1 DEF RecordReading, InferenceTypeOK
<1>2. CASE MonitorIteration
    <2>1. ticks + 1 \in 1..MaxTicks /\ ticks' = ticks + 1
        BY <1>2 DEF MonitorIteration, InferenceTypeOK
    <2>2. UNCHANGED <<model, has_data>>
        BY <1>2 DEF MonitorIteration
    <2>3. CASE /\ has_data # {} /\ model /\ last_result' = "model"
               /\ answers' = Append(answers, ticks + 1)
               /\ context_memory' = KeepLast(Append(context_memory, ticks + 1))
        <3>1. context_memory' \in Seq(1..MaxTicks)
              /\ Len(context_memory') <= MaxContext
            BY <2>1, <2>3, KeepLastType DEF InferenceTypeOK
        <3>2. context_memory' = NewestAnswers(answers')
            BY <2>1, <2>3, KeepLastNewest DEF InferenceTypeOK
        <3>3. QED
            BY <2>1, <2>2, <2>3, <3>1, <3>2 DEF InferenceTypeOK
    <2>4. CASE UNCHANGED <<context_memory, answers>>
               /\ last_result' \in {"no_data", "fallback"}
        BY <2>1, <2>2, <2>4 DEF InferenceTypeOK
    <2>5. QED
        BY <1>2, <2>3, <2>4 DEF MonitorIteration
<1>3. CASE InferenceBounded
    BY <1>3 DEF InferenceBounded, inference_vars, InferenceTypeOK
<1>4. CASE UNCHANGED inference_vars
    BY <1>4 DEF inference_vars, InferenceTypeOK
<1>5. QED
    BY <1>1, <1>2, <1>3, <1>4 DEF InferenceNext

\* The monitoring loop's state is well typed, and context_memory never
\* holds more than max_context answers, however long the loop runs.
THEOREM InferenceTypeCorrect == InferenceSpec => []InferenceTypeOK
<1>1. InferenceInv => InferenceTypeOK
    BY DEF InferenceInv
<1>2. QED
    BY <1>1, InitInferenceInv, InferenceInvStep, PTL DEF InferenceSpec

\* context_memory, which export_sensor_log writes out as the context
\* history, always holds exactly the newest min(n, max_context) of the n
\* model answers so far, oldest first: run_inference's trim after each
\* append loses no answer before the bound and keeps none past it, and no
\* fallback text enters it.
THEOREM ContextIsNewestAnswersCorrect == InferenceSpec => []ContextIsNewestAnswers
<1>1. InferenceInv => ContextIsNewestAnswers
    BY DEF InferenceInv, NewestAnswers, ContextIsNewestAnswers
<1>2. QED
    BY <1>1, InitInferenceInv, InferenceInvStep, PTL DEF InferenceSpec
=============================================================================
