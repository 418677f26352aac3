----------------------------- MODULE JobsProofs -----------------------------
(***************************************************************************)
(* What holds of Jobs for any number of jobs, workers and restarts, and    *)
(* any size of the table.                                                  *)
(***************************************************************************)
EXTENDS Jobs, FiniteSetTheorems, SequenceTheorems, TLAPS

-----------------------------------------------------------------------------
LEMMA EvictedType ==
    ASSUME NEW table \in Seq(Job)
    PROVE  /\ Evicted(table) \in Seq(Job)
           /\ Len(Evicted(table)) <= MaxJobs
           /\ Len(Evicted(table)) <= Len(table)
  <1>1. CASE Len(table) > MaxJobs
    <2> DEFINE m == Len(table) - MaxJobs + 1
    <2>1. m \in 1..Len(table) /\ Len(table) - m + 1 = MaxJobs
      BY <1>1, JobsAssumption, LenProperties
    <2>2. /\ SubSeq(table, m, Len(table)) \in Seq(Job)
          /\ Len(SubSeq(table, m, Len(table))) = MaxJobs
      <3> HIDE DEF m
      <3> QED BY <2>1, SubSeqProperties, LenProperties
    <2>3. QED BY <1>1, <2>2, JobsAssumption DEF Evicted
  <1>2. CASE ~(Len(table) > MaxJobs)
    BY <1>2, JobsAssumption, LenProperties DEF Evicted
  <1>3. QED BY <1>1, <1>2

(***************************************************************************)
(* The table, the queue and every job's record are of their types.         *)
(***************************************************************************)
LEMMA InitTypes == Init => TypeOK
  BY JobsAssumption DEF Init, TypeOK, Stage, Status, Payload, Client

LEMMA ServerTypes ==
    ASSUME TypeOK, NEW j \in Job, Server(j) PROVE TypeOK'
  <1> USE DEF TypeOK, Stage, Status, Payload, Client
  <1>1. CASE Enqueue(j)
    <2>1. queue' \in Seq(Job)
      BY <1>1 DEF Enqueue
    <2>2. QED BY <1>1, <2>1 DEF Enqueue
  <1>2. CASE StartRun(j)
    <2>1. queue' \in Seq(Job)
      BY <1>2 DEF StartRun
    <2>2. QED BY <1>2, <2>1 DEF StartRun
  <1>3. CASE SetPayload(j)
    BY <1>3 DEF SetPayload
  <1>4. CASE SetStatus(j)
    BY <1>4 DEF SetStatus, StatusFor
  <1>5. QED BY <1>1, <1>2, <1>3, <1>4 DEF Server

LEMMA NextTypes == TypeOK /\ [Next]_vars => TypeOK'
  <1> SUFFICES ASSUME TypeOK, [Next]_vars PROVE TypeOK'
    OBVIOUS
  <1>1. ASSUME NEW j \in Job, Submit(j) PROVE TypeOK'
    <2>1. Append(tracked, j) \in Seq(Job)
      BY AppendProperties DEF TypeOK
    <2>2. tracked' \in Seq(Job) /\ Len(tracked') <= MaxJobs
      BY <1>1, <2>1, EvictedType DEF Submit
    <2>3. QED BY <1>1, <2>2 DEF Submit, TypeOK, Stage, Client
  <1>2. ASSUME NEW j \in Job, Poll(j) PROVE TypeOK'
    <2>1. CASE Get(j)
      BY <2>1 DEF Get, TypeOK, Client
    <2>2. CASE ReadStatus(j)
      BY <2>2 DEF ReadStatus, TypeOK, Client
    <2>3. CASE ReadPayload(j)
      BY <2>3 DEF ReadPayload, TypeOK, Client, Status
    <2>4. QED BY <1>2, <2>1, <2>2, <2>3 DEF Poll
  <1>3. CASE Restart
    BY <1>3, JobsAssumption DEF Restart, TypeOK, Stage, Status, Payload, Client
  <1>4. CASE UNCHANGED vars
    BY <1>4 DEF vars, TypeOK
  <1>5. QED BY <1>1, <1>2, <1>3, <1>4, ServerTypes DEF Next

THEOREM TypeCorrect == Spec => []TypeOK
  BY InitTypes, NextTypes, PTL DEF Spec

-----------------------------------------------------------------------------
(***************************************************************************)
(* Answers.  What a status announces is there before the status, and once  *)
(* there it stays: a job is queued once, so it is run once.                *)
(***************************************************************************)
QueuedOnce ==
    /\ \A i \in DOMAIN queue : stage[queue[i]] = "queued"
    /\ \A i, k \in DOMAIN queue : queue[i] = queue[k] => i = k

\* The fields of the Job object at each stage of its life.
RecordFollowsStage ==
    \A j \in Job :
        /\ stage[j] \in {"new", "inserted", "queued", "gone"}
              => status[j] = "pending" /\ payload[j] = "none"
        /\ stage[j] = "running" => status[j] = "running" /\ payload[j] = "none"
        /\ stage[j] = "updating" => status[j] = "running" /\ payload[j] # "none"
        /\ stage[j] = "finished" => payload[j] # "none" /\ status[j] = StatusFor(payload[j])

\* A poll that has seen an outcome will find it.
SeenIsFinal ==
    \A j \in Job :
        client[j] = "readsPayload" /\ seen[j] \notin {"pending", "running"}
            => stage[j] = "finished" /\ seen[j] = status[j]

AnswerInv == QueuedOnce /\ RecordFollowsStage /\ SeenIsFinal /\ AnswersAreComplete

LEMMA InitAnswers == Init => AnswerInv
  BY DEF Init, AnswerInv, QueuedOnce, RecordFollowsStage, SeenIsFinal, AnswersAreComplete

LEMMA ServerAnswers ==
    ASSUME TypeOK, AnswerInv, NEW j \in Job, Server(j) PROVE AnswerInv'
  <1> USE DEF TypeOK, AnswerInv
  <1>1. CASE Enqueue(j)
    <2>1. QueuedOnce'
      <3>1. /\ DOMAIN queue' = DOMAIN queue \cup {Len(queue) + 1}
            /\ queue'[Len(queue) + 1] = j
            /\ \A i \in DOMAIN queue : queue'[i] = queue[i]
        BY <1>1, AppendProperties, LenProperties DEF Enqueue
      <3>2. QED BY <1>1, <3>1 DEF Enqueue, QueuedOnce
    <2>2. RecordFollowsStage'
      BY <1>1 DEF Enqueue, RecordFollowsStage
    <2>3. SeenIsFinal' /\ AnswersAreComplete'
      BY <1>1 DEF Enqueue, SeenIsFinal, AnswersAreComplete
    <2>4. QED BY <2>1, <2>2, <2>3
  <1>2. CASE StartRun(j)
    <2>1. stage[j] = "queued"
      BY <1>2 DEF StartRun, QueuedOnce
    <2>2. QueuedOnce'
      <3>1. /\ \A i \in DOMAIN queue' : i + 1 \in DOMAIN queue /\ queue'[i] = queue[i + 1]
            /\ 1 \in DOMAIN queue /\ queue[1] = j
        BY <1>2, HeadTailProperties DEF StartRun
      <3>2. \A i \in DOMAIN queue' : i + 1 # 1
        BY <1>2 DEF StartRun
      <3>3. \A i, k \in DOMAIN queue' : i + 1 = k + 1 => i = k
        BY <1>2 DEF StartRun
      <3>4. QED BY <1>2, <3>1, <3>2, <3>3 DEF StartRun, QueuedOnce
    <2>3. RecordFollowsStage'
      BY <1>2, <2>1 DEF StartRun, RecordFollowsStage
    <2>4. SeenIsFinal' /\ AnswersAreComplete'
      BY <1>2, <2>1 DEF StartRun, SeenIsFinal, AnswersAreComplete
    <2>5. QED BY <2>2, <2>3, <2>4
  <1>3. CASE SetPayload(j)
    <2>1. QueuedOnce'
      BY <1>3 DEF SetPayload, QueuedOnce
    <2>2. RecordFollowsStage'
      BY <1>3 DEF SetPayload, RecordFollowsStage
    <2>3. SeenIsFinal' /\ AnswersAreComplete'
      BY <1>3 DEF SetPayload, SeenIsFinal, AnswersAreComplete
    <2>4. QED BY <2>1, <2>2, <2>3
  <1>4. CASE SetStatus(j)
    <2>1. QueuedOnce'
      BY <1>4 DEF SetStatus, QueuedOnce
    <2>2. RecordFollowsStage'
      BY <1>4 DEF SetStatus, RecordFollowsStage
    <2>3. SeenIsFinal' /\ AnswersAreComplete'
      BY <1>4 DEF SetStatus, SeenIsFinal, AnswersAreComplete
    <2>4. QED BY <2>1, <2>2, <2>3
  <1>5. QED BY <1>1, <1>2, <1>3, <1>4 DEF Server

LEMMA PollAnswers ==
    ASSUME TypeOK, AnswerInv, NEW j \in Job, Poll(j) PROVE AnswerInv'
  <1> USE DEF TypeOK, AnswerInv
  <1>1. QueuedOnce' /\ RecordFollowsStage'
    BY DEF Poll, Get, ReadStatus, ReadPayload, QueuedOnce, RecordFollowsStage
  <1>2. CASE Get(j)
    BY <1>1, <1>2 DEF Get, SeenIsFinal, AnswersAreComplete
  <1>3. CASE ReadStatus(j)
    <2>1. status[j] \notin {"pending", "running"} => stage[j] = "finished"
      BY DEF RecordFollowsStage, Stage
    <2>2. SeenIsFinal'
      BY <1>3, <2>1 DEF ReadStatus, SeenIsFinal
    <2>3. QED BY <1>1, <1>3, <2>2 DEF ReadStatus, AnswersAreComplete
  <1>4. CASE ReadPayload(j)
    <2>1. seen[j] \notin {"pending", "running"}
             => payload[j] # "none" /\ seen[j] = StatusFor(payload[j])
      BY <1>4 DEF ReadPayload, SeenIsFinal, RecordFollowsStage
    <2>2. client' = [client EXCEPT ![j] = client'[j]] /\ client'[j] \in {"polling", "answered"}
      BY <1>4, <2>1 DEF ReadPayload
    <2>3. SeenIsFinal' /\ AnswersAreComplete'
      BY <1>4, <2>2 DEF ReadPayload, SeenIsFinal, AnswersAreComplete
    <2>4. QED BY <1>1, <2>3
  <1>5. QED BY <1>2, <1>3, <1>4 DEF Poll

LEMMA NextAnswers == TypeOK /\ AnswerInv /\ [Next]_vars => AnswerInv'
  <1> SUFFICES ASSUME TypeOK, AnswerInv, [Next]_vars PROVE AnswerInv'
    OBVIOUS
  <1> USE DEF AnswerInv, QueuedOnce, RecordFollowsStage, SeenIsFinal, AnswersAreComplete
  <1>1. ASSUME NEW j \in Job, Submit(j) PROVE AnswerInv'
    BY <1>1 DEF Submit, TypeOK
  <1>2. CASE Restart
    BY <1>2 DEF Restart, TypeOK
  <1>3. CASE UNCHANGED vars
    BY <1>3 DEF vars
  <1>4. QED BY <1>1, <1>2, <1>3, ServerAnswers, PollAnswers DEF Next

(***************************************************************************)
(* For any number of jobs and workers: no poll that sees an outcome comes  *)
(* back without it.                                                        *)
(***************************************************************************)
THEOREM AnswersComplete == Spec => []AnswersAreComplete
  <1>1. Init => TypeOK /\ AnswerInv
    BY InitTypes, InitAnswers
  <1>2. (TypeOK /\ AnswerInv) /\ [Next]_vars => (TypeOK /\ AnswerInv)'
    BY NextTypes, NextAnswers
  <1>3. AnswerInv => AnswersAreComplete
    BY DEF AnswerInv
  <1>4. QED BY <1>1, <1>2, <1>3, PTL DEF Spec

-----------------------------------------------------------------------------
(***************************************************************************)
(* Losses.  The table never holds more jobs than were submitted, so until  *)
(* more than MaxJobs were, nothing has been evicted.                       *)
(***************************************************************************)
Submitted == {j \in Job : stage[j] # "new"}

StartedAreSubmitted == \A j \in Job : client[j] # "idle" => j \in Submitted

TableIsNoLarger == restarts = 0 => Len(tracked) <= Cardinality(Submitted)

NothingEvictedYet ==
    restarts = 0 /\ Cardinality(Submitted) <= MaxJobs
        => \A j \in Submitted : InTable(j) /\ client[j] # "notFound"

LimitInv == StartedAreSubmitted /\ TableIsNoLarger /\ NothingEvictedYet

LEMMA SubmittedFinite == IsFiniteSet(Submitted) /\ Cardinality(Submitted) \in Nat
  <1>1. IsFiniteSet(Job)
    BY JobsAssumption, FS_Interval DEF Job
  <1>2. Submitted \subseteq Job
    BY DEF Submitted
  <1>3. QED BY <1>1, <1>2, FS_Subset, FS_CardinalityType

LEMMA InitLimit == Init => LimitInv
  <1> SUFFICES ASSUME Init PROVE LimitInv
    OBVIOUS
  <1>1. Submitted = {}
    BY DEF Init, Submitted
  <1>2. QED
    BY <1>1, FS_EmptySet
    DEF Init, LimitInv, StartedAreSubmitted, TableIsNoLarger, NothingEvictedYet

LEMMA SubmitLimit ==
    ASSUME TypeOK, LimitInv, NEW j \in Job, Submit(j) PROVE LimitInv'
  <1> USE DEF TypeOK, LimitInv
  <1>1. Submitted' = Submitted \cup {j} /\ j \notin Submitted
    BY DEF Submit, Submitted
  <1>2. Cardinality(Submitted') = Cardinality(Submitted) + 1
    BY <1>1, SubmittedFinite, FS_AddElement
  <1>3. /\ Append(tracked, j) \in Seq(Job)
        /\ Len(Append(tracked, j)) = Len(tracked) + 1
        /\ \A i \in 1..Len(tracked) : Append(tracked, j)[i] = tracked[i]
        /\ Append(tracked, j)[Len(tracked) + 1] = j
    BY AppendProperties
  <1>4. StartedAreSubmitted'
    BY <1>1 DEF Submit, StartedAreSubmitted
  <1>5. TableIsNoLarger'
    <2>1. Len(Evicted(Append(tracked, j))) \in Nat
      BY <1>3, EvictedType, LenProperties
    <2>2. Len(Evicted(Append(tracked, j))) <= Len(tracked) + 1
      BY <1>3, EvictedType
    <2>3. QED
      BY <1>2, <2>1, <2>2, SubmittedFinite, LenProperties DEF Submit, TableIsNoLarger
  <1>6. NothingEvictedYet'
    <2> SUFFICES ASSUME restarts = 0, Cardinality(Submitted) + 1 <= MaxJobs,
                        NEW k \in Submitted \cup {j}
                 PROVE  InTable(k)' /\ client'[k] # "notFound"
      BY <1>1, <1>2 DEF Submit, NothingEvictedYet
    <2>1. Len(tracked) + 1 <= MaxJobs
      BY SubmittedFinite, LenProperties, JobsAssumption DEF TableIsNoLarger
    <2>2. tracked' = Append(tracked, j)
      BY <1>3, <2>1, LenProperties, JobsAssumption DEF Submit, Evicted
    <2>3. DOMAIN tracked' = 1..Len(tracked) + 1 /\ DOMAIN tracked = 1..Len(tracked)
      BY <1>3, <2>2, LenProperties
    <2>4. CASE k = j
      <3>1. Len(tracked) + 1 \in DOMAIN tracked'
        BY <2>3, LenProperties
      <3>2. QED BY <1>3, <2>2, <2>4, <3>1 DEF Submit, InTable
    <2>5. CASE k \in Submitted /\ k # j
      <3>1. InTable(k) /\ client[k] # "notFound"
        BY <2>5, SubmittedFinite, JobsAssumption DEF NothingEvictedYet
      <3>2. PICK i \in DOMAIN tracked : tracked[i] = k
        BY <3>1 DEF InTable
      <3>3. i \in DOMAIN tracked' /\ tracked'[i] = k
        BY <1>3, <2>2, <2>3, <3>2, LenProperties
      <3>4. QED BY <2>5, <3>1, <3>3 DEF Submit, Submitted, InTable
    <2>6. QED BY <2>4, <2>5
  <1>7. QED BY <1>4, <1>5, <1>6

LEMMA NextLimit == TypeOK /\ AnswerInv /\ LimitInv /\ [Next]_vars => LimitInv'
  <1> SUFFICES ASSUME TypeOK, AnswerInv, LimitInv, [Next]_vars PROVE LimitInv'
    OBVIOUS
  <1> USE DEF LimitInv, StartedAreSubmitted, TableIsNoLarger, NothingEvictedYet
  <1>1. ASSUME UNCHANGED <<tracked, restarts>>, Submitted' = Submitted,
               \A k \in Submitted : client'[k] = "notFound" => client[k] = "notFound" \/ ~InTable(k),
               \A k \in Job : client'[k] # "idle" => client[k] # "idle" \/ k \in Submitted
        PROVE  LimitInv'
    BY <1>1 DEF InTable
  <1>2. ASSUME NEW j \in Job, Server(j) PROVE LimitInv'
    <2>1. /\ UNCHANGED <<tracked, restarts>>
          /\ stage[j] # "new"
          /\ \E g \in {"queued", "running", "updating", "finished"} :
                stage' = [stage EXCEPT ![j] = g]
      <3>1. CASE Enqueue(j)
        BY <3>1 DEF Enqueue
      <3>2. CASE StartRun(j)
        <4>1. 1 \in DOMAIN queue /\ queue[1] = j
          BY <3>2, HeadTailProperties, LenProperties DEF StartRun, TypeOK
        <4>2. QED BY <3>2, <4>1 DEF StartRun, AnswerInv, QueuedOnce
      <3>3. CASE SetPayload(j)
        BY <3>3 DEF SetPayload
      <3>4. CASE SetStatus(j)
        BY <3>4 DEF SetStatus
      <3>5. QED BY <1>2, <3>1, <3>2, <3>3, <3>4 DEF Server
    <2>3. Submitted' = Submitted
      BY <2>1 DEF Submitted, TypeOK
    <2>2. \A k \in Job : client'[k] # client[k] => client'[k] = "polling" /\ k \in Submitted
      BY <1>2 DEF Server, Enqueue, StartRun, SetPayload, SetStatus, Submitted, TypeOK
    <2>4. QED BY <1>1, <2>1, <2>2, <2>3 DEF Submitted
  <1>3. ASSUME NEW j \in Job, Poll(j) PROVE LimitInv'
    <2>1. Submitted' = Submitted /\ UNCHANGED <<tracked, restarts>>
      BY <1>3 DEF Poll, Get, ReadStatus, ReadPayload, Submitted, TypeOK
    <2>2. \A k \in Job : client'[k] # client[k] => client[k] # "idle"
      BY <1>3 DEF Poll, Get, ReadStatus, ReadPayload, TypeOK
    <2>3. \A k \in Job : client'[k] = "notFound" => client[k] = "notFound" \/ ~InTable(k)
      BY <1>3 DEF Poll, Get, ReadStatus, ReadPayload, TypeOK
    <2>4. QED BY <1>1, <2>1, <2>2, <2>3 DEF Submitted
  <1>4. CASE Restart
    <2>1. Submitted' = Submitted /\ restarts' # 0
      BY <1>4 DEF Restart, Submitted, TypeOK
    <2>2. \A k \in Job : client'[k] # client[k] => client[k] # "idle"
      BY <1>4 DEF Restart, TypeOK
    <2>3. QED BY <2>1, <2>2
  <1>5. CASE UNCHANGED vars
    BY <1>1, <1>5 DEF vars, Submitted
  <1>6. QED BY <1>2, <1>3, <1>4, <1>5, SubmitLimit DEF Next

(***************************************************************************)
(* For any size of the table and any load: no client is told that its job  *)
(* is unknown before a restart, or before more than MaxJobs jobs were      *)
(* submitted.                                                              *)
(***************************************************************************)
THEOREM LossesNeedLoad == Spec => []LostOnlyBeyondLimit
  <1>1. Init => TypeOK /\ AnswerInv /\ LimitInv
    BY InitTypes, InitAnswers, InitLimit
  <1>2. (TypeOK /\ AnswerInv /\ LimitInv) /\ [Next]_vars => (TypeOK /\ AnswerInv /\ LimitInv)'
    BY NextTypes, NextAnswers, NextLimit
  <1>3. TypeOK /\ LimitInv => LostOnlyBeyondLimit
    BY SubmittedFinite, JobsAssumption
    DEF LimitInv, StartedAreSubmitted, NothingEvictedYet, LostOnlyBeyondLimit, Submitted, TypeOK
  <1>4. QED BY <1>1, <1>2, <1>3, PTL DEF Spec
=============================================================================
