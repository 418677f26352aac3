-------------------------------- MODULE Jobs --------------------------------
(***************************************************************************)
(* shared/jobs.py: a bounded table of background jobs and a thread pool,   *)
(* with the browser that started each job polling for its result           *)
(* (runJob in sanad/frontend/index.html).  The table's lock guards submit, *)
(* get and each of _run's updates; to_dict reads the job without it, so a  *)
(* poll may fall between two of the updates.                               *)
(***************************************************************************)
EXTENDS Naturals, Sequences, FiniteSets

CONSTANTS
    NumJobs,        \* bound: how many jobs are submitted, each by a client of its own
    MaxWorkers,     \* threads of the pool
    MaxJobs,        \* jobs the table keeps
    MaxRestarts     \* bound: restarts of the process

ASSUME JobsAssumption ==
    /\ NumJobs \in Nat /\ MaxRestarts \in Nat
    /\ MaxWorkers \in Nat \ {0} /\ MaxJobs \in Nat \ {0}

\* A job_id is a fresh uuid: jobs are named in the order of their insertion.
Job == 1..NumJobs

VARIABLES
    tracked,        \* the table _jobs, oldest first
    queue,          \* the executor's work queue
    stage,          \* how far the server is with each job
    status,         \* Job.status
    payload,        \* which of Job.result and Job.error has been set
    client,         \* what the client that started the job is doing
    seen,           \* the status its poll has read
    restarts

vars == <<tracked, queue, stage, status, payload, client, seen, restarts>>

Status  == {"pending", "running", "done", "error"}
Payload == {"none", "result", "error"}

\* "updating": the worker holds the lock and has set the result or the error.
Stage == {"new", "inserted", "queued", "running", "updating", "finished", "gone"}

\* "answered": the last poll brought the result or the error that it announced;
\* "showsNothing": it did not.
Client == {"idle", "starting", "polling", "readsStatus", "readsPayload",
           "answered", "showsNothing", "notFound"}

TypeOK ==
    /\ tracked \in Seq(Job) /\ Len(tracked) <= MaxJobs
    /\ queue \in Seq(Job)
    /\ stage \in [Job -> Stage]
    /\ status \in [Job -> Status]
    /\ payload \in [Job -> Payload]
    /\ client \in [Job -> Client]
    /\ seen \in [Job -> Status]
    /\ restarts \in Nat

Init ==
    /\ tracked = <<>>
    /\ queue = <<>>
    /\ stage = [j \in Job |-> "new"]
    /\ status = [j \in Job |-> "pending"]
    /\ payload = [j \in Job |-> "none"]
    /\ client = [j \in Job |-> "idle"]
    /\ seen = [j \in Job |-> "pending"]
    /\ restarts = 0

-----------------------------------------------------------------------------
LockFree == \A j \in Job : stage[j] # "updating"

Working == {j \in Job : stage[j] \in {"running", "updating"}}

InTable(j) == \E i \in DOMAIN tracked : tracked[i] = j

\* MUTANT of Evicted: room is made before it is needed.
Evicted_OneEarly(table) ==
    IF Len(table) >= MaxJobs THEN Tail(table) ELSE table

\* MUTANT of Evicted: the table is tested as if the new job were not in it yet.
Evicted_OneLate(table) ==
    IF Len(table) - 1 > MaxJobs THEN Tail(table) ELSE table

\* The table without its oldest jobs, if it has grown too long.
Evicted(table) ==
    IF Len(table) > MaxJobs
    THEN SubSeq(table, Len(table) - MaxJobs + 1, Len(table))
    ELSE table

\* submit, under the lock: the new job is in the table and old ones are evicted.
Submit(j) ==
    /\ stage[j] = "new"
    /\ \A i \in Job : i < j => stage[i] # "new"
    /\ LockFree
    /\ tracked' = Evicted(Append(tracked, j))
    /\ stage' = [stage EXCEPT ![j] = "inserted"]
    /\ client' = [client EXCEPT ![j] = "starting"]
    /\ UNCHANGED <<queue, status, payload, seen, restarts>>

\* submit, after the lock: the pool is given _run and the client its job_id.
Enqueue(j) ==
    /\ stage[j] = "inserted"
    /\ queue' = Append(queue, j)
    /\ stage' = [stage EXCEPT ![j] = "queued"]
    /\ client' = [client EXCEPT ![j] = "polling"]
    /\ UNCHANGED <<tracked, status, payload, seen, restarts>>

\* MUTANT of StartRun: an evicted job is not worth running.
StartRun_SkipsEvicted(j) ==
    /\ queue # <<>> /\ Head(queue) = j
    /\ Cardinality(Working) < MaxWorkers
    /\ LockFree
    /\ queue' = Tail(queue)
    /\ IF InTable(j)
       THEN /\ stage' = [stage EXCEPT ![j] = "running"]
            /\ status' = [status EXCEPT ![j] = "running"]
       ELSE /\ stage' = [stage EXCEPT ![j] = "gone"]
            /\ UNCHANGED status
    /\ UNCHANGED <<tracked, payload, client, seen, restarts>>

\* A free worker takes the next _run, which marks its job as running.
StartRun(j) ==
    /\ queue # <<>> /\ Head(queue) = j
    /\ Cardinality(Working) < MaxWorkers
    /\ LockFree
    /\ queue' = Tail(queue)
    /\ stage' = [stage EXCEPT ![j] = "running"]
    /\ status' = [status EXCEPT ![j] = "running"]
    /\ UNCHANGED <<tracked, payload, client, seen, restarts>>

\* MUTANT of SetPayload: the handler catches no exception of fn.
SetPayload_OnlyResults(j) ==
    /\ stage[j] = "running"
    /\ LockFree
    /\ \/ /\ stage' = [stage EXCEPT ![j] = "updating"]
          /\ payload' = [payload EXCEPT ![j] = "result"]
       \/ /\ stage' = [stage EXCEPT ![j] = "finished"]
          /\ UNCHANGED payload
    /\ UNCHANGED <<tracked, queue, status, client, seen, restarts>>

\* fn has returned or raised; under the lock, first what came of it ...
SetPayload(j) ==
    /\ stage[j] = "running"
    /\ LockFree
    /\ stage' = [stage EXCEPT ![j] = "updating"]
    /\ \E p \in {"result", "error"} : payload' = [payload EXCEPT ![j] = p]
    /\ UNCHANGED <<tracked, queue, status, client, seen, restarts>>

StatusFor(p) == IF p = "result" THEN "done" ELSE "error"

\* ... then the status that says so.
SetStatus(j) ==
    /\ stage[j] = "updating"
    /\ status' = [status EXCEPT ![j] = StatusFor(payload[j])]
    /\ stage' = [stage EXCEPT ![j] = "finished"]
    /\ UNCHANGED <<tracked, queue, payload, client, seen, restarts>>

-----------------------------------------------------------------------------
(* GET /api/jobs/{job_id}, over and over *)

\* get, under the lock: the job, or 404.
Get(j) ==
    /\ client[j] = "polling"
    /\ LockFree
    /\ client' = [client EXCEPT ![j] = IF InTable(j) THEN "readsStatus" ELSE "notFound"]
    /\ UNCHANGED <<tracked, queue, stage, status, payload, seen, restarts>>

\* MUTANT of ReadStatus: to_dict reads the result before the status.
ReadStatus_PayloadFirst(j) ==
    /\ client[j] = "readsStatus"
    /\ seen' = [seen EXCEPT ![j] = status[j]]
    /\ client' = [client EXCEPT ![j] =
           IF payload[j] = "none" THEN "showsNothing" ELSE "readsPayload"]
    /\ UNCHANGED <<tracked, queue, stage, status, payload, restarts>>

\* to_dict, without the lock: the status ...
ReadStatus(j) ==
    /\ client[j] = "readsStatus"
    /\ seen' = [seen EXCEPT ![j] = status[j]]
    /\ client' = [client EXCEPT ![j] = "readsPayload"]
    /\ UNCHANGED <<tracked, queue, stage, status, payload, restarts>>

\* ... then result and error; the client shows them, or polls again.
ReadPayload(j) ==
    /\ client[j] = "readsPayload"
    /\ client' = [client EXCEPT ![j] =
           IF seen[j] \in {"pending", "running"} THEN "polling"
           ELSE IF payload[j] # "none" /\ seen[j] = StatusFor(payload[j])
                THEN "answered" ELSE "showsNothing"]
    /\ seen' = [seen EXCEPT ![j] = "pending"]
    /\ UNCHANGED <<tracked, queue, stage, status, payload, restarts>>

-----------------------------------------------------------------------------
(***************************************************************************)
(* The process is restarted: jobs are only in memory.  A request under way *)
(* fails, and with it the loop of the client that made it.                 *)
(***************************************************************************)
Restart ==
    /\ restarts < MaxRestarts
    /\ restarts' = restarts + 1
    /\ tracked' = <<>>
    /\ queue' = <<>>
    /\ stage' = [j \in Job |-> IF stage[j] = "new" THEN "new" ELSE "gone"]
    /\ client' = [j \in Job |->
           IF client[j] \in {"starting", "readsStatus", "readsPayload"}
           THEN "notFound" ELSE client[j]]
    /\ status' = [j \in Job |-> "pending"]
    /\ payload' = [j \in Job |-> "none"]
    /\ seen' = [j \in Job |-> "pending"]

Server(j) == Enqueue(j) \/ StartRun(j) \/ SetPayload(j) \/ SetStatus(j)
Poll(j)   == Get(j) \/ ReadStatus(j) \/ ReadPayload(j)

Next ==
    \/ \E j \in Job : Submit(j) \/ Server(j) \/ Poll(j)
    \/ Restart

Spec == Init /\ [][Next]_vars

(***************************************************************************)
(* Threads make progress; fn comes to an end, because the calls to the     *)
(* language model carry a timeout; clients poll until they have an answer. *)
(***************************************************************************)
FairSpec ==
    /\ Spec
    /\ \A j \in Job : WF_vars(Server(j)) /\ WF_vars(Poll(j))

-----------------------------------------------------------------------------
(***************************************************************************)
(* A client that is told its job is done or failed has the result or the   *)
(* error in the same answer, although to_dict reads the fields one by one  *)
(* while _run writes them: it never shows an empty result, nor the error   *)
(* of a job that succeeded.                                                *)
(***************************************************************************)
AnswersAreComplete == \A j \in Job : client[j] # "showsNothing"

(***************************************************************************)
(* A client only loses its job to a restart, or to at least MaxJobs other  *)
(* jobs submitted by then: the bound of the table costs nobody else        *)
(* anything.                                                               *)
(***************************************************************************)
LostOnlyBeyondLimit ==
    (\E j \in Job : client[j] = "notFound")
        => restarts > 0 \/ Cardinality({j \in Job : stage[j] # "new"}) > MaxJobs

(***************************************************************************)
(* Every client that starts a job is answered in the end - with its        *)
(* result, its error, or the news that the job is lost - whatever failed,  *)
(* was evicted or was forgotten in a restart.                              *)
(***************************************************************************)
EveryClientIsAnswered ==
    \A j \in Job : client[j] = "starting" ~> client[j] \in {"answered", "notFound"}

(***************************************************************************)
(* Jobs that are submitted are also run to their end, evicted or not,      *)
(* unless the process is restarted: an evicted job still occupies the      *)
(* pool.                                                                   *)
(***************************************************************************)
EveryJobEnds ==
    \A j \in Job : stage[j] = "inserted" ~> stage[j] = "finished" \/ restarts > 0
=============================================================================
