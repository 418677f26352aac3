----------------------------- MODULE Telemetry -----------------------------
(***************************************************************************)
(* How what happens in Sanad gets to ModelWatch: the bounded buffer of     *)
(* sanad/api/telemetry.py, the loop of telemetry_reporter.py that drains   *)
(* it over HTTP and posts batches, and as much of ModelWatch's API as the  *)
(* reporter depends on.  Events are numbered in the order of the           *)
(* questions.  One reporter runs at a time, in any of its three modes.     *)
(***************************************************************************)
EXTENDS Naturals, SequencesExt

CONSTANTS
    MaxEvents,      \* what Sanad's buffer holds (_MAX_EVENTS)
    MinBatch,       \* --min-batch
    Modes,          \* how the operator starts the reporter
    FaultKinds,     \* what may go wrong: a subset of Fault
    MaxAsked,       \* bound: questions
    MaxFaults       \* bound: faults

Fault == {"sanadDown",      \* the drain request does not reach Sanad
          "replyLost",      \* Sanad has drained its buffer, the answer is lost
          "tracesFail",     \* some of the posts to /traces fail
          "modelwatchDown", \* a request to ModelWatch or its answer is lost
          "serverError",    \* GET /models answers, but not with 200 or 404
          "halfRegistered", \* ModelWatch is killed between create_model and save_baseline
          "killed",         \* the reporter is stopped, and started again later
          "sanadRestart",
          "sessionExpires"} \* Sanad has auth on, and the reporter's cookie runs out

ASSUME TelemetryAssumption ==
    /\ MaxEvents \in Nat \ {0} /\ MinBatch \in Nat \ {0}
    /\ Modes \subseteq {"baseline", "once", "poll"} /\ FaultKinds \subseteq Fault
    /\ MaxAsked \in Nat /\ MaxFaults \in Nat

VARIABLES
    asked,      \* questions answered so far
    buffer,     \* Sanad's deque _events
    fullTrace,  \* config.telemetry_full_trace of the running process
    withTrace,  \* the questions whose event carries a full_trace
    mode,       \* how the reporter was started, "off" when it does not run
    pc,         \* its next request
    signedIn,   \* whether its session is valid
    fetched,    \* its local variable events
    pending,    \* drained, but not yet a batch
    batch,      \* the batch being delivered
    model,      \* ModelWatch's record of sanad-live
    baseline,   \* the events of its baseline
    judged,     \* the events it has run checks on, batch after batch
    traced,     \* the events whose traces it stores
    caught,     \* history: the events that an overflow or a fault has caught
    unposted,   \* history: the events whose trace was posted in vain
    faults      \* history: how many faults

sanad    == <<asked, buffer, fullTrace, withTrace>>
reporter == <<mode, pc, signedIn, fetched, pending, batch>>
monitor  == <<model, baseline, judged, traced>>
history  == <<caught, unposted, faults>>
vars == <<sanad, reporter, monitor, history>>

Event == 1..MaxAsked

PC == {"off", "fetch", "trace", "isRegistered", "register", "report"}

TypeOK ==
    /\ asked \in 0..MaxAsked
    /\ buffer \in Seq(Event) /\ Len(buffer) <= MaxEvents
    /\ fullTrace \in BOOLEAN /\ withTrace \subseteq Event
    /\ mode \in Modes \cup {"off"} /\ pc \in PC /\ (mode = "off" <=> pc = "off")
    /\ signedIn \in BOOLEAN
    /\ fetched \in Seq(Event) /\ pending \in Seq(Event) /\ batch \in Seq(Event)
    /\ model \in {"none", "noBaseline", "ready"}
    /\ baseline \in Seq(Event)
    /\ judged \in Seq(Event)
    /\ traced \subseteq Event
    /\ caught \subseteq Event /\ unposted \subseteq Event
    /\ faults \in 0..MaxFaults

Init ==
    /\ asked = 0
    /\ buffer = <<>>
    /\ fullTrace \in BOOLEAN /\ withTrace = {}
    /\ mode = "off" /\ pc = "off"
    /\ signedIn = FALSE
    /\ fetched = <<>> /\ pending = <<>> /\ batch = <<>>
    /\ model = "none"
    /\ baseline = <<>>
    /\ judged = <<>>
    /\ traced = {}
    /\ caught = {} /\ unposted = {}
    /\ faults = 0

-----------------------------------------------------------------------------
\* Something goes wrong in this step and catches events, or nothing does.
Goes(wrong, events) ==
    /\ wrong \in FaultKinds
    /\ faults < MaxFaults
    /\ faults' = faults + 1
    /\ caught' = caught \cup events

Fine == UNCHANGED <<faults, caught>>

\* The next question's event, with its trace or without.
Records ==
    /\ asked < MaxAsked
    /\ asked' = asked + 1
    /\ withTrace' = withTrace \cup {e \in {asked + 1} : fullTrace}

\* MUTANT of Ask: the buffer is a list without a limit.
Ask_Unbounded ==
    /\ Records
    /\ buffer' = Append(buffer, asked + 1)
    /\ UNCHANGED <<fullTrace, reporter, monitor, history>>

\* record_chat: the oldest event makes room for the newest.
Ask ==
    /\ Records
    /\ LET longer == Append(buffer, asked + 1) IN
       IF Len(longer) > MaxEvents
       THEN buffer' = Tail(longer) /\ caught' = caught \cup {Head(longer)}
       ELSE buffer' = longer /\ UNCHANGED caught
    /\ UNCHANGED <<fullTrace, reporter, monitor, unposted, faults>>

-----------------------------------------------------------------------------
(* telemetry_reporter.main *)

\* The process is started by its operator, and signs in.
Start ==
    /\ mode = "off"
    /\ mode' \in Modes
    /\ pc' = "fetch"
    /\ signedIn' = TRUE
    /\ UNCHANGED <<sanad, fetched, pending, batch, monitor, history>>

\* What is with the reporter alone: a batch for a baseline is a copy of the buffer.
Carried == ToSet(fetched) \cup ToSet(pending) \cup (IF mode = "baseline" THEN {} ELSE ToSet(batch))

\* Back to the next poll; in the other modes the process ends, and forgets.
NextPoll(left) ==
    /\ fetched' = <<>> /\ batch' = <<>>
    /\ IF mode = "poll"
       THEN pc' = "fetch" /\ pending' = left /\ UNCHANGED <<mode, signedIn>>
       ELSE pc' = "off" /\ pending' = <<>> /\ mode' = "off" /\ signedIn' = FALSE

\* fetch_events.  Without a valid session the answer is 401, and nothing is drained.
Fetch ==
    /\ pc = "fetch"
    /\ \/ /\ signedIn /\ Fine
          /\ mode # "baseline"
          /\ fetched' = buffer
          /\ buffer' = <<>>
          /\ pc' = "trace"
          /\ UNCHANGED <<mode, signedIn, pending, batch>>
       \/ /\ signedIn /\ Fine
          /\ mode = "baseline" /\ buffer # <<>>
          /\ batch' = buffer
          /\ pc' = "isRegistered"
          /\ UNCHANGED <<buffer, mode, signedIn, fetched, pending>>
       \/ /\ signedIn /\ Fine
          /\ mode = "baseline" /\ buffer = <<>>
          /\ NextPoll(pending)
          /\ UNCHANGED buffer
       \/ /\ signedIn /\ mode # "baseline" /\ Goes("replyLost", ToSet(buffer))
          /\ buffer' = <<>>
          /\ NextPoll(pending)
       \/ /\ Goes("sanadDown", {}) \/ (~signedIn /\ Fine)
          /\ NextPoll(pending)
          /\ UNCHANGED buffer
    /\ UNCHANGED <<asked, fullTrace, withTrace, monitor, unposted>>

\* MUTANT of Collect: a batch is only due when there are more events than --min-batch.
Collect_MoreThanMinBatch(collected) ==
    IF Len(collected) > MinBatch \/ (mode = "once" /\ collected # <<>>)
    THEN /\ batch' = collected /\ pending' = <<>>
         /\ pc' = "isRegistered"
         /\ fetched' = <<>>
         /\ UNCHANGED <<mode, signedIn>>
    ELSE NextPoll(collected)

\* Enough for a batch, or left pending for the next poll.
Collect(collected) ==
    IF Len(collected) >= MinBatch \/ (mode = "once" /\ collected # <<>>)
    THEN /\ batch' = collected /\ pending' = <<>>
         /\ pc' = "isRegistered"
         /\ fetched' = <<>>
         /\ UNCHANGED <<mode, signedIn>>
    ELSE NextPoll(collected)

\* report_traces, for the events that have one; it goes on after a failed post.
Posts ==
    LET posted == ToSet(fetched) \cap withTrace IN
    \/ /\ Fine
       /\ traced' = traced \cup posted
       /\ UNCHANGED unposted
    \/ /\ posted # {} /\ Goes("tracesFail", {})
       /\ \E stored \in SUBSET posted :
             traced' = traced \cup stored /\ unposted' = unposted \cup (posted \ stored)

\* MUTANT of ReportTraces: what was pending is replaced, not extended.
ReportTraces_ForgetsPending ==
    /\ pc = "trace"
    /\ Posts
    /\ Collect(fetched)
    /\ UNCHANGED <<sanad, model, baseline, judged>>

\* MUTANT of ReportTraces: traces travel with the batch that is due.
ReportTraces_WithBatch ==
    /\ pc = "trace"
    /\ \/ Len(pending \o fetched) >= MinBatch /\ Posts
       \/ Len(pending \o fetched) < MinBatch /\ Fine /\ UNCHANGED <<traced, unposted>>
    /\ Collect(pending \o fetched)
    /\ UNCHANGED <<sanad, model, baseline, judged>>

\* The traces are sent, then the events are collected.
ReportTraces ==
    /\ pc = "trace"
    /\ Posts
    /\ Collect(pending \o fetched)
    /\ UNCHANGED <<sanad, model, baseline, judged>>

\* is_registered: any status but 200 counts as no.
IsRegistered ==
    /\ pc = "isRegistered"
    /\ \/ /\ model # "none" /\ mode = "baseline" /\ Fine
          /\ NextPoll(pending)
       \/ /\ \/ model # "none" /\ mode # "baseline" /\ Fine /\ pc' = "report"
             \/ model = "none" /\ Fine /\ pc' = "register"
             \/ /\ Goes("serverError", IF model = "none" THEN {} ELSE Carried)
                /\ pc' = "register"
          /\ UNCHANGED <<mode, signedIn, fetched, pending, batch>>
       \/ /\ Goes("modelwatchDown", Carried)
          /\ NextPoll(pending)
    /\ UNCHANGED <<sanad, monitor, unposted>>

\* register: a model that exists is refused (409), and the batch is gone.
Register ==
    /\ pc = "register"
    /\ \/ /\ model = "none" /\ (Fine \/ Goes("modelwatchDown", {}))
          /\ model' = "ready" /\ baseline' = batch
       \/ /\ model = "none" /\ Goes("halfRegistered", Carried)
          /\ model' = "noBaseline" /\ UNCHANGED baseline
       \/ /\ (model # "none" /\ Fine) \/ Goes("modelwatchDown", Carried)
          /\ UNCHANGED <<model, baseline>>
    /\ NextPoll(pending)
    /\ UNCHANGED <<sanad, judged, traced, unposted>>

\* MUTANT of Report: a batch whose post has failed is reported with the next one.
Report_Retries ==
    /\ pc = "report"
    /\ \/ Fine /\ judged' = judged \o batch /\ NextPoll(pending)
       \/ /\ Goes("modelwatchDown", Carried)
          /\ judged' \in {judged, judged \o batch}
          /\ NextPoll(batch)
    /\ UNCHANGED <<sanad, model, baseline, traced, unposted>>

\* report: a model without a baseline is refused (404), and the batch is gone; so it
\* is if the post fails.  If it is only the answer that is lost, the batch is judged.
Report ==
    /\ pc = "report"
    /\ \/ /\ model = "ready" /\ (Fine \/ Goes("modelwatchDown", {}))
          /\ judged' = judged \o batch
       \/ /\ Goes("modelwatchDown", Carried)
          /\ UNCHANGED judged
       \/ /\ model # "ready"
          /\ caught' = caught \cup Carried
          /\ UNCHANGED <<judged, faults>>
    /\ NextPoll(pending)
    /\ UNCHANGED <<sanad, model, baseline, traced, unposted>>

-----------------------------------------------------------------------------
(* From outside *)

\* An operator re-baselines: trigger_retrain stores a baseline whatever was there.
Rebaseline ==
    /\ model = "noBaseline"
    /\ model' = "ready"
    /\ UNCHANGED <<sanad, reporter, baseline, judged, traced, history>>

Kill ==
    /\ mode # "off" /\ Goes("killed", Carried)
    /\ mode' = "off" /\ pc' = "off" /\ signedIn' = FALSE
    /\ fetched' = <<>> /\ pending' = <<>> /\ batch' = <<>>
    /\ UNCHANGED <<sanad, monitor, unposted>>

\* The buffer is gone; the new process may have another setting.
SanadRestart ==
    /\ Goes("sanadRestart", ToSet(buffer))
    /\ buffer' = <<>>
    /\ fullTrace' \in BOOLEAN
    /\ UNCHANGED <<asked, withTrace, reporter, monitor, unposted>>

\* The loop signs in once, before the first poll.
SessionExpires ==
    /\ signedIn /\ Goes("sessionExpires", {})
    /\ signedIn' = FALSE
    /\ UNCHANGED <<sanad, mode, pc, fetched, pending, batch, monitor, unposted>>

Poll == Fetch \/ ReportTraces \/ IsRegistered \/ Register \/ Report

Next ==
    \/ Ask \/ Start \/ Poll
    \/ Rebaseline \/ Kill \/ SanadRestart \/ SessionExpires

Spec == Init /\ [][Next]_vars

\* A running reporter goes on polling: requests end, and the sleep between polls too.
FairSpec == Spec /\ WF_vars(Poll)

-----------------------------------------------------------------------------
Held == ToSet(fetched) \cup ToSet(pending) \cup ToSet(batch)

(***************************************************************************)
(* "A polling reporter sees each question exactly once" (snapshot), the    *)
(* half of it that the code keeps: no question is judged twice, and none   *)
(* before an older one - through overflow, restarts and lost answers.      *)
(***************************************************************************)
JudgedOnceInOrder ==
    \A i, k \in DOMAIN judged : i < k => judged[i] < judged[k]

(***************************************************************************)
(* A question is only ever missing if an overflow of the buffer or a fault *)
(* caught it there and then: after any faults every other question is in   *)
(* the buffer, in the reporter's hands, or in a batch or baseline that     *)
(* ModelWatch has - a failed request costs what it carried and no more.    *)
(***************************************************************************)
LossesHaveCauses ==
    1..asked \subseteq ToSet(buffer) \cup Held \cup ToSet(judged) \cup ToSet(baseline) \cup caught

(***************************************************************************)
(* "A trace is raw per-request detail, not a statistical signal": the      *)
(* trace of each event that has one has been sent as soon as the event is  *)
(* collected, before the model exists and however small the batch.         *)
(***************************************************************************)
TracesGoFirst ==
    (ToSet(pending) \cup ToSet(judged)) \cap withTrace \subseteq traced \cup unposted

(***************************************************************************)
(* While the reporter polls with a valid session it never falls behind for *)
(* good: in the end there is less than a batch left undelivered.           *)
(***************************************************************************)
BacklogDrains ==
    <>[](mode = "poll" /\ signedIn)
        => <>[](Cardinality(ToSet(buffer) \cup Held) < MinBatch)

(***************************************************************************)
(* "Every question a real user asks produces a datapoint" (the header of   *)
(* telemetry_reporter.py): no question disappears on the way.              *)
(***************************************************************************)
EveryQuestionIsADatapoint ==
    1..asked \subseteq ToSet(buffer) \cup Held \cup ToSet(judged) \cup ToSet(baseline)
=============================================================================
