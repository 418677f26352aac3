-------------------------- MODULE TelemetryProofs --------------------------
(***************************************************************************)
(* What holds of Telemetry for every size of the buffer and of a batch,    *)
(* any number of questions, and any number and mixture of faults.          *)
(***************************************************************************)
EXTENDS Telemetry, SequenceTheorems, TLAPS

-----------------------------------------------------------------------------
(* Sequences of events. *)

Sorted(s)    == \A i, k \in DOMAIN s : i < k => s[i] < s[k]
Before(s, t) == \A x \in ToSet(s), y \in ToSet(t) : x < y

LEMMA SetOfAppend ==
    ASSUME NEW s \in Seq(Event), NEW e \in Event
    PROVE  ToSet(Append(s, e)) = ToSet(s) \cup {e}
  <1> DEFINE a == Append(s, e)
  <1>1. /\ DOMAIN s = 1..Len(s) /\ DOMAIN a = 1..(Len(s) + 1) /\ Len(s) \in Nat
        /\ \A i \in 1..Len(s) : a[i] = s[i]
        /\ a[Len(s) + 1] = e
    BY AppendProperties, LenProperties
  <1> HIDE DEF a
  <1>2. QED BY <1>1 DEF ToSet

LEMMA ConcatElements ==
    ASSUME NEW s \in Seq(Event), NEW t \in Seq(Event)
    PROVE  /\ Len(s) \in Nat /\ Len(t) \in Nat
           /\ DOMAIN s = 1..Len(s) /\ DOMAIN t = 1..Len(t)
           /\ DOMAIN (s \o t) = 1..(Len(s) + Len(t))
           /\ \A i \in 1..Len(s) : (s \o t)[i] = s[i]
           /\ \A i \in 1..Len(t) : (s \o t)[Len(s) + i] = t[i]
           /\ \A i \in 1..(Len(s) + Len(t)) :
                 i \in 1..Len(s) \/ \E k \in 1..Len(t) : i = Len(s) + k
  <1>1. /\ s \o t \in Seq(Event)
        /\ Len(s) \in Nat /\ Len(t) \in Nat
        /\ DOMAIN s = 1..Len(s) /\ DOMAIN t = 1..Len(t)
        /\ Len(s \o t) = Len(s) + Len(t)
        /\ \A i \in 1..(Len(s) + Len(t)) :
              (s \o t)[i] = IF i <= Len(s) THEN s[i] ELSE t[i - Len(s)]
    BY ConcatProperties, LenProperties
  <1>2. DOMAIN (s \o t) = 1..(Len(s) + Len(t))
    BY <1>1, LenProperties
  <1>3. \A i \in 1..Len(s) : (s \o t)[i] = s[i]
    BY <1>1
  <1>4. \A i \in 1..Len(t) : (s \o t)[Len(s) + i] = t[i]
    <2> TAKE i \in 1..Len(t)
    <2>1. Len(s) + i \in 1..(Len(s) + Len(t)) /\ ~(Len(s) + i <= Len(s)) /\ Len(s) + i - Len(s) = i
      BY <1>1
    <2>2. QED BY <1>1, <2>1
  <1>5. ASSUME NEW i \in 1..(Len(s) + Len(t)), i \notin 1..Len(s)
        PROVE  \E k \in 1..Len(t) : i = Len(s) + k
    <2>1. i - Len(s) \in 1..Len(t) /\ i = Len(s) + (i - Len(s))
      BY <1>1, <1>5
    <2>2. QED BY <2>1
  <1>6. QED BY <1>1, <1>2, <1>3, <1>4, <1>5

LEMMA SetOfConcat ==
    ASSUME NEW s \in Seq(Event), NEW t \in Seq(Event)
    PROVE  ToSet(s \o t) = ToSet(s) \cup ToSet(t)
  <1> DEFINE c == s \o t
  <1>1. /\ Len(s) \in Nat /\ Len(t) \in Nat
        /\ DOMAIN s = 1..Len(s) /\ DOMAIN t = 1..Len(t) /\ DOMAIN c = 1..(Len(s) + Len(t))
        /\ \A i \in 1..Len(s) : c[i] = s[i]
        /\ \A i \in 1..Len(t) : c[Len(s) + i] = t[i]
        /\ \A i \in DOMAIN c : i \in 1..Len(s) \/ \E k \in 1..Len(t) : i = Len(s) + k
    BY ConcatElements
  <1> HIDE DEF c
  <1>2. ASSUME NEW i \in DOMAIN c PROVE c[i] \in ToSet(s) \cup ToSet(t)
    BY <1>1 DEF ToSet
  <1>3. ASSUME NEW i \in DOMAIN s PROVE s[i] \in ToSet(c)
    <2>1. i \in DOMAIN c /\ c[i] = s[i]
      BY <1>1
    <2>2. QED BY <2>1 DEF ToSet
  <1>4. ASSUME NEW i \in DOMAIN t PROVE t[i] \in ToSet(c)
    <2>1. Len(s) + i \in DOMAIN c /\ c[Len(s) + i] = t[i]
      BY <1>1
    <2>2. QED BY <2>1 DEF ToSet
  <1>5. ToSet(c) \subseteq ToSet(s) \cup ToSet(t)
    BY <1>2 DEF ToSet
  <1>6. ToSet(s) \subseteq ToSet(c) /\ ToSet(t) \subseteq ToSet(c)
    BY <1>3, <1>4 DEF ToSet
  <1>7. ToSet(c) = ToSet(s) \cup ToSet(t)
    BY <1>5, <1>6
  <1>8. QED BY <1>7 DEF c

LEMMA SetOfTail ==
    ASSUME NEW s \in Seq(Event), s # <<>>
    PROVE  /\ Tail(s) \in Seq(Event) /\ Len(Tail(s)) = Len(s) - 1
           /\ ToSet(Tail(s)) \subseteq ToSet(s)
           /\ ToSet(s) = ToSet(Tail(s)) \cup {Head(s)}
           /\ Sorted(s) => Sorted(Tail(s))
  <1> DEFINE t == Tail(s)
  <1>1. /\ t \in Seq(Event) /\ Len(t) = Len(s) - 1 /\ Len(s) \in Nat
        /\ DOMAIN s = 1..Len(s) /\ DOMAIN t = 1..(Len(s) - 1)
        /\ \A i \in DOMAIN t : t[i] = s[i + 1] /\ i + 1 \in DOMAIN s
    BY HeadTailProperties, LenProperties
  <1> HIDE DEF t
  <1>2. ToSet(t) \subseteq ToSet(s)
    BY <1>1 DEF ToSet
  <1>3. ASSUME Sorted(s) PROVE Sorted(t)
    <2> SUFFICES ASSUME NEW i \in DOMAIN t, NEW k \in DOMAIN t, i < k PROVE t[i] < t[k]
      BY DEF Sorted
    <2>1. i + 1 \in DOMAIN s /\ k + 1 \in DOMAIN s /\ i + 1 < k + 1
      BY <1>1
    <2>2. s[i + 1] < s[k + 1]
      BY <1>3, <2>1 DEF Sorted
    <2>3. QED BY <1>1, <2>2
  <1>4. ToSet(s) = ToSet(t) \cup {Head(s)}
    <2>1. 1 \in DOMAIN s /\ Head(s) = s[1]
      BY <1>1, EmptySeq, LenProperties
    <2>2. ASSUME NEW i \in DOMAIN s PROVE s[i] \in ToSet(t) \cup {s[1]}
      <3>1. CASE i = 1
        BY <3>1
      <3>2. CASE i # 1
        <4>1. i - 1 \in DOMAIN t /\ i - 1 + 1 = i
          BY <1>1, <3>2
        <4>2. t[i - 1] = s[i]
          BY <1>1, <4>1
        <4>3. QED BY <4>1, <4>2 DEF ToSet
      <3>3. QED BY <3>1, <3>2
    <2>3. ToSet(s) \subseteq ToSet(t) \cup {s[1]}
      BY <2>2 DEF ToSet
    <2>4. s[1] \in ToSet(s)
      BY <2>1 DEF ToSet
    <2>5. QED BY <1>2, <2>1, <2>3, <2>4
  <1>5. QED BY <1>1, <1>2, <1>3, <1>4 DEF t

LEMMA SortedAppend ==
    ASSUME NEW s \in Seq(Event), NEW e \in Event, Sorted(s), \A x \in ToSet(s) : x < e
    PROVE  Sorted(Append(s, e))
  <1> DEFINE a == Append(s, e)
  <1>1. /\ DOMAIN s = 1..Len(s) /\ DOMAIN a = 1..(Len(s) + 1) /\ Len(s) \in Nat
        /\ \A i \in 1..Len(s) : a[i] = s[i]
        /\ a[Len(s) + 1] = e
    BY AppendProperties, LenProperties
  <1> HIDE DEF a
  <1>2. SUFFICES ASSUME NEW i \in DOMAIN a, NEW k \in DOMAIN a, i < k PROVE a[i] < a[k]
    BY DEF Sorted, a
  <1>3. i \in DOMAIN s /\ a[i] = s[i]
    BY <1>1, <1>2
  <1>4. CASE k \in DOMAIN s
    BY <1>1, <1>2, <1>3, <1>4 DEF Sorted
  <1>5. CASE k \notin DOMAIN s
    <2>1. a[k] = e /\ s[i] \in ToSet(s)
      BY <1>1, <1>3, <1>5 DEF ToSet
    <2>2. QED BY <1>3, <2>1
  <1>6. QED BY <1>4, <1>5

LEMMA SortedConcat ==
    ASSUME NEW s \in Seq(Event), NEW t \in Seq(Event), Sorted(s), Sorted(t), Before(s, t)
    PROVE  Sorted(s \o t)
  <1> DEFINE c == s \o t
  <1>1. /\ Len(s) \in Nat /\ Len(t) \in Nat
        /\ DOMAIN s = 1..Len(s) /\ DOMAIN t = 1..Len(t) /\ DOMAIN c = 1..(Len(s) + Len(t))
        /\ \A i \in 1..Len(s) : c[i] = s[i]
        /\ \A i \in 1..Len(t) : c[Len(s) + i] = t[i]
        /\ \A i \in DOMAIN c : i \in 1..Len(s) \/ \E k \in 1..Len(t) : i = Len(s) + k
    BY ConcatElements
  <1> HIDE DEF c
  <1>2. SUFFICES ASSUME NEW i \in DOMAIN c, NEW k \in DOMAIN c, i < k PROVE c[i] < c[k]
    BY DEF Sorted, c
  <1>3. CASE i \in 1..Len(s) /\ k \in 1..Len(s)
    BY <1>1, <1>2, <1>3 DEF Sorted
  <1>4. CASE i \in 1..Len(s) /\ k \notin 1..Len(s)
    <2>1. PICK m \in 1..Len(t) : k = Len(s) + m
      BY <1>1, <1>4
    <2>2. c[i] \in ToSet(s) /\ c[k] \in ToSet(t)
      BY <1>1, <1>4, <2>1 DEF ToSet
    <2>3. QED BY <2>2 DEF Before
  <1>5. CASE i \notin 1..Len(s)
    <2>1. PICK l \in 1..Len(t) : i = Len(s) + l
      BY <1>1, <1>5
    <2>2. k \notin 1..Len(s)
      BY <1>1, <1>2, <2>1
    <2>3. PICK m \in 1..Len(t) : k = Len(s) + m
      BY <1>1, <2>2
    <2>4. l < m
      BY <1>1, <1>2, <2>1, <2>3
    <2>5. t[l] < t[m]
      BY <1>1, <2>4 DEF Sorted
    <2>6. QED BY <1>1, <2>1, <2>3, <2>5
  <1>6. QED BY <1>3, <1>4, <1>5

LEMMA Nothing == Sorted(<<>>) /\ ToSet(<<>>) = {}
  BY DEF Sorted, ToSet

-----------------------------------------------------------------------------
(* Types. *)

LEMMA NoEvents == <<>> \in Seq(Event) /\ Len(<<>>) \in Nat /\ Len(<<>>) <= MaxEvents
  BY EmptySeq, TelemetryAssumption

LEMMA InitTypes == Init => TypeOK
  <1> SUFFICES ASSUME Init PROVE TypeOK
    OBVIOUS
  <1>1. buffer \in Seq(Event) /\ Len(buffer) <= MaxEvents
    BY NoEvents DEF Init
  <1>2. /\ fetched \in Seq(Event) /\ pending \in Seq(Event) /\ batch \in Seq(Event)
        /\ baseline \in Seq(Event) /\ judged \in Seq(Event)
    BY NoEvents DEF Init
  <1>3. asked \in 0..MaxAsked /\ faults \in 0..MaxFaults
    BY TelemetryAssumption DEF Init
  <1>4. QED BY <1>1, <1>2, <1>3 DEF Init, TypeOK, PC

\* What is in a list of events is an event.
LEMMA Elements ==
    ASSUME TypeOK
    PROVE  /\ ToSet(buffer) \subseteq Event /\ ToSet(fetched) \subseteq Event
           /\ ToSet(pending) \subseteq Event /\ ToSet(batch) \subseteq Event
           /\ Carried \subseteq Event
  <1>1. \A s \in Seq(Event) : ToSet(s) \subseteq Event
    BY LenProperties DEF ToSet
  <1>2. QED BY <1>1 DEF TypeOK, Carried

\* A step that may go wrong counts at most one more fault, and catches events.
LEMMA FaultsType ==
    ASSUME TypeOK, NEW w, NEW events \in SUBSET Event, Fine \/ Goes(w, events)
    PROVE  faults' \in 0..MaxFaults /\ caught' \subseteq Event
  BY TelemetryAssumption DEF TypeOK, Fine, Goes

LEMMA NextPollTypes ==
    ASSUME TypeOK, NEW left \in Seq(Event), NextPoll(left), pc # "off"
    PROVE  /\ mode' \in Modes \cup {"off"} /\ pc' \in PC /\ (mode' = "off" <=> pc' = "off")
           /\ signedIn' \in BOOLEAN
           /\ fetched' = <<>> /\ batch' = <<>> /\ pending' \in {left, <<>>}
           /\ fetched' \in Seq(Event) /\ pending' \in Seq(Event) /\ batch' \in Seq(Event)
  <1>1. <<>> \in Seq(Event)
    BY EmptySeq
  <1>2. CASE mode = "poll"
    BY <1>1, <1>2 DEF TypeOK, NextPoll, PC
  <1>3. CASE mode # "poll"
    BY <1>1, <1>3 DEF TypeOK, NextPoll, PC
  <1>4. QED BY <1>2, <1>3

LEMMA AskTypes == ASSUME TypeOK, Ask PROVE TypeOK'
  <1>1. asked + 1 \in Event /\ asked' \in 0..MaxAsked
    BY TelemetryAssumption DEF Ask, Records, TypeOK, Event
  <1>2. PICK longer \in Seq(Event) : longer = Append(buffer, asked + 1)
    BY <1>1, AppendProperties DEF TypeOK
  <1>3. longer # <<>> /\ Len(longer) = Len(buffer) + 1 /\ Len(buffer) \in Nat
    <2>1. buffer \in Seq(Event)
      BY DEF TypeOK
    <2>2. Append(buffer, asked + 1) # <<>> /\ Len(Append(buffer, asked + 1)) = Len(buffer) + 1
      BY <1>1, <2>1, AppendProperties
    <2>3. QED BY <1>2, <2>1, <2>2, LenProperties
  <1>4. Tail(longer) \in Seq(Event) /\ Len(Tail(longer)) = Len(longer) - 1 /\ Head(longer) \in Event
    BY <1>3, SetOfTail, HeadTailProperties
  <1>5. IF Len(longer) > MaxEvents
        THEN buffer' = Tail(longer) /\ caught' = caught \cup {Head(longer)}
        ELSE buffer' = longer /\ UNCHANGED caught
    BY <1>2 DEF Ask
  <1>6. Len(buffer) <= MaxEvents /\ MaxEvents \in Nat
    BY TelemetryAssumption DEF TypeOK
  <1>7. buffer' \in Seq(Event) /\ Len(buffer') <= MaxEvents /\ caught' \subseteq Event
    <2> caught \subseteq Event
      BY DEF TypeOK
    <2>1. CASE Len(longer) > MaxEvents
      BY <1>3, <1>4, <1>5, <1>6, <2>1
    <2>2. CASE ~(Len(longer) > MaxEvents)
      BY <1>3, <1>5, <1>6, <2>2
    <2>3. QED BY <2>1, <2>2
  <1>8. UNCHANGED <<fullTrace, reporter, monitor, unposted, faults>> /\ withTrace' \subseteq Event
    BY <1>1 DEF Ask, Records, TypeOK
  <1>9. QED BY <1>1, <1>7, <1>8 DEF TypeOK, reporter, monitor

LEMMA FetchTypes == ASSUME TypeOK, Fetch PROVE TypeOK'
  <1> USE DEF Fetch
  <1>1. faults' \in 0..MaxFaults /\ caught' \subseteq Event
    <2>1. {} \in SUBSET Event /\ ToSet(buffer) \in SUBSET Event
      BY Elements
    <2>2. \/ Fine \/ Goes("replyLost", ToSet(buffer)) \/ Goes("sanadDown", {})
      OBVIOUS
    <2>3. QED BY <2>1, <2>2, FaultsType
  <1>2. UNCHANGED <<asked, fullTrace, withTrace, model, baseline, judged, traced, unposted>>
        /\ pc = "fetch"
    BY DEF monitor
  <1>3. buffer' \in {buffer, <<>>}
    OBVIOUS
  <1>4. buffer' \in Seq(Event) /\ Len(buffer') <= MaxEvents
    BY <1>3, NoEvents DEF TypeOK
  <1>5. CASE NextPoll(pending)
    BY <1>1, <1>2, <1>4, <1>5, NextPollTypes DEF TypeOK
  <1>6. CASE /\ fetched' = buffer /\ pc' = "trace"
             /\ UNCHANGED <<mode, signedIn, pending, batch>>
    BY <1>1, <1>2, <1>4, <1>6 DEF TypeOK, PC
  <1>7. CASE /\ batch' = buffer /\ pc' = "isRegistered"
             /\ UNCHANGED <<mode, signedIn, fetched, pending>>
    BY <1>1, <1>2, <1>4, <1>7 DEF TypeOK, PC
  <1>8. QED BY <1>5, <1>6, <1>7

LEMMA ReportTracesTypes == ASSUME TypeOK, ReportTraces PROVE TypeOK'
  <1> USE DEF ReportTraces
  <1>1. faults' \in 0..MaxFaults /\ caught' \subseteq Event
    BY FaultsType DEF Posts
  <1>2. UNCHANGED <<asked, buffer, fullTrace, withTrace, model, baseline, judged>> /\ pc = "trace"
    BY DEF sanad
  <1>3. traced' \subseteq Event /\ unposted' \subseteq Event
    BY DEF Posts, TypeOK
  <1>4. pending \o fetched \in Seq(Event)
    BY ConcatProperties DEF TypeOK
  <1>5. CASE NextPoll(pending \o fetched)
    BY <1>1, <1>2, <1>3, <1>4, <1>5, NextPollTypes DEF TypeOK
  <1>6. CASE /\ batch' = pending \o fetched /\ pending' = <<>>
             /\ pc' = "isRegistered"
             /\ fetched' = <<>>
             /\ UNCHANGED <<mode, signedIn>>
    BY <1>1, <1>2, <1>3, <1>4, <1>6, NoEvents DEF TypeOK, PC
  <1>7. QED BY <1>5, <1>6 DEF Collect

LEMMA DeliverTypes == ASSUME TypeOK, IsRegistered \/ Register \/ Report PROVE TypeOK'
  <1>1. CASE IsRegistered
    <2> USE DEF IsRegistered
    <2>1. faults' \in 0..MaxFaults /\ caught' \subseteq Event
      <3>1. (IF model = "none" THEN {} ELSE Carried) \in SUBSET Event
        BY Elements
      <3>2. QED BY <1>1, <3>1, FaultsType, Elements
    <2>2. UNCHANGED <<sanad, model, baseline, judged, traced, unposted>>
          /\ pc = "isRegistered"
      BY <1>1 DEF monitor
    <2>3. CASE NextPoll(pending)
      BY <2>1, <2>2, <2>3, NextPollTypes DEF TypeOK, sanad
    <2>4. CASE /\ pc' \in {"report", "register"}
               /\ UNCHANGED <<mode, signedIn, fetched, pending, batch>>
      BY <2>1, <2>2, <2>4 DEF TypeOK, PC, sanad
    <2>5. QED BY <1>1, <2>3, <2>4
  <1>2. CASE Register
    <2> USE DEF Register
    <2>1. faults' \in 0..MaxFaults /\ caught' \subseteq Event
      BY <1>2, FaultsType, Elements
    <2>2. /\ UNCHANGED <<sanad, judged, traced, unposted>> /\ pc = "register"
          /\ model' \in {model, "ready", "noBaseline"} /\ baseline' \in {baseline, batch}
          /\ NextPoll(pending)
      BY <1>2
    <2>3. QED BY <2>1, <2>2, NextPollTypes DEF TypeOK, sanad
  <1>3. CASE Report
    <2> USE DEF Report
    <2>1. faults' \in 0..MaxFaults /\ caught' \subseteq Event
      <3>1. CASE caught' = caught \cup Carried /\ UNCHANGED faults
        BY <3>1, Elements DEF TypeOK
      <3>2. CASE Fine \/ Goes("modelwatchDown", {}) \/ Goes("modelwatchDown", Carried)
        BY <3>2, FaultsType, Elements
      <3>3. QED BY <1>3, <3>1, <3>2
    <2>2. /\ UNCHANGED <<sanad, model, baseline, traced, unposted>> /\ pc = "report"
          /\ judged' \in {judged, judged \o batch}
          /\ NextPoll(pending)
      BY <1>3
    <2>3. judged \o batch \in Seq(Event)
      BY ConcatProperties DEF TypeOK
    <2>4. QED BY <2>1, <2>2, <2>3, NextPollTypes DEF TypeOK, sanad
  <1>4. QED BY <1>1, <1>2, <1>3

LEMMA NextTypes == TypeOK /\ [Next]_vars => TypeOK'
  <1> SUFFICES ASSUME TypeOK, [Next]_vars PROVE TypeOK'
    OBVIOUS
  <1>1. CASE Start
    BY <1>1, TelemetryAssumption DEF Start, TypeOK, PC, sanad, monitor, history
  <1>2. CASE Rebaseline
    BY <1>2 DEF Rebaseline, TypeOK, sanad, reporter, history
  <1>3. CASE Kill
    <2>1. faults' \in 0..MaxFaults /\ caught' \subseteq Event
      BY <1>3, FaultsType, Elements DEF Kill
    <2>2. QED BY <1>3, <2>1, NoEvents DEF Kill, TypeOK, PC, sanad, monitor
  <1>4. CASE SanadRestart
    <2>1. faults' \in 0..MaxFaults /\ caught' \subseteq Event
      BY <1>4, FaultsType, Elements DEF SanadRestart
    <2>2. QED BY <1>4, <2>1, NoEvents DEF SanadRestart, TypeOK, reporter, monitor
  <1>5. CASE SessionExpires
    <2>1. faults' \in 0..MaxFaults /\ caught' \subseteq Event
      BY <1>5, FaultsType DEF SessionExpires
    <2>2. QED BY <1>5, <2>1 DEF SessionExpires, TypeOK, sanad, monitor
  <1>6. CASE UNCHANGED vars
    BY <1>6 DEF vars, sanad, reporter, monitor, history, TypeOK
  <1>7. QED
    BY <1>1, <1>2, <1>3, <1>4, <1>5, <1>6, AskTypes, FetchTypes, ReportTracesTypes, DeliverTypes
       DEF Next, Poll

(***************************************************************************)
(* The buffer, the reporter's lists and what ModelWatch has keep their     *)
(* types, and the buffer its limit.                                        *)
(***************************************************************************)
THEOREM TypeCorrect == Spec => []TypeOK
  BY InitTypes, NextTypes, PTL DEF Spec

-----------------------------------------------------------------------------
(***************************************************************************)
(* Order.  Events travel in line: what is judged is older than the batch,  *)
(* the batch older than what is pending, that older than what has just     *)
(* been fetched, and that older than what is in the buffer.                *)
(***************************************************************************)

\* A batch on its way to a check; one for a baseline is a copy of the buffer.
Delivering == IF mode = "baseline" THEN <<>> ELSE batch

Proper(s) == Sorted(s) /\ ToSet(s) \subseteq 1..asked

InLine ==
    /\ Proper(judged) /\ Proper(Delivering) /\ Proper(pending) /\ Proper(fetched) /\ Proper(buffer)
    /\ Before(judged, Delivering) /\ Before(judged, pending)
    /\ Before(judged, fetched)    /\ Before(judged, buffer)
    /\ Before(Delivering, pending) /\ Before(Delivering, fetched) /\ Before(Delivering, buffer)
    /\ Before(pending, fetched) /\ Before(pending, buffer)
    /\ Before(fetched, buffer)

\* Where the reporter keeps events, and in which mode it is.
Stations ==
    /\ pc # "trace" => fetched = <<>>
    /\ pc \notin {"isRegistered", "register", "report"} => batch = <<>>
    /\ mode # "poll" => pending = <<>>
    /\ mode = "baseline" => pc \notin {"trace", "report"}
    /\ mode # "baseline" /\ pc \in {"isRegistered", "register", "report"} => pending = <<>>

LEMMA NextPollStations ==
    ASSUME NEW left, NextPoll(left), mode = "off" => pc = "off", pc # "off"
    PROVE  /\ Stations'
           /\ fetched' = <<>> /\ batch' = <<>> /\ pending' \in {left, <<>>}
  <1>1. CASE mode = "poll"
    BY <1>1 DEF NextPoll, Stations
  <1>2. CASE mode # "poll"
    BY <1>2 DEF NextPoll, Stations
  <1>3. QED BY <1>1, <1>2

LEMMA NextStations == TypeOK /\ Stations /\ [Next]_vars => Stations'
  <1> SUFFICES ASSUME TypeOK, Stations, [Next]_vars PROVE Stations'
    OBVIOUS
  <1> USE DEF TypeOK, PC
  <1>1. CASE Ask \/ Rebaseline \/ SanadRestart \/ UNCHANGED vars
    BY <1>1 DEF Ask, Rebaseline, SanadRestart, Stations, vars, reporter
  <1>2. CASE Start
    BY <1>2 DEF Start, Stations
  <1>3. CASE Kill \/ SessionExpires
    BY <1>3 DEF Kill, SessionExpires, Stations
  <1>4. CASE Fetch
    BY <1>4, NextPollStations DEF Fetch, Stations
  <1>5. CASE ReportTraces
    BY <1>5, NextPollStations DEF ReportTraces, Collect, Stations
  <1>6. CASE IsRegistered
    BY <1>6, NextPollStations DEF IsRegistered, Stations
  <1>7. CASE Register \/ Report
    BY <1>7, NextPollStations DEF Register, Report
  <1>8. QED
    BY <1>1, <1>2, <1>3, <1>4, <1>5, <1>6, <1>7 DEF Next, Poll

LEMMA AskKeepsLine == ASSUME TypeOK, InLine, Ask PROVE InLine'
  <1>1. asked \in Nat /\ asked' = asked + 1 /\ asked + 1 \in Event
    BY TelemetryAssumption DEF Ask, Records, TypeOK, Event
  <1>2. PICK longer \in Seq(Event) : longer = Append(buffer, asked + 1)
    BY <1>1, AppendProperties DEF TypeOK
  <1>3. longer # <<>> /\ ToSet(longer) = ToSet(buffer) \cup {asked + 1}
    <2>1. buffer \in Seq(Event)
      BY DEF TypeOK
    <2>2. QED BY <1>1, <1>2, <2>1, AppendProperties, SetOfAppend
  <1>4. Sorted(longer)
    <2>1. \A x \in ToSet(buffer) : x < asked + 1
      BY <1>1 DEF InLine, Proper
    <2>2. QED BY <1>1, <1>2, <2>1, SortedAppend DEF TypeOK, InLine, Proper
  <1>5. buffer' \in {longer, Tail(longer)}
    BY <1>2 DEF Ask
  <1>6. Sorted(buffer') /\ ToSet(buffer') \subseteq ToSet(buffer) \cup {asked + 1}
    BY <1>3, <1>4, <1>5, SetOfTail
  <1>7. UNCHANGED <<mode, batch, pending, fetched, judged>>
    BY DEF Ask, reporter, monitor
  <1>8. ASSUME NEW s, Proper(s), Before(s, buffer) PROVE ToSet(s) \subseteq 1..asked' /\ Before(s, buffer')
    BY <1>1, <1>6, <1>8 DEF Proper, Before
  <1>9. Proper(buffer)'
    BY <1>1, <1>6 DEF InLine, Proper
  <1>10. QED
    BY <1>7, <1>8, <1>9 DEF InLine, Proper, Delivering

\* Back to the next poll with nothing but what is pending.
LEMMA NextPollKeepsLine ==
    ASSUME TypeOK, InLine, NextPoll(pending), asked' = asked, buffer' \in {buffer, <<>>},
           \/ judged' = judged
           \/ judged' = judged \o batch /\ mode # "baseline"
    PROVE  InLine'
  <1>1. Delivering' = <<>> /\ fetched' = <<>> /\ pending' \in {pending, <<>>}
    BY DEF NextPoll, Delivering
  <1>2. /\ Sorted(judged') /\ ToSet(judged') \subseteq ToSet(judged) \cup ToSet(Delivering)
    <2>1. CASE judged' = judged
      BY <2>1 DEF InLine, Proper
    <2>2. CASE judged' = judged \o batch /\ mode # "baseline"
      BY <2>2, SetOfConcat, SortedConcat DEF InLine, Proper, TypeOK, Delivering
    <2>3. QED BY <2>1, <2>2
  <1>3. Proper(judged)' /\ Proper(pending)' /\ Proper(buffer)' /\ Proper(Delivering)' /\ Proper(fetched)'
    BY <1>1, <1>2, Nothing DEF InLine, Proper
  <1>4. Before(judged, pending)' /\ Before(judged, buffer)' /\ Before(pending, buffer)'
    BY <1>1, <1>2, Nothing DEF InLine, Before
  <1>5. QED BY <1>1, <1>3, <1>4, Nothing DEF InLine, Before

LEMMA FetchKeepsLine == ASSUME TypeOK, Stations, InLine, Fetch PROVE InLine'
  <1> USE DEF Fetch, monitor
  <1>1. CASE NextPoll(pending)
    BY <1>1, NextPollKeepsLine
  <1>2. CASE /\ mode # "baseline" /\ fetched' = buffer /\ buffer' = <<>>
             /\ UNCHANGED <<mode, pending, batch>>
    <2>1. UNCHANGED <<asked, judged>> /\ Delivering' = Delivering
      BY <1>2 DEF Delivering
    <2>2. QED BY <1>2, <2>1, Nothing DEF InLine, Proper, Before
  <1>3. CASE /\ mode = "baseline"
             /\ UNCHANGED <<buffer, mode, fetched, pending>>
    <2>1. UNCHANGED <<asked, judged>> /\ Delivering' = Delivering
      BY <1>3 DEF Delivering
    <2>2. QED BY <1>3, <2>1 DEF InLine, Proper
  <1>4. QED BY <1>1, <1>2, <1>3

LEMMA CollectKeepsLine == ASSUME TypeOK, Stations, InLine, ReportTraces PROVE InLine'
  <1> USE DEF ReportTraces
  <1>1. PICK all \in Seq(Event) : all = pending \o fetched
    BY ConcatProperties DEF TypeOK
  <1>2. Sorted(all) /\ ToSet(all) = ToSet(pending) \cup ToSet(fetched)
    BY <1>1, SetOfConcat, SortedConcat DEF TypeOK, InLine, Proper
  <1>3. mode # "baseline" /\ UNCHANGED <<asked, buffer, judged>>
    BY DEF Stations, sanad
  <1>4. \/ Delivering' = all /\ pending' = <<>> /\ fetched' = <<>>
        \/ Delivering' = <<>> /\ pending' \in {all, <<>>} /\ fetched' = <<>>
    BY <1>1, <1>3 DEF Collect, NextPoll, Delivering
  <1>5. /\ Proper(all) /\ Before(judged, all) /\ Before(all, buffer)
    BY <1>2 DEF InLine, Proper, Before
  <1>6. Proper(judged)' /\ Proper(buffer)' /\ Before(judged, buffer)'
    BY <1>3 DEF InLine, Proper, Before
  <1>7. Proper(Delivering)' /\ Proper(pending)' /\ Proper(fetched)'
    BY <1>3, <1>4, <1>5, Nothing DEF Proper
  <1>8. /\ Before(judged, Delivering)' /\ Before(judged, pending)'
        /\ Before(Delivering, buffer)' /\ Before(pending, buffer)'
        /\ Before(Delivering, pending)'
    BY <1>3, <1>4, <1>5, Nothing DEF Before
  <1>9. Before(judged, fetched)' /\ Before(Delivering, fetched)' /\ Before(pending, fetched)'
        /\ Before(fetched, buffer)'
    BY <1>4, Nothing DEF Before
  <1>10. QED BY <1>6, <1>7, <1>8, <1>9 DEF InLine

LEMMA NextKeepsLine == TypeOK /\ Stations /\ InLine /\ [Next]_vars => InLine'
  <1> SUFFICES ASSUME TypeOK, Stations, InLine, [Next]_vars PROVE InLine'
    OBVIOUS
  <1>1. CASE IsRegistered
    <2>1. UNCHANGED <<asked, buffer, judged>>
      BY <1>1 DEF IsRegistered, sanad, monitor
    <2>2. CASE NextPoll(pending)
      BY <2>1, <2>2, NextPollKeepsLine
    <2>3. CASE UNCHANGED <<mode, fetched, pending, batch>>
      BY <2>1, <2>3 DEF InLine, Proper, Delivering
    <2>4. QED BY <1>1, <2>2, <2>3 DEF IsRegistered
  <1>2. CASE Register
    BY <1>2, NextPollKeepsLine DEF Register, sanad
  <1>3. CASE Report
    <2>1. mode # "baseline" /\ judged' \in {judged, judged \o batch}
      BY <1>3 DEF Report, Stations
    <2>2. QED BY <1>3, <2>1, NextPollKeepsLine DEF Report, sanad
  <1>4. CASE Start
    <2>1. /\ UNCHANGED <<asked, buffer, judged, fetched, pending, batch>>
          /\ batch = <<>> /\ Delivering = <<>> /\ Delivering' = <<>>
      BY <1>4 DEF Start, sanad, monitor, Stations, Delivering, TypeOK
    <2>2. QED BY <2>1 DEF InLine, Proper
  <1>5. CASE Kill
    <2>1. /\ UNCHANGED <<asked, buffer, judged>>
          /\ Delivering' = <<>> /\ fetched' = <<>> /\ pending' = <<>>
      BY <1>5 DEF Kill, sanad, monitor, Delivering
    <2>2. QED BY <2>1, Nothing DEF InLine, Proper, Before
  <1>6. CASE SanadRestart
    <2>1. /\ UNCHANGED <<asked, judged, mode, batch, pending, fetched>> /\ buffer' = <<>>
      BY <1>6 DEF SanadRestart, monitor, reporter
    <2>2. QED BY <2>1, Nothing DEF InLine, Proper, Before, Delivering
  <1>7. CASE Rebaseline \/ SessionExpires \/ UNCHANGED vars
    <2>1. UNCHANGED <<asked, judged, mode, batch, pending, fetched, buffer>>
      BY <1>7 DEF Rebaseline, SessionExpires, vars, sanad, monitor, reporter
    <2>2. QED BY <2>1 DEF InLine, Proper, Delivering
  <1>8. QED
    BY <1>1, <1>2, <1>3, <1>4, <1>5, <1>6, <1>7,
       AskKeepsLine, FetchKeepsLine, CollectKeepsLine DEF Next, Poll

LEMMA LineInvariance == Spec => [](TypeOK /\ Stations /\ InLine)
  <1>1. Init => Stations /\ InLine
    BY Nothing DEF Init, Stations, InLine, Proper, Before, Delivering
  <1>2. QED BY <1>1, InitTypes, NextTypes, NextStations, NextKeepsLine, PTL DEF Spec

(***************************************************************************)
(* No question is judged twice or after a younger one, whatever overflows, *)
(* restarts or fails.                                                      *)
(***************************************************************************)
THEOREM NoneJudgedTwice == Spec => []JudgedOnceInOrder
  <1>1. InLine => JudgedOnceInOrder
    BY DEF InLine, Proper, Sorted, JudgedOnceInOrder
  <1>2. QED BY <1>1, LineInvariance, PTL

-----------------------------------------------------------------------------
(***************************************************************************)
(* Losses.  The batch that is registered becomes a baseline that takes     *)
(* nobody's place, one that is about to be refused has been caught, and a  *)
(* batch for a baseline is a copy of what is in the buffer.                *)
(***************************************************************************)
Accounted == ToSet(buffer) \cup Held \cup ToSet(judged) \cup ToSet(baseline) \cup caught

NothingLost ==
    /\ 1..asked \subseteq Accounted
    /\ mode = "baseline" => ToSet(batch) \subseteq ToSet(buffer) \cup caught
    /\ model = "none" => baseline = <<>>
    /\ pc = "register" /\ model # "none" => Carried \subseteq caught

LEMMA AskLosesNothing ==
    ASSUME TypeOK, NothingLost, Ask PROVE NothingLost'
  <1>1. asked \in Nat /\ asked' = asked + 1 /\ asked + 1 \in Event
    BY TelemetryAssumption DEF Ask, Records, TypeOK, Event
  <1>2. PICK longer \in Seq(Event) : longer = Append(buffer, asked + 1)
    BY <1>1, AppendProperties DEF TypeOK
  <1>3. longer # <<>> /\ ToSet(longer) = ToSet(buffer) \cup {asked + 1}
    <2>1. buffer \in Seq(Event)
      BY DEF TypeOK
    <2>2. QED BY <1>1, <1>2, <2>1, AppendProperties, SetOfAppend
  <1>4. ToSet(longer) \subseteq ToSet(buffer') \cup caught' /\ caught \subseteq caught'
    <2>1. ToSet(longer) = ToSet(Tail(longer)) \cup {Head(longer)}
      BY <1>3, SetOfTail
    <2>2. QED BY <1>2, <2>1 DEF Ask
  <1>5. UNCHANGED <<mode, pc, batch, pending, fetched, judged, baseline, model>>
    BY DEF Ask, reporter, monitor
  <1>6. 1..asked' \subseteq 1..asked \cup {asked + 1}
    BY <1>1
  <1>7. 1..asked' \subseteq Accounted'
    BY <1>3, <1>4, <1>5, <1>6 DEF NothingLost, Accounted, Held
  <1>8. QED BY <1>3, <1>4, <1>5, <1>7 DEF NothingLost, Carried

\* The reporter goes on to its next poll and forgets its batch, which is a copy of
\* what is in the buffer, or judged, or the baseline, or caught.
LEMMA NextPollLosesNothing ==
    ASSUME TypeOK, Stations, NothingLost, NextPoll(pending), pc # "off", pc # "trace",
           asked' = asked, caught \subseteq caught',
           ToSet(buffer) \subseteq ToSet(buffer') \cup caught',
           Carried \subseteq ToSet(judged') \cup ToSet(baseline') \cup ToSet(pending') \cup caught',
           ToSet(judged) \subseteq ToSet(judged'), ToSet(baseline) \subseteq ToSet(baseline'),
           model' = "none" => baseline' = <<>>
    PROVE  NothingLost'
  <1>1. /\ pending' = pending /\ batch' = <<>> /\ fetched' = <<>> /\ fetched = <<>>
        /\ pc' \in {"fetch", "off"}
    BY DEF NextPoll, Stations
  <1>2. ToSet(batch) \subseteq Carried \cup ToSet(buffer) \cup caught
    BY DEF Carried, NothingLost
  <1>3. 1..asked' \subseteq Accounted'
    BY <1>1, <1>2, Nothing DEF NothingLost, Accounted, Held
  <1>4. QED BY <1>1, <1>3, Nothing DEF NothingLost

LEMMA FetchLosesNothing ==
    ASSUME TypeOK, Stations, NothingLost, Fetch PROVE NothingLost'
  <1>1. /\ batch = <<>> /\ fetched = <<>> /\ pc = "fetch"
        /\ UNCHANGED <<asked, model, baseline, judged>>
    BY DEF Stations, Fetch, monitor
  <1>2. caught \subseteq caught'
    BY DEF Fetch, Fine, Goes
  <1>3. CASE /\ fetched' = buffer /\ mode # "baseline" /\ pc' = "trace"
             /\ UNCHANGED <<mode, pending, batch>>
    <2>1. 1..asked' \subseteq Accounted'
      BY <1>1, <1>2, <1>3, Nothing DEF NothingLost, Accounted, Held
    <2>2. QED BY <1>1, <1>3, <2>1 DEF NothingLost
  <1>4. CASE /\ batch' = buffer /\ mode = "baseline" /\ pc' = "isRegistered"
             /\ UNCHANGED <<buffer, mode, fetched, pending>>
    <2>1. 1..asked' \subseteq Accounted'
      BY <1>1, <1>2, <1>4, Nothing DEF NothingLost, Accounted, Held
    <2>2. QED BY <1>1, <1>4, <2>1 DEF NothingLost
  <1>5. CASE NextPoll(pending) /\ ToSet(buffer) \subseteq ToSet(buffer') \cup caught'
    <2>1. pending' = pending
      BY <1>5 DEF NextPoll, Stations
    <2>2. Carried \subseteq ToSet(pending')
      BY <1>1, <2>1, Nothing DEF Carried
    <2>3. QED BY <1>1, <1>2, <1>5, <2>2, NextPollLosesNothing DEF NothingLost
  <1>6. QED BY <1>3, <1>4, <1>5 DEF Fetch, Goes

LEMMA CollectLosesNothing ==
    ASSUME TypeOK, Stations, NothingLost, ReportTraces PROVE NothingLost'
  <1>1. /\ pc = "trace" /\ batch = <<>> /\ mode \in {"poll", "once"}
        /\ UNCHANGED <<asked, buffer, model, baseline, judged>>
    BY TelemetryAssumption DEF Stations, ReportTraces, TypeOK, sanad
  <1>2. caught \subseteq caught'
    BY DEF ReportTraces, Posts, Fine, Goes
  <1>3. PICK all \in Seq(Event) : all = pending \o fetched
    BY ConcatProperties DEF TypeOK
  <1>4. ToSet(all) = ToSet(pending) \cup ToSet(fetched)
    BY <1>3, SetOfConcat DEF TypeOK
  <1>5. CASE /\ batch' = all /\ pending' = <<>> /\ fetched' = <<>> /\ pc' = "isRegistered"
             /\ UNCHANGED mode
    <2>1. 1..asked' \subseteq Accounted'
      BY <1>1, <1>2, <1>4, <1>5, Nothing DEF NothingLost, Accounted, Held
    <2>2. QED BY <1>1, <1>5, <2>1 DEF NothingLost
  <1>6. CASE /\ NextPoll(all)
             /\ ~(mode = "once" /\ all # <<>>)
    <2>1. /\ pending' = all /\ batch' = <<>> /\ fetched' = <<>>
          /\ pc' \in {"fetch", "off"}
      BY <1>1, <1>6 DEF NextPoll
    <2>2. 1..asked' \subseteq Accounted'
      BY <1>1, <1>2, <1>4, <2>1, Nothing DEF NothingLost, Accounted, Held
    <2>3. QED BY <1>1, <2>1, <2>2, Nothing DEF NothingLost
  <1>7. QED BY <1>3, <1>5, <1>6 DEF ReportTraces, Collect

\* In the three delivery stations nothing is carried but the batch.
LEMMA OnlyTheBatch ==
    ASSUME Stations, pc \in {"isRegistered", "register", "report"}
    PROVE  /\ mode # "baseline" => Carried = ToSet(batch)
           /\ Carried \subseteq ToSet(batch) \cup ToSet(pending)
  BY Nothing DEF Stations, Carried

LEMMA DeliveryLosesNothing ==
    ASSUME TypeOK, Stations, NothingLost, IsRegistered \/ Register \/ Report
    PROVE  NothingLost'
  <1>1. UNCHANGED <<asked, buffer>> /\ caught \subseteq caught' /\ pc # "off" /\ pc # "trace"
    BY DEF IsRegistered, Register, Report, sanad, Fine, Goes
  <1>2. ASSUME NextPoll(pending) PROVE pending' = pending
    BY <1>2 DEF NextPoll, Stations
  <1>3. CASE IsRegistered
    <2>1. UNCHANGED <<model, baseline, judged>> /\ pc = "isRegistered"
      BY <1>3 DEF IsRegistered, monitor
    <2>2. CASE mode = "baseline" /\ NextPoll(pending)
      <3>1. Carried \subseteq ToSet(pending')
        BY <1>2, <2>1, <2>2, Nothing DEF Carried, Stations
      <3>2. QED BY <1>1, <2>1, <2>2, <3>1, NextPollLosesNothing DEF NothingLost
    <2>3. CASE NextPoll(pending) /\ Goes("modelwatchDown", Carried)
      <3>1. Carried \subseteq caught'
        BY <2>3 DEF Goes
      <3>2. QED BY <1>1, <2>1, <2>3, <3>1, NextPollLosesNothing DEF NothingLost
    <2>4. CASE /\ \/ pc' = "report"
                  \/ pc' = "register" /\ model = "none"
                  \/ pc' = "register" /\ Goes("serverError", IF model = "none" THEN {} ELSE Carried)
               /\ UNCHANGED <<mode, fetched, pending, batch>>
      <3>1. 1..asked' \subseteq Accounted' /\ Carried' = Carried
        BY <1>1, <2>1, <2>4 DEF NothingLost, Accounted, Held, Carried
      <3>2. pc' = "register" /\ model # "none" => Carried \subseteq caught'
        BY <2>4 DEF Goes
      <3>3. QED BY <1>1, <2>1, <2>4, <3>1, <3>2 DEF NothingLost
    <2>5. QED BY <1>3, <2>2, <2>3, <2>4 DEF IsRegistered
  <1>4. CASE Register
    <2>1. NextPoll(pending) /\ judged' = judged /\ pc = "register"
      BY <1>4 DEF Register
    <2>2. CASE model = "none" /\ model' = "ready" /\ baseline' = batch
      <3>1. ToSet(baseline) \subseteq ToSet(baseline')
        BY <2>2, Nothing DEF NothingLost
      <3>2. Carried \subseteq ToSet(baseline') \cup ToSet(pending')
        BY <1>2, <2>1, <2>2, OnlyTheBatch
      <3>3. QED BY <1>1, <2>1, <2>2, <3>1, <3>2, NextPollLosesNothing
    <2>3. CASE /\ Carried \subseteq caught' /\ baseline' = baseline
               /\ model' = "none" => model = "none"
      BY <1>1, <2>1, <2>3, NextPollLosesNothing DEF NothingLost
    <2>4. CASE model # "none" /\ UNCHANGED <<model, baseline>>
      <3>1. Carried \subseteq caught'
        BY <1>1, <2>1, <2>4 DEF NothingLost
      <3>2. QED BY <2>3, <2>4, <3>1
    <2>5. QED BY <1>4, <2>2, <2>3, <2>4 DEF Register, Goes
  <1>5. CASE Report
    <2>1. /\ NextPoll(pending) /\ UNCHANGED <<model, baseline>> /\ pc = "report"
      BY <1>5 DEF Report
    <2>2. CASE judged' = judged \o batch
      <3>1. ToSet(judged') = ToSet(judged) \cup ToSet(batch)
        BY <2>2, SetOfConcat DEF TypeOK
      <3>2. Carried \subseteq ToSet(judged') \cup ToSet(pending')
        BY <1>2, <2>1, <3>1, OnlyTheBatch
      <3>3. QED BY <1>1, <2>1, <3>1, <3>2, NextPollLosesNothing DEF NothingLost
    <2>3. CASE judged' = judged /\ Carried \subseteq caught'
      BY <1>1, <2>1, <2>3, NextPollLosesNothing DEF NothingLost
    <2>4. QED BY <1>5, <2>2, <2>3 DEF Report, Goes
  <1>6. QED BY <1>3, <1>4, <1>5

LEMMA NextLosesNothing ==
    TypeOK /\ Stations /\ NothingLost /\ [Next]_vars => NothingLost'
  <1> SUFFICES ASSUME TypeOK, Stations, NothingLost, [Next]_vars PROVE NothingLost'
    OBVIOUS
  <1>1. CASE Start
    <2>1. /\ UNCHANGED <<asked, buffer, fetched, pending, batch, model, baseline, judged, caught>>
          /\ batch = <<>> /\ pc' = "fetch"
      BY <1>1 DEF Start, sanad, monitor, history, Stations, TypeOK
    <2>2. QED BY <2>1, Nothing DEF NothingLost, Accounted, Held
  <1>2. CASE Rebaseline
    <2>1. /\ UNCHANGED <<asked, buffer, caught, mode, pc, fetched, pending, batch, baseline, judged>>
          /\ model # "none" /\ model' # "none"
      BY <1>2 DEF Rebaseline, sanad, reporter, history
    <2>2. QED BY <2>1 DEF NothingLost, Accounted, Held, Carried
  <1>3. CASE Kill
    <2>1. /\ UNCHANGED <<asked, buffer, model, baseline, judged>>
          /\ caught' = caught \cup Carried /\ mode' = "off" /\ pc' = "off"
          /\ fetched' = <<>> /\ pending' = <<>> /\ batch' = <<>>
      BY <1>3 DEF Kill, sanad, monitor, Goes
    <2>2. Held \subseteq Carried \cup ToSet(buffer) \cup caught
      BY DEF Held, Carried, NothingLost
    <2>3. 1..asked' \subseteq Accounted'
      BY <2>1, <2>2 DEF NothingLost, Accounted
    <2>4. QED BY <2>1, <2>3 DEF NothingLost
  <1>4. CASE SanadRestart
    <2>1. /\ UNCHANGED <<asked, mode, pc, fetched, pending, batch, model, baseline, judged>>
          /\ caught' = caught \cup ToSet(buffer)
      BY <1>4 DEF SanadRestart, reporter, monitor, Goes
    <2>2. QED BY <2>1 DEF NothingLost, Accounted, Held, Carried
  <1>5. CASE SessionExpires \/ UNCHANGED vars
    <2>1. /\ UNCHANGED <<asked, buffer, mode, pc, fetched, pending, batch, model, baseline, judged>>
          /\ caught' = caught
      BY <1>5 DEF SessionExpires, vars, sanad, reporter, monitor, history, Goes
    <2>2. QED BY <2>1 DEF NothingLost, Accounted, Held, Carried
  <1>6. QED
    BY <1>1, <1>2, <1>3, <1>4, <1>5, AskLosesNothing, FetchLosesNothing, CollectLosesNothing,
       DeliveryLosesNothing DEF Next, Poll

(***************************************************************************)
(* Through any number of faults and overflows, a question is missing only  *)
(* if one of them caught it: a failed request, a kill or a restart costs   *)
(* what it carried, and nothing else gets lost later on its account.       *)
(***************************************************************************)
THEOREM LossesAreExplained == Spec => []LossesHaveCauses
  <1>1. Init => NothingLost
    BY Nothing DEF Init, NothingLost, Accounted, Held
  <1>2. NothingLost => LossesHaveCauses
    BY DEF NothingLost, LossesHaveCauses, Accounted
  <1>3. QED BY <1>1, <1>2, LineInvariance, NextLosesNothing, PTL DEF Spec

-----------------------------------------------------------------------------
(***************************************************************************)
(* Traces.  Whatever is collected, in a batch on its way or judged has had *)
(* its trace posted, if it has one.                                        *)
(***************************************************************************)
Collected == ToSet(pending) \cup ToSet(judged) \cup ToSet(Delivering)

TracesSent == Collected \cap withTrace \subseteq traced \cup unposted

\* A step that collects nothing new keeps it.
LEMMA NothingCollected ==
    ASSUME TracesSent, Collected' \subseteq Collected, withTrace' = withTrace,
           traced \subseteq traced', unposted \subseteq unposted'
    PROVE  TracesSent'
  BY DEF TracesSent

LEMMA NextSendsTraces ==
    TypeOK /\ Stations /\ InLine /\ TracesSent /\ [Next]_vars => TracesSent'
  <1> SUFFICES ASSUME TypeOK, Stations, InLine, TracesSent, [Next]_vars PROVE TracesSent'
    OBVIOUS
  <1>1. ASSUME NextPoll(pending) PROVE Delivering' = <<>> /\ pending' \in {pending, <<>>}
    BY <1>1 DEF NextPoll, Delivering
  <1>2. CASE Ask
    <2>1. /\ asked \in Nat /\ UNCHANGED <<mode, pending, batch, judged, traced, unposted>>
          /\ withTrace' \subseteq withTrace \cup {asked + 1}
      BY <1>2, TelemetryAssumption DEF Ask, Records, reporter, monitor, TypeOK
    <2>2. Collected' = Collected /\ Collected \subseteq 1..asked
      BY <2>1 DEF Collected, Delivering, InLine, Proper
    <2>3. QED BY <2>1, <2>2 DEF TracesSent
  <1>3. CASE Start
    <2>1. /\ UNCHANGED <<withTrace, pending, judged, traced, unposted>> /\ batch' = <<>>
      BY <1>3 DEF Start, sanad, monitor, history, Stations, TypeOK
    <2>2. Collected' \subseteq Collected
      BY <2>1, Nothing DEF Collected, Delivering
    <2>3. QED BY <2>1, <2>2, NothingCollected
  <1>4. CASE Fetch
    <2>1. UNCHANGED <<withTrace, judged, traced, unposted>>
      BY <1>4 DEF Fetch, monitor
    <2>2. \/ NextPoll(pending)
          \/ UNCHANGED <<mode, pending>> /\ (batch' = batch \/ mode = "baseline")
      BY <1>4 DEF Fetch
    <2>3. Collected' \subseteq Collected
      BY <1>1, <2>1, <2>2, Nothing DEF Collected, Delivering
    <2>4. QED BY <2>1, <2>3, NothingCollected
  <1>5. CASE ReportTraces
    <2>1. UNCHANGED <<withTrace, judged>>
      BY <1>5 DEF ReportTraces, sanad
    <2>2. /\ traced \subseteq traced' /\ unposted \subseteq unposted'
          /\ ToSet(fetched) \cap withTrace \subseteq traced' \cup unposted'
      BY <1>5 DEF ReportTraces, Posts
    <2>3. PICK all \in Seq(Event) : all = pending \o fetched
      BY ConcatProperties DEF TypeOK
    <2>4. ToSet(all) = ToSet(pending) \cup ToSet(fetched)
      BY <2>3, SetOfConcat DEF TypeOK
    <2>5. pending' \in {all, <<>>} /\ Delivering' \in {all, <<>>}
      BY <1>5, <2>3 DEF ReportTraces, Collect, NextPoll, Delivering
    <2>6. Collected' \subseteq Collected \cup ToSet(fetched)
      BY <2>1, <2>4, <2>5, Nothing DEF Collected
    <2>7. QED BY <2>1, <2>2, <2>6 DEF TracesSent
  <1>6. CASE IsRegistered \/ Register \/ Report
    <2>1. UNCHANGED <<withTrace, traced, unposted>>
      BY <1>6 DEF IsRegistered, Register, Report, sanad, monitor
    <2>2. \/ UNCHANGED <<mode, pending, batch, judged>>
          \/ NextPoll(pending) /\ judged' = judged
          \/ NextPoll(pending) /\ judged' = judged \o batch /\ mode # "baseline"
      BY <1>6 DEF IsRegistered, Register, Report, monitor, Stations
    <2>3. ToSet(judged \o batch) = ToSet(judged) \cup ToSet(batch)
      BY SetOfConcat DEF TypeOK
    <2>4. Collected' \subseteq Collected
      BY <1>1, <2>2, <2>3, Nothing DEF Collected, Delivering
    <2>5. QED BY <2>1, <2>4, NothingCollected
  <1>7. CASE Kill
    <2>1. /\ UNCHANGED <<withTrace, judged, traced, unposted>>
          /\ pending' = <<>> /\ batch' = <<>>
      BY <1>7 DEF Kill, sanad, monitor
    <2>2. Collected' \subseteq Collected
      BY <2>1, Nothing DEF Collected, Delivering
    <2>3. QED BY <2>1, <2>2, NothingCollected
  <1>8. CASE Rebaseline \/ SanadRestart \/ SessionExpires \/ UNCHANGED vars
    <2>1. UNCHANGED <<withTrace, mode, pending, batch, judged, traced, unposted>>
      BY <1>8 DEF Rebaseline, SanadRestart, SessionExpires, vars, sanad, reporter, monitor, history
    <2>2. QED BY <2>1, NothingCollected DEF Collected, Delivering
  <1>9. QED
    BY <1>2, <1>3, <1>4, <1>5, <1>6, <1>7, <1>8 DEF Next, Poll

(***************************************************************************)
(* The trace of an event that has one is posted before the event waits for *)
(* a batch or is judged, whatever happens to the batch.                    *)
(***************************************************************************)
THEOREM TracesAreSentFirst == Spec => []TracesGoFirst
  <1>1. Init => TracesSent
    BY Nothing DEF Init, TracesSent, Collected, Delivering
  <1>2. TracesSent => TracesGoFirst
    BY DEF TracesSent, TracesGoFirst, Collected
  <1>3. QED BY <1>1, <1>2, LineInvariance, NextSendsTraces, PTL DEF Spec
====
