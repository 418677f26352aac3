-------------------------- MODULE DetectionProofs --------------------------
(***************************************************************************)
(* Theorems about Detection, for any chains, latencies, scores, batches    *)
(* and confidences: what the handler reports belongs to its chain, what    *)
(* the diagnosis names has drifted, an ablation only loses, a calibrated   *)
(* threshold meets its target, and drift that is reported is real.         *)
(***************************************************************************)
EXTENDS Detection, FoldTheorems

-----------------------------------------------------------------------------
(***************************************************************************)
(* The handler.  The entry of a chain knows the scores that the next model *)
(* call will use, and is marked as started exactly while calls are in      *)
(* flight that do not overlap.                                             *)
(***************************************************************************)
EntryType == [scores : ScoreLists \cup {<<>>}, retrieving : BOOLEAN, started : BOOLEAN]

ChainType == [open : BOOLEAN, retrieving : Nat, calls : Nat, overlapped : BOOLEAN,
              context : ScoreLists \cup {<<>>}, found : SUBSET ScoreLists]

\* What the handler knows of a chain, e, and how it is with it, h.
Follows(e, h) ==
    /\ ScoresAreOf(e.scores, h)
    /\ e.started => h.calls > 0
    /\ h.calls > 0 /\ ~h.overlapped => e.started
    /\ h.calls > 1 => h.overlapped
    /\ ~h.open => h.calls = 0

TableType ==
    /\ table \in [Chains -> EntryType \cup {NoEntry}]
    /\ chain \in [Chains -> ChainType]

TableFollows == \A c \in Chains : Follows(Entry(c), chain[c])

LatestMatches ==
    latest.kind = "event" =>
        LET before == latest.before
        IN  /\ ScoresAreOf(latest.event.scores, before)
            /\ latest.event.generation = 0 => before.overlapped

HandlerInv == TableType /\ TableFollows /\ LatestMatches

LEMMA NoEntryIsNone == NoEntry \notin EntryType /\ NewEntry \in EntryType
  <1>1. ASSUME NoEntry \in EntryType PROVE FALSE
    <2>1. DOMAIN NoEntry = {"none"} /\ "scores" \notin {"none"}
      BY DEF NoEntry
    <2>2. \A e \in EntryType : "scores" \in DOMAIN e
      BY DEF EntryType
    <2>3. QED BY <1>1, <2>1, <2>2
  <1>2. NewEntry \in EntryType
    BY DEF NewEntry, EntryType
  <1>3. QED BY <1>1, <1>2

LEMMA EntryIsTyped ==
    ASSUME TableType, NEW c \in Chains PROVE Entry(c) \in EntryType
  BY NoEntryIsNone DEF TableType, Entry

LEMMA InitHandler == Init => HandlerInv
  <1> SUFFICES ASSUME Init PROVE HandlerInv
    OBVIOUS
  <1>1. \A c \in Chains : table[c] = NoEntry /\ chain[c] = NewChain
    BY DEF Init
  <1>2. NewChain \in ChainType
    BY DEF NewChain, ChainType
  <1>3. TableType
    BY <1>2 DEF Init, TableType
  <1>4. Follows(NewEntry, NewChain)
    BY DEF Follows, ScoresAreOf, NewEntry, NewChain
  <1>5. TableFollows
    BY <1>1, <1>4 DEF TableFollows, Entry
  <1>6. LatestMatches
    BY DEF Init, NoCheck, LatestMatches
  <1>7. QED BY <1>3, <1>5, <1>6 DEF HandlerInv

\* A callback that puts an entry e in the table and leaves the chain as h.
LEMMA CallbackFollows ==
    ASSUME HandlerInv, NEW c \in Chains, NEW e \in EntryType \cup {NoEntry}, NEW h \in ChainType,
           NEW check, Callback(c, e, h, check),
           Follows(IF e = NoEntry THEN NewEntry ELSE e, h),
           check.kind = "event" =>
              /\ ScoresAreOf(check.event.scores, check.before)
              /\ check.event.generation = 0 => check.before.overlapped
    PROVE  HandlerInv'
  <1>1. table' = [table EXCEPT ![c] = e] /\ chain' = [chain EXCEPT ![c] = h] /\ latest' = check
    BY DEF Callback
  <1>2. TableType'
    BY <1>1 DEF HandlerInv, TableType
  <1>3. ASSUME NEW d \in Chains PROVE Follows(Entry(d), chain[d])'
    <2>1. CASE d = c
      <3>1. table'[d] = e /\ chain'[d] = h
        BY <1>1, <2>1 DEF HandlerInv, TableType
      <3>2. QED BY <3>1 DEF Entry, Follows
    <2>2. CASE d # c
      <3>1. table'[d] = table[d] /\ chain'[d] = chain[d]
        BY <1>1, <2>2 DEF HandlerInv, TableType
      <3>2. QED BY <3>1 DEF HandlerInv, TableFollows, Entry, Follows
    <2>3. QED BY <2>1, <2>2
  <1>4. LatestMatches'
    BY <1>1 DEF LatestMatches
  <1>5. QED BY <1>2, <1>3, <1>4 DEF HandlerInv, TableFollows

\* A retrieval that ends leaves a chain a chain.
LEMMA RetrievalsAreTyped ==
    ASSUME NEW x \in ChainType, NEW n \in Nat, NEW scores \in ScoreLists
    PROVE  [x EXCEPT !.retrieving = n, !.context = scores, !.found = @ \cup {scores}] \in ChainType
  <1> DEFINE more == x.found \cup {scores}
  <1>1. more \in SUBSET ScoreLists
    BY DEF ChainType
  <1> HIDE DEF more
  <1>2. [x EXCEPT !.retrieving = n, !.context = scores, !.found = more] \in ChainType
    BY <1>1 DEF ChainType
  <1>3. QED BY <1>2 DEF more

LEMMA RetrievalFollows ==
    ASSUME HandlerInv, NEW c \in Chains,
           \/ RetrieverStart(c) \/ RetrieverError(c) \/ ChainEnd(c)
           \/ \E scores \in ScoreLists : RetrieverEnd(c, scores)
    PROVE  HandlerInv'
  <1>1. Entry(c) \in EntryType /\ chain[c] \in ChainType /\ table[c] \in EntryType \cup {NoEntry}
    BY EntryIsTyped DEF HandlerInv, TableType
  <1>2. Follows(Entry(c), chain[c])
    BY DEF HandlerInv, TableFollows
  <1>3. NoCheck.kind # "event"
    BY DEF NoCheck
  <1>4. CASE RetrieverStart(c)
    <2> DEFINE e == [Entry(c) EXCEPT !.retrieving = TRUE]
               h == [chain[c] EXCEPT !.retrieving = @ + 1]
    <2>0. h \in ChainType
      <3> DEFINE n == chain[c].retrieving + 1
      <3>1. n \in Nat
        BY <1>1 DEF ChainType
      <3> HIDE DEF n
      <3>2. [chain[c] EXCEPT !.retrieving = n] \in ChainType
        BY <1>1, <3>1 DEF ChainType
      <3>3. QED BY <3>2 DEF n
    <2>1. e \in EntryType /\ h \in ChainType
      BY <1>1, <2>0 DEF EntryType
    <2>3. Follows(e, h)
      <3>1. /\ e.scores = Entry(c).scores /\ e.started = Entry(c).started
            /\ h.context = chain[c].context /\ h.found = chain[c].found /\ h.calls = chain[c].calls
            /\ h.overlapped = chain[c].overlapped /\ h.open = chain[c].open
        BY <1>1 DEF EntryType, ChainType
      <3> HIDE DEF e, h
      <3>2. QED BY <1>2, <3>1 DEF Follows, ScoresAreOf
    <2>2. Callback(c, e, h, NoCheck)
      BY <1>4 DEF RetrieverStart
    <2> HIDE DEF e, h
    <2>4. QED BY <1>3, <2>1, <2>2, <2>3, NoEntryIsNone, CallbackFollows
  <1>5. CASE RetrieverError(c)
    <2> DEFINE h == [chain[c] EXCEPT !.retrieving = @ - 1]
    <2>1. h \in ChainType /\ Follows(Entry(c), h)
      BY <1>1, <1>2, <1>5 DEF RetrieverError, ChainType, Follows, ScoresAreOf
    <2>2. Callback(c, table[c], h, NoCheck)
      BY <1>5 DEF RetrieverError
    <2> HIDE DEF h
    <2>3. QED BY <1>1, <1>3, <2>1, <2>2, CallbackFollows DEF Entry
  <1>6. CASE ChainEnd(c)
    <2> DEFINE h == [chain[c] EXCEPT !.open = FALSE]
    <2>1. h \in ChainType /\ Follows(Entry(c), h)
      BY <1>1, <1>2, <1>6 DEF ChainEnd, ChainType, Follows, ScoresAreOf
    <2>2. Callback(c, table[c], h, NoCheck)
      BY <1>6 DEF ChainEnd
    <2> HIDE DEF h
    <2>3. QED BY <1>1, <1>3, <2>1, <2>2, CallbackFollows DEF Entry
  <1>7. ASSUME NEW scores \in ScoreLists, RetrieverEnd(c, scores) PROVE HandlerInv'
    <2> DEFINE e == [Entry(c) EXCEPT !.retrieving = FALSE,
                                     !.scores = IF scores = <<>> THEN @ ELSE scores]
               h == [chain[c] EXCEPT !.retrieving = @ - 1, !.context = scores, !.found = @ \cup {scores}]
    <2>0. h \in ChainType
      <3> DEFINE n == chain[c].retrieving - 1
      <3>0. chain[c].retrieving > 0 /\ chain[c].retrieving \in Nat
        BY <1>1, <1>7, Zenon DEF RetrieverEnd, ChainType
      <3>1. n \in Nat
        BY <3>0
      <3> HIDE DEF n
      <3>2. [chain[c] EXCEPT !.retrieving = n, !.context = scores, !.found = @ \cup {scores}] \in ChainType
        BY <1>1, <3>1, RetrievalsAreTyped
      <3>3. QED BY <3>2 DEF n
    <2>1. e \in EntryType /\ h \in ChainType
      BY <1>1, <2>0 DEF EntryType
    <2>2. /\ e.scores = IF scores = <<>> THEN Entry(c).scores ELSE scores
          /\ e.started = Entry(c).started
          /\ h.context = scores /\ h.found = chain[c].found \cup {scores} /\ h.calls = chain[c].calls
          /\ h.overlapped = chain[c].overlapped /\ h.open = chain[c].open
      BY <1>1 DEF EntryType, ChainType
    <2>3. Callback(c, e, h, NoCheck)
      BY <1>7 DEF RetrieverEnd
    <2> HIDE DEF e, h
    <2>4. ScoresAreOf(e.scores, h)
      <3>1. CASE scores = <<>>
        BY <1>2, <2>2, <3>1 DEF Follows, ScoresAreOf
      <3>2. CASE scores # <<>>
        BY <2>2, <3>2 DEF ScoresAreOf
      <3>3. QED BY <3>1, <3>2
    <2>5. Follows(e, h)
      BY <1>2, <2>2, <2>4 DEF Follows
    <2>6. QED BY <1>3, <2>1, <2>3, <2>5, NoEntryIsNone, CallbackFollows
  <1>8. QED BY <1>4, <1>5, <1>6, <1>7

\* A call that starts or ends leaves a chain a chain.
LEMMA CallsAreTyped ==
    ASSUME NEW x \in ChainType, NEW n \in Nat, NEW o \in BOOLEAN
    PROVE  /\ [x EXCEPT !.calls = n, !.overlapped = o] \in ChainType
           /\ [x EXCEPT !.calls = n, !.overlapped = o, !.context = <<>>, !.found = {}] \in ChainType
  BY DEF ChainType

LEMMA CallsFollow ==
    ASSUME HandlerInv, NEW c \in Chains,
           \/ LlmStart(c) \/ LlmError(c)
           \/ \E latency \in Latencies : LlmEnd(c, latency)
    PROVE  HandlerInv'
  <1>1. Entry(c) \in EntryType /\ chain[c] \in ChainType
    BY EntryIsTyped DEF HandlerInv, TableType
  <1>2. Follows(Entry(c), chain[c])
    BY DEF HandlerInv, TableFollows
  <1>3. NoCheck.kind # "event"
    BY DEF NoCheck
  <1>4. ASSUME chain[c].calls > 0
        PROVE  CallEnded(c) \in ChainType /\ Follows(NewEntry, CallEnded(c))
    <2> DEFINE h == CallEnded(c)
    <2>0. PICK o \in BOOLEAN : o = (chain[c].overlapped /\ chain[c].calls > 1)
      BY Zenon
    <2>1. /\ h \in ChainType
          /\ h.calls = chain[c].calls - 1 /\ h.context = <<>> /\ h.found = {} /\ h.open = chain[c].open
          /\ h.overlapped <=> chain[c].overlapped /\ chain[c].calls > 1
      <3>1. h = [chain[c] EXCEPT !.calls = @ - 1, !.overlapped = o, !.context = <<>>, !.found = {}]
        BY <2>0, Zenon DEF CallEnded
      <3> HIDE DEF h
      <3> DEFINE n == chain[c].calls - 1
      <3>2. n \in Nat
        BY <1>1, <1>4 DEF ChainType
      <3>5. h = [chain[c] EXCEPT !.calls = n, !.overlapped = o, !.context = <<>>, !.found = {}]
        BY <3>1
      <3>6. h \in ChainType
        <4> HIDE DEF n
        <4>1. QED BY <1>1, <3>2, <3>5, CallsAreTyped
      <3>7. h.overlapped = o
        BY <1>1, <3>5 DEF ChainType
      <3>3. h.calls = chain[c].calls - 1 /\ h.context = <<>> /\ h.found = {} /\ h.open = chain[c].open
        BY <1>1, <3>1 DEF ChainType
      <3>4. QED BY <2>0, <3>3, <3>6, <3>7
    <2>2. chain[c].calls \in Nat /\ NewEntry.scores = <<>> /\ NewEntry.started = FALSE
      BY <1>1 DEF ChainType, NewEntry
    <2> HIDE DEF h
    <2>3. Follows(NewEntry, h)
      BY <1>2, <1>4, <2>1, <2>2 DEF Follows, ScoresAreOf
    <2>4. QED BY <2>1, <2>3 DEF h
  <1>5. CASE LlmStart(c)
    <2> DEFINE e == [Entry(c) EXCEPT !.started = TRUE]
               h == [chain[c] EXCEPT !.calls = @ + 1, !.overlapped = @ \/ chain[c].calls > 0]
    <2>0. PICK o \in BOOLEAN : o = (chain[c].overlapped \/ chain[c].calls > 0)
      BY Zenon
    <2>1. e \in EntryType /\ h \in ChainType
      <3>1. h = [chain[c] EXCEPT !.calls = @ + 1, !.overlapped = o]
        BY <2>0, Zenon
      <3>2. h \in ChainType
        <4> DEFINE n == chain[c].calls + 1
        <4>1. n \in Nat
          BY <1>1 DEF ChainType
        <4>2. h = [chain[c] EXCEPT !.calls = n, !.overlapped = o]
          BY <3>1
        <4> HIDE DEF h, n
        <4>3. QED BY <1>1, <4>1, <4>2, CallsAreTyped
      <3>3. QED BY <1>1, <3>2 DEF EntryType
    <2>2. /\ e.scores = Entry(c).scores /\ e.started = TRUE
          /\ h.calls = chain[c].calls + 1 /\ h.found = chain[c].found
          /\ h.context = chain[c].context /\ h.open = chain[c].open
          /\ h.overlapped <=> chain[c].overlapped \/ chain[c].calls > 0
      BY <1>1 DEF EntryType, ChainType
    <2>3. Callback(c, e, h, NoCheck) /\ chain[c].calls \in Nat /\ chain[c].open
      BY <1>1, <1>5 DEF LlmStart, Callback, ChainType
    <2> HIDE DEF e, h
    <2>4. Follows(e, h)
      BY <1>2, <2>2, <2>3 DEF Follows, ScoresAreOf
    <2>5. QED BY <1>3, <2>1, <2>3, <2>4, NoEntryIsNone, CallbackFollows
  <1>6. CASE LlmError(c)
    <2>1. Callback(c, NoEntry, CallEnded(c), NoCheck) /\ chain[c].calls > 0
      BY <1>6 DEF LlmError
    <2>2. QED BY <1>3, <1>4, <2>1, CallbackFollows
  <1>7. ASSUME NEW latency \in Latencies, LlmEnd(c, latency) PROVE HandlerInv'
    <2> DEFINE event == HandlerEvent(Entry(c), latency)
               check == [kind |-> "event", before |-> chain[c], event |-> event,
                         batch |-> [e \in {event} |-> 1], baseline |-> baseline,
                         verdict |-> RagCheck(baseline, [e \in {event} |-> 1], FALSE)]
    <2>1. Callback(c, NoEntry, CallEnded(c), check) /\ chain[c].calls > 0
      BY <1>7 DEF LlmEnd
    <2>2. /\ event.scores = Entry(c).scores
          /\ event.generation = IF Entry(c).started THEN latency ELSE 0
      BY DEF HandlerEvent
    <2>3. check.kind = "event" /\ check.before = chain[c] /\ check.event = event
      OBVIOUS
    <2> HIDE DEF event, check
    <2>4. event.generation = 0 => chain[c].overlapped
      BY <1>2, <2>1, <2>2, DetectionAssumption DEF Follows
    <2>5. ScoresAreOf(check.event.scores, check.before)
      BY <1>2, <2>2, <2>3 DEF Follows
    <2>6. QED BY <1>4, <2>1, <2>3, <2>4, <2>5, CallbackFollows
  <1>8. QED BY <1>5, <1>6, <1>7

LEMMA NextHandler == HandlerInv /\ [Next]_vars => HandlerInv'
  <1> SUFFICES ASSUME HandlerInv, [Next]_vars PROVE HandlerInv'
    OBVIOUS
  <1>1. CASE \E c \in Chains :
                \/ RetrieverStart(c) \/ RetrieverError(c)
                \/ LlmStart(c) \/ LlmError(c) \/ ChainEnd(c)
                \/ \E scores \in ScoreLists : RetrieverEnd(c, scores)
                \/ \E latency \in Latencies : LlmEnd(c, latency)
    BY <1>1, RetrievalFollows, CallsFollow
  <1>2. CASE Restart
    <2>1. \A c \in Chains : table'[c] = NoEntry /\ chain'[c] = NewChain
      BY <1>2 DEF Restart
    <2>2. NewChain \in ChainType /\ Follows(NewEntry, NewChain)
      BY DEF NewChain, ChainType, NewEntry, Follows, ScoresAreOf
    <2>3. TableType'
      BY <1>2, <2>2 DEF Restart, TableType
    <2>4. TableFollows'
      BY <2>1, <2>2 DEF TableFollows, Entry, Follows
    <2>5. LatestMatches'
      BY <1>2 DEF Restart, NoCheck, LatestMatches
    <2>6. QED BY <2>3, <2>4, <2>5 DEF HandlerInv
  <1>3. ASSUME UNCHANGED <<table, chain>>, latest' = latest \/ latest'.kind \in {"none", "batch"}
        PROVE  HandlerInv'
    <2>1. TableType' /\ TableFollows'
      BY <1>3 DEF HandlerInv, TableType, TableFollows, Entry, Follows
    <2>2. LatestMatches'
      BY <1>3 DEF HandlerInv, LatestMatches
    <2>3. QED BY <2>1, <2>2 DEF HandlerInv
  <1>4. CASE Retrain \/ \E e \in Kinds[adapter] : Collect(e)
    BY <1>3, <1>4 DEF Retrain, Collect, NoCheck
  <1>5. CASE \E present \in MayBePresent, found \in BOOLEAN : CheckBatch(present, found)
    BY <1>3, <1>5 DEF CheckBatch
  <1>6. CASE \/ RunBenchmark
             \/ \E type \in DriftTypes : \E predicted \in Outcomes[type] : Trial(type, predicted)
             \/ \E target \in Targets, above \in BOOLEAN : CalibrateHysteresis(target, above)
    BY <1>3, <1>6 DEF RunBenchmark, Trial, CalibrateHysteresis
  <1>7. CASE UNCHANGED vars
    BY <1>3, <1>7 DEF vars
  <1>8. QED BY <1>1, <1>2, <1>4, <1>5, <1>6, <1>7 DEF Next

(***************************************************************************)
(* Whatever retrievals and calls overlap, fail or are never ended, the     *)
(* event of a call has the scores that its chain retrieved since its last  *)
(* call, the latest ones if any, and a chain that is over leaves no        *)
(* started call in the table.                                              *)
(***************************************************************************)
THEOREM EventsAreTheirChains == Spec => []EventsMatchTheirChain
  <1>1. Init => HandlerInv
    BY InitHandler
  <1>2. HandlerInv /\ [Next]_vars => HandlerInv'
    BY NextHandler
  <1>3. HandlerInv => EventsMatchTheirChain
    <2> SUFFICES ASSUME HandlerInv PROVE EventsMatchTheirChain
      OBVIOUS
    <2>1. ASSUME NEW c \in Chains, ~chain[c].open, table[c] # NoEntry PROVE ~table[c].started
      BY <2>1 DEF HandlerInv, TableFollows, Entry, Follows
    <2>2. QED BY <2>1 DEF HandlerInv, LatestMatches, EventsMatchTheirChain
  <1>4. QED BY <1>1, <1>2, <1>3, PTL DEF Spec

-----------------------------------------------------------------------------
(***************************************************************************)
(* The diagnosis.  A score is positive exactly if a signal that it counts  *)
(* has drifted, so the subsystem of the highest one has a signal.          *)
(***************************************************************************)
Confident(signals, confidence) == confidence \in [signals -> 51..100]

Score(signals, confidence, i) == SubsystemScore(signals, confidence, Subsystems[i])

LEMMA ScoresHaveSignals ==
    ASSUME NEW signals \in SUBSET RagSignals, NEW confidence, Confident(signals, confidence)
    PROVE  /\ \A i \in 1..3 : Score(signals, confidence, i) \in Nat
           /\ Score(signals, confidence, 1) > 0 <=> "retrieval" \in signals
           /\ Score(signals, confidence, 2) > 0 <=>
                 "retrieval" \notin signals /\ signals \cap {"refusal", "citation_validity"} # {}
           /\ Score(signals, confidence, 3) > 0 <=> "generation_latency" \in signals
  <1> DEFINE W(signal, halves) == Weight(signals, confidence, signal, halves)
  <1>1. ASSUME NEW signal \in RagSignals, NEW halves \in 1..2
        PROVE  W(signal, halves) \in Nat /\ (W(signal, halves) > 0 <=> signal \in signals)
    <2>1. CASE signal \in signals
      <3>1. confidence[signal] \in 51..100
        BY <2>1 DEF Confident
      <3>2. W(signal, halves) = halves * confidence[signal]
        BY <2>1 DEF Weight
      <3>3. halves = 1 \/ halves = 2
        OBVIOUS
      <3> HIDE DEF W
      <3>4. QED BY <2>1, <3>1, <3>2, <3>3
    <2>2. CASE signal \notin signals
      BY <2>2 DEF Weight
    <2>3. QED BY <2>1, <2>2
  <1>2. Subsystems[1] = Retrieval /\ Subsystems[2] = Generation /\ Subsystems[3] = Operational
    BY DEF Subsystems
  <1>3. Retrieval # Generation /\ Retrieval # Operational /\ Generation # Operational
    BY DEF Retrieval, Generation, Operational
  <1>4. /\ Score(signals, confidence, 1) =
               IF "retrieval" \in signals
                  THEN W("retrieval", 2) + (W("citation_validity", 1) + W("refusal", 1)) ELSE 0
        /\ Score(signals, confidence, 2) =
               IF "retrieval" \in signals THEN 0 ELSE W("citation_validity", 2) + W("refusal", 2)
        /\ Score(signals, confidence, 3) = W("generation_latency", 2)
    BY <1>2, <1>3 DEF Score, SubsystemScore
  <1>5. \A halves \in 1..2 :
           /\ \A signal \in {"retrieval", "generation_latency", "refusal", "citation_validity"} :
                 W(signal, halves) \in Nat /\ (W(signal, halves) > 0 <=> signal \in signals)
    BY <1>1 DEF RagSignals
  <1> HIDE DEF W
  <1>6. Score(signals, confidence, 1) \in Nat
        /\ (Score(signals, confidence, 1) > 0 <=> "retrieval" \in signals)
    BY <1>4, <1>5
  <1>7. Score(signals, confidence, 2) \in Nat
        /\ (Score(signals, confidence, 2) > 0 <=>
              "retrieval" \notin signals /\ ("refusal" \in signals \/ "citation_validity" \in signals))
    BY <1>4, <1>5
  <1>8. Score(signals, confidence, 3) \in Nat
        /\ (Score(signals, confidence, 3) > 0 <=> "generation_latency" \in signals)
    BY <1>4, <1>5
  <1>9. QED BY <1>6, <1>7, <1>8

\* The highest of the scores of three subsystems, and the first that has it.
LEMMA FirstOfTheHighest ==
    ASSUME NEW score \in [1..3 -> Nat]
    PROVE  LET best == Max({score[i] : i \in 1..3})
               first == Min({i \in 1..3 : score[i] = best})
           IN  /\ best \in Nat /\ \A i \in 1..3 : score[i] <= best
               /\ first \in 1..3 /\ score[first] = best
  <1> DEFINE S == {score[i] : i \in 1..3}
             best == Max(S)
             T == {i \in 1..3 : score[i] = best}
             first == Min(T)
  <1>1. \E x \in S : \A y \in S : x >= y
    <2>1. score[1] \in Nat /\ score[2] \in Nat /\ score[3] \in Nat
      OBVIOUS
    <2>2. \E i \in 1..3 : score[i] >= score[1] /\ score[i] >= score[2] /\ score[i] >= score[3]
      BY <2>1
    <2>3. QED BY <2>2
  <1>2. best \in S /\ \A y \in S : best >= y
    BY <1>1 DEF Max
  <1>3. best \in Nat /\ \A i \in 1..3 : score[i] <= best
    BY <1>2
  <1>4. T # {} /\ T \subseteq 1..3
    BY <1>2
  <1> HIDE DEF T, best
  <1>5. \E x \in T : \A y \in T : x <= y
    <2>1. CASE 1 \in T
      <3>1. \A y \in T : 1 <= y
        BY <1>4
      <3>2. QED BY <2>1, <3>1
    <2>2. CASE 1 \notin T /\ 2 \in T
      <3>1. \A y \in T : 2 <= y
        BY <1>4, <2>2
      <3>2. QED BY <2>2, <3>1
    <2>3. CASE 1 \notin T /\ 2 \notin T
      <3>1. \A y \in T : y = 3
        BY <1>4, <2>3
      <3>2. PICK z : z \in T
        BY <1>4, Zenon
      <3>3. z = 3 /\ \A y \in T : z <= y
        BY <3>1, <3>2
      <3>4. QED BY <3>2, <3>3
    <2>4. QED BY <2>1, <2>2, <2>3
  <1>6. first \in T
    BY <1>5 DEF Min
  <1>7. QED BY <1>3, <1>6 DEF T, best

LEMMA DiagnoseHasSignals ==
    ASSUME NEW signals \in SUBSET RagSignals, NEW confidence, Confident(signals, confidence)
    PROVE  LET subsystem == Diagnose(signals, confidence)
           IN  /\ subsystem = "none" <=> signals \subseteq {"embedding"}
               /\ subsystem = Retrieval => "retrieval" \in signals
               /\ subsystem = Generation =>
                     "retrieval" \notin signals /\ signals \cap {"refusal", "citation_validity"} # {}
               /\ subsystem = Operational => "generation_latency" \in signals
  <1> DEFINE subsystem == Diagnose(signals, confidence)
             score == [i \in 1..3 |-> Score(signals, confidence, i)]
             best == Max({score[i] : i \in 1..3})
             first == Min({i \in 1..3 : score[i] = best})
  <1>1. score \in [1..3 -> Nat]
    BY ScoresHaveSignals
  <1>2. /\ best \in Nat /\ \A i \in 1..3 : score[i] <= best
        /\ first \in 1..3 /\ score[first] = best
    <2> HIDE DEF score
    <2>1. QED BY <1>1, FirstOfTheHighest
  <1>3. /\ score[1] > 0 <=> "retrieval" \in signals
        /\ score[2] > 0 <=>
              "retrieval" \notin signals /\ signals \cap {"refusal", "citation_validity"} # {}
        /\ score[3] > 0 <=> "generation_latency" \in signals
    BY ScoresHaveSignals
  <1>4. subsystem = IF signals = {} \/ best = 0 THEN "none" ELSE Subsystems[first]
    <2>1. DOMAIN Subsystems = 1..3
      BY DEF Subsystems
    <2>2. {SubsystemScore(signals, confidence, Subsystems[i]) : i \in 1..3} = {score[i] : i \in 1..3}
      BY DEF Score
    <2>3. {i \in 1..3 : SubsystemScore(signals, confidence, Subsystems[i]) = best}
             = {i \in 1..3 : score[i] = best}
      BY DEF Score
    <2> HIDE DEF score
    <2>4. QED BY <2>1, <2>2, <2>3, Zenon DEF Diagnose
  <1> HIDE DEF subsystem, score, best, first
  <1>5. best = 0 <=> signals \subseteq {"embedding"}
    <2>1. best = 0 <=> ~(score[1] > 0) /\ ~(score[2] > 0) /\ ~(score[3] > 0)
      <3>1. /\ score[1] \in Nat /\ score[2] \in Nat /\ score[3] \in Nat
            /\ score[1] <= best /\ score[2] <= best /\ score[3] <= best
            /\ first = 1 \/ first = 2 \/ first = 3
        BY <1>1, <1>2
      <3>2. QED BY <1>2, <3>1
    <2>2. QED BY <1>3, <2>1 DEF RagSignals
  <1>6. /\ Subsystems[1] = Retrieval /\ Subsystems[2] = Generation /\ Subsystems[3] = Operational
        /\ Retrieval # Generation /\ Retrieval # Operational /\ Generation # Operational
        /\ Retrieval # "none" /\ Generation # "none" /\ Operational # "none"
    BY DEF Subsystems, Retrieval, Generation, Operational
  <1>7. CASE signals \subseteq {"embedding"}
    BY <1>4, <1>5, <1>6, <1>7 DEF subsystem
  <1>8. CASE ~(signals \subseteq {"embedding"})
    <2>1. subsystem = Subsystems[first] /\ score[first] > 0
      BY <1>2, <1>4, <1>5, <1>8
    <2>2. first = 1 \/ first = 2 \/ first = 3
      BY <1>2
    <2>3. QED BY <1>3, <1>6, <1>8, <2>1, <2>2 DEF subsystem
  <1>9. QED BY <1>7, <1>8

LEMMA RagSignalsOnly == \A b, c, found : RagCheck(b, c, found).signals \in SUBSET RagSignals
  <1> SUFFICES ASSUME NEW b, NEW c, NEW found PROVE RagCheck(b, c, found).signals \in SUBSET RagSignals
    OBVIOUS
  <1>1. \A signals : Verdict(signals).signals = signals
    BY DEF Verdict
  <1>2. \E signals \in SUBSET RagSignals : RagCheck(b, c, found) = Verdict(signals)
    BY Zenon DEF RagCheck
  <1>3. QED BY <1>1, <1>2

(***************************************************************************)
(* Whatever the confidences of the drifted signals, the diagnosis names a  *)
(* subsystem that has a drifted signal of its own.                         *)
(***************************************************************************)
THEOREM DiagnosisHasASignal == Spec => []DiagnosisNamesADriftedSignal
  <1>1. Init => DiagnosisNamesADriftedSignal
    BY DEF Init, NoCheck, DiagnosisNamesADriftedSignal
  <1>2. DiagnosisNamesADriftedSignal /\ [Next]_vars => DiagnosisNamesADriftedSignal'
    <2> SUFFICES ASSUME DiagnosisNamesADriftedSignal, [Next]_vars
                 PROVE  DiagnosisNamesADriftedSignal'
      OBVIOUS
    <2>1. ASSUME UNCHANGED adapter, latest' = latest \/ latest'.kind \in {"none", "event"}
          PROVE  DiagnosisNamesADriftedSignal'
      BY <2>1 DEF DiagnosisNamesADriftedSignal
    <2>2. ASSUME NEW present, NEW found \in BOOLEAN, CheckBatch(present, found), adapter = "rag"
          PROVE  DiagnosisNamesADriftedSignal'
      <3> DEFINE verdict == Check(baseline, batch, present, found)
      <3>1. verdict.signals \in SUBSET RagSignals
        BY <2>2, RagSignalsOnly DEF Check
      <3> HIDE DEF verdict
      <3>2. PICK confidence \in [verdict.signals -> Confidences] :
               latest' = [kind |-> "batch", batch |-> batch, baseline |-> baseline, verdict |-> verdict,
                          subsystem |-> Diagnosed(verdict, confidence)]
        BY <2>2 DEF CheckBatch, verdict
      <3>3. Confident(verdict.signals, confidence)
        BY <3>2, DetectionAssumption DEF Confident, DetectionAssumption
      <3>4. latest'.verdict = verdict /\ latest'.subsystem = Diagnose(verdict.signals, confidence)
        BY <2>2, <3>2 DEF Diagnosed
      <3>5. QED BY <3>1, <3>3, <3>4, DiagnoseHasSignals DEF DiagnosisNamesADriftedSignal
    <2>3. ASSUME NEW present, NEW found \in BOOLEAN, CheckBatch(present, found), adapter # "rag"
          PROVE  DiagnosisNamesADriftedSignal'
      BY <2>3 DEF CheckBatch, DiagnosisNamesADriftedSignal
    <2>4. ASSUME NEW c \in Chains,
                 \/ RetrieverStart(c) \/ RetrieverError(c)
                 \/ LlmStart(c) \/ LlmError(c) \/ ChainEnd(c)
                 \/ \E scores \in ScoreLists : RetrieverEnd(c, scores)
                 \/ \E latency \in Latencies : LlmEnd(c, latency)
          PROVE  DiagnosisNamesADriftedSignal'
      <3>1. \A e, h, check : Callback(c, e, h, check) => UNCHANGED adapter /\ latest' = check
        BY DEF Callback
      <3>2. ASSUME \/ RetrieverStart(c) \/ RetrieverError(c)
                   \/ LlmStart(c) \/ LlmError(c) \/ ChainEnd(c)
                   \/ \E scores \in ScoreLists : RetrieverEnd(c, scores)
            PROVE  UNCHANGED adapter /\ latest'.kind = "none"
        <4>1. \E e, h : Callback(c, e, h, NoCheck)
          BY <3>2, Zenon DEF RetrieverStart, RetrieverError, LlmStart, LlmError, ChainEnd, RetrieverEnd
        <4>2. QED BY <3>1, <4>1 DEF NoCheck
      <3>3. ASSUME NEW latency \in Latencies, LlmEnd(c, latency)
            PROVE  UNCHANGED adapter /\ latest'.kind = "event"
        <4>1. PICK event, verdict, single :
                 Callback(c, NoEntry, CallEnded(c),
                          [kind |-> "event", before |-> chain[c], event |-> event, batch |-> single,
                           baseline |-> baseline, verdict |-> verdict])
          BY <3>3, Zenon DEF LlmEnd
        <4>2. QED BY <3>1, <4>1
      <3>4. QED BY <2>1, <2>4, <3>2, <3>3
    <2>5. CASE Restart \/ Retrain \/ \E e \in Kinds[adapter] : Collect(e)
      BY <2>1, <2>5 DEF Restart, Retrain, Collect, NoCheck
    <2>6. CASE \/ RunBenchmark
               \/ \E type \in DriftTypes : \E predicted \in Outcomes[type] : Trial(type, predicted)
               \/ \E target \in Targets, above \in BOOLEAN : CalibrateHysteresis(target, above)
      BY <2>1, <2>6 DEF RunBenchmark, Trial, CalibrateHysteresis
    <2>7. CASE UNCHANGED vars
      BY <2>1, <2>7 DEF vars
    <2>8. QED BY <2>2, <2>3, <2>4, <2>5, <2>6, <2>7 DEF Next
  <1>3. QED BY <1>1, <1>2, PTL DEF Spec

-----------------------------------------------------------------------------
(***************************************************************************)
(* What is counted of a batch: the size is the number of its events.       *)
(***************************************************************************)
LEMMA SizeIsSome ==
    ASSUME NEW S, IsFiniteSet(S), NEW b \in [S -> Nat]
    PROVE  /\ Size(b) = SumFunctionOnSet(b, S)
           /\ Size(b) \in Nat
           /\ \A e \in S : b[e] <= Size(b)
           /\ \A t \in SUBSET S : SumFunctionOnSet(b, t) \in Nat /\ SumFunctionOnSet(b, t) <= Size(b)
  <1>1. \A x \in S : b[x] \in Nat
    OBVIOUS
  <1>2. /\ \A s \in SUBSET S : SumFunctionOnSet(b, s) \in Nat
        /\ \A s \in SUBSET S : \A t \in SUBSET s : SumFunctionOnSet(b, t) <= SumFunctionOnSet(b, s)
        /\ \A s \in SUBSET S : \A x \in s : b[x] <= SumFunctionOnSet(b, s)
    BY <1>1, SumOfNumbers, Zenon
  <1>3. Size(b) = SumFunctionOnSet(b, S)
    <2>1. DOMAIN b = S
      OBVIOUS
    <2>2. QED BY <2>1, Zenon DEF Size, SumFunction
  <1>4. S \in SUBSET S
    OBVIOUS
  <1>5. QED BY <1>2, <1>3, <1>4, Zenon

(* The sum of a number per event.                                          *)
LEMMA TotalsAreNumbers ==
    ASSUME NEW S, IsFiniteSet(S), NEW b \in [S -> Nat], NEW amount \in [S -> Nat]
    PROVE  /\ [e \in S |-> b[e] * amount[e]] \in [S -> Nat]
           /\ Total(b, amount) = SumFunctionOnSet([e \in S |-> b[e] * amount[e]], S)
           /\ Total(b, amount) \in Nat
  <1> DEFINE f == [e \in S |-> b[e] * amount[e]]
  <1>1. f \in [S -> Nat]
    <2>1. \A e \in S : b[e] * amount[e] \in Nat
      OBVIOUS
    <2>2. QED BY <2>1
  <1>2. Total(b, amount) = Size(f)
    <2>1. DOMAIN b = S
      OBVIOUS
    <2>2. QED BY <2>1 DEF Total, Size
  <1> HIDE DEF f
  <1>3. Size(f) = SumFunctionOnSet(f, S) /\ Size(f) \in Nat
    BY <1>1, SizeIsSome
  <1>4. Total(b, amount) = SumFunctionOnSet(f, S) /\ Total(b, amount) \in Nat
    BY <1>2, <1>3
  <1>5. QED BY <1>1, <1>4 DEF f

(* How often a score was retrieved.                                        *)
LEMMA TimesIsNumber ==
    ASSUME NEW scores \in Seq(Nat), NEW v PROVE Times(scores, v) \in Nat
  <1>1. IsFiniteSet(1..Len(scores)) /\ DOMAIN scores = 1..Len(scores)
    BY FS_Interval
  <1>2. IsFiniteSet({i \in DOMAIN scores : scores[i] = v})
    <2>1. {i \in DOMAIN scores : scores[i] = v} \subseteq 1..Len(scores)
      BY <1>1
    <2>2. QED BY <1>1, <2>1, FS_Subset, Zenon
  <1>3. QED BY <1>2, FS_CardinalityType DEF Times

-----------------------------------------------------------------------------
(***************************************************************************)
(* The benchmark.  A result is four counts.                                *)
(***************************************************************************)
ResultType == [tp : Nat, fp : Nat, fn : Nat, tn : Nat]

(* A method's counts beside those of the full adapter.                     *)
Behind(method, result, full) ==
    /\ result.tp + result.fn = full.tp + full.fn
    /\ result.fp + result.tn = full.fp + full.tn
    /\ method \in Ablations => result.tp <= full.tp /\ result.fp <= full.fp

Full == "rag_adapter_full"

ResultsInv ==
    /\ results \in [Methods -> ResultType]
    /\ \A method \in Methods : Behind(method, results[method], results[Full])
    /\ Trials(results[Full]) <= MaxTrials

(* A prediction in which the full adapter says what an ablation of it says. *)
Covers(predicted) ==
    /\ predicted \in [Methods -> BOOLEAN]
    /\ \A method \in Ablations : predicted[method] => predicted[Full]

(* A test that is significant stays so at a critical value no higher.      *)
LEMMA StricterTest ==
    ASSUME NEW f \in [Values -> Nat], NEW g \in [Values -> Nat], NEW low \in Nat, NEW high \in Nat,
           low <= high, KsSignificant(f, g, high)
    PROVE  KsSignificant(f, g, low)
  <1> DEFINE gaps == {Gap(f, g, x) : x \in Values}
             s == Max(gaps)
             n == Size(f)
             m == Size(g)
  <1>1. IsFiniteSet(Values) /\ Values # {}
    BY DetectorsAssumption
  <1>2. n \in Nat /\ m \in Nat
    BY <1>1, SizeIsSome
  <1>3. \A x \in Values : Gap(f, g, x) \in Nat
    <2> TAKE x \in Values
    <2> DEFINE a == AtMost(f, x)
               b == AtMost(g, x)
    <2>1. a \in Nat /\ b \in Nat
      <3>1. {v \in Values : v <= x} \in SUBSET Values
        OBVIOUS
      <3>2. QED BY <1>1, <3>1, SizeIsSome, Zenon DEF AtMost
    <2>2. Gap(f, g, x) = Distance(a * m, b * n)
      BY DEF Gap
    <2> HIDE DEF a, b, n, m
    <2>3. a * m \in Nat /\ b * n \in Nat
      BY <1>2, <2>1
    <2>4. QED BY <2>2, <2>3 DEF Distance
  <1>4. s \in Nat
    <2>1. IsFiniteSet(gaps)
      <3> DEFINE h == [x \in Values |-> Gap(f, g, x)]
      <3>1. h \in [Values -> gaps]
        OBVIOUS
      <3>2. \A y \in gaps : \E x \in Values : h[x] = y
        OBVIOUS
      <3> HIDE DEF h, gaps
      <3>3. h \in Surjection(Values, gaps)
        BY <3>1, <3>2 DEF Surjection
      <3>4. QED BY <1>1, <3>3, FS_Surjection
    <2>2. gaps \in SUBSET Int /\ gaps \in SUBSET Nat /\ gaps # {}
      BY <1>1, <1>3
    <2> HIDE DEF gaps
    <2>3. QED BY <2>1, <2>2, MaxOfNumbers
  <1>5. 100 * s * s > high * n * m * (n + m)
    BY DEF KsSignificant
  <1> HIDE DEF s, n, m
  <1>6. high * n * m * (n + m) >= low * n * m * (n + m)
    <2> DEFINE more == high - low
    <2>1. more \in Nat /\ n * m \in Nat /\ n + m \in Nat
      BY <1>2
    <2> HIDE DEF more
    <2>2. more * (n * m) \in Nat
      BY <2>1
    <2>3. (more * (n * m)) * (n + m) \in Nat
      BY <2>1, <2>2
    <2>4. high * n * m * (n + m) = low * n * m * (n + m) + (more * (n * m)) * (n + m)
      <3>1. high * n * m = low * n * m + more * (n * m)
        BY <1>2 DEF more
      <3> DEFINE p == high * n * m
                 q == low * n * m
                 r == more * (n * m)
      <3>2. p \in Nat /\ q \in Nat /\ r \in Nat /\ p = q + r
        BY <1>2, <2>2, <3>1
      <3> HIDE DEF p, q, r
      <3>3. p * (n + m) = q * (n + m) + r * (n + m)
        BY <2>1, <3>2
      <3>4. QED BY <3>3 DEF p, q, r
    <2>5. low * n * m * (n + m) \in Nat
      BY <1>2
    <2>6. QED BY <2>3, <2>4, <2>5
  <1>7. 100 * s * s \in Nat /\ high * n * m * (n + m) \in Nat /\ low * n * m * (n + m) \in Nat
    BY <1>2, <1>4
  <1>8. 100 * s * s > low * n * m * (n + m)
    BY <1>5, <1>6, <1>7
  <1>9. QED BY <1>8 DEF KsSignificant, s, n, m

(* The sample of retrieval scores.                                         *)
Synthetical(b) ==
    IsFiniteSet(DOMAIN b) /\ b \in [DOMAIN b -> Nat] /\ \A e \in DOMAIN b : e.scores \in Seq(Nat)

LEMMA ScoresAreCounted ==
    ASSUME NEW b, Synthetical(b) PROVE Extract(b).scores \in [Values -> Nat]
  <1> DEFINE times == [v \in Values |-> [e \in DOMAIN b |-> Times(e.scores, v)]]
  <1>1. \A v \in Values : times[v] \in [DOMAIN b -> Nat]
    BY TimesIsNumber DEF Synthetical
  <1>2. Extract(b).scores = [v \in Values |-> Total(b, times[v])]
    BY DEF Extract
  <1> HIDE DEF times
  <1>3. ASSUME NEW v \in Values PROVE Total(b, times[v]) \in Nat
    <2> DEFINE amount == times[v]
    <2>1. amount \in [DOMAIN b -> Nat]
      BY <1>1
    <2> HIDE DEF amount
    <2>2. Total(b, amount) \in Nat
      BY <2>1, TotalsAreNumbers DEF Synthetical
    <2>3. QED BY <2>2 DEF amount
  <1>4. QED BY <1>2, <1>3

(* The full adapter sees what is left of its signals in an ablation, and   *)
(* what the retrieval test sees, if that is one.                           *)
LEMMA FullSeesMost ==
    ASSUME NEW before, NEW after, Synthetical(before), Synthetical(after),
           KsIsAnAblation => Size(before) >= RagMinEvents /\ Size(after) >= RagMinEvents
    PROVE  Covers(Predicted(before, after))
  <1> DEFINE verdict == RagCheck(before, after, FALSE)
             predicted == Predicted(before, after)
  <1>1. verdict.drifted <=> verdict.signals # {}
    BY DEF RagCheck, Verdict
  <1>2. KsIsAnAblation /\ KsRetrievalOnly(before, after) => "retrieval" \in verdict.signals
    <2> SUFFICES ASSUME KsIsAnAblation, KsRetrievalOnly(before, after) PROVE "retrieval" \in verdict.signals
      OBVIOUS
    <2>1. RagEnough(before, after) /\ "retrieval" \in RagSignals
      BY DEF RagEnough, RagSignals
    <2>2. KsTest(Extract(before).scores, Extract(after).scores, RagCritical)
      <3> DEFINE f == Extract(before).scores
                 g == Extract(after).scores
      <3>1. f \in [Values -> Nat] /\ g \in [Values -> Nat]
        BY ScoresAreCounted
      <3>2. KsTest(f, g, DefaultCritical)
        BY DEF KsRetrievalOnly
      <3> HIDE DEF f, g
      <3>3. RagCritical \in Nat /\ DefaultCritical \in Nat /\ RagCritical <= DefaultCritical
        BY AdaptersAssumption, DetectorsAssumption DEF KsIsAnAblation
      <3>4. KsTest(f, g, RagCritical)
        BY <3>1, <3>2, <3>3, StricterTest DEF KsTest
      <3>5. QED BY <3>4 DEF f, g
    <2>3. QED BY <2>1, <2>2, Zenon DEF RagCheck, Verdict
  <1>3. \A method : AblationDetect(verdict, method) => verdict.signals # {}
    BY DEF AblationDetect
  <1>4. Full \in Methods /\ Full \notin AblatedSignals
    BY DEF Full, Methods, AblatedSignals, RagSignals
  <1>5. predicted =
          [method \in Methods |->
              CASE method = "single_threshold_refusal" -> SingleThresholdRefusal(before, after)
                [] method = "ks_retrieval_only" -> KsRetrievalOnly(before, after)
                [] method = "rag_adapter_full"  -> verdict.drifted
                [] OTHER -> AblationDetect(verdict, method)]
    BY DEF Predicted
  <1>6. verdict.drifted \in BOOLEAN
    BY DEF RagCheck, Verdict
  <1> HIDE DEF verdict, predicted
  <1>7. predicted[Full] = verdict.drifted
    BY <1>4, <1>5 DEF Full
  <1>8. ASSUME NEW method \in Ablations, predicted[method]
        PROVE  verdict.signals # {}
    <2>1. CASE method = "ks_retrieval_only" /\ KsIsAnAblation
      <3>1. predicted["ks_retrieval_only"] = KsRetrievalOnly(before, after)
        BY <1>5 DEF Methods
      <3>2. QED BY <1>2, <1>8, <2>1, <3>1
    <2>2. CASE method \in AblatedSignals
      <3>1. method \in Methods /\ method \notin {"ks_retrieval_only", "single_threshold_refusal", Full}
        BY <2>2 DEF Methods, AblatedSignals, RagSignals, Full
      <3>2. predicted[method] = AblationDetect(verdict, method)
        BY <1>5, <3>1 DEF Full
      <3>3. QED BY <1>3, <1>8, <3>2
    <2>3. QED BY <1>8, <2>1, <2>2 DEF Ablations
  <1>9. predicted \in [Methods -> BOOLEAN]
    <2>1. SingleThresholdRefusal(before, after) \in BOOLEAN
      BY DEF SingleThresholdRefusal, Above
    <2>2. KsRetrievalOnly(before, after) \in BOOLEAN
      BY DEF KsRetrievalOnly, KsTest
    <2>3. verdict.drifted \in BOOLEAN /\ \A method : AblationDetect(verdict, method) \in BOOLEAN
      BY <1>6 DEF AblationDetect
    <2>4. QED BY <1>5, <2>1, <2>2, <2>3
  <1>10. \A method \in Ablations : predicted[method] => predicted[Full]
    BY <1>1, <1>7, <1>8
  <1>11. Covers(predicted)
    BY <1>9, <1>10 DEF Covers
  <1>12. QED BY <1>11 DEF predicted

(* Counting one trial.                                                     *)
LEMMA AccountCounts ==
    ASSUME NEW r \in ResultType, NEW injected \in BOOLEAN, NEW p \in BOOLEAN
    PROVE  /\ Account(r, injected, p) \in ResultType
           /\ Account(r, injected, p).tp = IF injected /\ p THEN r.tp + 1 ELSE r.tp
           /\ Account(r, injected, p).fn = IF injected /\ ~p THEN r.fn + 1 ELSE r.fn
           /\ Account(r, injected, p).fp = IF ~injected /\ p THEN r.fp + 1 ELSE r.fp
           /\ Account(r, injected, p).tn = IF ~injected /\ ~p THEN r.tn + 1 ELSE r.tn
  BY DEF Account, ResultType

(* A trial counts alike for every method.                                  *)
LEMMA BehindCounts ==
    ASSUME NEW method, NEW r \in ResultType, NEW full \in ResultType, Behind(method, r, full),
           NEW injected \in BOOLEAN, NEW p \in BOOLEAN, NEW q \in BOOLEAN,
           method \in Ablations /\ p => q
    PROVE  Behind(method, Account(r, injected, p), Account(full, injected, q))
  <1> DEFINE a == Account(r, injected, p)
             b == Account(full, injected, q)
  <1>1. /\ a.tp = IF injected /\ p THEN r.tp + 1 ELSE r.tp
        /\ a.fn = IF injected /\ ~p THEN r.fn + 1 ELSE r.fn
        /\ a.fp = IF ~injected /\ p THEN r.fp + 1 ELSE r.fp
        /\ a.tn = IF ~injected /\ ~p THEN r.tn + 1 ELSE r.tn
    BY AccountCounts
  <1>2. /\ b.tp = IF injected /\ q THEN full.tp + 1 ELSE full.tp
        /\ b.fn = IF injected /\ ~q THEN full.fn + 1 ELSE full.fn
        /\ b.fp = IF ~injected /\ q THEN full.fp + 1 ELSE full.fp
        /\ b.tn = IF ~injected /\ ~q THEN full.tn + 1 ELSE full.tn
    BY AccountCounts
  <1>3. /\ r.tp \in Nat /\ r.fp \in Nat /\ r.fn \in Nat /\ r.tn \in Nat
        /\ full.tp \in Nat /\ full.fp \in Nat /\ full.fn \in Nat /\ full.tn \in Nat
    BY DEF ResultType
  <1> HIDE DEF a, b
  <1>4. Behind(method, a, b)
    BY <1>1, <1>2, <1>3 DEF Behind
  <1>5. QED BY <1>4 DEF a, b

(* The full adapter is among the methods.                                  *)
LEMMA FullIsAMethod == Full \in Methods
  BY DEF Full, Methods

(* Results at first, and after an action that forgets them.                *)
LEMMA NoResults ==
    /\ [method \in Methods |-> NoResult] \in [Methods -> ResultType]
    /\ \A method \in Methods : Behind(method, NoResult, NoResult)
    /\ Trials(NoResult) = 0
  BY DEF NoResult, ResultType, Behind, Trials

(* Nothing is counted at first.                                            *)
LEMMA ResultsInit == Init => ResultsInv
  <1> SUFFICES ASSUME Init PROVE ResultsInv
    OBVIOUS
  <1>1. results = [method \in Methods |-> NoResult]
    BY DEF Init
  <1>2. results[Full] = NoResult
    BY <1>1, FullIsAMethod
  <1>3. 0 <= MaxTrials
    BY DetectionAssumption
  <1>4. QED BY <1>1, <1>2, <1>3, NoResults DEF ResultsInv

(* A trial, whatever its type, of which the methods say what they may.     *)
LEMMA TrialKeepsResults ==
    ASSUME ResultsInv, NEW type, NEW predicted, Covers(predicted), Trial(type, predicted)
    PROVE  ResultsInv'
  <1> DEFINE injected == type # "none"
  <1>1. results' = [method \in Methods |-> Account(results[method], injected, predicted[method])]
    BY DEF Trial
  <1>2. injected \in BOOLEAN /\ \A method \in Methods : predicted[method] \in BOOLEAN
    BY DEF Covers
  <1>3. \A method \in Methods : results[method] \in ResultType /\ Behind(method, results[method], results[Full])
    BY DEF ResultsInv
  <1> HIDE DEF injected
  <1>4. \A method \in Methods : results'[method] = Account(results[method], injected, predicted[method])
    BY <1>1
  <1>5. results' \in [Methods -> ResultType]
    BY <1>1, <1>2, <1>3, AccountCounts
  <1>6. ASSUME NEW method \in Methods PROVE Behind(method, results'[method], results'[Full])
    <2>1. method \in Ablations /\ predicted[method] => predicted[Full]
      BY DEF Covers
    <2>2. Behind(method, Account(results[method], injected, predicted[method]),
                 Account(results[Full], injected, predicted[Full]))
      BY <1>2, <1>3, <2>1, FullIsAMethod, BehindCounts
    <2>3. QED BY <1>4, <2>2, FullIsAMethod
  <1>7. Trials(results'[Full]) <= MaxTrials
    <2> DEFINE r == results[Full]
               s == results'[Full]
    <2>1. Trials(r) < MaxTrials /\ MaxTrials \in Nat /\ r \in ResultType
      BY <1>3, FullIsAMethod, DetectionAssumption DEF Trial, Full
    <2>2. s = Account(r, injected, predicted[Full]) /\ predicted[Full] \in BOOLEAN
      BY <1>2, <1>4, FullIsAMethod
    <2> HIDE DEF r, s
    <2> DEFINE p == predicted[Full]
    <2>3. p \in BOOLEAN /\ s = Account(r, injected, p)
      BY <2>2
    <2> HIDE DEF p
    <2>4. /\ s.tp = IF injected /\ p THEN r.tp + 1 ELSE r.tp
          /\ s.fn = IF injected /\ ~p THEN r.fn + 1 ELSE r.fn
          /\ s.fp = IF ~injected /\ p THEN r.fp + 1 ELSE r.fp
          /\ s.tn = IF ~injected /\ ~p THEN r.tn + 1 ELSE r.tn
      BY <1>2, <2>1, <2>3, AccountCounts
    <2>5. r.tp \in Nat /\ r.fp \in Nat /\ r.fn \in Nat /\ r.tn \in Nat
      BY <2>1 DEF ResultType
    <2>6. s.tp + s.fp + s.fn + s.tn = r.tp + r.fp + r.fn + r.tn + 1
      BY <1>2, <2>3, <2>4, <2>5
    <2>7. Trials(s) = Trials(r) + 1 /\ Trials(r) \in Nat
      BY <2>5, <2>6 DEF Trials
    <2>8. QED BY <2>1, <2>7 DEF s
  <1>8. QED BY <1>5, <1>6, <1>7 DEF ResultsInv

(* Only trials are counted.                                                *)
LEMMA ResultsStep == ResultsInv /\ [Next]_vars => ResultsInv'
  <1> SUFFICES ASSUME ResultsInv, [Next]_vars PROVE ResultsInv'
    OBVIOUS
  <1>1. CASE UNCHANGED results
    BY <1>1 DEF ResultsInv
  <1>2. CASE \E type \in DriftTypes : \E predicted \in Outcomes[type] : Trial(type, predicted)
    <2>0. PICK type \in DriftTypes : \E predicted \in Outcomes[type] : Trial(type, predicted)
      BY <1>2
    <2>1. PICK predicted \in Outcomes[type] : Trial(type, predicted)
      BY <2>0
    <2>2. PICK before \in Synthetic["none"], after \in Synthetic[type] : predicted = Predicted(before, after)
      BY <2>1 DEF Outcomes
    <2>3. /\ Synthetical(before) /\ Synthetical(after)
          /\ KsIsAnAblation => Size(before) >= RagMinEvents /\ Size(after) >= RagMinEvents
      BY DetectionAssumption, SyntheticAssumption DEF Synthetical, KsIsAnAblation
    <2>4. Covers(predicted)
      BY <2>2, <2>3, FullSeesMost
    <2>5. QED BY <2>1, <2>4, TrialKeepsResults
  <1>3. CASE RunBenchmark
    <2>1. results' = [method \in Methods |-> NoResult]
      BY <1>3 DEF RunBenchmark
    <2>2. results'[Full] = NoResult
      BY <2>1, FullIsAMethod
    <2>3. 0 <= MaxTrials
      BY DetectionAssumption
    <2>4. QED BY <2>1, <2>2, <2>3, NoResults DEF ResultsInv
  <1>4. QED
    <2>1. ASSUME NEW e, Collect(e) PROVE UNCHANGED results
      BY <2>1 DEF Collect
    <2>2. ASSUME NEW present, NEW found, CheckBatch(present, found) PROVE UNCHANGED results
      BY <2>2 DEF CheckBatch
    <2>3. ASSUME Retrain \/ Restart PROVE UNCHANGED results
      BY <2>3 DEF Retrain, Restart
    <2>4. ASSUME NEW c, NEW entry, NEW after, NEW check, Callback(c, entry, after, check) PROVE UNCHANGED results
      BY <2>4 DEF Callback
    <2>5. ASSUME NEW c, \/ RetrieverStart(c) \/ RetrieverError(c) \/ LlmStart(c) \/ LlmError(c) \/ ChainEnd(c)
                        \/ \E scores \in ScoreLists : RetrieverEnd(c, scores)
                        \/ \E latency \in Latencies : LlmEnd(c, latency)
          PROVE  UNCHANGED results
      BY <2>5, <2>4, Zenon DEF RetrieverStart, RetrieverError, LlmStart, LlmError, ChainEnd, RetrieverEnd, LlmEnd
    <2>6. ASSUME NEW target, NEW above, CalibrateHysteresis(target, above) PROVE UNCHANGED results
      BY <2>6 DEF CalibrateHysteresis
    <2>7. CASE UNCHANGED vars
      BY <2>7, <1>1 DEF vars
    <2>8. CASE Next
      BY <1>1, <1>2, <1>3, <2>1, <2>2, <2>3, <2>5, <2>6, <2>8, Zenon DEF Next
    <2>9. QED BY <2>7, <2>8

(* All methods are counted on the same trials, and the full adapter misses *)
(* nothing that one of its ablations catches, in any number of trials.     *)
THEOREM AblationsOnlyLose == Spec => []AblationOnlyLoses
  <1>1. ResultsInv => AblationOnlyLoses
    BY Zenon DEF ResultsInv, Behind, AblationOnlyLoses, Full
  <1>2. QED BY <1>1, ResultsInit, ResultsStep, PTL DEF Spec

-----------------------------------------------------------------------------
(***************************************************************************)
(* The calibration.  Powers are numbers, so rates compare with targets.    *)
(***************************************************************************)
LEMMA PowersAreNumbers == ASSUME NEW base \in Nat, NEW k \in Nat PROVE Power(base, k) \in Nat
  <1> DEFINE Grows(p, n) == \A i \in 0..n : p[i] = IF i = 0 THEN 1 ELSE base * p[i - 1]
             good == {n \in 0..k : \E p \in [0..n -> Nat] : Grows(p, n)}
             Solves(p) == p = [n \in 0..k |-> IF n = 0 THEN 1 ELSE base * p[n - 1]]
             power == CHOOSE p : Solves(p)
  <1>1. 0 \in good
    <2> DEFINE p == [i \in 0..0 |-> 1]
    <2>1. p \in [0..0 -> Nat] /\ Grows(p, 0) /\ 0 \in 0..k
      OBVIOUS
    <2>2. QED BY <2>1
  <1>2. ASSUME NEW n \in 1..k, n - 1 \in good PROVE n \in good
    <2>1. PICK p \in [0..(n - 1) -> Nat] : Grows(p, n - 1)
      BY <1>2
    <2> DEFINE q == [i \in 0..n |-> IF i = n THEN base * p[n - 1] ELSE p[i]]
    <2>2. n \in 0..k /\ n - 1 \in 0..(n - 1) /\ \A i \in 0..n : i # n => i \in 0..(n - 1)
      OBVIOUS
    <2>3. base * p[n - 1] \in Nat
      BY <2>2
    <2>4. q \in [0..n -> Nat]
      BY <2>2, <2>3
    <2>5. ASSUME NEW i \in 0..n PROVE q[i] = IF i = 0 THEN 1 ELSE base * q[i - 1]
      <3>1. CASE i = n
        <4>1. q[i] = base * p[n - 1] /\ n - 1 \in 0..n /\ n - 1 # n /\ i # 0
          BY <3>1
        <4>2. q[n - 1] = p[n - 1]
          BY <4>1
        <4>3. QED BY <3>1, <4>1, <4>2
      <3>2. CASE i # n /\ i = 0
        BY <2>1, <2>2, <3>2
      <3>3. CASE i # n /\ i # 0
        <4>1. i \in 0..(n - 1) /\ i - 1 \in 0..n /\ i - 1 # n
          BY <3>3
        <4>2. q[i] = p[i] /\ q[i - 1] = p[i - 1] /\ p[i] = base * p[i - 1]
          BY <2>1, <3>3, <4>1
        <4>3. QED BY <3>3, <4>2
      <3>4. QED BY <3>1, <3>2, <3>3
    <2> HIDE DEF q
    <2>6. QED BY <2>2, <2>4, <2>5
  <1>3. k \in good
    <2> HIDE DEF good
    <2>1. k \in 0..k
      OBVIOUS
    <2>2. QED BY <1>1, <1>2, <2>1, CountingUp
  <1>4. PICK p \in [0..k -> Nat] : Grows(p, k)
    BY <1>3
  <1>5. Solves(p)
    BY <1>4
  <1>6. Solves(power)
    BY <1>5
  <1> HIDE DEF power
  <1>7. DOMAIN power = 0..k /\ \A i \in 0..k : power[i] = IF i = 0 THEN 1 ELSE base * power[i - 1]
    BY <1>6
  <1> DEFINE numbers == {n \in 0..k : power[n] \in Nat}
  <1>8. 0 \in numbers
    BY <1>7
  <1>9. ASSUME NEW n \in 1..k, n - 1 \in numbers PROVE n \in numbers
    <2>1. power[n] = base * power[n - 1] /\ power[n - 1] \in Nat /\ n \in 0..k
      BY <1>7, <1>9
    <2>2. QED BY <2>1
  <1>10. power[k] \in Nat
    <2> HIDE DEF numbers
    <2>1. k \in numbers
      <3>1. k \in 0..k
        OBVIOUS
      <3>2. QED BY <1>8, <1>9, <3>1, CountingUp
    <2>2. QED BY <2>1 DEF numbers
  <1>11. Power(base, k) = power[k]
    BY Zenon DEF Power, power
  <1>12. QED BY <1>10, <1>11

(* Rates, as pairs.                                                        *)
Rates == Nat \X (Nat \ {0})

LEMMA SignsAreNumbers ==
    ASSUME NEW rate \in Rates, NEW target \in Rates, NEW k \in Nat PROVE Sign(rate, target, k) \in Int
  <1>1. rate[1] \in Nat /\ rate[2] \in Nat /\ target[1] \in Nat /\ target[2] \in Nat
    BY DEF Rates
  <1>2. Power(rate[1], k) \in Nat /\ Power(rate[2], k) \in Nat
    BY <1>1, PowersAreNumbers
  <1>3. QED BY <1>1, <1>2 DEF Sign

(* What is left of false incidents after k drifted checks, less the target. *)
Left(rate, target, k) == IF rate[1] = 0 THEN -1 ELSE Sign(rate, target, k)

(* The property, of a threshold.                                           *)
Met(t) ==
    /\ Left(t.rate, t.target, t.k) > 0 => t.k = MaxConsecutive /\ t.capped
    /\ \A k \in 1..(t.k - 1) : Left(t.rate, t.target, k) > 0
    /\ t.capped /\ t.k < MaxConsecutive => Left(t.rate, t.target, t.k) = 0

(* The loop ends at the first threshold that is enough, or at the maximum. *)
LEMMA CalibrationIsMet ==
    ASSUME NEW rate \in Rates, NEW target \in Rates, NEW above \in BOOLEAN
    PROVE  LET k == DegradedAfterConsecutive(rate, target)
               t == [k |-> k, capped |-> Capped(rate, target, k, above), rate |-> rate, target |-> target]
           IN  k \in 1..MaxConsecutive /\ t.capped \in BOOLEAN /\ Met(t)
  <1> DEFINE k == DegradedAfterConsecutive(rate, target)
             capped == Capped(rate, target, k, above)
             t == [k |-> k, capped |-> capped, rate |-> rate, target |-> target]
             enough == {i \in 1..MaxConsecutive : Sign(rate, target, i) <= 0}
  <1>1. MaxConsecutive \in Nat /\ MaxConsecutive >= 1
    BY DiagnosisAssumption
  <1>2. \A i \in 1..MaxConsecutive : Sign(rate, target, i) \in Int
    BY <1>1, SignsAreNumbers
  <1>3. t.k = k /\ t.capped = capped /\ t.rate = rate /\ t.target = target
    OBVIOUS
  <1>4. capped <=> rate[1] # 0 /\ (Sign(rate, target, k) > 0 \/ (Sign(rate, target, k) = 0 /\ above))
    BY DEF Capped
  <1>5. capped \in BOOLEAN
    BY DEF Capped
  <1>6. CASE rate[1] = 0
    <2>1. k = 1
      BY <1>6 DEF DegradedAfterConsecutive
    <2>2. \A i : Left(rate, target, i) = -1
      BY <1>6 DEF Left
    <2> HIDE DEF k, capped, t
    <2>3. Met(t)
      BY <1>3, <1>4, <1>6, <2>1, <2>2 DEF Met
    <2>4. QED BY <1>1, <1>3, <1>5, <2>1, <2>3 DEF k, capped, t
  <1>7. CASE rate[1] # 0
    <2>1. k = Min(enough \cup {MaxConsecutive})
      BY <1>7 DEF DegradedAfterConsecutive
    <2>2. enough \cup {MaxConsecutive} \in SUBSET Nat /\ enough \cup {MaxConsecutive} # {}
      BY <1>1
    <2> HIDE DEF k, enough
    <2>3. k \in enough \cup {MaxConsecutive} /\ \A i \in enough \cup {MaxConsecutive} : k <= i
      BY <2>1, <2>2, MinOfNumbers
    <2>4. k \in 1..MaxConsecutive
      BY <1>1, <2>3 DEF enough
    <2>5. \A i \in 1..(k - 1) : Sign(rate, target, i) > 0
      <3>1. ASSUME NEW i \in 1..(k - 1) PROVE Sign(rate, target, i) > 0
        <4>1. i \in 1..MaxConsecutive /\ i < k
          BY <1>1, <2>4
        <4>2. i \notin enough
          BY <2>3, <2>4, <4>1
        <4>3. QED BY <1>2, <4>1, <4>2 DEF enough
      <3>2. QED BY <3>1
    <2>6. k = MaxConsecutive \/ Sign(rate, target, k) <= 0
      BY <2>3 DEF enough
    <2>7. Sign(rate, target, k) \in Int
      BY <1>2, <2>4
    <2>8. \A i : Left(rate, target, i) = Sign(rate, target, i)
      BY <1>7 DEF Left
    <2> HIDE DEF capped, t
    <2>9. Met(t)
      BY <1>1, <1>3, <1>4, <1>7, <2>4, <2>5, <2>6, <2>7, <2>8 DEF Met
    <2>10. QED BY <1>3, <1>5, <2>4, <2>9 DEF k, capped, t
  <1>8. QED BY <1>6, <1>7

(* A threshold, if one was recommended, met its target.                    *)
ThresholdInv ==
    /\ threshold.k \in 0..MaxConsecutive /\ threshold.capped \in BOOLEAN
    /\ threshold.k > 0 => Met(threshold)

LEMMA NoThresholdIsKept ==
    ASSUME threshold = NoThreshold PROVE ThresholdInv
  BY DiagnosisAssumption DEF NoThreshold, ThresholdInv

(* The rate of false alarms is one.                                        *)
LEMMA RatesOfResults == ASSUME ResultsInv PROVE FalsePositiveRate(results[Full]) \in Rates
  <1> DEFINE r == results[Full]
  <1>1. r \in ResultType
    BY FullIsAMethod DEF ResultsInv
  <1>2. r.fp \in Nat /\ r.tn \in Nat
    BY <1>1 DEF ResultType
  <1>3. r.fp + r.tn \in Nat
    BY <1>2
  <1> HIDE DEF r
  <1>4. CASE r.fp + r.tn = 0
    BY <1>4 DEF FalsePositiveRate, Rates, r
  <1>5. CASE r.fp + r.tn # 0
    BY <1>2, <1>3, <1>5 DEF FalsePositiveRate, Rates, r
  <1>6. QED BY <1>4, <1>5

(* A calibration from whatever results.                                    *)
LEMMA CalibrationStep ==
    ASSUME ResultsInv, NEW target \in Targets, NEW above \in BOOLEAN, CalibrateHysteresis(target, above)
    PROVE  ThresholdInv'
  <1> DEFINE rate == FalsePositiveRate(results[Full])
             k == DegradedAfterConsecutive(rate, target)
             t == [k |-> k, capped |-> Capped(rate, target, k, above), rate |-> rate, target |-> target]
  <1>1. threshold' = t
    BY DEF CalibrateHysteresis, Full
  <1>2. target \in Rates
    BY DetectionAssumption DEF Rates
  <1>3. rate \in Rates
    BY RatesOfResults
  <1> HIDE DEF rate
  <1>4. k \in 1..MaxConsecutive /\ t.capped \in BOOLEAN /\ Met(t)
    BY <1>2, <1>3, CalibrationIsMet
  <1>5. t.k = k /\ MaxConsecutive \in Nat
    BY DiagnosisAssumption
  <1> HIDE DEF t, k
  <1>6. t.k \in 0..MaxConsecutive
    BY <1>4, <1>5
  <1>7. ThresholdInv' <=> t.k \in 0..MaxConsecutive /\ t.capped \in BOOLEAN /\ (t.k > 0 => Met(t))
    BY <1>1, Zenon DEF ThresholdInv, Met
  <1>8. QED BY <1>4, <1>6, <1>7

(* Results that change take the threshold with them.                       *)
LEMMA ThresholdStep == ResultsInv /\ ThresholdInv /\ [Next]_vars => ThresholdInv'
  <1> SUFFICES ASSUME ResultsInv, ThresholdInv, [Next]_vars PROVE ThresholdInv'
    OBVIOUS
  <1>1. CASE UNCHANGED threshold
    BY <1>1, Zenon DEF ThresholdInv, Met
  <1>2. CASE threshold' = NoThreshold
    <2>1. threshold'.k = 0 /\ threshold'.capped = FALSE /\ MaxConsecutive \in Nat
      BY <1>2, DiagnosisAssumption DEF NoThreshold
    <2>2. \A k : k = 0 => ~(k > 0) /\ k \in 0..MaxConsecutive
      BY <2>1
    <2>3. threshold'.k \in 0..MaxConsecutive /\ ~(threshold'.k > 0)
      BY <2>1, <2>2, Zenon
    <2>4. threshold'.capped \in BOOLEAN
      BY <2>1, Zenon
    <2>5. QED BY <2>3, <2>4, Zenon DEF ThresholdInv
  <1>3. CASE \E target \in Targets, above \in BOOLEAN : CalibrateHysteresis(target, above)
    BY <1>3, CalibrationStep, Zenon
  <1>4. ASSUME NEW e, Collect(e) PROVE UNCHANGED threshold
    BY <1>4 DEF Collect
  <1>5. ASSUME NEW present, NEW found, CheckBatch(present, found) PROVE UNCHANGED threshold
    BY <1>5 DEF CheckBatch
  <1>6. ASSUME Retrain \/ Restart PROVE UNCHANGED threshold
    BY <1>6 DEF Retrain, Restart
  <1>7. ASSUME NEW c, NEW entry, NEW after, NEW check, Callback(c, entry, after, check) PROVE UNCHANGED threshold
    BY <1>7 DEF Callback
  <1>8. ASSUME NEW c, \/ RetrieverStart(c) \/ RetrieverError(c) \/ LlmStart(c) \/ LlmError(c) \/ ChainEnd(c)
                      \/ \E scores \in ScoreLists : RetrieverEnd(c, scores)
                      \/ \E latency \in Latencies : LlmEnd(c, latency)
        PROVE  UNCHANGED threshold
    BY <1>8, <1>7, Zenon DEF RetrieverStart, RetrieverError, LlmStart, LlmError, ChainEnd, RetrieverEnd, LlmEnd
  <1>9. ASSUME NEW type, NEW predicted, Trial(type, predicted) PROVE threshold' = NoThreshold
    BY <1>9 DEF Trial
  <1>10. ASSUME RunBenchmark PROVE threshold' = NoThreshold
    BY <1>10 DEF RunBenchmark
  <1>11. CASE UNCHANGED vars
    BY <1>11, <1>1 DEF vars
  <1>12. CASE Next
    BY <1>1, <1>2, <1>3, <1>4, <1>5, <1>6, <1>8, <1>9, <1>10, <1>12, Zenon DEF Next
  <1>13. QED BY <1>11, <1>12

(***************************************************************************)
(* Whatever results the benchmark has and whatever rate is asked for, the  *)
(* threshold is the smallest that meets it, or the maximum, which says so. *)
(***************************************************************************)
THEOREM CalibrationIsRight == Spec => []CalibrationMeetsItsTarget
  <1>1. Init => ThresholdInv
    BY NoThresholdIsKept DEF Init
  <1>2. ThresholdInv => CalibrationMeetsItsTarget
    BY Zenon DEF ThresholdInv, Met, Left, CalibrationMeetsItsTarget
  <1>3. QED BY <1>1, <1>2, ThresholdStep, ResultsInit, ResultsStep, PTL DEF Spec

-----------------------------------------------------------------------------
(***************************************************************************)
(* Batches, within their bounds.                                           *)
(***************************************************************************)
(* A batch of nothing, and one that has one event more.                    *)
LEMMA SizeOfEmpty == ASSUME NEW S, IsFiniteSet(S) PROVE Size([e \in S |-> 0]) = 0
  <1> DEFINE b == [e \in S |-> 0]
  <1>1. b \in [S -> Nat] /\ \A x \in S : b[x] \in Nat /\ b[x] <= 0
    OBVIOUS
  <1> HIDE DEF b
  <1>2. SumFunctionOnSet(b, S) <= 0 * Cardinality(S)
    <2>1. 0 \in Nat
      OBVIOUS
    <2>2. QED BY <1>1, <2>1, SumBounded, Zenon
  <1>3. Size(b) \in Nat /\ Size(b) = SumFunctionOnSet(b, S)
    BY <1>1, SizeIsSome, Zenon
  <1>4. Cardinality(S) \in Nat
    BY FS_CardinalityType
  <1>5. Size(b) = 0
    BY <1>2, <1>3, <1>4
  <1>6. QED BY <1>5 DEF b

LEMMA SizeSplits ==
    ASSUME NEW S, IsFiniteSet(S), NEW b \in [S -> Nat], NEW e \in S
    PROVE  /\ SumFunctionOnSet(b, S \ {e}) \in Nat
           /\ Size(b) = b[e] + SumFunctionOnSet(b, S \ {e})
  <1>1. \A x \in S : b[x] \in Nat
    OBVIOUS
  <1>2. /\ \A s \in SUBSET S : SumFunctionOnSet(b, s) \in Nat
        /\ \A s \in SUBSET S : \A x \in s : SumFunctionOnSet(b, s) = b[x] + SumFunctionOnSet(b, s \ {x})
    BY <1>1, SumOfNumbers
  <1>3. S \in SUBSET S /\ S \ {e} \in SUBSET S
    OBVIOUS
  <1>4. SumFunctionOnSet(b, S \ {e}) \in Nat
    BY <1>2, <1>3, Zenon
  <1>5. SumFunctionOnSet(b, S) = b[e] + SumFunctionOnSet(b, S \ {e})
    BY <1>2, <1>3, Zenon
  <1>6. Size(b) = SumFunctionOnSet(b, S)
    BY SizeIsSome, Zenon
  <1>7. QED BY <1>4, <1>5, <1>6

LEMMA SizeOfMore ==
    ASSUME NEW S, IsFiniteSet(S), NEW b \in [S -> Nat], NEW e \in S
    PROVE  Size([b EXCEPT ![e] = @ + 1]) = Size(b) + 1
  <1> DEFINE c == [b EXCEPT ![e] = @ + 1]
             rest == S \ {e}
  <1>1. c \in [S -> Nat] /\ c[e] = b[e] + 1 /\ b[e] \in Nat
    OBVIOUS
  <1>2. \A x \in rest : b[x] \in Int /\ c[x] = b[x]
    OBVIOUS
  <1> HIDE DEF c
  <1>3. SumFunctionOnSet(c, rest) = SumFunctionOnSet(b, rest)
    <2>1. IsFiniteSet(rest) /\ rest \in SUBSET rest /\ \A x \in rest \ rest : c[x] = 0
      BY FS_Subset
    <2> HIDE DEF rest
    <2>2. QED BY <1>2, <2>1, SumExtended, Zenon
  <1>4. Size(b) = b[e] + SumFunctionOnSet(b, rest) /\ SumFunctionOnSet(b, rest) \in Nat
    BY SizeSplits
  <1>5. Size(c) = c[e] + SumFunctionOnSet(c, rest)
    BY <1>1, SizeSplits
  <1> HIDE DEF rest
  <1>6. Size(c) = Size(b) + 1
    BY <1>1, <1>3, <1>4, <1>5
  <1>7. QED BY <1>6 DEF c

(* An adapter's batches: the empty one, the baselines, any within bounds.  *)
LEMMA BatchesAreBatches ==
    ASSUME NEW name \in AdapterNames
    PROVE  /\ IsFiniteSet(Kinds[name])
           /\ Batches(name) \subseteq [Kinds[name] -> Nat]
           /\ Empty(name) \in Batches(name)
           /\ Baselines[name] \subseteq Batches(name)
           /\ \A b \in [Kinds[name] -> Nat] : Size(b) <= MaxBatch => b \in Batches(name)
  <1>1. IsFiniteSet(Kinds[name]) /\ Baselines[name] \subseteq Batches(name) /\ MaxBatch \in Nat
    BY BatchesAssumption, DetectionAssumption
  <1>2. 0..MaxBatch \subseteq Nat
    BY <1>1
  <1>3. Batches(name) \subseteq [Kinds[name] -> Nat]
    BY <1>2 DEF Batches
  <1>4. Empty(name) \in Batches(name)
    <2>1. Size(Empty(name)) = 0
      BY <1>1, SizeOfEmpty, Zenon DEF Empty
    <2>2. Size(Empty(name)) <= MaxBatch /\ 0 \in 0..MaxBatch
      BY <1>1, <2>1
    <2>3. QED BY <2>2 DEF Batches, Empty
  <1>5. ASSUME NEW b \in [Kinds[name] -> Nat], Size(b) <= MaxBatch PROVE b \in Batches(name)
    <2>1. Size(b) \in Nat /\ \A e \in Kinds[name] : b[e] <= Size(b)
      BY <1>1, SizeIsSome, Zenon
    <2>2. \A e \in Kinds[name] : b[e] \in 0..MaxBatch
      BY <1>1, <1>5, <2>1
    <2>3. QED BY <1>5, <2>2 DEF Batches
  <1>6. QED BY <1>1, <1>3, <1>4, <1>5

(* What is collected, by whom, and the calls in flight.                    *)
BatchInv ==
    /\ source \in {"reporter", "handler", "benchmark"} /\ adapter \in AdapterNames
    /\ source = "handler" => adapter = "rag"
    /\ batch \in Batches(adapter) /\ baseline \in Batches(adapter)
    /\ latest.kind \in {"none", "batch", "event"}
    /\ \A c \in Chains : chain[c].calls \in 0..MaxCalls /\ chain[c].retrieving \in 0..MaxRetrievals

LEMMA BatchInit == Init => BatchInv
  <1> SUFFICES ASSUME Init PROVE BatchInv
    OBVIOUS
  <1>1. source \in {"reporter", "handler", "benchmark"} /\ adapter \in AdapterNames
    BY DetectionAssumption DEF Init
  <1>2. source = "handler" => adapter = "rag"
    BY DEF Init
  <1>3. batch \in Batches(adapter) /\ baseline \in Batches(adapter)
    BY <1>1, BatchesAreBatches DEF Init
  <1>4. latest.kind = "none"
    BY DEF Init, NoCheck
  <1>5. \A c \in Chains : chain[c].calls = 0 /\ chain[c].retrieving = 0
    BY DEF Init, NewChain
  <1>6. 0 \in 0..MaxCalls /\ 0 \in 0..MaxRetrievals
    BY DetectionAssumption
  <1>7. QED BY <1>1, <1>2, <1>3, <1>4, <1>5, <1>6 DEF BatchInv

(* A callback whose chain has few enough calls in flight.                  *)
LEMMA CallbackKeepsBatch ==
    ASSUME BatchInv, HandlerInv, NEW c \in Chains, NEW entry, NEW after, NEW check,
           Callback(c, entry, after, check), after.calls \in 0..MaxCalls,
           after.retrieving \in 0..MaxRetrievals, check.kind \in {"none", "event"}
    PROVE  BatchInv'
  <1>1. \A d \in Chains : chain'[d] = IF d = c THEN after ELSE chain[d]
    BY DEF Callback, HandlerInv, TableType
  <1>2. latest' = check /\ UNCHANGED <<source, adapter, baseline, batch>>
    BY DEF Callback
  <1>3. \A d \in Chains : chain'[d].calls \in 0..MaxCalls /\ chain'[d].retrieving \in 0..MaxRetrievals
    BY <1>1 DEF BatchInv
  <1>4. QED BY <1>2, <1>3 DEF BatchInv

LEMMA CallbacksKeepBatch ==
    ASSUME BatchInv, HandlerInv, NEW c \in Chains,
           \/ RetrieverStart(c) \/ RetrieverError(c) \/ LlmStart(c) \/ LlmError(c) \/ ChainEnd(c)
           \/ \E scores \in ScoreLists : RetrieverEnd(c, scores)
           \/ \E latency \in Latencies : LlmEnd(c, latency)
    PROVE  BatchInv'
  <1>1. /\ chain[c] \in ChainType
        /\ chain[c].calls \in 0..MaxCalls /\ MaxCalls \in Nat
        /\ chain[c].retrieving \in 0..MaxRetrievals /\ MaxRetrievals \in Nat
    BY DetectionAssumption DEF HandlerInv, TableType, BatchInv
  <1>2. NoCheck.kind = "none"
    BY DEF NoCheck
  <1>3. ASSUME NEW entry, NEW after, NEW check, Callback(c, entry, after, check),
               after.calls = chain[c].calls, after.retrieving \in 0..MaxRetrievals, check.kind = "none"
        PROVE  BatchInv'
    BY <1>1, <1>3, CallbackKeepsBatch
  <1>4. CASE RetrieverStart(c)
    <2> DEFINE h == [chain[c] EXCEPT !.retrieving = @ + 1]
    <2>1. h.calls = chain[c].calls /\ h.retrieving \in 0..MaxRetrievals
      BY <1>1, <1>4 DEF RetrieverStart, ChainType
    <2> HIDE DEF h
    <2>2. PICK entry : Callback(c, entry, h, NoCheck)
      BY <1>4, Zenon DEF RetrieverStart, h
    <2>3. QED BY <1>2, <1>3, <2>1, <2>2
  <1>5. CASE RetrieverError(c)
    <2> DEFINE h == [chain[c] EXCEPT !.retrieving = @ - 1]
    <2>1. h.calls = chain[c].calls /\ h.retrieving \in 0..MaxRetrievals
      BY <1>1, <1>5 DEF RetrieverError, ChainType
    <2> HIDE DEF h
    <2>2. Callback(c, table[c], h, NoCheck)
      BY <1>5, Zenon DEF RetrieverError, h
    <2>3. QED BY <1>2, <1>3, <2>1, <2>2
  <1>6. CASE ChainEnd(c)
    <2> DEFINE h == [chain[c] EXCEPT !.open = FALSE]
    <2>1. h.calls = chain[c].calls /\ h.retrieving \in 0..MaxRetrievals
      BY <1>1 DEF ChainType
    <2> HIDE DEF h
    <2>2. Callback(c, table[c], h, NoCheck)
      BY <1>6, Zenon DEF ChainEnd, h
    <2>3. QED BY <1>2, <1>3, <2>1, <2>2
  <1>7. ASSUME NEW scores \in ScoreLists, RetrieverEnd(c, scores) PROVE BatchInv'
    <2> DEFINE h == [chain[c] EXCEPT !.retrieving = @ - 1, !.context = scores, !.found = @ \cup {scores}]
    <2>1. h.calls = chain[c].calls /\ h.retrieving \in 0..MaxRetrievals
      <3>0. chain[c].retrieving > 0
        BY <1>7, Zenon DEF RetrieverEnd
      <3>1. chain[c].retrieving \in Nat \ {0} /\ chain[c].retrieving <= MaxRetrievals
        BY <1>1, <3>0
      <3>2. h.calls = chain[c].calls /\ h.retrieving = chain[c].retrieving - 1
        BY <1>1 DEF ChainType
      <3>3. QED BY <1>1, <3>1, <3>2
    <2> HIDE DEF h
    <2>2. PICK entry : Callback(c, entry, h, NoCheck)
      BY <1>7, Zenon DEF RetrieverEnd, h
    <2>3. QED BY <1>2, <1>3, <2>1, <2>2
  <1>8. CASE LlmStart(c)
    <2> DEFINE h == [chain[c] EXCEPT !.calls = @ + 1, !.overlapped = @ \/ chain[c].calls > 0]
    <2>1. h.calls = chain[c].calls + 1 /\ h.retrieving \in 0..MaxRetrievals
      BY <1>1 DEF ChainType
    <2> HIDE DEF h
    <2>2. PICK entry : Callback(c, entry, h, NoCheck)
      BY <1>8, Zenon DEF LlmStart, h
    <2>3. chain[c].calls < MaxCalls
      BY <1>8 DEF LlmStart
    <2>4. h.calls \in 0..MaxCalls
      BY <1>1, <2>1, <2>3
    <2>5. QED BY <1>2, <2>1, <2>2, <2>4, CallbackKeepsBatch
  <1>9. ASSUME chain[c].calls > 0
        PROVE  CallEnded(c).calls \in 0..MaxCalls /\ CallEnded(c).retrieving \in 0..MaxRetrievals
    <2>1. CallEnded(c).calls = chain[c].calls - 1 /\ CallEnded(c).retrieving = chain[c].retrieving
      BY <1>1 DEF CallEnded, ChainType
    <2>2. QED BY <1>1, <1>9, <2>1
  <1>10. CASE LlmError(c)
    <2>1. Callback(c, NoEntry, CallEnded(c), NoCheck) /\ chain[c].calls > 0
      BY <1>10 DEF LlmError
    <2>2. QED BY <1>2, <1>9, <2>1, CallbackKeepsBatch
  <1>11. ASSUME NEW latency \in Latencies, LlmEnd(c, latency) PROVE BatchInv'
    <2>1. PICK event, verdict, single :
             Callback(c, NoEntry, CallEnded(c),
                      [kind |-> "event", before |-> chain[c], event |-> event, batch |-> single,
                       baseline |-> baseline, verdict |-> verdict])
      BY <1>11, Zenon DEF LlmEnd
    <2>2. chain[c].calls > 0
      BY <1>11 DEF LlmEnd
    <2>3. QED BY <1>9, <2>1, <2>2, CallbackKeepsBatch
  <1>12. QED BY <1>4, <1>5, <1>6, <1>7, <1>8, <1>10, <1>11

(* Batches are collected, checked and made the baseline.                   *)
LEMMA BatchStep == BatchInv /\ HandlerInv /\ [Next]_vars => BatchInv'
  <1> SUFFICES ASSUME BatchInv, HandlerInv, [Next]_vars PROVE BatchInv'
    OBVIOUS
  <1>1. adapter \in AdapterNames /\ batch \in Batches(adapter) /\ Empty(adapter) \in Batches(adapter)
    BY BatchesAreBatches DEF BatchInv
  <1>2. ASSUME NEW e \in Kinds[adapter], Collect(e) PROVE BatchInv'
    <2> DEFINE more == [batch EXCEPT ![e] = @ + 1]
    <2>1. IsFiniteSet(Kinds[adapter]) /\ batch \in [Kinds[adapter] -> Nat]
      BY <1>1, BatchesAreBatches
    <2>2. more \in [Kinds[adapter] -> Nat]
      BY <2>1
    <2>3. Size(more) = Size(batch) + 1 /\ Size(batch) \in Nat
      BY <2>1, SizeOfMore, SizeIsSome
    <2>4. Size(batch) < MaxBatch /\ MaxBatch \in Nat
      BY <1>2, DetectionAssumption DEF Collect
    <2> HIDE DEF more
    <2>5. Size(more) <= MaxBatch
      BY <2>3, <2>4
    <2>6. more \in Batches(adapter)
      BY <1>1, <2>2, <2>5, BatchesAreBatches
    <2>7. batch' = more /\ UNCHANGED <<source, adapter, baseline, chain>> /\ latest'.kind = "none"
      BY <1>2 DEF Collect, more, NoCheck
    <2>8. QED BY <2>6, <2>7 DEF BatchInv
  <1>3. ASSUME NEW present, NEW found, CheckBatch(present, found) PROVE BatchInv'
    <2>1. batch' = Empty(adapter) /\ UNCHANGED <<source, adapter, baseline, chain>> /\ latest'.kind = "batch"
      BY <1>3 DEF CheckBatch
    <2>2. QED BY <1>1, <2>1 DEF BatchInv
  <1>4. CASE Retrain
    <2>1. /\ batch' = Empty(adapter) /\ baseline' = batch
          /\ UNCHANGED <<source, adapter, chain>> /\ latest'.kind = "none"
      BY <1>4 DEF Retrain, NoCheck
    <2>2. QED BY <1>1, <2>1 DEF BatchInv
  <1>5. ASSUME NEW c \in Chains,
               \/ RetrieverStart(c) \/ RetrieverError(c) \/ LlmStart(c) \/ LlmError(c) \/ ChainEnd(c)
               \/ \E scores \in ScoreLists : RetrieverEnd(c, scores)
               \/ \E latency \in Latencies : LlmEnd(c, latency)
        PROVE  BatchInv'
    BY <1>5, CallbacksKeepBatch, Zenon
  <1>6. CASE Restart
    <2>1. UNCHANGED <<source, adapter, baseline, batch>> /\ latest'.kind = "none"
      BY <1>6 DEF Restart, NoCheck
    <2>2. \A c \in Chains : chain'[c].calls = 0 /\ chain'[c].retrieving = 0
      BY <1>6 DEF Restart, NewChain
    <2>3. 0 \in 0..MaxCalls /\ 0 \in 0..MaxRetrievals
      BY DetectionAssumption
    <2>4. QED BY <2>1, <2>2, <2>3 DEF BatchInv
  <1>7. ASSUME UNCHANGED <<source, adapter, baseline, batch, chain, latest>> PROVE BatchInv'
    BY <1>7 DEF BatchInv
  <1>8. ASSUME NEW type, NEW predicted, Trial(type, predicted) PROVE BatchInv'
    BY <1>7, <1>8 DEF Trial
  <1>9. ASSUME NEW target, NEW above, CalibrateHysteresis(target, above) PROVE BatchInv'
    BY <1>7, <1>9 DEF CalibrateHysteresis
  <1>10. CASE RunBenchmark
    BY <1>7, <1>10 DEF RunBenchmark
  <1>11. CASE UNCHANGED vars
    BY <1>7, <1>11 DEF vars
  <1>12. CASE Next
    BY <1>2, <1>3, <1>4, <1>5, <1>6, <1>8, <1>9, <1>10, <1>12, Zenon DEF Next
  <1>13. QED BY <1>11, <1>12

(* The inductive invariant.                                                *)
DetectionInv == BatchInv /\ HandlerInv /\ ResultsInv /\ ThresholdInv

LEMMA DetectionIsInvariant == Spec => []DetectionInv
  <1>1. Init => DetectionInv
    BY BatchInit, InitHandler, ResultsInit, NoThresholdIsKept DEF DetectionInv, Init
  <1>2. DetectionInv /\ [Next]_vars => DetectionInv'
    BY BatchStep, NextHandler, ResultsStep, ThresholdStep DEF DetectionInv
  <1>3. QED BY <1>1, <1>2, PTL DEF Spec

(***************************************************************************)
(* The types of the state, among them that a batch never grows beyond its  *)
(* bound and that no method is counted on more trials than were run.       *)
(***************************************************************************)
THEOREM TypeCorrect == Spec => []TypeOK
  <1>1. DetectionInv => TypeOK
    <2> SUFFICES ASSUME DetectionInv PROVE TypeOK
      OBVIOUS
    <2>1. source \in {"reporter", "handler", "benchmark"} /\ adapter \in AdapterNames
      BY DEF DetectionInv, BatchInv
    <2>2. \A b \in {batch, baseline} : b \in [Kinds[adapter] -> 0..MaxBatch] /\ Size(b) <= MaxBatch
      BY DEF DetectionInv, BatchInv, Batches
    <2>3. ASSUME NEW c \in Chains
          PROVE  /\ chain[c].calls \in 0..MaxCalls /\ chain[c].retrieving \in 0..MaxRetrievals
                 /\ (table[c] # NoEntry => DOMAIN table[c] = DOMAIN NewEntry)
      <3>1. table[c] \in EntryType \cup {NoEntry}
        BY DEF DetectionInv, HandlerInv, TableType
      <3>2. \A e \in EntryType : DOMAIN e = DOMAIN NewEntry
        BY DEF EntryType, NewEntry
      <3>3. QED BY <3>1, <3>2 DEF DetectionInv, BatchInv
    <2>4. ASSUME NEW method \in Methods PROVE Trials(results[method]) \in 0..MaxTrials
      <3> DEFINE r == results[method]
                 full == results[Full]
      <3>1. r \in ResultType /\ full \in ResultType /\ Behind(method, r, full) /\ Trials(full) <= MaxTrials
        BY FullIsAMethod DEF DetectionInv, ResultsInv
      <3> HIDE DEF r, full
      <3>2. /\ r.tp \in Nat /\ r.fp \in Nat /\ r.fn \in Nat /\ r.tn \in Nat
            /\ full.tp \in Nat /\ full.fp \in Nat /\ full.fn \in Nat /\ full.tn \in Nat
        BY <3>1 DEF ResultType
      <3>3. Trials(r) \in Nat /\ Trials(r) = Trials(full)
        BY <3>1, <3>2 DEF Behind, Trials
      <3>4. MaxTrials \in Nat
        BY DetectionAssumption
      <3>5. Trials(r) \in 0..MaxTrials
        BY <3>1, <3>3, <3>4
      <3>6. QED BY <3>5 DEF r
    <2>5. latest.kind \in {"none", "batch", "event"}
      BY DEF DetectionInv, BatchInv
    <2>6. threshold.k \in 0..MaxConsecutive /\ threshold.capped \in BOOLEAN
      BY DEF DetectionInv, ThresholdInv
    <2>7. QED BY <2>1, <2>2, <2>3, <2>4, <2>5, <2>6, Zenon DEF TypeOK
  <1>2. QED BY <1>1, DetectionIsInvariant, PTL

-----------------------------------------------------------------------------
(***************************************************************************)
(* Samples that are in proportion.  p times what the one has of a value is *)
(* q times what the other has, so their fractions are equal crosswise.     *)
(***************************************************************************)
LEMMA Crosswise ==
    ASSUME NEW p \in Nat \ {0}, NEW q \in Nat, NEW a \in Nat, NEW b \in Nat, NEW c \in Nat, NEW d \in Nat,
           p * a = q * c, p * b = q * d
    PROVE  a * d = c * b
  <1>1. p * (a * d) = (p * a) * d
    OBVIOUS
  <1>2. (q * c) * d = c * (q * d)
    OBVIOUS
  <1>3. c * (p * b) = p * (c * b)
    OBVIOUS
  <1>4. p * (a * d) = p * (c * b)
    BY <1>1, <1>2, <1>3
  <1> DEFINE x == a * d
             y == c * b
  <1>5. x \in Nat /\ y \in Nat /\ p * x = p * y
    BY <1>4
  <1> HIDE DEF x, y
  <1>6. p * (x - y) = 0
    BY <1>5
  <1>7. x = y
    BY <1>5, <1>6
  <1>8. QED BY <1>7 DEF x, y

(* Samples f and g, of values in S.                                        *)
Alike(S, f, g, p, q) ==
    /\ IsFiniteSet(S) /\ f \in [S -> Nat] /\ g \in [S -> Nat]
    /\ p \in Nat \ {0} /\ q \in Nat
    /\ \A x \in S : p * f[x] = q * g[x]

LEMMA SumsAreAlike ==
    ASSUME NEW S, NEW f, NEW g, NEW p, NEW q, Alike(S, f, g, p, q), NEW T \in SUBSET S
    PROVE  /\ SumFunctionOnSet(f, T) \in Nat /\ SumFunctionOnSet(g, T) \in Nat
           /\ p * SumFunctionOnSet(f, T) = q * SumFunctionOnSet(g, T)
  <1>1. IsFiniteSet(S) /\ f \in [S -> Nat] /\ g \in [S -> Nat] /\ p \in Nat /\ q \in Nat
    BY DEF Alike
  <1>2. SumFunctionOnSet(f, T) \in Nat /\ SumFunctionOnSet(g, T) \in Nat
    BY <1>1, SizeIsSome, Zenon
  <1>3. IsFiniteSet(T)
    BY <1>1, FS_Subset
  <1>4. /\ \A x \in T : f[x] \in Int /\ g[x] \in Int
        /\ \A x \in T : p * f[x] = q * g[x]
        /\ p \in Int /\ q \in Int
    BY <1>1 DEF Alike
  <1>5. p * SumFunctionOnSet(f, T) = q * SumFunctionOnSet(g, T)
    BY <1>3, <1>4, SumProportional
  <1>6. QED BY <1>2, <1>5

LEMMA SizesAreAlike ==
    ASSUME NEW S, NEW f, NEW g, NEW p, NEW q, Alike(S, f, g, p, q)
    PROVE  /\ Size(f) \in Nat /\ Size(g) \in Nat /\ p * Size(f) = q * Size(g)
           /\ \A T \in SUBSET S : SumFunctionOnSet(f, T) * Size(g) = SumFunctionOnSet(g, T) * Size(f)
           /\ \A x \in S : f[x] * Size(g) = g[x] * Size(f)
  <1>1. IsFiniteSet(S) /\ f \in [S -> Nat] /\ g \in [S -> Nat] /\ p \in Nat \ {0} /\ q \in Nat
    BY DEF Alike
  <1>2. Size(f) = SumFunctionOnSet(f, S) /\ Size(g) = SumFunctionOnSet(g, S)
    BY <1>1, SizeIsSome, Zenon
  <1>3. S \in SUBSET S
    OBVIOUS
  <1>4. Size(f) \in Nat /\ Size(g) \in Nat /\ p * Size(f) = q * Size(g)
    BY <1>2, <1>3, SumsAreAlike
  <1>5. ASSUME NEW T \in SUBSET S
        PROVE  SumFunctionOnSet(f, T) * Size(g) = SumFunctionOnSet(g, T) * Size(f)
    <2>1. /\ SumFunctionOnSet(f, T) \in Nat /\ SumFunctionOnSet(g, T) \in Nat
          /\ p * SumFunctionOnSet(f, T) = q * SumFunctionOnSet(g, T)
      BY SumsAreAlike
    <2>2. QED BY <1>1, <1>4, <2>1, Crosswise
  <1>6. ASSUME NEW x \in S PROVE f[x] * Size(g) = g[x] * Size(f)
    <2>1. f[x] \in Nat /\ g[x] \in Nat /\ p * f[x] = q * g[x]
      BY <1>1 DEF Alike
    <2>2. QED BY <1>1, <1>4, <2>1, Crosswise
  <1>7. QED BY <1>4, <1>5, <1>6

(* Their distribution functions are equal.                                 *)
LEMMA NoGap ==
    ASSUME NEW f, NEW g, NEW p, NEW q, Alike(Values, f, g, p, q), NEW x
    PROVE  Gap(f, g, x) = 0
  <1> DEFINE T == {v \in Values : v <= x}
             a == AtMost(f, x) * Size(g)
  <1>1. T \in SUBSET Values /\ AtMost(f, x) = SumFunctionOnSet(f, T) /\ AtMost(g, x) = SumFunctionOnSet(g, T)
    BY DEF AtMost
  <1>2. AtMost(f, x) * Size(g) = AtMost(g, x) * Size(f)
    <2> HIDE DEF T
    <2>1. SumFunctionOnSet(f, T) * Size(g) = SumFunctionOnSet(g, T) * Size(f)
      BY <1>1, SizesAreAlike
    <2>2. QED BY <1>1, <2>1
  <1>3. AtMost(f, x) \in Nat /\ Size(g) \in Nat
    <2> HIDE DEF T
    <2>1. SumFunctionOnSet(f, T) \in Nat
      BY <1>1, SumsAreAlike, Zenon
    <2>2. QED BY <1>1, <2>1, SizesAreAlike
  <1>4. a \in Nat /\ Gap(f, g, x) = Distance(a, a)
    BY <1>2, <1>3 DEF Gap
  <1> HIDE DEF a
  <1>5. QED BY <1>4 DEF Distance

(* The tests see nothing in them.                                          *)
LEMMA KsSeesNothing ==
    ASSUME NEW f, NEW g, NEW p, NEW q, Alike(Values, f, g, p, q), NEW critical \in Nat
    PROVE  ~KsSignificant(f, g, critical)
  <1> DEFINE statistic == Max({Gap(f, g, x) : x \in Values})
  <1>1. {Gap(f, g, x) : x \in Values} = {0}
    <2>1. \A x \in Values : Gap(f, g, x) = 0
      BY NoGap
    <2>2. Values # {}
      BY DetectorsAssumption
    <2>3. QED BY <2>1, <2>2, Zenon
  <1>2. statistic = 0
    <2>1. IsFiniteSet({0})
      BY FS_Singleton, Zenon
    <2>2. {0} \in SUBSET Int /\ {0} # {}
      OBVIOUS
    <2>3. Max({0}) \in {0}
      BY <2>1, <2>2, MaxOfNumbers, Zenon
    <2>4. QED BY <1>1, <2>3
  <1>3. Size(f) \in Nat /\ Size(g) \in Nat /\ critical \in Nat
    BY SizesAreAlike
  <1> HIDE DEF statistic
  <1>4. 100 * statistic * statistic = 0
    BY <1>2
  <1>5. critical * Size(f) * Size(g) * (Size(f) + Size(g)) \in Nat
    <2> DEFINE k == critical
               n == Size(f)
               m == Size(g)
    <2>1. k \in Nat /\ n \in Nat /\ m \in Nat
      BY <1>3
    <2> HIDE DEF k, n, m
    <2>2. k * n \in Nat /\ n + m \in Nat
      BY <2>1
    <2>3. k * n * m \in Nat
      BY <2>1, <2>2
    <2>4. k * n * m * (n + m) \in Nat
      BY <2>2, <2>3
    <2>5. QED BY <2>4 DEF k, n, m
  <1>6. ~(100 * statistic * statistic > critical * Size(f) * Size(g) * (Size(f) + Size(g)))
    BY <1>4, <1>5
  <1>7. QED BY <1>6 DEF KsSignificant, statistic

LEMMA KsTestSeesNothing ==
    ASSUME NEW f, NEW g, NEW p, NEW q, Alike(Values, f, g, p, q), NEW critical \in Nat
    PROVE  ~KsTest(f, g, critical)
  BY KsSeesNothing DEF KsTest

LEMMA ProportionsSeeNothing ==
    ASSUME NEW bs \in Nat, NEW bn \in Nat, NEW cs \in Nat, NEW cn \in Nat, bs <= bn, cs <= cn, bs * cn = cs * bn
    PROVE  ~TwoProportionZTest(bs, bn, cs, cn)
  <1> DEFINE skew == Distance(bs * cn, cs * bn)
             hits == bs + cs
             all  == bn + cn
  <1>1. skew = 0
    <2>1. bs * cn \in Nat
      OBVIOUS
    <2>2. QED BY <2>1 DEF Distance
  <1>2. all \in Nat /\ hits \in Nat /\ all - hits \in Nat /\ ZCritical \in Nat
    BY DetectorsAssumption
  <1> HIDE DEF skew, hits, all
  <1>3. 100 * skew * skew * all = 0
    BY <1>1, <1>2
  <1>4. ZCritical * hits * (all - hits) * bn * cn \in Nat
    <2> DEFINE gap == all - hits
    <2>1. gap \in Nat
      BY <1>2
    <2> HIDE DEF gap
    <2>2. ZCritical * hits \in Nat
      BY <1>2
    <2>3. ZCritical * hits * gap \in Nat
      BY <2>1, <2>2
    <2>4. ZCritical * hits * gap * bn \in Nat
      BY <2>3
    <2>5. ZCritical * hits * gap * bn * cn \in Nat
      BY <2>4
    <2>6. QED BY <2>5 DEF gap
  <1>5. ~(100 * skew * skew * all > ZCritical * hits * (all - hits) * bn * cn)
    BY <1>3, <1>4
  <1>6. QED BY <1>5 DEF TwoProportionZTest, skew, hits, all

LEMMA EmbeddingsSeeNothing ==
    ASSUME NEW S, NEW f, NEW g, NEW p, NEW q, Alike(S, f, g, p, q), NEW found
    PROVE  ~EmbeddingDrift(f, g, found)
  <1>1. DOMAIN f = S
    BY DEF Alike
  <1>2. \A v \in S : f[v] * Size(g) = g[v] * Size(f)
    BY SizesAreAlike
  <1>3. QED BY <1>1, <1>2 DEF EmbeddingDrift

-----------------------------------------------------------------------------
(***************************************************************************)
(* The spread of a sample is no negative number.                           *)
(***************************************************************************)

(* A higher rank has a value no lower.                                     *)
LEMMA RanksAreOrdered ==
    ASSUME NEW s \in [Values -> Nat], NEW j \in Nat, NEW k \in Nat, j <= k, k <= Size(s)
    PROVE  Ordered(s, j) \in Nat /\ Ordered(s, k) \in Nat /\ Ordered(s, j) <= Ordered(s, k)
  <1> DEFINE At(i) == {x \in Values : AtMost(s, x) >= i}
  <1>1. Values \in SUBSET Nat /\ IsFiniteSet(Values) /\ Values # {}
    BY DetectorsAssumption
  <1>2. \A x : AtMost(s, x) \in Nat
    <2> TAKE x
    <2>1. {v \in Values : v <= x} \in SUBSET Values
      OBVIOUS
    <2>2. SumFunctionOnSet(s, {v \in Values : v <= x}) \in Nat
      BY <1>1, <2>1, SizeIsSome
    <2>3. QED BY <2>2 DEF AtMost
  <1>3. At(k) # {}
    <2> DEFINE last == Max(Values)
    <2>1. Values \in SUBSET Int
      BY <1>1
    <2>2. last \in Values /\ \A y \in Values : last >= y
      BY <1>1, <2>1, MaxOfNumbers, Zenon
    <2>3. {v \in Values : v <= last} = Values
      BY <1>1, <2>2
    <2>4. AtMost(s, last) = Size(s)
      <3>1. Size(s) = SumFunctionOnSet(s, Values)
        BY <1>1, SizeIsSome, Zenon
      <3>2. QED BY <2>3, <3>1 DEF AtMost
    <2>5. Size(s) \in Nat
      BY <1>1, SizeIsSome
    <2> HIDE DEF last
    <2>6. AtMost(s, last) >= k
      BY <2>4, <2>5
    <2>7. QED BY <2>2, <2>6
  <1>4. At(k) \subseteq At(j) /\ At(j) \in SUBSET Nat
    <2>1. ASSUME NEW x \in Values, AtMost(s, x) >= k PROVE AtMost(s, x) >= j
      <3>1. AtMost(s, x) \in Nat
        BY <1>2
      <3>2. QED BY <2>1, <3>1
    <2>2. QED BY <1>1, <2>1
  <1>5. Ordered(s, j) = Min(At(j)) /\ Ordered(s, k) = Min(At(k))
    BY DEF Ordered
  <1> HIDE DEF At
  <1>6. At(j) # {} /\ At(k) \in SUBSET Nat
    BY <1>3, <1>4
  <1>7. Min(At(j)) \in At(j) /\ \A y \in At(j) : Min(At(j)) <= y
    BY <1>4, <1>6, MinOfNumbers, Zenon
  <1>8. Min(At(k)) \in At(k)
    BY <1>3, <1>6, MinOfNumbers, Zenon
  <1>9. QED BY <1>4, <1>5, <1>6, <1>7, <1>8

LEMMA MinOfTwo ==
    ASSUME NEW a \in Nat, NEW b \in Nat
    PROVE  Min({a, b}) = IF a <= b THEN a ELSE b
  <1>1. {a, b} \in SUBSET Nat /\ {a, b} # {}
    OBVIOUS
  <1>2. Min({a, b}) \in {a, b} /\ \A y \in {a, b} : Min({a, b}) <= y
    BY <1>1, MinOfNumbers, Zenon
  <1>3. QED BY <1>2

(* The lower neighbour, the upper one and how far the quartile lies.       *)
LEMMA QuartilesAreOrdered ==
    ASSUME NEW s \in [Values -> Nat], Size(s) \in Nat, Size(s) >= 2
    PROVE  Quartile(s, 3) - Quartile(s, 1) \in Nat
  <1> DEFINE n == Size(s)
             Low(place) == Ordered(s, place \div 4 + 1)
             High(place) == Ordered(s, Min({place \div 4 + 2, n}))
             Q(place) == 4 * Low(place) + (place % 4) * (High(place) - Low(place))
  <1>1. Quartile(s, 1) = Q((n - 1) * 1) /\ Quartile(s, 3) = Q((n - 1) * 3)
    BY DEF Quartile
  <1> DEFINE one == (n - 1) * 1
             three == (n - 1) * 3
             i == one \div 4
             j == three \div 4
             r == one % 4
             t == three % 4
  <1>2. Quartile(s, 1) = Q(one) /\ Quartile(s, 3) = Q(three)
    BY <1>1
  <1>3. one \in Nat /\ three \in Nat /\ one <= three /\ three + 1 <= 3 * n - 2
    OBVIOUS
  <1>4. /\ i \in Nat /\ j \in Nat /\ r \in 0..3 /\ t \in 0..3
        /\ one = 4 * i + r /\ three = 4 * j + t
    BY <1>3
  <1>5. i <= j /\ i + 1 <= n /\ j + 1 <= n
    <2> HIDE DEF i, j, r, t
    <2>1. QED BY <1>4
  <1>6. Min({i + 2, n}) = (IF i + 2 <= n THEN i + 2 ELSE n) /\ Min({j + 2, n}) = IF j + 2 <= n THEN j + 2 ELSE n
    <2>1. n \in Nat
      OBVIOUS
    <2> HIDE DEF i, j, n
    <2>2. i + 2 \in Nat /\ j + 2 \in Nat
      BY <1>4
    <2>3. QED BY <2>1, <2>2, MinOfTwo
  <1> DEFINE u == Min({i + 2, n})
             w == Min({j + 2, n})
  <1>7. /\ u \in Nat /\ w \in Nat /\ i + 1 <= u /\ u <= n /\ j + 1 <= w /\ w <= n
        /\ i < j => u <= j + 1
    <2> HIDE DEF i, j, n, one, three, r, t
    <2>1. n \in Nat
      BY DEF n
    <2>2. QED BY <1>4, <1>5, <1>6, <2>1
  <1>8. Ordered(s, i + 1) \in Nat /\ Ordered(s, u) \in Nat /\ Ordered(s, i + 1) <= Ordered(s, u)
    <2>1. i + 1 \in Nat
      BY <1>4
    <2> HIDE DEF i, u
    <2>2. QED BY <1>7, <2>1, RanksAreOrdered
  <1>9. Ordered(s, j + 1) \in Nat /\ Ordered(s, w) \in Nat /\ Ordered(s, j + 1) <= Ordered(s, w)
    <2>1. j + 1 \in Nat
      BY <1>4
    <2> HIDE DEF j, w
    <2>2. QED BY <1>7, <2>1, RanksAreOrdered
  <1>10. i < j => Ordered(s, u) <= Ordered(s, j + 1)
    <2>1. j + 1 \in Nat
      BY <1>4
    <2> HIDE DEF i, j, u, w
    <2>2. QED BY <1>5, <1>7, <2>1, RanksAreOrdered
  <1> DEFINE a == Ordered(s, i + 1)
             b == Ordered(s, u)
             c == Ordered(s, j + 1)
             d == Ordered(s, w)
  <1>11. i = j => a = c /\ b = d
    OBVIOUS
  <1>12. Quartile(s, 1) = 4 * a + r * (b - a) /\ Quartile(s, 3) = 4 * c + t * (d - c)
    BY <1>2
  <1>13. a \in Nat /\ b \in Nat /\ c \in Nat /\ d \in Nat /\ a <= b /\ c <= d /\ (i < j => b <= c)
    BY <1>8, <1>9, <1>10
  <1>14. \/ i < j
         \/ i = j /\ r <= t
    <2> HIDE DEF i, j, r, t
    <2>1. QED BY <1>3, <1>4, <1>5
  <1> HIDE DEF a, b, c, d, r, t, i, j, one, three, Q
  <1>15. (4 * c + t * (d - c)) - (4 * a + r * (b - a)) \in Nat
    <2>1. r = 0 \/ r = 1 \/ r = 2 \/ r = 3
      BY <1>4
    <2>2. t = 0 \/ t = 1 \/ t = 2 \/ t = 3
      BY <1>4
    <2>3. r * (b - a) = IF r = 0 THEN 0 ELSE IF r = 1 THEN b - a ELSE IF r = 2 THEN 2 * (b - a) ELSE 3 * (b - a)
      BY <1>13, <2>1
    <2>4. t * (d - c) = IF t = 0 THEN 0 ELSE IF t = 1 THEN d - c ELSE IF t = 2 THEN 2 * (d - c) ELSE 3 * (d - c)
      BY <1>13, <2>2
    <2> DEFINE x == r * (b - a)
               y == t * (d - c)
    <2>5. x \in Int /\ y \in Int
      BY <1>13, <2>1, <2>2, <2>3, <2>4
    <2> HIDE DEF x, y
    <2>6. (4 * c + y) - (4 * a + x) >= 0
      BY <1>11, <1>13, <1>14, <2>1, <2>2, <2>3, <2>4 DEF x, y
    <2>7. (4 * c + y) - (4 * a + x) \in Nat
      BY <1>13, <2>5, <2>6
    <2>8. QED BY <2>7 DEF x, y
  <1>16. QED BY <1>12, <1>15

LEMMA WassersteinSeesNothing ==
    ASSUME NEW f, NEW g, NEW p, NEW q, Alike(Values, f, g, p, q)
    PROVE  ~WassersteinDistance(f, g)
  <1> DEFINE gaps == [x \in Values |-> Gap(f, g, x)]
             spread == Quartile(f, 3) - Quartile(f, 1)
  <1>1. SumFunction(gaps) = 0
    <2>1. gaps = [x \in Values |-> 0]
      BY NoGap
    <2>2. IsFiniteSet(Values)
      BY DetectorsAssumption
    <2>3. Size([x \in Values |-> 0]) = 0
      BY <2>2, SizeOfEmpty, Zenon
    <2>4. QED BY <2>1, <2>3 DEF Size
  <1>2. ASSUME Enough(Size(f), Size(g)) PROVE ~(20 * 0 > spread * Size(f) * Size(g))
    <2>1. f \in [Values -> Nat] /\ Size(f) \in Nat /\ Size(g) \in Nat
      BY SizesAreAlike DEF Alike
    <2>2. Size(f) >= 2
      BY <1>2, <2>1, DetectorsAssumption DEF Enough
    <2>3. spread \in Nat
      BY <2>1, <2>2, QuartilesAreOrdered
    <2> DEFINE n == Size(f)
               m == Size(g)
    <2> HIDE DEF spread, n, m
    <2>4. n \in Nat /\ m \in Nat
      BY <2>1 DEF n, m
    <2>5. spread * n * m \in Nat
      <3>1. spread * n \in Nat
        BY <2>3, <2>4
      <3>2. QED BY <2>4, <3>1
    <2>6. ~(20 * 0 > spread * n * m)
      BY <2>5
    <2>7. QED BY <2>6 DEF n, m
  <1>3. QED BY <1>1, <1>2 DEF WassersteinDistance

-----------------------------------------------------------------------------
(***************************************************************************)
(* What is extracted from batches that are in proportion is so too.        *)
(***************************************************************************)

(* Events of certain kinds, and sums of what they have.                    *)
LEMMA CountedAlike ==
    ASSUME NEW S, NEW f, NEW g, NEW p, NEW q, Alike(S, f, g, p, q), NEW T \in SUBSET S
    PROVE  /\ Counted(f, T) \in Nat /\ Counted(g, T) \in Nat /\ p * Counted(f, T) = q * Counted(g, T)
           /\ Counted(f, T) <= Size(f) /\ Counted(g, T) <= Size(g)
  <1>1. IsFiniteSet(S) /\ f \in [S -> Nat] /\ g \in [S -> Nat]
    BY DEF Alike
  <1>2. SumFunctionOnSet(f, T) <= Size(f) /\ SumFunctionOnSet(g, T) <= Size(g)
    BY <1>1, SizeIsSome, Zenon
  <1>3. /\ SumFunctionOnSet(f, T) \in Nat /\ SumFunctionOnSet(g, T) \in Nat
        /\ p * SumFunctionOnSet(f, T) = q * SumFunctionOnSet(g, T)
    BY SumsAreAlike
  <1>4. QED BY <1>2, <1>3, Zenon DEF Counted

LEMMA TotalAlike ==
    ASSUME NEW S, NEW f, NEW g, NEW p, NEW q, Alike(S, f, g, p, q), NEW amount \in [S -> Nat]
    PROVE  p * Total(f, amount) = q * Total(g, amount)
  <1> DEFINE F == [e \in S |-> f[e] * amount[e]]
             G == [e \in S |-> g[e] * amount[e]]
  <1>1. IsFiniteSet(S) /\ f \in [S -> Nat] /\ g \in [S -> Nat] /\ p \in Nat \ {0} /\ q \in Nat
    BY DEF Alike
  <1>2. ASSUME NEW e \in S PROVE p * F[e] = q * G[e]
    <2> DEFINE a == f[e]
               b == g[e]
               c == amount[e]
    <2>1. a \in Nat /\ b \in Nat /\ c \in Nat /\ p * a = q * b /\ F[e] = a * c /\ G[e] = b * c
      BY <1>1 DEF Alike
    <2> HIDE DEF a, b, c, F, G
    <2>2. p * (a * c) = (p * a) * c
      BY <1>1, <2>1
    <2>3. q * (b * c) = (q * b) * c
      BY <1>1, <2>1
    <2>4. QED BY <2>1, <2>2, <2>3
  <1>3. F \in [S -> Nat] /\ G \in [S -> Nat]
    BY <1>1, TotalsAreNumbers
  <1>4. Total(f, amount) = SumFunctionOnSet(F, S) /\ Total(g, amount) = SumFunctionOnSet(G, S)
    BY <1>1, TotalsAreNumbers
  <1> HIDE DEF F, G
  <1>5. Alike(S, F, G, p, q)
    BY <1>1, <1>2, <1>3 DEF Alike
  <1>6. S \in SUBSET S
    OBVIOUS
  <1>7. p * SumFunctionOnSet(F, S) = q * SumFunctionOnSet(G, S)
    BY <1>5, <1>6, SumsAreAlike
  <1>8. QED BY <1>4, <1>7

(* What is valid of it is never more than what is asked of it.             *)
LEMMA TotalsAreOrdered ==
    ASSUME NEW S, IsFiniteSet(S), NEW b \in [S -> Nat], NEW few \in [S -> Nat], NEW many \in [S -> Nat],
           \A e \in S : few[e] <= many[e]
    PROVE  Total(b, few) \in Nat /\ Total(b, many) \in Nat /\ Total(b, few) <= Total(b, many)
  <1> DEFINE F == [e \in S |-> b[e] * few[e]]
             G == [e \in S |-> b[e] * many[e]]
  <1>1. F \in [S -> Nat] /\ Total(b, few) = SumFunctionOnSet(F, S) /\ Total(b, few) \in Nat
    BY TotalsAreNumbers
  <1>2. G \in [S -> Nat] /\ Total(b, many) = SumFunctionOnSet(G, S) /\ Total(b, many) \in Nat
    BY TotalsAreNumbers
  <1>3. ASSUME NEW e \in S PROVE F[e] <= G[e]
    <2> DEFINE x == b[e]
               y == few[e]
               z == many[e]
    <2>1. x \in Nat /\ y \in Nat /\ z \in Nat /\ y <= z /\ F[e] = x * y /\ G[e] = x * z
      OBVIOUS
    <2> HIDE DEF x, y, z, F, G
    <2>2. x * (z - y) \in Nat
      <3> DEFINE d == z - y
      <3>1. d \in Nat
        BY <2>1
      <3> HIDE DEF d
      <3>2. x * d \in Nat
        BY <2>1, <3>1
      <3>3. QED BY <3>2 DEF d
    <2>3. x * (z - y) = x * z - x * y /\ x * z \in Nat /\ x * y \in Nat
      BY <2>1
    <2> DEFINE u == x * y
               v == x * z
    <2>4. u \in Nat /\ v \in Nat /\ v - u \in Nat
      BY <2>2, <2>3
    <2> HIDE DEF u, v
    <2>5. u <= v
      BY <2>4
    <2>6. QED BY <2>1, <2>5 DEF u, v
  <1>4. \A e \in S : F[e] \in Int /\ G[e] \in Int /\ F[e] <= G[e]
    BY <1>1, <1>2, <1>3
  <1> HIDE DEF F, G
  <1>5. SumFunctionOnSet(F, S) <= SumFunctionOnSet(G, S)
    BY <1>4, SumMonotone
  <1>6. QED BY <1>1, <1>2, <1>5

(* A sample that sorts the events of a batch by what is observed of them.  *)
LEMMA SamplesAreAlike ==
    ASSUME NEW S, NEW f, NEW g, NEW p, NEW q, Alike(S, f, g, p, q),
           NEW V, IsFiniteSet(V), NEW kinds, \A v \in V : kinds[v] \in SUBSET S
    PROVE  Alike(V, [v \in V |-> Counted(f, kinds[v])], [v \in V |-> Counted(g, kinds[v])], p, q)
  <1>1. \A v \in V : /\ Counted(f, kinds[v]) \in Nat /\ Counted(g, kinds[v]) \in Nat
                     /\ p * Counted(f, kinds[v]) = q * Counted(g, kinds[v])
    BY CountedAlike
  <1>2. p \in Nat \ {0} /\ q \in Nat
    BY DEF Alike
  <1>3. QED BY <1>1, <1>2 DEF Alike

(* What the adapter reads of an event.                                     *)
RagKinds(S) ==
    /\ IsFiniteSet(S)
    /\ \A e \in S : /\ e.scores \in Seq(Nat)
                    /\ e.citations \in Nat /\ e.requested \in Nat /\ e.citations <= e.requested

(* The samples of the three distributions.                                 *)
LEMMA ScoresAreAlike ==
    ASSUME NEW S, RagKinds(S), NEW b, NEW c, NEW p, NEW q, Alike(S, b, c, p, q)
    PROVE  Alike(Values, Extract(b).scores, Extract(c).scores, p, q)
  <1> DEFINE times == [v \in Values |-> [e \in S |-> Times(e.scores, v)]]
  <1>1. \A v \in Values : times[v] \in [S -> Nat]
    BY TimesIsNumber DEF RagKinds
  <1>2. DOMAIN b = S /\ DOMAIN c = S /\ b \in [S -> Nat] /\ c \in [S -> Nat] /\ IsFiniteSet(S)
        /\ p \in Nat \ {0} /\ q \in Nat
    BY DEF Alike
  <1>3. /\ Extract(b).scores = [v \in Values |-> Total(b, times[v])]
        /\ Extract(c).scores = [v \in Values |-> Total(c, times[v])]
    BY <1>2 DEF Extract
  <1> HIDE DEF times
  <1>4. \A v \in Values : /\ Total(b, times[v]) \in Nat /\ Total(c, times[v]) \in Nat
                          /\ p * Total(b, times[v]) = q * Total(c, times[v])
    <2> TAKE v \in Values
    <2> DEFINE amount == times[v]
    <2>1. amount \in [S -> Nat]
      BY <1>1
    <2> HIDE DEF amount
    <2>2. Total(b, amount) \in Nat /\ Total(c, amount) \in Nat
      BY <1>2, <2>1, TotalsAreNumbers
    <2>3. p * Total(b, amount) = q * Total(c, amount)
      BY <2>1, TotalAlike
    <2>4. QED BY <2>2, <2>3 DEF amount
  <1>5. IsFiniteSet(Values)
    BY DetectorsAssumption
  <1>6. QED BY <1>2, <1>3, <1>4, <1>5 DEF Alike

LEMMA LatenciesAreAlike ==
    ASSUME NEW S, RagKinds(S), NEW b, NEW c, NEW p, NEW q, Alike(S, b, c, p, q)
    PROVE  Alike(Values, Extract(b).latency, Extract(c).latency, p, q)
  <1> DEFINE kinds == [v \in Values |-> {e \in S : e.generation = v}]
  <1>1. \A v \in Values : kinds[v] \in SUBSET S
    OBVIOUS
  <1>2. DOMAIN b = S /\ DOMAIN c = S
    BY DEF Alike
  <1>3. /\ Extract(b).latency = [v \in Values |-> Counted(b, kinds[v])]
        /\ Extract(c).latency = [v \in Values |-> Counted(c, kinds[v])]
    BY <1>2 DEF Extract
  <1> HIDE DEF kinds
  <1>4. IsFiniteSet(Values)
    BY DetectorsAssumption
  <1>5. QED BY <1>1, <1>3, <1>4, SamplesAreAlike

LEMMA VectorsAreAlike ==
    ASSUME NEW S, RagKinds(S), NEW b, NEW c, NEW p, NEW q, Alike(S, b, c, p, q)
    PROVE  \E V : Alike(V, Extract(b).vectors, Extract(c).vectors, p, q)
  <1> DEFINE V == {e.embedding : e \in S} \ {NoEmbedding}
             kinds == [v \in V |-> {e \in S : e.embedding = v}]
  <1>1. \A v \in V : kinds[v] \in SUBSET S
    OBVIOUS
  <1>2. DOMAIN b = S /\ DOMAIN c = S /\ IsFiniteSet(S)
    BY DEF Alike
  <1>3. /\ Extract(b).vectors = [v \in V |-> Counted(b, kinds[v])]
        /\ Extract(c).vectors = [v \in V |-> Counted(c, kinds[v])]
    BY <1>2 DEF Extract
  <1>4. IsFiniteSet(V)
    <2> DEFINE f == [e \in S |-> e.embedding]
               all == {e.embedding : e \in S}
    <2>1. f \in Surjection(S, all)
      BY DEF Surjection
    <2> HIDE DEF f, all
    <2>2. IsFiniteSet(all)
      BY <1>2, <2>1, FS_Surjection
    <2> USE DEF all
    <2>3. V \subseteq {e.embedding : e \in S}
      OBVIOUS
    <2>4. QED BY <2>2, <2>3, FS_Subset, Zenon
  <1> HIDE DEF kinds, V
  <1>5. QED BY <1>1, <1>3, <1>4, SamplesAreAlike

(* The tests on what is extracted, and the adapter as a whole.             *)
LEMMA RefusalsSeeNothing ==
    ASSUME NEW S, RagKinds(S), NEW b, NEW c, Alike(S, b, c, Size(c), Size(b))
    PROVE  ~TwoProportionZTest(Extract(b).refused, Extract(b).n, Extract(c).refused, Extract(c).n)
  <1> DEFINE refusals == {e \in S : ~e.grounded}
  <1>1. DOMAIN b = S /\ DOMAIN c = S
    BY DEF Alike
  <1>2. /\ Extract(b).refused = Counted(b, refusals) /\ Extract(b).n = Size(b)
        /\ Extract(c).refused = Counted(c, refusals) /\ Extract(c).n = Size(c)
    BY <1>1 DEF Extract
  <1>3. refusals \in SUBSET S
    OBVIOUS
  <1> HIDE DEF refusals
  <1> DEFINE x == Counted(b, refusals)
             y == Counted(c, refusals)
  <1>4. x \in Nat /\ y \in Nat /\ Size(c) * x = Size(b) * y /\ x <= Size(b) /\ y <= Size(c)
    BY <1>3, CountedAlike
  <1>5. Size(b) \in Nat /\ Size(c) \in Nat
    BY SizesAreAlike
  <1> HIDE DEF x, y
  <1>6. x * Size(c) = y * Size(b)
    BY <1>4, <1>5
  <1>7. ~TwoProportionZTest(x, Size(b), y, Size(c))
    BY <1>4, <1>5, <1>6, ProportionsSeeNothing
  <1>8. QED BY <1>2, <1>7 DEF x, y

LEMMA CitationsSeeNothing ==
    ASSUME NEW S, RagKinds(S), NEW b, NEW c, NEW p, NEW q, Alike(S, b, c, p, q), q # 0
    PROVE  ~TwoProportionZTest(Extract(b).valid, AtLeastOne(Extract(b).asked),
                               Extract(c).valid, AtLeastOne(Extract(c).asked))
  <1> DEFINE few == [e \in S |-> e.citations]
             many == [e \in S |-> e.requested]
  <1>1. DOMAIN b = S /\ DOMAIN c = S /\ IsFiniteSet(S) /\ b \in [S -> Nat] /\ c \in [S -> Nat]
        /\ p \in Nat \ {0} /\ q \in Nat
    BY DEF Alike
  <1>2. /\ Extract(b).valid = Total(b, few) /\ Extract(b).asked = Total(b, many)
        /\ Extract(c).valid = Total(c, few) /\ Extract(c).asked = Total(c, many)
    BY <1>1 DEF Extract
  <1>3. few \in [S -> Nat] /\ many \in [S -> Nat] /\ \A e \in S : few[e] <= many[e]
    BY DEF RagKinds
  <1> HIDE DEF few, many
  <1> DEFINE x == Total(b, few)
             m == Total(b, many)
             y == Total(c, few)
             n == Total(c, many)
  <1>4. x \in Nat /\ m \in Nat /\ x <= m
    BY <1>1, <1>3, TotalsAreOrdered
  <1>5. y \in Nat /\ n \in Nat /\ y <= n
    BY <1>1, <1>3, TotalsAreOrdered
  <1>6. p * x = q * y /\ p * m = q * n
    BY <1>3, TotalAlike
  <1> HIDE DEF x, m, y, n
  <1>7. x * n = y * m
    BY <1>1, <1>4, <1>5, <1>6, Crosswise
  <1>8. m = 0 <=> n = 0
    BY <1>1, <1>4, <1>5, <1>6
  <1>9. CASE m = 0
    <2>1. x = 0 /\ y = 0 /\ n = 0 /\ AtLeastOne(m) = 1 /\ AtLeastOne(n) = 1
      BY <1>4, <1>5, <1>8, <1>9 DEF AtLeastOne
    <2>2. ~TwoProportionZTest(0, 1, 0, 1)
      BY ProportionsSeeNothing
    <2>3. QED BY <1>2, <2>1, <2>2 DEF x, y, m, n
  <1>10. CASE m # 0
    <2>1. AtLeastOne(m) = m /\ AtLeastOne(n) = n
      BY <1>8, <1>10 DEF AtLeastOne
    <2>2. ~TwoProportionZTest(x, m, y, n)
      BY <1>4, <1>5, <1>7, ProportionsSeeNothing
    <2>3. QED BY <1>2, <2>1, <2>2 DEF x, y, m, n
  <1>11. QED BY <1>9, <1>10

LEMMA RagSeesNothing ==
    ASSUME NEW S, RagKinds(S), NEW b, NEW c, Alike(S, b, c, Size(c), Size(b)), Size(b) # 0, NEW found
    PROVE  RagCheck(b, c, found).signals = {}
  <1> DEFINE B == Extract(b)
             C == Extract(c)
  <1>0. RagCritical \in Nat
    BY AdaptersAssumption
  <1>1. ~(KsTest(B.scores, C.scores, RagCritical) \/ WassersteinDistance(B.scores, C.scores))
    BY <1>0, ScoresAreAlike, KsTestSeesNothing, WassersteinSeesNothing
  <1>2. ~KsTest(B.latency, C.latency, RagCritical)
    BY <1>0, LatenciesAreAlike, KsTestSeesNothing
  <1>3. ~TwoProportionZTest(B.refused, B.n, C.refused, C.n)
    BY RefusalsSeeNothing
  <1>4. ~TwoProportionZTest(B.valid, AtLeastOne(B.asked), C.valid, AtLeastOne(C.asked))
    BY CitationsSeeNothing
  <1>5. ~EmbeddingDrift(B.vectors, C.vectors, found)
    BY VectorsAreAlike, EmbeddingsSeeNothing
  <1>6. QED BY <1>1, <1>2, <1>3, <1>4, <1>5 DEF RagCheck, Verdict, RagSignals

(* A signal needs enough events in both batches.                           *)
LEMMA RagAsksForEnough ==
    ASSUME NEW b, NEW c, NEW found, RagCheck(b, c, found).signals # {}
    PROVE  RagEnough(b, c)
  <1>1. PICK signal : signal \in RagCheck(b, c, found).signals
    BY Zenon
  <1>2. QED BY <1>1, Zenon DEF RagCheck, Verdict

LEMMA VerdictsAgree ==
    /\ \A b, c, found : RagCheck(b, c, found).drifted <=> RagCheck(b, c, found).signals # {}
    /\ \A b, c : LiveCheck(b, c).drifted <=> LiveCheck(b, c).signals # {}
  <1>1. \A signals : Verdict(signals).drifted <=> Verdict(signals).signals # {}
    BY DEF Verdict
  <1>2. QED BY <1>1, Zenon DEF RagCheck, LiveCheck

(* The telemetry adapter.                                                  *)
LEMMA NothingIsAboveItself ==
    ASSUME NEW a \in Nat, NEW n \in Nat, NEW tolerance \in Nat
    PROVE  ~Above(a, n, a, n, tolerance)
  <1> DEFINE m == AtLeastOne(n)
  <1>1. m \in Nat
    BY DEF AtLeastOne
  <1> HIDE DEF m
  <1>2. 100 * (a * m - a * m) = 0
    <2>1. a * m \in Nat
      BY <1>1
    <2>2. QED BY <2>1
  <1>3. tolerance * m * m \in Nat
    <2>1. tolerance * m \in Nat
      BY <1>1
    <2>2. QED BY <1>1, <2>1
  <1>4. ~(100 * (a * m - a * m) > tolerance * m * m)
    BY <1>2, <1>3
  <1>5. QED BY <1>4 DEF Above, m

(* The nearest rank is a value of the sample.                              *)
LEMMA P95IsNumber == ASSUME NEW s \in [Values -> Nat] PROVE P95(s) \in Nat
  <1> DEFINE n == Size(s)
             rank == Round(95 * n + 50)
  <1>1. n \in Nat
    BY SizeIsSome, DetectorsAssumption
  <1> HIDE DEF n
  <1>2. rank \in Nat
    <2>1. 95 * n + 50 \in Nat
      BY <1>1
    <2> DEFINE h == 95 * n + 50
    <2>2. h \div 100 \in Nat
      BY <2>1
    <2> HIDE DEF h
    <2>3. Round(h) \in Nat
      BY <2>2 DEF Round
    <2>4. QED BY <2>3 DEF h
  <1> HIDE DEF rank
  <1>3. CASE n = 0
    BY <1>3 DEF P95, n
  <1>4. CASE n # 0
    <2> DEFINE low == Min({n, rank})
               place == Max({1, low})
    <2>1. low \in Nat /\ low <= n
      BY <1>1, <1>2, MinOfTwo
    <2> HIDE DEF low
    <2>2. place \in {1, low}
      <3>1. {1, low} \in SUBSET Int /\ {1, low} # {}
        BY <2>1
      <3>2. IsFiniteSet({1, low})
        <4>1. IsFiniteSet({1})
          BY FS_Singleton, Zenon
        <4>2. IsFiniteSet({1} \cup {low})
          BY <4>1, FS_AddElement, Zenon
        <4>3. {1} \cup {low} = {1, low}
          OBVIOUS
        <4>4. QED BY <4>2, <4>3
      <3>3. QED BY <3>1, <3>2, MaxOfNumbers, Zenon
    <2>3. P95(s) = Ordered(s, place)
      BY <1>4 DEF P95, n, rank, low
    <2> HIDE DEF place
    <2>4. place \in Nat /\ place <= place /\ place <= Size(s)
      BY <1>1, <1>4, <2>1, <2>2 DEF n
    <2>5. QED BY <2>3, <2>4, RanksAreOrdered
  <1>5. QED BY <1>3, <1>4

(* A batch is not worse than itself.                                       *)
LEMMA LiveSeesNothing ==
    ASSUME NEW S, IsFiniteSet(S), NEW b \in [S -> Nat]
    PROVE  LiveCheck(b, b).signals = {}
  <1> DEFINE M == Metrics(b)
             sample == [v \in Values |-> Counted(b, {e \in S : e.latency = v})]
  <1>1. DOMAIN b = S
    OBVIOUS
  <1>2. /\ M.n = Size(b)
        /\ M.refused = Counted(b, {e \in S : ~e.grounded})
        /\ M.cited = Counted(b, {e \in S : e.citations > 0})
        /\ M.latency = P95(sample)
    BY <1>1 DEF Metrics
  <1>3. \A T \in SUBSET S : Counted(b, T) \in Nat
    BY SizeIsSome DEF Counted
  <1>4. sample \in [Values -> Nat]
    BY <1>3
  <1>5. M.latency \in Nat
    <2> HIDE DEF sample
    <2>1. QED BY <1>2, <1>4, P95IsNumber
  <1>6. M.n \in Nat
    BY <1>2, SizeIsSome
  <1>7. M.refused \in Nat
    <2>1. {e \in S : ~e.grounded} \in SUBSET S
      OBVIOUS
    <2>2. QED BY <1>2, <1>3, <2>1
  <1>8. M.cited \in Nat
    <2>1. {e \in S : e.citations > 0} \in SUBSET S
      OBVIOUS
    <2>2. QED BY <1>2, <1>3, <2>1
  <1> HIDE DEF M
  <1>9. /\ ~Above(M.refused, M.n, M.refused, M.n, RefusalTolerance)
        /\ ~Above(M.cited, M.n, M.cited, M.n, CitationTolerance)
    BY <1>6, <1>7, <1>8, NothingIsAboveItself, AdaptersAssumption
  <1>10. ~(M.latency > 0 /\ 10 * M.latency > LatencyMultiplier * M.latency)
    <2> DEFINE l == M.latency
               k == LatencyMultiplier - 10
    <2>1. l \in Nat /\ LatencyMultiplier \in Nat /\ k \in Nat
      BY <1>5, AdaptersAssumption
    <2>2. LatencyMultiplier * l = 10 * l + k * l
      BY <2>1
    <2> HIDE DEF l, k
    <2>3. k * l \in Nat
      BY <2>1
    <2>4. ~(10 * l > 10 * l + k * l)
      BY <2>1, <2>3
    <2>5. QED BY <2>2, <2>4 DEF l
  <1>11. QED BY <1>9, <1>10, Zenon DEF LiveCheck, Verdict, LiveSignals, M

(* No feature has drifted, so the share of those that have is too small.   *)
LEMMA ClassifierSeesNothing ==
    ASSUME NEW S, NEW b, NEW c, NEW p, NEW q, Alike(S, b, c, p, q), NEW present \in SUBSET Features
    PROVE  LET verdict == ClassifierCheck(b, c, present)
           IN  verdict.signals = {} /\ ~verdict.drifted
  <1> DEFINE Sample(s, f) == [v \in Values |-> Counted(s, {e \in DOMAIN s : e[f] = v})]
             tests == Cardinality(present)
             verdict == ClassifierCheck(b, c, present)
             critical == KsCritical[IF Bonferroni THEN tests ELSE 1]
  <1>1. DOMAIN b = S /\ DOMAIN c = S
    BY DEF Alike
  <1>2. IsFiniteSet(Values) /\ IsFiniteSet(present) /\ tests \in Nat /\ (present # {} => tests # 0)
    BY DetectorsAssumption, DetectionAssumption, FS_Subset, FS_CardinalityType, FS_EmptySet
  <1>3. ASSUME NEW f \in present PROVE ~KsSignificant(Sample(b, f), Sample(c, f), critical)
    <2>0. critical \in Nat
      <3>1. tests <= Cardinality(Features) /\ Cardinality(Features) \in Nat
        BY DetectionAssumption, FS_Subset, FS_CardinalityType
      <3> HIDE DEF tests
      <3>2. tests \in 1..Cardinality(Features)
        BY <1>2, <3>1
      <3>3. (IF Bonferroni THEN tests ELSE 1) \in DOMAIN KsCritical
        BY <3>2, DetectionAssumption
      <3>4. QED BY <3>3, DetectorsAssumption
    <2> DEFINE kinds == [v \in Values |-> {e \in S : e[f] = v}]
    <2>1. \A v \in Values : kinds[v] \in SUBSET S
      OBVIOUS
    <2>2. /\ Sample(b, f) = [v \in Values |-> Counted(b, kinds[v])]
          /\ Sample(c, f) = [v \in Values |-> Counted(c, kinds[v])]
      BY <1>1
    <2> HIDE DEF kinds, Sample, tests, critical
    <2>3. Alike(Values, Sample(b, f), Sample(c, f), p, q)
      BY <1>2, <2>1, <2>2, SamplesAreAlike
    <2>4. QED BY <2>0, <2>3, KsSeesNothing
  <1>4. verdict.signals = {f \in present : KsSignificant(Sample(b, f), Sample(c, f), critical)}
    BY DEF ClassifierCheck
  <1>5. verdict.drifted <=> present # {} /\ 100 * Cardinality(verdict.signals) >= FeatureFraction * tests
    BY DEF ClassifierCheck
  <1> HIDE DEF verdict, Sample, critical
  <1>6. verdict.signals = {}
    BY <1>3, <1>4, Zenon
  <1>7. Cardinality(verdict.signals) = 0
    BY <1>6, FS_EmptySet
  <1> HIDE DEF tests
  <1>8. ASSUME present # {} PROVE ~(100 * 0 >= FeatureFraction * tests)
    <2>1. FeatureFraction \in Nat /\ FeatureFraction >= 1 /\ tests >= 1
      BY <1>2, <1>8, AdaptersAssumption
    <2>2. FeatureFraction * tests >= 1
      <3>1. FeatureFraction * tests = tests + (FeatureFraction - 1) * tests
        BY <1>2, <2>1
      <3> DEFINE k == FeatureFraction - 1
      <3>2. k \in Nat
        BY <2>1
      <3> HIDE DEF k
      <3>3. k * tests \in Nat
        BY <1>2, <3>2
      <3>4. QED BY <1>2, <2>1, <3>1, <3>3 DEF k
    <2> DEFINE x == FeatureFraction * tests
    <2>3. x \in Nat /\ x >= 1
      BY <1>2, <2>1, <2>2
    <2> HIDE DEF x
    <2>4. ~(100 * 0 >= x)
      BY <2>3
    <2>5. QED BY <2>4 DEF x
  <1>9. QED BY <1>5, <1>6, <1>7, <1>8 DEF verdict

(* Answers that are all as similar as is asked are so on average.          *)
LEMMA LlmSeesBadAnswers ==
    ASSUME NEW S, IsFiniteSet(S), NEW b \in [S -> Nat],
           \A e \in S : e.golden \in BOOLEAN /\ e.similarity \in Int,
           LlmCheck(b).drifted \/ LlmCheck(b).signals # {}
    PROVE  \E e \in DOMAIN b : b[e] > 0 /\ e.golden /\ e.similarity < SimilarityThreshold
  <1> DEFINE golden == {e \in S : e.golden}
             amount == [e \in S |-> IF e.golden THEN e.similarity ELSE 0]
             F == [e \in S |-> IF e.golden THEN b[e] ELSE 0]
             G == [e \in S |-> b[e] * amount[e]]
             T == [e \in S |-> SimilarityThreshold * F[e]]
  <1> SUFFICES ASSUME \A e \in S : ~(b[e] > 0 /\ e.golden /\ e.similarity < SimilarityThreshold)
               PROVE  FALSE
    BY SMT
  <1>1. DOMAIN b = S /\ SimilarityThreshold \in Nat
    BY AdaptersAssumption
  <1>2. LlmCheck(b).signals = {}
    BY <1>1 DEF LlmCheck
  <1>3. LlmCheck(b).drifted <=> Counted(b, golden) > 0 /\ Total(b, amount) < SimilarityThreshold * Counted(b, golden)
    BY <1>1 DEF LlmCheck
  <1>4. \A e \in S : /\ F[e] \in Nat /\ amount[e] \in Int /\ G[e] \in Int /\ T[e] \in Int
                     /\ T[e] <= G[e] /\ SimilarityThreshold * F[e] = 1 * T[e]
    <2> TAKE e \in S
    <2> DEFINE n == b[e]
               s == e.similarity
               k == SimilarityThreshold
    <2>1. n \in Nat /\ s \in Int /\ k \in Nat /\ e.golden \in BOOLEAN
      BY <1>1
    <2>2. F[e] \in Nat /\ amount[e] \in Int
      BY <2>1
    <2>3. CASE ~e.golden
      <3>1. F[e] = 0 /\ amount[e] = 0 /\ G[e] = n * 0 /\ T[e] = k * 0
        BY <2>3
      <3> HIDE DEF F, G, T, amount, n, k
      <3>2. G[e] = 0 /\ T[e] = 0 /\ k * F[e] = 0
        BY <2>1, <3>1
      <3>3. QED BY <2>1, <3>1, <3>2 DEF k
    <2>4. CASE e.golden
      <3>1. F[e] = n /\ amount[e] = s /\ G[e] = n * s /\ T[e] = k * n
        BY <2>4
      <3>2. n = 0 \/ s >= k
        BY <2>1, <2>4
      <3> HIDE DEF F, G, T, amount, n, k, s
      <3>3. n * s \in Int /\ k * n \in Int
        BY <2>1
      <3>4. k * n <= n * s
        <4>1. CASE n = 0
          BY <2>1, <4>1
        <4>2. CASE s >= k
          <5> DEFINE d == s - k
          <5>1. d \in Nat
            BY <2>1, <4>2
          <5>2. n * s = n * d + k * n
            BY <2>1
          <5> HIDE DEF d
          <5>3. n * d \in Nat
            BY <2>1, <5>1
          <5> DEFINE u == n * d
                     v == k * n
          <5>4. u \in Nat /\ v \in Int /\ n * s = u + v
            BY <3>3, <5>2, <5>3
          <5> HIDE DEF u, v
          <5>5. v <= n * s
            BY <5>4
          <5>6. QED BY <5>5 DEF v
        <4>3. QED BY <3>2, <4>1, <4>2
      <3>5. F[e] \in Nat /\ amount[e] \in Int /\ G[e] \in Int /\ T[e] \in Int /\ T[e] <= G[e] /\ k * F[e] = 1 * T[e]
        BY <2>1, <3>1, <3>3, <3>4
      <3>6. QED BY <3>5 DEF k
    <2>5. QED BY <2>1, <2>3, <2>4
  <1>5. Total(b, amount) = SumFunctionOnSet(G, S)
    <2>1. DOMAIN G = S
      OBVIOUS
    <2>2. Total(b, amount) = SumFunction(G)
      BY <1>1 DEF Total
    <2> HIDE DEF G
    <2>3. QED BY <2>1, <2>2 DEF SumFunction
  <1>6. Counted(b, golden) = SumFunctionOnSet(F, S)
    <2>1. golden \in SUBSET S
      OBVIOUS
    <2>2. (\A e \in golden : b[e] \in Int /\ F[e] = b[e]) /\ (\A e \in S \ golden : F[e] = 0)
      OBVIOUS
    <2> HIDE DEF golden, F
    <2>3. SumFunctionOnSet(F, S) = SumFunctionOnSet(b, golden)
      BY <2>1, <2>2, SumExtended
    <2>4. QED BY <2>3 DEF Counted
  <1> HIDE DEF F, G, T, amount, golden
  <1>7. SumFunctionOnSet(T, S) <= SumFunctionOnSet(G, S)
    BY <1>4, SumMonotone
  <1>8. SimilarityThreshold * SumFunctionOnSet(F, S) = 1 * SumFunctionOnSet(T, S)
    <2>1. SimilarityThreshold \in Int /\ 1 \in Int
      BY <1>1
    <2>2. \A e \in S : F[e] \in Int /\ T[e] \in Int /\ SimilarityThreshold * F[e] = 1 * T[e]
      BY <1>4
    <2>3. QED BY <2>1, <2>2, SumProportional
  <1>9. SumFunctionOnSet(T, S) \in Int /\ SumFunctionOnSet(G, S) \in Int
    <2>1. (\A e \in S : G[e] \in Int) /\ \A e \in S : T[e] \in Int
      BY <1>4
    <2>2. ASSUME NEW f, \A e \in S : f[e] \in Int PROVE SumFunctionOnSet(f, S) \in Int
      <3>1. PICK iter \in [SUBSET S -> Int] : SumsTo(f, S, iter) /\ SumFunctionOnSet(f, S) = iter[S]
        BY <2>2, SumExists
      <3>2. S \in SUBSET S
        OBVIOUS
      <3>3. QED BY <3>1, <3>2
    <2>3. QED BY <2>1, <2>2
  <1>10. ~(SumFunctionOnSet(G, S) < SimilarityThreshold * SumFunctionOnSet(F, S))
    <2> DEFINE x == SumFunctionOnSet(G, S)
               y == SumFunctionOnSet(T, S)
    <2>1. x \in Int /\ y \in Int /\ y <= x /\ SimilarityThreshold * SumFunctionOnSet(F, S) = 1 * y
      BY <1>7, <1>8, <1>9
    <2> HIDE DEF x, y
    <2>2. ~(x < 1 * y)
      BY <2>1
    <2>3. QED BY <2>1, <2>2 DEF x
  <1>11. QED BY <1>2, <1>3, <1>5, <1>6, <1>10

-----------------------------------------------------------------------------
(***************************************************************************)
(* Drift.  Batches that are not unlike are in proportion.                  *)
(***************************************************************************)
LEMMA NotUnlikeIsAlike ==
    ASSUME NEW S, IsFiniteSet(S), NEW b \in [S -> Nat], NEW c \in [S -> Nat], Size(c) # 0, ~Unlike(b, c)
    PROVE  Alike(S, b, c, Size(c), Size(b))
  <1>1. Size(b) \in Nat /\ Size(c) \in Nat
    BY SizeIsSome
  <1>2. ASSUME NEW e \in S PROVE Size(c) * b[e] = Size(b) * c[e]
    <2>1. Rate(b, e) = b[e] /\ Rate(c, e) = c[e] /\ e \in DOMAIN b \cup DOMAIN c
      BY DEF Rate
    <2>2. b[e] * Size(c) = c[e] * Size(b)
      BY <2>1 DEF Unlike
    <2>3. b[e] \in Nat /\ c[e] \in Nat
      OBVIOUS
    <2>4. QED BY <1>1, <2>2, <2>3
  <1>3. QED BY <1>1, <1>2 DEF Alike

(* The property, adapter by adapter.                                       *)
RagDriftIsReal(b, c) == Size(c) >= RagMinEvents /\ Size(b) >= RagMinEvents /\ Unlike(b, c)

LEMMA RagSeesDrift ==
    ASSUME "rag" \in AdapterNames, NEW b \in Batches("rag"), NEW c \in Batches("rag"), NEW found,
           RagCheck(b, c, found).signals # {}
    PROVE  RagDriftIsReal(b, c)
  <1> DEFINE S == Kinds["rag"]
  <1>1. IsFiniteSet(S) /\ b \in [S -> Nat] /\ c \in [S -> Nat]
    BY BatchesAreBatches
  <1>2. RagKinds(S)
    BY <1>1, EventsAssumption DEF RagKinds
  <1>3. RagEnough(b, c)
    BY RagAsksForEnough
  <1>4. Size(b) \in Nat /\ Size(c) \in Nat
    BY <1>1, SizeIsSome
  <1>5. Size(b) # 0 /\ Size(c) # 0
    BY <1>3, <1>4, AdaptersAssumption DEF RagEnough
  <1> HIDE DEF S
  <1>6. Unlike(b, c)
    <2> SUFFICES ASSUME ~Unlike(b, c) PROVE FALSE
      OBVIOUS
    <2>1. Alike(S, b, c, Size(c), Size(b))
      BY <1>1, <1>5, NotUnlikeIsAlike
    <2>2. RagCheck(b, c, found).signals = {}
      BY <1>2, <1>5, <2>1, RagSeesNothing
    <2>3. QED BY <2>2
  <1>7. QED BY <1>3, <1>6 DEF RagEnough, RagDriftIsReal

LEMMA LiveSeesDrift ==
    ASSUME "live_telemetry" \in AdapterNames,
           NEW b \in Batches("live_telemetry"), NEW c \in Batches("live_telemetry"), LiveCheck(b, c).signals # {}
    PROVE  Size(c) >= TelemetryMinEvents /\ c # b
  <1>1. IsFiniteSet(Kinds["live_telemetry"]) /\ b \in [Kinds["live_telemetry"] -> Nat]
    BY BatchesAreBatches
  <1>2. c # b
    BY <1>1, LiveSeesNothing
  <1>3. Metrics(c).n >= TelemetryMinEvents
    <2>1. PICK signal : signal \in LiveCheck(b, c).signals
      BY Zenon
    <2>2. QED BY <2>1, Zenon DEF LiveCheck, Verdict
  <1>4. Metrics(c).n = Size(c)
    BY DEF Metrics
  <1>5. QED BY <1>2, <1>3, <1>4

LEMMA ClassifierSeesDrift ==
    ASSUME "classifier" \in AdapterNames,
           NEW b \in Batches("classifier"), NEW c \in Batches("classifier"), Size(c) > 0,
           NEW present \in SUBSET Features,
           ClassifierCheck(b, c, present).signals # {} \/ ClassifierCheck(b, c, present).drifted
    PROVE  Unlike(b, c)
  <1> DEFINE S == Kinds["classifier"]
  <1> SUFFICES ASSUME ~Unlike(b, c) PROVE FALSE
    OBVIOUS
  <1>1. IsFiniteSet(S) /\ b \in [S -> Nat] /\ c \in [S -> Nat]
    BY BatchesAreBatches
  <1> HIDE DEF S
  <1>2. Size(c) # 0
    <2>1. Size(c) \in Nat
      BY <1>1, SizeIsSome
    <2>2. QED BY <2>1
  <1>3. Alike(S, b, c, Size(c), Size(b))
    BY <1>1, <1>2, NotUnlikeIsAlike
  <1>4. QED BY <1>3, ClassifierSeesNothing

(* A check of the reporter's batch.                                        *)
LEMMA CheckedDriftIsReal ==
    ASSUME BatchInv, NEW present \in SUBSET Features, NEW found, CheckBatch(present, found)
    PROVE  DriftIsReal'
  <1> DEFINE verdict == Check(baseline, batch, present, found)
             suspect == verdict.drifted \/ verdict.signals # {}
  <1>1. /\ latest'.verdict = verdict /\ latest'.batch = batch /\ latest'.baseline = baseline
        /\ adapter' = adapter
    BY DEF CheckBatch
  <1>2. adapter \in AdapterNames /\ batch \in Batches(adapter) /\ baseline \in Batches(adapter)
    BY DEF BatchInv
  <1>3. CASE adapter = "rag"
    <2>1. verdict = RagCheck(baseline, batch, found)
      BY <1>3 DEF Check
    <2>2. suspect => RagDriftIsReal(baseline, batch)
      BY <1>2, <1>3, <2>1, RagSeesDrift, VerdictsAgree
    <2> HIDE DEF verdict
    <2>3. QED BY <1>1, <1>3, <2>2 DEF DriftIsReal, RagDriftIsReal, Unlike, Rate
  <1>4. CASE adapter = "live_telemetry"
    <2>1. verdict = LiveCheck(baseline, batch)
      BY <1>4 DEF Check
    <2>2. suspect => Size(batch) >= TelemetryMinEvents /\ batch # baseline
      BY <1>2, <1>4, <2>1, LiveSeesDrift, VerdictsAgree
    <2> HIDE DEF verdict
    <2>3. QED BY <1>1, <1>4, <2>2 DEF DriftIsReal
  <1>5. CASE adapter = "classifier"
    <2>1. verdict = ClassifierCheck(baseline, batch, present)
      BY <1>5 DEF Check
    <2>2. Size(batch) > 0
      BY <1>5 DEF CheckBatch
    <2>3. suspect => Unlike(baseline, batch)
      BY <1>2, <1>5, <2>1, <2>2, ClassifierSeesDrift
    <2> HIDE DEF verdict
    <2>4. QED BY <1>1, <1>5, <2>3 DEF DriftIsReal, Unlike, Rate
  <1>6. CASE adapter = "llm"
    <2>1. verdict = LlmCheck(batch)
      BY <1>6 DEF Check
    <2>2. IsFiniteSet(Kinds["llm"]) /\ batch \in [Kinds["llm"] -> Nat]
      BY <1>2, <1>6, BatchesAreBatches
    <2>3. \A e \in Kinds["llm"] : e.golden \in BOOLEAN /\ e.similarity \in Int
      BY <1>2, <1>6, EventsAssumption
    <2>4. suspect => \E e \in DOMAIN batch : batch[e] > 0 /\ e.golden /\ e.similarity < SimilarityThreshold
      BY <2>1, <2>2, <2>3, LlmSeesBadAnswers
    <2> HIDE DEF verdict
    <2>5. QED BY <1>1, <1>6, <2>4 DEF DriftIsReal
  <1>7. QED BY <1>2, <1>3, <1>4, <1>5, <1>6, DetectionAssumption

(* One event is too few to judge.                                          *)
LEMMA OneEventIsNoDrift ==
    ASSUME NEW b, NEW event, NEW found
    PROVE  LET verdict == RagCheck(b, [e \in {event} |-> 1], found)
           IN  verdict.signals = {} /\ ~verdict.drifted
  <1> DEFINE single == [e \in {event} |-> 1]
  <1>1. IsFiniteSet({event})
    BY FS_Singleton, Zenon
  <1>2. single \in [{event} -> Nat] /\ single[event] = 1 /\ event \in {event}
    OBVIOUS
  <1> HIDE DEF single
  <1>3. Size(single) = 1
    <2>1. Size(single) = single[event] + SumFunctionOnSet(single, {event} \ {event})
      BY <1>1, <1>2, SizeSplits
    <2>2. {event} \ {event} = {}
      OBVIOUS
    <2>3. \A x \in {event} : single[x] \in Nat
      BY <1>2
    <2>4. SumFunctionOnSet(single, {}) = 0
      BY <1>1, <2>3, SumOfNumbers
    <2>5. QED BY <1>2, <2>1, <2>2, <2>4
  <1>4. ~RagEnough(b, single)
    BY <1>3, AdaptersAssumption DEF RagEnough
  <1>5. RagCheck(b, single, found).signals = {}
    BY <1>4, RagAsksForEnough
  <1>6. ~RagCheck(b, single, found).drifted
    BY <1>5, VerdictsAgree
  <1>7. QED BY <1>5, <1>6 DEF single

(* Any other step leaves no check, or the latest one as it was.            *)
LEMMA DriftStep == DriftIsReal /\ BatchInv /\ [Next]_vars => DriftIsReal'
  <1> SUFFICES ASSUME DriftIsReal, BatchInv, [Next]_vars PROVE DriftIsReal'
    OBVIOUS
  <1>1. ASSUME UNCHANGED <<adapter, latest>> PROVE DriftIsReal'
    BY <1>1, Zenon DEF DriftIsReal, Unlike, Rate
  <1>2. ASSUME latest'.kind = "none" PROVE DriftIsReal'
    BY <1>2, Zenon DEF DriftIsReal
  <1>3. ASSUME NEW present \in MayBePresent, NEW found, CheckBatch(present, found) PROVE DriftIsReal'
    BY <1>3, CheckedDriftIsReal DEF MayBePresent
  <1>4. ASSUME NEW e, NEW h, NEW c, Callback(c, e, h, NoCheck) PROVE DriftIsReal'
    BY <1>2, <1>4 DEF Callback, NoCheck
  <1>5. ASSUME NEW c, \/ RetrieverStart(c) \/ RetrieverError(c) \/ LlmStart(c) \/ LlmError(c) \/ ChainEnd(c)
                      \/ \E scores \in ScoreLists : RetrieverEnd(c, scores)
        PROVE  DriftIsReal'
    BY <1>4, <1>5, Zenon DEF RetrieverStart, RetrieverError, LlmStart, LlmError, ChainEnd, RetrieverEnd
  <1>6. ASSUME NEW c, NEW latency, LlmEnd(c, latency) PROVE DriftIsReal'
    <2> DEFINE event == HandlerEvent(Entry(c), latency)
               verdict == RagCheck(baseline, [e \in {event} |-> 1], FALSE)
    <2>1. latest'.verdict = verdict
      BY <1>6 DEF LlmEnd, Callback
    <2>2. verdict.signals = {} /\ ~verdict.drifted
      BY OneEventIsNoDrift
    <2> HIDE DEF verdict
    <2>3. QED BY <2>1, <2>2, Zenon DEF DriftIsReal
  <1>7. ASSUME NEW e, Collect(e) PROVE DriftIsReal'
    BY <1>2, <1>7 DEF Collect, NoCheck
  <1>8. CASE Retrain \/ Restart
    BY <1>2, <1>8 DEF Retrain, Restart, NoCheck
  <1>9. ASSUME NEW type, NEW predicted, Trial(type, predicted) PROVE DriftIsReal'
    BY <1>1, <1>9 DEF Trial
  <1>10. ASSUME NEW target, NEW above, CalibrateHysteresis(target, above) PROVE DriftIsReal'
    BY <1>1, <1>10 DEF CalibrateHysteresis
  <1>11. CASE RunBenchmark
    BY <1>1, <1>11 DEF RunBenchmark
  <1>12. CASE UNCHANGED vars
    BY <1>1, <1>12 DEF vars
  <1>13. CASE Next
    BY <1>3, <1>5, <1>6, <1>7, <1>8, <1>9, <1>10, <1>11, <1>13, Zenon DEF Next
  <1>14. QED BY <1>12, <1>13

(***************************************************************************)
(* Whatever is collected, in batches of whatever sizes, no adapter reports *)
(* drift between batches in which every kind of event is as frequent, none *)
(* that it has too few events to judge, and none of an event by itself.    *)
(***************************************************************************)
THEOREM DriftIsNeverFalse == Spec => []DriftIsReal
  <1>1. Init => DriftIsReal
    BY DEF Init, NoCheck, DriftIsReal
  <1>2. DetectionInv => BatchInv
    BY DEF DetectionInv
  <1>3. QED BY <1>1, <1>2, DriftStep, DetectionIsInvariant, PTL DEF Spec
=============================================================================
