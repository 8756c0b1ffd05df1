-------------------------- MODULE AlertPathProofs --------------------------
(***************************************************************************)
(* What is proved of detection-engine's alert path: its types, what an     *)
(* automatic block rests on, that no silenced indicator is sent, and that  *)
(* the verdicts govern the suppressions across restarts and reloads.       *)
(*                                                                         *)
(* None of the three is inductive.  A decision is only as good as the      *)
(* signals the correlator keeps; an event in the channel was checked two   *)
(* steps before, by a goroutine the analysts interleave with; and while a  *)
(* load is on, the table follows the verdicts applied so far and the cap   *)
(* must not have turned one of them away.                                  *)
(***************************************************************************)
EXTENDS AlertPath, SequenceTheorems, FiniteSetTheorems, TLAPS

SignalRecords == [alert : Alerts, seen : 1..MaxTime]
WorkRecords   == [alert : Alerts, at : 1..MaxTime]
SignalTables  == [SignalClasses -> SignalRecords \cup {NoSignal}]

SourcesTypeOK ==
  /\ step \in [Sources -> {"idle", "observe", "forward"}]
  /\ DOMAIN work = Sources
  /\ \A s \in Sources : IF step[s] = "idle" THEN work[s] = NoEvent ELSE work[s] \in WorkRecords

SenderTypeOK ==
  /\ queue \in Seq(Range(queue))
  /\ Len(queue) <= QueueSize
  /\ \/ sending = NoEvent
     \/ /\ sending.attempt \in 0..Retries
        /\ sending = [event |-> sending.event, attempt |-> sending.attempt]

HistoryTypeOK ==
  /\ \A r \in received : r.decision \in {"auto_block", "pending", "ignore"}
  /\ raised \in 0..MaxRaised
  /\ restarts \in 0..MaxRestarts

PathTypeOK ==
  /\ FeedbackTypeOK
  /\ signals \in [Clients -> SignalTables]
  /\ SourcesTypeOK
  /\ SenderTypeOK
  /\ HistoryTypeOK

-----------------------------------------------------------------------------
\* What backs an event of a class or a signal that may block on its own word.
Attests(o, e) ==
  /\ o \in observed \cap e.parts
  /\ o.alert.class \in KnownBadClasses
  /\ o.alert.client = e.client
  /\ e.at - o.seen <= Window

Attested(e) ==
  \/ e.class \in KnownBadClasses
  \/ KnownBadSignals(e) = {}
  \/ \E o \in observed : Attests(o, e)

\* The correlator keeps what it observed, under the client and the class it
\* was observed for.
SignalsAreObserved ==
  \A cl \in Clients, c \in SignalClasses :
    signals[cl][c] # NoSignal =>
      /\ signals[cl][c] \in observed
      /\ signals[cl][c].alert.class = c
      /\ signals[cl][c].alert.client = cl

AttestedInv ==
  /\ SignalsAreObserved
  /\ \A e \in OnItsWay : Attested(e)
  /\ AutoBlockIsAttested

-----------------------------------------------------------------------------
\* A silence in force began no earlier than the look-up of what is in hand.
CheckedBefore(ioc, client, at) ==
  /\ at \in 1..now
  /\ \A k \in Candidates(ioc, client) : Silences(k) => since[k] >= at

Busy(s) == step[s] # "idle"

CheckedInv ==
  /\ \A s \in Sources :
       Busy(s) => CheckedBefore(work[s].alert.ioc, work[s].alert.client, work[s].at)
  /\ \A e \in OnItsWay : CheckedBefore(e.ioc, e.client, e.at)

-----------------------------------------------------------------------------
KeysOf(verdicts) == {v.key : v \in verdicts}

\* The keys whose verdict is no longer waiting to be loaded.
Applied == KeysOf(known) \ KeysOf(toLoad)

Governs(v) ==
  IF v.verdict = "confirmed" THEN suppressed[v.key] = Never
  ELSE \/ suppressed[v.key] = v.at
       \/ suppressed[v.key] = Never /\ Expired(v.at)

\* What is to be loaded is the newest verdict of its key, one per key.
LoadInv ==
  /\ boot # "apply" => toLoad = {}
  /\ boot = "query" => known = {}
  /\ \A v \in toLoad : v \in known /\ \A w \in known : w.key = v.key => w.at <= v.at
  /\ \A v, w \in toLoad : v.key = w.key => v = w

KeysInv ==
  /\ IsFiniteSet(KeysOf(known)) /\ IsFiniteSet(KeysOf(rows))
  /\ Held \subseteq Applied

AppliedGovern ==
  Cardinality(Applied) <= MaxSuppressions =>
    \A k \in Applied : \A v \in known : Latest(k, v) => Governs(v)

GovernInv == LoadInv /\ KeysInv /\ AppliedGovern

-----------------------------------------------------------------------------
LEMMA Constants ==
  /\ TTL \in Nat /\ MaxSuppressions \in Nat \ {0} /\ MaxVerdicts \in Nat /\ MaxTime \in Nat \ {0}
  /\ Window \in Nat /\ QueueSize \in Nat \ {0} /\ Retries \in Nat /\ MaxRaised \in Nat
  /\ MaxRestarts \in Nat
  /\ \A a \in Alerts : a.client \in Clients /\ a.class \in SignalClasses /\ a.ioc \in Indicators
  BY FeedbackAssumption, CompositeAssumption, AlertPathAssumption

\* Sending an event or dropping it adds that event to the channel, or nothing.
LEMMA SendAdds ==
  ASSUME SenderTypeOK, NEW e, Send(e)
  PROVE  /\ queue' \in Seq(Range(queue'))
         /\ Len(queue') <= QueueSize
         /\ Range(queue') \subseteq Range(queue) \cup {e}
<1>1. CASE Len(queue) < QueueSize
  <2>1. queue' = Append(queue, e)
    BY <1>1 DEF Send
  <2> DEFINE T == Range(queue) \cup {e}
  <2>2. queue \in Seq(Range(queue)) /\ Len(queue) \in Nat
    BY DEF SenderTypeOK
  <2>3. queue \in Seq(T)
    <3>1. Range(queue) \subseteq T
      OBVIOUS
    <3>. QED BY <2>2, <3>1
  <2>4. queue' \in Seq(T) /\ Len(queue') = Len(queue) + 1
    BY <2>1, <2>3, AppendProperties
  <2>5. Range(queue') \subseteq T
    BY <2>4, RangeOfSeq
  <2>6. queue' \in Seq(Range(queue'))
    BY <2>4, SeqOfRange
  <2>. QED BY <1>1, <2>2, <2>4, <2>5, <2>6, Constants
<1>2. CASE ~(Len(queue) < QueueSize)
  BY <1>2 DEF Send, SenderTypeOK
<1>. QED BY <1>1, <1>2

\* Taking an event off the channel moves it to the sender's hand.
LEMMA TakeMoves ==
  ASSUME SenderTypeOK, Take
  PROVE  /\ queue' \in Seq(Range(queue'))
         /\ Len(queue') <= QueueSize
         /\ Range(queue') \cup {Head(queue)} \subseteq Range(queue)
         /\ sending' = [event |-> Head(queue), attempt |-> 0]
<1> DEFINE T == Range(queue)
<1>1. queue \in Seq(T) /\ queue # <<>> /\ queue' = Tail(queue)
  BY DEF SenderTypeOK, Take
<1>2. Head(queue) \in T /\ queue' \in Seq(T) /\ Len(queue') = Len(queue) - 1
  BY <1>1, HeadTailProperties
<1>3. Range(queue') \subseteq T /\ queue' \in Seq(Range(queue'))
  BY <1>2, RangeOfSeq, SeqOfRange
<1>4. Len(queue) \in Nat /\ Len(queue) <= QueueSize
  BY <1>1 DEF SenderTypeOK
<1>. QED BY <1>2, <1>3, <1>4, Constants DEF Take

LEMMA EmptyQueue == <<>> \in Seq(Range(<<>>)) /\ Len(<<>>) = 0 /\ Range(<<>>) = {}
  BY DEF Range

-----------------------------------------------------------------------------
\* What Observe makes of the signals of a client: the new one, and old ones
\* inside the window.
LEMMA ObservedSignals ==
  ASSUME NEW sigs \in SignalTables, NEW a \in Alerts, NEW at \in 1..MaxTime
  PROVE  LET new == Upsert(Pruned(sigs, at), a, at)
         IN /\ new \in SignalTables
            /\ \A c \in SignalClasses :
                 \/ new[c] = NoSignal
                 \/ c = a.class /\ new[c] = [alert |-> a, seen |-> at]
                 \/ new[c] = sigs[c] /\ at - sigs[c].seen <= Window
<1> DEFINE old == Pruned(sigs, at)
           rec == [alert |-> a, seen |-> at]
           new == Upsert(old, a, at)
<1>1. \A c \in SignalClasses :
        old[c] = NoSignal \/ (old[c] = sigs[c] /\ at - sigs[c].seen <= Window)
  BY DEF Pruned, Classes
<1>2. old = [c \in SignalClasses |-> old[c]]
  BY DEF Pruned
<1>3. old \in SignalTables
  <2>1. \A c \in SignalClasses : sigs[c] \in SignalRecords \cup {NoSignal}
    BY DEF SignalTables
  <2>2. \A c \in SignalClasses : old[c] \in SignalRecords \cup {NoSignal}
    BY <1>1, <2>1
  <2> HIDE DEF old
  <2>. QED BY <1>2, <2>2, Zenon DEF SignalTables
<1>4. rec \in SignalRecords /\ a.class \in SignalClasses
  BY Constants DEF SignalRecords
<1>5. new = old \/ new = [old EXCEPT ![a.class] = rec]
  BY DEF Upsert
<1> HIDE DEF old, rec, new
<1>6. new \in SignalTables
  BY <1>3, <1>4, <1>5 DEF SignalTables
<1>7. \A c \in SignalClasses : new[c] = old[c] \/ (c = a.class /\ new[c] = rec)
  BY <1>3, <1>4, <1>5 DEF SignalTables
<1>8. rec = [alert |-> a, seen |-> at] /\ new = Upsert(Pruned(sigs, at), a, at)
  BY DEF rec, new, old
<1>. QED BY <1>1, <1>6, <1>7, <1>8

\* What a step of Observe leaves in the correlator's table.
LEMMA ObserveKeeps ==
  ASSUME PathTypeOK, NEW s \in Sources, NEW at \in 1..MaxTime, Observe(s, at)
  PROVE  /\ work[s] \in WorkRecords
         /\ work[s].alert.client \in Clients
         /\ Observed(s, at) \in SignalTables
         /\ signals' \in [Clients -> SignalTables]
         /\ \A cl \in Clients, c \in SignalClasses :
              \/ signals'[cl][c] = NoSignal
              \/ signals'[cl][c] = signals[cl][c]
              \/ cl = work[s].alert.client /\ signals'[cl][c] = Observed(s, at)[c]
<1> DEFINE client == work[s].alert.client
           new == Observed(s, at)
           table == [signals EXCEPT ![client] = new]
<1>1. step[s] = "observe" /\ work[s] \in WorkRecords
  BY DEF Observe, PathTypeOK, SourcesTypeOK
<1>2. work[s].alert \in Alerts /\ client \in Clients
  BY <1>1, Constants DEF WorkRecords
<1>3. signals \in [Clients -> SignalTables] /\ signals[client] \in SignalTables
  BY <1>2 DEF PathTypeOK
<1>4. new \in SignalTables
  BY <1>2, <1>3, ObservedSignals DEF Observed
<1>5. PICK gone : signals' = Without(table, gone)
  BY DEF Observe
<1> HIDE DEF client, new
<1>6. table \in [Clients -> SignalTables]
  BY <1>2, <1>3, <1>4
<1>7. \A cl \in Clients : table[cl] = IF cl = client THEN new ELSE signals[cl]
  BY <1>3
<1> HIDE DEF table
<1>8. NoSignals \in SignalTables /\ \A c \in SignalClasses : NoSignals[c] = NoSignal
  BY DEF NoSignals, SignalTables
<1>9. signals' = [cl \in Clients |-> IF cl \in gone THEN NoSignals ELSE table[cl]]
  BY <1>5, <1>6 DEF Without
<1>10. signals' \in [Clients -> SignalTables]
  BY <1>6, <1>8, <1>9
<1>11. \A cl \in Clients : signals'[cl] = NoSignals \/ signals'[cl] = table[cl]
  BY <1>9
<1>. QED BY <1>1, <1>2, <1>4, <1>7, <1>8, <1>10, <1>11 DEF client, new

LEMMA SuppressType ==
  ASSUME FeedbackTypeOK, NEW sup \in [Keys -> 0..MaxTime], Suppress(sup)
  PROVE  suppressed' \in [Keys -> 0..MaxTime] /\ since' \in [Keys -> 0..MaxTime]
  BY Constants DEF FeedbackTypeOK, Suppress, Never

LEMMA LookUpType ==
  ASSUME FeedbackTypeOK, NEW ioc, NEW client, LookUp(ioc, client)
  PROVE  suppressed' \in [Keys -> 0..MaxTime] /\ since' \in [Keys -> 0..MaxTime]
<1> DEFINE sup == [k \in Keys |-> IF k \in Swept(ioc, client) THEN Never ELSE suppressed[k]]
<1>1. sup \in [Keys -> 0..MaxTime]
  BY Constants DEF FeedbackTypeOK, Never
<1>2. Suppress(sup)
  BY DEF LookUp
<1> HIDE DEF sup
<1>. QED BY <1>1, <1>2, SuppressType

\* What Record and applyLoaded make of the table.
LEMMA TableType ==
  ASSUME FeedbackTypeOK, NEW k, NEW at \in 0..MaxTime
  PROVE  [suppressed EXCEPT ![k] = at] \in [Keys -> 0..MaxTime]
  BY DEF FeedbackTypeOK

LEMMA RecordSuppresses ==
  ASSUME FeedbackTypeOK, NEW k, NEW kind, NEW at \in 1..MaxTime, Record(k, kind, at)
  PROVE  \E sup \in [Keys -> 0..MaxTime] : Suppress(sup)
<1>1. PICK z \in 0..MaxTime : Suppress([suppressed EXCEPT ![k] = z])
  BY Constants DEF Record, Never
<1>. QED BY <1>1, TableType

LEMMA ApplySuppresses ==
  ASSUME FeedbackTypeOK, NEW v \in toLoad, ApplyLoaded(v)
  PROVE  \E sup \in [Keys -> 0..MaxTime] : Suppress(sup)
<1>1. v.at \in 0..MaxTime /\ suppressed \in [Keys -> 0..MaxTime] /\ Never \in 0..MaxTime
  BY Constants DEF FeedbackTypeOK, Verdicts, Never
<1>2. \/ Suppress([suppressed EXCEPT ![v.key] = Never])
      \/ Suppress(suppressed)
      \/ Suppress([suppressed EXCEPT ![v.key] = v.at])
  <2>1. CASE v.verdict = "confirmed"
    BY <2>1 DEF ApplyLoaded
  <2>2. CASE v.verdict # "confirmed" /\ (Expired(v.at) \/ Cardinality(Held) >= MaxSuppressions)
    BY <2>2 DEF ApplyLoaded
  <2>3. CASE v.verdict # "confirmed" /\ ~(Expired(v.at) \/ Cardinality(Held) >= MaxSuppressions)
    BY <2>3 DEF ApplyLoaded
  <2>. QED BY <2>1, <2>2, <2>3
<1>. QED BY <1>1, <1>2, TableType

LEMMA FeedbackKeepsTypes ==
  ASSUME FeedbackTypeOK, Feedback
  PROVE  FeedbackTypeOK'
<1>1. ASSUME NEW k \in Keys, NEW kind \in Kinds, NEW at \in 1..MaxTime, Record(k, kind, at)
      PROVE  FeedbackTypeOK'
  <2> DEFINE v == [key |-> k, verdict |-> kind, at |-> at]
  <2>1. v \in Verdicts /\ now \in 1..MaxTime /\ now' = now
    BY DEF Verdicts, FeedbackTypeOK, Feedback
  <2>2. suppressed' \in [Keys -> 0..MaxTime] /\ since' \in [Keys -> 0..MaxTime]
    BY <1>1, RecordSuppresses, SuppressType
  <2>3. writes' = writes \cup {v} /\ known' = {w \in known : w.key # k} \cup {v}
    BY <1>1 DEF Record
  <2>4. given' \in 0..MaxVerdicts
    BY <1>1, Constants DEF Record, FeedbackTypeOK
  <2>5. UNCHANGED <<boot, rows, toLoad>>
    BY <1>1 DEF Record
  <2> HIDE DEF v
  <2>. QED BY <2>1, <2>2, <2>3, <2>4, <2>5 DEF FeedbackTypeOK
<1>2. ASSUME NEW v \in writes, Persist(v) \/ PersistFails(v)
      PROVE  FeedbackTypeOK'
  BY <1>2 DEF Persist, PersistFails, FeedbackTypeOK, Feedback
<1>3. CASE LoadQuery
  <2>1. PICK pick \in [KeysOf(rows) -> rows] : toLoad' = {pick[k] : k \in DOMAIN pick}
    BY <1>3 DEF LoadQuery, KeysOf
  <2>2. toLoad' \subseteq rows
    BY <2>1
  <2>3. boot' = "apply" /\ known' = rows /\ UNCHANGED <<now, suppressed, since, writes, rows, given>>
    BY <1>3 DEF LoadQuery, Feedback
  <2>. QED BY <2>2, <2>3 DEF FeedbackTypeOK
<1>4. ASSUME NEW v \in toLoad, ApplyLoaded(v)
      PROVE  FeedbackTypeOK'
  <2>1. v.key \in Keys /\ v.at \in 0..MaxTime
    BY DEF FeedbackTypeOK, Verdicts
  <2>2. suppressed' \in [Keys -> 0..MaxTime] /\ since' \in [Keys -> 0..MaxTime]
    BY <1>4, ApplySuppresses, SuppressType
  <2>3. toLoad' \subseteq toLoad /\ UNCHANGED <<now, boot, writes, rows, known, given>>
    BY <1>4 DEF ApplyLoaded, Feedback
  <2>. QED BY <2>2, <2>3 DEF FeedbackTypeOK
<1>5. CASE ServeHTTP
  BY <1>5 DEF ServeHTTP, FeedbackTypeOK, Feedback
<1>. QED BY <1>1, <1>2, <1>3, <1>4, <1>5, Zenon DEF Feedback

\* Every step keeps the types, the ones a source takes first.
LEMMA SourceKeepsTypes ==
  ASSUME PathTypeOK, NEW s \in Sources, Source(s)
  PROVE  PathTypeOK'
<1>1. ASSUME NEW a \in Alerts, Check(s, a)
      PROVE  PathTypeOK'
  <2>1. suppressed' \in [Keys -> 0..MaxTime] /\ since' \in [Keys -> 0..MaxTime]
    BY <1>1, LookUpType DEF Check, PathTypeOK
  <2>2. FeedbackTypeOK'
    BY <1>1, <2>1 DEF Check, FeedbackTypeOK, PathTypeOK
  <2>3. [alert |-> a, at |-> now] \in WorkRecords
    BY DEF WorkRecords, PathTypeOK, FeedbackTypeOK
  <2>4. SourcesTypeOK'
    BY <1>1, <2>3 DEF Check, SourcesTypeOK, PathTypeOK
  <2>5. HistoryTypeOK'
    BY <1>1, Constants DEF Check, HistoryTypeOK, PathTypeOK
  <2>6. SenderTypeOK' /\ signals' = signals
    BY <1>1 DEF Check, SenderTypeOK, PathTypeOK
  <2>. QED BY <2>2, <2>4, <2>5, <2>6 DEF PathTypeOK
<1>2. ASSUME NEW at \in 1..MaxTime, ObserveAlone(s, at)
      PROVE  PathTypeOK'
  <2>1. signals' \in [Clients -> SignalTables] /\ work[s] \in WorkRecords
    BY <1>2, ObserveKeeps DEF ObserveAlone
  <2>2. FeedbackTypeOK'
    BY <1>2 DEF ObserveAlone, Observe, FeedbackTypeOK, PathTypeOK
  <2>3. SourcesTypeOK'
    BY <1>2, <2>1 DEF ObserveAlone, SourcesTypeOK, PathTypeOK
  <2>4. SenderTypeOK' /\ HistoryTypeOK'
    BY <1>2 DEF ObserveAlone, Observe, SenderTypeOK, HistoryTypeOK, PathTypeOK
  <2>. QED BY <2>1, <2>2, <2>3, <2>4 DEF PathTypeOK
<1>3. ASSUME NEW at \in 1..MaxTime, ObserveComposite(s, at)
      PROVE  PathTypeOK'
  <2> DEFINE comp == Build(work[s].alert, Observed(s, at), at)
  <2>1. signals' \in [Clients -> SignalTables]
    BY <1>3, ObserveKeeps DEF ObserveComposite
  <2>2. suppressed' \in [Keys -> 0..MaxTime] /\ since' \in [Keys -> 0..MaxTime]
    BY <1>3, LookUpType DEF ObserveComposite, PathTypeOK
  <2>3. FeedbackTypeOK'
    BY <1>3, <2>2 DEF ObserveComposite, Observe, FeedbackTypeOK, PathTypeOK
  <2>4. SourcesTypeOK'
    BY <1>3 DEF ObserveComposite, Finish, SourcesTypeOK, PathTypeOK
  <2>5. queue' = queue \/ Send(comp)
    BY <1>3 DEF ObserveComposite
  <2>6. sending' = sending
    BY <1>3 DEF ObserveComposite, Observe
  <2>7. SenderTypeOK'
    BY <2>5, <2>6, SendAdds DEF SenderTypeOK, PathTypeOK
  <2>8. HistoryTypeOK'
    BY <1>3 DEF ObserveComposite, Observe, HistoryTypeOK, PathTypeOK
  <2>. QED BY <2>1, <2>3, <2>4, <2>7, <2>8 DEF PathTypeOK
<1>4. CASE Forward(s)
  <2>1. SenderTypeOK'
    BY <1>4, SendAdds DEF Forward, SenderTypeOK, PathTypeOK
  <2>2. SourcesTypeOK'
    BY <1>4 DEF Forward, Finish, SourcesTypeOK, PathTypeOK
  <2>3. FeedbackTypeOK' /\ signals' = signals /\ HistoryTypeOK'
    BY <1>4 DEF Forward, feedbackVars, FeedbackTypeOK, HistoryTypeOK, PathTypeOK
  <2>. QED BY <2>1, <2>2, <2>3 DEF PathTypeOK
<1>. QED BY <1>1, <1>2, <1>3, <1>4 DEF Source

LEMMA DecisionType ==
  ASSUME NEW e PROVE Decide(e) \in {"auto_block", "pending", "ignore"}
  BY DEF Decide, Evaluate

LEMMA SenderKeepsTypes ==
  ASSUME PathTypeOK, Sender
  PROVE  PathTypeOK'
<1>1. FeedbackTypeOK' /\ signals' = signals /\ SourcesTypeOK'
  BY DEF Sender, Take, DeliverOK, DeliverFails, feedbackVars, FeedbackTypeOK, SourcesTypeOK,
         PathTypeOK
<1>2. SenderTypeOK'
  <2>1. CASE Take
    BY <2>1, TakeMoves, Constants DEF SenderTypeOK, PathTypeOK
  <2>2. CASE DeliverOK
    BY <2>2 DEF DeliverOK, SenderTypeOK, PathTypeOK
  <2>3. ASSUME NEW mode \in FailureModes, DeliverFails(mode)
        PROVE  SenderTypeOK'
    <3>1. sending # NoEvent /\ queue' = queue /\ (sending' = NoEvent \/ Retry)
      BY <2>3 DEF DeliverFails
    <3>2. sending.attempt \in 0..Retries
          /\ sending = [event |-> sending.event, attempt |-> sending.attempt]
      BY <3>1 DEF SenderTypeOK, PathTypeOK
    <3>3. \/ sending' = NoEvent
          \/ /\ sending.attempt < Retries
             /\ sending' = [event |-> sending.event, attempt |-> sending.attempt + 1]
      BY <3>1, <3>2 DEF Retry
    <3>. QED BY <3>1, <3>2, <3>3, Constants DEF SenderTypeOK, PathTypeOK
  <2>. QED BY <2>1, <2>2, <2>3 DEF Sender
<1>3. HistoryTypeOK'
  <2>1. received' = received \/ Receive(sending.event)
    BY DEF Sender, Take, DeliverOK, DeliverFails
  <2>2. raised' = raised /\ restarts' = restarts
    BY DEF Sender, Take, DeliverOK, DeliverFails
  <2>3. \A r \in received' : r \in received \/ r.decision = Decide(sending.event)
    BY <2>1 DEF Receive, Decide
  <2>. QED BY <2>2, <2>3, DecisionType DEF HistoryTypeOK, PathTypeOK
<1>. QED BY <1>1, <1>2, <1>3 DEF PathTypeOK

LEMMA NextKeepsTypes ==
  ASSUME PathTypeOK, [Next]_vars
  PROVE  PathTypeOK'
<1>1. CASE UNCHANGED vars
  BY <1>1 DEF vars, feedbackVars, pathVars, PathTypeOK, FeedbackTypeOK, SourcesTypeOK,
              SenderTypeOK, HistoryTypeOK
<1>2. CASE Feedback
  <2>1. FeedbackTypeOK'
    BY <1>2, FeedbackKeepsTypes DEF PathTypeOK
  <2>. QED BY <1>2, <2>1 DEF Feedback, pathVars, PathTypeOK, SourcesTypeOK, SenderTypeOK,
                             HistoryTypeOK
<1>3. CASE Tick
  <2>1. FeedbackTypeOK'
    BY <1>3, Constants DEF Tick, feedbackVars, FeedbackTypeOK, PathTypeOK
  <2>. QED BY <1>3, <2>1 DEF Tick, pathVars, PathTypeOK, SourcesTypeOK, SenderTypeOK,
                             HistoryTypeOK
<1>4. CASE Restart
  <2>1. FeedbackTypeOK'
    <3>1. suppressed' \in [Keys -> 0..MaxTime] /\ since' \in [Keys -> 0..MaxTime]
      BY <1>4, Constants DEF Restart, FeedbackRestart, Suppress, Never
    <3>. QED BY <1>4, <3>1 DEF Restart, FeedbackRestart, FeedbackTypeOK, PathTypeOK
  <2>2. signals' \in [Clients -> SignalTables]
    BY <1>4 DEF Restart, NoSignals, SignalTables
  <2>3. SourcesTypeOK'
    BY <1>4 DEF Restart, SourcesTypeOK
  <2>4. SenderTypeOK'
    BY <1>4, EmptyQueue, Constants DEF Restart, SenderTypeOK
  <2>5. HistoryTypeOK'
    BY <1>4, Constants DEF Restart, HistoryTypeOK, PathTypeOK
  <2>. QED BY <2>1, <2>2, <2>3, <2>4, <2>5 DEF PathTypeOK
<1>. QED BY <1>1, <1>2, <1>3, <1>4, SourceKeepsTypes, SenderKeepsTypes DEF Next

LEMMA InitTypes == Init => PathTypeOK
<1> SUFFICES ASSUME Init PROVE PathTypeOK
  OBVIOUS
<1>1. FeedbackTypeOK
  BY Constants DEF Init, FeedbackInit, FeedbackTypeOK, Never
<1>2. signals \in [Clients -> SignalTables]
  BY DEF Init, NoSignals, SignalTables
<1>3. SourcesTypeOK
  BY DEF Init, SourcesTypeOK
<1>4. SenderTypeOK
  BY EmptyQueue, Constants DEF Init, SenderTypeOK
<1>5. HistoryTypeOK
  BY Constants DEF Init, HistoryTypeOK
<1>. QED BY <1>1, <1>2, <1>3, <1>4, <1>5 DEF PathTypeOK

LEMMA PathTypes == Spec => []PathTypeOK
  BY InitTypes, NextKeepsTypes, PTL DEF Spec

\* The alert path is well typed: main's OnAlert hands on what it checked, the
\* channel of the webhook sender stays within its capacity, a delivery within
\* its retries, and every answer is one of the controller's three decisions.
THEOREM AlertPathType == Spec => []TypeOK
<1>1. PathTypeOK => TypeOK
  <2> SUFFICES ASSUME PathTypeOK PROVE TypeOK
    OBVIOUS
  <2>1. \A cl \in Clients, c \in SignalClasses :
          \/ signals[cl][c] = NoSignal
          \/ signals[cl][c].alert \in Alerts /\ signals[cl][c].seen \in 1..MaxTime
    BY DEF PathTypeOK, SignalTables, SignalRecords
  <2>2. \A s \in Sources :
          \/ step[s] = "idle" /\ work[s] = NoEvent
          \/ /\ step[s] \in {"observe", "forward"}
             /\ work[s].alert \in Alerts
             /\ work[s].at \in 1..MaxTime
    BY DEF PathTypeOK, SourcesTypeOK, WorkRecords
  <2>. QED BY <2>1, <2>2 DEF PathTypeOK, SenderTypeOK, HistoryTypeOK, TypeOK
<1>. QED BY <1>1, PathTypes, PTL

-----------------------------------------------------------------------------
\* What the sender delivers was on its way before; a source adds at most the
\* event it sends.
LEMMA SenderOnlyTakes ==
  ASSUME SenderTypeOK, Sender
  PROVE  OnItsWay' \subseteq OnItsWay
<1>1. CASE Take
  <2>1. sending'.event = Head(queue) /\ OnItsWay' \subseteq Range(queue') \cup {sending'.event}
    BY <1>1, TakeMoves DEF OnItsWay
  <2>. QED BY <1>1, <2>1, TakeMoves DEF OnItsWay
<1>2. CASE DeliverOK
  BY <1>2 DEF DeliverOK, OnItsWay
<1>3. ASSUME NEW mode \in FailureModes, DeliverFails(mode)
      PROVE  OnItsWay' \subseteq OnItsWay
  <2>1. sending # NoEvent /\ queue' = queue /\ (sending' = NoEvent \/ Retry)
    BY <1>3 DEF DeliverFails
  <2>2. sending = [event |-> sending.event, attempt |-> sending.attempt]
    BY <2>1 DEF SenderTypeOK
  <2>3. sending' = NoEvent \/ sending'.event = sending.event
    BY <2>1, <2>2 DEF Retry
  <2>. QED BY <2>1, <2>3 DEF OnItsWay
<1>. QED BY <1>1, <1>2, <1>3 DEF Sender

LEMMA SendOnlyAdds ==
  ASSUME SenderTypeOK, NEW e, Send(e), sending' = sending
  PROVE  OnItsWay' \subseteq OnItsWay \cup {e}
  BY SendAdds DEF OnItsWay

\* A policy that asks for a known-bad signal blocks nothing without one.
LEMMA BlocksOnKnownBad ==
  ASSUME policy.AutoRequireKnownBad, NEW e, Decide(e) = "auto_block"
  PROVE  KnownBadSignals(e) # {}
  BY DEF Decide, Evaluate, MayAutoBlock

LEMMA AttestedStays ==
  ASSUME observed \subseteq observed', NEW e, Attested(e)
  PROVE  Attested(e)'
  BY DEF Attested, Attests

\* The signals after Observe were observed, where and as what they stand.
LEMMA ObserveKeepsSignals ==
  ASSUME PathTypeOK, SignalsAreObserved, NEW s \in Sources, NEW at \in 1..MaxTime, Observe(s, at)
  PROVE  /\ SignalsAreObserved'
         /\ observed \subseteq observed'
         /\ \A c \in SignalClasses :
              LET o == Observed(s, at)[c]
              IN  o # NoSignal =>
                    /\ o \in observed' /\ o.alert.class = c
                    /\ o.alert.client = work[s].alert.client
                    /\ at - o.seen <= Window
<1> DEFINE a == work[s].alert
           new == Observed(s, at)
           rec == [alert |-> a, seen |-> at]
<1>1. a \in Alerts /\ a.client \in Clients /\ signals[a.client] \in SignalTables
  BY ObserveKeeps DEF WorkRecords, PathTypeOK
<1>2. observed' = observed \cup {rec}
  BY DEF Observe
<1>3. \A c \in SignalClasses :
        \/ new[c] = NoSignal
        \/ c = a.class /\ new[c] = rec
        \/ new[c] = signals[a.client][c] /\ at - signals[a.client][c].seen <= Window
  BY <1>1, ObservedSignals DEF Observed
<1>4. at - rec.seen <= Window
  BY Constants
<1>5. \A c \in SignalClasses :
        new[c] # NoSignal =>
          /\ new[c] \in observed' /\ new[c].alert.class = c
          /\ new[c].alert.client = a.client
          /\ at - new[c].seen <= Window
  <2> SUFFICES ASSUME NEW c \in SignalClasses, new[c] # NoSignal
               PROVE  /\ new[c] \in observed' /\ new[c].alert.class = c
                      /\ new[c].alert.client = a.client
                      /\ at - new[c].seen <= Window
    OBVIOUS
  <2>1. CASE c = a.class /\ new[c] = rec
    BY <1>2, <1>4, <2>1
  <2>2. CASE new[c] = signals[a.client][c] /\ at - signals[a.client][c].seen <= Window
    <3> DEFINE old == signals[a.client][c]
    <3>1. old # NoSignal /\ at - old.seen <= Window
      BY <2>2
    <3>2. old \in observed /\ old.alert.class = c /\ old.alert.client = a.client
      BY <1>1, <3>1 DEF SignalsAreObserved
    <3> HIDE DEF old
    <3>3. new[c] = old
      BY <2>2 DEF old
    <3>. QED BY <1>2, <3>1, <3>2, <3>3
  <2>. QED BY <1>3, <2>1, <2>2
<1>6. \A cl \in Clients, c \in SignalClasses :
        \/ signals'[cl][c] = NoSignal
        \/ signals'[cl][c] = signals[cl][c]
        \/ cl = a.client /\ signals'[cl][c] = new[c]
  BY ObserveKeeps
<1> HIDE DEF a, new, rec
<1>7. SignalsAreObserved'
  <2> SUFFICES ASSUME NEW cl \in Clients, NEW c \in SignalClasses, signals'[cl][c] # NoSignal
               PROVE  /\ signals'[cl][c] \in observed'
                      /\ signals'[cl][c].alert.class = c
                      /\ signals'[cl][c].alert.client = cl
    BY DEF SignalsAreObserved
  <2>1. CASE signals'[cl][c] = signals[cl][c]
    BY <1>2, <2>1 DEF SignalsAreObserved
  <2>2. CASE cl = a.client /\ signals'[cl][c] = new[c]
    BY <1>5, <2>2
  <2>. QED BY <1>6, <2>1, <2>2
<1>. QED BY <1>2, <1>5, <1>7 DEF a, new

\* A composite names the client its signals are about and is no older than
\* its window.
LEMMA CompositeIsAttested ==
  ASSUME PathTypeOK, SignalsAreObserved, NEW s \in Sources, NEW at \in 1..MaxTime, Observe(s, at),
         NEW comp, comp = Build(work[s].alert, Observed(s, at), at)
  PROVE  Attested(comp)'
<1> DEFINE new == Observed(s, at)
<1>1. /\ comp.class = "composite" /\ comp.signals = Classes(new) /\ comp.parts = Parts(new)
      /\ comp.client = work[s].alert.client /\ comp.at = at
  BY DEF Build
<1> DEFINE o(c) == new[c]
<1>2. ASSUME NEW c \in Classes(new) \cap KnownBadClasses
      PROVE  /\ o(c) \in observed' \cap Parts(new)
             /\ o(c).alert.class \in KnownBadClasses
             /\ o(c).alert.client = work[s].alert.client
             /\ at - o(c).seen <= Window
  <2>1. c \in SignalClasses /\ new[c] # NoSignal
    BY DEF Classes
  <2>2. o(c) \in Parts(new)
    BY DEF Parts
  <2>. QED BY <2>1, <2>2, ObserveKeepsSignals
<1> HIDE DEF new
<1>3. KnownBadSignals(comp) \subseteq Classes(new) \cap KnownBadClasses
  BY <1>1 DEF KnownBadSignals, KnownBadClasses
<1>4. CASE KnownBadSignals(comp) # {}
  <2>1. PICK c \in Classes(new) \cap KnownBadClasses : TRUE
    BY <1>3, <1>4
  <2>2. \E x \in observed' :
          /\ x \in observed' \cap comp.parts
          /\ x.alert.class \in KnownBadClasses
          /\ x.alert.client = comp.client
          /\ comp.at - x.seen <= Window
    BY <1>1, <1>2, <2>1
  <2>3. (\E x \in observed : Attests(x, comp))'
    BY <2>2 DEF Attests
  <2>. QED BY <2>3 DEF Attested
<1>5. CASE KnownBadSignals(comp) = {}
  BY <1>5 DEF Attested
<1>. QED BY <1>4, <1>5

\* A single signal is attested by its own class, or claims nothing.
LEMMA SingleIsAttested ==
  ASSUME NEW a, NEW at, NEW e, e = Event(a, at)
  PROVE  Attested(e)'
<1>1. KnownBadSignals(e) = {e.class} \cap KnownBadClasses
  BY DEF KnownBadSignals, Event
<1>. QED BY <1>1 DEF Attested

LEMMA AttestedStep ==
  ASSUME policy.AutoRequireKnownBad, PathTypeOK, AttestedInv, [Next]_vars
  PROVE  AttestedInv'
<1> DEFINE Same == received' = received /\ observed \subseteq observed'
           Fresh(e) == e \in OnItsWay \/ Attested(e)'
<1>1. ASSUME observed \subseteq observed', NEW e, Fresh(e), Attested(e) \/ e \notin OnItsWay
      PROVE  Attested(e)'
  BY <1>1, AttestedStays
<1>2. ASSUME observed \subseteq observed', SignalsAreObserved',
             \A e \in OnItsWay' : Fresh(e),
             \A r \in received' : r \in received \/
               (r.event \in OnItsWay /\ r.decision = Decide(r.event))
      PROVE  AttestedInv'
  <2>1. \A e \in OnItsWay' : Attested(e)'
    BY <1>1, <1>2 DEF AttestedInv
  <2>2. ASSUME NEW r \in received', r.decision = "auto_block"
        PROVE  \/ r.event.class \in KnownBadClasses
               \/ \E o \in observed' : /\ o \in observed' \cap r.event.parts
                                       /\ o.alert.class \in KnownBadClasses
                                       /\ o.alert.client = r.event.client
                                       /\ r.event.at - o.seen <= Window
    <3>1. CASE r \in received
      BY <1>2, <2>2, <3>1 DEF AttestedInv, AutoBlockIsAttested
    <3>2. CASE r.event \in OnItsWay /\ r.decision = Decide(r.event)
      <4>1. Attested(r.event) /\ KnownBadSignals(r.event) # {}
        BY <2>2, <3>2, BlocksOnKnownBad DEF AttestedInv
      <4>. QED BY <1>2, <4>1 DEF Attested, Attests
    <3>. QED BY <1>2, <3>1, <3>2
  <2>3. AutoBlockIsAttested'
    BY <2>2 DEF AutoBlockIsAttested
  <2>. QED BY <1>2, <2>1, <2>3 DEF AttestedInv
<1>3. ASSUME UNCHANGED <<received, observed>>, SignalsAreObserved', OnItsWay' \subseteq OnItsWay
      PROVE  AttestedInv'
  BY <1>2, <1>3
<1>4. ASSUME UNCHANGED <<received, observed, signals, queue, sending>>
      PROVE  AttestedInv'
  <2>1. SignalsAreObserved' /\ OnItsWay' = OnItsWay
    BY <1>4 DEF AttestedInv, SignalsAreObserved, OnItsWay
  <2>. QED BY <1>3, <1>4, <2>1
<1>5. ASSUME NEW s \in Sources, Source(s)
      PROVE  AttestedInv'
  <2>1. ASSUME NEW a \in Alerts, Check(s, a)
        PROVE  AttestedInv'
    BY <1>4, <2>1 DEF Check
  <2>2. ASSUME NEW at \in 1..MaxTime, ObserveAlone(s, at)
        PROVE  AttestedInv'
    <3>1. SignalsAreObserved' /\ observed \subseteq observed'
      BY <2>2, ObserveKeepsSignals DEF ObserveAlone, AttestedInv
    <3>2. received' = received /\ OnItsWay' = OnItsWay
      BY <2>2 DEF ObserveAlone, Observe, OnItsWay
    <3>. QED BY <1>2, <3>1, <3>2
  <2>3. ASSUME NEW at \in 1..MaxTime, ObserveComposite(s, at)
        PROVE  AttestedInv'
    <3>1. PICK comp : comp = Build(work[s].alert, Observed(s, at), at)
      OBVIOUS
    <3>2. Observe(s, at) /\ (queue' = queue \/ Send(comp)) /\ sending' = sending /\ received' = received
      BY <2>3, <3>1 DEF ObserveComposite, Observe
    <3>3. SignalsAreObserved' /\ observed \subseteq observed' /\ Attested(comp)'
      BY <3>1, <3>2, ObserveKeepsSignals, CompositeIsAttested DEF AttestedInv
    <3>4. OnItsWay' \subseteq OnItsWay \cup {comp}
      BY <3>2, SendOnlyAdds DEF OnItsWay, PathTypeOK
    <3>5. \A e \in OnItsWay' : Fresh(e)
      BY <3>3, <3>4
    <3>. QED BY <1>2, <3>2, <3>3, <3>5
  <2>4. CASE Forward(s)
    <3>1. PICK own : own = Event(work[s].alert, work[s].at)
      OBVIOUS
    <3>2. Send(own) /\ UNCHANGED <<signals, sending, received, observed>>
      BY <2>4, <3>1 DEF Forward
    <3>3. OnItsWay' \subseteq OnItsWay \cup {own} /\ Attested(own)'
      BY <3>1, <3>2, SendOnlyAdds, SingleIsAttested DEF PathTypeOK
    <3>4. SignalsAreObserved'
      BY <3>2 DEF SignalsAreObserved, AttestedInv
    <3>5. \A e \in OnItsWay' : Fresh(e)
      BY <3>3
    <3>. QED BY <1>2, <3>2, <3>4, <3>5
  <2>. QED BY <1>5, <2>1, <2>2, <2>3, <2>4 DEF Source
<1>6. CASE Sender
  <2>1. OnItsWay' \subseteq OnItsWay
    BY <1>6, SenderOnlyTakes DEF PathTypeOK
  <2>2. UNCHANGED <<signals, observed>>
    BY <1>6 DEF Sender, Take, DeliverOK, DeliverFails
  <2>3. received' = received \/ (sending # NoEvent /\ Receive(sending.event))
    BY <1>6 DEF Sender, Take, DeliverOK, DeliverFails
  <2>4. \A r \in received' : r \in received \/
          (r.event \in OnItsWay /\ r.decision = Decide(r.event))
    BY <2>3 DEF Receive, OnItsWay, Decide
  <2>5. SignalsAreObserved'
    BY <2>2 DEF SignalsAreObserved, AttestedInv
  <2>. QED BY <1>2, <2>1, <2>2, <2>4, <2>5
<1>7. CASE Restart
  <2>1. OnItsWay' = {}
    BY <1>7, EmptyQueue DEF Restart, OnItsWay
  <2>2. SignalsAreObserved' /\ UNCHANGED <<received, observed>>
    BY <1>7 DEF Restart, SignalsAreObserved, NoSignals
  <2>. QED BY <1>3, <2>1, <2>2
<1>8. CASE Feedback \/ Tick \/ UNCHANGED vars
  BY <1>4, <1>8 DEF Feedback, Tick, vars, pathVars
<1>. QED BY <1>5, <1>6, <1>7, <1>8 DEF Next

\* An automatic block rests on a feed match or a signature about the very
\* client it names, observed within the window: under the policy's default
\* known-bad gate, whatever its other settings, whichever alerts are raised,
\* and however sources, evictions, retries and restarts interleave.
THEOREM AutoBlockIsAttestedHolds ==
  ASSUME policy.AutoRequireKnownBad
  PROVE  Spec => []AutoBlockIsAttested
<1>1. Init => AttestedInv
  BY EmptyQueue DEF Init, AttestedInv, SignalsAreObserved, NoSignals, OnItsWay, AutoBlockIsAttested
<1>2. PathTypeOK /\ AttestedInv /\ [Next]_vars => AttestedInv'
  BY AttestedStep
<1>3. AttestedInv => AutoBlockIsAttested
  BY DEF AttestedInv
<1>. QED BY <1>1, <1>2, <1>3, PathTypes, PTL DEF Spec

-----------------------------------------------------------------------------
\* A step silences a key from its own time on, or leaves the silence as it is.
Silencing(k) ==
  Silences(k)' => (Silences(k) /\ since'[k] = since[k]) \/ since'[k] = now

LEMMA SuppressSilencing ==
  ASSUME FeedbackTypeOK, NEW sup \in [Keys -> 0..MaxTime], Suppress(sup), now' = now
  PROVE  \A k : Silencing(k)
<1> SUFFICES ASSUME NEW k, Silences(k)'
             PROVE  (Silences(k) /\ since'[k] = since[k]) \/ since'[k] = now
  BY DEF Silencing
<1>1. k \in Keys /\ sup[k] # Never /\ ~Expired(sup[k])
  BY DEF Suppress, Silences, Held, Expired
<1>2. since'[k] = IF sup[k] = suppressed[k] \/ Silences(k) THEN since[k] ELSE now
  BY <1>1 DEF Suppress
<1>3. sup[k] = suppressed[k] => Silences(k)
  BY <1>1 DEF Silences, Held
<1>. QED BY <1>2, <1>3

LEMMA LookUpSilencesNone ==
  ASSUME FeedbackTypeOK, NEW ioc, NEW client, LookUp(ioc, client), now' = now
  PROVE  \A k : Silences(k)' => Silences(k)
<1>1. \A k \in Keys : suppressed'[k] = Never \/ suppressed'[k] = suppressed[k]
  BY DEF LookUp, Suppress
<1>. QED BY <1>1 DEF Silences, Held, Expired

LEMMA StepSilences ==
  ASSUME PathTypeOK, [Next]_vars
  PROVE  (\A k : Silencing(k)) /\ now' \in now..(now + 1)
<1> USE DEF PathTypeOK
<1>1. ASSUME UNCHANGED <<now, suppressed, since>>
      PROVE  (\A k : Silencing(k)) /\ now' \in now..(now + 1)
  BY <1>1 DEF Silencing, Silences, Held, Expired, FeedbackTypeOK
<1>2. ASSUME NEW sup \in [Keys -> 0..MaxTime], Suppress(sup), now' = now
      PROVE  (\A k : Silencing(k)) /\ now' \in now..(now + 1)
  BY <1>2, SuppressSilencing DEF FeedbackTypeOK
<1>3. ASSUME NEW ioc, NEW client, LookUp(ioc, client), now' = now
      PROVE  (\A k : Silencing(k)) /\ now' \in now..(now + 1)
  <2> DEFINE sup == [k \in Keys |-> IF k \in Swept(ioc, client) THEN Never ELSE suppressed[k]]
  <2>1. sup \in [Keys -> 0..MaxTime]
    BY Constants DEF FeedbackTypeOK, Never
  <2>2. Suppress(sup)
    BY <1>3 DEF LookUp
  <2> HIDE DEF sup
  <2>. QED BY <1>2, <1>3, <2>1, <2>2
<1>4. ASSUME NEW s \in Sources, Source(s)
      PROVE  (\A k : Silencing(k)) /\ now' \in now..(now + 1)
  <2>1. ASSUME NEW a \in Alerts, Check(s, a)
        PROVE  LookUp(a.ioc, a.client) /\ now' = now
    BY <2>1 DEF Check
  <2>2. ASSUME NEW at \in 1..MaxTime, ObserveAlone(s, at)
        PROVE  UNCHANGED <<now, suppressed, since>>
    BY <2>2 DEF ObserveAlone, Observe
  <2>3. ASSUME NEW at \in 1..MaxTime, ObserveComposite(s, at)
        PROVE  (\E ioc, client : LookUp(ioc, client)) /\ now' = now
    BY <2>3 DEF ObserveComposite, Observe
  <2>4. Forward(s) => UNCHANGED <<now, suppressed, since>>
    BY DEF Forward, feedbackVars
  <2>. QED BY <1>1, <1>3, <1>4, <2>1, <2>2, <2>3, <2>4 DEF Source
<1>5. CASE Sender \/ UNCHANGED vars
  BY <1>1, <1>5 DEF Sender, Take, DeliverOK, DeliverFails, vars, feedbackVars
<1>6. CASE Feedback
  <2>1. now' = now
    BY <1>6 DEF Feedback
  <2>2. ASSUME NEW k \in Keys, NEW kind \in Kinds, NEW at \in 1..MaxTime, Record(k, kind, at)
        PROVE  \E sup \in [Keys -> 0..MaxTime] : Suppress(sup)
    BY <2>2, RecordSuppresses
  <2>3. ASSUME NEW v \in toLoad, ApplyLoaded(v)
        PROVE  \E sup \in [Keys -> 0..MaxTime] : Suppress(sup)
    BY <2>3, ApplySuppresses
  <2>4. LoadQuery \/ ServeHTTP \/ (\E v \in writes : Persist(v) \/ PersistFails(v)) =>
          UNCHANGED <<suppressed, since>>
    BY DEF LoadQuery, ServeHTTP, Persist, PersistFails
  <2>. QED BY <1>1, <1>2, <1>6, <2>1, <2>2, <2>3, <2>4 DEF Feedback
<1>7. CASE Tick
  <2>1. now' = now + 1 /\ now \in Nat /\ UNCHANGED <<suppressed, since>>
    BY <1>7 DEF Tick, feedbackVars, FeedbackTypeOK
  <2>2. \A k \in Keys : suppressed[k] \in Int
    BY Constants DEF FeedbackTypeOK
  <2>3. \A k : Silencing(k)
    BY <2>1, <2>2, Constants DEF Silencing, Silences, Held, Expired
  <2>. QED BY <2>1, <2>3
<1>8. CASE Restart
  <2> DEFINE none == [k \in Keys |-> Never]
  <2>1. none \in [Keys -> 0..MaxTime]
    BY Constants DEF Never
  <2>2. Suppress(none) /\ now' = now
    BY <1>8 DEF Restart, FeedbackRestart
  <2> HIDE DEF none
  <2>. QED BY <1>2, <2>1, <2>2
<1>. QED BY <1>4, <1>5, <1>6, <1>7, <1>8 DEF Next

\* What was checked stays checked.
LEMMA CheckedStays ==
  ASSUME PathTypeOK, NEW ioc, NEW client, NEW at, CheckedBefore(ioc, client, at),
         \A k : Silencing(k), now' \in now..(now + 1)
  PROVE  CheckedBefore(ioc, client, at)'
<1>1. at \in 1..now /\ at <= now' /\ now \in Nat
  BY DEF CheckedBefore, PathTypeOK, FeedbackTypeOK
<1>2. ASSUME NEW k \in Candidates(ioc, client), Silences(k)'
      PROVE  since'[k] >= at
  BY <1>1, <1>2 DEF CheckedBefore, Silencing
<1>. QED BY <1>1, <1>2 DEF CheckedBefore

LEMMA SilenceStep ==
  ASSUME PathTypeOK, CheckedInv, [Next]_vars
  PROVE  CheckedInv'
<1>1. (\A k : Silencing(k)) /\ now' \in now..(now + 1) /\ now \in 1..MaxTime
  BY StepSilences DEF PathTypeOK, FeedbackTypeOK
<1> DEFINE WorkOK(s) == Busy(s) => CheckedBefore(work[s].alert.ioc, work[s].alert.client, work[s].at)
<1>2. ASSUME NEW s \in Sources, step'[s] = "idle" \/ (Busy(s) /\ work'[s] = work[s])
      PROVE  WorkOK(s)'
  <2>1. CASE step'[s] = "idle"
    BY <2>1 DEF Busy
  <2>2. CASE Busy(s) /\ work'[s] = work[s]
    <3>1. PICK w : w = work[s]
      OBVIOUS
    <3>2. CheckedBefore(w.alert.ioc, w.alert.client, w.at)
      BY <2>2, <3>1 DEF CheckedInv
    <3>3. CheckedBefore(w.alert.ioc, w.alert.client, w.at)'
      <4>1. PICK ioc, client, at : ioc = w.alert.ioc /\ client = w.alert.client /\ at = w.at
        OBVIOUS
      <4>. QED BY <1>1, <3>2, <4>1, CheckedStays
    <3>. QED BY <2>2, <3>1, <3>3
  <2>. QED BY <1>2, <2>1, <2>2
<1>3. ASSUME NEW e \in OnItsWay
      PROVE  CheckedBefore(e.ioc, e.client, e.at)'
  <2>1. CheckedBefore(e.ioc, e.client, e.at)
    BY DEF CheckedInv
  <2>. QED BY <1>1, <2>1, CheckedStays
<1>4. ASSUME \A s \in Sources : step'[s] = "idle" \/ (Busy(s) /\ work'[s] = work[s]) \/ WorkOK(s)',
             \A e \in OnItsWay' : e \in OnItsWay \/ CheckedBefore(e.ioc, e.client, e.at)'
      PROVE  CheckedInv'
  BY <1>2, <1>3, <1>4 DEF CheckedInv
<1>5. ASSUME UNCHANGED <<step, work>>, OnItsWay' \subseteq OnItsWay
      PROVE  CheckedInv'
  BY <1>4, <1>5 DEF Busy
<1>6. ASSUME NEW s \in Sources, Source(s)
      PROVE  CheckedInv'
  <2>1. \A r \in Sources \ {s} : step'[r] = step[r] /\ work'[r] = work[r]
    BY <1>6 DEF Source, Check, ObserveAlone, ObserveComposite, Observe, Forward, Finish,
       PathTypeOK, SourcesTypeOK
  <2>2. ASSUME NEW a \in Alerts, Check(s, a)
        PROVE  CheckedInv'
    <3>1. OnItsWay' = OnItsWay
      BY <2>2 DEF Check, OnItsWay
    <3>2. CASE IsSuppressed(a.ioc, a.client)
      BY <1>5, <2>2, <3>1, <3>2 DEF Check
    <3>3. CASE ~IsSuppressed(a.ioc, a.client)
      <4>1. work'[s] = [alert |-> a, at |-> now] /\ now' = now
        BY <2>2, <3>3 DEF Check, PathTypeOK, SourcesTypeOK
      <4>2. LookUp(a.ioc, a.client)
        BY <2>2 DEF Check
      <4>3. \A k \in Candidates(a.ioc, a.client) : ~Silences(k)'
        BY <3>3, <4>1, <4>2, LookUpSilencesNone DEF IsSuppressed, PathTypeOK
      <4>4. PICK ioc, client, at : ioc = a.ioc /\ client = a.client /\ at = now
        OBVIOUS
      <4>5. CheckedBefore(ioc, client, at)'
        BY <1>1, <4>1, <4>3, <4>4 DEF CheckedBefore
      <4>6. WorkOK(s)'
        BY <4>1, <4>4, <4>5
      <4>. QED BY <1>4, <2>1, <3>1, <4>6 DEF Busy
    <3>. QED BY <3>2, <3>3
  <2>3. ASSUME NEW at \in 1..MaxTime, ObserveAlone(s, at)
        PROVE  CheckedInv'
    <3>1. OnItsWay' = OnItsWay /\ work' = work /\ Busy(s)
      BY <2>3 DEF ObserveAlone, Observe, OnItsWay, Busy
    <3>. QED BY <1>4, <2>1, <3>1 DEF Busy
  <2>4. ASSUME NEW at \in 1..MaxTime, ObserveComposite(s, at)
        PROVE  CheckedInv'
    <3>1. PICK comp : comp = Build(work[s].alert, Observed(s, at), at)
      OBVIOUS
    <3>2. step'[s] = "idle"
      BY <2>4 DEF ObserveComposite, Finish, PathTypeOK, SourcesTypeOK
    <3>3. /\ LookUp(comp.ioc, comp.client) /\ now' = now /\ sending' = sending
          /\ queue' = queue \/ (~IsSuppressed(comp.ioc, comp.client) /\ Send(comp))
      BY <2>4, <3>1 DEF ObserveComposite, Observe
    <3>4. CASE queue' = queue
      BY <1>4, <2>1, <3>2, <3>3, <3>4 DEF OnItsWay, Busy
    <3>5. CASE ~IsSuppressed(comp.ioc, comp.client) /\ Send(comp)
      <4>1. \A k \in Candidates(comp.ioc, comp.client) : ~Silences(k)'
        BY <3>3, <3>5, LookUpSilencesNone DEF IsSuppressed, PathTypeOK
      <4>2. comp.at = at
        BY <3>1 DEF Build
      <4>3. at \in 1..now
        BY <1>1, <2>4 DEF ObserveComposite, Observe, CheckedInv, CheckedBefore, Busy
      <4>4. CheckedBefore(comp.ioc, comp.client, comp.at)'
        BY <1>1, <3>3, <4>1, <4>2, <4>3 DEF CheckedBefore
      <4>5. OnItsWay' \subseteq OnItsWay \cup {comp}
        BY <3>3, <3>5, SendOnlyAdds DEF PathTypeOK
      <4>. QED BY <1>4, <2>1, <3>2, <4>4, <4>5 DEF Busy
    <3>. QED BY <3>3, <3>4, <3>5
  <2>5. CASE Forward(s)
    <3>1. PICK own : own = Event(work[s].alert, work[s].at)
      OBVIOUS
    <3>2. Send(own) /\ sending' = sending /\ Busy(s)
      BY <2>5, <3>1 DEF Forward, Busy
    <3>3. OnItsWay' \subseteq OnItsWay \cup {own}
      BY <3>2, SendOnlyAdds DEF PathTypeOK
    <3>4. CheckedBefore(own.ioc, own.client, own.at)
      BY <3>1, <3>2 DEF CheckedInv, Event
    <3>5. CheckedBefore(own.ioc, own.client, own.at)'
      BY <1>1, <3>4, CheckedStays
    <3>6. step'[s] = "idle"
      BY <2>5 DEF Forward, Finish, PathTypeOK, SourcesTypeOK
    <3>. QED BY <1>4, <2>1, <3>3, <3>5, <3>6 DEF Busy
  <2>. QED BY <1>6, <2>2, <2>3, <2>4, <2>5 DEF Source
<1>7. CASE Sender
  BY <1>5, <1>7, SenderOnlyTakes DEF Sender, Take, DeliverOK, DeliverFails, PathTypeOK
<1>8. CASE Feedback \/ Tick \/ UNCHANGED vars
  BY <1>5, <1>8 DEF Feedback, Tick, vars, pathVars, OnItsWay
<1>9. CASE Restart
  BY <1>9, EmptyQueue DEF Restart, CheckedInv, OnItsWay, Busy
<1>. QED BY <1>6, <1>7, <1>8, <1>9 DEF Next

\* No event is on its way to the controller whose indicator was silenced for
\* its client when the alert was looked up: a silence in force on it began
\* later.  It holds through restarts and whatever the verdicts' timestamps.
THEOREM SilencedIsNotSentHolds == Spec => []SilencedIsNotSent
<1>1. Init => CheckedInv
  BY EmptyQueue DEF Init, FeedbackInit, CheckedInv, OnItsWay, Busy
<1>2. CheckedInv => SilencedIsNotSent
  BY DEF CheckedInv, CheckedBefore, Candidates, SilencedIsNotSent
<1>. QED BY <1>1, <1>2, SilenceStep, PathTypes, PTL DEF Spec

-----------------------------------------------------------------------------
\* What a look-up and the passing of time leave to the verdicts.
FeedbackStays == UNCHANGED <<boot, writes, rows, toLoad, known>>

LEMMA GovernsStays ==
  ASSUME PathTypeOK, GovernInv, FeedbackStays, now' \in {now, now + 1},
         \A k \in Keys : \/ suppressed'[k] = suppressed[k]
                         \/ suppressed'[k] = Never /\ Expired(suppressed[k])
  PROVE  GovernInv'
<1>1. LoadInv'
  BY DEF FeedbackStays, GovernInv, LoadInv
<1>2. now \in Nat /\ suppressed \in [Keys -> 0..MaxTime]
  BY DEF PathTypeOK, FeedbackTypeOK
<1>3. Applied' = Applied
  BY DEF FeedbackStays, Applied, KeysOf
<1>4. KeysInv'
  <2>1. Held' \subseteq Held
    BY DEF Held
  <2>2. KeysOf(known)' = KeysOf(known) /\ KeysOf(rows)' = KeysOf(rows)
    BY DEF FeedbackStays, KeysOf
  <2>. QED BY <1>3, <2>1, <2>2 DEF GovernInv, KeysInv
<1>5. ASSUME NEW v \in known, Governs(v)
      PROVE  Governs(v)'
  <2>1. v.key \in Keys /\ v.at \in Nat
    BY Constants DEF PathTypeOK, FeedbackTypeOK, Verdicts
  <2>2. Expired(v.at) => Expired(v.at)'
    BY <1>2, <2>1, Constants DEF Expired
  <2>3. \/ suppressed'[v.key] = suppressed[v.key]
        \/ suppressed'[v.key] = Never /\ Expired(suppressed[v.key])
    BY <2>1
  <2>. QED BY <1>5, <2>2, <2>3 DEF Governs
<1>6. AppliedGovern'
  BY <1>3, <1>5 DEF AppliedGovern, Latest, FeedbackStays, GovernInv
<1>. QED BY <1>1, <1>4, <1>6 DEF GovernInv

LEMMA KeysAdd ==
  ASSUME NEW S, NEW v
  PROVE  /\ KeysOf(S \cup {v}) = KeysOf(S) \cup {v.key}
         /\ IsFiniteSet(KeysOf(S)) => IsFiniteSet(KeysOf(S \cup {v}))
<1>1. KeysOf(S \cup {v}) = KeysOf(S) \cup {v.key}
  BY DEF KeysOf
<1>. QED BY <1>1, FS_AddElement

LEMMA GovernRecord ==
  ASSUME PathTypeOK, GovernInv, NEW k \in Keys, NEW kind \in Kinds, NEW at \in 1..MaxTime,
         Record(k, kind, at), now' = now
  PROVE  GovernInv'
<1>1. PICK v : v = [key |-> k, verdict |-> kind, at |-> at]
  OBVIOUS
<1>2. /\ v.key = k /\ v.verdict = kind /\ v.at = at
      /\ boot = "up" /\ toLoad = {} /\ UNCHANGED <<boot, rows, toLoad>>
      /\ writes' = writes \cup {v} /\ known' = {w \in known : w.key # k} \cup {v}
      /\ at # Never
  BY <1>1, Constants DEF Record, GovernInv, LoadInv, PathTypeOK, FeedbackTypeOK, Never
<1>3. LoadInv'
  BY <1>2 DEF LoadInv
<1>4. Applied = KeysOf(known) /\ Applied' = Applied \cup {k}
  <2>1. KeysOf(toLoad) = {} /\ KeysOf(toLoad)' = {}
    BY <1>2 DEF KeysOf
  <2>2. KeysOf(known)' = KeysOf(known) \cup {k}
    BY <1>2 DEF KeysOf
  <2>. QED BY <2>1, <2>2 DEF Applied
<1>5. \A x \in Keys : suppressed'[x] =
        IF x = k THEN IF kind = "false_positive" THEN at ELSE Never ELSE suppressed[x]
  BY DEF Record, Suppress, PathTypeOK, FeedbackTypeOK
<1>6. KeysInv'
  <2>1. Held' \subseteq Held \cup {k}
    BY <1>5 DEF Held
  <2>2. IsFiniteSet(KeysOf(known)') /\ KeysOf(rows)' = KeysOf(rows)
    <3>1. IsFiniteSet(Applied \cup {k})
      BY <1>4, FS_AddElement DEF GovernInv, KeysInv
    <3>2. KeysOf(known)' = KeysOf(known) \cup {k}
      BY <1>2 DEF KeysOf
    <3>. QED BY <1>2, <1>4, <3>1, <3>2 DEF KeysOf
  <2>. QED BY <1>4, <2>1, <2>2 DEF GovernInv, KeysInv
<1>7. ASSUME Cardinality(Applied') <= MaxSuppressions, NEW x \in Applied', NEW w \in known',
             Latest(x, w)'
      PROVE  Governs(w)'
  <2>1. w.key = x /\ w.key \in Keys /\ \A u \in known' : u.key = x => u = w \/ u.at < w.at
    BY <1>2, <1>7 DEF Latest, PathTypeOK, FeedbackTypeOK, Verdicts
  <2>2. CASE x = k
    <3>1. w = v
      <4>1. w \in {u \in known : u.key # k} \cup {v}
        BY <1>2
      <4>. QED BY <2>1, <2>2, <4>1
    <3>. QED BY <1>2, <1>5, <2>1, <2>2, <3>1 DEF Governs, Kinds
  <2>3. CASE x # k
    <3>1. x \in Applied /\ w \in known
      BY <1>2, <1>4, <1>7, <2>1, <2>3
    <3>2. Cardinality(Applied) <= MaxSuppressions
      <4>1. IsFiniteSet(Applied)
        BY <1>4 DEF GovernInv, KeysInv
      <4>2. /\ Cardinality(Applied) \in Nat
            /\ Cardinality(Applied') \in {Cardinality(Applied), Cardinality(Applied) + 1}
        BY <1>4, <4>1, FS_AddElement, FS_CardinalityType
      <4>. QED BY <1>7, <4>2, Constants
    <3>3. Latest(x, w)
      <4>1. \A u \in known : u.key = x => u \in known'
        BY <1>2, <2>3
      <4>. QED BY <2>1, <3>1, <4>1 DEF Latest
    <3>4. Governs(w)
      BY <3>1, <3>2, <3>3 DEF GovernInv, AppliedGovern
    <3>5. suppressed'[w.key] = suppressed[w.key]
      BY <1>5, <2>1, <2>3
    <3>. QED BY <3>4, <3>5 DEF Governs, Expired
  <2>. QED BY <2>2, <2>3
<1>8. AppliedGovern'
  BY <1>7 DEF AppliedGovern
<1>. QED BY <1>3, <1>6, <1>8 DEF GovernInv

LEMMA GovernPersist ==
  ASSUME PathTypeOK, GovernInv, NEW v \in writes, Persist(v) \/ PersistFails(v), now' = now
  PROVE  GovernInv'
<1>1. /\ UNCHANGED <<boot, suppressed, toLoad, known>>
      /\ rows' \in {rows, rows \cup {v}} /\ writes' \subseteq writes
  BY DEF Persist, PersistFails
<1>2. LoadInv' /\ Applied' = Applied /\ Held' = Held /\ KeysOf(known)' = KeysOf(known)
  BY <1>1 DEF GovernInv, LoadInv, Applied, KeysOf, Held
<1>3. IsFiniteSet(KeysOf(rows)')
  <2>1. IsFiniteSet(KeysOf(rows)) /\ IsFiniteSet(KeysOf(rows \cup {v}))
    BY KeysAdd DEF GovernInv, KeysInv
  <2>. QED BY <1>1, <2>1 DEF KeysOf
<1>4. KeysInv'
  BY <1>1, <1>2, <1>3 DEF GovernInv, KeysInv
<1>5. AppliedGovern'
  BY <1>1, <1>2 DEF GovernInv, AppliedGovern, Latest, Governs, Expired
<1>. QED BY <1>2, <1>4, <1>5 DEF GovernInv

LEMMA GovernQuery ==
  ASSUME PathTypeOK, GovernInv, LoadQuery, now' = now
  PROVE  GovernInv'
<1>1. PICK pick \in [KeysOf(rows) -> rows] :
        /\ \A k \in KeysOf(rows) : pick[k] \in Newest(k)
        /\ toLoad' = {pick[k] : k \in KeysOf(rows)}
  BY DEF LoadQuery, KeysOf
<1>2. /\ boot = "query" /\ boot' = "apply" /\ known' = rows
      /\ UNCHANGED <<suppressed, writes, rows>>
  BY DEF LoadQuery
<1>3. \A k \in KeysOf(rows) : pick[k] \in rows /\ pick[k].key = k
                              /\ \A w \in rows : w.key = k => w.at <= pick[k].at
  BY <1>1 DEF Newest
<1>4. LoadInv'
  <2>1. \A v \in toLoad' : v \in rows /\ \A w \in rows : w.key = v.key => w.at <= v.at
    BY <1>1, <1>3
  <2>2. \A v, w \in toLoad' : v.key = w.key => v = w
    BY <1>1, <1>3
  <2>. QED BY <1>2, <2>1, <2>2 DEF LoadInv
<1>5. Applied' = {}
  <2>1. \A k \in KeysOf(rows) : pick[k] \in toLoad' /\ pick[k].key = k
    BY <1>1, <1>3
  <2>2. KeysOf(rows) \subseteq KeysOf(toLoad)'
    BY <2>1 DEF KeysOf
  <2>3. KeysOf(known)' = KeysOf(rows)
    BY <1>2 DEF KeysOf
  <2>. QED BY <2>2, <2>3 DEF Applied
<1>6. Held' = {}
  <2>1. known = {}
    BY <1>2 DEF GovernInv, LoadInv
  <2>2. Held = {}
    BY <2>1 DEF GovernInv, KeysInv, Applied, KeysOf
  <2>. QED BY <1>2, <2>2 DEF Held
<1>7. KeysInv'
  BY <1>2, <1>5, <1>6 DEF GovernInv, KeysInv, KeysOf
<1>8. AppliedGovern'
  BY <1>5 DEF AppliedGovern
<1>. QED BY <1>4, <1>7, <1>8 DEF GovernInv

\* The cap turns no loaded verdict away while it has room for all: the keys
\* held are among those applied, and the one at hand is not yet.
LEMMA GovernApply ==
  ASSUME PathTypeOK, GovernInv, NEW v \in toLoad, ApplyLoaded(v), now' = now
  PROVE  GovernInv'
<1>1. /\ boot = "apply" /\ toLoad' = toLoad \ {v}
      /\ UNCHANGED <<boot, writes, rows, known>>
  BY DEF ApplyLoaded
<1>2. /\ v \in known /\ v.key \in Keys /\ v.verdict \in Kinds /\ v.at \in 1..MaxTime
      /\ \A w \in known : w.key = v.key => w.at <= v.at
      /\ \A w \in toLoad : w.key = v.key => w = v
  BY DEF GovernInv, LoadInv, PathTypeOK, FeedbackTypeOK, Verdicts
<1>3. LoadInv'
  BY <1>1 DEF GovernInv, LoadInv
<1>4. v.key \notin Applied /\ Applied' = Applied \cup {v.key}
  <2>1. v.key \in KeysOf(toLoad) /\ v.key \in KeysOf(known)
    BY <1>2 DEF KeysOf
  <2>2. KeysOf(toLoad)' = KeysOf(toLoad) \ {v.key}
    BY <1>1, <1>2 DEF KeysOf
  <2>3. KeysOf(known)' = KeysOf(known)
    BY <1>1 DEF KeysOf
  <2>. QED BY <2>1, <2>2, <2>3 DEF Applied
<1>5. v.key \notin Held /\ suppressed[v.key] = Never
  BY <1>2, <1>4 DEF GovernInv, KeysInv, Held
<1>6. suppressed \in [Keys -> 0..MaxTime]
  BY DEF PathTypeOK, FeedbackTypeOK
<1>7. \A k \in Keys : k # v.key => suppressed'[k] = suppressed[k]
  BY <1>6 DEF ApplyLoaded, Suppress
<1>8. KeysInv'
  <2>1. Held' \subseteq Held \cup {v.key}
    BY <1>7 DEF Held
  <2>2. KeysOf(known)' = KeysOf(known) /\ KeysOf(rows)' = KeysOf(rows)
    BY <1>1 DEF KeysOf
  <2>. QED BY <1>1, <1>4, <2>1, <2>2 DEF GovernInv, KeysInv
<1>9. ASSUME Cardinality(Applied') <= MaxSuppressions
      PROVE  /\ Cardinality(Applied) <= MaxSuppressions
             /\ Cardinality(Held) \in Nat /\ Cardinality(Held) < MaxSuppressions
  <2>1. IsFiniteSet(Applied)
    BY FS_Subset DEF Applied, GovernInv, KeysInv
  <2>2. Cardinality(Applied') = Cardinality(Applied) + 1 /\ Cardinality(Applied) \in Nat
    BY <1>4, <2>1, FS_AddElement, FS_CardinalityType
  <2>3. IsFiniteSet(Held) /\ Cardinality(Held) <= Cardinality(Applied)
    BY <2>1, FS_Subset DEF GovernInv, KeysInv
  <2>4. Cardinality(Held) \in Nat
    BY <2>3, FS_CardinalityType
  <2>. QED BY <1>9, <2>2, <2>3, <2>4, Constants
<1>10. ASSUME Cardinality(Applied') <= MaxSuppressions, NEW k \in Applied', NEW w \in known,
              Latest(k, w)
       PROVE  Governs(w)'
  <2>1. w.key = k /\ w.key \in Keys /\ \A u \in known : u.key = k => u = w \/ u.at < w.at
    BY <1>10 DEF Latest, PathTypeOK, FeedbackTypeOK, Verdicts
  <2>2. CASE k = v.key
    <3>1. w = v
      <4>1. w.at <= v.at /\ (v = w \/ v.at < w.at) /\ w.at \in 1..MaxTime
        BY <1>2, <2>1, <2>2 DEF PathTypeOK, FeedbackTypeOK, Verdicts
      <4>. QED BY <1>2, <4>1
    <3>2. CASE v.verdict = "confirmed"
      BY <1>2, <1>6, <3>1, <3>2 DEF ApplyLoaded, Suppress, Governs
    <3>3. CASE v.verdict # "confirmed" /\ Expired(v.at)
      <4>1. suppressed' = suppressed
        BY <3>3 DEF ApplyLoaded, Suppress
      <4>. QED BY <1>5, <3>1, <3>3, <4>1 DEF Governs, Expired
    <3>4. CASE v.verdict # "confirmed" /\ ~Expired(v.at)
      <4>1. ~(Cardinality(Held) >= MaxSuppressions)
        BY <1>9, <1>10, Constants
      <4>2. suppressed'[v.key] = v.at
        BY <1>2, <1>6, <3>4, <4>1 DEF ApplyLoaded, Suppress
      <4>. QED BY <3>1, <3>4, <4>2 DEF Governs
    <3>. QED BY <3>2, <3>3, <3>4
  <2>3. CASE k # v.key
    <3>1. k \in Applied
      BY <1>4, <1>10, <2>3
    <3>2. Governs(w)
      BY <1>9, <1>10, <3>1 DEF GovernInv, AppliedGovern
    <3>3. suppressed'[w.key] = suppressed[w.key]
      BY <1>7, <2>1, <2>3
    <3>. QED BY <3>2, <3>3 DEF Governs, Expired
  <2>. QED BY <2>2, <2>3
<1>11. AppliedGovern'
  <2>1. \A k, w : Latest(k, w)' => Latest(k, w)
    BY <1>1 DEF Latest
  <2>. QED BY <1>1, <1>10, <2>1 DEF AppliedGovern
<1>. QED BY <1>3, <1>8, <1>11 DEF GovernInv

LEMMA GovernServe ==
  ASSUME PathTypeOK, GovernInv, ServeHTTP, now' = now
  PROVE  GovernInv'
<1>1. /\ boot' = "up" /\ toLoad' = {} /\ UNCHANGED <<suppressed, writes, rows>>
      /\ known' = {v \in known : v.key \notin KeysOf(toLoad)}
  BY DEF ServeHTTP, KeysOf
<1>2. LoadInv'
  BY <1>1 DEF LoadInv
<1>3. KeysOf(known)' = Applied /\ Applied' = Applied
  <2>1. KeysOf(known)' = KeysOf(known) \ KeysOf(toLoad)
    BY <1>1 DEF KeysOf
  <2>2. KeysOf(toLoad)' = {}
    BY <1>1 DEF KeysOf
  <2>. QED BY <2>1, <2>2 DEF Applied
<1>4. KeysInv'
  <2>1. IsFiniteSet(Applied)
    BY FS_Subset DEF Applied, GovernInv, KeysInv
  <2>2. Held' = Held /\ KeysOf(rows)' = KeysOf(rows)
    BY <1>1 DEF Held, KeysOf
  <2>. QED BY <1>3, <2>1, <2>2 DEF GovernInv, KeysInv
<1>5. ASSUME NEW k \in Applied, NEW w \in known', Latest(k, w)'
      PROVE  w \in known /\ Latest(k, w)
  <2>1. w \in known /\ w.key = k
    BY <1>1, <1>5 DEF Latest
  <2>2. \A u \in known : u.key = k => u \in known'
    BY <1>1, <1>5 DEF Applied
  <2>. QED BY <1>5, <2>1, <2>2 DEF Latest
<1>6. AppliedGovern'
  <2>1. \A w : Governs(w) => Governs(w)'
    BY <1>1 DEF Governs, Expired
  <2>. QED BY <1>3, <1>5, <2>1 DEF GovernInv, AppliedGovern
<1>. QED BY <1>2, <1>4, <1>6 DEF GovernInv

LEMMA GovernStep ==
  ASSUME PathTypeOK, GovernInv, [Next]_vars
  PROVE  GovernInv'
<1>1. ASSUME UNCHANGED suppressed, FeedbackStays, now' \in {now, now + 1}
      PROVE  GovernInv'
  BY <1>1, GovernsStays
<1>2. ASSUME NEW ioc, NEW client, LookUp(ioc, client), FeedbackStays, now' = now
      PROVE  GovernInv'
  <2>1. \A k \in Keys : \/ suppressed'[k] = suppressed[k]
                        \/ suppressed'[k] = Never /\ Expired(suppressed[k])
    BY <1>2 DEF LookUp, Swept, Suppress
  <2>. QED BY <1>2, <2>1, GovernsStays
<1>3. ASSUME NEW s \in Sources, Source(s)
      PROVE  GovernInv'
  <2>1. ASSUME NEW a \in Alerts, Check(s, a)
        PROVE  LookUp(a.ioc, a.client) /\ FeedbackStays /\ now' = now
    BY <2>1 DEF Check, FeedbackStays
  <2>2. ASSUME NEW at \in 1..MaxTime, ObserveAlone(s, at)
        PROVE  UNCHANGED <<now, suppressed>> /\ FeedbackStays
    BY <2>2 DEF ObserveAlone, Observe, FeedbackStays
  <2>3. ASSUME NEW at \in 1..MaxTime, ObserveComposite(s, at)
        PROVE  (\E ioc, client : LookUp(ioc, client)) /\ FeedbackStays /\ now' = now
    BY <2>3 DEF ObserveComposite, Observe, FeedbackStays
  <2>4. Forward(s) => UNCHANGED <<now, suppressed>> /\ FeedbackStays
    BY DEF Forward, feedbackVars, FeedbackStays
  <2>. QED BY <1>1, <1>2, <1>3, <2>1, <2>2, <2>3, <2>4 DEF Source
<1>4. CASE Sender \/ UNCHANGED vars
  <2>1. UNCHANGED <<now, feedbackVars>>
    BY <1>4 DEF Sender, Take, DeliverOK, DeliverFails, vars
  <2>. QED BY <1>1, <2>1 DEF feedbackVars, FeedbackStays
<1>5. CASE Tick
  BY <1>1, <1>5 DEF Tick, feedbackVars, FeedbackStays
<1>6. CASE Feedback
  BY <1>6, GovernRecord, GovernPersist, GovernQuery, GovernApply, GovernServe DEF Feedback
<1>7. CASE Restart
  <2>1. /\ boot' = "query" /\ known' = {} /\ toLoad' = {} /\ writes' \subseteq writes
        /\ rows' = rows /\ now' = now /\ suppressed' = [k \in Keys |-> Never]
    BY <1>7 DEF Restart, FeedbackRestart, Suppress
  <2>2. LoadInv'
    BY <2>1 DEF LoadInv
  <2>3. Applied' = {} /\ Held' = {} /\ KeysOf(known)' = {} /\ KeysOf(rows)' = KeysOf(rows)
    BY <2>1 DEF Applied, KeysOf, Held
  <2>4. KeysInv'
    BY <2>1, <2>3, FS_EmptySet DEF GovernInv, KeysInv
  <2>5. AppliedGovern'
    BY <2>3 DEF AppliedGovern
  <2>. QED BY <2>2, <2>4, <2>5 DEF GovernInv
<1>. QED BY <1>3, <1>4, <1>5, <1>6, <1>7 DEF Next

\* Whether a running process silences a key is decided by the last verdict it
\* took on the key, whatever its timestamp, and before it took any by the newest
\* it found in ClickHouse, however verdicts, late inserts, crashes and reloads
\* interleave (Record, LoadInto, applyLoaded); keys two loaded verdicts of which
\* share the newest second, and processes that know verdicts on more keys than
\* the cap, aside.
THEOREM VerdictsGovernHolds == Spec => []VerdictsGovern
<1>1. Init => GovernInv
  <2> SUFFICES ASSUME Init PROVE GovernInv
    OBVIOUS
  <2>1. /\ boot = "up" /\ known = {} /\ toLoad = {} /\ writes = {} /\ rows = {}
        /\ suppressed = [k \in Keys |-> Never]
    BY DEF Init, FeedbackInit
  <2>2. Applied = {} /\ Held = {} /\ KeysOf(known) = {} /\ KeysOf(rows) = {}
    BY <2>1 DEF Applied, KeysOf, Held
  <2>. QED BY <2>1, <2>2, FS_EmptySet DEF GovernInv, LoadInv, KeysInv, AppliedGovern
<1>2. PathTypeOK /\ GovernInv => VerdictsGovern
  <2> SUFFICES ASSUME PathTypeOK, GovernInv, boot = "up",
                      Cardinality({v.key : v \in known}) <= MaxSuppressions,
                      NEW k \in Keys, NEW v \in known, Latest(k, v)
               PROVE  Silences(k) <=> v.verdict = "false_positive" /\ ~Expired(v.at)
    BY DEF VerdictsGovern
  <2>1. toLoad = {} /\ Applied = {w.key : w \in known} /\ v.key = k
    BY DEF GovernInv, LoadInv, Applied, KeysOf, Latest
  <2>2. Governs(v)
    BY <2>1 DEF GovernInv, AppliedGovern
  <2>3. v.verdict \in Kinds /\ v.at \in 1..MaxTime /\ v.at # Never
    BY Constants DEF PathTypeOK, FeedbackTypeOK, Verdicts, Never
  <2>. QED BY <2>1, <2>2, <2>3 DEF Governs, Silences, Held, Kinds
<1>. QED BY <1>1, <1>2, GovernStep, PathTypes, PTL DEF Spec
=============================================================================
