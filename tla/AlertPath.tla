----------------------------- MODULE AlertPath ------------------------------
(***************************************************************************)
(* The path of an alert through detection-engine and into the policy of    *)
(* killswitch-controller: the goroutines that raise alerts (the AdGuard    *)
(* engine, the sensor pollers), the false-positive suppressions, the       *)
(* composite correlator, the bounded queue and the goroutine of the        *)
(* webhook sender, and the decision at the other end.                      *)
(*                                                                         *)
(* A source handles one alert at a time, in the steps main's OnAlert is    *)
(* made of: look the suppressions up, observe, forward.  The sources and   *)
(* the analysts' verdicts interleave between these steps.                  *)
(***************************************************************************)
EXTENDS Feedback, Composite

CONSTANTS
  Sources,      \* goroutines that call Engine.OnAlert
  Alerts,       \* the single-signal alerts they may raise
  Env,          \* the controller's policy settings
  Allowlist,    \* entries of the controller's allowlist
  QueueSize,    \* capacity of the sender's channel
  Retries,      \* retries of a failed delivery
  Failures,     \* how a delivery may fail
  MaxRaised,    \* bound on the alerts one behaviour raises
  MaxRestarts,  \* bound on the restarts of detection-engine
  NoEvent       \* what the sender holds between deliveries

\* "refused": no answer, or a 5xx; "rejected": a 4xx; "lost": the controller
\* handled the event and the sender saw an error.
FailureModes == {"refused", "rejected", "lost"}

ASSUME AlertPathAssumption ==
  /\ \A a \in Alerts :
       /\ a.client \in Clients
       /\ a.ioc \in Indicators
       /\ a.class \in SignalClasses
       /\ a.confidence \in 0..100
       /\ a.severity \in Severities
  /\ QueueSize \in Nat \ {0}
  /\ Retries \in Nat
  /\ Failures \subseteq FailureModes
  /\ MaxRaised \in Nat
  /\ MaxRestarts \in Nat

VARIABLES
  step,      \* where in OnAlert each source stands
  work,      \* the alert it has in hand, with the time it was checked at
  queue,     \* the sender's channel
  sending,   \* the event the sender delivers and the attempts it has failed
  received,  \* history: events the controller evaluated, and its decision
  observed,  \* history: the alerts the correlator took in, with the time
  raised,    \* history: how many alerts were raised
  restarts   \* history: restarts so far

pathVars == <<step, work, queue, sending, received, observed, raised, restarts>>
vars == <<now, feedbackVars, signals, pathVars>>

policy == LoadFromEnv(Env)

Event(a, at) ==
  [client |-> a.client, ioc |-> a.ioc, class |-> a.class, confidence |-> a.confidence,
   severity |-> a.severity, signals |-> {}, parts |-> {[alert |-> a, seen |-> at]}, at |-> at]

Init ==
  /\ FeedbackInit
  /\ signals  = [cl \in Clients |-> NoSignals]
  /\ step     = [s \in Sources |-> "idle"]
  /\ work     = [s \in Sources |-> NoEvent]
  /\ queue    = <<>>
  /\ sending  = NoEvent
  /\ received = {}
  /\ observed = {}
  /\ raised   = 0
  /\ restarts = 0

-----------------------------------------------------------------------------
\* OnAlert up to its Observe: a silenced alert goes no further.
Check(s, a) ==
  /\ step[s] = "idle"
  /\ raised < MaxRaised
  /\ raised' = raised + 1
  /\ LookUp(a.ioc, a.client)
  /\ IF IsSuppressed(a.ioc, a.client) THEN UNCHANGED <<step, work>>
     ELSE /\ step' = [step EXCEPT ![s] = "observe"]
          /\ work' = [work EXCEPT ![s] = [alert |-> a, at |-> now]]
  /\ UNCHANGED <<now, boot, writes, rows, toLoad, known, given, signals, queue, sending, received,
                 observed, restarts>>

\* Sender.Send never blocks: an event is dropped when the channel is full.
Send(e) == queue' = IF Len(queue) < QueueSize THEN Append(queue, e) ELSE queue

Finish(s) ==
  /\ step' = [step EXCEPT ![s] = "idle"]
  /\ work' = [work EXCEPT ![s] = NoEvent]

\* What a source's alert makes of its client's signals, at the time Observe read.
Observed(s, at) == Upsert(Pruned(signals[work[s].alert.client], at), work[s].alert, at)

Observe(s, at) ==
  /\ step[s] = "observe"
  /\ at \in work[s].at..now
  /\ \E gone \in Evicted([signals EXCEPT ![work[s].alert.client] = Observed(s, at)]) :
       signals' = Without([signals EXCEPT ![work[s].alert.client] = Observed(s, at)], gone)
  /\ observed' = observed \cup {[alert |-> work[s].alert, seen |-> at]}
  /\ UNCHANGED <<now, boot, writes, rows, toLoad, known, given, sending, received, raised,
                 restarts>>

\* The alert stays a single signal.
ObserveAlone(s, at) ==
  /\ Observe(s, at)
  /\ ~Corroborates(Observed(s, at))
  /\ step' = [step EXCEPT ![s] = "forward"]
  /\ UNCHANGED <<suppressed, since, work, queue>>

\* A composite takes its place, unless the composite is silenced.
ObserveComposite(s, at) ==
  LET comp == Build(work[s].alert, Observed(s, at), at)
  IN /\ Observe(s, at)
     /\ Corroborates(Observed(s, at))
     /\ LookUp(comp.ioc, comp.client)
     /\ IF IsSuppressed(comp.ioc, comp.client) THEN UNCHANGED queue ELSE Send(comp)
     /\ Finish(s)

Forward(s) ==
  /\ step[s] = "forward"
  /\ Send(Event(work[s].alert, work[s].at))
  /\ Finish(s)
  /\ UNCHANGED <<now, feedbackVars, signals, sending, received, observed, raised, restarts>>

-----------------------------------------------------------------------------
\* Sender.Run and deliver.
Take ==
  /\ sending = NoEvent
  /\ queue # <<>>
  /\ sending' = [event |-> Head(queue), attempt |-> 0]
  /\ queue' = Tail(queue)
  /\ UNCHANGED <<now, feedbackVars, signals, step, work, received, observed, raised, restarts>>

Receive(e) ==
  received' = received \cup {[event |-> e, decision |-> Evaluate(policy, Allowlist, e)]}

\* Fault: the count starts over, so only an answer ends the loop.
RetryForever == sending' = [sending EXCEPT !.attempt = (@ + 1) % (Retries + 1)]

\* Fault: one attempt too many.
RetryOnceMore ==
  sending' = IF sending.attempt <= Retries THEN [sending EXCEPT !.attempt = @ + 1] ELSE NoEvent

Retry ==
  sending' = IF sending.attempt < Retries THEN [sending EXCEPT !.attempt = @ + 1] ELSE NoEvent

DeliverOK ==
  /\ sending # NoEvent
  /\ Receive(sending.event)
  /\ sending' = NoEvent
  /\ UNCHANGED <<now, feedbackVars, signals, step, work, queue, observed, raised, restarts>>

DeliverFails(mode) ==
  /\ sending # NoEvent
  /\ mode \in Failures
  /\ IF mode = "lost" THEN Receive(sending.event) ELSE UNCHANGED received
  /\ IF mode = "rejected" THEN sending' = NoEvent ELSE Retry
  /\ UNCHANGED <<now, feedbackVars, signals, step, work, queue, observed, raised, restarts>>

-----------------------------------------------------------------------------
Tick ==
  /\ now < MaxTime
  /\ now' = now + 1
  /\ UNCHANGED <<feedbackVars, signals, pathVars>>

\* detection-engine dies and starts again: only ClickHouse keeps anything.
Restart ==
  /\ restarts < MaxRestarts
  /\ restarts' = restarts + 1
  /\ FeedbackRestart
  /\ signals' = [cl \in Clients |-> NoSignals]
  /\ step'    = [s \in Sources |-> "idle"]
  /\ work'    = [s \in Sources |-> NoEvent]
  /\ queue'   = <<>>
  /\ sending' = NoEvent
  /\ UNCHANGED <<now, received, observed, raised>>

Feedback ==
  /\ \/ \E k \in Keys, kind \in Kinds, at \in 1..MaxTime : Record(k, kind, at)
     \/ \E v \in writes : Persist(v) \/ PersistFails(v)
     \/ LoadQuery
     \/ \E v \in toLoad : ApplyLoaded(v)
     \/ ServeHTTP
  /\ UNCHANGED <<now, signals, pathVars>>

Source(s) ==
  \/ \E a \in Alerts : Check(s, a)
  \/ \E at \in 1..MaxTime : ObserveAlone(s, at) \/ ObserveComposite(s, at)
  \/ Forward(s)

Sender ==
  \/ Take
  \/ DeliverOK
  \/ \E mode \in FailureModes : DeliverFails(mode)

Next ==
  \/ \E s \in Sources : Source(s)
  \/ Sender
  \/ Feedback
  \/ Tick
  \/ Restart

Spec == Init /\ [][Next]_vars

\* The sender is one goroutine in a loop that every delivery comes back from.
FairSpec == Spec /\ WF_vars(Sender)

-----------------------------------------------------------------------------
\* Type correctness of the whole path.
TypeOK ==
  /\ FeedbackTypeOK
  /\ \A cl \in Clients, c \in SignalClasses :
       \/ signals[cl][c] = NoSignal
       \/ /\ signals[cl][c].alert \in Alerts
          /\ signals[cl][c].seen \in 1..MaxTime
  /\ \A s \in Sources :
       \/ step[s] = "idle" /\ work[s] = NoEvent
       \/ /\ step[s] \in {"observe", "forward"}
          /\ work[s].alert \in Alerts
          /\ work[s].at \in 1..MaxTime
  /\ Len(queue) <= QueueSize
  /\ sending = NoEvent \/ sending.attempt \in 0..Retries
  /\ \A r \in received : r.decision \in {"auto_block", "pending", "ignore"}
  /\ raised \in 0..MaxRaised
  /\ restarts \in 0..MaxRestarts

\* An auto-block rests on a feed match or a signature about the very client it
\* names, observed no longer than the window before (policy.go's known-bad
\* gate, composite.go's window and correlation key).
AutoBlockIsAttested ==
  \A r \in received : r.decision = "auto_block" =>
    \/ r.event.class \in KnownBadClasses
    \/ \E o \in observed \cap r.event.parts :
         /\ o.alert.class \in KnownBadClasses
         /\ o.alert.client = r.event.client
         /\ r.event.at - o.seen <= Window

\* An event on its way to the controller whose indicator is silenced for its
\* client was looked up before the silence began: from then on, for as long as
\* it lasts, no alert of the kind is handed to the sender, also across restarts
\* and whatever the verdicts' timestamps (main.go's OnAlert and the correlator's
\* Emit, Store.Suppressed).
OnItsWay == Range(queue) \cup (IF sending = NoEvent THEN {} ELSE {sending.event})
SilencedIsNotSent ==
  \A e \in OnItsWay : \A k \in {<<e.ioc, e.client>>, <<e.ioc, Anywhere>>} :
    Silences(k) => since[k] >= e.at

Decide(e) == Evaluate(policy, Allowlist, e)

\* What the end of handling an alert owes: an event about the same client that
\* the controller takes no less seriously than the alert on its own.
Answered(s) ==
  LET own == Event(work[s].alert, work[s].at)
  IN /\ Len(queue') = Len(queue) + 1
     /\ queue'[Len(queue')].client = own.client
     /\ Strength(Decide(queue'[Len(queue')])) >= Strength(Decide(own))

Ends(s) ==
  /\ step[s] # "idle" /\ step'[s] = "idle"
  /\ restarts' = restarts
  /\ Len(queue) < QueueSize

\* When no verdict about its client is in force and the channel has room, an
\* alert ends as an event, and corroboration never weakens the decision
\* (main.go's OnAlert, composite.go's combine, policy.go's corroborated).
CorroborationNeverWeakens ==
  [][\A s \in Sources :
       /\ Ends(s)
       /\ \A k \in Keys : Silences(k) => k[2] \notin {work[s].alert.client, Anywhere}
       => Answered(s)]_vars

\* A delivery that keeps failing does not hold the channel up for good
\* (sender.go's deliver gives up after its retries).
QueueIsDrained == []<>(queue = <<>> /\ sending = NoEvent)
=============================================================================
