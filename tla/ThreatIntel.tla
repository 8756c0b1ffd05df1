----------------------------- MODULE ThreatIntel -----------------------------
(***************************************************************************)
(* Threat intelligence on its way from the feeds to the matches: the sync  *)
(* loop and the indicator store of threat-intel-sync, its export, and the  *)
(* sync loop and the matcher of detection-engine (internal/iocmatch).      *)
(*                                                                         *)
(* A cycle asks the feeds one after the other and prunes at its end.  The  *)
(* store's mutex makes UpsertAll, PruneBefore and All one step each; the   *)
(* export is served between any two of them.  Neither process keeps        *)
(* anything on disk: a restart begins with an empty store, or with the     *)
(* matcher's static list.                                                  *)
(***************************************************************************)
EXTENDS Integers, Sequences

CONSTANTS
  Feeds,           \* the configured sources, in the order syncOnce asks them
  Confidence,      \* the confidences each of them may claim
  Dates,           \* how it dates a claim: "sightings", "addition" or "none"
  Reliable,        \* the feeds that answer now and then
  Indicators,      \* store keys: type and lower-cased value
  StoreAccepts,    \* those ioc.Validate lets through
  MatcherAccepts,  \* those Matcher.Add lets through
  Static,          \* domains of the static threat list
  TTL,             \* INDICATOR_TTL, in ticks; 0 turns pruning off
  MaxTime,         \* bound on the clock
  MaxEdits,        \* bound on the changes feeds make to what they claim
  MaxRestarts,     \* bound on the restarts of either process
  None             \* no claim, no indicator, no reply

Sources == {Feeds[i] : i \in DOMAIN Feeds}

ASSUME ThreatIntelAssumption ==
  /\ Feeds \in Seq(Sources)
  /\ Confidence \in [Sources -> SUBSET Nat]
  /\ Dates \in [Sources -> {"sightings", "addition", "none"}]
  /\ Reliable \subseteq Sources
  /\ StoreAccepts \subseteq Indicators
  /\ MatcherAccepts \subseteq Indicators
  /\ Static \subseteq MatcherAccepts
  /\ TTL \in Nat
  /\ MaxTime \in Nat \ {0}
  /\ MaxEdits \in Nat
  /\ MaxRestarts \in Nat
  /\ None \notin [confidence : Nat, first : Nat, last : Nat]

VARIABLES
  now,       \* the clock
  claims,    \* external: what each feed claims of each indicator
  edits,     \* history: changes to the claims so far
  store,     \* threat-intel-sync: the indicators
  next,      \* the place of the feed the cycle asks next; 0 between cycles
  answered,  \* the feeds that answered in this cycle; anySucceeded if there are any
  reply,     \* an export on its way to detection-engine
  matcher,   \* detection-engine: confidence of each indicator, Unknown if none
  sighted,   \* history: newest sighting of each that this process took in
  pruned,    \* history: when this process last ended a cycle that a feed answered
  restarts   \* history: restarts so far

syncVars == <<store, next, answered, sighted, pruned>>
vars == <<now, claims, edits, syncVars, reply, matcher, restarts>>

Never   == 0    \* the zero time
Unknown == -1
Times   == 0..MaxTime

StaticConfidence == 80

\* What a feed says of an indicator, and what the store keeps of it.
Records == [confidence : Nat, first : Times, last : Times]
Kept    == [confidence : 0..100, first : Times, last : Times]

TypeOK ==
  /\ now      \in 1..MaxTime
  /\ claims   \in [Sources -> [Indicators -> Records \cup {None}]]
  /\ edits    \in 0..MaxEdits
  /\ store    \in [Indicators -> Kept \cup {None}]
  /\ next     \in 0..Len(Feeds) + 1
  /\ answered \subseteq Sources
  /\ reply    \in [Indicators -> Kept \cup {None}] \cup {None}
  /\ matcher  \in [Indicators -> Unknown..100]
  /\ sighted  \in [Indicators -> Times]
  /\ pruned   \in Times
  /\ restarts \in 0..MaxRestarts

StaticMatcher == [k \in Indicators |-> IF k \in Static THEN StaticConfidence ELSE Unknown]

Init ==
  /\ now      = 1
  /\ claims   = [s \in Sources |-> [k \in Indicators |-> None]]
  /\ edits    = 0
  /\ store    = [k \in Indicators |-> None]
  /\ next     = 1
  /\ answered = {}
  /\ reply    = None
  /\ matcher  = StaticMatcher
  /\ sighted  = [k \in Indicators |-> Never]
  /\ pruned   = Never
  /\ restarts = 0

-----------------------------------------------------------------------------
\* The feeds, outside the system: an indicator is added, sighted again, withdrawn.
Dated(s, k, c) ==
  [confidence |-> c,
   first |-> IF Dates[s] = "none" THEN Never
             ELSE IF claims[s][k] # None THEN claims[s][k].first ELSE now,
   last  |-> IF Dates[s] = "sightings" THEN now ELSE Never]

Publish(s, k, c) ==
  /\ edits < MaxEdits
  /\ edits' = edits + 1
  /\ claims' = [claims EXCEPT ![s][k] = Dated(s, k, c)]
  /\ claims' # claims
  /\ UNCHANGED <<now, syncVars, reply, matcher, restarts>>

Withdraw(s, k) ==
  /\ edits < MaxEdits
  /\ claims[s][k] # None
  /\ edits' = edits + 1
  /\ claims' = [claims EXCEPT ![s][k] = None]
  /\ UNCHANGED <<now, syncVars, reply, matcher, restarts>>

-----------------------------------------------------------------------------
Larger(a, b) == IF b > a THEN b ELSE a

\* The earlier of two times, where the zero time stands for none.
Earlier(a, b) == IF b # Never /\ (a = Never \/ b < a) THEN b ELSE a

\* Fault: the feed that answers last decides when an indicator was last seen.
MergeLastWriter(old, new) ==
  [confidence |-> Larger(old.confidence, new.confidence),
   first      |-> Earlier(old.first, new.first),
   last       |-> new.last]

Merge(old, new) ==
  [confidence |-> Larger(old.confidence, new.confidence),
   first      |-> Earlier(old.first, new.first),
   last       |-> Larger(old.last, new.last)]

\* Fault: the range of the confidence is not looked at.
ValidUnranged(s, k) == claims[s][k] # None /\ k \in StoreAccepts

\* The claims of a feed that ioc.Validate lets through.
Valid(s, k) ==
  /\ claims[s][k] # None
  /\ k \in StoreAccepts
  /\ claims[s][k].confidence <= 100

Upserted(s) ==
  [k \in Indicators |->
     IF ~Valid(s, k) THEN store[k]
     ELSE IF store[k] = None THEN claims[s][k] ELSE Merge(store[k], claims[s][k])]

\* The feed that the cycle asks next answers.
FetchOK(s) ==
  /\ next \in DOMAIN Feeds
  /\ s = Feeds[next]
  /\ store'    = Upserted(s)
  /\ sighted'  = [k \in Indicators |->
                    IF Valid(s, k) THEN Larger(sighted[k], claims[s][k].last) ELSE sighted[k]]
  /\ answered' = answered \cup {s}
  /\ next'     = next + 1
  /\ UNCHANGED <<now, claims, edits, pruned, reply, matcher, restarts>>

\* Fault: one feed that fails ends the cycle.
FetchFailsReturns ==
  /\ next \in DOMAIN Feeds
  /\ next' = 0
  /\ UNCHANGED <<now, claims, edits, store, answered, sighted, pruned, reply, matcher, restarts>>

\* It fails, or half of it does: what it did return is discarded.
FetchFails ==
  /\ next \in DOMAIN Feeds
  /\ next' = next + 1
  /\ UNCHANGED <<now, claims, edits, store, answered, sighted, pruned, reply, matcher, restarts>>

\* The date an indicator ages from.
Stamp(ind) == IF ind.last # Never THEN ind.last ELSE ind.first

Stale(ind) == Stamp(ind) # Never /\ Stamp(ind) < now - TTL

\* Fault: pruning waits for a cycle in which every feed answers.
MayPruneAll == TTL > 0 /\ answered = Sources

MayPrune == TTL > 0 /\ answered # {}

\* The end of the cycle.
Prune ==
  /\ next = Len(Feeds) + 1
  /\ store' = IF MayPrune
              THEN [k \in Indicators |->
                      IF store[k] # None /\ Stale(store[k]) THEN None ELSE store[k]]
              ELSE store
  /\ pruned' = IF answered # {} THEN now ELSE pruned
  /\ next' = 0
  /\ UNCHANGED <<now, claims, edits, answered, sighted, reply, matcher, restarts>>

\* The ticker fires.
NextCycle ==
  /\ next = 0
  /\ next' = 1
  /\ answered' = {}
  /\ UNCHANGED <<now, claims, edits, store, sighted, pruned, reply, matcher, restarts>>

-----------------------------------------------------------------------------
\* detection-engine: GET /export/json; one that fails changes nothing.
GetExport ==
  /\ reply = None
  /\ reply' = store
  /\ UNCHANGED <<now, claims, edits, syncVars, matcher, restarts>>

\* Matcher.Add only adds; a value gives way to one no less confident.
Add ==
  /\ reply # None
  /\ matcher' = [k \in Indicators |->
       IF k \in MatcherAccepts /\ reply[k] # None /\ reply[k].confidence >= matcher[k]
       THEN reply[k].confidence ELSE matcher[k]]
  /\ reply' = None
  /\ UNCHANGED <<now, claims, edits, syncVars, restarts>>

\* The reply cannot be read to its end.
ReplyLost ==
  /\ reply # None
  /\ reply' = None
  /\ UNCHANGED <<now, claims, edits, syncVars, matcher, restarts>>

-----------------------------------------------------------------------------
RestartSync ==
  /\ restarts < MaxRestarts
  /\ restarts' = restarts + 1
  /\ store'    = [k \in Indicators |-> None]
  /\ next'     = 1
  /\ answered' = {}
  /\ sighted'  = [k \in Indicators |-> Never]
  /\ pruned'   = Never
  /\ UNCHANGED <<now, claims, edits, reply, matcher>>

RestartEngine ==
  /\ restarts < MaxRestarts
  /\ restarts' = restarts + 1
  /\ reply'    = None
  /\ matcher'  = StaticMatcher
  /\ UNCHANGED <<now, claims, edits, syncVars>>

Tick ==
  /\ now < MaxTime
  /\ now' = now + 1
  /\ UNCHANGED <<claims, edits, syncVars, reply, matcher, restarts>>

FeedStep == \E s \in Sources, k \in Indicators :
              Withdraw(s, k) \/ \E c \in Confidence[s] : Publish(s, k, c)

Cycle == \/ \E s \in Sources : FetchOK(s)
         \/ FetchFails
         \/ Prune
         \/ NextCycle

EngineSync == GetExport \/ Add \/ ReplyLost

Next == FeedStep \/ Cycle \/ EngineSync \/ RestartSync \/ RestartEngine \/ Tick

Spec == Init /\ [][Next]_vars

(***************************************************************************)
(* Both loops run on tickers and every request carries a timeout of at     *)
(* most a minute.  That a reliable feed answers again and again, and that  *)
(* an export arrives whole again and again, is assumed of the network.     *)
(***************************************************************************)
Fairness ==
  /\ WF_vars(Cycle)
  /\ \A s \in Reliable : SF_vars(FetchOK(s))
  /\ WF_vars(GetExport)
  /\ SF_vars(Add)

FairSpec == Spec /\ Fairness

-----------------------------------------------------------------------------
(***************************************************************************)
(* An outage drops no live intel (main.go:86-88, 258-260): an indicator    *)
(* that was sighted less than a TTL before the last cycle a feed answered  *)
(* is in the store, however long the feeds have been down since, in        *)
(* whichever order they answered, and whatever another one says of it.     *)
(***************************************************************************)
FreshIntelOutlivesOutages ==
  \A k \in Indicators :
    sighted[k] # Never /\ sighted[k] >= pruned - TTL => store[k] # None

\* Feed s claims indicator k with at least confidence c, on a recent sighting.
Asserts(s, k, c) ==
  /\ k \in StoreAccepts \cap MatcherAccepts
  /\ Valid(s, k)
  /\ claims[s][k].last # Never
  /\ ~Stale(claims[s][k])
  /\ claims[s][k].confidence >= c

(***************************************************************************)
(* What a feed asserts and goes on asserting is matched with no less       *)
(* confidence, even if every feed before it in the cycle fails for good    *)
(* (syncOnce, SyncLoop, Matcher.Add).                                      *)
(***************************************************************************)
AssertedIsMatched ==
  \A s \in Reliable, k \in Indicators : \A c \in Confidence[s] :
    Asserts(s, k, c) ~> (matcher[k] >= c \/ ~Asserts(s, k, c))

(***************************************************************************)
(* An indicator past its TTL leaves the store or is sighted again, as long *)
(* as some feed answers now and then (PruneBefore).                        *)
(***************************************************************************)
StaleIntelLeaves ==
  \A k \in Indicators :
    (store[k] # None /\ Stale(store[k])) ~> (store[k] = None \/ ~Stale(store[k]))
=============================================================================
