------------------------------ MODULE Feedback ------------------------------
(***************************************************************************)
(* The false-positive feedback store of detection-engine                   *)
(* (internal/feedback): the suppressions in memory, the verdicts in        *)
(* ClickHouse they are rebuilt from, and the clock.  Record changes the     *)
(* memory under the store's mutex and writes to ClickHouse after it, so    *)
(* verdicts may land there late, in another order, or not at all.  A       *)
(* verdict's timestamp is the client's, or the clock read before the       *)
(* mutex: the memory follows the order verdicts arrive in, the reload      *)
(* their timestamps.  main loads the verdicts before it serves HTTP, so no *)
(* verdict comes in during a load, but alerts do.                          *)
(***************************************************************************)
EXTENDS Integers, FiniteSets

CONSTANTS
  Indicators,       \* values of MatchedIoC
  Clients,          \* client addresses
  Anywhere,         \* the empty client: a verdict for every client
  TTL,              \* Options.TTL, in ticks
  MaxSuppressions,  \* Options.MaxSuppressions
  ClickHouseFails,  \* TRUE when an insert or a query may fail
  MaxVerdicts,      \* bound on the verdicts one behaviour records
  MaxTime           \* bound on the clock

ASSUME FeedbackAssumption ==
  /\ Anywhere \notin Clients
  /\ TTL \in Nat
  /\ MaxSuppressions \in Nat \ {0}
  /\ ClickHouseFails \in BOOLEAN
  /\ MaxVerdicts \in Nat
  /\ MaxTime \in Nat \ {0}

VARIABLES
  now,         \* the clock; a DateTime column holds one tick of it
  boot,        \* how far main has come with LoadInto
  suppressed,  \* timestamp of the verdict that silences a key, Never if none does
  writes,      \* verdicts on their way to ClickHouse
  rows,        \* verdicts in detection_feedback
  toLoad,      \* verdicts LoadInto has yet to apply
  since,       \* history: when the silence of a key began in this process
  known,       \* history: the last verdict this process took on each key; of a
               \* key it took none on, the verdicts it found in ClickHouse
  given        \* history: how many verdicts were given

feedbackVars == <<boot, suppressed, since, writes, rows, toLoad, known, given>>

Never    == 0
Keys     == Indicators \X (Clients \cup {Anywhere})
Kinds    == {"false_positive", "confirmed"}
Verdicts == [key : Keys, verdict : Kinds, at : 1..MaxTime]

FeedbackTypeOK ==
  /\ now        \in 1..MaxTime
  /\ boot       \in {"query", "apply", "up"}
  /\ suppressed \in [Keys -> 0..MaxTime]
  /\ since      \in [Keys -> 0..MaxTime]
  /\ writes     \subseteq Verdicts
  /\ rows       \subseteq Verdicts
  /\ toLoad     \subseteq Verdicts
  /\ known      \subseteq Verdicts
  /\ given      \in 0..MaxVerdicts

FeedbackInit ==
  /\ now        = 1
  /\ boot       = "up"
  /\ suppressed = [k \in Keys |-> Never]
  /\ since      = [k \in Keys |-> Never]
  /\ writes     = {}
  /\ rows       = {}
  /\ toLoad     = {}
  /\ known      = {}
  /\ given      = 0

-----------------------------------------------------------------------------
Expired(at) == now - at > TTL
Held        == {k \in Keys : suppressed[k] # Never}
Silences(k) == k \in Held /\ ~Expired(suppressed[k])

\* Fault: the indicator-wide key is not tried.
CandidatesOwn(ioc, client) == {<<ioc, client>>}

\* The keys a look-up tries: the client's own, then the indicator's.
Candidates(ioc, client) == {<<ioc, client>>, <<ioc, Anywhere>>}

IsSuppressed(ioc, client) == \E k \in Candidates(ioc, client) : Silences(k)

\* A look-up sweeps the expired keys it meets; a hit on the first ends it.
Swept(ioc, client) ==
  {k \in Candidates(ioc, client) \cap Held :
     /\ Expired(suppressed[k])
     /\ k = <<ioc, Anywhere>> => ~Silences(<<ioc, client>>)}

\* The table becomes sup; a key it silences that was not silenced is from now on.
Suppress(sup) ==
  /\ suppressed' = sup
  /\ since' = [k \in Keys |-> IF sup[k] = Never THEN Never
                              ELSE IF sup[k] = suppressed[k] \/ Silences(k) THEN since[k]
                              ELSE now]

LookUp(ioc, client) ==
  Suppress([k \in Keys |-> IF k \in Swept(ioc, client) THEN Never ELSE suppressed[k]])

\* Record, of a verdict dated by the client (in the past or in the future) or
\* before the mutex was taken.  A new key is refused at the cap; a confirmed
\* verdict clears its key.
Record(k, verdict, at) ==
  LET v == [key |-> k, verdict |-> verdict, at |-> at]
  IN /\ boot = "up"
     /\ given < MaxVerdicts
     /\ given' = given + 1
     /\ verdict = "false_positive" => k \in Held \/ Cardinality(Held) < MaxSuppressions
     /\ Suppress([suppressed EXCEPT ![k] = IF verdict = "false_positive" THEN at ELSE Never])
     /\ writes' = writes \cup {v}
     /\ known'  = {w \in known : w.key # k} \cup {v}
     /\ UNCHANGED <<boot, rows, toLoad>>

\* The sink's insert, and an insert that fails: the error is only logged.
Persist(v) ==
  /\ v \in writes
  /\ writes' = writes \ {v}
  /\ rows'   = rows \cup {v}
  /\ UNCHANGED <<boot, suppressed, since, toLoad, known, given>>

PersistFails(v) ==
  /\ v \in writes
  /\ ClickHouseFails
  /\ writes' = writes \ {v}
  /\ UNCHANGED <<boot, suppressed, since, rows, toLoad, known, given>>

-----------------------------------------------------------------------------
\* Fault: LoadInto reads the verdicts, not the newest one of each key.
NewestUngrouped(k) == {v \in rows : v.key = k}

\* argMax(verdict, timestamp): any of the newest, if they share the second.
Newest(k) == {v \in rows : v.key = k /\ \A w \in rows : w.key = k => w.at <= v.at}

LoadQuery ==
  /\ boot = "query"
  /\ boot' = "apply"
  /\ \E pick \in [{r.key : r \in rows} -> rows] :
       /\ \A k \in DOMAIN pick : pick[k] \in Newest(k)
       /\ toLoad' = {pick[k] : k \in DOMAIN pick}
  /\ known' = rows
  /\ UNCHANGED <<suppressed, since, writes, rows, given>>

\* applyLoaded: an expired verdict, and any at the cap, is skipped.
ApplyLoaded(v) ==
  /\ boot = "apply"
  /\ v \in toLoad
  /\ toLoad' = toLoad \ {v}
  /\ Suppress(
       IF v.verdict = "confirmed" THEN [suppressed EXCEPT ![v.key] = Never]
       ELSE IF Expired(v.at) \/ Cardinality(Held) >= MaxSuppressions THEN suppressed
       ELSE [suppressed EXCEPT ![v.key] = v.at])
  /\ UNCHANGED <<boot, writes, rows, known, given>>

\* The load is over: all applied, or ClickHouse failed on the way.
ServeHTTP ==
  /\ boot \in {"query", "apply"}
  /\ (boot = "apply" /\ toLoad = {}) \/ ClickHouseFails
  /\ boot'   = "up"
  /\ toLoad' = {}
  /\ known'  = {v \in known : \A w \in toLoad : w.key # v.key}
  /\ UNCHANGED <<suppressed, since, writes, rows, given>>

\* The process dies; ClickHouse keeps what has landed, and an insert on its
\* way may land yet.
FeedbackRestart ==
  /\ boot' = "query"
  /\ Suppress([k \in Keys |-> Never])
  /\ writes' \in SUBSET writes
  /\ toLoad' = {}
  /\ known'  = {}
  /\ UNCHANGED <<rows, given>>

-----------------------------------------------------------------------------
Latest(k, v) == /\ v \in known
                /\ v.key = k
                /\ \A w \in known : w.key = k => w = v \/ w.at < v.at

\* One verdict decides whether a key is silenced: the last one this process
\* took on it, whatever its timestamp; before it took any, the newest by
\* timestamp it found in ClickHouse (Record, LoadInto, applyLoaded).  It
\* silences the key when it is a false positive and until it has expired.  This
\* holds when no two verdicts found share the key and the second, and the cap
\* has room for every key the process knows a verdict on.
VerdictsGovern ==
  boot = "up" /\ Cardinality({v.key : v \in known}) <= MaxSuppressions =>
    \A k \in Keys : \A v \in known :
      Latest(k, v) => (Silences(k) <=> v.verdict = "false_positive" /\ ~Expired(v.at))
=============================================================================
