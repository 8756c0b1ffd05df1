-------------------------------- MODULE Ingest --------------------------------
(***************************************************************************)
(* What detection-engine reads and how it comes by it: the poller that     *)
(* tails a sensor table of ClickHouse behind a cursor (internal/ingest),   *)
(* the engine that reads AdGuard's query log (internal/detection), the DNS *)
(* cache the log fills (internal/correlator), and the TLS heuristics that  *)
(* put a row of zeek_ssl next to that cache (internal/tlsheur).            *)
(*                                                                         *)
(* Poller and engine are goroutines of one process.  A poll of the table   *)
(* is a query and a step for each row; a poll of the log is one step, as   *)
(* nothing but the cache, which has a mutex, is shared.  Restarts keep     *)
(* nothing.                                                                *)
(***************************************************************************)
EXTENDS Integers, Sequences, FiniteSets

CONSTANTS
  Observations,   \* what a row of zeek_ssl may say: [dst, sni, known]
  Malformed,      \* a row that cannot be parsed
  Addresses,      \* the addresses rows and answers name
  Local,          \* those of them in LOCAL_NETWORKS
  Domains,        \* registrable domains, of which names are taken as equal
  Limit,          \* pollBatchLimit, 1000 in the code
  LogBatch,       \* queryLogBatch, 300 in the code
  DnsTTL,         \* how long an answer is cached, in ticks
  SuppressWindow, \* how long a finding is not repeated, in ticks
  MaxSuppressed,  \* entries from which suppress purges what has expired
  MaxLag,         \* bound on how late a row may reach the table, in ticks
  MaxTime,        \* bound on the clock; a tick is a second
  MaxRows,        \* bound on the rows
  MaxLog,         \* bound on the entries of the query log
  MaxFaults,      \* bound on failed polls and restarts
  None            \* no domain, no name

ASSUME IngestAssumption ==
  /\ \A o \in Observations : o.dst \in Addresses /\ o.sni \in Domains \cup {None}
                                                 /\ o.known \in BOOLEAN
  /\ Malformed \notin Observations
  /\ Local \subseteq Addresses
  /\ None \notin Domains
  /\ Limit \in Nat \ {0} /\ LogBatch \in Nat \ {0}
  /\ DnsTTL \in Nat \ {0} /\ SuppressWindow \in Nat \ {0} /\ MaxSuppressed \in Nat
  /\ MaxLag \in Nat /\ MaxTime \in Nat \ {0}
  /\ MaxRows \in Nat /\ MaxLog \in Nat /\ MaxFaults \in Nat

VARIABLES
  now,        \* the clock
  rows,       \* external: the table, in order of insertion
  due,        \* history: well-formed rows that came within their second
  cursor,     \* Poller: the second the next query starts at
  seen,       \* Poller: rows of that second that have been emitted
  polling,    \* whether a poll of the table is under way
  batch,      \* its rows still to come
  newest,     \* its maxTS
  fresh,      \* its rows of second `newest`
  taken,      \* history: how often each row was emitted
  log,        \* external: AdGuard's query log, oldest entry first
  lastSeen,   \* Engine: the entry read last; entries are dated by their rank
  booted,     \* history: the newest entry when this process started
  checked,    \* history: how often each entry was examined
  saturated,  \* whether poll_batch_saturated_total has moved
  cache,      \* DNSCache: the answer that gave the address last, until when
  suppressed, \* Analyzer: until when a finding is not repeated
  alerted,    \* history: how often this process alerted a finding, and when last
  faults      \* history: failed polls and restarts so far

pollVars   == <<polling, batch, newest, fresh>>
pollerVars == <<cursor, seen, pollVars, taken>>
engineVars == <<lastSeen, booted, checked, saturated, cache>>
tlsVars    == <<suppressed, alerted>>
vars       == <<now, rows, due, pollerVars, log, engineVars, tlsVars, faults>>

Times == 0..MaxTime
RowIds == 1..MaxRows
Entries == 1..MaxLog

Rows == [second : Times, says : Observations \cup {Malformed}]
Answers == [address : Addresses, domain : Domains]

\* A finding, as suppress identifies it; of one client.
Findings == [dst : Addresses,
             reason : {"ioc", "sni-dns-mismatch", "dns-less-tls"},
             sni : Domains \cup {None}, resolved : Domains \cup {None}]

TypeOK ==
  /\ now        \in 1..MaxTime
  /\ rows       \in Seq(Rows) /\ Len(rows) <= MaxRows
  /\ due        \subseteq RowIds
  /\ cursor     \in Times
  /\ seen       \subseteq RowIds
  /\ polling    \in BOOLEAN
  /\ batch      \subseteq RowIds
  /\ newest     \in Times
  /\ fresh      \subseteq RowIds
  /\ taken      \in [RowIds -> Nat]
  /\ log        \in Seq(Answers) /\ Len(log) <= MaxLog
  /\ lastSeen   \in 0..MaxLog
  /\ booted     \in 0..MaxLog
  /\ checked    \in [Entries -> Nat]
  /\ saturated  \in BOOLEAN
  /\ cache      \in [Addresses -> [entry : 0..MaxLog, expires : 0..MaxTime + DnsTTL]]
  /\ DOMAIN suppressed \subseteq Findings
  /\ \A f \in DOMAIN suppressed : suppressed[f] \in 1..MaxTime + SuppressWindow
  /\ alerted    \in [Findings -> [times : Nat, last : Times]]
  /\ faults     \in 0..MaxFaults

Nothing == [f \in {} |-> 0]

Init ==
  /\ now        = 1
  /\ rows       = <<>>
  /\ due        = {}
  /\ cursor     = 1
  /\ seen       = {}
  /\ polling    = FALSE
  /\ batch      = {}
  /\ newest     = 0
  /\ fresh      = {}
  /\ taken      = [r \in RowIds |-> 0]
  /\ log        = <<>>
  /\ lastSeen   = 0
  /\ booted     = 0
  /\ checked    = [e \in Entries |-> 0]
  /\ saturated  = FALSE
  /\ cache      = [a \in Addresses |-> [entry |-> 0, expires |-> 0]]
  /\ suppressed = Nothing
  /\ alerted    = [f \in Findings |-> [times |-> 0, last |-> 0]]
  /\ faults     = 0

-----------------------------------------------------------------------------
\* Outside the process: sensors write rows, a little late or in time; AdGuard
\* answers queries; time passes.
WriteRow(says, lag) ==
  /\ Len(rows) < MaxRows
  /\ lag < now
  /\ rows' = Append(rows, [second |-> now - lag, says |-> says])
  /\ due' = IF lag = 0 /\ says # Malformed THEN due \cup {Len(rows')} ELSE due
  /\ UNCHANGED <<now, pollerVars, log, engineVars, tlsVars, faults>>

AnswerQuery(answer) ==
  /\ Len(log) < MaxLog
  /\ log' = Append(log, answer)
  /\ UNCHANGED <<now, rows, due, pollerVars, engineVars, tlsVars, faults>>

Tick ==
  /\ now < MaxTime
  /\ now' = now + 1
  /\ UNCHANGED <<rows, due, pollerVars, log, engineVars, tlsVars, faults>>

-----------------------------------------------------------------------------
\* The poller.
Second(r) == rows[r].second

\* Fault: the query asks for rows after the cursor.
MatchingAfter == {r \in DOMAIN rows : Second(r) > cursor}

Matching == {r \in DOMAIN rows : Second(r) >= cursor}

\* ORDER BY timestamp LIMIT: the first of them; within a second, any.
Batches ==
  {S \in SUBSET Matching :
     /\ Cardinality(S) = IF Cardinality(Matching) < Limit THEN Cardinality(Matching) ELSE Limit
     /\ \A r \in S, q \in Matching \ S : Second(r) <= Second(q)}

Query ==
  /\ ~polling
  /\ polling' = TRUE
  /\ batch' \in Batches
  /\ newest' = cursor
  /\ fresh' = {}
  /\ UNCHANGED <<now, rows, due, cursor, seen, taken, log, engineVars, tlsVars, faults>>

\* The TLS heuristics, for the row that is emitted.
Resolved(address) ==
  IF cache[address].entry = 0 \/ now > cache[address].expires THEN None
  ELSE log[cache[address].entry].domain

Finding(o) ==
  LET resolved == Resolved(o.dst)
      found(reason, sni, r) == [dst |-> o.dst, reason |-> reason, sni |-> sni, resolved |-> r]
  IN  CASE o.dst \in Local -> None
        [] o.dst \notin Local /\ o.known -> found("ioc", None, None)
        [] o.dst \notin Local /\ ~o.known /\ o.sni # None /\ resolved \notin {None, o.sni}
             -> found("sni-dns-mismatch", o.sni, resolved)
        [] o.dst \notin Local /\ ~o.known /\ o.sni = None /\ resolved = None
             -> found("dns-less-tls", None, None)
        [] OTHER -> None

\* Fault: the purge keeps what has expired.
PurgedAlive ==
  LET kept == {f \in DOMAIN suppressed : suppressed[f] < now}
  IN  IF Cardinality(DOMAIN suppressed) < MaxSuppressed THEN suppressed
      ELSE [f \in kept |-> suppressed[f]]

\* At its bound the map is rid of what has expired, and grows past the bound if
\* nothing has.
Purged ==
  LET kept == {f \in DOMAIN suppressed : suppressed[f] >= now}
  IN  IF Cardinality(DOMAIN suppressed) < MaxSuppressed THEN suppressed
      ELSE [f \in kept |-> suppressed[f]]

Suppressing(f) == f \in DOMAIN suppressed /\ now < suppressed[f]

Alert(f) ==
  IF f = None \/ Suppressing(f) THEN UNCHANGED tlsVars
  ELSE /\ suppressed' = [g \in DOMAIN Purged \cup {f} |->
                           IF g = f THEN now + SuppressWindow ELSE Purged[g]]
       /\ alerted' = [alerted EXCEPT ![f] = [times |-> @.times + 1, last |-> now]]

\* The next row of the answer, oldest second first: skipped if it cannot be
\* parsed or was emitted by an earlier poll, else emitted.
SkipRow ==
  /\ polling
  /\ \E r \in batch :
       /\ \A q \in batch : Second(r) <= Second(q)
       /\ rows[r].says = Malformed \/ (Second(r) = cursor /\ r \in seen)
       /\ batch' = batch \ {r}
  /\ UNCHANGED <<now, rows, due, cursor, seen, polling, newest, fresh, taken, log, engineVars,
                 tlsVars, faults>>

EmitRow ==
  /\ polling
  /\ \E r \in batch :
       /\ \A q \in batch : Second(r) <= Second(q)
       /\ rows[r].says # Malformed
       /\ ~(Second(r) = cursor /\ r \in seen)
       /\ batch' = batch \ {r}
       /\ newest' = Second(r)
       /\ fresh' = IF Second(r) > newest THEN {r} ELSE fresh \cup {r}
       /\ taken' = [taken EXCEPT ![r] = @ + 1]
       /\ Alert(Finding(rows[r].says))
  /\ UNCHANGED <<now, rows, due, cursor, seen, polling, log, engineVars, faults>>

\* Faults: the next query starts after the newest row; rows of the cursor's own
\* second are not remembered.
CursorPast == newest + 1

SeenForgetful == fresh

CursorNext == newest

SeenNext == IF newest > cursor THEN fresh ELSE seen \cup fresh

EndPoll ==
  /\ polling
  /\ batch = {}
  /\ cursor' = CursorNext
  /\ seen' = SeenNext
  /\ polling' = FALSE
  /\ newest' = 0
  /\ fresh' = {}
  /\ UNCHANGED <<now, rows, due, batch, taken, log, engineVars, tlsVars, faults>>

\* The answer breaks off: what was emitted stays emitted, the cursor stays put.
PollFails ==
  /\ polling
  /\ faults < MaxFaults
  /\ faults' = faults + 1
  /\ polling' = FALSE
  /\ batch' = {}
  /\ newest' = 0
  /\ fresh' = {}
  /\ UNCHANGED <<now, rows, due, cursor, seen, taken, log, engineVars, tlsVars>>

-----------------------------------------------------------------------------
\* The engine.  AdGuard returns the newest LogBatch entries, whatever was read.
Returned == {e \in DOMAIN log : e > Len(log) - LogBatch}

\* Fault: the entry of the cursor is taken for unread.
UnreadFrom == {e \in Returned : e >= lastSeen}

Unread == {e \in Returned : e > lastSeen}

Oldest(S) == CHOOSE e \in S : \A d \in S : e <= d
Newest(S) == CHOOSE e \in S : \A d \in S : d <= e

\* The log is read newest first, so of the answers for an address the oldest
\* one is stored last.
Cached(address) ==
  LET answers == {e \in Unread : log[e].address = address}
  IN  IF answers = {} THEN cache[address]
      ELSE [entry |-> Oldest(answers), expires |-> now + DnsTTL]

\* Fault: a batch is full when it holds more than was asked for.
FullPast == Cardinality(Returned) > LogBatch

Full == Cardinality(Returned) >= LogBatch

LastRead == Newest(Returned \cup {lastSeen})

PollLog ==
  /\ Returned # {}
  /\ saturated' = (saturated \/ Full)
  /\ checked' = [e \in Entries |-> IF e \in Unread THEN checked[e] + 1 ELSE checked[e]]
  /\ cache' = [a \in Addresses |-> Cached(a)]
  /\ lastSeen' = LastRead
  /\ UNCHANGED <<now, rows, due, pollerVars, log, booted, tlsVars, faults>>

\* The process starts anew, at the end of both.
Restart ==
  /\ faults < MaxFaults
  /\ faults' = faults + 1
  /\ cursor' = now
  /\ seen' = {}
  /\ polling' = FALSE
  /\ batch' = {}
  /\ newest' = 0
  /\ fresh' = {}
  /\ due' = {r \in due : Second(r) = now}
  /\ lastSeen' = Len(log)
  /\ booted' = Len(log)
  /\ saturated' = FALSE
  /\ cache' = [a \in Addresses |-> [entry |-> 0, expires |-> 0]]
  /\ suppressed' = Nothing
  /\ alerted' = [f \in Findings |-> [times |-> 0, last |-> 0]]
  /\ UNCHANGED <<now, rows, taken, log, checked>>

-----------------------------------------------------------------------------
Next ==
  \/ \E says \in Observations \cup {Malformed}, lag \in 0..MaxLag : WriteRow(says, lag)
  \/ \E answer \in Answers : AnswerQuery(answer)
  \/ Tick
  \/ Query \/ SkipRow \/ EmitRow \/ EndPoll \/ PollFails
  \/ PollLog
  \/ Restart

Spec == Init /\ [][Next]_vars

Poller == Query \/ SkipRow \/ EmitRow \/ EndPoll

\* The tickers poll again and again, and ClickHouse answers: MaxFaults bounds
\* the answers that break off.
FairSpec == Spec /\ WF_vars(Poller)

-----------------------------------------------------------------------------
\* The cursor has the precision of a second and rows are deduplicated within
\* it (poller.go:42-44): while no poll fails and nothing restarts, no row is
\* emitted twice, however the rows of a second are spread over polls.
RowsTakenOnce == faults = 0 => \A r \in RowIds : taken[r] <= 1

\* A row that was in the table before its second was over stays ahead of the
\* poller until it has been emitted, whatever failed polls, full answers, late
\* rows and malformed rows come between: no later query leaves it out, no
\* later poll takes it for one it has seen.
PunctualRowsAhead ==
  \A r \in due : taken[r] = 0 => Second(r) >= cursor /\ r \notin seen

\* As many rows as a query returns that are of one second or cannot be parsed:
\* the cursor cannot get past them.
Crowded ==
  \E s \in Times :
     Cardinality({r \in DOMAIN rows : Second(r) = s \/ rows[r].says = Malformed}) >= Limit

\* Such a row is emitted, unless the process restarts first or the cursor is
\* stuck; MaxFaults bounds the failed polls, the ticker goes on.
PunctualRowsArrive == []<>(Crowded \/ \A r \in due : taken[r] > 0)

\* No entry of the query log is examined twice, restarts included.
QueriesCheckedOnce == \A e \in Entries : checked[e] <= 1

\* "Silent detection loss is the worst failure mode a monitor has: make it a
\* number" (engine.go:92-94): an entry this process has passed over without
\* examining it has moved the counter.
LossIsCounted ==
  \A e \in DOMAIN log : booted < e /\ e <= lastSeen /\ checked[e] = 0 => saturated

\* suppress keeps a finding from being alerted twice within the window, also
\* when the map is at its bound and is purged.
FindingsNotRepeated ==
  [][\A f \in Findings : 0 < alerted[f].times /\ alerted[f].times < alerted'[f].times
       => now >= alerted[f].last + SuppressWindow]_vars
=============================================================================
