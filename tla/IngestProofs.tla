----------------------------- MODULE IngestProofs -----------------------------
(***************************************************************************)
(* The cursor of the poller never runs ahead of a row that was in the      *)
(* table in time, for every number of rows, every batch limit, every clock *)
(* and any number of failed polls and restarts.                            *)
(*                                                                         *)
(* PunctualRowsAhead is not inductive: a poll that ends moves the cursor   *)
(* to the newest row it emitted, and nothing in the property says that the *)
(* rows left behind are not older.  They are not because the answer is the *)
(* oldest rows there are (a row outside it is no older than a row in it),  *)
(* because it is emitted in order, and because a row that arrives in the   *)
(* meantime bears the current second.  PollInv says this of the poll under *)
(* way.                                                                    *)
(*                                                                         *)
(* The query log has a cursor of another kind, the newest entry seen.  No  *)
(* entry is examined twice and none is lost unnoticed, because nothing     *)
(* ahead of the cursor was examined (ReadInv) and an answer that leaves    *)
(* entries out is full (AnswerIsTail).                                     *)
(***************************************************************************)
EXTENDS Ingest, SequenceTheorems, FiniteSetTheorems, WellFoundedInduction, TLAPS

PollTypes ==
  /\ now \in Nat /\ cursor \in Nat /\ newest \in Nat
  /\ rows \in Seq([second : Nat, says : Observations \cup {Malformed}])
  /\ Len(rows) <= MaxRows
  /\ taken \in [RowIds -> Nat]
  /\ due \subseteq DOMAIN rows
  /\ batch \subseteq DOMAIN rows
  /\ seen \subseteq RowIds /\ fresh \subseteq RowIds

\* Nothing is dated in the future.
ClockInv ==
  /\ cursor <= now
  /\ newest <= now
  /\ \A r \in DOMAIN rows : Second(r) <= now

\* Only what was emitted is remembered, and only rows that parse are due.
SeenInv ==
  /\ \A r \in seen \cup fresh : taken[r] > 0
  /\ \A r \in due : rows[r].says # Malformed

\* What is still to come is no older than what has been emitted.
BatchInv == \A q \in batch : Second(q) >= newest

\* A punctual row that has not been emitted is ahead of the cursor, and the
\* answer under way either holds it or holds no younger row.
AheadInv ==
  \A r \in due : taken[r] = 0 =>
    /\ Second(r) >= cursor
    /\ polling /\ r \notin batch =>
         Second(r) >= newest /\ \A q \in batch : Second(r) >= Second(q)

PollInv == PollTypes /\ ClockInv /\ SeenInv /\ BatchInv /\ AheadInv

LEMMA SecondIsNat == ASSUME PollTypes PROVE \A r \in DOMAIN rows : Second(r) \in Nat
<1> DEFINE R == [second : Nat, says : Observations \cup {Malformed}]
<1>1. rows \in Seq(R)
  BY DEF PollTypes
<1>2. \A r \in DOMAIN rows : rows[r] \in R
  <2> HIDE DEF R
  <2>. QED
    BY <1>1, LenProperties, ElementOfSeq
<1>. QED
  BY <1>2 DEF Second

LEMMA PollInvInit == IngestAssumption /\ Init => PollInv
<1> SUFFICES ASSUME IngestAssumption, Init PROVE PollInv
  OBVIOUS
<1>1. rows = <<>> /\ DOMAIN rows = {} /\ Len(rows) = 0
  BY DEF Init
<1>2. PollTypes
  BY <1>1 DEF Init, PollTypes, IngestAssumption
<1>. QED
  BY <1>1, <1>2 DEF Init, PollInv, ClockInv, SeenInv, BatchInv, AheadInv

\* What a sensor appends is dated now or earlier; it is due only if dated now,
\* which no row is younger than.
LEMMA PollInvWrite ==
  ASSUME IngestAssumption, PollInv,
         NEW says \in Observations \cup {Malformed}, NEW lag \in 0..MaxLag,
         WriteRow(says, lag)
  PROVE  PollInv'
<1> USE DEF PollInv, PollTypes
<1>0. PICK row, new : row = [second |-> now - lag, says |-> says] /\ new = Len(rows) + 1
  OBVIOUS
<1>1. /\ lag \in Nat /\ lag < now /\ now - lag \in Nat /\ now - lag <= now
      /\ Len(rows) < MaxRows /\ MaxRows \in Nat
      /\ rows' = Append(rows, row)
      /\ row \in [second : Nat, says : Observations \cup {Malformed}]
      /\ UNCHANGED <<now, cursor, newest, polling, batch, seen, fresh, taken>>
  BY <1>0 DEF WriteRow, IngestAssumption, pollerVars, pollVars
<1>2. /\ Len(rows') = new /\ DOMAIN rows' = DOMAIN rows \cup {new}
      /\ rows' \in Seq([second : Nat, says : Observations \cup {Malformed}])
      /\ rows'[new] = row
      /\ \A r \in DOMAIN rows : rows'[r] = rows[r]
      /\ rows'[new].second = now - lag /\ rows'[new].says = says
  <2> DEFINE R == [second : Nat, says : Observations \cup {Malformed}]
  <2>1. rows \in Seq(R) /\ row \in R /\ rows' = Append(rows, row)
    BY <1>1
  <2> HIDE DEF R
  <2>2. /\ rows' \in Seq(R) /\ Len(rows') = Len(rows) + 1
        /\ \A r \in 1..Len(rows) : rows'[r] = rows[r]
        /\ rows'[Len(rows) + 1] = row
    BY <2>1, AppendProperties
  <2>3. DOMAIN rows = 1..Len(rows) /\ DOMAIN rows' = 1..Len(rows') /\ Len(rows) \in Nat
    BY <2>1, <2>2, LenProperties
  <2>4. DOMAIN rows' = DOMAIN rows \cup {new} /\ Len(rows') = new
    BY <1>0, <2>2, <2>3
  <2>5. row.second = now - lag /\ row.says = says
    BY <1>0
  <2>. QED
    BY <1>0, <2>2, <2>3, <2>4, <2>5 DEF R
<1>3. /\ due' \subseteq due \cup {new}
      /\ new \in due' => new \in due \/ (rows'[new].second = now /\ says # Malformed)
  <2>1. due' = IF lag = 0 /\ says # Malformed THEN due \cup {Len(rows')} ELSE due
    BY DEF WriteRow
  <2>. QED
    BY <1>0, <1>1, <1>2, <2>1
<1>4. new \notin DOMAIN rows /\ new \notin due /\ new \notin batch
  BY <1>0, <1>2
<1>5. \A r \in DOMAIN rows : Second(r)' = Second(r) /\ Second(r) \in Nat
  BY <1>2, SecondIsNat DEF Second
<1>6. Second(new)' \in Nat /\ Second(new)' <= now
  BY <1>1, <1>2 DEF Second
<1>7. PollTypes'
  <2>1. Len(rows') <= MaxRows
    BY <1>0, <1>1, <1>2
  <2>. QED
    BY <1>1, <1>2, <1>3, <2>1
<1>8. ClockInv'
  BY <1>1, <1>2, <1>5, <1>6 DEF ClockInv
<1>9. SeenInv'
  BY <1>1, <1>2, <1>3, <1>4 DEF SeenInv
<1>10. BatchInv'
  BY <1>1, <1>5 DEF BatchInv
<1>11. AheadInv'
  <2> SUFFICES ASSUME NEW r \in due', taken'[r] = 0
               PROVE  /\ Second(r)' >= cursor
                      /\ polling /\ r \notin batch =>
                           /\ Second(r)' >= newest
                           /\ \A q \in batch : Second(r)' >= Second(q)'
    BY <1>1 DEF AheadInv
  <2>1. CASE r \in due
    BY <1>1, <1>5, <2>1 DEF AheadInv
  <2>2. CASE r \notin due
    <3>1. r = new /\ Second(r)' = now
      BY <1>1, <1>2, <1>3, <2>2 DEF Second
    <3>2. \A q \in batch : Second(q)' <= now
      BY <1>5 DEF ClockInv
    <3>. QED
      BY <3>1, <3>2, <1>5 DEF ClockInv
  <2>. QED
    BY <2>1, <2>2
<1>. QED
  BY <1>7, <1>8, <1>9, <1>10, <1>11

\* The answer is the oldest rows from the cursor on.
LEMMA PollInvQuery ==
  ASSUME IngestAssumption, PollInv, Query
  PROVE  PollInv'
<1> USE DEF PollInv
<1>1. /\ UNCHANGED <<now, rows, due, cursor, seen, taken>>
      /\ newest' = cursor /\ fresh' = {}
  BY DEF Query
<1>2. \A r : Second(r)' = Second(r)
  BY <1>1 DEF Second
<1>3. /\ batch' \subseteq Matching
      /\ \A r \in batch', q \in Matching \ batch' : Second(r) <= Second(q)
  BY DEF Query, Batches
<1>4. PollTypes'
  BY <1>1, <1>3 DEF PollTypes, Matching
<1>5. ClockInv' /\ SeenInv'
  BY <1>1, <1>2 DEF ClockInv, SeenInv
<1>6. BatchInv'
  BY <1>1, <1>2, <1>3 DEF BatchInv, Matching
<1>7. AheadInv'
  <2> SUFFICES ASSUME NEW r \in due, taken[r] = 0
               PROVE  /\ Second(r) >= cursor
                      /\ r \notin batch' =>
                           \A q \in batch' : Second(r) >= Second(q)
    BY <1>1, <1>2 DEF AheadInv
  <2>1. r \in DOMAIN rows /\ Second(r) >= cursor
    BY DEF AheadInv, PollTypes
  <2>2. r \in Matching
    BY <2>1 DEF Matching
  <2>3. \A q \in batch' : q \in DOMAIN rows
    BY <1>3 DEF Matching
  <2>. QED
    BY <1>3, <2>1, <2>2, <2>3, SecondIsNat
<1>. QED
  BY <1>4, <1>5, <1>6, <1>7

\* A row that is skipped is malformed or was emitted before.
LEMMA PollInvSkip ==
  ASSUME PollInv, SkipRow
  PROVE  PollInv'
<1> USE DEF PollInv
<1>1. /\ UNCHANGED <<now, rows, due, cursor, seen, polling, newest, fresh, taken>>
  BY DEF SkipRow
<1>2. PICK r \in batch :
        /\ \A q \in batch : Second(r) <= Second(q)
        /\ rows[r].says = Malformed \/ r \in seen
        /\ batch' = batch \ {r}
  BY DEF SkipRow
<1>3. \A q : Second(q)' = Second(q)
  BY <1>1 DEF Second
<1>4. PollTypes' /\ ClockInv' /\ SeenInv' /\ BatchInv'
  BY <1>1, <1>2, <1>3 DEF PollTypes, ClockInv, SeenInv, BatchInv
<1>5. r \in due => taken[r] # 0
  BY <1>2 DEF SeenInv, PollTypes
<1>6. AheadInv'
  BY <1>1, <1>2, <1>3, <1>5 DEF AheadInv
<1>. QED
  BY <1>4, <1>6

\* The row that is emitted is the oldest that was still to come.
LEMMA PollInvEmit ==
  ASSUME IngestAssumption, PollInv, EmitRow
  PROVE  PollInv'
<1> USE DEF PollInv
<1>1. UNCHANGED <<now, rows, due, cursor, seen, polling>>
  BY DEF EmitRow
<1>2. PICK r \in batch :
        /\ \A q \in batch : Second(r) <= Second(q)
        /\ batch' = batch \ {r}
        /\ newest' = Second(r)
        /\ fresh' \subseteq fresh \cup {r}
        /\ taken' = [taken EXCEPT ![r] = @ + 1]
  BY DEF EmitRow
<1>3. \A q : Second(q)' = Second(q)
  BY <1>1 DEF Second
<1>4. r \in DOMAIN rows /\ Second(r) \in Nat /\ r \in RowIds
  <2>1. Len(rows) \in Nat /\ DOMAIN rows = 1..Len(rows) /\ MaxRows \in Nat
    BY LenProperties DEF PollTypes, IngestAssumption
  <2>. QED
    BY <2>1, SecondIsNat DEF PollTypes, RowIds
<1>5. /\ taken'[r] = taken[r] + 1 /\ taken'[r] > 0
      /\ \A q \in RowIds : q # r => taken'[q] = taken[q]
      /\ taken' \in [RowIds -> Nat]
  BY <1>2, <1>4 DEF PollTypes
<1>6. PollTypes'
  BY <1>1, <1>2, <1>4, <1>5 DEF PollTypes
<1>7. ClockInv'
  BY <1>1, <1>2, <1>3, <1>4 DEF ClockInv
<1>8. SeenInv'
  BY <1>1, <1>2, <1>4, <1>5 DEF SeenInv, PollTypes
<1>9. BatchInv'
  BY <1>2, <1>3 DEF BatchInv
<1>10. AheadInv'
  <2> SUFFICES ASSUME NEW p \in due, taken'[p] = 0
               PROVE  /\ Second(p) >= cursor
                      /\ polling /\ p \notin batch' =>
                           /\ Second(p) >= Second(r)
                           /\ \A q \in batch' : Second(p) >= Second(q)
    BY <1>1, <1>2, <1>3 DEF AheadInv
  <2>1. p # r /\ p \in RowIds
    <3>1. Len(rows) \in Nat /\ DOMAIN rows = 1..Len(rows) /\ MaxRows \in Nat
      BY LenProperties DEF PollTypes, IngestAssumption
    <3>. QED
      BY <1>5, <3>1 DEF PollTypes, RowIds
  <2>2. taken[p] = 0
    BY <1>5, <2>1
  <2>. QED
    BY <1>2, <2>1, <2>2 DEF AheadInv
<1>. QED
  BY <1>6, <1>7, <1>8, <1>9, <1>10

\* What the answer left behind is no older than the newest row emitted.
LEMMA PollInvEnd ==
  ASSUME PollInv, EndPoll
  PROVE  PollInv'
<1> USE DEF PollInv
<1>1. /\ UNCHANGED <<now, rows, due, batch, taken>> /\ batch = {} /\ polling
      /\ cursor' = newest /\ newest' = 0 /\ fresh' = {} /\ polling' = FALSE
      /\ seen' \subseteq seen \cup fresh
  BY DEF EndPoll, CursorNext, SeenNext
<1>2. \A q : Second(q)' = Second(q)
  BY <1>1 DEF Second
<1>3. PollTypes' /\ ClockInv' /\ SeenInv' /\ BatchInv'
  BY <1>1, <1>2 DEF PollTypes, ClockInv, SeenInv, BatchInv
<1>4. AheadInv'
  BY <1>1, <1>2 DEF AheadInv
<1>. QED
  BY <1>3, <1>4

LEMMA PollInvFails ==
  ASSUME PollInv, PollFails
  PROVE  PollInv'
<1> USE DEF PollInv
<1>1. /\ UNCHANGED <<now, rows, due, cursor, seen, taken>> /\ polling' = FALSE
      /\ batch' = {} /\ newest' = 0 /\ fresh' = {}
  BY DEF PollFails
<1>2. \A q : Second(q)' = Second(q)
  BY <1>1 DEF Second
<1>. QED
  BY <1>1, <1>2 DEF PollTypes, ClockInv, SeenInv, BatchInv, AheadInv

\* A restart gives up what was due before the current second.
LEMMA PollInvRestart ==
  ASSUME PollInv, Restart
  PROVE  PollInv'
<1> USE DEF PollInv
<1>1. /\ UNCHANGED <<now, rows, taken>> /\ polling' = FALSE /\ cursor' = now
      /\ batch' = {} /\ newest' = 0 /\ fresh' = {} /\ seen' = {}
      /\ due' = {r \in due : Second(r) = now}
  BY DEF Restart
<1>2. \A q : Second(q)' = Second(q)
  BY <1>1 DEF Second
<1>. QED
  BY <1>1, <1>2 DEF PollTypes, ClockInv, SeenInv, BatchInv, AheadInv

\* The clock, the query log and the engine leave the poller alone.
LEMMA PollInvRest ==
  ASSUME PollInv, Tick \/ PollLog \/ (\E a \in Answers : AnswerQuery(a)) \/ UNCHANGED vars
  PROVE  PollInv'
<1> USE DEF PollInv
<1>1. /\ UNCHANGED <<rows, due, cursor, seen, polling, batch, newest, fresh, taken>>
      /\ now' = now \/ now' = now + 1
  BY DEF Tick, PollLog, AnswerQuery, vars, pollerVars, pollVars
<1>2. \A q : Second(q)' = Second(q)
  BY <1>1 DEF Second
<1>3. ClockInv'
  <2>1. \A r \in DOMAIN rows : Second(r) \in Nat
    BY SecondIsNat
  <2>. QED
    BY <1>1, <1>2, <2>1 DEF PollTypes, ClockInv
<1>. QED
  BY <1>1, <1>2, <1>3 DEF PollTypes, SeenInv, BatchInv, AheadInv

\* PollInv holds in every state of the specification, without fairness.
THEOREM PollInvAlways == Spec => []PollInv
<1>1. Init => PollInv
  BY PollInvInit, IngestAssumption
<1>2. PollInv /\ [Next]_vars => PollInv'
  <2> SUFFICES ASSUME PollInv, [Next]_vars PROVE PollInv'
    OBVIOUS
  <2>1. ASSUME NEW says \in Observations \cup {Malformed}, NEW lag \in 0..MaxLag,
               WriteRow(says, lag)
        PROVE  PollInv'
    BY <2>1, IngestAssumption, PollInvWrite
  <2>2. CASE Query
    BY <2>2, IngestAssumption, PollInvQuery
  <2>3. CASE SkipRow
    BY <2>3, PollInvSkip
  <2>4. CASE EmitRow
    BY <2>4, IngestAssumption, PollInvEmit
  <2>5. CASE EndPoll
    BY <2>5, PollInvEnd
  <2>6. CASE PollFails
    BY <2>6, PollInvFails
  <2>7. CASE Restart
    BY <2>7, PollInvRestart
  <2>8. CASE Tick \/ PollLog \/ (\E a \in Answers : AnswerQuery(a)) \/ UNCHANGED vars
    BY <2>8, PollInvRest
  <2>. QED
    BY <2>1, <2>2, <2>3, <2>4, <2>5, <2>6, <2>7, <2>8 DEF Next
<1>. QED
  BY <1>1, <1>2, PTL DEF Spec

\* poller.go:92-125, for every batch limit and every number of rows, failed
\* polls and restarts: a row that was in the table before its second was over
\* is never left behind by the cursor, nor taken for one already seen.
THEOREM PunctualRowsStayAhead == Spec => []PunctualRowsAhead
<1>1. PollInv => PunctualRowsAhead
  BY DEF PollInv, SeenInv, AheadInv, PunctualRowsAhead
<1>. QED
  BY <1>1, PollInvAlways, PTL

-----------------------------------------------------------------------------
(* RowsTakenOnce needs to know where the rows that were emitted are: behind   *)
(* the cursor, in its second and remembered, or passed by the poll under way. *)

\* A poll asks for nothing older than the cursor.
RangeInv ==
  /\ faults \in Nat
  /\ polling => newest >= cursor /\ \A q \in batch : Second(q) >= cursor

PassedInv ==
  \A r \in RowIds : taken[r] > 0 =>
    /\ r \in DOMAIN rows
    /\ \/ Second(r) < cursor
       \/ Second(r) = cursor /\ r \in seen
       \/ polling /\ r \notin batch /\ Second(r) < newest
       \/ polling /\ r \notin batch /\ Second(r) = newest /\ r \in fresh

OnceInv == RangeInv /\ (faults = 0 => PassedInv /\ RowsTakenOnce)

\* The poll under way emits no row that has been emitted before.
LEMMA OnceInvEmit ==
  ASSUME IngestAssumption, PollInv, OnceInv, EmitRow
  PROVE  OnceInv'
<1> USE DEF PollInv, OnceInv
<1>1. UNCHANGED <<rows, cursor, seen, polling, faults>> /\ polling
  BY DEF EmitRow
<1>2. PICK p \in batch :
        /\ ~(Second(p) = cursor /\ p \in seen)
        /\ \A q \in batch : Second(p) <= Second(q)
        /\ batch' = batch \ {p}
        /\ newest' = Second(p)
        /\ fresh' = IF Second(p) > newest THEN {p} ELSE fresh \cup {p}
        /\ taken' = [taken EXCEPT ![p] = @ + 1]
  BY DEF EmitRow
<1>3. \A q : Second(q)' = Second(q)
  BY <1>1 DEF Second
<1>4. p \in DOMAIN rows /\ p \in RowIds
  <2>1. Len(rows) \in Nat /\ DOMAIN rows = 1..Len(rows) /\ MaxRows \in Nat
    BY LenProperties DEF PollTypes, IngestAssumption
  <2>. QED
    BY <2>1 DEF PollTypes, RowIds
<1>5. /\ Second(p) \in Nat /\ cursor \in Nat /\ newest \in Nat
      /\ Second(p) >= newest /\ newest >= cursor /\ Second(p) >= cursor
  BY <1>1, <1>4, SecondIsNat DEF PollTypes, BatchInv, RangeInv
<1>6. RangeInv'
  BY <1>1, <1>2, <1>3, <1>5 DEF RangeInv
<1>7. ASSUME faults = 0 PROVE PassedInv' /\ RowsTakenOnce'
  <2>1. taken[p] = 0
    <3>1. ~(taken[p] > 0)
      BY <1>2, <1>4, <1>5, <1>7 DEF PassedInv
    <3>. QED
      BY <3>1, <1>4 DEF PollTypes
  <2>2. /\ taken'[p] = 1
        /\ \A r \in RowIds : r # p => taken'[r] = taken[r]
    BY <1>2, <1>4, <2>1 DEF PollTypes
  <2>3. RowsTakenOnce'
    BY <1>1, <1>7, <2>2 DEF RowsTakenOnce
  <2>4. PassedInv'
    <3> SUFFICES ASSUME NEW r \in RowIds, taken'[r] > 0
                 PROVE  /\ r \in DOMAIN rows
                        /\ \/ Second(r) < cursor
                           \/ Second(r) = cursor /\ r \in seen
                           \/ r \notin batch' /\ Second(r) < newest'
                           \/ r \notin batch' /\ Second(r) = newest' /\ r \in fresh'
      BY <1>1, <1>3 DEF PassedInv
    <3>1. CASE r = p
      BY <1>2, <1>4, <3>1
    <3>2. CASE r # p
      <4>1. taken[r] > 0 /\ r \in DOMAIN rows
        BY <2>2, <3>2, <1>7 DEF PassedInv
      <4>2. Second(r) \in Nat
        BY <4>1, SecondIsNat
      <4>. QED
        BY <1>1, <1>2, <1>5, <1>7, <4>1, <4>2 DEF PassedInv
    <3>. QED
      BY <3>1, <3>2
  <2>. QED
    BY <2>3, <2>4
<1>. QED
  BY <1>1, <1>6, <1>7

\* What the poll passed is behind the new cursor, or in its second and seen.
LEMMA OnceInvEnd ==
  ASSUME PollInv, OnceInv, EndPoll
  PROVE  OnceInv'
<1> USE DEF PollInv, OnceInv
<1>1. /\ UNCHANGED <<rows, taken, faults>> /\ polling /\ polling' = FALSE
      /\ cursor' = newest /\ seen' = IF newest > cursor THEN fresh ELSE seen \cup fresh
  BY DEF EndPoll, CursorNext, SeenNext
<1>2. \A q : Second(q)' = Second(q)
  BY <1>1 DEF Second
<1>3. newest >= cursor /\ newest \in Nat /\ cursor \in Nat
  BY <1>1 DEF RangeInv, PollTypes
<1>4. RangeInv'
  BY <1>1 DEF RangeInv
<1>5. ASSUME faults = 0 PROVE PassedInv' /\ RowsTakenOnce'
  <2>1. RowsTakenOnce'
    BY <1>1, <1>5 DEF RowsTakenOnce
  <2>2. \A r \in RowIds : taken[r] > 0 => r \in DOMAIN rows /\ Second(r) \in Nat
    BY <1>5, SecondIsNat DEF PassedInv
  <2>3. PassedInv'
    BY <1>1, <1>2, <1>3, <1>5, <2>2 DEF PassedInv
  <2>. QED
    BY <2>1, <2>3
<1>. QED
  BY <1>1, <1>4, <1>5

\* The other steps emit nothing and move no cursor, or are faults.
LEMMA OnceInvRest ==
  ASSUME IngestAssumption, PollInv, OnceInv, [Next]_vars, ~EmitRow, ~EndPoll
  PROVE  OnceInv'
<1> USE DEF PollInv, OnceInv
<1>1. CASE Query
  <2>1. /\ UNCHANGED <<rows, cursor, seen, taken, faults>> /\ ~polling
        /\ newest' = cursor
    BY <1>1 DEF Query
  <2>2. \A q : Second(q)' = Second(q)
    BY <2>1 DEF Second
  <2>3. \A q \in batch' : Second(q) >= cursor
    BY <1>1 DEF Query, Batches, Matching
  <2>. QED
    BY <2>1, <2>2, <2>3 DEF RangeInv, PassedInv, RowsTakenOnce, PollTypes
<1>2. CASE SkipRow
  <2>1. UNCHANGED <<rows, cursor, seen, polling, newest, fresh, taken, faults>>
        /\ batch' \subseteq batch
    BY <1>2 DEF SkipRow
  <2>2. \A q : Second(q)' = Second(q)
    BY <2>1 DEF Second
  <2>. QED
    BY <2>1, <2>2 DEF RangeInv, PassedInv, RowsTakenOnce
<1>3. CASE PollFails \/ Restart
  <2>1. faults' = faults + 1 /\ polling' = FALSE
    BY <1>3 DEF PollFails, Restart
  <2>. QED
    BY <2>1 DEF RangeInv
<1>4. ASSUME NEW says \in Observations \cup {Malformed}, NEW lag \in 0..MaxLag,
             WriteRow(says, lag)
      PROVE  OnceInv'
  <2>1. UNCHANGED <<cursor, seen, polling, batch, newest, fresh, taken, faults>>
    BY <1>4 DEF WriteRow, pollerVars, pollVars
  <2>2. /\ DOMAIN rows \subseteq DOMAIN rows'
        /\ \A r \in DOMAIN rows : Second(r)' = Second(r)
    BY <1>4 DEF WriteRow, Second, PollTypes
  <2>. QED
    BY <2>1, <2>2 DEF RangeInv, PassedInv, RowsTakenOnce, PollTypes
<1>5. CASE Tick \/ PollLog \/ (\E a \in Answers : AnswerQuery(a)) \/ UNCHANGED vars
  <2>1. UNCHANGED <<rows, cursor, seen, polling, batch, newest, fresh, taken, faults>>
    BY <1>5 DEF Tick, PollLog, AnswerQuery, vars, pollerVars, pollVars
  <2>2. \A q : Second(q)' = Second(q)
    BY <2>1 DEF Second
  <2>. QED
    BY <2>1, <2>2 DEF RangeInv, PassedInv, RowsTakenOnce
<1>. QED
  BY <1>1, <1>2, <1>3, <1>4, <1>5 DEF Next

\* poller.go:42-44, for every batch limit and however rows arrive: while no
\* poll fails and nothing restarts, no row is emitted twice.
THEOREM RowsTakenOnceHolds == Spec => []RowsTakenOnce
<1>1. Init => OnceInv
  BY DEF Init, OnceInv, RangeInv, PassedInv, RowsTakenOnce
<1>2. PollInv /\ OnceInv /\ [Next]_vars => OnceInv'
  <2> SUFFICES ASSUME PollInv, OnceInv, [Next]_vars PROVE OnceInv'
    OBVIOUS
  <2>1. CASE EmitRow
    BY <2>1, IngestAssumption, OnceInvEmit
  <2>2. CASE EndPoll
    BY <2>2, OnceInvEnd
  <2>3. CASE ~EmitRow /\ ~EndPoll
    BY <2>3, IngestAssumption, OnceInvRest
  <2>. QED
    BY <2>1, <2>2, <2>3
<1>3. OnceInv => RowsTakenOnce
  BY DEF OnceInv, RowsTakenOnce
<1>. QED
  BY <1>1, <1>2, <1>3, PollInvAlways, PTL DEF Spec

-----------------------------------------------------------------------------
(* The query log.  An entry is examined when it is returned and newer than    *)
(* the cursor; an answer ends with the newest entry there is, so the cursor   *)
(* is then at the end of the log, and what lies between the two cursors and   *)
(* was not returned was pushed out by a full answer.                          *)

LogTypes ==
  /\ log \in Seq(Answers) /\ Len(log) <= MaxLog
  /\ lastSeen \in Nat /\ booted \in Nat
  /\ checked \in [Entries -> Nat]
  /\ saturated \in BOOLEAN

\* Nothing behind the cursor is still to come, nothing ahead of it was examined.
ReadInv ==
  /\ LogTypes
  /\ booted <= lastSeen /\ lastSeen <= Len(log)
  /\ \A e \in Entries : lastSeen < e => checked[e] = 0
  /\ QueriesCheckedOnce
  /\ LossIsCounted

LEMMA LogDomain ==
  ASSUME IngestAssumption, LogTypes
  PROVE  Len(log) \in Nat /\ DOMAIN log = 1..Len(log) /\ DOMAIN log \subseteq Entries
<1>1. Len(log) \in Nat /\ DOMAIN log = 1..Len(log) /\ MaxLog \in Nat
  BY LenProperties DEF LogTypes, IngestAssumption
<1>. QED
  BY <1>1 DEF LogTypes, Entries

\* An answer ends with the newest entry of the log, and is full or holds it all.
LEMMA AnswerIsTail ==
  ASSUME IngestAssumption, LogTypes, lastSeen <= Len(log), Returned # {}
  PROVE  /\ LastRead = Len(log)
         /\ Full \/ Returned = DOMAIN log
<1> DEFINE n == Len(log)
<1>1. n \in Nat /\ DOMAIN log = 1..n /\ LogBatch \in Nat \ {0} /\ lastSeen \in Nat /\ lastSeen <= n
  BY LogDomain DEF IngestAssumption, LogTypes
<1>2. Returned = {e \in 1..n : e > n - LogBatch}
  BY <1>1 DEF Returned
<1> HIDE DEF n
<1>3. n \in Returned
  BY <1>1, <1>2
<1>4. LastRead = n
  <2> DEFINE S == Returned \cup {lastSeen}
  <2>1. n \in S /\ \A d \in S : d \in Nat /\ d <= n
    BY <1>1, <1>2, <1>3
  <2>2. LastRead \in S /\ \A d \in S : d <= LastRead
    BY <2>1 DEF LastRead, Newest
  <2> HIDE DEF S
  <2>. QED
    BY <2>1, <2>2, <1>1
<1>5. CASE n < LogBatch
  BY <1>1, <1>2, <1>4, <1>5 DEF n
<1>6. CASE n >= LogBatch
  <2>1. Returned = (n - LogBatch + 1)..n
    BY <1>1, <1>2, <1>6
  <2>2. Cardinality(Returned) = LogBatch
    BY <1>1, <1>6, <2>1, FS_Interval
  <2>. QED
    BY <1>1, <1>4, <2>2 DEF Full, n
<1>. QED
  BY <1>1, <1>5, <1>6

LEMMA ReadInvPoll ==
  ASSUME IngestAssumption, ReadInv, PollLog
  PROVE  ReadInv'
<1> USE DEF ReadInv
<1>1. /\ Returned # {} /\ UNCHANGED <<log, booted>>
      /\ saturated' = (saturated \/ Full)
      /\ checked' = [e \in Entries |-> IF e \in Unread THEN checked[e] + 1 ELSE checked[e]]
      /\ lastSeen' = Len(log)
  BY AnswerIsTail DEF PollLog
<1>2. Len(log) \in Nat /\ DOMAIN log = 1..Len(log) /\ DOMAIN log \subseteq Entries
  BY LogDomain
<1>3. \A e \in Unread : e \in Entries /\ e <= Len(log) /\ lastSeen < e /\ checked[e] = 0
  BY <1>2 DEF Unread, Returned
<1>4. LogTypes'
  BY <1>1, <1>2 DEF LogTypes, Full
<1>5. ASSUME NEW e \in Entries, lastSeen' < e PROVE checked'[e] = 0
  <2>1. e \in Nat /\ lastSeen \in Nat /\ lastSeen < e
    BY <1>1, <1>2, <1>5 DEF LogTypes, Entries
  <2>2. e \notin Unread
    BY <1>1, <1>2, <1>3, <1>5, <2>1
  <2>. QED
    BY <1>1, <2>1, <2>2
<1>6. QueriesCheckedOnce'
  BY <1>1, <1>3 DEF QueriesCheckedOnce, LogTypes
<1>7. LossIsCounted'
  <2> SUFFICES ASSUME NEW e \in DOMAIN log, booted < e, checked'[e] = 0
               PROVE  saturated'
    BY <1>1 DEF LossIsCounted
  <2>1. e \in Entries /\ e \in Nat /\ checked[e] \in Nat
    BY <1>2 DEF LogTypes
  <2>2. e \notin Unread /\ checked[e] = 0
    BY <1>1, <2>1
  <2>3. CASE e <= lastSeen
    BY <1>1, <2>2, <2>3 DEF LossIsCounted
  <2>4. CASE lastSeen < e
    BY <1>1, <2>2, <2>4, AnswerIsTail DEF Unread
  <2>. QED
    BY <2>1, <2>3, <2>4 DEF LogTypes
<1>. QED
  BY <1>1, <1>2, <1>4, <1>5, <1>6, <1>7 DEF LogTypes

\* The log grows at the end, which the cursor has not reached.
LEMMA ReadInvAnswer ==
  ASSUME IngestAssumption, ReadInv, NEW answer \in Answers, AnswerQuery(answer)
  PROVE  ReadInv'
<1> USE DEF ReadInv
<1>1. /\ Len(log) < MaxLog /\ log' = Append(log, answer)
      /\ UNCHANGED <<lastSeen, booted, checked, saturated>>
  BY DEF AnswerQuery, engineVars
<1>2. Len(log) \in Nat /\ DOMAIN log = 1..Len(log) /\ MaxLog \in Nat
  BY LogDomain DEF IngestAssumption
<1>3. log' \in Seq(Answers) /\ Len(log') = Len(log) + 1 /\ DOMAIN log' = 1..Len(log')
  BY <1>1, AppendProperties, LenProperties DEF LogTypes
<1>4. LogTypes'
  BY <1>1, <1>2, <1>3 DEF LogTypes
<1>5. QueriesCheckedOnce' /\ LossIsCounted'
  BY <1>1, <1>2, <1>3 DEF QueriesCheckedOnce, LossIsCounted, LogTypes
<1>. QED
  BY <1>1, <1>2, <1>3, <1>4, <1>5 DEF LogTypes

\* A process starts at the end of the log and answers for nothing before it.
LEMMA ReadInvRestart ==
  ASSUME IngestAssumption, ReadInv, Restart
  PROVE  ReadInv'
<1> USE DEF ReadInv
<1>1. /\ UNCHANGED <<log, checked>> /\ lastSeen' = Len(log) /\ booted' = Len(log)
      /\ saturated' = FALSE
  BY DEF Restart
<1>2. Len(log) \in Nat /\ DOMAIN log \subseteq Nat /\ lastSeen \in Nat /\ Entries \subseteq Nat
  BY LogDomain DEF LogTypes, Entries
<1>3. LogTypes' /\ QueriesCheckedOnce'
  BY <1>1, <1>2 DEF LogTypes, QueriesCheckedOnce
<1>4. ASSUME NEW e \in Entries, lastSeen' < e PROVE checked'[e] = 0
  <2>1. e \in Nat /\ lastSeen < e
    BY <1>1, <1>2, <1>4
  <2>. QED
    BY <1>1, <2>1
<1>5. LossIsCounted'
  BY <1>1, <1>2 DEF LossIsCounted
<1>. QED
  BY <1>1, <1>2, <1>3, <1>4, <1>5

\* ReadInv holds in every state of the specification.
LEMMA ReadInvAlways == Spec => []ReadInv
<1>1. Init => ReadInv
  <2> SUFFICES ASSUME Init PROVE ReadInv
    OBVIOUS
  <2>1. log = <<>> /\ Len(log) = 0 /\ DOMAIN log = {} /\ MaxLog \in Nat
    BY IngestAssumption DEF Init, IngestAssumption
  <2>2. /\ lastSeen = 0 /\ booted = 0 /\ saturated = FALSE
        /\ checked = [e \in Entries |-> 0]
    BY DEF Init
  <2>3. LogTypes
    <3>1. log \in Seq(Answers) /\ Len(log) <= MaxLog
      BY <2>1
    <3>. QED
      BY <2>2, <3>1 DEF LogTypes
  <2>4. QueriesCheckedOnce /\ LossIsCounted
    BY <2>1, <2>2 DEF QueriesCheckedOnce, LossIsCounted
  <2>. QED
    BY <2>1, <2>2, <2>3, <2>4 DEF ReadInv
<1>2. ReadInv /\ [Next]_vars => ReadInv'
  <2> SUFFICES ASSUME ReadInv, [Next]_vars PROVE ReadInv'
    OBVIOUS
  <2>1. CASE PollLog
    BY <2>1, IngestAssumption, ReadInvPoll
  <2>2. CASE Restart
    BY <2>2, IngestAssumption, ReadInvRestart
  <2>3. ASSUME NEW answer \in Answers, AnswerQuery(answer) PROVE ReadInv'
    BY <2>3, IngestAssumption, ReadInvAnswer
  <2>4. ASSUME UNCHANGED <<log, engineVars>> PROVE ReadInv'
    BY <2>4 DEF ReadInv, LogTypes, QueriesCheckedOnce, LossIsCounted, engineVars
  <2>5. ASSUME NEW says, NEW lag, WriteRow(says, lag) PROVE UNCHANGED <<log, engineVars>>
    BY <2>5 DEF WriteRow
  <2>6. CASE Tick \/ Query \/ SkipRow \/ EmitRow \/ EndPoll \/ PollFails \/ UNCHANGED vars
    <3>1. UNCHANGED <<log, engineVars>>
      BY <2>6 DEF Tick, Query, SkipRow, EmitRow, EndPoll, PollFails, vars
    <3>. QED
      BY <2>4, <3>1
  <2>. QED
    BY <2>1, <2>2, <2>3, <2>4, <2>5, <2>6 DEF Next
<1>. QED
  BY <1>1, <1>2, PTL DEF Spec

\* engine.go:191-213, for every batch size and length of the log: no entry is
\* examined twice, by this process or the one before it.
THEOREM QueriesAreCheckedOnce == Spec => []QueriesCheckedOnce
<1>1. ReadInv => QueriesCheckedOnce
  BY DEF ReadInv
<1>. QED
  BY <1>1, ReadInvAlways, PTL

\* engine.go:92-98, for every batch size: an entry that was passed over
\* without being examined has moved the counter.
THEOREM LossesAreCounted == Spec => []LossIsCounted
<1>1. ReadInv => LossIsCounted
  BY DEF ReadInv
<1>. QED
  BY <1>1, ReadInvAlways, PTL

-----------------------------------------------------------------------------
(* Types.  That a finding is one needs the answer the cache points at: the    *)
(* entry is in the log.                                                       *)

SuppressedTypes ==
  /\ DOMAIN suppressed \subseteq Findings
  /\ \A f \in DOMAIN suppressed : suppressed[f] \in 1..MaxTime + SuppressWindow
  /\ alerted \in [Findings -> [times : Nat, last : Times]]

CacheTypes ==
  cache \in [Addresses -> [entry : 0..Len(log), expires : 0..MaxTime + DnsTTL]]

RestTypes ==
  /\ now \in 1..MaxTime
  /\ rows \in Seq(Rows)
  /\ polling \in BOOLEAN
  /\ faults \in 0..MaxFaults

OtherTypes == RestTypes /\ CacheTypes /\ SuppressedTypes

LEMMA PartsAreTypes ==
  ASSUME IngestAssumption, PollInv, ReadInv, OtherTypes
  PROVE  TypeOK
<1>1. /\ Len(rows) \in Nat /\ DOMAIN rows = 1..Len(rows) /\ Len(rows) <= MaxRows
      /\ MaxRows \in Nat /\ MaxLog \in Nat /\ MaxTime \in Nat
      /\ Len(log) \in Nat /\ Len(log) <= MaxLog
  BY LenProperties, LogDomain DEF PollInv, PollTypes, ReadInv, LogTypes, IngestAssumption
<1>2. DOMAIN rows \subseteq RowIds
  BY <1>1 DEF RowIds
<1>3. now \in Times /\ cursor \in Times /\ newest \in Times
  BY <1>1 DEF PollInv, PollTypes, ClockInv, OtherTypes, RestTypes, Times
<1>4. lastSeen \in 0..MaxLog /\ booted \in 0..MaxLog
  BY <1>1 DEF ReadInv, LogTypes
<1>5. 0..Len(log) \subseteq 0..MaxLog
  BY <1>1
<1>6. cache \in [Addresses -> [entry : 0..MaxLog, expires : 0..MaxTime + DnsTTL]]
  BY <1>5 DEF OtherTypes, CacheTypes
<1>. QED
  BY <1>2, <1>3, <1>4, <1>6
     DEF TypeOK, PollInv, PollTypes, ReadInv, LogTypes, OtherTypes, RestTypes, SuppressedTypes

LEMMA LeastOfNats ==
  ASSUME NEW S, S \subseteq Nat, S # {}
  PROVE  Oldest(S) \in S
<1> DEFINE Less == {ss \in Nat \X Nat : ss[1] < ss[2]}
<1>1. IsWellFoundedOn(Less, Nat)
  BY NatLessThanWellFounded DEF OpToRel
<1>2. PICK e \in S : \A d \in S : <<d, e>> \notin Less
  <2> HIDE DEF Less
  <2>. QED
    BY <1>1, WFMin
<1>3. \A d \in S : e <= d
  <2> SUFFICES ASSUME NEW d \in S, ~(e <= d) PROVE FALSE
    OBVIOUS
  <2>1. <<d, e>> \in Less
    OBVIOUS
  <2>. QED
    BY <1>2, <2>1
<1>. QED
  BY <1>2, <1>3 DEF Oldest

LEMMA FindingIsOne ==
  ASSUME IngestAssumption, ReadInv, OtherTypes, NEW o \in Observations
  PROVE  Finding(o) \in Findings \cup {None}
<1>1. o.dst \in Addresses /\ o.sni \in Domains \cup {None}
  BY DEF IngestAssumption
<1>2. Resolved(o.dst) \in Domains \cup {None}
  <2>1. cache[o.dst].entry \in 0..Len(log) /\ Len(log) \in Nat
    BY <1>1, LogDomain DEF OtherTypes, CacheTypes, ReadInv
  <2>2. cache[o.dst].entry # 0 => log[cache[o.dst].entry] \in Answers
    BY <2>1, ElementOfSeq DEF ReadInv, LogTypes
  <2>. QED
    BY <2>2 DEF Resolved, Answers
<1> DEFINE resolved == Resolved(o.dst)
<1>3. /\ [dst |-> o.dst, reason |-> "ioc", sni |-> None, resolved |-> None] \in Findings
      /\ [dst |-> o.dst, reason |-> "sni-dns-mismatch", sni |-> o.sni, resolved |-> resolved] \in Findings
      /\ [dst |-> o.dst, reason |-> "dns-less-tls", sni |-> None, resolved |-> None] \in Findings
  BY <1>1, <1>2 DEF Findings
<1>. QED
  BY <1>3 DEF Finding

LEMMA AlertKeepsTypes ==
  ASSUME IngestAssumption, RestTypes, SuppressedTypes, NEW f \in Findings \cup {None}, Alert(f)
  PROVE  SuppressedTypes'
<1>1. now \in Times /\ now + SuppressWindow \in 1..MaxTime + SuppressWindow
  BY DEF RestTypes, Times, IngestAssumption
<1>2. CASE UNCHANGED tlsVars
  BY <1>2 DEF tlsVars, SuppressedTypes
<1>3. CASE ~(f = None \/ Suppressing(f))
  <2>1. f \in Findings
    BY <1>3
  <2>2. /\ DOMAIN Purged \subseteq Findings
        /\ \A g \in DOMAIN Purged : Purged[g] \in 1..MaxTime + SuppressWindow
    BY DEF Purged, SuppressedTypes
  <2>3. /\ suppressed' = [g \in DOMAIN Purged \cup {f} |->
                            IF g = f THEN now + SuppressWindow ELSE Purged[g]]
        /\ alerted' = [alerted EXCEPT ![f] = [times |-> @.times + 1, last |-> now]]
    BY <1>3 DEF Alert
  <2>4. alerted' \in [Findings -> [times : Nat, last : Times]]
    BY <1>1, <2>1, <2>3 DEF SuppressedTypes
  <2>5. /\ DOMAIN suppressed' \subseteq Findings
        /\ \A g \in DOMAIN suppressed' : suppressed'[g] \in 1..MaxTime + SuppressWindow
    <3> HIDE DEF Purged
    <3>. QED
      BY <1>1, <2>1, <2>2, <2>3
  <2>. QED
    BY <2>4, <2>5 DEF SuppressedTypes
<1>. QED
  BY <1>2, <1>3 DEF Alert

LEMMA EmitKeepsTypes ==
  ASSUME IngestAssumption, PollInv, ReadInv, OtherTypes, EmitRow
  PROVE  OtherTypes'
<1>1. PICK r \in batch : rows[r].says # Malformed /\ Alert(Finding(rows[r].says))
  BY DEF EmitRow
<1>2. rows[r].says \in Observations
  <2>1. r \in DOMAIN rows /\ rows \in Seq(Rows)
    BY DEF PollInv, PollTypes, OtherTypes, RestTypes
  <2>2. rows[r] \in Rows
    BY <2>1, LenProperties, ElementOfSeq
  <2>. QED
    BY <1>1, <2>2 DEF Rows
<1>3. SuppressedTypes'
  BY <1>1, <1>2, FindingIsOne, AlertKeepsTypes DEF OtherTypes
<1>4. RestTypes' /\ CacheTypes'
  BY DEF EmitRow, OtherTypes, RestTypes, CacheTypes, engineVars
<1>. QED
  BY <1>3, <1>4 DEF OtherTypes

LEMMA LogPollKeepsTypes ==
  ASSUME IngestAssumption, ReadInv, OtherTypes, PollLog
  PROVE  OtherTypes'
<1>1. Len(log) \in Nat /\ DOMAIN log = 1..Len(log)
  BY LogDomain DEF ReadInv
<1>2. now + DnsTTL \in 0..MaxTime + DnsTTL
  BY DEF OtherTypes, RestTypes, IngestAssumption
<1>3. ASSUME NEW a \in Addresses
      PROVE  Cached(a) \in [entry : 0..Len(log), expires : 0..MaxTime + DnsTTL]
  <2> DEFINE answers == {e \in Unread : log[e].address = a}
  <2>1. answers \subseteq 0..Len(log) /\ answers \subseteq Nat
    BY <1>1 DEF Unread, Returned
  <2>2. answers # {} => Oldest(answers) \in 0..Len(log)
    BY <2>1, LeastOfNats
  <2>. QED
    BY <1>2, <2>2 DEF Cached, OtherTypes, CacheTypes
<1>4. CacheTypes'
  BY <1>3 DEF PollLog, CacheTypes
<1>5. RestTypes' /\ SuppressedTypes'
  BY DEF PollLog, OtherTypes, RestTypes, SuppressedTypes, pollerVars, pollVars, tlsVars
<1>. QED
  BY <1>4, <1>5 DEF OtherTypes

LEMMA OutsideKeepsTypes ==
  ASSUME IngestAssumption, PollInv, ReadInv, OtherTypes,
         \/ \E says \in Observations \cup {Malformed}, lag \in 0..MaxLag : WriteRow(says, lag)
         \/ \E answer \in Answers : AnswerQuery(answer)
         \/ Tick
  PROVE  OtherTypes'
<1> USE DEF OtherTypes
<1>1. ASSUME NEW says \in Observations \cup {Malformed}, NEW lag \in 0..MaxLag, WriteRow(says, lag)
      PROVE  OtherTypes'
  <2>1. [second |-> now - lag, says |-> says] \in Rows
    BY <1>1 DEF WriteRow, RestTypes, Rows, Times, IngestAssumption
  <2>2. rows' \in Seq(Rows)
    BY <1>1, <2>1, AppendProperties DEF WriteRow, RestTypes
  <2>. QED
    BY <1>1, <2>2
       DEF WriteRow, RestTypes, CacheTypes, SuppressedTypes, pollerVars, pollVars, engineVars, tlsVars
<1>2. ASSUME NEW answer \in Answers, AnswerQuery(answer) PROVE OtherTypes'
  <2>1. Len(log) \in Nat /\ Len(log') = Len(log) + 1
    BY <1>2, LogDomain, AppendProperties DEF AnswerQuery, ReadInv, LogTypes
  <2>2. 0..Len(log) \subseteq 0..Len(log')
    BY <2>1
  <2>3. CacheTypes'
    BY <1>2, <2>2 DEF AnswerQuery, CacheTypes, engineVars
  <2>. QED
    BY <1>2, <2>3 DEF AnswerQuery, RestTypes, SuppressedTypes, pollerVars, pollVars, tlsVars
<1>3. CASE Tick
  <2>1. now' \in 1..MaxTime
    BY <1>3 DEF Tick, RestTypes, IngestAssumption
  <2>. QED
    BY <1>3, <2>1
       DEF Tick, RestTypes, CacheTypes, SuppressedTypes, pollerVars, pollVars, engineVars, tlsVars
<1>. QED
  BY <1>1, <1>2, <1>3

LEMMA OtherTypesInit == ASSUME IngestAssumption, Init PROVE OtherTypes
<1>1. RestTypes
  <2>1. 1 \in 1..MaxTime /\ 0 \in 0..MaxFaults
    BY DEF IngestAssumption
  <2>2. rows \in Seq(Rows)
    BY DEF Init
  <2>. QED
    BY <2>1, <2>2 DEF Init, RestTypes
<1>2. Len(log) = 0 /\ 0 \in 0..Len(log) /\ 0 \in 0..MaxTime + DnsTTL /\ 0 \in Times
  BY DEF Init, IngestAssumption, Times
<1>3. CacheTypes
  BY <1>2 DEF Init, CacheTypes
<1>4. SuppressedTypes
  BY <1>2 DEF Init, SuppressedTypes, Nothing
<1>. QED
  BY <1>1, <1>3, <1>4 DEF OtherTypes

LEMMA RestartKeepsTypes == ASSUME IngestAssumption, ReadInv, OtherTypes, Restart PROVE OtherTypes'
<1>1. RestTypes'
  <2>1. UNCHANGED <<now, rows>> /\ polling' = FALSE /\ faults < MaxFaults /\ faults' = faults + 1
    BY DEF Restart
  <2>2. faults' \in 0..MaxFaults
    BY <2>1 DEF OtherTypes, RestTypes, IngestAssumption
  <2>. QED
    BY <2>1, <2>2 DEF OtherTypes, RestTypes
<1>2. Len(log) \in Nat /\ 0 \in 0..Len(log) /\ 0 \in 0..MaxTime + DnsTTL /\ 0 \in Times
  BY LogDomain DEF ReadInv, IngestAssumption, Times
<1>3. CacheTypes'
  BY <1>2 DEF Restart, CacheTypes
<1>4. SuppressedTypes'
  BY <1>2 DEF Restart, SuppressedTypes, Nothing
<1>. QED
  BY <1>1, <1>3, <1>4 DEF OtherTypes

\* The type invariant, for every value of the constants.
THEOREM IngestType == Spec => []TypeOK
<1>1. Init => OtherTypes
  BY IngestAssumption, OtherTypesInit
<1>2. PollInv /\ ReadInv /\ OtherTypes /\ [Next]_vars => OtherTypes'
  <2> SUFFICES ASSUME PollInv, ReadInv, OtherTypes, [Next]_vars PROVE OtherTypes'
    OBVIOUS
  <2>1. CASE EmitRow
    BY <2>1, IngestAssumption, EmitKeepsTypes
  <2>2. CASE PollLog
    BY <2>2, IngestAssumption, LogPollKeepsTypes
  <2>3. CASE Restart
    BY <2>3, IngestAssumption, RestartKeepsTypes
  <2>4. CASE Query \/ SkipRow \/ EndPoll \/ PollFails \/ UNCHANGED vars
    <3>1. UNCHANGED <<now, rows, cache, log, suppressed, alerted>>
      BY <2>4 DEF Query, SkipRow, EndPoll, PollFails, vars, engineVars, tlsVars
    <3>2. /\ polling' \in {polling, TRUE, FALSE}
          /\ faults' = faults \/ (faults < MaxFaults /\ faults' = faults + 1)
      BY <2>4 DEF Query, SkipRow, EndPoll, PollFails, vars, pollerVars, pollVars
    <3>3. polling' \in BOOLEAN
      BY <3>2 DEF OtherTypes, RestTypes
    <3>4. faults' \in 0..MaxFaults
      BY <3>2, IngestAssumption DEF OtherTypes, RestTypes, IngestAssumption
    <3>. QED
      BY <3>1, <3>3, <3>4 DEF OtherTypes, RestTypes, CacheTypes, SuppressedTypes
  <2>. QED
    BY <2>1, <2>2, <2>3, <2>4, IngestAssumption, OutsideKeepsTypes DEF Next
<1>3. PollInv /\ ReadInv /\ OtherTypes => TypeOK
  BY IngestAssumption, PartsAreTypes
<1>. QED
  BY <1>1, <1>2, <1>3, PollInvAlways, ReadInvAlways, PTL DEF Spec

-----------------------------------------------------------------------------
(***************************************************************************)
(* A finding alerted less than a window ago is still remembered, and for   *)
(* as long as the window: the purge only takes entries whose time is up.   *)
(***************************************************************************)
Recent(f) == 0 < alerted[f].times /\ now < alerted[f].last + SuppressWindow

RemembersUntil(f) ==
  f \in DOMAIN suppressed /\ suppressed[f] >= alerted[f].last + SuppressWindow

SuppressInv == \A f \in Findings : Recent(f) => RemembersUntil(f)

LEMMA PurgeKeepsRecent ==
  ASSUME TypeOK, SuppressInv, NEW f \in Findings, Recent(f)
  PROVE  f \in DOMAIN Purged /\ Purged[f] >= alerted[f].last + SuppressWindow
<1>1. f \in DOMAIN suppressed /\ suppressed[f] >= alerted[f].last + SuppressWindow
  BY DEF SuppressInv, RemembersUntil
<1>2. suppressed[f] >= now
  <2>1. /\ suppressed[f] \in Int /\ now \in Int /\ SuppressWindow \in Int
        /\ alerted[f].last \in Int
    BY <1>1, IngestAssumption DEF TypeOK, IngestAssumption, Times
  <2>. QED BY <1>1, <2>1 DEF Recent
<1>. QED BY <1>1, <1>2 DEF Purged

\* An alert is one of a finding that is not suppressed, and of no other.
LEMMA AlertIsNew ==
  ASSUME TypeOK, SuppressInv, NEW e, Alert(e), now' = now
  PROVE  /\ SuppressInv'
         /\ \A f \in Findings : 0 < alerted[f].times /\ alerted[f].times < alerted'[f].times
              => now >= alerted[f].last + SuppressWindow
<1> USE IngestAssumption DEF IngestAssumption
<1>1. ASSUME NEW f \in Findings
      PROVE  /\ now \in Nat /\ SuppressWindow \in Nat \ {0}
             /\ alerted[f].last \in Nat /\ alerted[f].times \in Nat
             /\ f \in DOMAIN suppressed => suppressed[f] \in Nat
  BY DEF TypeOK, Times
<1>2. CASE UNCHANGED tlsVars
  <2>1. SuppressInv'
    BY <1>2 DEF tlsVars, SuppressInv, Recent, RemembersUntil
  <2>2. \A f \in Findings : ~(alerted[f].times < alerted'[f].times)
    BY <1>1, <1>2 DEF tlsVars
  <2>. QED BY <2>1, <2>2
<1>3. CASE ~(e = None \/ Suppressing(e))
  <2>1. /\ suppressed' = [g \in DOMAIN Purged \cup {e} |->
                            IF g = e THEN now + SuppressWindow ELSE Purged[g]]
        /\ alerted' = [alerted EXCEPT ![e] = [times |-> @.times + 1, last |-> now]]
    BY <1>3 DEF Alert
  <2>2. alerted \in [Findings -> [times : Nat, last : Times]]
    BY DEF TypeOK
  <2>3. \A f \in Findings \ {e} : alerted'[f] = alerted[f]
    BY <2>1, <2>2
  <2>4. e \in Findings => alerted'[e].last = now
    BY <2>1, <2>2
  <2>5. ASSUME NEW f \in Findings, Recent(f)' PROVE RemembersUntil(f)'
    <3>1. CASE f = e
      <4>1. f \in DOMAIN suppressed' /\ suppressed'[f] = now + SuppressWindow
        BY <2>1, <3>1
      <4>. QED BY <1>1, <2>4, <3>1, <4>1 DEF RemembersUntil
    <3>2. CASE f # e
      <4>1. Recent(f) /\ alerted'[f] = alerted[f]
        BY <2>3, <2>5, <3>2 DEF Recent
      <4>2. f \in DOMAIN Purged /\ Purged[f] >= alerted[f].last + SuppressWindow
        BY <4>1, PurgeKeepsRecent
      <4>3. f \in DOMAIN suppressed' /\ suppressed'[f] = Purged[f]
        BY <2>1, <3>2, <4>2
      <4>. QED BY <4>1, <4>2, <4>3 DEF RemembersUntil
    <3>. QED BY <3>1, <3>2
  <2>6. ASSUME NEW f \in Findings, 0 < alerted[f].times, alerted[f].times < alerted'[f].times
        PROVE  now >= alerted[f].last + SuppressWindow
    <3>1. f = e
      BY <1>1, <2>3, <2>6
    <3>2. ASSUME Recent(f) PROVE FALSE
      <4>1. f \in DOMAIN suppressed /\ suppressed[f] >= alerted[f].last + SuppressWindow
        BY <3>2 DEF SuppressInv, RemembersUntil
      <4>2. now < suppressed[f]
        BY <1>1, <3>2, <4>1 DEF Recent
      <4>. QED BY <1>3, <3>1, <4>1, <4>2 DEF Suppressing
    <3>. QED BY <1>1, <2>6, <3>2 DEF Recent
  <2>. QED BY <2>5, <2>6 DEF SuppressInv
<1>. QED BY <1>2, <1>3 DEF Alert

\* FindingsNotRepeated, of one step.
NotRepeated ==
  \A f \in Findings : 0 < alerted[f].times /\ alerted[f].times < alerted'[f].times
    => now >= alerted[f].last + SuppressWindow

LEMMA SuppressInvNext ==
  ASSUME TypeOK, SuppressInv, [Next]_vars
  PROVE  SuppressInv' /\ NotRepeated
<1> USE IngestAssumption DEF IngestAssumption
<1>1. CASE EmitRow
  <2>1. now' = now /\ \E e : Alert(e)
    BY <1>1 DEF EmitRow
  <2>. QED BY <2>1, AlertIsNew DEF NotRepeated
<1>2. CASE Restart
  <2>1. \A f \in Findings : alerted'[f].times = 0
    BY <1>2 DEF Restart
  <2>2. \A f \in Findings : alerted[f].times \in Nat
    BY DEF TypeOK
  <2>. QED BY <2>1, <2>2 DEF SuppressInv, Recent, NotRepeated
<1>3. CASE ~(EmitRow \/ Restart)
  <2>1. /\ UNCHANGED tlsVars
        /\ now' = now \/ now' = now + 1
    BY <1>3 DEF Next, WriteRow, AnswerQuery, Tick, Query, SkipRow, EndPoll, PollFails, PollLog, vars
  <2>2. ASSUME NEW f \in Findings PROVE /\ Recent(f)' => Recent(f)
                                        /\ alerted[f].times = alerted'[f].times
                                        /\ alerted[f].times \in Nat
    <3>1. now \in Nat /\ SuppressWindow \in Nat /\ alerted[f].last \in Nat /\ alerted[f].times \in Nat
      BY DEF TypeOK, Times
    <3>. QED BY <2>1, <3>1 DEF tlsVars, Recent
  <2>3. NotRepeated
    BY <2>2 DEF NotRepeated
  <2>. QED BY <2>1, <2>2, <2>3 DEF tlsVars, SuppressInv, RemembersUntil
<1>. QED BY <1>1, <1>2, <1>3

(***************************************************************************)
(* Between two alerts of one finding lies the window of suppress, for      *)
(* every window, however full the map gets and whenever it is purged,      *)
(* short of a restart, which forgets all findings.                         *)
(***************************************************************************)
THEOREM FindingsNotRepeatedHolds == Spec => FindingsNotRepeated
<1>1. Init => SuppressInv
  BY DEF Init, SuppressInv, Recent
<1>2. TypeOK /\ SuppressInv /\ [Next]_vars => SuppressInv'
  BY SuppressInvNext
<1>3. TypeOK /\ SuppressInv /\ [Next]_vars => [NotRepeated]_vars
  BY SuppressInvNext
<1>4. [NotRepeated]_vars =>
        [\A f \in Findings : 0 < alerted[f].times /\ alerted[f].times < alerted'[f].times
           => now >= alerted[f].last + SuppressWindow]_vars
  BY DEF NotRepeated
<1>. QED BY <1>1, <1>2, <1>3, <1>4, IngestType, PTL DEF Spec, FindingsNotRepeated
=============================================================================
