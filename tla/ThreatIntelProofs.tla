-------------------------- MODULE ThreatIntelProofs --------------------------
(***************************************************************************)
(* Proofs about ThreatIntel: the order in which feeds answer, and how      *)
(* often, makes no difference to a merged indicator; the store's types;    *)
(* and that an outage drops no live intel, for every list of feeds.        *)
(***************************************************************************)
EXTENDS ThreatIntel, TLAPS

\* What Merge is applied to: the types of Kept without their bounds.
Mergeable == [confidence : Nat, first : Nat, last : Nat]

\* The order of two feeds in a cycle (syncOnce's loop) leaves no trace.
THEOREM MergeCommutes ==
  ASSUME NEW a \in Mergeable, NEW b \in Mergeable
  PROVE  Merge(a, b) = Merge(b, a)
BY DEF Mergeable, Merge, Larger, Earlier, Never

\* Nor does the order of three: what a store holds is the merge of a set.
THEOREM MergeAssociates ==
  ASSUME NEW a \in Mergeable, NEW b \in Mergeable, NEW c \in Mergeable
  PROVE  Merge(Merge(a, b), c) = Merge(a, Merge(b, c))
<1> DEFINE E(x, y) == Earlier(x, y)
           L(x, y) == Larger(x, y)
<1>1. \A x, y, z \in Nat : L(L(x, y), z) = L(x, L(y, z))
  BY DEF Larger
<1>2. \A x, y, z \in Nat : E(E(x, y), z) = E(x, E(y, z))
  BY DEF Earlier, Never
<1>3. \A x, y \in Nat : L(x, y) \in Nat /\ E(x, y) \in Nat
  BY DEF Larger, Earlier
<1> QED
  BY <1>1, <1>2, <1>3 DEF Mergeable, Merge

\* A feed that answers the same again changes nothing (every cycle but one).
THEOREM MergeIdempotent ==
  ASSUME NEW a \in Mergeable
  PROVE  Merge(a, a) = a
BY DEF Mergeable, Merge, Larger, Earlier, Never

-----------------------------------------------------------------------------
LEMMA KeptIsMergeable == Kept \subseteq Mergeable
BY DEF Mergeable, Kept, Times

\* What Valid lets through is what the store keeps, and stays so when merged.
LEMMA UpsertedKept ==
  ASSUME TypeOK, NEW s \in Sources
  PROVE  Upserted(s) \in [Indicators -> Kept \cup {None}]
<1>1. ASSUME NEW a \in Kept, NEW b \in Kept PROVE Merge(a, b) \in Kept
  BY <1>1 DEF Kept, Merge, Larger, Earlier, Times, Never
<1>2. \A k \in Indicators : Valid(s, k) => claims[s][k] \in Kept
  <2> SUFFICES ASSUME NEW k \in Indicators, Valid(s, k) PROVE claims[s][k] \in Kept
    OBVIOUS
  <2>1. claims[s][k] \in Records /\ claims[s][k].confidence <= 100
    BY DEF TypeOK, Valid
  <2> QED
    BY <2>1 DEF Records, Kept
<1>3. \A k \in Indicators : store[k] \in Kept \cup {None}
  BY DEF TypeOK
<1> QED
  BY <1>1, <1>2, <1>3 DEF Upserted

LEMMA StaticMatcherType == StaticMatcher \in [Indicators -> Unknown..100]
BY DEF StaticMatcher, StaticConfidence, Unknown

LEMMA TypeInit == Init => TypeOK
<1> SUFFICES ASSUME Init PROVE TypeOK
  OBVIOUS
<1> USE ThreatIntelAssumption
<1>1. StaticMatcher \in [Indicators -> Unknown..100]
  BY StaticMatcherType
<1>2. Len(Feeds) \in Nat
  OBVIOUS
<1> QED
  BY <1>1, <1>2 DEF Init, TypeOK, Times, Never

LEMMA TypeNext == TypeOK /\ [Next]_vars => TypeOK'
<1> SUFFICES ASSUME TypeOK, [Next]_vars PROVE TypeOK'
  OBVIOUS
<1> USE ThreatIntelAssumption
<1>0. Len(Feeds) \in Nat /\ DOMAIN Feeds = 1..Len(Feeds)
  OBVIOUS
<1>1. ASSUME NEW s \in Sources, NEW k \in Indicators, NEW c \in Confidence[s], Publish(s, k, c)
      PROVE  TypeOK'
  <2>1. Dated(s, k, c) \in Records
    <3>1. c \in Nat
      OBVIOUS
    <3>2. claims[s][k] \in Records \cup {None}
      BY DEF TypeOK
    <3>3. now \in Times
      BY DEF TypeOK, Times
    <3>4. Never \in Times
      BY DEF Never, Times
    <3> QED
      BY <3>1, <3>2, <3>3, <3>4 DEF Dated, Records
  <2>2. claims' \in [Sources -> [Indicators -> Records \cup {None}]]
    BY <1>1, <2>1 DEF Publish, TypeOK
  <2>3. edits' \in 0..MaxEdits
    BY <1>1 DEF Publish, TypeOK
  <2> QED
    BY <1>1, <2>2, <2>3 DEF Publish, TypeOK, syncVars
<1>2. ASSUME NEW s \in Sources, NEW k \in Indicators, Withdraw(s, k) PROVE TypeOK'
  BY <1>2 DEF Withdraw, TypeOK, syncVars
<1>3. ASSUME NEW s \in Sources, FetchOK(s) PROVE TypeOK'
  <2>1. store' \in [Indicators -> Kept \cup {None}]
    BY <1>3, UpsertedKept DEF FetchOK
  <2>2. sighted' \in [Indicators -> Times]
    <3>1. \A k \in Indicators : Valid(s, k) => claims[s][k].last \in Times
      BY DEF TypeOK, Valid, Records
    <3>2. \A x, y \in Times : Larger(x, y) \in Times
      BY DEF Larger
    <3> QED
      BY <1>3, <3>1, <3>2 DEF FetchOK, TypeOK
  <2>3. next' \in 0..Len(Feeds) + 1
    BY <1>0, <1>3 DEF FetchOK, TypeOK
  <2> QED
    BY <1>3, <2>1, <2>2, <2>3 DEF FetchOK, TypeOK
<1>4. ASSUME FetchFails PROVE TypeOK'
  BY <1>0, <1>4 DEF FetchFails, TypeOK
<1>5. ASSUME Prune PROVE TypeOK'
  <2>1. store' \in [Indicators -> Kept \cup {None}]
    BY <1>5 DEF Prune, TypeOK
  <2>2. pruned' \in Times
    BY <1>5 DEF Prune, TypeOK, Times
  <2> QED
    BY <1>0, <1>5, <2>1, <2>2 DEF Prune, TypeOK
<1>6. ASSUME NextCycle PROVE TypeOK'
  BY <1>0, <1>6 DEF NextCycle, TypeOK
<1>7. ASSUME GetExport PROVE TypeOK'
  BY <1>7 DEF GetExport, TypeOK, syncVars
<1>8. ASSUME Add PROVE TypeOK'
  <2>1. reply \in [Indicators -> Kept \cup {None}]
    BY <1>8 DEF Add, TypeOK
  <2>2. \A k \in Indicators : reply[k] # None => reply[k].confidence \in 0..100
    BY <2>1 DEF Kept
  <2>3. matcher' \in [Indicators -> Unknown..100]
    BY <1>8, <2>2 DEF Add, TypeOK, Unknown
  <2> QED
    BY <1>8, <2>3 DEF Add, TypeOK, syncVars
<1>9. ASSUME ReplyLost PROVE TypeOK'
  BY <1>9 DEF ReplyLost, TypeOK, syncVars
<1>10. ASSUME RestartSync PROVE TypeOK'
  BY <1>0, <1>10 DEF RestartSync, TypeOK, Times, Never
<1>11. ASSUME RestartEngine PROVE TypeOK'
  BY <1>11, StaticMatcherType DEF RestartEngine, TypeOK, syncVars
<1>12. ASSUME Tick PROVE TypeOK'
  BY <1>12 DEF Tick, TypeOK, syncVars
<1>13. CASE UNCHANGED vars
  BY <1>13 DEF vars, syncVars, TypeOK
<1> QED
  BY <1>1, <1>2, <1>3, <1>4, <1>5, <1>6, <1>7, <1>8, <1>9, <1>10, <1>11, <1>12, <1>13
  DEF Next, FeedStep, Cycle, EngineSync

\* Type correctness of both processes, whatever feeds are configured: a
\* confidence out of range (ioc.Validate) reaches neither of them.
THEOREM ThreatIntelType == Spec => []TypeOK
BY TypeInit, TypeNext, PTL DEF Spec

-----------------------------------------------------------------------------
(***************************************************************************)
(* FreshIntelOutlivesOutages is not inductive: that an indicator is in the *)
(* store does not keep the next Prune from dropping it.  What does is that *)
(* the store's own date is no older than the newest sighting taken in, and *)
(* that the clock has not gone back since the last prune.                  *)
(***************************************************************************)
Fresh(k) == sighted[k] # Never /\ sighted[k] >= pruned - TTL

DatesKept ==
  /\ pruned <= now
  /\ \A k \in Indicators : Fresh(k) => store[k] # None /\ store[k].last >= sighted[k]

LEMMA DatesKeptInit == Init => DatesKept
BY DEF Init, DatesKept, Fresh, Never

LEMMA DatesKeptFetch ==
  ASSUME TypeOK, DatesKept, NEW s \in Sources, FetchOK(s)
  PROVE  DatesKept'
<1> USE ThreatIntelAssumption
<1>1. ASSUME NEW k \in Indicators, Fresh(k)'
      PROVE  store'[k] # None /\ store'[k].last >= sighted'[k]
  <2>1. /\ store'[k] = Upserted(s)[k]
        /\ sighted'[k] = IF Valid(s, k) THEN Larger(sighted[k], claims[s][k].last) ELSE sighted[k]
        /\ pruned' = pruned
    BY DEF FetchOK
  <2>2. sighted[k] \in Nat /\ pruned \in Nat
    BY DEF TypeOK, Times
  <2>3. CASE ~Valid(s, k)
    BY <1>1, <2>1, <2>3 DEF DatesKept, Fresh, Upserted
  <2>4. CASE Valid(s, k)
    <3> DEFINE new == claims[s][k]
    <3>1. new \in Records
      BY <2>4 DEF Valid, TypeOK
    <3>2. new.last \in Nat /\ new # None
      BY <3>1 DEF Records, Times
    <3>3. CASE store[k] = None
      <4>1. Upserted(s)[k] = new
        BY <2>4, <3>3 DEF Upserted
      <4>2. ~Fresh(k)
        BY <3>3 DEF DatesKept
      <4>3. sighted'[k] = Larger(sighted[k], new.last)
        BY <2>1, <2>4
      <4> QED
        BY <1>1, <2>1, <2>2, <3>2, <4>1, <4>2, <4>3 DEF Fresh, Larger, Never
    <3>4. CASE store[k] # None
      <4>1. store[k] \in Mergeable
        BY <3>4, KeptIsMergeable DEF TypeOK
      <4>2. store[k].last \in Nat
        BY <4>1 DEF Mergeable
      <4>3. Upserted(s)[k] = Merge(store[k], new)
        BY <2>4, <3>4 DEF Upserted
      <4>4. Merge(store[k], new).last = Larger(store[k].last, new.last)
        BY DEF Merge
      <4>5. new \in Mergeable
        BY <3>1 DEF Mergeable, Records, Times
      <4>6. Merge(store[k], new) \in Mergeable
        BY <4>1, <4>5 DEF Mergeable, Merge, Larger, Earlier
      <4>7. Merge(store[k], new) # None
        BY <4>6 DEF Mergeable
      <4>8. sighted'[k] = Larger(sighted[k], new.last)
        BY <2>1, <2>4
      <4>9. Fresh(k) => store[k].last >= sighted[k]
        BY DEF DatesKept
      <4> QED
        BY <1>1, <2>1, <2>2, <3>2, <4>2, <4>3, <4>4, <4>7, <4>8, <4>9 DEF Fresh, Larger, Never
    <3> QED
      BY <3>3, <3>4
  <2> QED
    BY <2>3, <2>4
<1>2. pruned' <= now'
  BY DEF FetchOK, DatesKept
<1> QED
  BY <1>1, <1>2 DEF DatesKept, Fresh

LEMMA DatesKeptPrune ==
  ASSUME TypeOK, DatesKept, Prune
  PROVE  DatesKept'
<1> USE ThreatIntelAssumption
<1>0. now \in Nat /\ pruned \in Nat /\ TTL \in Nat
  BY DEF TypeOK, Times
<1>1. pruned' <= now' /\ pruned <= pruned'
  BY <1>0 DEF Prune, DatesKept
<1>2. ASSUME NEW k \in Indicators, Fresh(k)'
      PROVE  store'[k] # None /\ store'[k].last >= sighted'[k]
  <2>1. sighted' = sighted /\ sighted[k] \in Nat /\ pruned' \in Nat
    BY <1>0 DEF Prune, TypeOK, Times
  <2>2. Fresh(k)
    BY <1>0, <1>1, <1>2, <2>1 DEF Fresh
  <2>3. store[k] # None /\ store[k].last >= sighted[k]
    BY <2>2 DEF DatesKept
  <2>4. store[k].last \in Nat
    BY <2>3 DEF TypeOK, Kept, Times
  <2>5. MayPrune => ~Stale(store[k])
    <3> SUFFICES ASSUME MayPrune PROVE ~Stale(store[k])
      OBVIOUS
    <3>1. pruned' = now
      BY DEF MayPrune, Prune
    <3>2. sighted[k] # Never /\ sighted[k] >= now - TTL
      BY <1>2, <2>1, <3>1 DEF Fresh
    <3>3. Stamp(store[k]) = store[k].last
      BY <2>1, <2>3, <2>4, <3>2 DEF Stamp, Never
    <3> QED
      BY <1>0, <2>1, <2>3, <2>4, <3>2, <3>3 DEF Stale
  <2>6. store'[k] = store[k]
    BY <2>5 DEF Prune
  <2> QED
    BY <2>1, <2>3, <2>6
<1> QED
  BY <1>1, <1>2 DEF DatesKept, Fresh

LEMMA DatesKeptNext == TypeOK /\ DatesKept /\ [Next]_vars => DatesKept'
<1> SUFFICES ASSUME TypeOK, DatesKept, [Next]_vars PROVE DatesKept'
  OBVIOUS
<1> USE ThreatIntelAssumption
<1>1. CASE UNCHANGED <<now, syncVars>>
  BY <1>1 DEF syncVars, DatesKept, Fresh
<1>2. ASSUME NEW s \in Sources, FetchOK(s) PROVE DatesKept'
  BY <1>2, DatesKeptFetch
<1>3. CASE FetchFails
  BY <1>3 DEF FetchFails, DatesKept, Fresh
<1>4. CASE Prune
  BY <1>4, DatesKeptPrune
<1>5. CASE NextCycle
  BY <1>5 DEF NextCycle, DatesKept, Fresh
<1>6. CASE RestartSync
  <2>1. pruned' = 0 /\ now' = now /\ now \in Nat
    BY <1>6 DEF RestartSync, TypeOK, Never
  <2>2. \A k \in Indicators : sighted'[k] = Never
    BY <1>6 DEF RestartSync
  <2> QED
    BY <2>1, <2>2 DEF DatesKept, Fresh
<1>7. CASE Tick
  <2>1. now' > now /\ pruned <= now' /\ UNCHANGED syncVars
    BY <1>7 DEF Tick, TypeOK, Times, DatesKept
  <2> QED
    BY <2>1 DEF syncVars, DatesKept, Fresh
<1> QED
  BY <1>1, <1>2, <1>3, <1>4, <1>5, <1>6, <1>7
  DEF Next, FeedStep, Cycle, EngineSync, Publish, Withdraw, GetExport, Add, ReplyLost,
      RestartEngine, vars

\* An outage drops no live intel, for every list of feeds, every TTL and
\* every way the feeds' answers fall into the cycles (syncOnce, PruneBefore).
THEOREM FreshIntelOutlivesOutagesHolds == Spec => []FreshIntelOutlivesOutages
<1>1. DatesKept => FreshIntelOutlivesOutages
  BY DEF DatesKept, Fresh, FreshIntelOutlivesOutages
<1> QED
  BY <1>1, DatesKeptInit, DatesKeptNext, ThreatIntelType, PTL DEF Spec
=============================================================================
