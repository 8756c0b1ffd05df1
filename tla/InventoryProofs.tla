--------------------------- MODULE InventoryProofs ---------------------------
(***************************************************************************)
(* What is proved of device-inventory: its types, one row per device, that *)
(* no discovery makes a known device vanish, and that the event writer is  *)
(* a lossy log.                                                            *)
(*                                                                         *)
(* StableIdsUnique is not inductive.  UpsertFull is two statements, and    *)
(* between the UPDATE that found no row and the INSERT the other goroutine *)
(* and the API go on; what carries it over is that nothing else gives a    *)
(* row a stable id, or the mark of a randomized address together with one  *)
(* that no earlier version left behind.                                    *)
(***************************************************************************)
EXTENDS Inventory, SequenceTheorems, TLAPS

NobodyHas(id) == \A m \in Known : rows[m].randomized => rows[m].stable_id # id

\* The ids uniqueness does not speak of.
Exempt == InheritedIds \cup {NoId}

\* The id the DHCP goroutine is about to insert is nobody's.
PendingIsNew ==
  pending # NoInfo /\ Id(pending.info) \notin Exempt => NobodyHas(Id(pending.info))

\* A row of a private address that lacks the mark is as an earlier version left
\* it: the UPDATE does not find it, and its id is none or an inherited one.
UnmarkedAreInherited ==
  \A m \in Known \cap RandomizedMacs : ~rows[m].randomized => rows[m].stable_id \in Exempt

IdInv == StableIdsUnique /\ PendingIsNew /\ UnmarkedAreInherited

RowsTypeOK ==
  /\ rows \in [Macs -> Rows \cup {NoRow}]
  /\ \A m \in Known : rows[m].randomized => m \in RandomizedMacs

TableTypeOK ==
  /\ RowsTypeOK
  /\ \/ pending = NoInfo
     \/ pending \in [info : Infos, at : Times] /\ Correlated(pending.info)
  /\ now \in Times /\ sighted \in 0..MaxSightings /\ restarts \in 0..MaxRestarts

WriterTypeOK ==
  /\ queue \in Seq(Macs) /\ Len(queue) <= QueueDepth
  /\ batch \in Seq(Macs) /\ Len(batch) <= BatchSize
  /\ flushing \in BOOLEAN
  /\ late \in Seq(Seq(Macs))
  /\ events \in Seq(Macs)

\* A batch that is not being flushed has room for one more, and one that is
\* has something to flush.
BatchHasRoom == (flushing \/ Len(batch) < BatchSize) /\ (flushing => batch # <<>>)

-----------------------------------------------------------------------------
\* What the statements write is a row.
LEMMA RefreshedIsRow ==
  ASSUME NEW row \in Rows, NEW info \in InfoType, NEW at \in Times
  PROVE  /\ Refreshed(row, info, at) \in Rows
         /\ Refreshed(row, info, at).stable_id = row.stable_id
         /\ Refreshed(row, info, at).randomized = row.randomized
         /\ Refreshed(row, info, at).labelled = row.labelled
  BY DEF Refreshed, Rows, InfoType, Keep

LEMMA InsertedIsRow ==
  ASSUME NEW info \in InfoType, NEW id \in StableIds \cup {NoId},
         RowsTypeOK, NEW at \in Times
  PROVE  /\ Inserted(info, id, at) \in Rows
         /\ Inserted(info, id, at).randomized = IsRandomizedMAC(info.mac)
         /\ Inserted(info, id, at).stable_id =
              IF rows[info.mac] = NoRow \/ id # NoId THEN id ELSE rows[info.mac].stable_id
         /\ Inserted(info, id, at).labelled =
              IF rows[info.mac] = NoRow THEN FALSE ELSE rows[info.mac].labelled
  <1>1. info.mac \in Macs /\ info.ip \in Ips \cup {""} /\ info.hostname \in Names \cup {""}
    BY DEF InfoType
  <1>2. IsRandomizedMAC(info.mac) \in BOOLEAN /\ at \in Times
    BY DEF IsRandomizedMAC
  <1>3. CASE rows[info.mac] = NoRow
    <2>1. Inserted(info, id, at) = NewRow(info, id, at)
      BY <1>3 DEF Inserted
    <2>2. NewRow(info, id, at) \in Rows
      BY <1>1, <1>2 DEF NewRow, Rows
    <2>. QED BY <1>3, <2>1, <2>2 DEF NewRow
  <1>4. CASE rows[info.mac] # NoRow
    <2>1. rows[info.mac] \in Rows
      BY <1>1, <1>4 DEF RowsTypeOK
    <2> DEFINE row == Refreshed(rows[info.mac], info, at)
    <2>2. /\ row \in Rows
          /\ row.stable_id = rows[info.mac].stable_id
          /\ row.labelled = rows[info.mac].labelled
      BY <1>2, <2>1, RefreshedIsRow
    <2>3. Inserted(info, id, at) =
            [row EXCEPT !.stable_id = IF id = NoId THEN @ ELSE id,
                        !.randomized = IsRandomizedMAC(info.mac)]
      BY <1>4 DEF Inserted
    <2> HIDE DEF row
    <2>. QED BY <1>2, <1>4, <2>2, <2>3 DEF Rows
  <1>. QED BY <1>3, <1>4

LEMMA IdIsStable ==
  ASSUME NEW info \in InfoType, Correlated(info)
  PROVE  Id(info) \in StableIds /\ Id(info) # NoId
  BY InventoryAssumption DEF InfoType, Correlated, Id, StableID, StableIds, NoId

LEMMA NoIdIsExempt == NoId \in Exempt
  BY DEF Exempt

LEMMA KnownIsRow ==
  ASSUME RowsTypeOK, NEW m \in Known
  PROVE  rows[m] \in Rows /\ rows[m].randomized \in BOOLEAN /\ m \in Macs
  BY DEF RowsTypeOK, Known, Rows

-----------------------------------------------------------------------------
\* An INSERT keeps the table in order when the id it brings is nobody's.
LEMMA InsertKeepsRows ==
  ASSUME RowsTypeOK, StableIdsUnique, UnmarkedAreInherited,
         NEW info \in InfoType,
         NEW id \in StableIds \cup {NoId},
         NEW at \in Times,
         id \notin Exempt => IsRandomizedMAC(info.mac) /\ NobodyHas(id),
         InsertDevice(info, id, at)
  PROVE  /\ RowsTypeOK' /\ StableIdsUnique' /\ UnmarkedAreInherited'
         /\ id = NoId => \A other \in StableIds \ Exempt : NobodyHas(other) => NobodyHas(other)'
  <1> DEFINE new == Inserted(info, id, at)
  <1>1. /\ info.mac \in Macs
        /\ new \in Rows
        /\ new.randomized = IsRandomizedMAC(info.mac)
        /\ new.stable_id = IF rows[info.mac] = NoRow \/ id # NoId THEN id ELSE rows[info.mac].stable_id
    BY InsertedIsRow DEF InfoType
  <1>2. rows' = [rows EXCEPT ![info.mac] = new]
    BY DEF InsertDevice
  <1> HIDE DEF new
  <1>3. new # NoRow
    BY <1>1, InventoryAssumption
  <1>4. \A m \in Known' : m = info.mac \/ (m \in Known /\ rows'[m] = rows[m])
    BY <1>1, <1>2 DEF Known, RowsTypeOK
  <1>5. rows'[info.mac] = new
    BY <1>1, <1>2 DEF RowsTypeOK
  <1>6. RowsTypeOK'
    <2>1. rows' \in [Macs -> Rows \cup {NoRow}]
      BY <1>1, <1>2 DEF RowsTypeOK
    <2>2. ASSUME NEW m \in Known', rows'[m].randomized PROVE m \in RandomizedMacs
      <3>1. CASE m = info.mac
        BY <1>1, <1>5, <2>2, <3>1 DEF IsRandomizedMAC
      <3>2. CASE m # info.mac
        BY <1>4, <2>2, <3>2 DEF RowsTypeOK
      <3>. QED BY <3>1, <3>2
    <2>. QED BY <2>1, <2>2 DEF RowsTypeOK
  \* The row the INSERT writes has the id it brings, none, or the one it had.
  <1>7. ASSUME NEW m \in Known, m # info.mac, rows[m].randomized, new.randomized,
               rows[m].stable_id = new.stable_id, new.stable_id \notin Exempt
        PROVE  FALSE
    <2>1. CASE id # NoId
      BY <1>1, <1>7, <2>1 DEF NobodyHas
    <2>2. CASE id = NoId
      <3>1. info.mac \in Known /\ rows[info.mac].stable_id = new.stable_id
        BY <1>1, <1>7, <2>2, NoIdIsExempt DEF Known
      <3>2. info.mac \in RandomizedMacs
        BY <1>1, <1>7 DEF IsRandomizedMAC
      <3>3. rows[info.mac].randomized
        BY <1>7, <3>1, <3>2 DEF UnmarkedAreInherited
      <3>. QED BY <1>7, <3>1, <3>3 DEF StableIdsUnique, Exempt
    <2>. QED BY <2>1, <2>2
  <1>8. StableIdsUnique'
    <2> SUFFICES ASSUME NEW m \in Known', NEW n \in Known',
                        rows'[m].randomized, rows'[n].randomized,
                        rows'[m].stable_id = rows'[n].stable_id,
                        rows'[m].stable_id \notin Exempt, m # n
                 PROVE  FALSE
      BY DEF StableIdsUnique, Exempt
    <2>1. CASE m = info.mac
      BY <1>4, <1>5, <1>7, <2>1
    <2>2. CASE n = info.mac
      BY <1>4, <1>5, <1>7, <2>2
    <2>3. CASE m # info.mac /\ n # info.mac
      BY <1>4, <2>3 DEF StableIdsUnique, Exempt
    <2>. QED BY <2>1, <2>2, <2>3
  <1>9. UnmarkedAreInherited'
    <2> SUFFICES ASSUME NEW m \in Known', m \in RandomizedMacs, ~rows'[m].randomized
                 PROVE  rows'[m].stable_id \in Exempt
      BY DEF UnmarkedAreInherited
    <2>1. m # info.mac
      BY <1>1, <1>5 DEF IsRandomizedMAC
    <2>. QED BY <1>4, <2>1 DEF UnmarkedAreInherited
  <1>10. ASSUME id = NoId, NEW other \in StableIds \ Exempt, NobodyHas(other)
         PROVE  NobodyHas(other)'
    <2> SUFFICES ASSUME NEW m \in Known', rows'[m].randomized
                 PROVE  rows'[m].stable_id # other
      BY DEF NobodyHas
    <2>1. CASE m # info.mac
      BY <1>4, <1>10, <2>1 DEF NobodyHas
    <2>2. CASE m = info.mac /\ rows[m] = NoRow
      BY <1>1, <1>5, <1>10, <2>2, NoIdIsExempt
    <2>3. CASE m = info.mac /\ rows[m] # NoRow
      <3>1. m \in Known /\ m \in RandomizedMacs /\ rows'[m].stable_id = rows[m].stable_id
        BY <1>1, <1>5, <1>10, <2>3 DEF Known, IsRandomizedMAC
      <3>. QED BY <1>10, <3>1 DEF NobodyHas, UnmarkedAreInherited
    <2>. QED BY <2>1, <2>2, <2>3
  <1>. QED BY <1>6, <1>8, <1>9, <1>10

\* A statement that brings no row in and leaves ids and marks alone does too.
SameIds ==
  \A m \in Known' : /\ m \in Known
                    /\ rows'[m].stable_id = rows[m].stable_id
                    /\ rows'[m].randomized = rows[m].randomized

LEMMA SameIdsKeepRows ==
  ASSUME RowsTypeOK, StableIdsUnique, UnmarkedAreInherited,
         rows' \in [Macs -> Rows \cup {NoRow}], SameIds
  PROVE  /\ RowsTypeOK' /\ StableIdsUnique' /\ UnmarkedAreInherited'
         /\ \A id \in StableIds : NobodyHas(id) => NobodyHas(id)'
  BY DEF SameIds, RowsTypeOK, StableIdsUnique, Exempt, UnmarkedAreInherited, NobodyHas

LEMMA EnrichKeepsIds ==
  ASSUME RowsTypeOK, now \in Times, NEW ip \in Ips, NEW hostname \in Names, Enrich(ip, hostname)
  PROVE  rows' \in [Macs -> Rows \cup {NoRow}] /\ SameIds
  <1> DEFINE row(m) == [rows[m] EXCEPT !.hostname = Keep(@, hostname), !.last_seen = now]
  <1>1. \A m \in Known : /\ row(m) \in Rows /\ row(m) # NoRow
                         /\ row(m).stable_id = rows[m].stable_id
                         /\ row(m).randomized = rows[m].randomized
    <2> SUFFICES ASSUME NEW m \in Known
                 PROVE  /\ row(m) \in Rows /\ row(m) # NoRow
                        /\ row(m).stable_id = rows[m].stable_id
                        /\ row(m).randomized = rows[m].randomized
      OBVIOUS
    <2>1. rows[m] \in Rows
      BY KnownIsRow
    <2>2. Keep(rows[m].hostname, hostname) \in Names \cup {""}
      BY <2>1 DEF Rows, Keep
    <2>3. /\ row(m) \in Rows
          /\ row(m).stable_id = rows[m].stable_id
          /\ row(m).randomized = rows[m].randomized
      BY <2>1, <2>2 DEF Rows
    <2>. QED BY <2>3, InventoryAssumption
  <1>2. rows' = [m \in Macs |-> IF rows[m] = NoRow \/ rows[m].ip # ip THEN rows[m] ELSE row(m)]
    BY DEF Enrich
  <1> HIDE DEF row
  <1>3. rows' \in [Macs -> Rows \cup {NoRow}]
    BY <1>1, <1>2 DEF RowsTypeOK, Known
  <1>4. SameIds
    BY <1>1, <1>2 DEF SameIds, Known
  <1>. QED BY <1>3, <1>4

LEMMA SetLabelsKeepsIds ==
  ASSUME RowsTypeOK, NEW mac \in Macs, NEW labelled \in BOOLEAN, SetLabels(mac, labelled)
  PROVE  /\ rows' \in [Macs -> Rows \cup {NoRow}] /\ SameIds
         /\ \A m \in Known : rows'[m] # NoRow
  <1> DEFINE row == [rows[mac] EXCEPT !.labelled = labelled]
  <1>1. /\ mac \in Known /\ row \in Rows /\ row # NoRow
        /\ row.stable_id = rows[mac].stable_id
        /\ row.randomized = rows[mac].randomized
    <2>1. mac \in Known
      BY DEF SetLabels
    <2>2. rows[mac] \in Rows
      BY <2>1, KnownIsRow
    <2>3. row \in Rows /\ row.stable_id = rows[mac].stable_id /\ row.randomized = rows[mac].randomized
      BY <2>2 DEF Rows
    <2>. QED BY <2>1, <2>3, InventoryAssumption
  <1>2. rows' = [rows EXCEPT ![mac] = row]
    BY DEF SetLabels
  <1> HIDE DEF row
  <1>. QED BY <1>1, <1>2 DEF SameIds, Known, RowsTypeOK

LEMMA PruneKeepsIds ==
  ASSUME RowsTypeOK, Prune
  PROVE  rows' \in [Macs -> Rows \cup {NoRow}] /\ SameIds
  BY DEF Prune, SameIds, Known, RowsTypeOK

-----------------------------------------------------------------------------
\* The UPDATE: the one row that has the id moves to the new address.
LEMMA RepointKeepsRows ==
  ASSUME RowsTypeOK, StableIdsUnique, UnmarkedAreInherited, now \in Times,
         NEW info \in InfoType, Correlated(info), ~Collides(info),
         NEW old \in Matching(info),
         rows' = Repointed(info, old)
  PROVE  /\ RowsTypeOK' /\ StableIdsUnique' /\ UnmarkedAreInherited'
         /\ info.mac \in RandomizedMacs /\ old \in RandomizedMacs
         /\ rows[info.mac] = NoRow \/ info.mac = old
         /\ rows'[info.mac] # NoRow
         /\ rows'[info.mac].labelled = rows[old].labelled
         /\ rows'[info.mac].stable_id = rows[old].stable_id
         /\ \A m \in Known \ {old} : rows'[m] = rows[m]
  <1> DEFINE new == Refreshed(rows[old], info, now)
  <1>1. /\ info.mac \in Macs /\ info.mac \in RandomizedMacs
        /\ old \in Macs /\ old \in Known
        /\ rows[old].randomized /\ old \in RandomizedMacs
    BY DEF InfoType, Correlated, IsRandomizedMAC, Matching, Known, RowsTypeOK
  <1>2. /\ new \in Rows
        /\ new.stable_id = rows[old].stable_id
        /\ new.randomized = rows[old].randomized
        /\ new.labelled = rows[old].labelled
    BY <1>1, KnownIsRow, RefreshedIsRow
  <1>3. rows' = [[rows EXCEPT ![old] = NoRow] EXCEPT ![info.mac] = new]
    BY DEF Repointed
  <1>4. info.mac \notin Known \/ info.mac = old
    BY <1>1 DEF Collides
  <1> HIDE DEF new
  <1>5. new # NoRow
    BY <1>2, InventoryAssumption
  <1>6. rows' \in [Macs -> Rows \cup {NoRow}] /\ rows'[info.mac] = new
    BY <1>1, <1>2, <1>3 DEF RowsTypeOK
  <1>7. \A m \in Known' : m = info.mac \/ (m \in Known /\ m # old /\ rows'[m] = rows[m])
    BY <1>1, <1>3 DEF Known, RowsTypeOK
  <1>8. \A m \in Known \ {old} : rows'[m] = rows[m]
    BY <1>1, <1>3, <1>4 DEF Known, RowsTypeOK
  <1>9. RowsTypeOK'
    BY <1>1, <1>6, <1>7 DEF RowsTypeOK
  <1>10. StableIdsUnique'
    <2> SUFFICES ASSUME NEW m \in Known', NEW n \in Known',
                        rows'[m].randomized, rows'[n].randomized,
                        rows'[m].stable_id = rows'[n].stable_id,
                        rows'[m].stable_id \notin Exempt, m # n
                 PROVE  FALSE
      BY DEF StableIdsUnique, Exempt
    <2>1. CASE m = info.mac
      BY <1>1, <1>2, <1>6, <1>7, <2>1 DEF StableIdsUnique, Exempt
    <2>2. CASE n = info.mac
      BY <1>1, <1>2, <1>6, <1>7, <2>2 DEF StableIdsUnique, Exempt
    <2>3. CASE m # info.mac /\ n # info.mac
      BY <1>7, <2>3 DEF StableIdsUnique, Exempt
    <2>. QED BY <2>1, <2>2, <2>3
  <1>11. UnmarkedAreInherited'
    BY <1>1, <1>2, <1>6, <1>7 DEF UnmarkedAreInherited
  <1>. QED BY <1>1, <1>2, <1>4, <1>5, <1>6, <1>8, <1>9, <1>10, <1>11 DEF Known

-----------------------------------------------------------------------------
TableInv == TableTypeOK /\ IdInv

NothingVanishes == \A m \in Known : Stays(m) \/ Moves(m) \/ Forgotten(m)

LEMMA InfosAreInfos == Infos \subseteq InfoType /\ Announced \subseteq InfoType
  BY InventoryAssumption DEF Announced

LEMMA RowsAreRows == \A row \in Rows : row # NoRow
  BY InventoryAssumption

LEMMA SightingCounts == TableTypeOK /\ Sighting => sighted' \in 0..MaxSightings
  <1>1. MaxSightings \in Nat
    BY InventoryAssumption
  <1>. QED BY <1>1 DEF TableTypeOK, Sighting

\* An INSERT leaves every known row in its place, with its labels.
LEMMA InsertStays ==
  ASSUME RowsTypeOK, NEW info \in InfoType,
         NEW id \in StableIds \cup {NoId}, NEW at \in Times, InsertDevice(info, id, at)
  PROVE  NothingVanishes
  <1>1. /\ info.mac \in Macs /\ Inserted(info, id, at) # NoRow
        /\ Inserted(info, id, at).labelled =
             IF rows[info.mac] = NoRow THEN FALSE ELSE rows[info.mac].labelled
    BY InsertedIsRow, RowsAreRows DEF InfoType
  <1>2. rows' = [rows EXCEPT ![info.mac] = Inserted(info, id, at)]
    BY DEF InsertDevice
  <1>. QED BY <1>1, <1>2 DEF NothingVanishes, Stays, Known, RowsTypeOK

LEMMA TimeIsTime == TableTypeOK => now \in Times /\ RowsTypeOK
  BY DEF TableTypeOK

LEMMA DhcpStep ==
  ASSUME TableInv, Dhcp
  PROVE  TableInv' /\ NothingVanishes
  <1> USE DEF TableInv, IdInv
  <1>1. ASSUME NEW info \in Infos, DhcpPlain(info) PROVE TableInv' /\ NothingVanishes
    <2>1. /\ RowsTypeOK' /\ StableIdsUnique' /\ UnmarkedAreInherited' /\ NothingVanishes
      BY <1>1, InfosAreInfos, InsertKeepsRows, InsertStays, NoIdIsExempt, TimeIsTime
         DEF DhcpPlain
    <2>2. pending = NoInfo /\ pending' = NoInfo /\ now' = now /\ restarts' = restarts
          /\ sighted' \in 0..MaxSightings
      BY <1>1, SightingCounts DEF DhcpPlain
    <2>. QED BY <2>1, <2>2 DEF TableTypeOK, PendingIsNew
  <1>2. ASSUME NEW info \in Infos, DhcpRepoints(info) PROVE TableInv' /\ NothingVanishes
    <2>1. PICK old \in Matching(info) : rows' = Repointed(info, old)
      BY <1>2 DEF DhcpRepoints
    <2>2. /\ RowsTypeOK' /\ StableIdsUnique' /\ UnmarkedAreInherited'
          /\ info.mac \in RandomizedMacs /\ old \in RandomizedMacs
          /\ rows[info.mac] = NoRow \/ info.mac = old
          /\ rows'[info.mac] # NoRow
          /\ rows'[info.mac].labelled = rows[old].labelled
          /\ rows'[info.mac].stable_id = rows[old].stable_id
          /\ \A m \in Known \ {old} : rows'[m] = rows[m]
      BY <1>2, <2>1, InfosAreInfos, RepointKeepsRows, TimeIsTime DEF DhcpRepoints
    <2>3. NothingVanishes
      BY <2>2 DEF NothingVanishes, Stays, Moves, Known
    <2>4. pending = NoInfo /\ pending' = NoInfo /\ now' = now /\ restarts' = restarts
          /\ sighted' \in 0..MaxSightings
      BY <1>2, SightingCounts DEF DhcpRepoints
    <2>. QED BY <2>2, <2>3, <2>4 DEF TableTypeOK, PendingIsNew
  <1>3. ASSUME NEW info \in Infos, DhcpCollides(info) PROVE TableInv' /\ NothingVanishes
    <2>1. rows' = rows /\ pending' = pending /\ now' = now /\ restarts' = restarts
          /\ sighted' \in 0..MaxSightings
      BY <1>3, SightingCounts DEF DhcpCollides
    <2>. QED BY <2>1 DEF TableTypeOK, RowsTypeOK, PendingIsNew, NobodyHas, StableIdsUnique, Exempt,
                         UnmarkedAreInherited, Known, NothingVanishes, Stays
  <1>4. ASSUME NEW info \in Infos, DhcpMisses(info) PROVE TableInv' /\ NothingVanishes
    <2>1. rows' = rows /\ pending' = [info |-> info, at |-> now] /\ now' = now
          /\ restarts' = restarts /\ sighted' \in 0..MaxSightings /\ Correlated(info)
      BY <1>4, SightingCounts DEF DhcpMisses
    <2>2. NobodyHas(Id(info))
      BY <1>4 DEF DhcpMisses, Matching, NobodyHas
    <2>. QED BY <2>1, <2>2 DEF TableTypeOK, RowsTypeOK, PendingIsNew, NobodyHas, StableIdsUnique, Exempt,
                         UnmarkedAreInherited, Known, NothingVanishes, Stays
  <1>5. ASSUME DhcpInserts PROVE TableInv' /\ NothingVanishes
    <2> DEFINE info == pending.info
               at == pending.at
    <2>1. /\ info \in InfoType /\ at \in Times /\ Correlated(info)
          /\ IsRandomizedMAC(info.mac) /\ InsertDevice(info, Id(info), at)
          /\ Id(info) \notin Exempt => NobodyHas(Id(info))
      BY <1>5, InfosAreInfos DEF DhcpInserts, TableTypeOK, PendingIsNew, Correlated
    <2> HIDE DEF info, at
    <2>2. Id(info) \in StableIds \cup {NoId}
      BY <2>1, IdIsStable
    <2>3. RowsTypeOK' /\ StableIdsUnique' /\ UnmarkedAreInherited' /\ NothingVanishes
      BY <2>1, <2>2, InsertKeepsRows, InsertStays, TimeIsTime
    <2>4. pending' = NoInfo /\ now' = now /\ restarts' = restarts /\ sighted' = sighted
      BY <1>5 DEF DhcpInserts
    <2>. QED BY <2>3, <2>4 DEF TableTypeOK, PendingIsNew
  <1>6. CASE DhcpInsertFails
    <2>1. rows' = rows /\ pending' = NoInfo /\ now' = now /\ restarts' = restarts /\ sighted' = sighted
      BY <1>6 DEF DhcpInsertFails
    <2>. QED BY <2>1 DEF TableTypeOK, RowsTypeOK, PendingIsNew, StableIdsUnique, Exempt,
                         UnmarkedAreInherited, Known, NothingVanishes, Stays
  <1>. QED BY <1>1, <1>2, <1>3, <1>4, <1>5, <1>6 DEF Dhcp

\* While the DHCP goroutine is between its two statements.
LEMMA PendingStaysNew ==
  ASSUME TableInv, pending' = pending,
         \A id \in StableIds \ Exempt : NobodyHas(id) => NobodyHas(id)'
  PROVE  PendingIsNew'
  <1>1. PICK id : id = Id(pending.info)
    OBVIOUS
  <1>2. Id(pending.info)' = id
    BY <1>1 DEF Id, StableID
  <1>3. Exempt' = Exempt
    BY DEF Exempt, InheritedIds, NoId
  <1>4. ASSUME pending # NoInfo, id \notin Exempt PROVE NobodyHas(id)'
    <2>1. id \in StableIds /\ NobodyHas(id)
      BY <1>1, <1>4, IdIsStable, InfosAreInfos DEF TableInv, IdInv, TableTypeOK, PendingIsNew
    <2>. QED BY <1>4, <2>1
  <1>5. pending' # NoInfo /\ id \notin Exempt => NobodyHas(id)'
    BY <1>4
  <1>. QED BY <1>2, <1>3, <1>5 DEF PendingIsNew, NobodyHas, Known

LEMMA TableStep ==
  ASSUME TableInv, [Next]_vars
  PROVE  TableInv' /\ NothingVanishes
  <1> USE DEF TableInv, IdInv
  <1>1. CASE Dhcp
    BY <1>1, DhcpStep
  <1>2. ASSUME NEW info \in Announced, Discover(info) PROVE TableInv' /\ NothingVanishes
    <2>1. /\ RowsTypeOK' /\ StableIdsUnique' /\ UnmarkedAreInherited' /\ NothingVanishes
          /\ \A id \in StableIds \ Exempt : NobodyHas(id) => NobodyHas(id)'
      BY <1>2, InfosAreInfos, InsertKeepsRows, InsertStays, NoIdIsExempt, TimeIsTime DEF Discover
    <2>2. pending' = pending /\ now' = now /\ restarts' = restarts
          /\ sighted' \in 0..MaxSightings
      BY <1>2, SightingCounts DEF Discover
    <2>3. PendingIsNew'
      BY <2>1, <2>2, PendingStaysNew
    <2>. QED BY <2>1, <2>2, <2>3 DEF TableTypeOK
  <1>3. ASSUME NEW ip \in Ips, NEW hostname \in Names, Enrich(ip, hostname)
        PROVE  TableInv' /\ NothingVanishes
    <2>1. rows' \in [Macs -> Rows \cup {NoRow}] /\ SameIds
      BY <1>3, EnrichKeepsIds, TimeIsTime
    <2>2. /\ RowsTypeOK' /\ StableIdsUnique' /\ UnmarkedAreInherited'
          /\ \A id \in StableIds : NobodyHas(id) => NobodyHas(id)'
      BY <2>1, SameIdsKeepRows, TimeIsTime
    <2>3. pending' = pending /\ now' = now /\ restarts' = restarts
          /\ sighted' \in 0..MaxSightings
      BY <1>3, SightingCounts DEF Enrich
    <2>4. PendingIsNew'
      BY <2>2, <2>3, PendingStaysNew
    <2>5. NothingVanishes
      <3> SUFFICES ASSUME NEW m \in Known PROVE Stays(m)
        BY DEF NothingVanishes
      <3>1. rows[m] \in Rows /\ m \in Macs /\ rows[m] # NoRow
        BY KnownIsRow, TimeIsTime DEF Known
      <3>2. rows'[m] = IF rows[m].ip # ip THEN rows[m]
                       ELSE [rows[m] EXCEPT !.hostname = Keep(@, hostname), !.last_seen = now]
        BY <1>3, <3>1 DEF Enrich
      <3>3. rows'[m].labelled = rows[m].labelled
        BY <3>1, <3>2 DEF Rows
      <3>4. [rows[m] EXCEPT !.hostname = Keep(@, hostname), !.last_seen = now] \in Rows
        BY <3>1, TimeIsTime DEF Rows, Keep
      <3>5. rows'[m] # NoRow
        BY <3>1, <3>2, <3>4, RowsAreRows
      <3>. QED BY <3>3, <3>5 DEF Stays
    <2>. QED BY <2>2, <2>3, <2>4, <2>5 DEF TableTypeOK
  <1>4. ASSUME NEW mac \in Macs, NEW labelled \in BOOLEAN, SetLabels(mac, labelled)
        PROVE  TableInv' /\ NothingVanishes
    <2>1. /\ rows' \in [Macs -> Rows \cup {NoRow}] /\ SameIds
          /\ \A m \in Known : rows'[m] # NoRow
      BY <1>4, SetLabelsKeepsIds, TimeIsTime
    <2>2. /\ RowsTypeOK' /\ StableIdsUnique' /\ UnmarkedAreInherited'
          /\ \A id \in StableIds : NobodyHas(id) => NobodyHas(id)'
      BY <2>1, SameIdsKeepRows, TimeIsTime
    <2>3. /\ pending' = pending /\ now' = now /\ restarts' = restarts /\ sighted' = sighted
          /\ rows' = [rows EXCEPT ![mac].labelled = labelled]
      BY <1>4 DEF SetLabels
    <2>4. PendingIsNew'
      BY <2>2, <2>3, PendingStaysNew
    <2>5. \A m \in Known : m # mac => rows'[m] = rows[m]
      BY <2>3, TimeIsTime DEF RowsTypeOK, Known
    <2>6. NothingVanishes
      BY <1>4, <2>1, <2>5 DEF NothingVanishes, Stays
    <2>. QED BY <2>2, <2>3, <2>4, <2>6 DEF TableTypeOK
  <1>5. ASSUME Prune PROVE TableInv' /\ NothingVanishes
    <2>1. rows' \in [Macs -> Rows \cup {NoRow}] /\ SameIds
      BY <1>5, PruneKeepsIds, TimeIsTime
    <2>2. /\ RowsTypeOK' /\ StableIdsUnique' /\ UnmarkedAreInherited'
          /\ \A id \in StableIds : NobodyHas(id) => NobodyHas(id)'
      BY <2>1, SameIdsKeepRows, TimeIsTime
    <2>3. pending' = pending /\ now' = now /\ restarts' = restarts /\ sighted' = sighted
      BY <1>5 DEF Prune
    <2>4. PendingIsNew'
      BY <2>2, <2>3, PendingStaysNew
    <2>5. NothingVanishes
      BY <1>5 DEF Prune, Stale, NothingVanishes, Stays, Forgotten, Known
    <2>. QED BY <2>2, <2>3, <2>4, <2>5 DEF TableTypeOK
  <1>6. CASE Tick \/ (\E landed \in BOOLEAN : Restart(landed))
             \/ ((Writer \/ LateLands) /\ UNCHANGED inventoryVars) \/ UNCHANGED vars
    <2>1. /\ rows' = rows /\ sighted' = sighted
          /\ now' \in Times /\ restarts' \in 0..MaxRestarts
          /\ pending' = pending \/ pending' = NoInfo
      <3>1. now \in 0..MaxTime /\ restarts \in 0..MaxRestarts /\ MaxTime \in Nat /\ MaxRestarts \in Nat
        BY InventoryAssumption DEF TableTypeOK, Times
      <3>2. CASE Tick
        BY <3>1, <3>2 DEF Tick, Times
      <3>3. CASE \E landed \in BOOLEAN : Restart(landed)
        BY <3>1, <3>3 DEF Restart, Times
      <3>4. CASE ((Writer \/ LateLands) /\ UNCHANGED inventoryVars) \/ UNCHANGED vars
        BY <3>1, <3>4 DEF inventoryVars, vars, Times
      <3>. QED BY <1>6, <3>2, <3>3, <3>4
    <2>2. RowsTypeOK' /\ StableIdsUnique' /\ UnmarkedAreInherited' /\ NothingVanishes
      BY <2>1, TimeIsTime DEF RowsTypeOK, StableIdsUnique, Exempt, UnmarkedAreInherited, Known,
                              NothingVanishes, Stays
    <2>3. PendingIsNew'
      BY <2>1 DEF PendingIsNew, NobodyHas, Known
    <2>. QED BY <2>1, <2>2, <2>3 DEF TableTypeOK
  <1>. QED BY <1>1, <1>2, <1>3, <1>4, <1>5, <1>6 DEF Next

-----------------------------------------------------------------------------
WriterInv == WriterTypeOK /\ BatchHasRoom

\* What a step can do to the writer.
WriterStep ==
  \/ \E mac \in Macs : Enqueue(mac)
  \/ Writer
  \/ LateLands
  \/ \E landed \in BOOLEAN : WriterStops(landed)
  \/ UNCHANGED writerVars

LEMMA EveryStepIsAWriterStep ==
  ASSUME TableInv, [Next]_vars
  PROVE  WriterStep
  <1>1. CASE Dhcp
    <2>1. ASSUME NEW info \in Infos, DhcpPlain(info) \/ DhcpRepoints(info) \/ DhcpCollides(info) \/ DhcpMisses(info)
          PROVE  WriterStep
      BY <2>1, InfosAreInfos
         DEF InfoType, WriterStep, DhcpPlain, DhcpRepoints, DhcpCollides, DhcpMisses
    <2>2. CASE DhcpInserts
      BY <2>2, InfosAreInfos DEF InfoType, WriterStep, DhcpInserts, TableInv, TableTypeOK
    <2>3. CASE DhcpInsertFails
      BY <2>3 DEF WriterStep, DhcpInsertFails
    <2>. QED BY <1>1, <2>1, <2>2, <2>3 DEF Dhcp
  <1>2. ASSUME NEW info \in Announced, Discover(info) PROVE WriterStep
    BY <1>2, InfosAreInfos DEF InfoType, WriterStep, Discover
  <1>. QED BY <1>1, <1>2 DEF Next, WriterStep, Enrich, SetLabels, Prune, Tick, Restart, vars

LEMMA EmptyHasRoom ==
  <<>> \in Seq(Macs) /\ Len(<<>>) = 0 /\ 0 <= QueueDepth /\ 0 < BatchSize
  BY WriterAssumption, EmptySeq

\* What is left of a sequence without its i-th element.
LEMMA RemovalIsSeq ==
  ASSUME NEW S, NEW s \in Seq(S), NEW i \in 1..Len(s)
  PROVE  RemoveAt(s, i) \in Seq(S)
  <1>1. Len(s) \in Nat /\ \A j \in 1..Len(s) : s[j] \in S
    BY LenProperties, ElementOfSeq
  <1>2. SubSeq(s, 1, i - 1) \in Seq(S)
    BY <1>1, SubSeqProperties
  <1>3. SubSeq(s, i + 1, Len(s)) \in Seq(S)
    BY <1>1, SubSeqProperties
  <1>. QED BY <1>2, <1>3, ConcatProperties DEF RemoveAt

LEMMA WriterStepKeepsTypes ==
  ASSUME WriterInv, WriterStep
  PROVE  WriterInv'
  <1> USE DEF WriterInv, WriterTypeOK, BatchHasRoom
  <1>1. QueueDepth \in Nat /\ BatchSize \in Nat \ {0} /\ Len(queue) \in Nat /\ Len(batch) \in Nat
    BY WriterAssumption, LenProperties
  <1>2. ASSUME NEW mac \in Macs, Enqueue(mac) PROVE WriterInv'
    <2>1. CASE Len(queue) < QueueDepth
      BY <1>1, <1>2, <2>1, AppendProperties DEF Enqueue
    <2>2. CASE ~(Len(queue) < QueueDepth)
      BY <1>2, <2>2 DEF Enqueue
    <2>. QED BY <2>1, <2>2
  <1>3. CASE TakeEvent
    <2>1. /\ queue # <<>> /\ queue' = Tail(queue) /\ batch' = Append(batch, Head(queue))
          /\ flushing' = (Len(batch') >= BatchSize) /\ ~flushing
         /\ late' = late /\ events' = events
      BY <1>3 DEF TakeEvent
    <2>2. Head(queue) \in Macs /\ Tail(queue) \in Seq(Macs) /\ Len(Tail(queue)) = Len(queue) - 1
      BY <2>1, HeadTailProperties
    <2>3. batch' \in Seq(Macs) /\ Len(batch') = Len(batch) + 1 /\ batch' # <<>>
      BY <2>1, <2>2, AppendProperties
    <2>4. Len(batch') <= BatchSize
      BY <1>1, <2>1, <2>3
    <2>5. flushing' \in BOOLEAN
      BY <2>1
    <2>6. BatchHasRoom'
      <3>1. CASE Len(batch') >= BatchSize
        BY <2>1, <2>3, <3>1
      <3>2. CASE ~(Len(batch') >= BatchSize)
        BY <1>1, <2>1, <2>3, <3>2
      <3>. QED BY <3>1, <3>2
    <2>7. queue' \in Seq(Macs) /\ Len(queue') <= QueueDepth
         /\ late' \in Seq(Seq(Macs)) /\ events' \in Seq(Macs)
      BY <1>1, <2>1, <2>2
    <2>. QED BY <2>3, <2>4, <2>5, <2>6, <2>7
  <1>4. CASE FlushTimer
    BY <1>4 DEF FlushTimer
  <1>5. ASSUME NEW landed \in BOOLEAN, FlushDone(landed) \/ WriterStops(landed) PROVE WriterInv'
    <2>1. batch \in Seq(Macs) /\ events \o batch \in Seq(Macs) /\ Append(late, batch) \in Seq(Seq(Macs))
      BY ConcatProperties, AppendProperties
    <2>2. events' \in Seq(Macs) /\ late' \in Seq(Seq(Macs)) /\ batch' = <<>> /\ flushing' = FALSE
      BY <1>5, <2>1 DEF FlushDone, WriterStops, Leaves
    <2>3. queue' = queue \/ queue' = <<>>
      BY <1>5 DEF FlushDone, WriterStops
    <2>4. queue' \in Seq(Macs) /\ Len(queue') <= QueueDepth
      BY <1>1, <2>3, EmptyHasRoom
    <2>5. batch' \in Seq(Macs) /\ Len(batch') < BatchSize /\ Len(batch') <= BatchSize
      BY <1>1, <2>2, EmptyHasRoom
    <2>6. flushing' \in BOOLEAN
      BY <2>2
    <2>. QED BY <2>2, <2>4, <2>5, <2>6
  <1>6. CASE LateLands
    <2>1. PICK i \in 1..Len(late) :
            /\ events' = events \o late[i] /\ late' = RemoveAt(late, i)
            /\ UNCHANGED <<queue, batch, flushing>>
      BY <1>6 DEF LateLands
    <2>2. late[i] \in Seq(Macs) /\ events \o late[i] \in Seq(Macs)
      BY ElementOfSeq, ConcatProperties
    <2>3. RemoveAt(late, i) \in Seq(Seq(Macs))
      BY RemovalIsSeq
    <2>. QED BY <2>1, <2>2, <2>3
  <1>7. CASE UNCHANGED writerVars
    BY <1>7 DEF writerVars
  <1>. QED BY <1>2, <1>3, <1>4, <1>5, <1>6, <1>7 DEF WriterStep, Writer

-----------------------------------------------------------------------------
LEMMA InitKeeps ==
  ASSUME Init PROVE TableInv /\ WriterInv
  <1>1. WriterInv
    <2>1. queue = <<>> /\ batch = <<>> /\ flushing = FALSE /\ late = <<>> /\ events = <<>>
      BY DEF Init, WriterInit
    <2>2. BatchSize \in Nat
      BY WriterAssumption
    <2>3. Len(batch) <= BatchSize /\ Len(batch) < BatchSize
      BY <2>1, <2>2, EmptyHasRoom
    <2>4. late \in Seq(Seq(Macs))
      BY <2>1, EmptySeq
    <2>. QED BY <2>1, <2>3, <2>4, EmptyHasRoom DEF WriterInv, WriterTypeOK, BatchHasRoom
  <1>2. TableTypeOK
    <2>1. RowsTypeOK
      <3>1. rows = LegacyRows /\ rows \in [Macs -> Rows \cup {NoRow}]
        BY InventoryAssumption DEF Init
      <3>2. \A m \in Macs : rows[m] # NoRow => ~rows[m].randomized
        BY <3>1, InventoryAssumption, Zenon
      <3>. QED BY <3>1, <3>2 DEF RowsTypeOK, Known
    <2>2. MaxTime \in Nat /\ MaxSightings \in Nat /\ MaxRestarts \in Nat
      BY InventoryAssumption
    <2>3. 0 \in 0..MaxTime /\ 0 \in 0..MaxSightings /\ 0 \in 0..MaxRestarts
      BY <2>2
    <2>. QED BY <2>1, <2>3 DEF Init, TableTypeOK, Times
  <1>3. IdInv
    <2>1. rows = LegacyRows /\ pending = NoInfo
      BY DEF Init
    <2>2. \A m \in Known : ~rows[m].randomized
      BY <2>1, InventoryAssumption, Zenon DEF Known
    <2>3. \A m \in Known \cap RandomizedMacs : rows[m].stable_id \in InheritedIds
      BY <2>1 DEF Known, InheritedIds
    <2>. QED BY <2>1, <2>2, <2>3 DEF IdInv, StableIdsUnique, PendingIsNew, UnmarkedAreInherited, Exempt
  <1>. QED BY <1>1, <1>2, <1>3 DEF TableInv

LEMMA Invariants == Spec => [](TableInv /\ WriterInv)
  <1>1. TableInv /\ WriterInv /\ [Next]_vars => (TableInv /\ WriterInv)'
    BY TableStep, EveryStepIsAWriterStep, WriterStepKeepsTypes
  <1>. QED BY InitKeeps, <1>1, PTL DEF Spec

\* Every variable keeps its type, and a row has the mark of a randomized
\* address only under one (the store of sqlite.go, the channel and the batch
\* of main.go).
THEOREM TypesHold == Spec => []TypeOK
  <1>1. TableInv /\ WriterInv => TypeOK
    BY DEF TableInv, WriterInv, TableTypeOK, RowsTypeOK, WriterTypeOK, TypeOK
  <1>. QED BY Invariants, <1>1, PTL

\* UpsertFull never gives two rows that move with an id the same one, although
\* its two statements are not one transaction; of the ids that rows of private
\* addresses brought from an earlier version, nothing is said.
THEOREM OneRowPerDevice == Spec => []StableIdsUnique
  <1>1. TableInv => StableIdsUnique
    BY DEF TableInv, IdInv
  <1>. QED BY Invariants, <1>1, PTL

\* No step but retention takes a device out of the table, and none but the
\* operator's takes its labels.
THEOREM DevicesStay == Spec => KnownDevicesStay
  <1>1. TableInv /\ [Next]_vars => [NothingVanishes]_vars
    BY TableStep
  <1>2. [NothingVanishes]_vars => [\A m \in Known : Stays(m) \/ Moves(m) \/ Forgotten(m)]_vars
    BY DEF NothingVanishes
  <1>. QED BY Invariants, <1>1, <1>2, PTL DEF Spec, KnownDevicesStay

-----------------------------------------------------------------------------
\* The two halves of what is held.
LEMMA PrefixAndRest ==
  ASSUME NEW S, NEW s \in Seq(S), NEW t \in Seq(S)
  PROVE  /\ SubSeq(s \o t, 1, Len(s)) = s
         /\ SubSeq(s \o t, Len(s) + 1, Len(s \o t)) = t
  <1> DEFINE st == s \o t
  <1>1. /\ Len(s) \in Nat /\ Len(t) \in Nat
        /\ st \in Seq(S) /\ Len(st) = Len(s) + Len(t)
        /\ \A i \in 1..Len(s) + Len(t) : st[i] = IF i <= Len(s) THEN s[i] ELSE t[i - Len(s)]
    BY LenProperties, ConcatProperties
  <1> HIDE DEF st
  <1>2. \A i \in 1..Len(st) : st[i] \in S
    BY <1>1, ElementOfSeq
  <1>3. SubSeq(st, 1, Len(s)) = s
    <2> DEFINE p == SubSeq(st, 1, Len(s))
    <2>1. \A i \in 1..Len(s) : st[i] \in S
      BY <1>1, <1>2
    <2>2. /\ p \in Seq(S)
          /\ Len(p) = IF 1 <= Len(s) THEN Len(s) - 1 + 1 ELSE 0
          /\ \A i \in 1..Len(s) - 1 + 1 : p[i] = st[1 + i - 1]
      BY <1>1, <2>1, SubSeqProperties
    <2> HIDE DEF p
    <2>3. Len(p) = Len(s)
      BY <1>1, <2>2
    <2>4. ASSUME NEW i \in 1..Len(p) PROVE p[i] = s[i]
      BY <1>1, <2>2, <2>3
    <2>5. p = s
      BY <2>2, <2>3, <2>4, SeqEqual
    <2>. QED BY <2>5 DEF p
  <1>4. SubSeq(st, Len(s) + 1, Len(st)) = t
    <2> DEFINE p == SubSeq(st, Len(s) + 1, Len(st))
    <2>1. \A i \in Len(s) + 1..Len(st) : st[i] \in S
      BY <1>1, <1>2
    <2>2. /\ p \in Seq(S)
          /\ Len(p) = IF Len(s) + 1 <= Len(st) THEN Len(st) - (Len(s) + 1) + 1 ELSE 0
          /\ \A i \in 1..Len(st) - (Len(s) + 1) + 1 : p[i] = st[Len(s) + 1 + i - 1]
      BY <1>1, <2>1, SubSeqProperties
    <2> HIDE DEF p
    <2>3. Len(p) = Len(t)
      BY <1>1, <2>2
    <2>4. ASSUME NEW i \in 1..Len(p) PROVE p[i] = t[i]
      <3>1. Len(s) + 1 + i - 1 = Len(s) + i /\ i \in 1..Len(st) - (Len(s) + 1) + 1
        BY <1>1, <2>3
      <3>2. p[i] = st[Len(s) + i]
        BY <2>2, <3>1
      <3>3. Len(s) + i \in 1..Len(s) + Len(t) /\ ~(Len(s) + i <= Len(s)) /\ Len(s) + i - Len(s) = i
        BY <1>1, <2>3
      <3>. QED BY <1>1, <3>2, <3>3
    <2>5. p = t
      BY <2>2, <2>3, <2>4, SeqEqual
    <2>. QED BY <2>5 DEF p
  <1>. QED BY <1>3, <1>4 DEF st

\* An event that joins the batch stays in its place.
LEMMA TakingKeepsOrder ==
  ASSUME NEW S, NEW s \in Seq(S), NEW t \in Seq(S), t # <<>>
  PROVE  Append(s, Head(t)) \o Tail(t) = s \o t
  <1>1. Head(t) \in S /\ Tail(t) \in Seq(S) /\ <<Head(t)>> \in Seq(S)
    BY HeadTailProperties
  <1>2. Append(s, Head(t)) = s \o <<Head(t)>>
    BY <1>1, AppendIsConcat
  <1>3. Append(s, Head(t)) \o Tail(t) = s \o (<<Head(t)>> \o Tail(t))
    BY <1>1, <1>2, ConcatAssociative
  <1>4. <<Head(t)>> \o Tail(t) = t
    <2>1. Len(t) \in Nat \ {0} /\ 1 \in 1..Len(t) /\ Len(t) \in 1..Len(t)
      BY EmptySeq
    <2>2. SubSeq(t, 1, Len(t)) = <<t[1]>> \o SubSeq(t, 1 + 1, Len(t))
      BY <2>1, SubSeqRecursiveFirst
    <2>3. Tail(t) = SubSeq(t, 2, Len(t)) /\ SubSeq(t, 1, Len(t)) = t
      BY TailIsSubSeq, SubSeqFull
    <2>4. Head(t) = t[1]
      BY <2>1
    <2>. QED BY <2>2, <2>3, <2>4
  <1>. QED BY <1>3, <1>4

LEMMA WriterRefinesLog ==
  ASSUME WriterInv, WriterStep
  PROVE  EventLog!Next \/ UNCHANGED <<batch \o queue, late, events>>
  <1> USE DEF WriterInv, WriterTypeOK, BatchHasRoom
  <1> DEFINE all == batch \o queue
  <1>1. /\ QueueDepth \in Nat /\ BatchSize \in Nat \ {0}
        /\ Len(queue) \in Nat /\ Len(batch) \in Nat
        /\ all \in Seq(Macs) /\ Len(all) = Len(batch) + Len(queue)
    BY WriterAssumption, LenProperties, ConcatProperties
  <1>2. /\ SubSeq(all, 1, Len(batch)) = batch
        /\ SubSeq(all, Len(batch) + 1, Len(all)) = queue
    BY PrefixAndRest
  <1>4. <<>> \o queue = queue /\ <<>> \o <<>> = <<>>
    BY ConcatEmptySeq, EmptySeq
  <1> HIDE DEF all
  <1>5. ASSUME NEW mac \in Macs, Enqueue(mac), Len(queue) < QueueDepth PROVE EventLog!Accept
    <2>1. /\ queue' = Append(queue, mac) /\ batch' = batch /\ late' = late /\ events' = events
      BY <1>5 DEF Enqueue
    <2>2. Append(queue, mac) = queue \o <<mac>> /\ <<mac>> \in Seq(Macs)
      BY AppendIsConcat
    <2>3. batch \o (queue \o <<mac>>) = (batch \o queue) \o <<mac>>
      BY <2>2, ConcatAssociative
    <2>4. Append(batch \o queue, mac) = (batch \o queue) \o <<mac>>
      BY <1>1, AppendIsConcat DEF all
    <2>5. (batch \o queue)' = Append(batch \o queue, mac)
      BY <2>1, <2>2, <2>3, <2>4
    <2>6. Len(batch \o queue) < QueueDepth + BatchSize
      BY <1>1, <1>5 DEF all
    <2>. QED BY <2>1, <2>5, <2>6 DEF EventLog!Accept
  <1>6. ASSUME NEW mac \in Macs, Enqueue(mac), ~(Len(queue) < QueueDepth)
        PROVE  UNCHANGED <<batch \o queue, late, events>>
    BY <1>6 DEF Enqueue
  <1>7. CASE TakeEvent
    <2>1. queue # <<>> /\ queue' = Tail(queue) /\ batch' = Append(batch, Head(queue))
         /\ late' = late /\ events' = events
      BY <1>7 DEF TakeEvent
    <2>. QED BY <2>1, TakingKeepsOrder
  <1>8. CASE FlushTimer
    BY <1>8 DEF FlushTimer
  <1>9. ASSUME NEW landed \in BOOLEAN, batch # <<>>, Leaves(landed)
        PROVE  Len(batch) \in 1..Len(batch \o queue) /\ EventLog!Leave(Len(batch))
    <2>1. Len(batch) \in 1..Len(batch \o queue)
      BY <1>1, <1>9, EmptySeq DEF all
    <2>2. EventLog!First(Len(batch)) = batch
      BY <1>2 DEF all, EventLog!First
    <2>. QED BY <1>9, <2>1, <2>2 DEF Leaves, EventLog!Leave
  <1>10. ASSUME NEW landed \in BOOLEAN, FlushDone(landed) PROVE EventLog!Settle
    <2>1. batch # <<>> /\ Leaves(landed) /\ batch' = <<>> /\ queue' = queue
      BY <1>10 DEF FlushDone
    <2>2. (batch \o queue)' = EventLog!After(Len(batch))
      BY <1>2, <1>4, <2>1 DEF all, EventLog!After
    <2>. QED BY <1>9, <2>1, <2>2 DEF EventLog!Settle
  <1>11. ASSUME NEW landed \in BOOLEAN, WriterStops(landed) PROVE EventLog!Stop
    <2>1. (batch \o queue)' = <<>>
      BY <1>4, <1>11 DEF WriterStops
    <2>2. CASE batch = <<>>
      BY <1>11, <2>1, <2>2 DEF WriterStops, EventLog!Stop
    <2>3. CASE batch # <<>>
      BY <1>9, <1>11, <2>1, <2>3 DEF WriterStops, EventLog!Stop
    <2>. QED BY <2>2, <2>3
  <1>12. ASSUME LateLands PROVE EventLog!Land
    <2>1. PICK i \in 1..Len(late) :
            /\ events' = events \o late[i] /\ late' = RemoveAt(late, i)
            /\ batch' = batch /\ queue' = queue
      BY <1>12 DEF LateLands
    <2>2. late' = EventLog!RemoveAt(late, i)
      BY <2>1 DEF RemoveAt, EventLog!RemoveAt
    <2>. QED BY <2>1, <2>2 DEF EventLog!Land
  <1>13. CASE UNCHANGED writerVars
    BY <1>13 DEF writerVars
  <1>. QED BY <1>5, <1>6, <1>7, <1>8, <1>10, <1>11, <1>12, <1>13
           DEF WriterStep, Writer, EventLog!Next

\* The channel and the batch of the event writer are one bounded lossy log:
\* what was taken leaves in the order it came, a prefix at a time, and a prefix
\* is written whole and at most once, whatever inserts fail or land late and
\* whenever the process stops.  The order of the table is not promised.
THEOREM WriterIsALossyLog == Spec => EventLog!Spec
  <1>1. Init => EventLog!Init
    BY ConcatEmptySeq, EmptySeq DEF Init, WriterInit, EventLog!Init
  <1>2. TableInv /\ WriterInv /\ [Next]_vars => [EventLog!Next]_(EventLog!logVars)
    BY EveryStepIsAWriterStep, WriterRefinesLog DEF EventLog!logVars
  <1>. QED BY Invariants, <1>1, <1>2, PTL DEF Spec, EventLog!Spec
=============================================================================
