------------------------------ MODULE Inventory ------------------------------
(***************************************************************************)
(* device-inventory: the table of devices in SQLite, the goroutines that   *)
(* fill it from DHCP and from the discovery protocols, the operator's      *)
(* labels, retention, and the writer of events.                            *)
(*                                                                         *)
(* The pool has one connection, so a statement is one step; UpsertFull is  *)
(* two of them, an UPDATE that follows a device across its private         *)
(* addresses and, when that hit no row, an INSERT.  Each of the two        *)
(* goroutines offers an event to the writer after a statement that         *)
(* succeeded; that touches only the channel and is part of its step.       *)
(*                                                                         *)
(* A row is reduced to what decides anything: vendor, fingerprint, profile *)
(* and first_seen are carried along by every statement and left out.       *)
(***************************************************************************)
EXTENDS EventWriter

CONSTANTS
  Macs,           \* hardware addresses
  RandomizedMacs, \* those IsRandomizedMAC is true of
  Ips, Names, VendorClasses,
  Infos,          \* what a DHCP packet or an announcement says of a device
  LegacyRows,     \* rows an earlier version left in the database
  NoRow,          \* the row of an address that is not in the table
  NoInfo,         \* the DHCP goroutine has nothing in hand
  Retention,      \* DEVICE_RETENTION
  MaxTime, MaxSightings, MaxRestarts   \* bounds of an instance

StableIds == VendorClasses \X (Names \cup {""})
NoId == <<"", "">>
Times == 0..MaxTime

Rows == [ip : Ips \cup {""}, hostname : Names \cup {""}, stable_id : StableIds \cup {NoId},
         randomized : BOOLEAN, labelled : BOOLEAN, last_seen : Times]

InfoType == [mac : Macs, ip : Ips \cup {""}, hostname : Names \cup {""},
             vendorClass : VendorClasses \cup {""}]

\* An earlier version gave stable ids to any device and had no column for
\* randomized_mac: the migration leaves 0 in it, for a private address too.
ASSUME InventoryAssumption ==
  /\ RandomizedMacs \subseteq Macs
  /\ "" \notin Ips \cup Names \cup VendorClasses
  /\ Infos \subseteq InfoType
  /\ NoRow \notin Rows
  /\ NoInfo \notin Infos
  /\ LegacyRows \in [Macs -> Rows \cup {NoRow}]
  /\ \A m \in Macs : LegacyRows[m] # NoRow => ~LegacyRows[m].randomized
  /\ Retention \in Nat
  /\ MaxTime \in Nat /\ MaxSightings \in Nat /\ MaxRestarts \in Nat

VARIABLES
  rows,      \* the devices table, by primary key
  pending,   \* what the DHCP goroutine is about to INSERT, with the time it read
  now,       \* seconds
  sighted,   \* how many packets and announcements there have been
  restarts

inventoryVars == <<rows, pending, now, sighted, restarts>>
vars == <<inventoryVars, writerVars>>

Init ==
  /\ WriterInit
  /\ rows = LegacyRows
  /\ pending = NoInfo
  /\ now = 0
  /\ sighted = 0
  /\ restarts = 0

-----------------------------------------------------------------------------
Known == {m \in Macs : rows[m] # NoRow}

IsRandomizedMAC(mac) == mac \in RandomizedMacs
StableID(class, hostname) == <<class, hostname>>

\* CASE WHEN ? != '' THEN ? ELSE column: an empty value never erases a known one.
Keep(new, old) == IF new = "" THEN old ELSE new

Sighting == sighted < MaxSightings /\ sighted' = sighted + 1

Refreshed(row, info, at) ==
  [row EXCEPT !.ip = Keep(info.ip, @),
              !.hostname = Keep(info.hostname, @),
              !.last_seen = at]

NewRow(info, id, at) ==
  [ip |-> info.ip, hostname |-> info.hostname, stable_id |-> id,
   randomized |-> IsRandomizedMAC(info.mac), labelled |-> FALSE, last_seen |-> at]

\* INSERT ... ON CONFLICT(mac) DO UPDATE: labels survive, the other columns
\* take what the sighting brings.
Inserted(info, id, at) ==
  IF rows[info.mac] = NoRow THEN NewRow(info, id, at)
  ELSE [Refreshed(rows[info.mac], info, at) EXCEPT
          !.stable_id = IF id = NoId THEN @ ELSE id,
          !.randomized = IsRandomizedMAC(info.mac)]

InsertDevice(info, id, at) == rows' = [rows EXCEPT ![info.mac] = Inserted(info, id, at)]

-----------------------------------------------------------------------------
Id(info) == StableID(info.vendorClass, info.hostname)

Correlated(info) == IsRandomizedMAC(info.mac) /\ info.vendorClass # ""

\* Fault: an id also moves a row whose address is not randomized.
MatchingAny(info) == {m \in Known : rows[m].stable_id = Id(info)}

\* Fault: a device is the same one only under the same address.
MatchingIp(info) ==
  {m \in Known : rows[m].stable_id = Id(info) /\ rows[m].randomized /\ rows[m].ip = info.ip}

\* The rows the UPDATE is about.
Matching(info) == {m \in Known : rows[m].stable_id = Id(info) /\ rows[m].randomized}

\* Two rows would get the one primary key: the statement fails and changes nothing.
Collides(info) == \E m, n \in Matching(info) \cup (Known \cap {info.mac}) : m # n

\* The row moves to the new address, with its labels.
Repointed(info, m) ==
  [rows EXCEPT ![m] = NoRow, ![info.mac] = Refreshed(rows[m], info, now)]

\* A DHCP packet of a device that is not correlated: one INSERT.
DhcpPlain(info) ==
  /\ pending = NoInfo
  /\ ~Correlated(info)
  /\ Sighting
  /\ InsertDevice(info, NoId, now)
  /\ Enqueue(info.mac)
  /\ UNCHANGED <<pending, now, restarts>>

\* ... of a device whose id is known: its row follows it.
DhcpRepoints(info) ==
  /\ pending = NoInfo
  /\ Correlated(info)
  /\ ~Collides(info)
  /\ Sighting
  /\ \E m \in Matching(info) : rows' = Repointed(info, m)
  /\ Enqueue(info.mac)
  /\ UNCHANGED <<pending, now, restarts>>

\* ... whose new address another row holds: UNIQUE constraint failed.
DhcpCollides(info) ==
  /\ pending = NoInfo
  /\ Correlated(info)
  /\ Matching(info) # {}
  /\ Collides(info)
  /\ Sighting
  /\ UNCHANGED <<rows, pending, now, restarts, writerVars>>

\* ... whose id no row has, yet: the INSERT is a statement of its own, with the
\* time the UPDATE was given.
DhcpMisses(info) ==
  /\ pending = NoInfo
  /\ Correlated(info)
  /\ Matching(info) = {}
  /\ Sighting
  /\ pending' = [info |-> info, at |-> now]
  /\ UNCHANGED <<rows, now, restarts, writerVars>>

DhcpInserts ==
  /\ pending # NoInfo
  /\ InsertDevice(pending.info, Id(pending.info), pending.at)
  /\ Enqueue(pending.info.mac)
  /\ pending' = NoInfo
  /\ UNCHANGED <<now, sighted, restarts>>

\* The INSERT fails: the sighting is logged and forgotten.
DhcpInsertFails ==
  /\ pending # NoInfo
  /\ pending' = NoInfo
  /\ UNCHANGED <<rows, now, sighted, restarts, writerVars>>

\* processDiscoveries: ARP and LLDP know the hardware address ...
Discover(info) ==
  /\ Sighting
  /\ InsertDevice(info, NoId, now)
  /\ Enqueue(info.mac)
  /\ UNCHANGED <<pending, now, restarts>>

\* ... mDNS and SSDP only the address: EnrichByIP fills a missing name in.
Enrich(ip, hostname) ==
  /\ Sighting
  /\ rows' = [m \in Macs |->
       IF rows[m] = NoRow \/ rows[m].ip # ip THEN rows[m]
       ELSE [rows[m] EXCEPT !.hostname = Keep(@, hostname), !.last_seen = now]]
  /\ UNCHANGED <<pending, now, restarts, writerVars>>

\* PUT /devices/{mac}/labels.
SetLabels(mac, labelled) ==
  /\ mac \in Known
  /\ rows' = [rows EXCEPT ![mac].labelled = labelled]
  /\ UNCHANGED <<pending, now, sighted, restarts, writerVars>>

Stale == {m \in Known : rows[m].last_seen + Retention < now /\ ~rows[m].labelled}

\* runDevicePrune, once an hour.
Prune ==
  /\ Stale # {}
  /\ rows' = [m \in Macs |-> IF m \in Stale THEN NoRow ELSE rows[m]]
  /\ UNCHANGED <<pending, now, sighted, restarts, writerVars>>

Tick ==
  /\ now < MaxTime
  /\ now' = now + 1
  /\ UNCHANGED <<rows, pending, sighted, restarts, writerVars>>

\* The process stops and starts again on the same database.
Restart(landed) ==
  /\ restarts < MaxRestarts
  /\ restarts' = restarts + 1
  /\ pending' = NoInfo
  /\ WriterStops(landed)
  /\ UNCHANGED <<rows, now, sighted>>

-----------------------------------------------------------------------------
Dhcp ==
  \/ \E info \in Infos : DhcpPlain(info) \/ DhcpRepoints(info) \/ DhcpCollides(info) \/ DhcpMisses(info)
  \/ DhcpInserts
  \/ DhcpInsertFails

\* What a discovery protocol says of a device it has the hardware address of.
Announced == {info \in Infos : info.vendorClass = ""}

Writer == TakeEvent \/ FlushTimer \/ \E landed \in BOOLEAN : FlushDone(landed)

Next ==
  \/ Dhcp
  \/ \E info \in Announced : Discover(info)
  \/ \E ip \in Ips, hostname \in Names : Enrich(ip, hostname)
  \/ \E mac \in Macs, labelled \in BOOLEAN : SetLabels(mac, labelled)
  \/ Prune
  \/ Tick
  \/ \E landed \in BOOLEAN : Restart(landed)
  \/ (Writer \/ LateLands) /\ UNCHANGED inventoryVars

Spec == Init /\ [][Next]_vars

\* The writer is a goroutine in a loop; its ticker fires and an insert returns
\* within ten seconds.
FairSpec == Spec /\ WF_vars(Writer /\ UNCHANGED inventoryVars)

-----------------------------------------------------------------------------
\* Types, and a row is marked as randomized only under a randomized address.
TypeOK ==
  /\ rows \in [Macs -> Rows \cup {NoRow}]
  /\ \A m \in Known : rows[m].randomized => m \in RandomizedMacs
  /\ \/ pending = NoInfo
     \/ pending \in [info : Infos, at : Times] /\ Correlated(pending.info)
  /\ now \in Times /\ sighted \in 0..MaxSightings /\ restarts \in 0..MaxRestarts
  /\ queue \in Seq(Macs) /\ Len(queue) <= QueueDepth
  /\ batch \in Seq(Macs) /\ Len(batch) <= BatchSize
  /\ flushing \in BOOLEAN
  /\ late \in Seq(Seq(Macs))
  /\ events \in Seq(Macs)

\* The ids rows of private addresses brought along from an earlier version.
InheritedIds == {LegacyRows[m].stable_id : m \in {n \in RandomizedMacs : LegacyRows[n] # NoRow}}

\* One device, one row: no two rows that move with a stable id have the same
\* one (UpsertFull).  The index on stable_id is not unique (sqlite.go:82); with
\* two such rows every later UPDATE would fail on the primary key.  It does not
\* hold of an id a private address had before the column randomized_mac: the
\* UPDATE overlooks its row, and the next sighting of the address marks it.
StableIdsUnique ==
  \A m, n \in Known :
    /\ rows[m].randomized /\ rows[n].randomized
    /\ rows[m].stable_id = rows[n].stable_id
    /\ rows[m].stable_id \notin InheritedIds \cup {NoId}
    => m = n

\* What can become of the row of a known device in a step: it stays, with its
\* labels unless the operator sets them; it follows a randomized device to
\* another randomized address; it is forgotten, stale and unlabelled.
Stays(m) == /\ rows'[m] # NoRow
            /\ rows'[m].labelled = rows[m].labelled \/ \E labelled \in BOOLEAN : SetLabels(m, labelled)
Moves(m) == /\ m \in RandomizedMacs
            /\ \E n \in RandomizedMacs :
                 /\ rows[n] = NoRow /\ rows'[n] # NoRow
                 /\ rows'[n].stable_id = rows[m].stable_id
                 /\ rows'[n].labelled = rows[m].labelled
Forgotten(m) == ~rows[m].labelled /\ rows[m].last_seen + Retention < now

\* No discovery makes a known device vanish or lose its labels: "a row holding
\* a real OUI-backed address is a stable device and is never re-pointed"
\* (sqlite.go:139-141), whatever ids an earlier version left in it.
KnownDevicesStay ==
  [][\A m \in Known : Stays(m) \/ Moves(m) \/ Forgotten(m)]_vars

\* The event writer under a flood, inserts that fail or land late, and
\* restarts: an event it took is written at most once, with its batch, and none
\* is held for good.  The order of the table is not promised: an insert that
\* timed out may land after younger ones (eventWriter.Run).
EventLog == INSTANCE LossyLog WITH
              Items    <- Macs,
              Capacity <- QueueDepth + BatchSize,
              held     <- batch \o queue,
              written  <- events
WritesEventsOnce == EventLog!FairSpec
=============================================================================
