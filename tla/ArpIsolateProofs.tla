-------------------------- MODULE ArpIsolateProofs --------------------------
(***************************************************************************)
(* What is proved of the ARP-isolation driver for any number of calls,     *)
(* loops, actions and addresses, and every TTL: the types, that no loop    *)
(* escapes the registry, and that frames use a current gateway address.    *)
(*                                                                         *)
(* NoOrphanLoop needs to know that a place from which a loop has gone is   *)
(* not cancelled when the next loop takes it (CancelledAreLive).           *)
(* FramesUseCurrentGateway needs to know of the driver's copy, before any  *)
(* call takes it in hand, that when it differs from the neighbour table it *)
(* is the older of the two (CopyIsNotNewer).                               *)
(***************************************************************************)
EXTENDS ArpIsolate, TLAPS

\* A copy that the table contradicts was made before the entry was.
CopyIsNotNewer ==
  neighbour # NoMac /\ gatewayMAC # neighbour => gatewayAge >= neighbourAge

CancelledAreLive == \A l \in cancelled : loop[l].pc # "none"

RegistryInv == NoOrphanLoop /\ CancelledAreLive

AddrInv == CopyIsNotNewer /\ FramesUseCurrentGateway

LEMMA AgesGrow ==
  ASSUME NEW age \in Ages
  PROVE  Older(age) \in Ages /\ (age < TTL \/ age = TTL) /\ 0 \in Ages
  <1>1. TTL \in Nat \ {0}
    BY ArpAssumption
  <1>. QED BY <1>1 DEF Ages, Older

LEMMA Constants ==
  /\ NoMac \notin GatewayMacs /\ NoAction \notin Actions /\ NoLoop \notin Loops
  /\ GatewayMacs \subseteq Macs /\ Victims \subseteq Macs
  /\ FirstGateway \in GatewayMacs /\ ProtectedMacs \subseteq Macs
  /\ \A a \in Actions : MacOf[a] \in Victims
  BY ArpAssumption DEF Macs, Victims

\* The parts of the type invariant that a group of actions disturbs.
NetworkTypes ==
  /\ gateway \in GatewayMacs
  /\ neighbour \in GatewayMacs \cup {NoMac}
  /\ neighbourAge \in Ages /\ gatewayAge \in Ages
  /\ gatewayMAC \in GatewayMacs
  /\ guarded \subseteq Macs /\ gatewayMAC \in guarded

CacheTypes ==
  /\ cache \in [Victims -> GatewayMacs \cup {Sensor}]
  /\ hijacked \subseteq Victims

LoopTypes ==
  /\ active \in [Actions -> Loops \cup {NoLoop}]
  /\ cancelled \subseteq Loops
  /\ loop \in [Loops -> LoopRecords]
  /\ \A l \in Loops : /\ loop[l].action # NoAction <=> loop[l].pc # "none"
                      /\ loop[l].mac # NoMac <=> loop[l].pc = "sending"

CallTypes ==
  /\ call \in [Calls -> CallRecords]
  /\ \A c \in Calls : /\ call[c].action # NoAction <=> call[c].pc # "idle"
                      /\ call[c].mac # NoMac <=> call[c].pc \in {"apply_send", "restore"}
                      /\ call[c].round < Rounds

LEMMA TypesAreParts ==
  /\ TypeOK <=> NetworkTypes /\ CacheTypes /\ LoopTypes /\ CallTypes
  /\ TypeOK' <=> NetworkTypes' /\ CacheTypes' /\ LoopTypes' /\ CallTypes'
  BY DEF TypeOK, NetworkTypes, CacheTypes, LoopTypes, CallTypes

\* What a step leaves alone keeps its types.
LEMMA Untouched ==
  /\ NetworkTypes /\ UNCHANGED <<networkVars, addrVars>> => NetworkTypes'
  /\ CacheTypes /\ UNCHANGED cacheVars => CacheTypes'
  /\ LoopTypes /\ UNCHANGED loopVars => LoopTypes'
  /\ CallTypes /\ UNCHANGED call => CallTypes'
  BY DEF NetworkTypes, CacheTypes, LoopTypes, CallTypes, networkVars, cacheVars, addrVars, loopVars

LEMMA FreeAndIdle ==
  /\ Free \in LoopRecords /\ Idle \in CallRecords /\ 0 < Rounds /\ 0 \in 0..Rounds
  <1>1. Rounds \in Nat \ {0}
    BY ArpAssumption
  <1>. QED BY <1>1 DEF Free, Idle, LoopRecords, CallRecords, LoopStates, CallStates

LEMMA ResolveKeepsTypes ==
  ASSUME NetworkTypes, ResolveGateway
  PROVE  /\ GatewayAddr \in GatewayMacs /\ gatewayMAC' = GatewayAddr
         /\ gatewayAge' \in Ages /\ guarded' \subseteq Macs /\ gatewayMAC' \in guarded'
  BY Constants, AgesGrow DEF NetworkTypes, ResolveGateway, ProtectMAC, GatewayAddr, Refreshes

LEMMA ResolveTypes == NetworkTypes /\ ResolveGateway /\ UNCHANGED networkVars => NetworkTypes'
  BY ResolveKeepsTypes DEF NetworkTypes, networkVars

LEMMA PoisonKeepsTypes ==
  ASSUME CacheTypes, NEW a \in Actions, NEW mac, NEW outcome, SendPoison(MacOf[a], mac, outcome)
  PROVE  CacheTypes'
  BY Constants DEF CacheTypes, SendPoison

LEMMA RestoreKeepsTypes ==
  ASSUME CacheTypes, NEW a \in Actions, NEW mac \in GatewayMacs, NEW toVictim, NEW toGateway,
         SendRestore(MacOf[a], mac, toVictim, toGateway)
  PROVE  CacheTypes'
  BY Constants DEF CacheTypes, SendRestore

\* A call's record stays well formed wherever a step puts it.
CallOK(r) ==
  /\ r \in CallRecords
  /\ r.action # NoAction <=> r.pc # "idle"
  /\ r.mac # NoMac <=> r.pc \in {"apply_send", "restore"}
  /\ r.round < Rounds

LEMMA CallChanges ==
  ASSUME CallTypes, NEW c \in Calls, NEW r, CallOK(r), call' = [call EXCEPT ![c] = r]
  PROVE  CallTypes'
  BY DEF CallTypes, CallOK

LEMMA CallEnds ==
  ASSUME CallTypes, NEW c \in Calls, call' = [call EXCEPT ![c] = Idle]
  PROVE  CallTypes'
  <1>1. CallOK(Idle)
    BY FreeAndIdle DEF CallOK, Idle
  <1>. QED BY <1>1, CallChanges

LEMMA CallStarts ==
  ASSUME CallTypes, NEW c \in Calls, NEW pc \in {"apply_resolve", "revert_resolve"}, NEW a \in Actions,
         call[c].pc = "idle", call' = [call EXCEPT ![c].pc = pc, ![c].action = a]
  PROVE  CallTypes'
  <1> DEFINE r == [call[c] EXCEPT !.pc = pc, !.action = a]
  <1>1. call[c] \in CallRecords /\ call[c].mac = NoMac /\ call[c].round < Rounds
    BY DEF CallTypes
  <1>2. /\ r \in CallRecords /\ r.pc = pc /\ r.action = a
        /\ r.mac = call[c].mac /\ r.round = call[c].round
    BY <1>1 DEF CallRecords, CallStates
  <1>3. call' = [call EXCEPT ![c] = r]
    OBVIOUS
  <1> HIDE DEF r
  <1>4. CallOK(r)
    BY <1>1, <1>2, Constants DEF CallOK
  <1>. QED BY <1>3, <1>4, CallChanges

LEMMA CallResolves ==
  ASSUME CallTypes, NEW c \in Calls, NEW pc \in {"apply_send", "restore"},
         NEW mac \in GatewayMacs, call[c].pc # "idle",
         call' = [call EXCEPT ![c].pc = pc, ![c].mac = mac]
  PROVE  CallTypes'
  <1> DEFINE r == [call[c] EXCEPT !.pc = pc, !.mac = mac]
  <1>1. call[c] \in CallRecords /\ call[c].action # NoAction /\ call[c].round < Rounds
    BY DEF CallTypes
  <1>2. /\ r \in CallRecords /\ r.pc = pc /\ r.mac = mac
        /\ r.action = call[c].action /\ r.round = call[c].round
    BY <1>1 DEF CallRecords, CallStates
  <1>3. call' = [call EXCEPT ![c] = r]
    OBVIOUS
  <1> HIDE DEF r
  <1>4. CallOK(r)
    BY <1>1, <1>2, Constants DEF CallOK
  <1>. QED BY <1>3, <1>4, CallChanges

-----------------------------------------------------------------------------
\* Whether a step is of a call, of a loop or of the network.
LEMMA CallKeepsTypes ==
  ASSUME TypeOK, NEW c \in Calls,
         CallStep(c) \/ \E a \in Actions : ApplyCheck(c, a) \/ RevertCancel(c, a)
  PROVE  TypeOK'
  <1>1. NetworkTypes /\ CacheTypes /\ LoopTypes /\ CallTypes
    BY TypesAreParts
  <1>2. ASSUME NEW a \in Actions, ApplyCheck(c, a) PROVE TypeOK'
    <2>1. NetworkTypes' /\ CacheTypes' /\ LoopTypes'
      BY <1>1, <1>2, Untouched DEF ApplyCheck
    <2>2. call[c].pc = "idle" /\ call' = [call EXCEPT ![c].pc = "apply_resolve", ![c].action = a]
      BY <1>2 DEF ApplyCheck
    <2>3. CallTypes'
      BY <1>1, <2>2, CallStarts
    <2>. QED BY <2>1, <2>3, TypesAreParts
  <1>3. ASSUME NEW a \in Actions, RevertCancel(c, a) PROVE TypeOK'
    <2>1. NetworkTypes' /\ CacheTypes'
      BY <1>1, <1>3, Untouched DEF RevertCancel
    <2>4. LoopTypes'
      BY <1>1, <1>3 DEF RevertCancel, LoopTypes
    <2>2. call[c].pc = "idle" /\ call' = [call EXCEPT ![c].pc = "revert_resolve", ![c].action = a]
      BY <1>3 DEF RevertCancel
    <2>3. CallTypes'
      BY <1>1, <2>2, CallStarts
    <2>. QED BY <2>1, <2>3, <2>4, TypesAreParts
  <1>4. CASE ApplyResolve(c)
    <2>1. ResolveGateway /\ call[c].pc = "apply_resolve"
          /\ call' = [call EXCEPT ![c].pc = "apply_send", ![c].mac = GatewayAddr]
      BY <1>4 DEF ApplyResolve
    <2>2. GatewayAddr \in GatewayMacs /\ GatewayAddr # NoMac
      BY <1>1, <2>1, ResolveKeepsTypes, Constants
    <2>3. NetworkTypes' /\ CacheTypes' /\ LoopTypes'
      BY <1>1, <1>4, <2>1, ResolveTypes, Untouched DEF ApplyResolve
    <2>4. CallTypes'
      BY <1>1, <2>1, <2>2, CallResolves
    <2>. QED BY <2>3, <2>4, TypesAreParts
  <1>5. CASE RevertResolve(c)
    <2>1. ResolveGateway /\ call[c].pc = "revert_resolve"
          /\ call' = [call EXCEPT ![c].pc = "restore", ![c].mac = GatewayAddr]
      BY <1>5 DEF RevertResolve
    <2>2. GatewayAddr \in GatewayMacs /\ GatewayAddr # NoMac
      BY <1>1, <2>1, ResolveKeepsTypes, Constants
    <2>3. NetworkTypes' /\ CacheTypes' /\ LoopTypes'
      BY <1>1, <1>5, <2>1, ResolveTypes, Untouched DEF RevertResolve
    <2>4. CallTypes'
      BY <1>1, <2>1, <2>2, CallResolves
    <2>. QED BY <2>3, <2>4, TypesAreParts
  <1>6. ASSUME NEW outcome \in Outcomes, ApplySend(c, outcome) PROVE TypeOK'
    <2>1. call[c].pc = "apply_send" /\ call[c].action \in Actions
          /\ SendPoison(MacOf[call[c].action], call[c].mac, outcome)
          /\ (call' = [call EXCEPT ![c] = Idle]
               \/ call' = [call EXCEPT ![c] = [@ EXCEPT !.pc = "apply_register", !.mac = NoMac]])
      BY <1>1, <1>6 DEF ApplySend, CallRecords, CallTypes
    <2>2. CacheTypes'
      BY <1>1, <2>1, PoisonKeepsTypes
    <2>3. NetworkTypes' /\ LoopTypes'
      BY <1>1, <1>6, Untouched DEF ApplySend
    <2>4. CallTypes'
      <3>1. CASE call' = [call EXCEPT ![c] = Idle]
        BY <1>1, <3>1, CallEnds
      <3>2. CASE call' = [call EXCEPT ![c] = [@ EXCEPT !.pc = "apply_register", !.mac = NoMac]]
        <4> DEFINE next == [call[c] EXCEPT !.pc = "apply_register", !.mac = NoMac]
        <4>1. /\ next \in CallRecords /\ next.pc = "apply_register" /\ next.mac = NoMac
              /\ next.action = call[c].action /\ next.round = call[c].round
          BY <1>1 DEF CallRecords, CallStates, CallTypes
        <4>2. call' = [call EXCEPT ![c] = next]
          BY <3>2
        <4> HIDE DEF next
        <4>3. CallOK(next)
          BY <1>1, <2>1, <4>1, Constants DEF CallOK, CallTypes
        <4>. QED BY <1>1, <4>2, <4>3, CallChanges
      <3>. QED BY <2>1, <3>1, <3>2
    <2>. QED BY <2>2, <2>3, <2>4, TypesAreParts
  <1>7. ASSUME NEW l \in Loops, ApplyRegister(c, l) PROVE TypeOK'
    <2>1. call[c].pc = "apply_register" /\ call[c].action \in Actions
          /\ active' = [active EXCEPT ![call[c].action] = l]
          /\ cancelled' = cancelled \cup ({active[call[c].action]} \ {NoLoop})
          /\ loop' = [loop EXCEPT ![l] = [Free EXCEPT !.pc = "waiting", !.action = call[c].action]]
          /\ call' = [call EXCEPT ![c] = Idle]
      BY <1>1, <1>7 DEF ApplyRegister, Started, CallRecords, CallTypes
    <2>2. LoopTypes'
      <3> DEFINE r == [Free EXCEPT !.pc = "waiting", !.action = call[c].action]
      <3>1. /\ r \in LoopRecords /\ r.pc = "waiting" /\ r.mac = NoMac
            /\ r.action = call[c].action /\ r.action # NoAction
        BY <2>1, Constants DEF LoopRecords, LoopStates, Free
      <3>2. loop' = [loop EXCEPT ![l] = r]
        BY <2>1
      <3> HIDE DEF r
      <3>3. /\ loop' \in [Loops -> LoopRecords]
            /\ \A m \in Loops : /\ loop'[m].action # NoAction <=> loop'[m].pc # "none"
                                /\ loop'[m].mac # NoMac <=> loop'[m].pc = "sending"
        BY <1>1, <3>1, <3>2 DEF LoopTypes
      <3>4. active' \in [Actions -> Loops \cup {NoLoop}] /\ cancelled' \subseteq Loops
        BY <1>1, <2>1 DEF LoopTypes
      <3>. QED BY <3>3, <3>4 DEF LoopTypes
    <2>3. NetworkTypes' /\ CacheTypes'
      BY <1>1, <1>7, Untouched DEF ApplyRegister
    <2>4. CallTypes'
      BY <1>1, <2>1, CallEnds
    <2>. QED BY <2>2, <2>3, <2>4, TypesAreParts
  <1>8. ASSUME NEW toVictim \in BOOLEAN, NEW toGateway \in BOOLEAN, NEW done \in BOOLEAN,
               RevertRound(c, toVictim, toGateway, done)
        PROVE  TypeOK'
    <2>1. call[c].pc = "restore" /\ call[c].action \in Actions /\ call[c].mac \in GatewayMacs
          /\ call[c].round \in 0..Rounds
      BY <1>1, <1>8 DEF RevertRound, CallRecords, CallTypes
    <2>2. CacheTypes'
      BY <1>1, <1>8, <2>1, RestoreKeepsTypes DEF RevertRound
    <2>3. NetworkTypes' /\ LoopTypes'
      BY <1>1, <1>8, Untouched DEF RevertRound
    <2>4. CASE done \/ call[c].round + 1 = Rounds
      <3>1. CallTypes'
        BY <1>1, <1>8, <2>4, CallEnds DEF RevertRound
      <3>. QED BY <2>2, <2>3, <3>1, TypesAreParts
    <2>5. CASE ~(done \/ call[c].round + 1 = Rounds)
      <3>1. call' = [call EXCEPT ![c].round = @ + 1]
        BY <1>8, <2>5 DEF RevertRound
      <3>2. call[c].round + 1 \in 0..Rounds /\ call[c].round + 1 < Rounds
        <4>1. Rounds \in Nat /\ call[c].round \in Nat /\ call[c].round < Rounds
          BY <1>1, <2>1, ArpAssumption DEF CallTypes
        <4>. QED BY <2>5, <4>1
      <3>3. CallTypes'
        <4> DEFINE r == [call[c] EXCEPT !.round = @ + 1]
        <4>1. call[c] \in CallRecords
          BY <1>1 DEF CallTypes
        <4>2. /\ r \in CallRecords /\ r.pc = call[c].pc /\ r.action = call[c].action
              /\ r.mac = call[c].mac /\ r.round = call[c].round + 1
          BY <3>2, <4>1 DEF CallRecords
        <4>3. call' = [call EXCEPT ![c] = r]
          BY <3>1
        <4> HIDE DEF r
        <4>4. CallOK(r)
          BY <1>1, <3>2, <4>2 DEF CallOK, CallTypes
        <4>. QED BY <1>1, <4>3, <4>4, CallChanges
      <3>. QED BY <2>2, <2>3, <3>3, TypesAreParts
    <2>. QED BY <2>4, <2>5
  <1>. QED BY <1>2, <1>3, <1>4, <1>5, <1>6, <1>7, <1>8 DEF CallStep

LEMMA LoopKeepsTypes ==
  ASSUME TypeOK, NEW l \in Loops, LoopStep(l)
  PROVE  TypeOK'
  <1> USE DEF NetworkTypes, CacheTypes, LoopTypes, CallTypes, networkVars, cacheVars, addrVars, loopVars
  <1>1. NetworkTypes /\ CacheTypes /\ LoopTypes /\ CallTypes
    BY TypesAreParts
  <1>2. CASE LoopTick(l)
    <2>1. ResolveGateway /\ loop[l].pc = "waiting"
          /\ loop' = [loop EXCEPT ![l].pc = "sending", ![l].mac = GatewayAddr]
      BY <1>2 DEF LoopTick
    <2>2. GatewayAddr \in GatewayMacs /\ GatewayAddr # NoMac
      BY <1>1, <2>1, ResolveKeepsTypes, Constants
    <2>3. NetworkTypes' /\ CacheTypes' /\ CallTypes'
      BY <1>1, <1>2, <2>1, ResolveTypes, Untouched DEF LoopTick
    <2>4. LoopTypes'
      BY <1>1, <1>2, <2>1, <2>2 DEF LoopTick, LoopRecords, LoopStates
    <2>. QED BY <2>3, <2>4 DEF TypeOK
  <1>3. ASSUME NEW outcome \in Outcomes, LoopSend(l, outcome) PROVE TypeOK'
    <2>1. loop[l].pc = "sending" /\ loop[l].action \in Actions
          /\ SendPoison(MacOf[loop[l].action], loop[l].mac, outcome)
          /\ loop' = [loop EXCEPT ![l].pc = "waiting", ![l].mac = NoMac]
      BY <1>1, <1>3 DEF LoopSend, LoopRecords
    <2>2. CacheTypes'
      BY <1>1, <2>1, PoisonKeepsTypes
    <2>3. LoopTypes'
      BY <1>1, <1>3, <2>1 DEF LoopSend, LoopRecords, LoopStates
    <2>4. NetworkTypes' /\ CallTypes'
      BY <1>1, <1>3, Untouched DEF LoopSend
    <2>. QED BY <2>2, <2>3, <2>4 DEF TypeOK
  <1>4. CASE LoopStop(l)
    <2>1. LoopTypes'
      BY <1>1, <1>4, FreeAndIdle DEF LoopStop, Free
    <2>2. NetworkTypes' /\ CacheTypes' /\ CallTypes'
      BY <1>1, <1>4 DEF LoopStop
    <2>. QED BY <2>1, <2>2 DEF TypeOK
  <1>. QED BY <1>2, <1>3, <1>4 DEF LoopStep

LEMMA NetworkKeepsTypes ==
  ASSUME TypeOK, Network \/ Restart
  PROVE  TypeOK'
  <1> USE DEF NetworkTypes, CacheTypes, LoopTypes, CallTypes, networkVars, cacheVars, addrVars, loopVars
  <1>1. NetworkTypes /\ CacheTypes /\ LoopTypes /\ CallTypes
    BY TypesAreParts
  <1>2. CASE GatewayChanges \/ NeighbourChanges \/ Minute
    <2>1. NetworkTypes'
      BY <1>1, <1>2, AgesGrow DEF GatewayChanges, NeighbourChanges, Minute
    <2>2. CacheTypes' /\ LoopTypes' /\ CallTypes'
      BY <1>1, <1>2 DEF GatewayChanges, NeighbourChanges, Minute
    <2>. QED BY <2>1, <2>2 DEF TypeOK
  <1>3. ASSUME NEW d \in Victims, CacheExpires(d) \/ GatewayForgets(d) PROVE TypeOK'
    <2>1. CacheTypes'
      BY <1>1, <1>3 DEF CacheExpires, GatewayForgets
    <2>2. NetworkTypes' /\ LoopTypes' /\ CallTypes'
      BY <1>1, <1>3 DEF CacheExpires, GatewayForgets
    <2>. QED BY <2>1, <2>2 DEF TypeOK
  <1>4. CASE Restart
    <2>1. NetworkTypes' /\ CacheTypes'
      BY <1>1, <1>4, AgesGrow, Constants DEF Restart
    <2>2. LoopTypes' /\ CallTypes'
      BY <1>4, FreeAndIdle DEF Restart, Free, Idle
    <2>. QED BY <2>1, <2>2 DEF TypeOK
  <1>. QED BY <1>2, <1>3, <1>4 DEF Network

LEMMA InitTypes == Init => TypeOK
  <1> SUFFICES ASSUME Init PROVE TypeOK
    OBVIOUS
  <1>1. 0 \in Ages
    BY ArpAssumption DEF Ages
  <1>2. NetworkTypes /\ CacheTypes
    BY <1>1, Constants DEF Init, NetworkTypes, CacheTypes
  <1>3. LoopTypes
    BY FreeAndIdle DEF Init, LoopTypes, Free
  <1>4. CallTypes
    BY FreeAndIdle DEF Init, CallTypes, Idle
  <1>. QED BY <1>2, <1>3, <1>4, TypesAreParts

LEMMA NextKeepsTypes == TypeOK /\ [Next]_vars => TypeOK'
  <1> SUFFICES ASSUME TypeOK, [Next]_vars PROVE TypeOK'
    OBVIOUS
  <1>1. CASE UNCHANGED vars
    BY <1>1 DEF TypeOK, vars, networkVars, cacheVars, addrVars, loopVars
  <1>. QED BY <1>1, CallKeepsTypes, LoopKeepsTypes, NetworkKeepsTypes DEF Next

-----------------------------------------------------------------------------
LEMMA NextKeepsRegistry == TypeOK /\ RegistryInv /\ [Next]_vars => RegistryInv'
  <1> SUFFICES ASSUME TypeOK, RegistryInv, [Next]_vars PROVE RegistryInv'
    OBVIOUS
  <1> USE DEF networkVars, cacheVars, addrVars, loopVars, RegistryInv
  <1>1. LoopTypes /\ CallTypes
    BY TypesAreParts
  \* Most steps move no loop in or out.
  <1>2. CASE UNCHANGED <<active, cancelled>> /\ \A l \in Loops : /\ loop'[l].pc = "none" <=> loop[l].pc = "none"
                                                                /\ loop'[l].action = loop[l].action
    BY <1>1, <1>2 DEF NoOrphanLoop, CancelledAreLive, LoopTypes
  <1>3. ASSUME NEW c \in Calls, NEW l \in Loops, ApplyRegister(c, l) PROVE RegistryInv'
    <2> DEFINE a == call[c].action
               started == [Free EXCEPT !.pc = "waiting", !.action = a]
    <2>1. /\ a \in Actions
          /\ active' = [active EXCEPT ![a] = l]
          /\ cancelled' = cancelled \cup ({active[a]} \ {NoLoop})
          /\ loop' = [loop EXCEPT ![l] = started]
          /\ loop[l].pc = "none"
      BY <1>1, <1>3 DEF ApplyRegister, Started, CallTypes, CallRecords
    <2>2. started.pc # "none" /\ started.action = a
      BY DEF Free
    <2> HIDE DEF a, started
    \* A free loop is nobody's and nobody has cancelled it.
    <2>3. \A b \in Actions : active[b] # l
      BY <1>1, <2>1, Constants DEF NoOrphanLoop, LoopTypes
    <2>4. l \notin cancelled
      BY <1>1, <2>1 DEF CancelledAreLive
    <2>5. ASSUME NEW k \in Loops, loop'[k].pc # "none", k \notin cancelled' PROVE active'[loop'[k].action] = k
      <3>1. CASE k = l
        BY <1>1, <2>1, <2>2, <3>1 DEF LoopTypes
      <3>2. CASE k # l
        <4>1. loop'[k] = loop[k] /\ k \notin cancelled /\ k # active[a]
          BY <1>1, <2>1, <2>5, <3>2, Constants DEF LoopTypes
        <4>2. active[loop[k].action] = k /\ loop[k].action \in Actions
          BY <1>1, <2>5, <4>1 DEF NoOrphanLoop, LoopTypes, LoopRecords
        <4>. QED BY <1>1, <2>1, <4>1, <4>2 DEF LoopTypes
      <3>. QED BY <3>1, <3>2
    <2>6. ASSUME NEW b \in Actions, active'[b] # NoLoop
          PROVE  loop'[active'[b]].action = b /\ active'[b] \notin cancelled'
      <3>1. CASE b = a
        <4>1. active'[b] = l /\ loop'[l] = started
          BY <1>1, <2>1, <3>1 DEF LoopTypes
        <4>2. l \notin cancelled'
          BY <2>1, <2>3, <2>4
        <4>. QED BY <2>2, <3>1, <4>1, <4>2
      <3>2. CASE b # a
        <4>1. active'[b] = active[b] /\ active[b] \in Loops /\ active[b] # l
          BY <1>1, <2>1, <2>3, <2>6, <3>2 DEF LoopTypes
        <4>2. loop[active[b]].action = b /\ active[b] \notin cancelled
          BY <2>6, <4>1 DEF NoOrphanLoop
        <4>3. active[b] # active[a]
          BY <2>1, <2>6, <3>2, <4>1, <4>2 DEF NoOrphanLoop
        <4>. QED BY <1>1, <2>1, <4>1, <4>2, <4>3 DEF LoopTypes
      <3>. QED BY <3>1, <3>2
    <2>7. CancelledAreLive'
      <3>1. active[a] # NoLoop => active[a] \in Loops /\ loop[active[a]].pc # "none"
        BY <1>1, <2>1, Constants DEF NoOrphanLoop, LoopTypes
      <3>. QED BY <1>1, <2>1, <2>2, <3>1 DEF CancelledAreLive, LoopTypes
    <2>. QED BY <2>5, <2>6, <2>7 DEF NoOrphanLoop
  <1>4. ASSUME NEW c \in Calls, NEW a \in Actions, RevertCancel(c, a) PROVE RegistryInv'
    <2>1. /\ active' = [active EXCEPT ![a] = NoLoop]
          /\ cancelled' = cancelled \cup ({active[a]} \ {NoLoop})
          /\ loop' = loop
      BY <1>4 DEF RevertCancel
    <2>2. active[a] # NoLoop => active[a] \in Loops /\ loop[active[a]].pc # "none"
      BY <1>1, Constants DEF NoOrphanLoop, LoopTypes
    <2>3. CancelledAreLive'
      BY <2>1, <2>2 DEF CancelledAreLive
    <2>4. ASSUME NEW k \in Loops, loop'[k].pc # "none", k \notin cancelled' PROVE active'[loop'[k].action] = k
      <3>1. active[loop[k].action] = k /\ loop[k].action \in Actions /\ k # active[a]
        BY <1>1, <2>1, <2>4, Constants DEF NoOrphanLoop, LoopTypes, LoopRecords
      <3>. QED BY <1>1, <2>1, <3>1 DEF LoopTypes
    <2>5. ASSUME NEW b \in Actions, active'[b] # NoLoop
          PROVE  loop'[active'[b]].action = b /\ active'[b] \notin cancelled'
      BY <1>1, <2>1, <2>5 DEF NoOrphanLoop, LoopTypes
    <2>. QED BY <2>3, <2>4, <2>5 DEF NoOrphanLoop
  <1>5. ASSUME NEW l \in Loops, LoopStop(l) PROVE RegistryInv'
    <2>1. /\ l \in cancelled /\ cancelled' = cancelled \ {l}
          /\ loop' = [loop EXCEPT ![l] = Free] /\ active' = active
      BY <1>5 DEF LoopStop
    <2>2. \A a \in Actions : active[a] # l
      BY <2>1, Constants DEF NoOrphanLoop
    <2>. QED BY <1>1, <2>1, <2>2 DEF NoOrphanLoop, CancelledAreLive, LoopTypes, Free
  <1>6. CASE Restart
    BY <1>6 DEF Restart, NoOrphanLoop, CancelledAreLive, Free
  <1>7. ASSUME NEW l \in Loops, LoopTick(l) \/ \E outcome \in Outcomes : LoopSend(l, outcome) PROVE RegistryInv'
    <2>1. UNCHANGED <<active, cancelled>> /\ \A k \in Loops : /\ loop'[k].pc = "none" <=> loop[k].pc = "none"
                                                            /\ loop'[k].action = loop[k].action
      BY <1>1, <1>7 DEF LoopTick, LoopSend, LoopTypes, LoopRecords
    <2>. QED BY <1>2, <2>1
  <1>8. ASSUME UNCHANGED loopVars PROVE RegistryInv'
    BY <1>8 DEF NoOrphanLoop, CancelledAreLive
  <1>9. ASSUME NEW c \in Calls,
               \/ ApplyResolve(c) \/ (\E outcome \in Outcomes : ApplySend(c, outcome)) \/ RevertResolve(c)
               \/ (\E toVictim, toGateway, done \in BOOLEAN : RevertRound(c, toVictim, toGateway, done))
               \/ (\E a \in Actions : ApplyCheck(c, a))
        PROVE  UNCHANGED loopVars
    BY <1>9 DEF ApplyCheck, ApplyResolve, ApplySend, RevertResolve, RevertRound
  <1>10. Network \/ UNCHANGED vars => UNCHANGED loopVars
    BY DEF Network, GatewayChanges, NeighbourChanges, Minute, CacheExpires, GatewayForgets, vars
  <1>. QED BY <1>3, <1>4, <1>5, <1>6, <1>7, <1>8, <1>9, <1>10 DEF Next, CallStep, LoopStep

LEMMA InitRegistry == Init => RegistryInv
  BY DEF Init, RegistryInv, NoOrphanLoop, CancelledAreLive, Free

-----------------------------------------------------------------------------
\* What gatewayHardwareAddr answers is current: a young copy is at least as
\* young as what contradicts it, and an old one is used for want of an entry.
LEMMA AnswerIsCurrent ==
  ASSUME TypeOK, CopyIsNotNewer
  PROVE  AddrIsCurrent(GatewayAddr)
  <1>1. gatewayAge \in Nat /\ neighbourAge \in Nat /\ TTL \in Nat
    BY ArpAssumption DEF TypeOK, Ages
  <1>2. CASE Refreshes
    BY <1>2 DEF GatewayAddr, AddrIsCurrent
  <1>3. CASE Stale /\ ~Refreshes
    BY <1>3 DEF Refreshes, AddrIsCurrent
  <1>4. CASE ~Stale
    <2>1. GatewayAddr = gatewayMAC /\ gatewayAge < TTL
      BY <1>1, <1>4 DEF GatewayAddr, Refreshes, Stale
    <2>. QED BY <1>1, <2>1 DEF CopyIsNotNewer, AddrIsCurrent
  <1>. QED BY <1>2, <1>3, <1>4

\* No step has an address in hand that was not there or was not just resolved.
LEMMA InHandIsResolved ==
  ASSUME TypeOK, [Next]_vars
  PROVE  InHand' \subseteq InHand \cup {GatewayAddr}
  <1> USE DEF networkVars, cacheVars, addrVars, loopVars
  <1>1. LoopTypes /\ CallTypes
    BY TypesAreParts
  <1> DEFINE Origin(mac) == mac = NoMac \/ mac = GatewayAddr
  <1>2. ASSUME \A c \in Calls : call'[c].mac = call[c].mac \/ Origin(call'[c].mac),
               \A l \in Loops : loop'[l].mac = loop[l].mac \/ Origin(loop'[l].mac)
        PROVE  InHand' \subseteq InHand \cup {GatewayAddr}
    BY <1>2 DEF InHand
  <1> HIDE DEF Origin
  <1>3. ASSUME NEW c \in Calls, CallStep(c) \/ \E a \in Actions : ApplyCheck(c, a) \/ RevertCancel(c, a)
        PROVE  \A k \in Calls : call'[k].mac = call[k].mac \/ Origin(call'[k].mac)
    <2>1. ASSUME NEW a \in Actions, ApplyCheck(c, a) \/ RevertCancel(c, a)
          PROVE  \A k \in Calls : call'[k].mac = call[k].mac
      BY <1>1, <2>1 DEF ApplyCheck, RevertCancel, CallTypes, CallRecords
    <2>2. CASE ApplyResolve(c) \/ RevertResolve(c)
      BY <1>1, <2>2 DEF ApplyResolve, RevertResolve, CallTypes, CallRecords, Origin
    <2>3. ASSUME NEW outcome \in Outcomes, ApplySend(c, outcome)
          PROVE  \A k \in Calls : call'[k].mac = call[k].mac \/ Origin(call'[k].mac)
      BY <1>1, <2>3 DEF ApplySend, CallTypes, CallRecords, Origin, Idle
    <2>4. ASSUME NEW l \in Loops, ApplyRegister(c, l)
          PROVE  \A k \in Calls : call'[k].mac = call[k].mac \/ Origin(call'[k].mac)
      BY <1>1, <2>4 DEF ApplyRegister, CallTypes, CallRecords, Origin, Idle
    <2>5. ASSUME NEW toVictim \in BOOLEAN, NEW toGateway \in BOOLEAN, NEW done \in BOOLEAN,
                 RevertRound(c, toVictim, toGateway, done)
          PROVE  \A k \in Calls : call'[k].mac = call[k].mac \/ Origin(call'[k].mac)
      BY <1>1, <2>5 DEF RevertRound, CallTypes, CallRecords, Origin, Idle
    <2>. QED BY <1>3, <2>1, <2>2, <2>3, <2>4, <2>5 DEF CallStep
  <1>4. ASSUME NEW c \in Calls, CallStep(c) \/ \E a \in Actions : ApplyCheck(c, a) \/ RevertCancel(c, a)
        PROVE  \A k \in Loops : loop'[k].mac = loop[k].mac \/ Origin(loop'[k].mac)
    <2>1. ASSUME NEW l \in Loops, ApplyRegister(c, l)
          PROVE  \A k \in Loops : loop'[k].mac = loop[k].mac \/ Origin(loop'[k].mac)
      BY <1>1, <2>1 DEF ApplyRegister, Started, Free, LoopTypes, LoopRecords, Origin
    <2>. QED BY <1>4, <2>1 DEF CallStep, ApplyCheck, RevertCancel, ApplyResolve, RevertResolve,
                               ApplySend, RevertRound
  <1>5. ASSUME NEW l \in Loops, LoopStep(l)
        PROVE  /\ call' = call
               /\ \A k \in Loops : loop'[k].mac = loop[k].mac \/ Origin(loop'[k].mac)
    BY <1>1, <1>5 DEF LoopStep, LoopTick, LoopStop, LoopSend, Free, LoopTypes, LoopRecords, Origin
  <1>6. ASSUME Network \/ UNCHANGED vars PROVE call' = call /\ loop' = loop
    BY <1>6 DEF Network, GatewayChanges, NeighbourChanges, Minute, CacheExpires, GatewayForgets, vars
  <1>7. CASE Restart
    <2>1. /\ \A c \in Calls : Origin(call'[c].mac)
          /\ \A l \in Loops : Origin(loop'[l].mac)
      BY <1>7 DEF Restart, Free, Idle, Origin
    <2>. QED BY <1>2, <2>1
  <1>. QED BY <1>2, <1>3, <1>4, <1>5, <1>6, <1>7 DEF Next

LEMMA InitAddr == Init => AddrInv
  BY Constants DEF Init, AddrInv, CopyIsNotNewer, FramesUseCurrentGateway, InHand, AddrIsCurrent,
                   Free, Idle

LEMMA NextKeepsAddr == TypeOK /\ AddrInv /\ [Next]_vars => AddrInv'
  <1> SUFFICES ASSUME TypeOK, AddrInv, [Next]_vars PROVE AddrInv'
    OBVIOUS
  <1> USE DEF networkVars, cacheVars, addrVars, loopVars, AddrInv
  <1>1. gatewayAge \in Nat /\ neighbourAge \in Nat /\ TTL \in Nat \ {0}
    BY ArpAssumption DEF TypeOK, Ages
  <1>2. InHand' \subseteq InHand \cup {GatewayAddr}
    BY InHandIsResolved
  <1>3. \A mac \in InHand' : AddrIsCurrent(mac)
    BY <1>2, AnswerIsCurrent DEF FramesUseCurrentGateway
  \* While the table stays, the copy is replaced by the entry or not at all.
  <1>4. ASSUME UNCHANGED <<neighbour, neighbourAge>>,
               UNCHANGED <<gatewayMAC, gatewayAge>> \/ ResolveGateway
        PROVE  AddrInv'
    <2>1. FramesUseCurrentGateway'
      BY <1>3, <1>4 DEF FramesUseCurrentGateway, AddrIsCurrent
    <2>2. CopyIsNotNewer'
      BY <1>4 DEF CopyIsNotNewer, ResolveGateway, GatewayAddr
    <2>. QED BY <2>1, <2>2
  <1>5. CASE NeighbourChanges
    BY <1>1, <1>5 DEF NeighbourChanges, CopyIsNotNewer, FramesUseCurrentGateway, AddrIsCurrent
  <1>6. CASE Minute
    <2>1. InHand = {}
      <3>1. \A l \in Loops : loop[l].mac = NoMac
        BY <1>6 DEF Minute, TypeOK
      <3>. QED BY <1>6, <3>1 DEF Minute, InHand, Idle
    <2>2. InHand' = {}
      BY <1>6, <2>1 DEF Minute, InHand
    <2>3. Older(gatewayAge) >= Older(neighbourAge) \/ ~(gatewayAge >= neighbourAge)
      BY <1>1 DEF Older
    <2>. QED BY <1>6, <2>2, <2>3 DEF Minute, CopyIsNotNewer, FramesUseCurrentGateway
  <1>7. CASE Restart
    <2>1. InHand' = {}
      BY <1>7 DEF Restart, InHand, Free, Idle
    <2>. QED BY <1>7, <2>1 DEF Restart, CopyIsNotNewer, FramesUseCurrentGateway
  <1>8. CASE GatewayChanges \/ UNCHANGED vars \/ \E d \in Victims : CacheExpires(d) \/ GatewayForgets(d)
    BY <1>4, <1>8 DEF GatewayChanges, CacheExpires, GatewayForgets, vars
  <1>9. ASSUME NEW c \in Calls, CallStep(c) \/ \E a \in Actions : ApplyCheck(c, a) \/ RevertCancel(c, a)
        PROVE  AddrInv'
    BY <1>4, <1>9 DEF CallStep, ApplyCheck, RevertCancel, ApplyResolve, ApplySend, ApplyRegister,
                      RevertResolve, RevertRound
  <1>10. ASSUME NEW l \in Loops, LoopStep(l) PROVE AddrInv'
    BY <1>4, <1>10 DEF LoopStep, LoopTick, LoopSend, LoopStop
  <1>. QED BY <1>5, <1>6, <1>7, <1>8, <1>9, <1>10 DEF Next, Network

-----------------------------------------------------------------------------
\* The types of the driver's state, and which call or loop has an action and an
\* address in hand, after any interleaving of calls, ticks and restarts.
THEOREM ArpTypes == Spec => []TypeOK
  BY InitTypes, NextKeepsTypes, PTL DEF Spec

\* However Applies and Reverts of one action overlap, a loop that nothing has
\* cancelled is the one its action is registered with, so a Revert stops it
\* (Apply and Revert, arpisolate.go).
THEOREM RevertFindsTheLoop == Spec => []NoOrphanLoop
  <1>1. RegistryInv => NoOrphanLoop
    BY DEF RegistryInv
  <1>. QED BY <1>1, ArpTypes, InitRegistry, NextKeepsRegistry, PTL DEF Spec

\* No poison or corrective frame is made from a gateway address that the
\* neighbour table has contradicted for gatewayMACTTL, for every TTL
\* (gatewayHardwareAddr).
THEOREM FramesAreCurrent == Spec => []FramesUseCurrentGateway
  <1>1. AddrInv => FramesUseCurrentGateway
    BY DEF AddrInv
  <1>. QED BY <1>1, ArpTypes, InitAddr, NextKeepsAddr, PTL DEF Spec
=============================================================================
