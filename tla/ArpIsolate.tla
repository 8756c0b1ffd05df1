----------------------------- MODULE ArpIsolate -----------------------------
(***************************************************************************)
(* The ARP-isolation driver of killswitch-controller: concurrent Apply and *)
(* Revert calls, the poison loops they start and cancel, the gateway's     *)
(* hardware address as the driver remembers it, and the neighbour caches   *)
(* of the victims and of the gateway, which the frames rewrite and which   *)
(* forget on their own.                                                    *)
(*                                                                         *)
(* A step is what happens under the driver's mutex, or one pair of frames. *)
(* The store lets two Applies of one action overlap (two operators approve *)
(* it) and a Revert overtake the second, so calls come in any order.       *)
(*                                                                         *)
(* Time is kept as ages, in minutes, that stop growing at TTL.  A call and *)
(* a tick of a loop last seconds: no minute passes inside one.             *)
(***************************************************************************)
EXTENDS Naturals

CONSTANTS
  Actions,      \* actions of type arp_isolate
  MacOf,        \* the target of each of them
  ProtectedMacs,\* what the guard is told at start
  GatewayMacs,  \* hardware addresses the gateway may have, in turn
  FirstGateway, \* the one it has at start
  Sensor,       \* the hardware address of the sensor's interface
  NoMac,        \* no address: an empty or incomplete entry, nothing in hand
  NoAction,
  Calls,        \* goroutines of the controller in a driver call
  Loops,        \* poison loops, at most: an instance's bound
  NoLoop,
  TTL,          \* gatewayMACTTL
  Rounds        \* corrective rounds of a Revert (3)

Victims == {MacOf[a] : a \in Actions}
Macs == Victims \cup GatewayMacs \cup {Sensor}
Ages == 0..TTL

ASSUME ArpAssumption ==
  /\ MacOf \in [Actions -> Macs]
  /\ ProtectedMacs \subseteq Macs
  /\ FirstGateway \in GatewayMacs
  /\ Sensor \notin GatewayMacs
  /\ NoMac \notin Macs
  /\ NoLoop \notin Loops /\ NoAction \notin Actions
  /\ TTL \in Nat \ {0}
  /\ Rounds \in Nat \ {0}

VARIABLES
  gateway,       \* the hardware address the gateway really has
  neighbour,     \* its entry in the kernel's table (/proc/net/arp)
  neighbourAge,  \* how long the entry has been what it is
  cache,         \* where each victim believes the gateway to be
  hijacked,      \* the victims the gateway believes to be at the sensor
  gatewayMAC, gatewayAge, \* the driver's copy, and how old it is
  guarded,       \* the guard's set of hardware addresses
  active,        \* the loop registered for each action
  loop,          \* the poison loops
  cancelled,     \* those whose context is done
  call           \* the calls

networkVars == <<gateway, neighbour, neighbourAge>>
cacheVars   == <<cache, hijacked>>
addrVars    == <<gatewayMAC, gatewayAge, guarded>>
loopVars    == <<active, loop, cancelled>>
vars == <<networkVars, cacheVars, addrVars, loopVars, call>>

LoopStates == {"none", "waiting", "sending"}
CallStates == {"idle", "apply_resolve", "apply_send", "apply_register",
               "revert_resolve", "restore"}

LoopRecords == [pc : LoopStates, action : Actions \cup {NoAction},
                mac : GatewayMacs \cup {NoMac}]
CallRecords == [pc : CallStates, action : Actions \cup {NoAction},
                mac : GatewayMacs \cup {NoMac}, round : 0..Rounds]

Free == [pc |-> "none", action |-> NoAction, mac |-> NoMac]
Idle == [pc |-> "idle", action |-> NoAction, mac |-> NoMac, round |-> 0]

Init ==
  /\ gateway = FirstGateway
  /\ neighbour = FirstGateway
  /\ neighbourAge = 0
  /\ cache = [d \in Victims |-> FirstGateway]
  /\ hijacked = {}
  /\ gatewayMAC = FirstGateway
  /\ gatewayAge = 0
  /\ guarded = ProtectedMacs \cup {FirstGateway}
  /\ active = [a \in Actions |-> NoLoop]
  /\ loop = [l \in Loops |-> Free]
  /\ cancelled = {}
  /\ call = [c \in Calls |-> Idle]

-----------------------------------------------------------------------------
\* TargetGuard: what is protected stays so for the life of the process.
ProtectMAC(mac) == guarded' = guarded \cup {mac}
Checked(mac) == mac \notin guarded

\* Fault: the address is resolved at start and kept for good.
StaleNever == FALSE

Stale == gatewayAge >= TTL

\* Fault: an incomplete entry of the table is an answer.
RefreshesAlways == Stale

\* gatewayHardwareAddr: the copy when it is young, else what the kernel says,
\* and the copy again when the kernel says nothing.
Refreshes == Stale /\ neighbour # NoMac

GatewayAddr == IF Refreshes THEN neighbour ELSE gatewayMAC

ResolveGateway ==
  /\ gatewayMAC' = GatewayAddr
  /\ gatewayAge' = IF Refreshes THEN 0 ELSE gatewayAge
  /\ ProtectMAC(GatewayAddr)

\* sendPoison: the victim first; the second frame is sent only if the first
\* was, and reaches the gateway only at the address it really has.
SendPoison(d, mac, outcome) ==
  /\ cache' = IF outcome = "failed" THEN cache ELSE [cache EXCEPT ![d] = Sensor]
  /\ hijacked' = IF outcome = "sent" /\ mac = gateway THEN hijacked \cup {d} ELSE hijacked

Outcomes == {"sent", "half", "failed"}

\* A corrective round: both frames are tried.
SendRestore(d, mac, toVictim, toGateway) ==
  /\ cache' = IF toVictim THEN [cache EXCEPT ![d] = mac] ELSE cache
  /\ hijacked' = IF toGateway /\ mac = gateway THEN hijacked \ {d} ELSE hijacked

-----------------------------------------------------------------------------
\* Apply: the guard, the gateway's address as the driver has it, the sensor's own.
ApplyCheck(c, a) ==
  /\ call[c].pc = "idle"
  /\ Checked(MacOf[a])
  /\ MacOf[a] # gatewayMAC
  /\ MacOf[a] # Sensor
  /\ call' = [call EXCEPT ![c].pc = "apply_resolve", ![c].action = a]
  /\ UNCHANGED <<networkVars, cacheVars, addrVars, loopVars>>

ApplyResolve(c) ==
  /\ call[c].pc = "apply_resolve"
  /\ ResolveGateway
  /\ call' = [call EXCEPT ![c].pc = "apply_send", ![c].mac = GatewayAddr]
  /\ UNCHANGED <<networkVars, cacheVars, loopVars>>

\* The first pair, in the call: an error is the caller's.
ApplySend(c, outcome) ==
  /\ call[c].pc = "apply_send"
  /\ SendPoison(MacOf[call[c].action], call[c].mac, outcome)
  /\ call' = [call EXCEPT ![c] = IF outcome = "sent" THEN [@ EXCEPT !.pc = "apply_register", !.mac = NoMac]
                                                 ELSE Idle]
  /\ UNCHANGED <<networkVars, addrVars, loopVars>>

Started(c, l) == [loop EXCEPT ![l] = [Free EXCEPT !.pc = "waiting", !.action = call[c].action]]

\* Fault: the earlier loop is forgotten and goes on.
ApplyRegisterOver(c, l) ==
  /\ call[c].pc = "apply_register"
  /\ loop[l].pc = "none"
  /\ active' = [active EXCEPT ![call[c].action] = l]
  /\ loop' = Started(c, l)
  /\ call' = [call EXCEPT ![c] = Idle]
  /\ UNCHANGED <<networkVars, cacheVars, addrVars, cancelled>>

\* The loop of this call takes the place of an earlier one of the action.
ApplyRegister(c, l) ==
  /\ call[c].pc = "apply_register"
  /\ loop[l].pc = "none"
  /\ active' = [active EXCEPT ![call[c].action] = l]
  /\ cancelled' = cancelled \cup ({active[call[c].action]} \ {NoLoop})
  /\ loop' = Started(c, l)
  /\ call' = [call EXCEPT ![c] = Idle]
  /\ UNCHANGED <<networkVars, cacheVars, addrVars>>

\* Fault: Revert forgets the loop and relies on it to notice.
RevertForgets(c, a) ==
  /\ call[c].pc = "idle"
  /\ active' = [active EXCEPT ![a] = NoLoop]
  /\ call' = [call EXCEPT ![c].pc = "revert_resolve", ![c].action = a]
  /\ UNCHANGED <<networkVars, cacheVars, addrVars, loop, cancelled>>

\* Revert: the loop is cancelled and forgotten first, whatever comes of the rest.
RevertCancel(c, a) ==
  /\ call[c].pc = "idle"
  /\ active' = [active EXCEPT ![a] = NoLoop]
  /\ cancelled' = cancelled \cup ({active[a]} \ {NoLoop})
  /\ call' = [call EXCEPT ![c].pc = "revert_resolve", ![c].action = a]
  /\ UNCHANGED <<networkVars, cacheVars, addrVars, loop>>

RevertResolve(c) ==
  /\ call[c].pc = "revert_resolve"
  /\ ResolveGateway
  /\ call' = [call EXCEPT ![c].pc = "restore", ![c].mac = GatewayAddr]
  /\ UNCHANGED <<networkVars, cacheVars, loopVars>>

\* A round; after it the call goes on, ends, or finds its context done.
RevertRound(c, toVictim, toGateway, done) ==
  /\ call[c].pc = "restore"
  /\ SendRestore(MacOf[call[c].action], call[c].mac, toVictim, toGateway)
  /\ call' = IF done \/ call[c].round + 1 = Rounds
             THEN [call EXCEPT ![c] = Idle]
             ELSE [call EXCEPT ![c].round = @ + 1]
  /\ UNCHANGED <<networkVars, addrVars, loopVars>>

-----------------------------------------------------------------------------
\* poisonLoop: with a tick and a cancellation both ready, select takes either.
LoopTick(l) ==
  /\ loop[l].pc = "waiting"
  /\ ResolveGateway
  /\ loop' = [loop EXCEPT ![l].pc = "sending", ![l].mac = GatewayAddr]
  /\ UNCHANGED <<networkVars, cacheVars, active, cancelled, call>>

\* A failure is logged and the loop goes on.
LoopSend(l, outcome) ==
  /\ loop[l].pc = "sending"
  /\ SendPoison(MacOf[loop[l].action], loop[l].mac, outcome)
  /\ loop' = [loop EXCEPT ![l].pc = "waiting", ![l].mac = NoMac]
  /\ UNCHANGED <<networkVars, addrVars, active, cancelled, call>>

LoopStop(l) ==
  /\ loop[l].pc = "waiting"
  /\ l \in cancelled
  /\ loop' = [loop EXCEPT ![l] = Free]
  /\ cancelled' = cancelled \ {l}
  /\ UNCHANGED <<networkVars, cacheVars, addrVars, active, call>>

-----------------------------------------------------------------------------
\* The router comes back with another address; the kernel learns and forgets.
GatewayChanges ==
  /\ gateway' \in GatewayMacs \ {gateway}
  /\ UNCHANGED <<neighbour, neighbourAge, cacheVars, addrVars, loopVars, call>>

NeighbourChanges ==
  /\ neighbour' \in {gateway, NoMac} \ {neighbour}
  /\ neighbourAge' = 0
  /\ UNCHANGED <<gateway, cacheVars, addrVars, loopVars, call>>

\* A cache forgets what it was told and asks.
CacheExpires(d) ==
  /\ cache[d] # gateway
  /\ cache' = [cache EXCEPT ![d] = gateway]
  /\ UNCHANGED <<networkVars, hijacked, addrVars, loopVars, call>>

GatewayForgets(d) ==
  /\ d \in hijacked
  /\ hijacked' = hijacked \ {d}
  /\ UNCHANGED <<networkVars, cache, addrVars, loopVars, call>>

Older(age) == IF age < TTL THEN age + 1 ELSE age

Minute ==
  /\ \A c \in Calls : call[c] = Idle
  /\ \A l \in Loops : loop[l].pc # "sending"
  /\ neighbourAge' = Older(neighbourAge)
  /\ gatewayAge' = Older(gatewayAge)
  /\ UNCHANGED <<gateway, neighbour, cacheVars, gatewayMAC, guarded, loopVars, call>>

\* The process dies: its loops and calls go, the caches stay as they are.  The
\* driver is there again when the gateway can be resolved.
Restart ==
  /\ neighbour # NoMac
  /\ gatewayMAC' = neighbour
  /\ gatewayAge' = 0
  /\ guarded' = ProtectedMacs \cup {neighbour}
  /\ active' = [a \in Actions |-> NoLoop]
  /\ loop' = [l \in Loops |-> Free]
  /\ cancelled' = {}
  /\ call' = [c \in Calls |-> Idle]
  /\ UNCHANGED <<networkVars, cacheVars>>

-----------------------------------------------------------------------------
CallStep(c) ==
  \/ ApplyResolve(c)
  \/ \E outcome \in Outcomes : ApplySend(c, outcome)
  \/ \E l \in Loops : ApplyRegister(c, l)
  \/ RevertResolve(c)
  \/ \E toVictim, toGateway, done \in BOOLEAN : RevertRound(c, toVictim, toGateway, done)

LoopStep(l) == LoopTick(l) \/ LoopStop(l) \/ \E outcome \in Outcomes : LoopSend(l, outcome)

Network ==
  \/ GatewayChanges \/ NeighbourChanges \/ Minute
  \/ \E d \in Victims : CacheExpires(d) \/ GatewayForgets(d)

Next ==
  \/ \E c \in Calls : CallStep(c) \/ \E a \in Actions : ApplyCheck(c, a) \/ RevertCancel(c, a)
  \/ \E l \in Loops : LoopStep(l)
  \/ Network
  \/ Restart

Spec == Init /\ [][Next]_vars

(***************************************************************************)
(* A send returns; select is random among what is ready, so a cancelled    *)
(* loop is not ticked for ever; and caches expire ("~30-60s",              *)
(* arpisolate.go:51).                                                      *)
(***************************************************************************)
Fairness ==
  /\ \A l \in Loops : /\ WF_vars(\E outcome \in Outcomes : LoopSend(l, outcome))
                      /\ SF_vars(LoopStop(l))
  /\ \A d \in Victims : WF_vars(CacheExpires(d)) /\ WF_vars(GatewayForgets(d))

FairSpec == Spec /\ Fairness

-----------------------------------------------------------------------------
\* Types, and who has what in hand.
TypeOK ==
  /\ gateway \in GatewayMacs
  /\ neighbour \in GatewayMacs \cup {NoMac}
  /\ neighbourAge \in Ages /\ gatewayAge \in Ages
  /\ cache \in [Victims -> GatewayMacs \cup {Sensor}]
  /\ hijacked \subseteq Victims
  /\ gatewayMAC \in GatewayMacs
  /\ guarded \subseteq Macs /\ gatewayMAC \in guarded
  /\ active \in [Actions -> Loops \cup {NoLoop}]
  /\ cancelled \subseteq Loops
  /\ loop \in [Loops -> LoopRecords]
  /\ call \in [Calls -> CallRecords]
  /\ \A l \in Loops : /\ loop[l].action # NoAction <=> loop[l].pc # "none"
                      /\ loop[l].mac # NoMac <=> loop[l].pc = "sending"
  /\ \A c \in Calls : /\ call[c].action # NoAction <=> call[c].pc # "idle"
                      /\ call[c].mac # NoMac <=> call[c].pc \in {"apply_send", "restore"}
                      /\ call[c].round < Rounds

\* A loop that nothing has told to stop is the one registered for its action
\* (Apply's old(), Revert's cancel and delete): whatever calls overlap, a
\* Revert of the action finds it.  A loop outside the map would keep its device
\* cut off with no way to stop it.
NoOrphanLoop ==
  /\ \A l \in Loops : loop[l].pc # "none" /\ l \notin cancelled => active[loop[l].action] = l
  /\ \A a \in Actions : active[a] # NoLoop =>
       loop[active[a]].action = a /\ active[a] \notin cancelled

\* An address in use is the one in the neighbour table, unless the table has
\* none or came by it less than gatewayMACTTL ago ("the restore packets on
\* revert wrote a WRONG gateway entry", arpisolate.go:27-31).
AddrIsCurrent(mac) == neighbour \in {mac, NoMac} \/ neighbourAge < TTL

InHand == ({call[c].mac : c \in Calls} \cup {loop[l].mac : l \in Loops}) \ {NoMac}

FramesUseCurrentGateway == \A mac \in InHand : AddrIsCurrent(mac)

Poisoned(d)   == cache[d] = Sensor \/ d \in hijacked
Registered(d) == \E a \in Actions : MacOf[a] = d /\ active[a] # NoLoop
Requested(d)  == \E c \in Calls : /\ call[c].pc \in {"apply_resolve", "apply_send", "apply_register"}
                                  /\ MacOf[call[c].action] = d

\* A device that stays out of the registry is left alone for good, although
\* a loop outlives its cancellation and may send once more after the restore.
ReleasedIsLeftAlone ==
  \A d \in Victims : <>[]~(Registered(d) \/ Requested(d)) => <>[]~Poisoned(d)
=============================================================================
