------------------------------ MODULE Composite ------------------------------
(***************************************************************************)
(* The composite-confidence correlator of detection-engine                 *)
(* (internal/composite): per client, the strongest recent signal of each   *)
(* class, and the composite detection that two or more classes combine to. *)
(* Observe holds the correlator's mutex to its end, the emission included, *)
(* so the operators below make up one step of the module that uses them.   *)
(*                                                                         *)
(* A signal belongs to the client's address: correlationKey prefers a MAC, *)
(* but main never sets Engine.ResolveClient, so no alert carries one.      *)
(***************************************************************************)
EXTENDS Policy, Functions, FiniteSetsExt, Sequences

CONSTANTS
  Window,      \* how long a signal may corroborate, in ticks
  MaxTracked,  \* maxTrackedClients
  MinEmit,     \* minEmitConfidence
  NoSignal     \* the slot of a class that was not observed

ASSUME CompositeAssumption ==
  /\ Window \in Nat
  /\ MaxTracked \in Nat \ {0}
  /\ MinEmit \in 0..100

VARIABLE signals  \* client |-> class |-> [alert, seen], or NoSignal

NoSignals == [c \in SignalClasses |-> NoSignal]

\* distinctClasses sorts; of two classes as confident the first is the anchor.
ClassOrder == <<"beacon", "ids-signature", "ioc", "tls", "volumetric">>
Classes(sigs) == {c \in SignalClasses : sigs[c] # NoSignal}

Pruned(sigs, at) ==
  [c \in SignalClasses |->
     IF c \in Classes(sigs) /\ at - sigs[c].seen <= Window THEN sigs[c] ELSE NoSignal]

\* Fault: a weaker repeat refreshes the stored signal.
UpsertRefreshing(sigs, a, at) ==
  LET old == sigs[a.class]
      weaker == old # NoSignal /\ a.confidence < old.alert.confidence
  IN [sigs EXCEPT ![a.class] = [alert |-> IF weaker THEN old.alert ELSE a, seen |-> at]]

\* A class keeps its strongest signal, with the time that one was observed at.
Upsert(sigs, a, at) ==
  LET old == sigs[a.class]
  IN IF old # NoSignal /\ a.confidence < old.alert.confidence THEN sigs
     ELSE [sigs EXCEPT ![a.class] = [alert |-> a, seen |-> at]]

-----------------------------------------------------------------------------
Tracked(table)   == {cl \in DOMAIN table : table[cl] # NoSignals}
NewestSeen(sigs) == Max({sigs[c].seen : c \in Classes(sigs)})

\* evict: over the cap, the client whose newest signal is oldest is forgotten.
Evicted(table) ==
  IF Cardinality(Tracked(table)) <= MaxTracked THEN {{}}
  ELSE {{cl} : cl \in {x \in Tracked(table) :
                 \A y \in Tracked(table) : NewestSeen(table[x]) <= NewestSeen(table[y])}}

Without(table, gone) == [cl \in DOMAIN table |-> IF cl \in gone THEN NoSignals ELSE table[cl]]

-----------------------------------------------------------------------------
\* Fault: the chance that all signals are right, not that one of them is.
CombinedAnd(sigs) ==
  LET D == 100 ^ Cardinality(Classes(sigs))
      P == FoldSet(LAMBDA c, acc : acc * sigs[c].alert.confidence, 1, Classes(sigs))
  IN (200 * P + D) \div (2 * D)

\* combine: a noisy-OR of the classes' confidences, rounded to a percentage.
Combined(sigs) ==
  LET D == 100 ^ Cardinality(Classes(sigs))
      P == FoldSet(LAMBDA c, acc : acc * (100 - sigs[c].alert.confidence), 1, Classes(sigs))
  IN (200 * (D - P) + D) \div (2 * D)

\* The most confident signal gives a composite its context.
Anchor(sigs) ==
  LET best == {i \in DOMAIN ClassOrder :
                 /\ ClassOrder[i] \in Classes(sigs)
                 /\ \A c \in Classes(sigs) :
                      sigs[c].alert.confidence <= sigs[ClassOrder[i]].alert.confidence}
  IN sigs[ClassOrder[Min(best)]].alert

\* The signals an event rests on; history, not part of the event.
Parts(sigs) == {sigs[c] : c \in Classes(sigs)}

\* build: identity from the trigger, threat from the anchor.
Build(a, sigs, at) ==
  [client     |-> a.client,
   ioc        |-> Anchor(sigs).ioc,
   class      |-> "composite",
   confidence |-> Combined(sigs),
   severity   |-> SeverityForConfidence(Combined(sigs)),
   signals    |-> Classes(sigs),
   parts      |-> Parts(sigs),
   at         |-> at]

\* Two classes, and confidence enough to be worth an event.
Corroborates(sigs) == Cardinality(Classes(sigs)) >= 2 /\ Combined(sigs) >= MinEmit
=============================================================================
