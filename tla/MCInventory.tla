----------------------------- MODULE MCInventory -----------------------------
(***************************************************************************)
(* An instance of Inventory: a printer with a fixed address, which an      *)
(* earlier version of the service gave the stable id of a phone, and two   *)
(* private addresses a phone may use.  The earlier version also knew a     *)
(* nameless device under one of the two, by an id of its own.              *)
(***************************************************************************)
EXTENDS Inventory, TLC

CONSTANTS printer, private1, private2, phone, lan1

MCLegacy ==
  [m \in Macs |->
     IF m = printer
     THEN [ip |-> "", hostname |-> phone, stable_id |-> <<"vendor", phone>>,
           randomized |-> FALSE, labelled |-> FALSE, last_seen |-> 0]
     ELSE IF m = private2
     THEN [ip |-> "", hostname |-> "", stable_id |-> <<"vendor", "">>,
           randomized |-> FALSE, labelled |-> FALSE, last_seen |-> 0]
     ELSE NoRow]

\* DHCP requests with options 12 and 60, one of them for a first address, and
\* ARP packets.
MCInfos ==
  {[mac |-> private1, ip |-> "", hostname |-> "", vendorClass |-> "vendor"],
   [mac |-> printer, ip |-> lan1, hostname |-> "", vendorClass |-> ""],
   [mac |-> private1, ip |-> lan1, hostname |-> phone, vendorClass |-> "vendor"],
   [mac |-> private2, ip |-> "", hostname |-> phone, vendorClass |-> "vendor"],
   [mac |-> private2, ip |-> lan1, hostname |-> "", vendorClass |-> ""]}
=============================================================================
