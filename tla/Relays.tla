--------------------------------- MODULE Relays ---------------------------------
(***************************************************************************)
(* The sockets of one Nip46Client (client/nostr/nip46.py): a websocket to  *)
(* each relay, opened by a thread of its own, registered in _wss, and      *)
(* never taken out of it before close().  A relay may refuse, drop the     *)
(* connection at any time, lose a frame or deliver it late.                *)
(***************************************************************************)
EXTENDS Naturals, FiniteSets

CONSTANTS
  Relays,
  MaxDrops        \* bound: connections that break during a login

VARIABLES
  wss,       \* _wss: none, open, or dead (registered, and the connection is gone)
  opener,    \* the thread of _open_relay_bg: none, opening, registering
  cancelled, \* _cancelled
  drops

relayVars == <<wss, opener, cancelled, drops>>

RelaysInit ==
  /\ wss = [r \in Relays |-> "none"]
  /\ opener = [r \in Relays |-> "none"]
  /\ cancelled = FALSE
  /\ drops = 0

Sockets == {r \in Relays : wss[r] # "none"}
Live == {r \in Relays : wss[r] = "open"}

\* One attempt per relay at a time: _reconnect_inflight.
Opening(which) == [r \in Relays |-> IF r \in which /\ opener[r] = "none" THEN "opening" ELSE opener[r]]

\* Only a relay with no entry is opened again; a dead socket has one.
Missing == Relays \ Sockets

-----------------------------------------------------------------------------
Refused(r) ==
  /\ opener[r] = "opening"
  /\ opener' = [opener EXCEPT ![r] = "none"]
  /\ UNCHANGED <<wss, cancelled, drops>>

\* A client that was cancelled closes the socket instead of registering it.
Opened(r) ==
  /\ opener[r] = "opening"
  /\ opener' = [opener EXCEPT ![r] = IF cancelled THEN "none" ELSE "registering"]
  /\ UNCHANGED <<wss, cancelled, drops>>

Register(r) ==
  /\ opener[r] = "registering"
  /\ wss' = [wss EXCEPT ![r] = "open"]
  /\ opener' = [opener EXCEPT ![r] = "none"]
  /\ UNCHANGED <<cancelled, drops>>

Drops(r) ==
  /\ wss[r] = "open" /\ drops < MaxDrops
  /\ wss' = [wss EXCEPT ![r] = "dead"]
  /\ drops' = drops + 1
  /\ UNCHANGED <<opener, cancelled>>

RelayStep == \E r \in Relays : Refused(r) \/ Opened(r) \/ Register(r) \/ Drops(r)
=============================================================================
