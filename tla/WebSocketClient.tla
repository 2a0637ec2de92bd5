--------------------------- MODULE WebSocketClient ---------------------------
(***************************************************************************)
(* HyperliquidWebSocketClient.messages()                                   *)
(* (services/data_ingestion/market_data/hyperliquid_ws.py): the connection *)
(* of one collector process, its reconnection with exponential backoff,    *)
(* and the frames under way to it.  The collector takes one frame at a     *)
(* time: the generator does not advance while a frame is handled.          *)
(*                                                                         *)
(* conn is where messages() waits: for the connection ("connecting"), for  *)
(* a frame ("open"; "silent" when the peer is gone and no error shows it), *)
(* for the delay to pass ("backoff"), or nowhere ("stopped").              *)
(***************************************************************************)
EXTENDS Integers, Sequences

CONSTANTS
  InitialDelay,  \* reconnect_initial_delay_s
  MaxDelay,      \* reconnect_max_delay_s
  MaxOutages     \* bound: connections that fail or are lost

VARIABLES
  conn,
  delay,         \* delay, a local of messages()
  wire,          \* frames under way
  outages

connection == <<conn, delay, wire, outages>>

ConnectionInit ==
  /\ conn = "connecting" /\ delay = InitialDelay
  /\ wire = << >>
  /\ outages = 0

Doubled(d) == IF 2 * d < MaxDelay THEN 2 * d ELSE MaxDelay

(* The socket opens, the delay is reset, the subscriptions are sent again. *)
Connect ==
  /\ conn = "connecting"
  /\ conn' = "open" /\ delay' = InitialDelay
  /\ UNCHANGED <<wire, outages>>

(* Any exception of connect(), of a subscription or of recv() tears the    *)
(* connection down; what was under way is lost.                            *)
Lose ==
  /\ conn \in {"connecting", "open", "silent"} /\ outages < MaxOutages
  /\ outages' = outages + 1
  /\ conn' = "backoff" /\ wire' = << >>
  /\ UNCHANGED delay

(* The peer vanishes without closing the socket. *)
GoSilent ==
  /\ conn = "open" /\ outages < MaxOutages
  /\ outages' = outages + 1
  /\ conn' = "silent" /\ wire' = << >>
  /\ UNCHANGED delay

(* Seeded fault: recv() has no timeout, so only an error ends the wait. *)
ReceiveWithoutTimeout == FALSE /\ UNCHANGED connection

(* wait_for(recv(), ws_receive_timeout_s) on a connection gone silent. *)
ReceiveTimeout ==
  /\ conn = "silent"
  /\ conn' = "backoff"
  /\ UNCHANGED <<delay, wire, outages>>

(* sleep(delay), then double it. *)
Wake ==
  /\ conn = "backoff"
  /\ conn' = "connecting" /\ delay' = Doubled(delay)
  /\ UNCHANGED <<wire, outages>>

(* recv() returns the next frame. *)
Recv ==
  /\ conn = "open" /\ wire # << >>
  /\ wire' = Tail(wire)
  /\ UNCHANGED <<conn, delay, outages>>

(* _decode() and the control channels: a frame that is not a message of a  *)
(* subscription is consumed here.                                          *)
Yields(f) == f.channel # "control"

(* close(), from the collector's stop(): messages() ends. *)
CloseClient == conn' = "stopped" /\ wire' = << >> /\ UNCHANGED <<delay, outages>>

(* A new process, with a new client. *)
OpenClient ==
  /\ conn = "stopped"
  /\ conn' = "connecting" /\ delay' = InitialDelay
  /\ UNCHANGED <<wire, outages>>

Reconnection == Connect \/ Lose \/ GoSilent \/ ReceiveTimeout \/ Wake
=============================================================================
