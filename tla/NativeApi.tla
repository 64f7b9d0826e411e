------------------------------- MODULE NativeApi -------------------------------
(***************************************************************************)
(* One connection of the ESPHome native API (esphome-api/connection.rs): the *)
(* pure state machine a frame is folded through.  A reply is its type; the   *)
(* one payload that matters, the sensor's state, is the caller's snapshot of  *)
(* the device.  The order of an entity list and its end is left out.         *)
(***************************************************************************)

Phase      == {"AwaitingHello", "Active", "Closed"}
Connection == [phase : Phase, subscribed : BOOLEAN]
NewConnection == [phase |-> "AwaitingHello", subscribed |-> FALSE]

\* Inbound.decode: an id it does not know is Other.
Inbound == {"Hello", "Authenticate", "DeviceInfo", "ListEntities",
            "SubscribeStates", "Ping", "Pong", "Disconnect", "DisconnectAck",
            "Other"}

StateReply == "SensorStateResponse"

\* What a connection answers, whatever becomes of it.
Replies(conn, inbound) ==
  CASE conn.phase = "Closed"      -> {}
    [] inbound = "Hello"          -> {"HelloResponse"}
    [] inbound = "Authenticate"   -> {"AuthenticationResponse"}
    [] inbound = "Ping"           -> {"PingResponse"}
    [] inbound = "Disconnect"     -> {"DisconnectResponse"}
    [] conn.phase # "Active"      -> {}
    [] inbound = "DeviceInfo"     -> {"DeviceInfoResponse"}
    [] inbound = "ListEntities"   -> {"ListEntitiesSensorResponse",
                                      "ListEntitiesDoneResponse"}
    [] inbound = "SubscribeStates" -> {StateReply}
    [] OTHER                      -> {}

\* Mutant: a subscription is taken before Hello.
SubscribesEarly(conn, inbound) ==
  CASE conn.phase = "Closed" -> conn
    [] inbound = "Hello" -> [conn EXCEPT !.phase = "Active"]
    [] inbound \in {"Disconnect", "DisconnectAck"} ->
         [conn EXCEPT !.phase = "Closed"]
    [] inbound = "SubscribeStates" -> [conn EXCEPT !.subscribed = TRUE]
    [] OTHER -> conn

Moved(conn, inbound) ==
  CASE conn.phase = "Closed" -> conn
    [] inbound = "Hello" -> [conn EXCEPT !.phase = "Active"]
    [] inbound \in {"Disconnect", "DisconnectAck"} ->
         [conn EXCEPT !.phase = "Closed"]
    [] inbound = "SubscribeStates" /\ conn.phase = "Active" ->
         [conn EXCEPT !.subscribed = TRUE]
    [] OTHER -> conn

BroadcastStates(conn) ==
  IF conn.phase = "Active" /\ conn.subscribed THEN {StateReply} ELSE {}
================================================================================
