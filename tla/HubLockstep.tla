--------------------------- MODULE HubLockstep ---------------------------
(***************************************************************************)
(* Why the hold after a timeout restores the lockstep: the invariant       *)
(* behind ReplyMatched, and what it assumes of the bus and of the clock.   *)
(***************************************************************************)
EXTENDS Hub

(* The hub waits out a reply for one timeout before it gives up and holds  *)
(* for one more, so the answer must be drained within two of them.         *)
ASSUME LatencyAssumption == MaxLatency + MaxLoop <= 2 * ReplyTimeout

(* millis() does not wrap while the hub runs, deadlines included.          *)
ASSUME NoWrapAssumption == Horizon + ReplyTimeout < ClockMod

(* At most one command or reply is on its way, it belongs to the last      *)
(* request sent, and its age is known: if the hub gave up on it, the hold  *)
(* outlasts it.  This holds whatever comes out of rx_buf_.                 *)
ClockInOrder ==
  tx_time <= clock /\ clock <= Horizon /\ quiet_until <= clock + ReplyTimeout
OneOnWire ==
  /\ Len(wire) + Len(uart) <= 1
  /\ rx_buf # <<>> => wire = <<>> /\ uart = <<>>
WireCurrent ==
  /\ \A i \in DOMAIN wire : wire[i].current
  /\ \A i \in DOMAIN uart : uart[i].current
CommandAge == \A i \in DOMAIN wire : clock <= tx_time + MaxLatency - wire[i].ttl
ReplyAge == uart # <<>> /\ phase # "drain" => clock <= tx_time + MaxLatency + lag
FramesHandled == rx_buf # <<>> => phase = "frames"
HoldCoversReply ==
  state = "IDLE" /\ (wire # <<>> \/ uart # <<>>) =>
    quiet_until >= tx_time + 2 * ReplyTimeout + 1

WireInv ==
  /\ ClockInOrder /\ OneOnWire /\ WireCurrent /\ CommandAge
  /\ ReplyAge /\ FramesHandled /\ HoldCoversReply

(* Over a line that delivers whole replies, rx_buf_ keeps step.            *)
RxInStep == Len(rx_buf) <= 1 /\ \A i \in DOMAIN rx_buf : rx_buf[i].current

LockstepInv == WireInv /\ RxInStep
=============================================================================
