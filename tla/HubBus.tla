------------------------------- MODULE HubBus -------------------------------
(***************************************************************************)
(* DanfossIconHub implements the bus: the commands on the wire, the bytes  *)
(* in the UART and those in rx_buf_ are one place, holding one thing.      *)
(***************************************************************************)
EXTENDS HubLockstep

Reads == {PollReq(i) : i \in DOMAIN PollList} \cup {ProbeReq(s) : s \in Slots}

(* What is on the bus, if the three channels are seen as one. *)
LinkOf(commands, bytes, buffer) ==
  LET back == buffer \o bytes
  IN  IF commands # <<>> THEN [stage |-> "sent", req |-> Head(commands).req]
      ELSE IF back # <<>>
           THEN [stage |-> "came", status |-> Head(back).status, bit |-> Head(back).bit]
           ELSE [stage |-> "silent"]
BusLink == LinkOf(wire, uart, rx_buf)

B == INSTANCE Bus WITH request <- in_flight, link <- BusLink, queue <- write_queue

(* Every behaviour of the hub is one of the bus: with no reading of the    *)
(* clock left in it, a request never meets another's reply, a write never  *)
(* waits behind a read, an abandoned reply is dropped (loop(),             *)
(* handle_frame_(), maybe_send_next_()).                                   *)
ImplementsBus == B!Spec

(* The inventory lists only what is there: a consequence of the bus alone. *)
InventoryPresent == B!OnlyPresent

(* A request is in flight exactly while the hub waits (send_read_,         *)
(* send_write_ and finish_transaction_ set both).                          *)
InFlightWaits == state = "IDLE" <=> in_flight = NoRequest
=============================================================================
