---------------------------- MODULE HubTimingInv ----------------------------
(***************************************************************************)
(* Why the bounds of HubTiming hold: what each stop-watch reads, said with *)
(* the hub's own timestamps, while millis() does not wrap.                 *)
(*                                                                         *)
(* loop() looks at the timeout, at the link and at the hold once a pass.   *)
(* What it saw is as old as the time since the drain (lag), or that and    *)
(* the whole pass before it.                                               *)
(***************************************************************************)
EXTENDS HubTiming, HubBus

(* The stop-watch that must show a timeout has passed runs past it.        *)
ASSUME CapAssumption == Cap \in Nat /\ Cap > LinkTimeout

SinceLook(seen) == IF phase \in seen THEN lag ELSE MaxLoop + lag

TimersTyped == {silence, contact, held, waited} \subseteq 0..Cap

(* A request in flight keeps the hold away; a hold lies ahead of the loop  *)
(* that looked last.                                                       *)
NoHoldWaiting == state = "WAITING" => quiet_until = 0
InFlightAge ==
  state = "WAITING" => clock <= tx_time + ReplyTimeout + SinceLook({"link", "send", "drain"})
HoldAge ==
  state = "IDLE" /\ quiet_until # 0 => clock < quiet_until + SinceLook({"drain"})

(* A hold restarts at most once: only while a reply is on its way.         *)
OnItsWay == wire # <<>> \/ uart # <<>> \/ rx_buf # <<>>
HeldShort ==
  state = "IDLE" /\ quiet_until # 0 =>
    /\ held + quiet_until < clock + 2 * ReplyTimeout
    /\ OnItsWay => held + quiet_until <= clock + ReplyTimeout
NotHeld == state = "WAITING" \/ quiet_until = 0 => held = 0

(* The link sensor and the silence it stands for.                          *)
SilenceTrue ==
  IF got_reply THEN silence = IF clock - last_reply < Cap THEN clock - last_reply ELSE Cap
  ELSE silence = Cap
ReplyBefore == last_reply <= clock
LinkLooked ==
  link.connected =>
    got_reply /\ clock <= last_reply + LinkTimeout + SinceLook({"send", "drain"})

(* The head of the write queue has waited for the request in flight, for   *)
(* it and its hold, or for one pass of the loop.                           *)
PassAge == IF phase = "drain" THEN lag + 1 ELSE ReplyTimeout + MaxLoop + lag
WriteAge ==
  IF write_queue = <<>> THEN waited = 0
  ELSE /\ state = "WAITING" => waited + tx_time <= clock
       /\ state = "IDLE" /\ quiet_until # 0 => waited <= TimeoutTime + held
       /\ state = "IDLE" /\ quiet_until = 0 => waited <= PassAge

LinkInv == TimersTyped /\ SilenceTrue /\ ReplyBefore /\ LinkLooked
HoldSeen == NoHoldWaiting /\ InFlightAge /\ HoldAge
HoldInv == HoldSeen /\ HeldShort /\ NotHeld
TimingInv == LinkInv /\ HoldInv /\ WriteAge

-----------------------------------------------------------------------------
(* Why PollsStayFresh holds, with no stop-watch.  Each send is a turn.     *)

(* The time since the last turn, at most; the hold has restarted once, or  *)
(* not while the reply that may restart it is still on its way.            *)
TurnAge ==
  IF state = "WAITING" THEN clock - tx_time
  ELSE IF quiet_until # 0
       THEN TimeoutTime + clock - quiet_until
            + (IF OnItsWay THEN ReplyTimeout ELSE 2 * ReplyTimeout - 1)
  ELSE PassAge

(* Where item i stands in the round that starts at poll_idx, the items     *)
(* before it, and the item sent last.                                      *)
Ahead(i) == (i - 1 - poll_idx) % Len(PollList)
Before(i) == {j \in DOMAIN PollList : Ahead(j) < Ahead(i)}
LastItem == IF poll_idx = 0 THEN Len(PollList) ELSE poll_idx

(* A write waits because Home Assistant asked for it, or as the reset of   *)
(* the item sent last: that item is still in flight, or its reset waits.   *)
Resettable(items) == {j \in items : PollList[j].control}
ResetPending == IF in_flight.kind = "poll" /\ PollList[in_flight.item].control THEN 1 ELSE 0
ResetAllowed == IF PollList # <<>> /\ PollList[LastItem].control THEN 1 ELSE 0
Load == Len(write_queue) + ResetPending
WritesAccounted == Load <= ha_writes + ResetAllowed

(* The turns that can no longer come between a due item and its poll: the  *)
(* items behind it and their resets, the probes and the writes sent.       *)
TurnsTaken(i) ==
  Len(PollList) - 1 - Ahead(i)
  + Cardinality(Resettable(DOMAIN PollList)) - Cardinality(Resettable(Before(i)))
  + disc_idx + ha_writes - Load

PolledBefore == \A i \in DOMAIN PollList : last_ms[i] <= clock
DueSince ==
  \A i \in DOMAIN PollList :
    Due(i) => clock - last_ms[i] <=
                PollList[i].interval + TurnAge + TurnTime * TurnsTaken(i)

FreshInv == PolledBefore /\ WritesAccounted /\ DueSince
=============================================================================
