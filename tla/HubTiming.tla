---------------------------- MODULE HubTiming ----------------------------
(***************************************************************************)
(* The hub beside stop-watches that do not wrap: what its 32-bit           *)
(* timestamps are meant to measure, measured truly.  Each stop-watch stops *)
(* at Cap, so a value of Cap means "at least Cap".                         *)
(***************************************************************************)
EXTENDS Hub

CONSTANT Cap   \* where the stop-watches stop

VARIABLES
  silence,   \* time since the hub accepted a reply
  contact,   \* time since the hub took any reply off the bus
  held,      \* time the present hold has kept the bus quiet
  waited     \* time the write at the head of the queue has waited

timers == <<silence, contact, held, waited>>
timingVars == <<vars, timers>>

TInit == Init /\ silence = Cap /\ contact = Cap /\ held = 0 /\ waited = 0

Elapse(t) == IF clock' # clock /\ t < Cap THEN t + 1 ELSE t

TNext ==
  /\ Next
  /\ silence' = IF AcceptReply THEN 0 ELSE Elapse(silence)
  /\ contact' = IF AcceptReply \/ DiscardReply THEN 0 ELSE Elapse(contact)
  /\ held' = IF state = "IDLE" /\ quiet_until' # 0 THEN Elapse(held) ELSE 0
  /\ waited' = IF write_queue = <<>> \/ SendWrite THEN 0 ELSE Elapse(waited)

TSpec == TInit /\ [][TNext]_timingVars

(* The sensor keeps saying "connected" no longer than the link timeout     *)
(* after the last accepted reply, plus the age of its own last look        *)
(* (update_link_).                                                         *)
ConnectedIsRecent ==
  link.connected => silence <= LinkTimeout + 2 * MaxLoop

(* And it never drops the link before the timeout has really passed, nor   *)
(* raises it without a reply that recent.                                  *)
LinkEdgesHonest ==
  [][/\ link.connected /\ ~link'.connected => silence > LinkTimeout
     /\ ~link.connected /\ link'.connected => silence <= LinkTimeout]_timingVars

(* The hold after a timeout lasts at most one window, one more if a late   *)
(* reply comes inside it, and the loop that notices its end.               *)
HoldBounded == held <= HoldTime

(* Writes jump the queue: the write at its head waits for the transaction  *)
(* in flight and the hold it may leave, never for another poll.            *)
WritePrompt == waited <= TurnTime

(* "any received 0x0D means the controller is responding": the link is up  *)
(* whenever a reply came within the timeout.                               *)
AnyReplyKeepsLink ==
  phase = "send" /\ contact + MaxLoop <= LinkTimeout => link.connected
=============================================================================
