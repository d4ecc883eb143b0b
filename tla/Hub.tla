------------------------------- MODULE Hub -------------------------------
(***************************************************************************)
(* DanfossIconHub: the lockstep transaction engine that shares one RS-485  *)
(* bus between Home Assistant's writes, the one-shot discovery probe and   *)
(* the tiered polling of every room.                                       *)
(*                                                                         *)
(* A reply on this bus carries neither an index nor an attribute, so the   *)
(* hub pairs it with whatever request is in flight.  Everything the hub    *)
(* believes rests on the pairing being right.                              *)
(*                                                                         *)
(* loop() is cut at its reads of millis(): drain the UART, handle each     *)
(* complete frame, check the timeout, publish the link, send.  Time passes *)
(* between any two of them, and the UART fills behind the loop's back.     *)
(***************************************************************************)
EXTENDS Integers, Sequences, FiniteSets

CONSTANTS
  ReplyTimeout,        \* reply_timeout_ms_
  LinkTimeout,         \* link_timeout_ms_
  ClockMod,            \* number of values of millis(): 2^32, scaled down
  Horizon,             \* the clock stops here; ClockMod lets it wrap for ever
  MaxLoop,             \* most time from one drain of the UART to the next
  MaxLatency,          \* most time from a command to the last byte of its reply
  PollList,            \* poll_list_: [idx, control, interval, count] per item
  NControllers,        \* controller positions probed (3 in the code)
  SlotsPerController,  \* rooms probed per controller (15 in the code)
  Rooms,               \* configured room indexes
  Present,             \* <<controller, slot>> really there; slot 0 = controller
  Statuses,            \* answers the controller gives: "ok", "rejected"
  Lossy,               \* whether commands and replies can be lost
  MaxHaWrites          \* bound: writes asked for by Home Assistant

ASSUME TimesAssumption ==
  /\ ReplyTimeout \in Nat \ {0} /\ LinkTimeout \in Nat
  /\ ClockMod \in Nat /\ ClockMod > 1 /\ Horizon \in 1..ClockMod
  /\ MaxLoop \in Nat /\ MaxLatency \in Nat
ASSUME PollListAssumption ==
  PollList \in Seq([idx : Rooms, control : BOOLEAN, interval : Nat, count : Nat])
ASSUME TopologyAssumption ==
  /\ NControllers \in Nat /\ SlotsPerController \in Nat
  /\ Present \subseteq (1..NControllers) \X (0..SlotsPerController)
ASSUME EnvironmentAssumption ==
  Statuses \subseteq {"ok", "rejected"} /\ Lossy \in BOOLEAN /\ MaxHaWrites \in Nat

VARIABLES
  clock, phase, lag,                       \* millis(), position in loop()
  state, in_flight, tx_time, quiet_until,  \* the transaction and the hold
  write_queue,
  discovery, disc_idx, disc_active, inventory,
  last_ms, poll_idx,
  got_reply, last_reply, link,
  wire, uart, rx_buf,                      \* commands out, replies back
  scheduled, ha_writes                     \* environment

txVars    == <<state, in_flight, tx_time>>
discVars  == <<discovery, disc_idx, disc_active, inventory>>
pollVars  == <<last_ms, poll_idx>>
linkVars  == <<got_reply, last_reply, link>>
busVars   == <<wire, uart>>
envVars   == <<scheduled, ha_writes>>
vars == <<clock, phase, lag, txVars, quiet_until, write_queue, discVars,
          pollVars, linkVars, busVars, rx_buf, envVars>>

NoRequest == [kind |-> "none"]
WriteReq(idx, attr) == [kind |-> "write", idx |-> idx, attr |-> attr]
PollReq(i) == [kind |-> "poll", item |-> i]
ProbeReq(slot) == [kind |-> "probe", slot |-> slot]

Slots == (1..NControllers) \X (0..SlotsPerController)
Writes == {WriteReq(r, a) : r \in Rooms, a \in {"setpoint", "control"}}
Requests == Writes \cup {PollReq(i) : i \in DOMAIN PollList}
                   \cup {ProbeReq(s) : s \in Slots}

Commands == [req : Requests, current : BOOLEAN, ttl : 0..MaxLatency]
Replies == [current : BOOLEAN, status : Statuses, bit : BOOLEAN]

(* millis() - t and millis() + d, in the clock's own arithmetic. *)
Since(t) == (clock - t) % ClockMod
Later(d) == (clock + d) % ClockMod

Init ==
  /\ clock = 1 /\ phase = "drain" /\ lag = 0
  /\ state = "IDLE" /\ in_flight = NoRequest /\ tx_time = 0 /\ quiet_until = 0
  /\ write_queue = <<>>
  /\ discovery = [c \in 1..NControllers |-> <<c, 0>>]
  /\ disc_idx = 0 /\ disc_active = TRUE /\ inventory = <<>>
  /\ last_ms = [i \in DOMAIN PollList |-> 0] /\ poll_idx = 0
  /\ got_reply = FALSE /\ last_reply = 0
  /\ link = [published |-> FALSE, connected |-> FALSE]
  /\ wire = <<>> /\ uart = <<>> /\ rx_buf = <<>>
  /\ scheduled = [r \in Rooms |-> FALSE] /\ ha_writes = 0

-----------------------------------------------------------------------------
(* pump_rx_: take what the UART holds, then handle frame after frame.      *)

DrainUart ==
  /\ phase = "drain"
  /\ rx_buf' = rx_buf \o uart /\ uart' = <<>>
  /\ phase' = "frames" /\ lag' = 0
  /\ UNCHANGED <<clock, txVars, quiet_until, write_queue, discVars, pollVars,
                 linkVars, wire, envVars>>

\* mutant: the timeout leaves no hold
NoHold == clock
\* mutant: the hold is measured with the wrong timeout
LongHold == Later(LinkTimeout)

(* The hold is a deadline one reply timeout ahead. *)
HoldUntil == Later(ReplyTimeout)
InHold == clock < quiet_until

(* A reply while nothing is in flight is dropped; inside the hold it also  *)
(* restarts the hold.                                                      *)
DiscardReply ==
  /\ phase = "frames" /\ rx_buf # <<>> /\ state # "WAITING"
  /\ quiet_until' = IF InHold THEN HoldUntil ELSE quiet_until
  /\ rx_buf' = Tail(rx_buf)
  /\ UNCHANGED <<clock, phase, lag, txVars, write_queue, discVars, pollVars,
                 linkVars, busVars, envVars>>

FinishTransaction == state' = "IDLE" /\ in_flight' = NoRequest /\ UNCHANGED tx_time

\* mutant: the write goes to the room mode, not to the room control
HealRoomMode(rep) ==
  IF /\ in_flight.kind = "poll" /\ rep.status = "ok" /\ rep.bit
     /\ PollList[in_flight.item].control
  THEN <<WriteReq(PollList[in_flight.item].idx, "mode")>> ELSE <<>>
\* mutant: a schedule found running is left alone
NoHeal(rep) == <<>>

(* A room read back as running the controller's schedule is put back to    *)
(* manual with a write.                                                    *)
HealWrites(rep) ==
  IF /\ in_flight.kind = "poll" /\ rep.status = "ok" /\ rep.bit
     /\ PollList[in_flight.item].control
  THEN <<WriteReq(PollList[in_flight.item].idx, "control")>>
  ELSE <<>>

(* A slot found there joins the inventory; a controller found there also   *)
(* queues the probes of its rooms.                                         *)
FoundSlot(rep) == in_flight.kind = "probe" /\ rep.status = "ok" /\ rep.bit
RoomProbes(c) == [s \in 1..SlotsPerController |-> <<c, s>>]

\* mutant: a controller's rooms are probed whatever its answer
ExpandAnyway(rep) ==
  IF in_flight.kind = "probe" /\ in_flight.slot[2] = 0
  THEN discovery \o RoomProbes(in_flight.slot[1]) ELSE discovery

Expand(rep) ==
  IF FoundSlot(rep) /\ in_flight.slot[2] = 0
  THEN discovery \o RoomProbes(in_flight.slot[1]) ELSE discovery
Record(rep) ==
  IF FoundSlot(rep) THEN Append(inventory, in_flight.slot) ELSE inventory

AcceptReply ==
  /\ phase = "frames" /\ rx_buf # <<>> /\ state = "WAITING"
  /\ LET rep == Head(rx_buf)
     IN  /\ write_queue' = write_queue \o HealWrites(rep)
         /\ discovery' = Expand(rep)
         /\ inventory' = Record(rep)
  /\ got_reply' = TRUE /\ last_reply' = clock
  /\ FinishTransaction
  /\ rx_buf' = Tail(rx_buf)
  /\ UNCHANGED <<clock, phase, lag, quiet_until, disc_idx, disc_active,
                 pollVars, link, busVars, envVars>>

FramesDone ==
  /\ phase = "frames" /\ rx_buf = <<>>
  /\ phase' = "timeout"
  /\ UNCHANGED <<clock, lag, txVars, quiet_until, write_queue, discVars,
                 pollVars, linkVars, busVars, rx_buf, envVars>>

-----------------------------------------------------------------------------
(* The reply timeout and the link sensor.                                  *)

TimedOut == state = "WAITING" /\ Since(tx_time) > ReplyTimeout

Expire ==
  /\ phase = "timeout" /\ TimedOut
  /\ FinishTransaction
  /\ quiet_until' = HoldUntil
  /\ phase' = "link"
  /\ UNCHANGED <<clock, lag, write_queue, discVars, pollVars, linkVars, busVars,
                 rx_buf, envVars>>

NotExpired ==
  /\ phase = "timeout" /\ ~TimedOut
  /\ phase' = "link"
  /\ UNCHANGED <<clock, lag, txVars, quiet_until, write_queue, discVars,
                 pollVars, linkVars, busVars, rx_buf, envVars>>

\* mutant: one reply connects for ever
EverConnected == got_reply
\* mutant: off by one, the link drops as the timeout is reached
ConnectedBefore == got_reply /\ Since(last_reply) < LinkTimeout

Connected == got_reply /\ Since(last_reply) <= LinkTimeout

UpdateLink ==
  /\ phase = "link"
  /\ link' = [published |-> TRUE, connected |-> Connected]
  /\ phase' = "send"
  /\ UNCHANGED <<clock, lag, txVars, quiet_until, write_queue, discVars, pollVars,
                 got_reply, last_reply, busVars, rx_buf, envVars>>

-----------------------------------------------------------------------------
(* maybe_send_next_: one transaction at a time, and none inside the hold;  *)
(* writes first, then the discovery probe, then the next due poll.         *)

Holding == quiet_until # 0 /\ InHold
\* mutant: the hold is not looked at before sending
SendInHold == phase = "send" /\ state = "IDLE"

MaySend == phase = "send" /\ state = "IDLE" /\ ~Holding

SkipSend ==
  /\ phase = "send" /\ (state = "WAITING" \/ Holding)
  /\ phase' = "drain"
  /\ UNCHANGED <<clock, lag, txVars, quiet_until, write_queue, discVars,
                 pollVars, linkVars, busVars, rx_buf, envVars>>

(* "current" tells the command in flight from those the hub has given up   *)
(* on and followed with another; no code reads it.                         *)
Superseded(msgs) == [i \in DOMAIN msgs |-> [msgs[i] EXCEPT !.current = FALSE]]

Transmit(req) ==
  /\ state' = "WAITING" /\ in_flight' = req /\ tx_time' = clock
  /\ wire' = Append(Superseded(wire),
                    [req |-> req, current |-> TRUE, ttl |-> MaxLatency])
  /\ uart' = Superseded(uart)

EndLoop == phase' = "drain" /\ quiet_until' = 0 /\ UNCHANGED <<clock, lag, rx_buf>>

\* mutant: the write sent is not taken off the queue
SendWriteAgain ==
  /\ MaySend /\ write_queue # <<>>
  /\ Transmit(Head(write_queue))
  /\ EndLoop
  /\ UNCHANGED <<write_queue, discVars, pollVars, linkVars, envVars>>

SendWrite ==
  /\ MaySend /\ write_queue # <<>>
  /\ Transmit(Head(write_queue)) /\ write_queue' = Tail(write_queue)
  /\ EndLoop
  /\ UNCHANGED <<discVars, pollVars, linkVars, envVars>>

\* mutant: the probe never moves on
SendProbeAgain ==
  /\ MaySend /\ write_queue = <<>>
  /\ disc_active /\ disc_idx < Len(discovery)
  /\ Transmit(ProbeReq(discovery[disc_idx + 1]))
  /\ EndLoop
  /\ UNCHANGED <<write_queue, discVars, pollVars, linkVars, envVars>>

SendProbe ==
  /\ MaySend /\ write_queue = <<>>
  /\ disc_active /\ disc_idx < Len(discovery)
  /\ Transmit(ProbeReq(discovery[disc_idx + 1])) /\ disc_idx' = disc_idx + 1
  /\ EndLoop
  /\ UNCHANGED <<write_queue, discovery, disc_active, inventory, pollVars,
                 linkVars, envVars>>

\* mutant: every round starts at the first item
ItemFromFirst(k) == k + 1

(* The k-th item of a round that starts at poll_idx, and the first due. *)
RoundItem(k) == ((poll_idx + k) % Len(PollList)) + 1
Due(i) == last_ms[i] = 0 \/ Since(last_ms[i]) >= PollList[i].interval
FirstDue(k) == /\ Due(RoundItem(k))
               /\ \A j \in 0..(k - 1) : ~Due(RoundItem(j))

(* build_read refuses a read of no attribute or of more than 15. *)
Sendable(i) == PollList[i].count \in 1..15

\* mutant: polls do not wait for writes
PollBeforeWrites == MaySend /\ ~(disc_active /\ disc_idx < Len(discovery))
\* mutant: off by one, the last probe is skipped
PollBeforeLastProbe ==
  MaySend /\ write_queue = <<>> /\ ~(disc_active /\ disc_idx + 1 < Len(discovery))

MayPoll == MaySend /\ write_queue = <<>> /\ ~(disc_active /\ disc_idx < Len(discovery))

SendPoll ==
  /\ MayPoll
  /\ \E k \in 0..(Len(PollList) - 1) :
       LET i == RoundItem(k)
       IN  /\ FirstDue(k)
           /\ last_ms' = [last_ms EXCEPT ![i] = clock]
           /\ poll_idx' = i % Len(PollList)
           /\ IF Sendable(i) THEN Transmit(PollReq(i))
                             ELSE UNCHANGED <<txVars, busVars>>
  /\ disc_active' = FALSE
  /\ EndLoop
  /\ UNCHANGED <<write_queue, discovery, disc_idx, inventory, linkVars, envVars>>

NothingDue ==
  /\ MayPoll
  /\ \A i \in DOMAIN PollList : ~Due(i)
  /\ disc_active' = FALSE
  /\ EndLoop
  /\ UNCHANGED <<txVars, write_queue, discovery, disc_idx, inventory, pollVars,
                 linkVars, busVars, envVars>>

LoopStep ==
  \/ DrainUart \/ DiscardReply \/ AcceptReply \/ FramesDone
  \/ Expire \/ NotExpired \/ UpdateLink
  \/ SkipSend \/ SendWrite \/ SendProbe \/ SendPoll \/ NothingDue

-----------------------------------------------------------------------------
(* The rest of the world: time, Home Assistant between two loops, somebody *)
(* starting a room's schedule at the controller, and the controller.       *)

Tick ==
  /\ clock # Horizon /\ lag < MaxLoop
  /\ \A i \in DOMAIN wire : wire[i].ttl > 0
  /\ clock' = Later(1) /\ lag' = lag + 1
  /\ wire' = [i \in DOMAIN wire |-> [wire[i] EXCEPT !.ttl = @ - 1]]
  /\ UNCHANGED <<phase, txVars, quiet_until, write_queue, discVars, pollVars,
                 linkVars, uart, rx_buf, envVars>>

(* queue_write, called from an entity's control() between two loops. *)
HaWrite(r) ==
  /\ phase = "drain" /\ ha_writes < MaxHaWrites
  /\ write_queue' = Append(write_queue, WriteReq(r, "setpoint"))
  /\ ha_writes' = ha_writes + 1
  /\ UNCHANGED <<clock, phase, lag, txVars, quiet_until, discVars, pollVars,
                 linkVars, busVars, rx_buf, scheduled>>

StartSchedule(r) ==
  /\ ~scheduled[r]
  /\ scheduled' = [scheduled EXCEPT ![r] = TRUE]
  /\ UNCHANGED <<clock, phase, lag, txVars, quiet_until, write_queue, discVars,
                 pollVars, linkVars, busVars, rx_buf, ha_writes>>

(* What the controller does with a command, and the bit its answer holds. *)
Obeyed(req) ==
  IF req.kind = "write" /\ req.attr = "control"
  THEN [scheduled EXCEPT ![req.idx] = FALSE] ELSE scheduled
AnswerBit(req) ==
  \/ req.kind = "probe" /\ req.slot \in Present
  \/ /\ req.kind = "poll" /\ PollList[req.item].control
     /\ scheduled[PollList[req.item].idx]

Answer(status) ==
  /\ wire # <<>>
  /\ LET cmd == Head(wire)
     IN  /\ uart' = Append(uart, [current |-> cmd.current, status |-> status,
                                  bit |-> AnswerBit(cmd.req)])
         /\ scheduled' = IF status = "ok" THEN Obeyed(cmd.req) ELSE scheduled
  /\ wire' = Tail(wire)
  /\ UNCHANGED <<clock, phase, lag, txVars, quiet_until, write_queue, discVars,
                 pollVars, linkVars, rx_buf, ha_writes>>

(* The command never arrives, or its answer does not. *)
Lose ==
  /\ Lossy /\ wire # <<>>
  /\ wire' = Tail(wire)
  /\ scheduled' \in {scheduled, Obeyed(Head(wire).req)}
  /\ UNCHANGED <<clock, phase, lag, txVars, quiet_until, write_queue, discVars,
                 pollVars, linkVars, uart, rx_buf, ha_writes>>

AnswerAny == \E status \in Statuses : Answer(status)

Next ==
  \/ LoopStep
  \/ Tick
  \/ \E r \in Rooms : HaWrite(r) \/ StartSchedule(r)
  \/ AnswerAny
  \/ Lose

Spec == Init /\ [][Next]_vars

(* ESPHome keeps calling loop(), time passes, and the controller answers.  *)
FairSpec == Spec /\ WF_vars(LoopStep) /\ WF_vars(Tick) /\ WF_vars(AnswerAny)

-----------------------------------------------------------------------------
(* Properties.                                                             *)

ClockTyped ==
  /\ clock \in 0..(ClockMod - 1) /\ lag \in 0..MaxLoop
  /\ phase \in {"drain", "frames", "timeout", "link", "send"}
TxTyped ==
  /\ state \in {"IDLE", "WAITING"} /\ in_flight \in Requests \cup {NoRequest}
  /\ tx_time \in 0..(ClockMod - 1) /\ quiet_until \in 0..(ClockMod - 1)
DiscTyped ==
  /\ discovery \in Seq(Slots) /\ inventory \in Seq(Slots)
  /\ disc_idx \in 0..Len(discovery) /\ disc_active \in BOOLEAN
PollTyped ==
  /\ last_ms \in [DOMAIN PollList -> 0..(ClockMod - 1)]
  /\ poll_idx \in Nat /\ (PollList # <<>> => poll_idx < Len(PollList))
LinkTyped ==
  /\ got_reply \in BOOLEAN /\ last_reply \in 0..(ClockMod - 1)
  /\ link \in [published : BOOLEAN, connected : BOOLEAN]
BusTyped == wire \in Seq(Commands) /\ uart \in Seq(Replies) /\ rx_buf \in Seq(Replies)
EnvTyped == scheduled \in [Rooms -> BOOLEAN] /\ ha_writes \in 0..MaxHaWrites

TypeOK ==
  /\ ClockTyped /\ TxTyped /\ write_queue \in Seq(Writes) /\ DiscTyped
  /\ PollTyped /\ LinkTyped /\ BusTyped /\ EnvTyped

(* The reply about to be paired with the request in flight answers that    *)
(* request, and not one the hub gave up on earlier: no reading of one room *)
(* is ever taken for a reading of another (handle_frame_, loop()'s hold).  *)
ReplyMatched ==
  phase = "frames" /\ state = "WAITING" /\ rx_buf # <<>> => Head(rx_buf).current

(* The inventory that dump_config() and print_yaml() replay lists only     *)
(* what is there, each slot once, a room only after its controller, and    *)
(* rooms are probed only under a controller that was found.                *)
InventorySound ==
  /\ \A i, j \in DOMAIN inventory : inventory[i] = inventory[j] => i = j
  /\ \A i \in DOMAIN inventory :
       /\ inventory[i] \in Present
       /\ inventory[i][2] # 0 =>
            \E j \in 1..(i - 1) : inventory[j] = <<inventory[i][1], 0>>
  /\ \A i \in DOMAIN discovery : discovery[i][2] # 0 =>
       \E j \in DOMAIN inventory : inventory[j] = <<discovery[i][1], 0>>

(* However long a room keeps its schedule and its writes are lost or       *)
(* refused, at most one write to reset it waits: write_queue_ has no limit *)
(* and drops no duplicate, but a poll waits for it to empty                *)
(* (dispatch_read_reply_, maybe_send_next_).                               *)
ResetsDoNotPile ==
  Cardinality({i \in DOMAIN write_queue : write_queue[i].attr = "control"}) <= 1

(* When no command is lost or refused, the probe that ends has found every *)
(* room of every controller there, the last one included.                  *)
InventoryComplete ==
  ~disc_active => \A s \in Present : <<s[1], 0>> \in Present =>
                     \E i \in DOMAIN inventory : inventory[i] = s

(* Most time from one send to the next: a request, given up on by the loop *)
(* after the one that still waits, and its hold.  The hold may start again *)
(* once, before it ends, and the loop notices its end a pass late.         *)
TimeoutTime == ReplyTimeout + 2 * MaxLoop
HoldTime == 2 * (ReplyTimeout + MaxLoop - 1)
TurnTime == TimeoutTime + HoldTime

(* Round robin: an item waits past its interval for at most one            *)
(* transaction of every item, one write for each item that may find a      *)
(* schedule to reset, and the probes and writes of Home Assistant, with    *)
(* their timeouts and holds (maybe_send_next_ starts each scan after the   *)
(* item sent last).                                                        *)
Turns == Len(PollList) + Cardinality({i \in DOMAIN PollList : PollList[i].control})
PollsStayFresh ==
  \A i \in DOMAIN PollList :
    clock - last_ms[i] <= PollList[i].interval
                          + TurnTime * (Turns + Len(discovery) + ha_writes)

(* A schedule started at the controller is eventually put back to manual   *)
(* (dispatch_read_reply_ queues the write on each slow poll until it is).  *)
SelfHeals == \A i \in DOMAIN PollList :
  PollList[i].control /\ Sendable(i) =>
    scheduled[PollList[i].idx] ~> ~scheduled[PollList[i].idx]

(* Every write handed to queue_write leaves, and the discovery probe ends. *)
WritesDrain == (write_queue # <<>>) ~> (write_queue = <<>>)
DiscoveryEnds == <>[](~disc_active)
=============================================================================
