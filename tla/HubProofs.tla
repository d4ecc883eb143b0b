------------------------------ MODULE HubProofs ------------------------------
(***************************************************************************)
(* The hub, for every poll list, topology, latency, timeout and length of  *)
(* the loop within the assumptions of Hub and HubLockstep, in three parts: *)
(* it is well typed, pairs every reply with its own request and implements *)
(* the bus; its inventory is sound, resets do not pile up and a reply cut  *)
(* short costs at most one reading; and it keeps time: how stale the link  *)
(* sensor may be, how long a hold lasts and how long a write waits.        *)
(***************************************************************************)
EXTENDS HubTimingInv, HubInvariants, HubNoise, HubBus, FiniteSetTheorems,
        SequenceTheorems, TLAPS

-----------------------------------------------------------------------------
(* Types, pairing and the bus.                                             *)

(* What the hub knows of the clock's arithmetic. *)
LEMMA LaterTyped == ASSUME NEW d \in Nat, TypeOK PROVE Later(d) \in 0..(ClockMod - 1)
  BY TimesAssumption DEF TypeOK, ClockTyped, Later

(* Every item of the poll list has the fields of a PollItem. *)
LEMMA PollItemTyped ==
  ASSUME NEW i \in DOMAIN PollList
  PROVE  /\ i \in 1..Len(PollList)
         /\ PollList[i] \in [idx : Rooms, control : BOOLEAN, interval : Nat, count : Nat]
         /\ PollList[i].idx \in Rooms
<1> DEFINE S == [idx : Rooms, control : BOOLEAN, interval : Nat, count : Nat]
<1>1. PollList \in Seq(S)
  BY PollListAssumption
<1>2. i \in 1..Len(PollList)
  BY <1>1, LenProperties
<1>3. PollList[i] \in S
  BY <1>1, <1>2, ElementOfSeq
<1> QED BY <1>2, <1>3

(* The kind of a request says which sort it is. *)
LEMMA KindOfRequest ==
  ASSUME NEW req \in Requests \cup {NoRequest}
  PROVE  /\ req.kind = "poll" => req \in {PollReq(i) : i \in DOMAIN PollList}
         /\ req.kind = "probe" => req \in {ProbeReq(s) : s \in Slots}
         /\ req.kind = "write" => req \in Writes
<1>1. req \in Writes => req.kind = "write"
  BY DEF Writes, WriteReq
<1>2. req \in {PollReq(i) : i \in DOMAIN PollList} => req.kind = "poll"
  BY DEF PollReq
<1>3. req \in {ProbeReq(s) : s \in Slots} => req.kind = "probe"
  BY DEF ProbeReq
<1>4. req = NoRequest => req.kind = "none"
  BY DEF NoRequest
<1> QED BY <1>1, <1>2, <1>3, <1>4 DEF Requests

(* Sending any request leaves the transaction and the bus well typed. *)
LEMMA TransmitTyped ==
  ASSUME TypeOK, NEW req \in Requests, Transmit(req)
  PROVE  /\ state' \in {"IDLE", "WAITING"} /\ in_flight' \in Requests \cup {NoRequest}
         /\ tx_time' \in 0..(ClockMod - 1)
         /\ wire' \in Seq(Commands) /\ uart' \in Seq(Replies)
<1>1. Superseded(wire) \in Seq(Commands)
  <2>1. DOMAIN wire = 1..Len(wire) /\ Len(wire) \in Nat
        /\ \A i \in 1..Len(wire) : wire[i] \in Commands
    BY LenProperties, ElementOfSeq DEF TypeOK, BusTyped
  <2>2. \A i \in DOMAIN wire : [wire[i] EXCEPT !.current = FALSE] \in Commands
    BY <2>1 DEF Commands
  <2>3. Superseded(wire) \in [1..Len(wire) -> Commands]
    BY <2>1, <2>2 DEF Superseded
  <2> QED BY <2>1, <2>3, SeqDef
<1>2. Superseded(uart) \in Seq(Replies)
  <2>1. DOMAIN uart = 1..Len(uart) /\ Len(uart) \in Nat
        /\ \A i \in 1..Len(uart) : uart[i] \in Replies
    BY LenProperties, ElementOfSeq DEF TypeOK, BusTyped
  <2>2. \A i \in DOMAIN uart : [uart[i] EXCEPT !.current = FALSE] \in Replies
    BY <2>1 DEF Replies
  <2>3. Superseded(uart) \in [1..Len(uart) -> Replies]
    BY <2>1, <2>2 DEF Superseded
  <2> QED BY <2>1, <2>3, SeqDef
<1>3. [req |-> req, current |-> TRUE, ttl |-> MaxLatency] \in Commands
  BY TimesAssumption DEF Commands
<1>4. wire' \in Seq(Commands) /\ uart' \in Seq(Replies)
  BY <1>1, <1>2, <1>3 DEF Transmit
<1>5. tx_time' \in 0..(ClockMod - 1)
  BY DEF Transmit, TypeOK, ClockTyped
<1> QED BY <1>4, <1>5 DEF Transmit

LEMMA InitTyped == Init => TypeOK
<1> SUFFICES ASSUME Init PROVE TypeOK
  OBVIOUS
<1>1. ClockTyped
  BY TimesAssumption DEF Init, ClockTyped
<1>6. 0 \in 0..(ClockMod - 1)
  BY TimesAssumption
<1>7. TxTyped /\ LinkTyped
  BY <1>6 DEF Init, TxTyped, LinkTyped
<1>2. write_queue \in Seq(Writes) /\ BusTyped
  BY DEF Init, BusTyped
<1>3. DiscTyped
  BY TopologyAssumption DEF Init, Slots, DiscTyped
<1>4. PollTyped
  BY TimesAssumption, PollListAssumption DEF Init, PollTyped
<1>5. EnvTyped
  BY EnvironmentAssumption DEF Init, EnvTyped
<1> QED BY <1>1, <1>2, <1>3, <1>4, <1>5, <1>7 DEF TypeOK

(* A reset is a write to a configured room. *)
LEMMA HealsTyped == ASSUME TypeOK, NEW rep PROVE HealWrites(rep) \in Seq(Writes)
<1>1. CASE in_flight.kind = "poll"
  <2>1. in_flight \in {PollReq(i) : i \in DOMAIN PollList}
    BY <1>1, KindOfRequest DEF TypeOK, TxTyped
  <2>2. in_flight.item \in DOMAIN PollList
    BY <2>1 DEF PollReq
  <2>3. PollList[in_flight.item].idx \in Rooms
    BY <2>2, PollItemTyped
  <2>4. WriteReq(PollList[in_flight.item].idx, "control") \in Writes
    BY <2>3 DEF Writes
  <2> QED BY <2>4 DEF HealWrites
<1>2. CASE in_flight.kind # "poll"
  BY <1>2 DEF HealWrites
<1> QED BY <1>1, <1>2

LEMMA AcceptReplyTyped == TypeOK /\ AcceptReply => TypeOK'
<1> SUFFICES ASSUME TypeOK, AcceptReply PROVE TypeOK'
  OBVIOUS
<1> DEFINE rep == Head(rx_buf)
<1>1. rep \in Replies /\ Tail(rx_buf) \in Seq(Replies)
  BY HeadTailProperties DEF TypeOK, BusTyped, AcceptReply
<1>2. HealWrites(rep) \in Seq(Writes)
  BY HealsTyped
<1>3. write_queue' \in Seq(Writes)
  BY <1>2, ConcatProperties DEF AcceptReply, TypeOK
<1>4. DiscTyped'
  <2>1. FoundSlot(rep) => in_flight.slot \in Slots
    BY KindOfRequest DEF FoundSlot, TypeOK, TxTyped, ProbeReq
  <2>2. Record(rep) \in Seq(Slots)
    BY <2>1 DEF Record, TypeOK, DiscTyped
  <2>3. FoundSlot(rep) => RoomProbes(in_flight.slot[1]) \in Seq(Slots)
    <3>1. ASSUME NEW c \in 1..NControllers
          PROVE  RoomProbes(c) \in [1..SlotsPerController -> Slots]
      <4>1. \A s \in 1..SlotsPerController : <<c, s>> \in Slots
        BY TopologyAssumption DEF Slots
      <4> QED BY <4>1 DEF RoomProbes
    <3>2. ASSUME NEW c \in 1..NControllers PROVE RoomProbes(c) \in Seq(Slots)
      BY <3>1, TopologyAssumption, SeqDef
    <3> QED BY <2>1, <3>2 DEF Slots
  <2>4. Expand(rep) \in Seq(Slots) /\ Len(Expand(rep)) >= Len(discovery)
    <3>1. CASE FoundSlot(rep) /\ in_flight.slot[2] = 0
      <4>1. Expand(rep) = discovery \o RoomProbes(in_flight.slot[1])
        BY <3>1 DEF Expand
      <4>2. RoomProbes(in_flight.slot[1]) \in Seq(Slots) /\ discovery \in Seq(Slots)
        BY <3>1, <2>3 DEF TypeOK, DiscTyped
      <4>3. /\ Expand(rep) \in Seq(Slots)
            /\ Len(Expand(rep)) = Len(discovery) + Len(RoomProbes(in_flight.slot[1]))
        BY <4>1, <4>2, ConcatProperties
      <4>4. Len(discovery) \in Nat /\ Len(RoomProbes(in_flight.slot[1])) \in Nat
        BY <4>2, LenProperties
      <4> QED BY <4>3, <4>4
    <3>2. CASE ~(FoundSlot(rep) /\ in_flight.slot[2] = 0)
      BY <3>2, LenProperties DEF Expand, TypeOK, DiscTyped
    <3> QED BY <3>1, <3>2
  <2>5. disc_idx' \in 0..Len(discovery') /\ disc_active' \in BOOLEAN
    BY <2>4, LenProperties DEF AcceptReply, TypeOK, DiscTyped
  <2> QED BY <2>2, <2>4, <2>5 DEF AcceptReply, DiscTyped
<1>5. ClockTyped' /\ TxTyped' /\ PollTyped' /\ LinkTyped'
  BY DEF AcceptReply, FinishTransaction, TypeOK, ClockTyped, TxTyped, PollTyped,
         LinkTyped, pollVars, NoRequest
<1>6. BusTyped' /\ EnvTyped'
  BY <1>1 DEF AcceptReply, TypeOK, BusTyped, EnvTyped, busVars, envVars
<1> QED BY <1>3, <1>4, <1>5, <1>6 DEF TypeOK

LEMMA SendTyped ==
  TypeOK /\ (SendWrite \/ SendProbe \/ SendPoll \/ NothingDue) => TypeOK'
<1> SUFFICES ASSUME TypeOK, SendWrite \/ SendProbe \/ SendPoll \/ NothingDue
             PROVE  TypeOK'
  OBVIOUS
<1>1. ClockTyped' /\ LinkTyped' /\ EnvTyped' /\ rx_buf' \in Seq(Replies)
  <2>1. /\ phase' = "drain" /\ UNCHANGED <<clock, lag, rx_buf>>
        /\ UNCHANGED <<linkVars, envVars>>
    BY DEF SendWrite, SendProbe, SendPoll, NothingDue, EndLoop
  <2>2. ClockTyped' /\ rx_buf' \in Seq(Replies)
    BY <2>1 DEF TypeOK, ClockTyped, BusTyped
  <2> QED BY <2>1, <2>2 DEF TypeOK, LinkTyped, EnvTyped, linkVars, envVars
<1>2. quiet_until' \in 0..(ClockMod - 1)
  BY TimesAssumption DEF SendWrite, SendProbe, SendPoll, NothingDue, EndLoop
<1>3. (\E req \in Requests : Transmit(req)) \/ UNCHANGED <<txVars, busVars>>
      => TxTyped' /\ BusTyped'
  <2>1. ASSUME NEW req \in Requests, Transmit(req) PROVE TxTyped' /\ BusTyped'
    BY <1>1, <1>2, <2>1, TransmitTyped DEF TxTyped, BusTyped
  <2>2. ASSUME UNCHANGED <<txVars, busVars>> PROVE TxTyped' /\ BusTyped'
    BY <1>1, <1>2, <2>2 DEF TypeOK, TxTyped, BusTyped, txVars, busVars
  <2> QED BY <2>1, <2>2
<1>4. CASE SendWrite
  <2>1. Head(write_queue) \in Writes /\ Tail(write_queue) \in Seq(Writes)
    BY <1>4, HeadTailProperties DEF SendWrite, TypeOK
  <2>2. TxTyped' /\ BusTyped'
    BY <1>3, <1>4, <2>1 DEF SendWrite, Requests
  <2>3. DiscTyped' /\ PollTyped' /\ write_queue' \in Seq(Writes)
    BY <1>4, <2>1 DEF SendWrite, TypeOK, DiscTyped, PollTyped, discVars, pollVars
  <2> QED BY <1>1, <2>2, <2>3 DEF TypeOK
<1>5. CASE SendProbe
  <2>1. disc_idx + 1 \in 1..Len(discovery) /\ discovery \in Seq(Slots)
    BY <1>5, LenProperties DEF SendProbe, TypeOK, DiscTyped
  <2>2. discovery[disc_idx + 1] \in Slots
    BY <2>1, ElementOfSeq
  <2>3. TxTyped' /\ BusTyped'
    BY <1>3, <1>5, <2>2 DEF SendProbe, Requests
  <2>4. DiscTyped' /\ PollTyped' /\ write_queue' \in Seq(Writes)
    BY <1>5, <2>1 DEF SendProbe, TypeOK, DiscTyped, PollTyped, pollVars
  <2> QED BY <1>1, <2>3, <2>4 DEF TypeOK
<1>6. CASE SendPoll
  <2>1. PICK k \in 0..(Len(PollList) - 1) :
          /\ last_ms' = [last_ms EXCEPT ![RoundItem(k)] = clock]
          /\ poll_idx' = RoundItem(k) % Len(PollList)
          /\ Transmit(PollReq(RoundItem(k))) \/ UNCHANGED <<txVars, busVars>>
    BY <1>6 DEF SendPoll
  <2>2. Len(PollList) \in Nat /\ DOMAIN PollList = 1..Len(PollList)
    BY PollListAssumption, LenProperties
  <2>3. Len(PollList) > 0 /\ poll_idx + k \in Nat
    BY <2>1, <2>2 DEF TypeOK, PollTyped
  <2>4. RoundItem(k) \in DOMAIN PollList
    BY <2>2, <2>3 DEF RoundItem
  <2>5. RoundItem(k) % Len(PollList) \in 0..(Len(PollList) - 1)
    BY <2>2, <2>3, <2>4
  <2>6. PollTyped'
    BY <2>1, <2>2, <2>4, <2>5 DEF TypeOK, PollTyped, ClockTyped
  <2>7. TxTyped' /\ BusTyped'
    BY <1>3, <2>1, <2>4 DEF Requests
  <2>8. DiscTyped' /\ write_queue' \in Seq(Writes)
    BY <1>6 DEF SendPoll, TypeOK, DiscTyped
  <2> QED BY <1>1, <2>6, <2>7, <2>8 DEF TypeOK
<1>7. CASE NothingDue
  <2>1. TxTyped' /\ BusTyped'
    BY <1>3, <1>7 DEF NothingDue
  <2>2. DiscTyped' /\ PollTyped' /\ write_queue' \in Seq(Writes)
    BY <1>7 DEF NothingDue, TypeOK, DiscTyped, PollTyped, pollVars
  <2> QED BY <1>1, <2>1, <2>2 DEF TypeOK
<1> QED BY <1>4, <1>5, <1>6, <1>7

LEMMA LoopTyped == TypeOK /\ LoopStep => TypeOK'
<1> SUFFICES ASSUME TypeOK, LoopStep PROVE TypeOK'
  OBVIOUS
<1> USE DEF TypeOK, ClockTyped, TxTyped, DiscTyped, PollTyped, LinkTyped, BusTyped,
            EnvTyped, txVars, discVars, pollVars, linkVars, busVars, envVars
<1>1. HoldUntil \in 0..(ClockMod - 1)
  BY LaterTyped, TimesAssumption DEF HoldUntil
<1>2. CASE DrainUart
  <2>1. rx_buf \o uart \in Seq(Replies)
    BY ConcatProperties
  <2> QED BY <1>2, <2>1, TimesAssumption DEF DrainUart
<1>3. CASE DiscardReply
  <2>1. Tail(rx_buf) \in Seq(Replies)
    BY <1>3, HeadTailProperties DEF DiscardReply
  <2>2. quiet_until' \in 0..(ClockMod - 1)
    BY <1>1, <1>3 DEF DiscardReply
  <2> QED BY <1>3, <2>1, <2>2 DEF DiscardReply
<1>4. CASE FramesDone \/ NotExpired \/ SkipSend
  BY <1>4 DEF FramesDone, NotExpired, SkipSend
<1>5. CASE Expire
  BY <1>1, <1>5 DEF Expire, FinishTransaction
<1>6. CASE UpdateLink
  BY <1>6 DEF UpdateLink, Connected
<1> QED BY <1>2, <1>3, <1>4, <1>5, <1>6, AcceptReplyTyped, SendTyped DEF LoopStep

LEMMA TickTyped == TypeOK /\ Tick => TypeOK'
<1> SUFFICES ASSUME TypeOK, Tick PROVE TypeOK'
  OBVIOUS
<1>1. Later(1) \in 0..(ClockMod - 1)
  BY LaterTyped
<1>2. ClockTyped'
  BY <1>1, TimesAssumption DEF Tick, TypeOK, ClockTyped
<1>3. wire' \in Seq(Commands)
  <2>1. wire \in Seq(Commands)
    BY DEF TypeOK, BusTyped
  <2>2. DOMAIN wire = 1..Len(wire) /\ Len(wire) \in Nat
        /\ \A i \in DOMAIN wire : wire[i] \in Commands
    BY <2>1, LenProperties, ElementOfSeq
  <2>3. ASSUME NEW i \in DOMAIN wire
        PROVE  [wire[i] EXCEPT !.ttl = @ - 1] \in Commands
    <3>1. wire[i] \in Commands /\ wire[i].ttl > 0
      BY <2>2 DEF Tick
    <3>2. wire[i].ttl - 1 \in 0..MaxLatency
      BY <3>1, TimesAssumption DEF Commands
    <3> QED BY <3>1, <3>2 DEF Commands
  <2>4. wire' \in [1..Len(wire) -> Commands]
    BY <2>2, <2>3 DEF Tick
  <2> QED BY <2>2, <2>4, SeqDef
<1> QED BY <1>2, <1>3 DEF Tick, TypeOK, TxTyped, DiscTyped, PollTyped, LinkTyped,
           BusTyped, EnvTyped, txVars, discVars, pollVars, linkVars, envVars

LEMMA WorldTyped ==
  ASSUME TypeOK,
         \/ Tick \/ AnswerAny \/ Lose
         \/ \E r \in Rooms : HaWrite(r) \/ StartSchedule(r)
  PROVE  TypeOK'
<1> USE DEF TypeOK, ClockTyped, TxTyped, DiscTyped, PollTyped, LinkTyped, BusTyped,
            EnvTyped, txVars, discVars, pollVars, linkVars, busVars, envVars
<1>1. CASE Tick
  BY <1>1, TickTyped
<1>2. Obeyed(Head(wire).req) \in [Rooms -> BOOLEAN]
  BY DEF Obeyed
<1>3. wire # <<>> => Head(wire) \in Commands /\ Tail(wire) \in Seq(Commands)
  BY HeadTailProperties
<1>4. ASSUME NEW status \in Statuses, Answer(status) PROVE TypeOK'
  <2> DEFINE rep == [current |-> Head(wire).current, status |-> status,
                     bit |-> AnswerBit(Head(wire).req)]
  <2>1. rep \in Replies
    <3>1. AnswerBit(Head(wire).req) \in BOOLEAN
      BY DEF AnswerBit
    <3> QED BY <1>3, <1>4, <3>1 DEF Answer, Commands, Replies
  <2>2. uart' \in Seq(Replies) /\ wire' \in Seq(Commands)
    BY <1>3, <1>4, <2>1 DEF Answer
  <2>3. scheduled' \in [Rooms -> BOOLEAN]
    BY <1>2, <1>4 DEF Answer
  <2> QED BY <1>4, <2>2, <2>3 DEF Answer
<1>5. CASE Lose
  <2>1. wire' \in Seq(Commands) /\ scheduled' \in [Rooms -> BOOLEAN]
    BY <1>2, <1>3, <1>5 DEF Lose
  <2> QED BY <1>5, <2>1 DEF Lose
<1>6. ASSUME NEW r \in Rooms, HaWrite(r) PROVE TypeOK'
  <2>1. WriteReq(r, "setpoint") \in Writes
    BY DEF Writes
  <2>2. write_queue' \in Seq(Writes) /\ ha_writes' \in 0..MaxHaWrites
    BY <1>6, <2>1, EnvironmentAssumption DEF HaWrite
  <2> QED BY <1>6, <2>2 DEF HaWrite
<1>7. ASSUME NEW r \in Rooms, StartSchedule(r) PROVE TypeOK'
  BY <1>7 DEF StartSchedule
<1> QED BY <1>1, <1>4, <1>5, <1>6, <1>7 DEF AnswerAny

(* Every variable of the hub keeps its type: no queue, index or timestamp  *)
(* leaves its range whatever the bus, Home Assistant and the clock do.     *)
THEOREM TypeCorrect == Spec => []TypeOK
<1>1. TypeOK /\ [Next]_vars => TypeOK'
  <2> SUFFICES ASSUME TypeOK, [Next]_vars PROVE TypeOK'
    OBVIOUS
  <2>1. CASE Next
    BY <2>1, LoopTyped, WorldTyped DEF Next
  <2>2. CASE UNCHANGED vars
    BY <2>2 DEF vars, TypeOK, ClockTyped, TxTyped, DiscTyped, PollTyped, LinkTyped,
                BusTyped, EnvTyped, txVars, discVars, pollVars, linkVars, busVars, envVars
  <2> QED BY <2>1, <2>2
<1> QED BY InitTyped, <1>1, PTL DEF Spec

-----------------------------------------------------------------------------
(* While the clock does not wrap, its arithmetic is that of the integers.  *)
LEMMA SmallMod ==
  ASSUME NEW m \in Nat, m > 0, NEW x \in 0..(m - 1)
  PROVE  x % m = x
  OBVIOUS

LEMMA ClockArithmetic ==
  ASSUME TypeOK, ClockInOrder
  PROVE  /\ HoldUntil = clock + ReplyTimeout
         /\ Since(tx_time) = clock - tx_time
         /\ clock < Horizon => Later(1) = clock + 1
<1>1. /\ clock \in Nat /\ tx_time \in Nat /\ ReplyTimeout \in Nat \ {0} /\ Horizon \in Nat
      /\ ClockMod \in Nat /\ ClockMod > 0
      /\ tx_time <= clock /\ clock <= Horizon /\ Horizon + ReplyTimeout < ClockMod
  BY TimesAssumption, NoWrapAssumption DEF TypeOK, ClockTyped, TxTyped, ClockInOrder
<1>2. /\ clock + ReplyTimeout \in 0..(ClockMod - 1) /\ clock - tx_time \in 0..(ClockMod - 1)
      /\ clock + 1 \in 0..(ClockMod - 1)
  BY <1>1
<1>3. /\ (clock + ReplyTimeout) % ClockMod = clock + ReplyTimeout
      /\ (clock - tx_time) % ClockMod = clock - tx_time
      /\ (clock + 1) % ClockMod = clock + 1
  BY <1>1, <1>2, SmallMod
<1> QED BY <1>3 DEF HoldUntil, Later, Since

(* Whenever the hub may send, nothing is on its way any more. *)
LEMMA BusQuiet ==
  ASSUME TypeOK, WireInv, MaySend
  PROVE  wire = <<>> /\ uart = <<>> /\ rx_buf = <<>>
<1>1. rx_buf = <<>>
  BY DEF WireInv, FramesHandled, MaySend
<1>2. /\ clock \in Nat /\ tx_time \in Nat /\ quiet_until \in Nat /\ lag \in 0..MaxLoop
      /\ MaxLoop \in Nat /\ MaxLatency \in Nat /\ ReplyTimeout \in Nat
      /\ MaxLatency + MaxLoop <= 2 * ReplyTimeout
  BY TimesAssumption, LatencyAssumption DEF TypeOK, ClockTyped, TxTyped
<1>3. ASSUME wire # <<>> \/ uart # <<>> PROVE clock >= tx_time + 2 * ReplyTimeout + 1
  <2>1. quiet_until >= tx_time + 2 * ReplyTimeout + 1
    BY <1>3 DEF WireInv, HoldCoversReply, MaySend
  <2> QED BY <1>2, <2>1 DEF MaySend, Holding, InHold
<1>4. uart = <<>>
  <2> SUFFICES ASSUME uart # <<>> PROVE FALSE
    OBVIOUS
  <2>1. clock <= tx_time + MaxLatency + lag
    BY DEF WireInv, ReplyAge, MaySend
  <2> QED BY <1>2, <1>3, <2>1
<1>5. wire = <<>>
  <2> SUFFICES ASSUME wire # <<>> PROVE FALSE
    OBVIOUS
  <2>1. 1 \in DOMAIN wire /\ wire[1] \in Commands
    BY EmptySeq, LenProperties, ElementOfSeq DEF TypeOK, BusTyped
  <2>2. clock <= tx_time + MaxLatency - wire[1].ttl /\ wire[1].ttl \in Nat
    BY <2>1 DEF WireInv, CommandAge, Commands
  <2> QED BY <1>2, <1>3, <2>2
<1> QED BY <1>1, <1>4, <1>5

(* Lengths and domains of the three channels. *)
LEMMA BusLengths ==
  ASSUME TypeOK
  PROVE  /\ Len(wire) \in Nat /\ Len(uart) \in Nat /\ Len(rx_buf) \in Nat
         /\ DOMAIN wire = 1..Len(wire) /\ DOMAIN uart = 1..Len(uart)
         /\ DOMAIN rx_buf = 1..Len(rx_buf)
         /\ wire = <<>> <=> Len(wire) = 0
         /\ uart = <<>> <=> Len(uart) = 0
         /\ rx_buf = <<>> <=> Len(rx_buf) = 0
         /\ \A i \in DOMAIN wire : wire[i] \in Commands
  BY EmptySeq, LenProperties, ElementOfSeq DEF TypeOK, BusTyped

LEMMA AppendToEmpty == ASSUME NEW e PROVE Append(<<>>, e) = <<e>>
<1>1. <<>> \in Seq({e}) /\ Len(<<>>) = 0
  BY EmptySeq
<1>2. Append(<<>>, e) \in Seq({e}) /\ <<e>> \in Seq({e})
  BY <1>1
<1>3. Len(Append(<<>>, e)) = 1 /\ Len(<<e>>) = 1
  BY <1>1
<1>4. Append(<<>>, e)[1] = e /\ <<e>>[1] = e
  BY <1>1
<1> QED BY <1>2, <1>3, <1>4, SeqEqual

LEMMA SupersededEmpty == Superseded(<<>>) = <<>>
<1>1. DOMAIN Superseded(<<>>) = {} /\ Superseded(<<>>) \in [1..0 -> {}]
  BY DEF Superseded
<1>2. Superseded(<<>>) \in Seq({})
  BY <1>1, SeqDef
<1>3. Len(Superseded(<<>>)) = 0
  BY <1>1, <1>2, LenProperties
<1> QED BY <1>2, <1>3, EmptySeq

(* A step that leaves the channels alone may only move the loop on, keep   *)
(* the transaction, and wait for the next drain with nothing in rx_buf.    *)
LEMMA QuietStep ==
  ASSUME TypeOK, WireInv, UNCHANGED <<wire, uart, rx_buf, clock, lag, tx_time>>,
         quiet_until' <= clock + ReplyTimeout,
         phase' = phase \/ rx_buf = <<>>,
         phase = "drain" => phase' = "drain" \/ uart = <<>>,
         wire # <<>> \/ uart # <<>> =>
           state' # "IDLE" \/ quiet_until' >= tx_time + 2 * ReplyTimeout + 1
  PROVE  WireInv'
<1>1. ClockInOrder' /\ OneOnWire' /\ WireCurrent' /\ CommandAge'
  BY DEF WireInv, ClockInOrder, OneOnWire, WireCurrent, CommandAge
<1>2. ReplyAge' /\ FramesHandled' /\ HoldCoversReply'
  BY DEF WireInv, ReplyAge, FramesHandled, HoldCoversReply
<1> QED BY <1>1, <1>2 DEF WireInv

LEMMA WireInit == Init => WireInv
<1> SUFFICES ASSUME Init PROVE WireInv
  OBVIOUS
<1>1. ClockInOrder
  BY TimesAssumption DEF Init, ClockInOrder
<1>2. OneOnWire /\ WireCurrent /\ CommandAge
  BY DEF Init, OneOnWire, WireCurrent, CommandAge
<1>3. ReplyAge /\ FramesHandled /\ HoldCoversReply
  BY DEF Init, ReplyAge, FramesHandled, HoldCoversReply
<1> QED BY <1>1, <1>2, <1>3 DEF WireInv

LEMMA WireDrain == TypeOK /\ WireInv /\ DrainUart => WireInv'
<1> SUFFICES ASSUME TypeOK, WireInv, DrainUart PROVE WireInv'
  OBVIOUS
<1>1. rx_buf = <<>>
  BY DEF WireInv, FramesHandled, DrainUart
<1>2. rx_buf' = uart /\ uart' = <<>> /\ wire' = wire
  BY <1>1, ConcatEmptySeq DEF DrainUart, TypeOK, BusTyped
<1>3. ClockInOrder' /\ CommandAge' /\ ReplyAge' /\ FramesHandled'
  BY <1>2 DEF DrainUart, WireInv, ClockInOrder, CommandAge, ReplyAge, FramesHandled,
              txVars
<1>4. OneOnWire'
  BY <1>1, <1>2, BusLengths, EmptySeq DEF WireInv, OneOnWire
<1>5. WireCurrent'
  BY <1>2 DEF WireInv, WireCurrent
<1>6. HoldCoversReply'
  BY <1>2 DEF DrainUart, WireInv, HoldCoversReply, txVars
<1> QED BY <1>3, <1>4, <1>5, <1>6 DEF WireInv

LEMMA WireReply ==
  TypeOK /\ WireInv /\ (DiscardReply \/ AcceptReply) => WireInv'
<1> SUFFICES ASSUME TypeOK, WireInv, DiscardReply \/ AcceptReply PROVE WireInv'
  OBVIOUS
<1>1. /\ rx_buf # <<>> /\ wire' = wire /\ uart' = uart /\ phase = "frames"
      /\ UNCHANGED <<clock, phase, lag, tx_time>>
  BY DEF DiscardReply, AcceptReply, FinishTransaction, busVars, txVars
<1>2. wire = <<>> /\ uart = <<>>
  BY <1>1 DEF WireInv, OneOnWire
<1>3. OneOnWire' /\ WireCurrent' /\ CommandAge' /\ ReplyAge' /\ FramesHandled'
      /\ HoldCoversReply'
  BY <1>1, <1>2, EmptySeq DEF OneOnWire, WireCurrent, CommandAge, ReplyAge, FramesHandled,
     HoldCoversReply
<1>4. quiet_until' <= clock + ReplyTimeout
  BY ClockArithmetic, TimesAssumption
     DEF DiscardReply, AcceptReply, WireInv, ClockInOrder, TypeOK, ClockTyped
<1>5. ClockInOrder'
  BY <1>1, <1>4 DEF WireInv, ClockInOrder
<1> QED BY <1>3, <1>5 DEF WireInv

LEMMA WireLoop ==
  TypeOK /\ WireInv /\ (FramesDone \/ Expire \/ NotExpired \/ UpdateLink \/ SkipSend)
  => WireInv'
<1> SUFFICES ASSUME TypeOK, WireInv,
                    FramesDone \/ Expire \/ NotExpired \/ UpdateLink \/ SkipSend
             PROVE  WireInv'
  OBVIOUS
<1>1. UNCHANGED <<wire, uart, rx_buf, clock, lag, tx_time>> /\ phase # "drain"
  BY DEF FramesDone, Expire, NotExpired, UpdateLink, SkipSend, FinishTransaction, txVars,
         busVars
<1>2. rx_buf = <<>>
  BY DEF FramesDone, Expire, NotExpired, UpdateLink, SkipSend, WireInv, FramesHandled
<1>3. /\ quiet_until' <= clock + ReplyTimeout
      /\ wire # <<>> \/ uart # <<>> =>
           state' # "IDLE" \/ quiet_until' >= tx_time + 2 * ReplyTimeout + 1
  <2>1. CASE Expire
    <3>1. quiet_until' = clock + ReplyTimeout /\ clock - tx_time > ReplyTimeout
      BY <2>1, ClockArithmetic DEF Expire, TimedOut, WireInv
    <3> QED BY <3>1, TimesAssumption DEF TypeOK, ClockTyped, TxTyped
  <2>2. CASE FramesDone \/ NotExpired \/ UpdateLink \/ SkipSend
    BY <2>2 DEF FramesDone, NotExpired, UpdateLink, SkipSend, txVars, WireInv,
                ClockInOrder, HoldCoversReply
  <2> QED BY <2>1, <2>2
<1> QED BY <1>1, <1>2, <1>3, QuietStep

LEMMA WireSend ==
  TypeOK /\ WireInv /\ (SendWrite \/ SendProbe \/ SendPoll \/ NothingDue)
  => WireInv'
<1> SUFFICES ASSUME TypeOK, WireInv, SendWrite \/ SendProbe \/ SendPoll \/ NothingDue
             PROVE  WireInv'
  OBVIOUS
<1>1. wire = <<>> /\ uart = <<>> /\ rx_buf = <<>>
  BY BusQuiet DEF SendWrite, SendProbe, SendPoll, NothingDue, MayPoll
<1>2. phase' = "drain" /\ quiet_until' = 0 /\ UNCHANGED <<clock, lag, rx_buf>>
  BY DEF SendWrite, SendProbe, SendPoll, NothingDue, EndLoop
<1>3. (\E req : Transmit(req)) \/ UNCHANGED <<txVars, busVars>>
  BY DEF SendWrite, SendProbe, SendPoll, NothingDue
<1>4. ASSUME NEW req, Transmit(req) PROVE WireInv'
  <2> DEFINE cmd == [req |-> req, current |-> TRUE, ttl |-> MaxLatency]
  <2>7. wire' = Append(Superseded(wire), cmd) /\ uart' = Superseded(uart)
        /\ state' = "WAITING" /\ tx_time' = clock
    BY <1>4 DEF Transmit
  <2>8. wire' = Append(<<>>, cmd) /\ uart' = <<>>
    BY <1>1, <2>7, SupersededEmpty
  <2>1. uart' = <<>> /\ state' = "WAITING" /\ tx_time' = clock /\ wire' = <<cmd>>
    BY <2>7, <2>8, AppendToEmpty
  <2>2. ClockInOrder'
    BY <1>2, <2>1, TimesAssumption DEF WireInv, ClockInOrder, TypeOK, ClockTyped
  <2>3. OneOnWire'
    <3>1. Len(wire') = 1 /\ Len(uart') = 0 /\ Len(rx_buf') = 0
      BY <1>1, <1>2, <2>1
    <3> QED BY <3>1 DEF OneOnWire
  <2>6. WireCurrent'
    BY <1>1, <1>2, <2>1 DEF WireCurrent
  <2>4. CommandAge'
    BY <1>2, <2>1, TimesAssumption DEF CommandAge, TypeOK, ClockTyped
  <2>5. ReplyAge' /\ FramesHandled' /\ HoldCoversReply'
    BY <1>1, <1>2, <2>1 DEF ReplyAge, FramesHandled, HoldCoversReply
  <2> QED BY <2>2, <2>3, <2>4, <2>5, <2>6 DEF WireInv
<1>5. ASSUME UNCHANGED <<txVars, busVars>> PROVE WireInv'
  <2>1. UNCHANGED <<wire, uart, rx_buf, clock, lag, tx_time>>
    BY <1>2, <1>5 DEF txVars, busVars
  <2>2. quiet_until' <= clock + ReplyTimeout
    BY <1>2, TimesAssumption DEF TypeOK, ClockTyped
  <2> QED BY <1>1, <1>2, <2>1, <2>2, QuietStep
<1> QED BY <1>3, <1>4, <1>5

LEMMA WireTick == TypeOK /\ WireInv /\ Tick => WireInv'
<1> SUFFICES ASSUME TypeOK, WireInv, Tick PROVE WireInv'
  OBVIOUS
<1>1. /\ clock \in Nat /\ lag \in Nat /\ Horizon \in Nat /\ tx_time \in Nat
      /\ quiet_until \in Nat /\ ReplyTimeout \in Nat /\ MaxLatency \in Nat
      /\ tx_time <= clock /\ clock <= Horizon /\ quiet_until <= clock + ReplyTimeout
  BY TimesAssumption DEF TypeOK, ClockTyped, TxTyped, WireInv, ClockInOrder
<1>2. clock' = clock + 1 /\ lag' = lag + 1 /\ clock < Horizon
  <2>1. clock < Horizon
    BY <1>1 DEF Tick
  <2> QED BY <2>1, ClockArithmetic DEF Tick, WireInv
<1>3. UNCHANGED <<phase, uart, rx_buf, state, tx_time, quiet_until>>
  BY DEF Tick, txVars
<1>4. /\ DOMAIN wire' = DOMAIN wire
      /\ \A i \in DOMAIN wire : /\ wire'[i].current = wire[i].current
                               /\ wire'[i].ttl = wire[i].ttl - 1
  BY BusLengths DEF Tick, Commands
<1>5. Len(wire') = Len(wire)
  BY <1>4, BusLengths DEF Tick
<1>6. ClockInOrder'
  BY <1>1, <1>2, <1>3 DEF ClockInOrder
<1>7. OneOnWire' /\ WireCurrent'
  BY <1>3, <1>4, <1>5 DEF WireInv, OneOnWire, WireCurrent
<1>8. CommandAge'
  <2> SUFFICES ASSUME NEW i \in DOMAIN wire
               PROVE  clock' <= tx_time + MaxLatency - wire'[i].ttl
    BY <1>3, <1>4 DEF CommandAge
  <2>1. clock <= tx_time + MaxLatency - wire[i].ttl /\ wire[i].ttl \in Nat
    BY BusLengths DEF WireInv, CommandAge, Commands
  <2> QED BY <1>1, <1>2, <1>4, <2>1
<1>9. ReplyAge' /\ FramesHandled'
  BY <1>1, <1>2, <1>3 DEF WireInv, ReplyAge, FramesHandled
<1>10. HoldCoversReply'
  <2>1. wire' # <<>> => wire # <<>>
    BY <1>5, BusLengths, EmptySeq DEF Tick
  <2> QED BY <1>3, <2>1 DEF WireInv, HoldCoversReply
<1> QED BY <1>6, <1>7, <1>8, <1>9, <1>10 DEF WireInv

LEMMA WireController ==
  TypeOK /\ WireInv /\ (AnswerAny \/ Lose) => WireInv'
<1> SUFFICES ASSUME TypeOK, WireInv, AnswerAny \/ Lose PROVE WireInv'
  OBVIOUS
<1>1. wire # <<>> /\ wire' = Tail(wire)
  BY DEF AnswerAny, Answer, Lose
<1>2. UNCHANGED <<clock, phase, lag, state, tx_time, quiet_until, rx_buf>>
  BY DEF AnswerAny, Answer, Lose, txVars
<1>3. wire' = <<>> /\ uart = <<>> /\ rx_buf = <<>>
  <2>1. Len(wire) = 1 /\ Len(uart) = 0 /\ Len(rx_buf) = 0
    BY <1>1, BusLengths DEF WireInv, OneOnWire
  <2>2. Len(Tail(wire)) = 0 /\ Tail(wire) \in Seq(Commands)
    BY <1>1, <2>1, HeadTailProperties DEF TypeOK, BusTyped
  <2> QED BY <1>1, <2>1, <2>2, BusLengths, EmptySeq
<1>4. ClockInOrder' /\ CommandAge' /\ FramesHandled' /\ HoldCoversReply'
  BY <1>1, <1>2, <1>3
     DEF WireInv, ClockInOrder, CommandAge, FramesHandled, HoldCoversReply
<1>5. CASE Lose
  <2>1. uart' = <<>>
    BY <1>3, <1>5 DEF Lose
  <2>2. OneOnWire' /\ WireCurrent' /\ ReplyAge'
    BY <1>2, <1>3, <2>1, EmptySeq DEF OneOnWire, WireCurrent, ReplyAge
  <2> QED BY <1>4, <2>2 DEF WireInv
<1>6. CASE AnswerAny
  <2>1. PICK rep : uart' = <<rep>> /\ rep.current = wire[1].current
    BY <1>1, <1>3, <1>6 DEF AnswerAny, Answer
  <2>2. 1 \in DOMAIN wire
    BY <1>1, BusLengths
  <2>3. WireCurrent'
    BY <1>2, <1>3, <2>1, <2>2 DEF WireInv, WireCurrent
  <2>4. OneOnWire'
    <3>1. Len(uart') = 1 /\ Len(wire') = 0 /\ Len(rx_buf') = 0
      BY <1>2, <1>3, <2>1, EmptySeq
    <3> QED BY <3>1 DEF OneOnWire
  <2>5. ReplyAge'
    <3>1. clock <= tx_time + MaxLatency - wire[1].ttl /\ wire[1].ttl \in Nat
      BY <2>2, BusLengths DEF WireInv, CommandAge, Commands
    <3> QED BY <1>2, <3>1, TimesAssumption DEF ReplyAge, TypeOK, ClockTyped, TxTyped
  <2> QED BY <1>4, <2>3, <2>4, <2>5 DEF WireInv
<1> QED BY <1>5, <1>6

LEMMA WireOutside ==
  ASSUME TypeOK, WireInv,
         (\E r \in Rooms : HaWrite(r) \/ StartSchedule(r)) \/ UNCHANGED vars
  PROVE  WireInv'
<1>1. UNCHANGED <<wire, uart, rx_buf, clock, lag, tx_time, phase, state, quiet_until>>
  BY DEF HaWrite, StartSchedule, vars, txVars, busVars
<1> QED BY <1>1 DEF WireInv, ClockInOrder, OneOnWire, WireCurrent,
                    CommandAge, ReplyAge, FramesHandled, HoldCoversReply

LEMMA WireStep == TypeOK /\ WireInv /\ [Next]_vars => WireInv'
  BY WireDrain, WireReply, WireLoop, WireSend, WireTick, WireController, WireOutside
     DEF Next, LoopStep

-----------------------------------------------------------------------------
(* Over a line that delivers whole replies rx_buf_ keeps step with it.     *)

LEMMA OneOutstanding ==
  ASSUME TypeOK, LockstepInv PROVE Len(wire) + Len(uart) + Len(rx_buf) <= 1
  BY BusLengths DEF LockstepInv, WireInv, RxInStep, OneOnWire

LEMMA LockstepInit == Init => LockstepInv
  BY WireInit DEF Init, LockstepInv, RxInStep

LEMMA RxStep == TypeOK /\ LockstepInv /\ [Next]_vars => RxInStep'
<1> SUFFICES ASSUME TypeOK, LockstepInv, [Next]_vars PROVE RxInStep'
  OBVIOUS
<1>1. CASE DrainUart
  <2>1. rx_buf' = uart
    BY <1>1, ConcatEmptySeq
       DEF DrainUart, TypeOK, BusTyped, LockstepInv, WireInv, FramesHandled
  <2> QED BY <2>1, BusLengths DEF LockstepInv, WireInv, OneOnWire, WireCurrent, RxInStep
<1>2. CASE DiscardReply \/ AcceptReply
  <2>1. rx_buf # <<>> /\ rx_buf' = Tail(rx_buf)
    BY <1>2 DEF DiscardReply, AcceptReply
  <2>2. Len(Tail(rx_buf)) = 0 /\ Tail(rx_buf) \in Seq(Replies)
    BY <2>1, BusLengths, HeadTailProperties DEF TypeOK, BusTyped, LockstepInv, RxInStep
  <2> QED BY <2>1, <2>2, EmptySeq DEF RxInStep
<1>3. CASE UNCHANGED rx_buf
  BY <1>3 DEF LockstepInv, RxInStep
<1>4. [Next]_vars => DrainUart \/ DiscardReply \/ AcceptReply \/ UNCHANGED rx_buf
  BY DEF Next, LoopStep, FramesDone, Expire, NotExpired, UpdateLink, SkipSend, SendWrite,
     SendProbe, SendPoll, NothingDue, EndLoop, Tick, HaWrite, StartSchedule, AnswerAny,
     Answer, Lose, vars
<1> QED BY <1>1, <1>2, <1>3, <1>4

(* The invariant behind the lockstep: at most one command or reply is on   *)
(* its way, it answers the last request sent, and if the hub has given up  *)
(* on it the hold lasts until it has been drained.                         *)
THEOREM LockstepInvariant == Spec => []LockstepInv
<1>1. TypeOK /\ LockstepInv /\ [Next]_vars => LockstepInv'
  BY WireStep, RxStep DEF LockstepInv
<1> QED BY LockstepInit, TypeCorrect, <1>1, PTL DEF Spec

(* No reply is ever paired with a request it does not answer: the promise  *)
(* of the hold after a timeout, for every latency within two timeouts.     *)
THEOREM RepliesMatched == Spec => []ReplyMatched
<1>1. TypeOK /\ LockstepInv => ReplyMatched
  <2> SUFFICES ASSUME TypeOK, LockstepInv, rx_buf # <<>> PROVE Head(rx_buf).current
    BY DEF ReplyMatched
  <2>1. 1 \in DOMAIN rx_buf /\ Head(rx_buf) = rx_buf[1]
    BY BusLengths DEF TypeOK, BusTyped
  <2> QED BY <2>1 DEF LockstepInv, RxInStep
<1> QED BY TypeCorrect, LockstepInvariant, <1>1, PTL

-----------------------------------------------------------------------------
(* The initial states of the hub map to those of the bus, and every step   *)
(* to a step of the bus or a stutter.                                      *)

LEMMA WaitsInit == Init => InFlightWaits
  BY DEF Init, InFlightWaits

LEMMA RequestIsSome == ASSUME NEW req \in Requests PROVE req # NoRequest
<1>1. req.kind \in {"write", "poll", "probe"}
  BY DEF Requests, Writes, WriteReq, PollReq, ProbeReq
<1> QED BY <1>1 DEF NoRequest

(* Every sending step sends a request of its own kind, or nothing. *)
LEMMA SentRequest ==
  ASSUME TypeOK
  PROVE  /\ SendWrite => Head(write_queue) \in Requests
         /\ SendProbe => /\ discovery[disc_idx + 1] \in Slots
                         /\ ProbeReq(discovery[disc_idx + 1]) \in Requests
         /\ \A k \in 0..(Len(PollList) - 1) :
              /\ RoundItem(k) \in DOMAIN PollList
              /\ PollReq(RoundItem(k)) \in Requests
<1>1. ASSUME SendWrite PROVE Head(write_queue) \in Requests
  BY <1>1, HeadTailProperties DEF SendWrite, TypeOK, Requests
<1>2. ASSUME SendProbe PROVE discovery[disc_idx + 1] \in Slots
  <2>1. disc_idx + 1 \in 1..Len(discovery) /\ discovery \in Seq(Slots)
    BY <1>2, LenProperties DEF SendProbe, TypeOK, DiscTyped
  <2> QED BY <2>1, ElementOfSeq
<1>3. ASSUME NEW k \in 0..(Len(PollList) - 1) PROVE RoundItem(k) \in DOMAIN PollList
  <2>1. Len(PollList) \in Nat /\ DOMAIN PollList = 1..Len(PollList)
    BY PollListAssumption, LenProperties
  <2>2. Len(PollList) > 0 /\ poll_idx + k \in Nat
    BY <2>1 DEF TypeOK, PollTyped
  <2> QED BY <2>1, <2>2 DEF RoundItem
<1> QED BY <1>1, <1>2, <1>3 DEF Requests

LEMMA WaitsStep == TypeOK /\ InFlightWaits /\ [Next]_vars => InFlightWaits'
<1> SUFFICES ASSUME TypeOK, InFlightWaits, [Next]_vars PROVE InFlightWaits'
  OBVIOUS
<1>1. ASSUME NEW req \in Requests, Transmit(req) PROVE InFlightWaits'
  BY <1>1, RequestIsSome DEF Transmit, InFlightWaits
<1>2. ASSUME FinishTransaction PROVE InFlightWaits'
  BY <1>2 DEF FinishTransaction, InFlightWaits
<1>3. ASSUME UNCHANGED txVars PROVE InFlightWaits'
  BY <1>3 DEF txVars, InFlightWaits
<1>4. CASE SendPoll
  <2>1. PICK k \in 0..(Len(PollList) - 1) :
          Transmit(PollReq(RoundItem(k))) \/ UNCHANGED txVars
    BY <1>4 DEF SendPoll
  <2> QED BY <1>1, <1>3, <2>1, SentRequest
<1>5. CASE SendWrite \/ SendProbe
  BY <1>1, <1>5, SentRequest DEF SendWrite, SendProbe
<1>6. CASE AcceptReply \/ Expire
  BY <1>2, <1>6 DEF AcceptReply, Expire
<1>7. CASE DrainUart \/ DiscardReply \/ FramesDone \/ NotExpired \/ UpdateLink
           \/ SkipSend \/ NothingDue
  BY <1>3, <1>7 DEF DrainUart, DiscardReply, FramesDone, NotExpired, UpdateLink,
     SkipSend, NothingDue
<1>8. CASE Tick \/ AnswerAny \/ Lose \/ \E r \in Rooms : HaWrite(r) \/ StartSchedule(r)
  BY <1>3, <1>8 DEF Tick, AnswerAny, Answer, Lose, HaWrite, StartSchedule
<1>9. CASE UNCHANGED vars
  BY <1>3, <1>9 DEF vars
<1> QED BY <1>4, <1>5, <1>6, <1>7, <1>8, <1>9 DEF Next, LoopStep

-----------------------------------------------------------------------------
(* What the three channels hold, seen as one.                              *)

LEMMA NothingOnLink == LinkOf(<<>>, <<>>, <<>>) = [stage |-> "silent"]
<1>1. <<>> \o <<>> = <<>>
  BY EmptySeq, ConcatEmptySeq
<1> QED BY <1>1 DEF LinkOf

LEMMA CommandOnLink ==
  ASSUME NEW w, NEW u, NEW b, w # <<>>
  PROVE  LinkOf(w, u, b) = [stage |-> "sent", req |-> Head(w).req]
  BY DEF LinkOf

LEMMA ReplyOnLink ==
  ASSUME NEW s \in Seq(Replies), s # <<>>
  PROVE  /\ LinkOf(<<>>, s, <<>>)
              = [stage |-> "came", status |-> Head(s).status, bit |-> Head(s).bit]
         /\ LinkOf(<<>>, <<>>, s) = LinkOf(<<>>, s, <<>>)
<1>1. <<>> \o s = s /\ s \o <<>> = s
  BY ConcatEmptySeq
<1> QED BY <1>1 DEF LinkOf

(* What waits in one channel is alone on the bus. *)
LEMMA Alone ==
  ASSUME TypeOK, LockstepInv
  PROVE  /\ wire # <<>> => uart = <<>> /\ rx_buf = <<>> /\ Tail(wire) = <<>>
         /\ uart # <<>> => wire = <<>> /\ rx_buf = <<>>
         /\ rx_buf # <<>> => wire = <<>> /\ uart = <<>> /\ Tail(rx_buf) = <<>>
<1>1. Len(wire) + Len(uart) + Len(rx_buf) <= 1
  BY OneOutstanding
<1>2. ASSUME wire # <<>> PROVE Tail(wire) = <<>>
  <2>1. Len(wire) = 1
    BY <1>1, <1>2, BusLengths
  <2>2. Len(Tail(wire)) = 0 /\ Tail(wire) \in Seq(Commands)
    BY <1>2, <2>1, HeadTailProperties DEF TypeOK, BusTyped
  <2> QED BY <2>2, EmptySeq
<1>3. ASSUME rx_buf # <<>> PROVE Tail(rx_buf) = <<>>
  <2>1. Len(rx_buf) = 1
    BY <1>1, <1>3, BusLengths
  <2>2. Len(Tail(rx_buf)) = 0 /\ Tail(rx_buf) \in Seq(Replies)
    BY <1>3, <2>1, HeadTailProperties DEF TypeOK, BusTyped
  <2> QED BY <2>2, EmptySeq
<1> QED BY <1>1, <1>2, <1>3, BusLengths

-----------------------------------------------------------------------------
(* Each step of the hub is a step of the bus, or leaves it alone.          *)

LEMMA Stutters ==
  ASSUME UNCHANGED <<in_flight, BusLink, write_queue, inventory, scheduled>>
  PROVE  UNCHANGED B!busVars
  BY DEF B!busVars

LEMMA DrainStutters ==
  ASSUME TypeOK, LockstepInv, DrainUart PROVE UNCHANGED B!busVars
<1>1. rx_buf = <<>>
  BY DEF LockstepInv, WireInv, FramesHandled, DrainUart
<1>2. rx_buf' = uart /\ uart' = <<>> /\ wire' = wire
  BY <1>1, ConcatEmptySeq DEF DrainUart, TypeOK, BusTyped
<1>3. BusLink' = BusLink
  <2>1. CASE wire # <<>>
    BY <1>2, <2>1, CommandOnLink DEF BusLink
  <2>2. CASE wire = <<>> /\ uart # <<>>
    BY <1>1, <1>2, <2>2, ReplyOnLink DEF BusLink, TypeOK, BusTyped
  <2>3. CASE wire = <<>> /\ uart = <<>>
    BY <1>1, <1>2, <2>3 DEF BusLink
  <2> QED BY <2>1, <2>2, <2>3
<1> QED BY <1>3, Stutters DEF DrainUart, txVars, discVars, envVars

LEMMA DiscardDiscards ==
  ASSUME TypeOK, LockstepInv, InFlightWaits, DiscardReply PROVE B!Discard
<1>1. rx_buf # <<>> /\ rx_buf' = Tail(rx_buf) /\ wire' = wire /\ uart' = uart
  BY DEF DiscardReply, busVars
<1>2. wire = <<>> /\ uart = <<>> /\ rx_buf' = <<>>
  BY <1>1, Alone
<1>3. BusLink.stage = "came" /\ BusLink' = [stage |-> "silent"]
  <2>1. BusLink = [stage |-> "came", status |-> Head(rx_buf).status,
                   bit |-> Head(rx_buf).bit]
    BY <1>1, <1>2, ReplyOnLink DEF BusLink, TypeOK, BusTyped
  <2>2. BusLink' = [stage |-> "silent"]
    BY <1>1, <1>2, NothingOnLink DEF BusLink
  <2> QED BY <2>1, <2>2
<1>4. in_flight = NoRequest
  BY DEF DiscardReply, InFlightWaits, TypeOK, TxTyped
<1> QED BY <1>3, <1>4 DEF DiscardReply, B!Discard, B!Silent, txVars, discVars, envVars

LEMMA AcceptAccepts ==
  ASSUME TypeOK, LockstepInv, InFlightWaits, AcceptReply PROVE B!Accept
<1> DEFINE rep == Head(rx_buf)
<1>1. rx_buf # <<>> /\ rx_buf' = Tail(rx_buf) /\ wire' = wire /\ uart' = uart
  BY DEF AcceptReply, busVars
<1>2. wire = <<>> /\ uart = <<>> /\ rx_buf' = <<>>
  BY <1>1, Alone
<1>3. BusLink = [stage |-> "came", status |-> rep.status, bit |-> rep.bit]
      /\ BusLink' = [stage |-> "silent"]
  BY <1>1, <1>2, ReplyOnLink, NothingOnLink DEF BusLink, TypeOK, BusTyped
<1>4. in_flight # NoRequest /\ in_flight' = NoRequest
  BY DEF AcceptReply, FinishTransaction, InFlightWaits
<1>5. inventory' = IF (rep.status = "ok" /\ rep.bit) /\ in_flight.kind = "probe"
                   THEN Append(inventory, in_flight.slot) ELSE inventory
  BY DEF AcceptReply, Record, FoundSlot
<1>6. write_queue' = IF (rep.status = "ok" /\ rep.bit) /\ B!PollsControl(in_flight)
                     THEN Append(write_queue, B!Write(PollList[in_flight.item].idx, "control"))
                     ELSE write_queue
  <2>1. write_queue' = write_queue \o HealWrites(rep) /\ write_queue \in Seq(Writes)
    BY DEF AcceptReply, TypeOK
  <2>2. CASE (rep.status = "ok" /\ rep.bit) /\ B!PollsControl(in_flight)
    <3> DEFINE w == WriteReq(PollList[in_flight.item].idx, "control")
    <3>1. HealWrites(rep) = <<w>> /\ w = B!Write(PollList[in_flight.item].idx, "control")
      BY <2>2 DEF HealWrites, B!PollsControl, B!Write, WriteReq
    <3>2. write_queue \o <<w>> = Append(write_queue, w)
      <4>1. write_queue \in Seq(Writes \cup {w}) /\ w \in Writes \cup {w}
        BY <2>1
      <4> HIDE DEF w
      <4> QED BY <4>1, AppendIsConcat
    <3> QED BY <2>1, <2>2, <3>1, <3>2
  <2>3. CASE ~((rep.status = "ok" /\ rep.bit) /\ B!PollsControl(in_flight))
    <3>1. HealWrites(rep) = <<>>
      BY <2>3 DEF HealWrites, B!PollsControl
    <3> QED BY <2>1, <2>3, <3>1, ConcatEmptySeq
  <2> QED BY <2>2, <2>3
<1>7. scheduled' = scheduled
  BY DEF AcceptReply, envVars
<1> QED BY <1>3, <1>4, <1>5, <1>6, <1>7 DEF B!Accept, B!Silent

LEMMA ExpireGivesUp ==
  ASSUME InFlightWaits, Expire PROVE B!GiveUp
<1>1. in_flight # NoRequest /\ in_flight' = NoRequest
  BY DEF Expire, TimedOut, FinishTransaction, InFlightWaits
<1>2. UNCHANGED <<BusLink, write_queue, inventory, scheduled>>
  BY DEF Expire, BusLink, discVars, busVars, envVars
<1> QED BY <1>1, <1>2 DEF B!GiveUp

LEMMA TransmitIssues ==
  ASSUME TypeOK, LockstepInv, InFlightWaits, MaySend, EndLoop, NEW req, Transmit(req)
  PROVE  B!Issue(req)
<1> DEFINE cmd == [req |-> req, current |-> TRUE, ttl |-> MaxLatency]
<1>1. wire = <<>> /\ uart = <<>> /\ rx_buf = <<>> /\ rx_buf' = <<>>
  BY BusQuiet DEF EndLoop, LockstepInv
<1>2. wire' = Append(Superseded(wire), cmd) /\ uart' = Superseded(uart)
      /\ in_flight' = req
  BY DEF Transmit
<1>3. wire' = <<cmd>> /\ uart' = <<>>
  BY <1>1, <1>2, SupersededEmpty, AppendToEmpty
<1>4. wire' # <<>> /\ Head(wire').req = req
  BY <1>3
<1>5. BusLink' = [stage |-> "sent", req |-> req]
  BY <1>4, CommandOnLink DEF BusLink
<1>6. BusLink = [stage |-> "silent"] /\ in_flight = NoRequest
  BY <1>1, NothingOnLink DEF BusLink, MaySend, InFlightWaits
<1> QED BY <1>2, <1>5, <1>6 DEF B!Issue, B!Silent, B!Sent

LEMMA SendIssues ==
  ASSUME TypeOK, LockstepInv, InFlightWaits,
         SendWrite \/ SendProbe \/ SendPoll \/ NothingDue
  PROVE  B!Next \/ UNCHANGED B!busVars
<1>1. ASSUME UNCHANGED <<txVars, busVars>>, EndLoop,
             UNCHANGED <<write_queue, inventory, envVars>>
      PROVE  UNCHANGED B!busVars
  BY <1>1, Stutters DEF EndLoop, BusLink, txVars, busVars, envVars
<1>2. CASE SendWrite
  <2>1. B!Issue(Head(write_queue))
    BY <1>2, TransmitIssues DEF SendWrite
  <2>2. B!IssueWrite
    BY <1>2, <2>1 DEF SendWrite, B!IssueWrite, discVars, envVars
  <2> QED BY <2>2 DEF B!Next
<1>3. CASE SendProbe
  <2> DEFINE req == ProbeReq(discovery[disc_idx + 1])
  <2>1. B!Issue(req) /\ req \in Reads
    BY <1>3, TransmitIssues, SentRequest DEF SendProbe, Reads
  <2>2. B!IssueRead(req)
    BY <1>3, <2>1 DEF SendProbe, B!IssueRead, envVars
  <2> QED BY <2>1, <2>2 DEF B!Next
<1>4. CASE SendPoll
  <2>1. PICK k \in 0..(Len(PollList) - 1) :
          \/ Transmit(PollReq(RoundItem(k)))
          \/ UNCHANGED <<txVars, busVars>>
    BY <1>4 DEF SendPoll
  <2>2. CASE Transmit(PollReq(RoundItem(k)))
    <3> DEFINE req == PollReq(RoundItem(k))
    <3>1. B!Issue(req) /\ req \in Reads
      BY <1>4, <2>2, TransmitIssues, SentRequest DEF SendPoll, MayPoll, Reads
    <3>2. B!IssueRead(req)
      BY <1>4, <3>1 DEF SendPoll, MayPoll, B!IssueRead, envVars
    <3> QED BY <3>1, <3>2 DEF B!Next
  <2>3. CASE UNCHANGED <<txVars, busVars>>
    BY <1>1, <1>4, <2>3 DEF SendPoll
  <2> QED BY <2>1, <2>2, <2>3
<1>5. CASE NothingDue
  BY <1>1, <1>5 DEF NothingDue
<1> QED BY <1>2, <1>3, <1>4, <1>5

LEMMA TickStutters ==
  ASSUME TypeOK, Tick PROVE UNCHANGED B!busVars
<1>1. BusLink' = BusLink
  <2>1. CASE wire = <<>>
    <3>1. DOMAIN wire' = {} /\ wire' \in [1..0 -> {}]
      BY <2>1, BusLengths DEF Tick
    <3>2. wire' \in Seq({})
      BY <3>1, SeqDef
    <3>3. wire' = <<>>
      BY <3>1, <3>2, LenProperties, EmptySeq
    <3> QED BY <2>1, <3>3 DEF Tick, BusLink
  <2>2. CASE wire # <<>>
    <3>1. 1 \in DOMAIN wire /\ wire[1] \in Commands
      BY <2>2, BusLengths
    <3>2. 1 \in DOMAIN wire' /\ wire'[1].req = wire[1].req
      BY <3>1 DEF Tick, Commands
    <3>3. wire' # <<>> /\ Head(wire').req = Head(wire).req
      BY <3>2, EmptySeq
    <3> QED BY <2>2, <3>3, CommandOnLink DEF BusLink
  <2> QED BY <2>1, <2>2
<1> QED BY <1>1, Stutters DEF Tick, txVars, discVars, envVars

LEMMA ControllerServes ==
  ASSUME TypeOK, LockstepInv, AnswerAny \/ Lose PROVE B!Next
<1>1. wire # <<>> /\ wire' = Tail(wire) /\ rx_buf' = rx_buf
      /\ UNCHANGED <<in_flight, write_queue, inventory>>
  BY DEF AnswerAny, Answer, Lose, txVars, discVars
<1>2. wire' = <<>> /\ uart = <<>> /\ rx_buf' = <<>>
  BY <1>1, Alone
<1>3. BusLink = [stage |-> "sent", req |-> Head(wire).req]
  BY <1>1, CommandOnLink DEF BusLink
<1>4. CASE Lose
  <2>1. uart' = <<>> /\ BusLink' = [stage |-> "silent"]
    BY <1>2, <1>4, NothingOnLink DEF Lose, BusLink
  <2>2. scheduled' \in {scheduled, B!Obey(Head(wire).req)}
    BY <1>4 DEF Lose, Obeyed, B!Obey
  <2>3. B!Lost
    BY <1>1, <1>3, <2>1, <2>2 DEF B!Lost, B!Silent
  <2> QED BY <2>3 DEF B!Next
<1>5. ASSUME NEW status \in Statuses, Answer(status) PROVE B!Next
  <2> DEFINE req == Head(wire).req
             rep == [current |-> Head(wire).current, status |-> status,
                     bit |-> AnswerBit(req)]
  <2>1. rep \in Replies
    <3>1. AnswerBit(req) \in BOOLEAN
      BY DEF AnswerBit
    <3>2. Head(wire) \in Commands
      BY <1>1, HeadTailProperties DEF TypeOK, BusTyped
    <3> QED BY <3>1, <3>2 DEF Commands, Replies
  <2>2. uart' = <<rep>>
    BY <1>2, <1>5, AppendToEmpty DEF Answer
  <2>3. uart' \in Seq(Replies) /\ uart' # <<>> /\ Head(uart') = rep
    BY <2>1, <2>2
  <2>4. BusLink' = [stage |-> "came", status |-> status, bit |-> AnswerBit(req)]
    BY <1>2, <2>3, ReplyOnLink DEF BusLink
  <2>5. AnswerBit(req) = B!Truth(req)
    BY DEF AnswerBit, B!Truth, B!PollsControl
  <2>6. scheduled' = IF status = "ok" THEN B!Obey(req) ELSE scheduled
    BY <1>5 DEF Answer, Obeyed, B!Obey
  <2>7. B!Serve(status)
    BY <1>1, <1>3, <2>4, <2>5, <2>6 DEF B!Serve, B!Came
  <2> QED BY <2>7 DEF B!Next
<1> QED BY <1>4, <1>5 DEF AnswerAny

LEMMA OutsideAsks ==
  ASSUME NEW r \in Rooms, HaWrite(r) \/ StartSchedule(r) PROVE B!Next
<1>1. UNCHANGED <<in_flight, BusLink, inventory>>
  BY DEF HaWrite, StartSchedule, BusLink, txVars, busVars, discVars
<1>2. CASE HaWrite(r)
  BY <1>1, <1>2 DEF HaWrite, WriteReq, B!Next, B!Ask, B!Write
<1>3. CASE StartSchedule(r)
  BY <1>1, <1>3 DEF StartSchedule, B!Next, B!StartSchedule
<1> QED BY <1>2, <1>3

LEMMA StepOnBus ==
  TypeOK /\ LockstepInv /\ InFlightWaits /\ [Next]_vars => [B!Next]_(B!busVars)
<1> SUFFICES ASSUME TypeOK, LockstepInv, InFlightWaits, [Next]_vars
             PROVE  B!Next \/ UNCHANGED B!busVars
  OBVIOUS
<1>1. CASE DrainUart
  BY <1>1, DrainStutters
<1>2. CASE DiscardReply
  BY <1>2, DiscardDiscards DEF B!Next
<1>3. CASE AcceptReply
  BY <1>3, AcceptAccepts DEF B!Next
<1>4. CASE Expire
  BY <1>4, ExpireGivesUp DEF B!Next
<1>5. CASE FramesDone \/ NotExpired \/ UpdateLink \/ SkipSend \/ UNCHANGED vars
  BY <1>5, Stutters DEF FramesDone, NotExpired, UpdateLink, SkipSend, vars, BusLink,
     txVars, discVars, busVars, envVars
<1>6. CASE SendWrite \/ SendProbe \/ SendPoll \/ NothingDue
  BY <1>6, SendIssues
<1>7. CASE Tick
  BY <1>7, TickStutters
<1>8. CASE AnswerAny \/ Lose
  BY <1>8, ControllerServes
<1>9. CASE \E r \in Rooms : HaWrite(r) \/ StartSchedule(r)
  BY <1>9, OutsideAsks
<1> QED BY <1>1, <1>2, <1>3, <1>4, <1>5, <1>6, <1>7, <1>8, <1>9 DEF Next, LoopStep

(* The hub, with its timeouts, hold and buffers, implements the bus, for   *)
(* every poll list, topology, latency and timeout within the assumptions.  *)
THEOREM HubImplementsBus == Spec => ImplementsBus
<1>1. Init => B!Init
  <2> SUFFICES ASSUME Init PROVE B!Init
    OBVIOUS
  <2>1. BusLink = [stage |-> "silent"]
    BY NothingOnLink DEF Init, BusLink
  <2> QED BY <2>1 DEF Init, B!Init, B!Silent
<1> QED BY <1>1, WaitsInit, WaitsStep, StepOnBus, TypeCorrect, LockstepInvariant, PTL
        DEF Spec, ImplementsBus, B!Spec

(* What holds of every behaviour of the bus holds of the hub's. *)
LEMMA BusInvariant == Spec => []B!BusInv
<1>1. B!Init => B!BusInv
  BY DEF B!Init, B!BusInv, B!OnlyPresent, B!OwnTruth
<1>2. B!BusInv /\ [B!Next]_(B!busVars) => B!BusInv'
  <2> SUFFICES ASSUME B!BusInv, [B!Next]_(B!busVars) PROVE B!BusInv'
    OBVIOUS
  <2> USE DEF B!BusInv, B!OnlyPresent, B!OwnTruth, B!Silent, B!Sent, B!Came
  <2>1. ASSUME NEW req, B!Issue(req), inventory' = inventory PROVE B!BusInv'
    BY <2>1 DEF B!Issue
  <2>2. CASE B!IssueWrite \/ \E req \in Reads : B!IssueRead(req)
    BY <2>1, <2>2 DEF B!IssueWrite, B!IssueRead
  <2>3. ASSUME NEW status \in Statuses, B!Serve(status) PROVE B!BusInv'
    BY <2>3 DEF B!Serve, B!Truth, B!PollsControl
  <2>4. CASE B!Accept
    <3>1. in_flight' = NoRequest /\ in_flight # NoRequest
      BY <2>4 DEF B!Accept
    <3>2. inventory' \in Seq(Present)
      <4>1. in_flight.kind = "probe" /\ BusLink.bit => in_flight.slot \in Present
        BY <2>4, <3>1 DEF B!Accept
      <4> QED BY <2>4, <4>1 DEF B!Accept
    <3> QED BY <3>1, <3>2
  <2>5. CASE B!Lost \/ B!GiveUp \/ B!Discard
    BY <2>5 DEF B!Lost, B!GiveUp, B!Discard
  <2>6. CASE (\E r \in Rooms : B!Ask(r) \/ B!StartSchedule(r)) \/ UNCHANGED B!busVars
    BY <2>6 DEF B!Ask, B!StartSchedule, B!busVars
  <2> QED BY <2>2, <2>3, <2>4, <2>5, <2>6 DEF B!Next
<1> QED BY <1>1, <1>2, HubImplementsBus, PTL
        DEF ImplementsBus, B!Spec

(* What dump_config() and print_yaml() list is there: proved of the bus,   *)
(* and so of the hub.                                                      *)
THEOREM InventoryIsPresent == Spec => []InventoryPresent
<1>1. B!BusInv => InventoryPresent
  BY DEF B!BusInv, InventoryPresent
<1> QED BY <1>1, BusInvariant, PTL

-----------------------------------------------------------------------------
(* Inventory, holds and cut replies.                                       *)

discAll == <<discovery, disc_idx, inventory>>

(* An idle hub has no request, so no probe and no poll. *)
LEMMA IdleHasNone ==
  ASSUME InFlightWaits, state = "IDLE"
  PROVE  in_flight = NoRequest /\ in_flight.kind = "none"
  BY DEF InFlightWaits, NoRequest

LEMMA WriteKind == ASSUME NEW w \in Writes PROVE w.kind = "write"
  BY DEF Writes, WriteReq

(* The sequences the proofs take apart. *)
LEMMA SequencesTyped ==
  ASSUME TypeOK
  PROVE  /\ discovery \in Seq(Slots) /\ inventory \in Seq(Slots) /\ write_queue \in Seq(Writes)
         /\ Len(discovery) \in Nat /\ DOMAIN discovery = 1..Len(discovery)
         /\ Len(inventory) \in Nat /\ DOMAIN inventory = 1..Len(inventory)
         /\ Len(write_queue) \in Nat /\ DOMAIN write_queue = 1..Len(write_queue)
         /\ disc_idx \in 0..Len(discovery)
  BY LenProperties DEF TypeOK, DiscTyped

(* What a step can do to the probe, the queue and the request in flight.   *)
LEMMA StepEffects ==
  ASSUME TypeOK, InFlightWaits, [Next]_vars
  PROVE  \/ AcceptReply
         \/ SendProbe
         \/ /\ UNCHANGED discAll
            /\ \/ /\ in_flight'.kind = "write" /\ write_queue # <<>>
                  /\ write_queue' = Tail(write_queue)
               \/ in_flight'.kind = "poll" /\ write_queue = <<>> /\ write_queue' = <<>>
               \/ in_flight' = NoRequest /\ write_queue' = write_queue
               \/ in_flight' = in_flight /\ write_queue' = write_queue
               \/ /\ in_flight' = in_flight
                  /\ \E r \in Rooms :
                       write_queue' = Append(write_queue, WriteReq(r, "setpoint"))
<1>1. CASE SendWrite
  <2>1. Head(write_queue) \in Writes
    BY <1>1, HeadTailProperties DEF SendWrite, TypeOK
  <2>2. in_flight'.kind = "write"
    <3>1. in_flight' = Head(write_queue)
      BY <1>1 DEF SendWrite, Transmit
    <3>2. Head(write_queue).kind = "write"
      BY <2>1, WriteKind
    <3> QED BY <3>1, <3>2
  <2>3. UNCHANGED discAll /\ write_queue # <<>> /\ write_queue' = Tail(write_queue)
    BY <1>1 DEF SendWrite, discVars, discAll
  <2> QED BY <2>2, <2>3
<1>2. CASE SendPoll
  <2>1. PICK k \in 0..(Len(PollList) - 1) :
          Transmit(PollReq(RoundItem(k))) \/ UNCHANGED txVars
    BY <1>2 DEF SendPoll
  <2>2. in_flight'.kind = "poll" \/ in_flight' = in_flight
    BY <2>1 DEF Transmit, PollReq, txVars
  <2> QED BY <1>2, <2>2 DEF SendPoll, MayPoll, discAll
<1>3. CASE Expire
  BY <1>3 DEF Expire, FinishTransaction, discVars, discAll
<1>4. CASE \E r \in Rooms : HaWrite(r)
  BY <1>4 DEF HaWrite, txVars, discVars, discAll
<1>5. CASE DrainUart \/ DiscardReply \/ FramesDone \/ NotExpired \/ UpdateLink
           \/ SkipSend \/ UNCHANGED vars
  BY <1>5 DEF DrainUart, DiscardReply, FramesDone, NotExpired, UpdateLink, SkipSend,
     vars, txVars, discVars, discAll
<1>6. CASE NothingDue
  BY <1>6 DEF NothingDue, txVars, discAll
<1>7. CASE (\E r \in Rooms : StartSchedule(r)) \/ AnswerAny \/ Lose
  BY <1>7 DEF StartSchedule, AnswerAny, Answer, Lose, txVars, discVars, discAll
<1>8. CASE Tick
  BY <1>8 DEF Tick, txVars, discVars, discAll
<1> QED BY <1>1, <1>2, <1>3, <1>4, <1>5, <1>6, <1>7, <1>8 DEF Next, LoopStep

-----------------------------------------------------------------------------
(* Resets. *)

LEMMA ResetInit == Init => ResetInv
  BY DEF Init, ResetInv, OneReset, NoneBehindPoll, NoRequest

LEMMA AcceptKeepsResets ==
  ASSUME TypeOK, ResetInv, AcceptReply PROVE ResetInv'
<1> DEFINE heal == HealWrites(Head(rx_buf))
<1>1. in_flight' = NoRequest /\ write_queue' = write_queue \o heal
  BY DEF AcceptReply, FinishTransaction
<1>2. NoneBehindPoll'
  BY <1>1 DEF NoneBehindPoll, NoRequest
<1>3. CASE heal = <<>>
  <2>1. write_queue' = write_queue
    BY <1>1, <1>3, SequencesTyped, ConcatEmptySeq
  <2> QED BY <1>2, <2>1 DEF ResetInv, OneReset
<1>4. CASE heal # <<>>
  <2>1. in_flight.kind = "poll" /\ \A i \in DOMAIN write_queue : ~IsReset(write_queue[i])
    BY <1>4 DEF HealWrites, ResetInv, NoneBehindPoll
  <2>2. PICK w : w \in Writes /\ heal = <<w>>
    <3>1. in_flight \in {PollReq(i) : i \in DOMAIN PollList}
      BY <2>1, KindOfRequest DEF TypeOK, TxTyped
    <3>2. in_flight.item \in DOMAIN PollList
      BY <3>1 DEF PollReq
    <3>3. WriteReq(PollList[in_flight.item].idx, "control") \in Writes
      BY <3>2, PollItemTyped DEF Writes
    <3> QED BY <1>4, <3>3 DEF HealWrites
  <2>3. write_queue' = Append(write_queue, w)
    BY <1>1, <2>2, SequencesTyped, AppendIsConcat
  <2>4. /\ DOMAIN write_queue' = 1..(Len(write_queue) + 1)
        /\ \A i \in 1..Len(write_queue) : write_queue'[i] = write_queue[i]
    <3>1. /\ Append(write_queue, w) \in Seq(Writes)
          /\ Len(Append(write_queue, w)) = Len(write_queue) + 1
          /\ \A i \in 1..Len(write_queue) : Append(write_queue, w)[i] = write_queue[i]
      BY <2>2, SequencesTyped, AppendProperties
    <3> QED BY <2>3, <3>1, LenProperties
  <2>5. \A i \in DOMAIN write_queue' : IsReset(write_queue'[i]) => i = Len(write_queue) + 1
    BY <2>1, <2>4, SequencesTyped DEF IsReset
  <2> QED BY <1>2, <2>5 DEF ResetInv, OneReset, IsReset
<1> QED BY <1>3, <1>4

LEMMA ResetStep == TypeOK /\ InFlightWaits /\ ResetInv /\ [Next]_vars => ResetInv'
<1> SUFFICES ASSUME TypeOK, InFlightWaits, ResetInv, [Next]_vars PROVE ResetInv'
  OBVIOUS
<1>1. CASE AcceptReply
  BY <1>1, AcceptKeepsResets
<1>2. CASE SendProbe
  BY <1>2 DEF SendProbe, Transmit, ProbeReq, ResetInv, OneReset, NoneBehindPoll, IsReset
<1>3. CASE in_flight'.kind = "write" /\ write_queue # <<>> /\ write_queue' = Tail(write_queue)
  <2>1. /\ Tail(write_queue) \in Seq(Writes)
        /\ Len(Tail(write_queue)) = Len(write_queue) - 1
        /\ \A i \in 1..Len(Tail(write_queue)) : Tail(write_queue)[i] = write_queue[i + 1]
    BY <1>3, SequencesTyped, HeadTailProperties
  <2>2. DOMAIN write_queue' = 1..(Len(write_queue) - 1)
    BY <1>3, <2>1, LenProperties
  <2>3. OneReset'
    BY <1>3, <2>1, <2>2, SequencesTyped DEF ResetInv, OneReset, IsReset
  <2> QED BY <1>3, <2>3 DEF ResetInv, NoneBehindPoll
<1>4. CASE in_flight'.kind = "poll" /\ write_queue = <<>> /\ write_queue' = <<>>
  BY <1>4 DEF ResetInv, OneReset, NoneBehindPoll
<1>5. CASE /\ in_flight' = NoRequest \/ in_flight' = in_flight
           /\ write_queue' = write_queue
  BY <1>5 DEF ResetInv, OneReset, NoneBehindPoll, IsReset, NoRequest
<1>6. CASE /\ in_flight' = in_flight
           /\ \E r \in Rooms : write_queue' = Append(write_queue, WriteReq(r, "setpoint"))
  <2>1. PICK r \in Rooms : write_queue' = Append(write_queue, WriteReq(r, "setpoint"))
    BY <1>6
  <2>2. WriteReq(r, "setpoint") \in Writes /\ ~IsReset(WriteReq(r, "setpoint"))
    BY DEF Writes, WriteReq, IsReset
  <2>3. /\ Append(write_queue, WriteReq(r, "setpoint")) \in Seq(Writes)
        /\ Len(write_queue') = Len(write_queue) + 1
        /\ \A i \in 1..Len(write_queue) : write_queue'[i] = write_queue[i]
        /\ write_queue'[Len(write_queue) + 1] = WriteReq(r, "setpoint")
    BY <2>1, <2>2, SequencesTyped, AppendProperties
  <2>4. DOMAIN write_queue' = 1..(Len(write_queue) + 1)
    BY <2>1, <2>3, LenProperties
  <2>5. \A i \in DOMAIN write_queue' :
          IsReset(write_queue'[i]) => i \in DOMAIN write_queue /\ IsReset(write_queue[i])
    BY <2>2, <2>3, <2>4, SequencesTyped
  <2>6. OneReset'
    BY <2>3, <2>5, SequencesTyped DEF ResetInv, OneReset, IsReset
  <2>7. NoneBehindPoll'
    BY <1>6, <2>5 DEF ResetInv, NoneBehindPoll, IsReset
  <2> QED BY <2>6, <2>7 DEF ResetInv
<1> QED BY <1>1, <1>2, <1>3, <1>4, <1>5, <1>6, StepEffects

(* However long a schedule runs, at most one write to reset it waits in    *)
(* write_queue_: a poll is sent only when the queue is empty, and only its *)
(* reply queues a reset (dispatch_read_reply_, maybe_send_next_).          *)
THEOREM ResetsNeverPile == Spec => []ResetsDoNotPile
<1>1. OneReset => ResetsDoNotPile
  <2> SUFFICES ASSUME OneReset PROVE ResetsDoNotPile
    OBVIOUS
  <2> DEFINE resets == {i \in DOMAIN write_queue : write_queue[i].attr = "control"}
  <2>1. CASE resets = {}
    BY <2>1, FS_EmptySet DEF ResetsDoNotPile
  <2>2. ASSUME NEW x \in resets PROVE ResetsDoNotPile
    <3>1. resets = {x}
      BY <2>2 DEF OneReset, IsReset
    <3>2. Cardinality(resets) = 1
      BY <3>1, FS_Singleton
    <3> QED BY <3>2 DEF ResetsDoNotPile
  <2> QED BY <2>1, <2>2
<1> QED BY <1>1, ResetInit, ResetStep, WaitsInit, WaitsStep, TypeCorrect, PTL
        DEF Spec, ResetInv

-----------------------------------------------------------------------------
(* The inventory. *)

LEMMA InventoryInit == Init => InventoryInv
<1> SUFFICES ASSUME Init PROVE InventoryInv
  OBVIOUS
<1>1. /\ inventory = <<>> /\ in_flight.kind = "none"
      /\ DOMAIN discovery = 1..NControllers
      /\ \A c \in 1..NControllers : discovery[c] = <<c, 0>>
  BY DEF Init, NoRequest
<1>2. ProbedOnce
  BY <1>1 DEF ProbedOnce
<1>3. RoomsProbedUnderFound
  BY <1>1 DEF RoomsProbedUnderFound
<1>4. DOMAIN inventory = {}
  BY <1>1
<1>5. FoundWasProbed /\ ProbeIsLast /\ ListedOnce /\ RoomAfterController
  BY <1>1, <1>4 DEF FoundWasProbed, ProbeIsLast, ListedOnce, RoomAfterController
<1> QED BY <1>2, <1>3, <1>5 DEF InventoryInv

(* The next probe is of a slot never probed, so never found. *)
LEMMA ProbeKeepsInventory ==
  ASSUME TypeOK, InventoryInv, SendProbe PROVE InventoryInv'
<1>1. /\ UNCHANGED <<discovery, inventory>> /\ disc_idx' = disc_idx + 1
      /\ disc_idx < Len(discovery) /\ in_flight' = ProbeReq(discovery[disc_idx + 1])
  BY DEF SendProbe, Transmit
<1>2. /\ disc_idx + 1 \in DOMAIN discovery /\ disc_idx \in Nat
      /\ in_flight'.slot = discovery[disc_idx + 1]
  BY <1>1, SequencesTyped DEF ProbeReq
<1>3. ProbeIsLast'
  <2>1. ASSUME NEW i \in DOMAIN inventory, inventory[i] = discovery[disc_idx + 1]
        PROVE  FALSE
    <3>1. PICK k \in 1..disc_idx : inventory[i] = discovery[k]
      BY DEF InventoryInv, FoundWasProbed
    <3>2. k \in DOMAIN discovery /\ k # disc_idx + 1
      BY <1>2, SequencesTyped
    <3> QED BY <1>2, <2>1, <3>1, <3>2 DEF InventoryInv, ProbedOnce
  <2> QED BY <1>1, <1>2, <2>1 DEF ProbeIsLast
<1>4. FoundWasProbed'
  <2>1. 1..disc_idx \subseteq 1..(disc_idx + 1)
    BY <1>2
  <2> QED BY <1>1, <2>1 DEF InventoryInv, FoundWasProbed
<1> QED BY <1>1, <1>3, <1>4 DEF InventoryInv, ProbedOnce, ListedOnce, Found,
           RoomAfterController, RoomsProbedUnderFound

(* A slot found is the last one probed, and new to the inventory. *)
LEMMA FoundIsNew ==
  ASSUME TypeOK, InventoryInv, in_flight.kind = "probe",
         NEW inv, inv = Append(inventory, in_flight.slot)
  PROVE  /\ in_flight.slot \in Slots /\ in_flight.slot = discovery[disc_idx]
         /\ disc_idx \in DOMAIN discovery
         /\ Len(inv) = Len(inventory) + 1 /\ DOMAIN inv = 1..Len(inv)
         /\ \A i \in DOMAIN inventory : inv[i] = inventory[i] /\ inv[i] # in_flight.slot
         /\ inv[Len(inv)] = in_flight.slot
<1>1. in_flight.slot \in Slots
  BY KindOfRequest DEF TypeOK, TxTyped, ProbeReq
<1>2. /\ inv \in Seq(Slots) /\ Len(inv) = Len(inventory) + 1
      /\ \A i \in 1..Len(inventory) : inv[i] = inventory[i]
      /\ inv[Len(inventory) + 1] = in_flight.slot
  BY <1>1, SequencesTyped, AppendProperties
<1>3. DOMAIN inv = 1..Len(inv)
  BY <1>2, LenProperties
<1> QED BY <1>1, <1>2, <1>3, SequencesTyped DEF InventoryInv, ProbeIsLast

LEMMA FoundKeepsList ==
  ASSUME TypeOK, InventoryInv, in_flight.kind = "probe",
         inventory' = Append(inventory, in_flight.slot),
         in_flight' = NoRequest
  PROVE  /\ ProbeIsLast' /\ ListedOnce' /\ RoomAfterController'
         /\ \A i \in DOMAIN inventory' : \E k \in 1..disc_idx : inventory'[i] = discovery[k]
         /\ \A c : Found(inventory, c, Len(inventory))
                   => Found(inventory', c, Len(inventory'))
         /\ in_flight.slot[2] = 0 => Found(inventory', in_flight.slot[1], Len(inventory'))
<1> DEFINE n == Len(inventory)
<1>1. /\ in_flight.slot \in Slots /\ in_flight.slot = discovery[disc_idx]
      /\ disc_idx \in DOMAIN discovery
      /\ n \in Nat /\ Len(inventory') = n + 1
      /\ DOMAIN inventory = 1..n /\ DOMAIN inventory' = 1..(n + 1)
      /\ \A i \in 1..n : inventory'[i] = inventory[i] /\ inventory'[i] # in_flight.slot
      /\ inventory'[n + 1] = in_flight.slot
  BY FoundIsNew, SequencesTyped
<1> HIDE DEF n
<1>2. ProbeIsLast'
  BY DEF ProbeIsLast, NoRequest
<1>3. ListedOnce'
  <2>1. \A i \in 1..(n + 1) : i = n + 1 \/ i \in 1..n
    BY <1>1
  <2> QED BY <1>1, <2>1 DEF InventoryInv, ListedOnce
<1>4. ASSUME NEW c, NEW m \in 0..n, Found(inventory, c, m) PROVE Found(inventory', c, m)
  BY <1>1, <1>4 DEF Found
<1>5. RoomAfterController'
  <2>1. ASSUME NEW i \in 1..(n + 1), inventory'[i][2] # 0
        PROVE  Found(inventory', inventory'[i][1], i - 1)
    <3>1. Found(inventory, inventory'[i][1], i - 1)
      <4>1. CASE i \in 1..n
        BY <1>1, <2>1, <4>1 DEF InventoryInv, RoomAfterController
      <4>2. CASE i = n + 1
        BY <1>1, <2>1, <4>2 DEF InventoryInv, RoomsProbedUnderFound, n
      <4> QED BY <1>1, <4>1, <4>2
    <3>2. i - 1 \in 0..n
      BY <1>1
    <3> QED BY <3>1, <3>2, <1>4
  <2> QED BY <1>1, <2>1 DEF RoomAfterController
<1>6. ASSUME NEW i \in DOMAIN inventory'
      PROVE  \E k \in 1..disc_idx : inventory'[i] = discovery[k]
  <2>1. CASE i \in 1..n
    BY <1>1, <2>1 DEF InventoryInv, FoundWasProbed
  <2>2. CASE i = n + 1
    <3>1. disc_idx \in 1..disc_idx
      BY <1>1, SequencesTyped
    <3> QED BY <1>1, <2>2, <3>1
  <2> QED BY <1>1, <1>6, <2>1, <2>2
<1>7. ASSUME NEW c, Found(inventory, c, n) PROVE Found(inventory', c, n + 1)
  BY <1>1, <1>7 DEF Found
<1>8. ASSUME in_flight.slot[2] = 0 PROVE Found(inventory', in_flight.slot[1], n + 1)
  <2>1. in_flight.slot = <<in_flight.slot[1], 0>>
    BY <1>1, <1>8 DEF Slots
  <2> QED BY <1>1, <2>1 DEF Found
<1> QED BY <1>1, <1>2, <1>3, <1>5, <1>6, <1>7, <1>8 DEF n

LEMMA ConcatParts ==
  ASSUME NEW S, NEW s \in Seq(S), NEW t \in Seq(S)
  PROVE  /\ s \o t \in Seq(S) /\ Len(s \o t) = Len(s) + Len(t)
         /\ \A i \in 1..Len(s) : (s \o t)[i] = s[i]
         /\ \A i \in Len(s) + 1..Len(s) + Len(t) : (s \o t)[i] = t[i - Len(s)]
<1>1. Len(s) \in Nat /\ Len(t) \in Nat
  BY LenProperties
<1>2. \A i \in 1..Len(s) : i \in 1..Len(s) + Len(t) /\ i <= Len(s)
  BY <1>1
<1>3. \A i \in Len(s) + 1..Len(s) + Len(t) : i \in 1..Len(s) + Len(t) /\ ~(i <= Len(s))
  BY <1>1
<1> QED BY <1>2, <1>3, ConcatProperties

(* The room probes of a controller just found are new: had one been        *)
(* queued before, the controller would have been found before.             *)
LEMMA ExpansionIsNew ==
  ASSUME TypeOK, InventoryInv, in_flight.kind = "probe", in_flight.slot[2] = 0,
         discovery' = discovery \o RoomProbes(in_flight.slot[1])
  PROVE  /\ Len(discovery') = Len(discovery) + SlotsPerController
         /\ DOMAIN discovery' = 1..Len(discovery')
         /\ \A i \in DOMAIN discovery : discovery'[i] = discovery[i]
         /\ \A i \in DOMAIN discovery' \ DOMAIN discovery :
              discovery'[i] = <<in_flight.slot[1], i - Len(discovery)>>
         /\ \A i \in DOMAIN discovery, j \in DOMAIN discovery' \ DOMAIN discovery :
              discovery'[i] # discovery'[j]
<1> DEFINE c == in_flight.slot[1]
           rooms == RoomProbes(c)
<1>1. in_flight.slot \in Slots
  BY KindOfRequest DEF TypeOK, TxTyped, ProbeReq
<1>2. c \in 1..NControllers /\ in_flight.slot = <<c, 0>>
  BY <1>1 DEF Slots
<1>3. rooms \in Seq(Slots) /\ Len(rooms) = SlotsPerController
  <2>1. \A s \in 1..SlotsPerController : <<c, s>> \in Slots
    BY <1>2, TopologyAssumption DEF Slots
  <2>2. rooms \in [1..SlotsPerController -> Slots]
    BY <2>1 DEF RoomProbes
  <2>3. rooms \in Seq(Slots)
    BY <2>2, TopologyAssumption, SeqDef
  <2>4. DOMAIN rooms = 1..SlotsPerController
    BY <2>2
  <2>5. DOMAIN rooms = 1..Len(rooms) /\ Len(rooms) \in Nat
    BY <2>3, LenProperties
  <2>6. Len(rooms) = SlotsPerController
    BY <2>4, <2>5, TopologyAssumption
  <2> QED BY <2>3, <2>6
<1>4. /\ discovery' \in Seq(Slots) /\ Len(discovery') = Len(discovery) + Len(rooms)
      /\ \A i \in 1..Len(discovery) : discovery'[i] = discovery[i]
      /\ \A i \in Len(discovery) + 1..Len(discovery) + Len(rooms) :
           discovery'[i] = rooms[i - Len(discovery)]
  <2>1. discovery' = discovery \o rooms
    OBVIOUS
  <2> HIDE DEF rooms
  <2>2. rooms \in Seq(Slots) /\ discovery \in Seq(Slots)
    BY <1>3, SequencesTyped
  <2> DEFINE both == discovery \o rooms
  <2>3. /\ both \in Seq(Slots) /\ Len(both) = Len(discovery) + Len(rooms)
        /\ \A i \in 1..Len(discovery) : both[i] = discovery[i]
        /\ \A i \in Len(discovery) + 1..Len(discovery) + Len(rooms) :
             both[i] = rooms[i - Len(discovery)]
    BY <2>2, ConcatParts
  <2>4. discovery' = both
    BY <2>1
  <2> HIDE DEF both
  <2> QED BY <2>3, <2>4
<1>5. DOMAIN discovery' = 1..Len(discovery')
  BY <1>4, LenProperties
<1>6. ASSUME NEW i \in DOMAIN discovery' \ DOMAIN discovery
      PROVE  /\ discovery'[i] = <<c, i - Len(discovery)>>
             /\ i - Len(discovery) \in 1..SlotsPerController
  <2>1. i \in Len(discovery) + 1..Len(discovery) + Len(rooms)
    BY <1>3, <1>4, <1>5, SequencesTyped, TopologyAssumption
  <2>2. i - Len(discovery) \in 1..SlotsPerController
    BY <1>3, <2>1, SequencesTyped, TopologyAssumption
  <2> QED BY <1>4, <2>1, <2>2 DEF RoomProbes
<1>7. ASSUME NEW i \in DOMAIN discovery, NEW j \in DOMAIN discovery' \ DOMAIN discovery,
             discovery'[i] = discovery'[j]
      PROVE  FALSE
  <2>1. discovery[i] = <<c, j - Len(discovery)>> /\ j - Len(discovery) # 0
    <3>1. /\ discovery'[j] = <<c, j - Len(discovery)>>
          /\ j - Len(discovery) \in 1..SlotsPerController
      BY <1>6
    <3>2. discovery'[i] = discovery[i]
      BY <1>4, SequencesTyped
    <3> HIDE DEF c
    <3>3. discovery[i] = <<c, j - Len(discovery)>>
      BY <1>7, <3>1, <3>2
    <3>4. j - Len(discovery) # 0
      BY <3>1, TopologyAssumption
    <3> QED BY <3>3, <3>4
  <2>2. discovery[i][1] = c /\ discovery[i][2] # 0
    BY <2>1
  <2>3. PICK k \in 1..Len(inventory) : inventory[k] = <<c, 0>>
    BY <2>2 DEF InventoryInv, RoomsProbedUnderFound, Found
  <2> QED BY <1>2, <2>3, SequencesTyped DEF InventoryInv, ProbeIsLast
<1> QED BY <1>3, <1>4, <1>5, <1>6, <1>7, SequencesTyped

LEMMA AcceptKeepsInventory ==
  ASSUME TypeOK, InventoryInv, AcceptReply PROVE InventoryInv'
<1> DEFINE rep == Head(rx_buf)
           n == Len(inventory)
<1>1. /\ in_flight' = NoRequest /\ disc_idx' = disc_idx
      /\ discovery' = Expand(rep) /\ inventory' = Record(rep)
  BY DEF AcceptReply, FinishTransaction
<1>2. CASE ~FoundSlot(rep)
  <2>1. UNCHANGED discAll
    BY <1>1, <1>2 DEF Expand, Record, discAll
  <2> QED BY <1>1, <2>1 DEF discAll, InventoryInv, ProbedOnce, FoundWasProbed, ProbeIsLast,
         ListedOnce, RoomAfterController, RoomsProbedUnderFound, NoRequest
<1>3. CASE FoundSlot(rep)
  <2>1. in_flight.kind = "probe" /\ inventory' = Append(inventory, in_flight.slot)
    BY <1>1, <1>3 DEF FoundSlot, Record
  <2>2. /\ ProbeIsLast' /\ ListedOnce' /\ RoomAfterController'
        /\ \A i \in DOMAIN inventory' : \E k \in 1..disc_idx : inventory'[i] = discovery[k]
        /\ \A c : Found(inventory, c, Len(inventory))
                  => Found(inventory', c, Len(inventory'))
        /\ in_flight.slot[2] = 0 => Found(inventory', in_flight.slot[1], Len(inventory'))
    BY <1>1, <2>1, FoundKeepsList
  <2>3. CASE in_flight.slot[2] # 0
    <3>1. discovery' = discovery
      BY <1>1, <2>3 DEF Expand
    <3>2. ProbedOnce' /\ FoundWasProbed' /\ RoomsProbedUnderFound'
      BY <1>1, <2>2, <3>1 DEF InventoryInv, ProbedOnce, FoundWasProbed,
         RoomsProbedUnderFound
    <3> QED BY <2>2, <3>2 DEF InventoryInv
  <2>4. CASE in_flight.slot[2] = 0
    <3> DEFINE old == DOMAIN discovery
               new == DOMAIN discovery' \ old
    <3>1. discovery' = discovery \o RoomProbes(in_flight.slot[1])
      BY <1>1, <1>3, <2>4 DEF Expand
    <3>2. /\ Len(discovery') = Len(discovery) + SlotsPerController
          /\ DOMAIN discovery' = 1..Len(discovery')
          /\ \A i \in old : discovery'[i] = discovery[i]
          /\ \A i \in new : discovery'[i] = <<in_flight.slot[1], i - Len(discovery)>>
          /\ \A i \in old, j \in new : discovery'[i] # discovery'[j]
      BY <2>1, <2>4, <3>1, ExpansionIsNew
    <3>3. old \subseteq DOMAIN discovery' /\ 1..disc_idx \subseteq old
      BY <3>2, SequencesTyped, TopologyAssumption
    <3>4. ProbedOnce'
      <4> SUFFICES ASSUME NEW i \in DOMAIN discovery', NEW j \in DOMAIN discovery',
                          discovery'[i] = discovery'[j]
                   PROVE  i = j
        BY DEF ProbedOnce
      <4>1. CASE i \in old /\ j \in old
        BY <3>2, <4>1 DEF InventoryInv, ProbedOnce
      <4>2. CASE i \in new /\ j \in new
        <5>1. i - Len(discovery) = j - Len(discovery) /\ i \in Int /\ j \in Int
          BY <3>2, <4>2
        <5> QED BY <5>1, SequencesTyped
      <4>3. ~(i \in old /\ j \in new) /\ ~(i \in new /\ j \in old)
        BY <3>2
      <4> QED BY <4>1, <4>2, <4>3
    <3>5. FoundWasProbed'
      BY <1>1, <2>2, <3>2, <3>3 DEF FoundWasProbed
    <3>6. RoomsProbedUnderFound'
      <4> SUFFICES ASSUME NEW i \in DOMAIN discovery', discovery'[i][2] # 0
                   PROVE  Found(inventory', discovery'[i][1], Len(inventory'))
        BY DEF RoomsProbedUnderFound
      <4>1. CASE i \in old
        <5>1. Found(inventory, discovery'[i][1], Len(inventory))
          BY <3>2, <4>1 DEF InventoryInv, RoomsProbedUnderFound
        <5> QED BY <2>2, <5>1
      <4>2. CASE i \in new
        <5>1. discovery'[i][1] = in_flight.slot[1]
          BY <3>2, <4>2
        <5> QED BY <2>2, <2>4, <5>1
      <4> QED BY <4>1, <4>2
    <3> QED BY <2>2, <3>4, <3>5, <3>6 DEF InventoryInv
  <2> QED BY <2>3, <2>4
<1> QED BY <1>2, <1>3

LEMMA InventoryStep ==
  TypeOK /\ InFlightWaits /\ InventoryInv /\ [Next]_vars => InventoryInv'
<1> SUFFICES ASSUME TypeOK, InFlightWaits, InventoryInv, [Next]_vars PROVE InventoryInv'
  OBVIOUS
<1>1. CASE AcceptReply
  BY <1>1, AcceptKeepsInventory
<1>2. CASE SendProbe
  BY <1>2, ProbeKeepsInventory
<1>3. CASE /\ UNCHANGED discAll
           /\ in_flight' = in_flight \/ in_flight'.kind # "probe"
  BY <1>3 DEF discAll, InventoryInv, ProbedOnce, FoundWasProbed, ProbeIsLast,
     ListedOnce, RoomAfterController, RoomsProbedUnderFound
<1> QED BY <1>1, <1>2, <1>3, StepEffects DEF NoRequest

(* The inventory that dump_config() and print_yaml() replay lists only     *)
(* what is there, each slot once, a room only after its controller         *)
(* (handle_discovery_reply_): a probe's slot is the last one sent, no slot *)
(* is probed twice, and a reply is the one to the probe in flight.         *)
THEOREM InventoryIsSound == Spec => []InventorySound
<1>1. TypeOK /\ InventoryInv /\ InventoryPresent => InventorySound
  <2> SUFFICES ASSUME TypeOK, InventoryInv, InventoryPresent PROVE InventorySound
    OBVIOUS
  <2>1. \A i \in DOMAIN inventory : inventory[i] \in Present
    BY LenProperties, ElementOfSeq DEF InventoryPresent, B!OnlyPresent
  <2> QED BY <2>1, SequencesTyped DEF InventoryInv, ListedOnce, RoomAfterController,
         RoomsProbedUnderFound, Found, InventorySound
<1> QED BY <1>1, InventoryInit, InventoryStep, WaitsInit, WaitsStep, TypeCorrect,
           InventoryIsPresent, PTL DEF Spec

-----------------------------------------------------------------------------
(* The inventory is complete when nothing fails. *)

(* A request still out there is not yet timed out. *)
LEMMA NeverExpires ==
  ASSUME NothingFails, TypeOK, LockstepInv, StillComing PROVE ~Expire
<1> SUFFICES ASSUME Expire PROVE FALSE
  OBVIOUS
<1>1. /\ phase = "timeout" /\ state = "WAITING" /\ clock - tx_time > ReplyTimeout
  BY ClockArithmetic DEF Expire, TimedOut, LockstepInv, WireInv
<1>2. rx_buf = <<>>
  BY <1>1 DEF LockstepInv, WireInv, FramesHandled
<1>3. /\ clock \in Nat /\ tx_time \in Nat /\ lag \in 0..MaxLoop /\ MaxLoop \in Nat
      /\ MaxLatency \in Nat /\ ReplyTimeout \in Nat /\ MaxLatency + MaxLoop <= ReplyTimeout
  BY TimesAssumption DEF NothingFails, TypeOK, ClockTyped, TxTyped
<1>4. CASE wire # <<>>
  <2>1. 1 \in DOMAIN wire /\ wire[1] \in Commands
    BY <1>4, BusLengths
  <2>2. wire[1].ttl \in 0..MaxLatency
    BY <2>1 DEF Commands
  <2>3. clock <= tx_time + MaxLatency - wire[1].ttl
    BY <2>1 DEF LockstepInv, WireInv, CommandAge
  <2> QED BY <1>1, <1>3, <2>2, <2>3
<1>5. CASE uart # <<>>
  <2>1. clock <= tx_time + MaxLatency + lag
    BY <1>1, <1>5 DEF LockstepInv, WireInv, ReplyAge
  <2> QED BY <1>1, <1>3, <2>1
<1> QED BY <1>1, <1>2, <1>4, <1>5 DEF StillComing

LEMMA ComingStep ==
  ASSUME NothingFails, TypeOK, LockstepInv, StillComing, [Next]_vars PROVE StillComing'
<1>1. ASSUME NEW req, Transmit(req) PROVE StillComing'
  <2> DEFINE cmd == [req |-> req, current |-> TRUE, ttl |-> MaxLatency]
  <2>1. wire' = Append(Superseded(wire), cmd)
    BY <1>1 DEF Transmit
  <2>2. DOMAIN Superseded(wire) = 1..Len(wire) /\ Len(wire) \in Nat
    BY BusLengths DEF Superseded
  <2>3. wire' # <<>>
    <3>1. Superseded(wire) \in Seq({Superseded(wire)[i] : i \in 1..Len(wire)} \cup {cmd})
      <4> DEFINE S == {Superseded(wire)[i] : i \in 1..Len(wire)} \cup {cmd}
      <4>1. Superseded(wire) \in [1..Len(wire) -> S]
        BY <2>2 DEF Superseded
      <4> QED BY <2>2, <4>1, SeqDef
    <3>2. Append(Superseded(wire), cmd) # <<>>
      BY <3>1, AppendProperties, EmptySeq
    <3> QED BY <2>1, <3>2
  <2> QED BY <2>3 DEF StillComing
<1>2. CASE SendWrite \/ SendProbe
  BY <1>1, <1>2 DEF SendWrite, SendProbe
<1>3. CASE SendPoll
  <2>1. PICK k \in 0..(Len(PollList) - 1) :
          Transmit(PollReq(RoundItem(k))) \/ UNCHANGED txVars
    BY <1>3 DEF SendPoll
  <2>2. state = "IDLE"
    BY <1>3 DEF SendPoll, MayPoll, MaySend
  <2> QED BY <1>1, <2>1, <2>2 DEF StillComing, txVars
<1>4. CASE NothingDue \/ DiscardReply
  BY <1>4 DEF NothingDue, MayPoll, MaySend, DiscardReply, txVars, StillComing
<1>5. CASE AcceptReply
  BY <1>5 DEF AcceptReply, FinishTransaction, StillComing
<1>6. CASE DrainUart
  <2>1. /\ rx_buf' = rx_buf \o uart /\ wire' = wire /\ state' = state
    BY <1>6 DEF DrainUart, txVars
  <2>2. rx_buf # <<>> \/ uart # <<>> => rx_buf' # <<>>
    <3>1. Len(rx_buf \o uart) = Len(rx_buf) + Len(uart) /\ rx_buf \o uart \in Seq(Replies)
      BY ConcatProperties DEF TypeOK, BusTyped
    <3>2. Len(rx_buf) + Len(uart) # 0 => Len(rx_buf \o uart) # 0
      BY <3>1
    <3>3. rx_buf # <<>> \/ uart # <<>> => Len(rx_buf) + Len(uart) # 0
      BY BusLengths
    <3>4. Len(<<>>) = 0
      OBVIOUS
    <3> QED BY <2>1, <3>2, <3>3, <3>4
  <2> QED BY <2>1, <2>2 DEF StillComing
<1>7. CASE FramesDone \/ NotExpired \/ UpdateLink \/ SkipSend \/ UNCHANGED vars
           \/ \E r \in Rooms : HaWrite(r) \/ StartSchedule(r)
  BY <1>7 DEF FramesDone, NotExpired, UpdateLink, SkipSend, HaWrite, StartSchedule, vars,
     txVars, busVars, StillComing
<1>8. CASE Tick
  <2>1. UNCHANGED <<state, uart, rx_buf>> /\ DOMAIN wire' = DOMAIN wire
    BY <1>8 DEF Tick, txVars
  <2>2. wire # <<>> => wire' # <<>>
    <3>1. wire # <<>> => 1 \in DOMAIN wire
      BY BusLengths
    <3>2. DOMAIN <<>> = {}
      OBVIOUS
    <3> QED BY <2>1, <3>1, <3>2
  <2> QED BY <2>1, <2>2 DEF StillComing
<1>9. CASE AnswerAny
  <2>1. PICK rep : uart' = Append(uart, rep)
    BY <1>9 DEF AnswerAny, Answer
  <2>2. PICK status \in Statuses : Answer(status)
    BY <1>9 DEF AnswerAny
  <2>3. uart' # <<>>
    <3>1. uart = <<>>
      BY <2>2, Alone DEF Answer
    <3>2. uart' = <<rep>>
      BY <2>1, <3>1, AppendToEmpty
    <3> QED BY <3>2
  <2> QED BY <2>3 DEF StillComing
<1>10. ~Lose /\ ~Expire
  BY NeverExpires DEF Lose, NothingFails
<1> QED BY <1>2, <1>3, <1>4, <1>5, <1>6, <1>7, <1>8, <1>9, <1>10 DEF Next, LoopStep

(* Only its reply ends a probe, and the list is walked before the end. *)
LEMMA ProbeStays ==
  ASSUME NothingFails, TypeOK, LockstepInv, InFlightWaits, StillComing, [Next]_vars,
         ~AcceptReply, ~SendProbe
  PROVE  /\ UNCHANGED discAll
         /\ (in_flight.kind = "probe" \/ in_flight'.kind = "probe") => in_flight' = in_flight
         /\ ~disc_active' =>
              \/ ~disc_active /\ (in_flight'.kind # "probe" \/ in_flight' = in_flight)
              \/ ~(disc_idx < Len(discovery)) /\ in_flight'.kind # "probe"
<1>1. ASSUME MaySend PROVE in_flight = NoRequest /\ in_flight.kind = "none"
  BY <1>1, IdleHasNone DEF MaySend
<1>2. CASE SendWrite
  <2>1. in_flight'.kind = "write"
    <3>1. in_flight' = Head(write_queue)
      BY <1>2 DEF SendWrite, Transmit
    <3>2. Head(write_queue) \in Writes
      BY <1>2, HeadTailProperties DEF SendWrite, TypeOK
    <3> QED BY <3>1, <3>2, WriteKind
  <2>2. in_flight.kind = "none" /\ disc_active' = disc_active /\ UNCHANGED discAll
    BY <1>1, <1>2 DEF SendWrite, discVars, discAll
  <2> QED BY <2>1, <2>2
<1>3. CASE SendPoll \/ NothingDue
  <2>1. MayPoll /\ UNCHANGED discAll
    BY <1>3 DEF SendPoll, NothingDue, discAll
  <2>2. in_flight.kind = "none"
    BY <1>1, <2>1 DEF MayPoll
  <2>3. in_flight'.kind = "poll" \/ in_flight' = in_flight
    <3>1. CASE SendPoll
      <4>1. PICK k \in 0..(Len(PollList) - 1) :
              Transmit(PollReq(RoundItem(k))) \/ UNCHANGED txVars
        BY <3>1 DEF SendPoll
      <4> QED BY <4>1 DEF Transmit, PollReq, txVars
    <3>2. CASE NothingDue
      BY <3>2 DEF NothingDue, txVars
    <3> QED BY <1>3, <3>1, <3>2
  <2>4. ~(disc_active /\ disc_idx < Len(discovery))
    BY <2>1 DEF MayPoll
  <2> QED BY <2>1, <2>2, <2>3, <2>4
<1>4. CASE DrainUart \/ DiscardReply \/ FramesDone \/ NotExpired \/ UpdateLink \/ SkipSend
           \/ Tick \/ UNCHANGED vars
  BY <1>4 DEF DrainUart, DiscardReply, FramesDone, NotExpired, UpdateLink, SkipSend,
     Tick, vars, txVars, discVars, discAll
<1>5. CASE (\E r \in Rooms : HaWrite(r) \/ StartSchedule(r)) \/ AnswerAny \/ Lose
  <2>1. UNCHANGED <<txVars, discVars>>
    <3>1. CASE \E r \in Rooms : HaWrite(r) \/ StartSchedule(r)
      BY <3>1 DEF HaWrite, StartSchedule
    <3>2. CASE AnswerAny
      BY <3>2 DEF AnswerAny, Answer
    <3>3. CASE Lose
      BY <3>3 DEF Lose
    <3> QED BY <1>5, <3>1, <3>2, <3>3
  <2> QED BY <2>1 DEF txVars, discVars, discAll
<1> QED BY <1>2, <1>3, <1>4, <1>5, NeverExpires DEF Next, LoopStep

LEMMA CompleteInit == Init => CompleteInv
<1> SUFFICES ASSUME Init PROVE CompleteInv
  OBVIOUS
<1>1. /\ inventory = <<>> /\ in_flight.kind = "none" /\ disc_idx = 0 /\ disc_active = TRUE
      /\ DOMAIN discovery = 1..NControllers /\ state = "IDLE"
      /\ \A c \in 1..NControllers : discovery[c] = <<c, 0>>
  BY DEF Init, NoRequest
<1>2. ControllersProbed
  BY <1>1 DEF ControllersProbed, Listed
<1>3. DOMAIN inventory = {} /\ 1..disc_idx = {}
  BY <1>1
<1> QED BY <1>1, <1>2, <1>3 DEF CompleteInv, StillComing, ProbedIsFound, RoomsProbed,
           WalkedAtEnd

(* The reply to a probe is the truth about its slot. *)
LEMMA ProbeTold ==
  ASSUME NothingFails, TypeOK, LockstepInv, B!BusInv, AcceptReply, in_flight.kind = "probe"
  PROVE  FoundSlot(Head(rx_buf)) <=> in_flight.slot \in Present
<1> DEFINE rep == Head(rx_buf)
<1>1. rx_buf # <<>> /\ wire = <<>> /\ uart = <<>> /\ in_flight # NoRequest
  BY Alone DEF AcceptReply, NoRequest
<1>2. BusLink = [stage |-> "came", status |-> rep.status, bit |-> rep.bit]
  <2>1. rx_buf \in Seq(Replies)
    BY DEF TypeOK, BusTyped
  <2> QED BY <1>1, <2>1, ReplyOnLink DEF BusLink
<1>3. rep.bit \in BOOLEAN
  <2>1. rep \in Replies
    BY <1>1, HeadTailProperties DEF TypeOK, BusTyped
  <2> QED BY <2>1 DEF Replies
<1>4. rep.status \in Statuses /\ (rep.bit <=> in_flight.slot \in Present)
  BY <1>1, <1>2 DEF B!BusInv, B!OwnTruth
<1> QED BY <1>4 DEF FoundSlot, NothingFails

LEMMA ProbeKeepsComplete ==
  ASSUME TypeOK, InFlightWaits, CompleteInv, SendProbe
  PROVE  ProbedIsFound' /\ ControllersProbed' /\ RoomsProbed' /\ WalkedAtEnd'
<1>1. /\ UNCHANGED <<discovery, inventory, disc_active>> /\ disc_idx' = disc_idx + 1
      /\ disc_active /\ in_flight.kind = "none"
      /\ in_flight' = ProbeReq(discovery[disc_idx + 1])
  BY IdleHasNone DEF SendProbe, Transmit, MaySend
<1>2. in_flight'.kind = "probe" /\ disc_idx \in Nat
  BY <1>1, SequencesTyped DEF ProbeReq
<1>3. ProbedIsFound'
  <2> SUFFICES ASSUME NEW k \in 1..(disc_idx + 1), k # disc_idx + 1, discovery[k] \in Present
               PROVE  Listed(inventory, discovery[k])
    BY <1>1, <1>2 DEF ProbedIsFound
  <2>1. k \in 1..disc_idx
    BY <1>2
  <2> QED BY <1>1, <2>1 DEF CompleteInv, ProbedIsFound
<1>4. ControllersProbed' /\ RoomsProbed'
  BY <1>1 DEF CompleteInv, ControllersProbed, RoomsProbed, Listed
<1> QED BY <1>1, <1>3, <1>4 DEF WalkedAtEnd

LEMMA AcceptKeepsComplete ==
  ASSUME NothingFails, TypeOK, LockstepInv, InventoryInv, B!BusInv, CompleteInv, AcceptReply
  PROVE  ProbedIsFound' /\ ControllersProbed' /\ RoomsProbed' /\ WalkedAtEnd'
<1> DEFINE rep == Head(rx_buf)
<1>1. /\ in_flight' = NoRequest /\ disc_idx' = disc_idx /\ disc_active' = disc_active
      /\ discovery' = Expand(rep) /\ inventory' = Record(rep) /\ in_flight'.kind = "none"
  BY DEF AcceptReply, FinishTransaction, NoRequest
<1>2. disc_idx \in Nat /\ 1..disc_idx \subseteq DOMAIN discovery
  BY SequencesTyped
<1>3. CASE ~FoundSlot(rep)
  <2>1. UNCHANGED discAll
    BY <1>1, <1>3 DEF Expand, Record, discAll
  <2>2. in_flight.kind = "probe" =>
          in_flight.slot \notin Present /\ in_flight.slot = discovery[disc_idx]
    BY <1>3, ProbeTold DEF InventoryInv, ProbeIsLast
  <2>3. ProbedIsFound'
    BY <1>1, <2>1, <2>2 DEF CompleteInv, ProbedIsFound, discAll
  <2> QED BY <1>1, <2>1, <2>3 DEF discAll, CompleteInv, ControllersProbed, RoomsProbed, Listed,
         WalkedAtEnd
<1>4. CASE FoundSlot(rep)
  <2> DEFINE slot == in_flight.slot
  <2>1. /\ in_flight.kind = "probe" /\ inventory' = Append(inventory, slot)
        /\ disc_active
    BY <1>1, <1>4 DEF FoundSlot, Record, CompleteInv, WalkedAtEnd
  <2>2. /\ slot \in Slots /\ slot = discovery[disc_idx] /\ disc_idx \in DOMAIN discovery
        /\ Len(inventory') = Len(inventory) + 1 /\ DOMAIN inventory' = 1..Len(inventory')
        /\ \A i \in DOMAIN inventory : inventory'[i] = inventory[i]
        /\ inventory'[Len(inventory')] = slot
        /\ DOMAIN inventory = 1..Len(inventory) /\ Len(inventory) \in Nat
    BY <2>1, FoundIsNew, SequencesTyped
  <2> HIDE DEF slot
  <2>3. /\ DOMAIN discovery \subseteq DOMAIN discovery'
        /\ \A k \in DOMAIN discovery : discovery'[k] = discovery[k]
        /\ slot[2] = 0 =>
             \A s \in 1..SlotsPerController : Listed(discovery', <<slot[1], s>>)
    <3>1. CASE slot[2] # 0
      <4>1. discovery' = discovery
        BY <1>1, <3>1 DEF Expand, slot
      <4> QED BY <3>1, <4>1
    <3>2. CASE slot[2] = 0
      <4>1. discovery' = discovery \o RoomProbes(in_flight.slot[1])
        BY <1>1, <1>4, <3>2 DEF Expand, slot
      <4>2. /\ Len(discovery') = Len(discovery) + SlotsPerController
            /\ DOMAIN discovery' = 1..Len(discovery')
            /\ \A i \in DOMAIN discovery : discovery'[i] = discovery[i]
            /\ \A i \in DOMAIN discovery' \ DOMAIN discovery :
                 discovery'[i] = <<slot[1], i - Len(discovery)>>
        BY <2>1, <3>2, <4>1, ExpansionIsNew DEF slot
      <4>3. DOMAIN discovery = 1..Len(discovery) /\ Len(discovery) \in Nat
            /\ SlotsPerController \in Nat
        BY SequencesTyped, TopologyAssumption
      <4>4. ASSUME NEW s \in 1..SlotsPerController PROVE Listed(discovery', <<slot[1], s>>)
        <5>1. Len(discovery) + s \in DOMAIN discovery' \ DOMAIN discovery
          BY <4>2, <4>3
        <5>2. discovery'[Len(discovery) + s] = <<slot[1], (Len(discovery) + s) - Len(discovery)>>
          BY <4>2, <5>1
        <5>3. (Len(discovery) + s) - Len(discovery) = s
          BY <4>3
        <5> QED BY <5>1, <5>2, <5>3 DEF Listed
      <4>5. DOMAIN discovery \subseteq DOMAIN discovery'
        BY <4>2, <4>3
      <4> QED BY <4>2, <4>4, <4>5
    <3> QED BY <3>1, <3>2
  <2>4. ASSUME NEW s, Listed(inventory, s) PROVE Listed(inventory', s)
    <3>1. DOMAIN inventory \subseteq DOMAIN inventory'
      BY <2>2
    <3> QED BY <2>2, <2>4, <3>1 DEF Listed
  <2>5. ASSUME NEW s, Listed(discovery, s) PROVE Listed(discovery', s)
    BY <2>3, <2>5 DEF Listed
  <2>6. ProbedIsFound'
    <3> SUFFICES ASSUME NEW k \in 1..disc_idx, discovery'[k] \in Present
                 PROVE  Listed(inventory', discovery'[k])
      BY <1>1 DEF ProbedIsFound
    <3>1. discovery'[k] = discovery[k]
      BY <1>2, <2>3
    <3>2. CASE k = disc_idx
      <4>1. Len(inventory') \in DOMAIN inventory'
        BY <2>2
      <4> QED BY <2>2, <3>1, <3>2, <4>1 DEF Listed
    <3>3. CASE k # disc_idx
      <4>1. Listed(inventory, discovery[k])
        BY <3>1, <3>3 DEF CompleteInv, ProbedIsFound
      <4> QED BY <2>4, <3>1, <4>1
    <3> QED BY <3>2, <3>3
  <2>7. ControllersProbed'
    BY <2>5 DEF CompleteInv, ControllersProbed
  <2>8. RoomsProbed'
    <3> SUFFICES ASSUME NEW i \in DOMAIN inventory', NEW s \in 1..SlotsPerController,
                        inventory'[i][2] = 0
                 PROVE  Listed(discovery', <<inventory'[i][1], s>>)
      BY DEF RoomsProbed
    <3>1. CASE i \in DOMAIN inventory
      <4>1. Listed(discovery, <<inventory[i][1], s>>)
        BY <2>2, <3>1 DEF CompleteInv, RoomsProbed
      <4> QED BY <2>2, <2>5, <3>1, <4>1
    <3>2. CASE i \notin DOMAIN inventory
      <4>1. i = Len(inventory')
        BY <2>2, <3>2
      <4> QED BY <2>2, <2>3, <4>1
    <3> QED BY <3>1, <3>2
  <2>9. WalkedAtEnd'
    BY <1>1, <2>1 DEF WalkedAtEnd
  <2> QED BY <2>6, <2>7, <2>8, <2>9
<1> QED BY <1>3, <1>4

LEMMA CompleteStep ==
  ASSUME NothingFails, TypeOK, LockstepInv, InFlightWaits, InventoryInv, B!BusInv,
         CompleteInv, [Next]_vars
  PROVE  CompleteInv'
<1>1. StillComing'
  BY ComingStep DEF CompleteInv
<1>2. CASE AcceptReply
  BY <1>1, <1>2, AcceptKeepsComplete DEF CompleteInv
<1>3. CASE SendProbe
  BY <1>1, <1>3, ProbeKeepsComplete DEF CompleteInv
<1>4. CASE ~AcceptReply /\ ~SendProbe
  <2>1. /\ UNCHANGED discAll
        /\ (in_flight.kind = "probe" \/ in_flight'.kind = "probe") => in_flight' = in_flight
        /\ ~disc_active' =>
             \/ ~disc_active /\ (in_flight'.kind # "probe" \/ in_flight' = in_flight)
             \/ ~(disc_idx < Len(discovery)) /\ in_flight'.kind # "probe"
    BY <1>4, ProbeStays DEF CompleteInv
  <2>2. ProbedIsFound' /\ ControllersProbed' /\ RoomsProbed'
    BY <2>1 DEF discAll, CompleteInv, ProbedIsFound, ControllersProbed, RoomsProbed, Listed
  <2>3. WalkedAtEnd'
    <3> SUFFICES ASSUME ~disc_active'
                 PROVE  disc_idx = Len(discovery) /\ in_flight'.kind # "probe"
      BY <2>1 DEF WalkedAtEnd, discAll
    <3>1. disc_idx <= Len(discovery) /\ disc_idx \in Nat /\ Len(discovery) \in Nat
      BY SequencesTyped
    <3> QED BY <2>1, <3>1 DEF CompleteInv, WalkedAtEnd
  <2> QED BY <1>1, <2>2, <2>3 DEF CompleteInv
<1> QED BY <1>2, <1>3, <1>4

(* When no command is lost, refused or answered late, the probe that ends  *)
(* has found every controller and every room there                         *)
(* (handle_discovery_reply_, maybe_send_next_).                            *)
THEOREM DiscoveryIsComplete == ASSUME NothingFails PROVE Spec => []InventoryComplete
<1>1. TypeOK /\ CompleteInv => InventoryComplete
  <2> SUFFICES ASSUME TypeOK, CompleteInv, ~disc_active, NEW s \in Present,
                      <<s[1], 0>> \in Present
               PROVE  Listed(inventory, s)
    BY DEF InventoryComplete, Listed
  <2>1. /\ s \in Slots /\ s = <<s[1], s[2]>> /\ s[1] \in 1..NControllers
        /\ s[2] \in 0..SlotsPerController
    BY TopologyAssumption DEF Slots
  <2>2. ASSUME NEW slot \in Present, Listed(discovery, slot) PROVE Listed(inventory, slot)
    <3>1. PICK k \in DOMAIN discovery : discovery[k] = slot
      BY <2>2 DEF Listed
    <3>2. k \in 1..disc_idx /\ in_flight.kind # "probe"
      BY <3>1, SequencesTyped DEF CompleteInv, WalkedAtEnd
    <3> QED BY <3>1, <3>2 DEF CompleteInv, ProbedIsFound
  <2>3. Listed(inventory, <<s[1], 0>>)
    BY <2>1, <2>2 DEF CompleteInv, ControllersProbed
  <2>4. CASE s[2] = 0
    BY <2>1, <2>3, <2>4
  <2>5. CASE s[2] # 0
    <3>1. PICK i \in DOMAIN inventory : inventory[i] = <<s[1], 0>>
      BY <2>3 DEF Listed
    <3>2. inventory[i][1] = s[1] /\ inventory[i][2] = 0 /\ s[2] \in 1..SlotsPerController
      BY <2>1, <2>5, <3>1, TopologyAssumption
    <3>3. Listed(discovery, <<s[1], s[2]>>)
      BY <3>1, <3>2 DEF CompleteInv, RoomsProbed
    <3> QED BY <2>1, <2>2, <3>3
  <2> QED BY <2>4, <2>5
<1>2. TypeOK /\ LockstepInv /\ InFlightWaits /\ InventoryInv /\ B!BusInv /\ CompleteInv
        /\ [Next]_vars => CompleteInv'
  BY CompleteStep
<1> QED BY <1>1, <1>2, CompleteInit, InventoryInit, InventoryStep, WaitsInit, WaitsStep,
           TypeCorrect, LockstepInvariant, BusInvariant, PTL DEF Spec

-----------------------------------------------------------------------------
(* A line that cuts replies short (HubNoise): however many replies the     *)
(* stub in rx_buf_ holds back, and whenever they come out.                 *)

LEMMA SupersededReplies ==
  ASSUME NEW s \in Seq(Replies)
  PROVE  Superseded(s) \in Seq(Replies) /\ Len(Superseded(s)) = Len(s)
<1>1. DOMAIN s = 1..Len(s) /\ Len(s) \in Nat /\ \A i \in 1..Len(s) : s[i] \in Replies
  BY LenProperties, ElementOfSeq
<1>2. \A i \in DOMAIN s : [s[i] EXCEPT !.current = FALSE] \in Replies
  BY <1>1 DEF Replies
<1>3. Superseded(s) \in [1..Len(s) -> Replies]
  BY <1>1, <1>2 DEF Superseded
<1> QED BY <1>1, <1>3, SeqDef, LenProperties

(* What a stub that waits, or none, may become. *)
LEMMA NoStubTyped == NoStub \in [need : Nat, behind : Seq(Replies)] /\ NoStub.behind = <<>>
  BY EmptySeq DEF NoStub

LEMMA ReleaseTyped ==
  ASSUME StubTyped, NEW behind \in Seq(Replies)
  PROVE  /\ Release(behind).out \in Seq(Replies)
         /\ Release(behind).stub \in [need : Nat, behind : Seq(Replies)]
         /\ Release(behind).out # <<>> =>
              Len(behind) >= stub.need /\ Release(behind).stub = NoStub
         /\ Release(behind).stub # NoStub =>
              Len(Release(behind).stub.behind) < Release(behind).stub.need
<1>1. Len(behind) \in Nat /\ stub.need \in Nat
  BY LenProperties DEF StubTyped
<1>2. CASE Len(behind) >= stub.need
  BY <1>2, NoStubTyped DEF Release
<1>3. CASE Len(behind) < stub.need
  <2>1. Release(behind).out = <<>> /\ Release(behind).stub = [stub EXCEPT !.behind = behind]
    BY <1>1, <1>3 DEF Release
  <2>2. /\ Release(behind).stub \in [need : Nat, behind : Seq(Replies)]
        /\ Release(behind).stub.behind = behind /\ Release(behind).stub.need = stub.need
    BY <2>1 DEF StubTyped
  <2> QED BY <1>3, <2>1, <2>2, EmptySeq
<1> QED BY <1>1, <1>2, <1>3

-----------------------------------------------------------------------------
(* The hub's variables keep their types, and the wire its invariant.       *)

LEMMA BehindStubMoves ==
  ASSUME TypeOK, WireInv, StubTyped, StubWaits, DrainBehindStub
  PROVE  /\ rx_buf' \in Seq(Replies) /\ stub' \in [need : Nat, behind : Seq(Replies)]
         /\ rx_buf' # <<>> => uart # <<>> /\ stub' = NoStub
         /\ stub' # NoStub => Len(stub'.behind) < stub'.need
<1> DEFINE all == stub.behind \o uart
<1>1. stub.behind \in Seq(Replies) /\ uart \in Seq(Replies) /\ rx_buf \in Seq(Replies)
  BY DEF StubTyped, TypeOK, BusTyped
<1>2. all \in Seq(Replies)
  BY <1>1, ConcatProperties
<1>3. rx_buf = <<>>
  BY DEF WireInv, FramesHandled, DrainBehindStub
<1>4. rx_buf' = rx_buf \o Release(all).out /\ stub' = Release(all).stub
  BY DEF DrainBehindStub
<1>5. rx_buf' = Release(all).out
  BY <1>2, <1>3, <1>4, ReleaseTyped, ConcatEmptySeq
<1>6. ASSUME rx_buf' # <<>> PROVE uart # <<>>
  <2> SUFFICES ASSUME uart = <<>> PROVE FALSE
    OBVIOUS
  <2>1. all = stub.behind
    BY <1>1, ConcatEmptySeq
  <2>2. Len(stub.behind) >= stub.need
    BY <1>2, <1>5, <1>6, <2>1, ReleaseTyped
  <2>3. Len(stub.behind) < stub.need
    BY DEF DrainBehindStub, StubWaits
  <2> QED BY <1>1, <2>2, <2>3, LenProperties DEF StubTyped
<1> QED BY <1>2, <1>4, <1>5, <1>6, ReleaseTyped

LEMMA CutMoves ==
  ASSUME TypeOK, NEW status \in Statuses, NEW need \in 1..MaxNeed, CutShort(status, need)
  PROVE  /\ stub' \in [need : Nat, behind : Seq(Replies)]
         /\ stub'.need = need /\ stub'.behind = <<>>
<1>1. stub' = [NoStub EXCEPT !.need = need]
  BY DEF CutShort
<1>2. need \in Nat
  BY NoiseAssumption
<1> QED BY <1>1, <1>2, NoStubTyped

LEMMA NoiseTyped ==
  TypeOK /\ WireInv /\ StubTyped /\ StubWaits /\ [NNext]_noiseVars => TypeOK'
<1> SUFFICES ASSUME TypeOK, WireInv, StubTyped, StubWaits, [NNext]_noiseVars PROVE TypeOK'
  OBVIOUS
<1>1. CASE HubStep
  <2>1. Next
    BY <1>1 DEF HubStep
  <2> QED BY <2>1, LoopTyped, WorldTyped DEF Next
<1>2. CASE DrainBehindStub
  <2>1. rx_buf' \in Seq(Replies)
    BY <1>2, BehindStubMoves
  <2>2. uart' \in Seq(Replies) /\ wire' = wire /\ phase' = "frames" /\ lag' = 0
        /\ UNCHANGED <<clock, txVars, quiet_until, write_queue, discVars, pollVars,
                       linkVars, envVars>>
    BY <1>2 DEF DrainBehindStub
  <2>3. BusTyped'
    BY <2>1, <2>2 DEF BusTyped, TypeOK
  <2>4. ClockTyped' /\ TxTyped'
    BY <2>2, TimesAssumption DEF ClockTyped, TxTyped, TypeOK, txVars
  <2> QED BY <2>2, <2>3, <2>4 DEF TypeOK, DiscTyped, PollTyped, LinkTyped, EnvTyped,
             discVars, pollVars, linkVars, envVars
<1>3. ASSUME NEW status \in Statuses, NEW need \in 1..MaxNeed, CutShort(status, need)
      PROVE  TypeOK'
  <2>1. wire # <<>> /\ wire' = Tail(wire)
        /\ UNCHANGED <<clock, phase, lag, txVars, quiet_until, write_queue, discVars,
                       pollVars, linkVars, uart, rx_buf, ha_writes>>
    BY <1>3 DEF CutShort
  <2>2. BusTyped'
    BY <2>1, HeadTailProperties DEF BusTyped, TypeOK
  <2>3. EnvTyped'
    <3>1. Obeyed(Head(wire).req) \in [Rooms -> BOOLEAN]
      BY DEF Obeyed, TypeOK, EnvTyped
    <3> QED BY <1>3, <2>1, <3>1 DEF CutShort, TypeOK, EnvTyped
  <2> QED BY <2>1, <2>2, <2>3 DEF TypeOK, ClockTyped, TxTyped, DiscTyped, PollTyped,
             LinkTyped, txVars, discVars, pollVars, linkVars
<1>4. CASE UNCHANGED noiseVars
  BY <1>4 DEF noiseVars, vars, TypeOK, ClockTyped, TxTyped, DiscTyped, PollTyped, LinkTyped,
     BusTyped, EnvTyped, txVars, discVars, pollVars, linkVars, busVars, envVars
<1> QED BY <1>1, <1>2, <1>3, <1>4 DEF NNext

LEMMA NoiseWire ==
  TypeOK /\ WireInv /\ StubTyped /\ StubWaits /\ [NNext]_noiseVars => WireInv'
<1> SUFFICES ASSUME TypeOK, WireInv, StubTyped, StubWaits, [NNext]_noiseVars PROVE WireInv'
  OBVIOUS
<1>1. CASE HubStep \/ UNCHANGED noiseVars
  BY <1>1, WireStep DEF HubStep, noiseVars
<1>2. CASE DrainBehindStub
  <2>1. rx_buf' # <<>> => uart # <<>>
    BY <1>2, BehindStubMoves
  <2>2. /\ uart' = <<>> /\ wire' = wire /\ phase' = "frames"
        /\ UNCHANGED <<clock, state, tx_time, quiet_until>>
    BY <1>2 DEF DrainBehindStub, txVars
  <2>3. ClockInOrder' /\ CommandAge' /\ ReplyAge' /\ FramesHandled' /\ HoldCoversReply'
    BY <2>2 DEF WireInv, ClockInOrder, CommandAge, ReplyAge, FramesHandled, HoldCoversReply
  <2>4. OneOnWire' /\ WireCurrent'
    BY <2>1, <2>2, BusLengths, EmptySeq DEF WireInv, OneOnWire, WireCurrent
  <2> QED BY <2>3, <2>4 DEF WireInv
<1>3. ASSUME NEW status \in Statuses, NEW need \in 1..MaxNeed, CutShort(status, need)
      PROVE  WireInv'
  <2>1. /\ wire # <<>> /\ wire' = Tail(wire) /\ uart = <<>> /\ rx_buf = <<>>
        /\ UNCHANGED <<clock, phase, lag, state, tx_time, quiet_until, uart, rx_buf>>
    BY <1>3 DEF CutShort, txVars
  <2>2. wire' = <<>>
    <3>1. Len(wire) = 1
      BY <2>1, BusLengths DEF WireInv, OneOnWire
    <3>2. Len(Tail(wire)) = 0 /\ Tail(wire) \in Seq(Commands)
      BY <2>1, <3>1, HeadTailProperties DEF TypeOK, BusTyped
    <3> QED BY <2>1, <3>2, EmptySeq
  <2>3. ClockInOrder' /\ FramesHandled'
    BY <2>1 DEF WireInv, ClockInOrder, FramesHandled
  <2>4. wire' = <<>> /\ uart' = <<>> /\ rx_buf' = <<>>
    BY <2>1, <2>2
  <2>5. CommandAge' /\ ReplyAge' /\ HoldCoversReply'
    BY <2>4 DEF CommandAge, ReplyAge, HoldCoversReply
  <2>6. OneOnWire' /\ WireCurrent'
    BY <2>4 DEF OneOnWire, WireCurrent
  <2> QED BY <2>3, <2>5, <2>6 DEF WireInv
<1> QED BY <1>1, <1>2, <1>3 DEF NNext

-----------------------------------------------------------------------------
(* Who pays for what.                                                      *)

LEMMA StubStep ==
  TypeOK /\ WireInv /\ StubTyped /\ StubWaits /\ [NNext]_noiseVars
  => StubTyped' /\ StubWaits'
<1> SUFFICES ASSUME TypeOK, WireInv, StubTyped, StubWaits, [NNext]_noiseVars
             PROVE  StubTyped' /\ StubWaits'
  OBVIOUS
<1>1. CASE HubStep
  <2>1. stub.behind \in Seq(Replies) /\ cuts' = cuts
        /\ (mispaired' = mispaired \/ mispaired' = mispaired + 1)
    BY <1>1 DEF HubStep, StubTyped
  <2>2. /\ Superseded(stub.behind) \in Seq(Replies)
        /\ Len(Superseded(stub.behind)) = Len(stub.behind)
    BY <2>1, SupersededReplies
  <2>3. stub' \in [need : Nat, behind : Seq(Replies)]
        /\ stub'.need = stub.need /\ Len(stub'.behind) = Len(stub.behind)
    BY <1>1, <2>2 DEF HubStep, StubTyped
  <2>4. stub' # NoStub => stub # NoStub
    BY <1>1, SupersededEmpty DEF HubStep, NoStub
  <2> QED BY <2>1, <2>3, <2>4 DEF StubTyped, StubWaits
<1>2. CASE DrainBehindStub
  BY <1>2, BehindStubMoves DEF DrainBehindStub, StubTyped, StubWaits
<1>3. ASSUME NEW status \in Statuses, NEW need \in 1..MaxNeed, CutShort(status, need)
      PROVE  StubTyped' /\ StubWaits'
  <2>1. /\ cuts' = cuts + 1 /\ mispaired' = mispaired
    BY <1>3 DEF CutShort
  <2>2. Len(stub'.behind) = 0 /\ stub'.need > 0
    BY <1>3, CutMoves, EmptySeq
  <2> QED BY <1>3, <2>1, <2>2, CutMoves DEF StubTyped, StubWaits
<1>4. CASE UNCHANGED noiseVars
  BY <1>4 DEF noiseVars, StubTyped, StubWaits
<1> QED BY <1>1, <1>2, <1>3, <1>4 DEF NNext

(* The hub's own steps never make a wrong reply meet a request, and count  *)
(* it when it does.                                                        *)
LEMMA MeetsOnlyOnce ==
  ASSUME TypeOK, WireInv, StubTyped, HubStep
  PROVE  /\ Mispairing' => Mispairing /\ mispaired' = mispaired
         /\ mispaired' # mispaired => mispaired' = mispaired + 1 /\ Mispairing
<1>1. AcceptReply => state' # "WAITING" /\ state = "WAITING" /\ rx_buf # <<>>
  BY DEF AcceptReply, FinishTransaction
<1>2. mispaired' # mispaired => AcceptReply /\ Mispairing /\ mispaired' = mispaired + 1
  BY <1>1 DEF HubStep, Mispairing
<1>3. Mispairing' => Mispairing
  <2>1. CASE DrainUart
    <3>1. rx_buf' = uart
      BY <2>1, ConcatEmptySeq DEF DrainUart, TypeOK, BusTyped, WireInv, FramesHandled
    <3>2. uart # <<>> => Head(uart) = uart[1] /\ 1 \in DOMAIN uart
      BY BusLengths DEF TypeOK, BusTyped
    <3> QED BY <3>1, <3>2 DEF WireInv, WireCurrent, Mispairing
  <2>2. CASE DiscardReply
    BY <2>2 DEF DiscardReply, txVars, Mispairing
  <2>3. CASE AcceptReply
    BY <1>1, <2>3 DEF Mispairing
  <2>4. CASE SendWrite \/ SendProbe \/ SendPoll \/ NothingDue
    <3>1. rx_buf' = rx_buf /\ phase = "send"
      BY <2>4 DEF SendWrite, SendProbe, SendPoll, NothingDue, EndLoop, MayPoll, MaySend
    <3> QED BY <3>1 DEF WireInv, FramesHandled, Mispairing
  <2>5. CASE rx_buf' = rx_buf /\ (state' = state \/ state' = "IDLE")
    BY <2>5 DEF Mispairing
  <2>6. \/ DrainUart \/ DiscardReply \/ AcceptReply
        \/ SendWrite \/ SendProbe \/ SendPoll \/ NothingDue
        \/ rx_buf' = rx_buf /\ (state' = state \/ state' = "IDLE")
    BY DEF HubStep, Next, LoopStep, FramesDone, Expire, FinishTransaction, NotExpired,
       UpdateLink, SkipSend, Tick, HaWrite, StartSchedule, AnswerAny, Answer, Lose,
       txVars, busVars
  <2> QED BY <2>1, <2>2, <2>3, <2>4, <2>5, <2>6
<1> QED BY <1>1, <1>2, <1>3 DEF Mispairing

(* A stub is paid for when the reply is cut, and there is one at a time.   *)
LEMMA PayStep ==
  TypeOK /\ WireInv /\ StubTyped /\ StubWaits /\ CutsPay /\ [NNext]_noiseVars => CutsPay'
<1> SUFFICES ASSUME TypeOK, WireInv, StubTyped, StubWaits, CutsPay, [NNext]_noiseVars
             PROVE  CutsPay'
  OBVIOUS
<1>1. mispaired \in Nat /\ cuts \in Nat
  BY DEF StubTyped
<1>2. CASE HubStep
  <2>1. cuts' = cuts
    BY <1>2 DEF HubStep
  <2>2. stub' # NoStub => stub # NoStub
    BY <1>2, SupersededEmpty DEF HubStep, NoStub
  <2> QED BY <1>1, <1>2, <2>1, <2>2, MeetsOnlyOnce DEF CutsPay
<1>3. CASE DrainBehindStub
  <2>1. stub # NoStub /\ cuts' = cuts /\ mispaired' = mispaired
    BY <1>3 DEF DrainBehindStub
  <2>2. Mispairing' => stub' = NoStub
    BY <1>3, BehindStubMoves DEF Mispairing
  <2> QED BY <1>1, <2>1, <2>2 DEF CutsPay
<1>4. ASSUME NEW status \in Statuses, NEW need \in 1..MaxNeed, CutShort(status, need)
      PROVE  CutsPay'
  <2>1. /\ stub = NoStub /\ cuts' = cuts + 1 /\ mispaired' = mispaired
        /\ UNCHANGED <<state, rx_buf>>
    BY <1>4 DEF CutShort, txVars
  <2>2. ~Mispairing'
    BY <1>4, <2>1 DEF CutShort, Mispairing
  <2> QED BY <1>1, <2>1, <2>2 DEF CutsPay
<1>5. CASE UNCHANGED noiseVars
  BY <1>5 DEF noiseVars, vars, txVars, CutsPay, Mispairing
<1> QED BY <1>2, <1>3, <1>4, <1>5 DEF NNext

(* What goes wrong, why it stays bounded: the invariant of a line that     *)
(* cuts replies short (pump_rx_, handle_frame_, loop()'s hold).            *)
THEOREM NoiseInvariant == NSpec => [](TypeOK /\ NoiseInv)
<1>1. NInit => TypeOK /\ NoiseInv
  <2> SUFFICES ASSUME NInit PROVE TypeOK /\ NoiseInv
    OBVIOUS
  <2>1. Init /\ stub = NoStub /\ cuts = 0 /\ mispaired = 0 /\ rx_buf = <<>>
    BY DEF NInit, Init
  <2>2. StubTyped /\ StubWaits /\ CutsPay
    BY <2>1, NoStubTyped DEF StubTyped, StubWaits, CutsPay, Mispairing
  <2> QED BY <2>1, <2>2, InitTyped, WireInit DEF NoiseInv
<1>2. TypeOK /\ NoiseInv /\ [NNext]_noiseVars => (TypeOK /\ NoiseInv)'
  BY NoiseTyped, NoiseWire, StubStep, PayStep DEF NoiseInv
<1> QED BY <1>1, <1>2, PTL DEF NSpec

(* However long a stub stands in rx_buf_ and however many replies come out *)
(* behind it, a cut reply makes at most one reading wrong: the pairing is  *)
(* right again with the next request (handle_frame_, pump_rx_).            *)
THEOREM MispairingIsBounded == NSpec => []MispairBounded
<1>1. TypeOK /\ NoiseInv => MispairBounded
  BY DEF NoiseInv, StubTyped, CutsPay, MispairBounded
<1> QED BY <1>1, NoiseInvariant, PTL

-----------------------------------------------------------------------------
(* Time.                                                                   *)

(* The numbers the proofs compute with. *)
LEMMA Numbers ==
  ASSUME TypeOK
  PROVE  /\ clock \in Nat /\ tx_time \in Nat /\ quiet_until \in Nat /\ last_reply \in Nat
         /\ lag \in 0..MaxLoop /\ MaxLoop \in Nat /\ LinkTimeout \in Nat
         /\ ReplyTimeout \in Nat /\ ReplyTimeout > 0 /\ Cap \in Nat
         /\ state \in {"IDLE", "WAITING"} /\ got_reply \in BOOLEAN
         /\ phase \in {"drain", "frames", "timeout", "link", "send"}
  BY TimesAssumption, CapAssumption DEF TypeOK, ClockTyped, TxTyped, LinkTyped

LEMMA TimerValues ==
  ASSUME TimersTyped
  PROVE  silence \in 0..Cap /\ contact \in 0..Cap /\ held \in 0..Cap /\ waited \in 0..Cap
  BY DEF TimersTyped

-----------------------------------------------------------------------------
(* What each step does to what the stop-watches depend on.                 *)

LEMMA TimersStep ==
  ASSUME TNext, clock' = clock
  PROVE  /\ silence' = IF AcceptReply THEN 0 ELSE silence
         /\ held' = IF state = "IDLE" /\ quiet_until' # 0 THEN held ELSE 0
         /\ waited' = IF write_queue = <<>> \/ SendWrite THEN 0 ELSE waited
  BY DEF TNext, Elapse

(* Only a reply taken for the request in flight ends it in the middle of   *)
(* the frames, and only a write sent leaves the send with one less.        *)
LEMMA AcceptMoves ==
  AcceptReply => phase = "frames" /\ state = "WAITING" /\ state' = "IDLE"
  BY DEF AcceptReply, FinishTransaction
LEMMA SendWriteMoves ==
  SendWrite => phase = "send" /\ state = "IDLE" /\ state' = "WAITING"
  BY DEF SendWrite, MaySend, Transmit

(* The part of the loop that touches neither the transaction nor the hold. *)
Moved(from, to) ==
  /\ phase = from /\ phase' = to
  /\ UNCHANGED <<clock, state, tx_time, quiet_until, write_queue, got_reply, last_reply>>

LEMMA DrainMoves ==
  DrainUart => Moved("drain", "frames") /\ lag' = 0 /\ UNCHANGED link
  BY DEF DrainUart, Moved, txVars, linkVars
LEMMA FramesMoves ==
  FramesDone => Moved("frames", "timeout") /\ UNCHANGED <<lag, link>>
  BY DEF FramesDone, Moved, txVars, linkVars
LEMMA NotExpiredMoves ==
  NotExpired => Moved("timeout", "link") /\ UNCHANGED <<lag, link>> /\ ~TimedOut
  BY DEF NotExpired, Moved, txVars, linkVars
LEMMA UpdateLinkMoves ==
  UpdateLink => Moved("link", "send") /\ lag' = lag /\ link'.connected = Connected
  BY DEF UpdateLink, Moved, txVars
LEMMA SkipSendMoves ==
  SkipSend => /\ Moved("send", "drain") /\ UNCHANGED <<lag, link>>
              /\ state = "WAITING" \/ Holding
  BY DEF SkipSend, Moved, txVars, linkVars
LEMMA SendMoves ==
  SendWrite \/ SendProbe \/ SendPoll \/ NothingDue =>
    /\ phase = "send" /\ phase' = "drain" /\ state = "IDLE" /\ quiet_until' = 0
    /\ UNCHANGED <<clock, lag, got_reply, last_reply, link>>
    /\ (state' = "WAITING" /\ tx_time' = clock) \/ UNCHANGED <<state, tx_time>>
    /\ write_queue = <<>> \/ SendWrite
    /\ ~SendWrite => write_queue' = write_queue
  BY DEF SendWrite, SendProbe, SendPoll, NothingDue, MayPoll, MaySend, EndLoop, Transmit,
     txVars, linkVars
LEMMA DiscardMoves ==
  DiscardReply =>
    /\ phase = "frames" /\ state # "WAITING" /\ rx_buf # <<>>
    /\ quiet_until' = IF InHold THEN HoldUntil ELSE quiet_until
    /\ UNCHANGED <<clock, phase, lag, state, tx_time, write_queue, got_reply, last_reply, link>>
  BY DEF DiscardReply, txVars, linkVars
LEMMA AcceptEffects ==
  AcceptReply =>
    /\ UNCHANGED <<clock, phase, lag, tx_time, quiet_until, link>>
    /\ got_reply' = TRUE /\ last_reply' = clock
  BY DEF AcceptReply, FinishTransaction
LEMMA ExpireMoves ==
  Expire =>
    /\ phase = "timeout" /\ phase' = "link" /\ state = "WAITING" /\ state' = "IDLE"
    /\ quiet_until' = HoldUntil
    /\ UNCHANGED <<clock, lag, tx_time, write_queue, got_reply, last_reply, link>>
  BY DEF Expire, FinishTransaction, TimedOut, linkVars
LEMMA TickMoves ==
  Tick =>
    /\ clock # Horizon /\ lag < MaxLoop /\ clock' = Later(1) /\ lag' = lag + 1
    /\ UNCHANGED <<phase, state, tx_time, quiet_until, write_queue, got_reply, last_reply, link>>
  BY DEF Tick, txVars, linkVars
World == AnswerAny \/ Lose \/ \E r \in Rooms : HaWrite(r) \/ StartSchedule(r)
LEMMA WorldMoves ==
  World =>
    /\ UNCHANGED <<clock, phase, lag, state, tx_time, quiet_until, got_reply, last_reply, link>>
    /\ write_queue' = write_queue \/ phase = "drain"
  BY DEF World, AnswerAny, Answer, Lose, HaWrite, StartSchedule, txVars, linkVars
(* One of these is the step. *)
LEMMA Steps ==
  Next => \/ DrainUart \/ DiscardReply \/ AcceptReply \/ FramesDone \/ Expire
          \/ NotExpired \/ UpdateLink \/ SkipSend
          \/ (SendWrite \/ SendProbe \/ SendPoll \/ NothingDue)
          \/ Tick \/ World
  BY DEF Next, LoopStep, World

(* While the clock does not wrap, its arithmetic is that of the integers.  *)
LEMMA HubClock ==
  ASSUME TypeOK, LockstepInv
  PROVE  /\ HoldUntil = clock + ReplyTimeout
         /\ Since(tx_time) = clock - tx_time
         /\ \A t \in 0..clock : Since(t) = clock - t
         /\ Tick => clock' = clock + 1
<1>1. HoldUntil = clock + ReplyTimeout /\ Since(tx_time) = clock - tx_time
      /\ (clock < Horizon => Later(1) = clock + 1) /\ clock <= Horizon /\ Horizon < ClockMod
  BY ClockArithmetic, NoWrapAssumption, TimesAssumption DEF LockstepInv, WireInv, ClockInOrder
<1>2. ASSUME NEW t \in 0..clock PROVE Since(t) = clock - t
  <2>1. ClockMod \in Nat /\ ClockMod > 0 /\ clock - t \in 0..(ClockMod - 1)
    BY <1>1, Numbers, TimesAssumption
  <2>2. (clock - t) % ClockMod = clock - t
    BY <2>1, SmallMod
  <2> QED BY <2>2 DEF Since
<1>3. Tick => clock' = clock + 1
  BY <1>1, TickMoves, Numbers, TimesAssumption
<1> QED BY <1>1, <1>2, <1>3

-----------------------------------------------------------------------------
(* The link sensor. *)

LEMMA TypedInit == TInit => TypeOK /\ LockstepInv
  BY InitTyped, LockstepInit DEF TInit

LEMMA LinkInit == TInit => LinkInv
<1> SUFFICES ASSUME TInit PROVE LinkInv
  OBVIOUS
<1>1. Cap \in Nat
  BY CapAssumption
<1> QED BY <1>1 DEF TInit, Init, LinkInv, TimersTyped, SilenceTrue, ReplyBefore, LinkLooked

LEMMA TimersKeepType ==
  ASSUME TimersTyped, TNext
  PROVE  TimersTyped'
<1>1. \A t \in 0..Cap : Elapse(t) \in 0..Cap
  BY CapAssumption DEF Elapse
<1>2. 0 \in 0..Cap
  BY CapAssumption
<1> QED BY <1>1, <1>2, TimerValues DEF TNext, TimersTyped

(* The link sensor only moves in update_link_, where the silence is within *)
(* the timeout or is not; in every other step the silence and the age of   *)
(* the look grow together.                                                 *)
LEMMA LinkStep ==
  ASSUME TypeOK, LockstepInv, LinkInv, TNext
  PROVE  LinkInv'
<1>1. TimersTyped' /\ ReplyBefore /\ silence \in 0..Cap
  BY TimersKeepType, TimerValues DEF LinkInv
<1>2. CASE AcceptReply
  <2>1. /\ silence' = 0 /\ got_reply' = TRUE /\ last_reply' = clock
        /\ UNCHANGED <<clock, phase, lag, link>> /\ phase = "frames"
    BY <1>2, AcceptEffects, AcceptMoves DEF TNext
  <2>2. SilenceTrue' /\ ReplyBefore'
    BY <2>1, Numbers DEF SilenceTrue, ReplyBefore
  <2>3. LinkLooked'
    BY <2>1, Numbers DEF LinkLooked, SinceLook
  <2> QED BY <1>1, <2>2, <2>3 DEF LinkInv
<1>3. CASE Tick
  <2>1. /\ UNCHANGED <<phase, got_reply, last_reply, link>>
        /\ clock' = clock + 1 /\ lag' = lag + 1 /\ ~AcceptReply
    BY <1>1, <1>3, HubClock, TickMoves, AcceptMoves
  <2>2. silence' = IF silence < Cap THEN silence + 1 ELSE silence
    BY <2>1, Numbers DEF TNext, Elapse
  <2>3. SilenceTrue' /\ ReplyBefore'
    BY <1>1, <2>1, <2>2, Numbers DEF LinkInv, SilenceTrue, ReplyBefore
  <2>4. LinkLooked'
    BY <2>1, Numbers DEF LinkInv, LinkLooked, SinceLook
  <2> QED BY <1>1, <2>3, <2>4 DEF LinkInv
<1>4. ASSUME ~AcceptReply, UNCHANGED <<clock, got_reply, last_reply>>
      PROVE  SilenceTrue' /\ ReplyBefore'
  BY <1>4, TimersStep DEF LinkInv, SilenceTrue, ReplyBefore
<1>5. CASE UpdateLink
  <2>1. /\ UNCHANGED <<clock, got_reply, last_reply, lag>> /\ phase' = "send"
        /\ link'.connected = Connected /\ ~AcceptReply
    BY <1>5, UpdateLinkMoves, AcceptMoves DEF Moved
  <2>2. Connected => got_reply /\ clock <= last_reply + LinkTimeout
    <3>1. last_reply \in 0..clock
      BY <1>1, Numbers DEF ReplyBefore
    <3> QED BY <3>1, HubClock, Numbers DEF Connected
  <2>3. LinkLooked'
    BY <2>1, <2>2, Numbers DEF LinkLooked, SinceLook
  <2> QED BY <1>1, <1>4, <2>1, <2>3 DEF LinkInv
<1>6. CASE DrainUart
  <2>1. /\ UNCHANGED <<clock, got_reply, last_reply, link>> /\ ~AcceptReply
        /\ phase = "drain" /\ phase' = "frames" /\ lag' = 0
    BY <1>6, DrainMoves, AcceptMoves DEF Moved
  <2>2. LinkLooked'
    BY <2>1, Numbers DEF LinkInv, LinkLooked, SinceLook
  <2> QED BY <1>1, <1>4, <2>1, <2>2 DEF LinkInv
<1>7. ASSUME ~AcceptReply, UNCHANGED <<clock, got_reply, last_reply, lag, link>>,
             phase' = phase \/ phase' \in {"timeout", "link", "drain"},
             phase' = "drain" => phase \in {"drain", "send"},
             phase \in {"send", "drain"} => phase' \in {"send", "drain"}
      PROVE  LinkInv'
  <2>1. LinkLooked'
    BY <1>7, Numbers DEF LinkInv, LinkLooked, SinceLook
  <2> QED BY <1>1, <1>4, <1>7, <2>1 DEF LinkInv
<1>8. CASE DiscardReply \/ FramesDone \/ NotExpired
  <2>1. /\ UNCHANGED <<clock, got_reply, last_reply, lag, link>>
        /\ phase \in {"frames", "timeout"} /\ phase' \in {"frames", "timeout", "link"}
        /\ phase' = "frames" => phase = "frames"
    BY <1>8, DiscardMoves, FramesMoves, NotExpiredMoves DEF Moved
  <2>2. ~AcceptReply
    BY <1>8, DiscardMoves, FramesMoves, NotExpiredMoves, AcceptMoves, AcceptEffects DEF Moved
  <2> QED BY <1>7, <2>1, <2>2
<1>9. CASE Expire \/ SkipSend
  <2>1. /\ UNCHANGED <<clock, got_reply, last_reply, lag, link>>
        /\ (phase = "timeout" /\ phase' = "link") \/ (phase = "send" /\ phase' = "drain")
        /\ ~AcceptReply
    BY <1>9, ExpireMoves, SkipSendMoves, AcceptMoves DEF Moved
  <2> QED BY <1>7, <2>1
<1>10. CASE SendWrite \/ SendProbe \/ SendPoll \/ NothingDue
  <2>1. /\ UNCHANGED <<clock, got_reply, last_reply, lag, link>>
        /\ phase = "send" /\ phase' = "drain" /\ ~AcceptReply
    BY <1>10, SendMoves, AcceptMoves
  <2> QED BY <1>7, <2>1
<1>11. CASE World
  <2>1. /\ UNCHANGED <<clock, got_reply, last_reply, lag, link, phase>> /\ ~AcceptReply
    BY <1>11, WorldMoves, AcceptMoves
  <2> QED BY <1>7, <2>1
<1> QED BY <1>2, <1>3, <1>5, <1>6, <1>8, <1>9, <1>10, <1>11, Steps DEF TNext

-----------------------------------------------------------------------------
(* The hold. *)

LEMMA HoldInit == TInit => HoldInv
  BY DEF TInit, Init, HoldInv, HoldSeen, NoHoldWaiting, InFlightAge, HoldAge, HeldShort, NotHeld

(* Nothing new is on its way unless the hub sends. *)
LEMMA NothingNewOnItsWay ==
  ASSUME TypeOK, Next, ~(SendWrite \/ SendProbe \/ SendPoll \/ NothingDue), ~OnItsWay
  PROVE  ~OnItsWay'
<1>1. wire = <<>> /\ uart = <<>> /\ rx_buf = <<>>
  BY DEF OnItsWay
<1>2. CASE DrainUart
  <2>1. <<>> \o <<>> = <<>>
    BY EmptySeq, ConcatEmptySeq
  <2> QED BY <1>1, <1>2, <2>1 DEF DrainUart, OnItsWay
<1>3. CASE Tick
  <2>1. wire' \in Seq({}) /\ Len(wire') = 0
    <3>1. wire' \in [1..0 -> {}]
      BY <1>1, <1>3 DEF Tick
    <3>2. wire' \in Seq({})
      BY <3>1, SeqDef
    <3> QED BY <3>1, <3>2, LenProperties
  <2> QED BY <1>1, <1>3, <2>1, EmptySeq DEF Tick, OnItsWay
<1>4. CASE FramesDone \/ Expire \/ NotExpired \/ UpdateLink \/ SkipSend
  BY <1>1, <1>4 DEF FramesDone, Expire, NotExpired, UpdateLink, SkipSend, busVars, OnItsWay
<1>5. CASE \E r \in Rooms : HaWrite(r) \/ StartSchedule(r)
  BY <1>1, <1>5 DEF HaWrite, StartSchedule, busVars, OnItsWay
<1>6. ~DiscardReply /\ ~AcceptReply /\ ~AnswerAny /\ ~Lose
  BY <1>1 DEF DiscardReply, AcceptReply, AnswerAny, Answer, Lose
<1> QED BY <1>2, <1>3, <1>4, <1>5, <1>6 DEF Next, LoopStep

LEMMA QuietWay ==
  ASSUME TypeOK, Next,
         DrainUart \/ FramesDone \/ NotExpired \/ UpdateLink \/ SkipSend \/ World
  PROVE  OnItsWay' => OnItsWay
<1>1. CASE SkipSend
  BY <1>1 DEF SkipSend, busVars, OnItsWay
<1>2. CASE DrainUart \/ FramesDone \/ NotExpired \/ UpdateLink \/ World
  <2>1. phase' = phase \/ phase \in {"drain", "frames", "timeout", "link"}
    BY <1>2, DrainMoves, FramesMoves, NotExpiredMoves, UpdateLinkMoves, WorldMoves DEF Moved
  <2>2. ~(SendWrite \/ SendProbe \/ SendPoll \/ NothingDue)
    BY <2>1, SendMoves
  <2> QED BY <2>2, NothingNewOnItsWay
<1> QED BY <1>1, <1>2

(* A reply discarded was the only one on its way. *)
LEMMA DiscardEmpties ==
  ASSUME TypeOK, LockstepInv, DiscardReply
  PROVE  OnItsWay /\ ~OnItsWay'
<1>1. rx_buf # <<>> /\ rx_buf' = Tail(rx_buf) /\ wire' = wire /\ uart' = uart
  BY DEF DiscardReply, busVars
<1>2. Len(rx_buf) = 1 /\ Len(wire) = 0 /\ Len(uart) = 0
  BY <1>1, BusLengths, OneOutstanding
<1>3. Len(Tail(rx_buf)) = 0 /\ Tail(rx_buf) \in Seq(Replies)
  BY <1>1, <1>2, HeadTailProperties DEF TypeOK, BusTyped
<1> QED BY <1>1, <1>2, <1>3, BusLengths, EmptySeq DEF OnItsWay

(* A request in flight is given up on by the pass after the one that saw   *)
(* it wait, and a hold is left by the pass after the one that saw it hold. *)
LEMMA HoldSeenStep ==
  ASSUME TypeOK, LockstepInv, HoldSeen, Next
  PROVE  HoldSeen'
<1>1. tx_time <= clock /\ quiet_until <= clock + ReplyTimeout
  BY DEF LockstepInv, WireInv, ClockInOrder
<1>2. CASE AcceptReply
  <2>1. state = "WAITING" /\ state' = "IDLE" /\ quiet_until' = quiet_until
    BY <1>2, AcceptEffects, AcceptMoves
  <2> QED BY <2>1 DEF HoldSeen, NoHoldWaiting, InFlightAge, HoldAge
<1>3. CASE SendWrite \/ SendProbe \/ SendPoll \/ NothingDue
  <2>1. /\ quiet_until' = 0 /\ phase' = "drain" /\ state = "IDLE"
        /\ UNCHANGED <<clock, lag>>
        /\ (state' = "WAITING" /\ tx_time' = clock) \/ state' = "IDLE"
    BY <1>3, SendMoves
  <2>2. InFlightAge'
    BY <2>1, Numbers DEF InFlightAge, SinceLook
  <2> QED BY <2>1, <2>2 DEF HoldSeen, NoHoldWaiting, HoldAge
<1>4. CASE Expire
  <2>1. /\ phase' = "link" /\ state' = "IDLE"
        /\ quiet_until' = clock + ReplyTimeout /\ UNCHANGED <<clock, lag>>
    BY <1>4, ExpireMoves, HubClock
  <2>2. HoldAge'
    BY <2>1, Numbers DEF HoldAge, SinceLook
  <2> QED BY <2>1, <2>2 DEF HoldSeen, NoHoldWaiting, InFlightAge
<1>5. CASE DiscardReply
  <2>1. /\ state = "IDLE" /\ state' = "IDLE" /\ UNCHANGED <<clock, phase, lag>>
        /\ phase = "frames"
        /\ quiet_until' = IF clock < quiet_until THEN clock + ReplyTimeout ELSE quiet_until
    BY <1>5, DiscardMoves, HubClock, Numbers DEF InHold
  <2>2. HoldAge'
    BY <2>1, Numbers DEF HoldSeen, HoldAge, SinceLook
  <2> QED BY <2>1, <2>2 DEF HoldSeen, NoHoldWaiting, InFlightAge
<1>6. CASE Tick
  <2>1. /\ UNCHANGED <<phase, state, tx_time, quiet_until>> /\ clock' = clock + 1
        /\ lag' = lag + 1
    BY <1>6, HubClock, TickMoves
  <2>2. InFlightAge' /\ HoldAge'
    BY <2>1, Numbers DEF HoldSeen, InFlightAge, HoldAge, SinceLook
  <2> QED BY <2>1, <2>2 DEF HoldSeen, NoHoldWaiting
(* The rest of the loop and the world leave transaction and hold alone. *)
<1>7. CASE DrainUart
  <2>1. /\ phase = "drain" /\ phase' = "frames" /\ lag' = 0
        /\ UNCHANGED <<clock, state, tx_time, quiet_until>>
    BY <1>7, DrainMoves DEF Moved
  <2>2. InFlightAge' /\ HoldAge'
    BY <2>1, Numbers DEF HoldSeen, InFlightAge, HoldAge, SinceLook
  <2> QED BY <2>1, <2>2 DEF HoldSeen, NoHoldWaiting
<1>8. CASE FramesDone \/ UpdateLink \/ World
  <2>1. /\ UNCHANGED <<clock, state, tx_time, quiet_until, lag>>
        /\ \/ phase = "frames" /\ phase' = "timeout"
           \/ phase = "link" /\ phase' = "send"
           \/ phase' = phase
    BY <1>8, FramesMoves, UpdateLinkMoves, WorldMoves DEF Moved
  <2>2. InFlightAge' /\ HoldAge'
    BY <2>1, Numbers DEF HoldSeen, InFlightAge, HoldAge, SinceLook
  <2> QED BY <2>1, <2>2 DEF HoldSeen, NoHoldWaiting
<1>9. CASE NotExpired
  <2>1. /\ UNCHANGED <<clock, state, tx_time, quiet_until, lag>>
        /\ phase = "timeout" /\ phase' = "link"
        /\ state = "WAITING" => clock <= tx_time + ReplyTimeout
    BY <1>1, <1>9, NotExpiredMoves, HubClock, Numbers DEF TimedOut, Moved
  <2>2. InFlightAge' /\ HoldAge'
    BY <2>1, Numbers DEF HoldSeen, InFlightAge, HoldAge, SinceLook
  <2> QED BY <2>1, <2>2 DEF HoldSeen, NoHoldWaiting
<1>10. CASE SkipSend
  <2>1. /\ UNCHANGED <<clock, state, tx_time, quiet_until, lag>>
        /\ phase = "send" /\ phase' = "drain"
        /\ state = "WAITING" \/ clock < quiet_until
    BY <1>10, SkipSendMoves DEF Moved, Holding, InHold
  <2>2. InFlightAge' /\ HoldAge'
    BY <2>1, Numbers DEF HoldSeen, InFlightAge, HoldAge, SinceLook
  <2> QED BY <2>1, <2>2 DEF HoldSeen, NoHoldWaiting
<1> QED BY <1>2, <1>3, <1>4, <1>5, <1>6, <1>7, <1>8, <1>9, <1>10, Steps

(* While the hub holds the bus, the hold and the time it has lasted keep   *)
(* within two timeouts of the clock: only a reply on its way restarts it,  *)
(* and there is one at most.                                               *)
LEMMA HoldStep ==
  ASSUME TypeOK, LockstepInv, LinkInv, HoldInv, TNext
  PROVE  HoldInv'
<1>1. /\ held \in 0..Cap /\ held' \in 0..Cap
      /\ tx_time <= clock /\ quiet_until <= clock + ReplyTimeout
  BY TimersKeepType, TimerValues DEF LinkInv, TimersTyped, LockstepInv, WireInv, ClockInOrder
<1>2. HoldSeen'
  BY HoldSeenStep DEF HoldInv, TNext
<1>3. ASSUME state' = "WAITING" \/ quiet_until' = 0, held' = 0
      PROVE  HoldInv'
  BY <1>2, <1>3, Numbers DEF HoldInv, HoldSeen, NoHoldWaiting, HeldShort, NotHeld
<1>4. CASE AcceptReply \/ SendWrite \/ SendProbe \/ SendPoll \/ NothingDue
  <2>1. quiet_until' = 0 /\ clock' = clock
    BY <1>4, AcceptEffects, AcceptMoves, SendMoves DEF HoldInv, HoldSeen, NoHoldWaiting
  <2> QED BY <1>3, <2>1, TimersStep
<1>5. CASE Expire
  <2>1. /\ state = "WAITING" /\ quiet_until' = clock + ReplyTimeout /\ clock' = clock
    BY <1>5, ExpireMoves, HubClock
  <2>2. held' = 0
    BY <2>1, TimersStep
  <2>3. HeldShort'
    BY <2>1, <2>2, Numbers DEF HeldShort
  <2> QED BY <1>2, <2>2, <2>3 DEF HoldInv, NotHeld
<1>6. CASE DiscardReply
  <2>1. /\ state = "IDLE" /\ state' = "IDLE" /\ clock' = clock
        /\ quiet_until' = IF clock < quiet_until THEN clock + ReplyTimeout ELSE quiet_until
    BY <1>6, DiscardMoves, HubClock, Numbers DEF InHold
  <2>2. held' = IF quiet_until' # 0 THEN held ELSE 0
    BY <2>1, TimersStep
  <2>3. OnItsWay /\ ~OnItsWay'
    BY <1>6, DiscardEmpties
  <2>4. quiet_until = 0 => quiet_until' = 0
    BY <2>1, Numbers
  <2>5. HeldShort'
    BY <1>1, <2>1, <2>2, <2>3, <2>4, Numbers DEF HoldInv, HeldShort
  <2> QED BY <1>2, <2>1, <2>2, <2>5 DEF HoldInv, NotHeld
<1>7. CASE Tick
  <2>1. UNCHANGED <<state, quiet_until>> /\ clock' = clock + 1
    BY <1>7, HubClock, TickMoves
  <2>2. held' = IF state = "IDLE" /\ quiet_until # 0
                THEN IF held < Cap THEN held + 1 ELSE held ELSE 0
    BY <2>1, Numbers DEF TNext, Elapse
  <2>3. OnItsWay' => OnItsWay
    BY <1>7, NothingNewOnItsWay, TickMoves, SendMoves, Numbers DEF TNext
  <2>4. HeldShort'
    BY <1>1, <2>1, <2>2, <2>3, Numbers DEF HoldInv, HeldShort
  <2> QED BY <1>2, <2>1, <2>2, <2>4 DEF HoldInv, NotHeld
(* The rest of the loop and the world leave transaction and hold alone. *)
<1>8. CASE DrainUart \/ FramesDone \/ UpdateLink \/ World \/ NotExpired \/ SkipSend
  <2>1. UNCHANGED <<clock, state, quiet_until>>
    BY <1>8, DrainMoves, FramesMoves, UpdateLinkMoves, WorldMoves, NotExpiredMoves,
       SkipSendMoves DEF Moved
  <2>2. held' = held
    BY <2>1, TimersStep, Numbers DEF HoldInv, NotHeld
  <2>3. OnItsWay' => OnItsWay
    BY <1>8, QuietWay DEF TNext
  <2> QED BY <1>2, <2>1, <2>2, <2>3 DEF HoldInv, HeldShort, NotHeld
<1> QED BY <1>4, <1>5, <1>6, <1>7, <1>8, Steps DEF TNext

-----------------------------------------------------------------------------
(* The write at the head of the queue. *)

LEMMA FromZero == \A a \in Nat : 0 + a = a
  OBVIOUS
LEMMA SumsTyped == \A a, b, c \in Nat : a + 1 \in Nat /\ b + c + a \in Nat
  OBVIOUS
LEMMA OneMore ==
  ASSUME NEW a \in Nat, NEW b \in Nat, NEW c \in Nat, NEW d \in Nat,
         a + b <= c, d <= a + 1
  PROVE  d + b <= c + 1
  OBVIOUS

LEMMA WriteInit == TInit => WriteAge
  BY DEF TInit, Init, WriteAge

(* A reply or Home Assistant only adds to the queue. *)
LEMMA QueueGrows ==
  ASSUME TypeOK, AcceptReply \/ World, write_queue' = <<>>
  PROVE  write_queue = <<>>
<1>1. write_queue \in Seq(Writes)
  BY DEF TypeOK
<1>2. CASE AcceptReply
  <2>1. PICK heal : write_queue' = write_queue \o heal /\ heal \in Seq(Writes)
    BY <1>2, HealsTyped DEF AcceptReply
  <2>2. Len(write_queue \o heal) = Len(write_queue) + Len(heal)
    BY <1>1, <2>1, ConcatProperties
  <2> QED BY <1>1, <2>1, <2>2, EmptySeq, LenProperties
<1>3. CASE World
  <2>1. \/ write_queue' = write_queue
        \/ \E r \in Rooms : write_queue' = Append(write_queue, WriteReq(r, "setpoint"))
    BY <1>3 DEF World, AnswerAny, Answer, Lose, HaWrite, StartSchedule
  <2>2. ASSUME NEW r \in Rooms PROVE Append(write_queue, WriteReq(r, "setpoint")) # <<>>
    <3>1. WriteReq(r, "setpoint") \in Writes
      BY DEF Writes
    <3> QED BY <1>1, <3>1, AppendProperties, EmptySeq, LenProperties
  <2> QED BY <2>1, <2>2
<1> QED BY <1>2, <1>3

(* A write that waits behind a request has waited no longer than the       *)
(* request; a hold adds itself; and with neither the next send takes it.   *)
LEMMA WriteStep ==
  ASSUME TypeOK, LockstepInv, LinkInv, HoldInv, WriteAge, TNext
  PROVE  WriteAge'
<1>1. /\ ReplyBefore /\ held \in 0..Cap /\ held' \in 0..Cap
      /\ waited \in 0..Cap /\ waited' \in 0..Cap /\ tx_time <= clock
      /\ TimeoutTime = ReplyTimeout + 2 * MaxLoop
  BY TimersKeepType, TimerValues
     DEF LinkInv, TimersTyped, LockstepInv, WireInv, ClockInOrder, TimeoutTime
<1>2. lag' \in 0..MaxLoop /\ MaxLoop \in Nat
  <2>1. TypeOK'
    BY LoopTyped, WorldTyped DEF TNext, Next
  <2> QED BY <2>1, TimesAssumption DEF TypeOK, ClockTyped
<1> PassAge \in Nat /\ PassAge' \in Nat /\ 0 <= PassAge'
  <2>1. lag + 1 \in Nat /\ ReplyTimeout + MaxLoop + lag \in Nat
        /\ lag' + 1 \in Nat /\ ReplyTimeout + MaxLoop + lag' \in Nat
    <3>1. ReplyTimeout \in Nat /\ MaxLoop \in Nat /\ lag \in Nat /\ lag' \in Nat
      BY <1>2, Numbers
    <3> QED BY <3>1, SumsTyped
  <2>2. PassAge \in Nat
    BY <2>1 DEF PassAge
  <2>3. PassAge' \in Nat
    <3>1. CASE phase' = "drain"
      BY <2>1, <3>1 DEF PassAge
    <3>2. CASE phase' # "drain"
      BY <2>1, <3>2 DEF PassAge
    <3> QED BY <3>1, <3>2
  <2> QED BY <2>2, <2>3
(* What is to be shown, once the head has not waited or waits on. *)
<1>3. ASSUME waited' = 0, state' = "WAITING" => tx_time' <= clock', tx_time' \in Nat,
             clock' \in Nat
      PROVE  WriteAge'
  <2>2. 0 <= TimeoutTime + held'
    BY <1>1, Numbers
  <2>3. 0 + tx_time' = tx_time'
    BY <1>3, FromZero
  <2> QED BY <1>3, <2>2, <2>3 DEF WriteAge
<1>4. write_queue = <<>> => waited' = 0
  BY DEF TNext
<1>5. CASE AcceptReply
  <2>1. /\ state = "WAITING" /\ state' = "IDLE" /\ phase = "frames"
        /\ UNCHANGED <<clock, phase, lag, tx_time, quiet_until>> /\ quiet_until = 0
    BY <1>5, AcceptEffects, AcceptMoves DEF HoldInv, HoldSeen, NoHoldWaiting
  <2>2. clock <= tx_time + PassAge'
    BY <2>1, Numbers DEF HoldInv, HoldSeen, InFlightAge, SinceLook, PassAge
  <2>4. write_queue # <<>> => waited' = waited
    BY <2>1, TimersStep, SendWriteMoves
  <2>5. waited' <= PassAge'
    BY <1>1, <1>4, <2>1, <2>2, <2>4, Numbers DEF WriteAge
  <2>6. write_queue' = <<>> => waited' = 0
    <3>1. write_queue' = <<>> => write_queue = <<>>
      BY <1>5, QueueGrows
    <3> QED BY <1>4, <3>1
  <2> QED BY <2>1, <2>5, <2>6 DEF WriteAge
<1>6. CASE SendWrite \/ SendProbe \/ SendPoll \/ NothingDue
  <2>1. /\ UNCHANGED clock
        /\ tx_time' = clock \/ tx_time' = tx_time
        /\ write_queue = <<>> \/ SendWrite
    BY <1>6, SendMoves
  <2>2. waited' = 0
    BY <2>1, TimersStep
  <2> QED BY <1>1, <1>3, <2>1, <2>2, Numbers
(* From here on the queue keeps its head. *)
<1>7. ASSUME write_queue' = write_queue \/ phase = "drain", ~SendWrite,
             state' = "IDLE" /\ quiet_until' # 0 /\ write_queue # <<>> =>
               waited' <= TimeoutTime + held',
             state' = "IDLE" /\ quiet_until' = 0 /\ write_queue # <<>> => waited' <= PassAge',
             state' = "WAITING" /\ write_queue # <<>> => waited' + tx_time' <= clock',
             UNCHANGED tx_time, clock' >= clock, clock' \in Nat,
             write_queue' = <<>> => write_queue = <<>>
      PROVE  WriteAge'
  <2>1. CASE write_queue = <<>>
    BY <1>1, <1>3, <1>4, <1>7, <2>1, Numbers
  <2>2. CASE write_queue # <<>>
    BY <1>7, <2>2 DEF WriteAge
  <2> QED BY <2>1, <2>2
<1>8. CASE Expire
  <2>1. /\ state = "WAITING" /\ state' = "IDLE" /\ phase = "timeout"
        /\ quiet_until' = clock + ReplyTimeout
        /\ UNCHANGED <<clock, lag, tx_time, write_queue>> /\ ~SendWrite
    BY <1>1, <1>8, ExpireMoves, HubClock, SendWriteMoves
  <2>2. clock <= tx_time + TimeoutTime
    BY <1>1, <2>1, Numbers DEF HoldInv, HoldSeen, InFlightAge, SinceLook
  <2>3. write_queue # <<>> => waited' = waited
    BY <2>1, TimersStep
  <2>4. write_queue # <<>> => waited + tx_time <= clock
    BY <2>1 DEF WriteAge
  <2>5. write_queue # <<>> => waited' <= TimeoutTime + held'
    BY <1>1, <2>2, <2>3, <2>4, Numbers, SMTT(30)
  <2> QED BY <1>7, <2>1, <2>5, Numbers
<1>9. CASE Tick
  <2>1. /\ UNCHANGED <<phase, state, tx_time, quiet_until, write_queue>>
        /\ clock' = clock + 1 /\ lag' = lag + 1 /\ ~SendWrite
    BY <1>1, <1>9, HubClock, TickMoves, SendWriteMoves
  <2>2. write_queue # <<>> => waited' <= waited + 1
    BY <1>1, <2>1, CapAssumption DEF TNext, Elapse
  <2>3. state = "IDLE" /\ quiet_until # 0 =>
          held' = IF held < Cap THEN held + 1 ELSE held
    BY <2>1, Numbers DEF TNext, Elapse
  <2>4. write_queue # <<>> /\ state = "IDLE" /\ quiet_until # 0 =>
          waited' <= TimeoutTime + held'
    BY <1>1, <2>2, <2>3, Numbers, SMTT(30) DEF WriteAge
  <2>5. PassAge' = PassAge + 1 /\ PassAge \in Nat
    BY <2>1, Numbers DEF PassAge
  <2>6. write_queue # <<>> /\ state = "IDLE" /\ quiet_until = 0 => waited' <= PassAge'
    BY <1>1, <2>2, <2>5, Numbers DEF WriteAge
  <2>7. write_queue # <<>> /\ state = "WAITING" => waited' + tx_time' <= clock'
    <3>1. write_queue # <<>> /\ state = "WAITING" => waited + tx_time <= clock
      BY DEF WriteAge
    <3>2. ASSUME waited + tx_time <= clock, waited' <= waited + 1
          PROVE  waited' + tx_time' <= clock'
      <4>1. waited \in Nat /\ waited' \in Nat /\ tx_time \in Nat /\ clock \in Nat
        BY <1>1, Numbers
      <4>2. tx_time' = tx_time /\ clock' = clock + 1
        BY <2>1
      <4>3. waited' + tx_time <= clock + 1
        BY <3>2, <4>1, OneMore
      <4> QED BY <4>2, <4>3
    <3> QED BY <2>2, <3>1, <3>2
  <2> QED BY <1>7, <2>1, <2>4, <2>6, <2>7, Numbers
(* The rest of the loop and the world: only the pass of the loop moves. *)
<1>10. ASSUME UNCHANGED <<clock, state, tx_time>>, ~SendWrite,
              quiet_until = 0 <=> quiet_until' = 0,
              state = "IDLE" /\ quiet_until = 0 => PassAge <= PassAge',
              write_queue' = write_queue \/ phase = "drain",
              write_queue' = <<>> => write_queue = <<>>
       PROVE  WriteAge'
  <2>1. /\ write_queue # <<>> => waited' = waited
        /\ state = "IDLE" /\ quiet_until # 0 => held' = held
    BY <1>10, TimersStep
  <2>3. write_queue # <<>> /\ state = "IDLE" /\ quiet_until = 0 => waited' <= PassAge'
    BY <1>1, <1>10, <2>1 DEF WriteAge
  <2>4. /\ write_queue # <<>> /\ state = "IDLE" /\ quiet_until # 0 =>
             waited' <= TimeoutTime + held'
        /\ write_queue # <<>> /\ state = "WAITING" => waited' + tx_time' <= clock'
    BY <1>10, <2>1 DEF WriteAge
  <2> QED BY <1>7, <1>10, <2>3, <2>4, Numbers
<1>11. CASE DrainUart
  <2>1. /\ phase = "drain" /\ phase' = "frames" /\ lag' = 0 /\ ~SendWrite
        /\ UNCHANGED <<clock, state, tx_time, quiet_until, write_queue>>
    BY <1>11, DrainMoves, SendWriteMoves DEF Moved
  <2>2. PassAge <= PassAge'
    BY <2>1, Numbers DEF PassAge
  <2> QED BY <1>10, <2>1, <2>2
<1>12. CASE FramesDone \/ NotExpired \/ UpdateLink
  <2>1. /\ phase \in {"frames", "timeout", "link"} /\ phase' \in {"timeout", "link", "send"}
        /\ UNCHANGED <<clock, state, tx_time, quiet_until, write_queue, lag>> /\ ~SendWrite
    BY <1>12, FramesMoves, NotExpiredMoves, UpdateLinkMoves, SendWriteMoves DEF Moved
  <2>2. PassAge <= PassAge'
    BY <2>1, Numbers DEF PassAge
  <2> QED BY <1>10, <2>1, <2>2
<1>13. CASE SkipSend
  <2>1. /\ phase = "send" /\ phase' = "drain"
        /\ state = "WAITING" \/ quiet_until # 0
        /\ UNCHANGED <<clock, state, tx_time, quiet_until, write_queue, lag>>
    BY <1>13, SkipSendMoves DEF Moved, Holding
  <2>2. ~SendWrite
    BY <2>1, SendWriteMoves
  <2> QED BY <1>10, <2>1, <2>2
<1>14. CASE DiscardReply
  <2>1. /\ phase = "frames" /\ state = "IDLE" /\ ~SendWrite
        /\ UNCHANGED <<clock, phase, lag, state, tx_time, write_queue>>
        /\ quiet_until' = IF clock < quiet_until THEN clock + ReplyTimeout ELSE quiet_until
    BY <1>1, <1>14, DiscardMoves, HubClock, SendWriteMoves, Numbers DEF InHold
  <2>2. (quiet_until = 0 <=> quiet_until' = 0) /\ PassAge <= PassAge'
    BY <2>1, Numbers DEF PassAge
  <2> QED BY <1>10, <2>1, <2>2
<1>15. CASE World
  <2>1. /\ UNCHANGED <<clock, phase, lag, state, tx_time, quiet_until>> /\ ~SendWrite
        /\ write_queue' = write_queue \/ phase = "drain"
    BY <1>15, WorldMoves, SendWriteMoves
  <2>2. write_queue' = <<>> => write_queue = <<>>
    BY <1>15, QueueGrows
  <2>3. PassAge <= PassAge'
    BY <2>1, Numbers DEF PassAge
  <2> QED BY <1>10, <2>1, <2>2, <2>3
<1> QED BY <1>5, <1>6, <1>8, <1>9, <1>11, <1>12, <1>13, <1>14, <1>15, Steps DEF TNext

-----------------------------------------------------------------------------
(* Every behaviour of the timed hub is one of the hub. *)
LEMMA TimedIsHub == TSpec => Spec
<1>1. TInit => Init
  BY DEF TInit
<1>2. [TNext]_timingVars => [Next]_vars
  BY DEF TNext, timingVars
<1> QED BY <1>1, <1>2, PTL DEF TSpec, Spec

(* What the stop-watches read, for ever: the invariant behind the bounds.  *)
THEOREM TimingInvariant == TSpec => []TimingInv
<1>1. TInit => TimingInv
  BY LinkInit, HoldInit, WriteInit DEF TimingInv
<1>2. TypeOK /\ LockstepInv /\ TimingInv /\ [TNext]_timingVars => TimingInv'
  <2> SUFFICES ASSUME TypeOK, LockstepInv, TimingInv, [TNext]_timingVars PROVE TimingInv'
    OBVIOUS
  <2>1. CASE TNext
    BY <2>1, LinkStep, HoldStep, WriteStep DEF TimingInv
  <2>2. CASE UNCHANGED timingVars
    <3>1. /\ UNCHANGED <<clock, phase, lag, state, tx_time, quiet_until, write_queue>>
          /\ UNCHANGED <<got_reply, last_reply, link, wire, uart, rx_buf>>
          /\ UNCHANGED <<silence, contact, held, waited>>
      BY <2>2 DEF timingVars, vars, timers, txVars, linkVars, busVars
    <3> QED BY <3>1 DEF TimingInv, LinkInv, HoldInv, TimersTyped, SilenceTrue, ReplyBefore,
               LinkLooked, NoHoldWaiting, InFlightAge, HoldAge, HeldShort, NotHeld,
               WriteAge, PassAge, SinceLook, OnItsWay, HoldSeen
  <2> QED BY <2>1, <2>2
<1> QED BY <1>1, <1>2, TimedIsHub, TypeCorrect, LockstepInvariant, PTL DEF TSpec

(* "connected" is never older than the link timeout and two passes of the  *)
(* loop: the pass that looked, and the one until the next look             *)
(* (update_link_).                                                         *)
THEOREM LinkIsRecent == TSpec => []ConnectedIsRecent
<1>1. TypeOK /\ TimingInv => ConnectedIsRecent
  <2> SUFFICES ASSUME TypeOK, TimingInv, link.connected
               PROVE  silence <= LinkTimeout + 2 * MaxLoop
    BY DEF ConnectedIsRecent
  <2>1. clock - last_reply <= LinkTimeout + 2 * MaxLoop /\ got_reply
    BY Numbers DEF TimingInv, LinkInv, LinkLooked, SinceLook
  <2> QED BY <2>1, Numbers DEF TimingInv, LinkInv, SilenceTrue
<1> QED BY <1>1, TimedIsHub, TypeCorrect, TimingInvariant, PTL

(* The link is dropped only after a silence longer than the timeout, and   *)
(* raised only within one (update_link_).                                  *)
THEOREM LinkEdgesAreHonest == TSpec => LinkEdgesHonest
<1> DEFINE Edge ==
      /\ link.connected /\ ~link'.connected => silence > LinkTimeout
      /\ ~link.connected /\ link'.connected => silence <= LinkTimeout
<1>1. TypeOK /\ LockstepInv /\ TimingInv /\ [TNext]_timingVars => [Edge]_timingVars
  <2> SUFFICES ASSUME TypeOK, LockstepInv, TimingInv, TNext PROVE Edge
    OBVIOUS
  <2>1. CASE UpdateLink
    <3>1. link'.connected <=> got_reply /\ clock - last_reply <= LinkTimeout
      <4>1. last_reply \in 0..clock
        BY Numbers DEF TimingInv, LinkInv, ReplyBefore
      <4> QED BY <2>1, <4>1, UpdateLinkMoves, HubClock DEF Connected
    <3>2. link.connected => got_reply
      BY DEF TimingInv, LinkInv, LinkLooked
    <3>3. got_reply => silence = IF clock - last_reply < Cap THEN clock - last_reply ELSE Cap
      BY DEF TimingInv, LinkInv, SilenceTrue
    <3>4. got_reply => (silence <= LinkTimeout <=> clock - last_reply <= LinkTimeout)
                       /\ silence \in Int
      BY <3>3, CapAssumption, Numbers
    <3>5. got_reply => (silence > LinkTimeout <=> ~(silence <= LinkTimeout))
      BY <3>4, Numbers
    <3> QED BY <3>1, <3>2, <3>4, <3>5
  <2>2. CASE ~UpdateLink
    <3>1. link' = link
      BY <2>2, Steps, DrainMoves, DiscardMoves, AcceptEffects, FramesMoves, ExpireMoves,
         NotExpiredMoves, SkipSendMoves, SendMoves, TickMoves, WorldMoves DEF TNext
    <3> QED BY <3>1
  <2> QED BY <2>1, <2>2
<1> QED BY <1>1, TimedIsHub, TypeCorrect, LockstepInvariant, TimingInvariant, PTL
        DEF TSpec, LinkEdgesHonest

(* A hold keeps the bus quiet for two timeouts and two passes of the loop  *)
(* at most, whatever late replies come (handle_frame_ restarts it,         *)
(* maybe_send_next_ ends it).                                              *)
THEOREM HoldsEnd == TSpec => []HoldBounded
<1>1. TypeOK /\ TimingInv => HoldBounded
  <2> SUFFICES ASSUME TypeOK, TimingInv PROVE held <= HoldTime
    BY DEF HoldBounded
  <2>1. CASE state = "WAITING" \/ quiet_until = 0
    BY <2>1, Numbers DEF TimingInv, HoldInv, NotHeld, HoldTime
  <2>2. CASE state = "IDLE" /\ quiet_until # 0
    <3>1. clock < quiet_until + 2 * MaxLoop /\ held + quiet_until < clock + 2 * ReplyTimeout
      BY <2>2, Numbers DEF TimingInv, HoldInv, HoldSeen, HoldAge, HeldShort, SinceLook
    <3>2. held \in Nat
      BY TimerValues, Numbers DEF TimingInv, LinkInv
    <3> QED BY <3>1, <3>2, Numbers DEF HoldTime
  <2> QED BY <2>1, <2>2, Numbers
<1> QED BY <1>1, TimedIsHub, TypeCorrect, TimingInvariant, PTL

(* The write at the head of the queue waits for one transaction and its    *)
(* hold at most (queue_write, maybe_send_next_).                           *)
THEOREM WritesArePrompt == TSpec => []WritePrompt
<1>1. TypeOK /\ TimingInv /\ HoldBounded => WritePrompt
  <2> SUFFICES ASSUME TypeOK, TimingInv, HoldBounded PROVE waited <= TurnTime
    BY DEF WritePrompt
  <2>1. /\ TimeoutTime = ReplyTimeout + 2 * MaxLoop /\ TurnTime = TimeoutTime + HoldTime
        /\ HoldTime = 2 * (ReplyTimeout + MaxLoop - 1) /\ held <= HoldTime
        /\ held \in Nat /\ waited \in Nat
    BY TimerValues, Numbers
       DEF TimingInv, LinkInv, HoldBounded, HoldTime, TimeoutTime, TurnTime
  <2>2. CASE write_queue = <<>>
    BY <2>1, <2>2, Numbers DEF TimingInv, WriteAge
  <2>3. CASE write_queue # <<>> /\ state = "WAITING"
    <3>1. waited + tx_time <= clock
      BY <2>3 DEF TimingInv, WriteAge
    <3>2. clock <= tx_time + TimeoutTime
      <4>1. clock <= tx_time + ReplyTimeout + SinceLook({"link", "send", "drain"})
        BY <2>3 DEF TimingInv, HoldInv, HoldSeen, InFlightAge
      <4>2. SinceLook({"link", "send", "drain"}) \in 0..2 * MaxLoop
        BY Numbers DEF SinceLook
      <4> QED BY <2>1, <4>1, <4>2, Numbers
    <3> QED BY <2>1, <3>1, <3>2, Numbers
  <2>4. CASE write_queue # <<>> /\ state = "IDLE"
    <3>1. PassAge <= TimeoutTime /\ PassAge \in Nat
      BY <2>1, Numbers DEF PassAge
    <3>2. waited <= TimeoutTime + held \/ waited <= PassAge
      BY <2>4 DEF TimingInv, WriteAge
    <3> QED BY <2>1, <3>1, <3>2, Numbers
  <2> QED BY <2>2, <2>3, <2>4, Numbers
<1> QED BY <1>1, HoldsEnd, TimedIsHub, TypeCorrect, TimingInvariant, PTL

-----------------------------------------------------------------------------
(* The round of the poll list. *)

LEMMA PollNumbers ==
  ASSUME TypeOK, NEW i \in DOMAIN PollList
  PROVE  /\ Len(PollList) \in Nat /\ Len(PollList) > 0 /\ i \in 1..Len(PollList)
         /\ DOMAIN PollList = 1..Len(PollList)
         /\ poll_idx \in 0..(Len(PollList) - 1)
         /\ PollList[i].interval \in Nat /\ PollList[i].control \in BOOLEAN
         /\ last_ms[i] \in Nat /\ last_ms \in [DOMAIN PollList -> Nat]
<1>1. Len(PollList) \in Nat /\ DOMAIN PollList = 1..Len(PollList)
  BY PollListAssumption, LenProperties
<1>2. i \in 1..Len(PollList) /\ PollList # <<>>
  BY <1>1, EmptySeq
<1>3. poll_idx \in 0..(Len(PollList) - 1)
  BY <1>1, <1>2 DEF TypeOK, PollTyped
<1>4. PollList[i].interval \in Nat /\ PollList[i].control \in BOOLEAN
  BY PollItemTyped
<1>5. last_ms \in [DOMAIN PollList -> Nat]
  BY TimesAssumption DEF TypeOK, PollTyped
<1> QED BY <1>1, <1>2, <1>3, <1>4, <1>5

LEMMA RoundMod ==
  ASSUME NEW n \in Nat, n > 0, NEW x \in Int
  PROVE  /\ 0 <= x /\ x < n => x % n = x
         /\ -n <= x /\ x < 0 => x % n = x + n
         /\ n <= x /\ x < 2 * n => x % n = x - n
  OBVIOUS

(* What stands k places ahead in the round is the k-th item scanned.       *)
LEMMA AheadIs ==
  ASSUME TypeOK, NEW i \in DOMAIN PollList
  PROVE  /\ Ahead(i) = IF i - 1 >= poll_idx THEN i - 1 - poll_idx
                       ELSE i - 1 - poll_idx + Len(PollList)
         /\ Ahead(i) \in 0..(Len(PollList) - 1)
         /\ RoundItem(Ahead(i)) = i
<1> DEFINE n == Len(PollList)
<1>1. n \in Nat /\ n > 0 /\ i \in 1..n /\ poll_idx \in 0..(n - 1)
  BY PollNumbers
<1> HIDE DEF n
<1>2. Ahead(i) = (i - 1 - poll_idx) % n
  BY DEF Ahead, n
<1>3. CASE i - 1 >= poll_idx
  <2>1. (i - 1 - poll_idx) % n = i - 1 - poll_idx
    BY <1>1, <1>3, RoundMod
  <2>2. poll_idx + (i - 1 - poll_idx) = i - 1 /\ (i - 1) % n = i - 1
    BY <1>1, RoundMod
  <2>3. RoundItem(Ahead(i)) = i
    BY <1>1, <1>2, <2>1, <2>2 DEF RoundItem, n
  <2>4. i - 1 - poll_idx \in 0..(n - 1)
    BY <1>1, <1>3
  <2> QED BY <1>2, <1>3, <2>1, <2>3, <2>4 DEF n
<1>4. CASE i - 1 < poll_idx
  <2>1. (i - 1 - poll_idx) % n = i - 1 - poll_idx + n
    BY <1>1, <1>4, RoundMod
  <2>2. poll_idx + (i - 1 - poll_idx + n) = i - 1 + n /\ (i - 1 + n) % n = i - 1
    BY <1>1, RoundMod
  <2>3. RoundItem(Ahead(i)) = i
    BY <1>1, <1>2, <2>1, <2>2 DEF RoundItem, n
  <2>4. i - 1 - poll_idx + n \in 0..(n - 1) /\ ~(i - 1 >= poll_idx)
    BY <1>1, <1>4
  <2> QED BY <1>2, <2>1, <2>3, <2>4 DEF n
<1> QED BY <1>1, <1>3, <1>4

LEMMA RoundItemAhead ==
  ASSUME TypeOK, NEW k \in 0..(Len(PollList) - 1)
  PROVE  RoundItem(k) \in DOMAIN PollList /\ Ahead(RoundItem(k)) = k
<1> DEFINE n == Len(PollList)
<1>1. RoundItem(k) \in DOMAIN PollList
  BY SentRequest
<1>2. n \in Nat /\ n > 0 /\ poll_idx \in 0..(n - 1) /\ k \in 0..(n - 1)
      /\ RoundItem(k) \in 1..n
  BY <1>1, PollNumbers
<1>3. Ahead(RoundItem(k)) = IF RoundItem(k) - 1 >= poll_idx THEN RoundItem(k) - 1 - poll_idx
                            ELSE RoundItem(k) - 1 - poll_idx + n
  BY <1>1, AheadIs
<1>4. RoundItem(k) = ((poll_idx + k) % n) + 1
  BY DEF RoundItem
<1> HIDE DEF n
<1>5. CASE poll_idx + k < n
  <2>1. (poll_idx + k) % n = poll_idx + k
    BY <1>2, <1>5, RoundMod
  <2>2. RoundItem(k) = poll_idx + k + 1
    BY <1>2, <1>4, <2>1
  <2>3. RoundItem(k) - 1 >= poll_idx /\ RoundItem(k) - 1 - poll_idx = k
    BY <1>2, <2>2
  <2> QED BY <1>1, <1>3, <2>3
<1>6. CASE poll_idx + k >= n
  <2>1. (poll_idx + k) % n = poll_idx + k - n
    BY <1>2, <1>6, RoundMod
  <2>2. RoundItem(k) = poll_idx + k - n + 1
    BY <1>2, <1>4, <2>1
  <2>3. ~(RoundItem(k) - 1 >= poll_idx) /\ RoundItem(k) - 1 - poll_idx + n = k
    BY <1>2, <2>2
  <2> QED BY <1>1, <1>3, <2>3
<1> QED BY <1>1, <1>2, <1>5, <1>6

(* The item sent last stands at the end of the round. *)
LEMMA LastIsLast ==
  ASSUME TypeOK, PollList # <<>>
  PROVE  LastItem \in DOMAIN PollList /\ Ahead(LastItem) = Len(PollList) - 1
<1>1. Len(PollList) \in Nat /\ Len(PollList) > 0 /\ DOMAIN PollList = 1..Len(PollList)
  BY PollListAssumption, LenProperties, EmptySeq
<1>2. poll_idx \in 0..(Len(PollList) - 1)
  BY <1>1 DEF TypeOK, PollTyped
<1>3. LastItem \in DOMAIN PollList
  BY <1>1, <1>2 DEF LastItem
<1> QED BY <1>1, <1>2, <1>3, AheadIs DEF LastItem

LEMMA RoundSum ==
  ASSUME NEW n \in Nat, NEW i \in 1..n, NEW j \in 1..n, NEW p \in 0..(n - 1)
  PROVE  LET a == IF i - 1 >= p THEN i - 1 - p ELSE i - 1 - p + n
             b == IF j - 1 >= p THEN j - 1 - p ELSE j - 1 - p + n
             q == IF j = n THEN 0 ELSE j
         IN  (IF i - 1 >= q THEN i - 1 - q ELSE i - 1 - q + n) =
             IF a > b THEN a - b - 1 ELSE a - b - 1 + n
<1>1. CASE j = n
  BY <1>1
<1>2. CASE j # n
  BY <1>2
<1> QED BY <1>1, <1>2

(* Sending item j turns the round until j is its last. *)
LEMMA RoundTurns ==
  ASSUME TypeOK, NEW j \in DOMAIN PollList, poll_idx' = j % Len(PollList)
  PROVE  /\ \A i \in DOMAIN PollList :
              Ahead(i)' = IF Ahead(i) > Ahead(j) THEN Ahead(i) - Ahead(j) - 1
                          ELSE Ahead(i) - Ahead(j) - 1 + Len(PollList)
         /\ LastItem' = j
<1> DEFINE n == Len(PollList)
<1>1. n \in Nat /\ n > 0 /\ j \in 1..n /\ poll_idx \in 0..(n - 1)
  BY PollNumbers
<1>2. poll_idx' = IF j = n THEN 0 ELSE j
  <2>1. poll_idx' = j % n
    OBVIOUS
  <2> HIDE DEF n
  <2> QED BY <1>1, <2>1, RoundMod
<1>3. ASSUME NEW i \in DOMAIN PollList
      PROVE  Ahead(i)' = IF Ahead(i) > Ahead(j) THEN Ahead(i) - Ahead(j) - 1
                         ELSE Ahead(i) - Ahead(j) - 1 + n
  <2>1. i \in 1..n
    BY PollNumbers
  <2>2. /\ Ahead(i) = IF i - 1 >= poll_idx THEN i - 1 - poll_idx ELSE i - 1 - poll_idx + n
        /\ Ahead(j) = IF j - 1 >= poll_idx THEN j - 1 - poll_idx ELSE j - 1 - poll_idx + n
    BY AheadIs
  <2>3. Ahead(i)' = (i - 1 - poll_idx') % n
    BY DEF Ahead
  <2> HIDE DEF n
  <2>4. PICK q \in 0..(n - 1) : q = poll_idx' /\ q = IF j = n THEN 0 ELSE j
    BY <1>1, <1>2
  <2>5. (i - 1 - q) % n = IF i - 1 >= q THEN i - 1 - q ELSE i - 1 - q + n
    <3>1. CASE i - 1 >= q
      <4>1. 0 <= i - 1 - q /\ i - 1 - q < n /\ i - 1 - q \in Int
        BY <1>1, <2>1, <3>1
      <4> QED BY <1>1, <3>1, <4>1, RoundMod
    <3>2. CASE ~(i - 1 >= q)
      <4>1. -n <= i - 1 - q /\ i - 1 - q < 0 /\ i - 1 - q \in Int
        BY <1>1, <2>1, <3>2
      <4> QED BY <1>1, <3>2, <4>1, RoundMod
    <3> QED BY <3>1, <3>2
  <2>6. PICK p \in 0..(n - 1) : p = poll_idx
    BY <1>1
  <2>7. PICK a \in Int : a = Ahead(i) /\ a = IF i - 1 >= p THEN i - 1 - p ELSE i - 1 - p + n
    BY <1>1, <2>1, <2>2, <2>6
  <2>8. PICK b \in Int : b = Ahead(j) /\ b = IF j - 1 >= p THEN j - 1 - p ELSE j - 1 - p + n
    BY <1>1, <2>2, <2>6
  <2>9. (IF i - 1 >= q THEN i - 1 - q ELSE i - 1 - q + n) =
        IF a > b THEN a - b - 1 ELSE a - b - 1 + n
    <3>1. n \in Nat /\ i \in 1..n /\ j \in 1..n /\ p \in 0..(n - 1)
      BY <1>1, <2>1
    <3>2. a = (IF i - 1 >= p THEN i - 1 - p ELSE i - 1 - p + n)
      BY <2>7
    <3>3. b = (IF j - 1 >= p THEN j - 1 - p ELSE j - 1 - p + n)
      BY <2>8
    <3>4. q = IF j = n THEN 0 ELSE j
      BY <2>4
    <3> QED
      <4> HIDE <3>2, <3>3, <3>4
      <4>1. LET a1 == IF i - 1 >= p THEN i - 1 - p ELSE i - 1 - p + n
                b1 == IF j - 1 >= p THEN j - 1 - p ELSE j - 1 - p + n
                q1 == IF j = n THEN 0 ELSE j
            IN  (IF i - 1 >= q1 THEN i - 1 - q1 ELSE i - 1 - q1 + n) =
                IF a1 > b1 THEN a1 - b1 - 1 ELSE a1 - b1 - 1 + n
        BY <3>1, RoundSum
      <4> QED BY <3>2, <3>3, <3>4, <4>1
  <2> QED BY <2>3, <2>4, <2>5, <2>7, <2>8, <2>9
<1>4. LastItem' = j
  BY <1>1, <1>2 DEF LastItem
<1> QED BY <1>3, <1>4

-----------------------------------------------------------------------------
(* The turns taken while an item waits. *)

LEMMA ResettableFinite ==
  ASSUME NEW items, items \subseteq DOMAIN PollList
  PROVE  IsFiniteSet(Resettable(items)) /\ Cardinality(Resettable(items)) \in Nat
<1>1. Resettable(items) \subseteq 1..Len(PollList) /\ Len(PollList) \in Nat
  BY PollListAssumption, LenProperties DEF Resettable
<1>2. IsFiniteSet(1..Len(PollList))
  BY <1>1, FS_Interval
<1>3. IsFiniteSet(Resettable(items))
  BY <1>1, <1>2, FS_Subset
<1> QED BY <1>3, FS_CardinalityType

LEMMA FewerResettable ==
  ASSUME NEW some, NEW more, some \subseteq more, more \subseteq DOMAIN PollList,
         NEW j \in more, j \notin some
  PROVE  Cardinality(Resettable(some)) + (IF PollList[j].control THEN 1 ELSE 0)
           <= Cardinality(Resettable(more))
<1> DEFINE A == Resettable(some)
           C == Resettable(more)
<1>1. A \subseteq C /\ IsFiniteSet(A) /\ IsFiniteSet(C)
      /\ Cardinality(A) \in Nat /\ Cardinality(C) \in Nat
  BY ResettableFinite DEF Resettable
<1>2. j \notin A /\ (PollList[j].control => j \in C)
  BY DEF Resettable
<1> HIDE DEF A, C
<1>3. CASE PollList[j].control
  <2>1. IsFiniteSet(A \cup {j}) /\ Cardinality(A \cup {j}) = Cardinality(A) + 1
    BY <1>1, <1>2, FS_AddElement
  <2>2. Cardinality(A \cup {j}) <= Cardinality(C)
    <3>1. A \cup {j} \subseteq C
      BY <1>1, <1>2, <1>3
    <3> QED BY <1>1, <3>1, FS_Subset
  <2> QED BY <1>1, <1>3, <2>1, <2>2 DEF A, C
<1>4. CASE ~PollList[j].control
  <2>1. Cardinality(A) <= Cardinality(C)
    BY <1>1, FS_Subset
  <2> QED BY <1>1, <1>4, <2>1 DEF A, C
<1> QED BY <1>3, <1>4

LEMMA LoadTyped ==
  ASSUME TypeOK
  PROVE  /\ Load \in Nat /\ ResetPending \in 0..1 /\ ResetAllowed \in 0..1
         /\ Len(write_queue) \in Nat /\ disc_idx \in Nat /\ ha_writes \in Nat
         /\ Len(discovery) \in Nat /\ disc_idx <= Len(discovery)
<1>1. Len(write_queue) \in Nat /\ Len(discovery) \in Nat
  BY LenProperties DEF TypeOK, DiscTyped
<1>2. disc_idx \in 0..Len(discovery) /\ ha_writes \in Nat
  BY EnvironmentAssumption DEF TypeOK, DiscTyped, EnvTyped
<1>3. ResetPending \in 0..1 /\ ResetAllowed \in 0..1
  BY DEF ResetPending, ResetAllowed
<1> QED BY <1>1, <1>2, <1>3 DEF Load

(* Fewer turns than the items, their resets, the probes and the writes     *)
(* asked for are taken before an item is next; never less than none.       *)
LEMMA TurnsTakenIs ==
  ASSUME TypeOK, WritesAccounted, NEW i \in DOMAIN PollList
  PROVE  /\ TurnsTaken(i) \in Nat
         /\ TurnsTaken(i) + 1 <= Turns + Len(discovery) + ha_writes
         /\ Turns + Len(discovery) + ha_writes \in Nat
<1>1. PollList # <<>> /\ Before(i) \subseteq DOMAIN PollList
      /\ Len(PollList) \in Nat /\ Ahead(i) \in 0..(Len(PollList) - 1)
  BY PollNumbers, AheadIs, EmptySeq DEF Before
<1>2. /\ Cardinality(Resettable(Before(i))) \in Nat
      /\ Cardinality(Resettable(DOMAIN PollList)) \in Nat
  BY <1>1, ResettableFinite
<1>3. LastItem \in DOMAIN PollList /\ LastItem \notin Before(i)
  BY <1>1, LastIsLast DEF Before
<1>4. Cardinality(Resettable(Before(i))) + (IF PollList[LastItem].control THEN 1 ELSE 0)
        <= Cardinality(Resettable(DOMAIN PollList))
  BY <1>1, <1>3, FewerResettable
<1>5. Load <= ha_writes + (IF PollList[LastItem].control THEN 1 ELSE 0)
  BY <1>1 DEF WritesAccounted, ResetAllowed
<1>6. Turns = Len(PollList) + Cardinality(Resettable(DOMAIN PollList))
  BY DEF Turns, Resettable
<1>7. PICK c \in Int : c = IF PollList[LastItem].control THEN 1 ELSE 0
  OBVIOUS
<1>8. PICK all \in Int : all = Cardinality(Resettable(DOMAIN PollList))
  BY <1>2
<1>9. PICK some \in Int : some = Cardinality(Resettable(Before(i)))
  BY <1>2
<1>10. some \in Nat /\ all \in Nat /\ some + c <= all /\ Load <= ha_writes + c /\ c >= 0
  BY <1>2, <1>4, <1>5, <1>7, <1>8, <1>9
<1>11. TurnsTaken(i) = Len(PollList) - 1 - Ahead(i) + all - some + disc_idx + ha_writes - Load
  BY <1>8, <1>9 DEF TurnsTaken
<1>12. Turns = Len(PollList) + all
  BY <1>6, <1>8
<1>13. /\ Load \in Nat /\ disc_idx \in Nat /\ ha_writes \in Nat
       /\ Len(discovery) \in Nat /\ disc_idx <= Len(discovery)
  BY LoadTyped
<1>14. PICK len, a \in Int : len = Len(PollList) /\ a = Ahead(i)
  BY <1>1
<1>15. len \in Nat /\ a \in 0..(len - 1)
  BY <1>1, <1>14
<1>16. TurnsTaken(i) = len - 1 - a + all - some + disc_idx + ha_writes - Load
       /\ Turns = len + all
  BY <1>11, <1>12, <1>14
<1> QED BY <1>10, <1>13, <1>15, <1>16

(* What a poll sent does: it is the first due of the round, and no write   *)
(* waits.                                                                  *)
LEMMA PollMoves ==
  ASSUME TypeOK, InFlightWaits, SendPoll
  PROVE  \E j \in DOMAIN PollList :
           /\ \A i \in DOMAIN PollList : Due(i) => Ahead(i) >= Ahead(j)
           /\ last_ms' = [last_ms EXCEPT ![j] = clock] /\ poll_idx' = j % Len(PollList)
           /\ in_flight' = PollReq(j) \/ in_flight' = NoRequest
           /\ in_flight = NoRequest /\ write_queue = <<>>
           /\ UNCHANGED <<write_queue, disc_idx, ha_writes>>
<1>1. PICK k \in 0..(Len(PollList) - 1) :
        /\ FirstDue(k) /\ last_ms' = [last_ms EXCEPT ![RoundItem(k)] = clock]
        /\ poll_idx' = RoundItem(k) % Len(PollList)
        /\ Transmit(PollReq(RoundItem(k))) \/ UNCHANGED txVars
  BY DEF SendPoll
<1>2. RoundItem(k) \in DOMAIN PollList /\ Ahead(RoundItem(k)) = k
  BY RoundItemAhead
<1>3. ASSUME NEW i \in DOMAIN PollList, Due(i) PROVE Ahead(i) >= k
  <2>1. Ahead(i) \in 0..(Len(PollList) - 1) /\ RoundItem(Ahead(i)) = i
    BY AheadIs
  <2>2. \A j \in 0..(k - 1) : ~Due(RoundItem(j))
    BY <1>1 DEF FirstDue
  <2>3. Ahead(i) \notin 0..(k - 1)
    BY <1>3, <2>1, <2>2
  <2>4. Len(PollList) \in Nat
    BY PollNumbers
  <2> QED BY <2>1, <2>3, <2>4
<1>4. in_flight = NoRequest /\ write_queue = <<>>
      /\ UNCHANGED <<write_queue, disc_idx, ha_writes>>
  BY DEF SendPoll, MayPoll, MaySend, InFlightWaits, envVars
<1>5. in_flight' = PollReq(RoundItem(k)) \/ in_flight' = NoRequest
  BY <1>1, <1>4 DEF Transmit, txVars
<1> QED BY <1>1, <1>2, <1>3, <1>4, <1>5

LEMMA NoPollPending ==
  /\ in_flight.kind # "poll" => ResetPending = 0
  /\ in_flight'.kind # "poll" => ResetPending' = 0
  /\ in_flight = NoRequest => ResetPending = 0
  /\ in_flight' = NoRequest => ResetPending' = 0
  BY DEF ResetPending, NoRequest

(* In every other step the load grows by no more than Home Assistant asks, *)
(* and a write or a probe sent takes a turn.                               *)
LEMMA LoadMoves ==
  ASSUME TypeOK, InFlightWaits, Next, ~SendPoll
  PROVE  /\ UNCHANGED <<last_ms, poll_idx>>
         /\ Load' \in Nat /\ ha_writes' \in Nat /\ disc_idx' \in Nat
         /\ Load' - ha_writes' <= Load - ha_writes
         /\ disc_idx' >= disc_idx
         /\ SendWrite \/ SendProbe =>
              disc_idx' + ha_writes' - Load' >= disc_idx + ha_writes - Load + 1
<1>1. /\ Load = Len(write_queue) + ResetPending /\ Load' = Len(write_queue') + ResetPending'
      /\ write_queue \in Seq(Writes) /\ Len(write_queue) \in Nat
      /\ ResetPending \in 0..1 /\ disc_idx \in Nat /\ ha_writes \in Nat
  BY LoadTyped DEF Load, TypeOK
<1>2. CASE AcceptReply
  <2>1. PICK rep : write_queue' = write_queue \o HealWrites(rep)
    BY <1>2 DEF AcceptReply
  <2>2. HealWrites(rep) \in Seq(Writes) /\ Len(HealWrites(rep)) <= ResetPending
        /\ Len(HealWrites(rep)) \in Nat
    <3>1. HealWrites(rep) \in Seq(Writes)
      BY HealsTyped
    <3>2. Len(HealWrites(rep)) <= ResetPending
      BY DEF HealWrites, ResetPending
    <3> QED BY <3>1, <3>2, LenProperties
  <2>3. Len(write_queue') = Len(write_queue) + Len(HealWrites(rep))
    BY <1>1, <2>1, <2>2, ConcatProperties
  <2>4. /\ UNCHANGED <<last_ms, poll_idx, ha_writes, disc_idx>> /\ ResetPending' = 0
        /\ ~SendWrite /\ ~SendProbe
    BY <1>2, NoPollPending
       DEF AcceptReply, FinishTransaction, pollVars, envVars, SendWrite, SendProbe, MaySend
  <2> QED BY <1>1, <2>2, <2>3, <2>4
<1>3. CASE SendWrite
  <2>1. Len(write_queue') = Len(write_queue) - 1 /\ Len(write_queue) > 0
    <3>1. write_queue # <<>> /\ write_queue' = Tail(write_queue)
      BY <1>3 DEF SendWrite
    <3>2. Len(write_queue) > 0
      BY <1>1, <3>1, EmptySeq
    <3> QED BY <1>1, <3>1, <3>2, HeadTailProperties
  <2>2. ResetPending' = 0 /\ ResetPending = 0
    <3>1. in_flight' = Head(write_queue) /\ in_flight = NoRequest /\ write_queue # <<>>
      BY <1>3 DEF SendWrite, Transmit, MaySend, InFlightWaits
    <3>2. Head(write_queue) \in Writes
      BY <1>1, <3>1, HeadTailProperties
    <3>3. Head(write_queue).kind = "write"
      <4>1. PICK r \in Rooms, a \in {"setpoint", "control"} : Head(write_queue) = WriteReq(r, a)
        BY <3>2 DEF Writes
      <4> QED BY <4>1 DEF WriteReq
    <3> QED BY <3>1, <3>3, NoPollPending
  <2>3. UNCHANGED <<last_ms, poll_idx, ha_writes, disc_idx>>
    BY <1>3 DEF SendWrite, pollVars, discVars, envVars
  <2> QED BY <1>1, <2>1, <2>2, <2>3
<1>4. CASE SendProbe
  <2>1. ResetPending' = 0 /\ ResetPending = 0
    <3>1. in_flight'.kind = "probe" /\ in_flight = NoRequest
      BY <1>4 DEF SendProbe, Transmit, ProbeReq, MaySend, InFlightWaits
    <3> QED BY <3>1, NoPollPending
  <2>2. UNCHANGED <<last_ms, poll_idx, ha_writes, write_queue>> /\ disc_idx' = disc_idx + 1
    BY <1>4 DEF SendProbe, pollVars, envVars
  <2> QED BY <1>1, <2>1, <2>2
<1>5. CASE Expire
  <2>1. /\ ResetPending' = 0 /\ ~SendWrite /\ ~SendProbe
        /\ UNCHANGED <<last_ms, poll_idx, ha_writes, write_queue, disc_idx>>
    BY <1>5, NoPollPending
       DEF Expire, FinishTransaction, pollVars, discVars, envVars, SendWrite, SendProbe, MaySend
  <2> QED BY <1>1, <2>1
<1>6. CASE \E r \in Rooms : HaWrite(r)
  <2>1. PICK r \in Rooms : HaWrite(r)
    BY <1>6
  <2>2. Len(write_queue') = Len(write_queue) + 1
    <3>1. WriteReq(r, "setpoint") \in Writes
      BY DEF Writes
    <3> QED BY <1>1, <2>1, <3>1, AppendProperties DEF HaWrite
  <2>3. /\ UNCHANGED <<last_ms, poll_idx, disc_idx, in_flight>> /\ ha_writes' = ha_writes + 1
        /\ ~SendWrite /\ ~SendProbe
    BY <2>1 DEF HaWrite, txVars, discVars, pollVars, SendWrite, SendProbe, MaySend
  <2>4. ResetPending' = ResetPending
    BY <2>3 DEF ResetPending
  <2> QED BY <1>1, <2>2, <2>3, <2>4
<1>7. ASSUME UNCHANGED <<last_ms, poll_idx, disc_idx, in_flight, ha_writes, write_queue>>,
             ~SendWrite, ~SendProbe
      PROVE  UNCHANGED Load
  BY <1>7 DEF Load, ResetPending
<1>8. CASE /\ DrainUart \/ DiscardReply \/ FramesDone \/ NotExpired \/ UpdateLink \/ SkipSend
              \/ NothingDue \/ Tick \/ AnswerAny \/ Lose \/ \E r \in Rooms : StartSchedule(r)
           /\ ~SendWrite /\ ~SendProbe
  <2>1. UNCHANGED <<last_ms, poll_idx, disc_idx, in_flight, ha_writes, write_queue>>
    BY <1>8 DEF DrainUart, DiscardReply, FramesDone, NotExpired, UpdateLink, SkipSend,
       NothingDue, Tick, AnswerAny, Answer, Lose, StartSchedule,
       txVars, discVars, pollVars, envVars
  <2> QED BY <1>1, <1>7, <1>8, <2>1, LoadTyped
<1> QED BY <1>2, <1>3, <1>4, <1>5, <1>6, <1>8 DEF Next, LoopStep

-----------------------------------------------------------------------------
(* The time since the last turn. *)

(* It stays within the time a turn may take. *)
LEMMA TurnAgeBound ==
  ASSUME TypeOK, LockstepInv, HoldSeen
  PROVE  TurnAge \in 0..TurnTime /\ TurnTime \in Nat
<1>1. /\ TimeoutTime = ReplyTimeout + 2 * MaxLoop /\ TurnTime = TimeoutTime + HoldTime
      /\ HoldTime = 2 * (ReplyTimeout + MaxLoop - 1)
  BY DEF TimeoutTime, TurnTime, HoldTime
<1>2. TimeoutTime \in Nat /\ TurnTime \in Nat /\ TimeoutTime <= TurnTime
  BY <1>1, Numbers
<1>3. CASE state = "WAITING"
  <2>1. tx_time <= clock
    BY DEF LockstepInv, WireInv, ClockInOrder
  <2>2. clock <= tx_time + ReplyTimeout + SinceLook({"link", "send", "drain"})
    BY <1>3 DEF HoldSeen, InFlightAge
  <2>3. SinceLook({"link", "send", "drain"}) \in 0..2 * MaxLoop
    BY Numbers DEF SinceLook
  <2>4. clock - tx_time \in 0..TurnTime
    BY <1>1, <1>2, <2>1, <2>2, <2>3, Numbers
  <2> QED BY <1>2, <1>3, <2>4 DEF TurnAge
<1>4. CASE state = "IDLE" /\ quiet_until # 0
  <2>1. quiet_until <= clock + ReplyTimeout
    BY DEF LockstepInv, WireInv, ClockInOrder
  <2>2. clock < quiet_until + SinceLook({"drain"})
    BY <1>4 DEF HoldSeen, HoldAge
  <2>3. SinceLook({"drain"}) \in 0..2 * MaxLoop
    BY Numbers DEF SinceLook
  <2>4. PICK more \in {ReplyTimeout, 2 * ReplyTimeout - 1} :
          TurnAge = TimeoutTime + clock - quiet_until + more
    BY <1>4 DEF TurnAge
  <2>5. more \in ReplyTimeout..(2 * ReplyTimeout - 1)
    BY Numbers
  <2>6. TimeoutTime + clock - quiet_until + more \in 0..TurnTime
    BY <1>1, <1>2, <2>1, <2>2, <2>3, <2>5, Numbers
  <2> QED BY <1>2, <2>4, <2>6
<1>5. CASE state = "IDLE" /\ quiet_until = 0
  <2>1. PassAge \in 0..TurnTime
    BY <1>1, <1>2, Numbers DEF PassAge
  <2> QED BY <1>2, <1>5, <2>1 DEF TurnAge
<1> QED BY <1>3, <1>4, <1>5, Numbers

(* A step that sends begins a new turn. *)
LEMMA TurnBegins ==
  ASSUME TypeOK, SendWrite \/ SendProbe \/ SendPoll
  PROVE  TurnAge' \in Nat /\ clock' = clock
<1>1. /\ phase' = "drain" /\ state = "IDLE" /\ quiet_until' = 0 /\ UNCHANGED <<clock, lag>>
      /\ (state' = "WAITING" /\ tx_time' = clock) \/ state' = "IDLE"
  BY SendMoves
<1>2. CASE state' = "WAITING"
  BY <1>1, <1>2, Numbers DEF TurnAge
<1>3. CASE state' = "IDLE"
  <2>1. TurnAge' = lag + 1
    BY <1>1, <1>3 DEF TurnAge, PassAge
  <2> QED BY <1>1, <2>1, Numbers
<1> QED BY <1>1, <1>2, <1>3

LEMMA SameAge ==
  ASSUME NEW a \in Int, NEW b \in Int, NEW c \in Int, NEW d \in Int, NEW t \in Int,
         a = c - t, b = d - t
  PROVE  b - d >= a - c
  OBVIOUS
LEMMA LaterAge ==
  ASSUME NEW a, NEW b, NEW c \in Int, NEW d \in Int, NEW t \in Int,
         NEW k \in Int, NEW l \in Int, k <= l, a = c + t + k, b = d + t + l
  PROVE  b \in Int /\ b - d >= a - c
  OBVIOUS

(* Until then it runs with the clock at least. *)
LEMMA TurnAgeRuns ==
  ASSUME TypeOK, LockstepInv, HoldSeen, Next,
         ~(SendWrite \/ SendProbe \/ SendPoll \/ NothingDue)
  PROVE  TurnAge' \in Int /\ clock' \in Nat /\ TurnAge' - clock' >= TurnAge - clock
         /\ (clock' = clock \/ clock' = clock + 1)
<1>1. /\ tx_time <= clock /\ quiet_until <= clock + ReplyTimeout
      /\ TimeoutTime = ReplyTimeout + 2 * MaxLoop
      /\ clock \in Nat /\ quiet_until \in Nat /\ tx_time \in Nat /\ lag \in 0..MaxLoop
      /\ MaxLoop \in Nat /\ ReplyTimeout \in Nat \ {0}
  BY Numbers DEF LockstepInv, WireInv, ClockInOrder, TimeoutTime
<1>2. TurnAge \in Int
  BY TurnAgeBound
<1>3. CASE AcceptReply
  <2>1. /\ phase = "frames" /\ state = "WAITING" /\ state' = "IDLE"
        /\ UNCHANGED <<clock, phase, lag, quiet_until>> /\ quiet_until = 0
    BY <1>3, AcceptEffects, AcceptMoves DEF HoldSeen, NoHoldWaiting
  <2>2. clock <= tx_time + ReplyTimeout + MaxLoop + lag
    BY <1>1, <2>1 DEF HoldSeen, InFlightAge, SinceLook
  <2>3. TurnAge = clock - tx_time /\ TurnAge' = ReplyTimeout + MaxLoop + lag
    BY <2>1 DEF TurnAge, PassAge
  <2> QED BY <1>1, <2>1, <2>2, <2>3
<1>4. CASE Expire
  <2>1. /\ phase = "timeout" /\ state = "WAITING" /\ state' = "IDLE"
        /\ quiet_until' = clock + ReplyTimeout /\ clock' = clock
    BY <1>4, ExpireMoves, HubClock
  <2>2. clock <= tx_time + ReplyTimeout + MaxLoop + lag
    BY <1>1, <2>1 DEF HoldSeen, InFlightAge, SinceLook
  <2>3. PICK more \in {ReplyTimeout, 2 * ReplyTimeout - 1} :
          TurnAge' = TimeoutTime + clock - (clock + ReplyTimeout) + more
    <3>1. quiet_until' # 0
      BY <1>1, <2>1
    <3> QED BY <2>1, <3>1 DEF TurnAge, TimeoutTime
  <2>4. TurnAge = clock - tx_time
    BY <2>1 DEF TurnAge
  <2> QED BY <1>1, <2>1, <2>2, <2>3, <2>4
<1>5. CASE DiscardReply
  <2>1. /\ state = "IDLE" /\ state' = "IDLE" /\ UNCHANGED <<clock, phase, lag>>
        /\ quiet_until' = IF clock < quiet_until THEN clock + ReplyTimeout ELSE quiet_until
    BY <1>5, DiscardMoves, HubClock, Numbers DEF InHold
  <2>2. OnItsWay /\ ~OnItsWay'
    BY <1>5, DiscardEmpties
  <2>3. CASE quiet_until = 0
    <3>1. quiet_until' = 0
      BY <1>1, <2>1, <2>3
    <3>2. TurnAge' = TurnAge
      BY <2>1, <2>3, <3>1 DEF TurnAge, PassAge
    <3> QED BY <1>1, <1>2, <2>1, <3>2
  <2>4. CASE quiet_until # 0
    <3>1. quiet_until' # 0 /\ quiet_until' \in Nat
      BY <1>1, <2>1, <2>4
    <3>2. /\ TurnAge = TimeoutTime + clock - quiet_until + ReplyTimeout
          /\ TurnAge' = TimeoutTime + clock - quiet_until' + (2 * ReplyTimeout - 1)
      BY <2>1, <2>2, <2>4, <3>1 DEF TurnAge, TimeoutTime
    <3> QED BY <1>1, <2>1, <3>1, <3>2
  <2> QED BY <2>3, <2>4
(* In the other steps the transaction and the hold stay, and no reply to   *)
(* restart it appears.                                                     *)
<1>6. ASSUME UNCHANGED <<state, tx_time, quiet_until>>, OnItsWay' => OnItsWay,
             clock' = clock \/ clock' = clock + 1,
             state = "IDLE" /\ quiet_until = 0 =>
               PassAge \in Nat /\ PassAge' \in Nat /\ PassAge' - clock' >= PassAge - clock
      PROVE  TurnAge' \in Int /\ clock' \in Nat /\ TurnAge' - clock' >= TurnAge - clock
  <2>1. clock' \in Nat
    BY <1>1, <1>6
  <2>2. CASE state = "WAITING"
    <3>1. TurnAge = clock - tx_time /\ TurnAge' = clock' - tx_time
      BY <1>6, <2>2 DEF TurnAge
    <3>2. TurnAge \in Int /\ TurnAge' \in Int
      BY <1>1, <2>1, <3>1
    <3>3. PICK a, b, c, d \in Int : a = TurnAge /\ b = TurnAge' /\ c = clock /\ d = clock'
      BY <1>1, <2>1, <3>2
    <3>4. b - d >= a - c
      <4>1. PICK t \in Int : t = tx_time
        BY <1>1
      <4>2. a = c - t /\ b = d - t
        BY <3>1, <3>3, <4>1
      <4> QED BY <4>2, SameAge
    <3> QED BY <2>1, <3>2, <3>3, <3>4
  <2>3. CASE state = "IDLE" /\ quiet_until # 0
    <3> DEFINE more == IF OnItsWay THEN ReplyTimeout ELSE 2 * ReplyTimeout - 1
               most == IF OnItsWay' THEN ReplyTimeout ELSE 2 * ReplyTimeout - 1
    <3>1. TurnAge = TimeoutTime + clock - quiet_until + more
      BY <2>3 DEF TurnAge
    <3>2. TurnAge' = TimeoutTime + clock' - quiet_until + most
      BY <1>6, <2>3 DEF TurnAge, TimeoutTime
    <3>3. more \in Nat /\ most \in Nat /\ more <= most
      BY <1>1, <1>6
    <3> HIDE DEF more, most
    <3>4. PICK base \in Int : base = TimeoutTime - quiet_until
      BY <1>1
    <3>5. TurnAge = clock + base + more /\ TurnAge' = clock' + base + most
      BY <1>1, <2>1, <3>1, <3>2, <3>3, <3>4
    <3>6. PICK c, d \in Int : c = clock /\ d = clock'
      BY <1>1, <2>1
    <3>7. TurnAge' \in Int /\ TurnAge' - d >= TurnAge - c
      <4>1. TurnAge = c + base + more /\ TurnAge' = d + base + most
        BY <3>5, <3>6
      <4>2. more \in Int /\ most \in Int
        BY <3>3
      <4> QED BY <3>3, <4>1, <4>2, LaterAge
    <3> QED BY <2>1, <3>6, <3>7
  <2>4. CASE state = "IDLE" /\ quiet_until = 0
    <3>1. TurnAge = PassAge /\ TurnAge' = PassAge'
      BY <1>6, <2>4 DEF TurnAge
    <3> QED BY <1>6, <2>1, <2>4, <3>1
  <2> QED BY <2>2, <2>3, <2>4, Numbers
<1>7. CASE Tick
  <2>1. /\ UNCHANGED <<phase, state, tx_time, quiet_until>> /\ clock' = clock + 1
        /\ lag' = lag + 1
    BY <1>7, HubClock, TickMoves
  <2>2. OnItsWay' => OnItsWay
    BY NothingNewOnItsWay
  <2>3. PassAge \in Nat /\ PassAge' = PassAge + 1
    BY <1>1, <2>1 DEF PassAge
  <2>4. PassAge' \in Nat /\ PassAge' - clock' >= PassAge - clock
    BY <1>1, <2>1, <2>3
  <2> QED BY <1>6, <2>1, <2>2, <2>3, <2>4
<1>8. CASE DrainUart \/ FramesDone \/ NotExpired \/ UpdateLink \/ World \/ SkipSend
  <2>1. UNCHANGED <<clock, state, tx_time, quiet_until>>
    BY <1>8, DrainMoves, FramesMoves, NotExpiredMoves, UpdateLinkMoves, WorldMoves,
       SkipSendMoves DEF Moved
  <2>2. OnItsWay' => OnItsWay
    BY NothingNewOnItsWay
  <2>3. \/ phase = "drain" /\ phase' = "frames" /\ lag' = 0
        \/ phase # "drain" /\ phase' # "drain" /\ lag' = lag
        \/ phase' = phase /\ lag' = lag
        \/ phase = "send" /\ ~(state = "IDLE" /\ quiet_until = 0)
    BY <1>8, DrainMoves, FramesMoves, NotExpiredMoves, UpdateLinkMoves, WorldMoves,
       SkipSendMoves, Numbers DEF Moved, Holding
  <2>4. state = "IDLE" /\ quiet_until = 0 =>
          PassAge \in Nat /\ PassAge' \in Nat /\ PassAge' - clock' >= PassAge - clock
    <3>1. CASE phase = "drain" /\ phase' = "frames" /\ lag' = 0
      BY <1>1, <2>1, <3>1 DEF PassAge
    <3>2. CASE phase # "drain" /\ phase' # "drain" /\ lag' = lag
      BY <1>1, <2>1, <3>2 DEF PassAge
    <3>3. CASE phase' = phase /\ lag' = lag
      <4>1. PassAge' = PassAge /\ PassAge \in Nat
        BY <1>1, <3>3 DEF PassAge
      <4> QED BY <1>1, <2>1, <4>1
    <3> QED BY <2>3, <3>1, <3>2, <3>3
  <2> QED BY <1>6, <2>1, <2>2, <2>4
<1> QED BY <1>3, <1>4, <1>5, <1>7, <1>8, Steps

-----------------------------------------------------------------------------
(* No item waits for more turns than its round has. *)

LEMMA TurnsCost ==
  ASSUME NEW t \in Nat, NEW a \in Int, NEW b \in Int, a <= b
  PROVE  /\ t * a \in Int /\ t * b \in Int /\ t * a <= t * b
         /\ a \in Nat => t * a \in Nat
         /\ t * (a + 1) = t * a + t
  OBVIOUS

(* An item that waits through one more turn pays with the turn; through    *)
(* time that passes, with the time.                                        *)
LEMMA TurnPays ==
  ASSUME NEW age \in Int, NEW ms \in Int, NEW run \in Int, NEW next \in Nat, NEW t \in Nat,
         NEW a \in Int, NEW b \in Int,
         age <= ms + run + t * a, run <= t, a + 1 <= b
  PROVE  age <= ms + next + t * b
<1>1. t * (a + 1) = t * a + t /\ t * a \in Int
  BY TurnsCost
<1>2. t * (a + 1) <= t * b /\ t * b \in Int
  BY TurnsCost
<1>3. PICK p, q \in Int : p = t * a /\ q = t * b
  BY <1>1, <1>2
<1>4. age <= ms + run + p /\ p + t <= q
  BY <1>1, <1>2, <1>3
<1>5. age <= ms + next + q
  BY <1>4
<1> QED BY <1>3, <1>5

LEMMA TimePays ==
  ASSUME NEW age \in Int, NEW later \in Int, NEW ms \in Int, NEW run \in Int, NEW next \in Int,
         NEW t \in Nat, NEW a \in Int, NEW b \in Int,
         age <= ms + run + t * a, later - age <= next - run, a <= b
  PROVE  later <= ms + next + t * b
<1>1. PICK p, q \in Int : p = t * a /\ q = t * b /\ p <= q
  BY TurnsCost
<1>2. later <= ms + next + q
  BY <1>1
<1> QED BY <1>1, <1>2

(* Every step but a poll leaves the round as it is. *)
LEMMA TurnsKeep ==
  ASSUME TypeOK, InFlightWaits, WritesAccounted, Next, ~SendPoll, NEW i \in DOMAIN PollList
  PROVE  /\ TurnsTaken(i)' \in Int /\ TurnsTaken(i)' >= TurnsTaken(i)
         /\ SendWrite \/ SendProbe => TurnsTaken(i)' >= TurnsTaken(i) + 1
<1>1. poll_idx' = poll_idx
  BY LoadMoves
<1>2. Ahead(i)' = Ahead(i) /\ Before(i)' = Before(i)
  BY <1>1 DEF Ahead, Before
<1>3. PICK round \in Int :
        round = Len(PollList) - 1 - Ahead(i) + Cardinality(Resettable(DOMAIN PollList))
                - Cardinality(Resettable(Before(i)))
  <2>1. Before(i) \subseteq DOMAIN PollList /\ Len(PollList) \in Nat /\ Ahead(i) \in Int
    BY AheadIs, PollNumbers DEF Before
  <2>2. /\ Cardinality(Resettable(Before(i))) \in Nat
        /\ Cardinality(Resettable(DOMAIN PollList)) \in Nat
    BY <2>1, ResettableFinite
  <2> QED BY <2>1, <2>2
<1>4. TurnsTaken(i) = round + disc_idx + ha_writes - Load
  BY <1>3 DEF TurnsTaken
<1>5. TurnsTaken(i)' = round + disc_idx' + ha_writes' - Load'
  BY <1>2, <1>3 DEF TurnsTaken, Resettable
<1>6. /\ Load \in Nat /\ disc_idx \in Nat /\ ha_writes \in Nat
      /\ Load' \in Nat /\ disc_idx' \in Nat /\ ha_writes' \in Nat
      /\ Load' - ha_writes' <= Load - ha_writes /\ disc_idx' >= disc_idx
      /\ SendWrite \/ SendProbe =>
           disc_idx' + ha_writes' - Load' >= disc_idx + ha_writes - Load + 1
  BY LoadMoves, LoadTyped
<1>7. PICK l, d, h, l1, d1, h1 \in Int :
        /\ l = Load /\ d = disc_idx /\ h = ha_writes
        /\ l1 = Load' /\ d1 = disc_idx' /\ h1 = ha_writes'
  BY <1>6
<1>8. /\ l1 - h1 <= l - h /\ d1 >= d
      /\ SendWrite \/ SendProbe => d1 + h1 - l1 >= d + h - l + 1
  BY <1>6, <1>7
<1>9. TurnsTaken(i) = round + d + h - l /\ TurnsTaken(i)' = round + d1 + h1 - l1
  BY <1>4, <1>5, <1>7
<1> QED BY <1>8, <1>9

LEMMA PollGain ==
  ASSUME NEW n \in Int, NEW a \in Int, NEW b \in Int, NEW all \in Int, NEW some \in Int,
         NEW left \in Int, NEW own \in Int, NEW l \in Int, NEW d \in Int, NEW h \in Int,
         b >= 0, left + own <= some, l <= own
  PROVE  /\ n - 1 - (a - b - 1) + all - left + d + h - l \in Int
         /\ n - 1 - (a - b - 1) + all - left + d + h - l
              >= (n - 1 - a + all - some + d + h - 0) + 1
  OBVIOUS

(* A poll takes a turn from every item behind it, and its own reset with   *)
(* it; the item polled starts again.                                       *)
LEMMA TurnsPoll ==
  ASSUME TypeOK, WritesAccounted, NEW i \in DOMAIN PollList, NEW j \in DOMAIN PollList,
         poll_idx' = j % Len(PollList), Ahead(i) >= Ahead(j),
         in_flight' = PollReq(j) \/ in_flight' = NoRequest,
         in_flight = NoRequest, write_queue = <<>>,
         UNCHANGED <<write_queue, disc_idx, ha_writes>>
  PROVE  /\ i = j => TurnsTaken(i)' \in Nat
         /\ i # j => TurnsTaken(i)' \in Int /\ TurnsTaken(i)' >= TurnsTaken(i) + 1
<1> DEFINE own == IF PollList[j].control THEN 1 ELSE 0
           all == Cardinality(Resettable(DOMAIN PollList))
           some == Cardinality(Resettable(Before(i)))
           left == Cardinality(Resettable(Before(i)'))
           n == Len(PollList)
<1>1. /\ n \in Nat /\ n > 0 /\ Ahead(i) \in 0..(n - 1) /\ Ahead(j) \in 0..(n - 1)
      /\ disc_idx \in Nat /\ ha_writes \in Nat
  BY AheadIs, PollNumbers, LoadTyped
<1>2. \A m \in DOMAIN PollList :
        /\ Ahead(m)' = IF Ahead(m) > Ahead(j) THEN Ahead(m) - Ahead(j) - 1
                       ELSE Ahead(m) - Ahead(j) - 1 + n
        /\ Ahead(m) \in 0..(n - 1)
  BY RoundTurns, AheadIs
<1>3. Before(i)' = {m \in DOMAIN PollList : Ahead(m)' < Ahead(i)'}
  BY DEF Before
<1>4. Load = 0 /\ Load' <= own /\ Load' \in Nat
  <2>1. Len(write_queue) = 0 /\ Len(write_queue') = 0
    BY EmptySeq
  <2>2. ResetPending = 0 /\ ResetPending' <= own /\ ResetPending' \in Nat
    BY NoPollPending DEF ResetPending, PollReq
  <2>3. Load = 0 + 0
    BY <2>1, <2>2 DEF Load
  <2>4. Load' = 0 + ResetPending'
    BY <2>1 DEF Load
  <2>5. Load' = ResetPending'
    BY <2>2, <2>4, FromZero
  <2> QED BY <2>2, <2>3, <2>5
<1>5. /\ Before(i)' \subseteq DOMAIN PollList /\ Before(i) \subseteq DOMAIN PollList
      /\ all \in Nat /\ some \in Nat /\ left \in Nat /\ own \in 0..1
  <2>1. Before(i)' \subseteq DOMAIN PollList /\ Before(i) \subseteq DOMAIN PollList
    BY <1>3 DEF Before
  <2> QED BY <2>1, ResettableFinite
<1>6. TurnsTaken(i) = n - 1 - Ahead(i) + all - some + disc_idx + ha_writes - Load
  BY DEF TurnsTaken
<1>7. TurnsTaken(i)' = n - 1 - Ahead(i)' + all - left + disc_idx + ha_writes - Load'
  BY DEF TurnsTaken, Resettable
<1>8. CASE i = j
  <2>1. Ahead(i)' = n - 1
    BY <1>1, <1>2, <1>8
  <2>2. j \notin Before(i)'
    BY <1>1, <1>3, <1>8, <2>1
  <2>3. left + own <= all
    BY <1>5, <2>2, FewerResettable
  <2>4. TurnsTaken(i)' \in Nat
    <3> HIDE DEF own, all, some, left, n
    <3>1. PICK l \in Nat : l = Load'
      BY <1>4
    <3>2. TurnsTaken(i)' = n - 1 - (n - 1) + all - left + disc_idx + ha_writes - l /\ l <= own
      BY <1>4, <1>7, <2>1, <3>1
    <3> QED BY <1>1, <1>5, <2>3, <3>2
  <2> QED BY <1>8, <2>4
<1>9. CASE i # j
  <2>1. Ahead(i) > Ahead(j)
    <3>1. RoundItem(Ahead(i)) = i /\ RoundItem(Ahead(j)) = j
      BY AheadIs
    <3>2. Ahead(i) # Ahead(j)
      BY <1>9, <3>1
    <3> QED BY <1>1, <3>2
  <2>2. Ahead(i)' = Ahead(i) - Ahead(j) - 1
    BY <1>2, <2>1
  <2>3. j \in Before(i)
    BY <2>1 DEF Before
  <2>4. Before(i)' \subseteq Before(i) \ {j}
    <3> SUFFICES ASSUME NEW m \in DOMAIN PollList, Ahead(m)' < Ahead(i)'
                 PROVE  Ahead(m) < Ahead(i) /\ m # j
      BY <1>3 DEF Before
    <3>1. Ahead(m) > Ahead(j)
      <4>1. CASE ~(Ahead(m) > Ahead(j))
        <5>1. Ahead(m)' = Ahead(m) - Ahead(j) - 1 + n
          BY <1>2, <4>1
        <5>2. Ahead(m) - Ahead(j) - 1 + n < Ahead(i) - Ahead(j) - 1
          BY <2>2, <5>1
        <5>3. Ahead(m) \in 0..(n - 1)
          BY <1>2
        <5> HIDE DEF n
        <5> QED BY <1>1, <5>2, <5>3
      <4> QED BY <4>1
    <3>2. Ahead(m)' = Ahead(m) - Ahead(j) - 1
      BY <1>2, <3>1
    <3>3. Ahead(m) - Ahead(j) - 1 < Ahead(i) - Ahead(j) - 1 /\ Ahead(m) \in Int
      BY <1>2, <2>2, <3>2
    <3> QED BY <1>1, <3>1, <3>3
  <2>5. left + own <= some
    BY <1>5, <2>3, <2>4, FewerResettable
  <2>6. TurnsTaken(i)' \in Int /\ TurnsTaken(i)' >= TurnsTaken(i) + 1
    <3> HIDE DEF own, all, some, left, n
    <3>1. PICK l \in Nat : l = Load' /\ l <= own
      BY <1>4
    <3>2. PICK a, b \in Int : a = Ahead(i) /\ b = Ahead(j) /\ b >= 0
      BY <1>1
    <3>3. TurnsTaken(i)' = n - 1 - (a - b - 1) + all - left + disc_idx + ha_writes - l
      BY <1>7, <2>2, <3>1, <3>2
    <3>4. TurnsTaken(i) = n - 1 - a + all - some + disc_idx + ha_writes - 0
      BY <1>4, <1>6, <3>2
    <3>5. /\ n - 1 - (a - b - 1) + all - left + disc_idx + ha_writes - l \in Int
          /\ n - 1 - (a - b - 1) + all - left + disc_idx + ha_writes - l
               >= (n - 1 - a + all - some + disc_idx + ha_writes - 0) + 1
      <4>1. all \in Int /\ some \in Int /\ left \in Int /\ own \in Int /\ n \in Int
            /\ disc_idx \in Int /\ ha_writes \in Int
        BY <1>1, <1>5
      <4>2. l \in Int /\ l <= own /\ a \in Int /\ b \in Int /\ b >= 0
        BY <3>1, <3>2
      <4> QED BY ONLY <2>5, <4>1, <4>2, PollGain
    <3> QED BY <3>3, <3>4, <3>5
  <2> QED BY <1>9, <2>6
<1> QED BY <1>8, <1>9

LEMMA AccountedStep ==
  ASSUME TypeOK, InFlightWaits, WritesAccounted, Next
  PROVE  WritesAccounted'
<1>1. CASE SendPoll
  <2>1. PICK j \in DOMAIN PollList :
          /\ poll_idx' = j % Len(PollList)
          /\ in_flight' = PollReq(j) \/ in_flight' = NoRequest
          /\ write_queue' = <<>> /\ UNCHANGED ha_writes
    BY <1>1, PollMoves
  <2>2. LastItem' = j /\ PollList # <<>>
    BY <2>1, RoundTurns, PollNumbers, EmptySeq
  <2>3. ResetPending' <= ResetAllowed' /\ ResetPending' \in Nat /\ ResetAllowed' \in Nat
    BY <2>1, <2>2, NoPollPending DEF ResetPending, ResetAllowed, PollReq
  <2>4. Load' = 0 + ResetPending'
    BY <2>1, EmptySeq DEF Load
  <2>5. Load' <= ha_writes + ResetAllowed'
    BY <2>3, <2>4, LoadTyped
  <2> QED BY <2>1, <2>5 DEF WritesAccounted
<1>2. CASE ~SendPoll
  <2>1. ResetAllowed' = ResetAllowed
    BY <1>2, LoadMoves DEF ResetAllowed, LastItem
  <2>2. /\ Load' - ha_writes' <= Load - ha_writes /\ Load' \in Nat /\ ha_writes' \in Nat
        /\ Load \in Nat /\ ha_writes \in Nat /\ ResetAllowed \in Nat
        /\ Load <= ha_writes + ResetAllowed
    BY <1>2, LoadMoves, LoadTyped DEF WritesAccounted
  <2>3. Load' <= ha_writes' + ResetAllowed
    <3>1. PICK l, h, l1, h1, c \in Int : /\ l = Load /\ h = ha_writes /\ c = ResetAllowed
                                        /\ l1 = Load' /\ h1 = ha_writes'
      BY <2>2
    <3>2. l1 - h1 <= l - h /\ l <= h + c
      BY <2>2, <3>1
    <3>3. l1 <= h1 + c
      BY <3>2
    <3> QED BY <3>1, <3>3
  <2> QED BY <2>1, <2>3 DEF WritesAccounted
<1> QED BY <1>1, <1>2

LEMMA PolledStep ==
  ASSUME TypeOK, LockstepInv, InFlightWaits, PolledBefore, Next
  PROVE  PolledBefore'
<1>1. CASE SendPoll
  <2>1. PICK j \in DOMAIN PollList : last_ms' = [last_ms EXCEPT ![j] = clock]
    BY <1>1, PollMoves
  <2>2. clock' = clock
    BY <1>1, SendMoves
  <2> QED BY <2>1, <2>2, PollNumbers, Numbers DEF PolledBefore
<1>2. CASE ~SendPoll
  <2>1. last_ms' = last_ms
    BY <1>2, LoadMoves
  <2>2. clock' = clock \/ clock' = clock + 1
    BY HubClock, Steps, DrainMoves, DiscardMoves, AcceptEffects, FramesMoves, ExpireMoves,
       NotExpiredMoves, UpdateLinkMoves, SkipSendMoves, SendMoves, WorldMoves DEF Moved
  <2>3. ASSUME NEW i \in DOMAIN PollList PROVE last_ms[i] <= clock'
    <3>1. last_ms[i] \in Nat /\ last_ms[i] <= clock
      BY PollNumbers DEF PolledBefore
    <3> QED BY <2>2, <3>1, Numbers
  <2> QED BY <2>1, <2>3 DEF PolledBefore
<1> QED BY <1>1, <1>2

(* An item not due has waited less than its interval. *)
LEMMA NotDueYet ==
  ASSUME TypeOK, LockstepInv, PolledBefore, NEW i \in DOMAIN PollList, ~Due(i)
  PROVE  clock - last_ms[i] < PollList[i].interval
<1>1. last_ms[i] \in 0..clock
  BY PollNumbers, Numbers DEF PolledBefore
<1>2. Since(last_ms[i]) = clock - last_ms[i]
  BY <1>1, HubClock
<1>3. ~(clock - last_ms[i] >= PollList[i].interval)
  BY <1>2 DEF Due
<1> QED BY <1>1, <1>3, PollNumbers, Numbers

LEMMA DueStep ==
  ASSUME TypeOK, LockstepInv, InFlightWaits, HoldSeen, FreshInv, Next
  PROVE  DueSince'
<1>1. SUFFICES ASSUME NEW i \in DOMAIN PollList, Due(i)'
               PROVE  clock' - last_ms'[i] <=
                        PollList[i].interval + TurnAge' + TurnTime * TurnsTaken(i)'
  BY DEF DueSince, TurnTime, TimeoutTime, HoldTime
<1>2. /\ TurnAge \in 0..TurnTime /\ TurnTime \in Nat
      /\ TurnsTaken(i) \in Nat /\ PollList[i].interval \in Nat
      /\ last_ms[i] \in Nat /\ clock \in Nat
      /\ Due(i) => clock - last_ms[i] <=
                     PollList[i].interval + TurnAge + TurnTime * TurnsTaken(i)
  BY TurnAgeBound, TurnsTakenIs, PollNumbers, Numbers DEF FreshInv, DueSince
<1>3. clock' = clock /\ last_ms'[i] = last_ms[i] => Due(i)
  BY <1>1 DEF Due, Since
(* A turn is paid for. *)
<1>4. ASSUME SendWrite \/ SendProbe \/ SendPoll, last_ms'[i] = last_ms[i],
             TurnsTaken(i)' \in Int, TurnsTaken(i)' >= TurnsTaken(i) + 1
      PROVE  clock' - last_ms'[i] <=
               PollList[i].interval + TurnAge' + TurnTime * TurnsTaken(i)'
  <2>1. TurnAge' \in Nat /\ clock' = clock
    BY <1>4, TurnBegins
  <2>2. PICK age, a, b \in Int :
          age = clock - last_ms[i] /\ a = TurnsTaken(i) /\ b = TurnsTaken(i)'
    BY <1>2, <1>4
  <2>3. age <= PollList[i].interval + TurnAge + TurnTime * a /\ a + 1 <= b
    BY <1>2, <1>3, <1>4, <2>1, <2>2
  <2>4. age <= PollList[i].interval + TurnAge' + TurnTime * b
    <3>1. PICK run \in Int, next \in Nat, t \in Nat :
            run = TurnAge /\ next = TurnAge' /\ t = TurnTime /\ run <= t
      BY <1>2, <2>1
    <3>2. age <= PollList[i].interval + run + t * a /\ PollList[i].interval \in Int
      BY <1>2, <2>3, <3>1
    <3>3. age <= PollList[i].interval + next + t * b
      BY <2>3, <3>1, <3>2, TurnPays
    <3> QED BY <3>1, <3>3
  <2> QED BY <1>4, <2>1, <2>2, <2>4
<1>5. CASE SendPoll
  <2>1. PICK j \in DOMAIN PollList :
          /\ \A m \in DOMAIN PollList : Due(m) => Ahead(m) >= Ahead(j)
          /\ last_ms' = [last_ms EXCEPT ![j] = clock] /\ poll_idx' = j % Len(PollList)
          /\ in_flight' = PollReq(j) \/ in_flight' = NoRequest
          /\ in_flight = NoRequest /\ write_queue = <<>>
          /\ UNCHANGED <<write_queue, disc_idx, ha_writes>>
    BY <1>5, PollMoves
  <2>2. TurnAge' \in Nat /\ clock' = clock /\ last_ms \in [DOMAIN PollList -> Nat]
    BY <1>5, TurnBegins, PollNumbers
  <2>3. CASE i = j
    <3>1. last_ms'[i] = clock
      BY <2>1, <2>2, <2>3
    <3>2. Ahead(i) >= Ahead(j)
      BY <2>3, AheadIs, PollNumbers
    <3>3. TurnsTaken(i)' \in Nat
      BY <2>1, <2>3, <3>2, TurnsPoll DEF FreshInv
    <3>4. TurnTime * TurnsTaken(i)' \in Nat
      BY <1>2, <3>3, TurnsCost
    <3>5. clock - clock <= PollList[i].interval + TurnAge' + TurnTime * TurnsTaken(i)'
      BY <1>2, <2>2, <3>4
    <3> QED BY <2>2, <3>1, <3>5
  <2>4. CASE i # j
    <3>1. last_ms'[i] = last_ms[i]
      BY <2>1, <2>2, <2>4
    <3>2. Ahead(i) >= Ahead(j)
      BY <1>3, <2>1, <2>2, <3>1
    <3>3. TurnsTaken(i)' \in Int /\ TurnsTaken(i)' >= TurnsTaken(i) + 1
      BY <2>1, <2>4, <3>2, TurnsPoll DEF FreshInv
    <3> QED BY <1>4, <1>5, <3>1, <3>3
  <2> QED BY <2>3, <2>4
<1>6. CASE SendWrite \/ SendProbe
  <2>1. ~SendPoll
    BY <1>6 DEF SendWrite, SendProbe, SendPoll, MayPoll
  <2>2. last_ms' = last_ms
    BY <2>1, LoadMoves
  <2> QED BY <1>4, <1>6, <2>1, <2>2, TurnsKeep DEF FreshInv
<1>7. CASE NothingDue
  <2>1. clock' = clock /\ last_ms' = last_ms /\ ~Due(i)
    BY <1>7 DEF NothingDue, EndLoop, pollVars
  <2> QED BY <1>3, <2>1
<1>8. CASE ~(SendWrite \/ SendProbe \/ SendPoll \/ NothingDue)
  <2>1. /\ last_ms' = last_ms /\ TurnsTaken(i)' \in Int /\ TurnsTaken(i)' >= TurnsTaken(i)
    BY <1>8, LoadMoves, TurnsKeep DEF FreshInv
  <2>2. /\ TurnAge' \in Int /\ clock' \in Nat /\ TurnAge' - clock' >= TurnAge - clock
        /\ clock' = clock \/ clock' = clock + 1
    BY <1>8, TurnAgeRuns
  <2>3. PICK age, later, run, next, a, b \in Int :
          /\ age = clock - last_ms[i] /\ later = clock' - last_ms[i]
          /\ run = TurnAge /\ next = TurnAge' /\ a = TurnsTaken(i) /\ b = TurnsTaken(i)'
    <3>1. clock - last_ms[i] \in Int /\ clock' - last_ms[i] \in Int
      BY <1>2, <2>2
    <3>2. TurnAge \in Int /\ TurnAge' \in Int
      BY <1>2, <2>2
    <3>3. TurnsTaken(i) \in Int /\ TurnsTaken(i)' \in Int
      BY <1>2, <2>1
    <3> QED BY <3>1, <3>2, <3>3, Zenon
  <2>4. later - age <= next - run /\ a <= b /\ a \in Nat
    <3>1. PICK c, d \in Int : c = clock /\ d = clock'
      BY <1>2, <2>2
    <3>2. next - d >= run - c
      BY <2>2, <2>3, <3>1
    <3>3. age = c - last_ms[i] /\ later = d - last_ms[i]
      BY <2>3, <3>1
    <3>4. later - age <= next - run
      BY <1>2, <3>2, <3>3
    <3> QED BY <1>2, <2>1, <2>3, <3>4
  <2>5. age <= PollList[i].interval + run + TurnTime * a
    <3>1. CASE Due(i)
      BY <1>2, <2>3, <3>1
    <3>2. CASE ~Due(i)
      <4>1. age < PollList[i].interval
        BY <2>3, <3>2, NotDueYet DEF FreshInv
      <4>2. TurnTime * a \in Nat
        BY <1>2, <2>4, TurnsCost
      <4> QED BY <1>2, <2>3, <4>1, <4>2
    <3> QED BY <3>1, <3>2
  <2>6. later <= PollList[i].interval + next + TurnTime * b
    BY <1>2, <2>4, <2>5, TimePays
  <2> QED BY <2>1, <2>3, <2>6
<1> QED BY <1>5, <1>6, <1>7, <1>8

LEMMA FreshInit == Init => HoldSeen /\ FreshInv
<1> SUFFICES ASSUME Init PROVE HoldSeen /\ FreshInv
  OBVIOUS
<1>1. TypeOK /\ LockstepInv
  BY InitTyped, LockstepInit
<1>2. HoldSeen
  BY DEF Init, HoldSeen, NoHoldWaiting, InFlightAge, HoldAge
<1>3. PolledBefore
  BY DEF Init, PolledBefore
<1>4. WritesAccounted
  <2>1. Load = 0 + 0
    BY EmptySeq, NoPollPending DEF Init, Load
  <2> QED BY <1>1, <2>1, LoadTyped DEF Init, WritesAccounted
<1>5. ASSUME NEW i \in DOMAIN PollList
      PROVE  clock - last_ms[i] <= PollList[i].interval + TurnAge + TurnTime * TurnsTaken(i)
  <2>1. clock - last_ms[i] = 1 /\ TurnAge = 1
    BY DEF Init, TurnAge, PassAge
  <2>2. TurnsTaken(i) \in Nat /\ TurnTime \in Nat /\ PollList[i].interval \in Nat
    BY <1>1, <1>2, <1>4, TurnsTakenIs, TurnAgeBound, PollNumbers
  <2>3. TurnTime * TurnsTaken(i) \in Nat
    BY <2>2, TurnsCost
  <2> QED BY <2>1, <2>2, <2>3
<1> QED BY <1>2, <1>3, <1>4, <1>5 DEF FreshInv, DueSince

(* However many items share the bus, and whatever is written, lost or      *)
(* answered late, every item is sent within its interval and the turns of  *)
(* one round of the list, of the probes and of the writes asked for        *)
(* (maybe_send_next_, poll_list_, disc_idx_, write_queue_).                *)
THEOREM PollsAreFresh == Spec => []PollsStayFresh
<1>1. /\ TypeOK /\ LockstepInv /\ InFlightWaits /\ HoldSeen /\ FreshInv
      /\ [Next]_vars
      => HoldSeen' /\ FreshInv'
  <2> SUFFICES ASSUME TypeOK, LockstepInv, InFlightWaits, HoldSeen, FreshInv, [Next]_vars
               PROVE  HoldSeen' /\ FreshInv'
    OBVIOUS
  <2>1. CASE Next
    BY <2>1, HoldSeenStep, AccountedStep, PolledStep, DueStep DEF FreshInv
  <2>2. CASE UNCHANGED vars
    BY <2>2 DEF vars, txVars, discVars, pollVars, busVars, envVars, HoldSeen, NoHoldWaiting,
       InFlightAge, HoldAge, SinceLook, FreshInv, PolledBefore, WritesAccounted, DueSince,
       Due, Since, Load, ResetPending, ResetAllowed, LastItem, TurnAge, OnItsWay, PassAge,
       TurnsTaken, Ahead, Before, Resettable, TurnTime, TimeoutTime, HoldTime
  <2> QED BY <2>1, <2>2
<1>2. TypeOK /\ LockstepInv /\ HoldSeen /\ FreshInv => PollsStayFresh
  <2> SUFFICES ASSUME TypeOK, LockstepInv, HoldSeen, FreshInv, NEW i \in DOMAIN PollList
               PROVE  clock - last_ms[i] <= PollList[i].interval
                        + TurnTime * (Turns + Len(discovery) + ha_writes)
    BY DEF PollsStayFresh
  <2>1. /\ TurnAge \in 0..TurnTime /\ TurnTime \in Nat /\ TurnsTaken(i) \in Nat
        /\ TurnsTaken(i) + 1 <= Turns + Len(discovery) + ha_writes
        /\ Turns + Len(discovery) + ha_writes \in Nat
        /\ PollList[i].interval \in Nat /\ last_ms[i] \in Nat /\ clock \in Nat
    BY TurnAgeBound, TurnsTakenIs, PollNumbers, Numbers DEF FreshInv
  <2>2. PICK age, a, b \in Int : /\ age = clock - last_ms[i] /\ a = TurnsTaken(i)
                                 /\ b = Turns + Len(discovery) + ha_writes
    BY <2>1
  <2>3. age <= PollList[i].interval + TurnAge + TurnTime * a
    <3>1. CASE Due(i)
      BY <2>2, <3>1 DEF FreshInv, DueSince
    <3>2. CASE ~Due(i)
      <4>1. age < PollList[i].interval
        BY <2>2, <3>2, NotDueYet DEF FreshInv
      <4>2. TurnTime * a \in Nat
        BY <2>1, <2>2, TurnsCost
      <4> QED BY <2>1, <4>1, <4>2
    <3> QED BY <3>1, <3>2
  <2>4. a + 1 <= b
    BY <2>1, <2>2
  <2>5. age <= PollList[i].interval + 0 + TurnTime * b
    <3>1. PICK run \in Int, t \in Nat : run = TurnAge /\ t = TurnTime /\ run <= t
      BY <2>1
    <3>2. age <= PollList[i].interval + run + t * a /\ PollList[i].interval \in Int
      BY <2>1, <2>3, <3>1
    <3>3. 0 \in Nat
      OBVIOUS
    <3>4. age <= PollList[i].interval + 0 + t * b
      BY <2>4, <3>1, <3>2, <3>3, TurnPays
    <3> QED BY <3>1, <3>4
  <2>6. TurnTime * b \in Int
    BY <2>1, TurnsCost
  <2>7. age <= PollList[i].interval + TurnTime * b
    BY <2>1, <2>5, <2>6
  <2> QED BY <2>2, <2>7
<1>3. Spec => []InFlightWaits
  BY WaitsInit, WaitsStep, TypeCorrect, PTL DEF Spec
<1> QED BY <1>1, <1>2, <1>3, FreshInit, TypeCorrect, LockstepInvariant, PTL DEF Spec
=============================================================================
