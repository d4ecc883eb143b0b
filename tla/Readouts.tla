------------------------------ MODULE Readouts ------------------------------
(***************************************************************************)
(* From a configuration to what Home Assistant shows: the entities, the    *)
(* poll list built from what they register, the replies cut up along it,   *)
(* and each entity's on_attr().  The bus is what Hub makes of it (Bus):    *)
(* one request at a time, writes first, each reply with its own request.   *)
(*                                                                         *)
(* The climate entity appears with what Climate leaves out: its current    *)
(* temperature, its action and its bounds.                                 *)
(***************************************************************************)
EXTENDS PollPlan

CONSTANTS
  Configs,     \* configurations whose poll list is checked
  Watched,     \* bound: those of them whose polling is explored
  Readings,    \* attribute -> values it may take, the first at boot
  FaultSets,   \* sets of faults a room or a rail may have
  Settings,    \* values set on a number
  MaxItems,    \* bound: items of a watched poll list
  MaxChanges,  \* bound: readings that change at the controller
  MaxEdits,    \* bound: numbers set from Home Assistant
  MaxTroubles, \* bound: requests lost, refused or answered short
  Cuts         \* bound: after how many values an answer may end

ASSUME ConfigsAssumption == Configs \subseteq Configurations
ASSUME WatchedAssumption == Watched \subseteq Configs

VARIABLES
  config, entities, poll_regs, poll_list,   \* fixed by the first loop()
  shown,        \* per entity: what it has stored and published
  world,        \* <<idx, attr>> -> the truth at the controller
  op,           \* the request in flight, and its reply when it has come
  write_queue,
  changes, edits, troubles

plan == <<config, entities, poll_regs, poll_list>>
bounds == <<changes, edits, troubles>>
vars == <<plan, shown, world, op, write_queue, bounds>>

-----------------------------------------------------------------------------
(* What comes over the wire.                                               *)

Invalid == 32768   \* DI_TEMP_INVALID
NaN == -1

(* The faults the bits of an error code stand for, from bit 8 up. *)
FromBit8(names) == [b \in 8..(7 + Len(names)) |-> names[b - 7]]
RoomFault == FromBit8(<<"thermostat missing", "RT touch", "floor short", "floor disconnected">>)
RailFault == FromBit8(<<"expansion missing", "radio missing", "command missing",
                        "primary missing", "secondary 1 missing", "secondary 2 missing",
                        "Pt1000 short", "Pt1000 open">>)

(* The controller's error code, as the set of its bits.  Bit 0 says there  *)
(* are faults, except that an output error sets 1 and 8 alone.  A low      *)
(* battery shows as the bit of an RT touch error.                          *)
RoomCode(faults) ==
  {b \in DOMAIN RoomFault : RoomFault[b] \in faults}
  \cup (IF "low battery" \in faults THEN {9} ELSE {})
  \cup (IF faults = {} THEN {} ELSE {0})
RailCode(faults) ==
  {b \in DOMAIN RailFault : RailFault[b] \in faults}
  \cup (IF "output" \in faults THEN {1, 8} ELSE {})
  \cup (IF faults \subseteq {"output"} THEN {} ELSE {0})

OnWire(idx, attr) ==
  LET v == world[idx, attr]
  IN  IF attr # "error" THEN v ELSE IF IsRoom(idx) THEN RoomCode(v) ELSE RailCode(v)

-----------------------------------------------------------------------------
(* The entities' on_attr().                                                *)

RoomFaultNames(bits) == {RoomFault[b] : b \in bits \cap DOMAIN RoomFault}

\* mutant: the output error, which does not set bit 0, is not looked for
SummarisedFaultNames(bits) ==
  {RailFault[b] : b \in {c \in bits \cap DOMAIN RailFault : 0 \in bits}}

RailFaultNames(bits) ==
  {RailFault[b] : b \in {c \in bits \cap DOMAIN RailFault : 0 \in bits}}
  \cup (IF 1 \in bits THEN {"output"} ELSE {})

(* The bits that raise the alarm: not bit 0, and in a room not bit 9.      *)
AlarmMask(idx) == IF IsRoom(idx) THEN {8, 10, 11} ELSE (8..15) \cup {1}

Celsius(v) == IF v = Invalid THEN NaN ELSE v

(* What a value makes an entity publish: <<>> is nothing, the last stays.  *)
Decode(e, v) ==
  CASE e.decode = "temp" -> <<Celsius(v)>>
    [] e.decode = "battery" ->
         <<IF v <= 100 THEN v ELSE IF v = 254 THEN 0 ELSE NaN>>
    [] e.decode = "number" -> When(v # Invalid, <<v>>)
    [] e.decode = "verstr" -> When(v # "", <<v>>)
    [] e.decode = "hwver" -> <<v.hw>>
    [] e.decode = "swver" -> <<v.sw>>
    [] e.decode = "fault_room" -> <<RoomFaultNames(v)>>
    [] e.decode = "fault_rail" -> <<RailFaultNames(v)>>
    [] e.decode = "problem" -> <<v \cap AlarmMask(e.idx) # {}>>
    [] OTHER -> <<v>>

\* mutant: what is shown stays once there is something
KeepFirst(s, new) == IF s = <<>> THEN new ELSE s

Publish(s, new) == IF new = <<>> THEN s ELSE new

OutputGroups == {"out_slow", "out_med", "out_fast"}
OnOutputs(s, attr, v) ==
  IF attr \notin OutputGroups THEN s
  ELSE LET groups == [s.groups EXCEPT ![attr] = v]
       IN  [groups |-> groups, list |-> <<UNION {groups[g] : g \in OutputGroups}>>]

(* The reading the room is regulated by; an invalid one leaves what was    *)
(* shown.                                                                  *)
Regulated(s) == IF s.floor_mode = 1 THEN s.floor_temp ELSE s.room_temp
UpdateCurrentTemp(s) ==
  IF Regulated(s) = NaN THEN s ELSE [s EXCEPT !.current = Regulated(s)]

\* mutant: a new regulation mode waits for the next reading to show
OnFloorModeLater(s, v) == [s EXCEPT !.floor_mode = v]

OnFloorMode(s, v) == UpdateCurrentTemp([s EXCEPT !.floor_mode = v])

SetLimit(old, v) == IF v = Invalid THEN old ELSE v

OnClimate(s, attr, v) ==
  CASE attr = "air_temp" -> UpdateCurrentTemp([s EXCEPT !.room_temp = Celsius(v)])
    [] attr = "floor_temp" -> UpdateCurrentTemp([s EXCEPT !.floor_temp = Celsius(v)])
    [] attr = "floor_mode" -> OnFloorMode(s, v)
    [] attr = "min" -> [s EXCEPT !.lo = SetLimit(@, v)]
    [] attr = "max" -> [s EXCEPT !.hi = SetLimit(@, v)]
    [] attr = "heatcool" ->
         [s EXCEPT !.action = IF v = 1 THEN "heating" ELSE IF v = 2 THEN "cooling"
                              ELSE "idle"]
    [] OTHER -> s

OnAttr(e, s, idx, attr, v) ==
  IF idx # e.idx THEN s
  ELSE CASE e.decode = "climate" -> OnClimate(s, attr, v)
         [] e.decode = "outputs" -> OnOutputs(s, attr, v)
         [] OTHER -> IF attr = e.attr THEN Publish(s, Decode(e, v)) ELSE s

Blank(e) ==
  CASE e.decode = "climate" ->
         [room_temp |-> NaN, floor_temp |-> NaN, floor_mode |-> 0, current |-> NaN,
          action |-> "off", lo |-> 500, hi |-> 3500]
    [] e.decode = "outputs" -> [groups |-> [g \in OutputGroups |-> {}], list |-> <<>>]
    [] OTHER -> <<>>

-----------------------------------------------------------------------------
NoOp == [kind |-> "none"]
Poll(i) == [kind |-> "poll", stage |-> "sent", item |-> i, status |-> "none", values |-> <<>>]
Write(w) == [kind |-> "write", stage |-> "sent", req |-> w, status |-> "none", values |-> <<>>]

Points(items) ==
  UNION {{<<items[i].idx, a>> : a \in ToSet(items[i].attrs)} : i \in DOMAIN items}

Init ==
  /\ config \in Configs
  /\ entities = Entities(config)
  /\ poll_regs = Registrations(config, entities)
  /\ poll_list = PollItems(poll_regs)
  /\ shown = [i \in DOMAIN entities |-> Blank(entities[i])]
  /\ world = [p \in Points(poll_list) |->
                IF p[2] = "error" THEN {} ELSE Head(Readings[p[2]])]
  /\ op = NoOp /\ write_queue = <<>>
  /\ changes = 0 /\ edits = 0 /\ troubles = 0

QueueWrite(idx, attr, v) == Append(write_queue, [idx |-> idx, attr |-> attr, value |-> v])

(* control() of a number: the write is queued, the value shown at once.    *)
SetNumber(i, v) ==
  /\ config \in Watched /\ edits < MaxEdits /\ edits' = edits + 1
  /\ i \in DOMAIN entities /\ entities[i].kind = "number"
  /\ write_queue' = QueueWrite(entities[i].idx, entities[i].attr, v)
  /\ shown' = [shown EXCEPT ![i] = <<v>>]
  /\ UNCHANGED <<plan, world, op, changes, troubles>>

SendWrite ==
  /\ op = NoOp /\ write_queue # <<>>
  /\ op' = Write(Head(write_queue))
  /\ write_queue' = Tail(write_queue)
  /\ UNCHANGED <<plan, shown, world, bounds>>

SendPoll(i) ==
  /\ config \in Watched /\ op = NoOp /\ write_queue = <<>> /\ i \in DOMAIN poll_list
  /\ op' = Poll(i)
  /\ UNCHANGED <<plan, shown, world, write_queue, bounds>>

(* The controller answers with the truth, or does what it is told. *)
Values(item) == [k \in DOMAIN item.attrs |-> OnWire(item.idx, item.attrs[k])]
Came(status, values) ==
  op' = [op EXCEPT !.stage = "came", !.status = status, !.values = values]
Sent == op # NoOp /\ op.stage = "sent"
Obeyed == [world EXCEPT ![<<op.req.idx, op.req.attr>>] = op.req.value]

Serve ==
  /\ Sent
  /\ \/ op.kind = "poll" /\ Came("ok", Values(poll_list[op.item])) /\ UNCHANGED world
     \/ op.kind = "write" /\ Came("ok", <<op.req.value>>) /\ world' = Obeyed
  /\ UNCHANGED <<plan, shown, write_queue, bounds>>

(* It refuses, or leaves out the end of what was asked. *)
ServeBadly ==
  /\ Sent /\ troubles < MaxTroubles /\ troubles' = troubles + 1
  /\ \/ Came("refused", <<>>)
     \/ op.kind = "poll" /\ LET all == Values(poll_list[op.item])
                            IN  \E k \in Cuts \cap 0..(Len(all) - 1) : Came("ok", SubSeq(all, 1, k))
  /\ UNCHANGED <<plan, shown, world, write_queue, changes, edits>>

(* The request or its reply is lost; a write may have been done. *)
TimeOut ==
  /\ op # NoOp /\ troubles < MaxTroubles /\ troubles' = troubles + 1
  /\ op' = NoOp
  /\ world' \in {world} \cup (IF op.kind = "write" /\ Sent THEN {Obeyed} ELSE {})
  /\ UNCHANGED <<plan, shown, write_queue, changes, edits>>

(* Slice by slice, in the order of the request, to every listener. *)
Slices(e, shows, idx, attrs, values) ==
  FoldLeftDomain(LAMBDA s, k : OnAttr(e, s, idx, attrs[k], values[k]), shows, values)
Dispatch(idx, attrs, values) ==
  [i \in DOMAIN entities |-> Slices(entities[i], shown[i], idx, attrs, values)]

(* dispatch_read_reply_(), the slices up to the first that is unknown or   *)
(* not there; a room found running a schedule is set to manual.            *)
UnknownAt(item) == SelectInSeq(item.attrs, LAMBDA a : AttrSize(a) = 0)
DeliverPoll ==
  /\ op # NoOp /\ op.kind = "poll" /\ op.stage = "came"
  /\ LET item == poll_list[op.item]
         stop == UnknownAt(item)
         values == IF stop \in DOMAIN op.values THEN SubSeq(op.values, 1, stop - 1)
                   ELSE op.values
         heal == \E k \in DOMAIN values : item.attrs[k] = "control" /\ values[k] # 0
     IN  /\ shown' = Dispatch(item.idx, item.attrs, values)
         /\ write_queue' = IF heal THEN QueueWrite(item.idx, "control", 0)
                           ELSE write_queue
  /\ op' = NoOp
  /\ UNCHANGED <<plan, world, bounds>>

(* An accepted write is shown to every listener; a refused one to none. *)
DeliverWrite ==
  /\ op # NoOp /\ op.kind = "write" /\ op.stage = "came"
  /\ shown' = IF op.status = "ok" THEN Dispatch(op.req.idx, <<op.req.attr>>, op.values)
              ELSE shown
  /\ op' = NoOp
  /\ UNCHANGED <<plan, world, write_queue, bounds>>

Possible(p) == IF p[2] = "error" THEN FaultSets[IsRoom(p[1])] ELSE ToSet(Readings[p[2]])
Change(p) ==
  /\ config \in Watched /\ changes < MaxChanges /\ changes' = changes + 1
  /\ \E v \in Possible(p) \ {world[p]} : world' = [world EXCEPT ![p] = v]
  /\ UNCHANGED <<plan, shown, op, write_queue, edits, troubles>>

Next ==
  \/ \E i \in DOMAIN entities, v \in Settings : SetNumber(i, v)
  \/ SendWrite \/ \E i \in 1..MaxItems : SendPoll(i)
  \/ Serve \/ ServeBadly \/ TimeOut \/ DeliverPoll \/ DeliverWrite
  \/ \E p \in DOMAIN world : Change(p)

(* Every request ends, by its reply or by the timeout; the loop goes on,   *)
(* and its round robin gives every item its turn.                          *)
Ends == op # NoOp /\ op' = NoOp
Fairness ==
  /\ WF_op(SendWrite) /\ WF_op(Ends)
  /\ \A i \in 1..MaxItems : SF_op(SendPoll(i))

Spec == Init /\ [][Next]_vars /\ Fairness

-----------------------------------------------------------------------------
(* What each entity shows when it is up to date.  Faults are the faults    *)
(* there are; everything else is the reading.                              *)
FaultsNamed(idx, faults) ==
  IF IsRoom(idx) THEN {IF f = "low battery" THEN "RT touch" ELSE f : f \in faults}
  ELSE faults
Alarming(idx, faults) ==
  IF IsRoom(idx) THEN faults \ {"RT touch", "low battery"} # {} ELSE faults # {}

ClimateAgrees(idx, s) ==
  LET floor == <<idx, "floor_mode">> \in DOMAIN world /\ world[idx, "floor_mode"] = 1
      reading == world[idx, IF floor THEN "floor_temp" ELSE "air_temp"]
      bound == world[idx, "min"]
  IN  /\ reading # Invalid => s.current = reading
      /\ bound # Invalid => s.lo = bound
      /\ (s.action = "heating") = (world[idx, "heatcool"] = 1)

Agrees(e, s) ==
  LET truth == world[e.idx, e.attr]
  IN  CASE e.decode = "climate" -> ClimateAgrees(e.idx, s)
        [] e.decode = "outputs" ->
             s.list = <<UNION {world[e.idx, g] : g \in OutputGroups}>>
        [] e.decode = "problem" -> s = <<Alarming(e.idx, truth)>>
        [] e.decode \in {"fault_room", "fault_rail"} -> s = <<FaultsNamed(e.idx, truth)>>
        [] OTHER -> Decode(e, truth) \in {<<>>, s}

(* Whatever changed at the controller, was set on a number, refused, lost  *)
(* or cut short, in the end every entity shows the truth: a number set     *)
(* from Home Assistant is "confirmed (or corrected) on the next poll"      *)
(* (number.cpp), and no entity waits for a value nobody polls.             *)
Settles ==
  <>[](config \in Watched =>
         \A i \in DOMAIN entities : Agrees(entities[i], shown[i]))

(* A Problem alarm that is on has a Fault text beside it that names a      *)
(* fault, and a controller's is on whenever one is named: the two masks    *)
(* read the same error code alike (status.h, text_sensor.cpp).             *)
AlarmExplained ==
  \A i, j \in DOMAIN entities :
    LET e == entities[i]
        f == entities[j]
    IN  e.decode = "problem" /\ f.decode \in {"fault_room", "fault_rail"} /\ e.idx = f.idx =>
          /\ shown[i] = <<TRUE>> => shown[j] \notin {<<>>, <<{}>>}
          /\ ~IsRoom(e.idx) /\ shown[i] = <<FALSE>> => shown[j] = <<{}>>

(* The temperature sensor, there because history is kept for it and not    *)
(* for climate entities, shows the climate's current temperature unless    *)
(* the room is regulated by its floor, or its air reading is invalid, which *)
(* the sensor shows and the climate entity passes over (__init__.py;       *)
(* climate.cpp, sensor.cpp).                                               *)
HistoryInStep ==
  \A i, j \in DOMAIN entities :
    LET e == entities[i]
        f == entities[j]
    IN  e.decode = "climate" /\ f.decode = "temp" /\ f.attr = "air_temp" /\ e.idx = f.idx =>
          (shown[i].floor_mode # 1 /\ shown[i].room_temp # NaN =>
             shown[j] = <<shown[i].current>>)

(* What an entity reads. *)
Consumes(e) ==
  CASE e.decode = "outputs" -> OutputGroups
    [] e.decode = "climate" -> {"air_temp", "heatcool", "mode", "home", "away", "sleep",
                                "min", "max", "control"}
    [] OTHER -> {e.attr}

(* Every attribute an entity reads is polled; what it puts together from   *)
(* several is in one reply; no request asks for more than build_read()     *)
(* takes, none for a size that is not known, which would stop the reply's  *)
(* cutting there, and no reply is longer than a frame                      *)
(* (build_poll_list_, __init__.py, the entities' setup()).                 *)
EveryEntityFed ==
  /\ \A i \in DOMAIN entities :
       LET e == entities[i]
           Feeds(item, attrs) == item.idx = e.idx /\ attrs \subseteq ToSet(item.attrs)
       IN  IF e.decode = "climate"
           THEN \A a \in Consumes(e) : \E item \in ToSet(poll_list) : Feeds(item, {a})
           ELSE \E item \in ToSet(poll_list) : Feeds(item, Consumes(e))
  /\ \A item \in ToSet(poll_list) :
       /\ Len(item.attrs) \in 1..15
       /\ \A a \in ToSet(item.attrs) : AttrSize(a) > 0
       /\ 7 + FoldLeft(LAMBDA n, a : n + AttrSize(a), 0, item.attrs) <= MaxFrame

(* No attribute is read in two items, or twice in one: "an attr registered *)
(* on both tiers polls fast" (danfoss_icon.h; build_poll_list_).  And what *)
(* the hub counts as its rooms are the rooms it polls.                     *)
ReadOnce ==
  /\ \A i, j \in DOMAIN poll_list :
       /\ IsInjective(poll_list[i].attrs)
       /\ i # j /\ poll_list[i].idx = poll_list[j].idx =>
            /\ ToSet(poll_list[i].attrs) \cap ToSet(poll_list[j].attrs) = {}
            /\ poll_list[i].fast # poll_list[j].fast
  /\ \A r \in ToSet(poll_regs) :
       r.fast => \E item \in ToSet(poll_list) :
                   item.idx = r.idx /\ item.fast /\ r.attr \in ToSet(item.attrs)
  /\ IsInjective(RoomsTracked(entities))
  /\ ToSet(RoomsTracked(entities)) =
       {poll_list[i].idx : i \in {k \in DOMAIN poll_list : IsRoom(poll_list[k].idx)}}

-----------------------------------------------------------------------------
(* What keeps two entities that show the same in step: the pairs there     *)
(* are, and what each pair shows.  The climate entity's current            *)
(* temperature is the sensor's unless its floor regulates; an alarm and a  *)
(* Fault text are both nothing yet, or made of one error code.             *)
SameTemperature(s, t) ==
  /\ DOMAIN s = {"room_temp", "floor_temp", "floor_mode", "current", "action", "lo", "hi"}
  /\ s.floor_mode # 1 /\ s.room_temp # NaN => s.current = s.room_temp
  /\ \/ t = <<>> /\ s.room_temp = NaN
     \/ t = <<s.room_temp>>

SameAlarm(room, s, t) ==
  \/ s = <<>> /\ t = <<>>
  \/ /\ t = <<t[1]>>
     /\ \/ s = <<TRUE>> /\ t[1] # {}
        \/ s = <<FALSE>> /\ (room \/ t[1] = {})

ClimatePair(e, f) ==
  e.decode = "climate" /\ f.decode = "temp" /\ f.attr = "air_temp" /\ e.idx = f.idx
AlarmPair(e, f) ==
  e.decode = "problem" /\ f.decode \in {"fault_room", "fault_rail"} /\ e.idx = f.idx

InStep ==
  /\ DOMAIN shown = DOMAIN entities
  /\ \A i, j \in DOMAIN entities : ClimatePair(entities[i], entities[j])
                                     => SameTemperature(shown[i], shown[j])
  /\ \A i, j \in DOMAIN entities : AlarmPair(entities[i], entities[j])
                                     => SameAlarm(IsRoom(entities[i].idx), shown[i], shown[j])
=============================================================================
