------------------------------ MODULE PollPlan ------------------------------
(***************************************************************************)
(* What gets polled: the entities the configuration asks for (to_code() in *)
(* __init__.py), what each registers, and the poll list the hub builds     *)
(* from the registrations (build_poll_list_).                              *)
(*                                                                         *)
(* A room is [number, controller, floor, on], "on" being its toggles; a    *)
(* configuration is [rooms, primary, secondaries]: a sequence of rooms,    *)
(* the primary controller's toggles, and the secondary controllers as      *)
(* [number, on].  An attribute is named for what it holds.                 *)
(***************************************************************************)
EXTENDS Integers, Sequences, SequencesExt

RoomIdxBase == 49   \* 0x31
SlotsPerController == 15
MaxFrame == 128    \* DI_FRAME_MAX

IsRoom(idx) == idx >= RoomIdxBase

(* The toggles of a room, of any controller and of the primary, on where   *)
(* the configuration does not say.  A room's Setpoint sensor is fed by the *)
(* climate entity, and no poll is made for it.                             *)
RoomToggles == {"room_temperature", "setpoint_limits", "battery", "model", "firmware",
                "outputs", "fault"}
RailToggles == {"firmware", "hw_version", "sw_version", "fault"}
PrimaryToggles == RailToggles \cup {"serial"}

(* What the configuration's schema lets through.                           *)
Configurations ==
  [rooms : Seq([number : 1..SlotsPerController, controller : 1..3,
                floor : BOOLEAN, on : SUBSET RoomToggles]),
   primary : SUBSET PrimaryToggles,
   secondaries : Seq([number : 2..3, on : SUBSET RailToggles])]

\* mutant: off by one, a controller's first room takes the last one's index
RoomIndexShort(room) ==
  RoomIdxBase + (room.controller - 1) * (SlotsPerController - 1) + (room.number - 1)

(* The index on the wire of a configured room. *)
RoomIndex(room) ==
  RoomIdxBase + (room.controller - 1) * SlotsPerController + (room.number - 1)

(* Bytes of each attribute's value in a reply; 0 for any other attribute.  *)
AttrSize(a) ==
  CASE a \in {"air_temp", "floor_temp", "error", "min", "max", "home", "away", "sleep",
              "floor_min", "floor_max", "out_slow", "out_med", "out_fast"} -> 2
    [] a \in {"floor_mode", "battery", "mode", "control", "heatcool"} -> 1
    [] a \in {"revision", "serial"} -> 4
    [] a = "firmware" -> 6
    [] a = "model" -> 7
    [] OTHER -> 0

-----------------------------------------------------------------------------
(* The entities, in the order to_code() creates them.                      *)

Climate(idx) == [kind |-> "climate", idx |-> idx, attr |-> "mode", decode |-> "climate"]
Sensor(idx, attr, decode) ==
  [kind |-> "sensor", idx |-> idx, attr |-> attr, decode |-> decode]
Text(idx, attr, decode) == [kind |-> "text", idx |-> idx, attr |-> attr, decode |-> decode]
Number(idx, attr) == [kind |-> "number", idx |-> idx, attr |-> attr, decode |-> "number"]
Problem(idx) == [kind |-> "problem", idx |-> idx, attr |-> "error", decode |-> "problem"]

When(c, s) == IF c THEN s ELSE <<>>

RoomEntities(room) ==
  LET idx == RoomIndex(room)
      On(toggle, s) == When(toggle \in room.on, s)
  IN  <<Climate(idx)>>
      \o On("room_temperature", <<Sensor(idx, "air_temp", "temp")>>)
      \o On("setpoint_limits", <<Number(idx, "min"), Number(idx, "max")>>)
      \o On("battery", <<Sensor(idx, "battery", "battery")>>)
      \o On("model", <<Text(idx, "model", "product")>>)
      \o On("firmware", <<Text(idx, "firmware", "verstr")>>)
      \o On("outputs", <<Text(idx, "out_slow", "outputs")>>)
      \o On("fault", <<Problem(idx), Text(idx, "error", "fault_room")>>)
      \o When(room.floor,
              <<Sensor(idx, "floor_temp", "temp"), Text(idx, "floor_mode", "floor_mode"),
                Number(idx, "floor_min"), Number(idx, "floor_max")>>)

ControllerEntities(idx, on) ==
  LET On(toggle, s) == When(toggle \in on, s)
  IN  On("firmware", <<Text(idx, "firmware", "verstr")>>)
      \o On("hw_version", <<Text(idx, "revision", "hwver")>>)
      \o On("sw_version", <<Text(idx, "revision", "swver")>>)
      \o On("serial", <<Text(0, "serial", "serial")>>)
      \o On("fault", <<Problem(idx), Text(idx, "error", "fault_rail")>>)

Entities(config) ==
  FlattenSeq([i \in DOMAIN config.rooms |-> RoomEntities(config.rooms[i])])
  \o ControllerEntities(1, config.primary)
  \o FlattenSeq([i \in DOMAIN config.secondaries |->
       ControllerEntities(config.secondaries[i].number, config.secondaries[i].on)])

-----------------------------------------------------------------------------
(* Registrations: [idx, attr, fast].                                       *)

Reg(idx, attr, fast) == [idx |-> idx, attr |-> attr, fast |-> fast]

(* Those the generated code makes for a room, before any entity's setup(). *)
RoomRegs(room) ==
  LET idx == RoomIndex(room)
      fasts == <<"air_temp", "heatcool", "mode", "home", "away", "sleep">>
  IN  [i \in DOMAIN fasts |-> Reg(idx, fasts[i], TRUE)]
      \o <<Reg(idx, "min", FALSE), Reg(idx, "max", FALSE)>>
      \o When("outputs" \in room.on,
              <<Reg(idx, "out_med", FALSE), Reg(idx, "out_fast", FALSE)>>)
      \o When(room.floor, <<Reg(idx, "floor_temp", TRUE)>>)
CodegenRegs(config) ==
  FlattenSeq([i \in DOMAIN config.rooms |-> RoomRegs(config.rooms[i])])

(* The hub's own, in setup(): the heartbeat. *)
HubRegs == <<Reg(1, "revision", TRUE)>>

\* mutant: the Fault text leaves its poll to the Problem alarm, as that to it
SetupRegsNoFault(e) ==
  When(e.kind \in {"sensor", "text", "number"} /\ e.attr # "error",
       <<Reg(e.idx, e.attr, FALSE)>>)

(* An entity's, in its setup(): the climate's are made for it, and the     *)
(* Problem alarm has none of its own.                                      *)
SetupRegs(e) ==
  When(e.kind \in {"sensor", "text", "number"}, <<Reg(e.idx, e.attr, FALSE)>>)

(* All of them, in the order they are made. *)
Registrations(config, entities) ==
  CodegenRegs(config) \o HubRegs
  \o FlattenSeq([i \in DOMAIN entities |-> SetupRegs(entities[i])])

-----------------------------------------------------------------------------
(* build_poll_list_(): per index, in the order first seen, one item of its *)
(* fast attributes and one of the others.                                  *)

(* The members of s that are in S, in the order first seen in s.           *)
FirstSeen(s, S) ==
  FoldLeft(LAMBDA seen, x : IF x \notin S \/ Contains(seen, x) THEN seen ELSE Append(seen, x),
           <<>>, s)

(* add_room() and add_controller(): what dump_config() counts.             *)
Indices(s) == [i \in DOMAIN s |-> s[i].idx]
RoomsTracked(entities) ==
  FirstSeen(Indices(entities), {idx \in ToSet(Indices(entities)) : IsRoom(idx)})
ControllersTracked(entities) == FirstSeen(Indices(entities), 1..3)

(* The attributes of the registrations in S, all of one index and tier.    *)
AttrsOf(regs, S) ==
  LET picked == FirstSeen(regs, S) IN [i \in DOMAIN picked |-> picked[i].attr]

FastAttrs(regs, idx) == AttrsOf(regs, {r \in ToSet(regs) : r.idx = idx /\ r.fast})

\* mutant: an attribute of both tiers is read in both
SlowAttrsToo(regs, idx) ==
  LET slow == AttrsOf(regs, {r \in ToSet(regs) : r.idx = idx /\ ~r.fast})
  IN  slow \o When(IsRoom(idx) /\ ~Contains(slow, "control"), <<"control">>)

(* A room's control mode is read whether or not an entity asked for it.    *)
SlowAttrs(regs, idx) ==
  LET fast == FastAttrs(regs, idx)
      slow == AttrsOf(regs, {r \in ToSet(regs) :
                               r.idx = idx /\ ~r.fast /\ ~Contains(fast, r.attr)})
  IN  slow \o When(IsRoom(idx) /\ ~Contains(fast \o slow, "control"), <<"control">>)

Item(idx, attrs, fast) == When(attrs # <<>>, <<[idx |-> idx, attrs |-> attrs, fast |-> fast]>>)
PollItems(regs) ==
  LET idxs == FirstSeen(Indices(regs), ToSet(Indices(regs)))
      ItemsOf(idx) == Item(idx, FastAttrs(regs, idx), TRUE)
                      \o Item(idx, SlowAttrs(regs, idx), FALSE)
  IN  FlattenSeq([k \in DOMAIN idxs |-> ItemsOf(idxs[k])])
=============================================================================
