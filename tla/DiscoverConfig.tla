--------------------------- MODULE DiscoverConfig ---------------------------
(***************************************************************************)
(* From the boot-time probe to the configuration a user pastes: what       *)
(* log_discovery_() takes from each answer, what print_yaml() writes when  *)
(* the Discover Config button is pressed, the five lines of it each loop() *)
(* logs, and the configuration those lines make when they are pasted.      *)
(***************************************************************************)
EXTENDS PollPlan

CONSTANTS
  Houses,      \* what may be there: [rails, rooms, floors]
  MaxPresses,  \* bound: presses of the button
  MaxLosses    \* bound: answers lost or cut short

ASSUME HousesAssumption ==
  \A h \in Houses : /\ 1 \in h.rails /\ h.rails \subseteq 1..3
                    /\ h.floors \subseteq h.rooms /\ \A r \in h.rooms : IsRoom(r)

VARIABLES
  house,
  discovery, disc_idx,                        \* the probes, and how many were made
  disc_controllers, disc_rooms, disc_floor_rooms,
  yaml_pending, yaml_idx,                     \* the dump, and how much of it is logged
  log,         \* what was logged since the last first line of a dump
  presses, losses,
  atPress      \* at the last press: was the probe over, with nothing lost

found == <<disc_controllers, disc_rooms, disc_floor_rooms>>
probing == <<discovery, disc_idx, found, losses>>
printing == <<yaml_pending, yaml_idx, log, presses, atPress>>
vars == <<house, probing, printing>>

LinesPerLoop == 5

Init ==
  /\ house \in Houses
  /\ discovery = <<1, 2, 3>> /\ disc_idx = 0
  /\ disc_controllers = <<>> /\ disc_rooms = <<>> /\ disc_floor_rooms = <<>>
  /\ yaml_pending = <<>> /\ yaml_idx = 0 /\ log = <<>>
  /\ presses = 0 /\ losses = 0 /\ atPress = FALSE

-----------------------------------------------------------------------------
(* The probe.                                                              *)

RoomBase(m) == RoomIdxBase + (m - 1) * SlotsPerController
RoomsOf(m) == [i \in 1..SlotsPerController |-> RoomBase(m) + (i - 1)]

ProbeController(idx) ==
  IF idx \in house.rails   \* a revision other than zero
  THEN /\ disc_controllers' = Append(disc_controllers, idx)
       /\ discovery' = discovery \o RoomsOf(idx)
       /\ UNCHANGED <<disc_rooms, disc_floor_rooms>>
  ELSE UNCHANGED <<discovery, found>>

(* A floor is fitted where a valid temperature was read; its reading is    *)
(* the last of the answer.                                                 *)
FloorFound(idx, all) == all /\ idx \in house.floors

ProbeRoom(idx, all) ==
  /\ IF idx \in house.rooms   \* a product id other than zero
     THEN /\ disc_rooms' = Append(disc_rooms, idx)
          /\ disc_floor_rooms' = disc_floor_rooms \o When(FloorFound(idx, all), <<idx>>)
     ELSE UNCHANGED <<disc_rooms, disc_floor_rooms>>
  /\ UNCHANGED <<discovery, disc_controllers>>

Probing == disc_idx < Len(discovery)
ProbeAnswered ==
  /\ Probing /\ disc_idx' = disc_idx + 1
  /\ LET idx == discovery[disc_idx + 1]
     IN  IF IsRoom(idx) THEN ProbeRoom(idx, TRUE) ELSE ProbeController(idx)
  /\ UNCHANGED <<house, printing, losses>>

(* The answer is lost, or a room's ends before the floor temperature. *)
ProbeFailed ==
  /\ Probing /\ disc_idx' = disc_idx + 1
  /\ losses < MaxLosses /\ losses' = losses + 1
  /\ LET idx == discovery[disc_idx + 1]
     IN  \/ UNCHANGED <<discovery, found>>
         \/ IsRoom(idx) /\ ProbeRoom(idx, FALSE)
  /\ UNCHANGED <<house, printing>>

-----------------------------------------------------------------------------
(* print_yaml().                                                           *)

Line(key, val) == <<[key |-> key, val |-> val]>>
Begin == [key |-> "begin", val |-> 0]
End == [key |-> "end", val |-> 0]
ForEach(s, Lines(_)) == FlattenSeq([i \in DOMAIN s |-> Lines(s[i])])

Secondaries == ForEach(disc_controllers, LAMBDA c : When(c > 1, <<c>>))

(* A sub-device, and the entry that goes under it. *)
Declare(n) == Line("id", n) \o Line("name", n)
Refer(n) == Line("name", n) \o Line("device_id", n)

RoomLines(idx) ==
  LET rel == idx - RoomIdxBase
      m == (rel \div SlotsPerController) + 1
  IN  Line("number", (rel % SlotsPerController) + 1)
      \o When(m > 1, Line("controller", m))
      \o Refer(idx)
      \o When(Contains(disc_floor_rooms, idx), Line("floor", 1))
SecondaryLines(idx) == Line("number", idx) \o Refer(idx)

Yaml ==
  LET devices == disc_rooms \o Secondaries
  IN  <<Begin>>
      \o When(devices # <<>>, Line("esphome", 0) \o Line("devices", 0)
                              \o ForEach(devices, Declare))
      \o Line("danfoss_icon", 0)
      \o When(disc_rooms # <<>>, Line("rooms", 0) \o ForEach(disc_rooms, RoomLines))
      \o When(Secondaries # <<>>,
              Line("secondary_controllers", 0) \o ForEach(Secondaries, SecondaryLines))
      \o <<End>>

\* mutant: a press while lines are being logged goes on where they were
Continue == yaml_idx

FromStart == 0

Press ==
  /\ presses < MaxPresses /\ presses' = presses + 1
  /\ yaml_pending' = Yaml /\ yaml_idx' = FromStart
  /\ atPress' = (~Probing /\ losses = 0)
  /\ UNCHANGED <<house, probing, log>>

Least(a, b) == IF a < b THEN a ELSE b

\* mutant: the last lines, fewer than five, are waited for
WholeBatch == IF yaml_idx + LinesPerLoop <= Len(yaml_pending)
              THEN LinesPerLoop ELSE 0

(* How many lines this loop() logs. *)
Batch == Least(LinesPerLoop, Len(yaml_pending) - yaml_idx)

Logged(lines) ==
  IF Contains(lines, Begin)
  THEN SubSeq(lines, SelectInSeq(lines, LAMBDA l : l = Begin), Len(lines))
  ELSE log \o lines

Drain ==
  /\ Batch > 0
  /\ log' = Logged(SubSeq(yaml_pending, yaml_idx + 1, yaml_idx + Batch))
  /\ IF yaml_idx + Batch < Len(yaml_pending)
     THEN yaml_idx' = yaml_idx + Batch /\ UNCHANGED yaml_pending
     ELSE yaml_idx' = 0 /\ yaml_pending' = <<>>
  /\ UNCHANGED <<house, probing, presses, atPress>>

Next == ProbeAnswered \/ ProbeFailed \/ Press \/ Drain

Spec == Init /\ [][Next]_vars /\ WF_vars(Drain)

-----------------------------------------------------------------------------
(* What ESPHome makes of the logged lines: the defaults of ROOM_SCHEMA and *)
(* SECONDARY_SCHEMA where a line says nothing.                             *)
RoomDefaults ==
  [number |-> 0, controller |-> 1, floor |-> FALSE, on |-> RoomToggles]
SecondaryDefaults == [number |-> 0, on |-> RailToggles]

(* One more line of the paste; the last entry is the one being filled in.  *)
Read(p, line) ==
  LET room == Len(p.rooms)
      sec == Len(p.secondaries)
      v == line.val
  IN  CASE line.key \in {"rooms", "secondary_controllers"} -> [p EXCEPT !.section = line.key]
        [] line.key = "number" /\ p.section = "rooms" ->
             [p EXCEPT !.rooms = Append(@, [RoomDefaults EXCEPT !.number = v])]
        [] line.key = "number" /\ p.section # "rooms" ->
             [p EXCEPT !.secondaries = Append(@, [SecondaryDefaults EXCEPT !.number = v])]
        [] line.key = "controller" -> [p EXCEPT !.rooms[room].controller = v]
        [] line.key = "floor" -> [p EXCEPT !.rooms[room].floor = TRUE]
        [] line.key = "id" -> [p EXCEPT !.devices = Append(@, v)]
        [] line.key = "device_id" -> [p EXCEPT !.under = Append(@, v)]
        [] OTHER -> p

Pasted ==
  FoldLeft(Read, [section |-> "none", rooms |-> <<>>, secondaries |-> <<>>,
                  primary |-> PrimaryToggles, devices |-> <<>>, under |-> <<>>], log)

Ended == log # <<>> /\ Last(log) = End

(* The rooms and rails the pasted configuration polls, the primary aside,  *)
(* and those there are to find.                                            *)
PolledBy(config) ==
  {r.idx : r \in ToSet(Registrations(config, Entities(config)))} \ {0, 1}
FloorsOf(config) == {RoomIndex(r) : r \in {q \in ToSet(config.rooms) : q.floor}}
There == {r \in house.rooms : \E m \in house.rails : Contains(RoomsOf(m), r)}
         \cup (house.rails \ {1})

(* A dump, once its last line is logged, pastes into a configuration that  *)
(* polls only what is in the house, expects floors only where one is       *)
(* fitted, and puts each entry under a sub-device declared once; whatever  *)
(* was lost, however often and however early the button was pressed        *)
(* (print_yaml, log_discovery_, _room_index of __init__.py).               *)
PasteSound ==
  Ended =>
    LET config == Pasted
    IN  /\ PolledBy(config) \subseteq There
        /\ FloorsOf(config) \subseteq house.floors
        /\ IsInjective(config.devices)
        /\ ToSet(config.devices) = ToSet(config.under)

(* Pressed when the probe has ended with nothing lost, it leaves nothing   *)
(* out: indices split into controller and number come together again.      *)
PasteComplete ==
  Ended /\ yaml_pending = <<>> /\ atPress =>
    LET config == Pasted
    IN  PolledBy(config) = There /\ FloorsOf(config) = There \cap house.floors

(* Every press is followed by a whole dump, logged to its last line.       *)
DumpEnds == (yaml_pending # <<>>) ~> (yaml_pending = <<>> /\ Ended)
=============================================================================
