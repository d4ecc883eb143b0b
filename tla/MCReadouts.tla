---------------------------- MODULE MCReadouts ----------------------------
(* A small instance of Readouts for TLC. *)
EXTENDS Readouts

Room(number, controller, floor, on) ==
  [number |-> number, controller |-> controller, floor |-> floor, on |-> on]
Config(rooms, primary, secondaries) ==
  [rooms |-> rooms, primary |-> primary, secondaries |-> secondaries]

(* A room with any toggles beside one with none, at the ends of their      *)
(* controllers' ranges, with and without the controllers' entities.        *)
AnyToggles ==
  {Config(<<Room(15, 1, floor, on), Room(1, 2, FALSE, {})>>, primary, secondaries) :
     floor \in BOOLEAN, on \in SUBSET RoomToggles,
     primary \in {{}, PrimaryToggles}, secondaries \in {<<[number |-> 2, on |-> {"fault"}]>>}}

FloorRoom ==
  Config(<<Room(1, 1, TRUE, {"room_temperature", "setpoint_limits", "outputs"})>>, {}, <<>>)
FaultyHouse ==
  Config(<<Room(1, 3, FALSE, {"battery", "firmware", "fault"})>>, {"fault"}, <<>>)
TwoHouses == {FloorRoom, FaultyHouse}
AllConfigs == AnyToggles \cup TwoHouses

OneFault == [room \in BOOLEAN |->
  IF room THEN {{}, {"low battery"}, {"thermostat missing", "floor short"}}
  ELSE {{}, {"output"}, {"radio missing", "Pt1000 open"}}]

(* An output error together with another fault of the rail. *)
TwoFaults == [OneFault EXCEPT ![FALSE] = {{}, {"output", "radio missing"}}]

(* What each attribute holds at boot, and what it may turn to. *)
ReadingValues ==
  [a \in {"home", "away", "sleep", "floor_min", "floor_max"} |-> <<2000>>]
  @@ [a \in {"mode"} |-> <<0>>] @@ ("control" :> <<0, 1>>)
  @@ ("heatcool" :> <<1>>) @@ ("min" :> <<600>>) @@ ("max" :> <<3000>>)
  @@ ("air_temp" :> <<2100, Invalid>>)
  @@ ("floor_temp" :> <<2400, Invalid>>) @@ ("floor_mode" :> <<1, 0>>)
  @@ ("out_slow" :> <<{}, {1}>>) @@ ("out_med" :> <<{2}, {}>>) @@ ("out_fast" :> <<{}>>)
  @@ ("battery" :> <<80, 254>>) @@ ("firmware" :> <<"", "2.1">>)
  @@ [a \in {"model", "serial"} |-> <<"x">>]
  @@ ("revision" :> <<[hw |-> "h1", sw |-> "s1"]>>)
===========================================================================
