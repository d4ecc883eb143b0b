---------------------------- MODULE MCClimate ----------------------------
(* Small instances of Climate for TLC. *)
EXTENDS Climate

CallFor(p, m, t) == [preset |-> p, mode |-> m, target |-> t]
PickHome == CallFor(Home, None, None)
PickAway == CallFor(Away, None, None)
TurnOff == CallFor(None, "OFF", None)
TurnOn == CallFor(None, "HEAT", None)
Slide == CallFor(None, None, 2200)

SingleCalls == {PickHome, PickAway, TurnOff, TurnOn, Slide}
AllCalls == SingleCalls \cup {CallFor(Away, "OFF", None), CallFor(None, "HEAT", 2200)}
OnlyHeat == {TurnOn}
OffAndHome == {TurnOff, PickHome}
AwayAndOff == {PickAway, TurnOff}
JustOff == {TurnOff}
OffAndOn == {TurnOff, TurnOn}

OneBound == {<<500, 3500>>}
TwoBounds == {<<500, 3500>>, <<1800, 3500>>}
HighBounds == {<<500, 3500>>, <<2100, 3500>>}
=============================================================================
