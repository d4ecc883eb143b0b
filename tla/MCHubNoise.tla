---------------------------- MODULE MCHubNoise ----------------------------
(* Small instances of HubNoise for TLC. *)
EXTENDS HubNoise

Item(r, ctl, ms, n) == [idx |-> r, control |-> ctl, interval |-> ms, count |-> n]
TwoItems == <<Item("r1", FALSE, 1, 3), Item("r1", TRUE, 2, 1)>>
OneItem == <<Item("r1", FALSE, 1, 3)>>
NoController == {}
===========================================================================
