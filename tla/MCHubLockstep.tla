-------------------------- MODULE MCHubLockstep --------------------------
(* A small instance of HubInvariants, so of HubBus, for TLC. *)
EXTENDS HubInvariants

Item(r, ctl, ms, n) == [idx |-> r, control |-> ctl, interval |-> ms, count |-> n]
OneRoom == <<Item("r1", FALSE, 2, 3), Item("r1", TRUE, 4, 1)>>
OneController == {<<1, 0>>, <<1, 1>>}
=============================================================================
