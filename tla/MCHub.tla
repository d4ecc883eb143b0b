------------------------------ MODULE MCHub ------------------------------
(* Small instances of Hub for TLC. *)
EXTENDS Hub

Item(r, ctl, ms, n) == [idx |-> r, control |-> ctl, interval |-> ms, count |-> n]

\* a fast item and a slow one that carries the control mode
OneRoom == <<Item("r1", FALSE, 2, 3), Item("r1", TRUE, 4, 1)>>
NoController == {}
TwoRails == {<<2, 0>>, <<2, 2>>, <<1, 1>>}
=============================================================================
