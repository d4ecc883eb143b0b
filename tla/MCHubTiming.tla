--------------------------- MODULE MCHubTiming ---------------------------
(* Small instances of HubTiming for TLC. *)
EXTENDS HubTiming

Item(r, ctl, ms, n) == [idx |-> r, control |-> ctl, interval |-> ms, count |-> n]
OnePoll == <<Item("r1", FALSE, 2, 3)>>
\* two items of one interval, one with more attributes than build_read takes
TwoPolls == <<Item("r1", FALSE, 1, 16), Item("r1", FALSE, 1, 1)>>
NoController == {}
=============================================================================
