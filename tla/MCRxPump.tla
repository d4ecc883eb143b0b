----------------------------- MODULE MCRxPump -----------------------------
(* Small instances of RxPump for TLC. *)
EXTENDS RxPump

\* empty; a payload that looks like a sync; one that looks like a header
SomePayloads == {<<>>, <<1>>, <<1, 5>>}
\* stray bytes, a sync alone, headers of frames cut short, a frame corrupted
SomeNoise == {<<0>>, <<1>>, <<1, 7>>, <<1, 5, 1>>, <<1, 4, 1, 0>>, <<1, 8, 1, 0>>}
OnePayload == {<<>>}
CutShort == {<<1, 7>>}
=============================================================================
