---------------------------- MODULE MCDiscover ----------------------------
(* A small instance of DiscoverConfig for TLC. *)
EXTENDS DiscoverConfig

House(rails, rooms, floors) == [rails |-> rails, rooms |-> rooms, floors |-> floors]

(* Rooms 1 and 15 of their controllers; a rail left out between two; a     *)
(* room whose rail is absent.                                              *)
FewHouses ==
  {House({1}, {}, {}),
   House({1}, {49, 63}, {63}),
   House({1, 2}, {50, 64, 78}, {64}),
   House({1, 3}, {63, 64, 79, 93}, {64, 93}),
   House({1, 2, 3}, {49, 64, 65, 93}, {})}
===========================================================================
