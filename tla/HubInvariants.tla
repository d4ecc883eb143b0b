--------------------------- MODULE HubInvariants ---------------------------
(***************************************************************************)
(* What InventorySound and ResetsDoNotPile rest on: a probe in flight is   *)
(* the last one sent, and a poll is sent only when no write waits.  And    *)
(* what InventoryComplete rests on, when no command is lost, refused or    *)
(* answered late: a probe is never given up.                               *)
(***************************************************************************)
EXTENDS HubBus

(* No slot is probed twice; what was found was probed; and the slot of the *)
(* probe in flight, the last one sent, has not been found yet              *)
(* (maybe_send_next_ moves disc_idx_ on as it sends).                      *)
ProbedOnce == \A i, j \in DOMAIN discovery : discovery[i] = discovery[j] => i = j
FoundWasProbed ==
  \A i \in DOMAIN inventory : \E k \in 1..disc_idx : inventory[i] = discovery[k]
ProbeIsLast ==
  in_flight.kind = "probe" =>
    /\ disc_idx \in DOMAIN discovery /\ in_flight.slot = discovery[disc_idx]
    /\ \A i \in DOMAIN inventory : inventory[i] # in_flight.slot

(* The parts of InventorySound, without what is there. *)
ListedOnce == \A i, j \in DOMAIN inventory : inventory[i] = inventory[j] => i = j
Found(inv, c, n) == \E j \in 1..n : inv[j] = <<c, 0>>
RoomAfterController ==
  \A i \in DOMAIN inventory : inventory[i][2] # 0 => Found(inventory, inventory[i][1], i - 1)
RoomsProbedUnderFound ==
  \A i \in DOMAIN discovery :
    discovery[i][2] # 0 => Found(inventory, discovery[i][1], Len(inventory))

InventoryInv ==
  /\ ProbedOnce /\ FoundWasProbed /\ ProbeIsLast
  /\ ListedOnce /\ RoomAfterController /\ RoomsProbedUnderFound

(* At most one reset waits, and none while a poll that may find another    *)
(* is in flight.                                                           *)
IsReset(w) == w.attr = "control"
OneReset ==
  \A i, j \in DOMAIN write_queue : IsReset(write_queue[i]) /\ IsReset(write_queue[j]) => i = j
NoneBehindPoll ==
  in_flight.kind = "poll" => \A i \in DOMAIN write_queue : ~IsReset(write_queue[i])

ResetInv == OneReset /\ NoneBehindPoll

-----------------------------------------------------------------------------
(* Every command is obeyed, and its answer drained before the timeout. *)
NothingFails ==
  ~Lossy /\ Statuses = {"ok"} /\ MaxLatency + MaxLoop <= ReplyTimeout

(* So a hub that waits has something to wait for. *)
StillComing == state = "WAITING" => wire # <<>> \/ uart # <<>> \/ rx_buf # <<>>

(* What was probed and is there has been found, but for the probe in       *)
(* flight; every controller is probed, and every room of a controller      *)
(* found; and the probe ends only when the list has been walked            *)
(* (build_discovery_, expand_discovery_for_controller_).                   *)
Listed(slots, slot) == \E i \in DOMAIN slots : slots[i] = slot
ProbedIsFound ==
  \A k \in 1..disc_idx :
    /\ discovery[k] \in Present
    /\ ~(in_flight.kind = "probe" /\ k = disc_idx)
    => Listed(inventory, discovery[k])
ControllersProbed == \A c \in 1..NControllers : Listed(discovery, <<c, 0>>)
RoomsProbed ==
  \A i \in DOMAIN inventory, s \in 1..SlotsPerController :
    inventory[i][2] = 0 => Listed(discovery, <<inventory[i][1], s>>)
WalkedAtEnd == ~disc_active => disc_idx = Len(discovery) /\ in_flight.kind # "probe"

CompleteInv ==
  StillComing /\ ProbedIsFound /\ ControllersProbed /\ RoomsProbed /\ WalkedAtEnd
=============================================================================
