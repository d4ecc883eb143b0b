--------------------------- MODULE ClimateFixed ---------------------------
(***************************************************************************)
(* Why a climate entity cannot contradict itself or freeze a room while    *)
(* the setpoint bounds stay as they are: the invariant behind the safety   *)
(* properties of Climate, and what it assumes of the values in use.  With  *)
(* it, why the room ends up as the last call asked.                        *)
(***************************************************************************)
EXTENDS Climate

CONSTANTS Lower, Upper   \* the bounds, the same in the menu and in the flash

(* Nobody moves the bounds, and every value chosen, saved ones included,   *)
(* lies above the frost band and within them.                              *)
ASSUME FixedAssumption ==
  /\ Lower \in Nat /\ Upper \in Nat /\ Bounds = {<<Lower, Upper>>}
  /\ \A t \in HeatTemps : Lower + 5 < t /\ t <= Upper
  /\ SavedAtBoot \subseteq HeatTemps
ASSUME CallsAssumption ==
  Calls \subseteq [preset : Presets \cup {None}, mode : {None, "OFF", "HEAT"},
                   target : HeatTemps \cup {None}]
ASSUME NamesAssumption ==
  NaN \notin Nat /\ "mode" \notin Presets /\ None \notin {"OFF", "HEAT", "preset", "target"}

(* The values a setpoint can have, and the writes a handler can queue:     *)
(* only the Home setpoint is ever parked.                                  *)
Parkable == HeatTemps \cup {Lower}
Readable == Parkable \cup {NaN}
SetpointWrites ==
  [attr : {Home}, value : Parkable] \cup [attr : {Away, Sleep}, value : HeatTemps]
WriteSet == [attr : {"mode"}, value : Presets] \cup SetpointWrites

EntitySet ==
  [room_mode : Presets, mode : {"OFF", "HEAT"}, target : Readable, sp : [Presets -> Readable],
   saved : HeatTemps, lo : {Lower}, hi : {Upper}, published : BOOLEAN,
   last : [mode : {"OFF", "HEAT"}, preset : Presets \cup {None}, target : Readable],
   mirror : Readable, out : Seq(WriteSet)]
RoomSet ==
  [mode : Presets, lo : {Lower}, hi : {Upper},
   sp : {f \in [Presets -> Parkable] : f[Away] \in HeatTemps /\ f[Sleep] \in HeatTemps}]
OpSet ==
  {NoOp} \cup [kind : {"write"}, stage : {"sent", "served"}, write : WriteSet, ok : BOOLEAN]
         \cup [kind : {"fast", "slow"}, stage : {"sent"}]
         \cup [kind : {"fast", "slow"}, stage : {"served"}, values : RoomSet]

(* Between two statements of a handler the publication may lag behind, but *)
(* mode and target agree and the mirror shows the target published.        *)
Ready(e) ==
  /\ e \in EntitySet /\ e.mirror = e.last.target
  /\ e.target # NaN => (e.mode = "OFF" <=> AtFrost(e, e.target))
InStep(e) == e.published => e.last = Visible(e)
Sound(e) == Ready(e) /\ InStep(e)

ClimateInv ==
  /\ Sound(entity) /\ entity.out = <<>>
  /\ queue \in Seq(WriteSet) /\ room \in RoomSet /\ op \in OpSet
  /\ flash \in [saved : HeatTemps, lo : {Lower}, hi : {Upper}]

-----------------------------------------------------------------------------
(* The wish is granted by what is still on its way. *)
Promised(w) ==
  /\ w.kind \in {None, "OFF", "HEAT", "preset", "target"}
  /\ w.kind = "OFF" => Ends("mode", {Home}) /\ Ends(Home, {Lower})
  /\ w.kind = "HEAT" => Ends("mode", {Home}) /\ Ends(Home, HeatTemps)
  /\ w.kind = "preset" => /\ w.preset \in Presets
                          /\ Ends("mode", {w.preset}) /\ Ends(w.preset, HeatTemps)
  /\ w.kind = "target" => /\ w.preset \in Presets
                          /\ Ends("mode", {w.preset}) /\ Ends(w.preset, {w.value})
WishInv == Promised(wish)
=============================================================================
