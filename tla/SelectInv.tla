----------------------------- MODULE SelectInv -----------------------------
(***************************************************************************)
(* Why a choice made on entities that were up to date reaches every room:  *)
(* the writes it queued are the only ones that wait, all of them lead to   *)
(* the chosen mode, and what a room lacks of it is among them.             *)
(***************************************************************************)
EXTENDS ModeSelect

ASSUME NamesAssumption ==
  NaN \notin Nat /\ Presets \cap {"mode", "off", "mixed"} = {}

Settable == {HeatTemp, Floor}
Readable == Settable \cup {NaN}
Commands == [attr : {"mode"}, value : Presets] \cup [attr : {Home}, value : Settable]
Writes == [room : Climates, attr : {"mode"}, value : Presets]
          \cup [room : Climates, attr : {Home}, value : Settable]

EntitySet ==
  [room_mode : Presets, mode : {"OFF", "HEAT"}, target : Readable, sp : [Presets -> Readable],
   saved : {HeatTemp, NaN}, lo : {Floor}, hi : {Ceiling}, published : BOOLEAN,
   last : [mode : {"OFF", "HEAT"}, preset : Presets \cup {None}, target : Readable],
   mirror : Readable, out : Seq(Commands)]
RoomSet == [mode : Presets, sp : [Presets -> Settable]]
OpSet ==
  {NoOp} \cup [kind : {"write"}, room : Climates, write : Writes, stage : {"sent", "served"}]
         \cup [kind : {"poll"}, room : Climates, stage : {"sent"}]
         \cup [kind : {"poll"}, room : Climates, stage : {"served"}, read : RoomSet]

(* An entity that is off, or has read any preset, knows the Home setpoint: *)
(* it parked it, or the poll that brought the others brought it as well.   *)
Known(e) ==
  /\ e \in EntitySet
  /\ e.mode = "OFF" \/ (\E p \in Presets : e.sp[p] # NaN) => e.sp[Home] # NaN
(* An entity between two events has nothing to queue. *)
Settled(e) == Known(e) /\ e.out = <<>>
SelectTyped ==
  /\ DOMAIN entity = Climates /\ \A r \in Climates : Settled(entity[r])
  /\ room \in [Climates -> RoomSet] /\ queue \in Seq(Writes)
  /\ flash \in [Climates -> {HeatTemp, NaN}]
  /\ used \in [choices : Nat, losses : Nat, upsets : Nat]
  /\ op \in OpSet /\ (op.kind = "write" => op.room = op.write.room)

(* A write the room has not seen. *)
Queued(q, w) == \E i \in DOMAIN q : q[i] = w
Waiting(w) ==
  \/ Queued(queue, w)
  \/ op.kind = "write" /\ op.stage = "sent" /\ op.write = w

PresetOf(m) == IF m = "off" THEN Home ELSE m
TargetOf(m) == IF m = "off" THEN Floor ELSE HeatTemp
LeadsTo(m, w) ==
  \/ w.attr = "mode" /\ w.value = PresetOf(m)
  \/ w.attr = PresetOf(m) /\ w.value = TargetOf(m)
OnlyTheChoice == wish # None => \A w \in Writes : Waiting(w) => LeadsTo(wish, w)

WillBe(r, m) ==
  /\ \/ room[r].mode = PresetOf(m)
     \/ \E w \in Writes : Waiting(w) /\ w.room = r /\ w.attr = "mode"
  /\ \/ room[r].sp[PresetOf(m)] = TargetOf(m)
     \/ \E w \in Writes : Waiting(w) /\ w.room = r /\ w.attr = PresetOf(m)
EachWillBe ==
  wish # None => wish \in Modes /\ \A r \in Climates : WillBe(r, wish)

ChoiceInv == SelectTyped /\ OnlyTheChoice /\ EachWillBe
=============================================================================
