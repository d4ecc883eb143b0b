---------------------------- MODULE ModeSelect ----------------------------
(***************************************************************************)
(* DanfossIconModeSelect ("All Rooms Mode"): one select over every room's  *)
(* climate entity (module ClimateEntity), the write queue they share, the  *)
(* rooms themselves, and the restore value each entity keeps in the flash. *)
(*                                                                         *)
(* A choice is fanned out to the entities one after the other and shown at *)
(* once; afterwards loop() shows what the entities agree on, while each    *)
(* entity follows polls that may have been read before the choice.  Until  *)
(* its first poll, at boot, an entity knows no setpoint.                   *)
(***************************************************************************)
EXTENDS ClimateEntity, FiniteSets, SequencesExt

CONSTANTS
  N,             \* number of rooms: climates_ is 1..N, in this order
  HeatTemp,      \* the setpoint every preset was given, meant to heat
  Floor, Ceiling,\* setpoint bounds of every room
  SavedAtBoot,   \* restore values the flash may hold at first; NaN if none
  AwayTemps,     \* setpoints a room's Away may have
  MaxChoices, MaxLosses,  \* bounds on the environment
  MaxUpsets      \* bound on edits at a thermostat and restarts, together

ASSUME SelectAssumption ==
  /\ N \in Nat \ {0} /\ AwayTemps \subseteq {HeatTemp, Floor}
  /\ Floor \in Nat /\ HeatTemp \in Nat /\ Ceiling \in Nat
  /\ Floor + 5 < HeatTemp /\ HeatTemp <= Ceiling /\ SavedAtBoot \subseteq {HeatTemp, NaN}
  /\ MaxChoices \in Nat /\ MaxLosses \in Nat /\ MaxUpsets \in Nat

VARIABLES
  entity,   \* per room, the climate entity
  flash,    \* per room, the restore value a restart would load; NaN if none
  shown,    \* last_published_: what the select shows
  queue,    \* the hub's write queue
  op,       \* the operation in flight
  room,     \* per room, its mode and setpoints in the controller
  wish,     \* the last choice, while nothing has overruled it
  used      \* how much of each environment bound is spent

vars == <<entity, flash, shown, queue, op, room, wish, used>>

Climates == 1..N
Modes == {Home, Away, Sleep, "off"}
Mixed == "mixed"
NoOp == [kind |-> "none"]

\* mutant: OFF is not told from Home
PresetOnly(e) == e.room_mode

(* active_mode() *)
ActiveMode(e) == IF e.mode = "OFF" THEN "off" ELSE e.room_mode

\* mutant: the first room stands for all
FirstRoom(es) == ActiveMode(es[1])

(* loop(): what the entities agree on *)
Aggregate(es) ==
  IF \A r \in Climates : ActiveMode(es[r]) = ActiveMode(es[1])
  THEN ActiveMode(es[1]) ELSE Mixed

Chosen(e, m) == IF m = "off" THEN SetOff(e) ELSE SetPresetMode(e, m)

(* setup() of every climate entity *)
AtBoot == [r \in Climates |-> Booted([saved |-> flash[r], lo |-> Floor, hi |-> Ceiling])]

Init ==
  /\ room \in [Climates ->
       {[mode |-> Home,
         sp |-> [p \in Presets |-> CASE p = Home -> h [] p = Away -> a [] OTHER -> HeatTemp]] :
          h \in {HeatTemp, Floor},
          a \in AwayTemps}]
  /\ flash \in [Climates -> SavedAtBoot]
  /\ entity = AtBoot
  /\ shown = None /\ queue = <<>> /\ op = NoOp /\ wish = None
  /\ used = [choices |-> 0, losses |-> 0, upsets |-> 0]

Spend(what, most) == used[what] < most /\ used' = [used EXCEPT ![what] = @ + 1]

(* What the handlers queued goes to the hub, in the order of climates_. *)
Become(es) ==
  /\ entity' = [r \in Climates |-> [es[r] EXCEPT !.out = <<>>]]
  /\ queue' = queue \o FlattenSeq([r \in Climates |->
       [i \in DOMAIN es[r].out |->
          [room |-> r, attr |-> es[r].out[i].attr, value |-> es[r].out[i].value]]])

UpToDate == /\ queue = <<>> /\ op = NoOp
            /\ \A r \in Climates : /\ entity[r].room_mode = room[r].mode
                                   /\ entity[r].sp = room[r].sp

(* A choice the entity cannot show, and goes on showing off: a preset not  *)
(* read since the restart of an entity that is off (climate.cpp:65), one   *)
(* that is parked, or Home parked with nothing saved to bring it back.     *)
Unready(e, m) ==
  CASE m = "off" -> FALSE
    [] m = Home -> AtFrost(e, e.sp[Home]) /\ e.saved = NaN
    [] OTHER -> AtFrost(e, e.sp[m]) \/ (e.sp[m] = NaN /\ e.mode = "OFF")

(* control() *)
Choose(m) ==
  /\ Spend("choices", MaxChoices)
  /\ Become([r \in Climates |-> Chosen(entity[r], m)])
  /\ shown' = m
  /\ wish' = IF UpToDate /\ ~\E r \in Climates : Unready(entity[r], m) THEN m ELSE None
  /\ UNCHANGED <<flash, op, room>>

(* loop() *)
Show ==
  /\ shown # Aggregate(entity)
  /\ shown' = Aggregate(entity)
  /\ UNCHANGED <<entity, flash, queue, op, room, wish, used>>

SendWrite ==
  /\ op = NoOp /\ queue # <<>>
  /\ op' = [kind |-> "write", room |-> Head(queue).room, write |-> Head(queue), stage |-> "sent"]
  /\ queue' = Tail(queue)
  /\ UNCHANGED <<entity, flash, shown, room, wish, used>>

SendPoll(r) ==
  /\ op = NoOp /\ queue = <<>>
  /\ op' = [kind |-> "poll", room |-> r, stage |-> "sent"]
  /\ UNCHANGED <<entity, flash, shown, queue, room, wish, used>>

Obeyed(r, w) ==
  IF w.attr = "mode" THEN [r EXCEPT !.mode = w.value] ELSE [r EXCEPT !.sp[w.attr] = w.value]

(* The controller obeys the write, or reads the room. *)
Serve ==
  /\ op # NoOp /\ op.stage = "sent"
  /\ IF op.kind = "write"
     THEN /\ room' = [room EXCEPT ![op.room] = Obeyed(@, op.write)]
          /\ op' = [op EXCEPT !.stage = "served"]
     ELSE /\ op' = [kind |-> "poll", room |-> op.room, stage |-> "served", read |-> room[op.room]]
          /\ UNCHANGED room
  /\ UNCHANGED <<entity, flash, shown, queue, wish, used>>

Deliver ==
  /\ op # NoOp /\ op.stage = "served"
  /\ Become([entity EXCEPT ![op.room] =
       IF op.kind = "write" THEN OnAttr(@, op.write.attr, op.write.value)
       ELSE OnFastPoll(@, op.read)])
  /\ op' = NoOp
  /\ UNCHANGED <<flash, shown, room, wish, used>>

(* The hub gives the operation up; a lost write is not tried again. *)
TimeOut ==
  /\ op # NoOp /\ Spend("losses", MaxLosses)
  /\ op' = NoOp
  /\ wish' = IF op.kind = "write" THEN None ELSE wish
  /\ UNCHANGED <<entity, flash, shown, queue, room>>

(* Somebody picks a preset at one thermostat. *)
Edit(r, m) ==
  /\ room[r].mode # m /\ Spend("upsets", MaxUpsets)
  /\ room' = [room EXCEPT ![r].mode = m]
  /\ wish' = None
  /\ UNCHANGED <<entity, flash, shown, queue, op>>

(* ESPHome commits what was saved from time to time, all of it at once, and *)
(* a restart begins from what was committed.  The select shows nothing yet. *)
CommitFlash ==
  /\ flash' = [r \in Climates |-> entity[r].saved]
  /\ UNCHANGED <<entity, shown, queue, op, room, wish, used>>

Reboot ==
  /\ Spend("upsets", MaxUpsets)
  /\ entity' = AtBoot /\ shown' = None /\ queue' = <<>> /\ op' = NoOp
  /\ wish' = IF queue # <<>> \/ op.kind = "write" THEN None ELSE wish
  /\ UNCHANGED <<flash, room>>

Next ==
  \/ \E m \in Modes : Choose(m)
  \/ Show \/ SendWrite \/ Serve \/ Deliver \/ TimeOut
  \/ \E r \in Climates : SendPoll(r) \/ \E m \in Presets : Edit(r, m)
  \/ CommitFlash \/ Reboot

Spec == Init /\ [][Next]_vars

(* loop() runs for ever, and the hub serves the queue, ends what it began  *)
(* and polls each room.                                                    *)
Finish == op # NoOp /\ op.stage = "served" /\ op' = NoOp
FairSpec ==
  Spec /\ WF_vars(Show) /\ WF_vars(SendWrite) /\ WF_vars(Serve) /\ WF_op(Finish)
       /\ \A r \in Climates : SF_vars(SendPoll(r))

-----------------------------------------------------------------------------
(* "set_off/set_preset_mode update each climate synchronously, so loop()   *)
(* will agree" (select.cpp:26): true of what control() shows, however far  *)
(* the entities lag behind their rooms, unless one of them cannot show the *)
(* choice; then loop() contradicts control() at once.                      *)
LoopAgrees ==
  [][used'.choices # used.choices =>
       (Aggregate(entity') = shown' <=>
          ~\E r \in Climates : Unready(entity[r], shown'))]_vars

(* The comment as it stands: loop() agrees with whatever control() shows.  *)
LoopWillAgree ==
  [][used'.choices # used.choices => Aggregate(entity') = shown']_vars

(* Once its writes have been carried out, a choice made on entities that   *)
(* were up to date and could show it holds in every room, whatever was     *)
(* read in between and whoever restarts.                                   *)
InMode(r, m) ==
  IF m = "off" THEN r.mode = Home /\ r.sp[Home] <= Floor + 5
               ELSE r.mode = m /\ r.sp[m] > Floor + 5
EveryRoomObeys ==
  queue = <<>> /\ op.kind # "write" /\ wish # None =>
    \A r \in Climates : InMode(room[r], wish)

(* Whatever is lost or edited, the select comes to show what all rooms are *)
(* in, or that they differ; never a choice that only some have obeyed.     *)
ShowsTheRooms ==
  <>[]IF \E m \in Modes : \A r \in Climates : InMode(room[r], m)
      THEN shown \in Modes /\ \A r \in Climates : InMode(room[r], shown)
      ELSE shown = Mixed
=============================================================================
