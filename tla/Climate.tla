----------------------------- MODULE Climate -----------------------------
(***************************************************************************)
(* One climate entity (module ClimateEntity) beside the room it stands     *)
(* for.  The entity knows the room only from polls that may be older than  *)
(* its own queued writes.                                                  *)
(*                                                                         *)
(* The bus is reduced to what the hub promises (module Hub): one operation *)
(* at a time, writes in order and ahead of polls, each reply paired with   *)
(* its own request, and a timeout that forgets the request.                *)
(***************************************************************************)
EXTENDS ClimateEntity

CONSTANTS
  HeatTemps,    \* setpoints chosen by somebody, all meant to heat
  Bounds,       \* <<lower, upper>> setpoint bounds the room's menu offers
  SavedAtBoot,  \* restore values the flash may hold at first
  Polled,       \* whether the entity starts already polled once
  Calls,        \* climate calls Home Assistant makes
  OnlyInformed, \* TRUE: only calls count that are not misled, see Informed
  MaxCalls, MaxEdits, MaxLosses, MaxReboots   \* bounds on the environment

ASSUME ClimateAssumption ==
  /\ HeatTemps \subseteq Nat
  /\ Bounds \subseteq Nat \X Nat /\ \A b \in Bounds : b[1] <= b[2]
  /\ Polled \in BOOLEAN /\ OnlyInformed \in BOOLEAN
  /\ MaxCalls \in Nat /\ MaxEdits \in Nat /\ MaxLosses \in Nat /\ MaxReboots \in Nat

VARIABLES
  entity,   \* the object's fields, its last publication and the mirror sensor
  flash,    \* preferences as they would be read after a power cut
  queue,    \* the hub's write queue, this room's share
  op,       \* the operation in flight
  room,     \* the room in the controller
  wish,     \* what the last call asked for, while nothing has overruled it
  used      \* how much of each environment bound is spent

vars == <<entity, flash, queue, op, room, wish, used>>

NoOp == [kind |-> "none"]

-----------------------------------------------------------------------------
Init ==
  /\ \E b \in Bounds, parked \in BOOLEAN :
       /\ room \in [mode : Presets, lo : {b[1]}, hi : {b[2]},
                    sp : {sp \in [Presets -> HeatTemps \cup {b[1]}] :
                            /\ \A p \in Presets : b[1] <= sp[p] /\ sp[p] <= b[2]
                            /\ \A p \in Presets : sp[p] = b[1] <=> parked /\ p = Home}]
       /\ flash \in [saved : SavedAtBoot, lo : {b[1]}, hi : {b[2]}]
  /\ entity = IF Polled THEN OnFastPoll(Booted(flash), room) ELSE Booted(flash)
  /\ queue = <<>> /\ op = NoOp /\ wish = [kind |-> None]
  /\ used = [calls |-> 0, edits |-> 0, losses |-> 0, reboots |-> 0]

\* mutant: what a handler queued stays with the entity
BecomesKeeping(e) == entity' = e /\ queue' = queue \o e.out

\* mutant: what a handler queued goes in front of what waits already
BecomesInFront(e) == entity' = [e EXCEPT !.out = <<>>] /\ queue' = e.out \o queue

(* A handler ran: what it queued goes to the hub. *)
Becomes(e) == entity' = [e EXCEPT !.out = <<>>] /\ queue' = queue \o e.out
Spend(what, most) == used[what] < most /\ used' = [used EXCEPT ![what] = @ + 1]

(* What the user means by a call; a target overrides what came before it,  *)
(* and a call of nothing leaves the last wish standing.                    *)
Wish(call) ==
  IF call.target # None
  THEN [kind |-> "target", preset |-> Control(entity, call).room_mode,
        value |-> Clamp(entity, call.target)]
  ELSE IF call.mode # None THEN [kind |-> call.mode]
  ELSE IF call.preset # None THEN [kind |-> "preset", preset |-> call.preset]
  ELSE wish

(* Carrying out the writes of q leaves attribute a, which was "now", at a  *)
(* value in V.                                                             *)
Leaves(q, a, now, V) ==
  \/ now \in V /\ \A i \in DOMAIN q : q[i].attr # a
  \/ \E i \in DOMAIN q : /\ q[i].attr = a /\ q[i].value \in V
                         /\ \A j \in DOMAIN q : i < j => q[j].attr # a

(* What the room holds, and what it will hold once the write in flight, if *)
(* it has not been obeyed yet, and those in the queue have been.           *)
InRoom(a) == IF a = "mode" THEN room.mode ELSE room.sp[a]
AfterSent(a) ==
  IF op.kind = "write" /\ op.stage = "sent" /\ op.write.attr = a
  THEN op.write.value ELSE InRoom(a)
Ends(a, V) == Leaves(queue, a, AfterSent(a), V)

(* The entity may lag behind the room in every way but those that the      *)
(* handlers of this call rely on: the bounds; the preset, where none is    *)
(* written because the entity is in it already; and for the preset Home    *)
(* alone, that a parked room shows as parked, with a value to restore.     *)
ShownParked == entity.saved # NaN /\ AtFrost(entity, entity.sp[Home])
Informed(call) ==
  /\ entity.lo = room.lo /\ entity.hi = room.hi
  /\ \/ call.preset # None
     \/ call.mode # None /\ entity.room_mode # Home
     \/ Ends("mode", {entity.room_mode})
  /\ call.preset = Home /\ call.mode = None /\ call.target = None =>
       Ends(Home, HeatTemps) \/ ShownParked

Call(call) ==
  /\ Spend("calls", MaxCalls)
  /\ Becomes(Control(entity, call))
  /\ wish' = IF OnlyInformed /\ ~Informed(call) THEN [kind |-> None] ELSE Wish(call)
  /\ UNCHANGED <<flash, op, room>>

SendWrite ==
  /\ op = NoOp /\ queue # <<>>
  /\ op' = [kind |-> "write", stage |-> "sent", write |-> Head(queue), ok |-> FALSE]
  /\ queue' = Tail(queue)
  /\ UNCHANGED <<entity, flash, room, wish, used>>

SendPoll(kind) ==
  /\ op = NoOp /\ queue = <<>>
  /\ op' = [kind |-> kind, stage |-> "sent"]
  /\ UNCHANGED <<entity, flash, queue, room, wish, used>>

(* The controller obeys a write within bounds, or answers a read. *)
Acceptable(w) == w.attr = "mode" \/ (room.lo <= w.value /\ w.value <= room.hi)
Serve ==
  /\ op # NoOp /\ op.stage = "sent"
  /\ IF op.kind = "write"
     THEN /\ op' = [op EXCEPT !.stage = "served", !.ok = Acceptable(op.write)]
          /\ room' = IF ~Acceptable(op.write) THEN room
                     ELSE IF op.write.attr = "mode"
                     THEN [room EXCEPT !.mode = op.write.value]
                     ELSE [room EXCEPT !.sp[op.write.attr] = op.write.value]
     ELSE /\ op' = [kind |-> op.kind, stage |-> "served", values |-> room]
          /\ UNCHANGED room
  /\ UNCHANGED <<entity, flash, queue, wish, used>>

Deliver ==
  /\ op # NoOp /\ op.stage = "served"
  /\ CASE op.kind = "write" ->
            Becomes(IF op.ok THEN OnAttr(entity, op.write.attr, op.write.value) ELSE entity)
       [] op.kind = "fast" -> Becomes(OnFastPoll(entity, op.values))
       [] op.kind = "slow" -> Becomes(OnSlowPoll(entity, op.values))
  /\ op' = NoOp
  /\ wish' = IF op.kind = "write" /\ ~op.ok THEN [kind |-> None] ELSE wish
  /\ UNCHANGED <<flash, room, used>>

(* The hub gives an operation up; a write is not tried again. *)
TimeOut ==
  /\ op # NoOp /\ Spend("losses", MaxLosses)
  /\ wish' = IF op.kind = "write" THEN [kind |-> None] ELSE wish
  /\ op' = NoOp
  /\ UNCHANGED <<entity, flash, queue, room>>

(* Somebody turns the thermostat, picks a mode in its menu, or moves the   *)
(* bounds, which may carry the setpoints along; the last edit overrules    *)
(* the last call.                                                          *)
Bounded(r) == [r EXCEPT !.sp = [p \in Presets |->
                 IF r.sp[p] < r.lo THEN r.lo ELSE IF r.hi < r.sp[p] THEN r.hi ELSE r.sp[p]]]
Edit ==
  /\ Spend("edits", MaxEdits)
  /\ \/ \E t \in HeatTemps : room' = [room EXCEPT !.sp[room.mode] = t]
     \/ \E m \in Presets : room' = [room EXCEPT !.mode = m]
     \/ \E b \in Bounds :
          LET moved == [room EXCEPT !.lo = b[1], !.hi = b[2]]
          IN  room' \in {moved, Bounded(moved)}
  /\ room' # room
  /\ wish' = [kind |-> None]
  /\ UNCHANGED <<entity, flash, queue, op>>

(* ESPHome commits saved preferences from time to time, and a restart      *)
(* begins from what was committed.                                         *)
CommitFlash ==
  /\ flash' = [saved |-> entity.saved, lo |-> entity.lo, hi |-> entity.hi]
  /\ UNCHANGED <<entity, queue, op, room, wish, used>>

Reboot ==
  /\ Spend("reboots", MaxReboots)
  /\ entity' = Booted(flash) /\ queue' = <<>> /\ op' = NoOp
  /\ wish' = IF queue # <<>> \/ op.kind = "write" THEN [kind |-> None] ELSE wish
  /\ UNCHANGED <<flash, room>>

Next ==
  \/ \E call \in Calls : Call(call)
  \/ SendWrite \/ SendPoll("fast") \/ SendPoll("slow") \/ Serve \/ Deliver \/ TimeOut
  \/ Edit \/ CommitFlash \/ Reboot

Spec == Init /\ [][Next]_vars

(* The hub keeps serving the queue, ends what it began, and polls. *)
Finish == op # NoOp /\ op.stage = "served" /\ op' = NoOp
FairSpec ==
  Spec /\ WF_vars(SendWrite) /\ SF_vars(SendPoll("fast"))
       /\ WF_vars(Serve) /\ WF_op(Finish)

-----------------------------------------------------------------------------
Temps == HeatTemps \cup {b[1] : b \in Bounds} \cup {b[2] : b \in Bounds}
               \cup {NaN, NanRaw, 2000}
TypeOK ==
  /\ entity.room_mode \in Presets /\ entity.mode \in {"OFF", "HEAT"}
  /\ entity.target \in Temps /\ entity.saved \in Temps /\ entity.mirror \in Temps
  /\ entity.sp \in [Presets -> Temps] /\ entity.out = <<>>
  /\ \A i \in DOMAIN queue : queue[i].attr \in Presets \cup {"mode"}
  /\ room.mode \in Presets /\ room.sp \in [Presets -> Temps \ {NaN}]
  /\ op.kind \in {"none", "write", "fast", "slow"}

(* What was published last is what the entity holds, and the setpoint      *)
(* sensor shows the published target: "so the two can't drift".            *)
PublishedInStep ==
  entity.published => /\ entity.last = Visible(entity)
                      /\ entity.mirror = entity.target

(* The entity says OFF exactly when its target is at the frost floor, so   *)
(* the mode it shows and the setpoint it shows never contradict.           *)
ModeMatchesTarget ==
  entity.target # NaN => (entity.mode = "OFF" <=> AtFrost(entity, entity.target))

(* OFF, HEAT and Home never freeze the Away and Sleep setpoints: those are *)
(* values somebody chose, whatever the order of polls, calls and replies.  *)
AwaySleepNeverParked == \A p \in {Away, Sleep} : room.sp[p] \in HeatTemps

(* The value HEAT restores is a heating setpoint somebody chose, never the *)
(* frost setpoint the room was parked at.                                  *)
SavedIsChosen == entity.saved \in HeatTemps \cup SavedAtBoot

(* Every setpoint handed to the hub lies within the bounds of the room.    *)
WritesInRange ==
  \A i \in DOMAIN queue : queue[i].attr # "mode" =>
    \E b \in Bounds : b[1] <= queue[i].value /\ queue[i].value <= b[2]

Frosty(t) == t <= room.lo + 5
Granted(w) ==
  CASE w.kind = None -> TRUE
    [] w.kind = "OFF" -> room.mode = Home /\ Frosty(room.sp[Home])
    [] w.kind = "HEAT" -> room.mode = Home /\ ~Frosty(room.sp[Home])
    [] w.kind = "preset" -> room.mode = w.preset /\ ~Frosty(room.sp[w.preset])
    [] w.kind = "target" -> room.mode = w.preset /\ room.sp[w.preset] = w.value

(* Once a call's writes have been carried out the room is as it asked: OFF *)
(* is off, HEAT and Home heat, a preset is active, a target is set.  Calls *)
(* may pile up, and meet writes queued and polls in flight.                *)
LastCallWins == queue = <<>> /\ op.kind # "write" => Granted(wish)

(* When calls and edits cease and nothing is lost, the entity comes to     *)
(* show the room as it is.                                                 *)
Converges ==
  <>[](/\ entity.room_mode = room.mode /\ entity.sp = room.sp
       /\ entity.target = room.sp[room.mode]
       /\ entity.mode = "OFF" <=> Frosty(room.sp[room.mode]))
=============================================================================
