-------------------------- MODULE ClimateEntity --------------------------
(***************************************************************************)
(* DanfossIconClimate: the methods of one room's Home Assistant climate    *)
(* entity.  A method of the class is an operator from the entity's state   *)
(* to its next one, so that control() composes them as the code does.      *)
(*                                                                         *)
(* The controller has no "off": OFF parks the Home setpoint at the room's  *)
(* lower bound and HEAT, or choosing Home, brings back the value saved     *)
(* when it was parked.  Temperatures are hundredths of a degree.           *)
(***************************************************************************)
EXTENDS Integers, Sequences

CONSTANTS
  Home, Away, Sleep,   \* the presets: values 0, 1 and 2 of the room mode
  None,         \* an absent optional
  NaN,          \* the float NAN
  NanRaw        \* what (uint16_t) lroundf(NAN) yields in the build

ASSUME RawAssumption == NanRaw \in Nat
ASSUME PresetsAssumption == Home # Away /\ Away # Sleep /\ Sleep # Home

Presets == {Home, Away, Sleep}

-----------------------------------------------------------------------------
AtFrost(e, t) == t # NaN /\ t <= e.lo + 5

Visible(e) == [mode |-> e.mode, preset |-> e.room_mode, target |-> e.target]

\* mutant: only a new target is published
PublishTarget(e) ==
  IF e.published /\ e.target = e.last.target THEN e
  ELSE [e EXCEPT !.published = TRUE, !.last = Visible(e), !.mirror = e.target]

(* publish_if_changed_: the snapshot, and the mirror sensor on a new target.*)
PublishIfChanged(e) ==
  IF e.published /\ Visible(e) = e.last THEN e
  ELSE [e EXCEPT !.published = TRUE, !.last = Visible(e),
                 !.mirror = IF e.target = e.last.target THEN @ ELSE e.target]

Clamp(e, t) == IF t = NaN THEN NaN
               ELSE IF t < e.lo THEN e.lo ELSE IF e.hi < t THEN e.hi ELSE t

\* mutant: setpoints are written in tenths
RawTenths(t) == IF t = NaN THEN NanRaw ELSE t \div 10

Raw(t) == IF t = NaN THEN NanRaw ELSE t

(* queue_write: "out" collects what a handler queues. *)
QueueWrite(e, attr, value) ==
  [e EXCEPT !.out = Append(@, [attr |-> attr, value |-> value])]
WriteSetpoint(e, t) == QueueWrite(e, e.room_mode, Raw(Clamp(e, t)))
WriteRoomMode(e, m) == QueueWrite(e, "mode", m)

SetRoomMode(e, m) == [e EXCEPT !.room_mode = m]
SetSavedTarget(e, t) == IF t = NaN THEN e ELSE [e EXCEPT !.saved = t]

ActiveSp(e) == e.sp[e.room_mode]

\* mutant: the frost setpoint reads as heating
ApplyAsHeat(e, t) ==
  IF t = NaN THEN e ELSE PublishIfChanged([e EXCEPT !.target = t, !.mode = "HEAT"])
\* mutant: the frost setpoint is saved as the one to restore
ApplySavingFrost(e, t) ==
  IF t = NaN THEN e
  ELSE PublishIfChanged([SetSavedTarget(e, t) EXCEPT
         !.target = t, !.mode = IF AtFrost(e, t) THEN "OFF" ELSE "HEAT"])

(* apply_active_setpoint_: target and mode follow the active setpoint, and *)
(* only Home drives the value HEAT restores.                               *)
ApplyActiveSetpoint(e, t) ==
  IF t = NaN THEN e
  ELSE IF AtFrost(e, t)
  THEN PublishIfChanged([e EXCEPT !.target = t, !.mode = "OFF"])
  ELSE LET heat == [e EXCEPT !.target = t, !.mode = "HEAT"]
       IN  PublishIfChanged(IF e.room_mode = Home THEN SetSavedTarget(heat, t) ELSE heat)

\* mutant: OFF and HEAT act on whatever preset is active
StayInPreset(e) == e

ResetToHome(e) ==
  IF e.room_mode = Home THEN e ELSE SetRoomMode(WriteRoomMode(e, Home), Home)

\* mutant: choosing Home does not bring the heat back
SelectPresetOnly(e, m) ==
  LET chosen == SetRoomMode(WriteRoomMode(e, m), m)
  IN  PublishIfChanged(ApplyActiveSetpoint(chosen, ActiveSp(chosen)))

SetPresetMode(e, m) ==
  LET chosen == SetRoomMode(WriteRoomMode(e, m), m)
      unpark == m = Home /\ e.saved # NaN /\ AtFrost(e, e.sp[Home])
  IN  IF unpark
      THEN PublishIfChanged([WriteSetpoint(chosen, e.saved) EXCEPT
                               !.target = e.saved, !.mode = "HEAT"])
      ELSE PublishIfChanged(ApplyActiveSetpoint(chosen, ActiveSp(chosen)))

SetOff(e) ==
  LET athome == ResetToHome(e)
      keep   == IF e.sp[Home] # NaN THEN e.sp[Home] ELSE e.target
      kept   == IF keep # NaN /\ ~AtFrost(e, keep) THEN SetSavedTarget(athome, keep)
                ELSE athome
  IN  PublishIfChanged([WriteSetpoint(kept, e.lo) EXCEPT
                          !.sp[Home] = e.lo, !.mode = "OFF", !.target = e.lo])

HeatTarget(e) ==
  IF e.saved # NaN THEN e.saved ELSE IF ~AtFrost(e, e.target) THEN e.target ELSE 2000

SetHeat(e) ==
  PublishIfChanged([WriteSetpoint(ResetToHome(e), HeatTarget(e)) EXCEPT
                      !.mode = "HEAT", !.target = HeatTarget(e)])

SetTarget(e, target) ==
  LET t == Clamp(e, target)
  IN  PublishIfChanged([WriteSetpoint(e, t) EXCEPT
                          !.target = t, !.mode = IF AtFrost(e, t) THEN "OFF" ELSE "HEAT"])

(* control(): preset, then mode, then target, each if the call has it.     *)
Control(e, call) ==
  LET p == IF call.preset = None THEN e ELSE SetPresetMode(e, call.preset)
      m == CASE call.mode = "OFF" -> SetOff(p)
             [] call.mode = "HEAT" -> SetHeat(p)
             [] OTHER -> p
  IN  IF call.target = None THEN m ELSE SetTarget(m, call.target)

(* on_attr(), one operator per kind of attribute. *)
OnPresetSetpoint(e, p, t) ==
  LET seen == [e EXCEPT !.sp[p] = t]
  IN  IF e.room_mode = p THEN ApplyActiveSetpoint(seen, t) ELSE seen
OnRoomMode(e, m) ==
  LET moved == SetRoomMode(e, m)
  IN  PublishIfChanged(ApplyActiveSetpoint(moved, ActiveSp(moved)))
OnAttr(e, attr, value) ==
  IF attr = "mode" THEN OnRoomMode(e, value) ELSE OnPresetSetpoint(e, attr, value)

\* mutant: the room mode is not among the attributes polled
PollSetpointsOnly(e, r) ==
  OnPresetSetpoint(OnPresetSetpoint(OnPresetSetpoint(e, Home, r.sp[Home]),
                                    Away, r.sp[Away]), Sleep, r.sp[Sleep])

OnFastPoll(e, r) ==
  LET m == OnRoomMode(e, r.mode)
  IN  OnPresetSetpoint(OnPresetSetpoint(OnPresetSetpoint(m, Home, r.sp[Home]),
                                        Away, r.sp[Away]), Sleep, r.sp[Sleep])
OnSlowPoll(e, r) == [e EXCEPT !.lo = r.lo, !.hi = r.hi]

(* The object at boot: setup() loads what the flash holds. *)
Booted(f) ==
  [room_mode |-> Home, mode |-> "HEAT", target |-> NaN, sp |-> [p \in Presets |-> NaN],
   saved |-> f.saved, lo |-> f.lo, hi |-> f.hi, published |-> FALSE,
   last |-> [mode |-> "OFF", preset |-> None, target |-> NaN], mirror |-> NaN,
   out |-> <<>>]
=============================================================================
