--------------------------- MODULE ClimateProofs ---------------------------
(***************************************************************************)
(* While the bounds stay as they are, a climate entity never contradicts   *)
(* itself, and OFF and HEAT never touch a setpoint but Home's, for every   *)
(* set of setpoints and calls and any number of edits, losses and reboots. *)
(***************************************************************************)
EXTENDS ClimateFixed, DataLemmas, TLAPS

(* What the fields of an entity hold. *)
LEMMA Fields ==
  ASSUME NEW e \in EntitySet
  PROVE  /\ e.room_mode \in Presets /\ e.target \in Readable /\ e.saved \in HeatTemps
         /\ e.lo = Lower /\ e.hi = Upper /\ e.sp \in [Presets -> Readable]
         /\ \A p \in Presets : e.sp[p] \in Readable
  BY DEF EntitySet

LEMMA BoundsOrdered == Lower \in Nat /\ Upper \in Nat /\ Lower <= Upper
<1>1. <<Lower, Upper>> \in Bounds
  BY FixedAssumption
<1>2. \A b \in Bounds : b[1] <= b[2]
  BY ClimateAssumption
<1> QED BY <1>1, <1>2, FixedAssumption

(* Every temperature but NaN is a number, and frosty only if it is the     *)
(* lower bound.                                                            *)
LEMMA Temperatures ==
  /\ Lower \in Nat /\ Upper \in Nat /\ NaN \notin Parkable /\ HeatTemps \subseteq Nat
  /\ \A t \in HeatTemps : Lower < t /\ Lower + 5 < t /\ t <= Upper
  /\ \A e \in EntitySet, t \in Readable : AtFrost(e, t) <=> t = Lower
  /\ \A e \in EntitySet, t \in HeatTemps : Clamp(e, t) = t
  /\ \A e \in EntitySet : Clamp(e, Lower) = Lower
<1>1. /\ Lower \in Nat /\ Upper \in Nat /\ NaN \notin Nat /\ HeatTemps \subseteq Nat
      /\ \A t \in HeatTemps : Lower + 5 < t /\ t <= Upper
      /\ Lower <= Upper
  BY BoundsOrdered, FixedAssumption, NamesAssumption, ClimateAssumption
<1>2. NaN \notin Parkable /\ \A t \in HeatTemps : Lower < t
  <2>1. NaN \notin Parkable
    BY <1>1 DEF Parkable
  <2>2. ASSUME NEW t \in HeatTemps PROVE Lower < t
    <3>1. t \in Nat /\ Lower + 5 < t
      BY <1>1
    <3> QED BY <1>1, <3>1
  <2> QED BY <2>1, <2>2
<1>3. \A e \in EntitySet, t \in Readable : AtFrost(e, t) <=> t = Lower
  <2> SUFFICES ASSUME NEW e \in EntitySet, NEW t \in Readable
               PROVE  AtFrost(e, t) <=> t = Lower
    OBVIOUS
  <2>1. e.lo = Lower
    BY Fields
  <2>2. CASE t \in HeatTemps
    BY <1>1, <2>1, <2>2 DEF AtFrost
  <2>3. CASE t = Lower
    BY <1>1, <2>1, <2>3 DEF AtFrost
  <2>4. CASE t = NaN
    BY <1>1, <2>4 DEF AtFrost
  <2> QED BY <2>2, <2>3, <2>4 DEF Readable, Parkable
<1>4. \A e \in EntitySet, t \in HeatTemps : Clamp(e, t) = t
  <2> SUFFICES ASSUME NEW e \in EntitySet, NEW t \in HeatTemps PROVE Clamp(e, t) = t
    OBVIOUS
  <2>1. e.lo = Lower /\ e.hi = Upper
    BY Fields
  <2> QED BY <1>1, <2>1 DEF Clamp
<1>5. \A e \in EntitySet : Clamp(e, Lower) = Lower
  <2> SUFFICES ASSUME NEW e \in EntitySet PROVE Clamp(e, Lower) = Lower
    OBVIOUS
  <2>1. e.lo = Lower /\ e.hi = Upper
    BY Fields
  <2> QED BY <1>1, <2>1 DEF Clamp
<1> QED BY <1>1, <1>2, <1>3, <1>4, <1>5

(* publish_if_changed_() brings the publication and the mirror in step. *)
LEMMA PublishSettles ==
  ASSUME NEW e, Ready(e)
  PROVE  Sound(PublishIfChanged(e)) /\ PublishIfChanged(e).out = e.out
<1>1. CASE e.published /\ Visible(e) = e.last
  <2>1. PublishIfChanged(e) = e
    BY <1>1 DEF PublishIfChanged
  <2> QED BY <1>1, <2>1 DEF Sound, InStep
<1>2. CASE ~(e.published /\ Visible(e) = e.last)
  <2> DEFINE m == IF e.target = e.last.target THEN e.mirror ELSE e.target
             n == [e EXCEPT !.published = TRUE, !.last = Visible(e), !.mirror = m]
  <2>1. PublishIfChanged(e) = n
    BY <1>2 DEF PublishIfChanged
  <2>2. m = e.target
    BY DEF Ready
  <2>3. Visible(e) \in [mode : {"OFF", "HEAT"}, preset : Presets \cup {None},
                       target : Readable]
    BY DEF Ready, EntitySet, Visible
  <2>4. n \in EntitySet
    BY <2>2, <2>3 DEF Ready, EntitySet
  <2>5. /\ n.mirror = e.target /\ n.last = Visible(e) /\ n.target = e.target
        /\ n.mode = e.mode /\ n.lo = e.lo /\ n.room_mode = e.room_mode /\ n.out = e.out
    BY <2>2 DEF Ready, EntitySet
  <2>6. n.last.target = e.target /\ Visible(n) = Visible(e)
    BY <2>5 DEF Visible
  <2>7. AtFrost(n, n.target) <=> AtFrost(e, e.target)
    BY <2>5 DEF AtFrost
  <2> HIDE DEF n
  <2> QED BY <2>1, <2>4, <2>5, <2>6, <2>7 DEF Ready, Sound, InStep
<1> QED BY <1>1, <1>2

(* A write queued changes nothing else. *)
LEMMA QueueWriteKeeps ==
  ASSUME NEW e \in EntitySet, NEW w \in WriteSet
  PROVE  /\ QueueWrite(e, w.attr, w.value) \in EntitySet
         /\ QueueWrite(e, w.attr, w.value) = [e EXCEPT !.out = Append(e.out, w)]
<1>1. w = [attr |-> w.attr, value |-> w.value]
  BY DEF WriteSet, SetpointWrites
<1>2. QueueWrite(e, w.attr, w.value) = [e EXCEPT !.out = Append(e.out, w)]
  BY <1>1 DEF QueueWrite
<1>3. e.out \in Seq(WriteSet)
  BY DEF EntitySet
<1>4. Append(e.out, w) \in Seq(WriteSet)
  BY <1>3, AppendProperties
<1>5. [e EXCEPT !.out = Append(e.out, w)] \in EntitySet
  BY <1>4 DEF EntitySet
<1> QED BY <1>2, <1>5

(* What the entity shows of itself: a write leaves it alone. *)
Fronts(e, n) ==
  /\ n.room_mode = e.room_mode /\ n.mode = e.mode /\ n.target = e.target /\ n.sp = e.sp
  /\ n.saved = e.saved /\ n.lo = e.lo /\ n.hi = e.hi
  /\ n.published = e.published /\ n.last = e.last /\ n.mirror = e.mirror

LEMMA WriteRoomModeKeeps ==
  ASSUME NEW e \in EntitySet, NEW m \in Presets
  PROVE  WriteRoomMode(e, m) \in EntitySet /\ Fronts(e, WriteRoomMode(e, m))
<1> DEFINE w == [attr |-> "mode", value |-> m]
<1>1. w \in WriteSet /\ w.attr = "mode" /\ w.value = m
  BY DEF WriteSet
<1>2. QueueWrite(e, "mode", m) \in EntitySet
      /\ QueueWrite(e, "mode", m) = [e EXCEPT !.out = Append(e.out, w)]
  BY <1>1, QueueWriteKeeps
<1> QED BY <1>2 DEF WriteRoomMode, Fronts, EntitySet

(* The setpoint written is the one of the active preset; only Home may be  *)
(* given the lower bound.                                                  *)
LEMMA WriteSetpointKeeps ==
  ASSUME NEW e \in EntitySet, NEW t,
         t \in HeatTemps \/ (t = Lower /\ e.room_mode = Home)
  PROVE  WriteSetpoint(e, t) \in EntitySet /\ Fronts(e, WriteSetpoint(e, t))
<1> DEFINE w == [attr |-> e.room_mode, value |-> t]
<1>1. Clamp(e, t) = t /\ t # NaN
  BY Temperatures DEF Parkable
<1>2. Raw(Clamp(e, t)) = t
  BY <1>1 DEF Raw
<1>3. e.room_mode \in {Home, Away, Sleep}
  BY Fields DEF Presets
<1>4. w \in WriteSet /\ w.attr = e.room_mode /\ w.value = t
  BY <1>3 DEF WriteSet, SetpointWrites, Parkable
<1>5. QueueWrite(e, e.room_mode, t) \in EntitySet
      /\ QueueWrite(e, e.room_mode, t) = [e EXCEPT !.out = Append(e.out, w)]
  BY <1>4, QueueWriteKeeps
<1> QED BY <1>2, <1>5 DEF WriteSetpoint, Fronts, EntitySet

LEMMA SetRoomModeReady ==
  ASSUME NEW e, Ready(e), NEW m \in Presets
  PROVE  /\ Ready(SetRoomMode(e, m)) /\ SetRoomMode(e, m).room_mode = m
         /\ SetRoomMode(e, m).sp = e.sp /\ SetRoomMode(e, m).saved = e.saved
         /\ SetRoomMode(e, m).out = e.out
<1> DEFINE n == SetRoomMode(e, m)
<1>1. n \in EntitySet /\ n.room_mode = m /\ n.sp = e.sp /\ n.mirror = e.mirror
      /\ n.last = e.last /\ n.target = e.target /\ n.mode = e.mode /\ n.lo = e.lo
      /\ n.saved = e.saved /\ n.out = e.out
  BY DEF SetRoomMode, Ready, EntitySet
<1>2. AtFrost(n, n.target) <=> AtFrost(e, e.target)
  BY <1>1 DEF AtFrost
<1> QED BY <1>1, <1>2 DEF Ready

(* A target taken with the mode it means. *)
LEMMA ShowTarget ==
  ASSUME NEW e \in EntitySet, e.mirror = e.last.target, NEW t \in Readable,
         NEW m \in {"OFF", "HEAT"}, m = "OFF" <=> t = Lower
  PROVE  Ready([e EXCEPT !.target = t, !.mode = m])
<1> DEFINE n == [e EXCEPT !.target = t, !.mode = m]
<1>1. n \in EntitySet /\ n.target = t /\ n.mode = m
  BY DEF EntitySet
<1>2. n.mirror = e.mirror /\ n.last = e.last
  BY DEF EntitySet
<1>3. AtFrost(n, t) <=> t = Lower
  BY <1>1, Temperatures
<1> SUFFICES Ready(n)
  OBVIOUS
<1> HIDE DEF n
<1> QED BY <1>1, <1>2, <1>3 DEF Ready

LEMMA SavedReady ==
  ASSUME NEW e, Ready(e), NEW t \in HeatTemps
  PROVE  /\ Ready(SetSavedTarget(e, t)) /\ SetSavedTarget(e, t).out = e.out
         /\ Fronts([e EXCEPT !.saved = t], SetSavedTarget(e, t))
<1> DEFINE n == [e EXCEPT !.saved = t]
<1>1. SetSavedTarget(e, t) = n
  <2>1. t # NaN
    BY Temperatures DEF Parkable
  <2> QED BY <2>1 DEF SetSavedTarget
<1>2. n \in EntitySet /\ n.mirror = e.mirror /\ n.last = e.last /\ n.target = e.target
      /\ n.mode = e.mode /\ n.lo = e.lo /\ n.out = e.out
  BY DEF Ready, EntitySet
<1>3. AtFrost(n, n.target) <=> AtFrost(e, e.target)
  BY <1>2 DEF AtFrost
<1> QED BY <1>1, <1>2, <1>3 DEF Ready, Fronts

(* apply_active_setpoint_() keeps target and mode together.                *)
LEMMA ApplyReady ==
  ASSUME NEW e, Ready(e), NEW t \in Readable
  PROVE  /\ Ready(ApplyActiveSetpoint(e, t))
         /\ (Sound(e) \/ t # NaN) => Sound(ApplyActiveSetpoint(e, t))
         /\ ApplyActiveSetpoint(e, t).out = e.out
<1>1. CASE t = NaN
  BY <1>1 DEF ApplyActiveSetpoint
<1>2. CASE t # NaN /\ AtFrost(e, t)
  <2>1. e \in EntitySet /\ e.mirror = e.last.target /\ t = Lower
    BY <1>2, Temperatures DEF Ready
  <2>2. Ready([e EXCEPT !.target = t, !.mode = "OFF"])
    BY <2>1, ShowTarget
  <2>3. [e EXCEPT !.target = t, !.mode = "OFF"].out = e.out
    BY <2>1 DEF EntitySet
  <2>4. ApplyActiveSetpoint(e, t) = PublishIfChanged([e EXCEPT !.target = t, !.mode = "OFF"])
    BY <1>2 DEF ApplyActiveSetpoint
  <2> QED BY <2>2, <2>3, <2>4, PublishSettles DEF Sound
<1>3. CASE t # NaN /\ ~AtFrost(e, t)
  <2> DEFINE heat == [e EXCEPT !.target = t, !.mode = "HEAT"]
             n == IF e.room_mode = Home THEN SetSavedTarget(heat, t) ELSE heat
  <2>1. e \in EntitySet /\ e.mirror = e.last.target /\ t # Lower
    BY <1>3, Temperatures DEF Ready
  <2>2. t \in HeatTemps
    BY <1>3, <2>1 DEF Readable, Parkable
  <2>3. Ready(heat) /\ heat.out = e.out
    <3>1. heat.out = e.out
      BY <2>1 DEF EntitySet
    <3> QED BY <2>1, <3>1, ShowTarget
  <2> HIDE DEF heat
  <2>4. Ready(SetSavedTarget(heat, t)) /\ SetSavedTarget(heat, t).out = heat.out
    BY <2>2, <2>3, SavedReady
  <2>5. Ready(n) /\ n.out = e.out
    BY <2>3, <2>4
  <2>6. ApplyActiveSetpoint(e, t) = PublishIfChanged(n)
    BY <1>3 DEF ApplyActiveSetpoint, heat
  <2> QED BY <2>5, <2>6, PublishSettles DEF Sound
<1> QED BY <1>1, <1>2, <1>3

-----------------------------------------------------------------------------
(* The handlers of the class, each from a sound entity to a sound one.     *)

LEMMA SoundTyped ==
  ASSUME NEW e, Sound(e) PROVE e \in EntitySet /\ e.mirror = e.last.target /\ Ready(e)
  BY DEF Sound, Ready

(* A write queued in a handler leaves it ready. *)
LEMMA FrontsReady ==
  ASSUME NEW e, Ready(e), NEW n \in EntitySet, Fronts(e, n)
  PROVE  Ready(n) /\ (Sound(e) => Sound(n))
<1>1. AtFrost(n, n.target) <=> AtFrost(e, e.target)
  BY DEF AtFrost, Fronts
<1>2. Visible(n) = Visible(e)
  BY DEF Visible, Fronts
<1> QED BY <1>1, <1>2 DEF Ready, Sound, InStep, Fronts

LEMMA OnPresetSetpointSound ==
  ASSUME NEW e, Sound(e), NEW p \in Presets, NEW t \in Readable
  PROVE  Sound(OnPresetSetpoint(e, p, t)) /\ OnPresetSetpoint(e, p, t).out = e.out
<1> DEFINE n == [e EXCEPT !.sp[p] = t]
<1>1. n \in EntitySet
  BY SoundTyped DEF EntitySet
<1>2. /\ n.room_mode = e.room_mode /\ n.mode = e.mode /\ n.target = e.target /\ n.lo = e.lo
      /\ n.published = e.published /\ n.last = e.last /\ n.mirror = e.mirror /\ n.out = e.out
  BY SoundTyped DEF EntitySet
<1>3. AtFrost(n, n.target) <=> AtFrost(e, e.target)
  BY <1>2 DEF AtFrost
<1>4. Visible(n) = Visible(e)
  BY <1>2 DEF Visible
<1>5. OnPresetSetpoint(e, p, t) = IF e.room_mode = p THEN ApplyActiveSetpoint(n, t) ELSE n
  BY DEF OnPresetSetpoint
<1> HIDE DEF n
<1>6. Sound(n)
  BY <1>1, <1>2, <1>3, <1>4 DEF Sound, Ready, InStep
<1> QED BY <1>2, <1>5, <1>6, ApplyReady DEF Sound

(* publish_if_changed_() after the active setpoint is applied. *)
LEMMA ApplyPublished ==
  ASSUME NEW e, Ready(e)
  PROVE  /\ Sound(PublishIfChanged(ApplyActiveSetpoint(e, ActiveSp(e))))
         /\ PublishIfChanged(ApplyActiveSetpoint(e, ActiveSp(e))).out = e.out
<1>1. ActiveSp(e) \in Readable
  BY Fields DEF ActiveSp, Ready
<1> DEFINE n == ApplyActiveSetpoint(e, ActiveSp(e))
<1>2. Ready(n) /\ n.out = e.out
  BY <1>1, ApplyReady
<1> HIDE DEF n
<1>3. Sound(PublishIfChanged(n)) /\ PublishIfChanged(n).out = e.out
  BY <1>2, PublishSettles
<1> QED BY <1>3 DEF n

LEMMA OnRoomModeSound ==
  ASSUME NEW e, Sound(e), NEW m \in Presets
  PROVE  Sound(OnRoomMode(e, m)) /\ OnRoomMode(e, m).out = e.out
<1> DEFINE n == SetRoomMode(e, m)
<1>1. Ready(n) /\ n.out = e.out
  BY SoundTyped, SetRoomModeReady
<1> HIDE DEF n
<1>2. /\ Sound(PublishIfChanged(ApplyActiveSetpoint(n, ActiveSp(n))))
      /\ PublishIfChanged(ApplyActiveSetpoint(n, ActiveSp(n))).out = e.out
  BY <1>1, ApplyPublished
<1> QED BY <1>2 DEF OnRoomMode, n

LEMMA OnAttrSound ==
  ASSUME NEW e, Sound(e), NEW w \in WriteSet
  PROVE  Sound(OnAttr(e, w.attr, w.value)) /\ OnAttr(e, w.attr, w.value).out = e.out
<1>1. CASE w \in [attr : {"mode"}, value : Presets]
  <2>1. w.attr = "mode" /\ w.value \in Presets
    BY <1>1
  <2> QED BY <2>1, OnRoomModeSound DEF OnAttr
<1>2. CASE w \in SetpointWrites
  <2>1. w.attr \in Presets /\ w.value \in Readable
    BY <1>2 DEF SetpointWrites, Presets, Readable, Parkable
  <2>2. w.attr # "mode"
    BY <2>1, NamesAssumption
  <2> QED BY <2>1, <2>2, OnPresetSetpointSound DEF OnAttr
<1> QED BY <1>1, <1>2 DEF WriteSet

LEMMA RoomFields ==
  ASSUME NEW r \in RoomSet
  PROVE  /\ r.mode \in Presets /\ r.lo = Lower /\ r.hi = Upper
         /\ \A p \in Presets : r.sp[p] \in Readable
  BY DEF RoomSet, Readable

LEMMA PollsSound ==
  ASSUME NEW e, Sound(e), NEW r \in RoomSet
  PROVE  /\ Sound(OnFastPoll(e, r)) /\ OnFastPoll(e, r).out = e.out
         /\ Sound(OnSlowPoll(e, r)) /\ OnSlowPoll(e, r).out = e.out
<1> DEFINE a == OnRoomMode(e, r.mode)
           b == OnPresetSetpoint(a, Home, r.sp[Home])
           c == OnPresetSetpoint(b, Away, r.sp[Away])
           d == OnPresetSetpoint(c, Sleep, r.sp[Sleep])
<1>1. /\ r.mode \in Presets
      /\ r.sp[Home] \in Readable /\ r.sp[Away] \in Readable /\ r.sp[Sleep] \in Readable
      /\ Home \in Presets /\ Away \in Presets /\ Sleep \in Presets
  BY RoomFields DEF Presets
<1>2. Sound(a) /\ a.out = e.out
  BY <1>1, OnRoomModeSound
<1> HIDE DEF a
<1>3. Sound(b) /\ b.out = e.out
  BY <1>1, <1>2, OnPresetSetpointSound
<1> HIDE DEF b
<1>4. Sound(c) /\ c.out = e.out
  BY <1>1, <1>3, OnPresetSetpointSound
<1> HIDE DEF c
<1>5. Sound(d) /\ d.out = e.out
  BY <1>1, <1>4, OnPresetSetpointSound
<1>6. OnFastPoll(e, r) = d
  BY DEF OnFastPoll, a, b, c
<1>7. Sound(OnSlowPoll(e, r)) /\ OnSlowPoll(e, r).out = e.out
  <2> DEFINE n == [e EXCEPT !.lo = r.lo, !.hi = r.hi]
  <2>1. e.lo = Lower /\ e.hi = Upper /\ r.lo = Lower /\ r.hi = Upper /\ e \in EntitySet
    BY SoundTyped, Fields, RoomFields
  <2>2. n \in EntitySet /\ Fronts(e, n) /\ n.out = e.out
    BY <2>1 DEF EntitySet, Fronts
  <2>3. OnSlowPoll(e, r) = n
    BY DEF OnSlowPoll
  <2> HIDE DEF n
  <2> QED BY <2>2, <2>3, FrontsReady, SoundTyped
<1> QED BY <1>5, <1>6, <1>7

(* Each part of control() in turn. *)

LEMMA ResetToHomeReady ==
  ASSUME NEW e, Ready(e)
  PROVE  /\ Ready(ResetToHome(e)) /\ ResetToHome(e).room_mode = Home
         /\ ResetToHome(e).saved = e.saved
<1>1. Home \in Presets /\ e \in EntitySet
  BY DEF Presets, Ready
<1> DEFINE n == WriteRoomMode(e, Home)
<1>2. n \in EntitySet /\ Fronts(e, n)
  BY <1>1, WriteRoomModeKeeps
<1> HIDE DEF n
<1>3. Ready(n) /\ n.saved = e.saved
  BY <1>2, FrontsReady DEF Fronts
<1>4. Ready(SetRoomMode(n, Home)) /\ SetRoomMode(n, Home).room_mode = Home
      /\ SetRoomMode(n, Home).saved = e.saved
  BY <1>1, <1>3, SetRoomModeReady
<1> QED BY <1>4 DEF ResetToHome, n

(* A setpoint written and shown as the target, with the mode it means. *)
LEMMA WriteAndShow ==
  ASSUME NEW e, Ready(e), NEW t, NEW m \in {"OFF", "HEAT"}, m = "OFF" <=> t = Lower,
         t \in HeatTemps \/ (t = Lower /\ e.room_mode = Home)
  PROVE  Sound(PublishIfChanged([WriteSetpoint(e, t) EXCEPT !.target = t, !.mode = m]))
<1> DEFINE n == WriteSetpoint(e, t)
           s == [n EXCEPT !.target = t, !.mode = m]
<1>1. n \in EntitySet /\ Fronts(e, n)
  BY WriteSetpointKeeps DEF Ready
<1> HIDE DEF n
<1>2. n.mirror = n.last.target /\ t \in Readable
  BY <1>1 DEF Ready, Fronts, Readable, Parkable
<1>3. Ready(s)
  BY <1>1, <1>2, ShowTarget
<1> HIDE DEF s
<1>4. Sound(PublishIfChanged(s))
  BY <1>3, PublishSettles
<1> QED BY <1>4 DEF s, n

(* A heating setpoint written and shown as the target. *)
LEMMA WriteAndHeat ==
  ASSUME NEW e, Ready(e), NEW t \in HeatTemps
  PROVE  /\ Sound(PublishIfChanged([WriteSetpoint(e, t) EXCEPT !.target = t, !.mode = "HEAT"]))
         /\ Sound(PublishIfChanged([WriteSetpoint(e, t) EXCEPT !.mode = "HEAT", !.target = t]))
<1>1. t # Lower
  BY Temperatures
<1> DEFINE n == WriteSetpoint(e, t)
<1>2. n \in EntitySet
  BY WriteSetpointKeeps DEF Ready
<1>3. Sound(PublishIfChanged([n EXCEPT !.target = t, !.mode = "HEAT"]))
  <2> DEFINE m == "HEAT"
  <2>1. m \in {"OFF", "HEAT"} /\ (m = "OFF" <=> t = Lower)
    BY <1>1
  <2> HIDE DEF m
  <2>2. Sound(PublishIfChanged([n EXCEPT !.target = t, !.mode = m]))
    BY <2>1, WriteAndShow
  <2> QED BY <2>2 DEF m
<1> HIDE DEF n
<1>4. [n EXCEPT !.mode = "HEAT", !.target = t] = [n EXCEPT !.target = t, !.mode = "HEAT"]
  BY <1>2 DEF EntitySet
<1>5. Sound(PublishIfChanged([n EXCEPT !.mode = "HEAT", !.target = t]))
  BY <1>3, <1>4
<1> QED BY <1>3, <1>5 DEF n

LEMMA SetPresetModeSound ==
  ASSUME NEW e, Sound(e), NEW m \in Presets PROVE Sound(SetPresetMode(e, m))
<1> DEFINE w == WriteRoomMode(e, m)
           chosen == SetRoomMode(w, m)
<1>1. w \in EntitySet /\ Fronts(e, w)
  BY SoundTyped, WriteRoomModeKeeps
<1> HIDE DEF w
<1>2. Ready(w)
  BY <1>1, SoundTyped, FrontsReady
<1>3. Ready(chosen)
  BY <1>2, SetRoomModeReady
<1> HIDE DEF chosen
<1>4. Sound(PublishIfChanged(ApplyActiveSetpoint(chosen, ActiveSp(chosen))))
  BY <1>3, ApplyPublished
<1>5. e.saved \in HeatTemps /\ e.saved # Lower
  <2>1. e.saved \in HeatTemps
    BY SoundTyped, Fields
  <2> QED BY <2>1, Temperatures
<1>6. Sound(PublishIfChanged([WriteSetpoint(chosen, e.saved) EXCEPT
                                !.target = e.saved, !.mode = "HEAT"]))
  BY <1>3, <1>5, WriteAndHeat
<1> QED BY <1>4, <1>6 DEF SetPresetMode, chosen, w

LEMMA SetHeatSound == ASSUME NEW e, Sound(e) PROVE Sound(SetHeat(e))
<1> DEFINE n == ResetToHome(e)
<1>1. e.saved \in HeatTemps /\ e.saved # Lower /\ e.saved # NaN
  <2>1. e.saved \in HeatTemps
    BY SoundTyped, Fields
  <2> QED BY <2>1, Temperatures DEF Parkable
<1>2. HeatTarget(e) = e.saved
  BY <1>1 DEF HeatTarget
<1>3. Ready(n)
  BY SoundTyped, ResetToHomeReady
<1> HIDE DEF n
<1>4. Sound(PublishIfChanged([WriteSetpoint(n, e.saved) EXCEPT
                                !.mode = "HEAT", !.target = e.saved]))
  BY <1>1, <1>3, WriteAndHeat
<1> QED BY <1>2, <1>4 DEF SetHeat, n

LEMMA SetTargetSound ==
  ASSUME NEW e, Sound(e), NEW t \in HeatTemps PROVE Sound(SetTarget(e, t))
<1>1. e \in EntitySet /\ Clamp(e, t) = t /\ t # Lower /\ ~AtFrost(e, t)
  <2>1. e \in EntitySet /\ t \in Readable
    BY SoundTyped DEF Readable, Parkable
  <2> QED BY <2>1, Temperatures
<1>2. Sound(PublishIfChanged([WriteSetpoint(e, t) EXCEPT !.target = t, !.mode = "HEAT"]))
  BY SoundTyped, WriteAndHeat
<1> QED BY <1>1, <1>2 DEF SetTarget

(* OFF parks Home, whatever preset was active. *)
LEMMA SetOffSound == ASSUME NEW e, Sound(e) PROVE Sound(SetOff(e))
<1> DEFINE athome == ResetToHome(e)
           keep == IF e.sp[Home] # NaN THEN e.sp[Home] ELSE e.target
           kept == IF keep # NaN /\ ~AtFrost(e, keep) THEN SetSavedTarget(athome, keep)
                   ELSE athome
           n == WriteSetpoint(kept, e.lo)
           off == [n EXCEPT !.sp[Home] = e.lo, !.mode = "OFF", !.target = e.lo]
<1>1. e \in EntitySet /\ e.lo = Lower /\ keep \in Readable
  <2>1. e \in EntitySet /\ Home \in Presets
    BY SoundTyped DEF Presets
  <2> QED BY <2>1, Fields
<1>2. Ready(athome) /\ athome.room_mode = Home
  BY SoundTyped, ResetToHomeReady
<1> HIDE DEF athome
<1>3. Ready(kept) /\ kept.room_mode = Home
  <2>1. CASE keep # NaN /\ ~AtFrost(e, keep)
    <3>1. keep \in HeatTemps
      BY <1>1, <2>1, Temperatures DEF Readable, Parkable
    <3> HIDE DEF keep
    <3>2. Ready(SetSavedTarget(athome, keep)) /\ Fronts([athome EXCEPT !.saved = keep],
                                                       SetSavedTarget(athome, keep))
      BY <1>2, <3>1, SavedReady
    <3>3. [athome EXCEPT !.saved = keep].room_mode = Home
      BY <1>2 DEF Ready, EntitySet
    <3> QED BY <2>1, <3>2, <3>3 DEF Fronts
  <2>2. CASE ~(keep # NaN /\ ~AtFrost(e, keep))
    BY <1>2, <2>2
  <2> QED BY <2>1, <2>2
<1> HIDE DEF keep, kept
<1>4. n \in EntitySet /\ Fronts(kept, n)
  BY <1>1, <1>3, WriteSetpointKeeps DEF Ready
<1> HIDE DEF n
<1>5. off \in EntitySet /\ off.mode = "OFF" /\ off.target = Lower
      /\ off.mirror = n.mirror /\ off.last = n.last
  <2>1. Lower \in Readable /\ Home \in Presets
    BY DEF Readable, Parkable, Presets
  <2> QED BY <1>1, <1>4, <2>1 DEF EntitySet
<1> HIDE DEF off
<1>6. AtFrost(off, off.target) /\ off.mirror = off.last.target
  <2>1. Lower \in Readable
    BY DEF Readable, Parkable
  <2>2. AtFrost(off, Lower)
    BY <1>5, <2>1, Temperatures
  <2> QED BY <1>3, <1>4, <1>5, <2>2 DEF Ready, Fronts
<1>7. Ready(off)
  BY <1>5, <1>6 DEF Ready
<1>8. Sound(PublishIfChanged(off))
  BY <1>7, PublishSettles
<1>9. SetOff(e) = PublishIfChanged(off)
  BY DEF SetOff, off, n, kept, keep, athome
<1> QED BY <1>8, <1>9

LEMMA ControlSound == ASSUME NEW e, Sound(e), NEW call \in Calls PROVE Sound(Control(e, call))
<1> DEFINE p == IF call.preset = None THEN e ELSE SetPresetMode(e, call.preset)
           m == CASE call.mode = "OFF" -> SetOff(p)
                  [] call.mode = "HEAT" -> SetHeat(p)
                  [] OTHER -> p
           c == IF call.target = None THEN m ELSE SetTarget(m, call.target)
<1>1. /\ call.preset \in Presets \cup {None} /\ call.target \in HeatTemps \cup {None}
      /\ call.mode \in {None, "OFF", "HEAT"}
  BY CallsAssumption
<1>2. Sound(p)
  BY <1>1, SetPresetModeSound
<1> HIDE DEF p
<1>3. Sound(m)
  <2>1. CASE call.mode = "OFF"
    BY <1>2, <2>1, SetOffSound
  <2>2. CASE call.mode = "HEAT"
    BY <1>2, <2>2, SetHeatSound
  <2>3. CASE call.mode = None
    BY <1>2, <2>3, NamesAssumption
  <2> QED BY <1>1, <2>1, <2>2, <2>3
<1> HIDE DEF m
<1>4. Sound(c)
  BY <1>1, <1>3, SetTargetSound
<1> QED BY <1>4 DEF Control, c, m, p

-----------------------------------------------------------------------------
(* The entity beside its room. *)

FlashSet == [saved : HeatTemps, lo : {Lower}, hi : {Upper}]

LEMMA BootedSound == ASSUME NEW f \in FlashSet PROVE Sound(Booted(f)) /\ Booted(f).out = <<>>
<1> DEFINE b == Booted(f)
<1>1. b \in EntitySet
  <2>1. NaN \in Readable /\ Home \in Presets
    BY DEF Readable, Presets
  <2>2. [p \in Presets |-> NaN] \in [Presets -> Readable]
    BY <2>1
  <2>3. <<>> \in Seq(WriteSet)
    OBVIOUS
  <2>4. f.saved \in HeatTemps /\ f.lo = Lower /\ f.hi = Upper
    BY DEF FlashSet
  <2> QED BY <2>1, <2>2, <2>3, <2>4 DEF Booted, EntitySet
<1>2. b.mirror = NaN /\ b.last.target = NaN /\ b.target = NaN /\ b.published = FALSE
      /\ b.out = <<>>
  BY DEF Booted
<1> HIDE DEF b
<1>3. Sound(b) /\ b.out = <<>>
  BY <1>1, <1>2 DEF Sound, Ready, InStep
<1> QED BY <1>3 DEF b

LEMMA ClimateInit == Init => ClimateInv
<1> SUFFICES ASSUME Init PROVE ClimateInv
  OBVIOUS
<1>1. PICK b \in Bounds, parked \in BOOLEAN :
        /\ room \in [mode : Presets, lo : {b[1]}, hi : {b[2]},
                     sp : {sp \in [Presets -> HeatTemps \cup {b[1]}] :
                             /\ \A p \in Presets : b[1] <= sp[p] /\ sp[p] <= b[2]
                             /\ \A p \in Presets : sp[p] = b[1] <=> parked /\ p = Home}]
        /\ flash \in [saved : SavedAtBoot, lo : {b[1]}, hi : {b[2]}]
  BY DEF Init
<1>2. b[1] = Lower /\ b[2] = Upper
  BY FixedAssumption
<1>3. flash \in FlashSet
  BY <1>1, <1>2, FixedAssumption DEF FlashSet
<1>4. room \in RoomSet
  <2>1. /\ room.sp \in [Presets -> Parkable]
        /\ \A p \in Presets : p # Home => room.sp[p] # Lower
    BY <1>1, <1>2 DEF Parkable
  <2>2. room.sp[Away] \in HeatTemps /\ room.sp[Sleep] \in HeatTemps
    BY <2>1, PresetsAssumption DEF Presets, Parkable
  <2> QED BY <1>1, <1>2, <2>1, <2>2 DEF RoomSet
<1>5. Sound(entity) /\ entity.out = <<>>
  <2>1. Sound(Booted(flash)) /\ Booted(flash).out = <<>>
    BY <1>3, BootedSound
  <2>2. Sound(OnFastPoll(Booted(flash), room)) /\ OnFastPoll(Booted(flash), room).out = <<>>
    BY <1>4, <2>1, PollsSound
  <2> QED BY <2>1, <2>2 DEF Init
<1>6. queue \in Seq(WriteSet) /\ op \in OpSet
  BY DEF Init, OpSet
<1> QED BY <1>3, <1>4, <1>5, <1>6 DEF ClimateInv, FlashSet

LEMMA BecomesSound ==
  ASSUME queue \in Seq(WriteSet), NEW e, Sound(e), Becomes(e)
  PROVE  Sound(entity') /\ entity'.out = <<>> /\ queue' \in Seq(WriteSet)
<1> DEFINE n == [e EXCEPT !.out = <<>>]
<1>1. e \in EntitySet
  BY SoundTyped
<1>2. n \in EntitySet /\ Fronts(e, n) /\ n.out = <<>>
  <2>1. <<>> \in Seq(WriteSet)
    OBVIOUS
  <2> QED BY <1>1, <2>1 DEF EntitySet, Fronts
<1>3. entity' = n /\ queue' = queue \o e.out
  BY DEF Becomes
<1> HIDE DEF n
<1>4. Sound(n)
  BY <1>2, SoundTyped, FrontsReady
<1>5. e.out \in Seq(WriteSet)
  BY <1>1 DEF EntitySet
<1>6. queue \o e.out \in Seq(WriteSet)
  BY <1>5, ConcatProperties
<1> QED BY <1>2, <1>3, <1>4, <1>6

(* What an operation in flight is, by its kind and stage. *)
LEMMA OpFields ==
  ASSUME op \in OpSet, op # NoOp
  PROVE  /\ op.kind \in {"write", "fast", "slow"} /\ op.stage \in {"sent", "served"}
         /\ op.kind = "write" =>
              op \in [kind : {"write"}, stage : {"sent", "served"}, write : WriteSet,
                     ok : BOOLEAN]
         /\ op.kind # "write" /\ op.stage = "served" => op.values \in RoomSet
  BY DEF OpSet

LEMMA ServeKeeps == ClimateInv /\ Serve => ClimateInv'
<1> SUFFICES ASSUME ClimateInv, Serve PROVE ClimateInv'
  OBVIOUS
<1>1. op \in OpSet /\ op # NoOp /\ room \in RoomSet /\ UNCHANGED <<entity, flash, queue>>
  BY DEF ClimateInv, Serve
<1>2. CASE op.kind = "write"
  <2> DEFINE w == op.write
  <2>1. op \in [kind : {"write"}, stage : {"sent", "served"}, write : WriteSet, ok : BOOLEAN]
        /\ w \in WriteSet
    BY <1>1, <1>2, OpFields
  <2>2. op' = [op EXCEPT !.stage = "served", !.ok = Acceptable(w)]
    BY <1>2 DEF Serve
  <2>3. op' \in OpSet
    <3>1. Acceptable(w) \in BOOLEAN
      BY DEF Acceptable
    <3> QED BY <2>1, <2>2, <3>1 DEF OpSet
  <2>4. room' = IF ~Acceptable(w) THEN room
                ELSE IF w.attr = "mode" THEN [room EXCEPT !.mode = w.value]
                ELSE [room EXCEPT !.sp[w.attr] = w.value]
    BY <1>2 DEF Serve
  <2> HIDE DEF w
  <2>5. ASSUME w \in [attr : {"mode"}, value : Presets] PROVE room' \in RoomSet
    <3>1. w.attr = "mode" /\ w.value \in Presets
      BY <2>5
    <3>2. [room EXCEPT !.mode = w.value] \in RoomSet
      BY <1>1, <3>1 DEF RoomSet
    <3> QED BY <1>1, <2>4, <3>1, <3>2
  <2>6. ASSUME w \in SetpointWrites PROVE room' \in RoomSet
    <3>1. /\ w.attr \in Presets /\ w.attr # "mode" /\ w.value \in Parkable
          /\ w.attr # Home => w.value \in HeatTemps
      BY <2>6, NamesAssumption, PresetsAssumption DEF SetpointWrites, Presets, Parkable
    <3>2. [room EXCEPT !.sp[w.attr] = w.value] \in RoomSet
      <4> DEFINE f == [room.sp EXCEPT ![w.attr] = w.value]
      <4>1. room.sp \in [Presets -> Parkable] /\ room.sp[Away] \in HeatTemps
            /\ room.sp[Sleep] \in HeatTemps
        BY <1>1 DEF RoomSet
      <4>2. f \in [Presets -> Parkable] /\ f[Away] \in HeatTemps /\ f[Sleep] \in HeatTemps
        BY <3>1, <4>1, PresetsAssumption DEF Presets
      <4> HIDE DEF f
      <4>3. [room EXCEPT !.sp = f] \in RoomSet
        BY <1>1, <4>2 DEF RoomSet
      <4> QED BY <4>3 DEF f
    <3> QED BY <1>1, <2>4, <3>1, <3>2
  <2>7. room' \in RoomSet
    BY <2>1, <2>5, <2>6 DEF WriteSet
  <2> QED BY <1>1, <2>3, <2>7 DEF ClimateInv
<1>3. CASE op.kind # "write"
  <2>1. op' = [kind |-> op.kind, stage |-> "served", values |-> room] /\ room' = room
    BY <1>3 DEF Serve
  <2>2. op.kind \in {"fast", "slow"}
    BY <1>1, <1>3, OpFields
  <2>3. op' \in OpSet
    BY <1>1, <2>1, <2>2 DEF OpSet
  <2> QED BY <1>1, <2>1, <2>3 DEF ClimateInv
<1> QED BY <1>2, <1>3

LEMMA DeliverKeeps == ClimateInv /\ Deliver => ClimateInv'
<1> SUFFICES ASSUME ClimateInv, Deliver PROVE ClimateInv'
  OBVIOUS
<1>1. op \in OpSet /\ op # NoOp /\ op.stage = "served" /\ op' = NoOp
      /\ UNCHANGED <<flash, room>>
  BY DEF ClimateInv, Deliver
<1>2. \E e : Sound(e) /\ Becomes(e)
  <2>1. CASE op.kind = "write"
    <3>1. op.write \in WriteSet
      BY <1>1, <2>1, OpFields
    <3>2. Sound(OnAttr(entity, op.write.attr, op.write.value))
      BY <3>1, OnAttrSound DEF ClimateInv
    <3>3. Becomes(IF op.ok THEN OnAttr(entity, op.write.attr, op.write.value) ELSE entity)
      BY <2>1 DEF Deliver
    <3> QED BY <3>2, <3>3 DEF ClimateInv
  <2>2. CASE op.kind = "fast"
    <3>1. op.values \in RoomSet
      BY <1>1, <2>2, OpFields
    <3>2. Becomes(OnFastPoll(entity, op.values))
      BY <2>2 DEF Deliver
    <3> QED BY <3>1, <3>2, PollsSound DEF ClimateInv
  <2>3. CASE op.kind = "slow"
    <3>1. op.values \in RoomSet
      BY <1>1, <2>3, OpFields
    <3>2. Becomes(OnSlowPoll(entity, op.values))
      BY <2>3 DEF Deliver
    <3> QED BY <3>1, <3>2, PollsSound DEF ClimateInv
  <2> QED BY <1>1, <2>1, <2>2, <2>3, OpFields
<1>3. Sound(entity') /\ entity'.out = <<>> /\ queue' \in Seq(WriteSet)
  BY <1>2, BecomesSound DEF ClimateInv
<1> QED BY <1>1, <1>3 DEF ClimateInv, OpSet

LEMMA EditKeeps == ClimateInv /\ Edit => ClimateInv'
<1> SUFFICES ASSUME ClimateInv, Edit PROVE ClimateInv'
  OBVIOUS
<1>1. room \in RoomSet /\ UNCHANGED <<entity, flash, queue, op>>
  BY DEF ClimateInv, Edit
<1>2. ASSUME NEW t \in HeatTemps, room' = [room EXCEPT !.sp[room.mode] = t]
      PROVE  room' \in RoomSet
  <2> DEFINE f == [room.sp EXCEPT ![room.mode] = t]
  <2>1. room.sp \in [Presets -> Parkable] /\ room.sp[Away] \in HeatTemps
        /\ room.sp[Sleep] \in HeatTemps
    BY <1>1 DEF RoomSet
  <2>2. f \in [Presets -> Parkable] /\ f[Away] \in HeatTemps /\ f[Sleep] \in HeatTemps
    BY <1>2, <2>1, PresetsAssumption DEF Presets, Parkable
  <2> HIDE DEF f
  <2>3. [room EXCEPT !.sp = f] \in RoomSet
    BY <1>1, <2>2 DEF RoomSet
  <2> QED BY <1>2, <2>3 DEF f
<1>3. ASSUME NEW m \in Presets, room' = [room EXCEPT !.mode = m] PROVE room' \in RoomSet
  BY <1>1, <1>3 DEF RoomSet
<1>4. ASSUME NEW b \in Bounds,
             room' = [room EXCEPT !.lo = b[1], !.hi = b[2]]
             \/ room' = Bounded([room EXCEPT !.lo = b[1], !.hi = b[2]])
      PROVE  room' \in RoomSet
  <2> DEFINE moved == [room EXCEPT !.lo = b[1], !.hi = b[2]]
  <2>1. b[1] = Lower /\ b[2] = Upper
    BY FixedAssumption
  <2>2. moved \in RoomSet
    BY <1>1, <2>1 DEF RoomSet
  <2> HIDE DEF moved
  <2>3. Bounded(moved) \in RoomSet
    <3> DEFINE g == [p \in Presets |->
                       IF moved.sp[p] < moved.lo THEN moved.lo
                       ELSE IF moved.hi < moved.sp[p] THEN moved.hi ELSE moved.sp[p]]
    <3>1. /\ moved.lo = Lower /\ moved.hi = Upper /\ moved.sp \in [Presets -> Parkable]
          /\ moved.sp[Away] \in HeatTemps /\ moved.sp[Sleep] \in HeatTemps
      BY <2>2 DEF RoomSet
    <3>2. ASSUME NEW p \in Presets PROVE g[p] = moved.sp[p]
      <4>1. moved.sp[p] \in Parkable
        BY <3>1
      <4>2. Lower \in Nat /\ Upper \in Nat /\ Lower <= Upper
            /\ \A t \in HeatTemps : t \in Nat /\ Lower < t /\ t <= Upper
        BY Temperatures, BoundsOrdered
      <4> QED BY <3>1, <4>1, <4>2 DEF Parkable
    <3>3. g = moved.sp
      BY <3>1, <3>2
    <3> HIDE DEF g
    <3>4. [moved EXCEPT !.sp = g] \in RoomSet
      BY <2>2, <3>3 DEF RoomSet
    <3> QED BY <3>4 DEF Bounded, g
  <2> QED BY <1>4, <2>2, <2>3 DEF moved
<1>5. room' \in RoomSet
  BY <1>2, <1>3, <1>4 DEF Edit
<1> QED BY <1>1, <1>5 DEF ClimateInv

LEMMA ClimateStep == ClimateInv /\ [Next]_vars => ClimateInv'
<1> SUFFICES ASSUME ClimateInv, [Next]_vars PROVE ClimateInv'
  OBVIOUS
<1>1. ASSUME NEW call \in Calls, Call(call) PROVE ClimateInv'
  <2>1. Becomes(Control(entity, call)) /\ UNCHANGED <<flash, op, room>>
    BY <1>1 DEF Call
  <2>2. Sound(Control(entity, call))
    BY ControlSound DEF ClimateInv
  <2>3. Sound(entity') /\ entity'.out = <<>> /\ queue' \in Seq(WriteSet)
    BY <2>1, <2>2, BecomesSound DEF ClimateInv
  <2> QED BY <2>1, <2>3 DEF ClimateInv
<1>2. CASE SendWrite
  <2>1. Head(queue) \in WriteSet /\ Tail(queue) \in Seq(WriteSet)
    BY <1>2, HeadTailProperties DEF SendWrite, ClimateInv
  <2>2. op' \in OpSet
    BY <1>2, <2>1 DEF SendWrite, OpSet
  <2> QED BY <1>2, <2>1, <2>2 DEF SendWrite, ClimateInv
<1>3. CASE SendPoll("fast") \/ SendPoll("slow")
  <2>1. op' \in OpSet
    BY <1>3 DEF SendPoll, OpSet
  <2> QED BY <1>3, <2>1 DEF SendPoll, ClimateInv
<1>4. CASE TimeOut
  BY <1>4 DEF TimeOut, ClimateInv, OpSet
<1>5. CASE CommitFlash
  <2>1. entity.saved \in HeatTemps /\ entity.lo = Lower /\ entity.hi = Upper
    BY SoundTyped, Fields DEF ClimateInv
  <2> QED BY <1>5, <2>1 DEF CommitFlash, ClimateInv
<1>6. CASE Reboot
  <2>1. Sound(entity') /\ entity'.out = <<>>
    BY <1>6, BootedSound DEF Reboot, ClimateInv, FlashSet
  <2>2. queue' \in Seq(WriteSet) /\ op' \in OpSet /\ UNCHANGED <<flash, room>>
    BY <1>6 DEF Reboot, OpSet
  <2> QED BY <2>1, <2>2 DEF ClimateInv
<1>7. CASE UNCHANGED vars
  BY <1>7 DEF vars, ClimateInv
<1> QED BY <1>1, <1>2, <1>3, <1>4, <1>5, <1>6, <1>7, ServeKeeps, DeliverKeeps, EditKeeps
        DEF Next

LEMMA ClimateInvariant == Spec => []ClimateInv
  BY ClimateInit, ClimateStep, PTL DEF Spec

(* Every field of the entity, the queue, the room and the operation keeps  *)
(* its type, and what a handler queued has gone to the hub.                *)
THEOREM EntityTyped == Spec => []TypeOK
<1>1. ClimateInv => TypeOK
  <2> SUFFICES ASSUME ClimateInv PROVE TypeOK
    OBVIOUS
  <2>1. entity \in EntitySet /\ entity.out = <<>> /\ entity.mirror = entity.last.target
    BY DEF ClimateInv, Sound, Ready
  <2>2. Parkable \subseteq Temps \ {NaN} /\ Readable \subseteq Temps /\ HeatTemps \subseteq Temps
    <3>1. <<Lower, Upper>> \in Bounds
      BY FixedAssumption
    <3>2. Parkable \subseteq Temps
      BY <3>1 DEF Temps, Parkable
    <3> QED BY <3>2, Temperatures DEF Temps, Readable, Parkable
  <2>3. /\ entity.room_mode \in Presets /\ entity.mode \in {"OFF", "HEAT"}
        /\ entity.target \in Temps /\ entity.saved \in Temps /\ entity.mirror \in Temps
        /\ entity.sp \in [Presets -> Temps]
    BY <2>1, <2>2 DEF EntitySet
  <2>4. \A i \in DOMAIN queue : queue[i].attr \in Presets \cup {"mode"}
    <3>1. \A w \in WriteSet : w.attr \in Presets \cup {"mode"}
      BY DEF WriteSet, SetpointWrites, Presets
    <3> QED BY <3>1, LenProperties, ElementOfSeq DEF ClimateInv
  <2>5. room.mode \in Presets /\ room.sp \in [Presets -> Temps \ {NaN}]
    BY <2>2 DEF ClimateInv, RoomSet
  <2>6. op.kind \in {"none", "write", "fast", "slow"}
    BY DEF ClimateInv, OpSet, NoOp
  <2> QED BY <2>1, <2>3, <2>4, <2>5, <2>6 DEF TypeOK
<1> QED BY <1>1, ClimateInvariant, PTL

(* What was published last is what the entity holds, and the setpoint      *)
(* sensor shows the published target ("so the two can't drift"), whatever  *)
(* the order of calls, polls, replies, losses and reboots: every handler   *)
(* that moves mode, preset or target ends in publish_if_changed_().        *)
THEOREM StaysInStep == Spec => []PublishedInStep
<1>1. ClimateInv => PublishedInStep
  BY DEF ClimateInv, Sound, Ready, InStep, PublishedInStep, Visible
<1> QED BY <1>1, ClimateInvariant, PTL

(* The entity says OFF exactly when its target is at the frost floor       *)
(* (set_off_, set_heat_, set_target_, apply_active_setpoint_).             *)
THEOREM ModeAgreesWithTarget == Spec => []ModeMatchesTarget
<1>1. ClimateInv => ModeMatchesTarget
  BY DEF ClimateInv, Sound, Ready, ModeMatchesTarget
<1> QED BY <1>1, ClimateInvariant, PTL

(* OFF parks the Home setpoint and no other: no order of handlers writes   *)
(* the frost setpoint to Away or Sleep.                                    *)
THEOREM OnlyHomeIsParked == Spec => []AwaySleepNeverParked
<1>1. ClimateInv => AwaySleepNeverParked
  BY DEF ClimateInv, RoomSet, AwaySleepNeverParked
<1> QED BY <1>1, ClimateInvariant, PTL

(* HEAT restores a setpoint somebody chose, across stale polls and reboots *)
(* (set_off_, apply_active_setpoint_, setup()).                            *)
THEOREM RestoreIsChosen == Spec => []SavedIsChosen
<1>1. ClimateInv => SavedIsChosen
  BY Fields DEF ClimateInv, Sound, Ready, SavedIsChosen
<1> QED BY <1>1, ClimateInvariant, PTL

(* Every setpoint queued lies within the bounds: none is clamped away or   *)
(* refused by the controller.                                              *)
THEOREM QueuedInRange == Spec => []WritesInRange
<1>1. ClimateInv => WritesInRange
  <2> SUFFICES ASSUME ClimateInv, NEW i \in DOMAIN queue, queue[i].attr # "mode"
               PROVE  \E b \in Bounds : b[1] <= queue[i].value /\ queue[i].value <= b[2]
    BY DEF WritesInRange
  <2>1. queue[i] \in WriteSet
    BY LenProperties, ElementOfSeq DEF ClimateInv
  <2>2. queue[i].value \in Parkable
    BY <2>1 DEF WriteSet, SetpointWrites, Parkable
  <2>3. <<Lower, Upper>> \in Bounds
    BY FixedAssumption
  <2>4. ASSUME NEW t \in Parkable PROVE Lower <= t /\ t <= Upper
    <3>1. CASE t \in HeatTemps
      <4>1. t \in Nat /\ Lower < t /\ t <= Upper
        BY <3>1, Temperatures
      <4> QED BY <4>1, BoundsOrdered
    <3>2. CASE t = Lower
      BY <3>2, BoundsOrdered
    <3> QED BY <3>1, <3>2 DEF Parkable
  <2> QED BY <2>2, <2>3, <2>4
<1> QED BY <1>1, ClimateInvariant, PTL

-----------------------------------------------------------------------------
(* The last call wins: what a handler queues, and what carrying it out     *)
(* leaves in the room.                                                     *)

LEMMA WriteFields ==
  ASSUME NEW w \in WriteSet
  PROVE  /\ w = [attr |-> w.attr, value |-> w.value] /\ w.attr \in Presets \cup {"mode"}
         /\ w.attr = "mode" => w.value \in Presets
         /\ w.attr # "mode" => w.value \in Parkable
         /\ w.attr \in {Away, Sleep} => w.value \in HeatTemps
<1>1. CASE w \in [attr : {"mode"}, value : Presets]
  BY <1>1, NamesAssumption DEF Presets
<1>2. CASE w \in SetpointWrites
  BY <1>2, NamesAssumption, PresetsAssumption DEF SetpointWrites, Parkable, Presets
<1> QED BY <1>1, <1>2 DEF WriteSet

LEMMA LeavesNothing ==
  ASSUME NEW a, NEW now, NEW V PROVE Leaves(<<>>, a, now, V) <=> now \in V
  BY DEF Leaves

(* The last write of an attribute decides. *)
LEMMA LeavesAppend ==
  ASSUME NEW q \in Seq(WriteSet), NEW w \in WriteSet, NEW a, NEW now, NEW V
  PROVE  Leaves(Append(q, w), a, now, V)
           <=> IF w.attr = a THEN w.value \in V ELSE Leaves(q, a, now, V)
<1> DEFINE s == Append(q, w)
<1>1. /\ Len(q) \in Nat /\ DOMAIN q = 1..Len(q) /\ DOMAIN s = 1..(Len(q) + 1)
      /\ s[Len(q) + 1] = w /\ \A i \in 1..Len(q) : s[i] = q[i]
  BY AppendProperties, LenProperties
<1> HIDE DEF s
<1>2. CASE w.attr = a
  <2>1. Len(q) + 1 \in DOMAIN s /\ \A j \in DOMAIN s : ~(Len(q) + 1 < j)
    BY <1>1
  <2>2. ASSUME w.value \in V PROVE Leaves(s, a, now, V)
    BY <1>1, <1>2, <2>1, <2>2 DEF Leaves
  <2>3. ASSUME Leaves(s, a, now, V) PROVE w.value \in V
    <3>1. PICK i \in DOMAIN s : /\ s[i].attr = a /\ s[i].value \in V
                                /\ \A j \in DOMAIN s : i < j => s[j].attr # a
      BY <1>1, <1>2, <2>1, <2>3 DEF Leaves
    <3>2. i = Len(q) + 1
      BY <1>1, <1>2, <2>1, <3>1
    <3> QED BY <1>1, <3>1, <3>2
  <2> QED BY <1>2, <2>2, <2>3 DEF s
<1>3. CASE w.attr # a
  <2>1. ASSUME Leaves(q, a, now, V) PROVE Leaves(s, a, now, V)
    <3>1. CASE now \in V /\ \A i \in DOMAIN q : q[i].attr # a
      <4>1. \A i \in DOMAIN s : s[i].attr # a
        BY <1>1, <1>3, <3>1
      <4> QED BY <3>1, <4>1 DEF Leaves
    <3>2. ASSUME NEW i \in DOMAIN q, q[i].attr = a, q[i].value \in V,
                 \A j \in DOMAIN q : i < j => q[j].attr # a
          PROVE  Leaves(s, a, now, V)
      <4>1. i \in DOMAIN s /\ s[i].attr = a /\ s[i].value \in V
        BY <1>1, <3>2
      <4>2. \A j \in DOMAIN s : i < j => s[j].attr # a
        BY <1>1, <1>3, <3>2
      <4> QED BY <4>1, <4>2 DEF Leaves
    <3> QED BY <2>1, <3>1, <3>2 DEF Leaves
  <2>2. ASSUME Leaves(s, a, now, V) PROVE Leaves(q, a, now, V)
    <3>1. CASE now \in V /\ \A i \in DOMAIN s : s[i].attr # a
      <4>1. \A i \in DOMAIN q : q[i].attr # a
        BY <1>1, <3>1
      <4> QED BY <3>1, <4>1 DEF Leaves
    <3>2. ASSUME NEW i \in DOMAIN s, s[i].attr = a, s[i].value \in V,
                 \A j \in DOMAIN s : i < j => s[j].attr # a
          PROVE  Leaves(q, a, now, V)
      <4>1. i # Len(q) + 1
        BY <1>1, <1>3, <3>2
      <4>2. i \in DOMAIN q /\ q[i] = s[i]
        BY <1>1, <4>1
      <4>3. \A j \in DOMAIN q : i < j => q[j].attr # a
        BY <1>1, <3>2
      <4> QED BY <3>2, <4>2, <4>3 DEF Leaves
    <3> QED BY <2>2, <3>1, <3>2 DEF Leaves
  <2> QED BY <1>3, <2>1, <2>2 DEF s
<1> QED BY <1>2, <1>3

(* The first write only counts as what the room held before the others. *)
LEMMA LeavesTail ==
  ASSUME NEW q \in Seq(WriteSet), q # <<>>, NEW a, NEW now, NEW V, Leaves(q, a, now, V)
  PROVE  Leaves(Tail(q), a, IF Head(q).attr = a THEN Head(q).value ELSE now, V)
<1> DEFINE s == Tail(q)
           n == IF Head(q).attr = a THEN Head(q).value ELSE now
<1>1. /\ Len(q) \in Nat \ {0} /\ DOMAIN q = 1..Len(q) /\ DOMAIN s = 1..(Len(q) - 1)
      /\ Head(q) = q[1] /\ \A i \in 1..(Len(q) - 1) : s[i] = q[i + 1]
  BY HeadTailProperties, LenProperties, EmptySeq
<1> HIDE DEF s
<1>2. CASE now \in V /\ \A i \in DOMAIN q : q[i].attr # a
  <2>1. \A i \in DOMAIN s : s[i].attr # a
    BY <1>1, <1>2
  <2>2. n = now
    BY <1>1, <1>2
  <2> QED BY <1>2, <2>1, <2>2 DEF Leaves, s
<1>3. ASSUME NEW i \in DOMAIN q, q[i].attr = a, q[i].value \in V,
             \A j \in DOMAIN q : i < j => q[j].attr # a
      PROVE  Leaves(s, a, n, V)
  <2>1. CASE i = 1
    <3>1. n \in V
      BY <1>1, <1>3, <2>1
    <3>2. \A j \in DOMAIN s : s[j].attr # a
      BY <1>1, <1>3, <2>1
    <3> QED BY <3>1, <3>2 DEF Leaves
  <2>2. CASE i # 1
    <3>1. i - 1 \in DOMAIN s /\ s[i - 1] = q[i]
      BY <1>1, <2>2
    <3>2. \A j \in DOMAIN s : i - 1 < j => s[j].attr # a
      <4> SUFFICES ASSUME NEW j \in DOMAIN s, i - 1 < j PROVE s[j].attr # a
        OBVIOUS
      <4>1. j + 1 \in DOMAIN q /\ i < j + 1 /\ s[j] = q[j + 1]
        BY <1>1
      <4> QED BY <1>3, <4>1
    <3> QED BY <1>3, <3>1, <3>2 DEF Leaves
  <2> QED BY <2>1, <2>2
<1> QED BY <1>2, <1>3 DEF Leaves, s

(* A larger set of values is left all the more. *)
LEMMA LeavesMore ==
  ASSUME NEW q, NEW a, NEW now, NEW V, NEW W, V \subseteq W, Leaves(q, a, now, V)
  PROVE  Leaves(q, a, now, W)
  BY DEF Leaves

(* A non-empty set of places in a sequence has a last one. *)
LEMMA LastPlace ==
  ASSUME NEW n \in Nat, NEW S, S \subseteq 1..n, S # {}
  PROVE  \E i \in S : \A j \in S : ~(i < j)
<1> DEFINE T == {n - i : i \in S}
<1>1. T \subseteq Nat /\ T # {}
  <2>1. \A i \in S : i \in 1..n /\ n - i \in Nat
    OBVIOUS
  <2> QED BY <2>1
<1> HIDE DEF T
<1>2. PICK x \in T : \A y \in T : x <= y
  BY <1>1, LeastMember
<1>3. PICK i \in S : x = n - i
  BY <1>2 DEF T
<1>4. ASSUME NEW j \in S, i < j PROVE FALSE
  <2>1. n - j \in T /\ n - j < x
    BY <1>3, <1>4 DEF T
  <2> QED BY <1>1, <1>2, <2>1
<1> QED BY <1>4

(* Where every write of an attribute has a value in V, so has the last. *)
LEMMA LeavesAll ==
  ASSUME NEW q \in Seq(WriteSet), NEW a, NEW now, NEW V, now \in V,
         \A i \in DOMAIN q : q[i].attr = a => q[i].value \in V
  PROVE  Leaves(q, a, now, V)
<1> DEFINE S == {i \in DOMAIN q : q[i].attr = a}
<1>1. CASE S = {}
  BY <1>1 DEF Leaves
<1>2. CASE S # {}
  <2>1. S \subseteq 1..Len(q) /\ Len(q) \in Nat
    BY LenProperties
  <2>2. PICK i \in S : \A j \in S : ~(i < j)
    BY <1>2, <2>1, LastPlace
  <2> QED BY <2>2 DEF Leaves
<1> QED BY <1>1, <1>2

(* Of the writes of two handlers the later ones decide, where there are    *)
(* any.                                                                    *)
LEMMA LeavesConcat ==
  ASSUME NEW q \in Seq(WriteSet), NEW s \in Seq(WriteSet), NEW a, NEW now, NEW x, NEW V,
         Leaves(s, a, x, V)
  PROVE  \/ Leaves(q \o s, a, now, V)
         \/ x \in V /\ \A W : Leaves(q, a, now, W) => Leaves(q \o s, a, now, W)
<1> DEFINE t == q \o s
           n == Len(q)
<1>1. /\ n \in Nat /\ Len(s) \in Nat /\ DOMAIN q = 1..n /\ DOMAIN s = 1..Len(s)
      /\ DOMAIN t = 1..(n + Len(s))
      /\ \A i \in 1..n : t[i] = q[i]
      /\ \A i \in 1..Len(s) : t[n + i] = s[i]
  BY ConcatProperties, LenProperties
<1> HIDE DEF t, n
<1>2. \A j \in DOMAIN t : j \in DOMAIN q \/ (j - n \in DOMAIN s /\ t[j] = s[j - n])
  <2> SUFFICES ASSUME NEW j \in DOMAIN t, j \notin DOMAIN q
               PROVE  j - n \in DOMAIN s /\ t[j] = s[j - n]
    OBVIOUS
  <2>1. j - n \in 1..Len(s) /\ j = n + (j - n)
    BY <1>1
  <2> QED BY <1>1, <2>1
<1>3. ASSUME NEW i \in DOMAIN s, s[i].attr = a, s[i].value \in V,
             \A j \in DOMAIN s : i < j => s[j].attr # a
      PROVE  Leaves(t, a, now, V)
  <2>1. n + i \in DOMAIN t /\ t[n + i] = s[i]
    BY <1>1
  <2>2. ASSUME NEW j \in DOMAIN t, n + i < j PROVE t[j].attr # a
    <3>1. j - n \in DOMAIN s /\ t[j] = s[j - n] /\ i < j - n
      BY <1>1, <1>2, <2>2
    <3> QED BY <1>3, <3>1
  <2> QED BY <1>3, <2>1, <2>2 DEF Leaves
<1>4. ASSUME \A i \in DOMAIN s : s[i].attr # a, NEW W, Leaves(q, a, now, W)
      PROVE  Leaves(t, a, now, W)
  <2>1. CASE now \in W /\ \A i \in DOMAIN q : q[i].attr # a
    <3>1. \A j \in DOMAIN t : t[j].attr # a
      BY <1>1, <1>2, <1>4, <2>1
    <3> QED BY <2>1, <3>1 DEF Leaves
  <2>2. ASSUME NEW i \in DOMAIN q, q[i].attr = a, q[i].value \in W,
               \A j \in DOMAIN q : i < j => q[j].attr # a
        PROVE  Leaves(t, a, now, W)
    <3>1. i \in DOMAIN t /\ t[i] = q[i]
      BY <1>1
    <3>2. \A j \in DOMAIN t : i < j => t[j].attr # a
      BY <1>1, <1>2, <1>4, <2>2
    <3> QED BY <2>2, <3>1, <3>2 DEF Leaves
  <2> QED BY <1>4, <2>1, <2>2 DEF Leaves
<1> QED BY <1>3, <1>4 DEF Leaves, t

(* If later writes end in V whatever the room holds, or from all the values *)
(* that earlier writes may leave, they end in V after those.               *)
LEMMA LeavesLast ==
  ASSUME NEW q \in Seq(WriteSet), NEW s \in Seq(WriteSet), NEW a, NEW now, NEW V,
         NEW x, x \notin V, Leaves(s, a, x, V)
  PROVE  Leaves(q \o s, a, now, V)
  BY LeavesConcat

LEMMA LeavesOver ==
  ASSUME NEW q \in Seq(WriteSet), NEW s \in Seq(WriteSet), NEW a, NEW now, NEW V, NEW x,
         Leaves(q, a, now, {x}), Leaves(s, a, x, V)
  PROVE  Leaves(q \o s, a, now, V)
<1>1. CASE Leaves(q \o s, a, now, V)
  BY <1>1
<1>2. CASE x \in V /\ \A W : Leaves(q, a, now, W) => Leaves(q \o s, a, now, W)
  <2>1. Leaves(q \o s, a, now, {x}) /\ {x} \subseteq V
    BY <1>2
  <2> QED BY <2>1 DEF Leaves
<1> QED BY <1>1, <1>2, LeavesConcat

-----------------------------------------------------------------------------
(* What each handler queues, in order. *)

ModeWrite(m) == [attr |-> "mode", value |-> m]
SpWrite(p, t) == [attr |-> p, value |-> t]

(* What stays when only the shown state moves. *)
Kept(e, n) == n.room_mode = e.room_mode /\ n.sp = e.sp /\ n.out = e.out

LEMMA PublishKept == ASSUME NEW e \in EntitySet PROVE Kept(e, PublishIfChanged(e))
  BY DEF PublishIfChanged, Kept, EntitySet

LEMMA ShowKept ==
  ASSUME NEW e \in EntitySet, NEW t \in Readable, NEW m \in {"OFF", "HEAT"}
  PROVE  /\ [e EXCEPT !.target = t, !.mode = m] \in EntitySet
         /\ Kept(e, [e EXCEPT !.target = t, !.mode = m])
         /\ Kept(e, PublishIfChanged([e EXCEPT !.target = t, !.mode = m]))
<1> DEFINE n == [e EXCEPT !.target = t, !.mode = m]
<1>1. n \in EntitySet /\ Kept(e, n)
  BY DEF EntitySet, Kept
<1> HIDE DEF n
<1>2. Kept(n, PublishIfChanged(n))
  BY <1>1, PublishKept
<1> QED BY <1>1, <1>2 DEF Kept, n

LEMMA ApplyKept ==
  ASSUME NEW e, Ready(e)
  PROVE  Kept(e, PublishIfChanged(ApplyActiveSetpoint(e, ActiveSp(e))))
<1> DEFINE t == ActiveSp(e)
           n == ApplyActiveSetpoint(e, t)
<1>1. t \in Readable /\ e \in EntitySet /\ e.mirror = e.last.target
  BY Fields DEF ActiveSp, Ready
<1> HIDE DEF t
<1>2. n \in EntitySet
  BY <1>1, ApplyReady DEF Ready
<1>3. Kept(e, n)
  <2>1. CASE t = NaN
    BY <2>1 DEF ApplyActiveSetpoint, Kept
  <2>2. CASE t # NaN /\ AtFrost(e, t)
    <3>1. n = PublishIfChanged([e EXCEPT !.target = t, !.mode = "OFF"])
      BY <2>2 DEF ApplyActiveSetpoint
    <3> QED BY <1>1, <3>1, ShowKept
  <2>3. CASE t # NaN /\ ~AtFrost(e, t)
    <3> DEFINE heat == [e EXCEPT !.target = t, !.mode = "HEAT"]
               h == IF e.room_mode = Home THEN SetSavedTarget(heat, t) ELSE heat
    <3>1. heat \in EntitySet /\ Kept(e, heat)
      BY <1>1, ShowKept
    <3>2. t \in HeatTemps
      BY <1>1, <2>3, Temperatures DEF Readable, Parkable
    <3>3. n = PublishIfChanged(h)
      BY <2>3 DEF ApplyActiveSetpoint
    <3> HIDE DEF heat
    <3>4. h \in EntitySet /\ Kept(heat, h)
      BY <3>1, <3>2 DEF SetSavedTarget, Kept, EntitySet
    <3>5. Kept(h, PublishIfChanged(h))
      BY <3>4, PublishKept
    <3> QED BY <3>1, <3>3, <3>4, <3>5 DEF Kept
  <2> QED BY <2>1, <2>2, <2>3
<1> HIDE DEF n
<1>4. Kept(n, PublishIfChanged(n))
  BY <1>2, PublishKept
<1> QED BY <1>3, <1>4 DEF Kept, n, t

(* A room mode chosen and written. *)
LEMMA ModeWritten ==
  ASSUME NEW e \in EntitySet, NEW m \in Presets
  PROVE  /\ SetRoomMode(WriteRoomMode(e, m), m) \in EntitySet
         /\ SetRoomMode(WriteRoomMode(e, m), m).room_mode = m
         /\ SetRoomMode(WriteRoomMode(e, m), m).sp = e.sp
         /\ SetRoomMode(WriteRoomMode(e, m), m).saved = e.saved
         /\ SetRoomMode(WriteRoomMode(e, m), m).lo = e.lo
         /\ SetRoomMode(WriteRoomMode(e, m), m).out = Append(e.out, ModeWrite(m))
         /\ ModeWrite(m) \in WriteSet
<1> DEFINE w == ModeWrite(m)
<1>1. w \in WriteSet /\ w.attr = "mode" /\ w.value = m
  BY DEF WriteSet, ModeWrite
<1> HIDE DEF w
<1>2. WriteRoomMode(e, m) \in EntitySet
      /\ WriteRoomMode(e, m) = [e EXCEPT !.out = Append(e.out, w)]
  BY <1>1, QueueWriteKeeps DEF WriteRoomMode
<1> DEFINE n == WriteRoomMode(e, m)
<1>3. n.out = Append(e.out, w) /\ n.sp = e.sp /\ n.saved = e.saved /\ n.lo = e.lo
  BY <1>2 DEF EntitySet
<1> HIDE DEF n
<1>4. n \in EntitySet
  BY <1>2 DEF n
<1>5. /\ SetRoomMode(n, m) \in EntitySet /\ SetRoomMode(n, m).room_mode = m
      /\ SetRoomMode(n, m).sp = n.sp /\ SetRoomMode(n, m).saved = n.saved
      /\ SetRoomMode(n, m).lo = n.lo /\ SetRoomMode(n, m).out = n.out
  BY <1>4 DEF SetRoomMode, EntitySet
<1> QED BY <1>1, <1>3, <1>5 DEF n, w

(* A setpoint of the active preset written. *)
LEMMA SetpointWritten ==
  ASSUME NEW e \in EntitySet, NEW t,
         t \in HeatTemps \/ (t = Lower /\ e.room_mode = Home)
  PROVE  /\ WriteSetpoint(e, t) \in EntitySet /\ WriteSetpoint(e, t).room_mode = e.room_mode
         /\ WriteSetpoint(e, t).sp = e.sp /\ WriteSetpoint(e, t).saved = e.saved
         /\ WriteSetpoint(e, t).out = Append(e.out, SpWrite(e.room_mode, t))
         /\ SpWrite(e.room_mode, t) \in WriteSet
<1> DEFINE w == SpWrite(e.room_mode, t)
<1>1. Raw(Clamp(e, t)) = t
  <2>1. Clamp(e, t) = t /\ t # NaN
    BY Temperatures DEF Parkable
  <2> QED BY <2>1 DEF Raw
<1>2. w \in WriteSet /\ w.attr = e.room_mode /\ w.value = t
  <2>1. e.room_mode \in {Home, Away, Sleep}
    BY Fields DEF Presets
  <2> QED BY <2>1 DEF WriteSet, SetpointWrites, Parkable, SpWrite
<1> HIDE DEF w
<1>3. WriteSetpoint(e, t) \in EntitySet
      /\ WriteSetpoint(e, t) = [e EXCEPT !.out = Append(e.out, w)]
  BY <1>1, <1>2, QueueWriteKeeps DEF WriteSetpoint
<1> QED BY <1>2, <1>3 DEF EntitySet, w

(* control() with a preset: the mode, and Home's setpoint if it was parked. *)
LEMMA SetPresetModeWrites ==
  ASSUME NEW e, Sound(e), NEW m \in Presets
  PROVE  LET n == SetPresetMode(e, m)
         IN  /\ n.room_mode = m
             /\ IF m = Home /\ AtFrost(e, e.sp[Home])
                THEN n.out = Append(Append(e.out, ModeWrite(m)), SpWrite(Home, e.saved))
                ELSE n.out = Append(e.out, ModeWrite(m))
<1> DEFINE c == SetRoomMode(WriteRoomMode(e, m), m)
           n == SetPresetMode(e, m)
<1>1. e \in EntitySet /\ e.saved \in HeatTemps /\ e.saved # NaN
  BY SoundTyped, Fields, Temperatures DEF Parkable
<1>2. /\ c \in EntitySet /\ c.room_mode = m /\ c.sp = e.sp /\ c.saved = e.saved
      /\ c.out = Append(e.out, ModeWrite(m))
  BY <1>1, ModeWritten
<1>3. Ready(c)
  <2>1. WriteRoomMode(e, m) \in EntitySet /\ Fronts(e, WriteRoomMode(e, m))
    BY <1>1, WriteRoomModeKeeps
  <2>2. Ready(WriteRoomMode(e, m))
    BY <2>1, SoundTyped, FrontsReady
  <2> QED BY <2>2, SetRoomModeReady
<1>4. CASE m = Home /\ AtFrost(e, e.sp[Home])
  <2> DEFINE w == WriteSetpoint(c, e.saved)
             s == PublishIfChanged([w EXCEPT !.target = e.saved, !.mode = "HEAT"])
  <2>1. n = s
    BY <1>1, <1>4 DEF SetPresetMode
  <2> HIDE DEF c
  <2>2. w \in EntitySet /\ w.room_mode = m /\ w.out = Append(c.out, SpWrite(Home, e.saved))
    BY <1>1, <1>2, <1>4, SetpointWritten
  <2> HIDE DEF w
  <2>3. Kept(w, s)
    BY <1>1, <2>2, ShowKept DEF Readable, Parkable
  <2> HIDE DEF s, n
  <2>4. n.room_mode = m /\ n.out = Append(Append(e.out, ModeWrite(m)), SpWrite(Home, e.saved))
    BY <1>2, <2>1, <2>2, <2>3 DEF Kept
  <2> QED BY <1>4, <2>4 DEF n
<1>5. CASE ~(m = Home /\ AtFrost(e, e.sp[Home]))
  <2> DEFINE s == PublishIfChanged(ApplyActiveSetpoint(c, ActiveSp(c)))
  <2>1. n = s
    BY <1>5 DEF SetPresetMode
  <2> HIDE DEF c
  <2>2. Kept(c, s)
    BY <1>3, ApplyKept
  <2> HIDE DEF s, n
  <2>3. n.room_mode = m /\ n.out = Append(e.out, ModeWrite(m))
    BY <1>2, <2>1, <2>2 DEF Kept
  <2> QED BY <1>5, <2>3 DEF n
<1> QED BY <1>4, <1>5

(* The queue once reset_to_home_() has run. *)
HomeOut(e) == IF e.room_mode = Home THEN e.out ELSE Append(e.out, ModeWrite(Home))

LEMMA ResetToHomeWrites ==
  ASSUME NEW e \in EntitySet
  PROVE  /\ ResetToHome(e) \in EntitySet /\ ResetToHome(e).room_mode = Home
         /\ ResetToHome(e).out = HomeOut(e) /\ HomeOut(e) \in Seq(WriteSet)
<1>1. Home \in Presets /\ e.out \in Seq(WriteSet)
  BY DEF Presets, EntitySet
<1>2. CASE e.room_mode = Home
  BY <1>1, <1>2 DEF ResetToHome, HomeOut
<1>3. CASE e.room_mode # Home
  <2> DEFINE n == SetRoomMode(WriteRoomMode(e, Home), Home)
  <2>1. n \in EntitySet /\ n.room_mode = Home /\ n.out = Append(e.out, ModeWrite(Home))
    BY <1>1, ModeWritten
  <2>2. ResetToHome(e) = n /\ HomeOut(e) = Append(e.out, ModeWrite(Home))
    BY <1>3 DEF ResetToHome, HomeOut
  <2> HIDE DEF n
  <2>3. n.out \in Seq(WriteSet)
    BY <2>1 DEF EntitySet
  <2> QED BY <2>1, <2>2, <2>3
<1> QED BY <1>2, <1>3

(* OFF parks Home last, HEAT brings back the saved value last. *)
LEMMA SetOffWrites ==
  ASSUME NEW e, Sound(e)
  PROVE  SetOff(e).room_mode = Home /\ SetOff(e).out = Append(HomeOut(e), SpWrite(Home, Lower))
<1> DEFINE athome == ResetToHome(e)
           keep == IF e.sp[Home] # NaN THEN e.sp[Home] ELSE e.target
           kept == IF keep # NaN /\ ~AtFrost(e, keep) THEN SetSavedTarget(athome, keep)
                   ELSE athome
           n == WriteSetpoint(kept, e.lo)
           off == [n EXCEPT !.sp[Home] = e.lo, !.mode = "OFF", !.target = e.lo]
<1>1. e \in EntitySet /\ e.lo = Lower /\ keep \in Readable
  <2>1. e \in EntitySet /\ Home \in Presets
    BY SoundTyped DEF Presets
  <2> QED BY <2>1, Fields
<1>2. athome \in EntitySet /\ athome.room_mode = Home /\ athome.out = HomeOut(e)
  BY <1>1, ResetToHomeWrites
<1>9. SetOff(e) = PublishIfChanged(off)
  BY DEF SetOff
<1> HIDE DEF athome
<1>3. kept \in EntitySet /\ kept.room_mode = Home /\ kept.out = HomeOut(e)
  <2>1. CASE keep # NaN /\ ~AtFrost(e, keep)
    <3>1. keep \in HeatTemps
      BY <1>1, <2>1, Temperatures DEF Readable, Parkable
    <3>2. kept = [athome EXCEPT !.saved = keep]
      BY <2>1 DEF SetSavedTarget
    <3> HIDE DEF keep, kept
    <3> QED BY <1>2, <3>1, <3>2 DEF EntitySet
  <2>2. CASE ~(keep # NaN /\ ~AtFrost(e, keep))
    BY <1>2, <2>2
  <2> QED BY <2>1, <2>2
<1> HIDE DEF keep, kept
<1>4. n \in EntitySet /\ n.room_mode = Home /\ n.out = Append(HomeOut(e), SpWrite(Home, Lower))
  BY <1>1, <1>3, SetpointWritten
<1> HIDE DEF n
<1>5. off \in EntitySet /\ off.room_mode = n.room_mode /\ off.out = n.out
  <2>1. Lower \in Readable /\ Home \in Presets
    BY DEF Readable, Parkable, Presets
  <2> QED BY <1>1, <1>4, <2>1 DEF EntitySet
<1> HIDE DEF off
<1>6. Kept(off, PublishIfChanged(off))
  BY <1>5, PublishKept
<1> QED BY <1>4, <1>5, <1>6, <1>9 DEF Kept

LEMMA SetHeatWrites ==
  ASSUME NEW e, Sound(e)
  PROVE  /\ SetHeat(e).room_mode = Home
         /\ SetHeat(e).out = Append(HomeOut(e), SpWrite(Home, e.saved))
<1> DEFINE r == ResetToHome(e)
           n == WriteSetpoint(r, e.saved)
           h == [n EXCEPT !.mode = "HEAT", !.target = e.saved]
<1>1. e \in EntitySet /\ e.saved \in HeatTemps /\ e.saved # NaN
  BY SoundTyped, Fields, Temperatures DEF Parkable
<1>2. SetHeat(e) = PublishIfChanged(h)
  BY <1>1 DEF SetHeat, HeatTarget
<1>3. r \in EntitySet /\ r.room_mode = Home /\ r.out = HomeOut(e)
  BY <1>1, ResetToHomeWrites
<1> HIDE DEF r
<1>4. n \in EntitySet /\ n.room_mode = Home
      /\ n.out = Append(HomeOut(e), SpWrite(Home, e.saved))
  BY <1>1, <1>3, SetpointWritten
<1> HIDE DEF n
<1>5. h \in EntitySet /\ Kept(n, h)
  BY <1>1, <1>4 DEF EntitySet, Kept, Readable, Parkable
<1> HIDE DEF h
<1>6. Kept(h, PublishIfChanged(h))
  BY <1>5, PublishKept
<1> QED BY <1>2, <1>4, <1>5, <1>6 DEF Kept

LEMMA SetTargetWrites ==
  ASSUME NEW e, Sound(e), NEW t \in HeatTemps
  PROVE  /\ SetTarget(e, t).room_mode = e.room_mode
         /\ SetTarget(e, t).out = Append(e.out, SpWrite(e.room_mode, t))
<1> DEFINE n == WriteSetpoint(e, t)
           s == PublishIfChanged([n EXCEPT !.target = t, !.mode = "HEAT"])
<1>1. e \in EntitySet /\ Clamp(e, t) = t /\ ~AtFrost(e, t) /\ t \in Readable
  <2>1. e \in EntitySet /\ t \in Readable /\ t # Lower
    BY SoundTyped, Temperatures DEF Readable, Parkable
  <2> QED BY <2>1, Temperatures
<1>2. SetTarget(e, t) = s
  BY <1>1 DEF SetTarget
<1>3. n \in EntitySet /\ n.room_mode = e.room_mode
      /\ n.out = Append(e.out, SpWrite(e.room_mode, t))
  BY <1>1, SetpointWritten
<1> HIDE DEF n
<1>4. Kept(n, s)
  BY <1>1, <1>3, ShowKept
<1> HIDE DEF s
<1> QED BY <1>2, <1>3, <1>4 DEF Kept

(* control() as a whole leaves the room in the mode the entity is in, and  *)
(* the setpoint as the last part of the call has it.                       *)
Tracks(e, m) == e.out \in Seq(WriteSet) /\ Leaves(e.out, "mode", m, {e.room_mode})

LEMMA TracksSetpoint ==
  ASSUME NEW q \in Seq(WriteSet), NEW p \in Presets, NEW t, SpWrite(p, t) \in WriteSet,
         NEW m, NEW V
  PROVE  /\ Append(q, SpWrite(p, t)) \in Seq(WriteSet)
         /\ Leaves(q, "mode", m, V) => Leaves(Append(q, SpWrite(p, t)), "mode", m, V)
         /\ \A now : Leaves(Append(q, SpWrite(p, t)), p, now, {t})
<1>1. SpWrite(p, t).attr = p /\ SpWrite(p, t).value = t /\ p # "mode"
  BY NamesAssumption DEF SpWrite
<1> DEFINE w == SpWrite(p, t)
<1> HIDE DEF w
<1>2. w \in WriteSet /\ w.attr = p /\ w.value = t
  BY <1>1 DEF w
<1>3. Append(q, w) \in Seq(WriteSet)
  BY <1>2, AppendProperties
<1>4. Leaves(q, "mode", m, V) => Leaves(Append(q, w), "mode", m, V)
  BY <1>1, <1>2, LeavesAppend
<1>5. ASSUME NEW now PROVE Leaves(Append(q, w), p, now, {t})
  BY <1>2, LeavesAppend
<1> QED BY <1>3, <1>4, <1>5 DEF w

LEMMA TracksMode ==
  ASSUME NEW q \in Seq(WriteSet), NEW m \in Presets, NEW now
  PROVE  /\ Append(q, ModeWrite(m)) \in Seq(WriteSet)
         /\ Leaves(Append(q, ModeWrite(m)), "mode", now, {m})
         /\ \A p \in Presets : \A v, V :
              Leaves(q, p, v, V) => Leaves(Append(q, ModeWrite(m)), p, v, V)
<1> DEFINE w == ModeWrite(m)
<1>1. w \in WriteSet /\ w.attr = "mode" /\ w.value = m
  BY DEF WriteSet, ModeWrite
<1> HIDE DEF w
<1>2. Append(q, w) \in Seq(WriteSet)
  BY <1>1, AppendProperties
<1>3. Leaves(Append(q, w), "mode", now, {m})
  BY <1>1, LeavesAppend
<1>4. ASSUME NEW p \in Presets, NEW v, NEW V, Leaves(q, p, v, V)
      PROVE  Leaves(Append(q, w), p, v, V)
  <2>1. p # "mode"
    BY NamesAssumption
  <2> QED BY <1>1, <1>4, <2>1, LeavesAppend
<1> QED BY <1>2, <1>3, <1>4 DEF w

LEMMA WritesListed ==
  /\ \A t \in Parkable : SpWrite(Home, t) \in WriteSet
  /\ \A p \in Presets, t \in HeatTemps : SpWrite(p, t) \in WriteSet
  BY DEF SpWrite, WriteSet, SetpointWrites, Parkable, Presets

LEMMA HomeOutTracks ==
  ASSUME NEW e \in EntitySet, NEW m, Tracks(e, m)
  PROVE  HomeOut(e) \in Seq(WriteSet) /\ Leaves(HomeOut(e), "mode", m, {Home})
<1>1. Home \in Presets
  BY DEF Presets
<1> QED BY <1>1, TracksMode DEF HomeOut, Tracks

(* Each handler ends with the write that decides. *)
LEMMA PresetTracks ==
  ASSUME NEW e, Sound(e), NEW p \in Presets, NEW m
  PROVE  /\ Tracks(SetPresetMode(e, p), m) /\ SetPresetMode(e, p).room_mode = p
         /\ Leaves(SetPresetMode(e, p).out, "mode", m, {p})
         /\ \A now : p = Home /\ AtFrost(e, e.sp[Home]) =>
                       Leaves(SetPresetMode(e, p).out, Home, now, HeatTemps)
<1> DEFINE n == SetPresetMode(e, p)
           q == Append(e.out, ModeWrite(p))
           s == Append(q, SpWrite(Home, e.saved))
<1>1. e.saved \in HeatTemps /\ e.out \in Seq(WriteSet) /\ Home \in Presets
  BY SoundTyped, Fields DEF Presets, EntitySet
<1>2. n.room_mode = p /\ n.out = IF p = Home /\ AtFrost(e, e.sp[Home]) THEN s ELSE q
  BY SetPresetModeWrites
<1>3. q \in Seq(WriteSet) /\ Leaves(q, "mode", m, {p})
  BY <1>1, TracksMode
<1>4. /\ s \in Seq(WriteSet) /\ Leaves(s, "mode", m, {p})
      /\ \A now : Leaves(s, Home, now, {e.saved})
  <2> HIDE DEF q
  <2>1. SpWrite(Home, e.saved) \in WriteSet
    BY <1>1, WritesListed
  <2> QED BY <1>1, <1>3, <2>1, TracksSetpoint
<1> HIDE DEF n, s, q
<1>5. \A now : Leaves(s, Home, now, HeatTemps)
  <2>1. {e.saved} \subseteq HeatTemps
    BY <1>1
  <2> QED BY <1>4, <2>1, LeavesMore
<1>6. Leaves(n.out, "mode", m, {p}) /\ Tracks(n, m)
  BY <1>2, <1>3, <1>4 DEF Tracks
<1>7. \A now : p = Home /\ AtFrost(e, e.sp[Home]) => Leaves(n.out, Home, now, HeatTemps)
  BY <1>2, <1>5
<1> QED BY <1>2, <1>6, <1>7 DEF n

LEMMA HandlersTrack ==
  ASSUME NEW e, Sound(e), NEW m, Tracks(e, m)
  PROVE  /\ Tracks(SetOff(e), m) /\ SetOff(e).room_mode = Home
         /\ \A now : Leaves(SetOff(e).out, Home, now, {Lower})
         /\ Tracks(SetHeat(e), m) /\ SetHeat(e).room_mode = Home
         /\ \A now : Leaves(SetHeat(e).out, Home, now, HeatTemps)
         /\ \A t \in HeatTemps :
              /\ Tracks(SetTarget(e, t), m) /\ SetTarget(e, t).room_mode = e.room_mode
              /\ \A now : Leaves(SetTarget(e, t).out, e.room_mode, now, {t})
<1>1. /\ e \in EntitySet /\ e.saved \in HeatTemps /\ e.room_mode \in Presets
      /\ e.out \in Seq(WriteSet) /\ Home \in Presets
      /\ HomeOut(e) \in Seq(WriteSet) /\ Leaves(HomeOut(e), "mode", m, {Home})
  BY SoundTyped, Fields, HomeOutTracks DEF Tracks, Presets
<1>2. /\ Tracks(SetOff(e), m) /\ SetOff(e).room_mode = Home
      /\ \A now : Leaves(SetOff(e).out, Home, now, {Lower})
  <2> DEFINE n == SetOff(e)
  <2>1. n.room_mode = Home /\ n.out = Append(HomeOut(e), SpWrite(Home, Lower))
    BY SetOffWrites
  <2>2. SpWrite(Home, Lower) \in WriteSet
    BY WritesListed DEF Parkable
  <2> DEFINE q == HomeOut(e)
  <2> HIDE DEF n, q
  <2>3. n.out \in Seq(WriteSet) /\ Leaves(n.out, "mode", m, {Home})
        /\ \A now : Leaves(n.out, Home, now, {Lower})
    <3>1. n.out = Append(q, SpWrite(Home, Lower)) /\ q \in Seq(WriteSet)
          /\ Leaves(q, "mode", m, {Home})
      BY <1>1, <2>1 DEF q
    <3>2. /\ Append(q, SpWrite(Home, Lower)) \in Seq(WriteSet)
          /\ Leaves(Append(q, SpWrite(Home, Lower)), "mode", m, {Home})
          /\ \A now : Leaves(Append(q, SpWrite(Home, Lower)), Home, now, {Lower})
      BY <1>1, <2>2, <3>1, TracksSetpoint
    <3> QED BY <3>1, <3>2
  <2> QED BY <2>1, <2>3 DEF n, Tracks
<1>3. /\ Tracks(SetHeat(e), m) /\ SetHeat(e).room_mode = Home
      /\ \A now : Leaves(SetHeat(e).out, Home, now, HeatTemps)
  <2> DEFINE n == SetHeat(e)
  <2>1. n.room_mode = Home /\ n.out = Append(HomeOut(e), SpWrite(Home, e.saved))
    BY SetHeatWrites
  <2>2. SpWrite(Home, e.saved) \in WriteSet /\ {e.saved} \subseteq HeatTemps
    BY <1>1, WritesListed
  <2> DEFINE q == HomeOut(e)
             t == e.saved
  <2> HIDE DEF n, q, t
  <2>3. n.out \in Seq(WriteSet) /\ Leaves(n.out, "mode", m, {Home})
        /\ \A now : Leaves(n.out, Home, now, {t})
    <3>1. n.out = Append(q, SpWrite(Home, t)) /\ q \in Seq(WriteSet)
          /\ Leaves(q, "mode", m, {Home}) /\ SpWrite(Home, t) \in WriteSet
      BY <1>1, <2>1, <2>2 DEF q, t
    <3>2. /\ Append(q, SpWrite(Home, t)) \in Seq(WriteSet)
          /\ Leaves(Append(q, SpWrite(Home, t)), "mode", m, {Home})
          /\ \A now : Leaves(Append(q, SpWrite(Home, t)), Home, now, {t})
      BY <1>1, <3>1, TracksSetpoint
    <3> QED BY <3>1, <3>2
  <2>4. \A now : Leaves(n.out, Home, now, HeatTemps)
    <3>1. {t} \subseteq HeatTemps
      BY <2>2 DEF t
    <3> QED BY <2>3, <3>1, LeavesMore
  <2> QED BY <2>1, <2>3, <2>4 DEF n, Tracks
<1>4. ASSUME NEW t \in HeatTemps
      PROVE  /\ Tracks(SetTarget(e, t), m) /\ SetTarget(e, t).room_mode = e.room_mode
             /\ \A now : Leaves(SetTarget(e, t).out, e.room_mode, now, {t})
  <2> DEFINE n == SetTarget(e, t)
  <2>1. n.room_mode = e.room_mode /\ n.out = Append(e.out, SpWrite(e.room_mode, t))
    BY SetTargetWrites
  <2>2. SpWrite(e.room_mode, t) \in WriteSet
    BY <1>1, WritesListed
  <2> HIDE DEF n
  <2>3. n.out \in Seq(WriteSet) /\ Leaves(n.out, "mode", m, {e.room_mode})
        /\ \A now : Leaves(n.out, e.room_mode, now, {t})
    BY <1>1, <2>1, <2>2, TracksSetpoint DEF Tracks
  <2> QED BY <2>1, <2>3 DEF n, Tracks
<1> QED BY <1>2, <1>3, <1>4

LEMMA ControlTracks ==
  ASSUME NEW e, Sound(e), NEW call \in Calls, NEW r, call.preset # None \/ Tracks(e, r)
  PROVE  LET c == Control(e, call)
         IN  /\ Tracks(c, r) /\ (call.mode # None => c.room_mode = Home)
             /\ call.target # None =>
                  \A now : Leaves(c.out, c.room_mode, now, {call.target})
             /\ call.target = None /\ call.mode = "OFF" =>
                  \A now : Leaves(c.out, Home, now, {Lower})
             /\ call.target = None /\ call.mode = "HEAT" =>
                  \A now : Leaves(c.out, Home, now, HeatTemps)
             /\ call.target = None /\ call.mode = None =>
                  c = IF call.preset = None THEN e ELSE SetPresetMode(e, call.preset)
<1> DEFINE p == IF call.preset = None THEN e ELSE SetPresetMode(e, call.preset)
           m == CASE call.mode = "OFF" -> SetOff(p)
                  [] call.mode = "HEAT" -> SetHeat(p)
                  [] OTHER -> p
           c == IF call.target = None THEN m ELSE SetTarget(m, call.target)
<1>1. /\ call.preset \in Presets \cup {None} /\ call.target \in HeatTemps \cup {None}
      /\ call.mode \in {None, "OFF", "HEAT"} /\ None # "OFF" /\ None # "HEAT"
  BY CallsAssumption, NamesAssumption
<1>2. Control(e, call) = c
  BY DEF Control
<1>3. call.preset = None => Tracks(e, r)
  OBVIOUS
<1>4. Sound(p) /\ Tracks(p, r)
  BY <1>1, <1>3, SetPresetModeSound, PresetTracks
<1>5. call.mode = None => m = p
  BY <1>1
<1>6. call.mode = "OFF" => m = SetOff(p)
  OBVIOUS
<1>7. call.mode = "HEAT" => m = SetHeat(p)
  OBVIOUS
<1>8. call.target = None /\ call.mode = None =>
        c = IF call.preset = None THEN e ELSE SetPresetMode(e, call.preset)
  BY <1>5
<1>15. call.target = None => c = m
  OBVIOUS
<1>16. call.target # None => c = SetTarget(m, call.target)
  OBVIOUS
<1> HIDE DEF p, m, c
<1>9. Sound(m) /\ Tracks(m, r)
  BY <1>1, <1>4, <1>5, <1>6, <1>7, SetOffSound, SetHeatSound, HandlersTrack
<1>10. call.mode = "OFF" => m.room_mode = Home /\ \A now : Leaves(m.out, Home, now, {Lower})
  BY <1>4, <1>6, HandlersTrack
<1>11. call.mode = "HEAT" =>
         m.room_mode = Home /\ \A now : Leaves(m.out, Home, now, HeatTemps)
  BY <1>4, <1>7, HandlersTrack
<1>12. call.target # None =>
         /\ Tracks(c, r) /\ c.room_mode = m.room_mode
         /\ \A now : Leaves(c.out, c.room_mode, now, {call.target})
  <2> SUFFICES ASSUME call.target # None
               PROVE  /\ Tracks(c, r) /\ c.room_mode = m.room_mode
                      /\ \A now : Leaves(c.out, c.room_mode, now, {call.target})
    OBVIOUS
  <2> DEFINE t == call.target
  <2>1. c = SetTarget(m, t) /\ t \in HeatTemps
    BY <1>1, <1>16
  <2> HIDE DEF t
  <2>2. /\ Tracks(SetTarget(m, t), r) /\ SetTarget(m, t).room_mode = m.room_mode
        /\ \A now : Leaves(SetTarget(m, t).out, m.room_mode, now, {t})
    BY <1>9, <2>1, HandlersTrack
  <2>3. Tracks(c, r) /\ c.room_mode = m.room_mode
        /\ \A now : Leaves(c.out, c.room_mode, now, {t})
    BY <2>1, <2>2
  <2> QED BY <2>3 DEF t
<1>13. Tracks(c, r) /\ (call.mode # None => c.room_mode = Home)
  BY <1>1, <1>9, <1>10, <1>11, <1>12, <1>15
<1>14. /\ call.target = None /\ call.mode = "OFF" =>
            \A now : Leaves(c.out, Home, now, {Lower})
       /\ call.target = None /\ call.mode = "HEAT" =>
            \A now : Leaves(c.out, Home, now, HeatTemps)
  BY <1>10, <1>11, <1>15
<1> QED BY <1>2, <1>8, <1>12, <1>13, <1>14

(* Home chosen leaves a heating Home as it is. *)
LEMMA HomeHeats ==
  ASSUME NEW e, Sound(e), e.out = <<>>, NEW t \in HeatTemps
  PROVE  Leaves(SetPresetMode(e, Home).out, Home, t, HeatTemps)
<1>1. Home \in Presets
  BY DEF Presets
<1>2. CASE AtFrost(e, e.sp[Home])
  BY <1>1, <1>2, PresetTracks
<1>3. CASE ~AtFrost(e, e.sp[Home])
  <2>1. SetPresetMode(e, Home).out = Append(<<>>, ModeWrite(Home))
    BY <1>1, <1>3, SetPresetModeWrites
  <2>2. Leaves(<<>>, Home, t, HeatTemps) /\ <<>> \in Seq(WriteSet)
    BY LeavesNothing
  <2> QED BY <1>1, <2>1, <2>2, TracksMode
<1> QED BY <1>2, <1>3

-----------------------------------------------------------------------------
(* Every step keeps what was promised. *)

Attrs == Presets \cup {"mode"}

LEMMA PromiseKept ==
  ASSUME WishInv, wish' = wish, \A a \in Attrs : \A V : Ends(a, V) => Ends(a, V)'
  PROVE  WishInv'
<1> DEFINE w == wish
<1>1. Home \in Attrs /\ "mode" \in Attrs /\ Presets \subseteq Attrs
  BY DEF Attrs, Presets
<1>2. w.kind \in {None, "OFF", "HEAT", "preset", "target"}
  BY DEF WishInv, Promised
<1>3. w.kind = "OFF" => Ends("mode", {Home})' /\ Ends(Home, {Lower})'
  BY <1>1 DEF WishInv, Promised
<1>4. w.kind = "HEAT" => Ends("mode", {Home})' /\ Ends(Home, HeatTemps)'
  BY <1>1 DEF WishInv, Promised
<1>5. ASSUME w.kind = "preset"
      PROVE  /\ wish'.preset \in Presets
             /\ Ends("mode", {wish.preset})' /\ Ends(wish.preset, HeatTemps)'
  <2>1. w.preset \in Presets /\ Ends("mode", {w.preset}) /\ Ends(w.preset, HeatTemps)
    BY <1>5 DEF WishInv, Promised
  <2>2. PICK p \in Presets : p = w.preset
    BY <2>1
  <2>3. Ends("mode", {p})' /\ Ends(p, HeatTemps)'
    BY <1>1, <2>1, <2>2
  <2> QED BY <2>2, <2>3
<1>6. ASSUME w.kind = "target"
      PROVE  /\ wish'.preset \in Presets
             /\ Ends("mode", {wish.preset})' /\ Ends(wish.preset, {wish.value})'
  <2>1. /\ w.preset \in Presets
        /\ Ends("mode", {w.preset}) /\ Ends(w.preset, {w.value})
    BY <1>6 DEF WishInv, Promised
  <2>2. PICK p \in Presets, v \in {w.value} : p = w.preset
    BY <2>1
  <2>3. Ends("mode", {p})' /\ Ends(p, {v})'
    BY <1>1, <2>1, <2>2
  <2> QED BY <2>2, <2>3
<1> QED BY <1>2, <1>3, <1>4, <1>5, <1>6 DEF WishInv, Promised

LEMMA NoWish == ASSUME wish' = [kind |-> None] PROVE WishInv'
  BY NamesAssumption DEF WishInv, Promised

LEMMA WishSendWrite == ClimateInv /\ WishInv /\ SendWrite => WishInv'
<1> SUFFICES ASSUME ClimateInv, WishInv, SendWrite PROVE WishInv'
  OBVIOUS
<1>1. /\ op = NoOp /\ queue # <<>> /\ queue \in Seq(WriteSet) /\ queue' = Tail(queue)
      /\ op' = [kind |-> "write", stage |-> "sent", write |-> Head(queue), ok |-> FALSE]
      /\ room' = room /\ wish' = wish
  BY DEF SendWrite, ClimateInv
<1>2. ASSUME NEW a \in Attrs, NEW V, Ends(a, V) PROVE Ends(a, V)'
  <2>1. AfterSent(a) = InRoom(a) /\ InRoom(a)' = InRoom(a)
    BY <1>1 DEF AfterSent, NoOp, InRoom
  <2>2. AfterSent(a)' = IF Head(queue).attr = a THEN Head(queue).value ELSE InRoom(a)
    BY <1>1, <2>1 DEF AfterSent
  <2>3. Leaves(queue, a, InRoom(a), V)
    BY <1>2, <2>1 DEF Ends
  <2>4. Leaves(Tail(queue), a, IF Head(queue).attr = a THEN Head(queue).value ELSE InRoom(a), V)
    BY <1>1, <2>3, LeavesTail
  <2> QED BY <1>1, <2>2, <2>4 DEF Ends
<1> QED BY <1>1, <1>2, PromiseKept

LEMMA WishServe == ClimateInv /\ WishInv /\ Serve => WishInv'
<1> SUFFICES ASSUME ClimateInv, WishInv, Serve PROVE WishInv'
  OBVIOUS
<1>1. /\ op \in OpSet /\ op # NoOp /\ op.stage = "sent" /\ room \in RoomSet
      /\ UNCHANGED <<queue, wish>>
  BY DEF ClimateInv, Serve
<1>2. ASSUME NEW a \in Attrs PROVE AfterSent(a)' = AfterSent(a)
  <2>1. CASE op.kind = "write"
    <3> DEFINE w == op.write
    <3>1. op \in [kind : {"write"}, stage : {"sent", "served"}, write : WriteSet, ok : BOOLEAN]
          /\ w \in WriteSet
      BY <1>1, <2>1, OpFields
    <3>2. op' = [op EXCEPT !.stage = "served", !.ok = Acceptable(w)]
      BY <2>1 DEF Serve
    <3>3. AfterSent(a)' = InRoom(a)'
      BY <3>1, <3>2 DEF AfterSent
    <3>4. AfterSent(a) = IF w.attr = a THEN w.value ELSE InRoom(a)
      BY <1>1, <2>1 DEF AfterSent
    <3>5. Acceptable(w)
      <4>1. CASE w.attr = "mode"
        BY <4>1 DEF Acceptable
      <4>2. CASE w.attr # "mode"
        <5>1. w.value \in Parkable /\ room.lo = Lower /\ room.hi = Upper
          BY <1>1, <3>1, <4>2, WriteFields, RoomFields
        <5>2. CASE w.value \in HeatTemps
          <6>1. w.value \in Nat /\ Lower < w.value /\ w.value <= Upper /\ Lower \in Nat
            BY <5>2, Temperatures
          <6> QED BY <5>1, <6>1 DEF Acceptable
        <5>3. CASE w.value = Lower
          BY <5>1, <5>3, BoundsOrdered DEF Acceptable
        <5> QED BY <5>1, <5>2, <5>3 DEF Parkable
      <4> QED BY <4>1, <4>2
    <3>6. room' = IF w.attr = "mode" THEN [room EXCEPT !.mode = w.value]
                  ELSE [room EXCEPT !.sp[w.attr] = w.value]
      BY <2>1, <3>5 DEF Serve
    <3>7. w.attr \in Presets \cup {"mode"} /\ "mode" \notin Presets
      BY <3>1, WriteFields, NamesAssumption
    <3> HIDE DEF w
    <3>8. InRoom(a)' = IF w.attr = a THEN w.value ELSE InRoom(a)
      BY <1>1, <3>6, <3>7 DEF InRoom, RoomSet, Attrs
    <3> QED BY <3>3, <3>4, <3>8
  <2>2. CASE op.kind # "write"
    <3>1. op'.kind = op.kind /\ room' = room
      BY <2>2 DEF Serve
    <3> QED BY <2>2, <3>1 DEF AfterSent, InRoom
  <2> QED BY <2>1, <2>2
<1>3. ASSUME NEW a \in Attrs, NEW V, Ends(a, V) PROVE Ends(a, V)'
  BY <1>1, <1>2, <1>3 DEF Ends
<1> QED BY <1>1, <1>3, PromiseKept

(* A reply or a poll makes the entity queue nothing. *)
LEMMA WishDeliver == ClimateInv /\ WishInv /\ Deliver => WishInv'
<1> SUFFICES ASSUME ClimateInv, WishInv, Deliver PROVE WishInv'
  OBVIOUS
<1>1. /\ op \in OpSet /\ op # NoOp /\ op.stage = "served" /\ op' = NoOp /\ room' = room
      /\ Sound(entity) /\ entity.out = <<>> /\ queue \in Seq(WriteSet)
      /\ wish' = [kind |-> None] \/ wish' = wish
  BY DEF ClimateInv, Deliver
<1>2. \E e : e.out = <<>> /\ Becomes(e)
  <2>1. CASE op.kind = "write"
    <3>1. op.write \in WriteSet
      BY <1>1, <2>1, OpFields
    <3>2. OnAttr(entity, op.write.attr, op.write.value).out = <<>>
      BY <1>1, <3>1, OnAttrSound
    <3>3. Becomes(IF op.ok THEN OnAttr(entity, op.write.attr, op.write.value) ELSE entity)
      BY <2>1 DEF Deliver
    <3> QED BY <1>1, <3>2, <3>3
  <2>2. CASE op.kind = "fast"
    <3>1. op.values \in RoomSet
      BY <1>1, <2>2, OpFields
    <3>2. Becomes(OnFastPoll(entity, op.values))
      BY <2>2 DEF Deliver
    <3> QED BY <1>1, <3>1, <3>2, PollsSound
  <2>3. CASE op.kind = "slow"
    <3>1. op.values \in RoomSet
      BY <1>1, <2>3, OpFields
    <3>2. Becomes(OnSlowPoll(entity, op.values))
      BY <2>3 DEF Deliver
    <3> QED BY <1>1, <3>1, <3>2, PollsSound
  <2> QED BY <1>1, <2>1, <2>2, <2>3, OpFields
<1>3. queue' = queue
  BY <1>1, <1>2, ConcatEmptySeq DEF Becomes
<1>4. ASSUME NEW a \in Attrs, NEW V, Ends(a, V) PROVE Ends(a, V)'
  <2>1. AfterSent(a) = InRoom(a) /\ AfterSent(a)' = InRoom(a)
    BY <1>1 DEF AfterSent, NoOp, InRoom
  <2> QED BY <1>3, <1>4, <2>1 DEF Ends
<1> QED BY <1>1, <1>4, PromiseKept, NoWish

(* What a call queues comes after all that is on its way. *)
LEMMA CallQueues ==
  ASSUME ClimateInv, NEW call \in Calls, Call(call)
  PROVE  LET c == Control(entity, call)
         IN  /\ Sound(c) /\ c.out \in Seq(WriteSet) /\ c.room_mode \in Presets
             /\ queue' = queue \o c.out /\ queue' \in Seq(WriteSet)
             /\ \A a : AfterSent(a)' = AfterSent(a)
             /\ \A a, V : Ends(a, V)' <=> Leaves(queue \o c.out, a, AfterSent(a), V)
<1> DEFINE c == Control(entity, call)
<1>1. Sound(c)
  BY ControlSound DEF ClimateInv
<1>2. Becomes(c) /\ op' = op /\ room' = room
  BY DEF Call
<1> HIDE DEF c
<1>3. c.out \in Seq(WriteSet) /\ c.room_mode \in Presets
  BY <1>1, SoundTyped DEF EntitySet
<1>4. queue' = queue \o c.out /\ queue' \in Seq(WriteSet)
  BY <1>2, <1>3, ConcatProperties DEF Becomes, ClimateInv
<1>5. \A a : AfterSent(a)' = AfterSent(a)
  BY <1>2 DEF AfterSent, InRoom
<1>6. \A a, V : Ends(a, V)' <=> Leaves(queue \o c.out, a, AfterSent(a), V)
  BY <1>4, <1>5 DEF Ends
<1> QED BY <1>1, <1>3, <1>4, <1>5, <1>6 DEF c

(* The room ends in the preset the entity shows.  Where no preset is       *)
(* written, the entity was right about the one that will be active.        *)
LEMMA ModeEnds ==
  ASSUME ClimateInv, NEW call \in Calls, Call(call), Informed(call),
         NEW p \in Presets, p = Control(entity, call).room_mode
  PROVE  Ends("mode", {p})'
<1> DEFINE c == Control(entity, call)
           r == entity.room_mode
<1>1. /\ Sound(entity) /\ queue \in Seq(WriteSet) /\ c.out \in Seq(WriteSet)
      /\ \A V : Ends("mode", V)' <=> Leaves(queue \o c.out, "mode", AfterSent("mode"), V)
  BY CallQueues DEF ClimateInv
<1>2. Tracks(entity, r)
  <2>1. <<>> \in Seq(WriteSet) /\ entity.out = <<>> /\ r \in {r}
    BY DEF ClimateInv
  <2> QED BY <2>1, LeavesNothing DEF Tracks
<1>3. CASE call.preset # None
  <2>1. Tracks(c, "mode") /\ "mode" \notin {p}
    BY <1>1, <1>3, ControlTracks, NamesAssumption
  <2>2. Leaves(queue \o c.out, "mode", AfterSent("mode"), {p})
    BY <1>1, <2>1, LeavesLast DEF Tracks
  <2> QED BY <1>1, <2>2
<1>4. CASE call.mode # None /\ r # Home
  <2>1. Tracks(c, r) /\ p = Home /\ r \notin {p}
    BY <1>1, <1>2, <1>4, ControlTracks
  <2>2. Leaves(queue \o c.out, "mode", AfterSent("mode"), {p})
    BY <1>1, <2>1, LeavesLast DEF Tracks
  <2> QED BY <1>1, <2>2
<1>5. CASE Ends("mode", {r})
  <2>1. Tracks(c, r)
    BY <1>1, <1>2, ControlTracks
  <2>2. Leaves(queue, "mode", AfterSent("mode"), {r})
    BY <1>5 DEF Ends
  <2>3. Leaves(queue \o c.out, "mode", AfterSent("mode"), {p})
    BY <1>1, <2>1, <2>2, LeavesOver DEF Tracks
  <2> QED BY <1>1, <2>3
<1> QED BY <1>3, <1>4, <1>5 DEF Informed

(* Away and Sleep end heating whatever is written, and so does Home where  *)
(* it heats already or is brought back.                                    *)
LEMMA PresetHeats ==
  ASSUME ClimateInv, NEW call \in Calls, Call(call), Informed(call),
         NEW p \in Presets, p = call.preset, p # None, call.mode = None, call.target = None
  PROVE  Control(entity, call).room_mode = p /\ Ends(p, HeatTemps)'
<1> DEFINE c == Control(entity, call)
<1>1. call.preset # None
  OBVIOUS
<1>2. /\ Sound(entity) /\ entity.out = <<>> /\ queue \in Seq(WriteSet) /\ room \in RoomSet
      /\ op \in OpSet
  BY DEF ClimateInv
<1>3. c = SetPresetMode(entity, p) /\ c.room_mode = p
  BY <1>1, <1>2, ControlTracks, PresetTracks
<1>4. /\ c.out \in Seq(WriteSet) /\ queue \o c.out \in Seq(WriteSet)
      /\ \A a, V : Ends(a, V)' <=> Leaves(queue \o c.out, a, AfterSent(a), V)
  BY CallQueues
<1> HIDE DEF c
<1>5. CASE p # Home
  <2>1. p \in {Away, Sleep} /\ p # "mode"
    BY <1>1, <1>5, NamesAssumption DEF Presets
  <2>2. AfterSent(p) \in HeatTemps
    <3>1. room.sp[p] \in HeatTemps
      BY <1>2, <2>1 DEF RoomSet
    <3>2. op.kind = "write" => op.write \in WriteSet
      <4>1. CASE op = NoOp
        BY <4>1 DEF NoOp
      <4> QED BY <1>2, <4>1, OpFields
    <3>3. op.kind = "write" /\ op.write.attr = p => op.write.value \in HeatTemps
      BY <2>1, <3>2, WriteFields
    <3> QED BY <2>1, <3>1, <3>3 DEF AfterSent, InRoom
  <2> DEFINE s == queue \o c.out
  <2>3. s \in Seq(WriteSet)
    BY <1>4
  <2> HIDE DEF s
  <2>4. \A i \in DOMAIN s : s[i].attr = p => s[i].value \in HeatTemps
    <3>1. \A i \in DOMAIN s : s[i] \in WriteSet
      BY <2>3, ElementOfSeq, LenProperties
    <3> QED BY <2>1, <3>1, WriteFields
  <2>5. Leaves(s, p, AfterSent(p), HeatTemps)
    BY <2>2, <2>3, <2>4, LeavesAll
  <2> QED BY <1>3, <1>4, <2>5 DEF s, c
<1>6. CASE p = Home /\ Ends(Home, HeatTemps)
  <2>1. Leaves(queue, Home, AfterSent(Home), HeatTemps)
    BY <1>6 DEF Ends
  <2>2. PICK t : t \in HeatTemps
    BY <2>1 DEF Leaves
  <2>3. Leaves(c.out, Home, t, HeatTemps)
    BY <1>2, <1>3, <1>6, <2>2, HomeHeats
  <2>4. Leaves(queue \o c.out, Home, AfterSent(Home), HeatTemps)
    BY <1>2, <1>4, <2>1, <2>3, LeavesConcat
  <2> QED BY <1>3, <1>4, <1>6, <2>4 DEF c
<1>7. CASE p = Home /\ ShownParked
  <2>1. \A now : Leaves(c.out, Home, now, HeatTemps)
    BY <1>1, <1>2, <1>3, <1>7, PresetTracks DEF ShownParked
  <2>2. NaN \notin HeatTemps
    BY Temperatures DEF Parkable
  <2>3. Leaves(queue \o c.out, Home, AfterSent(Home), HeatTemps)
    BY <1>2, <1>4, <2>1, <2>2, LeavesLast
  <2> QED BY <1>3, <1>4, <1>7, <2>3 DEF c
<1>8. p = Home => Ends(Home, HeatTemps) \/ ShownParked
  BY DEF Informed
<1> QED BY <1>5, <1>6, <1>7, <1>8 DEF c

(* A call that is not misled decides what the room will be. *)
LEMMA WishCall ==
  ASSUME OnlyInformed = TRUE, ClimateInv, WishInv, NEW call \in Calls, Call(call)
  PROVE  WishInv'
<1> DEFINE c == Control(entity, call)
<1>1. CASE ~Informed(call)
  <2>1. wish' = [kind |-> None]
    BY <1>1 DEF Call
  <2> QED BY <2>1, NoWish
<1>2. CASE Informed(call)
  <2>1. /\ Sound(entity) /\ entity.out = <<>> /\ queue \in Seq(WriteSet)
        /\ wish' = Wish(call) /\ Home \in Presets
    BY <1>2 DEF ClimateInv, Call, Presets
  <2>2. /\ c.out \in Seq(WriteSet) /\ c.room_mode \in Presets
        /\ queue' = queue \o c.out /\ \A a : AfterSent(a)' = AfterSent(a)
        /\ \A a, V : Ends(a, V)' <=> Leaves(queue \o c.out, a, AfterSent(a), V)
    BY CallQueues
  <2>3. \A p \in Presets : p = c.room_mode => Ends("mode", {p})'
    BY <1>2, ModeEnds
  <2>4. /\ call.mode # None => c.room_mode = Home
        /\ call.target # None =>
             \A now : Leaves(c.out, c.room_mode, now, {call.target})
        /\ call.target = None /\ call.mode = "OFF" =>
             \A now : Leaves(c.out, Home, now, {Lower})
        /\ call.target = None /\ call.mode = "HEAT" =>
             \A now : Leaves(c.out, Home, now, HeatTemps)
        /\ call.target = None /\ call.mode = None /\ call.preset = None => c = entity
    <3>1. Tracks(entity, entity.room_mode)
      BY <2>1, LeavesNothing DEF Tracks
    <3> QED BY <2>1, <3>1, ControlTracks
  <2>5. /\ call.preset \in Presets \cup {None} /\ call.target \in HeatTemps \cup {None}
        /\ call.mode \in {None, "OFF", "HEAT"}
        /\ None \notin {"OFF", "HEAT", "preset", "target"}
    BY CallsAssumption, NamesAssumption
  <2>6. NaN \notin HeatTemps /\ NaN # Lower
    BY Temperatures DEF Parkable
  <2>7. CASE call.target # None
    <3>1. call.target \in HeatTemps /\ Clamp(entity, call.target) = call.target
      BY <2>1, <2>5, <2>7, SoundTyped, Temperatures
    <3>2. wish' = [kind |-> "target", preset |-> c.room_mode, value |-> call.target]
      BY <2>1, <2>7, <3>1 DEF Wish
    <3> HIDE DEF c
    <3>3. PICK p \in Presets, v \in HeatTemps : p = c.room_mode /\ v = call.target
      BY <2>2, <3>1
    <3>4. Ends(p, {v})'
      <4>1. Leaves(c.out, p, NaN, {v}) /\ NaN \notin {v}
        BY <2>4, <2>6, <2>7, <3>3
      <4>2. Leaves(queue \o c.out, p, AfterSent(p), {v})
        BY <2>1, <2>2, <4>1, LeavesLast
      <4> QED BY <2>2, <4>2
    <3>5. Ends("mode", {p})'
      BY <2>3, <3>3
    <3>6. wish'.kind = "target" /\ wish'.preset = p /\ wish'.value = v
      BY <3>2, <3>3
    <3>7. Ends("mode", {wish.preset})' /\ Ends(wish.preset, {wish.value})'
      BY <3>4, <3>5, <3>6 DEF Ends, AfterSent, InRoom
    <3> QED BY <2>5, <3>6, <3>7 DEF WishInv, Promised
  <2>8. CASE call.target = None /\ call.mode = "OFF"
    <3>1. wish' = [kind |-> "OFF"]
      BY <2>1, <2>5, <2>8 DEF Wish
    <3>2. Ends("mode", {Home})'
      BY <2>1, <2>3, <2>4, <2>5, <2>8
    <3>3. Leaves(queue \o c.out, Home, AfterSent(Home), {Lower})
      <4>1. Leaves(c.out, Home, NaN, {Lower}) /\ NaN \notin {Lower}
        BY <2>4, <2>6, <2>8
      <4> QED BY <2>1, <2>2, <4>1, LeavesLast
    <3>4. Ends(Home, {Lower})'
      BY <2>2, <3>3
    <3> QED BY <2>5, <3>1, <3>2, <3>4 DEF WishInv, Promised
  <2>9. CASE call.target = None /\ call.mode = "HEAT"
    <3>1. wish' = [kind |-> "HEAT"]
      BY <2>1, <2>5, <2>9 DEF Wish
    <3>2. Ends("mode", {Home})'
      BY <2>1, <2>3, <2>4, <2>5, <2>9
    <3>3. Leaves(queue \o c.out, Home, AfterSent(Home), HeatTemps)
      <4>1. Leaves(c.out, Home, NaN, HeatTemps) /\ NaN \notin HeatTemps
        BY <2>4, <2>6, <2>9
      <4> QED BY <2>1, <2>2, <4>1, LeavesLast
    <3>4. Ends(Home, HeatTemps)'
      BY <2>2, <3>3
    <3> QED BY <2>5, <3>1, <3>2, <3>4 DEF WishInv, Promised
  <2>10. CASE call.target = None /\ call.mode = None /\ call.preset # None
    <3>1. PICK p \in Presets : p = call.preset
      BY <2>5, <2>10
    <3>2. wish' = [kind |-> "preset", preset |-> p]
      BY <2>1, <2>5, <2>10, <3>1 DEF Wish
    <3>3. c.room_mode = p /\ Ends(p, HeatTemps)'
      BY <1>2, <2>10, <3>1, PresetHeats
    <3>4. Ends("mode", {p})'
      BY <2>3, <3>3
    <3>5. wish'.kind = "preset" /\ wish'.preset = p
      BY <3>2
    <3>6. Ends("mode", {wish.preset})' /\ Ends(wish.preset, HeatTemps)'
      BY <3>3, <3>4, <3>5 DEF Ends, AfterSent, InRoom
    <3> QED BY <2>5, <3>5, <3>6 DEF WishInv, Promised
  <2>11. CASE call.target = None /\ call.mode = None /\ call.preset = None
    <3>1. wish' = wish /\ c.out = <<>>
      BY <2>1, <2>4, <2>5, <2>11 DEF Wish
    <3>2. queue' = queue
      BY <2>1, <2>2, <3>1, ConcatEmptySeq
    <3>3. ASSUME NEW a \in Attrs, NEW V, Ends(a, V) PROVE Ends(a, V)'
      BY <2>2, <3>2, <3>3 DEF Ends
    <3> QED BY <3>1, <3>3, PromiseKept
  <2> QED BY <2>5, <2>7, <2>8, <2>9, <2>10, <2>11
<1> QED BY <1>1, <1>2

LEMMA WishStep ==
  ASSUME OnlyInformed = TRUE, ClimateInv, WishInv, [Next]_vars PROVE WishInv'
<1>1. ASSUME NEW call \in Calls, Call(call) PROVE WishInv'
  BY <1>1, WishCall
<1>2. CASE SendPoll("fast") \/ SendPoll("slow")
  <2>1. /\ op = NoOp /\ op'.kind \in {"fast", "slow"}
        /\ UNCHANGED <<queue, room, wish>>
    BY <1>2 DEF SendPoll
  <2>2. ASSUME NEW a \in Attrs, NEW V, Ends(a, V) PROVE Ends(a, V)'
    <3>1. AfterSent(a)' = AfterSent(a)
      BY <2>1 DEF AfterSent, InRoom, NoOp
    <3> QED BY <2>1, <2>2, <3>1 DEF Ends
  <2> QED BY <2>1, <2>2, PromiseKept
<1>3. CASE TimeOut
  <2>1. CASE op.kind = "write"
    BY <1>3, <2>1, NoWish DEF TimeOut
  <2>2. CASE op.kind # "write"
    <3>1. op' = NoOp /\ UNCHANGED <<queue, room, wish>>
      BY <1>3, <2>2 DEF TimeOut
    <3>2. ASSUME NEW a \in Attrs, NEW V, Ends(a, V) PROVE Ends(a, V)'
      <4>1. AfterSent(a)' = AfterSent(a)
        BY <2>2, <3>1 DEF AfterSent, InRoom, NoOp
      <4> QED BY <3>1, <3>2, <4>1 DEF Ends
    <3> QED BY <3>1, <3>2, PromiseKept
  <2> QED BY <2>1, <2>2
<1>4. CASE Edit
  BY <1>4, NoWish DEF Edit
<1>5. CASE Reboot
  <2>1. CASE queue # <<>> \/ op.kind = "write"
    BY <1>5, <2>1, NoWish DEF Reboot
  <2>2. CASE ~(queue # <<>> \/ op.kind = "write")
    <3>1. queue' = queue /\ op' = NoOp /\ UNCHANGED <<room, wish>>
      BY <1>5, <2>2 DEF Reboot
    <3>2. ASSUME NEW a \in Attrs, NEW V, Ends(a, V) PROVE Ends(a, V)'
      <4>1. AfterSent(a)' = AfterSent(a)
        BY <2>2, <3>1 DEF AfterSent, InRoom, NoOp
      <4> QED BY <3>1, <3>2, <4>1 DEF Ends
    <3> QED BY <3>1, <3>2, PromiseKept
  <2> QED BY <2>1, <2>2
<1>6. CASE CommitFlash \/ UNCHANGED vars
  <2>1. UNCHANGED <<queue, op, room, wish>>
    BY <1>6 DEF CommitFlash, vars
  <2>2. ASSUME NEW a \in Attrs, NEW V, Ends(a, V) PROVE Ends(a, V)'
    BY <2>1, <2>2 DEF Ends, AfterSent, InRoom
  <2> QED BY <2>1, <2>2, PromiseKept
<1> QED BY <1>1, <1>2, <1>3, <1>4, <1>5, <1>6, WishSendWrite, WishServe, WishDeliver DEF Next

(* Once the writes of a call have been carried out the room is as the call *)
(* asked: OFF is off, HEAT and Home heat, a preset is active, a target is  *)
(* set (control(), set_off_, set_heat_, set_preset_mode_, set_target_).    *)
(* Calls count whatever is queued, in flight or not polled yet, as long as *)
(* the entity is right about what the call relies on (Informed).           *)
THEOREM CallsAreGranted == ASSUME OnlyInformed = TRUE PROVE Spec => []LastCallWins
<1>1. Init => WishInv
  BY NamesAssumption DEF Init, WishInv, Promised
<1>2. ClimateInv /\ WishInv /\ [Next]_vars => WishInv'
  BY WishStep
<1>3. ClimateInv /\ WishInv => LastCallWins
  <2> SUFFICES ASSUME ClimateInv, WishInv, queue = <<>>, op.kind # "write"
               PROVE  Granted(wish)
    BY DEF LastCallWins
  <2>1. room \in RoomSet /\ room.lo = Lower /\ Home \in Presets
    BY RoomFields DEF ClimateInv, Presets
  <2>2. \A V : Ends("mode", V) <=> room.mode \in V
    BY LeavesNothing DEF Ends, AfterSent, InRoom
  <2>3. \A p \in Presets : \A V : Ends(p, V) <=> room.sp[p] \in V
    BY LeavesNothing, NamesAssumption DEF Ends, AfterSent, InRoom
  <2>4. Frosty(Lower) /\ \A t \in HeatTemps : ~Frosty(t)
    <3>1. ASSUME NEW t \in HeatTemps PROVE ~Frosty(t)
      <4>1. t \in Nat /\ Lower \in Nat /\ Lower + 5 < t
        BY Temperatures
      <4> QED BY <2>1, <4>1 DEF Frosty
    <3> QED BY <2>1, <3>1, BoundsOrdered DEF Frosty
  <2>5. wish.kind = "OFF" => room.mode = Home /\ Frosty(room.sp[Home])
    BY <2>1, <2>2, <2>3, <2>4 DEF WishInv, Promised
  <2>6. wish.kind = "HEAT" => room.mode = Home /\ ~Frosty(room.sp[Home])
    BY <2>1, <2>2, <2>3, <2>4 DEF WishInv, Promised
  <2>7. wish.kind = "preset" => room.mode = wish.preset /\ ~Frosty(room.sp[wish.preset])
    BY <2>2, <2>3, <2>4 DEF WishInv, Promised
  <2>8. wish.kind = "target" => room.mode = wish.preset /\ room.sp[wish.preset] = wish.value
    BY <2>2, <2>3 DEF WishInv, Promised
  <2>9. wish.kind \in {None, "OFF", "HEAT", "preset", "target"}
    BY DEF WishInv, Promised
  <2> QED BY <2>5, <2>6, <2>7, <2>8, <2>9, NamesAssumption DEF Granted
<1> QED BY <1>1, <1>2, <1>3, ClimateInvariant, PTL DEF Spec
=============================================================================
