-------------------------- MODULE ModeSelectProofs --------------------------
(***************************************************************************)
(* When what "All Rooms Mode" shows is what the entities then agree on,    *)
(* and that a choice made on up-to-date entities reaches every room, for   *)
(* any number of rooms, choices, edits, losses and restarts and every      *)
(* order of the polls.                                                     *)
(***************************************************************************)
EXTENDS SelectInv, DataLemmas

-----------------------------------------------------------------------------
(* Temperatures: the frost floor is the only one that is not heating.      *)
LEMMA Temperatures ==
  /\ Floor \in Nat /\ HeatTemp \in Nat /\ Floor # HeatTemp /\ NaN \notin Settable
  /\ \A e \in EntitySet : AtFrost(e, Floor) /\ ~AtFrost(e, HeatTemp) /\ ~AtFrost(e, NaN)
  /\ \A e \in EntitySet, t \in Settable : Raw(Clamp(e, t)) = t
<1>1. /\ Floor \in Nat /\ HeatTemp \in Nat /\ Ceiling \in Nat /\ Floor + 5 < HeatTemp
      /\ HeatTemp <= Ceiling /\ NaN # Floor /\ NaN # HeatTemp
  BY SelectAssumption, NamesAssumption
<1>2. \A e \in EntitySet : e.lo = Floor /\ e.hi = Ceiling
  BY DEF EntitySet
<1>3. Floor # HeatTemp /\ NaN \notin Settable
  BY <1>1 DEF Settable
<1>4. ASSUME NEW e \in EntitySet
      PROVE  AtFrost(e, Floor) /\ ~AtFrost(e, HeatTemp) /\ ~AtFrost(e, NaN)
  BY <1>1, <1>2 DEF AtFrost
<1>5. ASSUME NEW e \in EntitySet, NEW t \in Settable PROVE Raw(Clamp(e, t)) = t
  <2>1. CASE t = Floor
    BY <1>1, <1>2, <2>1 DEF Clamp, Raw
  <2>2. CASE t = HeatTemp
    BY <1>1, <1>2, <2>2 DEF Clamp, Raw
  <2> QED BY <2>1, <2>2 DEF Settable
<1> QED BY <1>1, <1>3, <1>4, <1>5

(* What publishing leaves alone. *)
SameFront(e, n) ==
  /\ n.room_mode = e.room_mode /\ n.mode = e.mode /\ n.target = e.target
  /\ n.sp = e.sp /\ n.out = e.out

LEMMA PublishKeeps ==
  ASSUME NEW e \in EntitySet
  PROVE  PublishIfChanged(e) \in EntitySet /\ SameFront(e, PublishIfChanged(e))
<1>1. CASE e.published /\ Visible(e) = e.last
  BY <1>1 DEF PublishIfChanged, SameFront
<1>2. CASE ~(e.published /\ Visible(e) = e.last)
  <2> DEFINE m == IF e.target = e.last.target THEN e.mirror ELSE e.target
             n == [e EXCEPT !.published = TRUE, !.last = Visible(e), !.mirror = m]
  <2>1. PublishIfChanged(e) = n
    BY <1>2 DEF PublishIfChanged
  <2>2. Visible(e) \in [mode : {"OFF", "HEAT"}, preset : Presets \cup {None}, target : Readable]
    BY DEF EntitySet, Visible
  <2>3. m \in Readable
    BY DEF EntitySet
  <2> HIDE DEF m
  <2>4. n \in EntitySet
    BY <2>2, <2>3 DEF EntitySet
  <2>5. SameFront(e, n)
    BY DEF SameFront, EntitySet
  <2> QED BY <2>1, <2>4, <2>5
<1> QED BY <1>1, <1>2

(* Two writes queued one after the other. *)
LEMMA AppendPair ==
  ASSUME NEW S, NEW c \in S, NEW d \in S
  PROVE  Append(<<d>>, c) = <<d, c>>
<1>1. <<d>> \in Seq(S) /\ <<d, c>> \in Seq(S)
  OBVIOUS
<1>2. Len(Append(<<d>>, c)) = 2 /\ Append(<<d>>, c)[1] = d /\ Append(<<d>>, c)[2] = c
  BY <1>1, AppendProperties
<1>3. Append(<<d>>, c) \in Seq(S)
  BY <1>1, AppendProperties
<1>4. \A i \in 1..2 : Append(<<d>>, c)[i] = <<d, c>>[i]
  BY <1>2
<1>5. Len(<<d, c>>) = 2
  OBVIOUS
<1> QED BY <1>1, <1>2, <1>3, <1>4, <1>5, SeqEqual

(* queue_write adds the write and leaves the rest alone. *)
LEMMA QueueKeeps ==
  ASSUME NEW e \in EntitySet, NEW c \in Commands
  PROVE  LET n == QueueWrite(e, c.attr, c.value)
         IN  /\ n \in EntitySet /\ n.out = Append(e.out, c)
             /\ n.room_mode = e.room_mode /\ n.mode = e.mode /\ n.sp = e.sp
<1>1. c = [attr |-> c.attr, value |-> c.value]
  BY DEF Commands
<1>2. Append(e.out, c) \in Seq(Commands)
  BY AppendProperties DEF EntitySet
<1> DEFINE n == [e EXCEPT !.out = Append(e.out, c)]
<1>3. QueueWrite(e, c.attr, c.value) = n
  BY <1>1 DEF QueueWrite
<1>4. n \in EntitySet
  BY <1>2 DEF EntitySet
<1>5. n.out = Append(e.out, c) /\ n.room_mode = e.room_mode /\ n.mode = e.mode /\ n.sp = e.sp
  BY DEF EntitySet
<1> QED BY <1>3, <1>4, <1>5

ModeCommand(m) == [attr |-> "mode", value |-> m]
HomeCommand(t) == [attr |-> Home, value |-> t]

LEMMA CommandsTyped ==
  /\ \A m \in Presets : /\ ModeCommand(m) \in Commands
                        /\ ModeCommand(m).attr = "mode" /\ ModeCommand(m).value = m
  /\ \A t \in Settable : /\ HomeCommand(t) \in Commands
                         /\ HomeCommand(t).attr = Home /\ HomeCommand(t).value = t
  BY DEF ModeCommand, HomeCommand, Commands

LEMMA WriteRoomModeKeeps ==
  ASSUME NEW e \in EntitySet, NEW m \in Presets
  PROVE  LET n == WriteRoomMode(e, m)
         IN  /\ n \in EntitySet /\ n.out = Append(e.out, ModeCommand(m))
             /\ n.room_mode = e.room_mode /\ n.mode = e.mode /\ n.sp = e.sp
<1> DEFINE c == ModeCommand(m)
<1>1. c \in Commands /\ c.attr = "mode" /\ c.value = m
  BY CommandsTyped
<1> HIDE DEF c
<1>2. QueueWrite(e, c.attr, c.value) = WriteRoomMode(e, m)
  BY <1>1 DEF WriteRoomMode
<1> QED BY <1>1, <1>2, QueueKeeps DEF c

LEMMA WriteHomeKeeps ==
  ASSUME NEW e \in EntitySet, NEW t \in Settable, e.room_mode = Home
  PROVE  LET n == WriteSetpoint(e, t)
         IN  /\ n \in EntitySet /\ n.out = Append(e.out, HomeCommand(t))
             /\ n.room_mode = e.room_mode /\ n.mode = e.mode /\ n.sp = e.sp
<1> DEFINE c == HomeCommand(t)
<1>1. c \in Commands /\ c.attr = Home /\ c.value = t
  BY CommandsTyped
<1> HIDE DEF c
<1>2. QueueWrite(e, c.attr, c.value) = WriteSetpoint(e, t)
  BY <1>1, Temperatures DEF WriteSetpoint
<1> QED BY <1>1, <1>2, QueueKeeps DEF c

LEMMA SetRoomModeKeeps ==
  ASSUME NEW e \in EntitySet, NEW m \in Presets
  PROVE  LET n == SetRoomMode(e, m)
         IN  /\ n \in EntitySet /\ n.room_mode = m /\ n.out = e.out /\ n.sp = e.sp
             /\ n.mode = e.mode
  BY DEF SetRoomMode, EntitySet

(* apply_active_setpoint_: the mode follows a setpoint that is known. *)
Follows(mode, t) == IF t = NaN THEN mode ELSE IF t = Floor THEN "OFF" ELSE "HEAT"
LEMMA ApplyKeeps ==
  ASSUME NEW e \in EntitySet, NEW t \in Readable
  PROVE  LET n == ApplyActiveSetpoint(e, t)
         IN  /\ n \in EntitySet /\ n.room_mode = e.room_mode /\ n.out = e.out /\ n.sp = e.sp
             /\ n.mode = Follows(e.mode, t)
<1>1. CASE t = NaN
  BY <1>1 DEF ApplyActiveSetpoint, Follows
<1>2. CASE t = Floor
  <2> DEFINE n == [e EXCEPT !.target = t, !.mode = "OFF"]
  <2>1. t # NaN /\ AtFrost(e, t) /\ t # HeatTemp
    BY <1>2, Temperatures DEF Settable
  <2>2. ApplyActiveSetpoint(e, t) = PublishIfChanged(n)
    BY <2>1 DEF ApplyActiveSetpoint
  <2>3. /\ n \in EntitySet /\ n.room_mode = e.room_mode /\ n.out = e.out /\ n.sp = e.sp
        /\ n.mode = "OFF"
    BY DEF EntitySet
  <2>4. Follows(e.mode, t) = "OFF"
    BY <1>2, <2>1 DEF Follows
  <2> HIDE DEF n
  <2> QED BY <2>2, <2>3, <2>4, PublishKeeps DEF SameFront
<1>3. CASE t = HeatTemp
  <2> DEFINE heat == [e EXCEPT !.target = t, !.mode = "HEAT"]
             kept == [heat EXCEPT !.saved = t]
  <2>1. t # NaN /\ ~AtFrost(e, t)
    BY <1>3, Temperatures DEF Settable
  <2>2. /\ heat \in EntitySet /\ heat.room_mode = e.room_mode /\ heat.out = e.out
        /\ heat.sp = e.sp /\ heat.mode = "HEAT"
    BY DEF EntitySet
  <2>3. ApplyActiveSetpoint(e, t) =
          PublishIfChanged(IF e.room_mode = Home THEN SetSavedTarget(heat, t) ELSE heat)
    BY <2>1 DEF ApplyActiveSetpoint
  <2>4. SetSavedTarget(heat, t) = kept
    BY <2>1 DEF SetSavedTarget
  <2> HIDE DEF heat
  <2>5. /\ kept \in EntitySet /\ kept.room_mode = e.room_mode /\ kept.out = e.out
        /\ kept.sp = e.sp /\ kept.mode = "HEAT"
    BY <1>3, <2>2 DEF EntitySet
  <2>6. Follows(e.mode, t) = "HEAT"
    BY <1>3, <2>1, Temperatures DEF Follows
  <2> HIDE DEF kept
  <2> QED BY <2>2, <2>3, <2>4, <2>5, <2>6, PublishKeeps DEF SameFront
<1> QED BY <1>1, <1>2, <1>3 DEF Readable, Settable

-----------------------------------------------------------------------------
(* control(), for each choice. *)

LEMMA ApplyActive ==
  ASSUME NEW e \in EntitySet
  PROVE  LET n == PublishIfChanged(ApplyActiveSetpoint(e, ActiveSp(e)))
         IN  /\ n \in EntitySet /\ n.room_mode = e.room_mode /\ n.out = e.out /\ n.sp = e.sp
             /\ n.mode = Follows(e.mode, ActiveSp(e))
<1> DEFINE a == ApplyActiveSetpoint(e, ActiveSp(e))
<1>1. ActiveSp(e) \in Readable
  BY DEF ActiveSp, EntitySet
<1>2. /\ a \in EntitySet /\ a.room_mode = e.room_mode /\ a.out = e.out /\ a.sp = e.sp
      /\ a.mode = Follows(e.mode, ActiveSp(e))
  BY <1>1, ApplyKeeps
<1> HIDE DEF a
<1>3. PublishIfChanged(a) \in EntitySet /\ SameFront(a, PublishIfChanged(a))
  BY <1>2, PublishKeeps
<1> QED BY <1>2, <1>3 DEF SameFront, a

(* What is not known yet, and what it means that a choice cannot be shown. *)
LEMMA HomeKnown == ASSUME NEW e \in EntitySet, e.sp[Home] # NaN PROVE Known(e)
  BY DEF Known

LEMMA FrostIsFloor ==
  ASSUME NEW e \in EntitySet, NEW p \in Presets
  PROVE  e.sp[p] \in Readable /\ (AtFrost(e, e.sp[p]) <=> e.sp[p] = Floor)
<1>1. e.sp[p] \in Readable
  BY DEF EntitySet
<1>2. AtFrost(e, Floor) /\ ~AtFrost(e, HeatTemp) /\ ~AtFrost(e, NaN)
  BY Temperatures
<1>3. Floor # HeatTemp /\ Floor # NaN
  BY Temperatures DEF Settable
<1>4. CASE e.sp[p] = Floor
  BY <1>1, <1>2, <1>4
<1>5. CASE e.sp[p] = HeatTemp
  BY <1>1, <1>2, <1>3, <1>5
<1>6. CASE e.sp[p] = NaN
  BY <1>1, <1>2, <1>3, <1>6
<1> QED BY <1>1, <1>4, <1>5, <1>6 DEF Readable, Settable

LEMMA UnreadyPreset ==
  ASSUME NEW e, Known(e), NEW m \in Presets
  PROVE  Unready(e, m) <=> /\ Follows(e.mode, e.sp[m]) = "OFF"
                           /\ m = Home => e.saved = NaN
<1>1. e \in EntitySet /\ (e.mode = "OFF" => e.sp[Home] # NaN) /\ Home \in Presets
  BY DEF Known, Presets
<1>2. e.sp[m] \in Readable /\ (AtFrost(e, e.sp[m]) <=> e.sp[m] = Floor)
  BY <1>1, FrostIsFloor
<1>3. m # "off" /\ Floor # NaN
  BY NamesAssumption, Temperatures DEF Settable
<1>4. CASE m = Home
  <2>1. Unready(e, m) <=> e.sp[m] = Floor /\ e.saved = NaN
    BY <1>2, <1>3, <1>4 DEF Unready
  <2>2. Follows(e.mode, e.sp[m]) = "OFF" <=> e.sp[m] = Floor
    BY <1>1, <1>3, <1>4 DEF Follows
  <2> QED BY <1>4, <2>1, <2>2
<1>5. CASE m # Home
  <2>1. Unready(e, m) <=> e.sp[m] = Floor \/ (e.sp[m] = NaN /\ e.mode = "OFF")
    BY <1>2, <1>3, <1>5 DEF Unready
  <2>2. Follows(e.mode, e.sp[m]) = "OFF" <=> e.sp[m] = Floor \/ (e.sp[m] = NaN /\ e.mode = "OFF")
    BY <1>3 DEF Follows
  <2> QED BY <1>5, <2>1, <2>2
<1> QED BY <1>4, <1>5

(* Choosing a preset other than a Home to be brought back. *)
LEMMA PresetChosen ==
  ASSUME NEW e, Settled(e), NEW m \in Presets,
         ~(m = Home /\ e.saved # NaN /\ AtFrost(e, e.sp[Home]))
  PROVE  LET n == SetPresetMode(e, m)
         IN  /\ n \in EntitySet /\ n.sp = e.sp /\ n.room_mode = m
             /\ n.mode = Follows(e.mode, e.sp[m])
             /\ n.out = <<ModeCommand(m)>>
<1> DEFINE w == WriteRoomMode(e, m)
           chosen == SetRoomMode(w, m)
<1>1. e \in EntitySet /\ e.out = <<>>
  BY DEF Settled, Known
<1>2. w \in EntitySet /\ w.out = <<ModeCommand(m)>> /\ w.sp = e.sp /\ w.mode = e.mode
  BY <1>1, WriteRoomModeKeeps
<1> HIDE DEF w
<1>3. /\ chosen \in EntitySet /\ chosen.room_mode = m /\ chosen.sp = e.sp
      /\ chosen.out = <<ModeCommand(m)>> /\ chosen.mode = e.mode
  BY <1>2, SetRoomModeKeeps
<1> HIDE DEF chosen
<1>4. ActiveSp(chosen) = e.sp[m]
  BY <1>3 DEF ActiveSp
<1>5. SetPresetMode(e, m) = PublishIfChanged(ApplyActiveSetpoint(chosen, ActiveSp(chosen)))
  BY DEF SetPresetMode, chosen, w
<1> QED BY <1>3, <1>4, <1>5, ApplyActive

(* Choosing Home brings a parked setpoint back, if one was saved. *)
LEMMA HomeUnparked ==
  ASSUME NEW e, Settled(e), e.saved # NaN, e.sp[Home] = Floor
  PROVE  LET n == SetPresetMode(e, Home)
         IN  /\ n \in EntitySet /\ n.sp = e.sp /\ n.room_mode = Home /\ n.mode = "HEAT"
             /\ n.out = <<ModeCommand(Home), HomeCommand(HeatTemp)>>
<1> DEFINE w == WriteRoomMode(e, Home)
           chosen == SetRoomMode(w, Home)
           v == WriteSetpoint(chosen, HeatTemp)
           n == [v EXCEPT !.target = HeatTemp, !.mode = "HEAT"]
<1>1. e \in EntitySet /\ e.out = <<>> /\ e.saved = HeatTemp
  BY DEF Settled, Known, EntitySet
<1>2. w \in EntitySet /\ w.out = <<ModeCommand(Home)>> /\ w.sp = e.sp
  BY <1>1, WriteRoomModeKeeps DEF Presets
<1> HIDE DEF w
<1>3. /\ chosen \in EntitySet /\ chosen.room_mode = Home /\ chosen.sp = e.sp
      /\ chosen.out = <<ModeCommand(Home)>>
  BY <1>2, SetRoomModeKeeps DEF Presets
<1> HIDE DEF chosen
<1>4. /\ v \in EntitySet /\ v.room_mode = Home /\ v.sp = e.sp
      /\ v.out = <<ModeCommand(Home), HomeCommand(HeatTemp)>>
  <2>1. v \in EntitySet /\ v.room_mode = Home /\ v.sp = e.sp
        /\ v.out = Append(chosen.out, HomeCommand(HeatTemp))
    BY <1>3, WriteHomeKeeps DEF Settable
  <2> DEFINE c == HomeCommand(HeatTemp)
             d == ModeCommand(Home)
  <2>2. HomeCommand(HeatTemp) = c /\ ModeCommand(Home) = d
    OBVIOUS
  <2>3. c \in Commands /\ d \in Commands
    BY CommandsTyped DEF Settable, Presets
  <2> HIDE DEF c, d, v
  <2>4. Append(<<d>>, c) = <<d, c>>
    BY <2>3, AppendPair
  <2> QED BY <1>3, <2>1, <2>2, <2>4
<1> HIDE DEF v
<1>5. n \in EntitySet /\ n.room_mode = Home /\ n.sp = e.sp /\ n.out = v.out /\ n.mode = "HEAT"
  BY <1>4 DEF EntitySet, Readable, Settable
<1>6. HeatTemp # NaN /\ AtFrost(e, e.sp[Home])
  BY <1>1, Temperatures DEF Settable
<1>7. SetPresetMode(e, Home) = PublishIfChanged(n)
  BY <1>1, <1>6 DEF SetPresetMode, v, chosen, w
<1> HIDE DEF n
<1> QED BY <1>4, <1>5, <1>7, PublishKeeps DEF SameFront

(* OFF goes to Home, if it is not there, and parks it. *)
LEMMA OffParks ==
  ASSUME NEW e, Settled(e)
  PROVE  LET n == SetOff(e)
         IN  /\ n \in EntitySet /\ n.sp = [e.sp EXCEPT ![Home] = Floor]
             /\ n.room_mode = Home /\ n.mode = "OFF"
             /\ n.out = IF e.room_mode = Home THEN <<HomeCommand(Floor)>>
                        ELSE <<ModeCommand(Home), HomeCommand(Floor)>>
<1> DEFINE w == WriteRoomMode(e, Home)
           athome == ResetToHome(e)
           keep == IF e.sp[Home] # NaN THEN e.sp[Home] ELSE e.target
           kept == IF keep # NaN /\ ~AtFrost(e, keep) THEN SetSavedTarget(athome, keep) ELSE athome
           v == WriteSetpoint(kept, Floor)
           n == [v EXCEPT !.sp[Home] = Floor, !.mode = "OFF", !.target = Floor]
           out == IF e.room_mode = Home THEN <<>> ELSE <<ModeCommand(Home)>>
<1>1. /\ e \in EntitySet /\ e.sp[Home] \in Readable /\ e.target \in Readable
      /\ e.out = <<>> /\ e.lo = Floor
  BY DEF Settled, Known, Presets, EntitySet
<1>2. w \in EntitySet /\ w.out = <<ModeCommand(Home)>> /\ w.sp = e.sp
  BY <1>1, WriteRoomModeKeeps DEF Presets
<1>3. athome \in EntitySet /\ athome.room_mode = Home /\ athome.sp = e.sp /\ athome.out = out
  <2>1. CASE e.room_mode = Home
    BY <1>1, <2>1 DEF ResetToHome
  <2>2. CASE e.room_mode # Home
    <3>1. athome = SetRoomMode(w, Home)
      BY <2>2 DEF ResetToHome
    <3> HIDE DEF w, athome
    <3> QED BY <1>2, <2>2, <3>1, SetRoomModeKeeps DEF Presets
  <2> QED BY <2>1, <2>2
<1> HIDE DEF w, athome
<1>4. kept \in EntitySet /\ kept.room_mode = Home /\ kept.sp = e.sp /\ kept.out = out
  <2>1. keep \in Readable
    BY <1>1
  <2> HIDE DEF keep
  <2>2. CASE keep = NaN \/ AtFrost(e, keep)
    BY <1>3, <2>2
  <2>3. CASE keep # NaN /\ ~AtFrost(e, keep)
    <3>1. keep = HeatTemp
      BY <1>1, <2>1, <2>3, Temperatures DEF Readable, Settable
    <3>2. kept = [athome EXCEPT !.saved = HeatTemp]
      BY <2>3, <3>1 DEF SetSavedTarget
    <3> HIDE DEF kept
    <3> QED BY <1>3, <3>2 DEF EntitySet
  <2> QED BY <2>2, <2>3
<1> HIDE DEF kept
<1>5. v \in EntitySet /\ v.room_mode = Home /\ v.sp = e.sp /\ v.out = Append(out, HomeCommand(Floor))
  BY <1>4, WriteHomeKeeps DEF Settable
<1> HIDE DEF v
<1>6. /\ n \in EntitySet /\ n.room_mode = Home /\ n.sp = [e.sp EXCEPT ![Home] = Floor]
      /\ n.out = v.out /\ n.mode = "OFF"
  BY <1>5 DEF EntitySet, Readable, Settable
<1>7. SetOff(e) = PublishIfChanged(n)
  BY <1>1 DEF SetOff, v, kept, athome
<1>8. Append(out, HomeCommand(Floor)) =
        IF e.room_mode = Home THEN <<HomeCommand(Floor)>>
        ELSE <<ModeCommand(Home), HomeCommand(Floor)>>
  <2> DEFINE c == HomeCommand(Floor)
             d == ModeCommand(Home)
  <2>1. HomeCommand(Floor) = c /\ ModeCommand(Home) = d
    OBVIOUS
  <2>4. c \in Commands /\ d \in Commands
    BY CommandsTyped DEF Settable, Presets
  <2> HIDE DEF c, d
  <2>2. Append(<<>>, c) = <<c>>
    OBVIOUS
  <2>3. Append(<<d>>, c) = <<d, c>>
    BY <2>4, AppendPair
  <2> QED BY <2>1, <2>2, <2>3
<1> HIDE DEF n, out
<1> QED BY <1>5, <1>6, <1>7, <1>8, PublishKeeps DEF SameFront

(* What a choice makes of an entity and what it queues: nothing but writes *)
(* that lead to the choice, and, if the entity can show the choice and     *)
(* knows the setpoint, one for all it lacks of it.                         *)
Addressed(r, c) == [room |-> r, attr |-> c.attr, value |-> c.value]
Complete(e, n, m) ==
  /\ \/ e.room_mode = PresetOf(m)
     \/ \E i \in DOMAIN n.out : n.out[i].attr = "mode"
  /\ \/ e.sp[PresetOf(m)] = TargetOf(m)
     \/ \E i \in DOMAIN n.out : n.out[i].attr = PresetOf(m)
LEMMA ChosenObeys ==
  ASSUME NEW e, Settled(e), NEW m \in Modes
  PROVE  LET n == Chosen(e, m)
         IN  /\ Known(n) /\ (ActiveMode(n) = m <=> ~Unready(e, m))
             /\ \A i \in DOMAIN n.out : LeadsTo(m, n.out[i])
             /\ ~Unready(e, m) /\ e.sp[PresetOf(m)] # NaN => Complete(e, n, m)
<1> DEFINE n == Chosen(e, m)
<1> SUFFICES /\ Known(n) /\ (ActiveMode(n) = m <=> ~Unready(e, m))
             /\ \A i \in DOMAIN n.out : LeadsTo(m, n.out[i])
             /\ ~Unready(e, m) /\ e.sp[PresetOf(m)] # NaN => Complete(e, n, m)
  OBVIOUS
<1>1. /\ e \in EntitySet /\ Known(e) /\ Home \in Presets
      /\ e.mode = "OFF" \/ (\E p \in Presets : e.sp[p] # NaN) => e.sp[Home] # NaN
  BY DEF Settled, Known, Presets
<1>2. CASE m = "off"
  <2>1. /\ n \in EntitySet /\ n.sp = [e.sp EXCEPT ![Home] = Floor]
        /\ n.room_mode = Home /\ n.mode = "OFF"
        /\ n.out = IF e.room_mode = Home THEN <<HomeCommand(Floor)>>
                   ELSE <<ModeCommand(Home), HomeCommand(Floor)>>
    BY <1>2, OffParks DEF Chosen
  <2>2. PresetOf(m) = Home /\ TargetOf(m) = Floor /\ ~Unready(e, m)
    BY <1>2, NamesAssumption DEF PresetOf, TargetOf, Unready, Presets
  <2> HIDE DEF n
  <2>3. Known(n)
    <3>1. n.sp[Home] = Floor /\ Floor # NaN
      BY <1>1, <2>1, Temperatures DEF EntitySet, Settable
    <3> QED BY <2>1, <3>1, HomeKnown
  <2>4. LeadsTo(m, HomeCommand(Floor)) /\ LeadsTo(m, ModeCommand(Home))
    BY <2>2 DEF LeadsTo, HomeCommand, ModeCommand
  <2>5. HomeCommand(Floor).attr = Home /\ ModeCommand(Home).attr = "mode"
    BY DEF HomeCommand, ModeCommand
  <2>8. ActiveMode(n) = m
    BY <1>2, <2>1 DEF ActiveMode
  <2>6. CASE e.room_mode = Home
    <3>1. n.out = <<HomeCommand(Floor)>>
      BY <2>1, <2>6
    <3>2. DOMAIN n.out = {1} /\ n.out[1] = HomeCommand(Floor)
      BY <3>1
    <3> QED BY <2>2, <2>3, <2>4, <2>5, <2>6, <2>8, <3>2 DEF Complete
  <2>7. CASE e.room_mode # Home
    <3>1. n.out = <<ModeCommand(Home), HomeCommand(Floor)>>
      BY <2>1, <2>7
    <3>2. DOMAIN n.out = {1, 2} /\ n.out[1] = ModeCommand(Home) /\ n.out[2] = HomeCommand(Floor)
      BY <3>1
    <3> QED BY <2>2, <2>3, <2>4, <2>5, <2>8, <3>2 DEF Complete
  <2> QED BY <2>6, <2>7
<1>3. CASE m # "off" /\ ~(m = Home /\ e.saved # NaN /\ AtFrost(e, e.sp[Home]))
  <2>1. m \in Presets /\ PresetOf(m) = m /\ TargetOf(m) = HeatTemp
    BY <1>3 DEF Modes, Presets, PresetOf, TargetOf
  <2>2. /\ n \in EntitySet /\ n.sp = e.sp /\ n.room_mode = m
        /\ n.mode = Follows(e.mode, e.sp[m]) /\ n.out = <<ModeCommand(m)>>
    BY <1>3, <2>1, PresetChosen DEF Chosen
  <2> HIDE DEF n
  <2>3. LeadsTo(m, ModeCommand(m)) /\ ModeCommand(m).attr = "mode"
    BY <2>1 DEF LeadsTo, ModeCommand
  <2>4. e.sp[m] \in Readable /\ (AtFrost(e, e.sp[m]) <=> e.sp[m] = Floor) /\ Floor # NaN
    BY <1>1, <2>1, FrostIsFloor, Temperatures DEF Settable
  <2>5. Unready(e, m) <=> n.mode = "OFF"
    <3>1. Unready(e, m) <=> n.mode = "OFF" /\ (m = Home => e.saved = NaN)
      BY <1>1, <2>1, <2>2, UnreadyPreset
    <3>2. n.mode = "OFF" /\ m = Home => e.saved = NaN
      BY <1>1, <1>3, <2>2, <2>4 DEF Follows
    <3> QED BY <3>1, <3>2
  <2>6. ActiveMode(n) = m <=> ~Unready(e, m)
    BY <1>3, <2>2, <2>5 DEF ActiveMode
  <2>7. Known(n)
    <3>1. n.mode = "OFF" => e.mode = "OFF" \/ e.sp[m] # NaN
      BY <2>2 DEF Follows
    <3>2. n.mode = "OFF" \/ (\E p \in Presets : e.sp[p] # NaN) => e.sp[Home] # NaN
      BY <1>1, <2>1, <3>1
    <3> QED BY <2>2, <3>2 DEF Known
  <2>8. DOMAIN n.out = {1} /\ n.out[1] = ModeCommand(m)
    BY <2>2
  <2>9. ~Unready(e, m) /\ e.sp[m] # NaN => e.sp[m] = HeatTemp
    BY <2>2, <2>4, <2>5 DEF Follows, Readable, Settable
  <2> QED BY <2>1, <2>3, <2>6, <2>7, <2>8, <2>9 DEF Complete
<1>4. CASE m # "off" /\ m = Home /\ e.saved # NaN /\ AtFrost(e, e.sp[Home])
  <2>1. PresetOf(m) = Home /\ TargetOf(m) = HeatTemp
    BY <1>4 DEF PresetOf, TargetOf
  <2>2. e.sp[Home] = Floor /\ Floor # NaN
    BY <1>1, <1>4, FrostIsFloor, Temperatures DEF Settable
  <2>3. /\ n \in EntitySet /\ n.sp = e.sp /\ n.room_mode = Home /\ n.mode = "HEAT"
        /\ n.out = <<ModeCommand(Home), HomeCommand(HeatTemp)>>
    BY <1>4, <2>2, HomeUnparked DEF Chosen
  <2> HIDE DEF n
  <2>4. /\ LeadsTo(m, ModeCommand(Home)) /\ LeadsTo(m, HomeCommand(HeatTemp))
        /\ ModeCommand(Home).attr = "mode" /\ HomeCommand(HeatTemp).attr = Home
    BY <2>1 DEF LeadsTo, ModeCommand, HomeCommand
  <2>5. DOMAIN n.out = {1, 2} /\ n.out[1] = ModeCommand(Home) /\ n.out[2] = HomeCommand(HeatTemp)
    BY <2>3
  <2>6. Known(n)
    BY <2>2, <2>3, HomeKnown
  <2>7. ~Unready(e, m)
    BY <1>1, <1>4, UnreadyPreset
  <2>8. ActiveMode(n) = m
    BY <1>4, <2>3 DEF ActiveMode
  <2> QED BY <2>1, <2>4, <2>5, <2>6, <2>7, <2>8 DEF Complete
<1> QED BY <1>2, <1>3, <1>4

-----------------------------------------------------------------------------
(* Polls and acknowledgements queue nothing. *)

LEMMA OnPresetSetpointKeeps ==
  ASSUME NEW e \in EntitySet, NEW p \in Presets, NEW t \in Settable
  PROVE  LET n == OnPresetSetpoint(e, p, t)
         IN  /\ n \in EntitySet /\ n.out = e.out /\ n.room_mode = e.room_mode
             /\ n.sp = [e.sp EXCEPT ![p] = t]
<1> DEFINE seen == [e EXCEPT !.sp[p] = t]
<1>1. t \in Readable
  BY DEF Readable
<1>2. /\ seen \in EntitySet /\ seen.out = e.out /\ seen.room_mode = e.room_mode
      /\ seen.sp = [e.sp EXCEPT ![p] = t]
  BY <1>1 DEF EntitySet
<1>3. OnPresetSetpoint(e, p, t) = IF e.room_mode = p THEN ApplyActiveSetpoint(seen, t) ELSE seen
  BY DEF OnPresetSetpoint
<1> HIDE DEF seen
<1> QED BY <1>1, <1>2, <1>3, ApplyKeeps

LEMMA OnRoomModeKeeps ==
  ASSUME NEW e \in EntitySet, NEW m \in Presets
  PROVE  LET n == OnRoomMode(e, m)
         IN  /\ n \in EntitySet /\ n.out = e.out /\ n.room_mode = m /\ n.sp = e.sp
             /\ n.mode = Follows(e.mode, e.sp[m])
<1> DEFINE moved == SetRoomMode(e, m)
<1>1. /\ moved \in EntitySet /\ moved.room_mode = m /\ moved.out = e.out /\ moved.sp = e.sp
      /\ moved.mode = e.mode
  BY SetRoomModeKeeps
<1> HIDE DEF moved
<1>2. ActiveSp(moved) = e.sp[m]
  BY <1>1 DEF ActiveSp
<1> QED BY <1>1, <1>2, ApplyActive DEF OnRoomMode, moved

LEMMA RoomFields ==
  ASSUME NEW r \in RoomSet
  PROVE  /\ r.mode \in Presets /\ r.sp \in [Presets -> Settable]
         /\ \A p \in Presets : r.sp[p] \in Settable
  BY DEF RoomSet

(* A poll shows the room as it was read. *)
LEMMA OnFastPollKeeps ==
  ASSUME NEW e \in EntitySet, NEW r \in RoomSet
  PROVE  LET n == OnFastPoll(e, r)
         IN  n \in EntitySet /\ n.out = e.out /\ n.room_mode = r.mode /\ n.sp = r.sp
<1> DEFINE m == OnRoomMode(e, r.mode)
           h == OnPresetSetpoint(m, Home, r.sp[Home])
           a == OnPresetSetpoint(h, Away, r.sp[Away])
           s == OnPresetSetpoint(a, Sleep, r.sp[Sleep])
<1>0. /\ Home \in Presets /\ Away \in Presets /\ Sleep \in Presets /\ r.mode \in Presets
      /\ r.sp[Home] \in Settable /\ r.sp[Away] \in Settable /\ r.sp[Sleep] \in Settable
  BY RoomFields DEF Presets
<1>1. m \in EntitySet /\ m.out = e.out /\ m.room_mode = r.mode /\ m.sp = e.sp
  BY <1>0, OnRoomModeKeeps
<1> HIDE DEF m
<1>2. /\ h \in EntitySet /\ h.out = e.out /\ h.room_mode = r.mode
      /\ h.sp = [e.sp EXCEPT ![Home] = r.sp[Home]]
  BY <1>0, <1>1, OnPresetSetpointKeeps
<1> HIDE DEF h
<1>3. /\ a \in EntitySet /\ a.out = e.out /\ a.room_mode = r.mode
      /\ a.sp = [h.sp EXCEPT ![Away] = r.sp[Away]]
  BY <1>0, <1>2, OnPresetSetpointKeeps
<1> HIDE DEF a
<1>4. /\ s \in EntitySet /\ s.out = e.out /\ s.room_mode = r.mode
      /\ s.sp = [a.sp EXCEPT ![Sleep] = r.sp[Sleep]]
  BY <1>0, <1>3, OnPresetSetpointKeeps
<1>5. s.sp = r.sp
  <2>1. e.sp \in [Presets -> Readable] /\ r.sp \in [Presets -> Settable]
    BY RoomFields DEF EntitySet
  <2>2. s.sp \in [Presets -> Readable] /\ \A p \in Presets : s.sp[p] = r.sp[p]
    <3> HIDE DEF s
    <3> QED BY <1>2, <1>3, <1>4, <2>1 DEF Presets, EntitySet
  <2> QED BY <2>1, <2>2
<1>6. OnFastPoll(e, r) = s
  BY DEF OnFastPoll, m, h, a
<1> HIDE DEF s
<1> QED BY <1>4, <1>5, <1>6

LEMMA OnAttrKeeps ==
  ASSUME NEW e, Settled(e), NEW w \in Writes
  PROVE  Settled(OnAttr(e, w.attr, w.value))
<1>0. /\ e \in EntitySet /\ e.out = <<>> /\ Home \in Presets
      /\ e.mode = "OFF" \/ (\E p \in Presets : e.sp[p] # NaN) => e.sp[Home] # NaN
  BY DEF Settled, Known, Presets
<1>1. CASE w \in [room : Climates, attr : {"mode"}, value : Presets]
  <2> DEFINE n == OnRoomMode(e, w.value)
  <2>1. w.attr = "mode" /\ w.value \in Presets
    BY <1>1
  <2>2. /\ n \in EntitySet /\ n.out = <<>> /\ n.sp = e.sp
        /\ n.mode = Follows(e.mode, e.sp[w.value])
    BY <1>0, <2>1, OnRoomModeKeeps
  <2>3. OnAttr(e, w.attr, w.value) = n
    BY <2>1 DEF OnAttr
  <2> HIDE DEF n
  <2>4. n.mode = "OFF" => e.mode = "OFF" \/ e.sp[w.value] # NaN
    BY <2>2 DEF Follows
  <2>5. n.mode = "OFF" \/ (\E p \in Presets : n.sp[p] # NaN) => n.sp[Home] # NaN
    BY <1>0, <2>1, <2>2, <2>4
  <2> QED BY <2>2, <2>3, <2>5 DEF Settled, Known
<1>2. CASE w \in [room : Climates, attr : {Home}, value : Settable]
  <2>1. w.attr = Home /\ w.value \in Settable /\ w.attr # "mode" /\ w.value # NaN
    BY <1>0, <1>2, NamesAssumption, Temperatures
  <2> DEFINE n == OnPresetSetpoint(e, Home, w.value)
  <2>2. n \in EntitySet /\ n.out = <<>> /\ n.sp = [e.sp EXCEPT ![Home] = w.value]
    BY <1>0, <2>1, OnPresetSetpointKeeps
  <2>3. OnAttr(e, w.attr, w.value) = n
    BY <2>1 DEF OnAttr
  <2> HIDE DEF n
  <2>4. n.sp[Home] # NaN
    BY <1>0, <2>1, <2>2 DEF EntitySet
  <2> QED BY <2>2, <2>3, <2>4, HomeKnown DEF Settled
<1> QED BY <1>1, <1>2 DEF Writes

LEMMA OnFastPollSettled ==
  ASSUME NEW e, Settled(e), NEW r \in RoomSet
  PROVE  Settled(OnFastPoll(e, r))
<1> DEFINE n == OnFastPoll(e, r)
<1>1. n \in EntitySet /\ n.out = <<>> /\ n.sp = r.sp
  BY OnFastPollKeeps DEF Settled, Known
<1> HIDE DEF n
<1>2. n.sp[Home] # NaN
  BY <1>1, RoomFields, Temperatures DEF Presets
<1> QED BY <1>1, <1>2, HomeKnown DEF Settled, n

LEMMA Emptied ==
  ASSUME NEW e \in EntitySet
  PROVE  LET n == [e EXCEPT !.out = <<>>]
         IN  /\ n \in EntitySet /\ n.out = <<>>
             /\ n.sp = e.sp /\ n.mode = e.mode /\ n.room_mode = e.room_mode
<1> DEFINE n == [e EXCEPT !.out = <<>>]
<1>1. <<>> \in Seq(Commands)
  OBVIOUS
<1>2. n \in EntitySet
  BY <1>1 DEF EntitySet
<1>3. n.out = <<>> /\ n.sp = e.sp /\ n.mode = e.mode /\ n.room_mode = e.room_mode
  BY DEF EntitySet
<1> QED BY <1>2, <1>3

(* What the handlers queued reaches the hub, and nothing else does. *)
LEMMA BecomeKeeps ==
  ASSUME queue \in Seq(Writes), NEW es, DOMAIN es = Climates,
         \A r \in Climates : Known(es[r]),
         Become(es)
  PROVE  /\ DOMAIN entity' = Climates
         /\ \A r \in Climates : /\ Settled(entity'[r])
                                /\ ActiveMode(entity'[r]) = ActiveMode(es[r])
         /\ queue' \in Seq(Writes)
         /\ \A w : Queued(queue', w) <=>
                     \/ Queued(queue, w)
                     \/ \E r \in Climates : \E i \in DOMAIN es[r].out : w = Addressed(r, es[r].out[i])
<1> DEFINE part(r) == [i \in DOMAIN es[r].out |->
                         [room |-> r, attr |-> es[r].out[i].attr, value |-> es[r].out[i].value]]
           ss == [r \in Climates |-> part(r)]
<1>1. entity' = [r \in Climates |-> [es[r] EXCEPT !.out = <<>>]] /\ queue' = queue \o FlattenSeq(ss)
  BY DEF Become
<1>2. ASSUME NEW r \in Climates
      PROVE  Settled(entity'[r]) /\ ActiveMode(entity'[r]) = ActiveMode(es[r])
  <2> DEFINE n == [es[r] EXCEPT !.out = <<>>]
  <2>1. es[r] \in EntitySet
    BY DEF Known
  <2>2. /\ n \in EntitySet /\ n.sp = es[r].sp /\ n.out = <<>> /\ n.mode = es[r].mode
        /\ n.room_mode = es[r].room_mode
    BY <2>1, Emptied
  <2>3. entity'[r] = n
    BY <1>1
  <2> HIDE DEF n
  <2>4. Known(n)
    BY <2>2 DEF Known
  <2> QED BY <2>2, <2>3, <2>4 DEF Settled, ActiveMode
<1>3. ASSUME NEW r \in Climates
      PROVE  /\ part(r) \in Seq(Writes)
             /\ \A w : Queued(part(r), w) <=> \E i \in DOMAIN es[r].out : w = Addressed(r, es[r].out[i])
  <2> DEFINE o == es[r].out
  <2>1. o \in Seq(Commands)
    BY DEF Known, EntitySet
  <2> HIDE DEF o
  <2>2. Len(o) \in Nat /\ DOMAIN o = 1..Len(o) /\ \A i \in 1..Len(o) : o[i] \in Commands
    BY <2>1
  <2>3. \A c \in Commands : Addressed(r, c) \in Writes
    BY DEF Commands, Writes, Addressed
  <2>4. part(r) = [i \in 1..Len(o) |-> Addressed(r, o[i])]
    BY <2>2 DEF o, Addressed
  <2> HIDE DEF part
  <2>5. part(r) \in Seq(Writes)
    <3>1. part(r) \in [1..Len(o) -> Writes]
      BY <2>2, <2>3, <2>4
    <3> QED BY <2>2, <3>1
  <2>6. \A w : Queued(part(r), w) <=> \E i \in 1..Len(o) : w = Addressed(r, o[i])
    BY <2>4 DEF Queued
  <2> QED BY <2>2, <2>5, <2>6 DEF o
<1>4. N \in Nat /\ Climates = 1..N
  BY SelectAssumption DEF Climates
<1> HIDE DEF part
<1>5. ss \in Seq(Seq(Writes)) /\ DOMAIN ss = Climates /\ \A r \in Climates : ss[r] = part(r)
  BY <1>3, <1>4
<1> HIDE DEF ss
<1>6. /\ FlattenSeq(ss) \in Seq(Writes)
      /\ \A w : Queued(FlattenSeq(ss), w) <=> \E r \in Climates : Queued(part(r), w)
  <2>1. /\ FlattenSeq(ss) \in Seq(Writes)
        /\ \A w : Has(FlattenSeq(ss), w) <=> \E r \in Climates : Has(part(r), w)
    BY <1>5, FlattenContents
  <2>2. \A s, w : Has(s, w) <=> Queued(s, w)
    BY DEF Has, Queued
  <2> QED BY <2>1, <2>2
<1>7. queue' \in Seq(Writes)
  BY <1>1, <1>6
<1>8. \A w : Queued(queue', w) <=> Queued(queue, w) \/ Queued(FlattenSeq(ss), w)
  <2>1. \A w : Has(queue', w) <=> Has(queue, w) \/ Has(FlattenSeq(ss), w)
    BY <1>1, <1>6, ConcatHas
  <2>2. \A s, w : Has(s, w) <=> Queued(s, w)
    BY DEF Has, Queued
  <2> QED BY <2>1, <2>2
<1> QED BY <1>1, <1>2, <1>3, <1>6, <1>7, <1>8

-----------------------------------------------------------------------------
(* The invariant, action by action. *)

LEMMA HeadAndTail ==
  ASSUME NEW q \in Seq(Writes), q # <<>>
  PROVE  /\ Head(q) \in Writes /\ Tail(q) \in Seq(Writes)
         /\ \A w : Queued(q, w) <=> w = Head(q) \/ Queued(Tail(q), w)
<1>1. /\ Len(q) \in Nat /\ Len(q) # 0 /\ DOMAIN q = 1..Len(q) /\ Head(q) = q[1]
      /\ Tail(q) \in Seq(Writes) /\ DOMAIN Tail(q) = 1..(Len(q) - 1)
      /\ \A i \in 1..(Len(q) - 1) : Tail(q)[i] = q[i + 1]
  BY HeadTailProperties, EmptySeq
<1>2. 1 \in 1..Len(q) /\ Head(q) \in Writes
  BY <1>1
<1>3. ASSUME NEW w, Queued(q, w) PROVE w = Head(q) \/ Queued(Tail(q), w)
  <2>1. PICK i \in 1..Len(q) : q[i] = w
    BY <1>1, <1>3 DEF Queued
  <2>2. CASE i = 1
    BY <1>1, <2>1, <2>2
  <2>3. CASE i # 1
    <3>1. i - 1 \in 1..(Len(q) - 1) /\ (i - 1) + 1 = i
      BY <1>1, <2>3
    <3> QED BY <1>1, <2>1, <3>1 DEF Queued
  <2> QED BY <2>2, <2>3
<1>4. ASSUME NEW w, Queued(Tail(q), w) PROVE Queued(q, w)
  <2>1. PICK i \in 1..(Len(q) - 1) : q[i + 1] = w
    BY <1>1, <1>4 DEF Queued
  <2>2. i + 1 \in 1..Len(q)
    BY <1>1
  <2> QED BY <1>1, <2>1, <2>2 DEF Queued
<1> QED BY <1>1, <1>2, <1>3, <1>4 DEF Queued

LEMMA WriteFields ==
  ASSUME NEW w \in Writes
  PROVE  /\ w.room \in Climates /\ w.attr \in {"mode", Home}
         /\ w.attr = "mode" => w.value \in Presets
         /\ w.attr = Home => w.value \in Settable
  BY NamesAssumption DEF Writes, Presets

LEMMA PresetOfTyped ==
  \A m \in Modes : PresetOf(m) \in Presets /\ PresetOf(m) # "mode"
  BY NamesAssumption DEF Modes, PresetOf, Presets

(* Whatever keeps the room and loses no write keeps the choice. *)
LEMMA SameWaiting ==
  ASSUME ChoiceInv, room' = room, wish' \in {wish, None},
         \A w \in Writes : (Waiting(w))' <=> Waiting(w)
  PROVE  OnlyTheChoice' /\ EachWillBe'
<1>1. CASE wish' = None
  BY <1>1 DEF OnlyTheChoice, EachWillBe
<1>2. CASE wish' = wish
  BY <1>2 DEF ChoiceInv, OnlyTheChoice, EachWillBe, WillBe
<1> QED BY <1>1, <1>2

LEMMA ChooseKeeps ==
  ASSUME ChoiceInv, NEW m \in Modes, Choose(m)
  PROVE  /\ ChoiceInv'
         /\ \A r \in Climates : ActiveMode(entity'[r]) = m <=> ~Unready(entity[r], m)
<1> DEFINE es == [r \in Climates |-> Chosen(entity[r], m)]
<1>1. \A r \in Climates : Settled(entity[r])
  BY DEF ChoiceInv, SelectTyped
<1>2. DOMAIN es = Climates /\ \A r \in Climates : es[r] = Chosen(entity[r], m)
  OBVIOUS
<1>3. Become(es)
  BY DEF Choose
<1> HIDE DEF es
<1>4. \A r \in Climates : /\ Known(es[r])
                          /\ ActiveMode(es[r]) = m <=> ~Unready(entity[r], m)
  BY <1>1, <1>2, ChosenObeys
<1>5. queue \in Seq(Writes)
  BY DEF ChoiceInv, SelectTyped
<1>6. /\ DOMAIN entity' = Climates
      /\ \A r \in Climates : /\ Settled(entity'[r])
                             /\ ActiveMode(entity'[r]) = ActiveMode(es[r])
      /\ queue' \in Seq(Writes)
      /\ \A w : Queued(queue', w) <=>
                  \/ Queued(queue, w)
                  \/ \E r \in Climates : \E i \in DOMAIN es[r].out : w = Addressed(r, es[r].out[i])
  BY <1>2, <1>3, <1>4, <1>5, BecomeKeeps
<1>7. SelectTyped'
  <2>1. used' \in [choices : Nat, losses : Nat, upsets : Nat]
    BY DEF Choose, Spend, ChoiceInv, SelectTyped
  <2> QED BY <1>6, <2>1 DEF Choose, ChoiceInv, SelectTyped
<1>8. OnlyTheChoice' /\ EachWillBe'
  <2>1. CASE wish' = None
    BY <2>1 DEF OnlyTheChoice, EachWillBe
  <2>2. CASE wish' # None
    <3>1. /\ UpToDate /\ wish' = m /\ op' = op /\ room' = room
          /\ \A r \in Climates : ~Unready(entity[r], m)
      BY <2>2 DEF Choose
    <3>2. queue = <<>> /\ op.kind = "none"
      BY <3>1 DEF UpToDate, NoOp
    <3>3. \A w : (Waiting(w))' <=>
            \E r \in Climates : \E i \in DOMAIN es[r].out : w = Addressed(r, es[r].out[i])
      <4>1. \A w : ~Queued(queue, w)
        BY <3>2 DEF Queued
      <4> QED BY <1>6, <3>1, <3>2, <4>1 DEF Waiting
    <3>4. \A r \in Climates : \A i \in DOMAIN es[r].out :
            /\ Addressed(r, es[r].out[i]) \in Writes
            /\ LeadsTo(m, Addressed(r, es[r].out[i]))
      <4> SUFFICES ASSUME NEW r \in Climates, NEW i \in DOMAIN es[r].out
                   PROVE  /\ Addressed(r, es[r].out[i]) \in Writes
                          /\ LeadsTo(m, Addressed(r, es[r].out[i]))
        OBVIOUS
      <4>1. LeadsTo(m, es[r].out[i])
        BY <1>1, <1>2, ChosenObeys
      <4>2. es[r].out[i] \in Commands
        <5>1. es[r].out \in Seq(Commands)
          BY <1>4 DEF Known, EntitySet
        <5> QED BY <5>1
      <4> DEFINE c == es[r].out[i]
      <4> HIDE DEF c
      <4>3. c \in Commands /\ LeadsTo(m, c)
        BY <4>1, <4>2 DEF c
      <4>4. Addressed(r, c) \in Writes /\ LeadsTo(m, Addressed(r, c))
        BY <4>3 DEF Addressed, Commands, Writes, LeadsTo
      <4> QED BY <4>4 DEF c
    <3>5. \A w \in Writes : (Waiting(w))' => LeadsTo(m, w)
      BY <3>3, <3>4
    <3>6. ASSUME NEW r \in Climates PROVE WillBe(r, m)'
      <4>1. room[r].mode = entity[r].room_mode /\ room[r].sp = entity[r].sp
        BY <3>1 DEF UpToDate
      <4>2. /\ \/ entity[r].room_mode = PresetOf(m)
               \/ \E i \in DOMAIN es[r].out : es[r].out[i].attr = "mode"
            /\ \/ entity[r].sp[PresetOf(m)] = TargetOf(m)
               \/ \E i \in DOMAIN es[r].out : es[r].out[i].attr = PresetOf(m)
        <5>1. entity[r].sp[PresetOf(m)] # NaN
          BY <4>1, PresetOfTyped, RoomFields, Temperatures DEF ChoiceInv, SelectTyped
        <5>2. Complete(entity[r], es[r], m)
          BY <1>1, <1>2, <3>1, <5>1, ChosenObeys
        <5> QED BY <5>2 DEF Complete
      <4>3. \A i \in DOMAIN es[r].out :
              \E w \in Writes : (Waiting(w))' /\ w.room = r /\ w.attr = es[r].out[i].attr
        <5> SUFFICES ASSUME NEW i \in DOMAIN es[r].out
                     PROVE  \E w \in Writes :
                              (Waiting(w))' /\ w.room = r /\ w.attr = es[r].out[i].attr
          OBVIOUS
        <5>1. PICK w \in Writes : w = Addressed(r, es[r].out[i])
          BY <3>4
        <5>2. w.room = r /\ w.attr = es[r].out[i].attr
          BY <5>1 DEF Addressed
        <5>3. (Waiting(w))'
          BY <3>3, <5>1
        <5> QED BY <5>2, <5>3
      <4>4. \/ room'[r].mode = PresetOf(m)
            \/ \E w \in Writes : (Waiting(w))' /\ w.room = r /\ w.attr = "mode"
        BY <3>1, <4>1, <4>2, <4>3
      <4>5. \/ room'[r].sp[PresetOf(m)] = TargetOf(m)
            \/ \E w \in Writes : (Waiting(w))' /\ w.room = r /\ w.attr = PresetOf(m)
        BY <3>1, <4>1, <4>2, <4>3
      <4> QED BY <4>4, <4>5 DEF WillBe
    <3> QED BY <3>1, <3>5, <3>6 DEF OnlyTheChoice, EachWillBe
  <2> QED BY <2>1, <2>2
<1> QED BY <1>4, <1>6, <1>7, <1>8 DEF ChoiceInv

LEMMA ShowKeeps ==
  ASSUME ChoiceInv, Show
  PROVE  ChoiceInv'
<1>1. \A w : (Waiting(w))' <=> Waiting(w)
  BY DEF Show, Waiting
<1> QED BY <1>1, SameWaiting DEF Show, ChoiceInv, SelectTyped

LEMMA SendWriteKeeps ==
  ASSUME ChoiceInv, SendWrite
  PROVE  ChoiceInv'
<1> DEFINE w == Head(queue)
<1>1. /\ op.kind = "none" /\ queue \in Seq(Writes) /\ queue # <<>>
      /\ op' = [kind |-> "write", room |-> w.room, write |-> w, stage |-> "sent"]
      /\ queue' = Tail(queue) /\ entity' = entity /\ room' = room /\ wish' = wish /\ used' = used
      /\ flash' = flash
  BY DEF SendWrite, ChoiceInv, SelectTyped, NoOp
<1>2. /\ w \in Writes /\ Tail(queue) \in Seq(Writes)
      /\ \A x : Queued(queue, x) <=> x = w \/ Queued(Tail(queue), x)
  BY <1>1, HeadAndTail
<1>3. op' \in OpSet /\ op'.kind = "write" /\ op'.stage = "sent" /\ op'.write = w /\ op'.room = w.room
  <2>1. w.room \in Climates
    BY <1>2, WriteFields
  <2> HIDE DEF w
  <2> QED BY <1>1, <1>2, <2>1 DEF OpSet
<1> HIDE DEF w
<1>4. \A x : (Waiting(x))' <=> Waiting(x)
  BY <1>1, <1>2, <1>3 DEF Waiting
<1>5. SelectTyped'
  BY <1>1, <1>2, <1>3 DEF ChoiceInv, SelectTyped
<1> QED BY <1>1, <1>4, <1>5, SameWaiting DEF ChoiceInv

LEMMA SendPollKeeps ==
  ASSUME ChoiceInv, NEW r \in Climates, SendPoll(r)
  PROVE  ChoiceInv'
<1>1. op.kind = "none" /\ op'.kind = "poll" /\ op' \in OpSet
  BY DEF SendPoll, NoOp, OpSet
<1>2. \A w : (Waiting(w))' <=> Waiting(w)
  BY <1>1 DEF SendPoll, Waiting
<1>3. SelectTyped'
  BY <1>1 DEF SendPoll, ChoiceInv, SelectTyped
<1> QED BY <1>2, <1>3, SameWaiting DEF ChoiceInv, SendPoll

(* What is known of the operation in flight. *)
LEMMA OpFields ==
  ASSUME op \in OpSet, op # NoOp
  PROVE  /\ op.room \in Climates /\ op.kind \in {"write", "poll"}
         /\ op.kind = "write" => op \in [kind : {"write"}, room : Climates, write : Writes,
                                         stage : {"sent", "served"}]
         /\ op.kind = "poll" /\ op.stage = "served" => op.read \in RoomSet
  BY DEF OpSet

LEMMA ObeyedRoom ==
  ASSUME NEW r \in RoomSet, NEW w \in Writes
  PROVE  /\ Obeyed(r, w) \in RoomSet
         /\ w.attr = "mode" => Obeyed(r, w).mode = w.value /\ Obeyed(r, w).sp = r.sp
         /\ w.attr = Home => Obeyed(r, w).mode = r.mode
                             /\ Obeyed(r, w).sp = [r.sp EXCEPT ![Home] = w.value]
<1>1. CASE w.attr = "mode"
  <2>1. w.value \in Presets /\ w.attr # Home
    BY <1>1, WriteFields, NamesAssumption DEF Presets
  <2>2. Obeyed(r, w) = [r EXCEPT !.mode = w.value]
    BY <1>1 DEF Obeyed
  <2> QED BY <2>1, <2>2 DEF RoomSet
<1>2. CASE w.attr = Home
  <2>1. w.value \in Settable /\ w.attr # "mode"
    BY <1>2, WriteFields, NamesAssumption DEF Presets
  <2>2. Obeyed(r, w) = [r EXCEPT !.sp[Home] = w.value]
    BY <1>2, <2>1 DEF Obeyed
  <2>3. [r.sp EXCEPT ![Home] = w.value] \in [Presets -> Settable]
    BY <2>1, RoomFields
  <2> QED BY <2>1, <2>2, <2>3 DEF RoomSet
<1> QED BY <1>1, <1>2, WriteFields

LEMMA ServeKeeps ==
  ASSUME ChoiceInv, Serve
  PROVE  ChoiceInv'
<1>1. /\ op \in OpSet /\ op # NoOp /\ room \in [Climates -> RoomSet] /\ op.stage = "sent"
      /\ entity' = entity /\ queue' = queue /\ wish' = wish /\ used' = used /\ flash' = flash
  BY DEF Serve, ChoiceInv, SelectTyped
<1>2. CASE op.kind = "poll"
  <2>1. /\ op' = [kind |-> "poll", room |-> op.room, stage |-> "served", read |-> room[op.room]]
        /\ room' = room
    BY <1>2 DEF Serve
  <2>2. op' \in OpSet /\ op'.kind = "poll"
    BY <1>1, <2>1, OpFields DEF OpSet
  <2>3. \A w : (Waiting(w))' <=> Waiting(w)
    BY <1>1, <1>2, <2>2 DEF Waiting
  <2>4. SelectTyped'
    BY <1>1, <2>1, <2>2 DEF ChoiceInv, SelectTyped
  <2> QED BY <1>1, <2>1, <2>3, <2>4, SameWaiting DEF ChoiceInv
<1>3. CASE op.kind = "write"
  <2> DEFINE w == op.write
             n == Obeyed(room[op.room], w)
  <2>1. /\ op \in [kind : {"write"}, room : Climates, write : Writes, stage : {"sent", "served"}]
        /\ op.room = w.room
    BY <1>1, <1>3, OpFields DEF ChoiceInv, SelectTyped
  <2>2. /\ op' = [op EXCEPT !.stage = "served"] /\ room' = [room EXCEPT ![op.room] = n]
    BY <1>3 DEF Serve
  <2>3. /\ op' \in OpSet /\ op'.kind = "write" /\ op'.stage = "served" /\ op'.write = w
        /\ op'.room = op.room
    BY <2>1, <2>2 DEF OpSet
  <2>4. w \in Writes /\ room[w.room] \in RoomSet /\ w.room \in Climates
    BY <1>1, <2>1
  <2> DEFINE old == room[op.room]
  <2>10. old \in RoomSet
    BY <1>1, <2>1
  <2>5. /\ n \in RoomSet
        /\ w.attr = "mode" => n.mode = w.value /\ n.sp = old.sp
        /\ w.attr = Home => n.mode = old.mode /\ n.sp = [old.sp EXCEPT ![Home] = w.value]
    BY <2>4, <2>10, ObeyedRoom
  <2> HIDE DEF n
  <2>6. SelectTyped'
    <3>1. room' \in [Climates -> RoomSet]
      BY <1>1, <2>2, <2>5
    <3> QED BY <1>1, <2>1, <2>3, <3>1 DEF ChoiceInv, SelectTyped
  <2>7. \A x : Waiting(x) <=> (Waiting(x))' \/ x = w
    <3>1. \A x : (Waiting(x))' <=> Queued(queue, x)
      BY <1>1, <2>3 DEF Waiting
    <3>2. \A x : Waiting(x) <=> Queued(queue, x) \/ x = w
      BY <1>1, <1>3 DEF Waiting
    <3> QED BY <3>1, <3>2
  <2>8. OnlyTheChoice'
    BY <1>1, <2>7 DEF ChoiceInv, OnlyTheChoice
  <2>9. EachWillBe'
    <3> SUFFICES ASSUME wish # None, NEW r \in Climates PROVE WillBe(r, wish)'
      BY <1>1 DEF ChoiceInv, EachWillBe
    <3> DEFINE p == PresetOf(wish)
    <3>1. wish \in Modes /\ WillBe(r, wish) /\ LeadsTo(wish, w)
      BY <2>4, <2>7 DEF ChoiceInv, EachWillBe, OnlyTheChoice
    <3>2. p \in Presets /\ p # "mode" /\ wish' = wish
      BY <1>1, <3>1, PresetOfTyped
    <3>3. /\ \/ room[r].mode = p \/ \E x \in Writes : Waiting(x) /\ x.room = r /\ x.attr = "mode"
          /\ \/ room[r].sp[p] = TargetOf(wish)
             \/ \E x \in Writes : Waiting(x) /\ x.room = r /\ x.attr = p
      BY <3>1 DEF WillBe
    <3>4. \/ w.attr = "mode" /\ w.value = p
          \/ w.attr = p /\ w.value = TargetOf(wish)
      BY <3>1 DEF LeadsTo
    <3> HIDE DEF p
    <3> SUFFICES /\ \/ room'[r].mode = p
                    \/ \E x \in Writes : (Waiting(x))' /\ x.room = r /\ x.attr = "mode"
                 /\ \/ room'[r].sp[p] = TargetOf(wish)
                    \/ \E x \in Writes : (Waiting(x))' /\ x.room = r /\ x.attr = p
      BY <3>2 DEF WillBe, p
    <3>5. CASE r # w.room
      <4>1. room'[r] = room[r]
        BY <1>1, <2>1, <2>2, <3>5
      <4>2. \A x \in Writes : Waiting(x) /\ x.room = r => (Waiting(x))'
        BY <2>7, <3>5
      <4> QED BY <3>3, <4>1, <4>2
    <3>6. CASE r = w.room /\ w.attr = "mode"
      <4>1. room'[r] = n /\ n.mode = p /\ n.sp = room[r].sp
        BY <1>1, <2>1, <2>2, <2>5, <3>2, <3>4, <3>6
      <4>2. \A x \in Writes : Waiting(x) /\ x.attr = p => (Waiting(x))'
        BY <2>7, <3>2, <3>6
      <4> QED BY <3>3, <4>1, <4>2
    <3>7. CASE r = w.room /\ w.attr # "mode"
      <4>1. w.attr = Home /\ p = Home /\ w.value = TargetOf(wish)
        BY <2>4, <3>4, <3>7, WriteFields
      <4>2. room'[r] = n /\ n.mode = room[r].mode /\ n.sp = [room[r].sp EXCEPT ![Home] = w.value]
        BY <1>1, <2>1, <2>2, <2>5, <3>7, <4>1
      <4>3. n.sp[Home] = w.value
        BY <2>4, <3>7, <4>2, RoomFields DEF Presets
      <4>4. \A x \in Writes : Waiting(x) /\ x.attr = "mode" => (Waiting(x))'
        BY <2>7, <3>7
      <4> QED BY <3>3, <4>1, <4>2, <4>3, <4>4
    <3> QED BY <3>5, <3>6, <3>7
  <2> QED BY <2>6, <2>8, <2>9 DEF ChoiceInv
<1> QED BY <1>1, <1>2, <1>3, OpFields

LEMMA DeliverKeeps ==
  ASSUME ChoiceInv, Deliver
  PROVE  ChoiceInv'
<1> DEFINE n == IF op.kind = "write" THEN OnAttr(entity[op.room], op.write.attr, op.write.value)
                ELSE OnFastPoll(entity[op.room], op.read)
           es == [entity EXCEPT ![op.room] = n]
<1>1. /\ op \in OpSet /\ op # NoOp /\ op.stage = "served" /\ queue \in Seq(Writes)
      /\ DOMAIN entity = Climates /\ \A r \in Climates : Settled(entity[r])
  BY DEF Deliver, ChoiceInv, SelectTyped
<1>2. op.room \in Climates /\ Settled(n)
  <2>1. op.room \in Climates /\ Settled(entity[op.room])
    BY <1>1, OpFields
  <2>2. CASE op.kind = "write"
    BY <1>1, <2>1, <2>2, OpFields, OnAttrKeeps
  <2>3. CASE op.kind = "poll"
    BY <1>1, <2>1, <2>3, OpFields, OnFastPollSettled
  <2> QED BY <1>1, <2>1, <2>2, <2>3, OpFields
<1>3. Become(es)
  BY DEF Deliver
<1> HIDE DEF n
<1>4. DOMAIN es = Climates /\ \A r \in Climates : Settled(es[r])
  BY <1>1, <1>2
<1> HIDE DEF es
<1>5. \A r \in Climates : Known(es[r]) /\ es[r].out = <<>>
  BY <1>4 DEF Settled
<1>6. /\ DOMAIN entity' = Climates /\ \A r \in Climates : Settled(entity'[r])
      /\ queue' \in Seq(Writes)
      /\ \A w : Queued(queue', w) <=>
                  \/ Queued(queue, w)
                  \/ \E r \in Climates : \E i \in DOMAIN es[r].out : w = Addressed(r, es[r].out[i])
  BY <1>1, <1>3, <1>4, <1>5, BecomeKeeps
<1>7. \A w : Queued(queue', w) <=> Queued(queue, w)
  BY <1>5, <1>6
<1>8. /\ op' = NoOp /\ op'.kind = "none" /\ room' = room /\ wish' = wish /\ used' = used
      /\ flash' = flash
  BY DEF Deliver, NoOp
<1>9. \A w : (Waiting(w))' <=> Waiting(w)
  BY <1>1, <1>7, <1>8 DEF Waiting
<1>10. SelectTyped'
  BY <1>6, <1>8 DEF ChoiceInv, SelectTyped, OpSet
<1> QED BY <1>8, <1>9, <1>10, SameWaiting DEF ChoiceInv

LEMMA TimeOutKeeps ==
  ASSUME ChoiceInv, TimeOut
  PROVE  ChoiceInv'
<1>1. /\ op' = NoOp /\ op'.kind = "none" /\ op' \in OpSet
      /\ entity' = entity /\ queue' = queue /\ room' = room /\ flash' = flash
      /\ wish' = IF op.kind = "write" THEN None ELSE wish
      /\ used' \in [choices : Nat, losses : Nat, upsets : Nat]
  BY DEF TimeOut, Spend, NoOp, OpSet, ChoiceInv, SelectTyped
<1>2. SelectTyped'
  BY <1>1 DEF ChoiceInv, SelectTyped
<1>3. CASE op.kind = "write"
  BY <1>1, <1>2, <1>3 DEF ChoiceInv, OnlyTheChoice, EachWillBe
<1>4. CASE op.kind # "write"
  <2>1. \A w : (Waiting(w))' <=> Waiting(w)
    BY <1>1, <1>4 DEF Waiting
  <2> QED BY <1>1, <1>2, <1>4, <2>1, SameWaiting DEF ChoiceInv
<1> QED BY <1>3, <1>4

LEMMA EditKeeps ==
  ASSUME ChoiceInv, NEW r \in Climates, NEW m \in Presets, Edit(r, m)
  PROVE  ChoiceInv'
<1>1. /\ room' = [room EXCEPT ![r].mode = m] /\ wish' = None
      /\ entity' = entity /\ queue' = queue /\ op' = op /\ flash' = flash
      /\ used' \in [choices : Nat, losses : Nat, upsets : Nat]
  BY DEF Edit, Spend, ChoiceInv, SelectTyped
<1>2. room' \in [Climates -> RoomSet]
  <2>1. room \in [Climates -> RoomSet]
    BY DEF ChoiceInv, SelectTyped
  <2>2. [room[r] EXCEPT !.mode = m] \in RoomSet
    BY <2>1 DEF RoomSet
  <2> QED BY <1>1, <2>1, <2>2
<1>3. SelectTyped'
  BY <1>1, <1>2 DEF ChoiceInv, SelectTyped
<1> QED BY <1>1, <1>3 DEF ChoiceInv, OnlyTheChoice, EachWillBe

(* setup() leaves an entity that knows nothing. *)
LEMMA BootSettled ==
  ASSUME flash \in [Climates -> {HeatTemp, NaN}]
  PROVE  DOMAIN AtBoot = Climates /\ \A r \in Climates : Settled(AtBoot[r])
<1>1. ASSUME NEW r \in Climates PROVE Settled(AtBoot[r])
  <2> DEFINE b == Booted([saved |-> flash[r], lo |-> Floor, hi |-> Ceiling])
  <2>1. <<>> \in Seq(Commands)
    OBVIOUS
  <2>2. b \in EntitySet /\ b.out = <<>>
    BY <2>1 DEF Booted, EntitySet, Readable, Presets
  <2>3. b.mode = "HEAT" /\ \A p \in Presets : b.sp[p] = NaN
    BY DEF Booted
  <2>4. AtBoot[r] = b
    BY DEF AtBoot
  <2> HIDE DEF b
  <2> QED BY <2>2, <2>3, <2>4 DEF Settled, Known
<1> QED BY <1>1 DEF AtBoot

LEMMA CommitFlashKeeps ==
  ASSUME ChoiceInv, CommitFlash
  PROVE  ChoiceInv'
<1>1. \A w : (Waiting(w))' <=> Waiting(w)
  BY DEF CommitFlash, Waiting
<1>2. flash' \in [Climates -> {HeatTemp, NaN}]
  BY DEF CommitFlash, ChoiceInv, SelectTyped, Settled, Known, EntitySet
<1>3. SelectTyped'
  BY <1>2 DEF CommitFlash, ChoiceInv, SelectTyped
<1> QED BY <1>1, <1>3, SameWaiting DEF CommitFlash, ChoiceInv

LEMMA RebootKeeps ==
  ASSUME ChoiceInv, Reboot
  PROVE  ChoiceInv'
<1>1. /\ entity' = AtBoot /\ queue' = <<>> /\ op' = NoOp /\ op'.kind = "none" /\ op' \in OpSet
      /\ room' = room /\ flash' = flash
      /\ wish' = IF queue # <<>> \/ op.kind = "write" THEN None ELSE wish
      /\ used' \in [choices : Nat, losses : Nat, upsets : Nat]
  BY DEF Reboot, Spend, NoOp, OpSet, ChoiceInv, SelectTyped
<1>2. DOMAIN entity' = Climates /\ \A r \in Climates : Settled(entity'[r])
  BY <1>1, BootSettled DEF ChoiceInv, SelectTyped
<1>3. SelectTyped'
  BY <1>1, <1>2 DEF ChoiceInv, SelectTyped
<1>4. CASE queue # <<>> \/ op.kind = "write"
  BY <1>1, <1>3, <1>4 DEF ChoiceInv, OnlyTheChoice, EachWillBe
<1>5. CASE queue = <<>> /\ op.kind # "write"
  <2>1. \A w : (Waiting(w))' <=> Waiting(w)
    BY <1>1, <1>5 DEF Waiting
  <2> QED BY <1>1, <1>3, <1>5, <2>1, SameWaiting DEF ChoiceInv
<1> QED BY <1>4, <1>5

LEMMA InitKeeps ==
  ASSUME Init
  PROVE  ChoiceInv
<1>1. room \in [Climates -> RoomSet]
  <2> DEFINE start(h, a) ==
        [mode |-> Home,
         sp |-> [p \in Presets |-> CASE p = Home -> h [] p = Away -> a [] OTHER -> HeatTemp]]
  <2>1. \A h \in Settable, a \in Settable : start(h, a) \in RoomSet
    <3> SUFFICES ASSUME NEW h \in Settable, NEW a \in Settable PROVE start(h, a) \in RoomSet
      OBVIOUS
    <3> DEFINE f == [p \in Presets |-> CASE p = Home -> h [] p = Away -> a [] OTHER -> HeatTemp]
    <3>1. f \in [Presets -> Settable]
      BY PresetsAssumption DEF Presets, Settable
    <3>2. start(h, a) = [mode |-> Home, sp |-> f]
      OBVIOUS
    <3> HIDE DEF f
    <3>3. [mode |-> Home, sp |-> f] \in RoomSet
      BY <3>1 DEF RoomSet, Presets
    <3> QED BY <3>2, <3>3
  <2>2. room \in [Climates -> {start(h, a) : h \in {HeatTemp, Floor}, a \in AwayTemps}]
    BY DEF Init
  <2>3. AwayTemps \subseteq Settable
    BY SelectAssumption DEF Settable
  <2> HIDE DEF start
  <2>4. {start(h, a) : h \in {HeatTemp, Floor}, a \in AwayTemps} \subseteq RoomSet
    BY <2>1, <2>3 DEF Settable
  <2> QED BY <2>2, <2>4
<1>2. flash \in [Climates -> {HeatTemp, NaN}]
  BY SelectAssumption DEF Init
<1>3. DOMAIN entity = Climates /\ \A r \in Climates : Settled(entity[r])
  BY <1>2, BootSettled DEF Init
<1>4. op \in OpSet /\ op.kind = "none" /\ queue = <<>> /\ wish = None
      /\ used \in [choices : Nat, losses : Nat, upsets : Nat]
  BY DEF Init, OpSet, NoOp
<1> QED BY <1>1, <1>2, <1>3, <1>4 DEF ChoiceInv, SelectTyped, OnlyTheChoice, EachWillBe

-----------------------------------------------------------------------------
LEMMA ChoiceStep == ChoiceInv /\ [Next]_vars => ChoiceInv'
<1> SUFFICES ASSUME ChoiceInv, [Next]_vars PROVE ChoiceInv'
  OBVIOUS
<1>1. ASSUME NEW m \in Modes, Choose(m) PROVE ChoiceInv'
  BY <1>1, ChooseKeeps
<1>2. CASE Show
  BY <1>2, ShowKeeps
<1>3. CASE SendWrite
  BY <1>3, SendWriteKeeps
<1>4. CASE Serve
  BY <1>4, ServeKeeps
<1>5. CASE Deliver
  BY <1>5, DeliverKeeps
<1>6. CASE TimeOut
  BY <1>6, TimeOutKeeps
<1>7. ASSUME NEW r \in Climates, SendPoll(r) PROVE ChoiceInv'
  BY <1>7, SendPollKeeps
<1>8. ASSUME NEW r \in Climates, NEW m \in Presets, Edit(r, m) PROVE ChoiceInv'
  BY <1>8, EditKeeps
<1>9. CASE CommitFlash
  BY <1>9, CommitFlashKeeps
<1>10. CASE Reboot
  BY <1>10, RebootKeeps
<1>11. CASE UNCHANGED vars
  <2>1. \A w : (Waiting(w))' <=> Waiting(w)
    BY <1>11 DEF vars, Waiting
  <2>2. SelectTyped'
    BY <1>11 DEF vars, ChoiceInv, SelectTyped
  <2> QED BY <1>11, <2>1, <2>2, SameWaiting DEF vars, ChoiceInv
<1> QED BY <1>1, <1>2, <1>3, <1>4, <1>5, <1>6, <1>7, <1>8, <1>9, <1>10, <1>11 DEF Next

(* The choice under way, in every behaviour: only its writes wait, and     *)
(* each room either is as chosen or has a write waiting that makes it so.  *)
THEOREM ChoiceInvariant == Spec => []ChoiceInv
<1>1. Init => ChoiceInv
  BY InitKeeps
<1> QED BY <1>1, ChoiceStep, PTL DEF Spec

(* control() writes to every room, and no later poll takes that back: once *)
(* the writes of a choice made on up-to-date entities that could show it   *)
(* have been carried out, every room is in the mode chosen.                *)
THEOREM RoomsObey == Spec => []EveryRoomObeys
<1>1. ChoiceInv => EveryRoomObeys
  <2> SUFFICES ASSUME ChoiceInv, queue = <<>>, op.kind # "write", wish # None,
                      NEW r \in Climates
               PROVE  InMode(room[r], wish)
    BY DEF EveryRoomObeys
  <2>1. \A w : ~Waiting(w)
    BY DEF Waiting, Queued
  <2>2. room[r].mode = PresetOf(wish) /\ room[r].sp[PresetOf(wish)] = TargetOf(wish)
    BY <2>1 DEF ChoiceInv, EachWillBe, WillBe
  <2>3. Floor \in Nat /\ HeatTemp \in Nat /\ Floor + 5 < HeatTemp
    BY SelectAssumption
  <2>4. Floor <= Floor + 5 /\ HeatTemp > Floor + 5
    BY <2>3
  <2>5. CASE wish = "off"
    BY <2>2, <2>4, <2>5 DEF InMode, PresetOf, TargetOf
  <2>6. CASE wish # "off"
    BY <2>2, <2>4, <2>6 DEF InMode, PresetOf, TargetOf
  <2> QED BY <2>5, <2>6
<1> QED BY <1>1, ChoiceInvariant, PTL

(* "set_off/set_preset_mode update each climate synchronously, so loop()   *)
(* will agree": whether what control() publishes is what loop() computes,  *)
(* from the restart on, before the first poll and after it, depends on     *)
(* nothing but whether each entity can show the choice.                    *)
Agrees ==
  used'.choices # used.choices =>
    (Aggregate(entity') = shown' <=> ~\E r \in Climates : Unready(entity[r], shown'))
THEOREM ChoiceAgreesWithLoop == Spec => LoopAgrees
<1>1. ASSUME ChoiceInv, [Next]_vars PROVE [Agrees]_vars
  <2>1. ASSUME NEW m \in Modes, Choose(m) PROVE Agrees
    <3>1. \A r \in Climates : ActiveMode(entity'[r]) = m <=> ~Unready(entity[r], m)
      BY <1>1, <2>1, ChooseKeeps
    <3>2. 1 \in Climates
      BY SelectAssumption DEF Climates
    <3>3. Mixed # m
      BY NamesAssumption DEF Mixed, Modes, Presets
    <3>4. Aggregate(entity') = m <=> \A r \in Climates : ActiveMode(entity'[r]) = m
      BY <3>2, <3>3 DEF Aggregate
    <3>5. shown' = m
      BY <2>1 DEF Choose
    <3> QED BY <3>1, <3>4, <3>5 DEF Agrees
  <2>2. used \in [choices : Nat, losses : Nat, upsets : Nat]
    BY <1>1 DEF ChoiceInv, SelectTyped
  <2>3. CASE Show \/ SendWrite \/ Serve \/ Deliver \/ CommitFlash
    BY <2>3 DEF Show, SendWrite, Serve, Deliver, CommitFlash, Agrees
  <2>4. CASE TimeOut \/ Reboot
    BY <2>2, <2>4 DEF TimeOut, Reboot, Spend, Agrees
  <2>5. ASSUME NEW r \in Climates, SendPoll(r) \/ \E m \in Presets : Edit(r, m)
        PROVE  Agrees
    BY <2>2, <2>5 DEF SendPoll, Edit, Spend, Agrees
  <2> QED BY <1>1, <2>1, <2>3, <2>4, <2>5 DEF Next
<1> QED BY <1>1, ChoiceInvariant, PTL DEF Spec, LoopAgrees, Agrees
=============================================================================
