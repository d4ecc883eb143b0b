---------------------------- MODULE PollPlanProofs ----------------------------
(***************************************************************************)
(* What PollPlan's operators make of a configuration the schema lets       *)
(* through, by its members: which entities there are, which attributes are *)
(* registered, which items are polled.                                     *)
(***************************************************************************)
EXTENDS PollPlan, DataLemmas, FiniteSetTheorems

-----------------------------------------------------------------------------
(* What the entities are.                                                  *)

RoomConfigs ==
  [number : 1..SlotsPerController, controller : 1..3, floor : BOOLEAN,
   on : SUBSET RoomToggles]
SecondaryConfigs == [number : 2..3, on : SUBSET RailToggles]
Attributes == {"air_temp", "floor_temp", "error", "min", "max", "home", "away", "sleep",
               "floor_min", "floor_max", "out_slow", "out_med", "out_fast", "floor_mode",
               "battery", "mode", "control", "heatcool", "revision", "serial", "firmware",
               "model"}
Decodes == {"climate", "temp", "battery", "product", "verstr", "outputs", "floor_mode",
            "fault_room", "fault_rail", "hwver", "swver", "serial", "number", "problem"}
AnyEntity == [kind : {"climate", "sensor", "text", "number", "problem"}, idx : Int,
              attr : Attributes, decode : Decodes]

InRoom(room, e) ==
  LET idx == RoomIndex(room)
  IN  \/ e = Climate(idx)
      \/ "room_temperature" \in room.on /\ e = Sensor(idx, "air_temp", "temp")
      \/ "setpoint_limits" \in room.on /\ (e = Number(idx, "min") \/ e = Number(idx, "max"))
      \/ "battery" \in room.on /\ e = Sensor(idx, "battery", "battery")
      \/ "model" \in room.on /\ e = Text(idx, "model", "product")
      \/ "firmware" \in room.on /\ e = Text(idx, "firmware", "verstr")
      \/ "outputs" \in room.on /\ e = Text(idx, "out_slow", "outputs")
      \/ "fault" \in room.on /\ (e = Problem(idx) \/ e = Text(idx, "error", "fault_room"))
      \/ room.floor /\ (\/ e = Sensor(idx, "floor_temp", "temp")
                        \/ e = Text(idx, "floor_mode", "floor_mode")
                        \/ e = Number(idx, "floor_min") \/ e = Number(idx, "floor_max"))

InController(idx, on, e) ==
  \/ "firmware" \in on /\ e = Text(idx, "firmware", "verstr")
  \/ "hw_version" \in on /\ e = Text(idx, "revision", "hwver")
  \/ "sw_version" \in on /\ e = Text(idx, "revision", "swver")
  \/ "serial" \in on /\ e = Text(0, "serial", "serial")
  \/ "fault" \in on /\ (e = Problem(idx) \/ e = Text(idx, "error", "fault_rail"))

InHouse(c, e) ==
  \/ \E i \in DOMAIN c.rooms : InRoom(c.rooms[i], e)
  \/ InController(1, c.primary, e)
  \/ \E i \in DOMAIN c.secondaries :
       InController(c.secondaries[i].number, c.secondaries[i].on, e)

LEMMA RoomIndexed ==
  ASSUME NEW room \in RoomConfigs PROVE RoomIndex(room) \in 49..93
<1>1. room.controller \in 1..3 /\ room.number \in 1..15
  BY DEF RoomConfigs, SlotsPerController
<1>2. CASE room.controller = 1
  BY <1>1, <1>2 DEF RoomIndex, RoomIdxBase, SlotsPerController
<1>3. CASE room.controller = 2
  BY <1>1, <1>3 DEF RoomIndex, RoomIdxBase, SlotsPerController
<1>4. CASE room.controller = 3
  BY <1>1, <1>4 DEF RoomIndex, RoomIdxBase, SlotsPerController
<1> QED BY <1>1, <1>2, <1>3, <1>4

LEMMA EntityTyped ==
  ASSUME NEW idx \in Int, NEW a \in Attributes, NEW d \in Decodes
  PROVE  /\ Climate(idx) \in AnyEntity /\ Problem(idx) \in AnyEntity
         /\ Sensor(idx, a, d) \in AnyEntity /\ Text(idx, a, d) \in AnyEntity
         /\ Number(idx, a) \in AnyEntity
<1>1. Climate(idx) \in AnyEntity
  BY DEF AnyEntity, Climate, Attributes, Decodes
<1>2. Problem(idx) \in AnyEntity
  BY DEF AnyEntity, Problem, Attributes, Decodes
<1>3. Sensor(idx, a, d) \in AnyEntity
  BY DEF AnyEntity, Sensor
<1>4. Text(idx, a, d) \in AnyEntity
  BY DEF AnyEntity, Text
<1>5. Number(idx, a) \in AnyEntity
  BY DEF AnyEntity, Number, Decodes
<1> QED BY <1>1, <1>2, <1>3, <1>4, <1>5

(* One more piece of a list, there when a toggle is on. *)
LEMMA ConcatWhen ==
  ASSUME NEW X, NEW s \in Seq(X), NEW t \in Seq(X), NEW toggle, NEW on
  PROVE  /\ s \o When(toggle \in on, t) \in Seq(X)
         /\ \A x : Has(s \o When(toggle \in on, t), x)
                     <=> Has(s, x) \/ (toggle \in on /\ Has(t, x))
<1>1. When(toggle \in on, t) \in Seq(X)
  BY DEF When
<1>2. \A x : Has(When(toggle \in on, t), x) <=> toggle \in on /\ Has(t, x)
  BY DEF When, Has
<1>3. PICK u \in Seq(X) : u = When(toggle \in on, t)
  BY <1>1
<1>4. s \o u \in Seq(X)
  BY ConcatProperties
<1>5. \A x : Has(s \o u, x) <=> Has(s, x) \/ Has(u, x)
  BY ConcatHas
<1> QED BY <1>2, <1>3, <1>4, <1>5

LEMMA ShortHas ==
  ASSUME NEW X, NEW a \in X, NEW b \in X
  PROVE  /\ <<a>> \in Seq(X) /\ \A x : Has(<<a>>, x) <=> x = a
         /\ <<a, b>> \in Seq(X) /\ \A x : Has(<<a, b>>, x) <=> x = a \/ x = b
<1>1. <<a>> \in Seq(X) /\ <<a, b>> \in Seq(X)
  OBVIOUS
<1>2. DOMAIN <<a>> = {1} /\ DOMAIN <<a, b>> = {1, 2}
  OBVIOUS
<1>3. \A x : Has(<<a>>, x) <=> x = a
  BY <1>2 DEF Has
<1>4. \A x : Has(<<a, b>>, x) <=> x = a \/ x = b
  BY <1>2 DEF Has
<1> QED BY <1>1, <1>3, <1>4

LEMMA AddOne ==
  ASSUME NEW X, NEW s \in Seq(X), NEW a \in X, NEW toggle, NEW on
  PROVE  /\ s \o When(toggle \in on, <<a>>) \in Seq(X)
         /\ \A x : Has(s \o When(toggle \in on, <<a>>), x)
                     <=> Has(s, x) \/ (toggle \in on /\ x = a)
<1>1. PICK t \in Seq(X) : t = <<a>> /\ \A x : Has(t, x) <=> x = a
  BY ShortHas
<1>2. /\ s \o When(toggle \in on, t) \in Seq(X)
      /\ \A x : Has(s \o When(toggle \in on, t), x)
                     <=> Has(s, x) \/ (toggle \in on /\ Has(t, x))
  BY ConcatWhen
<1> QED BY <1>1, <1>2

LEMMA AddTwo ==
  ASSUME NEW X, NEW s \in Seq(X), NEW a \in X, NEW b \in X, NEW toggle, NEW on
  PROVE  /\ s \o When(toggle \in on, <<a, b>>) \in Seq(X)
         /\ \A x : Has(s \o When(toggle \in on, <<a, b>>), x)
                     <=> Has(s, x) \/ (toggle \in on /\ (x = a \/ x = b))
<1>1. PICK t : t = <<a, b>>
  OBVIOUS
<1>2. t \in Seq(X) /\ \A x : Has(t, x) <=> x = a \/ x = b
  BY <1>1, ShortHas
<1>3. /\ s \o When(toggle \in on, t) \in Seq(X)
      /\ \A x : Has(s \o When(toggle \in on, t), x)
                     <=> Has(s, x) \/ (toggle \in on /\ Has(t, x))
  BY <1>2, ConcatWhen
<1> QED BY <1>1, <1>2, <1>3

LEMMA RoomEntitiesHold ==
  ASSUME NEW room \in RoomConfigs
  PROVE  /\ RoomEntities(room) \in Seq(AnyEntity)
         /\ \A e : Has(RoomEntities(room), e) <=> InRoom(room, e)
<1>1. PICK idx \in Int : idx = RoomIndex(room)
  BY RoomIndexed
<1> DEFINE On(toggle, s) == When(toggle \in room.on, s)
           s0 == <<Climate(idx)>>
           s1 == s0 \o On("room_temperature", <<Sensor(idx, "air_temp", "temp")>>)
           s2 == s1 \o On("setpoint_limits", <<Number(idx, "min"), Number(idx, "max")>>)
           s3 == s2 \o On("battery", <<Sensor(idx, "battery", "battery")>>)
           s4 == s3 \o On("model", <<Text(idx, "model", "product")>>)
           s5 == s4 \o On("firmware", <<Text(idx, "firmware", "verstr")>>)
           s6 == s5 \o On("outputs", <<Text(idx, "out_slow", "outputs")>>)
           s7 == s6 \o On("fault", <<Problem(idx), Text(idx, "error", "fault_room")>>)
           s8 == s7 \o When(room.floor,
                   <<Sensor(idx, "floor_temp", "temp"), Text(idx, "floor_mode", "floor_mode"),
                     Number(idx, "floor_min"), Number(idx, "floor_max")>>)
<1>2. RoomEntities(room) = s8
  BY <1>1 DEF RoomEntities
<1>3. room.floor \in BOOLEAN
  BY DEF RoomConfigs
<1>4. /\ Climate(idx) \in AnyEntity /\ Problem(idx) \in AnyEntity
      /\ Sensor(idx, "air_temp", "temp") \in AnyEntity
      /\ Sensor(idx, "floor_temp", "temp") \in AnyEntity
      /\ Sensor(idx, "battery", "battery") \in AnyEntity
      /\ Text(idx, "model", "product") \in AnyEntity
      /\ Text(idx, "firmware", "verstr") \in AnyEntity
      /\ Text(idx, "out_slow", "outputs") \in AnyEntity
      /\ Text(idx, "error", "fault_room") \in AnyEntity
      /\ Text(idx, "floor_mode", "floor_mode") \in AnyEntity
      /\ Number(idx, "min") \in AnyEntity /\ Number(idx, "max") \in AnyEntity
      /\ Number(idx, "floor_min") \in AnyEntity /\ Number(idx, "floor_max") \in AnyEntity
  BY EntityTyped DEF Attributes, Decodes
<1>10. s0 \in Seq(AnyEntity) /\ \A e : Has(s0, e) <=> e = Climate(idx)
  <2>1. PICK a \in AnyEntity : a = Climate(idx)
    BY <1>4
  <2>2. <<a>> \in Seq(AnyEntity) /\ \A x : Has(<<a>>, x) <=> x = a
    BY ShortHas
  <2> QED BY <2>1, <2>2
<1> HIDE DEF s0
<1>11. s1 \in Seq(AnyEntity)
  BY <1>4, <1>10, AddOne
<1>21. \A e : Has(s1, e) <=> Has(s0, e) \/ ("room_temperature" \in room.on
                                             /\ e = Sensor(idx, "air_temp", "temp"))
  BY <1>4, <1>10, AddOne
<1> HIDE DEF s1
<1>12. s2 \in Seq(AnyEntity)
  BY <1>4, <1>11, AddTwo
<1>22. \A e : Has(s2, e) <=> Has(s1, e) \/ ("setpoint_limits" \in room.on
                                             /\ (e = Number(idx, "min") \/ e = Number(idx, "max")))
  BY <1>4, <1>11, AddTwo
<1> HIDE DEF s2
<1>13. s3 \in Seq(AnyEntity)
  BY <1>4, <1>12, AddOne
<1>23. \A e : Has(s3, e) <=> Has(s2, e) \/ ("battery" \in room.on
                                             /\ e = Sensor(idx, "battery", "battery"))
  BY <1>4, <1>12, AddOne
<1> HIDE DEF s3
<1>14. s4 \in Seq(AnyEntity)
  BY <1>4, <1>13, AddOne
<1>24. \A e : Has(s4, e) <=> Has(s3, e) \/ ("model" \in room.on
                                             /\ e = Text(idx, "model", "product"))
  BY <1>4, <1>13, AddOne
<1> HIDE DEF s4
<1>15. s5 \in Seq(AnyEntity)
  BY <1>4, <1>14, AddOne
<1>25. \A e : Has(s5, e) <=> Has(s4, e) \/ ("firmware" \in room.on
                                             /\ e = Text(idx, "firmware", "verstr"))
  BY <1>4, <1>14, AddOne
<1> HIDE DEF s5
<1>16. s6 \in Seq(AnyEntity)
  BY <1>4, <1>15, AddOne
<1>26. \A e : Has(s6, e) <=> Has(s5, e) \/ ("outputs" \in room.on
                                             /\ e = Text(idx, "out_slow", "outputs"))
  BY <1>4, <1>15, AddOne
<1> HIDE DEF s6
<1>17. s7 \in Seq(AnyEntity)
  BY <1>4, <1>16, AddTwo
<1>27. \A e : Has(s7, e) <=> Has(s6, e) \/ ("fault" \in room.on
                                  /\ (e = Problem(idx) \/ e = Text(idx, "error", "fault_room")))
  BY <1>4, <1>16, AddTwo
<1> HIDE DEF s7
<1>18. PICK t : t = <<Sensor(idx, "floor_temp", "temp"), Text(idx, "floor_mode", "floor_mode"),
                     Number(idx, "floor_min"), Number(idx, "floor_max")>>
  OBVIOUS
<1>19. /\ t \in Seq(AnyEntity)
       /\ \A e : Has(t, e) <=> \/ e = Sensor(idx, "floor_temp", "temp")
                               \/ e = Text(idx, "floor_mode", "floor_mode")
                               \/ e = Number(idx, "floor_min")
                               \/ e = Number(idx, "floor_max")
  <2>1. PICK a \in AnyEntity, b \in AnyEntity, c \in AnyEntity, d \in AnyEntity :
          /\ a = Sensor(idx, "floor_temp", "temp") /\ b = Text(idx, "floor_mode", "floor_mode")
          /\ c = Number(idx, "floor_min") /\ d = Number(idx, "floor_max")
    BY <1>4
  <2>2. /\ <<a, b, c, d>> \in Seq(AnyEntity)
        /\ DOMAIN <<a, b, c, d>> = {1, 2, 3, 4}
    OBVIOUS
  <2>3. t = <<a, b, c, d>>
    BY <1>18, <2>1
  <2>4. t \in Seq(AnyEntity) /\ \A x : Has(t, x) <=> x = a \/ x = b \/ x = c \/ x = d
    BY <2>2, <2>3 DEF Has
  <2> QED BY <2>1, <2>4
<1>28. s8 = s7 \o When(TRUE \in {room.floor}, t)
  <2>1. CASE room.floor = TRUE
    BY <1>18, <2>1 DEF When
  <2>2. CASE room.floor = FALSE
    BY <1>18, <2>2 DEF When
  <2> QED BY <1>3, <2>1, <2>2
<1> HIDE DEF s8
<1>30. s8 \in Seq(AnyEntity)
  BY <1>17, <1>19, <1>28, ConcatWhen
<1>31. \A e : Has(s8, e) <=> Has(s7, e) \/ (TRUE \in {room.floor} /\ Has(t, e))
  BY <1>17, <1>19, <1>28, ConcatWhen
<1>29. ASSUME NEW e PROVE Has(s8, e) <=> InRoom(room, e)
  <2>1. Has(s8, e) <=> Has(s7, e) \/ (room.floor /\ Has(t, e))
    BY <1>3, <1>31
  <2> QED BY <1>1, <1>10, <1>19, <1>21, <1>22, <1>23, <1>24, <1>25, <1>26, <1>27, <2>1
          DEF InRoom
<1> QED BY <1>2, <1>30, <1>29

LEMMA ControllerEntitiesHold ==
  ASSUME NEW idx \in Int, NEW on
  PROVE  /\ ControllerEntities(idx, on) \in Seq(AnyEntity)
         /\ \A e : Has(ControllerEntities(idx, on), e) <=> InController(idx, on, e)
<1> DEFINE On(toggle, s) == When(toggle \in on, s)
           s0 == On("firmware", <<Text(idx, "firmware", "verstr")>>)
           s1 == s0 \o On("hw_version", <<Text(idx, "revision", "hwver")>>)
           s2 == s1 \o On("sw_version", <<Text(idx, "revision", "swver")>>)
           s3 == s2 \o On("serial", <<Text(0, "serial", "serial")>>)
           s4 == s3 \o On("fault", <<Problem(idx), Text(idx, "error", "fault_rail")>>)
<1>1. ControllerEntities(idx, on) = s4
  BY DEF ControllerEntities
<1>4. /\ Problem(idx) \in AnyEntity
      /\ Text(idx, "firmware", "verstr") \in AnyEntity
      /\ Text(idx, "revision", "hwver") \in AnyEntity
      /\ Text(idx, "revision", "swver") \in AnyEntity
      /\ Text(0, "serial", "serial") \in AnyEntity
      /\ Text(idx, "error", "fault_rail") \in AnyEntity
  BY EntityTyped, 0 \in Int DEF Attributes, Decodes
<1>10. /\ s0 \in Seq(AnyEntity)
       /\ \A e : Has(s0, e) <=> "firmware" \in on /\ e = Text(idx, "firmware", "verstr")
  <2>1. PICK a \in AnyEntity : a = Text(idx, "firmware", "verstr")
    BY <1>4
  <2>2. <<a>> \in Seq(AnyEntity) /\ \A x : Has(<<a>>, x) <=> x = a
    BY ShortHas
  <2>3. CASE "firmware" \in on
    <3>1. s0 = <<a>>
      BY <2>1, <2>3 DEF When
    <3> HIDE DEF s0
    <3>2. s0 \in Seq(AnyEntity) /\ \A e : Has(s0, e) <=> e = a
      BY <2>2, <3>1
    <3> QED BY <2>1, <2>3, <3>2
  <2>4. CASE "firmware" \notin on
    <3>1. s0 = <<>> /\ DOMAIN <<>> = {}
      BY <2>4 DEF When
    <3> HIDE DEF s0
    <3>2. s0 \in Seq(AnyEntity) /\ \A e : ~Has(s0, e)
      BY <3>1 DEF Has
    <3> QED BY <2>4, <3>2
  <2> QED BY <2>3, <2>4
<1> HIDE DEF s0
<1>11. s1 \in Seq(AnyEntity)
  BY <1>4, <1>10, AddOne
<1>21. \A e : Has(s1, e) <=> Has(s0, e) \/ ("hw_version" \in on
                                             /\ e = Text(idx, "revision", "hwver"))
  BY <1>4, <1>10, AddOne
<1> HIDE DEF s1
<1>12. s2 \in Seq(AnyEntity)
  BY <1>4, <1>11, AddOne
<1>22. \A e : Has(s2, e) <=> Has(s1, e) \/ ("sw_version" \in on
                                             /\ e = Text(idx, "revision", "swver"))
  BY <1>4, <1>11, AddOne
<1> HIDE DEF s2
<1>13. s3 \in Seq(AnyEntity)
  BY <1>4, <1>12, AddOne
<1>23. \A e : Has(s3, e) <=> Has(s2, e) \/ ("serial" \in on
                                             /\ e = Text(0, "serial", "serial"))
  BY <1>4, <1>12, AddOne
<1> HIDE DEF s3
<1>14. s4 \in Seq(AnyEntity)
  BY <1>4, <1>13, AddTwo
<1>24. \A e : Has(s4, e) <=> Has(s3, e) \/ ("fault" \in on
                                  /\ (e = Problem(idx) \/ e = Text(idx, "error", "fault_rail")))
  BY <1>4, <1>13, AddTwo
<1> HIDE DEF s4
<1>15. ASSUME NEW e PROVE Has(s4, e) <=> InController(idx, on, e)
  BY <1>10, <1>21, <1>22, <1>23, <1>24 DEF InController
<1> QED BY <1>1, <1>14, <1>15

LEMMA ConfigurationParts ==
  ASSUME NEW c \in Configurations
  PROVE  /\ c.rooms \in Seq(RoomConfigs) /\ c.secondaries \in Seq(SecondaryConfigs)
         /\ \A i \in DOMAIN c.rooms : c.rooms[i] \in RoomConfigs
         /\ \A i \in DOMAIN c.secondaries : c.secondaries[i] \in SecondaryConfigs
                                            /\ c.secondaries[i].number \in 2..3
<1>1. c.rooms \in Seq(RoomConfigs) /\ c.secondaries \in Seq(SecondaryConfigs)
  BY DEF Configurations, RoomConfigs, SecondaryConfigs
<1>2. \A i \in DOMAIN c.secondaries : c.secondaries[i] \in SecondaryConfigs
  BY <1>1
<1>3. \A s \in SecondaryConfigs : s.number \in 2..3
  BY DEF SecondaryConfigs
<1> QED BY <1>1, <1>2, <1>3

LEMMA EntitiesHold ==
  ASSUME NEW c \in Configurations
  PROVE  /\ Entities(c) \in Seq(AnyEntity)
         /\ \A e : Has(Entities(c), e) <=> InHouse(c, e)
<1> DEFINE rooms == [i \in DOMAIN c.rooms |-> RoomEntities(c.rooms[i])]
           others == [i \in DOMAIN c.secondaries |->
                        ControllerEntities(c.secondaries[i].number, c.secondaries[i].on)]
           first == ControllerEntities(1, c.primary)
<1>1. Entities(c) = (FlattenSeq(rooms) \o first) \o FlattenSeq(others)
  BY DEF Entities
<1>2. /\ \A i \in DOMAIN c.rooms : c.rooms[i] \in RoomConfigs
      /\ \A i \in DOMAIN c.secondaries : c.secondaries[i].number \in 2..3
      /\ \E n \in Nat : DOMAIN c.rooms = 1..n
      /\ \E n \in Nat : DOMAIN c.secondaries = 1..n
  <2>1. c.rooms \in Seq(RoomConfigs) /\ c.secondaries \in Seq(SecondaryConfigs)
    BY ConfigurationParts
  <2>2. Len(c.rooms) \in Nat /\ DOMAIN c.rooms = 1..Len(c.rooms)
        /\ Len(c.secondaries) \in Nat /\ DOMAIN c.secondaries = 1..Len(c.secondaries)
    BY <2>1
  <2> QED BY <2>2, ConfigurationParts
<1>3. \A i \in DOMAIN c.rooms : /\ rooms[i] \in Seq(AnyEntity)
                                /\ \A e : Has(rooms[i], e) <=> InRoom(c.rooms[i], e)
  BY <1>2, RoomEntitiesHold
<1>4. \A i \in DOMAIN c.secondaries :
        /\ others[i] \in Seq(AnyEntity)
        /\ \A e : Has(others[i], e)
             <=> InController(c.secondaries[i].number, c.secondaries[i].on, e)
  <2> TAKE i \in DOMAIN c.secondaries
  <2>1. c.secondaries[i].number \in Int
    BY <1>2
  <2> QED BY <2>1, ControllerEntitiesHold
<1>5. DOMAIN rooms = DOMAIN c.rooms /\ DOMAIN others = DOMAIN c.secondaries
  OBVIOUS
<1>6. first \in Seq(AnyEntity) /\ \A e : Has(first, e) <=> InController(1, c.primary, e)
  BY ControllerEntitiesHold
<1>7. rooms \in Seq(Seq(AnyEntity))
  <2>1. PICK n \in Nat : DOMAIN c.rooms = 1..n
    BY <1>2
  <2>2. rooms \in [1..n -> Seq(AnyEntity)]
    BY <1>3, <2>1
  <2> QED BY <2>2, SeqDef, ZenonT(60)
<1>8. others \in Seq(Seq(AnyEntity))
  <2>1. PICK n \in Nat : DOMAIN c.secondaries = 1..n
    BY <1>2
  <2>2. others \in [1..n -> Seq(AnyEntity)]
    BY <1>4, <2>1
  <2> QED BY <2>2, SeqDef, ZenonT(60)
<1> HIDE DEF rooms, others, first
<1>9. /\ FlattenSeq(rooms) \in Seq(AnyEntity)
      /\ \A e : Has(FlattenSeq(rooms), e) <=> \E i \in DOMAIN c.rooms : InRoom(c.rooms[i], e)
  BY <1>3, <1>5, <1>7, FlattenContents
<1>10. /\ FlattenSeq(others) \in Seq(AnyEntity)
       /\ \A e : Has(FlattenSeq(others), e)
            <=> \E i \in DOMAIN c.secondaries :
                  InController(c.secondaries[i].number, c.secondaries[i].on, e)
  BY <1>4, <1>5, <1>8, FlattenContents
<1>11. PICK f \in Seq(AnyEntity), g \in Seq(AnyEntity) :
         f = FlattenSeq(rooms) /\ g = FlattenSeq(others)
  BY <1>9, <1>10
<1>12. f \o first \in Seq(AnyEntity) /\ \A e : Has(f \o first, e) <=> Has(f, e) \/ Has(first, e)
  BY <1>6, ConcatHas, ConcatProperties
<1>13. PICK h \in Seq(AnyEntity) : h = f \o first
  BY <1>12
<1>14. h \o g \in Seq(AnyEntity) /\ \A e : Has(h \o g, e) <=> Has(h, e) \/ Has(g, e)
  BY ConcatHas, ConcatProperties
<1>15. Entities(c) = h \o g
  BY <1>1, <1>11, <1>13
<1>16. ASSUME NEW e PROVE Has(Entities(c), e) <=> InHouse(c, e)
  BY <1>6, <1>9, <1>10, <1>11, <1>12, <1>13, <1>14, <1>15 DEF InHouse
<1> QED BY <1>14, <1>15, <1>16

-----------------------------------------------------------------------------
(* What is first seen: each member once.                                   *)

PushNew(seen, x, S) == IF x \notin S \/ Contains(seen, x) THEN seen ELSE Append(seen, x)

LEMMA PushedNew ==
  ASSUME NEW X, NEW seen \in Seq(X), NEW x \in X, NEW S, IsInjective(seen)
  PROVE  /\ PushNew(seen, x, S) \in Seq(X) /\ IsInjective(PushNew(seen, x, S))
         /\ \A y : Has(PushNew(seen, x, S), y) <=> Has(seen, y) \/ (y = x /\ x \in S)
<1>1. Contains(seen, x) <=> Has(seen, x)
  BY DEF Contains, Has
<1>2. CASE x \notin S \/ Has(seen, x)
  <2>1. PushNew(seen, x, S) = seen
    BY <1>1, <1>2 DEF PushNew
  <2>2. ASSUME NEW y PROVE Has(seen, y) <=> Has(seen, y) \/ (y = x /\ x \in S)
    BY <1>2
  <2> QED BY <2>1, <2>2
<1>3. CASE x \in S /\ ~Has(seen, x)
  <2>1. PICK t \in Seq(X) : t = Append(seen, x)
    BY AppendProperties
  <2>2. PushNew(seen, x, S) = t
    BY <1>1, <1>3, <2>1 DEF PushNew
  <2>3. /\ DOMAIN seen = 1..Len(seen) /\ Len(seen) \in Nat
        /\ DOMAIN t = 1..(Len(seen) + 1)
        /\ t[Len(seen) + 1] = x /\ \A i \in 1..Len(seen) : t[i] = seen[i]
    BY <2>1, AppendProperties
  <2>4. IsInjective(t)
    <3>1. \A i \in 1..Len(seen) : seen[i] # x
      BY <1>3, <2>3 DEF Has
    <3> QED BY <2>3, <3>1 DEF IsInjective
  <2>5. ASSUME NEW y PROVE Has(t, y) <=> Has(seen, y) \/ y = x
    BY <2>3 DEF Has
  <2> QED BY <1>3, <2>2, <2>4, <2>5
<1> QED BY <1>2, <1>3

LEMMA FirstSeenFacts ==
  ASSUME NEW X, NEW s \in Seq(X), NEW S
  PROVE  /\ FirstSeen(s, S) \in Seq(X) /\ IsInjective(FirstSeen(s, S))
         /\ \A x : Has(FirstSeen(s, S), x) <=> x \in S /\ Has(s, x)
<1> DEFINE n == Len(s)
           D == {t \in Seq(X) : IsInjective(t)}
           F == [p \in D \X (1..n) |-> PushNew(p[1], s[p[2]], S)]
<1>1. n \in Nat /\ DOMAIN s = 1..n /\ \A k \in 1..n : s[k] \in X
  OBVIOUS
<1>2. /\ F \in [D \X (1..n) -> D]
      /\ \A t \in D, k \in 1..n : F[<<t, k>>] = PushNew(t, s[k], S)
  <2>1. \A t \in D, k \in 1..n : PushNew(t, s[k], S) \in D
    BY <1>1, PushedNew
  <2> QED BY <2>1
<1>3. <<>> \in D
  BY DEF IsInjective
<1> HIDE DEF F
<1>4. PICK h : FoldsOver(h, D, <<>>, F, n)
  BY <1>1, <1>2, <1>3, FoldExists
<1>5. h = [i \in SUBSET (DOMAIN s) |->
             IF i = {} THEN <<>> ELSE PushNew(h[i \ {Max(i)}], s[Max(i)], S)]
  <2>1. h = [i \in SUBSET (1..n) |-> h[i]]
    BY <1>4 DEF FoldsOver
  <2>2. ASSUME NEW i \in SUBSET (1..n)
        PROVE  h[i] = IF i = {} THEN <<>> ELSE PushNew(h[i \ {Max(i)}], s[Max(i)], S)
    <3>1. CASE i = {}
      BY <1>4, <3>1 DEF FoldsOver
    <3>2. CASE i # {}
      <4>1. Max(i) \in 1..n /\ i \ {Max(i)} \in SUBSET (1..n)
        BY <1>1, <3>2, MaxIsMember
      <4>2. h[i \ {Max(i)}] \in D
        BY <1>4, <4>1 DEF FoldsOver
      <4>3. h[i] = F[<<h[i \ {Max(i)}], Max(i)>>]
        BY <1>4, <3>2 DEF FoldsOver
      <4> QED BY <1>2, <3>2, <4>1, <4>2, <4>3
    <3> QED BY <3>1, <3>2
  <2> QED BY <1>1, <2>1, <2>2
<1> DEFINE it == CHOOSE g : g = [i \in SUBSET (DOMAIN s) |->
                    IF i = {} THEN <<>> ELSE PushNew(g[i \ {Max(i)}], s[Max(i)], S)]
<1>6. it = [i \in SUBSET (DOMAIN s) |->
              IF i = {} THEN <<>> ELSE PushNew(it[i \ {Max(i)}], s[Max(i)], S)]
  BY <1>5
<1>7. FirstSeen(s, S) = it[DOMAIN s]
  BY DEF FirstSeen, FoldLeft, MapThenFoldSet, PushNew
<1> HIDE DEF it
<1>8. \A i \in SUBSET (1..n) :
        it[i] = IF i = {} THEN <<>> ELSE PushNew(it[i \ {Max(i)}], s[Max(i)], S)
  BY <1>1, <1>6
<1> DEFINE Good(k) == /\ it[1..k] \in D
                      /\ \A x : Has(it[1..k], x) <=> x \in S /\ \E i \in 1..k : s[i] = x
           T == {k \in Nat : k <= n => Good(k)}
<1>9. 0 \in T
  <2>1. 1..0 = {} /\ {} \in SUBSET (1..n) /\ DOMAIN <<>> = {}
    OBVIOUS
  <2>2. it[1..0] = <<>>
    BY <1>8, <2>1
  <2> QED BY <1>3, <2>1, <2>2 DEF Has
<1>10. ASSUME NEW k \in Nat, k + 1 <= n, Good(k) PROVE Good(k + 1)
  <2>1. /\ 1..(k + 1) \in SUBSET (1..n) /\ k + 1 \in 1..(k + 1) /\ 1..(k + 1) # {}
        /\ (1..(k + 1)) \ {k + 1} = 1..k
    <3>1. \A i \in 1..(k + 1) : i \in 1..n
      BY <1>1, <1>10
    <3>2. k + 1 \in 1..(k + 1) /\ (1..(k + 1)) \ {k + 1} = 1..k
      BY <1>10
    <3> QED BY <3>1, <3>2
  <2>2. Max(1..(k + 1)) = k + 1
    BY <2>1, MaxOfRange
  <2>3. it[1..(k + 1)] = PushNew(it[1..k], s[k + 1], S)
    BY <1>8, <2>1, <2>2
  <2>4. PICK seen \in Seq(X) : seen = it[1..k] /\ IsInjective(seen)
    BY <1>10
  <2>5. PICK x \in X : x = s[k + 1]
    BY <1>1, <2>1
  <2>6. /\ PushNew(seen, x, S) \in Seq(X) /\ IsInjective(PushNew(seen, x, S))
        /\ \A y : Has(PushNew(seen, x, S), y) <=> Has(seen, y) \/ (y = x /\ x \in S)
    BY <2>4, PushedNew
  <2>7. \A i : i \in 1..(k + 1) <=> i \in 1..k \/ i = k + 1
    BY <1>10
  <2>8. ASSUME NEW y PROVE Has(it[1..(k + 1)], y) <=> y \in S /\ \E i \in 1..(k + 1) : s[i] = y
    <3>1. Has(seen, y) <=> y \in S /\ \E i \in 1..k : s[i] = y
      BY <1>10, <2>4
    <3> QED BY <2>3, <2>4, <2>5, <2>6, <2>7, <3>1
  <2> QED BY <2>3, <2>4, <2>5, <2>6, <2>8
<1>11. \A k \in Nat : k \in T => k + 1 \in T
  <2>1. \A k \in Nat : k + 1 <= n => k <= n
    BY <1>1
  <2> HIDE DEF Good
  <2> QED BY <1>10, <2>1
<1> HIDE DEF T
<1>12. n \in T
  BY <1>1, <1>9, <1>11, SetInduction
<1>13. Good(n)
  BY <1>1, <1>12 DEF T
<1> QED BY <1>1, <1>7, <1>13 DEF Has

-----------------------------------------------------------------------------
(* The attributes of an item.                                              *)

AnyReg == [idx : Int, attr : Attributes, fast : BOOLEAN]

LEMMA AttrsOfFacts ==
  ASSUME NEW regs \in Seq(AnyReg), NEW S, NEW idx \in Int, NEW fast \in BOOLEAN,
         \A r \in S : r.idx = idx /\ r.fast = fast
  PROVE  /\ AttrsOf(regs, S) \in Seq(Attributes) /\ IsInjective(AttrsOf(regs, S))
         /\ \A a : Has(AttrsOf(regs, S), a)
                     <=> Reg(idx, a, fast) \in S /\ Has(regs, Reg(idx, a, fast))
<1>1. PICK picked \in Seq(AnyReg) :
        /\ picked = FirstSeen(regs, S) /\ IsInjective(picked)
        /\ \A r : Has(picked, r) <=> r \in S /\ Has(regs, r)
  BY FirstSeenFacts
<1>2. PICK n \in Nat : DOMAIN picked = 1..n /\ \A i \in 1..n : picked[i] \in AnyReg
  <2>1. DOMAIN picked = 1..Len(picked) /\ Len(picked) \in Nat
        /\ \A i \in 1..Len(picked) : picked[i] \in AnyReg
    BY ElementOfSeq, LenProperties
  <2> QED BY <2>1
<1>3. PICK attrs : attrs = [i \in 1..n |-> picked[i].attr]
  OBVIOUS
<1>4. AttrsOf(regs, S) = attrs
  BY <1>1, <1>2, <1>3 DEF AttrsOf
<1>5. \A r \in AnyReg : r.attr \in Attributes
  BY DEF AnyReg
<1>6. attrs \in Seq(Attributes)
  BY <1>2, <1>3, <1>5
<1>7. \A i \in 1..n : picked[i] \in S /\ Has(regs, picked[i])
  BY <1>1, <1>2 DEF Has
<1>8. \A r \in AnyReg : r \in S => r = Reg(idx, r.attr, fast)
  BY DEF AnyReg, Reg
<1>9. \A i \in 1..n : picked[i] = Reg(idx, attrs[i], fast)
  BY <1>2, <1>3, <1>7, <1>8
<1>10. IsInjective(attrs)
  <2>1. DOMAIN attrs = 1..n
    BY <1>3
  <2>2. ASSUME NEW i \in 1..n, NEW j \in 1..n, attrs[i] = attrs[j] PROVE i = j
    <3>1. picked[i] = picked[j]
      BY <1>9, <2>2
    <3> QED BY <1>1, <1>2, <3>1 DEF IsInjective
  <2> QED BY <2>1, <2>2 DEF IsInjective
<1>11. ASSUME NEW a
       PROVE  Has(attrs, a) <=> Reg(idx, a, fast) \in S /\ Has(regs, Reg(idx, a, fast))
  <2>1. ASSUME Has(attrs, a) PROVE Reg(idx, a, fast) \in S /\ Has(regs, Reg(idx, a, fast))
    <3>1. PICK i \in 1..n : attrs[i] = a
      BY <1>3, <2>1 DEF Has
    <3> QED BY <1>7, <1>9, <3>1
  <2>2. ASSUME Reg(idx, a, fast) \in S /\ Has(regs, Reg(idx, a, fast)) PROVE Has(attrs, a)
    <3>1. Has(picked, Reg(idx, a, fast))
      BY <1>1, <2>2
    <3>2. PICK i \in 1..n : picked[i] = Reg(idx, a, fast)
      BY <1>2, <3>1 DEF Has
    <3>3. attrs[i] = a
      BY <1>3, <3>2 DEF Reg
    <3> QED BY <1>3, <3>3 DEF Has
  <2> QED BY <2>1, <2>2
<1> QED BY <1>4, <1>6, <1>10, <1>11

LEMMA HasToSet == \A s, x : x \in ToSet(s) <=> Has(s, x)
BY DEF ToSet, Has

LEMMA HasContains ==
  ASSUME NEW X, NEW s \in Seq(X) PROVE \A x : Contains(s, x) <=> Has(s, x)
BY DEF Contains, Has

LEMMA FastAttrsFacts ==
  ASSUME NEW regs \in Seq(AnyReg), NEW idx \in Int
  PROVE  /\ FastAttrs(regs, idx) \in Seq(Attributes) /\ IsInjective(FastAttrs(regs, idx))
         /\ \A a : Has(FastAttrs(regs, idx), a) <=> Has(regs, Reg(idx, a, TRUE))
<1>1. PICK S : S = {r \in ToSet(regs) : r.idx = idx /\ r.fast}
  OBVIOUS
<1>2. \A r : r \in S <=> Has(regs, r) /\ r.idx = idx /\ r.fast
  BY <1>1, HasToSet
<1>3. \A r : Has(regs, r) => r \in AnyReg
  BY DEF Has
<1>4. \A r \in S : r.idx = idx /\ r.fast = TRUE
  BY <1>2, <1>3 DEF AnyReg
<1>5. FastAttrs(regs, idx) = AttrsOf(regs, S)
  BY <1>1 DEF FastAttrs
<1>6. /\ AttrsOf(regs, S) \in Seq(Attributes) /\ IsInjective(AttrsOf(regs, S))
      /\ \A a : Has(AttrsOf(regs, S), a)
                  <=> Reg(idx, a, TRUE) \in S /\ Has(regs, Reg(idx, a, TRUE))
  BY <1>4, AttrsOfFacts
<1>7. \A a : Has(regs, Reg(idx, a, TRUE)) => Reg(idx, a, TRUE) \in S
  BY <1>2 DEF Reg
<1> QED BY <1>5, <1>6, <1>7

LEMMA SlowAttrsFacts ==
  ASSUME NEW regs \in Seq(AnyReg), NEW idx \in Int
  PROVE  /\ SlowAttrs(regs, idx) \in Seq(Attributes) /\ IsInjective(SlowAttrs(regs, idx))
         /\ \A a : Has(SlowAttrs(regs, idx), a)
              <=> /\ ~Has(regs, Reg(idx, a, TRUE))
                  /\ Has(regs, Reg(idx, a, FALSE)) \/ (a = "control" /\ IsRoom(idx))
<1>1. PICK fast \in Seq(Attributes) :
        /\ fast = FastAttrs(regs, idx)
        /\ \A a : Has(fast, a) <=> Has(regs, Reg(idx, a, TRUE))
  BY FastAttrsFacts
<1>2. \A a : Contains(fast, a) <=> Has(fast, a)
  BY HasContains
<1>3. PICK S : S = {r \in ToSet(regs) : r.idx = idx /\ ~r.fast /\ ~Contains(fast, r.attr)}
  OBVIOUS
<1>4. \A r : r \in S <=> Has(regs, r) /\ r.idx = idx /\ ~r.fast /\ ~Has(fast, r.attr)
  BY <1>2, <1>3, HasToSet
<1>5. \A r : Has(regs, r) => r \in AnyReg
  BY DEF Has
<1>6. \A r \in S : r.idx = idx /\ r.fast = FALSE
  BY <1>4, <1>5 DEF AnyReg
<1>7. PICK slow : slow = AttrsOf(regs, S)
  OBVIOUS
<1>8. /\ slow \in Seq(Attributes) /\ IsInjective(slow)
      /\ \A a : Has(slow, a) <=> Reg(idx, a, FALSE) \in S /\ Has(regs, Reg(idx, a, FALSE))
  BY <1>6, <1>7, AttrsOfFacts
<1>9. \A a : /\ Reg(idx, a, FALSE).idx = idx /\ Reg(idx, a, FALSE).fast = FALSE
             /\ Reg(idx, a, FALSE).attr = a
  BY DEF Reg
<1>10. ASSUME NEW a
       PROVE  Has(slow, a) <=> Has(regs, Reg(idx, a, FALSE)) /\ ~Has(fast, a)
  BY <1>4, <1>8, <1>9
<1>11. PICK more : more = When(IsRoom(idx) /\ ~Contains(fast \o slow, "control"), <<"control">>)
  OBVIOUS
<1>12. SlowAttrs(regs, idx) = slow \o more
  BY <1>1, <1>3, <1>7, <1>11 DEF SlowAttrs
<1>13. Contains(fast \o slow, "control") <=> Has(fast, "control") \/ Has(slow, "control")
  <2>1. fast \o slow \in Seq(Attributes)
    BY <1>8, ConcatProperties
  <2>2. Contains(fast \o slow, "control") <=> Has(fast \o slow, "control")
    BY <2>1, HasContains
  <2> QED BY <1>8, <2>2, ConcatHas
<1>14. CASE ~(IsRoom(idx) /\ ~Contains(fast \o slow, "control"))
  <2>1. more = <<>>
    BY <1>11, <1>14 DEF When
  <2>2. SlowAttrs(regs, idx) = slow
    BY <1>8, <1>12, <2>1, ConcatEmptySeq
  <2>3. ASSUME NEW a
        PROVE  Has(slow, a)
                 <=> /\ ~Has(fast, a)
                     /\ Has(regs, Reg(idx, a, FALSE)) \/ (a = "control" /\ IsRoom(idx))
    BY <1>10, <1>13, <1>14
  <2> QED BY <1>1, <1>8, <2>2, <2>3
<1>15. CASE IsRoom(idx) /\ ~Contains(fast \o slow, "control")
  <2>1. more = <<"control">>
    BY <1>11, <1>15 DEF When
  <2>2. "control" \in Attributes
    BY DEF Attributes
  <2>3. SlowAttrs(regs, idx) = Append(slow, "control")
    BY <1>8, <1>12, <2>1, <2>2, AppendIsConcat
  <2>4. PICK t \in Seq(Attributes) : t = Append(slow, "control")
    BY <1>8, <2>2, AppendProperties
  <2>5. /\ DOMAIN slow = 1..Len(slow) /\ Len(slow) \in Nat
        /\ DOMAIN t = 1..(Len(slow) + 1)
        /\ t[Len(slow) + 1] = "control" /\ \A i \in 1..Len(slow) : t[i] = slow[i]
    BY <1>8, <2>2, <2>4, AppendProperties
  <2>6. ~Has(slow, "control") /\ ~Has(fast, "control")
    BY <1>13, <1>15
  <2>7. IsInjective(t)
    <3>1. \A i \in 1..Len(slow) : slow[i] # "control"
      BY <2>5, <2>6 DEF Has
    <3>2. \A i \in 1..Len(slow), j \in 1..Len(slow) : slow[i] = slow[j] => i = j
      BY <1>8, <2>5 DEF IsInjective
    <3> QED BY <2>5, <3>1, <3>2 DEF IsInjective
  <2>8. ASSUME NEW a PROVE Has(t, a) <=> Has(slow, a) \/ a = "control"
    BY <2>5 DEF Has
  <2>9. ASSUME NEW a
        PROVE  Has(t, a)
                 <=> /\ ~Has(fast, a)
                     /\ Has(regs, Reg(idx, a, FALSE)) \/ (a = "control" /\ IsRoom(idx))
    BY <1>10, <1>15, <2>6, <2>8
  <2> QED BY <1>1, <2>3, <2>4, <2>7, <2>9
<1> QED BY <1>14, <1>15

-----------------------------------------------------------------------------
(* The items of a poll list.                                               *)

AnyItem == [idx : Int, attrs : Seq(Attributes), fast : BOOLEAN]
FastItem(regs, idx) == [idx |-> idx, attrs |-> FastAttrs(regs, idx), fast |-> TRUE]
SlowItem(regs, idx) == [idx |-> idx, attrs |-> SlowAttrs(regs, idx), fast |-> FALSE]
IsItem(regs, idx, item) ==
  \/ FastAttrs(regs, idx) # <<>> /\ item = FastItem(regs, idx)
  \/ SlowAttrs(regs, idx) # <<>> /\ item = SlowItem(regs, idx)
ItemsOf(regs, idx) ==
  Item(idx, FastAttrs(regs, idx), TRUE) \o Item(idx, SlowAttrs(regs, idx), FALSE)

(* No two items of one index and tier. *)
Tiers(s) ==
  \A i, j \in DOMAIN s : i # j /\ s[i].idx = s[j].idx => s[i].fast # s[j].fast

LEMMA TiersConcat ==
  ASSUME NEW s \in Seq(AnyItem), NEW t \in Seq(AnyItem), Tiers(s), Tiers(t),
         \A i \in DOMAIN s, j \in DOMAIN t : s[i].idx = t[j].idx => s[i].fast # t[j].fast
  PROVE  Tiers(s \o t)
<1>1. /\ DOMAIN s = 1..Len(s) /\ DOMAIN t = 1..Len(t) /\ Len(s) \in Nat /\ Len(t) \in Nat
      /\ DOMAIN (s \o t) = 1..(Len(s) + Len(t))
      /\ \A i \in 1..Len(s) : (s \o t)[i] = s[i]
      /\ \A i \in (Len(s) + 1)..(Len(s) + Len(t)) : (s \o t)[i] = t[i - Len(s)]
  BY ConcatProperties
<1>2. PICK u : u = s \o t
  OBVIOUS
<1>3. PICK m \in Nat, n \in Nat : m = Len(s) /\ n = Len(t)
  BY <1>1
<1>4. /\ DOMAIN s = 1..m /\ DOMAIN t = 1..n /\ DOMAIN u = 1..(m + n)
      /\ \A i \in 1..m : u[i] = s[i]
      /\ \A i \in (m + 1)..(m + n) : u[i] = t[i - m]
  BY <1>1, <1>2, <1>3
<1>5. ASSUME NEW i \in 1..(m + n), NEW j \in 1..(m + n), i # j, u[i].idx = u[j].idx
      PROVE  u[i].fast # u[j].fast
  <2>1. CASE i \in 1..m /\ j \in 1..m
    BY <1>4, <1>5, <2>1 DEF Tiers
  <2>2. CASE i \in 1..m /\ j \in (m + 1)..(m + n)
    <3>1. j - m \in 1..n
      BY <2>2
    <3> QED BY <1>4, <1>5, <2>2, <3>1
  <2>3. CASE j \in 1..m /\ i \in (m + 1)..(m + n)
    <3>1. i - m \in 1..n
      BY <2>3
    <3> QED BY <1>4, <1>5, <2>3, <3>1
  <2>4. CASE i \in (m + 1)..(m + n) /\ j \in (m + 1)..(m + n)
    <3>1. i - m \in 1..n /\ j - m \in 1..n /\ i - m # j - m
      BY <1>5, <2>4
    <3> QED BY <1>4, <1>5, <2>4, <3>1 DEF Tiers
  <2> QED BY <2>1, <2>2, <2>3, <2>4
<1>6. Tiers(u)
  BY <1>4, <1>5 DEF Tiers
<1> QED BY <1>2, <1>6

LEMMA ItemsOfFacts ==
  ASSUME NEW regs \in Seq(AnyReg), NEW idx \in Int
  PROVE  /\ ItemsOf(regs, idx) \in Seq(AnyItem) /\ Tiers(ItemsOf(regs, idx))
         /\ \A item : Has(ItemsOf(regs, idx), item) <=> IsItem(regs, idx, item)
         /\ \A item : Has(ItemsOf(regs, idx), item) => item.idx = idx
<1>1. FastAttrs(regs, idx) \in Seq(Attributes) /\ SlowAttrs(regs, idx) \in Seq(Attributes)
  BY FastAttrsFacts, SlowAttrsFacts
<1>2. FastItem(regs, idx) \in AnyItem /\ SlowItem(regs, idx) \in AnyItem
  BY <1>1 DEF FastItem, SlowItem, AnyItem
<1>3. PICK x \in AnyItem, y \in AnyItem : x = FastItem(regs, idx) /\ y = SlowItem(regs, idx)
  BY <1>2
<1>4. x.fast = TRUE /\ y.fast = FALSE /\ x.idx = idx /\ y.idx = idx
  BY <1>3 DEF FastItem, SlowItem
<1>5. PICK s, t : /\ s = Item(idx, FastAttrs(regs, idx), TRUE)
                  /\ t = Item(idx, SlowAttrs(regs, idx), FALSE)
  OBVIOUS
<1>6. /\ s = IF FastAttrs(regs, idx) # <<>> THEN <<x>> ELSE <<>>
      /\ t = IF SlowAttrs(regs, idx) # <<>> THEN <<y>> ELSE <<>>
  BY <1>3, <1>5 DEF Item, When, FastItem, SlowItem
<1>7. /\ s \in Seq(AnyItem) /\ t \in Seq(AnyItem)
      /\ \A i \in DOMAIN s : i = 1 /\ s[i] = x
      /\ \A i \in DOMAIN t : i = 1 /\ t[i] = y
  <2>1. /\ <<x>> \in Seq(AnyItem) /\ <<y>> \in Seq(AnyItem) /\ <<>> \in Seq(AnyItem)
        /\ DOMAIN <<x>> = {1} /\ <<x>>[1] = x /\ DOMAIN <<y>> = {1} /\ <<y>>[1] = y
        /\ DOMAIN <<>> = {}
    OBVIOUS
  <2>2. s = <<x>> \/ s = <<>>
    BY <1>6
  <2>3. t = <<y>> \/ t = <<>>
    BY <1>6
  <2>4. s \in Seq(AnyItem) /\ \A i \in DOMAIN s : i = 1 /\ s[i] = x
    BY <2>1, <2>2
  <2>5. t \in Seq(AnyItem) /\ \A i \in DOMAIN t : i = 1 /\ t[i] = y
    BY <2>1, <2>3
  <2> QED BY <2>4, <2>5
<1>8. ASSUME NEW item
      PROVE  /\ Has(s, item) <=> FastAttrs(regs, idx) # <<>> /\ item = x
             /\ Has(t, item) <=> SlowAttrs(regs, idx) # <<>> /\ item = y
  <2>1. /\ DOMAIN <<x>> = {1} /\ <<x>>[1] = x /\ DOMAIN <<y>> = {1} /\ <<y>>[1] = y
        /\ DOMAIN <<>> = {}
    OBVIOUS
  <2>2. Has(s, item) <=> FastAttrs(regs, idx) # <<>> /\ item = x
    BY <1>6, <2>1 DEF Has
  <2>3. Has(t, item) <=> SlowAttrs(regs, idx) # <<>> /\ item = y
    BY <1>6, <2>1 DEF Has
  <2> QED BY <2>2, <2>3
<1>9. Tiers(s) /\ Tiers(t)
  BY <1>7 DEF Tiers
<1>10. Tiers(s \o t)
  BY <1>4, <1>7, <1>9, TiersConcat
<1>11. s \o t \in Seq(AnyItem) /\ \A item : Has(s \o t, item) <=> Has(s, item) \/ Has(t, item)
  BY <1>7, ConcatProperties, ConcatHas
<1>12. ItemsOf(regs, idx) = s \o t
  BY <1>5 DEF ItemsOf
<1>13. \A item : Has(ItemsOf(regs, idx), item) <=> IsItem(regs, idx, item)
  BY <1>3, <1>8, <1>11, <1>12 DEF IsItem
<1> QED BY <1>4, <1>8, <1>10, <1>11, <1>12, <1>13

LEMMA PollItemsFacts ==
  ASSUME NEW regs \in Seq(AnyReg)
  PROVE  /\ PollItems(regs) \in Seq(AnyItem) /\ Tiers(PollItems(regs))
         /\ \A item : Has(PollItems(regs), item)
              <=> \E r : Has(regs, r) /\ IsItem(regs, r.idx, item)
<1>1. PICK all : all = Indices(regs)
  OBVIOUS
<1>2. all \in Seq(Int) /\ \A idx : Has(all, idx) <=> \E r : Has(regs, r) /\ r.idx = idx
  <2>1. DOMAIN regs = 1..Len(regs) /\ Len(regs) \in Nat
        /\ \A i \in 1..Len(regs) : regs[i] \in AnyReg
    BY ElementOfSeq, LenProperties
  <2>2. \A r \in AnyReg : r.idx \in Int
    BY DEF AnyReg
  <2>3. DOMAIN all = DOMAIN regs /\ \A i \in DOMAIN regs : all[i] = regs[i].idx
    BY <1>1 DEF Indices
  <2>4. all \in Seq(Int)
    BY <1>1, <2>1, <2>2 DEF Indices
  <2> QED BY <2>3, <2>4 DEF Has
<1>3. PICK idxs \in Seq(Int) :
        /\ idxs = FirstSeen(all, ToSet(all)) /\ IsInjective(idxs)
        /\ \A idx : Has(idxs, idx) <=> idx \in ToSet(all) /\ Has(all, idx)
  BY <1>2, FirstSeenFacts
<1>4. \A idx : Has(idxs, idx) <=> \E r : Has(regs, r) /\ r.idx = idx
  BY <1>2, <1>3, HasToSet
<1>5. PICK n \in Nat : /\ DOMAIN idxs = 1..n /\ \A k \in 1..n : idxs[k] \in Int
  <2>1. DOMAIN idxs = 1..Len(idxs) /\ Len(idxs) \in Nat
        /\ \A i \in 1..Len(idxs) : idxs[i] \in Int
    BY ElementOfSeq, LenProperties
  <2> QED BY <2>1
<1>6. PICK ss : ss = [k \in 1..n |-> ItemsOf(regs, idxs[k])]
  OBVIOUS
<1>7. PollItems(regs) = FlattenSeq(ss)
  BY <1>1, <1>3, <1>5, <1>6 DEF PollItems, ItemsOf
<1>8. \A k \in 1..n :
        /\ ss[k] \in Seq(AnyItem) /\ Tiers(ss[k])
        /\ \A item : Has(ss[k], item) <=> IsItem(regs, idxs[k], item)
        /\ \A item : Has(ss[k], item) => item.idx = idxs[k]
  BY <1>5, <1>6, ItemsOfFacts
<1>9. ss \in Seq(Seq(AnyItem)) /\ DOMAIN ss = 1..n /\ Len(ss) = n
  <2>1. ss \in [1..n -> Seq(AnyItem)]
    BY <1>6, <1>8
  <2> QED BY <2>1, SeqDef, LenProperties
<1>10. /\ FlattenSeq(ss) \in Seq(AnyItem)
       /\ \A item : Has(FlattenSeq(ss), item) <=> \E k \in 1..n : Has(ss[k], item)
  BY <1>9, FlattenContents
<1>11. ASSUME NEW item
       PROVE  Has(FlattenSeq(ss), item) <=> \E r : Has(regs, r) /\ IsItem(regs, r.idx, item)
  <2>1. Has(FlattenSeq(ss), item) <=> \E k \in 1..n : IsItem(regs, idxs[k], item)
    BY <1>8, <1>10
  <2>2. (\E k \in 1..n : IsItem(regs, idxs[k], item))
          <=> \E idx : Has(idxs, idx) /\ IsItem(regs, idx, item)
    BY <1>5 DEF Has
  <2> QED BY <1>4, <2>1, <2>2
<1> DEFINE Good(k) == /\ Tiers(FlattenTo(ss, k))
                      /\ \A item : Has(FlattenTo(ss, k), item)
                                     => \E m \in 1..k : item.idx = idxs[m]
           T == {k \in Nat : k <= n => Good(k)}
<1>12. 0 \in T
  <2>1. FlattenTo(ss, 0) = <<>> /\ DOMAIN <<>> = {}
    BY FlattenToZero
  <2> QED BY <2>1 DEF Tiers, Has
<1>13. ASSUME NEW k \in Nat, k + 1 <= n, Good(k) PROVE Good(k + 1)
  <2>1. k + 1 \in 1..n /\ (k + 1) - 1 = k /\ k \in 0..n
    BY <1>13
  <2>2. FlattenTo(ss, k + 1) = FlattenTo(ss, k) \o ss[k + 1]
    <3>1. k + 1 \in 1..Len(ss)
      BY <1>9, <2>1
    <3> QED BY <1>9, <2>1, <3>1, FlattenToNext
  <2>3. PICK s \in Seq(AnyItem), t \in Seq(AnyItem) : s = FlattenTo(ss, k) /\ t = ss[k + 1]
    <3>1. k \in 0..Len(ss)
      BY <1>9, <2>1
    <3> QED BY <1>8, <1>9, <2>1, <3>1, FlattenToTyped
  <2>4. /\ Tiers(t) /\ \A item : Has(t, item) => item.idx = idxs[k + 1]
        /\ Tiers(s) /\ \A item : Has(s, item) => \E m \in 1..k : item.idx = idxs[m]
    BY <1>8, <1>13, <2>1, <2>3
  <2>5. \A m \in 1..k : idxs[m] # idxs[k + 1]
    <3>1. \A m \in 1..k : m \in 1..n /\ m # k + 1
      BY <2>1
    <3> QED BY <1>3, <1>5, <2>1, <3>1 DEF IsInjective
  <2>6. \A i \in DOMAIN s, j \in DOMAIN t : s[i].idx # t[j].idx
    <3> TAKE i \in DOMAIN s, j \in DOMAIN t
    <3>1. Has(s, s[i]) /\ Has(t, t[j])
      BY DEF Has
    <3> QED BY <2>4, <2>5, <3>1
  <2>7. Tiers(s \o t)
    BY <2>4, <2>6, TiersConcat
  <2>8. \A item : Has(s \o t, item) <=> Has(s, item) \/ Has(t, item)
    BY ConcatHas
  <2>9. k + 1 \in 1..(k + 1) /\ \A m \in 1..k : m \in 1..(k + 1)
    BY <2>1
  <2>10. ASSUME NEW item, Has(s \o t, item) PROVE \E m \in 1..(k + 1) : item.idx = idxs[m]
    BY <2>4, <2>8, <2>9, <2>10
  <2> QED BY <2>2, <2>3, <2>7, <2>10
<1>14. \A k \in Nat : k \in T => k + 1 \in T
  <2>1. \A k \in Nat : k + 1 <= n => k <= n
    OBVIOUS
  <2> HIDE DEF Good
  <2> QED BY <1>13, <2>1
<1> HIDE DEF T
<1>15. n \in T
  BY <1>12, <1>14, SetInduction
<1>16. Tiers(FlattenTo(ss, n))
  BY <1>15 DEF T
<1>17. FlattenTo(ss, n) = FlattenSeq(ss)
  BY <1>9, SubSeqFull DEF FlattenTo
<1> QED BY <1>7, <1>10, <1>11, <1>16, <1>17

-----------------------------------------------------------------------------
(* The registrations.                                                      *)

FastOnes == <<"air_temp", "heatcool", "mode", "home", "away", "sleep">>

InRoomRegs(room, r) ==
  LET idx == RoomIndex(room)
  IN  \/ \E k \in 1..6 : r = Reg(idx, FastOnes[k], TRUE)
      \/ r = Reg(idx, "min", FALSE) \/ r = Reg(idx, "max", FALSE)
      \/ "outputs" \in room.on
         /\ (r = Reg(idx, "out_med", FALSE) \/ r = Reg(idx, "out_fast", FALSE))
      \/ room.floor /\ r = Reg(idx, "floor_temp", TRUE)

InRegs(c, r) ==
  \/ \E i \in DOMAIN c.rooms : InRoomRegs(c.rooms[i], r)
  \/ r = Reg(1, "revision", TRUE)
  \/ \E e : /\ InHouse(c, e) /\ e.kind \in {"sensor", "text", "number"}
            /\ r = Reg(e.idx, e.attr, FALSE)

LEMMA RegTyped ==
  ASSUME NEW idx \in Int, NEW a \in Attributes, NEW fast \in BOOLEAN
  PROVE  Reg(idx, a, fast) \in AnyReg
BY DEF Reg, AnyReg

LEMMA RoomRegsHold ==
  ASSUME NEW room \in RoomConfigs
  PROVE  /\ RoomRegs(room) \in Seq(AnyReg)
         /\ \A r : Has(RoomRegs(room), r) <=> InRoomRegs(room, r)
<1>1. PICK idx \in Int : idx = RoomIndex(room)
  BY RoomIndexed
<1> DEFINE s0 == [i \in DOMAIN FastOnes |-> Reg(idx, FastOnes[i], TRUE)]
           s1 == s0 \o <<Reg(idx, "min", FALSE), Reg(idx, "max", FALSE)>>
           s2 == s1 \o When("outputs" \in room.on,
                            <<Reg(idx, "out_med", FALSE), Reg(idx, "out_fast", FALSE)>>)
           s3 == s2 \o When(room.floor, <<Reg(idx, "floor_temp", TRUE)>>)
<1>2. RoomRegs(room) = s3
  BY <1>1 DEF RoomRegs, FastOnes
<1>3. room.floor \in BOOLEAN
  BY DEF RoomConfigs
<1>4. /\ Reg(idx, "min", FALSE) \in AnyReg /\ Reg(idx, "max", FALSE) \in AnyReg
      /\ Reg(idx, "out_med", FALSE) \in AnyReg /\ Reg(idx, "out_fast", FALSE) \in AnyReg
      /\ Reg(idx, "floor_temp", TRUE) \in AnyReg
  BY RegTyped DEF Attributes
<1>5. /\ DOMAIN FastOnes = 1..6 /\ \A k \in 1..6 : FastOnes[k] \in Attributes
  <2>1. \A k \in 1..6 : k = 1 \/ k = 2 \/ k = 3 \/ k = 4 \/ k = 5 \/ k = 6
    OBVIOUS
  <2> QED BY <2>1 DEF FastOnes, Attributes
<1>6. s0 \in Seq(AnyReg) /\ \A r : Has(s0, r) <=> \E k \in 1..6 : r = Reg(idx, FastOnes[k], TRUE)
  <2>1. \A k \in 1..6 : Reg(idx, FastOnes[k], TRUE) \in AnyReg
    BY <1>5, RegTyped
  <2>2. s0 \in [1..6 -> AnyReg] /\ \A k \in 1..6 : s0[k] = Reg(idx, FastOnes[k], TRUE)
    BY <1>5, <2>1
  <2>3. s0 \in Seq(AnyReg) /\ DOMAIN s0 = 1..6
    <3> HIDE DEF s0
    <3>1. PICK n \in Nat : n = 6
      OBVIOUS
    <3>2. s0 \in [1..n -> AnyReg]
      BY <2>2, <3>1
    <3>3. s0 \in Seq(AnyReg)
      BY <3>2, SeqDef
    <3> QED BY <2>2, <3>3
  <2> HIDE DEF s0
  <2> QED BY <2>2, <2>3 DEF Has
<1> HIDE DEF s0
<1>7. s1 \in Seq(AnyReg)
      /\ \A r : Has(s1, r)
                  <=> Has(s0, r) \/ r = Reg(idx, "min", FALSE) \/ r = Reg(idx, "max", FALSE)
  <2>1. PICK a \in AnyReg, b \in AnyReg : a = Reg(idx, "min", FALSE) /\ b = Reg(idx, "max", FALSE)
    BY <1>4
  <2>2. <<a, b>> \in Seq(AnyReg) /\ \A x : Has(<<a, b>>, x) <=> x = a \/ x = b
    BY ShortHas
  <2>3. PICK t \in Seq(AnyReg) : t = <<a, b>>
    BY <2>2
  <2>4. s0 \o t \in Seq(AnyReg) /\ \A r : Has(s0 \o t, r) <=> Has(s0, r) \/ Has(t, r)
    BY <1>6, ConcatHas, ConcatProperties
  <2>5. s1 = s0 \o t
    BY <2>1, <2>3
  <2> HIDE DEF s1
  <2>6. ASSUME NEW r
        PROVE  Has(s1, r) <=> Has(s0, r) \/ r = Reg(idx, "min", FALSE) \/ r = Reg(idx, "max", FALSE)
    <3>1. Has(t, r) <=> r = a \/ r = b
      BY <2>2, <2>3
    <3>2. Has(s1, r) <=> Has(s0, r) \/ Has(t, r)
      BY <2>4, <2>5
    <3> QED BY <2>1, <3>1, <3>2
  <2>7. s1 \in Seq(AnyReg)
    BY <2>4, <2>5
  <2> QED BY <2>6, <2>7
<1> HIDE DEF s1
<1>20. s1 \in Seq(AnyReg)
  BY <1>7
<1>23. PICK b \in AnyReg, c \in AnyReg :
         b = Reg(idx, "out_med", FALSE) /\ c = Reg(idx, "out_fast", FALSE)
  BY <1>4
<1>24. PICK v \in Seq(AnyReg) : v = s1
  BY <1>20
<1>25. /\ v \o When("outputs" \in room.on, <<b, c>>) \in Seq(AnyReg)
       /\ \A x : Has(v \o When("outputs" \in room.on, <<b, c>>), x)
                   <=> Has(v, x) \/ ("outputs" \in room.on /\ (x = b \/ x = c))
  BY AddTwo
<1>8. s2 \in Seq(AnyReg)
  BY <1>23, <1>24, <1>25
<1>9. \A r : Has(s2, r) <=> Has(s1, r) \/ ("outputs" \in room.on
              /\ (r = Reg(idx, "out_med", FALSE) \/ r = Reg(idx, "out_fast", FALSE)))
  BY <1>23, <1>24, <1>25
<1> HIDE DEF s2
<1>10. PICK a \in AnyReg : a = Reg(idx, "floor_temp", TRUE)
  BY <1>4
<1>11. s3 = s2 \o When(TRUE \in {room.floor}, <<a>>)
  <2>1. CASE room.floor = TRUE
    BY <1>10, <2>1 DEF When
  <2>2. CASE room.floor = FALSE
    BY <1>10, <2>2 DEF When
  <2> QED BY <1>3, <2>1, <2>2
<1> HIDE DEF s3
<1>21. PICK u \in Seq(AnyReg) : u = s2
  BY <1>8
<1>26. PICK t \in Seq(AnyReg) : t = <<a>> /\ \A x : Has(t, x) <=> x = a
  <2>1. <<a>> \in Seq(AnyReg) /\ \A x : Has(<<a>>, x) <=> x = a
    BY ShortHas
  <2> QED BY <2>1
<1>27. s3 = u \o When(TRUE \in {room.floor}, t)
  BY <1>11, <1>21, <1>26
<1>12. s3 \in Seq(AnyReg)
  BY <1>27, ConcatWhen
<1>22. \A r : Has(s3, r) <=> Has(u, r) \/ (TRUE \in {room.floor} /\ Has(t, r))
  BY <1>27, ConcatWhen
<1>13. \A r : Has(s3, r) <=> Has(s2, r) \/ (TRUE \in {room.floor} /\ r = a)
  BY <1>21, <1>22, <1>26
<1>14. ASSUME NEW r PROVE Has(s3, r) <=> InRoomRegs(room, r)
  <2>1. Has(s3, r) <=> Has(s2, r) \/ (room.floor /\ r = Reg(idx, "floor_temp", TRUE))
    BY <1>3, <1>10, <1>13
  <2> QED BY <1>1, <1>6, <1>7, <1>9, <2>1 DEF InRoomRegs
<1> QED BY <1>2, <1>12, <1>14

LEMMA RegistrationsHold ==
  ASSUME NEW c \in Configurations
  PROVE  /\ Registrations(c, Entities(c)) \in Seq(AnyReg)
         /\ \A r : Has(Registrations(c, Entities(c)), r) <=> InRegs(c, r)
<1>1. PICK es \in Seq(AnyEntity) : es = Entities(c) /\ \A e : Has(es, e) <=> InHouse(c, e)
  BY EntitiesHold
<1>2. PICK n \in Nat : DOMAIN es = 1..n /\ \A i \in 1..n : es[i] \in AnyEntity
  <2>1. DOMAIN es = 1..Len(es) /\ Len(es) \in Nat /\ \A i \in 1..Len(es) : es[i] \in AnyEntity
    BY ElementOfSeq, LenProperties
  <2> QED BY <2>1
<1>3. PICK m \in Nat : DOMAIN c.rooms = 1..m /\ \A i \in 1..m : c.rooms[i] \in RoomConfigs
  <2>1. c.rooms \in Seq(RoomConfigs)
    BY ConfigurationParts
  <2>2. DOMAIN c.rooms = 1..Len(c.rooms) /\ Len(c.rooms) \in Nat
    BY <2>1
  <2> QED BY <2>2, ConfigurationParts
<1> DEFINE rooms == [i \in 1..m |-> RoomRegs(c.rooms[i])]
           setups == [i \in 1..n |-> SetupRegs(es[i])]
<1>4. Registrations(c, Entities(c)) = (FlattenSeq(rooms) \o HubRegs) \o FlattenSeq(setups)
  BY <1>1, <1>2, <1>3 DEF Registrations, CodegenRegs
<1>5. \A i \in 1..m : /\ rooms[i] \in Seq(AnyReg)
                      /\ \A r : Has(rooms[i], r) <=> InRoomRegs(c.rooms[i], r)
  BY <1>3, RoomRegsHold
<1>6. ASSUME NEW e \in AnyEntity
      PROVE  /\ SetupRegs(e) \in Seq(AnyReg)
             /\ \A r : Has(SetupRegs(e), r) <=> e.kind \in {"sensor", "text", "number"}
                                                /\ r = Reg(e.idx, e.attr, FALSE)
  <2>1. PICK a \in AnyReg : a = Reg(e.idx, e.attr, FALSE)
    BY RegTyped DEF AnyEntity
  <2>2. <<a>> \in Seq(AnyReg) /\ \A x : Has(<<a>>, x) <=> x = a
    BY ShortHas
  <2>3. CASE e.kind \in {"sensor", "text", "number"}
    <3>1. SetupRegs(e) = <<a>>
      BY <2>1, <2>3 DEF SetupRegs, When
    <3> QED BY <2>1, <2>2, <2>3, <3>1
  <2>4. CASE e.kind \notin {"sensor", "text", "number"}
    <3>1. SetupRegs(e) = <<>> /\ DOMAIN <<>> = {}
      BY <2>4 DEF SetupRegs, When
    <3>2. SetupRegs(e) \in Seq(AnyReg) /\ \A r : ~Has(SetupRegs(e), r)
      BY <3>1 DEF Has
    <3> QED BY <2>4, <3>2
  <2> QED BY <2>3, <2>4
<1>7. \A i \in 1..n : /\ setups[i] \in Seq(AnyReg)
                      /\ \A r : Has(setups[i], r)
                           <=> es[i].kind \in {"sensor", "text", "number"}
                               /\ r = Reg(es[i].idx, es[i].attr, FALSE)
  BY <1>2, <1>6
<1>8. rooms \in Seq(Seq(AnyReg)) /\ DOMAIN rooms = 1..m
  <2>1. rooms \in [1..m -> Seq(AnyReg)]
    BY <1>5
  <2> QED BY <2>1, SeqDef
<1>9. setups \in Seq(Seq(AnyReg)) /\ DOMAIN setups = 1..n
  <2>1. setups \in [1..n -> Seq(AnyReg)]
    BY <1>7
  <2> QED BY <2>1, SeqDef
<1> HIDE DEF rooms, setups
<1>10. PICK f \in Seq(AnyReg) :
         /\ f = FlattenSeq(rooms)
         /\ \A r : Has(f, r) <=> \E i \in DOMAIN c.rooms : InRoomRegs(c.rooms[i], r)
  BY <1>3, <1>5, <1>8, FlattenContents
<1>11. PICK g \in Seq(AnyReg) :
         /\ g = FlattenSeq(setups)
         /\ \A r : Has(g, r) <=> \E i \in 1..n : Has(setups[i], r)
  BY <1>9, FlattenContents
<1>12. \A r : Has(g, r) <=> \E e : /\ InHouse(c, e) /\ e.kind \in {"sensor", "text", "number"}
                                   /\ r = Reg(e.idx, e.attr, FALSE)
  <2> TAKE r
  <2>1. ASSUME Has(g, r)
        PROVE  \E e : /\ InHouse(c, e) /\ e.kind \in {"sensor", "text", "number"}
                      /\ r = Reg(e.idx, e.attr, FALSE)
    <3>1. PICK i \in 1..n : Has(setups[i], r)
      BY <1>11, <2>1
    <3>2. InHouse(c, es[i])
      BY <1>1, <1>2 DEF Has
    <3> QED BY <1>7, <3>1, <3>2
  <2>2. ASSUME NEW e, InHouse(c, e), e.kind \in {"sensor", "text", "number"},
               r = Reg(e.idx, e.attr, FALSE)
        PROVE  Has(g, r)
    <3>1. PICK i \in 1..n : es[i] = e
      BY <1>1, <1>2, <2>2 DEF Has
    <3> QED BY <1>7, <1>11, <2>2, <3>1
  <2> QED BY <2>1, <2>2
<1>13. PICK a \in AnyReg : a = Reg(1, "revision", TRUE)
  BY RegTyped, 1 \in Int, "revision" \in Attributes DEF Attributes
<1>14. PICK hub \in Seq(AnyReg) : hub = HubRegs /\ \A r : Has(hub, r) <=> r = a
  <2>1. <<a>> \in Seq(AnyReg) /\ \A x : Has(<<a>>, x) <=> x = a
    BY ShortHas
  <2>2. HubRegs = <<a>>
    BY <1>13 DEF HubRegs
  <2> QED BY <2>1, <2>2
<1>15. PICK fh \in Seq(AnyReg) : fh = f \o hub /\ \A r : Has(fh, r) <=> Has(f, r) \/ Has(hub, r)
  <2>1. f \o hub \in Seq(AnyReg) /\ \A r : Has(f \o hub, r) <=> Has(f, r) \/ Has(hub, r)
    BY ConcatHas, ConcatProperties
  <2> QED BY <2>1
<1>16. fh \o g \in Seq(AnyReg) /\ \A r : Has(fh \o g, r) <=> Has(fh, r) \/ Has(g, r)
  BY ConcatHas, ConcatProperties
<1>17. Registrations(c, Entities(c)) = fh \o g
  BY <1>4, <1>10, <1>11, <1>14, <1>15
<1>18. ASSUME NEW r PROVE Has(fh \o g, r) <=> InRegs(c, r)
  BY <1>10, <1>12, <1>13, <1>14, <1>15, <1>16 DEF InRegs
<1> QED BY <1>16, <1>17, <1>18

-----------------------------------------------------------------------------
(* What is registered, by index and tier.                                  *)

FastNames == {"air_temp", "heatcool", "mode", "home", "away", "sleep", "floor_temp", "revision"}
SlowNames == Attributes \ {"air_temp", "heatcool", "mode", "home", "away", "sleep", "floor_temp"}

LEMMA RoomIdx ==
  ASSUME NEW room, NEW e, InRoom(room, e) PROVE e.idx = RoomIndex(room)
BY DEF InRoom, Climate, Sensor, Text, Number, Problem

LEMMA ControllerIdx ==
  ASSUME NEW idx \in 1..3, NEW on, NEW e, InController(idx, on, e)
  PROVE  e.idx \in 0..3 /\ ~IsRoom(e.idx)
<1>1. e.idx = idx \/ e.idx = 0
  BY DEF InController, Text, Problem
<1> QED BY <1>1 DEF IsRoom, RoomIdxBase

LEMMA WhereFrom ==
  ASSUME NEW c \in Configurations, NEW e, InHouse(c, e)
  PROVE  \/ /\ IsRoom(e.idx)
            /\ \E i \in DOMAIN c.rooms : InRoom(c.rooms[i], e) /\ e.idx = RoomIndex(c.rooms[i])
         \/ /\ ~IsRoom(e.idx) /\ e.idx \in 0..3
            /\ \E idx \in 1..3 : \E on : InController(idx, on, e)
<1>1. ASSUME NEW i \in DOMAIN c.rooms, InRoom(c.rooms[i], e)
      PROVE  IsRoom(e.idx) /\ e.idx = RoomIndex(c.rooms[i])
  <2>1. e.idx = RoomIndex(c.rooms[i])
    BY <1>1, RoomIdx
  <2>2. c.rooms[i] \in RoomConfigs
    BY ConfigurationParts
  <2>3. RoomIndex(c.rooms[i]) \in 49..93
    BY <2>2, RoomIndexed
  <2>4. PICK x \in 49..93 : x = RoomIndex(c.rooms[i])
    BY <2>3
  <2>5. x >= 49
    OBVIOUS
  <2> QED BY <2>1, <2>4, <2>5 DEF IsRoom, RoomIdxBase
<1>2. ASSUME NEW idx \in 1..3, NEW on, InController(idx, on, e)
      PROVE  ~IsRoom(e.idx) /\ e.idx \in 0..3
  BY <1>2, ControllerIdx
<1>3. \A i \in DOMAIN c.secondaries : c.secondaries[i].number \in 1..3
  BY ConfigurationParts
<1>4. CASE \E i \in DOMAIN c.rooms : InRoom(c.rooms[i], e)
  BY <1>1, <1>4
<1>5. CASE InController(1, c.primary, e)
  <2>1. 1 \in 1..3
    OBVIOUS
  <2> QED BY <1>2, <1>5, <2>1
<1>6. CASE \E i \in DOMAIN c.secondaries :
             InController(c.secondaries[i].number, c.secondaries[i].on, e)
  BY <1>2, <1>3, <1>6
<1> QED BY <1>4, <1>5, <1>6 DEF InHouse

LEMMA RoomRegNames ==
  ASSUME NEW room, NEW r, InRoomRegs(room, r)
  PROVE  /\ r.idx = RoomIndex(room)
         /\ r.fast \in BOOLEAN
         /\ r.fast => r.attr \in FastNames
         /\ ~r.fast => r.attr \in SlowNames
<1>1. CASE \E k \in 1..6 : r = Reg(RoomIndex(room), FastOnes[k], TRUE)
  <2>1. PICK k \in 1..6 : r = Reg(RoomIndex(room), FastOnes[k], TRUE)
    BY <1>1
  <2>2. k = 1 \/ k = 2 \/ k = 3 \/ k = 4 \/ k = 5 \/ k = 6
    OBVIOUS
  <2>3. FastOnes[k] \in FastNames
    BY <2>2 DEF FastOnes, FastNames
  <2> QED BY <2>1, <2>3 DEF Reg
<1>2. CASE \E a \in {"min", "max", "out_med", "out_fast"} : r = Reg(RoomIndex(room), a, FALSE)
  BY <1>2 DEF Reg, SlowNames, Attributes
<1>3. CASE r = Reg(RoomIndex(room), "floor_temp", TRUE)
  BY <1>3 DEF Reg, FastNames
<1> QED BY <1>1, <1>2, <1>3 DEF InRoomRegs

LEMMA EntityNames ==
  ASSUME NEW c \in Configurations, NEW e, InHouse(c, e)
  PROVE  /\ e.kind \in {"sensor", "text", "number"}
              => e.attr \in SlowNames \cup {"air_temp", "floor_temp"}
         /\ e.attr \in {"air_temp", "floor_temp"}
              => \E r : InRegs(c, r) /\ r = Reg(e.idx, e.attr, TRUE)
<1>1. CASE \E i \in DOMAIN c.rooms : InRoom(c.rooms[i], e)
  <2>1. PICK i \in DOMAIN c.rooms : InRoom(c.rooms[i], e)
    BY <1>1
  <2>2. PICK idx : idx = RoomIndex(c.rooms[i])
    OBVIOUS
  <2>3. \/ e = Climate(idx) \/ e = Problem(idx)
        \/ e = Sensor(idx, "air_temp", "temp")
        \/ c.rooms[i].floor /\ e = Sensor(idx, "floor_temp", "temp")
        \/ \E a \in {"battery", "model", "firmware", "out_slow", "error", "floor_mode"} : \E d, k :
             e = [kind |-> k, idx |-> idx, attr |-> a, decode |-> d]
        \/ \E a \in {"min", "max", "floor_min", "floor_max"} : e = Number(idx, a)
    BY <2>1, <2>2 DEF InRoom, Sensor, Text
  <2>4. e.kind \in {"sensor", "text", "number"}
              => e.attr \in SlowNames \cup {"air_temp", "floor_temp"}
    BY <2>3 DEF Climate, Problem, Sensor, Number, SlowNames, Attributes
  <2>5. e.attr = "floor_temp" => c.rooms[i].floor
    BY <2>3 DEF Climate, Problem, Sensor, Number
  <2>6. e.idx = idx
    BY <2>1, <2>2, RoomIdx
  <2>7. ASSUME e.attr = "air_temp" PROVE InRegs(c, Reg(e.idx, e.attr, TRUE))
    <3>1. Reg(e.idx, e.attr, TRUE) = Reg(RoomIndex(c.rooms[i]), FastOnes[1], TRUE)
      BY <2>2, <2>6, <2>7 DEF FastOnes
    <3>2. 1 \in 1..6
      OBVIOUS
    <3> QED BY <3>1, <3>2 DEF InRegs, InRoomRegs
  <2>8. ASSUME e.attr = "floor_temp" PROVE InRegs(c, Reg(e.idx, e.attr, TRUE))
    BY <2>2, <2>5, <2>6, <2>8 DEF InRegs, InRoomRegs
  <2> QED BY <2>4, <2>7, <2>8
<1>2. CASE \E idx, on : InController(idx, on, e)
  <2>1. \/ \E idx : e = Problem(idx)
        \/ \E a \in {"firmware", "revision", "serial", "error"} : \E idx, d : e = Text(idx, a, d)
    BY <1>2 DEF InController
  <2>2. CASE \E idx : e = Problem(idx)
    BY <2>2 DEF Problem
  <2>3. CASE \E a \in {"firmware", "revision", "serial", "error"} : \E idx, d : e = Text(idx, a, d)
    <3>1. e.attr \in {"firmware", "revision", "serial", "error"}
      BY <2>3 DEF Text
    <3> QED BY <3>1 DEF SlowNames, Attributes
  <2> QED BY <2>1, <2>2, <2>3
<1> QED BY <1>1, <1>2 DEF InHouse

LEMMA RegNames ==
  ASSUME NEW c \in Configurations, NEW r, InRegs(c, r)
  PROVE  /\ r.fast => r.attr \in FastNames
         /\ ~r.fast => \/ r.attr \in SlowNames
                       \/ \E q : InRegs(c, q) /\ q = Reg(r.idx, r.attr, TRUE)
<1>1. CASE \E i \in DOMAIN c.rooms : InRoomRegs(c.rooms[i], r)
  BY <1>1, RoomRegNames
<1>2. CASE r = Reg(1, "revision", TRUE)
  BY <1>2 DEF Reg, FastNames
<1>3. CASE \E e : /\ InHouse(c, e) /\ e.kind \in {"sensor", "text", "number"}
                  /\ r = Reg(e.idx, e.attr, FALSE)
  <2>1. PICK e : /\ InHouse(c, e) /\ e.kind \in {"sensor", "text", "number"}
                 /\ r = Reg(e.idx, e.attr, FALSE)
    BY <1>3
  <2>2. r.idx = e.idx /\ r.attr = e.attr /\ r.fast = FALSE
    BY <2>1 DEF Reg
  <2> QED BY <2>1, <2>2, EntityNames
<1> QED BY <1>1, <1>2, <1>3 DEF InRegs
=============================================================================
