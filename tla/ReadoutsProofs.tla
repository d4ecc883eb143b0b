---------------------------- MODULE ReadoutsProofs ----------------------------
(***************************************************************************)
(* Readouts, for every configuration the schema lets through, every        *)
(* reading, and every bound: the poll list reads what the entities need,   *)
(* once, in requests and replies that fit; and the entities that show the  *)
(* same thing twice show it alike.                                         *)
(*                                                                         *)
(* The properties of the poll list follow from what its members are        *)
(* (PollPlanProofs).  Those of the entities are kept by every slice of a   *)
(* reply, so by every reply.                                               *)
(***************************************************************************)
EXTENDS Readouts, PollPlanProofs

-----------------------------------------------------------------------------
(* A reply is shown slice by slice.                                        *)

(* What the entity shows after the slices of a set of places. *)
SlicesOver(h, e, s, idx, attrs, values, n) ==
  h = [i \in SUBSET (1..n) |->
         IF i = {} THEN s
         ELSE OnAttr(e, h[i \ {Max(i)}], idx, attrs[Max(i)], values[Max(i)])]

LEMMA SlicesExist ==
  ASSUME NEW e, NEW s, NEW idx, NEW attrs, NEW values, NEW n \in Nat
  PROVE  \E h : SlicesOver(h, e, s, idx, attrs, values, n)
<1> DEFINE Fold(h, m) == SlicesOver(h, e, s, idx, attrs, values, m)
           S == {m \in Nat : \E h : Fold(h, m)}
<1>1. \A h, m : Fold(h, m) <=>
        /\ h = [i \in SUBSET (1..m) |-> h[i]]
        /\ \A i \in SUBSET (1..m) :
             h[i] = IF i = {} THEN s
                    ELSE OnAttr(e, h[i \ {Max(i)}], idx, attrs[Max(i)], values[Max(i)])
  BY DEF SlicesOver
<1>2. 0 \in S
  <2> DEFINE h == [i \in SUBSET (1..0) |-> s]
  <2>1. h = [i \in SUBSET (1..0) |-> h[i]] /\ \A i \in SUBSET (1..0) : h[i] = s
    OBVIOUS
  <2>2. \A i \in SUBSET (1..0) : i = {}
    OBVIOUS
  <2> HIDE DEF h, Fold
  <2>3. Fold(h, 0)
    BY <1>1, <2>1, <2>2
  <2> QED BY <2>3
<1> HIDE DEF Fold
<1>3. ASSUME NEW m \in Nat, NEW g, Fold(g, m) PROVE \E h : Fold(h, m + 1)
  <2> DEFINE k == m + 1
             h == [i \in SUBSET (1..k) |->
                     IF k \in i THEN OnAttr(e, g[i \ {k}], idx, attrs[k], values[k]) ELSE g[i]]
  <2>1. \A i \in SUBSET (1..k) : k \notin i => i \in SUBSET (1..m)
    OBVIOUS
  <2>2. \A i \in SUBSET (1..k) : i \ {k} \in SUBSET (1..m) /\ i \ {k} \in SUBSET (1..k)
    OBVIOUS
  <2>3. /\ h = [i \in SUBSET (1..k) |-> h[i]]
        /\ \A i \in SUBSET (1..k) :
             k \in i => h[i] = OnAttr(e, g[i \ {k}], idx, attrs[k], values[k])
        /\ \A i \in SUBSET (1..k) : k \notin i => h[i] = g[i]
    OBVIOUS
  <2> HIDE DEF h
  <2>4. \A i \in SUBSET (1..k) : h[i \ {k}] = g[i \ {k}]
    <3> TAKE i \in SUBSET (1..k)
    <3>1. i \ {k} \in SUBSET (1..k) /\ k \notin i \ {k}
      BY <2>2
    <3> QED BY <2>3, <3>1
  <2>5. ASSUME NEW i \in SUBSET (1..k)
        PROVE  h[i] = IF i = {} THEN s
                      ELSE OnAttr(e, h[i \ {Max(i)}], idx, attrs[Max(i)], values[Max(i)])
    <3>1. CASE k \in i
      <4>1. Max(i) = k
        BY <3>1, MaxOfRange
      <4> QED BY <2>3, <2>4, <3>1, <4>1
    <3>2. CASE k \notin i
      <4>1. i \in SUBSET (1..m) /\ h[i] = g[i]
        BY <2>1, <2>3, <3>2
      <4>2. g[i] = IF i = {} THEN s
                   ELSE OnAttr(e, g[i \ {Max(i)}], idx, attrs[Max(i)], values[Max(i)])
        BY <1>1, <1>3, <4>1
      <4>3. i \ {Max(i)} \in SUBSET (1..k) /\ k \notin i \ {Max(i)}
        BY <3>2
      <4>4. h[i \ {Max(i)}] = g[i \ {Max(i)}]
        BY <2>3, <4>3
      <4> QED BY <4>1, <4>2, <4>4
    <3> QED BY <3>1, <3>2
  <2>6. Fold(h, k)
    BY <1>1, <2>3, <2>5
  <2> QED BY <2>6
<1>4. \A m \in Nat : m \in S => m + 1 \in S
  BY <1>3
<1> HIDE DEF S
<1>5. n \in S
  BY <1>2, <1>4, SetInduction
<1> QED BY <1>5 DEF S, Fold

LEMMA SlicesInTurn ==
  ASSUME NEW e, NEW s, NEW idx, NEW attrs, NEW values, NEW n \in Nat, DOMAIN values = 1..n
  PROVE  \E f : /\ f[0] = s /\ Slices(e, s, idx, attrs, values) = f[n]
                /\ \A k \in 1..n : f[k] = OnAttr(e, f[k - 1], idx, attrs[k], values[k])
<1> DEFINE it == CHOOSE h : h = [i \in SUBSET (1..n) |->
                   IF i = {} THEN s
                   ELSE OnAttr(e, h[i \ {Max(i)}], idx, attrs[Max(i)], values[Max(i)])]
           places == [i \in DOMAIN values |-> i]
           over == CHOOSE h : h = [i \in SUBSET (DOMAIN places) |->
                     IF i = {} THEN s
                     ELSE OnAttr(e, h[i \ {Max(i)}], idx, attrs[places[Max(i)]],
                                 values[places[Max(i)]])]
<1>1. Slices(e, s, idx, attrs, values) = over[DOMAIN places]
  BY DEF Slices, FoldLeftDomain, FoldLeft, MapThenFoldSet
<1>2. DOMAIN places = 1..n /\ \A k \in 1..n : places[k] = k
  OBVIOUS
<1> HIDE DEF places
<1>3. ASSUME NEW h
      PROVE  [i \in SUBSET (DOMAIN places) |->
                IF i = {} THEN s
                ELSE OnAttr(e, h[i \ {Max(i)}], idx, attrs[places[Max(i)]], values[places[Max(i)]])]
             = [i \in SUBSET (1..n) |->
                IF i = {} THEN s
                ELSE OnAttr(e, h[i \ {Max(i)}], idx, attrs[Max(i)], values[Max(i)])]
  <2>1. ASSUME NEW i \in SUBSET (1..n), i # {} PROVE places[Max(i)] = Max(i)
    BY <1>2, <2>1, MaxIsMember
  <2> QED BY <1>2, <2>1
<1>4. PICK g : SlicesOver(g, e, s, idx, attrs, values, n)
  BY SlicesExist
<1>5. over = [i \in SUBSET (1..n) |->
                IF i = {} THEN s
                ELSE OnAttr(e, over[i \ {Max(i)}], idx, attrs[Max(i)], values[Max(i)])]
  <2>1. g = [i \in SUBSET (DOMAIN places) |->
                IF i = {} THEN s
                ELSE OnAttr(e, g[i \ {Max(i)}], idx, attrs[places[Max(i)]], values[places[Max(i)]])]
    BY <1>3, <1>4 DEF SlicesOver
  <2>2. over = [i \in SUBSET (DOMAIN places) |->
                IF i = {} THEN s
                ELSE OnAttr(e, over[i \ {Max(i)}], idx, attrs[places[Max(i)]],
                            values[places[Max(i)]])]
    BY <2>1
  <2> HIDE DEF over
  <2> QED BY <1>3, <2>2
<1> HIDE DEF over, it
<1> DEFINE f == [k \in 0..n |-> over[1..k]]
<1>6. 1..0 = {} /\ \A k \in 0..n : 1..k \in SUBSET (1..n)
  OBVIOUS
<1>7. f[0] = s
  BY <1>5, <1>6
<1>8. Slices(e, s, idx, attrs, values) = f[n]
  BY <1>1, <1>2
<1>9. ASSUME NEW k \in 1..n PROVE f[k] = OnAttr(e, f[k - 1], idx, attrs[k], values[k])
  <2>1. k - 1 \in Nat /\ (k - 1) + 1 = k /\ k \in 1..k /\ 1..k # {} /\ k - 1 \in 0..n /\ k \in 0..n
    OBVIOUS
  <2>2. Max(1..k) = k
    BY <2>1, MaxOfRange
  <2>3. (1..k) \ {k} = 1..(k - 1) /\ 1..k \in SUBSET (1..n)
    OBVIOUS
  <2>4. over[1..k] = OnAttr(e, over[1..(k - 1)], idx, attrs[k], values[k])
    BY <1>5, <2>1, <2>2, <2>3
  <2> QED BY <2>1, <2>4
<1> HIDE DEF f
<1> QED BY <1>7, <1>8, <1>9

-----------------------------------------------------------------------------
(* Two entities that show the same.                                        *)

(* The climate entity and the temperature sensor of one room. *)
LEMMA TemperatureSlice ==
  ASSUME NEW e, NEW f, e.decode = "climate", f.decode = "temp", f.attr = "air_temp",
         e.idx = f.idx, NEW s, NEW t, SameTemperature(s, t), NEW idx, NEW attr, NEW v
  PROVE  SameTemperature(OnAttr(e, s, idx, attr, v), OnAttr(f, t, idx, attr, v))
<1>1. CASE idx # e.idx
  BY <1>1 DEF OnAttr
<1>2. CASE idx = e.idx
  <2>1. OnAttr(e, s, idx, attr, v) = OnClimate(s, attr, v)
    BY <1>2 DEF OnAttr
  <2>2. OnAttr(f, t, idx, attr, v) = IF attr = "air_temp" THEN Publish(t, <<Celsius(v)>>) ELSE t
    BY <1>2 DEF OnAttr, Decode
  <2>3. CASE attr = "air_temp"
    <3>1. Publish(t, <<Celsius(v)>>) = <<Celsius(v)>>
      BY DEF Publish
    <3>2. PICK r : r = [s EXCEPT !.room_temp = Celsius(v)]
      OBVIOUS
    <3>3. /\ DOMAIN r = DOMAIN s /\ r.room_temp = Celsius(v) /\ r.floor_mode = s.floor_mode
      BY <3>2 DEF SameTemperature
    <3>4. OnClimate(s, attr, v) = UpdateCurrentTemp(r)
      BY <2>3, <3>2 DEF OnClimate
    <3>5. SameTemperature(UpdateCurrentTemp(r), <<Celsius(v)>>)
      BY <3>3 DEF UpdateCurrentTemp, Regulated, SameTemperature
    <3> QED BY <2>1, <2>2, <2>3, <3>1, <3>4, <3>5
  <2>4. CASE attr = "floor_temp"
    <3>2. PICK r : r = [s EXCEPT !.floor_temp = Celsius(v)]
      OBVIOUS
    <3>3. /\ DOMAIN r = DOMAIN s /\ r.room_temp = s.room_temp /\ r.floor_mode = s.floor_mode
          /\ r.current = s.current
      BY <3>2 DEF SameTemperature
    <3>4. OnClimate(s, attr, v) = UpdateCurrentTemp(r)
      BY <2>4, <3>2 DEF OnClimate
    <3>5. SameTemperature(UpdateCurrentTemp(r), t)
      BY <3>3 DEF UpdateCurrentTemp, Regulated, SameTemperature
    <3> QED BY <2>1, <2>2, <2>4, <3>4, <3>5
  <2>5. CASE attr = "floor_mode"
    <3>2. PICK r : r = [s EXCEPT !.floor_mode = v]
      OBVIOUS
    <3>3. /\ DOMAIN r = DOMAIN s /\ r.room_temp = s.room_temp /\ r.floor_mode = v
          /\ r.current = s.current
      BY <3>2 DEF SameTemperature
    <3>4. OnClimate(s, attr, v) = UpdateCurrentTemp(r)
      BY <2>5, <3>2 DEF OnClimate, OnFloorMode
    <3>5. SameTemperature(UpdateCurrentTemp(r), t)
      BY <3>3 DEF UpdateCurrentTemp, Regulated, SameTemperature
    <3> QED BY <2>1, <2>2, <2>5, <3>4, <3>5
  <2>6. CASE attr \notin {"air_temp", "floor_temp", "floor_mode"}
    <3>1. PICK r : r = OnClimate(s, attr, v)
      OBVIOUS
    <3>2. \/ r = s
          \/ \E x : \/ r = [s EXCEPT !.lo = x] \/ r = [s EXCEPT !.hi = x]
                   \/ r = [s EXCEPT !.action = x]
      BY <2>6, <3>1 DEF OnClimate
    <3>3. /\ DOMAIN r = DOMAIN s /\ r.room_temp = s.room_temp /\ r.floor_mode = s.floor_mode
          /\ r.current = s.current
      BY <3>2 DEF SameTemperature
    <3>4. SameTemperature(r, t)
      BY <3>3 DEF SameTemperature
    <3> QED BY <2>1, <2>2, <2>6, <3>1, <3>4
  <2> QED BY <2>3, <2>4, <2>5, <2>6
<1> QED BY <1>1, <1>2

LEMMA TemperatureSlices ==
  ASSUME NEW e, NEW f, e.decode = "climate", f.decode = "temp", f.attr = "air_temp",
         e.idx = f.idx, NEW s, NEW t, SameTemperature(s, t), NEW idx, NEW attrs, NEW values,
         NEW n \in Nat, DOMAIN values = 1..n
  PROVE  SameTemperature(Slices(e, s, idx, attrs, values), Slices(f, t, idx, attrs, values))
<1>1. PICK p : /\ p[0] = s /\ Slices(e, s, idx, attrs, values) = p[n]
               /\ \A k \in 1..n : p[k] = OnAttr(e, p[k - 1], idx, attrs[k], values[k])
  BY SlicesInTurn
<1>2. PICK q : /\ q[0] = t /\ Slices(f, t, idx, attrs, values) = q[n]
               /\ \A k \in 1..n : q[k] = OnAttr(f, q[k - 1], idx, attrs[k], values[k])
  BY SlicesInTurn
<1> DEFINE S == {k \in Nat : k <= n => SameTemperature(p[k], q[k])}
<1>3. 0 \in S
  BY <1>1, <1>2
<1>4. ASSUME NEW k \in Nat, k + 1 <= n, SameTemperature(p[k], q[k])
      PROVE  SameTemperature(p[k + 1], q[k + 1])
  <2>1. k + 1 \in 1..n /\ (k + 1) - 1 = k
    BY <1>4
  <2>2. /\ p[k + 1] = OnAttr(e, p[k], idx, attrs[k + 1], values[k + 1])
        /\ q[k + 1] = OnAttr(f, q[k], idx, attrs[k + 1], values[k + 1])
    BY <1>1, <1>2, <2>1
  <2> QED BY <1>4, <2>2, TemperatureSlice
<1>5. \A k \in Nat : k \in S => k + 1 \in S
  <2>1. \A k \in Nat : k + 1 <= n => k <= n
    OBVIOUS
  <2> QED BY <1>4, <2>1
<1> HIDE DEF S
<1>6. n \in S
  BY <1>3, <1>5, SetInduction
<1> QED BY <1>1, <1>2, <1>6 DEF S

-----------------------------------------------------------------------------
(* The plan of a state: what the configuration makes of it.                *)

PlanInv ==
  /\ config \in Configs
  /\ entities = Entities(config)
  /\ poll_regs = Registrations(config, entities)
  /\ poll_list = PollItems(poll_regs)

LEMMA PlanFacts ==
  ASSUME PlanInv
  PROVE  /\ config \in Configurations
         /\ entities \in Seq(AnyEntity) /\ \A e : Has(entities, e) <=> InHouse(config, e)
         /\ poll_regs \in Seq(AnyReg) /\ \A r : Has(poll_regs, r) <=> InRegs(config, r)
         /\ poll_list \in Seq(AnyItem) /\ Tiers(poll_list)
         /\ \A item : Has(poll_list, item)
              <=> \E r : Has(poll_regs, r) /\ IsItem(poll_regs, r.idx, item)
<1>1. config \in Configurations
  BY ConfigsAssumption DEF PlanInv
<1>2. entities \in Seq(AnyEntity) /\ \A e : Has(entities, e) <=> InHouse(config, e)
  BY <1>1, EntitiesHold DEF PlanInv
<1>3. poll_regs \in Seq(AnyReg) /\ \A r : Has(poll_regs, r) <=> InRegs(config, r)
  BY <1>1, RegistrationsHold DEF PlanInv
<1>4. poll_list = PollItems(poll_regs)
  BY DEF PlanInv
<1>5. /\ PollItems(poll_regs) \in Seq(AnyItem) /\ Tiers(PollItems(poll_regs))
      /\ \A item : Has(PollItems(poll_regs), item)
              <=> \E r : Has(poll_regs, r) /\ IsItem(poll_regs, r.idx, item)
  BY <1>3, PollItemsFacts
<1> QED BY <1>1, <1>2, <1>3, <1>4, <1>5

(* A fast registration is read in the fast item of its index, a slow one   *)
(* in one of the two.                                                      *)
LEMMA ReadFast ==
  ASSUME PlanInv, NEW idx \in Int, NEW a, Has(poll_regs, Reg(idx, a, TRUE))
  PROVE  \E item \in ToSet(poll_list) :
           item.idx = idx /\ item.fast = TRUE /\ a \in ToSet(item.attrs)
<1>1. PICK item : item = FastItem(poll_regs, idx)
  OBVIOUS
<1>2. item.idx = idx /\ item.fast = TRUE /\ item.attrs = FastAttrs(poll_regs, idx)
  BY <1>1 DEF FastItem
<1>3. Has(FastAttrs(poll_regs, idx), a)
  BY PlanFacts, FastAttrsFacts
<1>4. FastAttrs(poll_regs, idx) # <<>>
  BY <1>3 DEF Has
<1>5. Reg(idx, a, TRUE).idx = idx
  BY DEF Reg
<1>6. Has(poll_list, item)
  BY <1>1, <1>4, <1>5, PlanFacts DEF IsItem
<1> QED BY <1>2, <1>3, <1>6, HasToSet

LEMMA ReadSlow ==
  ASSUME PlanInv, NEW idx \in Int, NEW S, NEW b \in S,
         \A a \in S : ~Has(poll_regs, Reg(idx, a, TRUE)),
         \A a \in S : \/ Has(poll_regs, Reg(idx, a, FALSE))
                      \/ a = "control" /\ IsRoom(idx),
         \E r : Has(poll_regs, r) /\ r.idx = idx
  PROVE  \E item \in ToSet(poll_list) : item.idx = idx /\ S \subseteq ToSet(item.attrs)
<1>1. PICK item : item = SlowItem(poll_regs, idx)
  OBVIOUS
<1>2. item.idx = idx /\ item.attrs = SlowAttrs(poll_regs, idx)
  BY <1>1 DEF SlowItem
<1>3. \A a \in S : Has(SlowAttrs(poll_regs, idx), a)
  BY PlanFacts, SlowAttrsFacts
<1>4. SlowAttrs(poll_regs, idx) # <<>>
  BY <1>3 DEF Has
<1>5. Has(poll_list, item)
  BY <1>1, <1>4, PlanFacts DEF IsItem
<1> QED BY <1>2, <1>3, <1>5, HasToSet

LEMMA ReadAny ==
  ASSUME PlanInv, NEW idx \in Int, NEW a, Has(poll_regs, Reg(idx, a, FALSE))
  PROVE  \E item \in ToSet(poll_list) : item.idx = idx /\ a \in ToSet(item.attrs)
<1>1. CASE Has(poll_regs, Reg(idx, a, TRUE))
  BY <1>1, ReadFast
<1>2. CASE ~Has(poll_regs, Reg(idx, a, TRUE))
  <2>1. Reg(idx, a, FALSE).idx = idx
    BY DEF Reg
  <2>2. \E item \in ToSet(poll_list) : item.idx = idx /\ {a} \subseteq ToSet(item.attrs)
    BY <1>2, <2>1, ReadSlow, a \in {a}
  <2> QED BY <2>2
<1> QED BY <1>1, <1>2

(* What an item of the poll list is. *)
LEMMA ItemFacts ==
  ASSUME PlanInv, NEW item, Has(poll_list, item)
  PROVE  /\ item.idx \in Int /\ item.attrs \in Seq(Attributes) /\ IsInjective(item.attrs)
         /\ item.attrs # <<>>
         /\ item.fast => \A a : Has(item.attrs, a) <=> Has(poll_regs, Reg(item.idx, a, TRUE))
         /\ ~item.fast => \A a : Has(item.attrs, a)
              <=> /\ ~Has(poll_regs, Reg(item.idx, a, TRUE))
                  /\ Has(poll_regs, Reg(item.idx, a, FALSE)) \/ (a = "control" /\ IsRoom(item.idx))
         /\ \E r : Has(poll_regs, r) /\ r.idx = item.idx
<1>1. PICK r : Has(poll_regs, r) /\ IsItem(poll_regs, r.idx, item)
  BY PlanFacts
<1>2. r \in AnyReg
  BY <1>1, PlanFacts, HasTyped
<1>3. r.idx \in Int
  BY <1>2 DEF AnyReg
<1>4. CASE FastAttrs(poll_regs, r.idx) # <<>> /\ item = FastItem(poll_regs, r.idx)
  <2>1. item.idx = r.idx /\ item.fast = TRUE /\ item.attrs = FastAttrs(poll_regs, r.idx)
    BY <1>4 DEF FastItem
  <2>2. PICK idx \in Int : idx = r.idx
    BY <1>3
  <2>3. /\ FastAttrs(poll_regs, idx) \in Seq(Attributes)
        /\ IsInjective(FastAttrs(poll_regs, idx))
    BY PlanFacts, FastAttrsFacts
  <2>4. \A a : Has(FastAttrs(poll_regs, idx), a) <=> Has(poll_regs, Reg(idx, a, TRUE))
    BY PlanFacts, FastAttrsFacts
  <2>5. item.idx = idx /\ item.fast = TRUE /\ item.attrs = FastAttrs(poll_regs, idx)
    BY <2>1, <2>2
  <2>6. item.attrs # <<>>
    BY <1>4, <2>2, <2>5
  <2>7. \E q : Has(poll_regs, q) /\ q.idx = item.idx
    BY <1>1, <2>2, <2>5
  <2> QED BY <2>3, <2>4, <2>5, <2>6, <2>7
<1>5. CASE SlowAttrs(poll_regs, r.idx) # <<>> /\ item = SlowItem(poll_regs, r.idx)
  <2>1. item.idx = r.idx /\ item.fast = FALSE /\ item.attrs = SlowAttrs(poll_regs, r.idx)
    BY <1>5 DEF SlowItem
  <2>2. PICK idx \in Int : idx = r.idx
    BY <1>3
  <2>3. /\ SlowAttrs(poll_regs, idx) \in Seq(Attributes)
        /\ IsInjective(SlowAttrs(poll_regs, idx))
    BY PlanFacts, SlowAttrsFacts
  <2>4. \A a : Has(SlowAttrs(poll_regs, idx), a)
               <=> /\ ~Has(poll_regs, Reg(idx, a, TRUE))
                   /\ Has(poll_regs, Reg(idx, a, FALSE)) \/ (a = "control" /\ IsRoom(idx))
    BY PlanFacts, SlowAttrsFacts
  <2>5. item.idx = idx /\ item.fast = FALSE /\ item.attrs = SlowAttrs(poll_regs, idx)
    BY <2>1, <2>2
  <2>6. item.attrs # <<>>
    BY <1>5, <2>2, <2>5
  <2>7. \E q : Has(poll_regs, q) /\ q.idx = item.idx
    BY <1>1, <2>2, <2>5
  <2> QED BY <2>3, <2>4, <2>5, <2>6, <2>7
<1> QED BY <1>1, <1>4, <1>5 DEF IsItem


-----------------------------------------------------------------------------
(* Everything read once, and the rooms counted the rooms polled.           *)

LEMMA TwoTiers ==
  ASSUME PlanInv, NEW x, Has(poll_list, x), NEW y, Has(poll_list, y),
         x.idx = y.idx, x.fast, ~y.fast
  PROVE  ToSet(x.attrs) \cap ToSet(y.attrs) = {}
<1> SUFFICES ASSUME NEW a, Has(x.attrs, a), Has(y.attrs, a) PROVE FALSE
  BY HasToSet
<1>1. Has(poll_regs, Reg(x.idx, a, TRUE))
  BY ItemFacts
<1>2. ~Has(poll_regs, Reg(y.idx, a, TRUE))
  BY ItemFacts
<1> QED BY <1>1, <1>2

LEMMA RoomsListed ==
  ASSUME PlanInv, NEW idx \in Int, IsRoom(idx)
  PROVE  (\E e : Has(entities, e) /\ e.idx = idx)
           <=> (\E item : Has(poll_list, item) /\ item.idx = idx)
<1>1. ASSUME NEW e, Has(entities, e), e.idx = idx
      PROVE  \E item : Has(poll_list, item) /\ item.idx = idx
  <2>1. InHouse(config, e)
    BY <1>1, PlanFacts
  <2>2. PICK i \in DOMAIN config.rooms : idx = RoomIndex(config.rooms[i])
    BY <1>1, <2>1, PlanFacts, WhereFrom
  <2>3. InRoomRegs(config.rooms[i], Reg(idx, "mode", TRUE))
    <3>1. FastOnes[3] = "mode" /\ 3 \in 1..6
      BY DEF FastOnes
    <3> QED BY <2>2, <3>1 DEF InRoomRegs
  <2>4. Has(poll_regs, Reg(idx, "mode", TRUE))
    BY <2>3, PlanFacts DEF InRegs
  <2> QED BY <2>4, ReadFast, HasToSet
<1>2. ASSUME NEW item, Has(poll_list, item), item.idx = idx
      PROVE  \E e : Has(entities, e) /\ e.idx = idx
  <2>1. PICK r : Has(poll_regs, r) /\ r.idx = idx
    BY <1>2, ItemFacts
  <2>2. InRegs(config, r)
    BY <2>1, PlanFacts
  <2>3. CASE \E i \in DOMAIN config.rooms : InRoomRegs(config.rooms[i], r)
    <3>1. PICK i \in DOMAIN config.rooms : InRoomRegs(config.rooms[i], r)
      BY <2>3
    <3>2. idx = RoomIndex(config.rooms[i])
      BY <2>1, <3>1, RoomRegNames
    <3>3. InHouse(config, Climate(idx))
      BY <3>2 DEF InHouse, InRoom
    <3>4. Climate(idx).idx = idx
      BY DEF Climate
    <3> QED BY <3>3, <3>4, PlanFacts
  <2>4. CASE r = Reg(1, "revision", TRUE)
    BY <2>1, <2>4 DEF Reg, IsRoom, RoomIdxBase
  <2>5. CASE \E e : InHouse(config, e) /\ r = Reg(e.idx, e.attr, FALSE)
    <3>1. PICK e : InHouse(config, e) /\ r = Reg(e.idx, e.attr, FALSE)
      BY <2>5
    <3>2. e.idx = idx
      BY <2>1, <3>1 DEF Reg
    <3> QED BY <3>1, <3>2, PlanFacts
  <2> QED BY <2>2, <2>3, <2>4, <2>5 DEF InRegs
<1> QED BY <1>1, <1>2

LEMMA RoomsTrackedFacts ==
  ASSUME PlanInv
  PROVE  /\ IsInjective(RoomsTracked(entities))
         /\ \A idx : Has(RoomsTracked(entities), idx)
                       <=> /\ IsRoom(idx)
                           /\ \E e : Has(entities, e) /\ e.idx = idx
<1>1. PICK all : all = Indices(entities)
  OBVIOUS
<1>2. /\ DOMAIN entities = 1..Len(entities) /\ Len(entities) \in Nat
      /\ \A i \in DOMAIN entities : entities[i].idx \in Int
  <2>1. entities \in Seq(AnyEntity)
    BY PlanFacts
  <2>2. \A i \in DOMAIN entities : entities[i] \in AnyEntity
    BY <2>1
  <2>3. \A i \in DOMAIN entities : entities[i].idx \in Int
    BY <2>2 DEF AnyEntity
  <2> QED BY <2>1, <2>3
<1>3. DOMAIN all = DOMAIN entities /\ \A i \in DOMAIN entities : all[i] = entities[i].idx
  BY <1>1 DEF Indices
<1>4. all \in Seq(Int)
  <2>1. all = [i \in 1..Len(entities) |-> all[i]]
    BY <1>1, <1>2, <1>3 DEF Indices
  <2>2. PICK n \in Nat : n = Len(entities)
    BY <1>2
  <2>3. all \in [1..n -> Int]
    BY <1>2, <1>3, <2>1, <2>2
  <2> QED BY <2>3, SeqDef
<1>5. PICK S : S = {idx \in ToSet(all) : IsRoom(idx)}
  OBVIOUS
<1>6. RoomsTracked(entities) = FirstSeen(all, S)
  BY <1>1, <1>5 DEF RoomsTracked
<1>7. IsInjective(FirstSeen(all, S))
  BY <1>4, FirstSeenFacts
<1>8. \A idx : Has(FirstSeen(all, S), idx) <=> idx \in S /\ Has(all, idx)
  BY <1>4, FirstSeenFacts
<1>9. \A idx : Has(all, idx) <=> \E e : Has(entities, e) /\ e.idx = idx
  BY <1>3 DEF Has
<1>10. \A idx : idx \in S <=> IsRoom(idx) /\ Has(all, idx)
  BY <1>5, HasToSet
<1> QED BY <1>6, <1>7, <1>8, <1>9, <1>10

LEMMA PlanReadOnce == PlanInv => ReadOnce
<1> SUFFICES ASSUME PlanInv PROVE ReadOnce
  OBVIOUS
<1>1. ASSUME NEW i \in DOMAIN poll_list, NEW j \in DOMAIN poll_list
      PROVE  /\ IsInjective(poll_list[i].attrs)
             /\ i # j /\ poll_list[i].idx = poll_list[j].idx =>
                  /\ ToSet(poll_list[i].attrs) \cap ToSet(poll_list[j].attrs) = {}
                  /\ poll_list[i].fast # poll_list[j].fast
  <2>1. Has(poll_list, poll_list[i]) /\ Has(poll_list, poll_list[j])
    BY DEF Has
  <2>2. IsInjective(poll_list[i].attrs)
    BY <2>1, ItemFacts
  <2>3. ASSUME i # j, poll_list[i].idx = poll_list[j].idx
        PROVE  /\ ToSet(poll_list[i].attrs) \cap ToSet(poll_list[j].attrs) = {}
               /\ poll_list[i].fast # poll_list[j].fast
    <3>1. poll_list[i].fast # poll_list[j].fast
      BY <2>3, PlanFacts DEF Tiers
    <3>2. poll_list[i].fast \in BOOLEAN /\ poll_list[j].fast \in BOOLEAN
      <4>1. poll_list \in Seq(AnyItem)
        BY PlanFacts
      <4>2. poll_list[i] \in AnyItem /\ poll_list[j] \in AnyItem
        BY <4>1
      <4> QED BY <4>2 DEF AnyItem
    <3>3. CASE poll_list[i].fast /\ ~poll_list[j].fast
      BY <2>1, <2>3, <3>1, <3>3, TwoTiers
    <3>4. CASE poll_list[j].fast /\ ~poll_list[i].fast
      <4>1. ToSet(poll_list[j].attrs) \cap ToSet(poll_list[i].attrs) = {}
        BY <2>1, <2>3, <3>4, TwoTiers
      <4> QED BY <3>1, <4>1
    <3> QED BY <3>1, <3>2, <3>3, <3>4
  <2> QED BY <2>2, <2>3
<1>2. ASSUME NEW r \in ToSet(poll_regs), r.fast
      PROVE  \E item \in ToSet(poll_list) :
               item.idx = r.idx /\ item.fast /\ r.attr \in ToSet(item.attrs)
  <2>1. Has(poll_regs, r)
    BY <1>2, HasToSet
  <2>2. r \in AnyReg
    BY <2>1, PlanFacts, HasTyped
  <2>3. r = Reg(r.idx, r.attr, TRUE) /\ r.idx \in Int
    BY <1>2, <2>2 DEF Reg, AnyReg
  <2>4. PICK idx \in Int : idx = r.idx
    BY <2>3
  <2>6. PICK a : a = r.attr
    OBVIOUS
  <2>5. Has(poll_regs, Reg(idx, a, TRUE))
    BY <2>1, <2>3, <2>4, <2>6
  <2>7. \E item \in ToSet(poll_list) : item.idx = idx /\ item.fast = TRUE /\ a \in ToSet(item.attrs)
    BY <2>5, ReadFast
  <2> QED BY <2>4, <2>6, <2>7
<1>3. ASSUME NEW idx
      PROVE  idx \in ToSet(RoomsTracked(entities))
               <=> idx \in {poll_list[i].idx :
                              i \in {k \in DOMAIN poll_list : IsRoom(poll_list[k].idx)}}
  <2>1. idx \in ToSet(RoomsTracked(entities))
          <=> IsRoom(idx) /\ \E e : Has(entities, e) /\ e.idx = idx
    BY RoomsTrackedFacts, HasToSet
  <2>2. idx \in {poll_list[i].idx : i \in {k \in DOMAIN poll_list : IsRoom(poll_list[k].idx)}}
          <=> IsRoom(idx) /\ \E item : Has(poll_list, item) /\ item.idx = idx
    BY DEF Has
  <2>3. (\E e : Has(entities, e) /\ e.idx = idx) => idx \in Int
    <3>1. entities \in Seq(AnyEntity)
      BY PlanFacts
    <3>2. \A e : Has(entities, e) => e \in AnyEntity
      BY <3>1, HasTyped
    <3> QED BY <3>2 DEF AnyEntity
  <2>4. (\E item : Has(poll_list, item) /\ item.idx = idx) => idx \in Int
    BY ItemFacts
  <2> QED BY <2>1, <2>2, <2>3, <2>4, RoomsListed
<1>4. IsInjective(RoomsTracked(entities))
  BY RoomsTrackedFacts
<1> QED BY <1>1, <1>2, <1>3, <1>4 DEF ReadOnce

-----------------------------------------------------------------------------
(* Everything needed read, in requests and replies that fit.               *)

(* A sequence without repetitions is no longer than what it chooses from. *)
LEMMA LengthWithin ==
  ASSUME NEW X, NEW s \in Seq(X), IsInjective(s), NEW m \in Nat, NEW names,
         \A i \in DOMAIN s : \E k \in 1..m : names[k] = s[i]
  PROVE  Len(s) <= m
<1> SUFFICES ASSUME m < Len(s) PROVE FALSE
  OBVIOUS
<1>1. PICK n \in Nat : n = Len(s) /\ DOMAIN s = 1..n
  OBVIOUS
<1> DEFINE f == [i \in 1..n |-> CHOOSE k \in 1..m : names[k] = s[i]]
<1>2. \A i \in 1..n : f[i] \in 1..m /\ names[f[i]] = s[i]
  BY <1>1
<1>3. f \in [1..n -> 1..m]
  BY <1>2
<1>4. IsFiniteSet(1..n) /\ Cardinality(1..n) = n
  <2>1. 1 \in Int /\ n \in Int
    OBVIOUS
  <2>2. IsFiniteSet(1..n) /\ Cardinality(1..n) = IF 1 > n THEN 0 ELSE n - 1 + 1
    BY <2>1, FS_Interval
  <2> QED BY <2>2
<1>5. IsFiniteSet(1..m) /\ Cardinality(1..m) = m
  <2>1. 1 \in Int /\ m \in Int
    OBVIOUS
  <2>2. IsFiniteSet(1..m) /\ Cardinality(1..m) = IF 1 > m THEN 0 ELSE m - 1 + 1
    BY <2>1, FS_Interval
  <2> QED BY <2>2
<1> HIDE DEF f
<1>6. PICK x \in 1..n, y \in 1..n : x # y /\ f[x] = f[y]
  <2>1. Cardinality(1..m) < Cardinality(1..n)
    BY <1>1, <1>4, <1>5
  <2>2. PICK S : S = 1..n
    OBVIOUS
  <2>3. PICK T : T = 1..m
    OBVIOUS
  <2> QED BY <1>3, <1>4, <1>5, <2>1, <2>2, <2>3, FS_PigeonHole
<1>7. s[x] = s[y]
  BY <1>2, <1>6
<1> QED BY <1>1, <1>6, <1>7 DEF IsInjective

LEMMA SlowOnes ==
  LET names == <<"error", "min", "max", "floor_min", "floor_max", "out_slow", "out_med",
                 "out_fast", "floor_mode", "battery", "control", "revision", "serial",
                 "firmware", "model">>
  IN  \A a \in SlowNames : \E k \in 1..15 : names[k] = a
<1> DEFINE names == <<"error", "min", "max", "floor_min", "floor_max", "out_slow", "out_med",
                 "out_fast", "floor_mode", "battery", "control", "revision", "serial",
                 "firmware", "model">>
<1>1. /\ names[1] = "error" /\ names[2] = "min" /\ names[3] = "max"
      /\ names[4] = "floor_min" /\ names[5] = "floor_max" /\ names[6] = "out_slow"
      /\ names[7] = "out_med" /\ names[8] = "out_fast" /\ names[9] = "floor_mode"
      /\ names[10] = "battery" /\ names[11] = "control" /\ names[12] = "revision"
      /\ names[13] = "serial" /\ names[14] = "firmware" /\ names[15] = "model"
  OBVIOUS
<1>2. \A k \in {1, 2, 3, 4, 5, 6, 7, 8, 9, 10, 11, 12, 13, 14, 15} : k \in 1..15
  OBVIOUS
<1> HIDE DEF names
<1>3. ASSUME NEW a \in SlowNames PROVE \E k \in 1..15 : names[k] = a
  <2>1. a \in {names[k] : k \in {1, 2, 3, 4, 5, 6, 7, 8, 9, 10, 11, 12, 13, 14, 15}}
    BY <1>1, <1>3 DEF SlowNames, Attributes
  <2> QED BY <1>2, <2>1
<1> QED BY <1>3 DEF names

LEMMA FastOnesToo ==
  LET names == FastOnes \o <<"floor_temp", "revision">>
  IN  \A a \in FastNames : \E k \in 1..15 : names[k] = a
<1> DEFINE names == FastOnes \o <<"floor_temp", "revision">>
<1>1. /\ names[1] = "air_temp" /\ names[2] = "heatcool" /\ names[3] = "mode"
      /\ names[4] = "home" /\ names[5] = "away" /\ names[6] = "sleep"
      /\ names[7] = "floor_temp" /\ names[8] = "revision"
  BY DEF FastOnes
<1>2. \A k \in {1, 2, 3, 4, 5, 6, 7, 8} : k \in 1..15
  OBVIOUS
<1> HIDE DEF names
<1>3. ASSUME NEW a \in FastNames PROVE \E k \in 1..15 : names[k] = a
  <2>1. a \in {names[k] : k \in {1, 2, 3, 4, 5, 6, 7, 8}}
    BY <1>1, <1>3 DEF FastNames
  <2> QED BY <1>2, <2>1
<1> QED BY <1>3 DEF names

LEMMA SizeBound == \A a \in Attributes : AttrSize(a) \in 1..7
<1>1. ASSUME NEW a \in Attributes PROVE AttrSize(a) \in {1, 2, 4, 6, 7}
  BY <1>1 DEF Attributes, AttrSize
<1>2. {1, 2, 4, 6, 7} \subseteq 1..7
  OBVIOUS
<1> QED BY <1>1, <1>2

AddSize(n, a) == n + AttrSize(a)

LEMMA SizesBound ==
  ASSUME NEW s \in Seq(Attributes)
  PROVE  FoldLeft(LAMBDA n, a : n + AttrSize(a), 0, s) \in 0..(7 * Len(s))
<1> DEFINE n == Len(s)
           F == [p \in Nat \X (1..n) |-> AddSize(p[1], s[p[2]])]
<1>1. n \in Nat /\ DOMAIN s = 1..n /\ \A k \in 1..n : s[k] \in Attributes
  OBVIOUS
<1>13. \A k \in 1..n : AttrSize(s[k]) \in 1..7
  BY <1>1, SizeBound
<1>2. /\ F \in [Nat \X (1..n) -> Nat]
      /\ \A t \in Nat, k \in 1..n : F[<<t, k>>] = AddSize(t, s[k])
  <2>1. \A t \in Nat, k \in 1..n : AddSize(t, s[k]) \in Nat
    BY <1>13 DEF AddSize
  <2> QED BY <2>1
<1> HIDE DEF F
<1>3. PICK h : FoldsOver(h, Nat, 0, F, n)
  BY <1>1, <1>2, FoldExists
<1>4. h = [i \in SUBSET (DOMAIN s) |->
             IF i = {} THEN 0 ELSE AddSize(h[i \ {Max(i)}], s[Max(i)])]
  <2>1. h = [i \in SUBSET (1..n) |-> h[i]]
    BY <1>3 DEF FoldsOver
  <2>2. ASSUME NEW i \in SUBSET (1..n)
        PROVE  h[i] = IF i = {} THEN 0 ELSE AddSize(h[i \ {Max(i)}], s[Max(i)])
    <3>1. CASE i = {}
      BY <1>3, <3>1 DEF FoldsOver
    <3>2. CASE i # {}
      <4>1. Max(i) \in 1..n /\ i \ {Max(i)} \in SUBSET (1..n)
        BY <1>1, <3>2, MaxIsMember
      <4>2. h[i \ {Max(i)}] \in Nat
        BY <1>3, <4>1 DEF FoldsOver
      <4>3. h[i] = F[<<h[i \ {Max(i)}], Max(i)>>]
        BY <1>3, <3>2 DEF FoldsOver
      <4> QED BY <1>2, <3>2, <4>1, <4>2, <4>3
    <3> QED BY <3>1, <3>2
  <2> QED BY <1>1, <2>1, <2>2
<1> DEFINE it == CHOOSE g : g = [i \in SUBSET (DOMAIN s) |->
                    IF i = {} THEN 0 ELSE AddSize(g[i \ {Max(i)}], s[Max(i)])]
<1>5. it = [i \in SUBSET (DOMAIN s) |->
              IF i = {} THEN 0 ELSE AddSize(it[i \ {Max(i)}], s[Max(i)])]
  BY <1>4
<1>6. FoldLeft(LAMBDA m, a : m + AttrSize(a), 0, s) = it[DOMAIN s]
  BY DEF FoldLeft, MapThenFoldSet, AddSize
<1> HIDE DEF it
<1>7. \A i \in SUBSET (1..n) :
        it[i] = IF i = {} THEN 0 ELSE AddSize(it[i \ {Max(i)}], s[Max(i)])
  BY <1>1, <1>5
<1> DEFINE Good(k) == it[1..k] \in 0..(7 * k)
           T == {k \in Nat : k <= n => Good(k)}
<1>8. 0 \in T
  <2>1. 1..0 = {} /\ {} \in SUBSET (1..n)
    OBVIOUS
  <2>2. it[1..0] = 0
    BY <1>7, <2>1
  <2> QED BY <2>2
<1>9. ASSUME NEW k \in Nat, k + 1 <= n, Good(k) PROVE Good(k + 1)
  <2>1. /\ 1..(k + 1) \in SUBSET (1..n) /\ k + 1 \in 1..(k + 1) /\ 1..(k + 1) # {}
        /\ (1..(k + 1)) \ {k + 1} = 1..k /\ k + 1 \in 1..n
    <3>1. \A i \in 1..(k + 1) : i \in 1..n
      BY <1>1, <1>9
    <3>2. k + 1 \in 1..(k + 1) /\ (1..(k + 1)) \ {k + 1} = 1..k
      BY <1>9
    <3> QED BY <3>1, <3>2
  <2>2. Max(1..(k + 1)) = k + 1
    BY <2>1, MaxOfRange
  <2>3. it[1..(k + 1)] = AddSize(it[1..k], s[k + 1])
    BY <1>7, <2>1, <2>2
  <2>4. PICK x \in 0..(7 * k), y \in 1..7 : x = it[1..k] /\ y = AttrSize(s[k + 1])
    BY <1>13, <1>9, <2>1
  <2>5. it[1..(k + 1)] = x + y
    BY <2>3, <2>4 DEF AddSize
  <2>6. x + y \in 0..(7 * (k + 1))
    BY <1>9
  <2> QED BY <2>5, <2>6
<1>10. \A k \in Nat : k \in T => k + 1 \in T
  <2>1. \A k \in Nat : k + 1 <= n => k <= n
    BY <1>1
  <2> HIDE DEF Good
  <2> QED BY <1>9, <2>1
<1> HIDE DEF T
<1>11. n \in T
  BY <1>1, <1>8, <1>10, SetInduction
<1>12. Good(n)
  BY <1>1, <1>11 DEF T
<1> QED BY <1>1, <1>6, <1>12

LEMMA ItemFits ==
  ASSUME PlanInv, NEW item, Has(poll_list, item)
  PROVE  /\ Len(item.attrs) \in 1..15
         /\ \A a \in ToSet(item.attrs) : AttrSize(a) > 0
         /\ 7 + FoldLeft(LAMBDA n, a : n + AttrSize(a), 0, item.attrs) <= MaxFrame
<1>1. PICK s \in Seq(Attributes) : s = item.attrs /\ IsInjective(s) /\ s # <<>>
  BY ItemFacts
<1>12. IsInjective(s)
  BY <1>1
<1>2. item.fast \in BOOLEAN /\ item.idx \in Int
  <2>1. poll_list \in Seq(AnyItem)
    BY PlanFacts
  <2>2. item \in AnyItem
    BY <2>1, HasTyped
  <2> QED BY <2>2 DEF AnyItem
<1>3. ASSUME NEW a, NEW fast, Has(poll_regs, Reg(item.idx, a, fast))
      PROVE  InRegs(config, Reg(item.idx, a, fast))
  BY <1>3, PlanFacts
<1>4. ASSUME item.fast PROVE Len(s) <= 15
  <2>1. \A a : Has(s, a) => Has(poll_regs, Reg(item.idx, a, TRUE))
    BY <1>1, <1>4, ItemFacts
  <2>2. ASSUME NEW a, Has(s, a) PROVE a \in FastNames
    <3>1. PICK r : r = Reg(item.idx, a, TRUE)
      OBVIOUS
    <3>2. InRegs(config, r)
      BY <1>3, <2>1, <2>2, <3>1
    <3>3. r.fast = TRUE /\ r.attr = a
      BY <3>1 DEF Reg
    <3> QED BY <3>2, <3>3, PlanFacts, RegNames
  <2>3. PICK names : names = FastOnes \o <<"floor_temp", "revision">>
    OBVIOUS
  <2>4. \A a \in FastNames : \E k \in 1..15 : names[k] = a
    BY <2>3, FastOnesToo
  <2>5. \A i \in DOMAIN s : \E k \in 1..15 : names[k] = s[i]
    BY <2>2, <2>4 DEF Has
  <2>6. PICK m \in Nat : m = 15
    OBVIOUS
  <2>7. \A i \in DOMAIN s : \E k \in 1..m : names[k] = s[i]
    BY <2>5, <2>6
  <2>8. Len(s) <= m
    BY <1>12, <2>7, LengthWithin
  <2> QED BY <2>6, <2>8
<1>5. ASSUME ~item.fast PROVE Len(s) <= 15
  <2>1. \A a : Has(s, a) => /\ ~Has(poll_regs, Reg(item.idx, a, TRUE))
                            /\ Has(poll_regs, Reg(item.idx, a, FALSE)) \/ a = "control"
    BY <1>1, <1>5, ItemFacts
  <2>2. ASSUME NEW a, Has(s, a) PROVE a \in SlowNames
    <3>1. CASE a = "control"
      BY <3>1 DEF SlowNames, Attributes
    <3>2. CASE Has(poll_regs, Reg(item.idx, a, FALSE))
      <4>1. PICK r : r = Reg(item.idx, a, FALSE)
        OBVIOUS
      <4>2. InRegs(config, r)
        BY <1>3, <3>2, <4>1
      <4>3. r.fast = FALSE /\ r.attr = a /\ r.idx = item.idx
        BY <4>1 DEF Reg
      <4>4. ~\E q : InRegs(config, q) /\ q = Reg(item.idx, a, TRUE)
        BY <2>1, <2>2, PlanFacts
      <4> QED BY <4>2, <4>3, <4>4, PlanFacts, RegNames
    <3> QED BY <2>1, <2>2, <3>1, <3>2
  <2>3. PICK names : \A a \in SlowNames : \E k \in 1..15 : names[k] = a
    BY SlowOnes
  <2>4. \A i \in DOMAIN s : \E k \in 1..15 : names[k] = s[i]
    BY <2>2, <2>3 DEF Has
  <2>5. PICK m \in Nat : m = 15
    OBVIOUS
  <2>6. \A i \in DOMAIN s : \E k \in 1..m : names[k] = s[i]
    BY <2>4, <2>5
  <2>7. Len(s) <= m
    BY <1>12, <2>6, LengthWithin
  <2> QED BY <2>5, <2>7
<1>6. Len(s) \in Nat /\ Len(s) <= 15 /\ Len(s) # 0
  BY <1>1, <1>2, <1>4, <1>5
<1>7. PICK n \in Nat : n = Len(s)
  BY <1>6
<1>13. n <= 15 /\ n # 0
  BY <1>6, <1>7
<1>8. PICK total : total = FoldLeft(LAMBDA m, a : m + AttrSize(a), 0, s)
  OBVIOUS
<1>14. total \in 0..(7 * n)
  BY <1>7, <1>8, SizesBound
<1>9. total \in Nat /\ total <= 7 * n
  BY <1>14
<1>15. 7 + total <= MaxFrame
  BY <1>13, <1>9 DEF MaxFrame
<1>10. \A a \in ToSet(s) : AttrSize(a) > 0
  <2>1. \A a \in ToSet(s) : a \in Attributes
    BY DEF ToSet
  <2> QED BY <2>1, SizeBound
<1>11. n \in 1..15
  BY <1>13
<1> QED BY <1>1, <1>7, <1>8, <1>15, <1>10, <1>11

(* What an entity that polls registers is read. *)
LEMMA RegisteredRead ==
  ASSUME PlanInv, NEW e, InHouse(config, e), e.kind \in {"sensor", "text", "number"}, e.idx \in Int
  PROVE  \E item \in ToSet(poll_list) : item.idx = e.idx /\ e.attr \in ToSet(item.attrs)
<1>1. PICK idx \in Int, a \in {e.attr} : idx = e.idx
  OBVIOUS
<1>2. Has(poll_regs, Reg(idx, a, FALSE))
  <2>1. Reg(idx, a, FALSE) = Reg(e.idx, e.attr, FALSE)
    BY <1>1
  <2> QED BY <2>1, PlanFacts DEF InRegs
<1>3. \E item \in ToSet(poll_list) : item.idx = idx /\ a \in ToSet(item.attrs)
  BY <1>2, ReadAny
<1> QED BY <1>1, <1>3

(* No attribute of an output group, and not the control mode, is fast. *)
LEMMA NotFast ==
  ASSUME PlanInv, NEW idx \in Int, NEW a \in OutputGroups \cup {"control"}
  PROVE  ~Has(poll_regs, Reg(idx, a, TRUE))
<1>1. PICK r : r = Reg(idx, a, TRUE)
  OBVIOUS
<1>2. r.fast = TRUE /\ r.attr = a
  BY <1>1 DEF Reg
<1>3. a \notin FastNames
  BY DEF OutputGroups, FastNames
<1>4. ~InRegs(config, r)
  BY <1>2, <1>3, PlanFacts, RegNames
<1> QED BY <1>1, <1>4, PlanFacts

LEMMA ClimateFed ==
  ASSUME PlanInv, NEW i \in DOMAIN config.rooms, NEW idx \in Int,
         idx = RoomIndex(config.rooms[i]), IsRoom(idx),
         NEW a \in {"air_temp", "heatcool", "mode", "home", "away", "sleep", "min", "max",
                    "control"}
  PROVE  \E item \in ToSet(poll_list) : item.idx = idx /\ {a} \subseteq ToSet(item.attrs)
<1>1. CASE a \in {"air_temp", "heatcool", "mode", "home", "away", "sleep"}
  <2>1. \E k \in 1..6 : FastOnes[k] = a
    <3>1. /\ FastOnes[1] = "air_temp" /\ FastOnes[2] = "heatcool" /\ FastOnes[3] = "mode"
          /\ FastOnes[4] = "home" /\ FastOnes[5] = "away" /\ FastOnes[6] = "sleep"
      BY DEF FastOnes
    <3>2. \A k \in {1, 2, 3, 4, 5, 6} : k \in 1..6
      OBVIOUS
    <3>3. a \in {FastOnes[k] : k \in {1, 2, 3, 4, 5, 6}}
      BY <1>1, <3>1
    <3> QED BY <3>2, <3>3
  <2>2. PICK r : r = Reg(idx, a, TRUE)
    OBVIOUS
  <2>3. InRoomRegs(config.rooms[i], r)
    BY <2>1, <2>2 DEF InRoomRegs
  <2>4. Has(poll_regs, Reg(idx, a, TRUE))
    BY <2>2, <2>3, PlanFacts DEF InRegs
  <2>5. \E item \in ToSet(poll_list) : item.idx = idx /\ item.fast = TRUE /\ a \in ToSet(item.attrs)
    BY <2>4, ReadFast
  <2> QED BY <2>5
<1>2. CASE a \in {"min", "max"}
  <2>1. PICK r : r = Reg(idx, a, FALSE)
    OBVIOUS
  <2>2. InRoomRegs(config.rooms[i], r)
    BY <1>2, <2>1 DEF InRoomRegs
  <2>3. Has(poll_regs, Reg(idx, a, FALSE))
    BY <2>1, <2>2, PlanFacts DEF InRegs
  <2>4. \E item \in ToSet(poll_list) : item.idx = idx /\ a \in ToSet(item.attrs)
    BY <2>3, ReadAny
  <2> QED BY <2>4
<1>3. CASE a = "control"
  <2>1. PICK r : r = Reg(idx, "min", FALSE)
    OBVIOUS
  <2>2. InRoomRegs(config.rooms[i], r) /\ r.idx = idx
    BY <2>1 DEF InRoomRegs, Reg
  <2>3. \E q : Has(poll_regs, q) /\ q.idx = idx
    BY <2>2, PlanFacts DEF InRegs
  <2>4. PICK S : S = {a}
    OBVIOUS
  <2>5. \A b \in S : /\ ~Has(poll_regs, Reg(idx, b, TRUE))
                     /\ Has(poll_regs, Reg(idx, b, FALSE)) \/ (b = "control" /\ IsRoom(idx))
    BY <1>3, <2>4, NotFast
  <2>6. a \in S
    BY <2>4
  <2>7. \E item \in ToSet(poll_list) : item.idx = idx /\ S \subseteq ToSet(item.attrs)
    BY <2>3, <2>5, <2>6, ReadSlow
  <2> QED BY <2>4, <2>7
<1> QED BY <1>1, <1>2, <1>3

LEMMA OutputsFed ==
  ASSUME PlanInv, NEW i \in DOMAIN config.rooms, NEW idx \in Int, idx = RoomIndex(config.rooms[i]),
         "outputs" \in config.rooms[i].on
  PROVE  \E item \in ToSet(poll_list) : item.idx = idx /\ OutputGroups \subseteq ToSet(item.attrs)
<1>1. InHouse(config, Text(idx, "out_slow", "outputs"))
  BY DEF InHouse, InRoom
<1>2. Has(poll_regs, Reg(idx, "out_slow", FALSE))
  <2>1. PICK e : e = Text(idx, "out_slow", "outputs")
    OBVIOUS
  <2>2. e.kind = "text" /\ e.idx = idx /\ e.attr = "out_slow"
    BY <2>1 DEF Text
  <2>3. InHouse(config, e)
    BY <1>1, <2>1
  <2> QED BY <2>2, <2>3, PlanFacts DEF InRegs
<1>3. \A a \in {"out_med", "out_fast"} : Has(poll_regs, Reg(idx, a, FALSE))
  <2>1. ASSUME NEW a \in {"out_med", "out_fast"}
        PROVE  InRoomRegs(config.rooms[i], Reg(idx, a, FALSE))
    BY <2>1 DEF InRoomRegs
  <2> QED BY <2>1, PlanFacts DEF InRegs
<1>4. \A a \in OutputGroups : /\ ~Has(poll_regs, Reg(idx, a, TRUE))
                              /\ Has(poll_regs, Reg(idx, a, FALSE))
  BY <1>2, <1>3, NotFast DEF OutputGroups
<1>5. PICK S : S = OutputGroups /\ "out_slow" \in S
  BY DEF OutputGroups
<1>6. \E r : Has(poll_regs, r) /\ r.idx = idx
  <2>1. Reg(idx, "out_slow", FALSE).idx = idx
    BY DEF Reg
  <2> QED BY <1>2, <2>1
<1>7. PICK b \in S : TRUE
  BY <1>5
<1>8. \A a \in S : /\ ~Has(poll_regs, Reg(idx, a, TRUE))
                   /\ Has(poll_regs, Reg(idx, a, FALSE)) \/ (a = "control" /\ IsRoom(idx))
  BY <1>4, <1>5
<1>9. \E item \in ToSet(poll_list) : item.idx = idx /\ S \subseteq ToSet(item.attrs)
  BY <1>6, <1>8, ReadSlow
<1> QED BY <1>5, <1>9

(* The Problem alarm has no poll of its own: its Fault text has. *)
LEMMA ProblemFed ==
  ASSUME PlanInv, NEW idx \in Int, NEW decode, InHouse(config, Text(idx, "error", decode))
  PROVE  \E item \in ToSet(poll_list) : item.idx = idx /\ {"error"} \subseteq ToSet(item.attrs)
<1>1. PICK e : e = Text(idx, "error", decode)
  OBVIOUS
<1>2. e.kind = "text" /\ e.idx = idx /\ e.attr = "error"
  BY <1>1 DEF Text
<1>3. InHouse(config, e)
  BY <1>1
<1> QED BY <1>2, <1>3, RegisteredRead

LEMMA Fed ==
  ASSUME PlanInv, NEW e, InHouse(config, e), e.idx \in Int
  PROVE  IF e.decode = "climate"
         THEN \A a \in Consumes(e) :
                \E item \in ToSet(poll_list) : item.idx = e.idx /\ {a} \subseteq ToSet(item.attrs)
         ELSE \E item \in ToSet(poll_list) :
                item.idx = e.idx /\ Consumes(e) \subseteq ToSet(item.attrs)
<1>1. ASSUME e.kind \in {"sensor", "text", "number"}, Consumes(e) = {e.attr}
      PROVE  \E item \in ToSet(poll_list) :
               item.idx = e.idx /\ Consumes(e) \subseteq ToSet(item.attrs)
  BY <1>1, RegisteredRead
<1>2. CASE \E i \in DOMAIN config.rooms : InRoom(config.rooms[i], e)
  <2>1. PICK i \in DOMAIN config.rooms : InRoom(config.rooms[i], e)
    BY <1>2
  <2>2. PICK idx \in Int : idx = RoomIndex(config.rooms[i]) /\ idx = e.idx
    BY <2>1, RoomIdx
  <2>3. IsRoom(idx)
    <3>1. config.rooms[i] \in RoomConfigs
      BY PlanFacts, ConfigurationParts
    <3>2. PICK x \in 49..93 : x = idx
      BY <2>2, <3>1, RoomIndexed
    <3> QED BY <3>2 DEF IsRoom, RoomIdxBase
  <2>4. CASE e = Climate(idx)
    <3>1. e.decode = "climate" /\ Consumes(e) = {"air_temp", "heatcool", "mode", "home", "away",
                                                 "sleep", "min", "max", "control"}
      BY <2>4 DEF Climate, Consumes
    <3>2. ASSUME NEW a \in {"air_temp", "heatcool", "mode", "home", "away", "sleep", "min", "max",
                            "control"}
          PROVE  \E item \in ToSet(poll_list) : item.idx = idx /\ {a} \subseteq ToSet(item.attrs)
      BY <2>2, <2>3, ClimateFed
    <3> QED BY <2>2, <3>1, <3>2
  <2>5. CASE "outputs" \in config.rooms[i].on /\ e = Text(idx, "out_slow", "outputs")
    <3>1. e.decode = "outputs" /\ Consumes(e) = OutputGroups
      BY <2>5 DEF Text, Consumes
    <3> QED BY <2>2, <2>5, <3>1, OutputsFed
  <2>6. CASE "fault" \in config.rooms[i].on /\ e = Problem(idx)
    <3>1. e.decode = "problem" /\ Consumes(e) = {"error"}
      BY <2>6 DEF Problem, Consumes
    <3>2. InHouse(config, Text(idx, "error", "fault_room"))
      BY <2>2, <2>6 DEF InHouse, InRoom
    <3> QED BY <2>2, <3>1, <3>2, ProblemFed
  <2>7. CASE \/ \E a, d : /\ d \notin {"climate", "outputs"}
                          /\ e = Sensor(idx, a, d) \/ e = Text(idx, a, d)
             \/ \E a : e = Number(idx, a)
    <3>1. e.kind \in {"sensor", "text", "number"} /\ e.decode \notin {"climate", "outputs"}
      BY <2>7 DEF Sensor, Text, Number
    <3> QED BY <1>1, <3>1 DEF Consumes
  <2> QED BY <2>1, <2>2, <2>4, <2>5, <2>6, <2>7 DEF InRoom
<1>3. ASSUME NEW idx \in Int, NEW on, InController(idx, on, e),
             \A q : InController(idx, on, q) => InHouse(config, q)
      PROVE  e.decode # "climate"
             /\ \E item \in ToSet(poll_list) :
                  item.idx = e.idx /\ Consumes(e) \subseteq ToSet(item.attrs)
  <2>1. CASE "fault" \in on /\ e = Problem(idx)
    <3>1. e.decode = "problem" /\ Consumes(e) = {"error"} /\ e.idx = idx
      BY <2>1 DEF Problem, Consumes
    <3>2. InHouse(config, Text(idx, "error", "fault_rail"))
      BY <1>3, <2>1 DEF InController
    <3> QED BY <3>1, <3>2, ProblemFed
  <2>2. CASE \E q, a, d : d \notin {"climate", "outputs"} /\ e = Text(q, a, d)
    <3>1. e.kind = "text" /\ e.decode \notin {"climate", "outputs"}
      BY <2>2 DEF Text
    <3> QED BY <1>1, <3>1 DEF Consumes
  <2> QED BY <1>3, <2>1, <2>2 DEF InController
<1>4. CASE InController(1, config.primary, e)
  <2>1. \A q : InController(1, config.primary, q) => InHouse(config, q)
    BY DEF InHouse
  <2> QED BY <1>3, <1>4, <2>1, 1 \in Int
<1>5. CASE \E i \in DOMAIN config.secondaries :
             InController(config.secondaries[i].number, config.secondaries[i].on, e)
  <2>1. PICK i \in DOMAIN config.secondaries :
             InController(config.secondaries[i].number, config.secondaries[i].on, e)
    BY <1>5
  <2>2. \A q : InController(config.secondaries[i].number, config.secondaries[i].on, q)
                 => InHouse(config, q)
    BY DEF InHouse
  <2>3. config.secondaries[i].number \in Int
    <3>1. config.secondaries[i].number \in 2..3
      BY PlanFacts, ConfigurationParts
    <3> QED BY <3>1
  <2> QED BY <1>3, <2>1, <2>2, <2>3
<1> QED BY <1>2, <1>4, <1>5 DEF InHouse

LEMMA PlanFeeds == PlanInv => EveryEntityFed
<1> SUFFICES ASSUME PlanInv PROVE EveryEntityFed
  OBVIOUS
<1>1. ASSUME NEW i \in DOMAIN entities
      PROVE  IF entities[i].decode = "climate"
             THEN \A a \in Consumes(entities[i]) :
                    \E item \in ToSet(poll_list) :
                      item.idx = entities[i].idx /\ {a} \subseteq ToSet(item.attrs)
             ELSE \E item \in ToSet(poll_list) :
                    item.idx = entities[i].idx /\ Consumes(entities[i]) \subseteq ToSet(item.attrs)
  <2>1. entities \in Seq(AnyEntity)
    BY PlanFacts
  <2>2. PICK e \in AnyEntity : e = entities[i]
    BY <2>1
  <2>3. Has(entities, e) /\ e.idx \in Int
    BY <2>2 DEF Has, AnyEntity
  <2>4. InHouse(config, e)
    BY <2>3, PlanFacts
  <2> QED BY <2>2, <2>3, <2>4, Fed
<1>2. \A item \in ToSet(poll_list) :
        /\ Len(item.attrs) \in 1..15
        /\ \A a \in ToSet(item.attrs) : AttrSize(a) > 0
        /\ 7 + FoldLeft(LAMBDA n, a : n + AttrSize(a), 0, item.attrs) <= MaxFrame
  BY ItemFits, HasToSet
<1> QED BY <1>1, <1>2 DEF EveryEntityFed

-----------------------------------------------------------------------------
(* The alarm and its text, slice by slice.                                 *)

(* An error code of a controller says by bit 0 or bit 1 that it has faults. *)
Honest(code) == code \cap 8..15 # {} => 0 \in code \/ 1 \in code

LEMMA RailCodeHonest == ASSUME NEW faults PROVE Honest(RailCode(faults))
<1>1. DOMAIN RailFault = 8..15 /\ \A b \in 8..15 : RailFault[b] # "output"
  <2>1. PICK names : names = <<"expansion missing", "radio missing", "command missing",
                        "primary missing", "secondary 1 missing", "secondary 2 missing",
                        "Pt1000 short", "Pt1000 open">>
    OBVIOUS
  <2>2. 7 + Len(names) = 15 /\ \A k \in 1..8 : names[k] # "output"
    <3>1. \A k \in {1, 2, 3, 4, 5, 6, 7, 8} : names[k] # "output"
      <4>1. /\ names[1] = "expansion missing" /\ names[2] = "radio missing"
            /\ names[3] = "command missing" /\ names[4] = "primary missing"
            /\ names[5] = "secondary 1 missing" /\ names[6] = "secondary 2 missing"
            /\ names[7] = "Pt1000 short" /\ names[8] = "Pt1000 open"
        BY <2>1
      <4> QED BY <4>1
    <3>2. \A k \in 1..8 : k \in {1, 2, 3, 4, 5, 6, 7, 8}
      OBVIOUS
    <3>3. Len(names) = 8
      BY <2>1
    <3> QED BY <3>1, <3>2, <3>3
  <2>5. RailFault = FromBit8(names)
    BY <2>1 DEF RailFault
  <2>3. RailFault = [b \in 8..15 |-> names[b - 7]]
    BY <2>2, <2>5 DEF FromBit8
  <2>4. \A b \in 8..15 : b - 7 \in 1..8
    OBVIOUS
  <2> QED BY <2>2, <2>3, <2>4
<1> SUFFICES ASSUME NEW b \in 8..15, b \in RailCode(faults)
             PROVE  0 \in RailCode(faults) \/ 1 \in RailCode(faults)
  BY DEF Honest
<1>2. CASE "output" \in faults
  BY <1>2 DEF RailCode
<1>3. CASE "output" \notin faults
  <2>1. RailFault[b] \in faults
    <3>1. b \in {x \in DOMAIN RailFault : RailFault[x] \in faults}
                  \cup (IF faults \subseteq {"output"} THEN {} ELSE {0})
      BY <1>3 DEF RailCode
    <3> QED BY <3>1
  <2>2. ~(faults \subseteq {"output"})
    BY <1>1, <2>1
  <2> QED BY <2>2 DEF RailCode
<1> QED BY <1>2, <1>3

LEMMA AlarmSlice ==
  ASSUME NEW e, NEW f, e.decode = "problem", e.attr = "error", f.attr = "error", e.idx = f.idx,
         \/ f.decode = "fault_room" /\ IsRoom(e.idx)
         \/ f.decode = "fault_rail" /\ ~IsRoom(e.idx),
         NEW s, NEW t, SameAlarm(IsRoom(e.idx), s, t), NEW idx, NEW attr, NEW v,
         attr = "error" /\ ~IsRoom(idx) => Honest(v)
  PROVE  SameAlarm(IsRoom(e.idx), OnAttr(e, s, idx, attr, v), OnAttr(f, t, idx, attr, v))
<1>1. CASE ~(idx = e.idx /\ attr = "error")
  BY <1>1 DEF OnAttr
<1>2. CASE idx = e.idx /\ attr = "error"
  <2>1. OnAttr(e, s, idx, attr, v) = <<v \cap AlarmMask(e.idx) # {}>>
    BY <1>2 DEF OnAttr, Publish, Decode
  <2>2. OnAttr(f, t, idx, attr, v)
          = IF IsRoom(e.idx) THEN <<RoomFaultNames(v)>> ELSE <<RailFaultNames(v)>>
    <3>1. CASE f.decode = "fault_room" /\ IsRoom(e.idx)
      BY <1>2, <3>1 DEF OnAttr, Publish, Decode
    <3>2. CASE f.decode = "fault_rail" /\ ~IsRoom(e.idx)
      BY <1>2, <3>2 DEF OnAttr, Publish, Decode
    <3> QED BY <3>1, <3>2
  <2>3. \/ OnAttr(e, s, idx, attr, v) = <<TRUE>> /\ v \cap AlarmMask(e.idx) # {}
        \/ OnAttr(e, s, idx, attr, v) = <<FALSE>> /\ v \cap AlarmMask(e.idx) = {}
    BY <2>1
  <2>4. CASE IsRoom(e.idx)
    <3>1. v \cap {8, 10, 11} # {} => RoomFaultNames(v) # {}
      <4>1. {8, 10, 11} \subseteq DOMAIN RoomFault
        <5>1. Len(<<"thermostat missing", "RT touch", "floor short", "floor disconnected">>) = 4
          OBVIOUS
        <5> QED BY <5>1 DEF RoomFault, FromBit8
      <4> QED BY <4>1 DEF RoomFaultNames
    <3>2. PICK names : names = RoomFaultNames(v)
      OBVIOUS
    <3>3. AlarmMask(e.idx) = {8, 10, 11}
      BY <2>4 DEF AlarmMask
    <3>4. OnAttr(f, t, idx, attr, v) = <<names>>
      BY <2>2, <2>4, <3>2
    <3>5. PICK s2, t2 : s2 = OnAttr(e, s, idx, attr, v) /\ t2 = OnAttr(f, t, idx, attr, v)
      OBVIOUS
    <3>6. t2 = <<names>> /\ t2[1] = names
      BY <3>4, <3>5
    <3>7. (s2 = <<TRUE>> /\ names # {}) \/ s2 = <<FALSE>>
      BY <2>3, <3>1, <3>2, <3>3, <3>5
    <3> QED BY <2>4, <3>5, <3>6, <3>7 DEF SameAlarm
  <2>5. CASE ~IsRoom(e.idx)
    <3>1. DOMAIN RailFault = 8..15
      <4>1. Len(<<"expansion missing", "radio missing", "command missing",
                        "primary missing", "secondary 1 missing", "secondary 2 missing",
                        "Pt1000 short", "Pt1000 open">>) = 8
        OBVIOUS
      <4> QED BY <4>1 DEF RailFault, FromBit8
    <3>2. Honest(v)
      BY <1>2, <2>5
    <3>3. v \cap ((8..15) \cup {1}) # {} <=> RailFaultNames(v) # {}
      <4>1. CASE 1 \in v
        BY <4>1 DEF RailFaultNames
      <4>2. CASE 1 \notin v
        <5>1. RailFaultNames(v) = {RailFault[b] : b \in {c \in v \cap DOMAIN RailFault : 0 \in v}}
          BY <4>2 DEF RailFaultNames
        <5>2. v \cap 8..15 # {} => 0 \in v
          BY <3>2, <4>2 DEF Honest
        <5> QED BY <3>1, <4>2, <5>1, <5>2
      <4> QED BY <4>1, <4>2
    <3>4. PICK names : names = RailFaultNames(v)
      OBVIOUS
    <3>5. AlarmMask(e.idx) = (8..15) \cup {1}
      BY <2>5 DEF AlarmMask
    <3>6. OnAttr(f, t, idx, attr, v) = <<names>>
      BY <2>2, <2>5, <3>4
    <3>7. PICK s2, t2 : s2 = OnAttr(e, s, idx, attr, v) /\ t2 = OnAttr(f, t, idx, attr, v)
      OBVIOUS
    <3>8. t2 = <<names>> /\ t2[1] = names
      BY <3>6, <3>7
    <3>9. (s2 = <<TRUE>> /\ names # {}) \/ (s2 = <<FALSE>> /\ names = {})
      BY <2>3, <3>3, <3>4, <3>5, <3>7
    <3> QED BY <3>7, <3>8, <3>9 DEF SameAlarm
  <2> QED BY <2>4, <2>5
<1> QED BY <1>1, <1>2

LEMMA AlarmSlices ==
  ASSUME NEW e, NEW f, e.decode = "problem", e.attr = "error", f.attr = "error", e.idx = f.idx,
         \/ f.decode = "fault_room" /\ IsRoom(e.idx)
         \/ f.decode = "fault_rail" /\ ~IsRoom(e.idx),
         NEW s, NEW t, SameAlarm(IsRoom(e.idx), s, t), NEW idx, NEW attrs, NEW values,
         NEW n \in Nat, DOMAIN values = 1..n,
         \A k \in 1..n : attrs[k] = "error" /\ ~IsRoom(idx) => Honest(values[k])
  PROVE  SameAlarm(IsRoom(e.idx), Slices(e, s, idx, attrs, values),
                                  Slices(f, t, idx, attrs, values))
<1>1. PICK p : /\ p[0] = s /\ Slices(e, s, idx, attrs, values) = p[n]
               /\ \A k \in 1..n : p[k] = OnAttr(e, p[k - 1], idx, attrs[k], values[k])
  BY SlicesInTurn
<1>2. PICK q : /\ q[0] = t /\ Slices(f, t, idx, attrs, values) = q[n]
               /\ \A k \in 1..n : q[k] = OnAttr(f, q[k - 1], idx, attrs[k], values[k])
  BY SlicesInTurn
<1> DEFINE Good(k) == SameAlarm(IsRoom(e.idx), p[k], q[k])
           S == {k \in Nat : k <= n => Good(k)}
<1>3. 0 \in S
  BY <1>1, <1>2
<1>4. ASSUME NEW k \in Nat, k + 1 <= n, Good(k) PROVE Good(k + 1)
  <2>1. k + 1 \in 1..n /\ (k + 1) - 1 = k
    BY <1>4
  <2>2. /\ p[k + 1] = OnAttr(e, p[k], idx, attrs[k + 1], values[k + 1])
        /\ q[k + 1] = OnAttr(f, q[k], idx, attrs[k + 1], values[k + 1])
    BY <1>1, <1>2, <2>1
  <2>3. attrs[k + 1] = "error" /\ ~IsRoom(idx) => Honest(values[k + 1])
    BY <2>1
  <2>4. SameAlarm(IsRoom(e.idx), p[k], q[k])
    BY <1>4
  <2> QED BY <2>2, <2>3, <2>4, AlarmSlice
<1>5. \A k \in Nat : k \in S => k + 1 \in S
  <2>1. \A k \in Nat : k + 1 <= n => k <= n
    OBVIOUS
  <2> HIDE DEF Good
  <2> QED BY <1>4, <2>1
<1> HIDE DEF S
<1>6. n \in S
  BY <1>3, <1>5, SetInduction
<1> QED BY <1>1, <1>2, <1>6 DEF S

-----------------------------------------------------------------------------
(* What holds of every state: the plan is the configuration's, the         *)
(* entities that show the same thing are in step, and what is in flight is *)
(* of the plan, an answer of a controller's errors one it can give.        *)

Written == {"min", "max", "floor_min", "floor_max", "control"}
AnyWrite == [idx : Int, attr : Written, value : Settings \cup {0}]
IsList(s) == \E n \in Nat : DOMAIN s = 1..n

OpFields == {"kind", "stage", "status", "values"}
HonestAnswer(item, values) ==
  IsList(values)
  /\ \A k \in DOMAIN values : item.attrs[k] = "error" /\ ~IsRoom(item.idx) => Honest(values[k])
InFlight ==
  \/ op = NoOp
  \/ /\ DOMAIN op = OpFields \cup {"item"} /\ op.kind = "poll"
     /\ op.item \in DOMAIN poll_list
     /\ HonestAnswer(poll_list[op.item], op.values)
  \/ /\ DOMAIN op = OpFields \cup {"req"} /\ op.kind = "write"
     /\ op.req \in AnyWrite /\ IsList(op.values) /\ DOMAIN op.values \subseteq {1}

ShownInv == PlanInv /\ write_queue \in Seq(AnyWrite) /\ InStep /\ InFlight

LEMMA EntityFacts ==
  ASSUME PlanInv, NEW i \in DOMAIN entities
  PROVE  /\ entities[i].idx \in Int
         /\ entities[i].kind = "number"
              => entities[i].decode = "number" /\ entities[i].attr \in Written
         /\ entities[i].decode \in {"problem", "fault_room", "fault_rail"}
              => entities[i].attr = "error"
         /\ entities[i].decode = "fault_room" => IsRoom(entities[i].idx)
         /\ entities[i].decode = "fault_rail" => ~IsRoom(entities[i].idx)
<1>1. entities \in Seq(AnyEntity)
  BY PlanFacts
<1>2. PICK e \in AnyEntity : e = entities[i]
  BY <1>1
<1>3. InHouse(config, e)
  <2>1. Has(entities, e)
    BY <1>2 DEF Has
  <2> QED BY <2>1, PlanFacts
<1>4. \/ /\ IsRoom(e.idx)
         /\ \E room : InRoom(room, e)
      \/ /\ ~IsRoom(e.idx)
         /\ \E idx, on : InController(idx, on, e)
  BY <1>3, PlanFacts, WhereFrom
<1>5. ASSUME NEW room, InRoom(room, e)
      PROVE  /\ e.kind = "number" => e.decode = "number" /\ e.attr \in Written
             /\ e.decode \in {"problem", "fault_room", "fault_rail"} => e.attr = "error"
             /\ e.decode # "fault_rail"
  <2>1. PICK idx : idx = RoomIndex(room)
    OBVIOUS
  <2>2. \/ e = Climate(idx) \/ e = Problem(idx)
        \/ e = Sensor(idx, "air_temp", "temp") \/ e = Sensor(idx, "battery", "battery")
        \/ e = Sensor(idx, "floor_temp", "temp")
        \/ e = Text(idx, "model", "product") \/ e = Text(idx, "firmware", "verstr")
        \/ e = Text(idx, "out_slow", "outputs") \/ e = Text(idx, "floor_mode", "floor_mode")
        \/ e = Text(idx, "error", "fault_room")
        \/ \E a \in {"min", "max", "floor_min", "floor_max"} : e = Number(idx, a)
    BY <1>5, <2>1 DEF InRoom
  <2>3. CASE \E a \in {"min", "max", "floor_min", "floor_max"} : e = Number(idx, a)
    BY <2>3 DEF Number, Written
  <2> QED BY <2>2, <2>3 DEF Climate, Problem, Sensor, Text
<1>6. ASSUME NEW idx, NEW on, InController(idx, on, e)
      PROVE  /\ e.kind # "number" /\ e.decode # "fault_room"
             /\ e.decode \in {"problem", "fault_room", "fault_rail"} => e.attr = "error"
  BY <1>6 DEF InController, Problem, Text
<1>7. e.idx \in Int
  BY <1>2 DEF AnyEntity
<1> QED BY <1>2, <1>4, <1>5, <1>6, <1>7

LEMMA StartsInStep == Init => ShownInv
<1> SUFFICES ASSUME Init PROVE ShownInv
  OBVIOUS
<1>1. PlanInv
  BY DEF Init, PlanInv
<1>2. write_queue \in Seq(AnyWrite) /\ InFlight
  BY DEF Init, InFlight
<1>3. shown = [i \in DOMAIN entities |-> Blank(entities[i])]
  BY DEF Init
<1>4. ASSUME NEW i \in DOMAIN entities, NEW j \in DOMAIN entities,
             ClimatePair(entities[i], entities[j])
      PROVE  SameTemperature(shown[i], shown[j])
  <2>1. Blank(entities[j]) = <<>>
    BY <1>4 DEF ClimatePair, Blank
  <2>2. Blank(entities[i]) = [room_temp |-> NaN, floor_temp |-> NaN, floor_mode |-> 0,
                              current |-> NaN, action |-> "off", lo |-> 500, hi |-> 3500]
    BY <1>4 DEF ClimatePair, Blank
  <2>3. SameTemperature(Blank(entities[i]), Blank(entities[j]))
    BY <2>1, <2>2 DEF SameTemperature
  <2> QED BY <1>3, <2>3
<1>5. ASSUME NEW i \in DOMAIN entities, NEW j \in DOMAIN entities,
             AlarmPair(entities[i], entities[j])
      PROVE  SameAlarm(IsRoom(entities[i].idx), shown[i], shown[j])
  <2>1. Blank(entities[i]) = <<>> /\ Blank(entities[j]) = <<>>
    BY <1>5 DEF AlarmPair, Blank
  <2> QED BY <1>3, <2>1 DEF SameAlarm
<1>6. DOMAIN shown = DOMAIN entities
  BY <1>3
<1> QED BY <1>1, <1>2, <1>4, <1>5, <1>6 DEF ShownInv, InStep

(* Nothing of a reply, whichever, takes them out of step. *)
LEMMA DispatchInStep ==
  ASSUME PlanInv, InStep, NEW idx, NEW attrs, NEW values, IsList(values),
         \A k \in DOMAIN values : attrs[k] = "error" /\ ~IsRoom(idx) => Honest(values[k]),
         shown' = Dispatch(idx, attrs, values), UNCHANGED plan
  PROVE  InStep'
<1>1. PICK n \in Nat : DOMAIN values = 1..n
  BY DEF IsList
<1>2. entities' = entities
  BY DEF plan
<1>3. /\ DOMAIN shown' = DOMAIN entities
      /\ \A i \in DOMAIN entities : shown'[i] = Slices(entities[i], shown[i], idx, attrs, values)
  BY DEF Dispatch
<1>4. ASSUME NEW i \in DOMAIN entities, NEW j \in DOMAIN entities,
             ClimatePair(entities[i], entities[j])
      PROVE  SameTemperature(shown'[i], shown'[j])
  <2>1. SameTemperature(shown[i], shown[j])
    BY <1>4 DEF InStep
  <2>2. PICK e, f, s, t : e = entities[i] /\ f = entities[j] /\ s = shown[i] /\ t = shown[j]
    OBVIOUS
  <2>3. SameTemperature(s, t) /\ e.decode = "climate" /\ f.decode = "temp" /\ f.attr = "air_temp"
        /\ e.idx = f.idx
    BY <1>4, <2>1, <2>2 DEF ClimatePair
  <2>4. SameTemperature(Slices(e, s, idx, attrs, values), Slices(f, t, idx, attrs, values))
    BY <1>1, <2>3, TemperatureSlices
  <2> QED BY <1>3, <2>2, <2>4
<1>5. ASSUME NEW i \in DOMAIN entities, NEW j \in DOMAIN entities,
             AlarmPair(entities[i], entities[j])
      PROVE  SameAlarm(IsRoom(entities[i].idx), shown'[i], shown'[j])
  <2>1. SameAlarm(IsRoom(entities[i].idx), shown[i], shown[j])
    BY <1>5 DEF InStep
  <2>2. PICK e, f, s, t : e = entities[i] /\ f = entities[j] /\ s = shown[i] /\ t = shown[j]
    OBVIOUS
  <2>3. /\ SameAlarm(IsRoom(e.idx), s, t) /\ e.decode = "problem" /\ e.attr = "error"
        /\ f.attr = "error" /\ e.idx = f.idx
        /\ \/ f.decode = "fault_room" /\ IsRoom(e.idx)
           \/ f.decode = "fault_rail" /\ ~IsRoom(e.idx)
    BY <1>5, <2>1, <2>2, EntityFacts DEF AlarmPair
  <2>4. \A k \in 1..n : attrs[k] = "error" /\ ~IsRoom(idx) => Honest(values[k])
    BY <1>1
  <2>5. SameAlarm(IsRoom(e.idx), Slices(e, s, idx, attrs, values), Slices(f, t, idx, attrs, values))
    BY <1>1, <2>3, <2>4, AlarmSlices
  <2> QED BY <1>3, <2>2, <2>5
<1> QED BY <1>2, <1>3, <1>4, <1>5 DEF InStep

-----------------------------------------------------------------------------
(* Step by step.                                                           *)

LEMMA PlanStays == ASSUME PlanInv, UNCHANGED plan PROVE PlanInv'
BY DEF PlanInv, plan

LEMMA InStepStays == ASSUME InStep, UNCHANGED <<plan, shown>> PROVE InStep'
BY DEF InStep, plan

LEMMA InFlightStays == ASSUME InFlight, UNCHANGED <<plan, op>> PROVE InFlight'
BY DEF InFlight, plan

LEMMA Queued ==
  ASSUME write_queue \in Seq(AnyWrite), NEW idx \in Int, NEW attr \in Written,
         NEW v \in Settings \cup {0}
  PROVE  QueueWrite(idx, attr, v) \in Seq(AnyWrite)
<1>1. PICK w \in AnyWrite : w = [idx |-> idx, attr |-> attr, value |-> v]
  BY DEF AnyWrite
<1>2. Append(write_queue, w) \in Seq(AnyWrite)
  BY AppendProperties
<1> QED BY <1>1, <1>2 DEF QueueWrite

(* A request that is answered stays what it was, with the answer in it.    *)
LEMMA CameFacts ==
  ASSUME NEW status, NEW values, Came(status, values), "kind" \in DOMAIN op, "values" \in DOMAIN op
  PROVE  /\ DOMAIN op' = DOMAIN op /\ op'.kind = op.kind /\ op'.values = values
         /\ "item" \in DOMAIN op => op'.item = op.item
         /\ "req" \in DOMAIN op => op'.req = op.req
BY DEF Came

LEMMA NoneSent == NoOp.kind = "none"
BY DEF NoOp

(* The values a controller answers with, and the start of them. *)
LEMMA AnswersHonest ==
  ASSUME PlanInv, NEW item, Has(poll_list, item)
  PROVE  HonestAnswer(item, Values(item))
<1>1. PICK n \in Nat : DOMAIN item.attrs = 1..n
  <2>1. item.attrs \in Seq(Attributes)
    BY ItemFacts
  <2> QED BY <2>1
<1>2. /\ DOMAIN Values(item) = 1..n
      /\ \A k \in 1..n : Values(item)[k] = OnWire(item.idx, item.attrs[k])
  BY <1>1 DEF Values
<1>3. ASSUME NEW k \in 1..n, item.attrs[k] = "error", ~IsRoom(item.idx)
      PROVE  Honest(Values(item)[k])
  <2>1. PICK faults : OnWire(item.idx, item.attrs[k]) = RailCode(faults)
    BY <1>3 DEF OnWire
  <2> QED BY <1>2, <2>1, RailCodeHonest
<1> QED BY <1>2, <1>3 DEF HonestAnswer, IsList

LEMMA StartHonest ==
  ASSUME NEW item, NEW values, HonestAnswer(item, values), NEW k \in Nat,
         k = 0 \/ k \in DOMAIN values
  PROVE  HonestAnswer(item, SubSeq(values, 1, k))
<1>1. PICK n \in Nat : DOMAIN values = 1..n
  BY DEF HonestAnswer, IsList
<1>2. SubSeq(values, 1, k) = [i \in 1..k |-> values[i]]
  <2>1. SubSeq(values, 1, k) = [i \in 1..(1 + k - 1) |-> values[i + 1 - 1]]
    OBVIOUS
  <2> QED BY <2>1
<1>3. \A i \in 1..k : i \in 1..n
  BY <1>1
<1> QED BY <1>1, <1>2, <1>3 DEF HonestAnswer, IsList

LEMMA SetNumberInStep ==
  ASSUME ShownInv, NEW i \in DOMAIN entities, NEW v \in Settings, SetNumber(i, v)
  PROVE  ShownInv'
<1>1. PlanInv /\ InStep /\ InFlight /\ write_queue \in Seq(AnyWrite) /\ UNCHANGED <<plan, op>>
  BY DEF ShownInv, SetNumber
<1>2. PlanInv' /\ InFlight'
  BY <1>1, PlanStays, InFlightStays
<1>3. entities[i].decode = "number" /\ entities[i].attr \in Written /\ entities[i].idx \in Int
  BY <1>1, EntityFacts DEF SetNumber
<1>4. write_queue' \in Seq(AnyWrite)
  BY <1>1, <1>3, Queued DEF SetNumber
<1>5. DOMAIN shown' = DOMAIN shown /\ \A j \in DOMAIN shown : j # i => shown'[j] = shown[j]
  BY DEF SetNumber
<1>6. InStep'
  <2>1. entities' = entities
    BY <1>1 DEF plan
  <2>2. ASSUME NEW j \in DOMAIN entities, NEW k \in DOMAIN entities,
               ClimatePair(entities[j], entities[k]) \/ AlarmPair(entities[j], entities[k])
        PROVE  shown'[j] = shown[j] /\ shown'[k] = shown[k]
    <3>1. j # i /\ k # i
      BY <1>3, <2>2 DEF ClimatePair, AlarmPair
    <3> QED BY <1>1, <1>5, <3>1 DEF InStep
  <2> QED BY <1>1, <1>5, <2>1, <2>2 DEF InStep
<1> QED BY <1>2, <1>4, <1>6 DEF ShownInv

LEMMA SendInStep ==
  ASSUME ShownInv, SendWrite \/ \E i \in 1..MaxItems : SendPoll(i) PROVE ShownInv'
<1>1. PlanInv /\ InStep /\ write_queue \in Seq(AnyWrite) /\ UNCHANGED <<plan, shown>>
  BY DEF ShownInv, SendWrite, SendPoll
<1>2. PlanInv' /\ InStep'
  BY <1>1, PlanStays, InStepStays
<1>3. poll_list' = poll_list
  BY <1>1 DEF plan
<1>4. CASE SendWrite
  <2>1. Head(write_queue) \in AnyWrite /\ Tail(write_queue) \in Seq(AnyWrite)
    BY <1>1, <1>4 DEF SendWrite
  <2>2. PICK w \in AnyWrite : w = Head(write_queue)
    BY <2>1
  <2>3. op' = [kind |-> "write", stage |-> "sent", req |-> w, status |-> "none", values |-> <<>>]
    BY <1>4, <2>2 DEF SendWrite, Write
  <2>4. IsList(<<>>) /\ DOMAIN <<>> = {}
    <3>1. DOMAIN <<>> = 1..0 /\ 0 \in Nat /\ DOMAIN <<>> = {}
      OBVIOUS
    <3> QED BY <3>1 DEF IsList
  <2>5. /\ DOMAIN op' = OpFields \cup {"req"} /\ op'.kind = "write"
        /\ op'.req \in AnyWrite /\ op'.values = <<>>
    BY <2>3 DEF OpFields
  <2>6. InFlight'
    BY <2>4, <2>5 DEF InFlight
  <2>7. write_queue' \in Seq(AnyWrite)
    BY <1>4, <2>1 DEF SendWrite
  <2> QED BY <1>2, <2>6, <2>7 DEF ShownInv
<1>5. CASE \E i \in 1..MaxItems : SendPoll(i)
  <2>1. PICK i : SendPoll(i)
    BY <1>5
  <2>2. op' = [kind |-> "poll", stage |-> "sent", item |-> i, status |-> "none", values |-> <<>>]
    BY <2>1 DEF SendPoll, Poll
  <2>3. /\ DOMAIN op' = OpFields \cup {"item"} /\ op'.kind = "poll" /\ op'.item = i
        /\ op'.values = <<>>
    BY <2>2 DEF OpFields
  <2>4. \A item : HonestAnswer(item, <<>>)
    <3>1. DOMAIN <<>> = 1..0 /\ 0 \in Nat /\ DOMAIN <<>> = {}
      OBVIOUS
    <3> QED BY <3>1 DEF HonestAnswer, IsList
  <2>5. i \in DOMAIN poll_list /\ write_queue' = write_queue
    BY <2>1 DEF SendPoll
  <2>6. InFlight'
    BY <1>3, <2>3, <2>4, <2>5 DEF InFlight
  <2> QED BY <1>1, <1>2, <2>5, <2>6 DEF ShownInv
<1> QED BY <1>4, <1>5

LEMMA AnsweredPoll ==
  ASSUME PlanInv, InFlight, op # NoOp, op.kind = "poll", UNCHANGED plan, NEW values,
         HonestAnswer(poll_list[op.item], values), NEW status, Came(status, values)
  PROVE  InFlight'
<1>1. /\ DOMAIN op = OpFields \cup {"item"} /\ op.item \in DOMAIN poll_list
  BY DEF InFlight
<1>2. /\ DOMAIN op' = DOMAIN op /\ op'.kind = op.kind /\ op'.values = values
      /\ op'.item = op.item
  BY <1>1, CameFacts DEF OpFields
<1>3. poll_list' = poll_list
  BY DEF plan
<1> QED BY <1>1, <1>2, <1>3 DEF InFlight

LEMMA AnsweredWrite ==
  ASSUME PlanInv, InFlight, op # NoOp, op.kind = "write", UNCHANGED plan, NEW values,
         IsList(values), DOMAIN values \subseteq {1}, NEW status, Came(status, values)
  PROVE  InFlight'
<1>1. DOMAIN op = OpFields \cup {"req"} /\ op.req \in AnyWrite
  BY DEF InFlight
<1>2. /\ DOMAIN op' = DOMAIN op /\ op'.kind = op.kind /\ op'.values = values
      /\ op'.req = op.req
  BY <1>1, CameFacts DEF OpFields
<1> QED BY <1>1, <1>2 DEF InFlight

LEMMA ServeInStep == ASSUME ShownInv, Serve \/ ServeBadly PROVE ShownInv'
<1>1. /\ PlanInv /\ InStep /\ InFlight /\ write_queue \in Seq(AnyWrite)
      /\ UNCHANGED <<plan, shown, write_queue>> /\ op # NoOp
  BY DEF ShownInv, Serve, ServeBadly, Sent
<1>2. PlanInv' /\ InStep' /\ write_queue' \in Seq(AnyWrite)
  BY <1>1, PlanStays, InStepStays
<1>3. op.kind = "poll" => Has(poll_list, poll_list[op.item])
  BY <1>1 DEF InFlight, Has
<1>4. op.kind = "poll" => HonestAnswer(poll_list[op.item], Values(poll_list[op.item]))
  BY <1>1, <1>3, AnswersHonest
<1>5. IsList(<<>>) /\ DOMAIN <<>> = {}
  <2>1. DOMAIN <<>> = 1..0 /\ 0 \in Nat /\ DOMAIN <<>> = {}
    OBVIOUS
  <2> QED BY <2>1 DEF IsList
<1>6. CASE op.kind = "poll" /\ Came("ok", Values(poll_list[op.item]))
  BY <1>1, <1>4, <1>6, <1>2, AnsweredPoll DEF ShownInv
<1>7. CASE op.kind = "write" /\ Came("ok", <<op.req.value>>)
  <2>1. PICK values : values = <<op.req.value>>
    OBVIOUS
  <2>2. IsList(values) /\ DOMAIN values \subseteq {1}
    <3>1. DOMAIN values = 1..1 /\ 1 \in Nat /\ DOMAIN values = {1}
      BY <2>1
    <3> QED BY <3>1 DEF IsList
  <2> QED BY <1>1, <1>2, <1>7, <2>1, <2>2, AnsweredWrite DEF ShownInv
<1>8. CASE Came("refused", <<>>)
  <2>1. CASE op.kind = "poll"
    <3>1. HonestAnswer(poll_list[op.item], <<>>)
      BY <1>5 DEF HonestAnswer
    <3> QED BY <1>1, <1>2, <1>8, <2>1, <3>1, AnsweredPoll DEF ShownInv
  <2>2. CASE op.kind = "write"
    BY <1>1, <1>2, <1>5, <1>8, <2>2, AnsweredWrite DEF ShownInv
  <2> QED BY <1>1, <2>1, <2>2 DEF InFlight
<1>9. CASE op.kind = "poll" /\ \E k \in Cuts \cap 0..(Len(Values(poll_list[op.item])) - 1) :
                                 Came("ok", SubSeq(Values(poll_list[op.item]), 1, k))
  <2>1. PICK all : all = Values(poll_list[op.item])
    OBVIOUS
  <2>2. HonestAnswer(poll_list[op.item], all)
    BY <1>4, <1>9, <2>1
  <2>3. PICK n \in Nat : DOMAIN all = 1..n
    BY <2>2 DEF HonestAnswer, IsList
  <2>4. Len(all) = n
    BY <2>3
  <2>5. PICK k \in 0..(n - 1) : Came("ok", SubSeq(all, 1, k))
    BY <1>9, <2>1, <2>4
  <2>6. k \in Nat /\ (k = 0 \/ k \in 1..n)
    OBVIOUS
  <2>7. PICK values : values = SubSeq(all, 1, k) /\ HonestAnswer(poll_list[op.item], values)
    BY <2>2, <2>3, <2>6, StartHonest
  <2> QED BY <1>1, <1>2, <1>9, <2>5, <2>7, AnsweredPoll DEF ShownInv
<1> QED BY <1>6, <1>7, <1>8, <1>9 DEF Serve, ServeBadly

LEMMA OthersInStep ==
  ASSUME ShownInv, TimeOut \/ \E p \in DOMAIN world : Change(p) PROVE ShownInv'
<1>1. /\ PlanInv /\ InStep /\ InFlight /\ write_queue \in Seq(AnyWrite)
      /\ UNCHANGED <<plan, shown, write_queue>>
  BY DEF ShownInv, TimeOut, Change
<1>2. PlanInv' /\ InStep' /\ write_queue' \in Seq(AnyWrite)
  BY <1>1, PlanStays, InStepStays
<1>3. CASE op' = NoOp
  BY <1>2, <1>3 DEF ShownInv, InFlight
<1>4. CASE op' = op
  BY <1>1, <1>2, <1>4, InFlightStays DEF ShownInv
<1> QED BY <1>3, <1>4 DEF TimeOut, Change

LEMMA DeliverPollInStep == ASSUME ShownInv, DeliverPoll PROVE ShownInv'
<1> DEFINE item == poll_list[op.item]
           stop == UnknownAt(item)
           values == IF stop \in DOMAIN op.values THEN SubSeq(op.values, 1, stop - 1)
                     ELSE op.values
           heal == \E k \in DOMAIN values : item.attrs[k] = "control" /\ values[k] # 0
<1>1. /\ PlanInv /\ InStep /\ InFlight /\ write_queue \in Seq(AnyWrite)
      /\ UNCHANGED plan /\ op # NoOp /\ op.kind = "poll"
  BY DEF ShownInv, DeliverPoll
<1>2. /\ shown' = Dispatch(item.idx, item.attrs, values)
      /\ write_queue' = IF heal THEN QueueWrite(item.idx, "control", 0) ELSE write_queue
      /\ op' = NoOp
  BY DEF DeliverPoll
<1>3. op.item \in DOMAIN poll_list /\ HonestAnswer(item, op.values)
  BY <1>1 DEF InFlight
<1>4. HonestAnswer(item, values)
  <2>1. CASE stop \in DOMAIN op.values
    <3>1. PICK n \in Nat : DOMAIN op.values = 1..n
      BY <1>3 DEF HonestAnswer, IsList
    <3>2. PICK m \in 1..n : m = stop
      BY <2>1, <3>1
    <3>3. m - 1 \in Nat /\ (m - 1 = 0 \/ m - 1 \in 1..n)
      OBVIOUS
    <3>4. HonestAnswer(item, SubSeq(op.values, 1, m - 1))
      BY <1>3, <3>1, <3>3, StartHonest
    <3> QED BY <2>1, <3>2, <3>4
  <2>2. CASE stop \notin DOMAIN op.values
    BY <1>3, <2>2
  <2> QED BY <2>1, <2>2
<1>5. item.idx \in Int
  <2>1. Has(poll_list, item)
    BY <1>3 DEF Has
  <2> QED BY <1>1, <2>1, ItemFacts
<1> HIDE DEF item, values, heal, stop
<1>6. PlanInv'
  BY <1>1, PlanStays
<1>7. InStep'
  <2>1. PICK idx, attrs : idx = item.idx /\ attrs = item.attrs
    OBVIOUS
  <2>2. IsList(values)
    BY <1>4 DEF HonestAnswer
  <2>3. \A k \in DOMAIN values : attrs[k] = "error" /\ ~IsRoom(idx) => Honest(values[k])
    BY <1>4, <2>1 DEF HonestAnswer
  <2>4. shown' = Dispatch(idx, attrs, values)
    BY <1>2, <2>1
  <2> QED BY <1>1, <2>2, <2>3, <2>4, DispatchInStep
<1>8. write_queue' \in Seq(AnyWrite)
  <2>1. "control" \in Written /\ 0 \in Settings \cup {0}
    BY DEF Written
  <2>2. PICK idx \in Int, attr \in Written, v \in Settings \cup {0} :
          idx = item.idx /\ attr = "control" /\ v = 0
    BY <1>5, <2>1
  <2>3. QueueWrite(idx, attr, v) \in Seq(AnyWrite)
    BY <1>1, Queued
  <2> QED BY <1>1, <1>2, <2>2, <2>3
<1> QED BY <1>2, <1>6, <1>7, <1>8 DEF ShownInv, InFlight

LEMMA DeliverWriteInStep == ASSUME ShownInv, DeliverWrite PROVE ShownInv'
<1>1. /\ PlanInv /\ InStep /\ InFlight /\ write_queue \in Seq(AnyWrite)
      /\ UNCHANGED <<plan, write_queue>> /\ op # NoOp /\ op.kind = "write" /\ op' = NoOp
  BY DEF ShownInv, DeliverWrite
<1>2. op.req \in AnyWrite /\ IsList(op.values) /\ DOMAIN op.values \subseteq {1}
  BY <1>1 DEF InFlight
<1>3. PlanInv'
  BY <1>1, PlanStays
<1>4. InStep'
  <2>1. CASE shown' = shown
    BY <1>1, <2>1, InStepStays
  <2>2. CASE shown' = Dispatch(op.req.idx, <<op.req.attr>>, op.values)
    <3>1. PICK idx, attrs, values :
            idx = op.req.idx /\ attrs = <<op.req.attr>> /\ values = op.values
      OBVIOUS
    <3>2. op.req.attr # "error"
      BY <1>2 DEF AnyWrite, Written
    <3>3. \A k : attrs[k] = op.req.attr \/ k \notin {1}
      BY <3>1
    <3>4. IsList(values) /\ shown' = Dispatch(idx, attrs, values)
      BY <1>2, <2>2, <3>1
    <3>5. DOMAIN values \subseteq {1}
      BY <1>2, <3>1
    <3>6. \A k \in DOMAIN values : attrs[k] = "error" /\ ~IsRoom(idx) => Honest(values[k])
      BY <3>2, <3>3, <3>5
    <3> QED BY <1>1, <3>4, <3>6, DispatchInStep
  <2> QED BY <2>1, <2>2 DEF DeliverWrite
<1> QED BY <1>1, <1>3, <1>4 DEF ShownInv, InFlight

LEMMA StutterInStep == ASSUME ShownInv, UNCHANGED vars PROVE ShownInv'
<1>1. /\ PlanInv /\ InStep /\ InFlight /\ write_queue \in Seq(AnyWrite)
      /\ UNCHANGED <<plan, shown, op, write_queue>>
  BY DEF ShownInv, vars
<1> QED BY <1>1, PlanStays, InStepStays, InFlightStays DEF ShownInv

LEMMA StaysInStep == ShownInv /\ [Next]_vars => ShownInv'
<1> SUFFICES ASSUME ShownInv, [Next]_vars PROVE ShownInv'
  OBVIOUS
<1>1. CASE \E i \in DOMAIN entities, v \in Settings : SetNumber(i, v)
  BY <1>1, SetNumberInStep
<1>2. CASE SendWrite \/ \E i \in 1..MaxItems : SendPoll(i)
  BY <1>2, SendInStep
<1>3. CASE Serve \/ ServeBadly
  BY <1>3, ServeInStep
<1>4. CASE TimeOut \/ \E p \in DOMAIN world : Change(p)
  BY <1>4, OthersInStep
<1>5. CASE DeliverPoll
  BY <1>5, DeliverPollInStep
<1>6. CASE DeliverWrite
  BY <1>6, DeliverWriteInStep
<1>7. CASE UNCHANGED vars
  BY <1>7, StutterInStep
<1> QED BY <1>1, <1>2, <1>3, <1>4, <1>5, <1>6, <1>7 DEF Next

LEMMA InStepExplains == ShownInv => AlarmExplained
<1> SUFFICES ASSUME ShownInv, NEW i \in DOMAIN entities, NEW j \in DOMAIN entities,
                    AlarmPair(entities[i], entities[j])
             PROVE  /\ shown[i] = <<TRUE>> => shown[j] \notin {<<>>, <<{}>>}
                    /\ ~IsRoom(entities[i].idx) /\ shown[i] = <<FALSE>> => shown[j] = <<{}>>
  BY DEF AlarmExplained, AlarmPair
<1>1. SameAlarm(IsRoom(entities[i].idx), shown[i], shown[j])
  BY DEF ShownInv, InStep
<1>2. PICK s, t : s = shown[i] /\ t = shown[j]
  OBVIOUS
<1>3. CASE s = <<>> /\ t = <<>>
  BY <1>2, <1>3
<1>4. CASE t = <<t[1]>> /\ s = <<TRUE>> /\ t[1] # {}
  <2>1. t # <<>> /\ t # <<{}>>
    <3>1. <<t[1]>> # <<>>
      OBVIOUS
    <3>2. <<{}>>[1] = {}
      OBVIOUS
    <3> QED BY <1>4, <3>1, <3>2
  <2>2. s # <<FALSE>>
    <3>1. <<TRUE>>[1] = TRUE /\ <<FALSE>>[1] = FALSE
      OBVIOUS
    <3> QED BY <1>4, <3>1
  <2> QED BY <1>2, <2>1, <2>2
<1>5. CASE t = <<t[1]>> /\ s = <<FALSE>> /\ (IsRoom(entities[i].idx) \/ t[1] = {})
  <2>1. s # <<TRUE>>
    <3>1. <<TRUE>>[1] = TRUE /\ <<FALSE>>[1] = FALSE
      OBVIOUS
    <3> QED BY <1>5, <3>1
  <2>2. ~IsRoom(entities[i].idx) => t = <<{}>>
    BY <1>5
  <2> QED BY <1>2, <2>1, <2>2
<1> QED BY <1>1, <1>2, <1>3, <1>4, <1>5 DEF SameAlarm

LEMMA InStepShows == ShownInv => HistoryInStep
<1> SUFFICES ASSUME ShownInv, NEW i \in DOMAIN entities, NEW j \in DOMAIN entities,
                    ClimatePair(entities[i], entities[j]),
                    shown[i].floor_mode # 1, shown[i].room_temp # NaN
             PROVE  shown[j] = <<shown[i].current>>
  BY DEF HistoryInStep, ClimatePair
<1>1. SameTemperature(shown[i], shown[j])
  BY DEF ShownInv, InStep
<1> QED BY <1>1 DEF SameTemperature

-----------------------------------------------------------------------------
(* The properties, for every configuration the schema lets through, every  *)
(* reading, and every bound.                                               *)

LEMMA AlwaysInStep == Spec => []ShownInv
<1> QED BY StartsInStep, StaysInStep, PTL DEF Spec

(* Every attribute an entity reads is polled, what it puts together from   *)
(* several comes in one reply, and no request or reply is longer than the  *)
(* buffers it goes through (build_poll_list_, __init__.py, setup()).       *)
THEOREM EntitiesFed == Spec => []EveryEntityFed
<1>1. ShownInv => EveryEntityFed
  BY PlanFeeds DEF ShownInv
<1> QED BY <1>1, AlwaysInStep, PTL

(* No attribute is polled twice, an attribute registered on both tiers is  *)
(* polled fast, and the rooms counted are the rooms polled                 *)
(* (build_poll_list_, register_attr, add_room).                            *)
THEOREM AttributesReadOnce == Spec => []ReadOnce
<1>1. ShownInv => ReadOnce
  BY PlanReadOnce DEF ShownInv
<1> QED BY <1>1, AlwaysInStep, PTL

(* Whatever the faults, the losses and the order of the replies, a Problem *)
(* alarm that is on is explained by its Fault text, and a controller's is  *)
(* on whenever a fault is named (status.h, text_sensor.cpp).               *)
THEOREM AlarmsExplained == Spec => []AlarmExplained
<1> QED BY InStepExplains, AlwaysInStep, PTL

(* The temperature kept for the history is the one the climate entity      *)
(* shows, unless it is the invalid reading, which only the sensor          *)
(* publishes: through every cut, lost or refused reply and every change of *)
(* the regulation mode (climate.cpp:275, sensor.cpp).                      *)
THEOREM TemperaturesAgree == Spec => []HistoryInStep
<1> QED BY InStepShows, AlwaysInStep, PTL
=============================================================================
