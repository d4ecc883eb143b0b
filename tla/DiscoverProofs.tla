--------------------------- MODULE DiscoverProofs ---------------------------
(***************************************************************************)
(* DiscoverConfig, for every house, however often and early the button is  *)
(* pressed and whatever is lost: what is logged to its last line pastes    *)
(* into a configuration of what is there, and of all of it when the probe  *)
(* had ended with nothing lost.                                            *)
(*                                                                         *)
(* Three arguments meet.  The probe's lists hold only what answered, each  *)
(* once, and all of it when nothing is lost.  A dump made of such lists    *)
(* reads back, line by line, into the configuration meant, whose rooms and *)
(* rails are those of the lists.  And the log is always the beginning of   *)
(* one dump, which its last line shows to be the whole.                    *)
(***************************************************************************)
EXTENDS DiscoverConfig, PollPlanProofs

-----------------------------------------------------------------------------
(* One line of a paste.                                                    *)

BodyKeys == {"esphome", "devices", "danfoss_icon", "rooms", "secondary_controllers",
             "number", "name", "device_id", "id", "controller", "floor"}
AnyLine == [key : BodyKeys \cup {"begin", "end"}, val : Int]
BodyLines == [key : BodyKeys, val : Int]

Starts == {"rooms", "secondary_controllers"}
Sections == Starts \cup {"none"}
RoomEntries == [number : Int, controller : Int, floor : BOOLEAN, on : {RoomToggles}]
RailEntries == [number : Int, on : {RailToggles}]
AnyPaste ==
  [section : Sections, rooms : Seq(RoomEntries),
   secondaries : Seq(RailEntries), primary : {PrimaryToggles},
   devices : Seq(Int), under : Seq(Int)]

(* What has been pasted so far. *)
Paste(section, rooms, rails, devices, under) ==
  [section |-> section, rooms |-> rooms, secondaries |-> rails,
   primary |-> PrimaryToggles, devices |-> devices, under |-> under]
Empty == Paste("none", <<>>, <<>>, <<>>, <<>>)

RoomEntry(n, m, floor) ==
  [number |-> n, controller |-> m, floor |-> floor, on |-> RoomToggles]
NewRoom(n) == [RoomDefaults EXCEPT !.number = n]
RailEntry(n) == [number |-> n, on |-> RailToggles]
WithController(rooms, m) == [rooms EXCEPT ![Len(rooms)].controller = m]
WithFloor(rooms) == [rooms EXCEPT ![Len(rooms)].floor = TRUE]

(* What each kind of line adds. *)
LEMMA ReadSection ==
  ASSUME NEW section, NEW rooms, NEW rails, NEW devices, NEW under, NEW line,
         line.key \in Starts
  PROVE  Read(Paste(section, rooms, rails, devices, under), line)
           = Paste(line.key, rooms, rails, devices, under)
BY DEF Read, Paste, Starts

LEMMA NumberFilledIn ==
  ASSUME NEW v, NEW no, NEW d,
         d = [number |-> 0, controller |-> 1, floor |-> no, on |-> RoomToggles]
  PROVE  [d EXCEPT !.number = v]
           = [number |-> v, controller |-> 1, floor |-> no, on |-> RoomToggles]
OBVIOUS

LEMMA NewRoomIs ==
  ASSUME NEW v, NEW no, no = FALSE PROVE NewRoom(v) = RoomEntry(v, 1, no)
<1>1. PICK d : d = RoomDefaults
  OBVIOUS
<1>2. d = [number |-> 0, controller |-> 1, floor |-> no, on |-> RoomToggles]
  BY <1>1 DEF RoomDefaults
<1>3. [d EXCEPT !.number = v]
        = [number |-> v, controller |-> 1, floor |-> no, on |-> RoomToggles]
  BY <1>2, NumberFilledIn
<1> QED BY <1>1, <1>3 DEF NewRoom, RoomEntry

LEMMA ReadRoom ==
  ASSUME NEW section, section = "rooms",
         NEW rooms, NEW rails, NEW devices, NEW under, NEW line, line.key = "number"
  PROVE  Read(Paste(section, rooms, rails, devices, under), line)
           = Paste(section, Append(rooms, NewRoom(line.val)), rails, devices, under)
BY DEF Read, Paste, NewRoom

LEMMA ReadRail ==
  ASSUME NEW section, section # "rooms",
         NEW rooms, NEW rails, NEW devices, NEW under, NEW line, line.key = "number"
  PROVE  Read(Paste(section, rooms, rails, devices, under), line)
           = Paste(section, rooms, Append(rails, RailEntry(line.val)), devices, under)
<1>1. [SecondaryDefaults EXCEPT !.number = line.val] = RailEntry(line.val)
  BY DEF RailEntry, SecondaryDefaults
<1> QED BY <1>1 DEF Read, Paste

LEMMA ReadController ==
  ASSUME NEW section, NEW rooms, NEW rails, NEW devices, NEW under, NEW line,
         line.key = "controller"
  PROVE  Read(Paste(section, rooms, rails, devices, under), line)
           = Paste(section, WithController(rooms, line.val),
                   rails, devices, under)
BY DEF Read, Paste, WithController

LEMMA ReadFloor ==
  ASSUME NEW section, NEW rooms, NEW rails, NEW devices, NEW under, NEW line,
         line.key = "floor"
  PROVE  Read(Paste(section, rooms, rails, devices, under), line)
           = Paste(section, WithFloor(rooms), rails, devices, under)
BY DEF Read, Paste, WithFloor

LEMMA ReadId ==
  ASSUME NEW section, NEW rooms, NEW rails, NEW devices, NEW under, NEW line, line.key = "id"
  PROVE  Read(Paste(section, rooms, rails, devices, under), line)
           = Paste(section, rooms, rails, Append(devices, line.val), under)
BY DEF Read, Paste

LEMMA ReadDeviceId ==
  ASSUME NEW section, NEW rooms, NEW rails, NEW devices, NEW under, NEW line,
         line.key = "device_id"
  PROVE  Read(Paste(section, rooms, rails, devices, under), line)
           = Paste(section, rooms, rails, devices, Append(under, line.val))
BY DEF Read, Paste

LEMMA ReadOther ==
  ASSUME NEW p, NEW line,
         line.key \in {"begin", "end", "esphome", "devices", "danfoss_icon", "name"}
  PROVE  Read(p, line) = p
BY DEF Read

LEMMA PasteTyped ==
  ASSUME NEW section \in Sections,
         NEW rooms \in Seq(RoomEntries), NEW rails \in Seq(RailEntries),
         NEW devices \in Seq(Int), NEW under \in Seq(Int)
  PROVE  Paste(section, rooms, rails, devices, under) \in AnyPaste
BY DEF AnyPaste, Paste

LEMMA PasteParts ==
  ASSUME NEW p \in AnyPaste
  PROVE  /\ p = Paste(p.section, p.rooms, p.secondaries, p.devices, p.under)
         /\ p.section \in Sections
         /\ p.rooms \in Seq(RoomEntries) /\ p.secondaries \in Seq(RailEntries)
         /\ p.devices \in Seq(Int) /\ p.under \in Seq(Int)
BY DEF AnyPaste, Paste

LEMMA RoomEntryTyped ==
  ASSUME NEW n \in Int, NEW m \in Int, NEW floor \in BOOLEAN
  PROVE  RoomEntry(n, m, floor) \in RoomEntries
BY DEF RoomEntries, RoomEntry

LEMMA NewRoomTyped == ASSUME NEW n \in Int PROVE NewRoom(n) \in RoomEntries
<1>1. PICK no \in BOOLEAN : no = FALSE
  OBVIOUS
<1>2. RoomEntry(n, 1, no) \in RoomEntries
  BY RoomEntryTyped
<1> QED BY <1>1, <1>2, NewRoomIs

LEMMA RailEntryTyped == ASSUME NEW n \in Int PROVE RailEntry(n) \in RailEntries
BY DEF RailEntries, RailEntry

(* Filling in the last room of a list of rooms leaves such a list. *)
LEMMA FilledIn ==
  ASSUME NEW rooms \in Seq(RoomEntries), NEW v \in Int
  PROVE  /\ WithController(rooms, v) \in Seq(RoomEntries)
         /\ WithFloor(rooms) \in Seq(RoomEntries)
<1>1. PICK n \in Nat : n = Len(rooms)
  BY LenProperties
<1>2. rooms \in [1..n -> RoomEntries]
  BY <1>1
<1>3. \A r \in RoomEntries : [r EXCEPT !.controller = v] \in RoomEntries
  BY DEF RoomEntries
<1>4. \A r \in RoomEntries : [r EXCEPT !.floor = TRUE] \in RoomEntries
  BY DEF RoomEntries
<1>5. [rooms EXCEPT ![n].controller = v] \in [1..n -> RoomEntries]
  BY <1>2, <1>3
<1>6. [rooms EXCEPT ![n].floor = TRUE] \in [1..n -> RoomEntries]
  BY <1>2, <1>4
<1>7. \A f \in [1..n -> RoomEntries] : f \in Seq(RoomEntries)
  BY SeqDef
<1> QED BY <1>1, <1>5, <1>6, <1>7 DEF WithController, WithFloor

LEMMA ReadTyped ==
  ASSUME NEW p \in AnyPaste, NEW line \in AnyLine PROVE Read(p, line) \in AnyPaste
<1>1. PICK section, rooms, rails, devices, under :
        /\ p = Paste(section, rooms, rails, devices, under)
        /\ section \in Sections
        /\ rooms \in Seq(RoomEntries) /\ rails \in Seq(RailEntries)
        /\ devices \in Seq(Int) /\ under \in Seq(Int)
  BY PasteParts
<1>2. line.key \in BodyKeys \cup {"begin", "end"} /\ line.val \in Int
  BY DEF AnyLine
<1>3. CASE line.key \in Starts
  <2>1. Read(Paste(section, rooms, rails, devices, under), line)
          = Paste(line.key, rooms, rails, devices, under)
    BY <1>3, ReadSection
  <2>2. line.key \in Sections
    BY <1>3 DEF Sections
  <2> QED BY <1>1, <2>1, <2>2, PasteTyped
<1>4. CASE line.key = "number" /\ section = "rooms"
  <2>1. Read(Paste(section, rooms, rails, devices, under), line)
          = Paste(section, Append(rooms, NewRoom(line.val)), rails, devices, under)
    BY <1>4, ReadRoom
  <2>2. Append(rooms, NewRoom(line.val)) \in Seq(RoomEntries)
    BY <1>1, <1>2, NewRoomTyped, AppendProperties
  <2> QED BY <1>1, <2>1, <2>2, PasteTyped
<1>5. CASE line.key = "number" /\ section # "rooms"
  <2>1. Read(Paste(section, rooms, rails, devices, under), line)
          = Paste(section, rooms, Append(rails, RailEntry(line.val)), devices, under)
    BY <1>5, ReadRail
  <2>2. Append(rails, RailEntry(line.val)) \in Seq(RailEntries)
    BY <1>1, <1>2, RailEntryTyped, AppendProperties
  <2> QED BY <1>1, <2>1, <2>2, PasteTyped
<1>6. CASE line.key = "controller"
  <2>1. Read(Paste(section, rooms, rails, devices, under), line)
          = Paste(section, WithController(rooms, line.val),
                  rails, devices, under)
    BY <1>6, ReadController
  <2>2. PICK filled \in Seq(RoomEntries) :
          filled = WithController(rooms, line.val)
    BY <1>1, <1>2, FilledIn
  <2> QED BY <1>1, <2>1, <2>2, PasteTyped
<1>7. CASE line.key = "floor"
  <2>1. Read(Paste(section, rooms, rails, devices, under), line)
          = Paste(section, WithFloor(rooms), rails, devices, under)
    BY <1>7, ReadFloor
  <2>2. PICK filled \in Seq(RoomEntries) : filled = WithFloor(rooms)
    BY <1>1, <1>2, FilledIn
  <2> QED BY <1>1, <2>1, <2>2, PasteTyped
<1>8. CASE line.key = "id"
  <2>1. Read(Paste(section, rooms, rails, devices, under), line)
          = Paste(section, rooms, rails, Append(devices, line.val), under)
    BY <1>8, ReadId
  <2>2. Append(devices, line.val) \in Seq(Int)
    BY <1>1, <1>2, AppendProperties
  <2> QED BY <1>1, <2>1, <2>2, PasteTyped
<1>9. CASE line.key = "device_id"
  <2>1. Read(Paste(section, rooms, rails, devices, under), line)
          = Paste(section, rooms, rails, devices, Append(under, line.val))
    BY <1>9, ReadDeviceId
  <2>2. Append(under, line.val) \in Seq(Int)
    BY <1>1, <1>2, AppendProperties
  <2> QED BY <1>1, <2>1, <2>2, PasteTyped
<1>10. CASE line.key \in {"begin", "end", "esphome", "devices", "danfoss_icon", "name"}
  BY <1>10, ReadOther
<1> QED BY <1>2, <1>3, <1>4, <1>5, <1>6, <1>7, <1>8, <1>9, <1>10 DEF BodyKeys, Starts

-----------------------------------------------------------------------------
(* Many lines: FoldLeft reads them one after the other.                    *)

ReadAll(p, s) == FoldLeft(Read, p, s)

(* The pastes after 0, 1, ... n lines of s. *)
Run(g, p, s, n) == g[0] = p /\ \A k \in 1..n : g[k] = Read(g[k - 1], s[k])

LEMMA ReadAllRuns ==
  ASSUME NEW p \in AnyPaste, NEW s \in Seq(AnyLine)
  PROVE  \E g : /\ Run(g, p, s, Len(s)) /\ ReadAll(p, s) = g[Len(s)]
                /\ \A k \in 0..Len(s) : g[k] \in AnyPaste
<1> DEFINE n == Len(s)
           F == [q \in AnyPaste \X (1..n) |-> Read(q[1], s[q[2]])]
<1>1. n \in Nat /\ DOMAIN s = 1..n /\ \A k \in 1..n : s[k] \in AnyLine
  OBVIOUS
<1>2. /\ F \in [AnyPaste \X (1..n) -> AnyPaste]
      /\ \A q \in AnyPaste, k \in 1..n : F[<<q, k>>] = Read(q, s[k])
  <2>1. \A q \in AnyPaste, k \in 1..n : Read(q, s[k]) \in AnyPaste
    BY <1>1, ReadTyped
  <2> QED BY <2>1
<1> HIDE DEF F
<1>3. PICK h : FoldsOver(h, AnyPaste, p, F, n)
  BY <1>1, <1>2, FoldExists
<1>4. h = [i \in SUBSET (DOMAIN s) |->
             IF i = {} THEN p ELSE Read(h[i \ {Max(i)}], s[Max(i)])]
  <2>1. h = [i \in SUBSET (1..n) |-> h[i]]
    BY <1>3 DEF FoldsOver
  <2>2. ASSUME NEW i \in SUBSET (1..n)
        PROVE  h[i] = IF i = {} THEN p ELSE Read(h[i \ {Max(i)}], s[Max(i)])
    <3>1. CASE i = {}
      BY <1>3, <3>1 DEF FoldsOver
    <3>2. CASE i # {}
      <4>1. Max(i) \in 1..n /\ i \ {Max(i)} \in SUBSET (1..n)
        BY <1>1, <3>2, MaxIsMember
      <4>2. h[i \ {Max(i)}] \in AnyPaste
        BY <1>3, <4>1 DEF FoldsOver
      <4>3. h[i] = F[<<h[i \ {Max(i)}], Max(i)>>]
        BY <1>3, <3>2 DEF FoldsOver
      <4> QED BY <1>2, <3>2, <4>1, <4>2, <4>3
    <3> QED BY <3>1, <3>2
  <2> QED BY <1>1, <2>1, <2>2
<1> DEFINE it == CHOOSE g : g = [i \in SUBSET (DOMAIN s) |->
                    IF i = {} THEN p ELSE Read(g[i \ {Max(i)}], s[Max(i)])]
<1>5. it = [i \in SUBSET (DOMAIN s) |->
              IF i = {} THEN p ELSE Read(it[i \ {Max(i)}], s[Max(i)])]
  BY <1>4
<1>6. ReadAll(p, s) = it[DOMAIN s]
  BY DEF ReadAll, FoldLeft, MapThenFoldSet
<1> HIDE DEF it
<1>7. \A i \in SUBSET (1..n) :
        it[i] = IF i = {} THEN p ELSE Read(it[i \ {Max(i)}], s[Max(i)])
  BY <1>1, <1>5
<1> DEFINE g == [k \in 0..n |-> it[1..k]]
           T == {k \in Nat : k <= n => g[k] \in AnyPaste}
<1>8. g[0] = p
  <2>1. 1..0 = {} /\ {} \in SUBSET (1..n) /\ 0 \in 0..n
    BY <1>1
  <2>2. it[1..0] = p
    BY <1>7, <2>1
  <2> QED BY <2>1, <2>2
<1>9. \A k \in 0..n : g[k] = it[1..k]
  OBVIOUS
<1> HIDE DEF g
<1>10. ASSUME NEW k \in 1..n PROVE k - 1 \in 0..n /\ g[k] = Read(g[k - 1], s[k])
  <2>1. PICK j \in Nat : j + 1 = k /\ j = k - 1 /\ j \in 0..n
    BY <1>1
  <2>2. /\ 1..k \in SUBSET (1..n) /\ k \in 1..k /\ 1..k # {} /\ (1..k) \ {k} = 1..j
    <3>1. \A i \in 1..k : i \in 1..n
      BY <1>1
    <3>2. k \in 1..k /\ (1..k) \ {k} = 1..j
      BY <1>1, <2>1
    <3> QED BY <3>1, <3>2
  <2>3. Max(1..k) = k
    <3>1. Max(1..(j + 1)) = j + 1
      BY <2>1, <2>2, MaxOfRange
    <3> QED BY <2>1, <3>1
  <2>4. it[1..k] = Read(it[1..j], s[k])
    BY <1>7, <2>2, <2>3
  <2>5. k \in 0..n
    BY <1>1
  <2> QED BY <1>9, <2>1, <2>4, <2>5
<1>11. 0 \in T
  BY <1>8
<1>12. ASSUME NEW k \in Nat, k + 1 <= n, g[k] \in AnyPaste PROVE g[k + 1] \in AnyPaste
  <2>1. k + 1 \in 1..n /\ (k + 1) - 1 = k
    BY <1>1, <1>12
  <2>2. g[k + 1] = Read(g[k], s[k + 1])
    BY <1>10, <2>1
  <2> QED BY <1>1, <1>12, <2>1, <2>2, ReadTyped
<1>13. \A k \in Nat : k \in T => k + 1 \in T
  <2>1. \A k \in Nat : k + 1 <= n => k <= n
    BY <1>1
  <2> QED BY <1>12, <2>1
<1> HIDE DEF T
<1>14. Nat \subseteq T
  BY <1>11, <1>13, SetInduction
<1>15. \A k \in 0..n : g[k] \in AnyPaste
  BY <1>1, <1>14 DEF T
<1>16. ReadAll(p, s) = g[n]
  BY <1>1, <1>6, <1>9
<1>17. Run(g, p, s, Len(s))
  BY <1>8, <1>10 DEF Run
<1> QED BY <1>15, <1>16, <1>17

(* The pastes are determined by the first and the lines. *)
LEMMA RunsAgree ==
  ASSUME NEW p, NEW g, NEW h, NEW s, NEW n \in Nat, Run(g, p, s, n), Run(h, p, s, n)
  PROVE  g[n] = h[n]
<1> DEFINE T == {k \in Nat : k <= n => g[k] = h[k]}
<1>1. 0 \in T
  BY DEF Run
<1>2. ASSUME NEW k \in Nat, k + 1 <= n, g[k] = h[k] PROVE g[k + 1] = h[k + 1]
  <2>1. k + 1 \in 1..n /\ (k + 1) - 1 = k
    BY <1>2
  <2>2. g[k + 1] = Read(g[k], s[k + 1]) /\ h[k + 1] = Read(h[k], s[k + 1])
    BY <2>1 DEF Run
  <2> QED BY <1>2, <2>2
<1>3. \A k \in Nat : k \in T => k + 1 \in T
  <2>1. \A k \in Nat : k + 1 <= n => k <= n
    OBVIOUS
  <2> QED BY <1>2, <2>1
<1> HIDE DEF T
<1>4. n \in T
  BY <1>1, <1>3, SetInduction
<1> QED BY <1>4 DEF T

LEMMA ReadAllTyped ==
  ASSUME NEW p \in AnyPaste, NEW s \in Seq(AnyLine) PROVE ReadAll(p, s) \in AnyPaste
<1>1. PICK g : ReadAll(p, s) = g[Len(s)] /\ \A k \in 0..Len(s) : g[k] \in AnyPaste
  BY ReadAllRuns
<1>2. Len(s) \in 0..Len(s)
  OBVIOUS
<1> QED BY <1>1, <1>2

LEMMA ReadNone == ASSUME NEW p \in AnyPaste PROVE ReadAll(p, <<>>) = p
<1>1. PICK s \in Seq(AnyLine) : s = <<>>
  <2>1. <<>> \in Seq(AnyLine)
    OBVIOUS
  <2> QED BY <2>1
<1>2. PICK g : Run(g, p, s, Len(s)) /\ ReadAll(p, s) = g[Len(s)]
  BY ReadAllRuns
<1>3. Len(s) = 0
  BY <1>1
<1> QED BY <1>1, <1>2, <1>3 DEF Run

LEMMA ReadOne ==
  ASSUME NEW p \in AnyPaste, NEW line \in AnyLine PROVE ReadAll(p, <<line>>) = Read(p, line)
<1>1. PICK s \in Seq(AnyLine) : s = <<line>>
  <2>1. <<line>> \in Seq(AnyLine)
    OBVIOUS
  <2> QED BY <2>1
<1>2. PICK g : Run(g, p, s, Len(s)) /\ ReadAll(p, s) = g[Len(s)]
  BY ReadAllRuns
<1>3. Len(s) = 1 /\ s[1] = line /\ 1 \in 1..Len(s) /\ 1 - 1 = 0
  BY <1>1
<1> QED BY <1>1, <1>2, <1>3 DEF Run

(* What comes after a list of lines is read into the paste it makes. *)
LEMMA ReadConcat ==
  ASSUME NEW p \in AnyPaste, NEW s \in Seq(AnyLine), NEW t \in Seq(AnyLine)
  PROVE  ReadAll(p, s \o t) = ReadAll(ReadAll(p, s), t)
<1>1. PICK n \in Nat, m \in Nat : n = Len(s) /\ m = Len(t)
  BY LenProperties
<1>2. PICK u \in Seq(AnyLine) : u = s \o t
  BY ConcatProperties
<1>3. /\ Len(u) = n + m /\ \A i \in 1..n : u[i] = s[i]
      /\ \A i \in 1..m : n + i \in 1..Len(u) /\ u[n + i] = t[i]
  <2>1. Len(u) = n + m /\ \A i \in 1..(n + m) : u[i] = IF i <= n THEN s[i] ELSE t[i - n]
    BY <1>1, <1>2, ConcatProperties
  <2>2. \A i \in 1..n : i \in 1..(n + m) /\ i <= n
    OBVIOUS
  <2>3. \A i \in 1..m : n + i \in 1..(n + m) /\ ~(n + i <= n) /\ (n + i) - n = i
    OBVIOUS
  <2> QED BY <2>1, <2>2, <2>3
<1>4. PICK g : Run(g, p, s, n) /\ ReadAll(p, s) = g[n]
  BY <1>1, ReadAllRuns
<1>5. PICK h : /\ Run(h, p, u, n + m) /\ ReadAll(p, u) = h[n + m]
               /\ \A k \in 0..(n + m) : h[k] \in AnyPaste
  <2>1. PICK h : /\ Run(h, p, u, Len(u)) /\ ReadAll(p, u) = h[Len(u)]
                 /\ \A k \in 0..Len(u) : h[k] \in AnyPaste
    BY ReadAllRuns
  <2>2. Len(u) = n + m
    BY <1>3
  <2> QED BY <2>1, <2>2
<1>6. g[n] = h[n]
  <2>1. ASSUME NEW k \in 1..n PROVE h[k] = Read(h[k - 1], s[k])
    <3>1. k \in 1..(n + m) /\ u[k] = s[k]
      BY <1>3
    <3> QED BY <1>5, <3>1 DEF Run
  <2>2. Run(h, p, s, n)
    BY <1>5, <2>1 DEF Run
  <2> QED BY <1>4, <2>2, RunsAgree
<1>7. h[n] \in AnyPaste
  BY <1>5
<1>8. PICK r : Run(r, h[n], t, m) /\ ReadAll(h[n], t) = r[m]
  BY <1>1, <1>7, ReadAllRuns
<1>9. PICK rest : Run(rest, h[n], t, m) /\ rest[m] = h[n + m]
  <2> DEFINE f == [i \in 0..m |-> h[n + i]]
  <2>1. f[0] = h[n] /\ f[m] = h[n + m]
    OBVIOUS
  <2>2. ASSUME NEW i \in 1..m PROVE f[i] = Read(f[i - 1], t[i])
    <3>1. /\ f[i] = h[n + i] /\ f[i - 1] = h[n + (i - 1)] /\ n + (i - 1) = (n + i) - 1
      OBVIOUS
    <3>2. n + i \in 1..(n + m) /\ u[n + i] = t[i]
      BY <1>3
    <3>3. h[n + i] = Read(h[(n + i) - 1], u[n + i])
      BY <1>5, <3>2 DEF Run
    <3> QED BY <3>1, <3>2, <3>3
  <2>3. Run(f, h[n], t, m)
    BY <2>1, <2>2 DEF Run
  <2> HIDE DEF f
  <2> QED BY <2>1, <2>3
<1>10. rest[m] = r[m]
  BY <1>8, <1>9, RunsAgree
<1> QED BY <1>2, <1>4, <1>5, <1>6, <1>8, <1>9, <1>10

-----------------------------------------------------------------------------
(* The lines of one entry.                                                 *)

LEMMA ReadNext ==
  ASSUME NEW p \in AnyPaste, NEW s \in Seq(AnyLine), NEW line \in AnyLine
  PROVE  ReadAll(p, s \o <<line>>) = Read(ReadAll(p, s), line)
<1>1. PICK t \in Seq(AnyLine) : t = <<line>>
  <2>1. <<line>> \in Seq(AnyLine)
    OBVIOUS
  <2> QED BY <2>1
<1>2. PICK q \in AnyPaste : q = ReadAll(p, s)
  BY ReadAllTyped
<1>3. ReadAll(p, s \o t) = ReadAll(q, t)
  BY <1>2, ReadConcat
<1>4. ReadAll(q, <<line>>) = Read(q, line)
  BY ReadOne
<1> QED BY <1>1, <1>2, <1>3, <1>4

LEMMA BodyTyped == BodyLines \subseteq AnyLine /\ Seq(BodyLines) \subseteq Seq(AnyLine)
<1>1. BodyLines \subseteq AnyLine
  BY DEF BodyLines, AnyLine
<1> QED BY <1>1

LEMMA LineTyped ==
  ASSUME NEW key \in BodyKeys, NEW v \in Int
  PROVE  /\ Line(key, v) \in Seq(BodyLines)
         /\ \E line \in BodyLines : /\ Line(key, v) = <<line>>
                                    /\ line.key = key /\ line.val = v
<1>1. PICK line \in BodyLines : line = [key |-> key, val |-> v]
  BY DEF BodyLines
<1>2. Line(key, v) = <<line>> /\ line.key = key /\ line.val = v
  BY <1>1 DEF Line
<1>3. <<line>> \in Seq(BodyLines)
  OBVIOUS
<1> QED BY <1>2, <1>3

LEMMA DeclareLines ==
  ASSUME NEW n \in Int
  PROVE  \E a, b \in BodyLines : /\ Declare(n) = <<a>> \o <<b>>
                                 /\ a.key = "id" /\ a.val = n /\ b.key = "name"
<1>1. PICK k1, k2 \in BodyKeys : k1 = "id" /\ k2 = "name"
  BY DEF BodyKeys
<1>2. PICK a \in BodyLines : Line(k1, n) = <<a>> /\ a.key = k1 /\ a.val = n
  BY LineTyped
<1>3. PICK b \in BodyLines : Line(k2, n) = <<b>> /\ b.key = k2
  BY LineTyped
<1> QED BY <1>1, <1>2, <1>3 DEF Declare

LEMMA DeclareRead ==
  ASSUME NEW section \in Sections,
         NEW rooms \in Seq(RoomEntries), NEW rails \in Seq(RailEntries),
         NEW devices \in Seq(Int), NEW under \in Seq(Int), NEW n \in Int
  PROVE  /\ Declare(n) \in Seq(BodyLines)
         /\ ReadAll(Paste(section, rooms, rails, devices, under), Declare(n))
              = Paste(section, rooms, rails, Append(devices, n), under)
<1>1. PICK a, b \in BodyLines : /\ Declare(n) = <<a>> \o <<b>>
                                /\ a.key = "id" /\ a.val = n /\ b.key = "name"
  BY DeclareLines
<1>2. <<a>> \in Seq(BodyLines) /\ <<b>> \in Seq(BodyLines)
  <2>1. a \in BodyLines /\ b \in BodyLines
    OBVIOUS
  <2> QED BY <2>1
<1>3. PICK p \in AnyPaste : p = Paste(section, rooms, rails, devices, under)
  BY PasteTyped
<1>4. Read(p, a) = Paste(section, rooms, rails, Append(devices, n), under)
  <2>1. Read(Paste(section, rooms, rails, devices, under), a)
          = Paste(section, rooms, rails, Append(devices, a.val), under)
    <3>1. a.key = "id"
      BY <1>1
    <3> QED BY <3>1, ReadId
  <2> QED BY <1>1, <1>3, <2>1
<1>5. PICK s \in Seq(AnyLine) : s = <<a>>
  BY <1>2, BodyTyped
<1>6. a \in AnyLine /\ b \in AnyLine
  BY BodyTyped
<1>7. ReadAll(p, s) = Read(p, a)
  BY <1>5, <1>6, ReadOne
<1>8. ReadAll(p, s \o <<b>>) = Read(ReadAll(p, s), b)
  BY <1>6, ReadNext
<1>9. Read(ReadAll(p, s), b) = ReadAll(p, s)
  <2>1. b.key \in {"begin", "end", "esphome", "devices", "danfoss_icon", "name"}
    BY <1>1
  <2> QED BY <2>1, ReadOther
<1>10. <<a>> \o <<b>> \in Seq(BodyLines)
  BY <1>2, ConcatProperties
<1> QED BY <1>1, <1>3, <1>4, <1>5, <1>7, <1>8, <1>9, <1>10

(* What a room's lines make: the controller and the number its index is    *)
(* split into, and the floor that was found.                               *)
NumberOf(idx) == ((idx - RoomIdxBase) % SlotsPerController) + 1
ControllerOf(idx) == ((idx - RoomIdxBase) \div SlotsPerController) + 1
EntryOf(idx) == RoomEntry(NumberOf(idx), ControllerOf(idx), Contains(disc_floor_rooms, idx))

LEMMA SplitIndex ==
  ASSUME NEW idx \in 49..93
  PROVE  /\ NumberOf(idx) \in 1..15 /\ ControllerOf(idx) \in 1..3
         /\ 49 + (ControllerOf(idx) - 1) * 15 + (NumberOf(idx) - 1) = idx
<1>1. idx \in 49..63 \/ idx \in 64..78 \/ idx \in 79..93
  OBVIOUS
<1>2. CASE idx \in 49..63
  BY <1>2 DEF NumberOf, ControllerOf, RoomIdxBase, SlotsPerController
<1>3. CASE idx \in 64..78
  BY <1>3 DEF NumberOf, ControllerOf, RoomIdxBase, SlotsPerController
<1>4. CASE idx \in 79..93
  BY <1>4 DEF NumberOf, ControllerOf, RoomIdxBase, SlotsPerController
<1> QED BY <1>1, <1>2, <1>3, <1>4

LEMMA LastController ==
  ASSUME NEW rooms \in Seq(RoomEntries), NEW e \in RoomEntries, NEW d \in RoomEntries, NEW m,
         d = [e EXCEPT !.controller = m]
  PROVE  WithController(Append(rooms, e), m) = Append(rooms, d)
<1>1. PICK s : s = Append(rooms, e)
  OBVIOUS
<1>3. [e EXCEPT !.controller = m] = d
  OBVIOUS
<1>4. PICK t \in Seq(RoomEntries) : t = Append(rooms, d)
  BY AppendProperties
<1>5. PICK k \in Nat : k = Len(rooms)
  BY LenProperties
<1>6. /\ s \in Seq(RoomEntries) /\ Len(s) = k + 1 /\ DOMAIN s = 1..(k + 1)
      /\ s[k + 1] = e /\ \A i \in 1..k : s[i] = rooms[i]
  BY <1>1, <1>5, AppendProperties
<1>7. /\ Len(t) = k + 1 /\ DOMAIN t = 1..(k + 1)
      /\ t[k + 1] = d /\ \A i \in 1..k : t[i] = rooms[i]
  BY <1>4, <1>5, AppendProperties
<1>8. PICK f : f = [s EXCEPT ![k + 1].controller = m]
  OBVIOUS
<1>9. /\ f = [i \in 1..(k + 1) |-> IF i = k + 1 THEN [s[i] EXCEPT !.controller = m] ELSE s[i]]
  BY <1>6, <1>8
<1>10. \A i \in 1..(k + 1) : f[i] = t[i]
  <2>1. \A i \in 1..(k + 1) : i \in 1..k \/ i = k + 1
    OBVIOUS
  <2> QED BY <1>3, <1>6, <1>7, <1>9, <2>1
<1>11. f = [i \in 1..(k + 1) |-> t[i]]
  BY <1>9, <1>10
<1>12. t = [i \in 1..(k + 1) |-> t[i]]
  BY <1>7
<1> QED BY <1>1, <1>4, <1>6, <1>8, <1>11, <1>12 DEF WithController

LEMMA FloorFilledIn ==
  ASSUME NEW n, NEW m, NEW a, NEW floor, NEW e,
         e = [number |-> n, controller |-> m, floor |-> a, on |-> RoomToggles]
  PROVE  [e EXCEPT !.floor = floor]
           = [number |-> n, controller |-> m, floor |-> floor, on |-> RoomToggles]
OBVIOUS

LEMMA LastFloor ==
  ASSUME NEW rooms \in Seq(RoomEntries), NEW n \in Int, NEW m \in Int, NEW a \in BOOLEAN,
         NEW floor \in BOOLEAN, floor = TRUE, NEW s, s = Append(rooms, RoomEntry(n, m, a))
  PROVE  WithFloor(s) = Append(rooms, RoomEntry(n, m, floor))
<1>1. PICK e \in RoomEntries : e = RoomEntry(n, m, a)
  BY RoomEntryTyped
<1>2. PICK d \in RoomEntries : d = RoomEntry(n, m, floor)
  BY RoomEntryTyped
<1>3. [e EXCEPT !.floor = floor] = d
  <2>1. PICK x, y : x = a /\ y = floor
    OBVIOUS
  <2>2. e = [number |-> n, controller |-> m, floor |-> x, on |-> RoomToggles]
    BY <1>1, <2>1 DEF RoomEntry
  <2>3. d = [number |-> n, controller |-> m, floor |-> y, on |-> RoomToggles]
    BY <1>2, <2>1 DEF RoomEntry
  <2>4. [e EXCEPT !.floor = y] = d
    BY <2>2, <2>3, FloorFilledIn
  <2> QED BY <2>1, <2>4
<1>4. PICK t \in Seq(RoomEntries) : t = Append(rooms, d)
  BY AppendProperties
<1>5. PICK k \in Nat : k = Len(rooms)
  BY LenProperties
<1>6. /\ s \in Seq(RoomEntries) /\ Len(s) = k + 1 /\ DOMAIN s = 1..(k + 1)
      /\ s[k + 1] = e /\ \A i \in 1..k : s[i] = rooms[i]
  BY <1>1, <1>5, AppendProperties
<1>7. /\ Len(t) = k + 1 /\ DOMAIN t = 1..(k + 1)
      /\ t[k + 1] = d /\ \A i \in 1..k : t[i] = rooms[i]
  BY <1>4, <1>5, AppendProperties
<1>8. PICK f : f = [s EXCEPT ![k + 1].floor = floor]
  OBVIOUS
<1>9. /\ f = [i \in 1..(k + 1) |-> IF i = k + 1 THEN [s[i] EXCEPT !.floor = floor] ELSE s[i]]
  BY <1>6, <1>8
<1>10. \A i \in 1..(k + 1) : f[i] = t[i]
  <2>1. \A i \in 1..(k + 1) : i \in 1..k \/ i = k + 1
    OBVIOUS
  <2> QED BY <1>3, <1>6, <1>7, <1>9, <2>1
<1>11. f = [i \in 1..(k + 1) |-> t[i]]
  BY <1>9, <1>10
<1>12. t = [i \in 1..(k + 1) |-> t[i]]
  BY <1>7
<1>13. [s EXCEPT ![k + 1].floor = TRUE] = f
  BY <1>8
<1> QED BY <1>2, <1>4, <1>6, <1>11, <1>12, <1>13 DEF WithFloor


LEMMA OneLine ==
  ASSUME NEW p \in AnyPaste, NEW key \in BodyKeys, NEW v \in Int
  PROVE  /\ Line(key, v) \in Seq(BodyLines)
         /\ \E line \in AnyLine : /\ line.key = key /\ line.val = v
                                  /\ ReadAll(p, Line(key, v)) = Read(p, line)
<1>1. PICK line \in BodyLines : Line(key, v) = <<line>> /\ line.key = key /\ line.val = v
  BY LineTyped
<1>2. line \in AnyLine
  BY BodyTyped
<1>3. ReadAll(p, <<line>>) = Read(p, line)
  BY <1>2, ReadOne
<1>4. Line(key, v) \in Seq(BodyLines)
  BY LineTyped
<1> QED BY <1>1, <1>2, <1>3, <1>4

LEMMA NumberRead ==
  ASSUME NEW section \in Sections, section = "rooms",
         NEW rooms \in Seq(RoomEntries), NEW rails \in Seq(RailEntries),
         NEW devices \in Seq(Int), NEW under \in Seq(Int), NEW v \in Int
  PROVE  /\ Line("number", v) \in Seq(BodyLines)
         /\ ReadAll(Paste(section, rooms, rails, devices, under), Line("number", v))
              = Paste(section, Append(rooms, NewRoom(v)), rails, devices, under)
<1>1. PICK key \in BodyKeys : key = "number"
  BY DEF BodyKeys
<1>2. PICK p \in AnyPaste : p = Paste(section, rooms, rails, devices, under)
  BY PasteTyped
<1>3. PICK line \in AnyLine : /\ line.key = key /\ line.val = v
                              /\ ReadAll(p, Line(key, v)) = Read(p, line)
  BY OneLine
<1>4. line.key = "number"
  BY <1>1, <1>3
<1>5. Read(Paste(section, rooms, rails, devices, under), line)
        = Paste(section, Append(rooms, NewRoom(line.val)), rails, devices, under)
  BY <1>4, ReadRoom
<1>6. Line(key, v) \in Seq(BodyLines)
  BY LineTyped
<1> QED BY <1>1, <1>2, <1>3, <1>5, <1>6

LEMMA RailNumberRead ==
  ASSUME NEW section \in Sections, section # "rooms",
         NEW rooms \in Seq(RoomEntries), NEW rails \in Seq(RailEntries),
         NEW devices \in Seq(Int), NEW under \in Seq(Int), NEW v \in Int
  PROVE  /\ Line("number", v) \in Seq(BodyLines)
         /\ ReadAll(Paste(section, rooms, rails, devices, under), Line("number", v))
              = Paste(section, rooms, Append(rails, RailEntry(v)), devices, under)
<1>1. PICK key \in BodyKeys : key = "number"
  BY DEF BodyKeys
<1>2. PICK p \in AnyPaste : p = Paste(section, rooms, rails, devices, under)
  BY PasteTyped
<1>3. PICK line \in AnyLine : /\ line.key = key /\ line.val = v
                              /\ ReadAll(p, Line(key, v)) = Read(p, line)
  BY OneLine
<1>4. line.key = "number"
  BY <1>1, <1>3
<1>5. Read(Paste(section, rooms, rails, devices, under), line)
        = Paste(section, rooms, Append(rails, RailEntry(line.val)), devices, under)
  BY <1>4, ReadRail
<1>6. Line(key, v) \in Seq(BodyLines)
  BY LineTyped
<1> QED BY <1>1, <1>2, <1>3, <1>5, <1>6

LEMMA ControllerRead ==
  ASSUME NEW section \in Sections,
         NEW rooms \in Seq(RoomEntries), NEW rails \in Seq(RailEntries),
         NEW devices \in Seq(Int), NEW under \in Seq(Int), NEW m \in Int
  PROVE  /\ Line("controller", m) \in Seq(BodyLines)
         /\ ReadAll(Paste(section, rooms, rails, devices, under), Line("controller", m))
              = Paste(section, WithController(rooms, m),
                      rails, devices, under)
<1>1. PICK key \in BodyKeys : key = "controller"
  BY DEF BodyKeys
<1>2. PICK p \in AnyPaste : p = Paste(section, rooms, rails, devices, under)
  BY PasteTyped
<1>3. PICK line \in AnyLine : /\ line.key = key /\ line.val = m
                              /\ ReadAll(p, Line(key, m)) = Read(p, line)
  BY OneLine
<1>4. line.key = "controller"
  BY <1>1, <1>3
<1>5. Read(Paste(section, rooms, rails, devices, under), line)
        = Paste(section, WithController(rooms, line.val),
                rails, devices, under)
  BY <1>4, ReadController
<1>6. Line(key, m) \in Seq(BodyLines)
  BY LineTyped
<1> QED BY <1>1, <1>2, <1>3, <1>5, <1>6

LEMMA FloorRead ==
  ASSUME NEW section \in Sections,
         NEW rooms \in Seq(RoomEntries), NEW rails \in Seq(RailEntries),
         NEW devices \in Seq(Int), NEW under \in Seq(Int), NEW v \in Int
  PROVE  /\ Line("floor", v) \in Seq(BodyLines)
         /\ ReadAll(Paste(section, rooms, rails, devices, under), Line("floor", v))
              = Paste(section, WithFloor(rooms), rails, devices, under)
<1>1. PICK key \in BodyKeys : key = "floor"
  BY DEF BodyKeys
<1>2. PICK p \in AnyPaste : p = Paste(section, rooms, rails, devices, under)
  BY PasteTyped
<1>3. PICK line \in AnyLine : /\ line.key = key /\ line.val = v
                              /\ ReadAll(p, Line(key, v)) = Read(p, line)
  BY OneLine
<1>4. line.key = "floor"
  BY <1>1, <1>3
<1>5. Read(Paste(section, rooms, rails, devices, under), line)
        = Paste(section, WithFloor(rooms), rails, devices, under)
  BY <1>4, ReadFloor
<1>6. Line(key, v) \in Seq(BodyLines)
  BY LineTyped
<1> QED BY <1>1, <1>2, <1>3, <1>5, <1>6

LEMMA ReferRead ==
  ASSUME NEW section \in Sections,
         NEW rooms \in Seq(RoomEntries), NEW rails \in Seq(RailEntries),
         NEW devices \in Seq(Int), NEW under \in Seq(Int), NEW n \in Int
  PROVE  /\ Refer(n) \in Seq(BodyLines)
         /\ ReadAll(Paste(section, rooms, rails, devices, under), Refer(n))
              = Paste(section, rooms, rails, devices, Append(under, n))
<1>1. PICK k1, k2 \in BodyKeys : k1 = "name" /\ k2 = "device_id"
  BY DEF BodyKeys
<1>2. PICK p \in AnyPaste : p = Paste(section, rooms, rails, devices, under)
  BY PasteTyped
<1>3. PICK a \in AnyLine : /\ a.key = k1 /\ a.val = n
                           /\ ReadAll(p, Line(k1, n)) = Read(p, a)
  BY OneLine
<1>4. Read(p, a) = p
  <2>1. a.key \in {"begin", "end", "esphome", "devices", "danfoss_icon", "name"}
    BY <1>1, <1>3
  <2> QED BY <2>1, ReadOther
<1>5. PICK b \in AnyLine : /\ b.key = k2 /\ b.val = n
                           /\ ReadAll(p, Line(k2, n)) = Read(p, b)
  BY OneLine
<1>6. b.key = "device_id"
  BY <1>1, <1>5
<1>7. Read(Paste(section, rooms, rails, devices, under), b)
        = Paste(section, rooms, rails, devices, Append(under, b.val))
  BY <1>6, ReadDeviceId
<1>8. Line(k1, n) \in Seq(BodyLines) /\ Line(k2, n) \in Seq(BodyLines)
  BY LineTyped
<1>9. PICK s, t \in Seq(BodyLines) : s = Line(k1, n) /\ t = Line(k2, n)
  BY <1>8
<1>10. s \in Seq(AnyLine) /\ t \in Seq(AnyLine)
  BY BodyTyped
<1>11. ReadAll(p, s \o t) = ReadAll(ReadAll(p, s), t)
  BY <1>10, ReadConcat
<1>12. s \o t \in Seq(BodyLines)
  BY ConcatProperties
<1>13. Refer(n) = s \o t
  BY <1>1, <1>9 DEF Refer
<1> QED BY <1>2, <1>3, <1>4, <1>5, <1>7, <1>9, <1>11, <1>12, <1>13

(* One list of lines after another. *)
LEMMA ThenRead ==
  ASSUME NEW p \in AnyPaste, NEW s \in Seq(BodyLines), NEW t \in Seq(BodyLines)
  PROVE  s \o t \in Seq(BodyLines) /\ ReadAll(p, s \o t) = ReadAll(ReadAll(p, s), t)
<1>1. s \in Seq(AnyLine) /\ t \in Seq(AnyLine)
  BY BodyTyped
<1>2. ReadAll(p, s \o t) = ReadAll(ReadAll(p, s), t)
  BY <1>1, ReadConcat
<1>3. s \o t \in Seq(BodyLines)
  BY ConcatProperties
<1> QED BY <1>2, <1>3

LEMMA NothingRead ==
  ASSUME NEW p \in AnyPaste PROVE <<>> \in Seq(BodyLines) /\ ReadAll(p, <<>>) = p
<1>1. <<>> \in Seq(BodyLines)
  OBVIOUS
<1> QED BY <1>1, ReadNone

LEMMA RoomStart ==
  ASSUME NEW section \in Sections,
         NEW rooms \in Seq(RoomEntries), NEW rails \in Seq(RailEntries),
         NEW devices \in Seq(Int), NEW under \in Seq(Int),
         section = "rooms", NEW n \in Int, NEW one \in Int, one = 1, NEW no \in BOOLEAN, ~no
  PROVE  /\ Line("number", n) \in Seq(BodyLines)
         /\ ReadAll(Paste(section, rooms, rails, devices, under), Line("number", n))
              = Paste(section, Append(rooms, RoomEntry(n, one, no)), rails, devices, under)
<1>1. /\ Line("number", n) \in Seq(BodyLines)
      /\ ReadAll(Paste(section, rooms, rails, devices, under), Line("number", n))
           = Paste(section, Append(rooms, NewRoom(n)), rails, devices, under)
  BY NumberRead
<1>2. NewRoom(n) = RoomEntry(n, 1, no)
  <2>1. no = FALSE
    OBVIOUS
  <2> QED BY <2>1, NewRoomIs
<1> QED BY <1>1, <1>2

LEMMA ControllerOfLast ==
  ASSUME NEW rooms \in Seq(RoomEntries), NEW n \in Int, NEW a \in Int, NEW floor \in BOOLEAN,
         NEW m \in Int
  PROVE  WithController(Append(rooms, RoomEntry(n, a, floor)), m)
           = Append(rooms, RoomEntry(n, m, floor))
<1>1. PICK e \in RoomEntries : e = RoomEntry(n, a, floor)
  BY RoomEntryTyped
<1>2. PICK d \in RoomEntries : d = RoomEntry(n, m, floor)
  BY RoomEntryTyped
<1>3. d = [e EXCEPT !.controller = m]
  BY <1>1, <1>2 DEF RoomEntry
<1>4. WithController(Append(rooms, e), m) = Append(rooms, d)
  BY <1>3, LastController
<1> QED BY <1>1, <1>2, <1>4

LEMMA RoomController ==
  ASSUME NEW section \in Sections,
         NEW rooms \in Seq(RoomEntries), NEW rails \in Seq(RailEntries),
         NEW devices \in Seq(Int), NEW under \in Seq(Int),
         NEW n \in Int, NEW one \in Int, one = 1, NEW no \in BOOLEAN, NEW m \in Int, m >= 1
  PROVE  /\ When(m > 1, Line("controller", m)) \in Seq(BodyLines)
         /\ ReadAll(Paste(section, Append(rooms, RoomEntry(n, one, no)), rails, devices, under),
                    When(m > 1, Line("controller", m)))
              = Paste(section, Append(rooms, RoomEntry(n, m, no)), rails, devices, under)
<1>1. Append(rooms, RoomEntry(n, one, no)) \in Seq(RoomEntries)
  BY RoomEntryTyped, AppendProperties
<1>2. ASSUME NEW s \in Seq(RoomEntries)
      PROVE  /\ Line("controller", m) \in Seq(BodyLines)
             /\ ReadAll(Paste(section, s, rails, devices, under), Line("controller", m))
                  = Paste(section, WithController(s, m), rails, devices, under)
  BY ControllerRead
<1>3. WithController(Append(rooms, RoomEntry(n, one, no)), m) = Append(rooms, RoomEntry(n, m, no))
  BY ControllerOfLast
<1>4. PICK s \in Seq(RoomEntries) : s = Append(rooms, RoomEntry(n, one, no))
  BY <1>1
<1>5. CASE m > 1
  BY <1>2, <1>3, <1>4, <1>5 DEF When
<1>6. CASE m = 1
  <2>1. PICK p \in AnyPaste : p = Paste(section, s, rails, devices, under)
    BY PasteTyped
  <2>2. When(m > 1, Line("controller", m)) = <<>>
    BY <1>6 DEF When
  <2> QED BY <1>4, <1>6, <2>1, <2>2, NothingRead
<1> QED BY <1>5, <1>6

LEMMA RoomFloor ==
  ASSUME NEW section \in Sections,
         NEW rooms \in Seq(RoomEntries), NEW rails \in Seq(RailEntries),
         NEW devices \in Seq(Int), NEW under \in Seq(Int),
         NEW n \in Int, NEW m \in Int, NEW no \in BOOLEAN, ~no, NEW floor \in BOOLEAN
  PROVE  /\ When(floor, Line("floor", 1)) \in Seq(BodyLines)
         /\ ReadAll(Paste(section, Append(rooms, RoomEntry(n, m, no)), rails, devices, under),
                    When(floor, Line("floor", 1)))
              = Paste(section, Append(rooms, RoomEntry(n, m, floor)), rails, devices, under)
<1>1. Append(rooms, RoomEntry(n, m, no)) \in Seq(RoomEntries)
  BY RoomEntryTyped, AppendProperties
<1>2. ASSUME NEW s \in Seq(RoomEntries), NEW one \in Int
      PROVE  /\ Line("floor", one) \in Seq(BodyLines)
             /\ ReadAll(Paste(section, s, rails, devices, under), Line("floor", one))
                  = Paste(section, WithFloor(s), rails, devices, under)
  BY FloorRead
<1>3. ASSUME NEW s, s = Append(rooms, RoomEntry(n, m, no)), floor = TRUE
      PROVE  WithFloor(s) = Append(rooms, RoomEntry(n, m, floor))
  BY <1>3, LastFloor
<1>4. PICK s \in Seq(RoomEntries) : s = Append(rooms, RoomEntry(n, m, no))
  BY <1>1
<1>5. CASE floor = TRUE
  <2>1. PICK one \in Int : one = 1
    OBVIOUS
  <2>2. When(floor, Line("floor", 1)) = Line("floor", one)
    BY <1>5, <2>1 DEF When
  <2> QED BY <1>2, <1>3, <1>4, <1>5, <2>2
<1>6. CASE floor = FALSE
  <2>1. PICK p \in AnyPaste : p = Paste(section, s, rails, devices, under)
    BY PasteTyped
  <2>2. When(floor, Line("floor", 1)) = <<>> /\ floor = no
    BY <1>6 DEF When
  <2> QED BY <1>4, <2>1, <2>2, NothingRead
<1> QED BY <1>5, <1>6

LEMMA RoomPieces ==
  ASSUME NEW idx \in 49..93
  PROVE  \E n, m \in Int, floor \in BOOLEAN :
           /\ m >= 1 /\ EntryOf(idx) = RoomEntry(n, m, floor)
           /\ RoomLines(idx) = ((Line("number", n) \o When(m > 1, Line("controller", m)))
                               \o Refer(idx)) \o When(floor, Line("floor", 1))
<1>1. PICK n, m \in Int : n = NumberOf(idx) /\ m = ControllerOf(idx)
  <2>1. NumberOf(idx) \in Int /\ ControllerOf(idx) \in Int
    BY SplitIndex
  <2> QED BY <2>1
<1>2. PICK floor \in BOOLEAN : floor = Contains(disc_floor_rooms, idx)
  <2>1. Contains(disc_floor_rooms, idx) \in BOOLEAN
    BY DEF Contains
  <2> QED BY <2>1
<1>3. m >= 1
  BY <1>1, SplitIndex
<1>4. EntryOf(idx) = RoomEntry(n, m, floor)
  BY <1>1, <1>2 DEF EntryOf
<1>5. RoomLines(idx) = ((Line("number", n) \o When(m > 1, Line("controller", m)))
                        \o Refer(idx)) \o When(floor, Line("floor", 1))
  BY <1>1, <1>2 DEF RoomLines, NumberOf, ControllerOf
<1> QED BY <1>3, <1>4, <1>5

LEMMA FourRead ==
  ASSUME NEW p0 \in AnyPaste, NEW p1 \in AnyPaste, NEW p2 \in AnyPaste, NEW p3 \in AnyPaste,
         NEW l1 \in Seq(BodyLines), NEW l2 \in Seq(BodyLines), NEW l3 \in Seq(BodyLines),
         NEW l4 \in Seq(BodyLines), NEW p4,
         ReadAll(p0, l1) = p1, ReadAll(p1, l2) = p2, ReadAll(p2, l3) = p3, ReadAll(p3, l4) = p4
  PROVE  /\ ((l1 \o l2) \o l3) \o l4 \in Seq(BodyLines)
         /\ ReadAll(p0, ((l1 \o l2) \o l3) \o l4) = p4
<1>1. l1 \o l2 \in Seq(BodyLines) /\ ReadAll(p0, l1 \o l2) = ReadAll(ReadAll(p0, l1), l2)
  BY ThenRead
<1>2. PICK s \in Seq(BodyLines) : s = l1 \o l2 /\ ReadAll(p0, s) = p2
  BY <1>1
<1>3. s \o l3 \in Seq(BodyLines) /\ ReadAll(p0, s \o l3) = ReadAll(ReadAll(p0, s), l3)
  BY ThenRead
<1>4. PICK t \in Seq(BodyLines) : t = s \o l3 /\ ReadAll(p0, t) = p3
  BY <1>2, <1>3
<1>5. t \o l4 \in Seq(BodyLines) /\ ReadAll(p0, t \o l4) = ReadAll(ReadAll(p0, t), l4)
  BY ThenRead
<1> QED BY <1>2, <1>4, <1>5

LEMMA RoomRead ==
  ASSUME NEW section \in Sections,
         NEW rooms \in Seq(RoomEntries), NEW rails \in Seq(RailEntries),
         NEW devices \in Seq(Int), NEW under \in Seq(Int),
         section = "rooms", NEW idx \in 49..93
  PROVE  /\ RoomLines(idx) \in Seq(BodyLines) /\ EntryOf(idx) \in RoomEntries
         /\ ReadAll(Paste(section, rooms, rails, devices, under), RoomLines(idx))
              = Paste(section, Append(rooms, EntryOf(idx)), rails, devices, Append(under, idx))
<1>1. PICK n, m \in Int, floor \in BOOLEAN :
           /\ m >= 1 /\ EntryOf(idx) = RoomEntry(n, m, floor)
           /\ RoomLines(idx) = ((Line("number", n) \o When(m > 1, Line("controller", m)))
                               \o Refer(idx)) \o When(floor, Line("floor", 1))
  BY RoomPieces
<1>2. PICK no \in BOOLEAN : ~no
  OBVIOUS
<1>3. PICK one \in Int : one = 1
  OBVIOUS
<1>4. PICK i \in Int : i = idx
  OBVIOUS
<1>5. RoomEntry(n, m, floor) \in RoomEntries
  BY RoomEntryTyped
<1>6. /\ Line("number", n) \in Seq(BodyLines)
      /\ ReadAll(Paste(section, rooms, rails, devices, under), Line("number", n))
           = Paste(section, Append(rooms, RoomEntry(n, one, no)), rails, devices, under)
  BY <1>2, <1>3, RoomStart
<1>7. /\ When(m > 1, Line("controller", m)) \in Seq(BodyLines)
      /\ ReadAll(Paste(section, Append(rooms, RoomEntry(n, one, no)), rails, devices, under),
                 When(m > 1, Line("controller", m)))
           = Paste(section, Append(rooms, RoomEntry(n, m, no)), rails, devices, under)
  BY <1>1, <1>3, RoomController
<1>8. ASSUME NEW s \in Seq(RoomEntries)
      PROVE  /\ Refer(i) \in Seq(BodyLines)
             /\ ReadAll(Paste(section, s, rails, devices, under), Refer(i))
                  = Paste(section, s, rails, devices, Append(under, i))
  BY ReferRead
<1>9. ASSUME NEW u \in Seq(Int)
      PROVE  /\ When(floor, Line("floor", 1)) \in Seq(BodyLines)
             /\ ReadAll(Paste(section, Append(rooms, RoomEntry(n, m, no)), rails, devices, u),
                        When(floor, Line("floor", 1)))
                  = Paste(section, Append(rooms, RoomEntry(n, m, floor)), rails, devices, u)
  BY <1>2, RoomFloor
<1>10. /\ Append(rooms, RoomEntry(n, one, no)) \in Seq(RoomEntries)
       /\ Append(rooms, RoomEntry(n, m, no)) \in Seq(RoomEntries)
       /\ Append(under, i) \in Seq(Int)
  BY RoomEntryTyped, AppendProperties
<1>11. PICK p0 \in AnyPaste : p0 = Paste(section, rooms, rails, devices, under)
  BY PasteTyped
<1>12. PICK p1 \in AnyPaste :
         p1 = Paste(section, Append(rooms, RoomEntry(n, one, no)), rails, devices, under)
  BY <1>10, PasteTyped
<1>13. PICK p2 \in AnyPaste :
         p2 = Paste(section, Append(rooms, RoomEntry(n, m, no)), rails, devices, under)
  BY <1>10, PasteTyped
<1>14. PICK p3 \in AnyPaste :
         p3 = Paste(section, Append(rooms, RoomEntry(n, m, no)), rails, devices, Append(under, i))
  BY <1>10, PasteTyped
<1>15. PICK l1 \in Seq(BodyLines) : l1 = Line("number", n) /\ ReadAll(p0, l1) = p1
  BY <1>6, <1>11, <1>12
<1>16. PICK l2 \in Seq(BodyLines) :
         l2 = When(m > 1, Line("controller", m)) /\ ReadAll(p1, l2) = p2
  BY <1>7, <1>12, <1>13
<1>17. PICK l3 \in Seq(BodyLines) : l3 = Refer(i) /\ ReadAll(p2, l3) = p3
  BY <1>8, <1>10, <1>13, <1>14
<1>18. PICK l4 \in Seq(BodyLines) :
         /\ l4 = When(floor, Line("floor", 1))
         /\ ReadAll(p3, l4) = Paste(section, Append(rooms, RoomEntry(n, m, floor)),
                                    rails, devices, Append(under, i))
  BY <1>9, <1>10, <1>14
<1>19. PICK p4 : p4 = Paste(section, Append(rooms, RoomEntry(n, m, floor)),
                            rails, devices, Append(under, i))
  OBVIOUS
<1>20. /\ ((l1 \o l2) \o l3) \o l4 \in Seq(BodyLines)
       /\ ReadAll(p0, ((l1 \o l2) \o l3) \o l4) = p4
  BY <1>15, <1>16, <1>17, <1>18, <1>19, FourRead
<1>21. RoomLines(idx) = ((l1 \o l2) \o l3) \o l4
  BY <1>1, <1>4, <1>15, <1>16, <1>17, <1>18
<1> QED BY <1>1, <1>4, <1>5, <1>11, <1>19, <1>20, <1>21

LEMMA SecondaryRead ==
  ASSUME NEW section \in Sections, section # "rooms",
         NEW rooms \in Seq(RoomEntries), NEW rails \in Seq(RailEntries),
         NEW devices \in Seq(Int), NEW under \in Seq(Int), NEW idx \in Int
  PROVE  /\ SecondaryLines(idx) \in Seq(BodyLines)
         /\ ReadAll(Paste(section, rooms, rails, devices, under), SecondaryLines(idx))
              = Paste(section, rooms, Append(rails, RailEntry(idx)), devices, Append(under, idx))
<1>1. PICK s \in Seq(RailEntries) : s = Append(rails, RailEntry(idx))
  BY RailEntryTyped, AppendProperties
<1>2. PICK p0 \in AnyPaste : p0 = Paste(section, rooms, rails, devices, under)
  BY PasteTyped
<1>3. PICK p1 \in AnyPaste : p1 = Paste(section, rooms, s, devices, under)
  BY PasteTyped
<1>4. PICK l1 \in Seq(BodyLines) : l1 = Line("number", idx) /\ ReadAll(p0, l1) = p1
  <2>1. /\ Line("number", idx) \in Seq(BodyLines)
        /\ ReadAll(Paste(section, rooms, rails, devices, under), Line("number", idx))
             = Paste(section, rooms, Append(rails, RailEntry(idx)), devices, under)
    BY RailNumberRead
  <2> QED BY <1>1, <1>2, <1>3, <2>1
<1>5. PICK l2 \in Seq(BodyLines) :
        l2 = Refer(idx)
        /\ ReadAll(p1, l2) = Paste(section, rooms, s, devices, Append(under, idx))
  <2>1. /\ Refer(idx) \in Seq(BodyLines)
        /\ ReadAll(Paste(section, rooms, s, devices, under), Refer(idx))
             = Paste(section, rooms, s, devices, Append(under, idx))
    BY ReferRead
  <2> QED BY <1>3, <2>1
<1>6. l1 \o l2 \in Seq(BodyLines) /\ ReadAll(p0, l1 \o l2) = ReadAll(ReadAll(p0, l1), l2)
  BY ThenRead
<1>7. SecondaryLines(idx) = l1 \o l2
  BY <1>4, <1>5 DEF SecondaryLines
<1> QED BY <1>1, <1>2, <1>4, <1>5, <1>6, <1>7

-----------------------------------------------------------------------------
(* The lists of a dump: one entry's lines after another's.                 *)

LEMMA FlattenToAll ==
  ASSUME NEW X, NEW ss \in Seq(X) PROVE FlattenTo(ss, Len(ss)) = FlattenSeq(ss)
<1>1. SubSeq(ss, 1, Len(ss)) = ss
  BY SubSeqFull
<1> QED BY <1>1 DEF FlattenTo

LEMMA ListRead ==
  ASSUME NEW n \in Nat, NEW ss \in Seq(Seq(BodyLines)), Len(ss) = n,
         NEW q \in [0..n -> AnyPaste], \A k \in 1..n : ReadAll(q[k - 1], ss[k]) = q[k]
  PROVE  FlattenSeq(ss) \in Seq(BodyLines) /\ ReadAll(q[0], FlattenSeq(ss)) = q[n]
<1> DEFINE T == {k \in Nat : k <= n => ReadAll(q[0], FlattenTo(ss, k)) = q[k]}
<1>1. \A k \in 0..n : q[k] \in AnyPaste /\ FlattenTo(ss, k) \in Seq(BodyLines)
  BY FlattenToTyped
<1>2. 0 \in T
  <2>1. FlattenTo(ss, 0) = <<>>
    BY FlattenToZero
  <2>2. PICK p \in AnyPaste : p = q[0]
    BY <1>1
  <2>3. ReadAll(p, <<>>) = p
    BY ReadNone
  <2> QED BY <2>1, <2>2, <2>3
<1>3. ASSUME NEW k \in Nat, k + 1 <= n, ReadAll(q[0], FlattenTo(ss, k)) = q[k]
      PROVE  ReadAll(q[0], FlattenTo(ss, k + 1)) = q[k + 1]
  <2>1. PICK j \in 1..Len(ss) : j = k + 1 /\ j - 1 = k
    BY <1>3
  <2>2. FlattenTo(ss, j) = FlattenTo(ss, j - 1) \o ss[j]
    BY FlattenToNext
  <2>3. PICK p \in AnyPaste : p = q[0]
    BY <1>1
  <2>4. PICK s \in Seq(BodyLines) : s = FlattenTo(ss, k)
    <3>1. k \in 0..n
      BY <1>3
    <3> QED BY <1>1, <3>1
  <2>5. PICK t \in Seq(BodyLines) : t = ss[j]
    BY <2>1
  <2>6. ReadAll(p, s \o t) = ReadAll(ReadAll(p, s), t)
    BY ThenRead
  <2>7. ReadAll(q[j - 1], ss[j]) = q[j]
    BY <2>1
  <2> QED BY <1>3, <2>1, <2>2, <2>3, <2>4, <2>5, <2>6, <2>7
<1>4. \A k \in Nat : k \in T => k + 1 \in T
  <2>1. \A k \in Nat : k + 1 <= n => k <= n
    OBVIOUS
  <2> QED BY <1>3, <2>1
<1> HIDE DEF T
<1>5. n \in T
  BY <1>2, <1>4, SetInduction
<1>6. FlattenTo(ss, n) = FlattenSeq(ss)
  BY FlattenToAll
<1>7. n \in 0..n
  OBVIOUS
<1> QED BY <1>1, <1>5, <1>6, <1>7 DEF T

(* The first k of s. *)
Upto(s, k) == [i \in 1..k |-> s[i]]

LEMMA UptoSteps ==
  ASSUME NEW X, NEW s \in Seq(X)
  PROVE  /\ Upto(s, 0) = <<>> /\ Upto(s, Len(s)) = s
         /\ \A k \in 0..Len(s) : Upto(s, k) \in Seq(X)
         /\ \A k \in 1..Len(s) : Upto(s, k) = Append(Upto(s, k - 1), s[k])
<1>1. Upto(s, 0) = <<>>
  BY DEF Upto
<1>2. Upto(s, Len(s)) = s
  BY DEF Upto
<1>3. ASSUME NEW k \in 0..Len(s) PROVE Upto(s, k) \in Seq(X) /\ Len(Upto(s, k)) = k
  <2>1. [i \in 1..k |-> s[i]] \in [1..k -> X] /\ k \in Nat
    OBVIOUS
  <2> QED BY <2>1, SeqDef DEF Upto
<1>4. ASSUME NEW k \in 1..Len(s) PROVE Upto(s, k) = Append(Upto(s, k - 1), s[k])
  <2>1. PICK j \in Nat : j = k - 1 /\ k = j + 1 /\ j \in 0..Len(s)
    OBVIOUS
  <2>2. PICK u \in Seq(X) : u = Upto(s, j) /\ Len(u) = j
    BY <1>3, <2>1
  <2>3. PICK v \in Seq(X) : v = Upto(s, k) /\ Len(v) = k
    <3>1. k \in 0..Len(s)
      OBVIOUS
    <3> QED BY <1>3, <3>1
  <2>4. PICK x \in X : x = s[k]
    OBVIOUS
  <2>5. PICK w \in Seq(X) : w = Append(u, x)
    BY AppendProperties
  <2>6. Len(w) = k /\ w[k] = x /\ \A i \in 1..j : w[i] = u[i]
    BY <2>1, <2>2, <2>5, AppendProperties
  <2>7. v[k] = x /\ \A i \in 1..j : v[i] = u[i]
    BY <2>1, <2>2, <2>3, <2>4 DEF Upto
  <2>8. \A i \in 1..k : v[i] = w[i]
    <3>1. \A i \in 1..k : i \in 1..j \/ i = k
      BY <2>1
    <3> QED BY <2>6, <2>7, <3>1
  <2>9. v = w
    BY <2>3, <2>6, <2>8
  <2> QED BY <2>1, <2>2, <2>3, <2>4, <2>5, <2>9
<1> QED BY <1>1, <1>2, <1>3, <1>4

LEMMA AppendAfter ==
  ASSUME NEW u \in Seq(Int), NEW v \in Seq(Int), NEW x \in Int
  PROVE  Append(u \o v, x) = u \o Append(v, x)
<1>1. PICK n \in Nat, m \in Nat : n = Len(u) /\ m = Len(v)
  BY LenProperties
<1>2. PICK w \in Seq(Int) : w = Append(v, x)
  BY AppendProperties
<1>3. PICK a \in Seq(Int) : a = u \o v
  BY ConcatProperties
<1>4. PICK b \in Seq(Int) : b = Append(a, x)
  BY AppendProperties
<1>5. PICK c \in Seq(Int) : c = u \o w
  BY ConcatProperties
<1>6. Len(w) = m + 1 /\ w[m + 1] = x /\ \A i \in 1..m : w[i] = v[i]
  BY <1>1, <1>2, AppendProperties
<1>7. Len(a) = n + m /\ \A i \in 1..(n + m) : a[i] = IF i <= n THEN u[i] ELSE v[i - n]
  BY <1>1, <1>3, ConcatProperties
<1>8. Len(b) = (n + m) + 1 /\ b[(n + m) + 1] = x /\ \A i \in 1..(n + m) : b[i] = a[i]
  <2>1. PICK k \in Nat : k = n + m
    OBVIOUS
  <2>2. Len(a) = k
    BY <1>7, <2>1
  <2>3. Len(b) = k + 1 /\ b[k + 1] = x /\ \A i \in 1..k : b[i] = a[i]
    BY <1>4, <2>2, AppendProperties, ZenonT(60)
  <2> QED BY <2>1, <2>3
<1>9. Len(c) = n + (m + 1)
      /\ \A i \in 1..(n + (m + 1)) : c[i] = IF i <= n THEN u[i] ELSE w[i - n]
  <2>1. PICK k \in Nat : k = m + 1
    OBVIOUS
  <2>2. Len(w) = k
    BY <1>6, <2>1
  <2>3. Len(c) = n + k /\ \A i \in 1..(n + k) : c[i] = IF i <= n THEN u[i] ELSE w[i - n]
    BY <1>1, <1>5, <2>2, ConcatProperties
  <2> QED BY <2>1, <2>3
<1>10. Len(b) = Len(c)
  BY <1>8, <1>9
<1>11. ASSUME NEW i \in 1..Len(b) PROVE b[i] = c[i]
  <2>1. CASE i = (n + m) + 1
    <3>1. i \in 1..(n + (m + 1)) /\ ~(i <= n) /\ i - n = m + 1
      BY <2>1
    <3> QED BY <1>6, <1>8, <1>9, <2>1, <3>1
  <2>2. CASE i \in 1..n
    <3>1. i \in 1..(n + (m + 1)) /\ i <= n /\ i \in 1..(n + m)
      BY <2>2
    <3> QED BY <1>7, <1>8, <1>9, <3>1
  <2>3. CASE i \in (n + 1)..(n + m)
    <3>1. i \in 1..(n + (m + 1)) /\ ~(i <= n) /\ i \in 1..(n + m) /\ i - n \in 1..m
      BY <2>3
    <3> QED BY <1>6, <1>7, <1>8, <1>9, <3>1
  <2> QED BY <1>8, <2>1, <2>2, <2>3
<1>12. b = c
  BY <1>10, <1>11, SeqEqual
<1> QED BY <1>2, <1>3, <1>4, <1>5, <1>12

LEMMA DevicesRead ==
  ASSUME NEW section \in Sections,
         NEW rooms \in Seq(RoomEntries), NEW rails \in Seq(RailEntries),
         NEW under \in Seq(Int), NEW list \in Seq(Int)
  PROVE  /\ ForEach(list, Declare) \in Seq(BodyLines)
         /\ ReadAll(Paste(section, rooms, rails, <<>>, under), ForEach(list, Declare))
              = Paste(section, rooms, rails, list, under)
<1> DEFINE n == Len(list)
           ss == [i \in DOMAIN list |-> Declare(list[i])]
           q == [k \in 0..n |-> Paste(section, rooms, rails, Upto(list, k), under)]
<1>1. n \in Nat /\ DOMAIN list = 1..n /\ \A i \in 1..n : list[i] \in Int
  OBVIOUS
<1>2. /\ Upto(list, 0) = <<>> /\ Upto(list, n) = list
      /\ \A k \in 0..n : Upto(list, k) \in Seq(Int)
      /\ \A k \in 1..n : Upto(list, k) = Append(Upto(list, k - 1), list[k])
  BY UptoSteps
<1>3. \A i \in 1..n : Declare(list[i]) \in Seq(BodyLines)
  <2> TAKE i \in 1..n
  <2>1. PICK x \in Int : x = list[i]
    BY <1>1
  <2>2. PICK p \in Seq(Int) : p = <<>>
    <3>1. <<>> \in Seq(Int)
      OBVIOUS
    <3> QED BY <3>1
  <2>3. Declare(x) \in Seq(BodyLines)
    BY DeclareRead
  <2> QED BY <2>1, <2>3
<1>4. ss \in Seq(Seq(BodyLines)) /\ Len(ss) = n /\ \A i \in 1..n : ss[i] = Declare(list[i])
  <2>1. ss = [i \in 1..n |-> Declare(list[i])]
    BY <1>1
  <2>2. ss \in [1..n -> Seq(BodyLines)]
    BY <1>3, <2>1
  <2> QED BY <1>1, <2>1, <2>2, SeqDef
<1>5. q \in [0..n -> AnyPaste]
      /\ \A k \in 0..n : q[k] = Paste(section, rooms, rails, Upto(list, k), under)
  <2>1. \A k \in 0..n : Paste(section, rooms, rails, Upto(list, k), under) \in AnyPaste
    BY <1>2, PasteTyped
  <2> QED BY <2>1
<1>6. ForEach(list, Declare) = FlattenSeq(ss)
  BY DEF ForEach
<1> HIDE DEF ss, q, n
<1>7. ASSUME NEW k \in 1..n PROVE ReadAll(q[k - 1], ss[k]) = q[k]
  <2>1. k - 1 \in 0..n /\ k \in 0..n
    BY <1>1
  <2>2. PICK u \in Seq(Int) : u = Upto(list, k - 1)
    BY <1>2, <2>1
  <2>3. PICK x \in Int : x = list[k]
    BY <1>1
  <2>4. ReadAll(Paste(section, rooms, rails, u, under), Declare(x))
          = Paste(section, rooms, rails, Append(u, x), under)
    BY DeclareRead
  <2> QED BY <1>2, <1>4, <1>5, <2>1, <2>2, <2>3, <2>4
<1>8. FlattenSeq(ss) \in Seq(BodyLines) /\ ReadAll(q[0], FlattenSeq(ss)) = q[n]
  BY <1>1, <1>4, <1>5, <1>7, ListRead
<1>9. 0 \in 0..n /\ n \in 0..n
  BY <1>1
<1> QED BY <1>2, <1>5, <1>6, <1>8, <1>9

(* The rooms in turn; es is their entries. *)
LEMMA RoomsRead ==
  ASSUME NEW section \in Sections, section = "rooms",
         NEW rails \in Seq(RailEntries), NEW devices \in Seq(Int), NEW list \in Seq(49..93)
  PROVE  /\ ForEach(list, RoomLines) \in Seq(BodyLines)
         /\ [i \in DOMAIN list |-> EntryOf(list[i])] \in Seq(RoomEntries)
         /\ ReadAll(Paste(section, <<>>, rails, devices, <<>>), ForEach(list, RoomLines))
              = Paste(section, [i \in DOMAIN list |-> EntryOf(list[i])], rails, devices, list)
<1> DEFINE n == Len(list)
           es == [i \in DOMAIN list |-> EntryOf(list[i])]
           ss == [i \in DOMAIN list |-> RoomLines(list[i])]
           q == [k \in 0..n |-> Paste(section, Upto(es, k), rails, devices, Upto(list, k))]
<1>1. n \in Nat /\ DOMAIN list = 1..n /\ (\A i \in 1..n : list[i] \in 49..93)
      /\ list \in Seq(Int) /\ Len(list) = n
  <2>1. n \in Nat /\ DOMAIN list = 1..n /\ Len(list) = n
    OBVIOUS
  <2>2. PICK X : X = 49..93
    OBVIOUS
  <2>3. list \in Seq(X) /\ X \subseteq Int
    BY <2>2
  <2>4. list \in Seq(Int)
    BY <2>3, SeqMonotonic
  <2>5. \A i \in 1..n : list[i] \in X
    BY <2>3, ElementOfSeq
  <2> QED BY <2>1, <2>2, <2>4, <2>5
<1>2. /\ Upto(list, 0) = <<>> /\ Upto(list, n) = list
      /\ \A k \in 0..n : Upto(list, k) \in Seq(Int)
      /\ \A k \in 1..n : Upto(list, k) = Append(Upto(list, k - 1), list[k])
  BY <1>1, UptoSteps
<1>3. \A i \in 1..n : RoomLines(list[i]) \in Seq(BodyLines) /\ EntryOf(list[i]) \in RoomEntries
  <2> TAKE i \in 1..n
  <2>1. PICK x \in 49..93 : x = list[i]
    BY <1>1
  <2>2. PICK a \in Seq(RoomEntries) : a = <<>>
    <3>1. <<>> \in Seq(RoomEntries)
      OBVIOUS
    <3> QED BY <3>1
  <2>3. RoomLines(x) \in Seq(BodyLines) /\ EntryOf(x) \in RoomEntries
    BY RoomRead
  <2> QED BY <2>1, <2>3
<1>4. ss \in Seq(Seq(BodyLines)) /\ Len(ss) = n /\ \A i \in 1..n : ss[i] = RoomLines(list[i])
  <2>1. ss = [i \in 1..n |-> RoomLines(list[i])]
    BY <1>1
  <2>2. ss \in [1..n -> Seq(BodyLines)]
    BY <1>3, <2>1
  <2> QED BY <1>1, <2>1, <2>2, SeqDef
<1>5. es \in Seq(RoomEntries) /\ Len(es) = n /\ \A i \in 1..n : es[i] = EntryOf(list[i])
  <2>1. es = [i \in 1..n |-> EntryOf(list[i])]
    BY <1>1
  <2>2. es \in [1..n -> RoomEntries]
    BY <1>3, <2>1
  <2> QED BY <1>1, <2>1, <2>2, SeqDef
<1>6. ForEach(list, RoomLines) = FlattenSeq(ss)
  BY DEF ForEach
<1> HIDE DEF ss, es
<1>7. /\ Upto(es, 0) = <<>> /\ Upto(es, n) = es
      /\ \A k \in 0..n : Upto(es, k) \in Seq(RoomEntries)
      /\ \A k \in 1..n : Upto(es, k) = Append(Upto(es, k - 1), es[k])
  BY <1>5, UptoSteps
<1>8. q \in [0..n -> AnyPaste]
      /\ \A k \in 0..n : q[k] = Paste(section, Upto(es, k), rails, devices, Upto(list, k))
  <2>1. \A k \in 0..n : Paste(section, Upto(es, k), rails, devices, Upto(list, k)) \in AnyPaste
    BY <1>2, <1>7, PasteTyped
  <2> QED BY <2>1
<1> HIDE DEF q, n
<1>9. ASSUME NEW k \in 1..n PROVE ReadAll(q[k - 1], ss[k]) = q[k]
  <2>1. k - 1 \in 0..n /\ k \in 0..n
    BY <1>1
  <2>2. PICK u \in Seq(Int) : u = Upto(list, k - 1)
    BY <1>2, <2>1
  <2>3. PICK a \in Seq(RoomEntries) : a = Upto(es, k - 1)
    BY <1>7, <2>1
  <2>4. PICK x \in 49..93 : x = list[k]
    BY <1>1
  <2>5. ReadAll(Paste(section, a, rails, devices, u), RoomLines(x))
          = Paste(section, Append(a, EntryOf(x)), rails, devices, Append(u, x))
    BY RoomRead, ZenonT(60)
  <2> QED BY <1>2, <1>4, <1>5, <1>7, <1>8, <2>1, <2>2, <2>3, <2>4, <2>5
<1>10. FlattenSeq(ss) \in Seq(BodyLines) /\ ReadAll(q[0], FlattenSeq(ss)) = q[n]
  BY <1>1, <1>4, <1>8, <1>9, ListRead
<1>11. 0 \in 0..n /\ n \in 0..n
  BY <1>1
<1>12. ReadAll(Paste(section, <<>>, rails, devices, <<>>), ForEach(list, RoomLines))
         = Paste(section, es, rails, devices, list)
  BY <1>2, <1>6, <1>7, <1>8, <1>10, <1>11
<1> QED BY <1>5, <1>6, <1>10, <1>12 DEF es

LEMMA FunctionIsSeq ==
  ASSUME NEW X, NEW n \in Nat, NEW f \in [1..n -> X] PROVE f \in Seq(X) /\ Len(f) = n
<1>1. f \in Seq(X)
  BY SeqDef
<1>2. Len(f) \in Nat /\ DOMAIN f = 1..Len(f) /\ DOMAIN f = 1..n
  BY <1>1
<1> QED BY <1>1, <1>2

(* And the secondary controllers, after the rooms. *)
RailsFor(list) == [i \in DOMAIN list |-> RailEntry(list[i])]

LEMMA SecondariesRead ==
  ASSUME NEW section \in Sections, section = "secondary_controllers",
         NEW rooms \in Seq(RoomEntries), NEW devices \in Seq(Int), NEW under \in Seq(Int),
         NEW list \in Seq(Int)
  PROVE  /\ ForEach(list, SecondaryLines) \in Seq(BodyLines)
         /\ RailsFor(list) \in Seq(RailEntries)
         /\ ReadAll(Paste(section, rooms, <<>>, devices, under), ForEach(list, SecondaryLines))
              = Paste(section, rooms, RailsFor(list), devices, under \o list)
<1> DEFINE n == Len(list)
           es == RailsFor(list)
           ss == [i \in DOMAIN list |-> SecondaryLines(list[i])]
           q == [k \in 0..n |-> Paste(section, rooms, Upto(es, k), devices, under \o Upto(list, k))]
<1>0. section # "rooms"
  OBVIOUS
<1>1. n \in Nat /\ DOMAIN list = 1..n /\ (\A i \in 1..n : list[i] \in Int) /\ Len(list) = n
  OBVIOUS
<1>2. /\ Upto(list, 0) = <<>> /\ Upto(list, n) = list
      /\ \A k \in 0..n : Upto(list, k) \in Seq(Int)
      /\ \A k \in 1..n : Upto(list, k) = Append(Upto(list, k - 1), list[k])
  BY <1>1, UptoSteps
<1>3. \A i \in 1..n : SecondaryLines(list[i]) \in Seq(BodyLines)
                      /\ RailEntry(list[i]) \in RailEntries
  <2> TAKE i \in 1..n
  <2>1. PICK x \in Int : x = list[i]
    BY <1>1
  <2>2. PICK a \in Seq(RailEntries) : a = <<>>
    <3>1. <<>> \in Seq(RailEntries)
      OBVIOUS
    <3> QED BY <3>1
  <2>3. SecondaryLines(x) \in Seq(BodyLines)
    BY <1>0, SecondaryRead
  <2>4. RailEntry(x) \in RailEntries
    BY RailEntryTyped
  <2> QED BY <2>1, <2>3, <2>4
<1>4. ss \in Seq(Seq(BodyLines)) /\ Len(ss) = n
      /\ \A i \in 1..n : ss[i] = SecondaryLines(list[i])
  <2>1. ss = [i \in 1..n |-> SecondaryLines(list[i])]
    BY <1>1
  <2>2. ss \in [1..n -> Seq(BodyLines)]
    BY <1>3, <2>1
  <2> QED BY <1>1, <2>1, <2>2, SeqDef
<1>5. es \in Seq(RailEntries) /\ Len(es) = n /\ \A i \in 1..n : es[i] = RailEntry(list[i])
  <2>1. es = [i \in 1..n |-> RailEntry(list[i])]
    BY <1>1 DEF RailsFor
  <2>2. es \in [1..n -> RailEntries]
    BY <1>3, <2>1
  <2>3. PICK f \in [1..n -> RailEntries] : f = es
    BY <2>2
  <2>4. f \in Seq(RailEntries) /\ Len(f) = n
    BY <1>1, FunctionIsSeq
  <2>6. \A i \in 1..n : es[i] = RailEntry(list[i])
    BY <2>1
  <2> QED BY <2>3, <2>4, <2>6
<1>6. ForEach(list, SecondaryLines) = FlattenSeq(ss)
  BY DEF ForEach
<1> HIDE DEF ss, es
<1>7. /\ Upto(es, 0) = <<>> /\ Upto(es, n) = es
      /\ \A k \in 0..n : Upto(es, k) \in Seq(RailEntries)
      /\ \A k \in 1..n : Upto(es, k) = Append(Upto(es, k - 1), es[k])
  BY <1>5, UptoSteps
<1>8. \A k \in 0..n : under \o Upto(list, k) \in Seq(Int)
  BY <1>2, ConcatProperties
<1>9. q \in [0..n -> AnyPaste]
      /\ \A k \in 0..n : q[k] = Paste(section, rooms, Upto(es, k), devices, under \o Upto(list, k))
  <2>1. \A k \in 0..n :
          Paste(section, rooms, Upto(es, k), devices, under \o Upto(list, k)) \in AnyPaste
    BY <1>7, <1>8, PasteTyped
  <2> QED BY <2>1
<1> HIDE DEF q, n
<1>10. ASSUME NEW k \in 1..n PROVE ReadAll(q[k - 1], ss[k]) = q[k]
  <2>1. k - 1 \in 0..n /\ k \in 0..n
    BY <1>1
  <2>2. PICK u \in Seq(Int) : u = under \o Upto(list, k - 1)
    BY <1>8, <2>1
  <2>3. PICK a \in Seq(RailEntries) : a = Upto(es, k - 1)
    BY <1>7, <2>1
  <2>4. PICK x \in Int : x = list[k]
    BY <1>1
  <2>5. ReadAll(Paste(section, rooms, a, devices, u), SecondaryLines(x))
          = Paste(section, rooms, Append(a, RailEntry(x)), devices, Append(u, x))
    BY <1>0, SecondaryRead
  <2>6. Append(u, x) = under \o Upto(list, k)
    <3>1. PICK v \in Seq(Int) : v = Upto(list, k - 1)
      BY <1>2, <2>1
    <3>4. Append(under \o v, x) = under \o Append(v, x)
      BY AppendAfter
    <3> QED BY <1>2, <2>2, <2>4, <3>1, <3>4
  <2> QED BY <1>4, <1>5, <1>7, <1>9, <2>1, <2>2, <2>3, <2>4, <2>5, <2>6
<1>11. FlattenSeq(ss) \in Seq(BodyLines) /\ ReadAll(q[0], FlattenSeq(ss)) = q[n]
  BY <1>1, <1>4, <1>9, <1>10, ListRead
<1>12. 0 \in 0..n /\ n \in 0..n /\ under \o <<>> = under
  BY <1>1
<1>13. ReadAll(Paste(section, rooms, <<>>, devices, under), ForEach(list, SecondaryLines))
         = Paste(section, rooms, es, devices, under \o list)
  BY <1>2, <1>6, <1>7, <1>9, <1>11, <1>12
<1> QED BY <1>5, <1>6, <1>11, <1>13 DEF es

-----------------------------------------------------------------------------
(* The whole dump.                                                         *)

(* The secondary controllers are those after the first, each once. *)
LEMMA SecondariesAre ==
  ASSUME disc_controllers \in Seq(1..3), IsInjective(disc_controllers)
  PROVE  /\ Secondaries \in Seq(2..3) /\ IsInjective(Secondaries)
         /\ \A c : Has(Secondaries, c) <=> (Has(disc_controllers, c) /\ c > 1)
<1> DEFINE n == Len(disc_controllers)
           ss == [i \in DOMAIN disc_controllers |->
                    When(disc_controllers[i] > 1, <<disc_controllers[i]>>)]
<1>1. PICK X : X = 2..3
  OBVIOUS
<1>2. n \in Nat /\ DOMAIN disc_controllers = 1..n
  OBVIOUS
<1>3. ASSUME NEW i \in 1..n
      PROVE  /\ disc_controllers[i] \in 1..3
             /\ disc_controllers[i] > 1 => disc_controllers[i] \in X
  <2>1. PICK Y : Y = 1..3
    OBVIOUS
  <2>2. disc_controllers[i] \in Y
    BY <2>1, ElementOfSeq
  <2> QED BY <1>1, <2>1, <2>2
<1>4. \A i \in 1..n : When(disc_controllers[i] > 1, <<disc_controllers[i]>>) \in Seq(X)
  <2> TAKE i \in 1..n
  <2>1. CASE disc_controllers[i] > 1
    <3>1. disc_controllers[i] \in X
      BY <1>3, <2>1
    <3>2. <<disc_controllers[i]>> \in Seq(X)
      BY <3>1
    <3> QED BY <2>1, <3>2 DEF When
  <2>2. CASE ~(disc_controllers[i] > 1)
    <3>1. <<>> \in Seq(X)
      OBVIOUS
    <3> QED BY <2>2, <3>1 DEF When
  <2> QED BY <2>1, <2>2
<1>5. /\ ss \in Seq(Seq(X)) /\ Len(ss) = n /\ DOMAIN ss = 1..n
      /\ \A i \in 1..n : ss[i] = When(disc_controllers[i] > 1, <<disc_controllers[i]>>)
  <2>1. ss = [i \in 1..n |-> When(disc_controllers[i] > 1, <<disc_controllers[i]>>)]
    BY <1>2
  <2>2. ss \in [1..n -> Seq(X)]
    BY <1>4, <2>1
  <2> QED BY <1>2, <2>1, <2>2, SeqDef
<1>6. Secondaries = FlattenSeq(ss)
  BY DEF Secondaries, ForEach
<1> HIDE DEF ss
<1>7. ASSUME NEW i \in 1..n, NEW x
      PROVE  Has(ss[i], x) <=> (disc_controllers[i] = x /\ x > 1)
  <2>1. CASE disc_controllers[i] > 1
    <3>1. ss[i] = <<disc_controllers[i]>>
      BY <1>5, <2>1 DEF When
    <3> QED BY <2>1, <3>1 DEF Has
  <2>2. CASE ~(disc_controllers[i] > 1)
    <3>1. ss[i] = <<>>
      BY <1>5, <2>2 DEF When
    <3> QED BY <2>2, <3>1 DEF Has
  <2> QED BY <2>1, <2>2
<1>8. ASSUME NEW x PROVE Has(Secondaries, x) <=> (Has(disc_controllers, x) /\ x > 1)
  <2>1. Has(FlattenSeq(ss), x) <=> \E k \in DOMAIN ss : Has(ss[k], x)
    BY <1>5, FlattenContents
  <2>2. (\E k \in 1..n : Has(ss[k], x)) <=> (\E k \in 1..n : disc_controllers[k] = x) /\ x > 1
    BY <1>7
  <2> QED BY <1>2, <1>5, <1>6, <2>1, <2>2 DEF Has
<1>9. ASSUME NEW k \in 0..n
      PROVE  /\ FlattenTo(ss, k) \in Seq(X)
             /\ \A x : Has(FlattenTo(ss, k), x) => \E i \in 1..k : disc_controllers[i] = x
  <2>1. PICK t : t = SubSeq(ss, 1, k)
    OBVIOUS
  <2>2. t \in Seq(Seq(X)) /\ DOMAIN t = 1..k /\ \A i \in 1..k : t[i] = ss[i]
    <3>1. \A i \in 1..k : ss[i] \in Seq(X)
      BY <1>4, <1>5
    <3>2. t \in Seq(Seq(X)) /\ Len(t) = k /\ \A i \in 1..(k - 1 + 1) : t[i] = ss[1 + i - 1]
      BY <1>2, <2>1, <3>1, SubSeqProperties
    <3>3. k - 1 + 1 = k /\ \A i \in 1..k : 1 + i - 1 = i
      BY <1>2
    <3> QED BY <3>2, <3>3
  <2>3. ASSUME NEW x, Has(FlattenSeq(t), x) PROVE \E i \in 1..k : disc_controllers[i] = x
    <3>1. \E i \in DOMAIN t : Has(t[i], x)
      BY <2>2, <2>3, FlattenContents
    <3>2. \A i \in 1..k : i \in 1..n
      BY <1>2
    <3> QED BY <1>7, <2>2, <3>1, <3>2
  <2> QED BY <1>5, <2>1, <2>3, FlattenToTyped DEF FlattenTo
<1> DEFINE T == {k \in Nat : k <= n => IsInjective(FlattenTo(ss, k))}
<1>10. 0 \in T
  <2>1. FlattenTo(ss, 0) = <<>>
    BY FlattenToZero
  <2> QED BY <2>1 DEF IsInjective
<1>11. ASSUME NEW k \in Nat, k + 1 <= n, IsInjective(FlattenTo(ss, k))
       PROVE  IsInjective(FlattenTo(ss, k + 1))
  <2>1. PICK j \in 1..Len(ss) : j = k + 1 /\ j - 1 = k
    BY <1>5, <1>11
  <2>2. FlattenTo(ss, j) = FlattenTo(ss, j - 1) \o ss[j]
    BY <1>5, FlattenToNext
  <2>3. PICK u \in Seq(X) : u = FlattenTo(ss, k)
    BY <1>2, <1>9, <1>11
  <2>4. j \in 1..n /\ k \in 0..n
    BY <1>2, <1>5, <1>11, <2>1
  <2>5. CASE disc_controllers[j] > 1
    <3>1. PICK x \in X : x = disc_controllers[j]
      BY <1>3, <2>4, <2>5
    <3>2. ss[j] = <<x>>
      BY <1>5, <2>4, <2>5, <3>1 DEF When
    <3>3. ~Has(u, x)
      <4>1. SUFFICES ASSUME Has(u, x) PROVE FALSE
        OBVIOUS
      <4>2. PICK i \in 1..k : disc_controllers[i] = x
        BY <1>9, <2>3, <2>4, <4>1
      <4>3. i \in 1..n /\ i # j
        BY <2>1, <2>4
      <4> QED BY <1>2, <2>4, <3>1, <4>2, <4>3 DEF IsInjective
    <3>4. Len(u \o <<x>>) = Len(u) + 1 /\ DOMAIN (u \o <<x>>) = 1..(Len(u) + 1)
          /\ (u \o <<x>>)[Len(u) + 1] = x
          /\ \A i \in 1..Len(u) : (u \o <<x>>)[i] = u[i]
      OBVIOUS
    <3>5. Len(u) \in Nat /\ DOMAIN u = 1..Len(u)
      OBVIOUS
    <3>6. IsInjective(u \o <<x>>)
      BY <1>11, <2>3, <3>3, <3>4, <3>5 DEF IsInjective, Has
    <3> QED BY <2>1, <2>2, <2>3, <3>2, <3>6
  <2>6. CASE ~(disc_controllers[j] > 1)
    <3>1. ss[j] = <<>>
      BY <1>5, <2>4, <2>6 DEF When
    <3>2. u \o <<>> = u
      BY ConcatEmptySeq
    <3> QED BY <1>11, <2>1, <2>2, <2>3, <3>1, <3>2
  <2> QED BY <2>5, <2>6
<1>12. \A k \in Nat : k \in T => k + 1 \in T
  <2>1. \A k \in Nat : k + 1 <= n => k <= n
    BY <1>2
  <2> QED BY <1>11, <2>1
<1> HIDE DEF T
<1>13. n \in T
  BY <1>2, <1>10, <1>12, SetInduction
<1>14. FlattenTo(ss, n) = FlattenSeq(ss)
  BY <1>5, FlattenToAll
<1>15. Secondaries \in Seq(X)
  BY <1>5, <1>6, FlattenContents
<1> QED BY <1>1, <1>2, <1>6, <1>8, <1>13, <1>14, <1>15 DEF T

(* A line that starts a list of entries, and one that says nothing. *)
LEMMA SectionRead ==
  ASSUME NEW section \in Sections,
         NEW rooms \in Seq(RoomEntries), NEW rails \in Seq(RailEntries),
         NEW devices \in Seq(Int), NEW under \in Seq(Int),
         NEW key \in Starts, NEW v \in Int
  PROVE  /\ Line(key, v) \in Seq(BodyLines)
         /\ ReadAll(Paste(section, rooms, rails, devices, under), Line(key, v))
              = Paste(key, rooms, rails, devices, under)
<1>1. key \in BodyKeys
  BY DEF BodyKeys, Starts
<1>2. PICK p \in AnyPaste : p = Paste(section, rooms, rails, devices, under)
  BY PasteTyped
<1>3. PICK line \in AnyLine : /\ line.key = key /\ line.val = v
                              /\ ReadAll(p, Line(key, v)) = Read(p, line)
  BY <1>1, OneLine
<1>4. line.key \in Starts
  BY <1>3
<1>5. Read(Paste(section, rooms, rails, devices, under), line)
        = Paste(line.key, rooms, rails, devices, under)
  BY <1>4, ReadSection
<1>6. Line(key, v) \in Seq(BodyLines)
  BY <1>1, LineTyped
<1> QED BY <1>2, <1>3, <1>5, <1>6

LEMMA NothingSaid ==
  ASSUME NEW p \in AnyPaste, NEW key, key \in {"esphome", "devices", "danfoss_icon"},
         NEW v \in Int
  PROVE  Line(key, v) \in Seq(BodyLines) /\ ReadAll(p, Line(key, v)) = p
<1>1. key \in BodyKeys
  BY DEF BodyKeys, Starts
<1>2. PICK line \in AnyLine : /\ line.key = key /\ line.val = v
                              /\ ReadAll(p, Line(key, v)) = Read(p, line)
  BY <1>1, OneLine
<1>3. line.key \in {"begin", "end", "esphome", "devices", "danfoss_icon", "name"}
  BY <1>2
<1>4. Read(p, line) = p
  BY <1>3, ReadOther
<1>5. Line(key, v) \in Seq(BodyLines)
  BY <1>1, LineTyped
<1> QED BY <1>2, <1>4, <1>5

(* The parts of a dump, one after another. *)
DevicesPart(list) ==
  When(list # <<>>, (Line("esphome", 0) \o Line("devices", 0)) \o ForEach(list, Declare))
RoomsPart == When(disc_rooms # <<>>, Line("rooms", 0) \o ForEach(disc_rooms, RoomLines))
RailsPart == When(Secondaries # <<>>,
                  Line("secondary_controllers", 0) \o ForEach(Secondaries, SecondaryLines))

LEMMA DevicesPartRead ==
  ASSUME NEW none \in Sections, NEW rooms \in Seq(RoomEntries),
         NEW rails \in Seq(RailEntries), NEW nil \in Seq(Int), Len(nil) = 0, NEW list \in Seq(Int)
  PROVE  /\ DevicesPart(list) \in Seq(BodyLines)
         /\ ReadAll(Paste(none, rooms, rails, nil, nil), DevicesPart(list))
              = Paste(none, rooms, rails, list, nil)
<1>0. nil = <<>>
  OBVIOUS
<1>1. PICK p \in AnyPaste : p = Paste(none, rooms, rails, nil, nil)
  BY PasteTyped
<1>2. CASE list = nil
  <2>1. DevicesPart(list) = <<>>
    BY <1>0, <1>2 DEF DevicesPart, When
  <2> QED BY <1>1, <1>2, <2>1, NothingRead
<1>3. CASE list # nil
  <2>1. PICK k1 : k1 = "esphome"
    OBVIOUS
  <2>2. PICK k2 : k2 = "devices"
    OBVIOUS
  <2>3. PICK zero \in Int : zero = 0
    OBVIOUS
  <2>4. PICK s \in Seq(BodyLines) : s = Line(k1, zero) /\ ReadAll(p, s) = p
    BY <2>1, NothingSaid
  <2>5. PICK t \in Seq(BodyLines) : t = Line(k2, zero) /\ ReadAll(p, t) = p
    BY <2>2, NothingSaid
  <2>6. PICK u \in Seq(BodyLines) :
          /\ u = ForEach(list, Declare)
          /\ ReadAll(Paste(none, rooms, rails, nil, nil), u) = Paste(none, rooms, rails, list, nil)
    <3>1. /\ ForEach(list, Declare) \in Seq(BodyLines)
          /\ ReadAll(Paste(none, rooms, rails, <<>>, nil), ForEach(list, Declare))
               = Paste(none, rooms, rails, list, nil)
      BY DevicesRead
    <3> QED BY <1>0, <3>1
  <2>7. s \o t \in Seq(BodyLines) /\ ReadAll(p, s \o t) = ReadAll(ReadAll(p, s), t)
    BY ThenRead
  <2>8. PICK st \in Seq(BodyLines) : st = s \o t /\ ReadAll(p, st) = p
    BY <2>4, <2>5, <2>7
  <2>9. st \o u \in Seq(BodyLines) /\ ReadAll(p, st \o u) = ReadAll(ReadAll(p, st), u)
    BY ThenRead
  <2>10. DevicesPart(list) = st \o u
    BY <1>0, <1>3, <2>1, <2>2, <2>3, <2>4, <2>5, <2>6, <2>8 DEF DevicesPart, When
  <2> QED BY <1>1, <2>6, <2>8, <2>9, <2>10
<1> QED BY <1>2, <1>3

(* Reading the dump's room section leaves one entry for every room found. *)
RoomsPartReads(none, noRooms, rails, devices, nil) ==
  \E es \in Seq(RoomEntries), section \in Sections :
    /\ es = [i \in DOMAIN disc_rooms |-> EntryOf(disc_rooms[i])]
    /\ section \in {none, "rooms"}
    /\ ReadAll(Paste(none, noRooms, rails, devices, nil), RoomsPart)
         = Paste(section, es, rails, devices, disc_rooms)

LEMMA RoomsPartRead ==
  ASSUME NEW none \in Sections,
         NEW noRooms \in Seq(RoomEntries), Len(noRooms) = 0, NEW rails \in Seq(RailEntries),
         NEW devices \in Seq(Int), NEW nil \in Seq(Int), Len(nil) = 0, disc_rooms \in Seq(49..93)
  PROVE  /\ RoomsPart \in Seq(BodyLines)
         /\ RoomsPartReads(none, noRooms, rails, devices, nil)
<1>0. noRooms = <<>> /\ nil = <<>>
  OBVIOUS
<1>1. PICK p \in AnyPaste : p = Paste(none, noRooms, rails, devices, nil)
  BY PasteTyped
<1>2. CASE disc_rooms = <<>>
  <2>1. RoomsPart = <<>>
    BY <1>2 DEF RoomsPart, When
  <2>2. noRooms = [i \in DOMAIN disc_rooms |-> EntryOf(disc_rooms[i])]
    BY <1>0, <1>2
  <2>3. ReadAll(Paste(none, noRooms, rails, devices, nil), RoomsPart)
          = Paste(none, noRooms, rails, devices, disc_rooms)
    BY <1>0, <1>1, <1>2, <2>1, NothingRead
  <2>4. RoomsPart \in Seq(BodyLines)
    BY <2>1
  <2> QED BY <2>2, <2>3, <2>4 DEF RoomsPartReads
<1>3. CASE disc_rooms # <<>>
  <2>1. PICK key \in Starts : key = "rooms"
    BY DEF Starts
  <2>0. key \in Sections
    BY DEF Sections
  <2>2. PICK zero \in Int : zero = 0
    OBVIOUS
  <2>3. PICK s \in Seq(BodyLines) :
          /\ s = Line(key, zero)
          /\ ReadAll(Paste(none, noRooms, rails, devices, nil), s)
               = Paste(key, noRooms, rails, devices, nil)
    <3>2. /\ Line(key, zero) \in Seq(BodyLines)
          /\ ReadAll(Paste(none, noRooms, rails, devices, nil), Line(key, zero))
               = Paste(key, noRooms, rails, devices, nil)
      BY SectionRead, ZenonT(60)
    <3> QED BY <3>2
  <2>4. PICK es \in Seq(RoomEntries) : es = [i \in DOMAIN disc_rooms |-> EntryOf(disc_rooms[i])]
    BY <2>0, <2>1, RoomsRead
  <2>5. PICK t \in Seq(BodyLines) :
          /\ t = ForEach(disc_rooms, RoomLines)
          /\ ReadAll(Paste(key, noRooms, rails, devices, nil), t)
               = Paste(key, es, rails, devices, disc_rooms)
    <3>1. /\ ForEach(disc_rooms, RoomLines) \in Seq(BodyLines)
          /\ ReadAll(Paste(key, <<>>, rails, devices, <<>>), ForEach(disc_rooms, RoomLines))
               = Paste(key, [i \in DOMAIN disc_rooms |-> EntryOf(disc_rooms[i])],
                       rails, devices, disc_rooms)
      BY <2>0, <2>1, RoomsRead
    <3> QED BY <1>0, <2>4, <3>1
  <2>6. s \o t \in Seq(BodyLines) /\ ReadAll(p, s \o t) = ReadAll(ReadAll(p, s), t)
    BY ThenRead
  <2>7. RoomsPart = s \o t
    BY <1>3, <2>1, <2>2, <2>3, <2>5 DEF RoomsPart, When
  <2>8. ReadAll(Paste(none, noRooms, rails, devices, nil), RoomsPart)
          = Paste(key, es, rails, devices, disc_rooms)
    BY <1>1, <2>3, <2>5, <2>6, <2>7
  <2>9. RoomsPart \in Seq(BodyLines)
    BY <2>6, <2>7
  <2> QED BY <2>0, <2>1, <2>4, <2>8, <2>9 DEF RoomsPartReads
<1> QED BY <1>2, <1>3

WithSecondaries(under) == under \o Secondaries

RailsPartReads(before, rooms, rails, devices, under) ==
  \E es \in Seq(RailEntries) :
    /\ es = RailsFor(Secondaries)
    /\ \E section \in Sections :
         ReadAll(Paste(before, rooms, rails, devices, under), RailsPart)
           = Paste(section, rooms, es, devices, WithSecondaries(under))

LEMMA RailsPartRead ==
  ASSUME NEW before \in Sections,
         NEW rooms \in Seq(RoomEntries), NEW noRails \in Seq(RailEntries), Len(noRails) = 0,
         NEW devices \in Seq(Int), NEW under \in Seq(Int), Secondaries \in Seq(Int)
  PROVE  RailsPart \in Seq(BodyLines) /\ RailsPartReads(before, rooms, noRails, devices, under)
<1>0. noRails = <<>>
  OBVIOUS
<1>1. PICK p \in AnyPaste : p = Paste(before, rooms, noRails, devices, under)
  BY PasteTyped
<1>2. CASE Secondaries = <<>>
  <2>1. RailsPart = <<>>
    BY <1>2 DEF RailsPart, When
  <2>2. noRails = RailsFor(Secondaries)
    BY <1>0, <1>2 DEF RailsFor
  <2>3. WithSecondaries(under) = under
    BY <1>2, ConcatEmptySeq DEF WithSecondaries
  <2> QED BY <1>1, <2>1, <2>2, <2>3, NothingRead DEF RailsPartReads
<1>3. CASE Secondaries # <<>>
  <2>1. PICK key \in Starts : key = "secondary_controllers"
    BY DEF Starts
  <2>0. key \in Sections
    BY DEF Sections
  <2>2. PICK zero \in Int : zero = 0
    OBVIOUS
  <2>3. PICK s \in Seq(BodyLines) :
          /\ s = Line(key, zero)
          /\ ReadAll(Paste(before, rooms, noRails, devices, under), s)
               = Paste(key, rooms, noRails, devices, under)
    <3>2. /\ Line(key, zero) \in Seq(BodyLines)
          /\ ReadAll(Paste(before, rooms, noRails, devices, under), Line(key, zero))
               = Paste(key, rooms, noRails, devices, under)
      BY SectionRead, ZenonT(60)
    <3> QED BY <3>2
  <2>4. PICK list \in Seq(Int) : list = Secondaries
    OBVIOUS
  <2>5. /\ ForEach(list, SecondaryLines) \in Seq(BodyLines)
        /\ RailsFor(list) \in Seq(RailEntries)
        /\ ReadAll(Paste(key, rooms, <<>>, devices, under), ForEach(list, SecondaryLines))
             = Paste(key, rooms, RailsFor(list), devices, under \o list)
    BY <2>0, <2>1, SecondariesRead
  <2>6. PICK es \in Seq(RailEntries) : es = RailsFor(list)
    BY <2>5
  <2>7. PICK t \in Seq(BodyLines) :
          /\ t = ForEach(list, SecondaryLines)
          /\ ReadAll(Paste(key, rooms, noRails, devices, under), t)
               = Paste(key, rooms, es, devices, under \o list)
    BY <1>0, <2>5, <2>6
  <2>8. s \o t \in Seq(BodyLines) /\ ReadAll(p, s \o t) = ReadAll(ReadAll(p, s), t)
    BY ThenRead
  <2>9. RailsPart = s \o t
    BY <1>3, <2>1, <2>2, <2>3, <2>4, <2>7 DEF RailsPart, When
  <2>10. es = RailsFor(Secondaries)
    BY <2>4, <2>6
  <2>11. ReadAll(Paste(before, rooms, noRails, devices, under), RailsPart)
           = Paste(key, rooms, es, devices, WithSecondaries(under))
    BY <1>1, <2>3, <2>4, <2>7, <2>8, <2>9 DEF WithSecondaries
  <2> QED BY <2>0, <2>8, <2>9, <2>10, <2>11 DEF RailsPartReads
<1> QED BY <1>2, <1>3

(* A dump is what is between its first line and its last. *)
Whole(body) == (<<Begin>> \o body) \o <<End>>
Body == ((DevicesPart(disc_rooms \o Secondaries) \o Line("danfoss_icon", 0)) \o RoomsPart)
        \o RailsPart

LEMMA EndsTyped ==
  /\ Begin \in AnyLine /\ End \in AnyLine
  /\ <<Begin>> \in Seq(AnyLine) /\ <<End>> \in Seq(AnyLine)
  /\ \A p : Read(p, Begin) = p /\ Read(p, End) = p
  /\ Begin \notin BodyLines /\ End \notin BodyLines /\ Begin # End
<1>1. Begin \in AnyLine /\ End \in AnyLine
  BY DEF Begin, End, AnyLine
<1>2. Begin.key = "begin" /\ End.key = "end"
  BY DEF Begin, End
<1>3. \A p : Read(p, Begin) = p /\ Read(p, End) = p
  <2>1. Begin.key \in {"begin", "end", "esphome", "devices", "danfoss_icon", "name"}
    BY <1>2
  <2>2. End.key \in {"begin", "end", "esphome", "devices", "danfoss_icon", "name"}
    BY <1>2
  <2> QED BY <2>1, <2>2, ReadOther
<1>4. Begin \notin BodyLines /\ End \notin BodyLines /\ Begin # End
  BY <1>2 DEF BodyLines, BodyKeys
<1>5. <<Begin>> \in Seq(AnyLine) /\ <<End>> \in Seq(AnyLine)
  BY <1>1
<1> QED BY <1>1, <1>3, <1>4, <1>5

LEMMA DumpWhole ==
  ASSUME NEW a \in Seq(AnyLine), NEW b \in Seq(AnyLine), NEW c \in Seq(AnyLine),
         NEW d \in Seq(AnyLine),
         a = DevicesPart(disc_rooms \o Secondaries), b = Line("danfoss_icon", 0),
         c = RoomsPart, d = RailsPart
  PROVE  Yaml = Whole(Body)
<1>1. PICK s \in Seq(AnyLine) : s = <<Begin>>
  BY EndsTyped
<1>2. Yaml = ((((s \o a) \o b) \o c) \o d) \o <<End>>
  BY <1>1 DEF Yaml, DevicesPart, RoomsPart, RailsPart
<1>3. (s \o a) \o b = s \o (a \o b)
  OBVIOUS
<1>4. PICK ab \in Seq(AnyLine) : ab = a \o b
  BY ConcatProperties
<1>5. (s \o ab) \o c = s \o (ab \o c)
  OBVIOUS
<1>6. PICK abc \in Seq(AnyLine) : abc = ab \o c
  BY ConcatProperties
<1>7. (s \o abc) \o d = s \o (abc \o d)
  OBVIOUS
<1>8. Body = abc \o d
  BY <1>4, <1>6 DEF Body
<1> QED BY <1>1, <1>2, <1>3, <1>4, <1>5, <1>6, <1>7, <1>8 DEF Whole

(* A dump reads back into the entries and the sub-devices it was made of. *)
LEMMA DumpRead ==
  ASSUME disc_rooms \in Seq(49..93), Secondaries \in Seq(Int)
  PROVE  \E all \in Seq(Int) : /\ all = disc_rooms \o Secondaries
         /\ \E body \in Seq(BodyLines) : /\ Yaml = Whole(body)
            /\ \E rooms \in Seq(RoomEntries), rails \in Seq(RailEntries) :
                 /\ rooms = [i \in DOMAIN disc_rooms |-> EntryOf(disc_rooms[i])]
                 /\ rails = RailsFor(Secondaries)
                 /\ \E section \in Sections :
                      ReadAll(Empty, Yaml) = Paste(section, rooms, rails, all, all)
<1>1. disc_rooms \in Seq(Int)
  <2>1. PICK X : X = 49..93
    OBVIOUS
  <2>2. disc_rooms \in Seq(X) /\ X \subseteq Int
    BY <2>1
  <2> QED BY <2>2, SeqMonotonic
<1>2. PICK all \in Seq(Int) : all = disc_rooms \o Secondaries
  BY <1>1, ConcatProperties
<1>3. PICK none \in Sections : none = "none"
  BY DEF Sections
<1>4. PICK noRooms \in Seq(RoomEntries) : noRooms = <<>>
  <2>1. <<>> \in Seq(RoomEntries)
    OBVIOUS
  <2> QED BY <2>1
<1>5. PICK noRails \in Seq(RailEntries) : noRails = <<>>
  <2>1. <<>> \in Seq(RailEntries)
    OBVIOUS
  <2> QED BY <2>1
<1>6. PICK nil \in Seq(Int) : nil = <<>>
  <2>1. <<>> \in Seq(Int)
    OBVIOUS
  <2> QED BY <2>1
<1>7. Len(noRooms) = 0 /\ Len(noRails) = 0 /\ Len(nil) = 0
  BY <1>4, <1>5, <1>6
<1>8. PICK p0 \in AnyPaste : p0 = Paste(none, noRooms, noRails, nil, nil)
  BY PasteTyped
<1>9. p0 = Empty
  BY <1>3, <1>4, <1>5, <1>6, <1>8 DEF Empty
<1>10. PICK p1 \in AnyPaste : p1 = Paste(none, noRooms, noRails, all, nil)
  BY PasteTyped
<1>11. PICK a \in Seq(BodyLines) : a = DevicesPart(all) /\ ReadAll(p0, a) = p1
  <2>1. /\ DevicesPart(all) \in Seq(BodyLines)
        /\ ReadAll(Paste(none, noRooms, noRails, nil, nil), DevicesPart(all))
             = Paste(none, noRooms, noRails, all, nil)
    BY <1>7, DevicesPartRead
  <2> QED BY <1>8, <1>10, <2>1
<1>12. PICK b \in Seq(BodyLines) : b = Line("danfoss_icon", 0) /\ ReadAll(p1, b) = p1
  <2>1. PICK key : key = "danfoss_icon"
    OBVIOUS
  <2>2. PICK zero \in Int : zero = 0
    OBVIOUS
  <2>3. Line(key, zero) \in Seq(BodyLines) /\ ReadAll(p1, Line(key, zero)) = p1
    <3>1. key \in {"esphome", "devices", "danfoss_icon"}
      BY <2>1
    <3> QED BY <3>1, NothingSaid
  <2> QED BY <2>1, <2>2, <2>3
<1>13. RoomsPart \in Seq(BodyLines) /\ RoomsPartReads(none, noRooms, noRails, all, nil)
  BY <1>7, RoomsPartRead
<1>14. PICK es \in Seq(RoomEntries), s2 \in Sections :
         /\ es = [i \in DOMAIN disc_rooms |-> EntryOf(disc_rooms[i])]
         /\ ReadAll(p1, RoomsPart) = Paste(s2, es, noRails, all, disc_rooms)
  BY <1>10, <1>13 DEF RoomsPartReads
<1>15. PICK c \in Seq(BodyLines) : c = RoomsPart
  BY <1>13
<1>16. PICK p2 \in AnyPaste : p2 = Paste(s2, es, noRails, all, disc_rooms)
  BY <1>1, PasteTyped
<1>17. /\ RailsPart \in Seq(BodyLines)
       /\ \E ts \in Seq(RailEntries) :
            /\ ts = RailsFor(Secondaries)
            /\ \E section \in Sections :
                 ReadAll(p2, RailsPart) = Paste(section, es, ts, all, all)
  <2>1. PICK r \in Seq(Int) : r = disc_rooms
    BY <1>1
  <2>2. RailsPart \in Seq(BodyLines) /\ RailsPartReads(s2, es, noRails, all, r)
    BY <1>7, RailsPartRead
  <2>3. WithSecondaries(r) = all
    BY <1>2, <2>1 DEF WithSecondaries
  <2> QED BY <1>16, <2>1, <2>2, <2>3 DEF RailsPartReads
<1>18. PICK ts \in Seq(RailEntries) :
         /\ ts = RailsFor(Secondaries)
         /\ \E section \in Sections :
              ReadAll(p2, RailsPart) = Paste(section, es, ts, all, all)
  BY <1>17
<1>19. PICK s3 \in Sections : ReadAll(p2, RailsPart) = Paste(s3, es, ts, all, all)
  BY <1>18
<1>20. PICK d \in Seq(BodyLines) : d = RailsPart
  BY <1>17
<1>21. PICK p3 \in AnyPaste : p3 = Paste(s3, es, ts, all, all)
  BY PasteTyped
<1>22. ReadAll(p1, c) = p2 /\ ReadAll(p2, d) = p3
  BY <1>14, <1>15, <1>16, <1>19, <1>20, <1>21
<1>23. ((a \o b) \o c) \o d \in Seq(BodyLines) /\ ReadAll(p0, ((a \o b) \o c) \o d) = p3
  BY <1>11, <1>12, <1>22, FourRead
<1>24. PICK body \in Seq(BodyLines) :
         body = Body /\ body = ((a \o b) \o c) \o d /\ ReadAll(p0, body) = p3
  BY <1>2, <1>11, <1>12, <1>15, <1>20, <1>23 DEF Body
<1>25. Yaml = Whole(body)
  <2>1. /\ DevicesPart(disc_rooms \o Secondaries) \in Seq(AnyLine)
        /\ Line("danfoss_icon", 0) \in Seq(AnyLine)
        /\ RoomsPart \in Seq(AnyLine) /\ RailsPart \in Seq(AnyLine)
    BY <1>2, <1>11, <1>12, <1>15, <1>20, BodyTyped
  <2>2. Yaml = Whole(Body)
    BY <2>1, DumpWhole
  <2> QED BY <1>24, <2>2
<1>26. ReadAll(p0, Yaml) = p3
  <2>1. PICK s \in Seq(AnyLine) : s = <<Begin>>
    BY EndsTyped
  <2>2. PICK t \in Seq(AnyLine) : t = body
    BY BodyTyped
  <2>3. ReadAll(p0, s) = p0
    <3>1. ReadAll(p0, <<Begin>>) = Read(p0, Begin)
      BY EndsTyped, ReadOne
    <3> QED BY <2>1, <3>1, EndsTyped
  <2>4. s \o t \in Seq(AnyLine) /\ ReadAll(p0, s \o t) = ReadAll(ReadAll(p0, s), t)
    BY ConcatProperties, ReadConcat
  <2>5. PICK st \in Seq(AnyLine) : st = s \o t /\ ReadAll(p0, st) = p3
    BY <1>24, <2>2, <2>3, <2>4
  <2>6. ReadAll(p0, st \o <<End>>) = Read(ReadAll(p0, st), End)
    BY EndsTyped, ReadNext
  <2> QED BY <1>25, <2>1, <2>2, <2>5, <2>6, EndsTyped DEF Whole
<1>27. ReadAll(Empty, Yaml) = Paste(s3, es, ts, all, all)
  BY <1>9, <1>21, <1>26
<1> QED BY <1>2, <1>14, <1>18, <1>25, <1>27, Zenon

-----------------------------------------------------------------------------
(* What a paste polls.                                                     *)

(* The index of a room's entry is the index it was split from. *)
LEMMA EntryIs ==
  ASSUME NEW idx \in 49..93
  PROVE  /\ EntryOf(idx) \in RoomConfigs /\ RoomIndex(EntryOf(idx)) = idx
         /\ EntryOf(idx).floor <=> Contains(disc_floor_rooms, idx)
<1>1. PICK n \in 1..15 : n = NumberOf(idx)
  BY SplitIndex
<1>2. PICK m \in 1..3 : m = ControllerOf(idx)
  BY SplitIndex
<1>3. 49 + (m - 1) * 15 + (n - 1) = idx
  BY <1>1, <1>2, SplitIndex
<1>4. PICK floor \in BOOLEAN : floor = Contains(disc_floor_rooms, idx)
  BY DEF Contains
<1>5. PICK e : e = EntryOf(idx)
  OBVIOUS
<1>6. e = [number |-> n, controller |-> m, floor |-> floor, on |-> RoomToggles]
  BY <1>1, <1>2, <1>4, <1>5 DEF EntryOf, RoomEntry
<1>7. e \in RoomConfigs
  <2>1. RoomToggles \in SUBSET RoomToggles
    OBVIOUS
  <2>2. PICK on, ons : on = RoomToggles /\ ons = SUBSET RoomToggles
    OBVIOUS
  <2> QED BY <1>6, <2>1, <2>2 DEF RoomConfigs, SlotsPerController
<1>8. RoomIndex(e) = idx
  BY <1>3, <1>6 DEF RoomIndex, RoomIdxBase, SlotsPerController
<1>9. e.floor = floor
  BY <1>6
<1> QED BY <1>4, <1>5, <1>7, <1>8, <1>9

LEMMA ControllerIs ==
  ASSUME NEW idx, NEW on, NEW e, InController(idx, on, e)
  PROVE  e.idx = idx \/ e.idx = 0
BY DEF InController, Text, Problem

(* A configuration polls its rooms and, where no toggle is off, its rails. *)
LEMMA PolledAre ==
  ASSUME NEW c \in Configurations,
         \A i \in DOMAIN c.secondaries : c.secondaries[i].on = RailToggles
  PROVE  \A x : x \in PolledBy(c) <=>
           \/ \E i \in DOMAIN c.rooms : x = RoomIndex(c.rooms[i])
           \/ \E i \in DOMAIN c.secondaries : x = c.secondaries[i].number
<1> TAKE x
<1>1. /\ \A i \in DOMAIN c.rooms : c.rooms[i] \in RoomConfigs
      /\ \A i \in DOMAIN c.secondaries : c.secondaries[i].number \in 2..3
  BY ConfigurationParts
<1>2. x \in PolledBy(c) <=> (\E r : InRegs(c, r) /\ r.idx = x) /\ x # 0 /\ x # 1
  <2>1. PICK regs : regs = Registrations(c, Entities(c))
    OBVIOUS
  <2>2. \A r : r \in ToSet(regs) <=> InRegs(c, r)
    BY <2>1, HasToSet, RegistrationsHold
  <2>3. PolledBy(c) = {r.idx : r \in ToSet(regs)} \ {0, 1}
    BY <2>1 DEF PolledBy
  <2> QED BY <2>2, <2>3
<1>3. ASSUME NEW r, InRegs(c, r), r.idx = x, x # 0, x # 1
      PROVE  \/ \E i \in DOMAIN c.rooms : x = RoomIndex(c.rooms[i])
             \/ \E i \in DOMAIN c.secondaries : x = c.secondaries[i].number
  <2>1. CASE \E i \in DOMAIN c.rooms : InRoomRegs(c.rooms[i], r)
    BY <1>3, <2>1, RoomRegNames
  <2>2. CASE r = Reg(1, "revision", TRUE)
    BY <1>3, <2>2 DEF Reg
  <2>3. ASSUME NEW e, InHouse(c, e), r = Reg(e.idx, e.attr, FALSE)
        PROVE  \/ \E i \in DOMAIN c.rooms : x = RoomIndex(c.rooms[i])
               \/ \E i \in DOMAIN c.secondaries : x = c.secondaries[i].number
    <3>1. e.idx = x
      BY <1>3, <2>3 DEF Reg
    <3>2. CASE \E i \in DOMAIN c.rooms : InRoom(c.rooms[i], e)
      BY <3>1, <3>2, RoomIdx
    <3>3. CASE InController(1, c.primary, e)
      <4>1. PICK one : one = 1
        OBVIOUS
      <4>2. InController(one, c.primary, e)
        BY <3>3, <4>1
      <4>3. e.idx = one \/ e.idx = 0
        BY <4>2, ControllerIs
      <4> QED BY <1>3, <3>1, <4>1, <4>3
    <3>4. CASE \E i \in DOMAIN c.secondaries :
                 InController(c.secondaries[i].number, c.secondaries[i].on, e)
      <4>1. PICK i \in DOMAIN c.secondaries :
              InController(c.secondaries[i].number, c.secondaries[i].on, e)
        BY <3>4
      <4>2. PICK n, on : n = c.secondaries[i].number /\ on = c.secondaries[i].on
        OBVIOUS
      <4>3. e.idx = n \/ e.idx = 0
        BY <4>1, <4>2, ControllerIs
      <4> QED BY <1>3, <3>1, <4>2, <4>3
    <3> QED BY <2>3, <3>2, <3>3, <3>4 DEF InHouse
  <2> QED BY <1>3, <2>1, <2>2, <2>3 DEF InRegs
<1>4. ASSUME NEW i \in DOMAIN c.rooms, x = RoomIndex(c.rooms[i])
      PROVE  (\E r : InRegs(c, r) /\ r.idx = x) /\ x # 0 /\ x # 1
  <2>1. PICK r : r = Reg(RoomIndex(c.rooms[i]), FastOnes[1], TRUE)
    OBVIOUS
  <2>2. InRegs(c, r)
    <3>1. InRoomRegs(c.rooms[i], r)
      BY <2>1 DEF InRoomRegs
    <3> QED BY <3>1 DEF InRegs
  <2>3. r.idx = x
    BY <1>4, <2>1 DEF Reg
  <2>4. x \in 49..93
    BY <1>1, <1>4, RoomIndexed
  <2> QED BY <2>2, <2>3, <2>4
<1>5. ASSUME NEW i \in DOMAIN c.secondaries, x = c.secondaries[i].number
      PROVE  (\E r : InRegs(c, r) /\ r.idx = x) /\ x # 0 /\ x # 1
  <2>1. PICK e : e = Text(c.secondaries[i].number, "firmware", "verstr")
    OBVIOUS
  <2>2. "firmware" \in c.secondaries[i].on
    BY <1>5 DEF RailToggles
  <2>3. InHouse(c, e)
    BY <2>1, <2>2 DEF InHouse, InController
  <2>4. e.kind = "text" /\ e.idx = x
    BY <1>5, <2>1 DEF Text
  <2>5. PICK r : r = Reg(e.idx, e.attr, FALSE)
    OBVIOUS
  <2>6. InRegs(c, r)
    BY <2>3, <2>4, <2>5 DEF InRegs
  <2>7. r.idx = x
    BY <2>4, <2>5 DEF Reg
  <2>8. x \in 2..3
    BY <1>1, <1>5
  <2> QED BY <2>6, <2>7, <2>8
<1> QED BY <1>2, <1>3, <1>4, <1>5

(* A list of entries, and of rails, is what the schema lets through. *)
LEMMA ListsConfigured ==
  ASSUME NEW list \in Seq(49..93), NEW others \in Seq(2..3), NEW rooms, NEW c,
         rooms = [i \in DOMAIN list |-> EntryOf(list[i])],
         c = [rooms |-> rooms, primary |-> PrimaryToggles, secondaries |-> RailsFor(others)]
  PROVE  /\ c \in Configurations
         /\ DOMAIN c.rooms = DOMAIN list /\ DOMAIN c.secondaries = DOMAIN others
         /\ \A i \in DOMAIN list : /\ list[i] \in 49..93 /\ c.rooms[i] = EntryOf(list[i])
                                   /\ RoomIndex(c.rooms[i]) = list[i]
         /\ \A i \in DOMAIN others : /\ c.secondaries[i].number = others[i]
                                     /\ c.secondaries[i].on = RailToggles
<1> DEFINE n == Len(list)
           m == Len(others)
           rails == RailsFor(others)
<1>1. n \in Nat /\ DOMAIN list = 1..n /\ \A i \in 1..n : list[i] \in 49..93
  <2>1. PICK X : X = 49..93
    OBVIOUS
  <2>2. list \in Seq(X)
    BY <2>1
  <2>3. n \in Nat /\ DOMAIN list = 1..n /\ \A i \in 1..n : list[i] \in X
    BY <2>2, ElementOfSeq
  <2> QED BY <2>1, <2>3
<1>2. m \in Nat /\ DOMAIN others = 1..m /\ \A i \in 1..m : others[i] \in 2..3
  <2>1. PICK X : X = 2..3
    OBVIOUS
  <2>2. others \in Seq(X)
    BY <2>1
  <2>3. m \in Nat /\ DOMAIN others = 1..m /\ \A i \in 1..m : others[i] \in X
    BY <2>2, ElementOfSeq
  <2> QED BY <2>1, <2>3
<1>3. rooms = [i \in 1..n |-> EntryOf(list[i])]
  BY <1>1
<1>4. \A i \in 1..n : EntryOf(list[i]) \in RoomConfigs /\ RoomIndex(EntryOf(list[i])) = list[i]
  <2> TAKE i \in 1..n
  <2>1. PICK idx \in 49..93 : idx = list[i]
    BY <1>1
  <2> QED BY <2>1, EntryIs
<1>5. rooms \in Seq(RoomConfigs)
  <2>1. rooms \in [1..n -> RoomConfigs]
    BY <1>3, <1>4
  <2> QED BY <1>1, <2>1, SeqDef
<1>6. rails = [i \in 1..m |-> [number |-> others[i], on |-> RailToggles]]
  BY <1>2 DEF RailsFor, RailEntry
<1>7. rails \in Seq(SecondaryConfigs)
  <2>1. \A i \in 1..m : [number |-> others[i], on |-> RailToggles] \in SecondaryConfigs
    <3> TAKE i \in 1..m
    <3>1. PICK k \in 2..3 : k = others[i]
      BY <1>2
    <3>2. PICK on \in SUBSET RailToggles : on = RailToggles
      OBVIOUS
    <3>3. [number |-> k, on |-> on] \in SecondaryConfigs
      BY DEF SecondaryConfigs
    <3> QED BY <3>1, <3>2, <3>3
  <2>2. rails \in [1..m -> SecondaryConfigs]
    BY <1>6, <2>1
  <2> QED BY <1>2, <2>2, SeqDef
<1> HIDE DEF rails
<1>8. c.rooms = rooms /\ c.secondaries = rails
  BY DEF rails
<1>9. c \in Configurations
  <2>1. PICK on \in SUBSET PrimaryToggles : on = PrimaryToggles
    OBVIOUS
  <2>2. c = [rooms |-> rooms, primary |-> on, secondaries |-> rails]
    BY <2>1 DEF rails
  <2> QED BY <1>5, <1>7, <2>2 DEF Configurations, RoomConfigs, SecondaryConfigs
<1>10. DOMAIN c.rooms = DOMAIN list /\ DOMAIN c.secondaries = DOMAIN others
  <2>1. DOMAIN rooms = 1..n /\ DOMAIN rails = 1..m
    BY <1>3, <1>6
  <2> QED BY <1>1, <1>2, <1>8, <2>1
<1>11. \A i \in 1..n : c.rooms[i] = EntryOf(list[i])
  BY <1>3, <1>8
<1>12. \A i \in 1..m : c.secondaries[i].number = others[i]
                       /\ c.secondaries[i].on = RailToggles
  BY <1>6, <1>8
<1> QED BY <1>1, <1>2, <1>4, <1>9, <1>10, <1>11, <1>12

(* What a dump asks for: every room and rail found, and floors where noted. *)
Asks(config, list, others) ==
  /\ \A x : x \in PolledBy(config) <=> Has(list, x) \/ Has(others, x)
  /\ \A x : x \in FloorsOf(config) <=> (Has(list, x) /\ Contains(disc_floor_rooms, x))

LEMMA PasteAsks ==
  ASSUME NEW list \in Seq(49..93), NEW others \in Seq(2..3), NEW rooms, NEW rails,
         NEW section, NEW devices, NEW under,
         rooms = [i \in DOMAIN list |-> EntryOf(list[i])], rails = RailsFor(others)
  PROVE  Asks(Paste(section, rooms, rails, devices, under), list, others)
<1>1. PICK p : p = Paste(section, rooms, rails, devices, under)
  OBVIOUS
<1>2. PICK c : c = [rooms |-> rooms, primary |-> PrimaryToggles, secondaries |-> RailsFor(others)]
  OBVIOUS
<1>3. /\ c \in Configurations
      /\ DOMAIN c.rooms = DOMAIN list /\ DOMAIN c.secondaries = DOMAIN others
      /\ \A i \in DOMAIN list : /\ list[i] \in 49..93 /\ c.rooms[i] = EntryOf(list[i])
                                /\ RoomIndex(c.rooms[i]) = list[i]
      /\ \A i \in DOMAIN others : /\ c.secondaries[i].number = others[i]
                                  /\ c.secondaries[i].on = RailToggles
  BY <1>2, ListsConfigured
<1>4. p.rooms = c.rooms /\ p.primary = c.primary /\ p.secondaries = c.secondaries
  BY <1>1, <1>2 DEF Paste
<1>5. PolledBy(p) = PolledBy(c)
  <2>1. Entities(p) = Entities(c)
    BY <1>4 DEF Entities
  <2>2. PICK es : es = Entities(c)
    OBVIOUS
  <2>3. Registrations(p, es) = Registrations(c, es)
    BY <1>4 DEF Registrations, CodegenRegs
  <2> QED BY <2>1, <2>2, <2>3 DEF PolledBy
<1>6. \A x : x \in PolledBy(c) <=>
           \/ \E i \in DOMAIN c.rooms : x = RoomIndex(c.rooms[i])
           \/ \E i \in DOMAIN c.secondaries : x = c.secondaries[i].number
  BY <1>3, PolledAre
<1>7. ASSUME NEW x PROVE x \in PolledBy(p) <=> Has(list, x) \/ Has(others, x)
  <2>1. (\E i \in DOMAIN c.rooms : x = RoomIndex(c.rooms[i])) <=> Has(list, x)
    BY <1>3 DEF Has
  <2>2. (\E i \in DOMAIN c.secondaries : x = c.secondaries[i].number) <=> Has(others, x)
    BY <1>3 DEF Has
  <2>3. x \in PolledBy(c) <=>
          \/ \E i \in DOMAIN c.rooms : x = RoomIndex(c.rooms[i])
          \/ \E i \in DOMAIN c.secondaries : x = c.secondaries[i].number
    BY <1>6
  <2> QED BY <1>5, <2>1, <2>2, <2>3, Zenon
<1>8. ASSUME NEW i \in DOMAIN list
      PROVE  c.rooms[i].floor <=> Contains(disc_floor_rooms, list[i])
  <2>1. PICK idx \in 49..93 : idx = list[i]
    BY <1>3
  <2>2. EntryOf(idx).floor <=> Contains(disc_floor_rooms, idx)
    BY EntryIs
  <2> QED BY <1>3, <2>1, <2>2
<1>9. ASSUME NEW x
      PROVE  x \in FloorsOf(p) <=> (Has(list, x) /\ Contains(disc_floor_rooms, x))
  <2>1. FloorsOf(p) = {RoomIndex(r) : r \in {q \in ToSet(c.rooms) : q.floor}}
    BY <1>4 DEF FloorsOf
  <2>2. x \in FloorsOf(p) <=> \E i \in DOMAIN c.rooms : c.rooms[i].floor /\ x = RoomIndex(c.rooms[i])
    BY <2>1 DEF ToSet
  <2>3. (\E i \in DOMAIN c.rooms : c.rooms[i].floor /\ x = RoomIndex(c.rooms[i]))
          <=> \E i \in DOMAIN list : Contains(disc_floor_rooms, list[i]) /\ x = list[i]
    BY <1>3, <1>8
  <2>4. (\E i \in DOMAIN list : Contains(disc_floor_rooms, list[i]) /\ x = list[i])
          <=> (Has(list, x) /\ Contains(disc_floor_rooms, x))
    BY DEF Has
  <2> QED BY <2>2, <2>3, <2>4
<1> QED BY <1>1, <1>7, <1>9 DEF Asks

LEMMA ConcatParts ==
  ASSUME NEW X, NEW s \in Seq(X), NEW t \in Seq(X), NEW u, u = s \o t,
         NEW n \in Nat, NEW m \in Nat, n = Len(s), m = Len(t)
  PROVE  /\ u \in Seq(X) /\ Len(u) = n + m /\ DOMAIN u = 1..(n + m)
         /\ \A i \in 1..n : u[i] = s[i]
         /\ \A i \in (n + 1)..(n + m) : i - n \in 1..m /\ u[i] = t[i - n]
BY ConcatProperties

LEMMA ConcatInjective ==
  ASSUME NEW X, NEW s \in Seq(X), NEW t \in Seq(X), IsInjective(s), IsInjective(t),
         \A x : ~(Has(s, x) /\ Has(t, x))
  PROVE  IsInjective(s \o t)
<1>1. PICK n \in Nat, m \in Nat : n = Len(s) /\ m = Len(t)
  BY LenProperties
<1>2. PICK u : u = s \o t
  OBVIOUS
<1>3. /\ DOMAIN s = 1..n /\ DOMAIN t = 1..m /\ DOMAIN u = 1..(n + m)
      /\ \A i \in 1..n : u[i] = s[i]
      /\ \A i \in (n + 1)..(n + m) : i - n \in 1..m /\ u[i] = t[i - n]
  BY <1>1, <1>2, ConcatParts
<1>4. /\ \A i, j \in 1..n : s[i] = s[j] => i = j
      /\ \A i, j \in 1..m : t[i] = t[j] => i = j
      /\ \A i \in 1..n, j \in 1..m : s[i] # t[j]
  BY <1>3 DEF IsInjective, Has
<1>5. ASSUME NEW i \in 1..(n + m), NEW j \in 1..(n + m), u[i] = u[j] PROVE i = j
  <2>1. CASE i \in 1..n /\ j \in 1..n
    BY <1>3, <1>4, <1>5, <2>1
  <2>2. CASE i \in (n + 1)..(n + m) /\ j \in (n + 1)..(n + m)
    <3>1. t[i - n] = t[j - n] /\ i - n \in 1..m /\ j - n \in 1..m
      BY <1>3, <1>5, <2>2
    <3>2. i - n = j - n
      BY <1>4, <3>1
    <3> QED BY <2>2, <3>2
  <2>3. CASE i \in 1..n /\ j \in (n + 1)..(n + m)
    <3>1. s[i] = t[j - n] /\ j - n \in 1..m
      BY <1>3, <1>5, <2>3
    <3> QED BY <1>4, <2>3, <3>1
  <2>4. CASE j \in 1..n /\ i \in (n + 1)..(n + m)
    <3>1. s[j] = t[i - n] /\ i - n \in 1..m
      BY <1>3, <1>5, <2>4
    <3> QED BY <1>4, <2>4, <3>1
  <2> QED BY <2>1, <2>2, <2>3, <2>4
<1> QED BY <1>2, <1>3, <1>5 DEF IsInjective

(* Each entry is under a sub-device declared once. *)
Placed(config) ==
  IsInjective(config.devices) /\ ToSet(config.devices) = ToSet(config.under)

(* A dump of such lists asks for what they hold, each under its sub-device. *)
LEMMA DumpAsks ==
  ASSUME disc_rooms \in Seq(49..93), IsInjective(disc_rooms),
         Secondaries \in Seq(2..3), IsInjective(Secondaries)
  PROVE  /\ \E body \in Seq(BodyLines) : Yaml = Whole(body)
         /\ \E config : /\ config = ReadAll(Empty, Yaml)
                        /\ Asks(config, disc_rooms, Secondaries) /\ Placed(config)
<1>1. /\ disc_rooms \in Seq(Int) /\ Secondaries \in Seq(Int)
      /\ \A x : Has(disc_rooms, x) => x \in 49..93
      /\ \A x : Has(Secondaries, x) => x \in 2..3
  <2>1. PICK X, Y : X = 49..93 /\ Y = 2..3
    OBVIOUS
  <2>2. disc_rooms \in Seq(X) /\ X \subseteq Int /\ Secondaries \in Seq(Y) /\ Y \subseteq Int
    BY <2>1
  <2>3. disc_rooms \in Seq(Int) /\ Secondaries \in Seq(Int)
    BY <2>2, SeqMonotonic
  <2>4. \A x : Has(disc_rooms, x) => x \in X
    BY <2>2, HasTyped
  <2>5. \A x : Has(Secondaries, x) => x \in Y
    BY <2>2, HasTyped
  <2> QED BY <2>1, <2>3, <2>4, <2>5
<1>2. \E all \in Seq(Int) : /\ all = disc_rooms \o Secondaries
         /\ \E body \in Seq(BodyLines) : /\ Yaml = Whole(body)
            /\ \E rooms \in Seq(RoomEntries), rails \in Seq(RailEntries) :
                 /\ rooms = [i \in DOMAIN disc_rooms |-> EntryOf(disc_rooms[i])]
                 /\ rails = RailsFor(Secondaries)
                 /\ \E section \in Sections :
                      ReadAll(Empty, Yaml) = Paste(section, rooms, rails, all, all)
  BY <1>1, DumpRead
<1>3. PICK all \in Seq(Int), body \in Seq(BodyLines),
           rooms \in Seq(RoomEntries), rails \in Seq(RailEntries), section \in Sections :
         /\ all = disc_rooms \o Secondaries /\ Yaml = Whole(body)
         /\ rooms = [i \in DOMAIN disc_rooms |-> EntryOf(disc_rooms[i])]
         /\ rails = RailsFor(Secondaries)
         /\ ReadAll(Empty, Yaml) = Paste(section, rooms, rails, all, all)
  BY <1>2, Zenon
<1>4. PICK config : config = Paste(section, rooms, rails, all, all)
  OBVIOUS
<1>5. Asks(config, disc_rooms, Secondaries)
  <2>1. PICK list \in Seq(49..93), others \in Seq(2..3) :
          list = disc_rooms /\ others = Secondaries
    OBVIOUS
  <2>2. /\ rooms = [i \in DOMAIN list |-> EntryOf(list[i])] /\ rails = RailsFor(others)
    BY <1>3, <2>1
  <2>3. Asks(Paste(section, rooms, rails, all, all), list, others)
    BY <2>2, PasteAsks
  <2> QED BY <1>4, <2>1, <2>3
<1>6. IsInjective(all)
  <2>1. \A x : ~(Has(disc_rooms, x) /\ Has(Secondaries, x))
    <3> SUFFICES ASSUME NEW x, Has(disc_rooms, x), Has(Secondaries, x) PROVE FALSE
      OBVIOUS
    <3>1. x \in 49..93 /\ x \in 2..3
      BY <1>1
    <3> QED BY <3>1
  <2>2. PICK s \in Seq(Int), t \in Seq(Int) : s = disc_rooms /\ t = Secondaries
    BY <1>1
  <2>3. IsInjective(s \o t)
    BY <2>1, <2>2, ConcatInjective
  <2> QED BY <1>3, <2>2, <2>3
<1>7. config.devices = all /\ config.under = all
  BY <1>4 DEF Paste
<1>8. Placed(config)
  BY <1>6, <1>7 DEF Placed
<1>9. config = ReadAll(Empty, Yaml)
  BY <1>3, <1>4
<1> QED BY <1>3, <1>5, <1>8, <1>9, Zenon

-----------------------------------------------------------------------------
(* The probe's lists.                                                      *)

LEMMA AppendFacts ==
  ASSUME NEW X, NEW s \in Seq(X), NEW x \in X
  PROVE  /\ Append(s, x) \in Seq(X) /\ \A y : Has(Append(s, x), y) <=> Has(s, y) \/ y = x
         /\ IsInjective(s) /\ ~Has(s, x) => IsInjective(Append(s, x))
<1>1. PICK n \in Nat : n = Len(s)
  BY LenProperties
<1>2. PICK t : t = Append(s, x)
  OBVIOUS
<1>3. /\ t \in Seq(X) /\ DOMAIN s = 1..n /\ DOMAIN t = 1..(n + 1)
      /\ t[n + 1] = x /\ \A i \in 1..n : t[i] = s[i]
  BY <1>1, <1>2, AppendProperties
<1>4. \A y : Has(t, y) <=> Has(s, y) \/ y = x
  BY <1>3 DEF Has
<1>5. ASSUME IsInjective(s), ~Has(s, x) PROVE IsInjective(t)
  <2>1. \A i, j \in 1..n : s[i] = s[j] => i = j
    BY <1>3, <1>5 DEF IsInjective
  <2>2. \A i \in 1..n : s[i] # x
    BY <1>3, <1>5 DEF Has
  <2>3. ASSUME NEW i \in 1..(n + 1), NEW j \in 1..(n + 1), t[i] = t[j] PROVE i = j
    <3>1. (i \in 1..n \/ i = n + 1) /\ (j \in 1..n \/ j = n + 1)
      OBVIOUS
    <3> QED BY <1>3, <2>1, <2>2, <2>3, <3>1
  <2> QED BY <1>3, <2>3 DEF IsInjective
<1> QED BY <1>2, <1>3, <1>4, <1>5

(* The indices of a controller's rooms are its own. *)
LEMMA RoomsOfFacts ==
  ASSUME NEW m \in 1..3
  PROVE  /\ RoomsOf(m) \in Seq(49..93) /\ IsInjective(RoomsOf(m)) /\ Len(RoomsOf(m)) = 15
         /\ \A x : Has(RoomsOf(m), x) => x \in 49..93
         /\ \A k \in 1..3 : \A x : Has(RoomsOf(m), x) /\ Has(RoomsOf(k), x) => k = m
<1>1. ASSUME NEW k \in 1..3
      PROVE  /\ RoomsOf(k) = [i \in 1..15 |-> 34 + 15 * k + (i - 1)]
             /\ \A i \in 1..15 : 34 + 15 * k + (i - 1) \in 49..93
  <2>1. k = 1 \/ k = 2 \/ k = 3
    OBVIOUS
  <2>2. \A i \in 1..15 : RoomBase(k) + (i - 1) = 34 + 15 * k + (i - 1)
    BY <2>1 DEF RoomBase, RoomIdxBase, SlotsPerController
  <2> QED BY <2>1, <2>2 DEF RoomsOf, SlotsPerController
<1>2. PICK X, s : X = 49..93 /\ s = RoomsOf(m)
  OBVIOUS
<1>3. s \in [1..15 -> X]
  BY <1>1, <1>2
<1>4. s \in Seq(X) /\ Len(s) = 15 /\ DOMAIN s = 1..15
  <2>1. PICK n \in Nat : n = 15
    OBVIOUS
  <2>2. PICK f \in [1..n -> X] : f = s
    BY <1>3, <2>1
  <2>3. f \in Seq(X) /\ Len(f) = n /\ DOMAIN f = 1..n
    BY FunctionIsSeq
  <2>4. RoomsOf(m) = [i \in 1..15 |-> 34 + 15 * m + (i - 1)]
    BY <1>1
  <2> QED BY <1>2, <2>4, <2>1, <2>2, <2>3
<1>5. IsInjective(s)
  <2>1. \A i \in 1..15 : s[i] = 34 + 15 * m + (i - 1)
    BY <1>1, <1>2
  <2>2. \A i, j \in 1..15 : s[i] = s[j] => i = j
    BY <2>1
  <2> QED BY <1>4, <2>2 DEF IsInjective
<1>6. ASSUME NEW k \in 1..3, NEW x
      PROVE  Has(RoomsOf(k), x) <=> \E i \in 1..15 : x = 34 + 15 * k + (i - 1)
  BY <1>1 DEF Has
<1>7. ASSUME NEW x, Has(RoomsOf(m), x) PROVE x \in 49..93
  BY <1>1, <1>6, <1>7
<1>8. ASSUME NEW k \in 1..3, NEW x, Has(RoomsOf(m), x), Has(RoomsOf(k), x) PROVE k = m
  <2>1. PICK i \in 1..15 : x = 34 + 15 * k + (i - 1)
    BY <1>6, <1>8
  <2>2. PICK j \in 1..15 : x = 34 + 15 * m + (j - 1)
    BY <1>6, <1>8
  <2> QED BY <2>1, <2>2
<1> QED BY <1>2, <1>4, <1>5, <1>7, <1>8

(* Each place is asked once: the controllers, then the rooms of those that *)
(* answered.                                                               *)
Asked ==
  /\ discovery \in Seq(1..93) /\ IsInjective(discovery)
  /\ Len(discovery) >= 3 /\ disc_idx \in 0..Len(discovery)
  /\ \A i \in 1..3 : discovery[i] = i
  /\ \A i \in 4..Len(discovery) :
       \E m \in 1..3 : Has(disc_controllers, m) /\ Has(RoomsOf(m), discovery[i])
  /\ \A m \in 1..3 : \A x :
       Has(disc_controllers, m) /\ Has(RoomsOf(m), x) => Has(discovery, x)

(* What is on a list is there and has been asked; with nothing lost, all   *)
(* that is there and has been asked is on it.                              *)
RailsFound ==
  /\ disc_controllers \in Seq(1..3) /\ IsInjective(disc_controllers)
  /\ \A m : Has(disc_controllers, m) => m \in house.rails /\ m \in 1..disc_idx
  /\ losses = 0 => \A m \in house.rails : m <= disc_idx => Has(disc_controllers, m)

RoomsFound ==
  /\ disc_rooms \in Seq(49..93) /\ IsInjective(disc_rooms)
  /\ \A r : Has(disc_rooms, r) => r \in house.rooms /\ \E i \in 1..disc_idx : discovery[i] = r
  /\ losses = 0 => \A i \in 1..disc_idx : discovery[i] \in house.rooms
                                            => Has(disc_rooms, discovery[i])

FloorsFound ==
  /\ disc_floor_rooms \in Seq(49..93)
  /\ \A r : Has(disc_floor_rooms, r) => r \in house.floors
  /\ losses = 0 => \A r \in house.floors : Has(disc_rooms, r) => Has(disc_floor_rooms, r)

Probes ==
  /\ house \in Houses /\ losses \in Nat
  /\ Asked /\ RailsFound /\ RoomsFound /\ FloorsFound

LEMMA InitProbes == Init => Probes
<1> SUFFICES ASSUME Init PROVE Probes
  OBVIOUS
<1>1. /\ house \in Houses /\ discovery = <<1, 2, 3>> /\ disc_idx = 0 /\ losses = 0
      /\ disc_controllers = <<>> /\ disc_rooms = <<>> /\ disc_floor_rooms = <<>>
  BY DEF Init
<1>2. \A x : ~Has(<<>>, x)
  BY DEF Has
<1>3. IsInjective(<<>>)
  BY DEF IsInjective
<1>4. Asked
  <2>1. PICK X : X = 1..93
    OBVIOUS
  <2>2. 1 \in X /\ 2 \in X /\ 3 \in X
    BY <2>1
  <2>3. <<1, 2, 3>> \in Seq(X) /\ Len(<<1, 2, 3>>) = 3 /\ \A i \in 1..3 : <<1, 2, 3>>[i] = i
    BY <2>2
  <2>4. discovery \in Seq(1..93) /\ Len(discovery) = 3 /\ \A i \in 1..3 : discovery[i] = i
    BY <1>1, <2>1, <2>3
  <2>5. IsInjective(discovery)
    <3>1. DOMAIN discovery = 1..3
      BY <1>1
    <3> QED BY <2>4, <3>1 DEF IsInjective
  <2>6. \A m \in 1..3 : ~Has(disc_controllers, m)
    BY <1>1, <1>2
  <2>7. disc_idx \in 0..Len(discovery) /\ 4..Len(discovery) = {}
    BY <1>1, <2>4
  <2> QED BY <2>4, <2>5, <2>6, <2>7 DEF Asked
<1>5. RailsFound
  <2>1. <<>> \in Seq(1..3)
    OBVIOUS
  <2>2. \A m \in house.rails : ~(m <= 0)
    BY <1>1, HousesAssumption
  <2> QED BY <1>1, <1>2, <1>3, <2>1, <2>2 DEF RailsFound
<1>6. RoomsFound /\ FloorsFound
  <2>1. <<>> \in Seq(49..93) /\ 1..0 = {}
    OBVIOUS
  <2> QED BY <1>1, <1>2, <1>3, <2>1 DEF RoomsFound, FloorsFound
<1> QED BY <1>1, <1>4, <1>5, <1>6 DEF Probes

(* The place the next answer is about. *)
LEMMA Place ==
  ASSUME Probes, Probing, NEW idx, idx = discovery[disc_idx + 1]
  PROVE  /\ disc_idx \in Nat /\ Len(discovery) \in Nat /\ DOMAIN discovery = 1..Len(discovery)
         /\ disc_idx + 1 \in 1..Len(discovery)
         /\ IsRoom(idx) => idx \in 49..93 /\ idx \notin house.rails
         /\ ~IsRoom(idx) => /\ idx = disc_idx + 1 /\ idx \in 1..3
                            /\ idx \notin house.rooms
         /\ \A m \in 1..3 : m = disc_idx + 1 => idx = m
         /\ \A i \in 1..disc_idx : discovery[i] # idx
<1>1. /\ discovery \in Seq(1..93) /\ IsInjective(discovery)
      /\ Len(discovery) >= 3 /\ disc_idx \in 0..Len(discovery)
      /\ \A i \in 1..3 : discovery[i] = i
      /\ \A i \in 4..Len(discovery) :
           \E m \in 1..3 : Has(disc_controllers, m) /\ Has(RoomsOf(m), discovery[i])
  BY DEF Probes, Asked
<1>2. Len(discovery) \in Nat /\ DOMAIN discovery = 1..Len(discovery)
  BY <1>1
<1>3. disc_idx \in Nat /\ disc_idx + 1 \in 1..Len(discovery)
  BY <1>1, <1>2 DEF Probing
<1>4. house.rails \subseteq 1..3 /\ \A r \in house.rooms : IsRoom(r)
  BY HousesAssumption DEF Probes
<1>5. \A m \in 1..3 : m = disc_idx + 1 => idx = m
  BY <1>1
<1>6. \A i \in 1..disc_idx : discovery[i] # idx
  <2> TAKE i \in 1..disc_idx
  <2>1. i \in DOMAIN discovery /\ disc_idx + 1 \in DOMAIN discovery /\ i # disc_idx + 1
    BY <1>2, <1>3
  <2> QED BY <1>1, <2>1 DEF IsInjective
<1>7. disc_idx + 1 \in 1..3 \/ disc_idx + 1 \in 4..Len(discovery)
  BY <1>2, <1>3
<1>8. /\ IsRoom(idx) => idx \in 49..93 /\ idx \notin house.rails
      /\ ~IsRoom(idx) => /\ idx = disc_idx + 1 /\ idx \in 1..3
                         /\ idx \notin house.rooms
  <2>1. CASE disc_idx + 1 \in 1..3
    <3>1. idx = disc_idx + 1 /\ idx \in 1..3
      BY <1>1, <2>1
    <3>2. ~IsRoom(idx)
      BY <3>1 DEF IsRoom, RoomIdxBase
    <3> QED BY <1>4, <3>1, <3>2
  <2>2. CASE disc_idx + 1 \in 4..Len(discovery)
    <3>1. PICK m \in 1..3 : Has(RoomsOf(m), idx)
      BY <1>1, <2>2
    <3>2. idx \in 49..93
      BY <3>1, RoomsOfFacts
    <3>3. IsRoom(idx)
      BY <3>2 DEF IsRoom, RoomIdxBase
    <3> QED BY <1>4, <3>2, <3>3
  <2> QED BY <1>7, <2>1, <2>2
<1> QED BY <1>2, <1>3, <1>5, <1>6, <1>8

(* A place that adds nothing to the lists: nothing is there, or its answer *)
(* was lost.                                                               *)
LEMMA Skipped ==
  ASSUME Probes, Probing, NEW idx, idx = discovery[disc_idx + 1],
         disc_idx' = disc_idx + 1, UNCHANGED <<house, discovery, found>>, losses' \in Nat,
         losses' = 0 => losses = 0 /\ idx \notin house.rooms /\ idx \notin house.rails
  PROVE  Probes'
<1>1. /\ disc_idx \in Nat /\ disc_idx + 1 \in 1..Len(discovery)
      /\ \A m \in 1..3 : m = disc_idx + 1 => idx = m
  BY Place
<1>2. UNCHANGED <<house, discovery, disc_controllers, disc_rooms, disc_floor_rooms>>
  BY DEF found
<1>3. Asked'
  <2>1. disc_idx' \in 0..Len(discovery)
    BY <1>1
  <2> QED BY <1>2, <2>1 DEF Probes, Asked
<1>4. RailsFound'
  <2>1. \A m : Has(disc_controllers, m) => m \in house.rails /\ m \in 1..disc_idx'
    BY <1>1 DEF Probes, RailsFound
  <2>2. ASSUME losses' = 0, NEW m \in house.rails, m <= disc_idx' PROVE Has(disc_controllers, m)
    <3>1. m \in 1..3
      BY HousesAssumption DEF Probes
    <3>2. m # disc_idx + 1
      BY <1>1, <2>2, <3>1
    <3>3. m <= disc_idx
      BY <1>1, <2>2, <3>1, <3>2
    <3> QED BY <2>2, <3>3 DEF Probes, RailsFound
  <2> QED BY <1>2, <2>1, <2>2 DEF Probes, RailsFound
<1>5. RoomsFound'
  <2>1. ASSUME NEW r, Has(disc_rooms, r)
        PROVE  r \in house.rooms /\ \E i \in 1..disc_idx' : discovery[i] = r
    <3>1. r \in house.rooms /\ \E i \in 1..disc_idx : discovery[i] = r
      BY <2>1 DEF Probes, RoomsFound
    <3> QED BY <1>1, <3>1
  <2>2. ASSUME losses' = 0, NEW i \in 1..disc_idx', discovery[i] \in house.rooms
        PROVE  Has(disc_rooms, discovery[i])
    <3>1. i \in 1..disc_idx
      BY <1>1, <2>2
    <3> QED BY <2>2, <3>1 DEF Probes, RoomsFound
  <2> QED BY <1>2, <2>1, <2>2 DEF Probes, RoomsFound
<1>6. FloorsFound'
  BY <1>2 DEF Probes, FloorsFound
<1> QED BY <1>2, <1>3, <1>4, <1>5, <1>6 DEF Probes

(* A controller that answers: its rooms are asked in their turn. *)
LEMMA RailAdded ==
  ASSUME Probes, Probing, NEW idx, idx = discovery[disc_idx + 1],
         ~IsRoom(idx), idx \in house.rails,
         disc_controllers' = Append(disc_controllers, idx),
         discovery' = discovery \o RoomsOf(idx), disc_idx' = disc_idx + 1,
         UNCHANGED <<house, losses, disc_rooms, disc_floor_rooms>>
  PROVE  Probes'
<1>1. /\ disc_idx \in Nat /\ Len(discovery) \in Nat /\ disc_idx + 1 \in 1..Len(discovery)
      /\ idx = disc_idx + 1 /\ idx \in 1..3 /\ idx \notin house.rooms
      /\ \A m \in 1..3 : m = disc_idx + 1 => idx = m
  BY Place
<1>2. /\ RoomsOf(idx) \in Seq(49..93) /\ IsInjective(RoomsOf(idx))
      /\ Len(RoomsOf(idx)) = 15
      /\ \A x : Has(RoomsOf(idx), x) => x \in 49..93
      /\ \A k \in 1..3 : \A x : Has(RoomsOf(idx), x) /\ Has(RoomsOf(k), x) => k = idx
  BY <1>1, RoomsOfFacts
<1>3. /\ disc_controllers \in Seq(1..3) /\ IsInjective(disc_controllers)
      /\ \A m : Has(disc_controllers, m) => m \in house.rails /\ m \in 1..disc_idx
  BY DEF Probes, RailsFound
<1>4. ~Has(disc_controllers, idx)
  BY <1>1, <1>3
<1>5. /\ disc_controllers' \in Seq(1..3) /\ IsInjective(disc_controllers')
      /\ \A y : Has(disc_controllers', y) <=> Has(disc_controllers, y) \/ y = idx
  <2>1. PICK X : X = 1..3
    OBVIOUS
  <2>2. PICK s \in Seq(X) : s = disc_controllers
    BY <1>3, <2>1
  <2>3. idx \in X
    BY <1>1, <2>1
  <2>4. /\ Append(s, idx) \in Seq(X) /\ \A y : Has(Append(s, idx), y) <=> Has(s, y) \/ y = idx
        /\ IsInjective(s) /\ ~Has(s, idx) => IsInjective(Append(s, idx))
    BY <2>3, AppendFacts
  <2> QED BY <1>3, <1>4, <2>1, <2>2, <2>4
<1>6. PICK X, n : X = 1..93 /\ n = Len(discovery)
  OBVIOUS
<1>7. PICK s, t : s = discovery /\ t = RoomsOf(idx)
  OBVIOUS
<1>8. /\ s \in Seq(X) /\ t \in Seq(X) /\ IsInjective(s) /\ IsInjective(t)
      /\ Len(s) = n /\ Len(t) = 15 /\ n \in Nat /\ n >= 3 /\ DOMAIN s = 1..n
  <2>1. PICK Y : Y = 49..93
    OBVIOUS
  <2>2. t \in Seq(Y) /\ Y \subseteq X
    BY <1>2, <1>6, <1>7, <2>1
  <2>3. t \in Seq(X)
    BY <2>2, SeqMonotonic
  <2>4. s \in Seq(X) /\ IsInjective(s) /\ n >= 3
    BY <1>6, <1>7 DEF Probes, Asked
  <2> QED BY <1>1, <1>2, <1>6, <1>7, <2>3, <2>4
<1>9. /\ \A i \in 1..3 : s[i] = i
      /\ \A i \in 4..n : \E m \in 1..3 : Has(disc_controllers, m) /\ Has(RoomsOf(m), s[i])
      /\ \A m \in 1..3 : \A x : Has(disc_controllers, m) /\ Has(RoomsOf(m), x) => Has(s, x)
  BY <1>6, <1>7 DEF Probes, Asked
<1>10. \A x : ~(Has(s, x) /\ Has(t, x))
  <2> SUFFICES ASSUME NEW x, Has(s, x), Has(t, x) PROVE FALSE
    OBVIOUS
  <2>1. PICK i \in 1..n : s[i] = x
    BY <1>8 DEF Has
  <2>2. x \in 49..93
    BY <1>2, <1>7
  <2>3. i \in 4..n
    <3>1. i \in 1..3 => x = i
      BY <1>9, <2>1
    <3> QED BY <1>8, <2>2, <3>1
  <2>4. PICK m \in 1..3 : Has(disc_controllers, m) /\ Has(RoomsOf(m), x)
    BY <1>9, <2>1, <2>3
  <2>5. m = idx
    BY <1>2, <1>7, <2>4
  <2> QED BY <1>4, <2>4, <2>5
<1>11. PICK u : u = s \o t
  OBVIOUS
<1>12. /\ u \in Seq(X) /\ IsInjective(u) /\ Len(u) = n + 15 /\ DOMAIN u = 1..(n + 15)
       /\ \A i \in 1..n : u[i] = s[i]
       /\ \A i \in (n + 1)..(n + 15) : u[i] = t[i - n] /\ i - n \in 1..15
       /\ \A x : Has(u, x) <=> Has(s, x) \/ Has(t, x)
  <2>1. IsInjective(s \o t)
    BY <1>8, <1>10, ConcatInjective
  <2>2. \A x : Has(s \o t, x) <=> Has(s, x) \/ Has(t, x)
    BY <1>8, ConcatHas
  <2>3. /\ u \in Seq(X) /\ Len(u) = n + 15 /\ DOMAIN u = 1..(n + 15)
        /\ \A i \in 1..n : u[i] = s[i]
        /\ \A i \in (n + 1)..(n + 15) : u[i] = t[i - n] /\ i - n \in 1..15
    <3>1. s \in Seq(X) /\ t \in Seq(X) /\ n \in Nat /\ n = Len(s)
      BY <1>8
    <3>2. PICK m \in Nat : m = Len(t)
      BY <3>1, LenProperties
    <3>3. /\ u \in Seq(X) /\ Len(u) = n + m /\ DOMAIN u = 1..(n + m)
          /\ \A i \in 1..n : u[i] = s[i]
          /\ \A i \in (n + 1)..(n + m) : i - n \in 1..m /\ u[i] = t[i - n]
      BY <1>11, <3>1, <3>2, ConcatParts
    <3>4. m = 15
      BY <1>8, <3>2
    <3> QED BY <3>3, <3>4
  <2> QED BY <1>11, <2>1, <2>2, <2>3
<1>13. discovery' = u
  BY <1>7, <1>11
<1>14. Asked'
  <2>1. u \in Seq(1..93) /\ Len(u) >= 3 /\ disc_idx' \in 0..Len(u)
    BY <1>1, <1>6, <1>8, <1>12
  <2>2. \A i \in 1..3 : u[i] = i
    BY <1>8, <1>9, <1>12
  <2>3. ASSUME NEW i \in 4..(n + 15)
        PROVE  \E m \in 1..3 : Has(disc_controllers', m) /\ Has(RoomsOf(m), u[i])
    <3>1. CASE i \in 4..n
      <4>1. u[i] = s[i]
        BY <1>8, <1>12, <3>1
      <4> QED BY <1>5, <1>9, <3>1, <4>1
    <3>2. CASE i \in (n + 1)..(n + 15)
      <4>1. Has(t, u[i])
        <5>1. DOMAIN t = 1..15
          BY <1>8
        <5> QED BY <1>12, <3>2, <5>1 DEF Has
      <4> QED BY <1>1, <1>5, <1>7, <4>1
    <3> QED BY <1>8, <2>3, <3>1, <3>2
  <2>4. ASSUME NEW m \in 1..3, NEW x, Has(disc_controllers', m), Has(RoomsOf(m), x)
        PROVE  Has(u, x)
    <3>1. Has(disc_controllers, m) \/ m = idx
      BY <1>5, <2>4
    <3>2. CASE Has(disc_controllers, m)
      BY <1>9, <1>12, <2>4, <3>2
    <3>3. CASE m = idx
      BY <1>7, <1>12, <2>4, <3>3
    <3> QED BY <3>1, <3>2, <3>3
  <2> QED BY <1>12, <1>13, <2>1, <2>2, <2>3, <2>4 DEF Asked
<1>15. RailsFound'
  <2>1. ASSUME NEW m, Has(disc_controllers', m)
        PROVE  m \in house.rails /\ m \in 1..disc_idx'
    <3>1. Has(disc_controllers, m) \/ m = idx
      BY <1>5, <2>1
    <3>2. CASE Has(disc_controllers, m)
      BY <1>1, <1>3, <3>2
    <3>3. CASE m = idx
      BY <1>1, <3>3
    <3> QED BY <3>1, <3>2, <3>3
  <2>2. ASSUME losses = 0, NEW m \in house.rails, m <= disc_idx'
        PROVE  Has(disc_controllers', m)
    <3>1. m \in 1..3
      BY HousesAssumption DEF Probes
    <3>2. m = idx \/ m <= disc_idx
      BY <1>1, <2>2, <3>1
    <3>3. m <= disc_idx => Has(disc_controllers, m)
      BY <2>2 DEF Probes, RailsFound
    <3> QED BY <1>5, <3>2, <3>3
  <2> QED BY <1>5, <2>1, <2>2 DEF RailsFound
<1>16. RoomsFound'
  <2>1. ASSUME NEW r, Has(disc_rooms, r)
        PROVE  r \in house.rooms /\ \E i \in 1..disc_idx' : u[i] = r
    <3>1. r \in house.rooms /\ \E i \in 1..disc_idx : s[i] = r
      BY <1>7, <2>1 DEF Probes, RoomsFound
    <3> QED BY <1>1, <1>6, <1>12, <3>1
  <2>2. ASSUME losses = 0, NEW i \in 1..disc_idx', u[i] \in house.rooms
        PROVE  Has(disc_rooms, u[i])
    <3>1. i \in 1..n /\ u[i] = s[i]
      BY <1>1, <1>6, <1>12
    <3>2. i # disc_idx + 1
      BY <1>1, <1>7, <2>2, <3>1
    <3>3. i \in 1..disc_idx
      BY <1>1, <3>2
    <3> QED BY <1>7, <2>2, <3>1, <3>3 DEF Probes, RoomsFound
  <2> QED BY <1>13, <2>1, <2>2 DEF Probes, RoomsFound
<1>17. FloorsFound'
  BY DEF Probes, FloorsFound
<1> QED BY <1>14, <1>15, <1>16, <1>17 DEF Probes

(* A room that answers, in whole or without its floor's temperature. *)
LEMMA RoomAdded ==
  ASSUME Probes, Probing, NEW idx, idx = discovery[disc_idx + 1],
         IsRoom(idx), idx \in house.rooms, NEW all \in BOOLEAN,
         disc_rooms' = Append(disc_rooms, idx),
         disc_floor_rooms' = disc_floor_rooms \o When(FloorFound(idx, all), <<idx>>),
         disc_idx' = disc_idx + 1, UNCHANGED <<house, discovery, disc_controllers>>,
         losses' \in Nat, losses' = 0 => losses = 0 /\ all
  PROVE  Probes'
<1>1. /\ disc_idx \in Nat /\ Len(discovery) \in Nat /\ disc_idx + 1 \in 1..Len(discovery)
      /\ idx \in 49..93 /\ idx \notin house.rails
      /\ \A m \in 1..3 : m = disc_idx + 1 => idx = m
      /\ \A i \in 1..disc_idx : discovery[i] # idx
  BY Place
<1>2. /\ disc_rooms \in Seq(49..93) /\ IsInjective(disc_rooms)
      /\ \A r : Has(disc_rooms, r)
                  => r \in house.rooms /\ \E i \in 1..disc_idx : discovery[i] = r
  BY DEF Probes, RoomsFound
<1>3. ~Has(disc_rooms, idx)
  BY <1>1, <1>2
<1>4. /\ disc_rooms' \in Seq(49..93) /\ IsInjective(disc_rooms')
      /\ \A y : Has(disc_rooms', y) <=> Has(disc_rooms, y) \/ y = idx
  <2>1. PICK X : X = 49..93
    OBVIOUS
  <2>2. PICK s \in Seq(X) : s = disc_rooms
    BY <1>2, <2>1
  <2>3. idx \in X
    BY <1>1, <2>1
  <2>4. /\ Append(s, idx) \in Seq(X) /\ \A y : Has(Append(s, idx), y) <=> Has(s, y) \/ y = idx
        /\ IsInjective(s) /\ ~Has(s, idx) => IsInjective(Append(s, idx))
    BY <2>3, AppendFacts
  <2> QED BY <1>2, <1>3, <2>1, <2>2, <2>4
<1>5. /\ disc_floor_rooms' \in Seq(49..93)
      /\ \A y : Has(disc_floor_rooms', y)
                  <=> Has(disc_floor_rooms, y) \/ (FloorFound(idx, all) /\ y = idx)
  <2>1. PICK X : X = 49..93
    OBVIOUS
  <2>2. PICK s \in Seq(X) : s = disc_floor_rooms
    BY <2>1 DEF Probes, FloorsFound
  <2>3. idx \in X
    BY <1>1, <2>1
  <2>4. PICK t : t = When(FloorFound(idx, all), <<idx>>)
    OBVIOUS
  <2>5. t \in Seq(X) /\ \A y : Has(t, y) <=> FloorFound(idx, all) /\ y = idx
    <3>1. CASE FloorFound(idx, all)
      <4>1. t = <<idx>>
        BY <2>4, <3>1 DEF When
      <4>2. <<idx>> \in Seq(X) /\ \A y : Has(<<idx>>, y) <=> y = idx
        BY <2>3 DEF Has
      <4> QED BY <3>1, <4>1, <4>2
    <3>2. CASE ~FloorFound(idx, all)
      <4>1. t = <<>>
        BY <2>4, <3>2 DEF When
      <4>2. <<>> \in Seq(X) /\ \A y : ~Has(<<>>, y)
        BY DEF Has
      <4> QED BY <3>2, <4>1, <4>2
    <3> QED BY <3>1, <3>2
  <2>6. s \o t \in Seq(X) /\ \A y : Has(s \o t, y) <=> Has(s, y) \/ Has(t, y)
    BY <2>5, ConcatHas, ConcatProperties
  <2> QED BY <2>1, <2>2, <2>4, <2>5, <2>6
<1>6. Asked'
  <2>1. disc_idx' \in 0..Len(discovery)
    BY <1>1
  <2> QED BY <2>1 DEF Probes, Asked
<1>7. RailsFound'
  <2>1. \A m : Has(disc_controllers, m) => m \in house.rails /\ m \in 1..disc_idx'
    BY <1>1 DEF Probes, RailsFound
  <2>2. ASSUME losses' = 0, NEW m \in house.rails, m <= disc_idx' PROVE Has(disc_controllers, m)
    <3>1. m \in 1..3
      BY HousesAssumption DEF Probes
    <3>2. m # disc_idx + 1
      BY <1>1, <2>2, <3>1
    <3>3. m <= disc_idx
      BY <1>1, <2>2, <3>1, <3>2
    <3> QED BY <2>2, <3>3 DEF Probes, RailsFound
  <2> QED BY <2>1, <2>2 DEF Probes, RailsFound
<1>8. RoomsFound'
  <2>1. ASSUME NEW r, Has(disc_rooms', r)
        PROVE  r \in house.rooms /\ \E i \in 1..disc_idx' : discovery[i] = r
    <3>1. CASE Has(disc_rooms, r)
      <4>1. r \in house.rooms /\ \E i \in 1..disc_idx : discovery[i] = r
        BY <1>2, <3>1
      <4> QED BY <1>1, <4>1
    <3>2. CASE r = idx
      <4>1. disc_idx + 1 \in 1..disc_idx'
        BY <1>1
      <4> QED BY <3>2, <4>1
    <3> QED BY <1>4, <2>1, <3>1, <3>2
  <2>2. ASSUME losses' = 0, NEW i \in 1..disc_idx', discovery[i] \in house.rooms
        PROVE  Has(disc_rooms', discovery[i])
    <3>1. CASE i = disc_idx + 1
      BY <1>4, <3>1
    <3>2. CASE i # disc_idx + 1
      <4>1. i \in 1..disc_idx
        BY <1>1, <3>2
      <4>2. Has(disc_rooms, discovery[i])
        BY <2>2, <4>1 DEF Probes, RoomsFound
      <4> QED BY <1>4, <4>2
    <3> QED BY <3>1, <3>2
  <2> QED BY <1>4, <2>1, <2>2 DEF RoomsFound
<1>9. FloorsFound'
  <2>1. ASSUME NEW r, Has(disc_floor_rooms', r) PROVE r \in house.floors
    <3>1. Has(disc_floor_rooms, r) => r \in house.floors
      BY DEF Probes, FloorsFound
    <3> QED BY <1>5, <2>1, <3>1 DEF FloorFound
  <2>2. ASSUME losses' = 0, NEW r \in house.floors, Has(disc_rooms', r)
        PROVE  Has(disc_floor_rooms', r)
    <3>1. CASE r = idx
      BY <1>5, <2>2, <3>1 DEF FloorFound
    <3>2. CASE Has(disc_rooms, r)
      <4>1. Has(disc_floor_rooms, r)
        BY <2>2, <3>2 DEF Probes, FloorsFound
      <4> QED BY <1>5, <4>1
    <3> QED BY <1>4, <2>2, <3>1, <3>2
  <2> QED BY <1>5, <2>1, <2>2 DEF FloorsFound
<1> QED BY <1>6, <1>7, <1>8, <1>9 DEF Probes

LEMMA NextProbes == Probes /\ [Next]_vars => Probes'
<1> SUFFICES ASSUME Probes, [Next]_vars PROVE Probes'
  OBVIOUS
<1>1. losses \in Nat
  BY DEF Probes
<1>2. PICK idx : idx = discovery[disc_idx + 1]
  OBVIOUS
<1>3. CASE ProbeAnswered
  <2>1. Probing /\ disc_idx' = disc_idx + 1 /\ UNCHANGED <<house, losses>>
        /\ IF IsRoom(idx) THEN ProbeRoom(idx, TRUE) ELSE ProbeController(idx)
    BY <1>2, <1>3 DEF ProbeAnswered
  <2>2. /\ IsRoom(idx) => idx \notin house.rails
        /\ ~IsRoom(idx) => idx \notin house.rooms
    BY <1>2, <2>1, Place
  <2>3. CASE IsRoom(idx) /\ idx \in house.rooms
    <3>1. PICK all \in BOOLEAN : all = TRUE
      OBVIOUS
    <3>2. /\ disc_rooms' = Append(disc_rooms, idx)
          /\ disc_floor_rooms' = disc_floor_rooms \o When(FloorFound(idx, all), <<idx>>)
          /\ UNCHANGED <<house, discovery, disc_controllers>>
      BY <2>1, <2>3, <3>1 DEF ProbeRoom
    <3>3. losses' \in Nat /\ (losses' = 0 => losses = 0 /\ all)
      BY <1>1, <2>1, <3>1
    <3> QED BY <1>2, <2>1, <2>3, <3>2, <3>3, RoomAdded
  <2>4. CASE ~IsRoom(idx) /\ idx \in house.rails
    <3>1. /\ disc_controllers' = Append(disc_controllers, idx)
          /\ discovery' = discovery \o RoomsOf(idx)
          /\ UNCHANGED <<house, losses, disc_rooms, disc_floor_rooms>>
      BY <2>1, <2>4 DEF ProbeController
    <3> QED BY <1>2, <2>1, <2>4, <3>1, RailAdded
  <2>5. CASE idx \notin house.rooms /\ idx \notin house.rails
    <3>1. UNCHANGED <<house, discovery, found>>
      BY <2>1, <2>5 DEF ProbeRoom, ProbeController, found
    <3> QED BY <1>1, <1>2, <2>1, <2>5, <3>1, Skipped
  <2> QED BY <2>2, <2>3, <2>4, <2>5
<1>4. CASE ProbeFailed
  <2>1. /\ Probing /\ disc_idx' = disc_idx + 1 /\ losses' = losses + 1 /\ UNCHANGED house
        /\ \/ UNCHANGED <<discovery, found>>
           \/ IsRoom(idx) /\ ProbeRoom(idx, FALSE)
    BY <1>2, <1>4 DEF ProbeFailed
  <2>2. losses' \in Nat /\ losses' # 0
    BY <1>1, <2>1
  <2>3. CASE UNCHANGED <<discovery, found>>
    BY <1>2, <2>1, <2>2, <2>3, Skipped
  <2>4. CASE IsRoom(idx) /\ ProbeRoom(idx, FALSE) /\ idx \in house.rooms
    <3>1. PICK all \in BOOLEAN : all = FALSE
      OBVIOUS
    <3>2. /\ disc_rooms' = Append(disc_rooms, idx)
          /\ disc_floor_rooms' = disc_floor_rooms \o When(FloorFound(idx, all), <<idx>>)
          /\ UNCHANGED <<house, discovery, disc_controllers>>
      BY <2>1, <2>4, <3>1 DEF ProbeRoom
    <3> QED BY <1>2, <2>1, <2>2, <2>4, <3>2, RoomAdded
  <2>5. CASE IsRoom(idx) /\ ProbeRoom(idx, FALSE) /\ idx \notin house.rooms
    <3>1. UNCHANGED <<discovery, found>>
      BY <2>5 DEF ProbeRoom, found
    <3> QED BY <1>2, <2>1, <2>2, <3>1, Skipped
  <2> QED BY <2>1, <2>3, <2>4, <2>5
<1>5. CASE Press \/ Drain \/ UNCHANGED vars
  <2>1. UNCHANGED <<house, discovery, disc_idx, losses,
                    disc_controllers, disc_rooms, disc_floor_rooms>>
    BY <1>5 DEF Press, Drain, vars, probing, found
  <2> QED BY <2>1 DEF Probes, Asked, RailsFound, RoomsFound, FloorsFound
<1> QED BY <1>3, <1>4, <1>5 DEF Next

-----------------------------------------------------------------------------
(* What a dump of the probe's lists says.                                  *)

ThereIn(h) == {r \in h.rooms : \E m \in h.rails : Contains(RoomsOf(m), r)}
              \cup (h.rails \ {1})

SoundIn(h, config) ==
  /\ PolledBy(config) \subseteq ThereIn(h) /\ FloorsOf(config) \subseteq h.floors
  /\ Placed(config)
WholeIn(h, config) ==
  PolledBy(config) = ThereIn(h) /\ FloorsOf(config) = ThereIn(h) \cap h.floors

IsDump(d) == \E body \in Seq(BodyLines) : d = Whole(body)
GoodDump(h, d) == IsDump(d) /\ SoundIn(h, ReadAll(Empty, d))

(* The rails a dump names, and whether a floor is named for a room. *)
LEMMA ListsNamed ==
  ASSUME Probes
  PROVE  /\ disc_rooms \in Seq(49..93) /\ IsInjective(disc_rooms)
         /\ Secondaries \in Seq(2..3) /\ IsInjective(Secondaries)
         /\ \A x : Has(Secondaries, x) <=> Has(disc_controllers, x) /\ x > 1
         /\ \A x : Contains(disc_floor_rooms, x) <=> Has(disc_floor_rooms, x)
<1>1. /\ disc_rooms \in Seq(49..93) /\ IsInjective(disc_rooms)
      /\ disc_controllers \in Seq(1..3) /\ IsInjective(disc_controllers)
      /\ disc_floor_rooms \in Seq(49..93)
  BY DEF Probes, RoomsFound, RailsFound, FloorsFound
<1>2. /\ Secondaries \in Seq(2..3) /\ IsInjective(Secondaries)
      /\ \A x : Has(Secondaries, x) <=> Has(disc_controllers, x) /\ x > 1
  BY <1>1, SecondariesAre
<1>3. \A x : Contains(disc_floor_rooms, x) <=> Has(disc_floor_rooms, x)
  <2>1. PICK X : X = 49..93
    OBVIOUS
  <2>2. disc_floor_rooms \in Seq(X)
    BY <1>1, <2>1
  <2> QED BY <2>2, HasContains
<1> QED BY <1>1, <1>2, <1>3

LEMMA RoomsOfContain ==
  ASSUME NEW m \in 1..3 PROVE \A x : Contains(RoomsOf(m), x) <=> Has(RoomsOf(m), x)
<1>1. PICK X : X = 49..93
  OBVIOUS
<1>2. RoomsOf(m) \in Seq(X)
  BY <1>1, RoomsOfFacts
<1> QED BY <1>2, HasContains

(* What is named is there. *)
LEMMA NamedIsThere ==
  ASSUME Probes
  PROVE  /\ \A x : Has(disc_rooms, x) \/ Has(Secondaries, x) => x \in ThereIn(house)
         /\ \A x : Has(disc_floor_rooms, x) => x \in house.floors
<1>1. house.rails \subseteq 1..3
  BY HousesAssumption DEF Probes
<1>2. ASSUME NEW x, Has(disc_rooms, x) PROVE x \in ThereIn(house)
  <2>1. x \in house.rooms /\ \E i \in 1..disc_idx : discovery[i] = x
    BY <1>2 DEF Probes, RoomsFound
  <2>2. PICK i \in 1..disc_idx : discovery[i] = x
    BY <2>1
  <2>3. /\ discovery \in Seq(1..93) /\ disc_idx \in 0..Len(discovery)
        /\ \A k \in 1..3 : discovery[k] = k
        /\ \A k \in 4..Len(discovery) :
             \E m \in 1..3 : Has(disc_controllers, m) /\ Has(RoomsOf(m), discovery[k])
    BY DEF Probes, Asked
  <2>4. x \in 49..93
    <3>1. PICK X : X = 49..93
      OBVIOUS
    <3>2. disc_rooms \in Seq(X)
      BY <3>1 DEF Probes, RoomsFound
    <3> QED BY <1>2, <3>1, <3>2, HasTyped
  <2>5. i \in 4..Len(discovery)
    <3>1. Len(discovery) \in Nat
      BY <2>3
    <3>2. i \notin 1..3
      BY <2>2, <2>3, <2>4
    <3> QED BY <2>3, <3>1, <3>2
  <2>6. PICK m \in 1..3 : Has(disc_controllers, m) /\ Has(RoomsOf(m), x)
    BY <2>2, <2>3, <2>5
  <2>7. m \in house.rails
    BY <2>6 DEF Probes, RailsFound
  <2>8. Contains(RoomsOf(m), x)
    BY <2>6, RoomsOfContain
  <2> QED BY <2>1, <2>7, <2>8 DEF ThereIn
<1>3. ASSUME NEW x, Has(Secondaries, x) PROVE x \in ThereIn(house)
  <2>1. Has(disc_controllers, x) /\ x > 1
    BY <1>3, ListsNamed
  <2>2. x \in house.rails /\ x # 1
    BY <1>1, <2>1 DEF Probes, RailsFound
  <2> QED BY <2>2 DEF ThereIn
<1>4. \A x : Has(disc_floor_rooms, x) => x \in house.floors
  BY DEF Probes, FloorsFound
<1> QED BY <1>2, <1>3, <1>4

(* All that is there is named, once the probe has ended with nothing lost. *)
LEMMA ThereIsNamed ==
  ASSUME Probes, ~Probing, losses = 0
  PROVE  /\ \A x \in ThereIn(house) : Has(disc_rooms, x) \/ Has(Secondaries, x)
         /\ \A x \in ThereIn(house) \cap house.floors :
              Has(disc_rooms, x) /\ Has(disc_floor_rooms, x)
         /\ \A x \in house.floors : Has(disc_rooms, x) => x \in ThereIn(house)
<1>1. house.rails \subseteq 1..3 /\ house.floors \subseteq house.rooms
      /\ \A r \in house.rooms : IsRoom(r)
  BY HousesAssumption DEF Probes
<1>2. /\ discovery \in Seq(1..93) /\ Len(discovery) >= 3 /\ disc_idx \in 0..Len(discovery)
      /\ \A m \in 1..3 : \A x :
           Has(disc_controllers, m) /\ Has(RoomsOf(m), x) => Has(discovery, x)
  BY DEF Probes, Asked
<1>3. Len(discovery) \in Nat /\ disc_idx = Len(discovery) /\ DOMAIN discovery = 1..disc_idx
  BY <1>2 DEF Probing
<1>4. ASSUME NEW m \in house.rails PROVE m \in 1..3 /\ Has(disc_controllers, m)
  <2>1. m \in 1..3 /\ m <= disc_idx
    BY <1>1, <1>2, <1>3
  <2> QED BY <2>1 DEF Probes, RailsFound
<1>5. ASSUME NEW x \in house.rooms, NEW m \in house.rails, Contains(RoomsOf(m), x)
      PROVE  Has(disc_rooms, x)
  <2>1. m \in 1..3 /\ Has(disc_controllers, m)
    BY <1>4
  <2>2. Has(RoomsOf(m), x)
    BY <1>5, <2>1, RoomsOfContain
  <2>3. PICK i \in 1..disc_idx : discovery[i] = x
    BY <1>2, <1>3, <2>1, <2>2 DEF Has
  <2> QED BY <2>3 DEF Probes, RoomsFound
<1>6. ASSUME NEW m \in house.rails, m # 1 PROVE Has(Secondaries, m)
  <2>1. m > 1 /\ Has(disc_controllers, m)
    BY <1>4, <1>6
  <2> QED BY <2>1, ListsNamed
<1>7. ASSUME NEW x \in ThereIn(house) PROVE Has(disc_rooms, x) \/ Has(Secondaries, x)
  BY <1>5, <1>6, <1>7 DEF ThereIn
<1>8. ASSUME NEW x \in ThereIn(house) \cap house.floors
      PROVE  Has(disc_rooms, x) /\ Has(disc_floor_rooms, x)
  <2>1. IsRoom(x)
    BY <1>1
  <2>2. x \notin house.rails
    <3>1. \A k \in 1..3 : ~IsRoom(k)
      BY DEF IsRoom, RoomIdxBase
    <3> QED BY <1>1, <2>1, <3>1
  <2>3. Has(disc_rooms, x)
    BY <1>5, <2>2 DEF ThereIn
  <2> QED BY <2>3 DEF Probes, FloorsFound
<1>9. \A x \in house.floors : Has(disc_rooms, x) => x \in ThereIn(house)
  BY NamedIsThere
<1> QED BY <1>7, <1>8, <1>9

LEMMA DumpGood ==
  ASSUME Probes
  PROVE  /\ GoodDump(house, Yaml)
         /\ ~Probing /\ losses = 0 => WholeIn(house, ReadAll(Empty, Yaml))
<1>1. IsDump(Yaml)
  BY ListsNamed, DumpAsks DEF IsDump
<1>2. PICK config : /\ config = ReadAll(Empty, Yaml)
                    /\ Asks(config, disc_rooms, Secondaries) /\ Placed(config)
  BY ListsNamed, DumpAsks
<1>3. /\ \A x : x \in PolledBy(config) <=> Has(disc_rooms, x) \/ Has(Secondaries, x)
      /\ \A x : x \in FloorsOf(config) <=> (Has(disc_rooms, x) /\ Has(disc_floor_rooms, x))
  BY <1>2, ListsNamed DEF Asks
<1>4. SoundIn(house, config)
  BY <1>2, <1>3, NamedIsThere DEF SoundIn
<1>5. ASSUME ~Probing, losses = 0 PROVE WholeIn(house, config)
  <2>1. \A x : x \in PolledBy(config) <=> x \in ThereIn(house)
    BY <1>3, <1>5, NamedIsThere, ThereIsNamed
  <2>2. \A x : x \in FloorsOf(config) <=> x \in ThereIn(house) \cap house.floors
    <3> TAKE x
    <3>1. x \in FloorsOf(config) => x \in house.floors /\ Has(disc_rooms, x)
      BY <1>3, NamedIsThere
    <3>2. x \in FloorsOf(config) => x \in ThereIn(house) \cap house.floors
      BY <1>5, <3>1, ThereIsNamed
    <3>3. x \in ThereIn(house) \cap house.floors => x \in FloorsOf(config)
      BY <1>3, <1>5, ThereIsNamed
    <3> QED BY <3>2, <3>3
  <2>3. PolledBy(config) = ThereIn(house)
    BY <2>1
  <2>4. FloorsOf(config) = ThereIn(house) \cap house.floors
    BY <2>2
  <2> QED BY <2>3, <2>4 DEF WholeIn
<1> QED BY <1>1, <1>2, <1>4, <1>5 DEF GoodDump

-----------------------------------------------------------------------------
(* The log.                                                                *)

(* Only the first line of a dump begins one, and only its last ends one. *)
LEMMA DumpParts ==
  ASSUME NEW d, IsDump(d)
  PROVE  /\ d \in Seq(AnyLine) /\ Len(d) \in Nat /\ Len(d) >= 2 /\ DOMAIN d = 1..Len(d)
         /\ d[1] = Begin /\ \A i \in 2..Len(d) : d[i] # Begin
         /\ d[Len(d)] = End /\ \A i \in 1..(Len(d) - 1) : d[i] # End
<1>1. PICK body \in Seq(BodyLines) : d = Whole(body)
  BY DEF IsDump
<1>2. PICK m \in Nat : m = Len(body)
  BY LenProperties
<1>3. /\ body \in Seq(AnyLine) /\ <<Begin>> \in Seq(AnyLine) /\ <<End>> \in Seq(AnyLine)
      /\ \A i \in 1..m : body[i] # Begin /\ body[i] # End
      /\ Begin # End
  <2>1. \A i \in 1..m : body[i] \in BodyLines
    BY <1>2
  <2> QED BY <2>1, BodyTyped, EndsTyped
<1>4. PICK s \in Seq(AnyLine) : s = <<Begin>>
  BY <1>3
<1>5. PICK e \in Seq(AnyLine) : e = <<End>>
  BY <1>3
<1>6. PICK one \in Nat : one = 1
  OBVIOUS
<1>7. Len(s) = one /\ s[1] = Begin /\ Len(e) = one /\ e[1] = End
  BY <1>4, <1>5, <1>6
<1>8. PICK t : t = s \o body
  OBVIOUS
<1>9. /\ t \in Seq(AnyLine) /\ Len(t) = one + m
      /\ \A i \in 1..one : t[i] = s[i]
      /\ \A i \in (one + 1)..(one + m) : i - one \in 1..m /\ t[i] = body[i - one]
  <2>1. PICK l \in Seq(AnyLine) : l = body
    BY <1>3
  <2>2. one = Len(s) /\ m = Len(l) /\ t = s \o l
    BY <1>2, <1>7, <1>8, <2>1
  <2>3. /\ t \in Seq(AnyLine) /\ Len(t) = one + m
        /\ \A i \in 1..one : t[i] = s[i]
        /\ \A i \in (one + 1)..(one + m) : i - one \in 1..m /\ t[i] = l[i - one]
    BY <2>2, ConcatParts
  <2> QED BY <2>1, <2>3
<1>10. PICK n \in Nat : n = one + m
  BY <1>6
<1>11. /\ d \in Seq(AnyLine) /\ Len(d) = n + one /\ DOMAIN d = 1..(n + one)
       /\ \A i \in 1..n : d[i] = t[i]
       /\ \A i \in (n + 1)..(n + one) : i - n \in 1..one /\ d[i] = e[i - n]
  <2>1. d = t \o e
    BY <1>1, <1>4, <1>5, <1>8 DEF Whole
  <2>2. PICK l \in Seq(AnyLine) : l = t
    BY <1>9
  <2>3. one = Len(e) /\ n = Len(l) /\ d = l \o e
    BY <1>7, <1>9, <1>10, <2>1, <2>2
  <2>4. /\ d \in Seq(AnyLine) /\ Len(d) = n + one /\ DOMAIN d = 1..(n + one)
        /\ \A i \in 1..n : d[i] = l[i]
        /\ \A i \in (n + 1)..(n + one) : i - n \in 1..one /\ d[i] = e[i - n]
    BY <2>3, ConcatParts
  <2> QED BY <2>2, <2>4
<1>12. d[1] = Begin
  BY <1>6, <1>7, <1>9, <1>10, <1>11
<1>13. d[n + 1] = End
  BY <1>6, <1>7, <1>11
<1>14. \A i \in 2..n : d[i] # Begin /\ d[i] # End
  <2> TAKE i \in 2..n
  <2>1. i \in (one + 1)..(one + m) /\ i \in 1..n
    BY <1>6, <1>10
  <2>2. d[i] = body[i - one] /\ i - one \in 1..m
    BY <1>9, <1>11, <2>1
  <2> QED BY <1>3, <2>2
<1>15. Len(d) = n + 1 /\ n + 1 >= 2
  BY <1>6, <1>10, <1>11
<1>16. \A i \in 2..(n + 1) : d[i] # Begin
  <2> TAKE i \in 2..(n + 1)
  <2>1. i \in 2..n \/ i = n + 1
    OBVIOUS
  <2> QED BY <1>3, <1>13, <1>14, <2>1
<1>17. \A i \in 1..n : d[i] # End
  <2> TAKE i \in 1..n
  <2>1. i \in 2..n \/ i = 1
    OBVIOUS
  <2> QED BY <1>3, <1>12, <1>14, <2>1
<1>18. DOMAIN d = 1..Len(d)
  BY <1>11
<1>19. (n + 1) - 1 = n
  OBVIOUS
<1>20. Len(d) \in Nat /\ Len(d) >= 2
  BY <1>15
<1>21. \A i \in 2..Len(d) : d[i] # Begin
  BY <1>15, <1>16
<1>22. d[Len(d)] = End
  BY <1>13, <1>15
<1>23. \A i \in 1..(Len(d) - 1) : d[i] # End
  BY <1>15, <1>17, <1>19
<1> QED BY <1>11, <1>12, <1>18, <1>20, <1>21, <1>22, <1>23

LEMMA PartOf ==
  ASSUME NEW X, NEW d \in Seq(X), NEW k \in 1..(Len(d) + 1), NEW n \in (k - 1)..Len(d)
  PROVE  /\ SubSeq(d, k, n) \in Seq(X) /\ Len(SubSeq(d, k, n)) = n - k + 1
         /\ \A i \in 1..(n - k + 1) : SubSeq(d, k, n)[i] = d[k + i - 1]
BY SubSeqProperties

(* The lines of one loop() begin the log anew, or continue it. *)
LEMMA FirstLines ==
  ASSUME NEW s \in Seq(AnyLine), NEW n \in Nat, n = Len(s), n > 0, s[1] = Begin
  PROVE  Logged(s) = s
<1>1. PICK I : I = {i \in 1..Len(s) : s[i] = Begin}
  OBVIOUS
<1>2. 1 \in I /\ I \subseteq 1..n
  BY <1>1
<1>3. Min(I) = 1
  <2>1. \A y \in I : 1 <= y
    BY <1>2
  <2>2. \A x \in I : (\A y \in I : x <= y) => x = 1
    BY <1>2
  <2> QED BY <1>2, <2>1, <2>2 DEF Min
<1>4. SelectInSeq(s, LAMBDA l : l = Begin) = 1
  BY <1>1, <1>2, <1>3 DEF SelectInSeq
<1>5. Contains(s, Begin)
  BY DEF Contains
<1>6. SubSeq(s, 1, Len(s)) = s
  BY SubSeqFull
<1> QED BY <1>4, <1>5, <1>6 DEF Logged

LEMMA NextLines ==
  ASSUME NEW s, ~Contains(s, Begin) PROVE Logged(s) = log \o s
BY DEF Logged

LEMMA Joins ==
  ASSUME NEW X, NEW d \in Seq(X), NEW k \in Nat, NEW b \in Nat, k + b <= Len(d)
  PROVE  SubSeq(d, 1, k) \o SubSeq(d, k + 1, k + b) = SubSeq(d, 1, k + b)
<1>1. PICK n \in Nat : n = k + b
  OBVIOUS
<1>2. PICK s, t : s = SubSeq(d, 1, k) /\ t = SubSeq(d, k + 1, n)
  OBVIOUS
<1>3. /\ s \in Seq(X) /\ Len(s) = k /\ \A i \in 1..k : s[i] = d[i]
  <2>1. 1 \in 1..(Len(d) + 1) /\ k \in (1 - 1)..Len(d) /\ k - 1 + 1 = k
    OBVIOUS
  <2>2. \A i \in 1..k : 1 + i - 1 = i
    OBVIOUS
  <2>3. /\ SubSeq(d, 1, k) \in Seq(X) /\ Len(SubSeq(d, 1, k)) = k - 1 + 1
        /\ \A i \in 1..(k - 1 + 1) : SubSeq(d, 1, k)[i] = d[1 + i - 1]
    BY <2>1, PartOf
  <2> QED BY <1>2, <2>1, <2>2, <2>3
<1>4. /\ t \in Seq(X) /\ Len(t) = b /\ \A i \in 1..b : t[i] = d[k + i]
  <2>1. PICK m \in 1..(Len(d) + 1) : m = k + 1
    OBVIOUS
  <2>2. n \in (m - 1)..Len(d) /\ n - m + 1 = b
    BY <1>1, <2>1
  <2>3. \A i \in 1..b : m + i - 1 = k + i
    BY <2>1
  <2>4. /\ SubSeq(d, m, n) \in Seq(X) /\ Len(SubSeq(d, m, n)) = n - m + 1
        /\ \A i \in 1..(n - m + 1) : SubSeq(d, m, n)[i] = d[m + i - 1]
    BY <2>2, PartOf
  <2> QED BY <1>2, <2>1, <2>2, <2>3, <2>4
<1>5. PICK u : u = s \o t
  OBVIOUS
<1>6. /\ u \in Seq(X) /\ Len(u) = k + b
      /\ \A i \in 1..k : u[i] = s[i]
      /\ \A i \in (k + 1)..(k + b) : i - k \in 1..b /\ u[i] = t[i - k]
  <2>1. s \in Seq(X) /\ t \in Seq(X) /\ k = Len(s) /\ b = Len(t)
    BY <1>3, <1>4
  <2> QED BY <1>5, <2>1, ConcatParts
<1>7. PICK v : v = SubSeq(d, 1, n)
  OBVIOUS
<1>8. /\ v \in Seq(X) /\ Len(v) = n /\ \A i \in 1..n : v[i] = d[i]
  <2>1. 1 \in 1..(Len(d) + 1) /\ n \in (1 - 1)..Len(d) /\ n - 1 + 1 = n
    BY <1>1
  <2>2. \A i \in 1..n : 1 + i - 1 = i
    OBVIOUS
  <2>3. /\ SubSeq(d, 1, n) \in Seq(X) /\ Len(SubSeq(d, 1, n)) = n - 1 + 1
        /\ \A i \in 1..(n - 1 + 1) : SubSeq(d, 1, n)[i] = d[1 + i - 1]
    BY <2>1, PartOf
  <2> QED BY <1>7, <2>1, <2>2, <2>3
<1>9. \A i \in 1..n : u[i] = v[i]
  <2> TAKE i \in 1..n
  <2>1. CASE i \in 1..k
    BY <1>3, <1>6, <1>8, <2>1
  <2>2. CASE i \in (k + 1)..(k + b)
    <3>1. u[i] = t[i - k] /\ i - k \in 1..b
      BY <1>6, <2>2
    <3>2. t[i - k] = d[k + (i - k)] /\ k + (i - k) = i
      BY <1>4, <2>2, <3>1
    <3> QED BY <1>8, <3>1, <3>2
  <2> QED BY <1>1, <2>1, <2>2
<1>10. u = v
  <2>1. Len(u) = Len(v) /\ \A i \in 1..Len(u) : u[i] = v[i]
    BY <1>1, <1>6, <1>8, <1>9
  <2> QED BY <1>6, <1>8, <2>1, SeqEqual
<1> QED BY <1>1, <1>2, <1>5, <1>7, <1>10

(* What is logged of a dump is its beginning. *)
LEMMA LoggedIs ==
  ASSUME NEW d, IsDump(d), NEW k \in Nat, NEW b \in Nat, b > 0, k + b <= Len(d),
         k > 0 => log = SubSeq(d, 1, k)
  PROVE  Logged(SubSeq(d, k + 1, k + b)) = SubSeq(d, 1, k + b)
<1>1. /\ d \in Seq(AnyLine) /\ Len(d) \in Nat /\ DOMAIN d = 1..Len(d)
      /\ d[1] = Begin /\ \A i \in 2..Len(d) : d[i] # Begin
  BY DumpParts
<1>2. PICK m, n, s : m = k + 1 /\ n = k + b /\ s = SubSeq(d, m, n)
  OBVIOUS
<1>3. m \in 1..(Len(d) + 1) /\ n \in (m - 1)..Len(d) /\ n - m + 1 = b
  BY <1>1, <1>2
<1>4. /\ s \in Seq(AnyLine) /\ Len(s) = b /\ \A i \in 1..b : s[i] = d[m + i - 1]
  BY <1>1, <1>2, <1>3, PartOf
<1>5. CASE k = 0
  <2>1. m = 1 /\ n = b
    BY <1>2, <1>5
  <2>2. s[1] = d[1]
    BY <1>4, <2>1
  <2>3. Logged(s) = s
    BY <1>1, <1>4, <2>2, FirstLines
  <2> QED BY <1>2, <2>1, <2>3
<1>6. CASE k > 0
  <2>1. ~Contains(s, Begin)
    <3>1. \A i \in 1..b : m + i - 1 \in 2..Len(d)
      BY <1>1, <1>2, <1>6
    <3> QED BY <1>1, <1>4, <3>1 DEF Contains
  <2>2. Logged(s) = log \o s
    BY <2>1, NextLines
  <2>3. SubSeq(d, 1, k) \o SubSeq(d, k + 1, k + b) = SubSeq(d, 1, k + b)
    BY <1>1, Joins
  <2> QED BY <1>2, <1>6, <2>2, <2>3
<1> QED BY <1>5, <1>6

(* What has been logged since the last first line is the beginning of a    *)
(* dump; the lines of the dump being logged up to now, while one is; and a *)
(* dump pressed for when the probe had ended with nothing lost is whole.   *)
Beginning(h, l) == \E d : GoodDump(h, d) /\ \E k \in 1..Len(d) : l = SubSeq(d, 1, k)
Logs ==
  /\ yaml_pending = <<>> => yaml_idx = 0
  /\ yaml_pending # <<>> => /\ GoodDump(house, yaml_pending)
                            /\ yaml_idx \in Nat /\ yaml_idx < Len(yaml_pending)
  /\ log # <<>> => Beginning(house, log)
  /\ yaml_idx > 0 => log = SubSeq(yaml_pending, 1, yaml_idx)
  /\ atPress => IF yaml_pending # <<>> THEN WholeIn(house, ReadAll(Empty, yaml_pending))
                ELSE log # <<>> /\ WholeIn(house, ReadAll(Empty, log))

DiscoverInv == Probes /\ Logs

LEMMA PressLogs == ASSUME DiscoverInv, Press PROVE Logs'
<1>1. PICK d : d = Yaml
  OBVIOUS
<1>2. /\ GoodDump(house, d)
      /\ ~Probing /\ losses = 0 => WholeIn(house, ReadAll(Empty, d))
  BY <1>1, DumpGood DEF DiscoverInv
<1>3. d # <<>> /\ 0 < Len(d)
  <2>1. IsDump(d)
    BY <1>2 DEF GoodDump
  <2>2. Len(d) >= 2 /\ Len(d) \in Nat
    BY <2>1, DumpParts
  <2>3. Len(<<>>) = 0
    OBVIOUS
  <2> QED BY <2>2, <2>3
<1>4. /\ yaml_pending' = d /\ yaml_idx' = 0 /\ house' = house /\ log' = log
      /\ atPress' = (~Probing /\ losses = 0)
  BY <1>1 DEF Press, FromStart
<1>5. log # <<>> => Beginning(house, log)
  BY DEF DiscoverInv, Logs
<1>6. yaml_pending' = <<>> => yaml_idx' = 0
  BY <1>4
<1>7. yaml_pending' # <<>> => /\ GoodDump(house', yaml_pending')
                              /\ yaml_idx' \in Nat /\ yaml_idx' < Len(yaml_pending')
  BY <1>2, <1>3, <1>4
<1>8. ~(yaml_idx' > 0)
  BY <1>4
<1>9. log' # <<>> => Beginning(house', log')
  BY <1>4, <1>5
<1>10. yaml_pending' # <<>>
  BY <1>3, <1>4
<1>11. atPress' => WholeIn(house', ReadAll(Empty, yaml_pending'))
  BY <1>2, <1>4, Zenon
<1> QED BY <1>6, <1>7, <1>8, <1>9, <1>10, <1>11 DEF Logs

LEMMA DrainLogs == ASSUME DiscoverInv, Drain PROVE Logs'
<1>1. PICK d, k, b : d = yaml_pending /\ k = yaml_idx /\ b = Batch
  OBVIOUS
<1>2. d # <<>>
  <2>1. ASSUME d = <<>> PROVE FALSE
    <3>1. k = 0 /\ Len(d) = 0
      BY <1>1, <2>1 DEF DiscoverInv, Logs
    <3> QED BY <1>1, <3>1 DEF Drain, Batch, Least, LinesPerLoop
  <2> QED BY <2>1
<1>3. GoodDump(house, d) /\ k \in Nat /\ k < Len(d) /\ (k > 0 => log = SubSeq(d, 1, k))
  BY <1>1, <1>2 DEF DiscoverInv, Logs
<1>4. IsDump(d) /\ d \in Seq(AnyLine) /\ Len(d) \in Nat
  BY <1>3, DumpParts DEF GoodDump
<1>5. b \in Nat /\ b > 0 /\ k + b <= Len(d)
  BY <1>1, <1>3, <1>4 DEF Drain, Batch, Least, LinesPerLoop
<1>6. PICK n \in 1..Len(d) : n = k + b
  BY <1>3, <1>4, <1>5
<1>7. /\ house' = house /\ atPress' = atPress
      /\ log' = SubSeq(d, 1, n)
      /\ IF n < Len(d) THEN yaml_idx' = n /\ yaml_pending' = d
                       ELSE yaml_idx' = 0 /\ yaml_pending' = <<>>
  <2>1. Logged(SubSeq(d, k + 1, k + b)) = SubSeq(d, 1, k + b)
    BY <1>3, <1>4, <1>5, LoggedIs
  <2> QED BY <1>1, <1>6, <2>1 DEF Drain
<1>8. Beginning(house, log')
  BY <1>3, <1>6, <1>7 DEF Beginning
<1>9. atPress => WholeIn(house, ReadAll(Empty, d))
  BY <1>1, <1>2 DEF DiscoverInv, Logs
<1>10. CASE n < Len(d)
  BY <1>2, <1>3, <1>6, <1>7, <1>8, <1>9, <1>10 DEF Logs
<1>11. CASE ~(n < Len(d))
  <2>1. n = Len(d)
    BY <1>4, <1>6, <1>11
  <2>2. SubSeq(d, 1, Len(d)) = d
    BY <1>4, SubSeqFull
  <2>3. log' = d
    BY <1>7, <2>1, <2>2
  <2>4. yaml_idx' = 0 /\ yaml_pending' = <<>> /\ ~(yaml_idx' > 0)
    BY <1>7, <1>11
  <2>5. Beginning(house', log')
    BY <1>7, <1>8
  <2>6. log' # <<>>
    BY <1>2, <2>3
  <2>7. atPress' => WholeIn(house', ReadAll(Empty, log'))
    BY <1>7, <1>9, <2>3, Zenon
  <2> QED BY <2>4, <2>5, <2>6, <2>7 DEF Logs
<1> QED BY <1>10, <1>11

LEMMA DiscoverInvInductive ==
  /\ Init => DiscoverInv
  /\ DiscoverInv /\ [Next]_vars => DiscoverInv'
<1>1. Init => DiscoverInv
  <2>1. Init => Logs
    BY DEF Init, Logs
  <2> QED BY <2>1, InitProbes DEF DiscoverInv
<1>2. ASSUME DiscoverInv, [Next]_vars PROVE Logs'
  <2>1. CASE Press
    BY <1>2, <2>1, PressLogs
  <2>2. CASE Drain
    BY <1>2, <2>2, DrainLogs
  <2>3. CASE ProbeAnswered \/ ProbeFailed \/ UNCHANGED vars
    <3>1. UNCHANGED <<house, yaml_pending, yaml_idx, log, atPress>>
      BY <2>3 DEF ProbeAnswered, ProbeFailed, vars, printing
    <3> QED BY <1>2, <3>1 DEF DiscoverInv, Logs
  <2> QED BY <1>2, <2>1, <2>2, <2>3 DEF Next
<1> QED BY <1>1, <1>2, NextProbes DEF DiscoverInv

(* The probe's lists hold only what answered, each once, and with nothing  *)
(* lost all of it; the log is the beginning of one dump of such lists,     *)
(* however presses and the lines of each loop() interleave.                *)
THEOREM ProbeAndLogInvariant == Spec => []DiscoverInv
BY DiscoverInvInductive, PTL DEF Spec

(* What has been logged, once its last line is a dump's last, is a dump. *)
LEMMA EndedWhole == ASSUME DiscoverInv, Ended PROVE GoodDump(house, log)
<1>1. log # <<>> /\ Last(log) = End
  BY DEF Ended
<1>2. PICK d : GoodDump(house, d) /\ \E k \in 1..Len(d) : log = SubSeq(d, 1, k)
  BY <1>1 DEF DiscoverInv, Logs, Beginning
<1>3. PICK k \in 1..Len(d) : log = SubSeq(d, 1, k)
  BY <1>2
<1>4. /\ d \in Seq(AnyLine) /\ Len(d) \in Nat
      /\ \A i \in 1..(Len(d) - 1) : d[i] # End
  BY <1>2, DumpParts DEF GoodDump
<1>5. Last(log) = d[k]
  <2>1. 1 \in 1..(Len(d) + 1) /\ k \in (1 - 1)..Len(d) /\ k - 1 + 1 = k /\ 1 + k - 1 = k
    BY <1>4
  <2>2. /\ Len(SubSeq(d, 1, k)) = k - 1 + 1
        /\ \A i \in 1..(k - 1 + 1) : SubSeq(d, 1, k)[i] = d[1 + i - 1]
    BY <1>4, <2>1, PartOf
  <2>3. Len(log) = k /\ log[k] = d[k]
    BY <1>3, <2>1, <2>2
  <2> QED BY <2>3 DEF Last
<1>6. k = Len(d)
  BY <1>1, <1>4, <1>5
<1>7. SubSeq(d, 1, Len(d)) = d
  BY <1>4, SubSeqFull
<1> QED BY <1>2, <1>3, <1>6, <1>7

LEMMA PastedIs == Pasted = ReadAll(Empty, log) /\ There = ThereIn(house)
BY DEF Pasted, ReadAll, Empty, Paste, There, ThereIn

(* What is pasted from a log that ended polls only what is in the house,   *)
(* expects floors only where one is fitted, and puts each entry under a    *)
(* sub-device declared once (print_yaml, log_discovery_).                  *)
THEOREM DumpsPasteSound == Spec => []PasteSound
<1>1. DiscoverInv => PasteSound
  <2> SUFFICES ASSUME DiscoverInv, Ended PROVE PasteSound
    BY DEF PasteSound
  <2>1. PICK config : config = Pasted
    OBVIOUS
  <2>2. SoundIn(house, config)
    BY <2>1, EndedWhole, PastedIs DEF GoodDump
  <2>3. /\ PolledBy(config) \subseteq There /\ FloorsOf(config) \subseteq house.floors
        /\ IsInjective(config.devices) /\ ToSet(config.devices) = ToSet(config.under)
    BY <2>2, PastedIs DEF SoundIn, Placed
  <2> QED BY <2>1, <2>3 DEF PasteSound
<1> QED BY <1>1, ProbeAndLogInvariant, PTL

(* Pressed when the probe had ended with nothing lost, what is pasted      *)
(* leaves nothing out.                                                     *)
THEOREM DumpsPasteComplete == Spec => []PasteComplete
<1>1. DiscoverInv => PasteComplete
  <2> SUFFICES ASSUME DiscoverInv, yaml_pending = <<>>, atPress PROVE PasteComplete
    BY DEF PasteComplete
  <2>1. PICK config : config = Pasted
    OBVIOUS
  <2>2. WholeIn(house, config)
    BY <2>1, PastedIs DEF DiscoverInv, Logs
  <2>3. /\ PolledBy(config) = There
        /\ FloorsOf(config) = There \cap house.floors
    BY <2>2, PastedIs DEF WholeIn
  <2> QED BY <2>1, <2>3 DEF PasteComplete
<1> QED BY <1>1, ProbeAndLogInvariant, PTL
=============================================================================
