# Verification of the Danfoss Icon integration

This directory holds TLA+ models of the ESPHome component
`src/esphome/components/danfoss_icon`, the TLC configurations that check them on
small instances, and proofs checked by TLAPS. File names below are relative to
that component; `PROJECT.json` maps every definition to the lines it models.

The component impersonates the App Module of a Danfoss Icon floor-heating
controller on an RS-485 link. It polls the rooms, shows them to Home Assistant,
and writes what Home Assistant asks for. Three things make it hard:

* A reply carries neither an index nor an attribute. The only thing that ties a
  reply to a request is that one is outstanding at a time, and a single late
  reply would shift every later one.
* The controller has no "off". OFF is a room whose Home setpoint is parked at its
  lower bound, and what it was before must survive stale polls, presets, edits at
  the thermostat and restarts.
* Everything the entities know is old. A poll may have been read before a write
  that is already queued, a write is shown before it is sent, and a write that is
  lost is not tried again.

## Inventory

| Component | State | Operations | Meets | Correct when |
| --- | --- | --- | --- | --- |
| Transaction engine (`danfoss_icon.cpp` `loop`, `handle_frame_`, `maybe_send_next_`, `send_*`, `finish_transaction_`) | `state_`, `in_flight_`, `tx_time_ms_`, `resync_quiet_until_ms_`, `write_queue_`, `poll_idx_`, `last_ms` | send the next write, probe or due poll; accept, discard, time out | entities through `queue_write` and `on_attr`, the UART | replies are paired with their own request; a hold ends; a write waits for no poll; every item is polled |
| Link tracking (`update_link_`) | `got_reply_`, `last_reply_ms_`, last published | publish edges | engine | "connected" means a reply that recent |
| Discovery (`build_discovery_`, `expand_discovery_for_controller_`, `log_discovery_`, `record_discovery_`) | `discovery_`, `disc_idx_`, `disc_active_`, inventory | probe controllers, then the rooms of those found | engine, `dump_config`, `print_yaml` | ends; lists what is there, once, and all of it when nothing is lost |
| Poll list (`add_room`, `add_*_attr`, `build_poll_list_`) | registrations, `poll_list_` | built once, at the first `loop()` | entities, code generation | everything an entity reads is polled, once, in a request and a reply that fit |
| Byte pump and codec (`pump_rx_`, `protocol.h`) | `rx_buf_` | append, scan, hand over, resync | engine | frames are handled once, in order, however bytes are cut; noise is outlived |
| Climate entity (`climate.cpp`) | mode, preset, target, three setpoints, saved target, bounds, last publication | `control`, `set_off`, `set_heat`, `set_preset_mode`, `on_attr`, `setup` | engine, flash, Home Assistant, select | OFF/HEAT/Home do what they say; Away and Sleep are never frozen; what is shown agrees with itself |
| All Rooms Mode (`select.cpp`) | last published option | `control`, `loop` | climate entities | reaches all rooms; shows what they are in |
| Number (`number.cpp`) | shown value | `control`, `on_attr` | engine, Home Assistant | a value set is confirmed or corrected |
| Sensors, text sensors, Problem (`sensor.cpp`, `text_sensor.cpp`, `status.h`) | last published value, output groups | `on_attr` | engine | ends up showing the truth; alarm and fault text agree |
| `print_yaml` and its button | `yaml_pending_`, `yaml_idx_` | format, drain five lines per loop | discovery lists, the log | what is pasted polls what is there |
| Code generation (`*.py`) | - | entities, registrations, room index, defaults, at build time | all entities | what it creates is fed; its index undoes `print_yaml`'s |

Interaction is by direct calls in one ESPHome main loop: there are no threads.
The interleavings that matter are between `loop()` and the rest of the world:
the UART fills behind its back, the clock advances between its reads of
`millis()`, Home Assistant calls `control()` between two loops, people edit rooms
at their thermostats, and commands or replies are lost or late.

The hazards this leads to are listed in `PROJECT.json`, each at its line with the
properties that cover it, or the reason none does.

## Modules

| Module | Models | Notes |
| --- | --- | --- |
| `Hub` | the engine, link, discovery, controller and link | the core |
| `HubLockstep` | the invariant behind `ReplyMatched` and its two assumptions | extends `Hub` |
| `HubTiming` | `Hub` beside stop-watches that do not wrap | history variables only |
| `HubTimingInv` | the invariants behind the bounds of `HubTiming` and behind `PollsStayFresh`, and their assumption | extends `HubTiming`, `HubBus` |
| `Bus` | what the engine promises: a bus that holds one request or one reply | abstract, no clock |
| `HubBus` | the refinement mapping from `Hub` to `Bus` | extends `HubLockstep` |
| `HubInvariants` | the invariants behind `InventorySound`, `InventoryComplete` and `ResetsDoNotPile` | extends `HubBus` |
| `HubNoise` | `Hub` on a link that cuts replies short, and the invariant behind `MispairBounded` | extends `HubLockstep` |
| `HubProofs` | TLAPS proofs: lockstep and refinement, the lists, the bounds of the timing | extends `HubTimingInv`, `HubInvariants`, `HubNoise` |
| `PollPlan` | code generation, registrations, `build_poll_list_` | operators |
| `PollPlanProofs` | what those make of a configuration, by its members | lemmas, extends `PollPlan`, `DataLemmas` |
| `Readouts` | the entities' `on_attr` over the poll list | extends `PollPlan` |
| `ReadoutsProofs` | TLAPS proofs | extends `Readouts`, `PollPlanProofs` |
| `DiscoverConfig` | `log_discovery_`, `print_yaml`, its button and the drain | extends `PollPlan` |
| `DiscoverProofs` | TLAPS proofs | extends `DiscoverConfig`, `PollPlanProofs` |
| `ClimateEntity` | the methods of `DanfossIconClimate` as operators on a record | no variables |
| `Climate` | one entity, its share of the queue, the room, the flash | extends `ClimateEntity` |
| `ClimateFixed` | the invariant behind the safety of `Climate`, and its assumptions | extends `Climate` |
| `ClimateProofs` | TLAPS proofs | extends `ClimateFixed` |
| `ModeSelect` | the select over N entities, the shared queue, the rooms | extends `ClimateEntity` |
| `SelectInv` | the invariant behind the select, and its assumptions | extends `ModeSelect` |
| `ModeSelectProofs` | TLAPS proofs | extends `SelectInv`, `DataLemmas` |
| `FrameScan` | `scan_frame` and the frame layout | operators |
| `RxPump` | `pump_rx_`, and the invariant behind it | extends `FrameScan` |
| `RxPumpProofs` | TLAPS proofs | extends `RxPump`, `DataLemmas` |
| `DataLemmas` | induction, `FlattenSeq` and `FoldLeft` for the proofs | lemmas |
| `MC*` | values of the constants | one per checked module |

Operators commented `mutant:` are wrong versions of the definition that follows
them. No specification uses them. They record, for every property, a plausible
bug of the code that the property catches: put in the place of the definition,
TLC finds the property violated under the run's own configuration.

### Hub

`loop()` is cut at its reads of the clock. `phase` is the position in it:

| `phase` | Code | Actions |
| --- | --- | --- |
| `drain` | first loop of `pump_rx_` | `DrainUart` |
| `frames` | second loop, `handle_frame_` | `DiscardReply`, `AcceptReply`, `FramesDone` |
| `timeout` | `loop` 121-127 | `Expire`, `NotExpired` |
| `link` | `update_link_` | `UpdateLink` |
| `send` | `maybe_send_next_` | `SkipSend`, `SendWrite`, `SendProbe`, `SendPoll`, `NothingDue` |

The environment is `Tick` (time, between any two of these), `HaWrite`
(`queue_write` between two loops), `StartSchedule` (somebody starts a room's
weekly schedule), `Answer` and `Lose`. `ttl` on a command is the most time its
reply may still take; `lag` the time since the last drain; `MaxLatency` and
`MaxLoop` bound them. `Since` and `Later` are the two forms of arithmetic the
code uses, modulo `ClockMod`; comparisons of absolute values are left as the code
has them, which is where the wrap matters. A command's `current` flag is a history
variable: it turns false when the hub sends another request after it, and
`ReplyMatched` says a reply being accepted has it true.

Abstracted: replies are whole (see `HubNoise` and `RxPump`), a payload is one bit (a probed slot
is there; a polled room runs the schedule), non-0x0D frames and log output are left
out. `PollList` is a constant, since it is built before the first transaction.
Probing "3 controllers of 15 rooms" is `NControllers` and `SlotsPerController`.

### Bus, HubBus, HubNoise

`Bus` says what the entities may rely on, with no clock, timeout, hold or buffer in it: one
place holds a request, or the reply to it, or nothing; a request starts only on
an empty place, the oldest write before any read; it ends with its own reply or is
given up, and what comes after that is dropped. `HubBus` maps the hub to it: `in_flight_` is the
request, `write_queue_` the queue, and the wire, the UART and `rx_buf_`
together are the place. `ImplementsBus` is `Bus`'s whole specification. `Climate`, `ModeSelect`
and `Readouts` are written over a bus of this kind.

`HubNoise` adds `CutShort`: the end of a reply does not arrive. What is left is a `stub` at the front of
`rx_buf_`, whose header promises more bytes than came. The replies that follow stand behind it
until they make up the number (`need` of them, at most `MaxNeed`); then the checksum
fails, the scan moves on, and all of them come out in one pass (`Release`).
One stub stands at a time, and it is cut from a reply with nothing else in the buffer.

### PollPlan, Readouts, DiscoverConfig

`PollPlan` is a chain of operators: a configuration gives the entities `to_code()`
creates, in its order; these and the code generation give the registrations
`setup()` makes; these give the poll list of `build_poll_list_`. Attributes are named, sizes are
the bytes of `attr_value_size`.

`Readouts` polls that list. The controller holds a value per attribute (`world`); for the error code, a
set of faults, which `RoomCode` and `RailCode` turn into bits as the comments of
`text_sensor.cpp` and `status.h` describe. A reply is cut up along its item and every slice is
given to every entity. `Publish` keeps the last value where the code returns
early. An answer may be refused or end after any of `Cuts` values, a request may be lost, and
readings change at any time. Numbers are set as `control()` does, shown at once. The climate
entity appears with what `Climate` leaves out.

`DiscoverConfig` takes the probe reduced to its answers (its timing is `Hub`'s) and keeps the
three lists `print_yaml` reads. A line of the dump is a key and a value; `Pasted` is the
configuration the logged lines make, with the defaults of the schema, and
`PolledBy` puts it through `PollPlan`, so that the index computed in C++ and undone in
Python meets itself.

### ClimateEntity, Climate, ModeSelect

A method is an operator from the entity's fields to its next ones, with what it
queues in `out`, so `Control` composes preset, mode and target as `control()` does.
Temperatures are hundredths of a degree; the 0.05 of `at_frost_` is 5. `NaN` is a
model value, and `NanRaw` what converting it yields in the build.

In `Climate` and `ModeSelect` the bus is what `Hub` shows it to be: one operation at a
time, writes first and in order, each reply with its own request, and a timeout
(`TimeOut`) that forgets the request, whether or not the controller obeyed it.
An operation has two stages so that a value is read at one moment (`Serve`) and delivered at a
later one (`Deliver`), and any call may come between. `OnFastPoll` dispatches the attributes in
the order the generated code registers them.

`wish` is a history variable: what the last call asked for, until an edit at the
thermostat, a loss, a refusal or a restart with writes outstanding overrules it.
With `OnlyInformed` TRUE a call counts as a wish only if the entity is right about what
the handlers of this call rely on (`Informed`): the bounds; the preset, where none is written because
the entity believes to be in it already; and, for the preset Home alone, that a parked room shows as
parked, with a value to restore. "Right" is said of what the room will be when all that is queued has been carried
out (`Ends`), so calls may pile up, meet a write or a poll in flight, and be made before the first
poll. Every other call is still made and its effects checked by the other properties.

`ModeSelect` starts as `setup()` leaves the entities: no setpoint read, in the flash a restore value or none
(`SavedAtBoot`), rooms parked or not; and it may restart at any time. Until an entity is polled, an off one cannot show a
preset: `apply_active_setpoint_` returns at a NaN (`climate.cpp:65`) and leaves the mode. `Unready` names the
three cases in which an entity goes on showing off after a choice, and `LoopAgrees` says that `loop()` agrees with
`control()` exactly in the absence of these. A poll is one step of these modules; the states between two of its attributes are not seen.

### FrameScan, RxPump

`Verdict` classifies a position as `scan_frame`'s tests do, in their order, and `Scan`
takes the first position that is not junk. The two CRC bytes are one, and `Crc`
is injective on the bodies of the instance, so a false CRC match, which the real
code accepts once in 65536, does not happen. The pump's reference `Parse` is one
pass over the whole stream with no buffer.

## Runs

Each run ends within two minutes with two workers.

| Run | Shows | States |
| --- | --- | --- |
| `hub_lockstep` | no reply is paired with another request; inventory sound; the inductive invariant, on an instance with late, lost and refused answers | 2.6 M |
| `hub_timing` | staleness of the link sensor, length of holds, waits of writes and polls, against true stop-watches | 4.8 M |
| `hub_live` | discovery ends complete, writes drain, a schedule is always reset, with a clock that wraps for ever | 348 k |
| `climate` | eight properties of an entity and its room, with the bounds fixed; calls that pile up on an entity that lags | 2.1 M |
| `select` | from boot on: choices reach all rooms; when the select agrees with `loop()` at once and when not; it ends showing the rooms | 847 k |
| `rx` | every string of up to four frames and noises, in every chunking | 293 k |
| `hub_noise` | with replies cut short: each cut costs at most one reading, and the pairing is right again | 4 M |
| `readouts` | from 514 configurations to poll lists that feed every entity once; two of them polled until every entity shows the truth | 129 k |
| `discover` | probe, button and drain in every order: what is logged pastes into a configuration of what is there | 0.3 M |
| `wrap_hold` | violation: a hold that outlasts the wrap of `millis()` | |
| `climate_home_stale` | violation: OFF, an old poll, Home: the room stays off | |
| `hub_partial` | violation: a reply held back by a cut one is accepted for another request | |

### Bounds and why they are enough

* `hub_lockstep`: `ReplyTimeout` 2, `MaxLatency` 3, `MaxLoop` 1: the latency is exactly
  the most `LatencyAssumption` allows, so answers come before the timeout, inside
  the hold, and just at its end. Ten ticks hold two timeouts with their holds.
  A poll item with the control mode lets the heal happen; one controller with one
  room lets the probe expand; one write from Home Assistant. Every slot of the probe's
  grid is present in this run, so that what is listed is also there cannot fail here: `InventoryIsPresent` and
  `InventoryIsSound` (`HubProofs`) show it for any set of present slots.
* `hub_noise`: two cuts, so that a second may fall into what the first has disturbed, and stubs of up
  to three replies; nothing else is lost, and a timeout of 1 makes every request behind a stub time out.
* `hub_timing`: `ReplyTimeout` 1, 20 ticks, every answer may be lost. Two items of the
  shortest interval, the first too long for `build_read`, so the round robin
  matters. The clock (64) does not wrap. `HoldTime` and `TimeoutTime` count the passes of `loop()` that may
  miss the end of a hold or of a timeout, at most two each; with passes of one tick the first looks the same as
  one pass, so they are proved as well (`HubProofs`).
* `hub_live`: `ClockMod` 8 with no horizon, so the clock wraps for ever, while
  `ReplyTimeout` 3 exceeds the latency and nothing is lost, so no hold is ever
  started: what the wrap does to holds is `wrap_hold`. Two rails, one absent
  room and a room under an absent controller. On a short clock a `last_ms` that
  happens to be 0 makes an item due at once, as in the code.
* `climate`: two calls, one edit at the thermostat, one loss and one restart, in any
  order, over all presets and two heating setpoints: enough for the shortest
  known interferences (call, stale poll, call) with one disturbance more. The two calls may both be queued
  when the first write leaves.
* `select`: two rooms, unpolled at first, with nothing saved, Home parked or not in each; two choices, one lost operation, one
  edit or restart. Away is above the floor here; with `AwayTemps = {500, 2000}` and one room `EveryRoomObeys`
  and `LoopAgrees` hold as well, and the proofs are for both.
* `readouts`: every set of a room's seven toggles with and without a floor, beside a room with
  none at the other end of another controller, with the controllers' entities on and off. Polled: a
  floor room (regulation by floor or air, outputs, bounds) and a house with faults of room and
  rail. Two readings change, one number is set, one request fails: a change that
  passes a reading under way, with one thing going wrong.
* `discover`: five houses of up to three rails, rooms at both ends of their fifteen, a rail
  missing between two, a room whose rail is missing; three presses, so that one may be
  pressed during the dump of another that came too early; two answers lost or short.
* `rx`: up to four pieces of nine kinds: frames with no payload, with a payload that looks
  like a sync byte or like a header, and noise that is a lone byte, a lone sync, a header cut short,
  a corrupted frame, or a length out of range.

### Fairness

`hub_live`: weak fairness of `LoopStep` (ESPHome calls `loop()` for ever), of `Tick`
(time passes) and of `AnswerAny` (the controller answers). `Lossy` is FALSE there:
with unlimited loss nothing can be promised. `climate` and `select`: weak fairness
of sending a queued write, of the controller serving an operation, and of an
operation ending, by delivery or by timeout (that is the reply timeout); strong
fairness of polling, because the queue may fill and empty between two polls, and
the round robin (`PollsStayFresh`) gives each item its turn once writes stop. `readouts` is fair in the
same way: a queued write is sent, a request ends (`Ends`), and every item is polled again and
again (strongly, `PollsStayFresh`). `discover` has weak fairness of `Drain` alone: `loop()` goes on.
The environment's calls, edits, losses and restarts have no fairness and are bounded.

## What the counterexamples show

Each violation run states what a comment or document of the repository says.

* `wrap_hold`. `millis() < resync_quiet_until_ms_` compares absolute times. When the
  deadline lies below the wrap and the next loop after it, the hub is silent for
  another 49.7 days. The reply timeout and the poll intervals subtract and are right.
* `climate_home_stale`. A poll in flight when OFF was called overwrites the
  optimistic park, and Home does not un-park.
* `hub_partial`. A timeout does not empty `rx_buf_`. The header of a cut reply holds the next reply back
  past the hold, which is there so that it be dropped, and releases it into a later request.
  `hub_noise` shows the damage is one reading: what is released together meets one
  request, and the rest is dropped.

More configurations, kept beside the runs, show what the assumptions are for. Each
ends in a violation when run by hand:

| Configuration | Module | Property | Shows |
| --- | --- | --- | --- |
| `hub_late_reply` | `MCHub` | `ReplyMatched` | an answer later than two timeouts is paired with the next request |
| `wrap_match` | `MCHub` | `ReplyMatched` | a deadline computed as exactly 0, or past the wrap, is no hold |
| `wrap_link` | `MCHubTiming` | `ConnectedIsRecent` | after a full turn of the clock in silence the link reads connected |
| `any_reply` | `MCHubTiming` | `AnyReplyKeepsLink` | "any received 0x0D" does not keep the link up: only accepted replies do |
| `rx_stall` | `MCRxPump` | `NoneWaiting` | "skips leading junk up to the last partial sync" (`protocol.h:248`): the scan stops at the first position that might begin a frame, and a complete frame behind it waits |
| `select_optimistic` | `ModeSelect` | `LoopWillAgree` | "so loop() will agree" (`select.cpp:26`): before the first poll, Off and then Home with nothing saved leaves the entity OFF, and the select goes to Off; so does Off and then Away or Sleep, saved or not, and with `AwayTemps = {500, 2000}` a room whose Away setpoint is at its lower bound |
| `readouts_two_faults` | `MCReadouts` | `Settles` | an output error together with any other fault of the rail also reads "Expansion board missing": the test for bit 0 (`text_sensor.cpp:122`) keeps them apart only one at a time |
| `climate_heat_unpolled` | `MCClimate` | `WritesInRange` | HEAT before the first poll with nothing saved: `at_frost_(NAN)` is false, and the conversion of NaN is written |
| `climate_raised_min` | `MCClimate` | `LastCallWins` | a lower bound raised above the saved value: HEAT is clamped to the bound, which is off |
| `climate_moved_min` | `MCClimate` | `SavedIsChosen` | a bound lowered under a parked room makes the park a heating setpoint |

`climate_home_stale` is a call that the last conjunct of `Informed` leaves out. Two more, which its second leaves out, are `climate_home_stale.cfg` with other values: with `Calls <- AwayAndOff`, Away, a poll read before it
that turns the entity back to Home, then OFF: no mode is written and the room stays in Away; with `Calls <- JustOff`
and `Polled = FALSE`, OFF before the first poll, when the room is not in Home.

`protocol.h:248` also says that on a bad CRC `consumed` is start plus length; line 282
consumes one byte past the sync, which is what `Resynchronises` needs: the mutant
that drops the bad frame whole violates it.

## Proofs

`HubProofs` has three sections. The first proves, for all values of the constants:

* `TypeCorrect`: `Spec => []TypeOK`;
* `LockstepInvariant`: `Spec => []LockstepInv`;
* `RepliesMatched`: `Spec => []ReplyMatched`.

Assumptions: those of `Hub` on the constants (`TimesAssumption` and the like), and
two of `HubLockstep`. `LatencyAssumption` says an answer is drained within two reply
timeouts of its command: one before the hub gives up and one of hold. `NoWrapAssumption`
says `millis()` does not wrap in the behaviour. Both are necessary: `hub_late_reply`
and `wrap_match` are the counterexamples without them.

`ReplyMatched` is not inductive: it says nothing of a reply still in the UART or not yet sent.
`LockstepInv` has two parts. `WireInv` speaks of the wire and the UART, whatever `rx_buf` holds:

* `OneOnWire`, `WireCurrent`: at most one command or reply is there, none while `rx_buf` holds one, and it
  answers the last request sent;
* `CommandAge`, `ReplyAge`: how late it may be: a command with `ttl` left was sent at most
  `MaxLatency - ttl` ago, and a reply not drained at the last pass came during this one;
* `HoldCoversReply`: if the hub is idle while it exists, that is, gave up on it, the hold reaches
  past `tx_time + 2 * ReplyTimeout`, so by `LatencyAssumption` past its arrival;
* `FramesHandled`: nothing is left in `rx_buf` outside its phase;
* `ClockInOrder`: timestamps lie where they should.

`RxInStep` says the same of `rx_buf`: one reply at most, and current. It needs whole replies; `WireInv` does not, and is
used again where replies are cut short.

The heart is the sending step. To send, the hub must be idle and the hold over. If
something were outstanding, `HoldCoversReply` would put the clock past
`tx_time + 2 * ReplyTimeout`, while `CommandAge` and `ReplyAge` keep it within
`tx_time + MaxLatency + MaxLoop`: a contradiction. So nothing is outstanding, and the
new command is the only one. Each action has a lemma that it preserves the invariant;
the theorems combine them with PTL.

From the same assumptions, of the refinement:

* `HubImplementsBus`: `Spec => ImplementsBus`;
* `InventoryIsPresent`: `Spec => []InventoryPresent`.

The refinement needs an invariant because the mapping looks at three channels as one place. Under
`LockstepInv` at most one of them holds (`OneOutstanding`) anything, so draining the UART moves nothing in the abstract
bus (a stutter), and `Answer` replaces the abstract request by its reply. Under
`WireCurrent` and `HoldCoversReply` a send finds the place empty, which `Bus` asks for. `InFlightWaits`
(`state_` and `in_flight_` change together) turns the code's test of the state into the
abstract one. Each action has a lemma that says which action of `Bus`, or a stutter, it is.
`InventoryPresent` is then proved of `Bus` alone: a reply in the one place says the truth about the request
that is waited for, so only slots that are there are listed; and what holds of every
behaviour of the bus holds of the hub's.

Its second section adds what holds of the engine's lists:

* `InventoryIsSound`: `Spec => []InventorySound`. `handle_discovery_reply_` extends the list that `disc_idx_`
  walks. `InventoryInv` says why nothing is listed twice or too early: no slot is probed twice, what was found
  was probed, the probe in flight is the last one sent and its slot is not in the inventory yet, and rooms are
  probed only under a controller found. The hard step is a controller found: its fifteen rooms are new to the list,
  because a room already there would mean that the controller had been found before. That what is listed is
  there comes from `InventoryIsPresent`.
* `DiscoveryIsComplete`: `Spec => []InventoryComplete`, under `NothingFails`: nothing is lost or refused, and
  `MaxLatency + MaxLoop` is within `ReplyTimeout`. Then a hub that waits has its reply coming (`StillComing`) and never
  gives up on it. `CompleteInv` follows the walk of the list: what was probed and is there has been found, every
  controller stands in the list, and the answer of a controller puts its rooms there; the walk ends only at the end of
  the list. The lossy case is `InventorySound`'s: a probe that is lost is not tried again, so nothing more can be promised.
* `ResetsNeverPile`: `Spec => []ResetsDoNotPile`. Only the reply to a poll queues a reset, and
  `maybe_send_next_` sends a poll only when the queue is empty; so `ResetInv` says that while a poll is in flight no
  reset waits. `StepEffects` sums up what any step can do to the lists and the request in flight.
* `MispairingIsBounded`: `NSpec => []MispairBounded`, of `HubNoise`, from `NoiseInvariant`. `ReplyMatched` is false there: replies held
  back by a stub come out together and out of date. `WireInv` still holds, because such replies stand in `rx_buf`, and nothing is
  sent while they do: `StubWaits` says that the stub gives way only with a reply that has just come, so nothing else is on its way.
  `CutsPay` is the account: a cut pays for the stub, the stub for the wrong reply at the head of `rx_buf_` that
  is about to meet a request, and that for one misread reading; the replies behind it meet an idle hub.

Its third section proves the bounds of `HubTiming`, with the times as they are in the constants:

* `LinkIsRecent` (`ConnectedIsRecent`) and `LinkEdgesAreHonest` (`LinkEdgesHonest`);
* `HoldsEnd` (`HoldBounded`): a hold lasts at most `2 * (ReplyTimeout + MaxLoop - 1)`;
* `WritesArePrompt` (`WritePrompt`): the head of `write_queue_` waits at most `TimeoutTime + HoldTime`.

Assumptions: those of the lockstep, and `CapAssumption`, that the stop-watch of silence runs past the timeout it
is compared with. `TimingInv` says what each stop-watch reads in terms of the hub's timestamps. `loop()`
looks at the reply timeout, at the link and at the hold once a pass, each in its own phase; what it saw last is as old as the
time since the drain, or that and the whole pass before (`SinceLook`). `HeldShort` is why a hold that late
replies restart still ends: while a reply is on its way the hold has been started once, so it has a whole `ReplyTimeout`
in reserve; when the reply comes and restarts it, `OneOutstanding` says no other is on its way. A request in flight has
no hold behind it (`NoHoldWaiting`), so what a write waits for is one request, its hold and one pass (`WriteAge`).
The last pass of a hold may begin just before its deadline and the next drain may last a pass too: a bound with one pass instead of two
is false as soon as a pass may take three ticks, which the instance of the run does not show.

`PollsAreFresh`: `Spec => []PollsStayFresh`, of the hub itself, without the stop-watches. Time is counted in turns, one
for each request that leaves. `TurnAge` bounds the time since the last turn from the hub's own timestamps: the age of the
request in flight, how far the hold has run, or, with neither, the age of the pass that ends it (`PassAge`). `TurnsTaken(i)` counts the turns that can no longer come before item `i`: the items behind it
in the round that starts at `poll_idx`, their resets, the probes sent, the writes of Home Assistant that have left.
`FreshInv` says that a due item is at most `interval + TurnAge + TurnTime * TurnsTaken(i)` old. A send moves `TurnAge`
to zero, which `TurnAgeBound` says saves at most `TurnTime`, and raises `TurnsTaken(i)` by one at least for every
item that is due (`TurnsKeep`, `TurnsPoll`: the scan starts behind the item sent last and skips only what is not due or cannot be built). The writes need an account of their own:
`WritesAccounted` says that more wait than Home Assistant asked for only by the reset of the item sent last, either in flight or queued;
without it the resets of a schedule that runs on could push a poll back for ever. `TurnsTaken(i) + 1` is at most
one round (`TurnsTakenIs`), whence the bound.

`ClimateProofs` proves of one entity and its room, for every set of setpoints and calls and any number of
edits, losses and reboots: `EntityTyped` (`TypeOK`), `StaysInStep` (`PublishedInStep`), `ModeAgreesWithTarget`
(`ModeMatchesTarget`), `OnlyHomeIsParked` (`AwaySleepNeverParked`), `RestoreIsChosen` (`SavedIsChosen`) and
`QueuedInRange` (`WritesInRange`).

Assumptions, in `ClimateFixed`: nobody moves the bounds (`FixedAssumption`); the setpoints chosen, those in the
flash and those of the calls included, lie above the frost band and within the bounds (`FixedAssumption`,
`CallsAssumption`); `NaN`, `None` and the attribute name "mode" are not taken for something else
(`NamesAssumption`). The first two are necessary: `climate_moved_min` is the counterexample with bounds that
move, `climate_heat_unpolled` the one with nothing saved.

The argument has two layers. `Sound` is kept by every method of the class: `Ready`, that mode and target agree and the
mirror shows the last target published, holds after every statement group of a handler, while `InStep`, that the
publication is up to date, holds only after `publish_if_changed_()`, with which every path that
moves mode, preset or target ends (`PublishSettles`; `ApplyReady` has the one exception, a NaN setpoint, after which
nothing has moved). `ClimateInv` adds what is in transit: a queued or sent write of the Away or Sleep setpoint carries a
chosen value, because `set_off` writes after `ResetToHome`; and so the room, the values polled from it at
any earlier time, the entity and the flash hold only chosen values, or the lower bound in Home.

`CallsAreGranted` is `LastCallWins`, with `OnlyInformed` TRUE: `WishInv` says, of the preset and of each setpoint that the last
call decides, that the last write of it still queued or sent carries what was wished, or, if none is, that the room already has it.
A call queues behind every older write and the queue is worked off in order, so nothing older overtakes it; polls move the
entity and never the queue. What a call queues is decided by what the entity shows, so the hard step is the call itself (`WishCall`): with other
writes still on their way, the writes of the call are joined behind them (`LeavesConcat`), and for each attribute
either the call writes it last (`LeavesLast`) or what comes before it decides, which is where `Informed` is used
(`ModeEnds`, `PresetHeats`). Nothing is asked of Away and Sleep: whatever is written there heats (`LeavesAll`). Without `Informed`
a stale poll may have turned the entity away from its room, and `climate_home_stale` is the counterexample.

`ModeSelectProofs` proves, for any number of rooms, choices, edits, losses and restarts, from boot on, `RoomsObey` (`EveryRoomObeys`) and
`ChoiceAgreesWithLoop` (`LoopAgrees`). The one assumption, in `SelectInv`, is `NamesAssumption`, as above. `Known` says what an entity may know at
any time: if it is off, or has read the setpoint of any preset, it knows Home's, because `SetOff` sets it and a poll brings all three; with that each choice
either shows or is one of the cases of `Unready` (`LoopAgrees`). While a choice stands, `ChoiceInv` says that all writes that wait lead to
it (`OnlyTheChoice`), and that whatever a room lacks of it is among them (`EachWillBe`). `control()` calls the entities one after
the other and the shared queue is their outputs joined, so the proof needs what `FlattenSeq` of N sequences holds
(`FlattenContents`).

`RxPumpProofs` proves of the pump, for every stream of frames and noise, every chunking and all sizes with
`FrameMax - 1 + Chunk <= RxCap` (`PumpAssumption`; the code has 128, what one drain finds in the UART, and 512):

* `ChunksDoNotMatter` (`ChunkingIrrelevant`): what was handled is what one pass over all the bytes read finds;
* `BufferStaysSmall` (`BufferBounded`): less than a frame stays between two pumps, so the cut at 512 bytes takes nothing;
* `FramesInOrder` (`HandledInOrder`) and `PumpResynchronises` (`Resynchronises`), as long as `NoForgery`: no noise, alone or
  with the frames around it, happens to read as a frame. That is what a 16-bit CRC cannot exclude, and nothing else is assumed of the
  noise: it may hold syncs, headers and halves of frames.

`PumpInv` says that `rx_buf` is a piece of the stream from which nothing was cut (`BufferIsStream`), that the scan rests only
before a frame that may yet become complete (`RestsAtPartial`), and that what was handled, followed by the parse of any longer
stream from there on, is the parse of the whole (`ParsedSoFar`). It rests on two facts of `scan_frame`: a verdict depends only on the bytes
of the frame it looks at, wherever they stand (`VerdictOfPiece`), and every verdict but "partial" stands when more
bytes come (`VerdictStands`). With `NoForgery` the parse walks from piece to piece (`Walk`): through each frame that is there
(`ThroughFrame`), over the noise (`OverNoise`), and it stops only before a frame not yet complete or at a byte of the noise that
may begin one (`StopsIn`), which waits for less than the longest frame (`PartialIsShort`).

`ReadoutsProofs` proves of every configuration the schema lets through (`ConfigsAssumption`: any number of rooms and secondary
controllers, numbered within the ranges of `ROOM_SCHEMA` and `SECONDARY_SCHEMA`, with any toggles, the same slot twice included), of all
readings, faults and settings, and for all bounds:

* `EntitiesFed` (`EveryEntityFed`) and `AttributesReadOnce` (`ReadOnce`): what `build_poll_list_` makes of the registrations;
* `AlarmsExplained` (`AlarmExplained`) and `TemperaturesAgree` (`HistoryInStep`): what the replies make of the entities.

The first two are about folds over sequences nobody bounds. `PollPlanProofs` describes each stage by its members: the entities are those of
`InHouse` (`EntitiesHold`), the registrations those of `InRegs` (`RegistrationsHold`), the items those of `IsItem` (`PollItemsFacts`);
`FirstSeen`, on which all of `build_poll_list_` rests, keeps the members and repeats none (`FirstSeenFacts`). An item is injective,
its attributes are among the 8 ever registered fast or the 15 ever read slow (`RegNames`), so it has at most 15 (`LengthWithin`), and
a reply at most 7 bytes for each (`SizesBound`). That no output group is ever registered fast is why the three come in one reply.

For the other two a reply is one slice after the other (`SlicesInTurn`), and each slice keeps two entities that show the same
in step (`InStep`: `SameTemperature`, `SameAlarm`). An alarm and its text need one thing of the controller: an error code
with a rail's fault in it has bit 0 or bit 1 (`Honest`), which is true of every `RailCode`, so it is carried from the answer through
a reply cut anywhere to its last slice (`InFlight`). `DeliverWrite` shows no error code, because no entity writes one
(`Written`).

`DiscoverProofs` proves `DumpsPasteSound` (`PasteSound`) and `DumpsPasteComplete` (`PasteComplete`) for every house of `HousesAssumption`
(a first controller, at most three, floors only in rooms, rooms numbered from 0x31 on), any number of presses and of answers lost.
Neither is inductive; `DiscoverInv` (`ProbeAndLogInvariant`) joins two invariants:

* `Probes`, of the lists `log_discovery_` fills. Each place is asked once: the list of probes has no repetition although an
  answer extends it, because a room stands in it only under a controller that answered, and a controller's rooms are its own
  (`RoomsOfFacts`). So no list names anything twice, each names only what is there and has been asked, and with nothing lost
  all of that (`RailAdded`, `RoomAdded`, `Skipped`).
* `Logs`, of the dump. The log is the beginning of one good dump; while lines are left, it is the first `yaml_idx_` of the dump
  being logged; a new press starts over at 0, and the first line it logs starts the log over. Only the last line of a dump
  is `End` (`DumpParts`), so a log that ends with one is a whole dump (`EndedWhole`).

Between the two stands what a dump says. It is read back by a fold over its lines: `ReadAll` of lines joined is one reading after the
other (`ReadConcat`), so each part of `print_yaml` has a lemma (`DevicesPartRead`, `RoomsPartRead`, `RailsPartRead`) and the
whole reads back into the entries and sub-devices it was made of (`DumpRead`). An index split into controller and number
comes together again (`SplitIndex`, `EntryIs`). The configuration pasted is one the schema lets through (`ListsConfigured`), so
`PollPlanProofs` says what it registers: the rooms and rails named and nothing else (`PolledAre`).

The library's induction theorems cannot be used by the provers, but the well-foundedness of `<` on `Nat` can: `DataLemmas` derives
induction over a set from it (`SetInduction`), and with that takes `FlattenSeq` (`FlattenToNext`, `FlattenContents`) and `FoldLeft` (`FoldExists`) apart; `RxPumpProofs` does the same
for the recursive function of `ParseFrom`.

TLC checks these inductive invariants too, on the instances of the runs: put `InFlightWaits InventoryInv ResetInv` in
the place of the INVARIANTS of `hub_lockstep.cfg` (which has `LockstepInv` itself), `CompleteInv` there with `Lossy = FALSE`,
`Statuses = {"ok"}` and `MaxLatency = 1`, `TimingInv FreshInv` in `hub_timing.cfg`, `NoiseInv` in `hub_noise.cfg`, `ClimateInv WishInv` in `climate.cfg`,
`ChoiceInv` in `select.cfg` (through `SelectInv`), `PumpInv NoForgery` in `rx.cfg`, `InStep` in `readouts.cfg`, and leave the PROPERTIES out.
`DiscoverInv` quantifies over every dump; TLC checks it on the instance of `discover` with its unbounded quantifiers replaced: those
of `Probes` by the members of the lists, "the beginning of a dump" by its first line, its last, and neither in between.

Every invariant and safety property of a passing run is a theorem. Only model-checked: liveness (`hub_live`, `Converges`,
`ShowsTheRooms`, `Settles`, `DumpEnds`), which is out of the prover's reach.

## Not modelled

* The publication `set_limit_` makes on its own; a setpoint that reads 0x8000, which
  `on_preset_setpoint_` ignores.
* Entities written by hand with the `sensor`, `text_sensor` and `number` platforms: they may name any index and
  attribute. `DeliverPoll` stops at an attribute of unknown size as the code does, and `EveryEntityFed`
  shows that no generated entity names one.
* Names, ids, units and validation of the configuration; texts of log lines and of fault names.
* Writes `build_write` refuses: no entity writes a value that long.
* Bounds that move while an entity is parked: `Climate` can move them (`Bounds` with
  two members), and the properties that then fail are in the table above. `climate` keeps them fixed.
* Several cut replies in `rx_buf_` at once, and a stub longer than the replies behind it by a part of
  one: the bytes themselves are `RxPump`'s.

## Plan

Done: `Hub` with its timing, lockstep, liveness, abstract bus and cut replies; the climate entity, select and pump;
poll list, readouts and number; discovered configuration. Proved: lockstep, the refinement, the inventory and the resets, the
bounds of the timing, the freshness of the polls, the safety of the climate entity and what it grants, the select, the pump, the poll list, the entities in step, and the discovered configuration.

Next: hand-written entities in `PollPlan`, and the number beside `Climate`, with bounds that move.
