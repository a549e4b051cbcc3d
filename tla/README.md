# Stairway controller: specification and verification

The controller (Raspberry Pi Pico W, one bare-metal main loop) counts the people
on a staircase with four distance sensors, lights a WS2812 strip while somebody is
there, and is configured over USB and over a web page it serves on its own access
point. These TLA+ modules model its behaviour; TLC checks them on small instances,
and TLAPS proves the most important results for every value of the constants.

File names without a directory below are those of `src/` and its subdirectories.

## The system

Everything runs in `main()` (`main.c`), one iteration after the other. The only
real concurrency is the UART interrupt; lwIP's callbacks run inside `net_poll()`.
A flash write stops interrupts, and what the UART receives meanwhile is lost; it holds
the loop up for tens of milliseconds, as does switching the access point. A watchdog of
one second restarts a loop that hangs. The log (`INFO`) goes to the same USB terminal as
the command line.

| component | state | operations | what is hard |
|---|---|---|---|
| main loop: detectors, counting, animations (`main.c` 162-411) | two detector automata with time stamps, `people_count`, last detector, four animations with counter and event time | read sensors, lock / count / abandon a passage, daylight block, off timeout, start and step animations | interleaved and restarted animations, `led_count` changing under them, faulty sensors, debounce against gaps, timeout against passages |
| emergency lights (`main.c` 327-359) | since when FIRST is active, when SECOND_LOCK was last seen, on/off per landing | confirm, block, switch off | two readings of the clock in one iteration, unsigned differences, frozen detectors |
| LED strip (`stairway_leds.c`, `ws2812.c`) | per LED state, event time and brightness; buffer; length of the strip | set state, emergency zones, fade, resize, refresh | events that meet on one LED, settings that change while fading, refreshes that are skipped |
| sensor polling and Modbus master (`stairway_sensors.c`, `modbus_master.c`) | receive buffer, open request, error flag per device | send, interrupt, decode, timeout, poll in turn | lost, late and stray bytes, the interrupt in the middle of a send, a flash write in the middle of an answer, a full buffer |
| settings store (`settings.c`) | active settings in RAM, one flash page | boot, apply, default, access point state, write in steps | failing flash operations, loss of power between two steps |
| settings page (`http_server/settings.c`) | - | send as JSON, parse and apply | escapes, secrets that are never sent, malformed requests |
| access point, button, reboot (`main.c` 122-162, `network.c`, `commands.c`) | button debounce, wanted and actual state, time of a reboot | poll, press, follow, reboot | debounce, requests that outlive their connection |
| web server (`http_server.c`, `content.c`) | per connection: request so far, response sent so far, idle polls | accept, recv, sent, poll, err | ownership of the state across callbacks, pieces and limits, stalled clients, access point switched off |
| DHCP server (`dhcpserver.c`) | lease table | DISCOVER, REQUEST | wrapping clock, reuse of expired leases |
| light sensor (`light_sensor.c`) | filtered value, trigger | sample, filter, compare | integer division, moving thresholds |
| DNS server (`dnsserver.c`) | - | answer a query | labels that end behind the message, the answer written there |
| command line (`embedded_cli.h`, `cli.c`, `commands.c`) | line, cursor, history buffer, screen | every key, completion, history, arguments of a command | one length kept twice, a cursor counted from the end, buffers at their limits, a screen that is only patched and shared with the log |
| button GPIO (`button.c`) | - | - | not modelled, see below |

Interactions: the sensors' answers feed the detectors, the count starts animations,
animations and emergency lights set what the strip fades to. CLI, button and web
page change the settings, which every other part reads through one pointer at any
iteration; the main loop makes the access point follow `ap_state`; the web server
calls the settings, test mode and `reboot_request`.

## Modules

| module | models | state and actions |
|---|---|---|
| `Stairway` | main loop, detectors, count, animations, LED states | `pc` is the phase of an iteration: `sense`, one phase per detector, `count`, `timeout`, `lights`, `refresh`. `ts` is the clock read at the start, `now` every later `get_time_ms()`. `Request` is what CLI and web page may change before an iteration. |
| `Walkers` | people (external) in front of `Stairway`'s sensors | a stage per doorway; `inside` is the real number of people |
| `EmergencyLights` | emergency lights, run in the phases of `Stairway` | differences of the clock are unsigned, as in C |
| `LedStrip`, `LightSensor`, `Peripherals` | fading, zones, resize, refresh; filter and trigger; both under changing settings | a refresh is one action, as nothing runs in between |
| `ModbusMaster` | Modbus master, sensor polling, devices (external) | the three steps of a send are separate, as the interrupt may come in between. `Serve` and `Rest` are what the loop does around the routine, in no time or in up to `LoopMs`; in `HeldUp` it is held up for longer, and bytes are lost: one stays in the UART, those behind it are gone. `lost` is history: the open request's answer is one of those hit. `Watchdog` restarts a hung loop |
| `SensorReadings` | the use of the answers in the main loop, on top of `ModbusMaster` | a reading lasts until the next answer of its device; `answers` and `delayed` are history: how many measurements in a row said the same, and whether the loop was held up since the first of them was asked for |
| `SettingsStore` | settings in RAM and flash | comparing, erasing, programming and verifying are steps; `Crash` may come between any two |
| `DurableSettings` | what a settings store promises | abstract specification, implemented by `SettingsStore` |
| `SettingsPage` | the settings as JSON, on top of `SettingsStore` | one setting per treatment: number, string, secret, in the order in which they hide one another |
| `AccessPoint`, `HttpServer`, `Network` | button, reboot, access point; web server; both together with lwIP (external) | `Network` lets lwIP call back only in `net_poll` with the access point on. `Save` is every setting that is not about the access point: its page holds `ap_state` as well |
| `DhcpServer` | lease table and its clock | `granted`, `left` are history: the lease as its client sees it |
| `DnsServer` | the handler of a DNS query | the last query and what was answered; bytes that were never written are `Junk` |
| `LineEditor` | what is received on USB, key by key | `cmdBuffer` with its size kept twice, cursor, history and the row of the screen; one action per received character, as the main loop hands over one per iteration, and `Log` for a message anywhere else. `torn` is history: something was logged since the last line was entered |
| `Tokens`, `CommandHistory`, `Commands`, `Terminal` | what `LineEditor` is built from | strings ended by zero bytes in one buffer and the tokenizer; the history buffer; from a line to the value a handler applies; ANSI sequences on one row (external) |
| `EditedLine` | what a command line promises | abstract specification, implemented by `LineEditor` |
| `*Proofs` | theorems | see below |
| `MC*` | instances for TLC: finite constants and views | |

`EmergencyLights` and `Walkers` extend `Stairway`, so they constrain or observe the very
actions of the main loop instead of a copy of them. Operators named in a comment
"Mutant of X" are wrong variants of X: replacing X by them must break a property,
which shows that the property depends on the code.

Views. The clocks of `Stairway`, `EmergencyLights`, `ModbusMaster` and `AccessPoint`
run on for ever. A view identifies states that differ only in the absolute value
of the clock: it keeps an age up to the limit the code compares it with, and the
order of the stamps that are compared with each other. It drops a stamp only in
phases in which the code does not read it before writing it. The view of `cli` drops the
row of the screen while it is torn: Enter begins a new one whatever it holds, and until
then nothing is promised of it.

## Runs

| run | question | instance and why it is enough |
|---|---|---|
| `stairway` | Is the count never negative, never blocked by daylight while occupied (`BlockedMeansEmpty`)? Does every change of the count reach the animations, and every sweep start with its first LED (`SweepsStartAtZero`)? At rest, does the strip tell whether somebody is there (`LightsFollowPeople`)? | every pair of readings without a fault and one fault of FIRST, which freezes a detector, at both doorways, daylight, strips of one and two LEDs that change, an emergency zone, test mode. Two LEDs let two animations meet, overtake and end on different LEDs. Count bounded by 1 so that entering, leaving and an exit nobody was counted for all occur. |
| `walkers` | Is the count the number of people (`CountIsRight`)? Does it return to zero when nobody passes any more (`QuietStairsEmpty`), and does every animation end (`AnimationsEnd`)? | two doorways, wide people and narrow ones with a gap between the sensors, faults of either sensor of a doorway nobody is in, an off timeout that fires with somebody inside, a strip that changes its length, fairness of the loop |
| `stay_lit` | finding, below | slow animations |
| `emergency` | Is the block after SECOND_LOCK honoured (`BlockHonoured`), do the lights go out (`EmergencyEnds`)? | all readings, faults of FIRST, a send that takes time |
| `emergency_fault` | finding, below | faults of SECOND |
| `peripherals` | Does the strip show the buffer (`StripShowsBuffer`), do fades reach their goal (`FadesEnd`), is the light followed in spite of the filter's dead zone (`LightIsFollowed`)? | strips of one and two LEDs with other brightness, step, zone and thresholds, two settings that must be refused; steps that do not divide the distance; a filter that divides by 3 over ten ADC values |
| `modbus` | Does the buffer never overflow, does no fault spread to the other device (`FaultStaysLocal`), does polling get back into step (`Recovers`) and never stop (`PollingGoesOn`)? Does a single measurement never switch on an emergency light (`OneAnswerIsNotEnough`)? | `ModbusMaster` with `SensorReadings`: a lossy and a healthy device, a loop that takes up to 1 ms on either side of the routine and is held up once for up to 10 ms, longer than an answer (3) and a timeout (9). An answer of 2 bytes in a buffer of 4, and 3 stray bytes: an answer they fall into is discarded and the next send clears the buffer, an answer and all of them fill it and lead to the watchdog. Lengths and times are scaled down, their order is kept (18 ms of confirmation are longer than two turns and an answer, as the 150 ms are) |
| `settings` | Are the active settings always valid, is a success always in flash, does the store implement `DurableSettings`? Does a page sent back unchanged change nothing (`PageRoundTrip`)? | every request, also malformed and not valid ones, failures of erase, program and verify, a crash at every step |
| `settings_error` | finding, below | |
| `network` | Does no callback meet a released state (`StateMatchesPcb`), is a request served once (`ServedOnce`), does the button toggle once (`ButtonTogglesOnce`), does a reboot come (`RebootComes`), are connections given back (`ConnectionsEnd`)? | one connection after the other (connections share nothing but lwIP), requests of every kind in pieces up to and beyond the buffer, responses in pieces, all errors |
| `dhcp` | Are running leases exclusive, can offers be taken up, are expired leases reused? Does a DNS answer stay in its buffer (`ReplyFits`), and is a complete question answered as it was asked (`AnswersTheQuestion`)? | three clients, two addresses, a clock that wraps after three leases. Every DNS message of up to 8 bytes for a buffer of 8: names at and beyond their limit of 5, labels at and beyond theirs of 2, questions that are cut off |
| `cli` | Do sizes and cursor agree (`EditorTypeOK`), does the patched screen show the line and its suggestion (`ScreenShowsLine`), is a setting changed exactly to what was typed (`SetsWhatWasTyped`), does all of it implement `EditedLine`? | lines of 6 characters, names of up to 3 letters, two of them with a common beginning, a history of 9 bytes in which a new command pushes out none, one or several; every key in every state of a line of a's and one space, with a log message before any of them; and four commands with every argument of up to 4 characters out of digits, a letter, `-`, quote, backslash and space |

`VIEW`s and bounds are in the `.cfg` and `MC` files; constants marked "bound:" in a
module restrict the environment only.

`PageRoundTrip`, `ButtonTogglesOnce`, `BlockHonoured`, `ExpiredIsReused`,
`FaultStaysLocal` and `OneAnswerIsNotEnough` are action properties, `ImplementsDurable` and
`ImplementsEditedLine` refinements; the `<>[]` and `~>` formulas are liveness properties.

### Fairness

- The main loop is weakly fair (`WalkFairSpec`, `EmergencyFairSpec`, `ReadingsSpec`,
  `PeripheralsFairSpec`, `NetworkFairSpec`): it is `while (1)` and kept alive by the
  watchdog.
- In `ReadingsSpec` iterations that take time are strongly fair, so that the clock does not
  stand still. Hold-ups have no fairness, and there are only `HoldUps` of them: the
  liveness properties are about a loop that is in the end left alone.
- `Watchdog` is weakly fair: it is a hardware timer, and only enabled when the loop
  hangs.
- Bytes of a device that is not slow arrive (weak fairness), within its answer time.
- lwIP's timers and the end of a closed connection are strongly fair: they get their
  turn inside `net_poll`, which is only enabled in one phase of an iteration and only
  while the access point is on. The fair action `TimerTick` excludes ticks that end
  in an error of lwIP, so that liveness never rests on an error.
- Clients, people, faults, requests, losses and log messages have no fairness at all.

## Proofs

All are for arbitrary constants under the assumptions named in the modules, which
state what `settings_validate` or the constants of the code guarantee.

| theorem | says |
|---|---|
| `StairwayProofs!TypeCorrect`, `BlockedEmpty`, `SweepsComplete` | type correctness (in particular the count never goes below zero), `BlockedMeansEmpty`, `SweepsStartAtZero` |
| `StairwayProofs!LightsRight` | `LightsFollowPeople` for strips of every length, any step times and any settings: at rest, and if the last change started a sweep at its first LED, an LED is lit exactly if somebody is counted. A change that only continues a running animation is excluded, and is the finding `stay_lit` |
| `PeopleProofs!PeopleCounted` | `CountIsRight` in the dark, for any debounce time, number of people and speed of the loop |
| `PeopleProofs!BlockKept` | `BlockHonoured` if SECOND has no faults, for any times that are set |
| `SettingsStoreProofs!ActiveAlwaysValid`, `SavesAreDurable`, `StoreImplementsDurable` | `ActiveValid`, `SavedMeansDurable`, and that every behaviour of the store is one of `DurableSettings` |
| `SettingsStoreProofs!PageTypes`, `PageComesBack`, `PageStoreDurable` | `PageTypeOK`, `PageRoundTrip` for strings of any length, and the three promises of the store with whatever the web page is sent |
| `PeripheralsProofs!PeripheralsTypes`, `BufferShown` | `PeripheralsTypeOK` (the filter stays within the ADC's range), `StripShowsBuffer` for strips of every length |
| `ServersProofs!LeaseTypes`, `LeasesExclusive`, `OffersTakenUp`, `ExpiredReused` | `DhcpTypeOK`, `LeasesAreExclusive`, `OffersAreGood`, `ExpiredIsReused` for any number of clients and addresses and any clock |
| `ServersProofs!RepliesFit`, `QuestionsAnswered` | `ReplyFits`, `AnswersTheQuestion` for any message and any sizes related as those of the code |
| `ModbusProofs!MasterTypes`, `FaultsStayLocal` | `TypeOK` for all devices; `FaultStaysLocal` if none answers after its timeout (`Slow = {}`), for any number and length of hold-ups |
| `ModbusProofs!OneAnswerNeverConfirms` | `OneAnswerIsNotEnough` for times related as those of the code, any number and length of hold-ups |
| `NetworkProofs!NetworkTypes`, `StatesReleased`, `RequestsServedOnce`, `ButtonToggles` | `NetworkTypeOK`, `StateMatchesPcb`, `ServedOnce`, `ButtonTogglesOnce` for any number of connections and any lengths |
| `EditorProofs!EditorTypes` | `EditorTypeOK` for any table of commands and any sizes of line and history: completion and history never overrun the line, and its two lengths agree |
| `EditorProofs!ScreenRight` | `ScreenShowsLine`, from when a line is entered until something is logged, on a row wider than the line buffer |
| `EditorProofs!EditsTheLine` | `ImplementsEditedLine`: every behaviour of the buffers is one of `EditedLine`, for any table of commands and any sizes |
| `EditorProofs!TypedIsSet` | `SetsWhatWasTyped` for lines of any length: whatever quotes, escapes, spaces and digits they have, a setting gets what its one argument says, or nothing is changed |

Five theorems have hypotheses of their own:

- `PeopleCounted` needs `LightStates = {FALSE}`. By day the controller does not count who
  enters empty stairs; if night falls with somebody between the sensors of a doorway, the
  count is wrong. That is how the block by light is meant, so the property is about the dark.
- `BlockKept` needs that no reading has an error of SECOND: with one, `emergency_fault`
  shows that the block fails.
- `FaultsStayLocal` and `OneAnswerNeverConfirms` need `Slow = {}`, as a late answer is
  taken for a part of the next one (see the divergences below).
- `OneAnswerNeverConfirms` also needs that a request and its answer take less than
  `POLL_INTERVAL_MS`, and that a turn and a timeout, or two turns and an answer, are shorter
  than `EMERGENCY_CONFIRM_MS`. A turn is `POLL_INTERVAL_MS` and twice `LoopMs`, the most the
  loop takes before or behind the routine unless it is held up. In the code that is 40 ms
  and 100 ms, or less than three times 40 ms, against 150 ms, which leaves room for a
  `LoopMs` of 4 ms. Sending the strip takes 30 us for every LED (`ws2812.c` 96-108 waits
  for the PIO), so an iteration in which nothing is written or switched takes no longer
  with up to about 130 LEDs. Whatever takes longer, the refresh of a longer strip included,
  is a hold-up: a reading it falls upon is excepted by `OneAnswerIsNotEnough` (`delayed`).
- `ScreenRight` needs `Width > CmdMax`: prompt, full line and suggestion fit into the row
  with the cursor behind them. The code does not wrap lines, so on a narrower terminal it
  cannot hold.

Of the table of commands the four theorems of `EditorProofs` assume that it is finite and
that no two commands have the same name (`BindingAssumption`), that a name can be typed and
that, completed and with its space, it fits into the buffer (`NameAssumption`). Neither
distinct names nor their length is checked by the code; both hold for the names of
`commands.c`, the length by far. Of two commands of one name only the first would be
reached, and `SetsWhatWasTyped` would not be true of the second.

The arguments:

- *Stairway.* The inductive invariant is `TypeOK`, `BlockedMeansEmpty` and
  `SweepsStartAtZero` together. A detector decrements only after checking the count,
  which needs its type; that daylight never meets an occupied staircase needs to know
  that the previous count has caught up outside the phases that change it, which is the
  first half of `SweepsStartAtZero`.
- *LEDs.* `LightsFollowPeople` is about the end of a sweep; on the way, several animations
  cross on LEDs that carry stamps of many events. `LitInv` says that since the last
  covered change there is a moment `T` from which on the light is decided: every LED
  with a stamp of `T` or later has the wanted state, every running animation started since
  then goes for it, and either no LED is older or one of these animations has yet to come
  to those that are. Animations older than `T` may still run: they cannot overwrite what
  is younger (`stairway_leds_set_state` compares the stamps).
- *People.* `Balance` counts a person in a doorway on the side on which the controller
  has them already. `Matches` says, stage by stage of a passage, which states the detector
  may be in, and when its debounce time must have begun; `Sees` ties what the sensors
  report to who stands in front of them. From these every passage is counted once.
- *Emergency lights.* The block fails when the stamp of the last SECOND_LOCK is later than
  the `ts` it is subtracted from, as the difference is unsigned. `EmergencyInv` says that
  it is not (`BlockTimesPast`) when the difference decides: without faults of SECOND, a
  detector that sees somebody at FIRST has left SECOND_LOCK by the end of its turn
  (`SecondLockLeft`), so the stamp is from an earlier iteration.
- *SettingsStore.* The two promises are not inductive, because in the middle of a write
  they say nothing of the page. `Midway` does: before programming the page is blank, and
  before verifying it is blank or holds the active settings. The refinement maps the
  settings in RAM to the active ones and the flash page to what the next boot would
  activate, which is the defaults for a page that is blank; every step is one of
  `DurableSettings` or a stutter.
- *SettingsPage.* Sending and parsing are recursive functions: the text of a string grows
  with its characters, and what is read at a place depends on what is behind it.
  `TextIsRead` says that an escaped string is read back as it was, from its last character
  to its first. That the string fits is what `settings_validate` guarantees of the active
  settings, and the secret stays because the page has an empty one or, if a string names
  it, none that is found.
- *Peripherals.* The active settings are accepted ones (so no strip has length zero or
  exceeds the maximum) and the strip shows the buffer. A refresh that is not sent
  leaves both unchanged; one with a new length clears the old strip first, so the
  LEDs beyond the new end are dark. The filter of the light sensor moves by a quotient
  of its distance, which never passes the value read.
- *Network.* Every connection is either released (no pcb or one lwIP finishes alone, no
  callbacks, no state) or in use (open pcb, callbacks set, a state whose counters are
  within their bounds, with one request served exactly if it is processed). Each
  callback leads from one of the two cases to one of the two. For the button,
  `ButtonCounts` says that the counter is the number of iterations the press has
  lasted until the press is acted on, and that the press stays longer than the debounce
  time from then on, so it is acted on once.
- *DHCP.* An expiry is the upper half of a clock that wraps. `Counts` says what that
  means: up to the resolution and a number of turns of the clock, the distance from the
  clock to the expiry is what is left of the lease, as the client counts it. It holds
  down to leases that are over for half the range of the clock (`LongAgo`), which is as
  far as the signed difference of the code can tell. `Owners` ties the table to the
  clients: a slot is free or its last client's, and a running lease is in its slot.
  Neither is a property of its own; together they decide when `Expired` is true.
- *DNS.* The walk over the labels is a recursive function. That it is defined
  (`WalkExists`) is an induction from the end of the query, as a label only leads forward;
  that it stops behind the name (`WalkFindsName`) one over the places of the labels. The
  induction theorems of the library take the claim as a parameter, which the installed
  provers cannot instantiate, so both take the last place for which the claim fails. The walk ends at most one label behind the message,
  `NameFits` bounds where, and the sizes leave room for the type and the answer.
- *Modbus.* `FaultStaysLocal` says nothing of the buffer. `InStep` does: until the first
  stray byte, what was received and what is still on the wire make up exactly the answer
  to the open request, or are a part of it that never becomes complete (`Incomplete`),
  because the device sent nothing or bytes were lost. So a complete answer is
  accepted, a request times out only if its answer cannot be completed, and when it is
  concluded the line is silent (`Silent`) for the next one. That a healthy device's answer
  comes before the timeout is `AnswerMs < TimeoutMs`.
- *Readings.* `OneAnswerIsNotEnough` bounds a time from above, with stray bytes and losses
  on the line. `AgeInv` counts the polls since the only answer that reported FIRST: none
  until the other device is asked, one until the same device is asked again, two until it
  answers or fails. Each takes its interval, an open request of a healthy device as long as
  an answer, one of the other device as long as its timeout (`LineInv`). All of it is about
  readings without a delay (`Calm`), and counts the time the loop takes before it sees an
  answer (`Late`). If the other
  device answered, it did so in time: when the time for an answer is over, what is in the
  buffer is too short or spoiled by a stray byte for good (`Doomed`).

- *The command line, its sizes.* An item that is recalled must fit into the line, so the
  invariant is about the bytes of the history. `HistoryOK` says that there are positions
  `z[0] = 0 < z[1] < ... < z[count]` at which the only zero bytes up to the last stand,
  close enough together. Removing an item in the middle and putting one in front, which
  pushes out as many of the oldest as it needs, keep such positions, and the proofs write
  the new ones down (`RemoveKeeps`, `PutKeeps`). Completion never cuts what was typed, as
  the common beginning of the matching names is at least as long (`CompletedIs`).
- *The command line, its screen.* The proof follows each function cell by cell. An edit
  leaves the row such that it shows prompt and line up to the line's length and, up to what
  was shown before, a remainder nobody reads (`OnScreen`); the suggestion printed after
  every edit (`LiveIs`) then overwrites that remainder with the rest of the completed name
  and blanks. So between two keys (`ShownInv`) the row is prompt, line, suggestion and blanks, and the
  cursor is as many columns left of the line's end as the code counts. A log message takes
  all of this away until Enter starts a new row; the sizes hold throughout (`WholeInv`).
- *The command line, its promise.* `EditsTheLine` maps the line to what is left and right
  of the cursor and the history to the list of its items. With the positions `z` of
  `HistoryOK`, item `n` stands between `z[n-1]` and `z[n]` and the first `n` items take
  `z[n]` bytes (`BytesAre`), so removing an item from the bytes is removing it from the
  list (`WithoutIs`), and what `historyPut` pushes out is what no longer fits
  (`RememberedIs`). The list promises to remove the newest equal command only, as the code
  does, so that no step needs that there are no others. The names `autocomplete` collects
  bit by bit are those that begin with the text, and the length it counts down is that of
  their longest common beginning (`MatchesAre`, `SharedIs`). Each key is then one step of
  `EditedLine` or none.

- *The command line, its meaning.* `TypedIsSet` compares two readings of a line. The code
  tokenizes the arguments in place, one character after the other, and looks for zero bytes;
  `Arguments` says by position which characters are escaped, which are separators, and
  which have the same separators in front of them. The bridge is an invariant over the
  positions: the tokenizer's flags are what the positions say of the next character
  (`FlagsAre`), and its result so far is empty, the characters of one argument (with a zero
  byte behind them if it has ended), or has a zero byte between characters of two (`None`,
  `One`, `More`). At the end that gives: one token exactly if there is one argument, and
  then the same characters (`TokensAre`). That a line is blanks, a name and arguments in one
  way only (`CallIs`), and that the spaces behind the name leave no trace
  (`SpacesSkipped`), leads from there to the line. `strtoul` reads digits from the first,
  multiplying by ten, while `NumberOf` adds up their place values from the last;
  `NumberIs` shows that both are one number, by the sum of what has been read times its
  place and the rest. `SetsWhatWasTyped` is then inductive with the type of the
  line, as only Enter gives a line to `parseCommand`.

The recursive functions of these proofs (`TokenizeArgs`, `Strtoul`, `NumberOf`) are
equations of which the prover knows nothing. `RecursionExists` constructs a function that
satisfies such an equation, and `RecursionIs` shows that it is the only one; both are proved
with the least number at which they would fail, since the library's induction theorems
cannot be instantiated here.

Only model-checked: liveness, which rests on fairness and `ENABLED`, out of the prover's
reach. Every invariant and action property, and every refinement of its safety part, that
a run checks is also proved.

## Findings

Three runs show that the code does not do what the repository says of it.

1. `stay_lit`: after an exit whose off animation still runs from an earlier exit, LEDs
   lit again behind its sweep stay lit with nobody counted (`main.c` 295-305), as the off
   timeout (312) only acts on a positive count.
2. `emergency_fault`: `ts - detector_block_ts` (`main.c` 343) wraps when
   `detector_block_ts` was taken in the same iteration; a detector frozen in SECOND_LOCK
   by a fault then ignores the emergency block.
3. `settings_error`: settings whose flash write fails are answered with an error but
   are active (`settings.c` 88), although `http_server/settings.h` 7 promises that nothing
   is changed.

Known divergences without a run, met while reading and modelling:

- `main.c` 26 says that the 150 ms for which FIRST must be active before an emergency light
  comes on filter single false readings. A reading stays current until the next answer or
  timeout, and the time goes on: when the main loop is held up behind it, by a flash write
  or by switching the access point, or while the OTHER device is in its timeout (100 ms), a
  single reading can pass (`main.c` 342). These are the exceptions of
  `OneAnswerIsNotEnough`.
- A setting that is written, or an access point that is switched, while a device answers
  can cost bytes of the answer, so a device without a fault is reported faulty until its
  next answer (`lost` in `FaultStaysLocal`).
- The log is printed into the line that is being edited (`main.c` 173, 219, ...); the row
  shows neither prompt nor all of the line until the next line is entered at the latest
  (`torn` in `ScreenShowsLine`). `embeddedCliPrint`, which would restore it, is not used.
- An answer that comes after its timeout falls into the request to the other device,
  which is then reported faulty. `FaultStaysLocal` is stated for devices that answer in
  time or not at all, `Recovers` for ones whose answer comes within `POLL_INTERVAL_MS`
  less the time of a send: a longer answer can leave polling out of step for good.
- `json_find_value` takes the first place where the quoted name of a setting stands, also
  in the value of another one. When the access point is named `wifi_pass`, or like one
  of the settings that the page sends after the name (`led_count`), that setting is not
  found and keeps its value, and the request is answered with success. `Found` in
  `SettingsPage` models it for the password.
- A DHCP request that is not granted gets no NACK (noted in the code); a lease that has
  been over for more than half the range of the clock looks valid again, and the table is
  lost with a restart.
- A client that closes its side before the response is complete gets no more of it.
- The DNS server answers a question that is cut off as well, with bytes of its stack for
  what is missing.
- `-h` or `--help` as the first argument prints the usage of a command whatever follows
  it; the comment at `embedded_cli.h` 1227 says "help is printed when no other options
  are set".
- CR LF is taken as one line end by remembering the last character, so CR LF CR LF is one
  as well.
- `strtoul` stops at the largest unsigned long, which a 32-bit setting takes for a value:
  a number with too many digits is applied as 4294967295 unless the setting has a limit.
  `SetsWhatWasTyped` takes that for the meaning of such a number.
- The button has no debounce when it is released.

## What is not modelled

- Failing `malloc`, `calloc` and `realloc` of the strip and the settings (the Pico SDK
  panics by default), the wording of the log, the error LED, the distances and error counters of
  the status page.
- The CRC as arithmetic: bytes pass it if they are those of one answer. Modbus
  functions other than 3, which the firmware never sends.
- Paths, parameters and the wording of pages (`content.c`, `index.html`), the layout of
  DHCP messages, the order of keys and the buffer size of the settings JSON.
- The reading of BOOTSEL (`button.c`), which is an arbitrary input and disables interrupts
  for less time than a byte takes; the PIO program.
- A hold-up of more than a second, after which the watchdog restarts the controller.
- What commands print, `embeddedCliPrint`, which nothing calls, and the overflow of the
  input fifo, which is emptied after every character. `embedded_cli.h` is vendored, but it is what every setting typed
  by a user goes through. Its static memory layout is abstracted into its buffers.
- The contents of a DNS answer, and failures to send it.
- `net_ap_deinit`, which only runs when `net_ap_init` fails; `stairway_leds_deinit`,
  which nothing calls.

## Plan

Done: the modules above, in the order Stairway, Walkers, EmergencyLights, SettingsStore,
ModbusMaster, Network, DhcpServer, Peripherals, SettingsPage, SensorReadings, the command
line, DnsServer.

Left: the parameters of requests in `http_server.c`, which `content.c` only logs, and the
layout of requests.
