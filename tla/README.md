# A TLA+ verification of framework-system-ffi-extensions

The repository is a Rust library with a C interface. A managed host (the .NET
package built on it) calls it from any number of threads to talk to the embedded
controller (EC) of a Framework computer and to the USB and HID devices around it.
This directory holds TLA+ models of the parts of the library that have behaviour
worth checking, the TLC runs that check them on small instances, and proofs for
TLAPS of what matters most for every size. `PROJECT.json` lists which definition
stands for which lines of the source.

## The system

Paths are relative to `src/src/`. The library keeps almost no state of its own: an EC
handle holds a driver, and the only mutable global is the device-error store. What
makes it hard is that most answers are put together from several commands to a device
that does not stand still, for callers on several threads that it never serialises.

| Component | State | Operations | Interacts with | Hard behaviour | Correct when |
|---|---|---|---|---|---|
| Device error store and status (`status.rs`) | counter, queue behind a mutex | store a message, look one up | every failing call; the host's later lookups | token taken outside the lock, eviction, wrap | a status yields its own message or none; retention is exact |
| Byte buffers (`byte_buffer.rs`, entry points in `lib.rs`) | blocks of the allocator | return, free, aggregate free | every call that returns text | double free, reused addresses, capped lists | a free hits its own block; every block can be freed |
| USB-C slot inventory (`inventory/usb_slots.rs`, `detect.rs`, `builder.rs`) | locals of one build | probe, card passes, override | PD state from the EC, USB and HID enumeration | hotplug between steps, failed reads, look-alike devices | each card is reported once; a slot label can be trusted as its confidence says |
| Audio card version (`versions.rs`) | a claimed interface | claim, poll, release, read the name | the card's firmware, other calls | contention, wedged card, unplug | exchanges do not mix, the claim is returned, the call returns within a bounded number of transfers |
| Port 80 history (`diagnostics.rs`) | locals of one read | GetInfo, chunked ReadBuffer | the EC's ring, which the CPU keeps writing | torn read, padded or short responses | no padding, nothing older than the start, order of age |
| Thermal thresholds (`thermal.rs`) | EC configuration | get, set | the EC, other calls | read-modify-write in two commands | release points stay, no invented temperatures |
| Expansion bay and GPU descriptor (`inventory/query.rs`, `gpu_descriptor.rs`) | none | status, header, descriptor, validate | several EC commands | the bay changes in between; a panicking helper | a consistent status |
| Fan control (`thermal.rs`, `runtime.rs`) | EC fan mode | duty, RPM, automatic | the EC, other calls | index conversions, lost commands and replies | exactly the fans that were named are set, or none |
| EC sessions (`runtime.rs`) | boxed handle | open, open with driver, close | drivers of the system | drivers that come and go, half-open failure | a handle exists only after the magic check; a refusal is true |
| PD ports and power (`pd.rs`) | none | port state, power info | EC | port 255, failed reads | the answer is of the port asked for, or an error |
| EC controls (`controls.rs`) | EC settings | limits, LEDs, deck and tablet mode, GPIO, keyboard | EC, other calls | range checks, lost commands and replies, restarts of the EC | a call takes effect once, at one moment, or is refused without a trace |
| Other diagnostics (`diagnostics.rs`) | none | hello, protocol, sysinfo, panic, switches | EC | few | a reading is what the EC held at one moment |
| Internal modules (`inventory/internals.rs`) | none | derive descriptors | input deck state, USB | partial failure | - |
| Capabilities and conversions (`capabilities.rs`, `conversions.rs`, `abi_impls.rs`) | tables | lookups | - | - | - |
| Smart battery (`smart_battery.rs`) | none | collect, authenticate | I2C through the EC, all of it upstream | ten buffers of one record | every buffer is freed once |
| Peripheral versions and direct HID/USB calls (`versions.rs`, `peripherals.rs`) | none | enumerate | USB, HID | capped lists | - |

`results.rs` (constructors) and `build.rs` (binding generation) have no behaviour.

The components meet in three places: every error becomes a status through the
error store; every text or blob becomes a byte buffer; and the module inventory
calls the expansion bay query, PD ports, detection and capabilities in one build.

## Modules

### ErrorLog, DeviceErrorStore, DeviceErrorStoreProofs

`ErrorLog` is the promise: a map that holds the last `Capacity` bindings of tokens to
messages, in which no token is bound twice and no forgotten binding comes back.
`DeviceErrorStore` is `status.rs`: `nextId` is `NEXT_DEVICE_ERROR_ID`, `store` the queue.
`store_device_error_message` is two steps, `TakeToken` (the atomic `fetch_add`, with the
wrap of an `i32`) and `PushAndReturn` (the critical section with the push and its
eviction loop, and the return), because threads interleave between the two;
`RaiseResponse` is the arms of `status_from_error` that do not touch the store. Some
helpers convert an error to a status and drop it, so `PushAndReturn` may push without
reporting. `MessageOf` is what the two lookup entry points yield. `pushed`, `issued` and
`statuses` are history. A lookup has no action: it changes nothing, so the properties
quantify over every status the host holds in every state. The module's `Log` maps it
onto `ErrorLog`.

### BufferOwnership, BufferOwnershipProofs

The heap as a function from live addresses to the record they were made for, and the
host's result records with the positions they still have to free. A session's handle is a
record of one pointer: `OpenDefault` and `OpenWithDriver` return a null or a boxed handle, `Close` frees
it. There is one action
for each entry point that allocates (`GetPowerSnapshot`, `GetSmartBatteryData`,
`GetPeripheralVersions`, ...), the three calls that allocate a serial and drop it, the
free by value and the aggregate free, which walks a record one field at a time as
`lib.rs` does. The allocator may return a freed address at once. The host follows the
documented rules: a buffer is freed by value once, an aggregate as often as the host
likes, and two threads do not work on one record.

### UsbSlots, UsbSlotsProofs

One build of the slot part of the inventory: `Probe` for each slot (PD read and flags), the
display pass, then `AssignCardPass` for each card kind in the order of the code,
each with its own enumeration, then `ApplyCapability`. `port` and `loose` are the
machine: what sits in each slot, and which devices are elsewhere. `Hotplug` may change
what sits in a slot between any two steps; what is elsewhere is chosen at the start and stays.
`MaxFaults` bounds failed PD reads and enumerations. `Platform` selects the row of the
capability table, and with it the slots that have no PD (`Unwired`).

### AudioCard, AudioCardProofs

The pc of each calling thread walks `Enumerate`, `NextDevice` (open and claim), `Write` and
`Read` (one transfer each, so that another thread may run in between), `Release`, and after an
answer `ReadName`, the read of the product string from the open handle, whose interface is
released by then. A call waits for two sorts of transfers. `ticks` counts SetReports and GetReports, which end with
the 100 ms of the loop; `names` counts product strings, a few control transfers of libusb with
timeouts of its own, which the code does not choose. `Unplug` is the environment.

### Port80History, Port80HistoryProofs

`GetInfo`, then `ReadBuffer` for each chunk, then `Return`; `PostCode` is the CPU's write,
allowed between any two. A POST code is modelled by its write number, which
is all the properties need to tell codes apart.

### ThermalThresholds, ThermalThresholdsProofs

The EC's configuration of one sensor in Kelvin, `Get`, and a set as `SetReads` and
`SetWrites` with a failure of either. `asked` is history: for each threshold the
initial value and everything a host asked for.

### ComposedReadings, ComposedReadingsProofs

The queries whose answer is put together from several reads: the bay status and the two descriptor calls,
the scan for the charging port, the charger at a port, lid and base, fan capabilities, the
thermal snapshot, feature flags, standalone mode, the stylus, the internal modules on both families of laptops, and
the opening of a session, whose reads are the device node, the drivers in their order and the magic. They have
one shape, so they share one system. A query is its sequence of reads (`Reads`); a read shows the
facts of its register that are true at that moment (`Shows`), fails with the call (`Fatal`) or leaves a default behind; and
the answer is a record of claims (`BayClaims`, `ThermalClaims`, ...), each with the condition under which the code
makes it. `Change` alters one part of the machine between two reads. `Evidence` is
independent of the claims: for each one, the reads that can show it and the facts that make it
true. The properties compare an answer with `ever` and `always`, what was true at some and at every moment of the call.

### HostRequests, EcControls, EcControlsProofs

`HostRequests` is the promise to a host: a call is a demand that names registers and a value; it
takes effect at one moment between call and return, or not at all; success means that it did, an
argument error that it did not, and any other failure leaves both possible. A demand that is not `firm` is one whose success
promises nothing. Nothing there mentions indices, widths, commands or replies.

`EcControls` is the code under it: one action for each entry point that sends a single command, with the
handle check, the argument checks in their order, the conversion and the command
(`FanCommand`, `LimitCharger`, `SetGpio`, ...). `demand` is what the arguments mean to a host, taken from the
interface; `command` is what the code makes of them; only the second drives the model. A call for PD port `p` demands the
state of port `p`, whichever number it is, and what the sweep is asked to read is `Sweep`. After the entry, a command is
executed or not (`Execute`, `NotExecuted`), its reply arrives or not (`Reply`, `ReplyLost`), and the call
returns the status of `status_from_error` or of its own error arm. `Drift` is a machine that changes by itself and `Restart` a restart of the firmware.
A behaviour is about one `area`, a group of registers that some calls share; two areas share
none, so a pair of calls from different areas interferes no more than one call alone. Arguments that the code passes on unchanged
are members of `Words`; arguments it compares or narrows are integers around their limits.
Two demands are not firm. That of the sensor list is documented so: success with no sensor is also what an EC without
motion sense answers (`lib.rs:1653-1655`). That of the keyboard backlight is the one thing about a demand that the
interface does not say: the function returns a status, upstream's setter none, and a firm demand would be violated by
any lost command.
`PortCount` is the number of PD ports of the machine, 2 or 4 (`inventory/builder.rs:98-106`) and one of a graphics module. It is
assumed to be less than `MaxU8`, so that no machine has a port 254. A host may ask for any `u8`; what is not a port fails.
The refinement `ImplementsRequests` maps a register to what a host reads from it and a call to its stage.

## Runs

`MC` modules instantiate the models; each `.cfg` gives the constants.

| Run | Shows | Bounds, and why they are enough |
|---|---|---|
| `store` | type, the inductive invariant, true answers, exact retention, no resurrection, refinement of `ErrorLog` | 2 threads, limit 2, a token of 3 bits, 5 errors: the queue is full and evicting, and the counter passes its maximum into the negative tokens |
| `buffers` | frees and closes hit their own block, every block has one owner | 2 records, 4 addresses, aggregates of 2 and 3 buffers: a freed address is reused by the other record while a free of the first is under way; 3 peripherals for 2 places exercise the cap |
| `slots` | everything enumerated is reported once; an identified slot stays; when labels are true | 3 slots, seven sorts of occupant, 3 detached places, at most one look-alike of three kinds in a dock, 1 hotplug and 1 failed read: overflow of the detached array, and each interleaving of one disturbance; two occupied slots and one free are what the correlation of cards needs to go wrong |
| `audio` | exclusive exchanges, returned claims, calls that end within a bounded number of report transfers and one name | 2 threads, 2 cards, 2 polls: contention on either card, exhaustion of the poll loop on one and success on the other |
| `port80` | nothing older than the start, later positions later, the read ends | ring of 5 in chunks of 2, so the last is partial; 12 writes turn the ring twice |
| `thermal` | values were asked for, readings real, release points stay | 2 threads, 2 settable and 1 release threshold, values disabled, below and above zero Celsius |
| `readings` | claims were true, silence and refusal are explained | 15 queries of one to nine reads, 1 change of one part of the machine and 2 failed reads, in every query from every consistent machine: a claim rests on at most two reads, so two failures hide everything that can be hidden, and one change puts every pair of reads on two sides of it |
| `settings` | calls do what was meant, at most once, and return; refinement of `HostRequests` | 2 threads, so every pair of calls that share a register; 2 fans, and 2 PD ports of 4 that a byte can name; a byte of two bits and an i32 from -2 to 4, with values below, at and past each limit (-1, the last fan, `u8::MAX`, one more); percentages 0, 100, 101; states of charge -1 and 0; GPIO names that are known, unknown, null, of negative length and garbled |

Deadlock is checked in `audio`, `port80`, `thermal` and `settings`. The other systems may stop: errors, hotplug
events and the one build are bounded, a host with full records may wait, and in
`readings` a call that has returned is over.

Runs that end in a counterexample each show a difference between a statement of the
repository and its code. `PROJECT.json` quotes the statement.

| Run | The statement that does not hold |
|---|---|
| `buffers_lost` | every buffer can be freed: the bay's serial is allocated and dropped by three callers |
| `slots_unwired` | slots without PD wiring are surfaced by capability alone: identity, presence and flags of the garbage state stay |
| `port80_newest` | the newest entry is at `writes % history_size`: not when a code is written during the read |
| `thermal_lost` | a set preserves the thresholds it keeps: not when two sets overlap |

### Other differences found while modelling

These are not runs: each is visible in a few lines of the code, or in a single step of a model.

- `FFI_NOTES.md` describes the correlation as N cards for N slots; `assign_card_pass` assigns only when both
  numbers are one (`Match`).
- It calls the audio card's placement Direct; the slot gets `DerivedWeak`, only the card's kind is Direct (`SlotConfidence`,
  `CardConfidence`).
- A failed PD read makes a slot look empty, so that a card may be assigned to another slot, with Direct confidence.
  `DirectIsTrue` therefore speaks of builds in which every read worked.
- The comment at `inventory/usb_slots.rs:299` takes slots 3 and 6 of the Framework 16 as not wired
  for PD; the table in `capabilities.rs` lists four slots, all wired (`SlotCapability`).
- `get_gpu_serial` upstream unwraps the text it reads; the bay query calls it on any reply, so that an ill-formed
  serial panics under a C entry point (`PanicOnSerial`).
- The audio poll is said to take about 3 s on a wedged card. Each poll has two transfers with the
  timeout, so 32 polls may take 6.4 s; and a card that answered and then wedges is waited for once more, while its
  product name is read with the timeouts of libusb. `CallIsBounded` bounds the two separately.
- `framework_ec_get_active_charge` answers with success and port -1 when the charger's port could not be read, or
  when the charger moved behind the scan. `SilenceIsExplained` holds because no successful
  read showed the charger.
- A bay whose vendor read fails is an error of the whole query, even when the board was read.
- The comment at `pd.rs:72` says to "take the requested one" of one entry per port from 0 to the port asked for. For
  port 255 the sum saturates, the sweep ends at port 254, and what is taken is the entry of port 254, to be returned under the number 255.
  No machine has a port 254, so that this entry is an error and the call fails as it should. The demand of the model is port 255's
  state: with `PortCount` equal to `MaxU8`, which `ControlsAssumption` excludes, TLC finds `ImplementsRequests` violated by exactly this call.
- The documentation of the limit on the charge current says that it applies below the state of charge
  (`lib.rs:1804-1805`), that of the limit on the charge rate, which is to match it, above (`controls.rs:162-163`).
  The code passes both on; the model calls the value `above`, and no property depends on it.
- `framework_get_stylus_battery` is documented to mean "no stylus is paired" by success with `present = 0`
  (`lib.rs:3543-3544`); a touchscreen that does not answer is reported the same way, and `peripherals.rs:22` says that the code cannot
  tell the two apart (`StylusClaims`). `SilenceIsExplained` is about reads that worked: a failed read is no violation of it.
- `framework_ec_set_keyboard_backlight` reports success whatever becomes of the command (`lib.rs:1486`), so its demand is not firm.
- `FrameworkEcPdControllerVersionsResult` says that the Desktop populates only slot 2; `pd_controller_versions`
  puts a single controller into slot 0 (`versions.rs:302-303`).
- `controls.rs:245-247` reads the GPU serial by itself because the upstream helper "would abort the host
  process on a garbled serial"; the bay query at `inventory/query.rs:51` calls that helper.
- A fingerprint reader whose LED answers the first read and not the second is reported with `DerivedStrong`.

Fairness is assumed in three modules. In `AudioCard` it is weak fairness of each thread's step inside
a call. A transfer ends with its timeout at the latest, the loop's or, for the product name, libusb's, and no step waits for
another thread (a claim that is taken fails at once), so a thread in a call
always can and eventually does take its next step. What a card
answers is left free; the bounded loop is what makes `EveryCallReturns` hold. In `EcControls` it is weak fairness,
for each thread, of the fate of its command (`Transport`: executed or not), of its
reply (`Delivery`: arrived or lost) and of its return: a driver answers every command or reports an
error, and none is favoured over the other. That no failure is answered by sending again makes the
property hold. In `Port80History` it is weak fairness of the step of a read under way: each command is answered,
well or badly, or fails. Whether a host calls is left free in all of them.

## Proofs

`DeviceErrorStoreProofs` proves, for every set of threads and messages, every limit
and every token width:

- `TypeCorrect`: the types, and the bound on the queue;
- `StoreInvariant`: the invariant `StoreInv`, which is inductive. The properties alone are not: that a
  status never answers with another's message needs tokens to be distinct, which needs every
  token in flight, pushed or stored to come from the counter (`IssuedInv`, `DistinctInv`), the
  counter to be a function of the number of tokens taken (`CounterInv`), the queue to be the
  window of the last pushes (`WindowInv`), and a status to have been pushed with its message
  (`StatusInv`);
- from it `RetentionIsExact`, `StatusesAnswerTruly`, `LostMessagesStayLost` and
  `StoreImplementsLog`, the refinement of `ErrorLog`.

All but the first assume `OneLap`: at most `2^32` device errors in the life of the process.
After a full lap tokens repeat, and a status kept that long could meet a younger
message. Within the lap the second half of the tokens is negative and `get_device_error_message`
refuses them; `RetainedExactly` says so.

`ThermalThresholdsProofs` proves `ThresholdsWereAskedFor`, `ReadingsTellTheTruth` and
`ReleasePointsStay` for any number of threads and any thresholds and temperatures. The
inductive invariant adds what is in flight: a configuration a thread has read holds only values
asked for and the current release points, and the arguments of its set are among
what was asked. `ThermalTypeOK` needs no more than itself: every value that a set writes is merged from a configuration that was read
and requests that are Kelvin values after the conversion (`RequestsGiveKelvins`).

`AudioCardProofs`, for any threads, any finite set of cards and any number of polls: `AudioTypeOK`,
`ExchangesAreExclusive`, `EveryClaimIsReturned` and `EveryCallIsBounded`. Exclusion does not say who may
release a claim, so the invariant says that a thread in an exchange holds the claim on its card
(`HoldsClaim`), from which two such threads have two cards. The bound is on what was spent,
which no step can keep without an account of what is still to come: `BudgetInv` is that spent
report transfers, those the exchange may still make (`Ahead`) and those of the cards not yet looked at stay
within the cost of the whole snapshot. That a call reads one product name at most is a fact about its steps (`NameInv`): none is read
before the step that returns, and the next call starts from none.

`BufferOwnershipProofs`, for any heap, any records and any number of buffers: `BufferTypeOK`, `NoFreeMisses` and
`EveryBlockIsAccountedFor`. An aggregate free nulls the fields behind its cursor, so the fields
a record still answers for depend on its kind and not only on what the host has freed (`Due`).
The invariant is the two directions between records and heap: what is due is live, the record's own and not due twice
(`DueIsOwned`), and what is live is due, or was dropped by the library (`LiveIsDue`). The first is what
makes the frees hit, since the allocator gives out no live address; the second is what a leak would break.

`Port80HistoryProofs`, for every size of ring, chunk and padding: `Port80TypeOK`, `EntriesAreNotOlder` and
`TornChunksMerge`. The properties are about a finished call; the invariant states them for the positions read so
far (`Progress`) and adds that no entry is newer than the last write, without which a later chunk could show
an older state than an earlier one. The lemmas before it are the arithmetic of the ring (`Newest`), which is
not linear and is proved from the division once.

`ComposedReadingsProofs`, for any number of changes and failed reads: `ReadingsTypeOK`, `NothingIsMadeUp`, `NothingIsHidden` and
`NothingIsRefusedInVain`. `Witnessed` says what a read that was done proves about
the past: what was seen was true once, and what was true all along and shown by a read that worked was seen. The claims are
conditions on what was seen, so each claim has one lemma towards `ClaimsWereTrue` and
one towards `SilenceIsExplained`. A refusal needs two facts more: a GPU query that is under way still has its descriptor to
read (`DescriptorStays`), and an opening that has got past a driver tried it or lacked what it needs (`DriversTried`).

`UsbSlotsProofs`, for every platform, every number of its slots, any hotplug events and failed reads: `SlotsTypeOK`,
`EveryCardIsListedOnce`, `SlotsAreLocked`, and for builds that nothing disturbs `NoGenuineCardIsMislabelled`,
`DirectLabelsAreTrue` and `LoneCardIsPlaced`. The count of a kind can only be kept by
its own pass if nothing of that kind was placed before (`AheadIsUnknown`). What a label is worth rests on what a pass
leaves behind: it identifies a slot only if that is the only candidate, so afterwards there is none
(`Labels`); and a card without look-alikes outside is found by its own pass at the latest (`FoundInTime`), which is
why the order of the passes matters.

`EcControlsProofs`, for any threads, fans and GPIOs, any width of a byte and of an index, and any arguments:
`ControlsTypeOK` and `ControlsImplementRequests`, the refinement of `HostRequests`. The argument has two halves.
Every entry point either refuses with an argument error, or sends a command that meets its demand
(`EntryPointsStart`, over one lemma for each group of entry points): same registers, a value that reads back
as the one given, a failure that is shown as a success only if the demand is not firm (`Meets`). The registers need to agree
only where the machine can execute the command, since a call for what does not exist fails either way. Here are the conversions: the
fan index in its two widths, the percentages, the LED levels there and back, and the sweep, which ends at the port asked for or,
for the last number of a byte, at a port no machine has (`SweepEndsThere`). The other half does not look at entry points again: the invariant `CallsFit`
keeps `Meets` for each call on its way, and with it each step of a command is a step of
`HostRequests` (`ExecuteImplements`, `FailureImplements`, `ReplyImplements`, ...).

TLC checked each inductive invariant as an invariant of the run of its module before it was proved.

The constants' assumptions are the named ASSUMEs of each module, which the runs evaluate. `ControlsAssumption` also holds the one fact about machines that a
theorem rests on, that none has as many PD ports as a byte has values (`PortCount`). Four are there for the proofs:
`NoRecordAssumption` and `NothingAssumption` say that the value for "none" is no other value (in the code a null pointer and an
error), `ReadingsAssumption` that two bounds are numbers, and in `ControlsAssumption` the values that a host may pass include
one plain value and one percentage that is at most 100, which the registers need to have a state at power-on.

Only model-checked are the liveness properties (`EveryCallReturns` of two modules and `EveryReadEnds`), because fairness
and ENABLED are out of the prover's reach. Every safety property of a passing run, types and refinements
included, is a theorem.

## Assumptions about what is not in the repository

The EC executes a command as a whole or not at all, also one that names all fans or several keys; the upstream library
passes a fan index of 32 bits and every other argument on as it gets them; a deck mode that is only for reading
changes nothing; the key map's single entries and the exchange of caps lock are separate registers. How many
commands upstream sends for the list of sensors or for the challenge of a battery is not told apart. All these are the
definitions that `PROJECT.json` marks external, or their comments say so.

## What the properties do not catch

- A card in the wrong slot. `ObservedExactlyOnce` counts what each pass enumerated and `IdentifiedForGood` protects identified
  slots; a hotplug or a failed port read between two steps of a build may leave one candidate too few, and a card is then placed into a
  slot that is not its own. Nothing the code reads could tell. `DirectIsTrue`, `GenuineNeverMislabelled` and `SoleCardIsPlaced`
  say what placement is worth in a build that nothing disturbs.
- A mixture of moments. `ClaimsWereTrue` asks of each part of an answer that it was true at some moment of the call. The board of one bay
  module with the vendor of the next, or a lid angle and an acceleration of two postures, pass.
- The inside of an opening. `BufferOwnership` has it as one action that boxes a handle or not; the order of its
  checks is in `ComposedReadings`, where there is no heap.

## Not modelled

The contents of messages, names and records, and with them the conversions into records of
`abi_impls.rs`, `results.rs` and most of `conversions.rs`; the layout of the C structures; tables from
raw values to enums (of the capability table only the PD column is modelled, in `UsbSlots`; a raw `Pcie8x1`
configuration, which the conversion turns into Unknown, is not); the versions of PD controllers and retimers, the
decoding of the panic record and the hello exchange, each one upstream call copied into a record; the I2C traffic of the smart
battery, which is upstream's; a host that breaks the documented safety contract (a closed handle, a buffer freed by value twice);
poisoning of the store's mutex, which needs a panic inside its critical section where only allocation happens.

One hazard has no property: that the host dies of a garbled serial (`inventory/query.rs:51`). One step of
`BufferOwnership` is that panic, the properties are checked in the states it leaves, and nothing
in this code guards against it.

## Plan

1. Done: the error store and its refinement; buffers and handles; slots; audio card; port 80; thermal
   thresholds; the composed queries with the opening of a session; fan control and all single-command
   calls with their refinement.
2. Done: for each module its types, its safety properties and its refinement as theorems.
3. Positions on the input deck, where a module that USB reports takes the place of what the deck says. As two
   positions of `Framework16Modules` they take the run past its time; they need that query's fixed modules apart.

A further run takes the place of one whose question it answers as well: the runs are kept to the questions that differ.
