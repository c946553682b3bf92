# A TLA+ verification of gateway-rs

gateway-rs connects LoRa packet forwarders to the Helium network. This
directory holds TLA+ modules translated from its Rust code, TLC configurations
that model-check them on small instances, and TLAPS proofs for every instance.
`PROJECT.json` is the index: components, runs, the source lines each definition
stands for, findings, hazards and theorems.

Run from this directory:

    tlc -workers 2 -config MCDispatcher.cfg MCDispatcher   # any cfg and its module
    tlapm DispatcherProofs.tla                             # and any other *Proofs module

## The system

`server::run` makes three bounded channels and runs five futures in one
`try_join!` on a single-threaded tokio runtime; the dispatcher spawns one more
task per router, the gateway one per transmission.

| Part | Source | Does | Module |
|---|---|---|---|
| dispatcher | `src/router/dispatcher.rs`, `routing.rs` | session with a validator, routing table, region, local API requests | `Dispatcher` |
| router client | `src/router/client.rs`, `store.rs` | sends uplinks to one router, pushes its downlinks | `RouterClient`, `PacketQueue` |
| gateway | `src/gateway.rs` | UDP link to the packet forwarders, transmissions | `Gateway` |
| beaconer | `src/beaconer.rs` | sends beacons, reports those of others | `Beaconer` |
| messages | `src/sync.rs`, the `Message` enums | bounded channels between the tasks | `Messages`, `Lists` |
| composition | `src/server.rs` | the tasks joined by the channels | `Radio`, `Server` |
| process | `src/main.rs`, `src/server.rs`, `src/api/server.rs` | `try_join!` of tasks, updater and local API; exit | `Tasks`, `Process` |
| codec | `lorawan/src/lib.rs` | frames to and from bytes | `LoRaWan` |
| reception | `src/packet.rs`, `beacon/src/beacon.rs` | what becomes of a received frame | `Reception` |
| filters | `src/router/filter.rs`, `routing.rs` | which packets a router is sent | `Routing` |
| subnets | `lorawan/src/subnet.rs` | subnet addresses to and from DevAddrs | `Subnets` |
| region | `src/region.rs` | transmit power | `RegionParams` |
| updater | `src/updater/`, `src/cmd/update.rs` | finds, downloads and installs releases | `Updater` |
| key files | `src/keypair.rs` | loads or generates and saves a key | `Keyfile` |
| onboarding | `src/settings.rs`, `src/api/`, `src/cmd/{add,info,key}.rs` | the gateway's keys, what commands ask the server | `Onboarding` |
| fees | `src/traits/txn_fee.rs`, `txn_envelope.rs` | fees of an add gateway transaction | `Fees` |

    forwarders --UDP--> gateway --uplinks--> dispatcher --uplinks--> clients --RPC--> routers
                          ^  ^                 |  ^                    |
                          |  +----- region ----+  +-- local API        |
                          +------------- downlinks --------------------+
                          |
            beaconer <--region, heard beacons-- gateway <--beacons-- beaconer

A send to a full channel waits, and a handler's sends are not in a `select!`
with the shutdown trigger. Most of what can go wrong follows from those two
facts and from the many awaits in the handlers.

### Not modelled

- Keys in an ECC608 or a TPM, signing and verifying, `sign` and `ecdh` of the
  local API: hardware and cryptography, without state of their own.
- The hash and the xor filter of `EuiFilter`: libraries. A filter is the set of
  the EUIs it answers yes for.
- What a beacon hashes and the frequency it chooses; radio metadata of a packet;
  the packing of state channel messages.
- Parsing: settings, `keyed_uri.rs`, protobuf conversions of regions, command
  line arguments, JSON. Their results are CONSTANTS.
- The contents of a downloaded release, logging, error texts, the daemon fork.
- Time: a timer fires at any moment. What depends on a rate or a duration (the
  back-off, the beacon interval, `gc` of old packets) has no property.

## How the modules follow the code

- **A task is a program counter over its awaits.** The runtime is
  single-threaded, so code between two awaits is one atomic step: one action
  is the whole stretch of a handler up to its next await, and anything else may
  run at an await. The module headers list the awaits by name.
- **A channel is a sequence with a capacity.** A send is enabled when there is a
  slot. A receiver takes the head. When a task's `run` returns, a router
  client's channel is closed (later sends fail at once), whereas the channels of
  dispatcher, gateway and beaconer stay open, because their receivers live in
  structs `server::run` owns: a sender then waits for ever.
- **An RPC is its outcomes**: an answer, or an error or timeout. A stream is
  updates in any order, errors and an end.
- **Data is abstract.** A packet is what its routing data tells apart; a routing
  is its OUI, uris and the packets it accepts; a region stands for its
  parameters; a beacon for the region it was built for. In `LoRaWan` and
  `Reception`, by contrast, a frame is its bytes.

`Lists` says what is in a channel or a list: what its receiver will know once it
has drained it (`WillKnow`), and what a filter keeps of it (`Filter`).

`Dispatcher`, `RouterClient` and `Gateway` each come with an environment that
may do whatever the neighbours can, so each is checked alone. `Radio` puts the
gateway and the beaconer together. `Server` puts all four together, using each
module's own `Step`, and checks that this refines `Dispatcher!Spec`: the real
neighbours do only what the environment in `Dispatcher` may do. The refinement
is proved, so what is proved of `Dispatcher` holds of the dispatcher in the
server.

`Process` needs only three facts about a task: whether it runs, waits for
somebody, or has returned. `Tasks` is that abstraction. `Radio` and `Dispatcher`
are shown to implement it (`RefinesTasks`), so `Process` can put the updater,
the local API and the end of the process on top without the tasks' channels.

`Onboarding` is a second composition: processes that share the key files of
`Keyfile`. One is the server, the others run commands that ask it, and each may
exit or die at any step. `Fees` prices what `add` prints.

Operators whose comment begins with `Defect:` are not part of any
specification. Each is a plausible mistake in the definition that follows it;
substituted for it, it makes TLC report the property listed with it under
`mutants`, which shows that the property depends on that code.

Modelling decisions worth knowing:

- The parameters announced after connecting are those of the region asked for
  (`region_params_for`); the code does not compare them.
- `Routing::from_proto` drops uris and keys that do not parse and never fails;
  `RoutingAt` holds routings after that. `RouterService::new` connects lazily
  and never fails, so `start_router` has no error branch.
- A streamed response that does not decode, or whose height is not newer,
  changes nothing and is a stuttering step.
- `TopOfLoop` includes the random choice of a seed; an empty list is the one
  way `Dispatcher::run` fails.
- In `Server` a client, once returned, is not started again: `Stop` is never
  sent (theorem `KeysInOwnRouting`), so a client returns only on shutdown.
- In `Updater` a release is published once and not withdrawn; the variables
  `listing` and `lost` record history for the properties.
- `try_join!` drops the other futures in the poll in which one fails, so a
  failure and the exit are one step of `Process`. A future that returned
  successfully, such as a disabled updater, is waited for no more.
- tonic's `serve_with_shutdown` stops accepting and then waits for the calls it
  has. A caller that gives up (`Leave`) ends its call.
- `fs::write` truncates and then writes: two steps of `Keyfile`, with a crash
  possible between them. A write of a few bytes is not split further.
- `used` in `Keyfile` makes a generated key a fresh one; `overlap` there and
  `advertised` in `Onboarding` record history for the properties.
- `tx_power` is computed in tenths of a decibel. A difference below zero, even
  by a fraction, gives no power: the model takes `rust_decimal` to keep the sign
  through `trunc` and to refuse it in `to_u32`.
- A DevAddr that can use its top bit is a sequence of 32 bits, since TLC's
  integers have 32 bits with sign. `U64` is a CONSTANT for the same reason.
- `netid_addr_range` adds sizes in `u32`, the model in `Nat`. The network's
  NetIDs are assumed to have fewer than 2^32 addresses together, since a subnet
  address is a `u32`; theorem `RangesDoNotOverflow` shows that the two then
  agree.
- A subnet is six bytes. `DevAddrFilter::from_bin` panics on another length, as
  `EuiFilter::from_bin` does on a filter that is cut short, and the release
  profile aborts the process on panic; the model has no such routings.
- `beacon_to_pull_resp` and `env::current_dir` fail at the model's choice.
- The number of bytes that `write` returns is not modelled.

## What is checked

| Run | Shows |
|---|---|
| `router_client` | `StoreEmpty`: nothing stays in the store at an await; `RefinesPacketQueue`: a client implements the bounded FIFO `PacketQueue`; `UplinkOffered`: a queued uplink is offered to the router, unless the client waits for ever to hand a downlink to the gateway; `ShutdownSettles` |
| `dispatcher` | `TypeOK`; `EntriesRunning`: table and running clients agree until shutdown; `RegionInSync`: clients and gateway are or will be at the dispatcher's region; `HeightsAdvance`: no older update is applied in a session; `KeyInOwnRouting`, `RoutingAtHeight`: with two OUIs sharing a router, an update replaces exactly its entries |
| `dispatcher_live` | `NoRequestLost`, `RequestAnswered`: every API request is answered or refused, unless the dispatcher waits for ever on a full channel; `ShutdownSettles`: a return, or a wait on a full channel; `RefinesTasks` |
| `gateway` | `AiredAtMostOnce`: lost and late acks never cause a second transmission; `PowerWithinRegion`: power and gain stay within the EIRP of the region in force when the task began; `TaskEnds` |
| `radio` | `BeaconerInSync`, `BeaconHasRegion`: gateway and beaconer agree on the region, and no beacon reaches a gateway without one; `GatewayWaitEnds`, `BeaconWaitEnds`: before shutdown only the circular wait of the two, a dispatcher that takes nothing from its channel and, for the gateway, an entropy fetch that does not end can hold either up; `RefinesTasks` |
| `server` | `BeaconerWillKnow`: region changes reach the beaconer; `RefinesDispatcher`, with control messages, uplinks, downlinks and beacons; `CircularWaitIsFinal`: no step, shutdown included, leaves a circular wait |
| `process` | `FirstEligible`, `NoneMeansNone`: what a search finds while releases are published, in the updater and the commands; `CleanExit`: the server exits with success only when triggered, with no caller waiting; `TriggerExits`: what can keep a triggered server from exiting, and nothing else; `CallSettles`: a call is answered unless the dispatcher has returned or is stuck |
| `onboarding` | `HeldIsSaved`: the key in use is the key in the file, unless two processes generated one for it at the same time; `TornFileStays`: a half written file gives nobody a key and is not replaced; `InfoConsistent`: the pieces info prints belong to one server run and one gateway; `TxnPriced`: the fee pays for the transaction as all three sign it, less the field of the fee itself, whatever the validator reports |
| `reception` | `FieldsInPlace`, `OptionsWithinFrame`, `ControlFramesRoundTrip`; `OwnersHear`: a frame goes to the routers whose subnets hold its DevAddr, or to the default routers; `SubnetComesBack`, `SubnetStable`: subnet addresses and DevAddrs are inverse, also as the list of NetIDs grows |

The types of `RouterClient`, `Gateway` and `Keyfile` are proved and have no run.

Three runs are expected to end in a counterexample. Each states what a comment
or a test says of the code; `findings` quotes it.

| Run | The code does not do what is said |
|---|---|
| `dispatcher_stale` | routers an update no longer lists are never removed (`retain` asks the entry's old routing) |
| `reception_roundtrip` | a data frame is written with its DevAddr twice; a long join accept loses its channel list |
| `reception_beacon` | beacons (6 to 11 bytes) are below the 12 bytes the decoder demands |

Four more disagreements can be read off the models; no run of their own is kept
for them:

- `settings.rs` promises default routers for unmatched packets; `handle_uplink`
  looks for them in the routing table only.
- `cache.max_packets` is documented as the bound on queued packets. The store is
  always empty (`StoreAlwaysEmpty`), and packets queue in the channel instead.
- `Beaconer::run` is said to return on shutdown. It may be left waiting for a
  slot in the channel of a gateway that has returned.
- A failed request for releases is logged as "no update found", because the
  filter drops the error; `NoneMeansNone` excludes such searches (`lost`).

### Bounds

Channels of 20 and 10 slots become channels of one to three. What matters is
that a channel can be empty, full, and hold a message behind another; one slot
makes every send meet a full channel, two let a newer message queue behind an
older one (`radio`), three let packets queue behind a region change
(`router_client`). `dispatcher` has one slot per channel; the theorems about it
hold for every capacity.

- `dispatcher`: two OUIs, two uris, two heights. The second routing update moves
  one OUI to the other router and changes the other OUI in place, so an entry is
  inserted, updated, and left behind; the region goes there and back. `MaxRetry`
  caps `gateway_retry`, which only sets the length of a wait.
- `dispatcher_live`: the smallest instance that still has reconnection, a routing
  and a region update, and full channels.
- `radio`: two regions, so the region can change while an older change is queued.
- `server`: one of everything, and channels of one slot. `MCConcerns` lets an
  uplink, a beacon or an API request be under way together with the control
  messages, but no two of the three; all together exceed what TLC finishes in
  minutes.
- `gateway`: one task alive at a time, since tasks share nothing once spawned; a
  region whose power has a fraction to cut off and one whose gain exceeds the
  EIRP.
- `process`: one caller. The tasks and the caller move while at most one release
  is out; with more, and when a command runs, they are still (`MCBound`). The
  parts meet only in the exit, which ends the process wherever each of them is.
- `onboarding`: a server and a command, four keys for two files; replies with a
  variable missing, repeated, unknown and of the wrong type. `U64` is 2 * 10^9.
  Keys are symmetric: they are only compared.
- `reception`: all eight types, every length from 1 to 35 (the longest the
  decoder tells apart is 33), six values of FCtrl, port zero and not, both
  checksum outcomes, an accepted and a refused data rate. Bytes are told apart
  by their position, so a swap shows. Sixteen DevAddrs at the edges of the
  routers' subnets; a NetID of each of the eight classes, with the first, the
  last and a middle address of each. The test vectors of `subnet.rs` are an
  ASSUME of `MCReception`.
- Releases (`process`): pages of two, up to three of five releases; one misses
  each condition of the filter, and one is a `beta1`.

No other symmetry is used. Deadlock is checked in `onboarding`, where commands
can always be started again. The other systems may stop: after shutdown, when
the last step has been taken, or in the circular waits that the properties speak
about.

### Fairness

- An RPC ends: `service/*.rs` sets `RPC_TIMEOUT` and `CONNECT_TIMEOUT`. Weak
  fairness on its outcomes together, on no particular one.
- `select!` starts polling at a random arm, so an arm that is ready again and
  again is taken: strong fairness for the message and the shutdown arms. Streams,
  UDP events and timers owe nothing.
- A tokio channel serves waiting senders in order of arrival: strong fairness for
  a send.
- Nothing is assumed of the tasks a module has no part in: they may stop taking
  messages at any time. `server` reaches circular waits through dispatcher,
  clients, gateway and beaconer, and nothing ends them (`CircularWaitIsFinal`).
  So the liveness properties of `router_client`, `dispatcher_live` and `radio`
  name the wait for such a task as an exception, and each exception is needed:
  without it TLC finds a counterexample. They say that nothing else can hold
  the task up.
- The entropy fetch runs curl without a timeout, and no run assumes that it
  ends: the beaconer may wait for entropy for ever.
- `process`: a wait for a task that keeps receiving ends; a ready arm of a
  `select!` is taken; binding, closing and draining are steps of tasks that are
  polled. Nothing is assumed of child processes (curl, the install command) or
  of callers.

## What is proved

For all values of the constants that satisfy the named assumptions of the
modules: capacities are positive, `None` and the marks of a file are not values,
the chain's routings, regions and parameters have their types, NetIDs have the
length of their class, devices have addresses of the NetIDs, and a u64 takes at
most ten bytes as a varint.

| Theorem | Module |
|---|---|
| `ClientTypeCorrect`: `Spec => []TypeOK` | `RouterClientProofs` |
| `StoreAlwaysEmpty`: `Spec => []StoreEmpty` | `RouterClientProofs` |
| `ClientsAreQueues`: `Spec => RefinesPacketQueue` | `RouterClientProofs` |
| `DispatcherTypeCorrect`: `Spec => []TypeOK` | `DispatcherProofs` |
| `KeysInOwnRouting`: `Spec => []KeyInOwnRouting` | `DispatcherProofs` |
| `EntriesAlwaysRunning`: `Spec => []EntriesRunning` | `DispatcherProofs` |
| `HeightsOnlyAdvance`: `Spec => HeightsAdvance` | `DispatcherProofs` |
| `RequestsNotLost`: `Spec => []NoRequestLost` | `DispatcherProofs` |
| `TableAtHeight`: `Spec => []RoutingAtHeight`, if an update has one routing per OUI | `DispatcherProofs` |
| `RegionAlwaysInSync`: `Spec => []RegionInSync` | `DispatcherProofs` |
| `DispatcherImplementsTasks`: `Spec => RefinesTasks`, if `SeedGateways # {}` | `DispatcherProofs` |
| `TypeCorrect`: `Spec => []TypeOK` (of `Gateway`) | `RadioProofs` |
| `NeverAiredTwice`: `Spec => []AiredAtMostOnce` (of `Gateway`) | `RadioProofs` |
| `NeverAboveEirp`: `Spec => []PowerWithinRegion` (of `Gateway`) | `RadioProofs` |
| `BeaconerKeepsUp`: `RadioSpec => []BeaconerInSync` | `RadioProofs` |
| `BeaconNeverWithoutRegion`: `RadioSpec => []BeaconHasRegion` | `RadioProofs` |
| `RadioImplementsTasks`: `RadioSpec => RefinesTasks` | `RadioProofs` |
| `RegionReachesBeaconer`: `Spec => []BeaconerWillKnow` | `ServerProofs` |
| `CircularWaitsAreFinal`: `Spec => CircularWaitIsFinal` | `ServerProofs` |
| `ServerImplementsDispatcher`: `Spec => RefinesDispatcher` | `ServerProofs` |
| `SearchFindsFirst`: `Spec => []FirstEligible` | `ProcessProofs` |
| `NothingIsMissed`: `Spec => []NoneMeansNone` | `ProcessProofs` |
| `ExitIsClean`: `Spec => []CleanExit` | `ProcessProofs` |
| `FieldsAreInPlace`: `Spec => []FieldsInPlace` | `ReceptionProofs` |
| `OptionsAreWithinFrame`: `Spec => []OptionsWithinFrame` | `ReceptionProofs` |
| `ControlFramesComeBack`: `Spec => []ControlFramesRoundTrip` | `ReceptionProofs` |
| `SubnetAddrsComeBack`: `Spec => []SubnetComesBack` | `ReceptionProofs` |
| `SubnetAddrsAreStable`: `Spec => []SubnetStable` | `ReceptionProofs` |
| `OwnersAreHeard`: `Spec => []OwnersHear`, if `AlignedSubnets` | `ReceptionProofs` |
| `RangesDoNotOverflow`: the sums of `netid_addr_range` fit in 32 bits | `ReceptionProofs` |
| `FileKeepsKey`: `KeyfileSpec => []HeldIsSaved` | `OnboardingProofs` |
| `FileStaysTorn`: `KeyfileSpec => TornFileStays` | `OnboardingProofs` |
| `GatewayKeepsIdentity`: `Spec => []HeldIsSaved` | `OnboardingProofs` |
| `TornFileIsFinal`: `Spec => TornFileStays` | `OnboardingProofs` |
| `InfoBelongsTogether`: `Spec => []InfoConsistent` | `OnboardingProofs` |
| `FeePaysForSize`: what `get_txn_fee` charges, for sizes and multipliers whose product fits | `OnboardingProofs` |
| `AddIsPriced`: `Spec => []TxnPriced` | `OnboardingProofs` |

`ListProofs` holds what these share: facts about channels and filters, and
induction and recursion over the naturals. Its `Induction` speaks of a set of
numbers in place of a predicate, `Recursion` of a step given as a function.
With these two the recursive functions of the models (`VarintLen`, the fold of
a validator's reply, `Kept`, the sums of `Subnets`) are shown to be defined and
are reasoned about for every input.

The arguments:

- **Router client.** `IInv == TypeOK /\ StoreEmpty` is inductive. The key lemma,
  `StoreThenPop`, says that storing into an empty store and popping leaves it
  empty for every `MaxPackets`, zero included.
- **Keys.** `KeyInOwnRouting` is inductive with `TypeOK`: `WithRouting` writes a
  routing only under keys it lists, hence (`UpdateRemovesNothing`) `Removable` is
  empty.
- **Running clients.** From that, `NoStop` (no Stop is queued or about to be
  sent) is invariant, so clients return only on shutdown and the table and the
  running set grow together.
- **Heights.** `NewerUpdate`: while an update is worked on, its height is above
  `routing_height`, which is what makes the final assignment an increase.
- **Table.** `PartlyInTable`: what is left of the update in hand is the end of
  the chain's list, and what has been done is in the table. The next routing
  replaces none of those, because it is of another OUI.
- **Requests.** Taking the head of the channel keeps every other message
  (`QueuedKept`), and the head's request is answered or becomes `job`.
- **Region.** The invariant is split into `ClientsInSync`, `GatewayInSync` and
  `AllToTell` (when the update's first send is due, every entry is still to be
  told). `AppendKnows` and `TailKnows` say what sending and receiving do to
  `WillKnow`, the statement "the last message of this kind in the channel, or if
  there is none the current value, is r".
- **Gateway.** `OwnOK` types the gateway's own state, `TasksOK` its tasks.
  `NotYetAired` (a packet that may still be sent has not been on air) makes
  `AiredAtMostOnce` inductive. `PowerWithinRegion` is, because a task keeps the
  region and the power it began with.
- **Radio.** `IInv` is types, `BeaconerInSync` and `BeaconHasRegion`. The last
  needs the first two: a beacon is built for a region the beaconer was told, and
  it was told by a gateway that has kept it.
- **Implementing `Tasks`.** A program counter determines a task's status. One
  lemma per module says which statuses a status may become. Without seeds the
  dispatcher fails before the trigger, hence the assumption in its theorem.
- **Region through the server.** Two channels lie between dispatcher and
  beaconer. `GatewayWillKnow` follows the region to the gateway,
  `BeaconerFollows` from there to the beaconer; `JoinKnows` joins the halves. A
  change that the gateway holds until the beaconer has a slot counts as taken
  (`Told`).
- **Circular waits.** Each task in the circle waits in a send that only the
  receiver's next receive can complete, and the receiver is in the circle.
  `WaitStep` goes through the steps of all others: none takes from the channels
  concerned.
- **Server implements dispatcher.** One lemma per task says what its step does
  to the channels it shares (`DispatcherEffect`, `ClientEffect`,
  `GatewayEffect`, `BeaconerEffect`). In the gateway's channel a message of
  another sender counts as a downlink (`Seen`). `ClientRefines`,
  `GatewayRefines` and so on show each effect to be a step of the environment in
  `Dispatcher`, or none.
- **Packet queue.** The mapping takes the uplinks out of a client's channel and
  appends them to its store. `FilterAppend` and `FilterTail` say what a filter
  does with a message sent and taken; then each step of a client is one of
  `PacketQueue` or leaves its queue as it is. That an offered packet is the head
  of the queue rests on `StoreEmpty`.
- **Search.** Releases are listed newest first, so what was published since the
  first page (`Since`) moves the rest back. `Searched` says that the list as the
  first page found it is still there, `Since` places further on, and that of the
  part of it within the pages fetched so far (`Covered`) nothing passes the filter
  that has not been printed. A publication keeps this: it moves releases out of
  the covered part, never into it.
- **Exit.** `ExitInv`: exit code 0 means that all futures have returned; the API
  server drains and returns only after the trigger, and not before the last call
  has ended.
- **Reception.** `PartOfPart` and `PartsMeet` say what parts of parts, and parts
  that meet, are; the reads and writes of the codec are such parts. One lemma
  per type of frame gives all its fields as offsets in the frame
  (`JoinRequestFacts`, `JoinAcceptFacts`, `DataFacts`, `ProprietaryFacts`).
  The invariant is that a frame is bytes, that the frame of a device with a
  subnet address is the uplink of its DevAddr, that a data frame to be routed is
  long enough to have a DevAddr, and the two properties themselves.
- **Bits.** The prover does not interpret 2^k. `PowerTable` lists the powers up
  to 2^32, `BitFacts` splits a number into its last bit and the rest, and
  `ValueOfBits` shows by induction that the running sum `Values` of a number's
  bits is the number. `BytesBack` does the same for the four bytes of a word.
- **DevAddrs.** `DevAddrBits` gives each of the 32 bits that `devaddr` makes: the
  prefix of the class (its ones and the zero), the id, the address. `DevAddrBack`
  then takes them apart again: the first zero is the prefix's, so `netid_type`,
  `parse_netid` and `nwk_addr` find the class, the NetID and the address.
- **Ranges of NetIDs.** `SizesNext` gives the running sum over the list its
  recursive equation, `RangeIs` the range of a NetID as two neighbouring sums at
  its first place in the list. An address in use is in the range of the NetID
  found for it (`FoundIs`), so subtracting its lower end and adding it again
  cancel (`SubnetBack`). A list that is the beginning of another has the same
  sums (`EarlierSizes`), hence the same ranges and the same NetID found
  (`StaysAssigned`). A NetID that is in the list twice is covered.
- **Blocks.** A block is aligned (`AlignedSubnets`) when its mask is ones followed
  by m zeros and its base ends in m + 2 zeros. Then to be within base and
  base + 2^(m + 2) is to have the base's quotient by 2^(m + 2) (`Block`), and that
  is to agree with it in every bit from m + 2 on (`BitsAgree`), which are the
  bits in the mask (`MaskBits`). For masks with holes the range and the mask
  differ: the hypothesis is needed. The code does not check it; the ledger that
  allocates the blocks guarantees it, and `MCReception` states it of its
  instance.
- **Key files.** `Alone`: without an overlap, a file that a process is generating
  a key for holds no key and is written by it alone, so no key that is held is
  overwritten. The server and the commands of `Onboarding` take only steps of
  `KeyfileSpec`, and inherit the two theorems.
- **Info.** `ServerInv`: while the server serves, its two keys are a pair it has
  advertised. `CommandInv`: what is printed comes from the cache, and each entry
  of the cache is one answer.
- **Fee.** `ConfigIsReported`: after n variables of a reply the configuration
  holds what the last of them with each name said. `VarintLenIsDefined` gives
  the length of an encoded number its recursive equation, and `VarintLenOfU64`
  bounds it. By `SignedSize` a signed transaction is 306 bytes and the fields of
  its two fees: the prefix that holds its length takes two bytes with the fee
  and without, so the size `txn_fee` measures, with the fee at zero, is that of
  the final transaction less the field of its fee. `AddIsPriced` combines this
  with `FeePaysForSize`. The field of the fee is not paid for: a data-only
  transaction with the default fees has 310 bytes without it, which is 13 units
  of 24, and 314 with it, which is 14.

Only model-checked:

- Everything that needs fairness: `UplinkOffered`, `RequestAnswered`,
  `ShutdownSettles`, `TaskEnds`, `GatewayWaitEnds`, `BeaconWaitEnds`,
  `TriggerExits`, `CallSettles`. The prover has no rules for liveness or ENABLED
  that reach them.

Every other property of the passing runs is stated by a theorem.

## Plan

Modelled: every task, its channels and composition, the process around them, the
codec and reception with filters and subnets, the updater and its commands, key
files and onboarding. What is left out is listed under "Not modelled".

Nothing that a run checks and the prover can reach is left unproved. `contains`
masks an address with `BITS_23`, so `OwnersHear` speaks of the first 2^23
addresses; more can be said once it is settled what is meant for the others.
