# H.264 over UDP: specification

TLA+ modules for the C++ program in this repository: a client that cuts an H.264 stream into blocks
and sends them over UDP, raw or Reed-Solomon encoded, and a server that puts the NAL units together
again, plays them and counts. Every definition is translated from the source; `PROJECT.json` (`map`)
names the lines. TLC checks small instances; TLAPS proves every safety property of the passing runs for every
value of the constants.

## 1. Inventory

| part | source | state | operations | hard because |
|---|---|---|---|---|
| Player: assembly and playback | `common/video/Player.h` | `_assembling`, `_readyNalus`, `_nextNaluIndex`, `_stop`, `_playerThread` | `AddBlock`, `Run`, `Start`, `Stop` | two threads and an owner; a timed wait; lost, late and repeated blocks |
| Display (decoder and renderer) | `common/video/Player.h` from 204 | codec context, window, texture, sizes | `DecodeAndDisplayNalu`, `RenderFrame`, ... | errors of FFmpeg and SDL half way |
| Server process | `server/server.cpp` | `packetQueue`, its mutex and condition variable, the decoder | receiver thread, processor thread | producer and consumer, untimed wait, ids of 16 bits |
| Client process | `client/client.cpp` | the current block, `packetIndex` | reader thread | loop bounds, failures that are not reported |
| StreamReader | `common/video/Stream.h` | stream buffer and offset, current unit, indices | `Open`, `ReadTo`, `Close` | start codes, boundaries of packets and blocks |
| Socket, Packet | `common/socket/` | the sockets | constructors, `Send`, `ReceiveNonBlocking`, compose, decompose | loss, delay, receive buffer at its limit |
| Statistics | `common/statistics/Statistics.h` | counters, `_mutex`, file, write thread | `SetFilePath`, `RegisterCounter(s)`, `Start`, `Increment`, `WriteLoop`, `Stop` | reads that are no snapshot, join under a lock |
| Config, Parser | `common/config/` | the options | read once at start | ranges and truncations, a log level that takes effect half way |
| Logger | `common/log/Logger.h` | level, file | `log` | nothing reads it |
| Monitoring | `monitoring/monitoring.py` | - | plots ratios of the columns | relies on Statistics |

How they interact: the client's reader thread calls `StreamReader.ReadTo` and `SocketInterface.Send`.
The server's receiver thread calls `ReceiveNonBlocking`, appends to `packetQueue` and notifies; the
processor thread waits on it, decodes and calls `Player.AddBlock`; the playback thread shares the
player's maps with it under `_assemblyMutex`. All three count in `Statistics`, whose write thread reads
the counters under a reader-writer lock. rscoder, FFmpeg, SDL and the network are external.

What makes each part correct:

- Player: units reach the decoder whole, once and in order; a unit that is complete in time is not
  jumped over; skips and assembled units stay in proportion; `Stop` returns.
- Server: each datagram leads to at most one block, a block has its own data and indices, no wakeup is
  lost, the queue drains.
- Whole system: what can be recovered is played; what is complete and awaited is played.
- Client and StreamReader: the blocks sent rebuild the stream, each sent once under each share, in order.
- Display: each decoded frame is shown once, in order, on a texture of its size; nothing in use is freed.
- Packet: a block arrives to the byte, with its own indices, or not at all.
- Config: a program runs with what its file says, or refuses the file and says why.
- Statistics: lines grow, show what was counted and keep the ratios that are plotted near their range;
  shutting down ends.

`PROJECT.json` (`hazards`) lists what is hard to test in this code, line by line, with the properties
that cover it.

## 2. Modules

| module | models | composes |
|---|---|---|
| `Playback` | what playback promises, abstractly | |
| `Player` | `AddBlock`, `Run`, `Start`, `Stop` | implements `Playback` |
| `Server` | both threads of the server, queue, Reed-Solomon decoder | extends `Player`, implements it |
| `Testbed` | one client run, the network, the server | extends `Server` |
| `Statistics` | configuration, counting, write thread, stop | |
| `StreamReader` | demuxer to blocks | |
| `Client` | the reader thread of the client | extends `StreamReader` |
| `Display` | construction, window, `DecodeAndDisplayNalu` | below `Player` |
| `Packet` | the bytes of a datagram, both ways | below `Client` and `Server` |
| `Config` | the constructors of both `Config` classes | |
| `PlayerProofs`, `ServerProofs`, `TestbedProofs`, `DisplayProofs`, `ConfigProofs`, `StatisticsProofs`, `PacketProofs` | theorems about the module named, and proofs | |
| `ClientProofs` | the same for `StreamReader` and `Client` | |
| `MC*` | constants for TLC | |

An operator introduced by a comment that starts with "Mistake:" is no part of a specification. It is the
definition that follows it, got wrong in a way a programmer might; put in that definition's place it
makes a property fail. `PROJECT.json` (`mutants`) says which.

### Player

A unit index maps to a sequence in `assembling` and `ready`; the empty sequence is "no entry" (a unit has
at least one block). Data is abstracted to its origin `[stream, nalu, block]`, so that a property can ask
whether a unit was put together of the right pieces. A critical section of `_assemblyMutex` is one
action; `wait_for` splits it: `EnterWait` (predicate under the lock), `Wait` and `FallAsleep`, then `WakeUp`
after a notification or `Expire` and `TimedOut` after the timeout, each of which takes the lock again and
evaluates the predicate. In between `AddBlock` may run. `Stop` is three actions because it works without the mutex.
`Start` is two: the thread runs before it is assigned to `_playerThread`, and until then `Run` would read
the stop token of the thread before (`token`). That read is a data race in the code; it matters only after
a restart, which `server.cpp` never does. `displayed` is a history variable.
`ReturnsForAReason` says that playback ends only when it was told to or for want of a window, with that
restart as its one exception. `AwaitedUnitIsKept` lets a ready unit change in one way: the same index assembled
whole once more, from late or repeated blocks or those of another run, overwrites it (Player.h:103).
`SkipsArePaidFor` is about the counters at every instant. The lines of the statistics file are no snapshots:
`assembledNalu` is read before `skippedNalu`, so the ratio plotted from them may still be above 1.

`sleep_until`, SDL events other than `SDL_QUIT`, log messages (with the `it->first` that is read after
its erase, Player.h:175) and the branch at Player.h:176, which no state reaches, are left out.

### Display

The owner constructs, starts, stops and destroys the player; the playback thread makes the window, handles
units and destroys the window. Which unit comes and when the loop ends is `Player`'s business, so both are
left open here. A frame is a number and a format; the decoder keeps a sequence of frames it has ready, makes
any number of a packet, may refuse input while output is unread, and may fail at every call. `rendered` says
which texture each frame was shown on. `amiss` remembers what went wrong and was not made good: it is a
history variable, and `FramesFitTexture` uses it to name exactly when a frame goes without its texture.

The scaling context (`sws_getCachedContext`, Player.h:365) is made and never used: a frame whose pixel format is
not planar 4:2:0 is copied into the texture as if it were. The models leave the context out.

### Packet

Real bytes: a header is the 16 bytes of the packed struct in network order, a datagram a sequence of bytes.
Only `BlockSize` is scaled, 16 for 1024, with `FieldSize` an eighth of it as in the code. The server's
`receivedMessage` keeps what earlier calls left behind the bytes of the last datagram. The encoder and decoder
of rscoder are external: the first eight payloads are the block itself, filled up with zeros (parity is in
`Server`); the source relies on payloads of `fieldSize` bytes, since composePacket copies as many whatever their
length, and the model does not offer shorter ones. Stray datagrams are those decomposePacket refuses (`StraysAssumption`); a datagram of another program that is a
well formed packet is a block like any other, as is one longer than the buffer that `recv` cuts to a well formed
packet. `Id` is what rscoder collects the payloads under: the lower 16 bits of `naluIndex` in front of those of
`blockIndex`, with the upper 16 bits of `blockIndex` or-ed into the former.

The comment in Packet.h:35 says of a packet with encode mode false that the header is 1 byte instead of 6; the
struct and both directions of the code have 16 bytes in either mode.

### Config

A file is a map from sections and fields to values, a value its type and a number; a section's own value
stands under the key `itself`. `ClientSteps` and
`ServerSteps` list what the two constructors read, in their order; the actions are the one pass over that list
that both constructors spell out. Members are cut to their widths (`Stored`), the log level takes effect when it is
read, and `silent` says whether the error that ended the process was below it. `counters` is a list of lists of names:
list 0, the five default ones, to which the file's list is appended (`Updated`, Config.h:394-400).

### Server

`rx` is the socket's receive buffer. Receiving, pushing and notifying are three actions, as the mutex is
released before the notification. The processor's untimed wait is a state of its own. rscoder is external:
it collects the shares of an id and returns the block once it has `Needed` different ones; whether it then
remembers the id or starts over is a choice (`Forgets`), as the source does not tell. Shares of two
blocks under one id decode to the data of neither. `IdUnits` stands for the 2^16 units an id tells apart:
unit `n + IdUnits` has the id of unit `n`.

### Testbed

`SendDatagram` takes the next datagram of the client run and lets the network deliver, lose or (if the run
is in `Delayed`) delay it; `ArriveLate` delivers a delayed one. A corrupted datagram fails the UDP checksum: a
loss. `Sent`, the order of a client's datagrams, is a constant here; `Client` shows (`SentInOrder`) that the
client keeps to that order.

### Statistics

`lock` is the long holder of `_mutex`; `Increment` holds it shared for a moment, and so can happen between
two reads of the write thread but not while `main` is in `Stop`. Reading the counters is one action per
counter. `AddBlock`'s increments are three actions in its order. `missing` holds the empty positions of the
entries in `_assembling`, of any number of units at once; a block fills one, repeats a block (and overwrites it),
or has an index past the size its entry was made with and is dropped. The last two are counted as accepted and
nothing is expected for them: the history variable `surplus` counts them. A unit may have different block counts
in two client runs (`Totals`). The catch branches are left out: the
stream is not told to throw, so they need an allocation to fail.

### StreamReader and Client

Bytes are 0, 1 and 2 (any other). The demuxer's packets are chosen when the stream is opened; an error of
FFmpeg is possible at every read. The bit stream filter passes packets on. The code takes a unit to end at
the end of what is buffered, without waiting for more: it relies on FFmpeg's packets holding whole units,
and so does `Sources` (assumption `SourcesAssumption`: a unit starts with its only start code and does not
end in a zero byte). `Client` adds the loop of the reader thread; a `Send` that fails is a datagram less,
and nobody is told (Interface.h:96, 110). A refused payload leaves `packetIndex` as it is; all payloads of
a block have one size, so all or none are refused.

## 3. Runs

| run | instance | shows |
|---|---|---|
| `player` | 3 units, 2 client runs with units of 1 and 2 blocks of different lengths, 5 calls of `AddBlock` | `ImplementsPlayback`, `AwaitedUnitIsKept`, `SkipsArePaidFor`, `ReturnsForAReason`, `StopReturns` |
| `server` | 2 encoded units, 2 shares each, both needed, decoder that may forget, 4 datagrams in any order, receive buffer of 1 | `ImplementsPlayer`, `NoLostWakeup`, `EveryBlockHasItsPacket`, `QueueDrains` |
| `testbed` | a raw run (units of 2 and 1 blocks) or an encoded one (3 shares, 2 needed), loss, no delay | `NoStaleUnit`, `AwaitedUnitIsPlayed`, `RecoverableVideoIsPlayed` |
| `testbed_late` | a raw run with delay (units of 2, 1 and 1 blocks), or an encoded one in order whose third unit has the decoder id of the first (2 shares, both needed) | `BlocksAddUp`, `StaleUnitsComeOfSkips`, `MixedOnlyAfterLoss` |
| `testbed_delay` | the raw run of `testbed` with delay | `AwaitedUnitIsPlayed` fails (finding) |
| `statistics` | 5 default counters and a repeated one, 4 packets, blocks of one unit, of 2 blocks or 3, once, again or not at all | `AcceptedWithinExpected`, `ColumnsGrow`, `CountShows`, `StopEndsOrHangs` |
| `stream_reader` | blocks of 3 bytes, up to 3 units of 4 to 7 bytes, 3- and 4-byte start codes, zeros in the payload | `BlocksRebuildUnits`, `EndMeansAllRead` |
| `client` | blocks of 4 bytes, 1 or 2 units of 1 or 2 blocks, amount 1 of 3 payloads | `SentInOrder`, `EverythingIsSent`, `ClientShutsDown` |
| `display` | 2 sizes and 2 pixel formats, 3 frames, 3 units, 2 threads one after the other | `FramesFitTexture`, `EveryFrameShownOnce`, `NothingInUseIsFreed`, `HandlingEnds` |
| `config` | client.json and server.json, any two values of a correct file replaced by any of 18 | `RunsAsConfigured`, `AcceptsWhatSchemaAllows`, `FaultsAreTold` |
| `packet` | blocks of 16, 15 and 1 bytes, raw and encoded, 2 in one behaviour, 1 datagram lost, 1 stray one | `BlocksArriveUnchanged`, `EveryBlockArrives` |
| `client_amount` | the same as `client`, encoded | `AtMostAmountPerBlock` fails (finding) |

Bounds and why they are enough. Five blocks complete a two-block unit and skip, repeat or mix the units
around it; three units make "earlier", "expected" and "later". Two client runs of different lengths reach the
rejected block and the unit of mixed origin. In the server four packets let two threads be at any distance
from each other and one block be decoded twice; the receive buffer of one datagram is full at once. Block
sizes of 3 and 4 bytes against units of 4 to 8 give units below, at and above a multiple. Four packets
are enough for the columns of `AcceptedWithinExpected` to be read apart, for a unit to be assembled twice, and for
repeated or dropped blocks to take accepted past expected + 1; two units with open entries at once are left to
the proof, which is of any number. An id space of two units comes round within three. Three frames
make a first format, a change and a return to it, across a refusal and a restart. Two replaced values let the
log level meet a fault after it. Two blocks let a datagram find the bytes and the payloads of another. The bounds on
otherwise endless behaviour are `MaxBlocks` and `MaxPackets` (guards of `ReceiveBlock`, `AnyArrival`,
`CountPacket`), `MaxFrames`, `MaxUnits` and `MaxStarts` in `Display`, `MaxBlocks`, `MaxLost` and `MaxStrays` in
`Packet`. Deadlock is not checked where the system really ends or falls silent: no datagram any more after
`MaxPackets`, a process that has exited, a stream at its end, a player destroyed, a file read.

Fairness. Threads of a process are scheduled: weak fairness of each thread's steps. The timeout of
`wait_for` runs out (part of the playback thread). `SendDatagram` is fair, the client comes to its end; a
delayed datagram is promised nothing. The processor thread has strong fairness: `AddBlock` needs
`_assemblyMutex`, which the playback thread holds for moments only and leaves free while it sleeps. In
`Statistics` the destructor's `Stop` has strong fairness, because the write thread leaves the lock free for a
second between two lines. In `Display` a step of `DecodeAndDisplayNalu` that does not fail is fair: its calls
return. Nothing is assumed of the network, of SDL events, or of when an owner calls `Start` and `Stop`.

### What came out

- `testbed_delay`: README.md (of the repository) lists delay among the simulated impairments and says the
  server plays video from the received packets. When a datagram is late by more than the timeout, playback skips
  its unit; the unit then becomes ready, stays the first key of `_readyNalus`, and neither the predicate
  (Player.h:159) nor the skip (Player.h:185) looks past it. Playback stands still for good. The same
  happens when the decoder returns a block a second time after its unit was played, and when a client is
  started again. `testbed_late` shows that a skip has to come first.
- `client_amount`: client.cpp:90 breaks after the packet with index `packetAmount`; one packet more is sent than
  json-schema/client.json:69 says.
- Shown, without a text that says otherwise: `Statistics::Stop` can wait for ever in two ways
  (`StopEndsOrHangs` names them); a read error looks like the end of the stream (`EndMeansAllRead`); the
  ratio of accepted to expected blocks exceeds 1 by the one block `AddBlock` is at, and by every block that
  is repeated or dropped, which `AddBlock` counts as accepted and not as expected (`AcceptedWithinExpected`).
- `FramesFitTexture`: frames are rendered with no texture after `SDL_CreateTexture` failed once, and after a
  restart, as the format is remembered longer than the texture; frames that an earlier unit left in the decoder
  are rendered on the texture of another size when they are read to make room (Player.h:310).
- `RunsAsConfigured` holds of every field but two. The gap is read under `level` (Config.h:206) while the schema
  calls it `gap`. The counters of server.json are appended to the five default ones (Config.h:394-400), where the
  schema has a list that takes their place as its default; what the property says of them is what the code does. `AcceptsWhatSchemaAllows` holds in one direction only: amounts like 264 are accepted as 8
  (`_packetAmount` is a `uint8_t`, Config.h:199), ports are cut to 16 bits, and what the schema does not know
  is ignored.
- `FaultsAreTold`: a log level above 3, which the schema allows, silences the error a faulty file ends in.
- The decoder's ids do not keep blocks apart: server.cpp:110 shifts the unit index out of them from unit 65536 on, and a
  second client run uses the ids of the first. With repeated ids `ImplementsPlayer` fails (its configuration stays inside
  the limit) and units are made of mixed data. `MixedOnlyAfterLoss` says when, for one run in order against a decoder that remembers: two blocks
  meet under an id only if of the earlier one too few datagrams arrived to decode it. Nothing of the kind holds
  of delayed datagrams or of a client started again.

## 4. Proofs

`PlayerProofs` proves, for any sets of units and streams and any sizes, from the assumptions in `Player`
(indices are naturals, sizes are positive, `NoBlock` is not a block):

- `TypeCorrect`, `PlayerImplementsPlayback`, `AwaitedUnitKept` (with `AddBlockReplaces`: what `AddBlock` puts in the
  place of a ready unit is a whole unit of the same index), `SkipsPaidFor`.

`StepKinds` first reduces every step to one of five kinds: a block received, a unit taken, a unit skipped, a
unit given to the decoder, or a step that only moves a thread or a flag. `Inv` is `TypeOK` with `Units` (what is
being assembled is part of a unit with every block at its place, what is ready or taken is a whole unit) and
`Order` (the indices displayed increase and lie below the unit taken, which lies below `_nextNaluIndex`):
`ImplementsPlayback` needs both, as the step that displays sees neither the blocks nor the earlier
units. `SkipsArePaidFor` is not inductive: a skip could follow a skip. `Payment` counts the units
that were taken: each skip leads to a ready unit that is taken before the next skip, and every taken or
ready unit was assembled.

`ReturnIsExplained` proves `ReturnsForAReason`; its invariant, `RequestIsOld`, says that the stop token a thread
can see as raised is that of a thread before it, and only before `Start` has assigned its own.

`DisplayProofs` proves, for any sizes, formats and bounds, `TypeCorrect`, `NothingFreedInUse` and `FramesFit`. The
invariant joins `Lifecycle`, which ties the decoder, the window and the texture to where the two threads are, to
`TextureExcused` and `LeftExcused`: whenever a texture is missing, or frames of an earlier unit wait in the decoder,
`amiss` says why. `FramesFit` is not inductive without them.

`EveryFrameShownOnce` is proved as `FramesShownOnce`: what was rendered, what the decoder has ready and what was
dropped are, in this order of `made`, all the frames there are.

`ServerProofs` proves, for any constants:

- `NoWakeupIsLost` and `BlocksHavePackets`, from `ThreadInv`, which adds that each thread holds a packet exactly
  where its code does (`Hands`), and `ServerTypeCorrect`;
- `ServerImplementsPlayer` and `ServerImplementsPlayback`, under `OneShortRun`: there is at most one
  encoded client run and it has no two units with the same id. This is the limit of the code (the id is 16 bits of the unit index), and
  without it the properties fail; that the ids of such a run differ is then a step of the proof. `SharesUnderTheirId` says that the decoder keeps a share where its block's id
  puts it, and every packet on its way is of a block that was sent; so what is decoded is that block. The two
  implementations also suppose `MaxPackets <= MaxBlocks`, two bounds of the model and none of the code.

`TestbedProofs` proves of a client run against the server, for any stream that is sent in order (`SentInOrderAssumption`,
which is what `DatagramsInOrder` shows of the client):

- `NoUnitIsStale`: without delay no unit becomes ready after playback has passed it;
- `SkipsMakeUnitsStale`: with delay it does so only after a skip;
- `EveryBlockAddsUp`: of the units that had a block arrive, every block expected is accepted or still missing;
- `MixingNeedsLoss`: without delay, and for any `IdUnits`, shares of two blocks meet under one id only if too few
  datagrams of the earlier block arrived.

All four suppose `Remembers`: the run is raw, or the decoder does not return a block twice. `BedInv`
follows the datagrams through the network, the receive buffer, the queue and the processor thread (`Pipe`, `Away`): none
is in two of these places (`EachOnce`), and the position of one whose block the decoder does not remember is still free
(`FreshIsMissing`). Without delay they are in the order of their units (`UnitsInOrder`) and none is of an earlier unit than
one that is ready (`ReadyIsPast`), so playback never passes a unit of which datagrams are still to come (`NothingPassed`).
`DecoderInv` adds what the decoder holds: never enough under one id (`TooFew`), only of units no later than those to come
(`OfEarlierUnits`), and every datagram that arrived is in the pipe, collected, or of an id that is done with (`AllAccounted`).
So when a later block comes under the id, all that ever arrived of the earlier one is collected, each datagram under a
share of its own, and that is too little.

`StatisticsProofs` proves `TypeCorrect`, `RatioBounded` and `FileGrows` for any counters whose list has the accepted
blocks before the expected ones (`OrderAssumption`, the order in Config.h): the column of
accepted blocks is read before that of expected ones, which can only have grown meanwhile, and but for the surplus `AddBlock` is
never more than the one block it is at ahead of what it expects: what it expects is accepted without surplus, or missing
(`Balance`, over any number of open units).

`ClientProofs` proves, for every block size, every stream of whole units (`SourcesAssumption`), every way the demuxer
and the filter deal it out, and every `Amount`:

- of the reader: `ReaderTypeCorrect`, `UnitsAreRebuilt` and `NothingStaysBehind`. The invariant `Flowing` says where the units
  are that are not handed out yet: the rest of the unit being cut, the stream buffer, the packet, the filter
  and the source hold, in this order, exactly the units from the current one on, each with its start code. That the
  search for a start code ends at the next unit and nowhere inside of one is a lemma about `FindUnit`;
- of the client: `ClientTypeCorrect`, `DatagramsInOrder` (where the three loops stand bounds what was sent: `Positions`),
  `ClientUsesTheReader` (its steps are steps of the reader, which carries the reader's theorems over) and
  `TheStreamIsSent`: what was handed out before the current block was sent under each of its shares (`AllShares`).

The last of these need that a bounded sum or the sequence that `FlattenSeq` joins is what its elements make it. That is
induction over data; the library's induction theorems take an operator, so these lemmas argue with the least
number that is a counterexample instead (`LeastNumber`, `NumberInduction`), over sets of numbers.

`ConfigProofs` proves, for every correct file and every pair of changed values, `TypeCorrect`, `RunsWithItsFile`,
`AcceptsTheSchema` and `ToldUnlessSilenced`. The run looks at the two files of `MCConfig` with 18 values; nothing
in the proof depends on them. `ConfigInv` says of a pass that has come to step `at` that every field before it
holds what the file gives, or its default, that every later one is untouched (`Passed`), that a field is only
looked at inside a section that is an object (`Inside`), and that the level is the file's (`LevelOfFile`). The lemmas
about the two tables (which member, type and key stand in which row) are what makes a step on one field leave
the others alone; `SchemaFits` says that a value the schema allows has the type asked for and survives its width.

`PacketProofs` proves `AddedAsRead` and `AllAdded` (`BlocksArriveUnchanged` and `EveryBlockArrives`) for every block
size that is a multiple of 8 below 65536, any blocks whose fields fit their 32 bits, payloads of rscoder of any excess
length and any datagrams that decomposePacket refuses. Both suppose `DistinctIds`: no two blocks of the stream have the
same id. It is the limit of the code that `OneShortRun` states for the server; the run's blocks stay inside it.

- Of one datagram: writing a header's fields byte by byte and reading them back is the identity within their widths, and
  so a datagram comes out as it was composed whatever the buffer held before (`DatagramArrives`); what stood behind a
  datagram never turns a stray one into a packet (`StrayIsNothing`); the payloads of a block, each read back,
  put the block together again (`RsComesBack`, `RawComesBack`).
- Of the whole way, over tickets `<<i, k>>`, the k-th payload of the i-th block read: all that is in the receive buffer,
  in the packet and in rscoder is a ticket's or a stray (`UnderWay`); what stands behind in the buffer was sent later
  (`InOrder`); what is still to be handled is not of an earlier block than one that was added (`AddedFirst`); rscoder holds
  no complete block (`NoneComplete`); and as long as nothing was lost every ticket is somewhere (`NothingMissing`). A
  block is then added when its last payload is handled, and that is before any payload of a later block.

Only model-checked: the liveness properties (`StopReturns`, `QueueDrains`, `AwaitedUnitIsPlayed`,
`RecoverableVideoIsPlayed`, `CountShows`, `StopEndsOrHangs`, `ClientShutsDown`, `HandlingEnds`), which the prover
cannot do. The two findings are counterexamples, so there is nothing to prove.

## 5. Not modelled

FFmpeg, SDL, rscoder and rapidjson beyond what the code needs of them. Logger, but for its level and path:
nothing reads the log. Monitoring: it plots. The overloads of Send and Receive, `Statistics::Set` and `Get`,
`Player::IsFinished` have no caller. The end of the server's threads: `running` is never set to false. `exit(1)`
in `Statistics::Start` while the playback thread runs is modelled on the side of `Statistics` only. Unit indices
past 2^32 and units of more than 2^16 blocks.

## 6. Plan

Done: every component that keeps state, and the proof of every safety property of the runs. What is left:

1. A client restarted against a running server, as a run of `Testbed` with two client runs one after the other.
