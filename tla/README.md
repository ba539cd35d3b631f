# Race Control System Hardware: a TLA+ verification project

The repository is the firmware of the race-control network: ESP32-C6 nodes, one
per kart plus one *root*, joined by ESP-MESH. The root bridges the mesh and an
MQTT broker. This directory holds TLA+ modules translated from that firmware,
the TLC configurations that check them on small instances, and proofs checked
by TLAPS that hold for every value of the constants.

## 1. Inventory

All tasks run on one core (`CONFIG_FREERTOS_UNICORE=y`), preemptively.

| Component | Source | State | Operations | What makes it correct |
|---|---|---|---|---|
| Data relay | `main/mesh.cpp` 3-170, `main/mqtt_app.cpp` 30-68 | `rx_buf`, `tx_buf`, `mesh_root_addr`, `mqtt_handle`, the mesh stack's queues | `mesh_send`, `mesh_broadcast`, `mesh_send_root`, `esp_mesh_rx_main`, `MQTT_EVENT_DATA`, `MQTT_AppPublish` | a kart answers TRACK messages only, each at most once, in order; the root never forwards its own broadcast; a failed send stops nobody else; a full queue of a leaf delays a broadcast and does not stop it |
| Publication of a reply | `mesh.cpp` 94-102, `mqtt_app.cpp` 61-68 | `rx_buf`, never cleared | `esp_mesh_recv`, `std::format`, `strlen` in the client | what is published is the packet, under the kart's own topic |
| Node boot and events | `main/main.cpp`, `mesh.cpp` 172-395, `mqtt_app.cpp` 104-114 | flash, `netif_sta`, `mesh_current_addr`, `is_mesh_connected`, two `static` started flags, the default event loop's queue | `app_main`, `initialize_wifi`, `start_mesh`, `mesh_event_handler`, `ip_event_handler`, `esp_mesh_comm_start`, `esp_mesh_comm_mqtt_task_start` | boots after any crash; one task of each kind; nothing runs before what it needs; MQTT on the root only |
| MQTT session | `mqtt_app.cpp` 3-23, 70-102 | `is_mqtt_connected`, the client, the session's subscription | `mqtt_app_start`, the two second poll, `MQTT_EVENT_CONNECTED`, `_DISCONNECTED` | ends up subscribed whenever the broker stays up; never ends a good session |
| RX LED | `main/indicator.cpp` | `rx_led_handle`, the task's notification | `start_rx_led`, `notify_rx_led`, the blink loop | every packet is followed by a flash; returns that were merged are not flashed twice; the LED never stays on |
| Ethernet start | `main/eth_spi_driver.cpp` | `eth_driver_started`, `eth_start_handle` | `init_eth`, the GPIO's ISR and task (never set up) | nothing the mesh needs is left behind; what happens without a W5500 is known |
| Protobuf coding | `components/nanopb` (vendored), `proto/` | streams with their limits, field iterator, the struct's bytes | `pb_decode`, `pb_encode` and below | decode(encode(m)) = m; the struct is what the protocol buffers rules say; no read or write past a stream; a message cut short is not taken for a whole one |
| Antenna, build files | `main.cpp` 21-29, `sdkconfig` | none | four GPIO writes | not applicable |

How they interact:

- `mqtt task` (created by `ip_event_handler`) starts the esp-mqtt client and polls
  it. The client runs `MQTT_EventProcess` on *its own* task, with the client's
  recursive API lock held; `esp_mqtt_client_publish` takes the same lock.
- `/track` payloads go `MQTT_EVENT_DATA` -> `mesh_broadcast` -> every entry of the
  routing table, the root included.
- Replies go leaf receive task -> root's queue -> root receive task ->
  `MQTT_AppPublish` -> `/kart/<mac>`.
- The event loop's task runs the handlers; they start the tasks and write the
  variables the receive task reads. Variables are plain statics without locks
  (`route_table_lock` is created and never taken).
- The receive task notifies the LED's task whenever `esp_mesh_recv` returns, with an
  error too, then decodes a packet with `pb_decode` into `recv_msg`; a leaf builds its reply with `pb_encode` in `tx_buf`
  and sends `bytes_written` bytes, without asking whether `pb_encode` succeeded.

Hard behaviours: the API lock held across a loop of blocking sends; the root's
own broadcasts among the karts' replies; restarts with packets in every queue;
flags set for tasks that were not created; a status flag that lags behind a
queue of events; a flag read by a poll and used after it changed; a static
buffer reused for packets of different lengths; in nanopb, lengths computed in one
pass and used in another, indices kept by increments, and two members of a oneof in
one place. `PROJECT.json` lists every
hazard at its line with the property that watches it.

## 2. Modules

| Module | Models | Used by |
|---|---|---|
| `TrackReply` | the abstract promise to whoever publishes on `/track` and listens on `/kart/<mac>` | `Relay` (refinement) |
| `Relay` | the data relay: MQTT task, every receive task, queues, faults | `MCRelay`, `RelayProofs` |
| `RootForward` | the bytes: `rx_buf`, `strlen`, the topic's text | `MCRootForward`, `RootForwardProofs` |
| `MeshNode` | boot, event loop, task starts of one node | `NodeLed`, `MeshNodeProofs` |
| `RxLed` | the RX LED and its task | `NodeLed` |
| `NodeLed` | composition: a node with its LED | `MeshNodeProofs` |
| `MqttSession` | the poll, the client and the broker | `MqttSessionProofs` |
| `PbFields` | the schemas: structs, descriptors of `PB_BIND`, the field iterator | `PbDecode`, `PbEncode`, `PbFieldsProofs` |
| `PbVarint` | three varint readers and the writer, bit by bit | `MCPbVarint`, `PbVarintProofs` |
| `ProtoMessage` | the abstract promise of a decoder | `PbDecode` (refinement) |
| `PbDecode` | `pb_decode` of an `MQTTMessage` | `RoundTrip`, `PbDecodeProofs` |
| `PbEncode` | `pb_encode` of an `MQTTMessage` | `RoundTrip` |
| `RoundTrip` | composition: a leaf encodes and sends, the root decodes | `MCRoundTrip`, `RoundTripProofs` |
| `RelayProofs`, `MeshNodeProofs`, `RootForwardProofs`, `MqttSessionProofs`, `PbFieldsProofs`, `PbVarintProofs`, `PbDecodeProofs`, `RoundTripProofs` | theorems | |

### Relay

`bcast`/`route_table` are the locals of one `mesh_send` loop (`bcast # NoMsg` means
that the client's API lock is held), `rxq[n]` the packets waiting for
`esp_mesh_recv` on node `n`, `rxMsg[n]` the packet `n`'s receive task acts on between
decode and publish or reply, `published` what `MQTT_AppPublish` handed over.
`MqttData`, `BroadcastTo` (one iteration, the failed send included) and
`BroadcastEnd` are `MQTT_EVENT_DATA`; `RxRecv` is the loop up to its `continue`s,
the self check and the decode; `RootPublish` and `LeafReply` are what follows. A
packet is its sender, the topic field (`"BAD"`: `pb_decode` rejects it), its type
of service and a history tag `id`, the place of the message in the broker's
stream. A message the broker delivers twice is two messages with two tags.

Abstracted: all leaves are `MESH_LEAF` nodes one hop from the root, as
`esp_mesh_set_type` and `esp_mesh_fix_root` make them. `Unstable` nodes may
restart at any time, lose their link and their packets; the stack keeps the
order of the packets of a link. An error of `esp_mesh_recv` changes
nothing here: the loop logs and goes on (`NodeLed` has what it does to the LED). A send
to a node that cannot be reached returns an error; a send to a full queue waits for
room, as the code passes no `MESH_DATA_NONBLOCK` and sets no blocking time.
The order in which a broadcast goes through the routing table is left open.

`PipelineInv` is the inductive invariant. For each leaf the tags of the messages in
six places (published, in the root's receive task, in the root's queue, in
the leaf's receive task, in the leaf's queue, still to be sent) are ordered:
everything in an earlier place is smaller than everything in a later one, and the
queues themselves are sorted. `TagsOK` ties each tag to a message the broker
handed over, TRACK where the code looked at the topic. Refinement follows: a
publication takes the head of the pipeline, so its tag is larger than those of the
leaf's earlier publications.

### RootForward

Bytes are of three kinds: NUL, a byte of a reply, any other. `ForwardReply` receives
a reply over the beginning of the buffer and publishes up to the first NUL;
`IgnoreEcho` receives a broadcast of the root's own and leaves it in the buffer.
The reply of every leaf is one constant message (`mesh.cpp` 114-129); encoded it
has 40 bytes, none of them NUL.

### MeshNode

What the node is (`type`, by `CONFIG_ROOT_NODE`) and whether its Ethernet chip
answers (`w5500`) is chosen in `Init` and never changes. Without a chip
`ethernet_init_all` fails, the `ESP_ERROR_CHECK` aborts and the node boots again:
`EthAborts`.

`pc` is the next call of `app_main`; `InitNvs` is split between `nvs_flash_erase` and
the second `nvs_flash_init`, so a crash can fall between them. The stack and the
DHCP client post into `events`; `OnStarted` ... `OnGotIp` are the cases of the two
handlers. `Crash` keeps `nvs` only. Left out because nothing reads it:
`mesh_layer`, `mesh_parent_addr`, and the events that only log (`STOPPED` is never
posted, the code never stops the mesh). `toDS` and `locks` are written and not read,
as in the code.

### MqttSession

`task` is where `esp_mesh_mqtt_task` is: the flag is read in `Poll` and
used in `Reconnect`. The client changes state, then hands over its event, and
handles one event at a time. Whether the subscribe request could be sent is
chosen by the environment, at most `MaxFails` times; whether the broker accepts the
subscription too, with at most `MaxRefusals` refusals: `SubAck` changes nothing but
the session, as `MQTT_EventProcess` only logs it. Sessions are clean, the client's
default.

### RxLed, NodeLed

`notify_rx_led` is the receive task's part, `LedOn`, `LedOff` and `LedWaits` are the
three calls in which the LED's task sleeps. A notification is pending or not, so
what arrives during a flash is merged. `returns` counts the returns of `esp_mesh_recv`,
each of them notified before `err` and the size are looked at (`mesh.cpp:66-68`), so an
error or an empty packet makes the LED flash too; `owed` counts packets since the last
flash began. `NodeLed` puts the LED into `MeshNode`: `esp_mesh_recv` returns as soon as a
receive task runs, the LED's task exists if `app_main` could create it, and a reboot or
crash ends both.

### PbFields, PbVarint, PbDecode, PbEncode, RoundTrip

`PbFields` has the members of each struct with offset and size as the compiler lays
them out (`sizeof(MQTTMessage)` is 72), the field lists of the generated headers,
and the packed words that `PB_BIND` makes of them; the static assertions of the
build are an ASSUME. The iterator reads those words back and keeps its indices as
`pb_common.c` does, by increments. `Walk`, `pb_field_iter_find` and
`pb_field_iter_find_extension` are its loops, as recursive functions.

`PbVarint` gives the same bytes to `pb_decode_varint32`, `pb_decode_varint` and
`pb_skip_varint`, one byte a step. A word is the set of its bits that are 1, so
shifts, masks, sign extension and the drop of high bits are exact at 8, 32 and 64
bits. The bytes come from another node or are those `pb_enc_varint` wrote.

`PbDecode` has a frame for each `pb_decode_inner` that runs: the iterator, and the
position and `bytes_left` of its stream. `ReadTag`, `SkipField`, `WrongWire`,
`DecodeValue`, `OpenSubmessage`, `CloseSubmessage` and `Return` are the steps of the
decoder, each with its errors. `mem` is the struct in cells of four bytes, written
through the addresses the iterator computes: kart and track status share theirs, as
in the union. Bytes of another node are chosen as they are read, as *items*: a tag,
a length, or a value with its size. Abstracted: a value is 0 or one of a few others,
a varint is read in one step, and its sizes are a constant (`PbVarint` has its
bytes); an error unwinds every frame in one step.

`ProtoMessage` is what decoding promises: the last value of a field counts, parts
of the same submessage are merged, and of the members of a oneof the last one
started is present, alone, with nothing of the other in it. The refinement mapping
reads the struct as the application does, through `which_payload` and the `has_`s.

`PbEncode` has a frame for each `pb_encode` that runs, with the two numbers of its
stream. `BeginSubmessage` is `pb_encode_submessage` up to the second pass: the sizing
pass (`pb_get_encoded_size`, which looks into `Sizes`, the bytes of each message at each
place of the struct, by recursion over the messages it holds), tag, length, the test
whether it fits and a stream of just that size; `EndSubmessage` is the rest. A write that does not fit fails half
way, with what was written before in the buffer. `RoundTrip` then does what the leaf
does: it sends `bytes_written` bytes if there are any, whether `pb_encode` succeeded or
not, and the root's decoder reads them. In today's code no message is cut: `tx_buf` has
1460 bytes, a message 73 at most (`SizeIsEnough`). What the properties say of smaller buffers
is about the coder, for whoever changes the buffer or the schemas.

## 3. Runs

| Run | Instance | Shows |
|---|---|---|
| `relay_safety` | 2 leaves, 2 messages of any topic, queues of 2, every node unstable | type, pipeline invariant, implements `TrackReply` |
| `relay_stable` | one stable and one unstable leaf, 3 messages, queues of 1 | unless the root's own queue stays full: a broadcast that waits for a leaf's queue ends, and a leaf that stays answers every message broadcast to it |
| `relay_blocks` (violation) | 1 leaf, 4 messages, queues of 1 | circular wait, a message never gets to the leaf: see findings |
| `forward` | buffer of 6, packets of at most 5, replies of 4, echoes of at most 4 | publications are exact, topics distinct, `strlen` ends in the buffer |
| `forward_long` (violation) | echoes of 5 | the tail of a longer message is published with every later reply |
| `node` | root or leaf, with or without W5500, event queue of 3, 3 links, 2 crashes, 3 returns of `esp_mesh_recv` | the safety invariants; boots up; listens to mesh and broker; MQTT on a root only; every packet is shown, at most one flash for each return, the LED goes dark |
| `node_task_fails` (violation) | task creation may fail | the receive task is never started |
| `session` | 2 failed subscribes, 2 broken connections, 2 outages, 2 refusals | flag, subscribed or refused in the end, no good session ended |
| `session_refused` (violation) | 1 refusal, no other fault | a refused root stays connected and never asks again |
| `varint` | 12 bytes that tell the readers' cases apart, 38 integer fields | the readers agree, skip alike and stop; an integer comes back |
| `decode` | every message of 0, 1 and 13 bytes, varints of one byte, values 0 and 1 | bytes shared out, iterator true, implements `ProtoMessage` |
| `roundtrip` | 128 messages, 12 sizes of the buffer | the writer stays in the buffer and counts what it wrote; a whole message comes back, of a cut one no submessage is seen in part |

**Bounds.** Two messages and queues of two are enough for one message to overtake
another, which is what order and duplication need; two leaves for one to fail and
the other not. The circular wait needs a message in each of four places: in the root's
receive task, in the leaf's, in the leaf's queue, in the broadcast loop; so
`relay_blocks` has four, with queues of one. A longer queue takes more messages to fill.
`relay_stable` needs three: one that waits, one in the queue, one with the leaf. Three links give two losses in a row with
events of both in the queue; two crashes give one during recovery from another.
Two of each fault of the session let each follow and precede each other one. Three
returns of `esp_mesh_recv` let one come during a flash and one in the dark after it.

`varint`: at each position the bytes 0x00, 0x7F, 0x80 and 0xFF, and at the fifth
and the tenth, where the readers branch, each pattern a branch tells apart; twelve bytes
are more than any decoder takes. `decode`: thirteen bytes hold a kart status with a
position in it and a field of it (three messages deep), both members of the oneof
one after the other, a member twice, unknown fields of each wire type with or
without the bytes they announce, and the largest fixed value. `roundtrip`: the buffer
ends before the first byte, between tag and value, between a length and its
submessage, in a nested submessage, one byte short of the largest message and
behind it; 73 is `MQTTMessage_size`. The proofs need none of these bounds.

**Deadlock.** `session` and the `forward` runs check for it; in `relay_safety`, where every
node may restart at any time, there is none to find, and `relay_stable` and `relay_blocks`
ask by liveness who waits for ever. Decoder and encoder end. The other `Relay` runs end
when all messages are handled or wait in a circle, and a node that has used up its links
and crashes stops: there `CHECK_DEADLOCK FALSE` is set.

**Fairness.** `Relay`: the tasks share one priority and are time-sliced, so each step
that stays possible is taken (weak fairness for each task). Nothing is assumed of
the environment: a restart, a loss or a new link may never happen. `StableLeafAnswers`
needs that the root's receive task gets the API lock between two broadcasts at last, which
the end of the `/track` stream (`MaxTrack`) gives it here; `BroadcastEndsUnlessRootFull`
does not, as little happens while one broadcast holds the lock. `MeshNode`: the
main task and the event loop's run; the stack keeps looking for a parent and the
DHCP client keeps asking. `NodeLed` adds the LED's task: its priority is 3 and the
receive task's is 5, so it runs whenever no packet is being handled, and the receive
task sleeps in `esp_mesh_recv` between two packets; assumed is that `esp_mesh_recv` does
not return errors for ever without waiting. `MqttSession`: both tasks run, a broker that is up
acknowledges; nothing is assumed of the auto-reconnect timeout, so
`EndsUpSubscribed` holds by the poll alone.

## 4. Findings

1. *Circular wait* (`mesh.cpp:15`). `MQTT_EVENT_DATA` sends to each node with
   neither `MESH_DATA_NONBLOCK` nor a blocking time while the client's API
   lock is held; `MQTT_AppPublish` needs the lock; a leaf's reply needs room in
   the root's queue. `relay_blocks` ends with four messages in a circle: the root's
   receive task has the reply to the first and waits for the lock, the leaf has its reply
   to the second and waits for the root's queue, the third fills the leaf's queue, and
   the broadcast of the fourth waits for that queue with the lock held. The root's own
   packets fill the root's queue as well as replies do, so with it full and its
   receive task waiting for the lock, a broadcast waits for its own echo in the same way.
   `relay_stable` shows that it takes the root's queue: a full queue of a leaf alone
   stops nobody. The model assumes that
   `esp_mesh_send` to a full queue waits for as long as it takes; the stack itself
   is not in the repository.
2. *Stale tail* (`mesh.cpp:100`). The reply is published without its length from a
   buffer that is never cleared. `RepliesPublishedExactly` proves that this is
   harmless as long as nothing longer than a reply appears on `/track`;
   `forward_long` shows what happens then.
3. *Started flag* (`mesh.cpp:177`). After a failed `xTaskCreate` the receive task is
   never started; nor is the MQTT task (`mqtt_app.cpp:110-111`), whose flag is set after
   the call but whatever its result: the instance of `node_task_fails` violates
   `ListensToBroker` as well.
4. *Refused subscription* (`mqtt_app.cpp:21`). A SUBACK that refuses reaches the code as
   MQTT_EVENT_SUBSCRIBED with an `error_type` the code does not look at. The root
   stays connected, so the poll does nothing, and hears nothing of `/track` again.

Comments that differ from the code, met on the way and not checked by a run: replies
have the type of service `MESH_TOS_P2P` (`mesh.cpp:144`), `main.cpp:70-71` says `DEF`; the
retry of a failed subscribe does not wait for the auto-reconnect timeout
(`mqtt_app.cpp:12`), the poll comes first; the comment on the topic (`mesh.cpp:98`) shows
two digits for an octet, the code writes one for an octet below 16, and the topics
still differ (`TopicsTellKartsApart`). A node without a W5500 reboots for ever
(`eth_spi_driver.cpp:79`); nothing in the repository says that it should not.

## 5. Theorems

All are checked by tlapm for every value of the constants that the named
assumptions admit (`RelayAssumption`, `NoMsgAssumption`, `NodeAssumption`,
`ForwardAssumption`, `SessionAssumption`, `LedAssumption`, `VarintAssumption`,
`DecodeAssumption`, `EncodeAssumption`, `FieldInfoAssumption`; the runs evaluate them).

- `RelayProofs`: `TypeCorrect`, `PipelineCorrect`, `RelayImplementsTrackReply`. The
  lemmas first say what removing from and appending to a queue does, then what a
  send does to the pipeline of its destination, then one lemma per action shows
  that `PipelineInv` is kept, and the refinement step uses it for `RootPublish`; every
  other action is an `Ask` or a stutter.
- `MeshNodeProofs`: `NodeTypeCorrect`, `NodeInvariant` and its four consequences
  `NodeRunsOneTaskEach`, `NodeKeepsMqttOnRoot`, `NodeReadyBeforeReceiving`,
  `NodeFlagSettles`. `NodeInv` strengthens them: nothing is posted before
  `start_mesh`; a started flag bounds its tasks; without `CONFIG_ROOT_NODE` the DHCP
  client is stopped and no GOT_IP is queued; the *last* status event in the queue says
  what the stack is, and the flag does when there is none (`FlagInv`).
- `RootForwardProofs`: `AlwaysTerminated`, `RepliesPublishedExactly`, from the
  invariant that the bytes behind the longest packet were never written;
  `KartsHaveTheirTopics`, for all addresses: each octet, of one digit or two, ends where
  the separator says, so two texts that are equal have equal octets from the last one
  down.
- `MqttSessionProofs`: `SessionTypeCorrect`, `SessionFlagSettles`,
  `RootKeepsItsSession`. `SessionInv` says to which state of the client each pending
  event belongs, and that a disconnect is asked for only in a session without a
  subscription; the action property follows because no other step but a lost
  connection then ends one.
- `MeshNodeProofs`, of the composition `NodeLed`: `LedFlashesOncePerReturn`, from the
  invariant that a pending notification has a return of `esp_mesh_recv` of its own; `LedNodeIsNode`, every step of
  the composition is a step of `MeshNode` or leaves it alone; `LedNodeIsSafe`, what is
  proved of `MeshNode` therefore holds of the composition.
- `PbFieldsProofs`: about the iterator alone. `EachFieldIsFound`: from any field of any
  message `pb_field_iter_find` gets to every field the message has and to no other;
  `ExtensionSearchComesBack`: the search for an extension, which every unknown tag
  starts, ends at the field it began at; `WalkVisitsEachField`: the loop over
  `pb_field_iter_next` has each field once, in order, with its own address. The argument:
  the iterator *is at* field n (`At`) when its three indices are those that field n ought
  to have, and `advance_iterator` takes it from there to the next field, or
  from the last one to the first. The lemmas behind it state what the packed words of
  `PB_BIND` unpack to, once for all field types of the schemas, and where each message is
  in the struct (`Place`, `Depth`).
- `PbVarintProofs`: `BothDecodersAgree`, `SkippingTakesTheSame`, `DecodersStop`. `VarInv`
  says that the readers are at the same byte while they read and that the 32-bit
  result is the low half of the 64-bit one; one lemma per reader says what one byte
  does to it. `VarintTypeCorrect`, and `AcceptsEveryNumberThatFits`: the 32-bit decoder
  takes every number it could hold, however it is padded: by `FitInv`, once it has
  refused what the 64-bit one goes on to read, that result has a bit above bit 31 and
  lacks one from bit 31 on, so it is no number of 32 bits. `FieldsComeBack`: an `int32`,
  `int64` or enum comes back from its varint as it was. The encoder's bytes are the groups
  of seven bits of the sign-extended word (`EncoderEncodes`), and what the 64-bit decoder
  has read of them is that word up to the bit it has got to (`OwnInv`).
- `PbDecodeProofs`: `DecoderSharesBytesOut`. `DecInv` is the chain of streams, each ending
  where its parent goes on; it is an argument about `bytes_left` only and depends
  neither on the schemas nor on what is written to the struct. `DecoderTypeCorrect` and
  `DecoderIteratorTrue` add `FieldInv`: the iterator of each stream is at a field of a
  message whose depth is that of the stream, at the place of that message. Since each
  message is at one place and one depth only, the stack is never deeper than three.
- `PbDecodeProofs`, the refinement: `DecoderImplementsProtoMessage`. `SeenInv` is what it
  needs beyond that: every message that is being decoded can be seen in the struct from
  the top (its `has_`s are set, its member of the oneof is the chosen one), and a message
  whose `has_` is not set lies in zeros, so that nothing appears in it when it is. The
  fields' cells are apart unless they are of the two members, so a write changes what
  is seen of one field only (`LeafWritten`), and starting a submessage changes nothing
  but what `ProtoMessage` says (`OptionalStarted`, `MemberStarted`).
- `RoundTripProofs`, the encoder: `EncoderStaysInBuffer`, `EncoderCountsAll`. `EncInv` says that each
  stream begins where its parent has got to and ends before its parent does, so the
  innermost limit, the only one that is asked, is within the buffer. `EncoderTypeCorrect`
  adds `EncTypeInv`: `dest` is the sum of the items in the buffer, and the iterators are at
  fields as in the decoder.
- `RoundTripProofs`, the two passes: `BufferIsEnough`. First, `Sizes` has a value: what a
  message takes depends on the messages in it only, which are one deeper, so three
  passes from nothing are a fixed point (`SizesExist`). Then the most each message takes,
  field by field: 22 bytes for a `Timestamp`, 18 for a `LatLng`, 4 for a `Track`, 45 for a
  `Kart`, 73 for the `MQTTMessage`, as `MQTTMessage_size` says (`AllTake`). Last, `SizeInv`:
  the innermost stream has written the fields before its iterator and no more, and each
  stream below it is short of its next field by the limit of the one above, which is
  the size that the sizing pass found. So no `Fits` fails in a buffer of 73 bytes, and
  "submsg size changed" is reported only when a write has failed.
- `RoundTripProofs`, the round trip: `WholeMessageComesBack`, `NoSubmessageInPart`,
  `LeafEncodes`. What makes the first two hard is that they relate a finished run of the
  encoder to a run of the decoder that knows nothing of it. The link is `Pos`: where the
  tag of a field goes depends on the message alone (`StartOf`, the bytes before its
  submessage, and `UpTo`, the bytes of the fields before it), and no two fields overlap
  (`FieldsApart`). The inductive invariant `RoundInv` has two halves.
  `EncodeInv` adds to the encoder's invariants that each stream begins where its message
  does, and that of every field before the write pointer both items, the tag and the
  value or size, lie at its place (`OutInv`). `ReadInv` says of the decoder that it has
  the encoder's items before it; that each of its streams ends where its message does, or
  where the message was cut; that it stands between two fields, or after the tag of a
  field that was written, with the iterator at that field; and that the struct shows
  exactly the submessages that began before that place and the values that were read
  before it (`OnTrack`, `Shown`). It also says that a refused message was cut: a tag that
  is read is always that of the next field, a wire type always the right one, a size
  fits unless the end is missing. From that, a whole message has all its fields
  before its end, and a cut one is accepted only at the end of a field of the
  outermost message, before which each submessage lies with all of its payload
  (`WholePayload`). `LeafEncodes`: the leaf's part of the composition is a run of `PbEncode`,
  so the four theorems above hold of it.

`DecInv`, `FieldInv` and the lemmas on each step of the decoder are stated for any message
that can be read (`Readable`): bytes chosen on arrival as in `PbDecode`, or a sequence of
items as in `RoundTrip`. The refinement of `ProtoMessage` is proved for the former.

What is assumed of the constants is what the code has: an address has six octets, no
packet is as long as `rx_buf`, an integer field holds 32 or 64 bits, `NoField` is not a
field, cells and values are natural numbers, 0 among them, and the static assertions on the
schemas hold. Inductions are over sets of numbers, by their least element.

Only model-checked: every liveness property (`StableLeafAnswers`,
`BroadcastEndsUnlessRootFull`, `ForwardedToLeaves`, which is violated, `BootsUp`, `ListensToMesh`, `ListensToBroker`, `EndsUpSubscribed`,
`EveryPacketShown`, `LedGoesDark`), because TLAPS does not reason about fairness. All
safety invariants, action properties and refinements of the passing runs are theorems.

## 6. Not modelled

ESP-MESH, esp-mqtt, the DHCP client, FreeRTOS and the broker are external: they are
modelled by what the code can see of them. Not modelled at all:

- the antenna GPIOs and log output;
- heap use (each lease leaks a mutex, `mesh.cpp:315`);
- payloads that the client splits into several events;
- torn reads of addresses (one core, and the root is fixed);
- the Ethernet GPIO's ISR and task (`eth_spi_driver.cpp` 3-71): their setup is
  commented out in `main.cpp:48`, so nothing reaches them;
- of nanopb, what no schema here uses: repeated, required and fixed-count fields,
  strings, bytes, callbacks, extensions, pointers and their allocation, UTF-8 checks,
  delimited and null-terminated messages, default values other than zero.

## 7. Plan

1. *done* `TrackReply`, `Relay`, `RelayProofs`: the core.
2. *done* `MeshNode`, `MqttSession`, `RootForward` and their proofs.
3. *done* `RxLed`, `NodeLed`; refusals in `MqttSession`; the missing W5500 in `MeshNode`.
4. *done* `PbFields`, `PbVarint`, `PbDecode`, `PbEncode`, `ProtoMessage`, `RoundTrip` and
   their proofs.
5. Left: the root's `MeshNode` and `MqttSession` composed with `Relay`, so that receive
   tasks, client and subscription of the relay are those that boot and session
   provide; a theorem that the composition keeps the promise of `TrackReply`.
6. *done* `PbFieldsProofs`, the refinement of `ProtoMessage` and the encoder's two passes as
   theorems.
7. *done* `ComesBack` and `NeverInPart` as theorems: the places of a message's items, and the
   decoder at one of them per stream.
