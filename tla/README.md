# A verification project for DNS_C_language

The repository holds three programs of a networking course and a number of exercises:

- `lab1/`: a **selective-repeat data link layer** (`datalink.c`) over a library that simulates
  a noisy full-duplex channel between two processes (`protocol.c`);
- `EasyDns/`, `EvDNS/`, `DNS/`: three generations of a **DNS relay** with a domain table, over
  `epoll`, over libuv, and blocking;
- `From_net/`, `From_up_to_down/`, `uvlib/`: socket exercises.

This directory specifies in TLA+ the data link layer; the event loop, the sending queue, the framing, the
rendezvous, the checksum and the printing of the library below it; and the three relays, with the domain cache
and the messages of the epoll relay. TLC checks them, and TLAPS proves, for all values of the constants, the safety of the data link layer, of the
sending queue and the rendezvous, of the epoll and the libuv relay, and that the domain cache implements a map whose
entries expire. What is left is listed under "Plan" and "Not modelled".

## Inventory

| Component | State | Operations | Works with |
|---|---|---|---|
| Data link layer, `lab1/datalink.c` | window edges `next_frame_to_send`, `ack_expected`, counter `now_postion`, `to_phy_buffer`; `frame_expected`, `too_far`, `have_arrived`, `to_network_buffer`, `no_nak`; `phl_ready` | one `case` of the loop in `main` per event; `put_frame`, `send_data` | called back with events by `wait_for_event`; calls `get_packet`, `put_packet`, `send_frame`, `recv_frame`, timers, `enable`/`disable_network_layer` |
| Event loop, `protocol.c:818` | none of its own | `wait_for_event`: commit a block of bytes, network layer, timers, physical layer, sleep | everything below |
| Timers, `protocol.c:563` | `timer[129]` of deadlines, the last one the ACK timer | `start_timer`, `stop_timer`, `start_ack_timer`, `stop_ack_timer`, `scan_timer` | `start_timer` reads the length of the sending queue |
| Network layer, `protocol.c:614` | `network_layer_active`, `layer3_ready`, `pkt_no`, `rpackets` | `network_layer_ready`, `get_packet`, `put_packet` | event loop; aborts on a wrong packet |
| Physical layer, sending, `protocol.c:373` | ring `sbuf` with `sq_head`, `sq_tail`, the rate allowance, `inform_phl_ready` | `send_byte`, `send_frame`, `socket_send` | the TCP connection to the peer |
| Physical layer, receiving, `protocol.c:478`, `:780` | list of blocks, frame under construction, list of frames | `socket_recv` (noise), `recv_byte`, framing, `recv_frame` | event loop |
| Rendezvous, `protocol.c:271` | socket, the shared epoch and seed | `protocol_init`: listen and accept, or connect and retry, then exchange | the peer |
| CRC-32, `lab1/crc32.c` | table | `crc32` | `put_frame`, `FRAME_RECEIVED` |
| Stop-and-wait attempt, `lab1/datalink5.c` | as the data link layer | not built, does not compile | |
| Epoll relay, `EasyDns/net.c` | identifier slots `cacheMap[]`, socket, datagram | `runDns`, `dealWithPacket`, `sendToDns`, `addCacheMap` | domain cache, upstream server, clients |
| Domain cache, `EasyDns/hlist.c` | array of buckets, each a list of entries with an expiry | `hashMapInit`, `addHashMap`, `findHashMap`, `delHashMapNode` | epoll relay, table file |
| libuv relay, `EvDNS/net.c`, `EvDNS/hlist.c` | as the epoll relay, without expiry | receive callback | libuv |
| Blocking relay, `DNS/net.c` | one socket, the table | one query, one answer | |
| Logging, `lprintf.c`, `log.c` (four copies) | none that is read back | formatting | all |

### What is hard, and what correctness means

*Data link layer.* Frames are lost, damaged, late, sent again, and acknowledged by frames of
three kinds; a timeout says which *slot* fired, and a slot belongs to two sequence numbers;
the sequence numbers wrap; the network layer is opened and closed by a statement after the
switch. Correct means: each packet reaches the peer's network layer in order and once; what
is sent again is what was sent; an acknowledgement never runs ahead of a delivery; the
counters that are kept apart agree; no station goes to sleep for good; and everything sent
arrives and is acknowledged if the noise leaves any chance.

*Physical layer.* Two frames can merge when noise hits the flags between them; the ring buffer
wraps, bypasses itself and overflows; one block of bytes is committed per pass of the loop.
Correct means: bytes leave in the order they came; what `recv_frame` returns is some frame sent
or is detected as damaged; the queue does not overflow under the data link layer.

*Relays.* Clients are told apart by a slot that is a clock reading; answers are late, duplicated
or missing; one datagram is read per edge-triggered event. Correct means: an answer goes to the
client that asked for it, with its own identifier, and each query that can be answered is.

*Domain cache.* Buckets are linked lists cut by expiry while they are searched. Correct means:
a lookup returns the newest live entry for the name, or none; the lists stay well formed.

`PROJECT.json` lists the hazards at their lines, with the properties that cover them, and the
module that is to cover the others.

## Modules

| Module | Contents |
|---|---|
| `SeqNum` | sequence numbers modulo `MAX_SEQ + 1`, `Inc` and `Advance` (`inc`), `InMiddle` (`in_middle`), slots, `AckField`, `NakTarget` |
| `Datalink` | both stations of `lab1/datalink.c` and the link between them |
| `ReliableLink` | abstract specification: per direction the number of packets sent and received |
| `DatalinkProperties` | type invariant, safety, refinement and liveness properties |
| `DatalinkInvariant` | the inductive invariant `Inv` |
| `MCDatalink` | instances for TLC |
| `DatalinkProofs` | arithmetic of sequence numbers, for every odd `MAX_SEQ` up to 255; proof of `TypeOK`; how a frame that is pushed, taken, acknowledged or delivered changes the parts of `Inv`; `Inv` is inductive; the theorems |
| `NoisyLink` | abstract specification: one direction of the link as a queue of frames that noise shortens, damages and merges |
| `Framing` | one direction of the physical layer in bytes: flags, nibbles, blocks, noise, `recv_frame` |
| `FramingProofs` | its two invariants are inductive; one hit cannot make `recv_frame` abort; a hit costs at most one frame; it implements `NoisyLink` |
| `ExpiringMap` | abstract specification: entries with a lifetime, the newest live one is found |
| `DomainCache` | the hash map of `EasyDns/hlist.c`: buckets, linked entries, expiry during a lookup |
| `DomainCacheProofs` | its invariant `CacheInv` is inductive; it implements `ExpiringMap`; the theorems |
| `EasyRelay` | the epoll relay: clients, slots, server, cache and edge-triggered socket |
| `EasyRelayProofs` | its invariant is inductive; the theorems |
| `Rendezvous` | `protocol_init` at both stations |
| `RendezvousProofs` | its invariant is inductive; the stations agree on the epoch |
| `SendQueue` | the ring of bytes to send, its bypass, the rate of the channel, a data timer, a pass of `wait_for_event` |
| `SendQueueProofs` | its invariant is inductive; order, rate and timeouts |
| `EventLoop` | `wait_for_event` at one station: its order, its clock, its timers and the length of the sending queue, with `main` as far as it decides what the next passes find |
| `EvRelay` | the libuv relay: the callback, sends that wait, slots |
| `EvRelayProofs` | its invariant is inductive; the theorems |
| `BlockingRelay` | the first relay: one query, one answer, the table in its lists |
| `PartsProofs` | the invariants of `EventLoop` and of `BlockingRelay` are inductive; the sending queue never overflows; the first relay's query is served unless another overtakes it |
| `DnsMessage` | the bytes of the epoll relay's messages: what it reads of them and what it writes |
| `Crc32` | `crc32` with its table, on a frame that noise damages |
| `Lprintf` | `lprintf`: options, conversions, padding, memory blocks, the time before each line |
| `MCDomainCache`, `MCEasyRelay`, `MCEvRelay` | instances for TLC |
| `MCParts` | `Crc32`, `Lprintf`, `DnsMessage` and `BlockingRelay`, one of them in a behaviour, and their instances |

`DatalinkProofs` and `MCDatalink` extend `DatalinkInvariant`, which extends `DatalinkProperties`,
`Datalink` and `SeqNum`.

### How `Datalink` corresponds to the code

Every variable of `main` and every global the loop touches is a variable of the model under
its own name, as a function of the station. `link[s]` is everything between `send_frame` at
`s` and `recv_frame` at its peer. A timer array is the set of slots whose timer runs.

One action is one pass through the loop: the event, its case, and the statement after the
switch (`GateNetworkLayer`).

| Action | Code |
|---|---|
| `NetworkLayerReady` | `case NETWORK_LAYER_READY`, `get_packet`, `send_data(FRAME_DATA)`, `put_frame` |
| `PhysicalLayerReady` | `case PHYSICAL_LAYER_READY` |
| `DataTimeout(s, i)` | `case DATA_TIMEOUT` with `arg = i`, `scan_timer` |
| `AckTimeout` | `case ACK_TIMEOUT` |
| `ReceiveDamaged` | `case FRAME_RECEIVED` up to the `break` of the CRC check |
| `ReceiveData`, `ReceiveAck`, `ReceiveNak` | the rest of that case, by the kind of the frame, with the `while` that applies the acknowledgement |
| `Lose` | noise on a flag byte |

The two `while` loops are `AckRounds` and `DeliverRounds`: a number of rounds that satisfies the
loop's condition before each round and fails it after the last. `inc` executed `m` times is
`Advance`. Packets are positions in the stream, because `get_packet` numbers what it generates
and `put_packet` compares what it gets with the number it expects, aborting on a difference:
`aborted` is that exit, after which the station takes no step.

What is abstracted:

- *Time.* A running timer may expire at any moment, and events come in any order. This allows
  everything the clock and the fixed order of `wait_for_event` allow, and more. Two facts of the
  clock are kept as guards: a packet is taken, and a data timer expires, only when the link has
  room, since the physical layer reports below `PHL_SQ_LEVEL` and `start_timer` adds the time the
  queue needs to drain.
- *The link.* A FIFO of whole frames. Noise in a frame makes it damaged, noise on a flag makes it
  vanish. A frame whose closing flag is hit is held until the next flag, that is until the next
  frame comes, which is then swallowed: the first stays at the head of the FIFO for that time and
  the second is lost. `Framing` is the evidence: it implements `NoisyLink`, of whose steps those
  that merge neighbours are, for `Datalink`, the loss of all but one and the damage of that one.
  What remains outside is the abort of `recv_frame` on a merged frame longer than its buffer, which
  ends the program and needs two hits (`AbortNeedsTwoHits`).
- *CRC.* Damage is always detected.
- *Contents and lengths* of packets; the integer overflow of the clock arithmetic.

Bounds: `PktLimit`, the number of packets each network layer offers, and `MaxChan`, the number of
frames one direction of the link holds; a frame sent on a full link counts as lost. The proofs
hold for all values of both. `MAX_SEQ` is 31 in the code, with a window of 16.

### How `Framing` corresponds to the code

`tcp` is what `send_frame` at one station has sent and `socket_recv` at the other has not read; `rblk`,
`rf_buf` and `rf` are the lists of blocks, the frame under construction and the list of frames. A
byte is known by the frame it was sent for and its place there, so that a received frame tells which
frames it was made of. `SendFrame` is `send_frame`; `SocketRecv` is `socket_recv`, which takes some bytes and
hits at most one of them; `Commit` is the first part of `wait_for_event`, the loop over a block, with the
`recv_frame` of the `FRAME_RECEIVED` it raises. A hit is a change that matters; a bit that is put over
by the other nibble of its byte is not one. A frame is `Sizes` bytes, block sizes and numbers are bounded.

The refinement mapping to `NoisyLink` takes for `link` what would be received if no more noise came,
the frame that waits for its closing flag included. It shows what the data link layer relies on: order,
no duplicates, and that a frame which is damaged or lost stays so. `CostOfNoise` says that the framing
resynchronises: a flag that is hit turns the roles of opening and closing flag round, and still no more
frames are lost than bytes were hit.

`Once` picks the member of a singleton and keeps TLC from evaluating its argument again.

### How `DomainCache` corresponds to the code

`heads` and `first` are the array of `hlistHead` pointers and what they hold, `nodes[n]` is the n-th
`domainMap` that was allocated (none is ever freed), with `next` and `pprev`; `pprev`, a pointer to a pointer,
is the first of a bucket or the next of a node. `AddHashMap` and the start of a lookup (`FindHashMap`) are one
step each; in the loop, each reading of the clock is a step, so that an entry may expire between the
two readings of one iteration (`Examine`, `Matched`). `Tick` is the clock, which is taken not to go back.
Lifetimes are those an answer can carry below 2^31, and -1.

`strcasecmp` ignores case and `hashCode` does not: names that differ in case find each other only within
a bucket. `Answers` in the refinement says so.

`crashed` is the access through a null pointer: an empty bucket keeps its `hlistHead`, and both `addHashMap`
and the first lines of `findHashMap` use its first entry unseen. `CrashNeedsExpiry` confines it to buckets all of whose
entries could expire; the domain table, which has none, is safe. In the loop the end of the list is
tested by the address of a member, which the makefile's build, without optimisation, compiles as written.

`ImplementsExpiringMap` maps the entries reachable from the buckets to the abstract ones. What it says is that a
lookup that unlinks entries while it walks over them, and reads the clock twice, still answers with
the newest live entry, and never loses a live one.

### How `EasyRelay` corresponds to the code

One step is one datagram: `RunDns` is a turn of the loop in `runDns`, with `dealWithPacket` and all it calls.

| Definition | Code |
|---|---|
| `AnswerFromCache`, `AnswerFromTable` | `findHashMap` in `cacheMap`, then in `hashMap` (with the `addHashMap` that copies the entry), reply |
| `Relay`, `SendToDns`, `Kept`, `IdOnwards` | `sendToDns`, `addCacheMap` |
| `DealWithAnswer` | the last branch of `dealWithPacket`, `makeDnsHead(FROM_DNS)` |
| `Arrive`, `ready` | a datagram at the socket; the edge `epoll_wait` has to report |

The clients may ask anything in any order; the server answers what was sent to it in any order, more
than once, or not at all; the clock ticks at any time. Since the relay reads one datagram per edge, one
that arrived together with another stays in `inbox` until a third comes, and is dealt with seconds later:
the model has these delays, and the properties hold with them.

Assumed: queries without the AD and CD bits and answers with RA (`isQuery` looks at the whole fourth byte),
an answer with a record, lifetimes below 2^31, one second for one call of `dealWithPacket`, system calls that succeed. The
cache is what `ExpiringMap` says of it, so that the crash of `DomainCache` is left out here. A slot number
of 0 is taken for a failure by `sendToDns`, so that queries of every 299th second are not relayed.

The properties say what the scheme does give: an answer finds an owner (`AnswersFindOwner`); whoever gets it asked under
the number it gets it with (`RepliesWereAsked`); it is the answer to that query unless the slot was given to
two queries, which two queries in one second are enough for (`MixupNeedsSharedSlot`); and what the relay answers
itself is in the table or was told by the server for that name within its lifetime (`AnswersFresh`). `asked`, `owners`,
`told` are history variables for these statements.

### How `SendQueue` corresponds to the code

Variables have the code's names; bytes are numbered as they are given to `send_byte`, so that the order in which they
leave can be compared. While `event` is "none" the program is in `wait_for_event`: `Pass` is one turn of its loop without
a block to commit (`socket_send`, then the events in their order), `CommitBlock` one that returns `FRAME_RECEIVED` before
anything is sent. Otherwise `main` has the event: `SendData` is `send_data` (all bytes of a frame, then `start_timer` for a DATA
frame), `StopTimer` and `WaitForEvent` the rest. A frame's bytes go past the ring while it is empty and the allowance lasts,
and into it from then on: `Bypassed` counts the former.

Assumed: `send()` takes everything, since the socket blocks (the code handles a partial send as if it
could happen, wrongly where the data wraps around: the mutant `TakesSome` of `InOrder`); the data timer is longer
than a pass; a block to commit was read in an earlier pass. A socket that is not writable is `stalled`. The
remaining time a timer allows, 1 ms per waiting byte, is twice what the channel needs (`Rate`).

### How `Rendezvous` corresponds to the code

One action per call that can wait or fail: `Listen` (socket, bind and listen, whenever A is started), `Accept`,
`ReceiveEpoch` (`recv`, whose result is not looked at: if B is gone A goes on without an epoch), `ConnectFails` and
`ConnectSucceeds` (a turn of the loop), `Abort` and `SendEpoch` (the test after the loop and what follows). The
numbers 60 and 6 are constants, and the runs use them. A connection that waits to be accepted is
`backlog`. Nobody stops a station from outside, and the eight bytes of the epoch come in one piece. Fairness:
a station that can go on does; A need not be started.

The test after the loop is wrong (see `findings`): of 60 attempts the seventh, if it succeeds, is taken for
failure. `InTimeTogether` says what is right: whoever listens before that attempt gets together.

### How `EventLoop` corresponds to the code

Time is relative: a timer, a block and the network layer (`since` its last packet) know how long they have to wait or
have waited, in units of the sleep of a pass, and a pass takes none or one of them. While `event` is "none" the program is
in `wait_for_event`.

| Definition | Code |
|---|---|
| `CommitBlock` | a block that is due is committed, `FRAME_RECEIVED` is returned before anything else is looked at |
| `Look` | the rest of a pass in its order: `SocketRecv` and `socket_send`, `network_layer_ready`, `scan_timer`, the report of the physical layer, the sleep |
| `MayOffer`, `MustOffer` | `network_layer_ready`: flood mode, the pace, station B's idle phases; `Wrap` is where the clock difference, times `CHAN_BPS`, leaves an `int` |
| `Deadline`, `StartAckTimer`, `WithData`, `WithoutAck`, `Stopped` | `start_timer` with the time the queue needs, and the other timer functions |
| `Handle` | one `case` of `main` and the statement after the switch |

Which slot a packet gets, and which slots an acknowledgement covers, is any: `Datalink` has that. The peer sends what it likes,
except that it asks for each frame once (`nakked`), which `AtMostOneNak` of `Datalink` justifies. A NAK the station
itself sends may follow every frame, whatever `no_nak` says. `elapsed` is the clock less the `last_ts` of `socket_send`: on a pass
that returns a frame nothing is sent, and the next that gets so far makes up for it. The blocks are those of the channel: the
model reads at most one in a unit of time, where the program may read what has arrived of it in smaller pieces. In the run the
queue grows to seven bytes, with `QueueBound` eight and `SQ_SIZE` nine, and with `SQ_SIZE` seven TLC finds the overflow.

### How `EvRelay` corresponds to the code

`Receive` is `dealWithPacket` called with a datagram, `ReceiveNothing` the call with `nread = 0` and no address that libuv makes when the
socket is empty, for which the buffer still holds the last datagram (`slab`), and `ReceiveError` the call with `nread < 0`.
`UdpSend` sends at once or makes libuv keep the address of the data in `pending`; `Flush` sends it later, when what was freed in the
meantime may hold something else (`Flushed`). A query for the server that was overwritten goes out all the same, 0x7a bytes of what is there
now (`Overwritten`): the server gets it under any number and about any name, may answer it, and `garbled` remembers it. The answer comes back
through the slot of that number, to the client of another query, or finds a slot without an owner, or none. The other writes to a
query that waits, those of `makeDnsRR`, change neither its number nor its name. A reply of the relay's own that was overwritten is
`"garbage"`: it may hold anything, and keeps in the model the number and the name it was made with.

The callback sends 0x5a = 90 bytes of every answer, whatever its length (`SentLength`). `FirstBytes` says what that makes of it: an answer of 90
bytes is complete, a longer one cut off, and a shorter one padded with what the buffer held behind it of earlier datagrams. So
`RelayedAnswersIntact` promises the first 90 bytes of what the server said, and no more. Number and question of an answer are within them.

Assumed: a query is of at most 0x7a = 122 bytes (the relay sends no more of it) and its name ends within the first 90; the server's answers
have the RA bit or an error code, without which the relay takes them for queries. The contents of the relay's own replies, also 90
bytes, are not modelled beyond the address they give.

The slot of a query is `clock() % CACHELEN`, the processor time used so far, which nothing ties to the order of
queries: any slot. `Kept` is `addCacheMap`, which writes the key before it knows whether there is an address. `byte3` is what `isQuery` looks at.
libuv is modelled as `uvlib` and `net.c` use it: at most `Batch` datagrams in a row (32 in libuv), sends in order.

Fairness: weak for the callback and for `Flush`. `uv_run` runs for ever and serves what `epoll` reports; the socket of the system takes
datagrams again sooner or later.

### How `BlockingRelay` corresponds to the code

`Start` reads the file into the lists and opens the socket; `HandleQuery` and `HandleAnswer` are the two halves of
`handleDnsMsg` around its second `recvfrom`; `FindHashMap` is the lookup that `test.c` makes at last. The program serves one query and ends.

`ToDomainName` has the code's result by the number of labels: two are read right, of three or more the later ones are mangled, and behind one label it
depends on a byte of the stack that was never written. A lookup in a list that has entries, but not this one, runs past the end and
crashes (`crash`). Left out: that a long query is cut off at the buffer's length when it is sent on, and that 1024 bytes are sent of a buffer of 256;
that `strcasecmp` ignores case and the hash does not, which `DomainCache` has.

### How `DnsMessage` corresponds to the code

A message is a sequence of bytes in `buf`, the one buffer of `runDns`, which keeps what earlier and longer datagrams left.
The definitions that read and write it have the code's names and offsets. `struct ANS` is padded by the compiler to 16 bytes, so that its `ttl` and `rdlength` are
not where the record has them; the code adds the difference by hand, all but the upper half of the TTL of a reply.

`ReplyReadsBack` reads what the relay sends as RFC 1035 says, `CachedAsSaid` compares what is put into the cache with what the server sent. Their comments name the
exceptions: the upper half of the TTL, EDNS queries, CAA records, answers without records. Assumed: names have a label; the server refers to the question for
the name of its first record. The same code in `EvDNS/net.c`, whose record with a text has a length of 1, is not modelled.

### How `Crc32` corresponds to the code

`Receive` is one byte of the sum, as the eight lines of a turn and the lines for the rest all do it; `WithCrc` is what `put_frame` appends. A word is the set of its 1
bits. `TableIsDivision`, an assumption TLC evaluates, compares all 256 entries with the division by the polynomial that the file's comment states. `DamageSeen`
justifies the abstraction of `Datalink` that damage is detected, for up to four flipped bits of a short frame.

### How `Lprintf` corresponds to the code

A behaviour prints one line: literal text and one conversion with up to three options, in the order they are given. `Output` is `output` with the time before each line,
`OutputInteger`, `OutputDouble`, `OutputMemoryBlock` stand for the functions of those names. The widths of the types are constants, small in the run.

What it shows of the code, and `FieldsFaithful` exempts or states as it is: `%0-6u` writes zeros behind the number; `%-6.0p` of a null pointer is
wider than its precision; `%c` reads a width and forgets it; `%#b` prints no "0b", although `lprintf.h` shows one; `%hhd` takes its sign from the whole
`int`. Left out: negative zero, the returned length, the masks of the debug functions. The option `q` is left out of the run, being `ll`.

## Runs

| Run | Instance | Question |
|---|---|---|
| `datalink` | `MAX_SEQ = 3`, four packets from A, one from B, two frames per direction | do the sender's window, timers and buffers stay in step while the numbers wrap; is no old packet delivered; is there one NAK per frame; are acknowledgements honest; is a closed network layer reopened; is the reliable link implemented |
| `datalink_live` | `MAX_SEQ = 3`, two packets from A, one from B, one frame per direction, `FairSpec` | does every packet that was sent arrive, and is it acknowledged |
| `framing` | three frames of one or three bytes, blocks of six bytes, three hits | is the link a queue of frames; what does a hit cost; when does `recv_frame` abort |
| `send_queue` | a ring of four bytes, frames of two and three, nine bytes, six ms | do bytes leave in order and at the channel's rate; does a timer outlast its frame's wait |
| `rendezvous` | the code's numbers | do running stations share the epoch; do the stations come together |
| `rendezvous_abort` | the code's numbers | *violated*: is B that aborts with "failed to connect" a B without a connection |
| `domain_cache` | three names in one bucket, two of them alike but for case; three entries, lifetimes 1 and for ever, clock to 2 | do the lists survive expiry during a lookup; is the newest live entry found; when does the program crash |
| `domain_cache_lru` | two entries of lifetime 2 | *violated*: does a hit make an entry the most recently used, as the comment at `hlist.c:125` says |
| `easy_relay` | two clients, two numbers, a blocked and an unknown name, two slots, two different queries (each may be repeated), two answers, four seconds | who gets which answer, and is it fresh |
| `ev_relay` | two clients, two numbers, a blocked name and one for the server, slots 0 to 2 and a number behind the array, two queries, two answers, of 60 or 120 bytes by their names | who gets which answer; what crashes the program; what is passed on of an answer, and what may turn to garbage; is every query the table can answer answered |
| `event_loop` | two slots, frames of two bytes and of one, a queue of nine bytes, timers of three and two units | does the queue ever overflow; is no timer starved; is the physical layer's report always due; does the network layer come back after a wrap of the clock difference |
| `parts` | a frame of two bytes and four flipped bits; 12 options, up to three of them, types of two to six bits; two datagrams in a buffer of 72 bytes; two clients, three names, three lines of a table | is damage detected; does a printed field mean the number; does every line have one time; do replies and cache entries say what they should; is the one query served |

Why these bounds: four sequence numbers are the fewest with a window of two, where a slot has two
numbers and a frame can be out of order; four packets from A bring its numbers round once
and reuse every slot, and the fifth, from B, carries acknowledgements on a DATA frame; the confusion of an old with a new frame needs one full window. Wider
windows are left to the proofs, which cover every size. The inductive invariants (`Inv`, `RelayInv`, `EvInv`, `QueueInv`,
`RendezvousInv`, `CacheInv`, `FramingInv`, `LinkInv`, `LoopInv`, `BlockingInv`) are proved and are no properties of a run; what follows from them is both proved and checked. Two frames on the link are the fewest that can be in the wrong
relation to each other. For the framing, three frames are a frame with one on either side, three hits can take
the two flags between two frames and damage the third, and blocks of six bytes, where the frames take four or eight, end inside frames,
hold the end of one and the beginning of the next, and complete two at once when two short ones meet. Three entries in a bucket are a first, a
middle and a last; a lifetime of 1 against a clock to 2 has each of them expire before, during and after a
lookup. Nine bytes bring a ring of four round twice, with the end of the ring inside a send. Two slots and four seconds reuse each slot twice, and one of the slots is slot 0. In `EvRelay` three slots have one that is 0 and two to be
shared or not, and one more index in the array than is used; the number 7, which only an overwritten
query can have upstream, is behind it; 60 and 120 bytes are an answer that is padded and one that is cut off. The event loop's queue is a byte longer than `QueueBound`, what its window,
NAKs and ACKs can fill it with; a clock that wraps at seven units does so while the network layer is closed by a full window.
Three options are two that interact and one between them; a second datagram is the
first that finds something left in the buffer. Every property is violated when a plausible slip is put in the code
(`mutants` in `PROJECT.json`): for instance `NR_BUFS` one too large, `inc` without the wrap, `stop_timer`
after `inc`, a NAK for every gap, an ACK timer only for new packets.

Deadlock is not checked: the streams are finite, and when everything is acknowledged nothing is
left to do; the other systems end where a bound ends them. `NeverStuck` and the liveness runs say what a deadlock check would.

### Fairness

`FairSpec` of `Datalink` assumes, for each station:

- weak fairness of arrival (`Arrive`): what is on the link is received, damaged or lost in the end;
- weak fairness of `AckTimeout`: a running ACK timer expires;
- strong fairness of `DataTimeout` for the oldest unacknowledged frame: its timer expires, although
  it may be restarted by a NAK, and the link may be full from time to time;
- strong fairness of receiving, sound, some DATA frame, the DATA frame that is expected, and a frame that
  acknowledges something: the noise flips a bit of a block with a probability below one and
  independently, so that it does not hit every copy of a frame that is sent for ever.

In `EventLoop` the program runs (`WF_vars(Next)`), and a sleep takes time; the other modules' fairness stands with them above.

Nothing is asked of the network layer (it need not offer a packet) or of the physical layer's
report. The code justifies them: `wait_for_event` looks at every source in each pass that gets as
far as the timers, a deadline passes, and the sending queue drains at a constant rate.

## Proofs

Assumptions: `MaxSeqAssumption` (`MAX_SEQ` is odd and no larger than 255), `StationAssumption` (there
are two stations), `BoundAssumption` (the types of the two bounds). TLC evaluates all three.

The argument of `DatalinkProofs`: what is wanted (no wrong delivery, no overlap, honest acknowledgements)
is not inductive, because it speaks of the frames on the link only when their number is inside a
window, and says nothing of those that may get inside later. `Inv` names each thing by its *position
in the stream*, which the code never sees, and states which number stands for which position:

- `InStep`: `Acked <= received <= sent`, at most a window apart, and the receiver's edges are the
  sender's edges moved by those distances;
- `DataOnLink`: a DATA frame is less than a window behind the receiver, its number is as far from
  `frame_expected` as its packet from the next one; and of two DATA frames on the link the earlier is less
  than a window ahead of the later: this is what the FIFO order contributes, without which an old
  frame could follow a window of new ones;
- `AcksOnLink`: what frames acknowledge was received, and never goes back along the link;
- `NaksOnLink`: the NAKs ask for different frames, and `no_nak` tells if there is one for `frame_expected`;
- `Buffered`: a taken slot holds the packet its number stands for in the receive window;
- `Gate`: why the network layer is closed.

A step of one station changes one or two parts: there is one lemma per kind of change to a
link (a frame pushed, taken, the window moved by an acknowledgement or by a delivery), and
one per action. From `Inv` follow, for every `MAX_SEQ`, every stream and every
capacity of the link: `TypeCorrect`, `WindowCorrect`, `TimersCorrect`, `RetransmitCorrect`,
`DeliveryCorrect`, `WindowsDoNotOverlap`, `AcknowledgementsHonest`, `NaksCorrect`, `WakeupsCorrect`, and
`LinkReliable`, that the stations implement `ReliableLink` (its safety part).

`EasyRelayProofs` (assumption: `RelayAssumption`, which says that there are slots, that the table is about names, that
0.0.0.0 is no address the server gives, and the types of the rest). The properties look at replies, long after
the query; `RelayInv` follows the query there: what waits upstream, in the inbox or was replied under a slot's
number was *given* to that slot (`UpstreamGiven`, `InboxGiven`, `RepliesGiven`), the slot keeps one of the queries it was given
(`SlotsKeepAnOwner`), those were asked (`OwnersAsked`), and every entry of the cache is from the table or was told by
the server (`CacheTold`). That a lookup finds an entry at all (`Newest`) needs the cache to be finite and its entries
numbered (`CacheNumbered`). It holds for every number of clients, slots, names and lifetimes, and any `CACHE_LEN`:
a clash needs a shared slot and nothing else.

`EvRelayProofs` (assumption: `EvRelayAssumption`). Two things make this relay harder than the other: a callback may find the
buffer as the last datagram left it, and a send that had to wait sends what lies behind a pointer later. `EvInv` says where
everything comes from that is on its way: a datagram in the inbox or in the buffer was sent by a client or is an answer the server gave, either under
a slot that was given to a query for that name (`Given`) or to a query that was overwritten (`Answerable`, `InboxKnown`, `SlabKnown`); a slot keeps the address of one query that wrote to it and the number of
one, not always the same (`SlotsKeepUses`); a reply is made of parts of queries of its slot, and one that can turn to garbage is
the relay's own (`RepliesMade`, `PendingMade`). From it follow, for every table, number of slots and batch, that answers go to the wrong client only
through a shared slot, and are about the wrong name only through one or through a query that was overwritten (`MixupNeedsSharedSlot`), that only a flagged query or an
overwritten one can crash the program in `memcpy` (`CrashNeedsFlagOrGarbling`), and that what is passed on is the beginning of what the server said (`RelayedAnswersIntact`).
The history only grows (`HistoryGrows`), so what is known of a datagram stays known while it waits.

`SendQueueProofs` (assumption: `QueueAssumption`). `QueueInv` says of the ring what the code never writes down: what left are the first bytes given
(`LeftInOrder`), what lies from `sq_head` to `sq_tail` are the next ones up to the last (`RestWaits`), and as long as the station sends, what is ahead
of a timer's frame fits the time that timer has left (`TimerAllows`). The latter needs the queue's length and the channel's rate at
once, and the special case of the first pass, before which no time counts. `InOrder`, `RateKept` and `TimeoutAfterSending` follow for a ring of any size and any
lengths of frames: the lemmas on remainders (`WrapOnce`, `MoveHead`, `PlaceBehind`) carry the wrap.

`RendezvousProofs` (assumption: `RendezvousAssumption`). `RendezvousInv` follows the epoch from B's clock over the wire to A, and says how far the two stations
can be apart on the way; the number of attempts, the one that is taken for failure and the times are any.

`DomainCacheProofs` (assumption: `CacheAssumption`). A list is a chain of pointers, and "what is reachable" is a recursive definition: no prover can
follow it, and it is not what a step preserves. `CacheInv` says instead that *some* assignment of sets of entries to buckets (a layout) has the
pointers right: each member's `next` is the newest of its older members, and `pprev` is the pointer that points to it (`IsList`). Unlinking takes one
member out of its set. The search needs two more parts. It may hold an entry that has already been unlinked, and unlink it again: `Detached` says that it
then writes what is there. And what it passed was not what it looks for (`SearchOK`). An entry that never expires is never
unlinked (`ForeverStays`), which confines the crash. The reachable entries (`From`) are the layout's set by an argument on the least
counterexample, since an induction over the list cannot be stated to the provers. From `CacheInv` follow `ListsWellFormed` and `CrashNeedsExpiry`, and, for every step,
the step or stutter of `ExpiringMap` it maps to: `Implements` is the refinement `Spec => ImplementsExpiringMap`, for any names, hash function and
lifetimes.

`FramingProofs` (assumption: `SizesAssumption`). Every byte has a place: its frame and where it stands in it. `FramingInv` says that *some* place is where the
receiver is: the blocks and then the connection hold the bytes that follow it, one after the other, up to the end of what was sent (`Stream`). Against that place
`InStep` says what a receiver undisturbed has in `rf_buf`: of a frame no more bytes than were sent, and none between frames. It has to admit fewer than were sent as well, since
`wait_for_event` drops what exceeds `rf_buf`. The one hit that `noise <= 1` allows lies in a block that is still to come, or behind the receiver. In the latter case
it may be out of step by a flag (`OutOfStep`): closed inside a frame, or open behind the end of one, with at most one nibble more than that has; an opening flag that finds
it open and empty brings it back. So every frame it puts into `rf` is at most as long as the longest sent (`Short`), and `recv_frame`, whose caller has
room for a byte more, does not abort: `AbortNeedsTwoHits`, for any lengths of frames and any cut into blocks. That a block is read byte by byte is a recursive
function; its values are what the recursion says by an argument on the least counterexample (`ReadExists`).

`CostOfNoise` and the refinement of `NoisyLink` speak of frames that are still to come: what would be received if all that is there were read without more
noise (`Final`, which continues `Whole`, all that was received so far, with `Rest`, the bytes not read). They hold only for frames that fit in `rf_buf` (assumption: `FitAssumption`; those of the data
link layer have at most 263 bytes of 2048), since what exceeds it is cut off without any noise. `LinkInv` adds to `FramingInv` that what was read of one frame is in one piece, in order, and
before what was read of the next (`Ordered`); that the frame in `rf_buf` ends with the nibble that was read last (`Shape`); and the count, in which a frame that waits for its
closing flag already costs the next one, which is not sent yet (`Debt`). To send keeps the count: the new frame is read whole, or it pays the debt (`SentIsRead`). To
commit a block only moves bytes from one side to the other. The hard step is `socket_recv`, where a byte in the middle of the stream is hit: two receivers, one behind the byte
as it was and one behind the byte that was hit, read the same from there on. `Costs` says how far apart they can be. Inside a frame the second may have the same, have missed the opening flag,
have a damaged nibble or a flag in front of it, or still have the frame before this one open; behind the end of a frame both are empty, or the second still waits for the closing
flag of one that the first has. Always it has at most one whole frame less. There is one lemma for the byte that is hit (`CostsFirst`) and one each for a nibble, a closing and
an opening flag after it (`CostsNibble`, `CostsClose`, `CostsOpen`); at the end of what was sent the count is kept (`CostsAtEnd`).

From `LinkInv` follows that the frames to come are a queue as `NoisyLink` describes (`QueueOrdered`), and every step is a step of it: `send_frame` is `Send` (`SendIsSend`), a hit is `Noise`
(`NoiseIsNoise`), the pass that has `recv_frame` take a frame is `Receive` (`CommitIsReceive`), any other is a stutter (`NoisyStep`). `NoisyLinkImplemented` puts them together:
what the data link layer is checked against as a queue of frames, the bytes of the physical layer provide.

`PartsProofs`, the event loop (assumptions: `EventLoopAssumption`, the types of the constants and that the idle times are far from the wrap of the
clock; `SizesAssumption`, that the channel takes two control frames, 28 bytes, in the sleep of a pass, 30 bytes, and that `QueueBound` bytes fit: 17,000 of
131,072). The queue has two sources that nothing seems to limit: the peer may send frames for ever, and a timer may expire for ever. `LoopInv` pays for the first
with the rate of the channel and for the second with the length of the queue itself. `Owed` is what may be put in before a data timer expires: by the
event that was returned, by the ACK timer, by a frame in each block on its way, and by each slot that may be asked for again, once. `QueueFits` says that the queue and what is
owed stay within `QueueBound`; blocks arrive at most one in a unit (`BlocksSpaced`), in which the channel takes what two answers need. `TimersFit` says, for every
`x`, that half of what the channel takes within `x` is room enough for the slots whose timers expire within `x`: the other half goes into the
answers to blocks. `start_timer` gives twice the time that what waits needs (`DeadlineAllows`), so when a timer that was just started expires,
what is in the queue now has left, and the window's frames fit again (`SettlesFits`). Were it given just the time that what waits needs, half of it would not do; the mutant that
forgets the queue (`DeadlineFromNow`) overflows. A packet of the network layer is taken only while the queue is below `PHL_SQ_LEVEL`
(`Reported`). `NeverOverflows` follows for every window, rate, delay and timer.

`PartsProofs`, the first relay (assumption: `BlockingAssumption`, the types of the constants, and that the file has a line). `BlockingInv` says of the network that nothing
is sent on before the program has its query, so that what waits then is of users, and that afterwards only that query was sent on (`Asked`): as long as one user datagram
was sent in all, what comes next is the server's answer to it. Of the table it says that in each list the first entry with a name is the last line with that name (`Holds`),
the file's last line being read twice included. The lists are made by a recursive function; its values are what the recursion says (`TableRead`), and `Holds` goes on from
line to line (`AddHolds`), by the argument on the least counterexample. `ServedUnlessOvertaken` follows for every table, hash function and set of users.

Only model-checked: the properties of the parts in `MCParts` other than `BlockingRelay` (`DamageSeen`, `FieldsFaithful`, `StampPerLine`,
`ReplyReadsBack`, `CachedAsSaid`), and liveness. Out of reach of the prover are the
liveness properties (`ImplementsFairReliableLink`, `EventuallyAcknowledged`, `TimersServed`, `ReportedUnlessResending`, `Offered`, `TableQueriesAnswered`,
`InTimeTogether`), since it has neither fairness nor ENABLED; `DnsMessage`, whose reading of a name is recursive; and what folds over data compute
(`Crc32`, `Lprintf`), which takes induction.

## Plan

What is modelled is what was planned, and so is what is proved, but for what is named above as only model-checked.

## Not modelled

- The configuration of the library: `config` turns options into constants. The masks that choose what the debug functions print are with it;
  `dbg_event` tests the bit of `dbg_frame` (`protocol.c:730`), although the usage text (`protocol.c:158`) gives it its own, which changes what is printed and nothing else.
- The guard words of the library: they detect stray writes, which a model of the program's state cannot make.
- `datalink5.c`, which does not compile and is not built, and the empty `utopia.c`.
- `DNS/inone.c`, an earlier draft of the first relay in one file, and `DNS/testuv.c`, a sample.
- `log.c`, the debug functions and the options of the relays, and the copies of `lprintf.c` beside them, which differ from the one modelled in a few lines.
- The loop of `hashMapInit` over the table file in the epoll relay (in `BlockingRelay` it is `LinesRead`), and errors of `epoll_wait` and `recvfrom`.
- The socket and libuv exercises.
