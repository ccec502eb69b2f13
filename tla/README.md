# A TLA+ model of LOGORRHYTHM

LOGORRHYTHM (`logorrhythm/core`) is a protocol between two agents: a handshake
agrees on a *schema* (numbers for message types and fields), and then messages
are sent as *opcode frames*, in which a field's value is a literal, a reference
into a *value table*, or a difference to the last value of the field. No table
is ever sent: each side updates its own from the messages it writes and reads,
so correctness means that two programs replay one history. LOOM (`loom/`) is an
orchestrator built on it. `logorrhythm/legacy` is the former protocol, which
neither uses (the benchmark compares its sizes).

This directory models all three. The modules are:

| module | what it is | code |
|---|---|---|
| `Tables` | the value table as operators on a record; its invariants as predicates | `core/tables.py` |
| `ValueTable` | one table under every sequence of calls | `core/tables.py` |
| `Codec` | one field encoded, one item decoded | `core/session.py:152-279` |
| `MessageStream` | abstract: messages arrive once, unchanged and in order | – |
| `SessionStream` | a session that encodes, a session that decodes, a FIFO between them | `core/session.py:152-214` |
| `Handshake` | two sessions and the frames between them | `core/session.py:59-150, 281-285` |
| `DuplexSession` | both sessions encode and decode, negotiate and reset: `Handshake` and `Codec` composed | `core/session.py` |
| `HandshakeDriver` | the turns in which the benchmark carries a handshake: a schedule of `Handshake` | `benchmark.py:74-152` |
| `FrameCodec` | varints, zigzag, frames, the loop of `receive` on whole and cut batches | `core/frame.py`, `session.py:96-110` |
| `SchemaIds` | how the names of a schema are numbered, and again after a transfer | `core/schema.py` |
| `LoomAgents` | tester, benchmarker, critic, their log files and connections, over several runs | `loom/agents`, `loom/start.py:67-104`, `websockets.py` |
| `LoomArchitect` | the orchestrator: graph, task loop, time limit, fallback, kills, torn files and reruns; what reaches builder and reporter | `loom/start.py`, `loom/agents/builder.py`, `reporter.py` |
| `LegacyEnvelope` | signed envelopes through mailboxes, sent again and damaged | `legacy/encoding.py`, `api.py`, `bus.py` |
| `LegacyAlias`, `LegacyChunks`, `LegacyStream` | aliases, numbered chunks, streams of text | `legacy/adaptive.py`, `chunking.py`, `streaming.py` |
| `LegacyFleet` | heartbeats and the detector of dead agents | `legacy/heartbeat.py` |
| `LegacyRecords` | addresses and checkpoints written as texts | `legacy/addressing.py`, `fault_tolerance.py` |
| `TablesProofs`, `ValueTableProofs`, `CodecProofs`, `SessionStreamProofs`, `HandshakeProofs`, `DuplexProofs`, `LoomProofs`, `StandaloneProofs` | lemmas and theorems | |
| `MCStandalone`, `MCLoom` | several of these side by side (extended, or as named instances), one of which the initial state lets run | |
| the other `MC...` | instances for TLC: values and bounds that a .cfg cannot write | |

`PROJECT.json` lists the components, runs, mutants, findings, hazards and
theorems, and gives for every definition the lines it models.

## Inventory

**Value table** (`core/tables.py`). State: `value_to_id`, `id_to_value`, an lru
order, a count of sightings, the next id. Operations: `preload`, `maybe_learn`,
`get_id`, `get_value`, `reset`. Sequential; what is hard is that four structures
are changed one by one, that eviction runs after an id was chosen, and that a
dict finds keys by `==`, so `True`, `1` and `1.0` are one key. Correct when the
structures always describe the same entries, the limit holds, and an id never
stands for two values.

**Session** (`core/session.py`). State: the schemas it has (`schema_cache`), the
active one, `mode`, `handshake_complete`, `remote_fingerprint`, the value table,
`last_values`. Operations: `initiate_handshake`, `receive`, `encode`, `decode`,
`reset`. Sessions interact only through frames. Hard: the modes of the two sides
change at different times; both may initiate; refusals and transfers; `encode`
and `decode` may raise in the middle of their loops. Correct when nobody encodes
for a reader that reads with another schema, the exchange ends, and
`decode(encode(p)) = p` for a whole conversation.

**Frames and integers** (`core/frame.py`), **schemas** (`core/schema.py`). Pure
functions: varints, zigzag, frame boundaries; assignment of ids, canonical bytes,
fingerprint. Correct when decoding inverts encoding and equal fingerprints mean
equal id assignments.

**LOOM** (`loom/start.py`, `loom/agents/*.py`, `loom/common.py`, `websockets.py`).
The architect keeps the task graph (a file), the latest results and a session per
connection; each agent keeps a session, the commits it has seen, and a place in
its file. One process per agent, a handler per connection. They interact through
opcode frames and through log files in `loom/runtime`: commits.log (builder to
tester), test_pass.log (handler to benchmarker), bench_done.log (handler and
benchmarker to critic), progress.jsonl. `websockets.py`, a fallback, is what
`import websockets` finds from the root of the repository. Hard: reconnects with a
kept session, a handler that dies, files that are overwritten, cut off or left by an
earlier run, a time limit that overtakes the loop, a server that is closed before the
agents that use it are stopped, results that are not matched with tasks, kills.
Correct when every task is built, every commit tested, every commit that passed
reviewed, a task done by its own results, and the program ends with a graph and a
report. Much of this the code does not do, see Disagreements: as it is, the builder
gets no task, and a commit is in commits.log only if a builder was run on its own.

**Benchmark, command line** (`logorrhythm/benchmark.py`, `cli.py`): measurement
and printing, but for the driver that carries a handshake in turns. Correct when
the driver ends with both sessions negotiated, and counts what passed once.

**Legacy** (`logorrhythm/legacy`). The envelope encoding with its nonce store, and
mailboxes: correct when what is decoded was encoded, a secured message once, and
what the encoder accepts the decoder accepts. The alias codec (hits, aliases): what
is read is what was written. Chunks and streams: what is put together was sent.
Heartbeats: nobody is given up who was heard, nobody kept who was not. Address book and
checkpoints: what is read back is what was written. Identity proofs, topologies and
capability masks keep no state.

## How the models correspond to the code

*Values* are records `[type, n]`. `Key` maps a value to the representative of its
`==` class, which is what a Python dict does; ids map to the value as stored.
Strings, lists and dicts are names. A value of a tuple becomes a list when it is
read back from JSON (`JsonRead`), and one that `json.dumps` raises on ("opaque", bytes)
is not written; an int field reads back an int whatever was written, be it a float, a
bool or a str of digits (`Literal`). `Half` is 2^63: `Svarint` is what `zigzag_encode`
makes of an int, and `IntsFit` (in the assumptions of `SessionStream` and
`DuplexSession`) keeps to the ints that ten bytes hold, beyond which `decode` raises.

*ValueTable* has one action per method. `preload` loops over its argument, so its
iterations are steps, with no other call between them: the invariants then hold
inside the loop too, except for the limit, which the code checks only at the end.
`EvictIfNeeded` gives the loop of `_evict_if_needed` in closed form: it drops the
first `Excess(t)` keys of the lru order. `born` is a history variable.

*SessionStream* has one action per iteration of the loops of `encode` and
`decode`, and one for each way a call ends: return, or the exception, which
leaves behind what the earlier iterations did. The receiver takes frames in order
from `wire`; the sender may be any number of frames ahead, and in the middle of a
call while the receiver is in the middle of one. The rows `trail` and `trails`
remember the encoder's states, to which `Lockstep` compares the decoder's.
A receiver that catches the exception of `decode` loses that frame and goes on.

*Handshake* has one action per branch of `_handle_frame`. A fingerprint is the
schema it is the SHA-256 of: no collisions. The two frames of
`initiate_handshake` are two entries of the queue (HELLO has no effect), every
reply is one frame, and every reply is delivered, as the drivers in the tests and
in `benchmark.py` do. The schemas and both configurations are chosen in `Init`:
every run covers all of them. `reset` leaves what is in flight in flight.

*DuplexSession* adds to `Handshake` a codec state per peer, which every frame that
activates a schema makes anew, and puts messages into the queues between the
handshake's frames. Calls are atomic, their insides being those of
`SessionStream`. Both sessions have the limits and the learned fields of one
configuration; `strict` and `allow_schema_transfer` are each side's own. In RAW mode
`encode` is `json.dumps`: it raises on some values and makes others lists (`garbled`
compares with what JSON keeps). `Rules` says what the application takes care of: to initiate only
from HANDSHAKE mode and with nothing under way, to reset only then, and to write
nothing while a message is coming. *HandshakeDriver* restricts `Handshake` to
turns.

*FrameCodec* has a byte with a small base for its continuation bit; one step of the
reader reads a header or one integer. `ZigzagEncode` is the Python expression, in
which an int is as wide as it needs to be. The loss of the end of a batch is the
environment's. *SchemaIds* has one step per name.

*LoomAgents* has one action per iteration of each agent's loops and one per branch
of the handler. A connection is a queue of results and a flag that says if its
handler runs. When an agent connects again its session is ahead of the handler's new
one: from then on (`behind`) what the handler decodes is arbitrary or an exception. A
write to a connection that has ended may go unnoticed or raise. `Left` is what
commits.log holds: nothing is added while the program has the port. A run ends in
three steps that may come at any time: `ServerCloses` (no new connections),
`HandlersEnd` (asyncio.run cancels them), `NextRun` (agents terminated and started
anew, files kept, bench_done.log perhaps truncated). Agents that outlive a main that
was killed by SIGKILL are left out.
*LoomArchitect* is the other half: the loop is
cut at its sleeps, time passes only there, and the agents' results are arbitrary.
`Crash` may happen at every point. A file that is written is first truncated: between
`Launch` and `Create`, and between `OpenGraph` and `Save`, task_graph.json is
`TornGraph`, and a run that finds it so ends at once (`LaunchFails`). `mail` is what was
sent and not received, by addressee; the loop's messages go to the handler, which has
no branch for them (`Deliver`), and nothing goes to builder or reporter. `waits`
is the behaviour of `asyncio.Server.wait_closed`: at once before Python 3.12.1, with the
connections from then on. `TokenUsed` stays 0: the handler's `token_used +=` is to a
variable of its own, and would raise.

*LegacyEnvelope* keeps of a text its size, to the byte, because the limits are in
bytes, and of a correlation id too (any form `uuid.UUID` takes, 32 bytes or more);
`NonceLimit` is 2^64, above which `struct.pack` raises. CRC32 and HMAC are ideal, and a nonce that was drawn (uuid4) is new.
*LegacyStream* keeps of a character its number of bytes. In *LegacyChunks* the
transfer id, a hash, is the payload. *LegacyFleet* has the
monotonic clock in ticks, and windows in which each agent sends a heartbeat or not. In *LegacyRecords* a text is
a sequence of tokens of which one is the separator.

## What the runs show

| run | bounds | result |
|---|---|---|
| `ValueTable` | 5 values (two that are `==`, one unhashable), 2 literal lists, limit 2, threshold 2, ids up to 6 | the five properties hold |
| `SessionStream` | 3 fields, 8 values, 6 payloads, 4 calls, limit 2, threshold 2 | `StreamSpec`, `Lockstep` hold |
| `SessionStreamRaise` | 3 payloads of which one may raise half way, 4 calls | tables well-formed, faithful up to the exception |
| `MixedStream` | a bool and a uvarint field | `RoundTrip` violated |
| `Handshake` | 2 schemas, every configuration, one initiator, 2 handshakes | four properties hold |
| `HandshakeChaos` | both initiate, 3 handshakes, 2 resets | `TransferIsAnnounced`, `Terminates` hold |
| `HandshakeStrict` | one initiator, 1 handshake | `StrictRemainsRaw` violated |
| `DuplexSession` | 2 schemas, 2 handshakes, a reset, 4 messages of 3 payloads, all rules kept | `NeverGarbled`, `TablesAgree` hold |
| `DuplexCrossing` | as above with 1 handshake, without the rule for messages | `NeverGarbled` violated |
| `Loom` | agents: 2 commits, 1 connection lost, 2 runs. Architect: 6 tasks (one more than the time allows), 2 runs, both behaviours of `wait_closed`; a graph that is there at first has 0, 5 or 6 tasks open | the seven properties hold |
| `LoomTaskLost` | as `Loom` | `TasksBuilt` violated |
| `Standalone` | in the table below | the fourteen properties hold |

The parts of `Standalone`, which share nothing:

| part | bounds | properties |
|---|---|---|
| `FrameCodec` | base 4, three groups, ints of 5 bits; 2 frames of 9 bodies, up to 3 bytes lost | `IntsSurvive`, `PrefixRead` |
| `SchemaIds` | 4 names, ids 0, 1, 2, 4 or automatic | `NumbersAsPromised`, `TransferKeepsIds` |
| `HandshakeDriver` | 3 schemas, every configuration | `TakesTurns`, `Accounted` |
| `LegacyEnvelope` | 2 messages of 13 kinds, of sizes at the limit; 3 sendings, 1 damaged, 3 configurations of the reader | `AsSent`, `OnceOnly`, `RefusedForCause` |
| `LegacyAlias` | 3 messages, 2 aliases, 9 sendings | `ReadsAsWritten` |
| `LegacyChunks` | 6 payloads, chunks of 2, 3 arrivals | `Reassembled` |
| `LegacyStream` | every text of up to 4 characters of 1, 2 and 4 bytes, 5 chunk sizes | `ShowsText` |
| `LegacyFleet` | 2 agents, windows of 2 ticks, 10 ticks | `DeadAfterMisses` |
| `LegacyRecords` | 2 names, 2 tasks, 2 owners, 3 calls | `ReadsBack` |

In `Loom` and `Standalone` one step of `Next` is a step of the part that runs, so
the state spaces add and do not multiply.

**ValueTable.** `TableInv`: the dicts are inverse to each other, the lru order is
a permutation of the keys, the limit holds outside `preload`; so no `popitem` or
`pop` in the code raises. `ReturnedIdIsLive`: an id is usable when it is returned,
although eviction ran after it was chosen. (With `max_entries = 0` it is not; the
property excludes that.) `LearnedOnlyWhenRepeated`, `IdsNeverRebound`: learning
needs the threshold, and an id has one value until a reset. With a limit of 2 and
six ids entries are evicted and learned again, twice over.

**SessionStream** shows that the pair of sessions implements `MessageStream`,
with liveness, provided that payloads respect the schema (`Admissible`: a value
has the type its field declares, and no two values are `==` but of different
types) and `encode` raises only at the first field of a message. The payloads are
chosen so that a conversation learns, refers, evicts, sends deltas and a
difference too large for one, raises, and sends a value that cannot be hashed.
**SessionStreamRaise** drops the second proviso: the guarantee then ends at the
first half-done `encode`, and the tables stay well-formed on both sides even
after `decode` raised. `SessionStream` and `SessionStreamRaise` between them
reach all actions.

**Handshake.** `ReaderReady`: a session in opcode mode has a peer that reads with
the same schema, also between ACK and MODE_SWITCH. `BothOrNeither`: when all
frames have arrived both are in opcode mode or both are not. `Negotiates`: an
initiator that may transfer its schema ends with both in opcode mode.
**HandshakeChaos**: whatever is initiated and reset, no session raises
HandshakeError at the other and the exchange ends: `RejectTransfer`, the branch that
raises, is modelled, and `TransferIsAnnounced` says that it is never enabled. `ReaderReady`,
`BothOrNeither` and `Negotiates` are stated for one initiator and no reset because they fail otherwise. **HandshakeDriver** shows that turns are a schedule that `Handshake`
allows and that is fair to both sessions, so that its properties hold of the
benchmark, and that what the benchmark adds up is one offer, one answer and at most
one transfer.

**DuplexSession** says under which rules two sessions understand each other over a
whole life with renegotiations; `DuplexCrossing` shows that the rule for messages is
needed, and the disagreements below that the others are, and equal limits. Three payloads and a table of 2 make the conversation
learn in one direction and refer in the other, and evict.

**FrameCodec**: `IntsSurvive` for ints up to the width the shift allows, at both ends
of every group count; `PrefixRead`: a batch that was cut off is read as the frames
it holds whole, and never as something else, and `receive` returns only where the rest is missing.
**SchemaIds**: `NumbersAsPromised` gives what the loop computes as a definition;
`TransferKeepsIds` is why a fingerprint survives the transfer.

**LoomAgents.** `StagesInOrder`: no commit is benchmarked before it passed or
reviewed before it was benchmarked, although two processes write bench_done.log, and
files of one run are read in the next; `EveryCommitTested`: as long as the tester has a
connection, also if it lost one with lines in hand; `LastPassedReviewed`: in a first run,
a commit after which no other passes is reviewed, if the connections last. Main stops
everything after 20 s at the latest, unless `wait_closed` hangs, when agents and handlers
go on for ever; so both say what happens unless the connection ends first. Two commits
are enough for one to overwrite the other, one lost connection for a session to be
ahead, two runs for a file to be left.
**LoomArchitect.** `SavedIsLogged`, `DoneNotReassigned`: what the graph says agrees
with the log, through kills, and a later run goes on from it; `TimeForFive`: five
tasks are what the time limit has room for; `MainEnds`: a run that is not killed
ends; only one that ran out of time hangs, in `wait_closed` with agents connected,
where that waits. Six tasks are the fewest that do not fit.

**LegacyEnvelope.** `AsSent` and `OnceOnly` through repetition, damage and retries
with other keys; `RefusedForCause` the other way round: the limits of encoder and
decoder agree to the byte, and a refused copy uses up no nonce. The sizes are the
last that fit and the first that do not, with and without a signature.
**LegacyChunks**, **LegacyStream**, **LegacyFleet**, **LegacyRecords**: as the
comments at their properties say; 3 arrivals are a transfer of 2 and one chunk too
many, the clock runs long enough to be silent, suspected and back.

### Disagreements

Four runs show that the code does not do what a test or document says:

* `MixedStream`: `True` and `1` share a table entry. After `TEST_RESULT` with
  `passed = True`, a `tasks_complete` of 1 is sent as a reference to `True`; the
  encoder notes 1 as the field's last value, the decoder notes nothing
  (`session.py:182` against `212`), and the next value, sent as a delta, is
  decoded wrongly.
* `HandshakeStrict`: a strict session that refused a schema and went to RAW still
  handles the SCHEMA_TRANSFER its peer answers with (`session.py:125-134`), and
  goes to OPCODE_MODE.
* `DuplexCrossing`: one table serves both directions (`session.py:70`): messages that
  cross on the wire make a later one decode to something else.
* `LoomTaskLost`: the loop sends its tasks to the server of its own process
  (`start.py:109-116`), whose handler has no branch for them (`start.py:85-104`); the
  builder waits at another connection. The request for the report (`start.py:121`) goes
  the same way, and `report` stays FALSE.

The same models gave counterexamples to other statements, which are not kept as
runs because each is plain once it is seen. They mark where the properties end:

* an `encode` that raises after its first field has changed the table and
  `last_values`, and nothing was sent (`session.py:181-183`): why `FaithfulDelivery`
  stops at `limit`;
* when both sides initiate at once, each activates the schema of the other
  (`session.py:118-120`) and both complete: why `ReaderReady` has one initiator;
* an ACK is ignored after the responder emptied its table (`session.py:140`), and
  configurations are not negotiated (`session.py:71`): the rules of
  `DuplexSession`, and the limits that its sessions share;
* preloaded literals do not keep their ids (`tables.py:26` against `84-88`): only
  `IdsNeverRebound` holds;
* an int outside of -2^63..2^63-1 is changed, and one too wide for ten groups raises when
  it is read (`frame.py:39`, `33`): `Bodies` has none, and `IntsFit` excludes the latter;
* commit ids begin anew with the builder's process and commits.log does not
  (`builder.py:68`), so that of two lines with one id only one is tested:
  `EveryCommitTested` is about ids; test_pass.log is overwritten (`start.py:94`) and
  stays for the next run, so only the commit that passed last in a first run is sure to
  be reviewed;
* from Python 3.12.1 on, `wait_closed` waits for agents that are stopped only after it
  (`start.py:127`, `212`), and when the time limit has been used up nothing ends that
  wait, although README.md:4 has the user come back to a report: `MainEnds` says that a
  run ends or `Hangs`;
* a kill while task_graph.json is written (`start.py:36`, `215`) leaves a file at which
  every later run raises (`start.py:30`), although loom/README.md:6 says that it is
  resumed: `LaunchFails` is reached, and no property says that it is not;
* ten tasks do not fit in 20 s and are marked done all the same (`start.py:208`): a
  task in status done was not always assigned; and `latest` (`start.py:118`) is
  compared with no task, so it may be done by the results of an earlier one;
* of the former protocol: aliases that only their maker knows (`adaptive.py:47`),
  transfer ids that ignore the chunk size (`chunking.py:23`), cuts inside of
  characters, at which the reader raises (`streaming.py:41`), agents that are dead
  before their first heartbeat (`heartbeat.py:26`), slashes in names, which make two
  addresses one (`addressing.py:29`). `Links`, `ChunkSizes` and `Labels` leave them out;
  `ShowsText` and `DeadAfterMisses` are stated around them.

### Fairness and deadlock

`ValueTable` has no liveness. In `SessionStream` a call that was made runs to its
end (Python is sequential: weak fairness of the steps of `encode`), and the
receiver keeps reading its connection (weak fairness of the steps of `decode`);
nobody has to call `encode`. In `Handshake` a frame that has arrived is handled
(weak fairness of `HandleFrame(p)` for each peer); nobody has to initiate or to
reset. `HandshakeDriver` runs to its end.
In `LoomAgents` every agent's loop goes on and the handlers read what has arrived
(weak fairness of each) for as long as they are let: nothing is fair about when main
closes the server, ends the handlers or terminates the agents, and none of it is
excluded. `EveryCommitTested` and `LastPassedReviewed` are therefore stated of a
connection that lasts. `MCLoom` states the fairness of each half where it runs. In
`LoomArchitect` the program goes on with its own steps; nothing has to report to it,
start or kill it. The other modules state no liveness. `CHECK_DEADLOCK FALSE` is set where the system may stop: all frames
handled and the bound on calls reached. In `ValueTable` some call is always
possible, and deadlock is checked.

The bounds are `MaxId` (ids given out), `MaxCalls` (calls of `encode`),
`MaxInitiations`, `MaxResets`, `MaxMessages`, `MaxFrames`, `MaxLost`,
`MaxDrops`, `Lives`, `MaxRuns`, `MaxMade`, `MaxPosts`, `MaxDamage`, `MaxSent`, `MaxArrived`,
`MaxLength` and `MaxTime`; they appear in guards only, `MaxLength` in an `Init`.
`Base`, `MaxGroups`, `Half`, `NonceLimit` and `MaxAlias` are limits of the code made small.

## What is proved

By TLAPS, for every value of the constants that meets the assumptions named. Each
theorem rests on an inductive invariant, because the property alone is seldom kept
by a step; what the invariant adds is the argument.

**`ValueTableProofs`**: `TypeCorrect`, `TableCorrect`, `LearningCorrect`,
`ReturnedIdsLive` (`Spec => []P` for the four invariants of the run) and `IdsStable`
(`Spec => IdsNeverRebound`), from `TablesAssumption` and `ValueTableAssumption`.
`IInv` is the conjunction of the four: an eviction pops the first keys of the lru
order from the dicts, so nothing about the dicts is preserved unless the lru order
is known to list exactly their keys, once each. `TablesProofs` has one lemma per
operator (`TouchLemma`, `InsertLemma`, `EvictLemma`, `MaybeLearnLemma`, ...),
`CardinalityLemma` (a sequence without duplicates is as long as the set of its
elements: why dropping `Excess(t)` keys is enough) and `NewestSurvives` (the last
key of the order is not among those dropped: why a returned id is live).

**`SessionStreamProofs`**, on the lemmas of `CodecProofs`. `TypeCorrect` and
`BothTablesWellFormed` ask nothing of the payloads. `DecoderInLockstep`
(`[]Lockstep`) and `DeliveryFaithful` (`[]FaithfulDelivery`) assume `Admissible`.
The core is `DecodeUndoesEncode`: on one state, the decoder reads from the item of a
field the value that was encoded and goes to the state the encoder went to; it needs
the dicts to be inverse to each other, and that equal keys are equal values, which is
what `Admissible` says. `EncoderInv` says that every frame, on the wire or half
written, replays through the states recorded in `trails`, each frame beginning where
the one before it ended; `DecoderInv`, that the decoder is at the recorded state of
the item it comes to. `ImplementsMessageStream` is the safety part of `StreamSpec`:
initial states map to initial states, every step to a step of `MessageStream` or a
stutter, and `decode` never raises. It assumes `Admissible` and
`FailsAtFirst(Messages)` (a field that cannot be encoded is the first of its
message). The instance `MCSessionStream` states both of its constants, so TLC
evaluates them: they are met by payloads that include one that raises.

**`HandshakeProofs`**, from `HandshakeAssumption`. For any initiators, handshakes and
resets: `TypeCorrect`, and `TransfersAnnounced` (`[]TransferIsAnnounced`) from
`AnnouncedInv`, by which everything on its way to a session, and what it remembers,
is of its peer's own schema. For one initiator `i` and no reset (the others are
false, see above), with no bound on the number of handshakes: `ReaderAlwaysReady`
(`[]ReaderReady`), whose invariant `OneInitiatorInv` adds which frames can be on
their way to whom, and that an ACK, a MODE_SWITCH or a session in opcode mode implies
that the responder took `i`'s schema; and `BothEndAlike` (`[]BothOrNeither`), whose
invariant `OneOutcomeInv` adds that refusals are ahead of acknowledgements in the
queue to `i`, and that `i` is in opcode mode exactly when the other side is or has a
MODE_SWITCH coming. Of `HandshakeDriver`, when the client may initiate:
`CostsAddUp` (`[]Accounted`); `DriverInv` lists the nine stages an exchange passes through, with what is on its way
and what was counted at each.

**`DuplexProofs`** puts the two together: `ConversationNeverGarbled` (`[]NeverGarbled`)
and `ConversationTablesAgree` (`[]TablesAgree`), with no bound on the handshakes, resets
and messages of a conversation. They assume `Orderly` (the application keeps all three
rules: without any one of them the properties are false, see above), `Admissible` (for
the values of the conversation) and `DuplexAssumption`; `MCDuplexSession` states
`Admissible`, so TLC evaluates it with the values of the run. `encode` and `decode` fold
over the fields of a message, and the fold is handled by induction: `ReadUndoesWrite`
says that on one codec state what was written is read back and leads to the
writer's state, field by field `DecodeUndoesEncode`. The invariant, `DuplexInv`, has as
parts that at most one frame is under way that can change what a session does next
(`OneMove`), what such a frame may rely on at both ends (`Due`), that a session in
HANDSHAKE mode is as new unless the rest of its handshake is coming (`Rests`), that from
the MODE_SWITCH on the two use one schema and one direction is silent, and that reading what is still in the queue leads
the reader's codec state to the writer's (`InSync`). From the last, what is read is what
was written; once the queue is empty, the states are equal.

**`LoomProofs`**, of `LoomArchitect`: `SavedAreLogged` (`[]SavedIsLogged`), for any number of
starts and kills; `DoneStaysDone` (`DoneNotReassigned`) and `TimeIsForFive`
(`[]TimeForFive`), from `ArchitectAssumption`. `GraphInv` relates graph, file and log;
`TimeInv` counts: in the loop the clock is 2 and 3 more for each task the run has
begun, and behind the loop's place are exactly those. Of `LoomAgents`:
`StagesKeepOrder` (`[]StagesInOrder`), from `LoomAssumption`, for any runs and ends of
them. `StagesInv`: while no connection was lost, every commit in a file, in lines that
were read or in a result on its way has been through the stage it comes from;
`LinksInv`: an agent that connects then has a session that was not used, so that
nothing is misread.

**`StandaloneProofs`** has, for eight components, an inductive invariant, and rests on
the assumption on the constants that the component's module names:

| component | theorems | assumption | invariant |
|---|---|---|---|
| `SchemaIds` | `TransfersKeepIds`, `NumbersKeepPromise` | `SchemaAssumption`: names finite and ordered, ids ints | `IdsInv`: the numbers given so far are the first free ones, one per name |
| `LegacyEnvelope` | `DecodedWasSent`, `ReturnedOnce`, `RefusalsHaveCause` | `EnvelopeAssumption`: sizes are numbers | `EnvelopeInv`: a packet is one that was encoded and fits, or a damaged one with the checksum of what it was; `seen` is what was returned |
| `LegacyFleet` | `SuspectedInTime` | `FleetAssumption`: a window has at least one tick | `FleetInv`: missed windows are those between the last heartbeat's and the present one |
| `LegacyAlias` | `AliasesRead` | `OwnLinks`, a hypothesis of the theorem: a codec reads only what it wrote | `AliasInv`: an alias on its way stands for what it was written for |
| `FrameCodec` | `IntsAlwaysSurvive`, `PrefixIsRead` | `FrameAssumption`: bytes below a base, ints of a width whose numbers fit in `MaxGroups` groups (as 64 bits do in ten) | `FrameInv`: the bytes are the batch of the messages less what was lost; between frames the reader is at the end of message k and has read the first k; inside a payload it is at the end of its first j ints; it raised only when something was lost |
| `LegacyChunks` | `ChunksComeTogether` | `ChunkAssumption`: sizes above 0; `OneSize`, a hypothesis of the theorem: one chunk size, which a chunk does not say | `ChunkInv`: the frames that arrived are of transfers that were made, and the result is what they are put together to |
| `LegacyStream` | `StreamShows` | `StreamAssumption`: widths and chunk sizes above 0 | `StreamInv`: the unread frames are all but the first x, the characters shown the first q, and unless reading raised the bytes of the one are those of the other |
| `LegacyRecords` | `RecordsReadBack` | `RecordAssumption`: texts are sequences of tokens; `WithoutSeparators`, a hypothesis of the theorem: only the state may hold a separator | `RecordInv`: each address in the book is one that was registered under its id, each snapshot the text of the checkpoint that was saved |

TLC evaluates the named assumptions with the constants of the runs, and the hypotheses
`OneSize` and `WithoutSeparators` as assumptions of `MCStandalone`, whose `Links` is as
`OwnLinks` says. They ask no more than the code supports: these three are limits of the
code noted under Disagreements, and without them the properties are false.

The bytes of `FrameCodec` are made by recursion (a number is a group and the rest) and
by concatenation. An operator cannot be passed to the library's induction theorems with
these provers; a set of numbers can: `NumberInduction` says that a set with 0 in it and
the successor of each of its members has every number, and each lemma about data
gives it the set of the numbers its claim holds of. So it is shown that the recursive
function exists, that `decode_uvarint` reads what `encode_uvarint` wrote whatever
follows it (`DecodeLemma`) and fails when it is cut off (`CutOffLemma`), and where in a
concatenation each part begins (`FlattenLemma`, `OffsetLemma`).

The other codecs rest on the same lemma about concatenation. Of `LegacyChunks`:
frames with different numbers, as many as the message had chunks, are all of them (by
cardinality), and pieces of n bytes, put in order, are the whole (`PiecesLemma`). Of
`LegacyStream`: a chunk that begins and ends at the border of a character is the
bytes of whole characters, those that follow the ones shown (`CharactersLemma`). Of
`LegacyRecords`: the k-th separator of a joined text is the one after its k-th field
(`SeparatorsLemma`), so that what is between them are the fields (`SplitLemma`).

Only model-checked:

* liveness: `Negotiates`, `Terminates`, `EveryCommitTested`, `LastPassedReviewed`,
  `MainEnds`, and `StreamSpec`'s; and `TakesTurns`, whose safety part holds by the way
  `HandshakeDriver` is built. It is beyond this
  prover.

Every safety invariant that a passing run checks is stated by a theorem. `NeverGarbled`
is proved under `Orderly`, of which `DuplexCrossing` leaves one rule out; the properties
of the other runs that expect a violation are false.

## Not modelled

What is left out of the parts that are modelled: JSON and SHA-256 (trusted), the
checks of field types in `normalize_schema`, the strings and bytes of `frame.py`
(the same length prefix again), status pulses (nothing reads them), what the agents'
subprocesses and the fallback write, how processes are started (`_spawn` needs fork), `parse_brief`, the length prefix of
`websockets.py`, the rendering of envelopes.

What is left out for good: the measurements of `benchmark.py`, `cli.py`, and in
`logorrhythm/legacy` the demonstrations, reports and size comparisons (`v003.py`,
`v004.py`, `_demo_core.py`, `benchmark_sync.py`, `cross_model.py`, `layer2.py`,
`observer.py`) print numbers and keep no state that a step could spoil;
`registry.py` and `handshake.py` are a dict and a call that adds to it;
`identity.py`, `topology.py` and `capabilities.py` are single expressions;
`transport_ws.py` and `transport/` pass a payload to a socket and back.

Seven of the hazards in `PROJECT.json` have no property, for the reasons given there.
