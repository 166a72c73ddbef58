# Verification of CADS-p2p-vault

TLA+ models of the vault's core, TLC runs over small instances, and theorems
checked by TLAPS.  Paths below are relative to the repository; `store.rs` and
`main.rs` are those of `crates/vault-agent/src`, `manifest.rs`, `hlc.rs`,
`lease.rs` and `chunk.rs` those of `crates/vault-manifest/src`.

## The system

A vault is a directory that several agents keep equal.  Each agent owns a copy
on its disk, a chunk store and a manifest, and gossips with its peers.

| part | state | operations | talks to |
|---|---|---|---|
| hybrid logical clock (`hlc.rs`) | `physical_ms: u64`, `logical: u32` | `zero`, `tick`, `observe` | called by the scan (`tick` only) |
| manifest (`manifest.rs`) | path -> entry (chunk hashes, stamp, author, tombstone) | `put`, `merge`, both loops of `apply` | gossiped whole |
| scan (`store.rs` `scan_local`) | `known_local`, the clock | list, read, chunk, compare with `known_local`, tick, put, remember; tomb what is gone | users' files, manifest (mutex), chunk store |
| materialize (`store.rs` `materialize_remote`) | `known_local` | snapshot the manifest, then write or remove each file of another author that is not the known one and whose chunks are here | users' files, manifest, chunk store |
| TCP gossip (`main.rs`) | one connection and one server thread an exchange | `gossip_once_tcp`, `handle_incoming_tcp`: request, merge, reply, merge, ask, chunks | peers, manifest (mutex), chunk store |
| main loop (`main.rs`) | - | scan; dial every peer; materialize; save; sleep | all of the above |
| persistence (`store.rs`) | `.vault/manifest.json`, `.vault/chunks/*.bin` | `load_manifest` at the start, `save_manifest` each tick, `write_chunk`, `read_chunk` | shared with `gossip-handler` processes |
| channel dial (`main.rs`) | a child process and its three pipes | `run_dial_cmd`, `gossip_once_cmd` | a peer's `gossip-handler` |
| `gossip-handler` | none in memory | load, merge, save, reply; or read chunks | `manifest.json`, chunk store |
| chunker (`chunk.rs`) | the rolling hash | `chunk` | scan |
| provider lease (`lease.rs`) | - | `merge_lease`, `connectivity_score` | tests only |

Concurrency: an agent's main thread, one server thread for every incoming
exchange, the users, who change files at any moment, and the other agents.
The manifest is behind one mutex, taken anew for each put, merge and snapshot;
`known_local`, the clock and the files are in effect the main thread's, but
for the users.  Failure: connections refused, reset or timed out after any
message, files that vanish or cannot be written, a save that fails, a process
killed at any point; `known_local` and the clock do not survive it.

What makes each part correct:

* clock: an event's stamp is above everything that happened before it, and a
  clock runs no further ahead than some wall clock did;
* manifest: the last writer wins whatever the order in which entries arrive;
  replicas given the same entries agree; ties lose nothing;
* agent: a scan authors the users' changes and nothing else; a change replaces
  the version it was made on; a file never goes back to an older version; what
  is announced can be fetched; a kill takes back nothing that was saved and
  removes nothing; in the end all disks are equal;
* chunk store: what is stored under a hash is all that the hash stands for and
  never changes; what a peer has can be fetched from it;
* channel dial: an answer is all the command said; no call leaves a shell or
  keeps the others from their turn;
* chunker: chunks are the file, end to end, within their bounds; cuts depend on
  the last bytes alone, so an edit changes the chunks around it only;
* lease: who provides does not depend on the order in which leases are heard.

## The modules

`A <- B` reads "B extends A":

* `Hlc` (operators) <- `HlcClocks` (processes) <- `ProviderLease` <-
  `MCProviderLease`, `HlcProofs`;
* `Hlc` <- `Manifest` (operators) <- `ManifestReplicas` <-
  `MCManifestReplicas`, `ReplicasProofs`;
* `Manifest` <- `VaultAgent` <- `MCVaultAgent`, `VaultAgentProofs`;
* `ManifestFile` <- `MCManifestFile`, `ManifestFileProofs`;
* `ChunkStore` <- `MCChunkStore`, `ChunkStoreProofs`;
* `DialCommand` <- `MCDialCommand`, `DialCommandProofs`;
* `Chunker` <- `MCChunker`, `ChunkerProofs`.

`LastWriterWins` and `DurableGossip` are abstract; `ManifestReplicas` and
`ProviderLease` instantiate the first, `VaultAgent` the second.  `OperatorLemmas` holds the lemmas about the operators of `Hlc` and `Manifest`,
which `HlcProofs`, `ReplicasProofs` and `VaultAgentProofs` cite.

* **Hlc** is `hlc.rs` line by line.  The counter wraps at `LogicalModulus`
  (2^32 in the code).  `RoomToBump` says that it does not: the steps that
  bump are taken only with room, so what is shown is shown up to 2^32 events
  of one agent within a millisecond; beyond it a debug build panics and a
  release build repeats stamps.
* **HlcClocks**: processes tick and observe; a stamp once made may be observed
  by anybody, at any time, again and again; each wall reading is arbitrary.
* **Manifest**: `Apply` is `Manifest::apply` with all its branches.  A path is
  a sequence: a name and the short author ids of its conflict suffixes, so
  `{path}.conflict-{id[..8]}` is `Append`.  `Short` may map several authors to
  one short id, as eight bytes may.  An author's id is assumed to hold no path
  separator or `..`, so a conflict path is as safe as its original.  A content
  is a sequence of chunk hashes, and `content_key` its rank in string order,
  `<<>>` being least.  `size` is a function of the content and left out.
* **ManifestReplicas** is the `Agent` of `tests/local_simulation.rs`: `Write`
  ticks and puts, `Fetch` takes a snapshot of another replica and `MergeOne`
  is one turn of `merge`'s loop, in any order, since the HashMap has none.
  Between the turns only the other replicas run: `merge` holds `&mut self`.
  The ghost `seen` records what a replica was ever given.
* **VaultAgent** is the agent process.  `pc[a]` is the main thread's place:
  `list -> scan <-> store`, `scan -> dial <-> exchange`, `dial -> materialize -> list`.

  | action | code |
  |---|---|
  | `ListFiles`, `ReadFile`, `WriteChunk`, `TakeIn`, `ScanTomb`, `ScanDone` | `scan_local`: the listing; of each turn over a file the read, each `write_chunk`, and comparison, tick, put and insert; each turn that tombs; the end |
  | `ScanVanished`, `ReadFails`, `WriteChunkFails` | its exits with an error: the file is gone, cannot be read, a chunk cannot be written |
  | `Dial`, `DialRefused`, `ReceiveReply`, `MergeApply`, `AskChunks`, `StoreChunk`, `ExchangeDone`, `ExchangeFails` | `gossip_once_tcp`, `missing_chunk_hashes`, `apply_chunks` |
  | `ServeBegin`, `ServeApply`, `ServeReply`, `SendChunks` | `handle_incoming_tcp` |
  | `LateBegin`, `LateApply`, `LateReply` | the same for a client that has given up and dialed again |
  | `Snapshot`, `Materialize`, `MaterializeFails` | `materialize_remote` |
  | `Save`, `SaveFails`, `Restart` | `save_manifest`, the first lines of `main` |
  | `UserWrite`, `UserDelete` | the users (external) |

  The mutex is `Unlocked`: a merge holds it from its first turn to its last,
  every other critical section is one step.  A scan has the file it is at in
  `hand`: what it read, and how many of its chunks are stored.  Merges, users,
  errors and kills may come between any two of the steps; `known_local` and the
  clock are written by the main thread alone, so comparison, tick, put and
  insert are one step (`TakeIn`): the put is the only part of it that another
  thread sees.  `conn[c]` is the exchange `c` dialed together with its server
  thread, which outlives the client's giving up (`Dropped`) and not the server's
  process (`AfterDeath`).  `Dial` does not wait for that thread: it goes on in
  `late[c]`, merging the older snapshot, while the next exchange is under way,
  and its reply reaches nobody.  Bound: one such thread for each dialing agent,
  so one that gave up twice waits to dial until the first thread is done.

  Errors and kills (`Fault`) are bounded by `MaxFail` in all and come to the
  agents in `Unlucky`.  With `Truncates`, a write that fails or is killed may
  leave a part: a chunk file then exists and is in `torn`, and is taken for the
  whole by `write_chunk` from then on; a file of the directory holds a prefix.
  A chunk read from a short file makes another at the agent that asked for it,
  and files assembled from one have some other content.  `harmed` (ghost) are
  the agents that were killed or that a short file has come to; `Unharmed` are
  the others.  The clock is never observed, as in the code.  `list_files`
  failing on a directory that vanishes is left out; its effect, a scan cut
  short, is `ScanVanished`.
* **LastWriterWins** is what both merges of the crate promise, `Manifest::merge`
  (`manifest.rs:90`) and `merge_lease` (`lease.rs:15`): a replica that is given
  a value for a key keeps, for that key, one it was given that none it was
  given outranks, and touches no other key.  `FilesAreRegisters` maps the
  entries of file paths to it (conflict paths are not registers: their first
  entry stays), `LeaseIsRegister` the one lease of each member.
* **DurableGossip** is what the agents are to each other once threads, mutex,
  exchanges and directories are left out: replicas that make values of their
  own, send the whole of their state over a network that loses, repeats and
  reorders, put what arrives one value at a time, from several messages in any
  order, save, and fall back to what they saved.  While a replica has put a part
  of a message (`partial`) nobody makes a value in it, sends it or saves it.
  `ManifestsAreDurable` maps an
  agent's memory to `held`, its `manifest.json` to `saved`, the requests,
  replies and half-merged snapshots of all exchanges to `mail` (`Mail`), and the
  agents in the middle of a merge to `partial` (`HalfMerged`): a scan, a reply, a
  request or a save that saw a half-merged manifest would be none of its steps.
* **ProviderLease** is `lease.rs` among the processes of `HlcClocks`: `Announce`
  makes a lease with a ticked `renewed_at`, `Hear` merges one.  No binary calls
  `merge_lease`, so either argument may be the lease at hand.  Scores are whole
  numbers: an `f32` that is no NaN is ordered like them.
* **ChunkStore** is `.vault/chunks` of several agents and the exchanges that
  fill it.  `main[a]` is the main thread, the only writer: `idle`, `storing`
  the chunks of a scanned file or of an answer, in any order, or `waiting`
  while its peer's thread or handler reads chunk by chunk (`Serve`).
  `Write` is the `is_file` test and the creation of the file, `Written` the end
  of `fs::write`; between them the file is there and `short`.  What `Serve`
  reads then, it sends.  `GiveUp` is any error or kill: it leaves the open file
  as it is.  Merges are one step here and no entry is replaced; `VaultAgent`
  takes them apart, with chunks as a set.
* **DialCommand** is `run_dial_cmd`, called twice by `gossip_once_cmd` for each
  `--peer-cmd` in turn.  `phase` is the main thread's place: `writing` stdin,
  `polling`, `joining` the readers, `done`.  A poll ends the call when the shell
  has exited (`Poll`), when time is up (`TimeOut`), or with its own error
  (`PollFails`), which leaves the shell as it is.  Pipes hold `Capacity` units; a
  reader stops one unit beyond `MaxMessage` and closes its end.  The command is
  external and may do anything a shell command may: read its input first, last
  or never, write to both streams, fail, not end, be the shell itself, a child
  the shell waits for or one that it does not wait for.
* **Chunker** is `chunk()`, a step for each turn of its loop, over the files a
  scan chunks one after another.  A word is the set of its bits that are 1:
  `rotate_left` shifts the numbers of the bits and `^` is the symmetric
  difference.  Table, mask, window, width and bounds are constants.  The hash of
  a slice is the slice: BLAKE3 is taken to name it by its content.
* **ManifestFile** is the sharing of `manifest.json`: one agent, which loads at
  its start (`AgentStart`) and saves each tick, and handlers, which load and
  merge (`HandlerStart`), save and end.  A save is `Open` (create, truncate),
  `Write`, `Rename`; `WriteFails` and `Kill` may cut the write short anywhere, and
  a rename may find no temporary file, which another save has moved
  (`RenameFails`), or be refused and leave it there (`RenameRefused`).
  `handle[p]` is the name by which the file that `p` has open goes by now: a
  rename by somebody else turns `tmp` into `file`, and what `p` then writes
  goes straight into `manifest.json`.  A manifest is the set of updates merged
  into it.  Bytes written over others from the start of a file leave the tail
  of what was longer (`Overwritten`), so they may be torn unless equal.  Only
  the agent changes its memory between saves, and not during one: the
  statement in `main` keeps the mutex until `save_manifest` returns.

## The runs

| run | asks | bounds | states |
|---|---|---|---|
| `provider_lease` | are stamps in causal order? do members agree on the provider? | 2 processes, walls 0..2, counter of 3, 3 events, 2 epochs, 2 scores | 3.1 * 10^5 |
| `manifest_replicas` | does the last writer win, in every order, and do ranks converge? | 2 replicas, 1 file, 3 writes, ties and common deletes | 6.3 * 10^4 |
| `manifest_no_drop` | does a tie lose nothing? (violated) | 2 replicas, 1 file, 4 writes of contents that differ | |
| `vault_agent` | does the scan author users' edits only? is `known_local` what is on disk? do the disks converge? | 2 agents that dial each other, 1 file, empty or of 1 chunk, 2 changes, 1 error, of one of the agents, equal wall clocks | 4.4 * 10^5 |
| `vault_crash` | does the disk follow the manifest? is everything announced there to fetch? do manifests gossip durably? does a kill remove nothing? do edits replace their base, and does a known version ever go back? | the same, but one agent dials, 1 error or kill anywhere, writes may be cut short, the wall clock of one agent is one ahead | 1.7 * 10^6 |
| `vault_overwrite` | are unscanned edits safe from materialize? (violated) | 2 changes, no failure | |
| `manifest_file` | is a save atomic, and what does it lose? does an agent repair the file? | 2 handlers at a time, 3 calls, 2 updates, 1 failure | 7.4 * 10^5 |
| `manifest_file_torn` | is `manifest.json` never half written? (violated) | the same | |
| `chunker` | do chunks tile a file in bounds? is the hash that of the window? do cuts resynchronise? | 2 files: 3 bytes, or none or 4 others, before 6 common ones; window 2, sizes 3 to 5, words of 3 bits | 3.3 * 10^5 |
| `chunk_store` | when are chunks whole? does every dialing agent get them? | 3 agents, 3 dials, 2 hashes, 2 scans, 1 failure, 1 chunk a message | 5.5 * 10^5 |
| `chunk_store_short` | is a stored chunk whole? (violated) | the same, no failure | |
| `dial_command` | are answers whole? does each command have its turn? | 2 commands, pipes of 1, requests of 1 or 2, answers of 0 to 4, bound 2 | 4 * 10^4 |

Why the bounds are enough for what the runs ask.  A tie and what is
merged over it need two authors and three writes, a second tie over an occupied
conflict path (`manifest_no_drop`) four; a merge of a stale snapshot two replicas.
For the agent, one path is enough to put the disk, `known_local`, both
manifests and a snapshot under way at different versions; two changes are a
creation and an edit or a delete by either agent, in any interleaving with the
two agents' ticks, and the theorems carry the safety properties to any number
of agents, paths and changes.  Wall clocks in the agent runs advance for each
stamp (`OneByOne`).  In `vault_agent` they agree (`Synchronized`), which keeps the
graph of two agents that dial each other small enough for liveness; in
`vault_crash` one is a millisecond ahead of the other (`Skewed`), which is enough
for the other's edit to tie with the version it was made on or to be older than
a version it has not seen.  One error or kill is enough for each exit of each
loop, since what it leaves behind (a chunk without an entry, a short file, an
exchange half served, an older manifest) is then met by every later step; the
theorems carry the safety properties to any number of them.  The chunker's files are long enough for a full window,
a forced cut, a boundary and a short rest in each, and their common end longer
than a chunk of maximal size, so that they fall into step in some and not in
others.  The chunk store has an agent with two sources and one without any, a
chunk that two files share, and answers that fit and that do not.  The pipes of
the channel dial are shorter than requests and than answers, and answers are
none, in bounds and beyond.

Some runs switch deadlock checking off.  `provider_lease` stops at its bound, or
when no counter has room, and `chunker` at the end of its files.  An agent of
`manifest.json` that is off cannot start on a file that is torn, and when the
bounded calls are spent nothing is left to run.  The main thread of
`dial_command` really may wait for ever, in the two cases `EachCommandHasItsTurn`
names.  No other run can stop, and each is checked for deadlock.

Fairness.  `FairSpec` of the replicas: every merge ends, and every pair
gossips again and again (`main`'s loop over its peers, the test's rounds);
strong fairness for `Fetch`, which the other replica's merges disable.
`FairSpec` of the agents: strong fairness for an agent's main thread and for
the server threads, since both wait for a mutex that others take over and
over; they get it because every main thread sleeps `tick_ms` without it.
`FairSpec` of `manifest.json`: weak fairness for the agent's saves alone, which
its loop repeats; handlers may hang for ever.
`FairSpec` of the chunk store: a main thread finishes what it stores, a server
answers, and each peer is dialed again and again; strong fairness for that, since
the main thread is at times at something else.  `Spec` of the channel dial:
threads and processes are scheduled, and time passes: the timeout strikes while
a command that does not end runs.  It need not strike for one that ends, which
may take as long as it wants; so the property says that such calls end without it.
Users and failures are under no fairness.  Failures are finite in number.

### What the violated runs show

1. `manifest_no_drop`: `or_insert` on an occupied conflict path drops the
   loser of a tie, against the comment at `manifest.rs:123`.
2. `vault_overwrite`: a change between scan and materialize is overwritten and
   reaches no manifest.
3. `manifest_file_torn`: all savers share `manifest.json.tmp` and none locks
   it.  One renames what another has just truncated, and the other then writes
   into `manifest.json` in place, against the comment at `store.rs:50`.
   `ReadableUntilOverlap` says that overlap is the only way, `LoneSavesAreAtomic`
   that the next save by itself mends the file, `AgentRepairs` that a running
   agent comes to it at a later tick; one that is killed before that
   cannot start again, nor can a handler.
4. `chunk_store_short`: a chunk file is served while it is being written, and
   the receiver keeps the part under the full hash for good: the early return of
   `write_chunk` (`store.rs:87`, "identical bytes already stored") never looks
   again.  `WholeUntilCut` says that this and a write cut off are the only two
   ways; after them nothing repairs the store, as `AtRestIsFinal` shows.

### What holds only so far

The passing runs state these limits in their constants or properties:

* the agent never calls `observe`, so with one wall clock ahead an edit on top
  of a version from there loses to it, and the scan that authors it takes the
  file back: `EditReplacesItsBase` promises nothing to an agent whose clock is
  behind another's, and `VersionsOnlyRise` leaves out the scans of one
  (`Leading`).  `HlcClocks` shows that `observe` would keep the order;
* `VersionsOnlyRise` compares what `known_local` has before and after a step.  A
  restart empties it, so of a path that has not been scanned since (also since a
  scan that ended with an error) it says nothing;
* an entry under the agent's own name is never written to its disk
  (`store.rs:269`), which is right as long as its disk has not moved on since it
  made that entry.  `DiskFollowsManifest` says so of an agent that runs on, and
  names what is passed over even then (`PassedOver`): a side of a tie that lost
  and is kept under a conflict path, which never comes to its author's own disk,
  and an empty file that ties with its removal.  After a restart more is: the
  old entry that `manifest.json` or a peer brings back when the last one was
  never saved, or one's own tombstone for a file the first scan has just
  authored.  So the property is for an agent that was not killed (`Unharmed`),
  whatever became of the others, and `DisksConverge` for runs without a kill;
* `Unharmed` also leaves out an agent that a short file has come to: a file cut
  short is the next scan's edit, and a chunk cut short makes other files than it
  should.  `AuthorHoldsChunks` has its one exception there: a chunk cut short by
  a kill or an error inside `fs::write`, at the author or at one the author
  fetched it from, is a part for good (`store.rs:86`), and is announced as the
  whole.  Of every other chunk of every entry the author has all bytes;
* a conflict copy is named by the first eight bytes of an agent's id.  With two
  agents that agree in them, copies tie with copies of the same name, and paths
  of any length come from gossip alone.  `CopiesStayCopies` says that it takes
  such a pair;
* `known_local` is empty after a restart, so the first scan authors every file,
  a stale one too, and may revert what was merged and not materialized
  (`docs/TESTPLAN.md:151` knows of re-authoring, of synced files).
  `OnlyUsersDelete` says that at least no removal comes of it;
* of two entries with one stamp and one content but different authors, such as
  two removals of a file, the one that came last is held.  `RanksConverge` and
  `OrderDoesNotMatter` speak of stamp and content; the author may differ for ever;
* the agent reads `manifest.json` only when it starts, so every save of a handler
  leaves it `behind` and its next save may take the handler's merge out of the
  file: `UpToDateSavesLoseNothing` bounds that loss, it does not rule it out;
* `Backfilled` excepts what never fits in one message, since all missing chunks
  are asked for at once, and agents that dial nobody, since only the dialing
  side fetches chunks;
* `EachCommandHasItsTurn` excepts a request beyond the pipe of a command that is
  not reading it (`write_all` runs before any reader and any timeout) and a
  process that keeps a stream open past its shell (`join` has no timeout);
* `EndedCallsLeaveNoShell` excepts a call whose `try_wait` fails: the error is
  returned at once (`main.rs:223`) and the shell neither killed nor reaped.

## The theorems

All are for every value of the constants, under the `ASSUME`s of the modules,
which the runs evaluate.

* `HlcProofs`: `ClocksTyped`, `HappenedBeforeHolds`, `NeverAheadHolds`,
  `EventsRaise`.  The invariant adds to the properties that no message under
  way is above the largest wall reading, without which a receiver could be
  driven past it.  The work is in `OperatorLemmas`: a tick and an observe are above
  the clock, the remote stamp, and taken from one of three clocks.
* The same module, on leases: `LeasesKeepClocks` (a step of `ProviderLease` is
  one of `HlcClocks` or none, so the four theorems above hold of it),
  `SameLeasesAgree` and `LeaseImplementsRegister`.  Both rest on `BestHeard`:
  the lease a member holds is one it heard of and none it heard of is above it,
  by epoch, score and holder, whatever the renewals.
* `ReplicasProofs`: `TypeCorrect`; `NothingOutranks` (last writer wins) from
  `ApplyRaises` and `ApplyCovers` and transitivity of ranks; `RanksRise`;
  `NothingMadeUp` from `ApplyOrigin`; `OrderIrrelevant`, which follows from
  the two before: for a file proper, the entry held was given for it and
  nothing given outranks it, so equal givings mean equal ranks;
  `LosersHaveConflictPaths`, whose induction needs `NothingSeenOutranks`: an
  entry that comes to tie later was, until then, not above the one held;
  `ReplicasImplementRegisters`: under these invariants each turn of a merge and
  each write is a step of `LastWriterWins` or leaves its state alone;
  `CopiesStayCopies`, for agents whose short ids differ: what a replica holds
  for a path nobody writes is the conflict copy of what somebody wrote for one
  that somebody does, so a manifest has at most one copy of each path and
  author.  The invariant is `StampsName`: no entry of an author is above its
  clock, so no two of them carry one stamp (`TickRaises`); two entries that tie
  at a copy's path would be of one author and one stamp, hence one entry.
  `Typed` restates `TypeOK` over function sets for the provers.
* `VaultAgentProofs`, any number of agents, any peers, files and failures:
  - `AgentsTyped`.  `Typed` adds to `TypeOK` what its own induction needs: a
    thread that waits for an answer has a peer left to dial, an exchange whose
    client acts next has a client that waits, a main thread that materializes
    has an entry for each path it is yet to visit, and one that stores chunks
    has a file in hand.
  - `MemoryCovers`.  `ManifestSteps` sums up all actions as five ways a
    manifest may change; entries only rise in memory (`ApplyRaises`), and a
    save or a restart makes memory and file equal.
  - `AgentsImplementGossip`, with restarts, failures and writes cut short: every
    step of every thread is one of `DurableGossip`.  The same five ways give the
    step of `held` and `saved`; an exchange carries manifests as they were when
    it took them and nothing else (`ConnKeepsMail`, `DialMail`, `RestartMail`); an apply that
    authors leaves a value of the author's (`ApplyTraces`), unless it changes
    nothing; and who is half merged is locked (`HalfMergedLocked`), so nobody
    authors into it, sends or saves it.  The abstract module has no thread, no
    lock and no place to be cut short at, so none of these can be seen in what
    manifests become.
  - `AuthorsHold`, with restarts and writes cut short.  The invariant `AllHeld`
    says of all manifests, in memory, saved or under way in an exchange, that
    the author of each entry has a file of each chunk, and of the file that a
    scan has in hand that those counted as stored are (`Stored`): what is left
    for the put is then nothing, whatever was merged, failed or killed between.
    `TornAreHarmed` says whose chunk files may be short.
  - `KnownStaysOnDisk` and `OnlyEditsAuthored`.  The invariant `Tracked` has two
    parts.  `Accounted` holds of every agent: a file that `known_local` has and
    the disk has not was removed by a user, and one that a scan has in hand or
    has not listed is as it was or was touched since.  `KnownAgrees`, that the
    disk is as known where no user has touched it, is for an agent that was not
    killed and that no short file has come to: a restart empties `known_local`
    and a write cut short changes a file behind its back.
  - `OnlyUsersDeleteFiles`, of every agent, by `Accounted` alone: a restart
    forgets, and what is forgotten is never tombed; a write cut short leaves a
    file, if a wrong one.
  - `EditsReplace`, under `0 \notin Gap` and for any skew: no entry anywhere, in
    memory, on disk or under way, is from the future of a wall clock that is
    behind no other (`AllOld`), so what its agent stamps is above all of them.
    Restarts are allowed: the hybrid clock starts at zero and the wall clock
    alone keeps the order.
  - `VersionsRise`, under the same.  `Ordered` says that `known_local`, the
    snapshot being written out and the manifest follow each other in rank.
  - `DiskFollows`, with no assumption on clocks, failures or restarts, of an
    agent that was not harmed.  The invariant `AllOwnPast` says that gossip
    cannot bring such an agent an entry of its own, from any manifest, memory or
    file or message, that is above its clock or above what it knows at that path
    (`OwnStaysPast`: the clock only rises, and so does what is known where it was
    authored).  With `Ordered`, an own entry in the manifest then has the stamp
    and the content of the known one (`OwnIsKnown`), and `KnownAgrees` puts it on
    disk.  Restarts of others bring back old entries, of which the invariant
    speaks as of any.  Of the agent itself it is false after a kill.
  - `RestIsSettled`, its corollary: where no agent was harmed, nothing is
    unscanned, awaited or passed over and manifests are equal, so are disks,
    which is the safety half of `DisksConverge`.
* `ManifestFileProofs`, any number of handlers, calls and failures: `FileTyped`;
  `LoneSavesHold`, also after other saves have overlapped and torn the file, from
  `LoneSaver`: who saves alone (the ghost `alone`) has the temporary file to
  itself, empty or all that the saver holds, since a process that still had it
  open would be saving too; `ReadableHolds`, from `OneSaver`: until the first
  overlap whoever saves is alone; `UpToDateSavesHold`, from `UpToDate`: who is
  not behind holds what the file holds.
* `ChunkStoreProofs`: `StoresTyped`; `WholeHolds`, whose invariant `AllWhole`
  says the same of the chunks in answers and of those about to be stored, from
  which the files come; `RestIsFinal`.
* `DialCommandProofs`, any commands, capacity and bound: `DialTyped`;
  `AnswersWhole`, from `Accounted`: what was written is read or in the pipe, and
  a reader at the end of a stream has it all, since nobody holds the other end;
  `NoShellLeft`, from `ShellInStep`: where the shell is at each place of the
  main thread, unless a poll has failed.  Two more are what `EachCommandHasItsTurn` rests on, short of the
  step from fairness to a call's end, which is TLC's: `CallsAreBounded`, by a
  measure (`Work`) of what main thread, shell, command, readers and pipes have
  left to do that every step of a call lowers, since a command says no more than
  it has to say (`SaysItAll`); and `NobodyWaitsForEver`: in every reachable state
  somebody can step (`SomebodyCan`, guards of the actions rather than `ENABLED`)
  or it is `StuckWriting` or `StuckJoining`, the two waits the property excepts.
* `ChunkerProofs`, every table, mask, window, bounds and input: `ChunkerTyped`;
  `ChunksTile`; `SizesHold`; `HashHolds`, by adding and removing one byte of
  the window (`WindowStep`) and the parity of a set that gains or loses one
  element; `CutsAgree`: by `HashHolds`, whether a chunk is cut is a function of
  its beginning and of the bytes since (`CutAt`); the invariant remembers that
  each chunk was cut at its end and nowhere before.  A first chunk without its
  like in the other file would then begin where one before it, which has its
  like, ended (`ChunksMatch`).  "First" is `LeastNatural`, from the library's
  well-foundedness of finite sets under inclusion.

Only model-checked: liveness (`RanksConverge`, `DisksConverge`, `AgentRepairs`,
`Backfilled`, `EachCommandHasItsTurn`), which is beyond the prover; of three of
them the safety half is proved (`RestIsSettled`, `LoneSavesHold`, `CallsAreBounded`
with `NobodyWaitsForEver`).  Every invariant, action property and refinement of the
passing runs is proved.  `MemoryCovers`, `TornAreHarmed`, `RanksRise`, `RestIsSettled`, `ReadableHolds`,
`CopiesStayCopies`, `LeasesKeepClocks` and the two on calls are theorems without a
run of their own.

## Not modelled, and the plan

Not modelled: process provisioning scripts, command-line parsing, JSON and
base64, real time (a timeout may strike whenever it is awaited), scores that
are no number, the Android client (not in the repository), directories (a file
is a path here).  `PROJECT.json` lists every part and hazard.

Left to do, in order:

1. Compose: `VaultAgent` with `ManifestFile`, whose file the agent never reads
   back, and with peers that `DialCommand` reaches, for which an exchange is
   two calls.
2. Instances of `VaultAgent` with three agents or two paths; they are beyond
   the time a run has here, and the theorems cover both for safety.
