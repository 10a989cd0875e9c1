# A TLA+ model of DreamBall

DreamBall keeps knowledge in signed envelopes. Its *memory palace* is the part
with moving pieces: a command line that signs envelopes and keeps them in files,
bridge processes that mirror them into a graph database, an oracle that watches
source files and re-embeds what changed, and a browser in which the same graph
lives in memory. Beside it stand the generic commands over single envelopes, an
HTTP server over a directory of them, and a host that runs actions compiled to
WebAssembly. This directory models these parts in TLA+, model-checks them with
TLC and proves their central invariants with TLAPS. What is left out is listed
in section 10 with the reason.

Paths in this file are relative to the repository's `src` directory, except that
`dreamball-server` and `docs` are directories of its root. `PROJECT.json` is
the machine-readable companion: every definition with the source lines it stands
for, every run, every mutant, every hazard, every theorem.

Contents: [1 The system](#1-the-system) · [2 Modules](#2-modules) ·
[3 From code to model](#3-from-code-to-model) · [4 Runs](#4-runs) ·
[5 Bounds](#5-bounds) · [6 Fairness](#6-fairness) · [7 Proofs](#7-proofs) ·
[8 Where code and documents differ](#8-where-code-and-documents-differ) ·
[9 Assumptions](#9-assumptions) · [10 Not modelled](#10-not-modelled) ·
[11 Plan](#11-plan)

## 1 The system

### Components

| component | state it keeps | operations | correct when |
|---|---|---|---|
| **Palace mutex** `memory-palace/file-watcher.ts` 84-129 | a map from palace to the tail of a promise chain | `acquirePalaceMutex`, `release()`, a finally-callback that forgets the palace | one holder per palace, first come first served, palaces independent, nobody starves, map entries do not leak |
| **Oracle file watcher** `file-watcher.ts`, `oracle.ts`, `embedding-client.ts` | locals of each handler across its awaits; the rest is in the store | `onFileChange`, `onFileDelete` | sections exclude; the oracle's actions form one chain; metadata is backed by signed actions; at rest the row says what the history says; every event is answered |
| **Palace store, server adapter** `store.server.ts`, `schema.cypher` | the graph database: nodes, edges, action log, triples, aqueducts; one mutable write context | some 40 verbs, each of several queries without a transaction | a verb that stopped half-way leaves something its callers can live with |
| **Policy engine** `policy.ts` | none; an audit log | `evaluateGuildPolicy` and its write gate | the oracle may read what its palace contains |
| **Palace store, browser adapter** `store.browser.ts` | the same graph in WASM memory, synced to IndexedDB; a connection | the same verbs, `open`, `close`, `syncfs` | what callers were promised stays, across overlapping calls and reloads |
| **Action mirror** `action-mirror.ts` | none | `mirrorAction` | a mirrored action is in the log, with the edges of its kind |
| **Aqueducts** `aqueduct.ts` | strength, traversals, phase, on the Aqueduct node | strengthen, decay, phase | no increment is lost |
| **Inscribe with embedding** `inscribe-bridge.ts` | none | `inscribeWithEmbedding`, `inscribeOffline` | an inscription without its vector is announced as pending |
| **Palace commands and bridges** `cli/internal/{mint,add_room,inscribe,move,rename_mythos}.zig`, `lib/bridge/palace-*.ts` | `<palace>.bundle`, `<palace>.cas`, two key files, a staging directory per run | `palace mint`, `add-room`, `inscribe`, `move`, `rename-mythos` | files, content store and graph tell one history after any failure |
| **Verifier, mythos chain** `cli/internal/verify.zig`, `mythos-chain.zig` | none | `palace verify`, `walkToGenesis` | accepts what the commands make |
| **Generic commands** `cli/{mint,grow,seal,...}.zig` | envelope files and key files | mint, grow, join-guild, seal, unseal, seal-relic, unlock, transmit, export-json, import-json, verify | what is signed verifies, what is not edited survives |
| **Codecs and JSON** `envelope*.zig`, `json.zig`, ... | none | encode, decode | no attribute is lost on the way |
| **Graph, signing, sealing** `graph.zig`, `signer.zig`, `sealing.zig`, ... | none | cycle check, signatures, sealed files | - |
| **WASM host** `wasm-host/*.zig` | a guest's memory, a scratch region in it, emitted actions | check and run an action | limits hold on every path, answers stay as written |
| **DreamBall server** `dreamball-server/src` | a directory of envelopes, one instance of `dreamball.wasm` and its arena | HTTP routes | what a client was told stays true; every request is answered |
| **Capability resolver** `capabilities/**` | the bound provider | bind at boot, run and poll a job | a job ends |
| **User interface** `lib/components/DreamBallViewer.svelte`, ... | the current room, the arcs drawn | navigate | an arc is drawn for a recorded walk only |
| **Readers** `cli/internal/{open,show}.zig`, **nearest neighbours** `knn.ts`, **client library**, **tool servers and generators** | see `PROJECT.json` | | |

### How they interact

    author's editor --fs.watch--> file watcher --signs--> palace store (graph)
                                      |  ^                     ^
                                   mutex embedding service     | queries
    user --> palace command (Zig) --spawns--> bridge (Bun) ----+
                 |  reads, rewrites   |asks embedding service, policy, mirror
             bundle, content store, keys <--reads-- palace verify

    viewer --recordTraversal--> browser store --syncfs--> IndexedDB
    user --> generic command --> envelope and key files
    client --> server route --> dreamball.wasm, files, text-embed provider
    driver --> WASM host <--imports-- action compiled to WebAssembly

* The watcher and the server of the palace live in one process and share one
  store object with one write context; handlers interleave at every `await`.
* A palace command is a process of its own. It talks to its bridge through
  arguments, a staging directory and an exit code (0 done, 1 failed, 2 done
  without an embedding), and to other commands only through the files and the
  database. The database is opened by one process at a time.
* In the browser one page owns the database; calls of its components overlap.
* The routes of the DreamBall server share one WASM instance: they run from
  await to await, and what they load before an await they store after it.

### What makes it hard

* *Interleaving.* Handlers of one palace and of several palaces, calls of one
  page, requests of one server, commands on one directory.
* *No transactions.* A verb is several queries; a failure in between leaves
  what was written (delete-and-recreate of an inscription, a head edge, an
  aqueduct and its edges).
* *Two stores, two processes.* The graph is written first, then the envelopes
  are renamed one by one, then the bundle is truncated and rewritten. A death
  is possible anywhere.
* *Memory and disk.* In the browser a call resolves when memory has it; what a
  reload brings back is another matter.
* *Stale reads.* The bundle read at the start of a command is written back at
  its end; a route stores what it computed from an envelope loaded before an
  await; the hash compared before the mutex is old once it is held.
* *Redundant copies.* The mythos head is an edge, a column and a triple; a
  residence is LIVES_IN, CONTAINS and the last recorded placement; an envelope
  of the server is a binary file and a JSON file.
* *Shared buffers.* The arena of `dreamball.wasm` and the scratch region of the
  host are reset, bounded, and written by both sides.
* *Liveness.* The embedding service is called inside the mutex; a rejected
  instantiation is kept; a job of a provider may never end.

`PROJECT.json` lists each of these hazards at its line, with the properties
that would fail, or why none does yet.

## 2 Modules

    FcfsLock            abstract ticket lock: what acquirePalaceMutex promises
      ^ implemented by
    PalaceMutex         the promise chain itself       FcfsLockProofs
      MCPalaceMutex                                    PalaceMutexProofs
    FcfsLock
      ^ INSTANCE (the mutex of the watcher)
    FileWatcher         handlers over the store        FileWatcherProofs
      MCFileWatcher
    PalaceVault         the five verbs over bundle,    PalaceVaultProofs
      ^ EXTENDS         content store and graph
    PalaceVerify        palace verify, walkToGenesis
      MCPalaceVault
    PalaceGraph         the property graph and its statements
      ^ EXTENDS
    BrowserStore        the browser adapter and the    BrowserStoreProofs
      MCBrowserStore    viewer
    DreamballFile       the generic commands           DreamballFileProofs
      MCDreamballFile
    DreamballServer     the HTTP server                DreamballServerProofs
      MCDreamballServer
    WasmHost            the host of actions            WasmHostProofs
      MCWasmHost

The watcher uses the *abstract* lock because `PalaceMutex` is shown, by TLC and
by proof, to implement it; the promise bookkeeping then need not be interleaved
with the store's queries. `PalaceVerify` reads the state of `PalaceVault` and
adds no variable: the verifier is checked against every bundle the commands
leave. The other modules share no state in the code and are not composed:
`FileWatcher` and `PalaceVault` run in different processes and the database is
open in one at a time (section 9), the browser's database is its own, and the
server's files, the generic commands' files and the palace's files are apart.

Operators marked `Mutant of ...` are deliberately wrong versions of the
definition that follows them. No behaviour specification uses them; each shows
that some property can fail.

## 3 From code to model

**PalaceMutex.** `chains` is `_mutexChains`; `current`, `settled` stand for the
promises `current` and `next` of each call. `Acquire` is the synchronous part of
the function, `Enter` the return of `await current`, `Release` the resolution of
`acquired`, `Settle` that of `next`, `Cleanup` the finally-callback with its test
that the entry is still this call's. `ticket` and `issued` are history
variables. A holder that throws releases in its `finally`, so one `Release`
stands for both outcomes. `ImplementsFcfsLock` is the refinement.

**FileWatcher.** A handler's `pc` names the query it will run next; every query
is an action. `OnFileChange`/`OnFileDelete` are the events (at any time, any
number, for any file). `Check1`/`Check2` are the two queries of `getInscription`
before the mutex, with the policy decision in the second. Inside the mutex:
`Fresh1`/`Fresh2` (the second read), `Embed` (a vector, unreachable, another
error), `Heads` (`headHashes`), `Sign` (sign and `setWriteContext`), `Reembed`
(skip when the stored hash is equal), `DeleteEmbedding` and `UpsertEmbedding`
(DETACH DELETE, CREATE, one query per edge), `SetSource`, `InsertTriple`,
`RecordAction`, `UpdateInscription` or `MarkOrphaned`, `Finish`. `Leave` is the
finally blocks. `FailStep` is a throw anywhere in the section, `Crash` the end of
the process: the database stays, all else goes. `Edit` is the author,
`RecordTraversal` the server, which appends rows without the mutex. A content
stands for its hash, a handler for the fingerprint of the action it signs.

**PalaceVault.** Fingerprints are `[kind, of]`: the command that made the
envelope and its kind. `Start` reads bundle, heads and key, signs and stages;
`StartAddRoom`, `StartInscribe`, `StartMove` and `StartRename` call it with what
each verb is given. `OpenStore` is the bridge's checks up to its first write and
fixes its script: `MintScript`, `AddRoomScript`, `InscribeScript`,
`InscribeViaScript`, `MoveScript` and `RenameScript` are the sequences of queries
of the verbs' bridges, including the calls of `mirrorAction`,
`inscribeWithEmbedding` and `getOrCreateAqueduct`.
One action per kind of query executes the script (`CreateNode`, `DeleteLivesIn`,
...). `BridgeFails` leaves what was written and makes the verb exit 1;
`SkipAqueduct` is the `catch` around the aqueduct of an inscription;
`KeyConflict` the CREATE that violates a primary key. `Promote` is one rename of
`promoteStagingFiles`, in the order of the file list; `TruncateBundle` and
`WriteBundle` are the open (which truncates) and the write of
`appendHexFpsToBundleFile`; `InstallBundle`, `InstallKeys` are mint's last
renames. `Die` kills command and bridge at any point.

**PalaceVerify.** Operators, no action: the verifier writes nothing. `Scanned`
is its pass over the lines of the bundle, `HasRoom` to `ActorsProven` are the
invariants (a) to (f) as the code orders them, `Walk` is the loop of
`mythos-chain.zig` with its depth limit and its three outcomes (a recursive
function of how deep it is, where it is and what it remembers), `Verdict` the
exit code. It starts from the last mythos line of the bundle, as the code does,
which may be the genesis of a room's own mythos.

**PalaceGraph, BrowserStore.** A graph is a set of facts: a node exists, an edge
joins two nodes, a column has a value, a table exists. A verb is the list of its
awaited statements (`AddRoom`, `UpsertEmbedding`, `RecordTraversal`, ...), a call
is the rest of such a list; `Read`, `Write`, `Mount`, `Load`, `CreateTables`,
`Save`, ... execute its head, so calls interleave at each await. A `probe` chooses
how the list goes on, which is the MATCH before a CREATE. `Goes`, `Ended`,
`Resolve` and `Rejected` are the lifetime of a call; `Fail` is any statement that
rejects, `Reload` the page's end, which loses `mem` and keeps `disk`. `Navigate`
is the viewer's `handleNavigate`. `Contract` and `Promise` say what a caller may
rely on once its call has resolved (what `acked` collects), in terms of the
verb's purpose and not of its statements.

**DreamballFile.** A command reads (`Grow`, `JoinGuild`, `Seal`, ...), signs
(`Sign`, when the key file is read), truncates (`Open`), writes (`Write`), and
mint then does the same with its key file. An envelope is its subject, the names
of the attributes present in each slot, guilds and signatures; a signature
carries the unsigned envelope it covers. The codecs are sets of attribute names:
`LookEncode` is what `encodeLook` writes, `LookDecode` what
`decodeLookFromEnvelope` recognises, `LookWrite` what `writeLook` renders,
`LookRead` what `lookFromValue` accepts, and so on for every slot, so that a
chain of commands keeps exactly what every codec on its way knows. Two processes
that have one path open at the same time may leave a mixture.

**DreamballServer.** A handler is the parts between its awaits: `Mint`,
`LoadForUpdate`, `Verify`, `Show`, `List`, `Subprocess`, `Embed` run to the first
one, `NoInstance`, `VerifyResumed`, `UpdateResumed` and the three store actions
from `await getWasm()` to the answer, `RunSync`, `Wait`, `PollStatus` are the
answers of a provider. `Quiet` makes a part uninterrupted, while `StoreFails` and
`Crash` may still cut it between two writes. `wasm` is `initPromise`, `arena` the
bump allocator. `believed` is what clients were told, `overlapped` and `torn` name
the DreamBalls two updates overlapped on or one was cut short on.

**WasmHost.** `VerifyBlake3` to `Instantiate` are the checks of the drivers, in
their order; `Fp`, `EncodeCbor`, `ReadNode`, `EmitActionEnvelope`, `NowMs` the
imports, with `allocScratch` as `Fits` and `Advance`; `Store`, `Trap` and `Return`
stand for whatever guest code does. Bytes are labelled with the call that
produced them, so `ReturnsIntact` can compare memory with what was written.

## 4 Runs

TLC, from this directory: `tlc -config <cfg> <module>`. State counts are
distinct states.

| run | states | asks |
|---|---|---|
| `mutex` (`PalaceMutex.cfg`, `MCPalaceMutex`) | 37,637 | four calls on two palaces, every interleaving of synchronous parts, awaits and callbacks. `MutualExclusion`; `EntryCoversChain` (an entry in use is never deleted); `PalacesIndependent`; `ImplementsFcfsLock`; `EveryCallEnters` (nobody starves); `EntryForgotten` (no leak) |
| `watcher` (`FileWatcher.cfg`, `MCFileWatcher`) | 180,834 | two handlers over one or two palaces in one store, two edits (a deletion among them), a traversal of the server, one throw or crash anywhere, under fairness. `WritersExcluded`; `OracleHistoryLinear` (the oracle's actions never fork); `MetadataBacked` (revision and orphan mark never exceed signed actions); without a fault `RestAgrees` (source, embedding, revision, orphan mark agree with the history when no handler is inside) and `RestJoined` (both edges restored); `HandlersFinish` (no failure wedges a palace) |
| `vault_serial` (`PalaceVault_serial.cfg`, `MCPalaceVault`) | 672,807 | mint and four commands of four verbs, one at a time, one failing step or death anywhere. `HistoryLinear` (the bundle's actions are one chain whose end is the head of the last timeline); `Acknowledged` (what exited 0 stays recorded); `HeadRecorded` (edge, column and triple of the mythos head agree with the last recorded rename); `OneHome`; `ResidenceRecorded` (an avatar is where the recorded history put it, or where an unrecorded command was taking it) |
| `vault_concurrent` | 499,977 | two of three commands at a time. `CasClosed` (a stored envelope refers only to stored ones, at every instant); `BundleResolves` (every line of the bundle names a stored envelope); `MirroredFirst` (no stored action the graph has not logged); `VerifyAccepts` (the verifier accepts every bundle that names a room) |
| `store` (`BrowserStore.cfg`, `MCBrowserStore`) | 1,453,832 | the owner's open, any verb, syncfs and close, and two callers that walk or open too, from an empty or a furnished database, one rejected step or reload. `AckedKept` (what a resolved call promised is in the database it was written to); `ArcAfterPersist` (an arc is drawn for a recorded walk); `HeadUnique`; `TraversalsCounted` |
| `server` (`DreamballServer.cfg`, `MCDreamballServer`) | 360,002 | three requests of any route in two slots, one failing write or death, an instantiation that may be rejected, under fairness. `FilesAgree` (envelope, cache and last answer of a DreamBall are of one version unless its update is being stored or was cut short); `MintsKept` (of what a client was told of, the server has a file and the key; `FilesAgree` says when the file is whole); `ArenaSuffices` (no request runs out of the arena because of what another left in it); `GrowthsKept` (a revision a client was told is not taken back, unless updates overlapped); `RequestsAnswered` |
| `files` (`DreamballFile.cfg`, `MCDreamballFile`) | 1,059,775 | three of the generic commands by two processes on two paths with two keys, one death. `VerifiesIffOwned` (an envelope verifies exactly when its own key signed it as it is and its ML-DSA half is there); `FieldsSurvive` (the slots an update is to leave alone are as before, as far as the codecs on the way know them) |
| `host` (`WasmHost.cfg`, `MCWasmHost`) | 123,626 | one invocation of nine modules: six that one check each refuses, three that run any three calls, stores or traps. `ReturnsIntact` (what an import answered stays in memory as written until the guest stores over it) |

Four runs end in a counterexample on purpose; each states what a document or
comment of the repository says and the code does not do.

| run | property | what the counterexample shows |
|---|---|---|
| `vault_truncated` | `BundleSurvives` | a death between opening the bundle and writing it leaves it empty; every later verb exits 2 |
| `vault_fork` | `ChainUnforked` | two renames in a row both name line 2 of the bundle, the genesis mythos, as predecessor |
| `store_return` | `AqueductsIdempotent` | a walk back along an aqueduct does not find it (the lookup has a direction), creates it again under the same key (which has none) and is rejected |
| `server_verify` | `VerifyTruthful` | the verify route hands JSON to a function that takes envelopes, so its answer is `ok=false` for every DreamBall, signed or not |

Every property of a passing run is paired in `PROJECT.json` with a mutant of
mapped code that violates it under the same configuration.

## 5 Bounds

* *mutex*: four calls. The hard case needs a holder, a waiter, a finished call
  whose callback is late, and a call that arrives in between. Two palaces, to
  see one block the other.
* *watcher*: two handlers let one hold the section and one wait with a stale
  hash, in one palace or in two; two edits suffice for A-B-A (back to the first
  bytes) and for a deletion after an edit. `MaxFaults = 1` allows one throw or
  crash; `AdminOnly` makes the policy of one avatar depend on the edge that is
  deleted and recreated. `Traversals` has one row, enough to be read or missed by
  `headHashes`.
* *vault_serial*: four commands are the fewest for two rooms, an avatar and a
  move between the rooms, and more than enough for two renames with a failed
  command between. `inscribe-via` differs from `inscribe` in the order of its
  queries and is exercised by `vault_concurrent`.
* *vault_concurrent*: `MaxAlive = 2`. Two commands suffice for one to overwrite
  what the other appended; the third starts from what they left. In the
  verifier, `DepthLimit` is the number of envelopes plus one: it stands for the
  1024 of `mythos-chain.zig` with the same relation to the palace, larger than
  any chain without a cycle.
* `MaxFaults = 1` everywhere: the properties compare the state with what
  calls that did not end well were doing; a second fault adds another such call.
  The proofs of section 7 have no such bound.
* *store*: two callers besides the owner are the fewest for one walk to overtake
  another between its lookup and its CREATE. Two operations of the owner allow
  each verb to follow each other one. `Seeds` has the empty database, where
  tables are made first, and one with rooms, an avatar and an aqueduct, where the
  second visit differs from the first. `MaxClock` bounds the time column only.
* *server*: two slots, since overlap is of pairs; three requests, so that one can
  follow two overlapping ones. `ArenaSize = 7` counts buffers: enough for
  any call from a reset arena and too little for two. `MaxPolls = 2` stands for
  `MAX_POLL_ATTEMPTS`; the runpod provider is the one that polls.
* *files*: three commands are the fewest for mint, an edit and what a second
  command makes of the result; two processes for an interleaving; two keys for a
  wrong one. `Edits` has two sets of options of grow, each with a stage, and `LookFile` and
  `CoverageFile` one document each, which together touch every attribute a codec
  treats specially. A sealed file contains
  an envelope and not another sealed file.
* *host*: pages of 16 bytes, `Word = 2`, digests of 3 bytes. The first page is
  the scratch region, which two answers of a call fill; `Ptrs` has its
  beginning, its inside, its last bytes, and an end that crosses it. Three calls
  are the fewest for an answer, a second answer, and one that reads the first.

The bounds `MaxEdits`, `MaxFaults`, `MaxAlive`, `MaxOps`, `MaxRequests`,
`MaxCommands`, `MaxDeaths` and `MaxCalls` appear only in guards. Symmetry is used where model values are
interchangeable: the commands of the vault, the clicks of the store, the processes
and the ungiven keys of the files; runs with a liveness property use none. Deadlock is not checked:
all of these systems stop when their calls, handlers, commands or requests are
used up.

## 6 Fairness

* `PalaceMutex`: weak fairness of each call's steps. `Enter`, `Settle` and
  `Cleanup` are promise callbacks, which the runtime runs once their promise has
  settled. `Release` is fair because both handlers release in a `finally`
  (`file-watcher.ts` 357, 435), provided the section ends, which is the next
  point's business.
* `FileWatcher`: weak fairness of each handler's next step, the continuation of
  a settled promise. For the step `Embed` this assumes that the embedding
  request is *answered or refused*: the client sets no timeout of its own
  (`embedding-client.ts` 99), and a service that accepts and never answers
  would hold the palace for good. Weak fairness is enough: a waiting handler
  stays enabled once its turn has come, because the lock is first come first
  served. Nothing is assumed of edits, events, faults or crashes.
* `DreamballServer`: weak fairness of each handler's next part and of the
  instantiation, which settles one way or the other. A provider's request is
  answered or breaks; that a *job* ends is not assumed, the polling gives up on
  its own (`MaxPolls`). Nothing is assumed of requests or faults.
* `PalaceVault`, `BrowserStore`, `DreamballFile`, `WasmHost`: none. Their
  properties are safety: a process may die or a page be closed at any moment.

## 7 Proofs

All theorems hold for every value of the constants satisfying the named
assumptions: any number of calls, handlers, palaces, commands, requests, edits,
failures, and any size of the memory. Five have a hypothesis of their own, under
which alone the property holds and is checked: `VaultHistoryLinear`,
`VaultAcknowledged`, `VaultHeadRecorded` and `VaultResidenceRecorded` are about
one palace command at a time (`MaxAlive = 1`; section 8 shows what two do), with
any number of commands in turn, each of which may fail or die at any step;
`ServerArenaSuffices` needs room for the seven buffers of one `join`
(`ArenaSize >= 7`). The properties were checked by TLC on the
instances above before they were proved; the invariants they are proved along are
inductive. The assumptions say
that model values are distinct (`NoneAssumption`, `FpAssumption`,
`VaultCommandsAssumption`, ...), that sets are not empty where a `CHOOSE` picks
from them, and that the bounds are natural numbers.

| theorem | states | along |
|---|---|---|
| `FcfsLockProofs!LockExcludes` | the ticket lock excludes, across crashes | `LockInv`: tickets of a palace are unique, and whoever is inside has no earlier call that is not done |
| `PalaceMutexProofs!TypeCorrect`, `MutexExcludes`, `EntryKept`, `PalacesDoNotBlock` | the promise chain excludes; keeps its map entry while used; does not couple palaces | `IInv` below |
| `PalaceMutexProofs!ImplementsLock` | `Spec => Fcfs!Spec` | `IInv`: each step maps to a step of the lock or a stutter |
| `FileWatcherProofs!WatcherTypeCorrect` | `TypeOK` | |
| `FileWatcherProofs!WatcherExcludes` | one handler per palace inside the section | the watcher's steps are steps of the lock (`LockStep`), its `pc` and the lock's state agree (`LockCoupled`) |
| `FileWatcherProofs!WatcherHistoryLinear` | the oracle's history never forks | `HistoryInv`: from `Heads` to `RecordAction` the handler's parents cover every tip of the oracle, because nobody else of the palace is inside |
| `FileWatcherProofs!OnePalaceContextRestored` | one palace per store: the write context is the custodian's whenever no handler writes | exclusion, plus: while a handler writes, its `prior` is the custodian's |
| `FileWatcherProofs!WatcherMetadataBacked` | a revision never counts more updates than the oracle recorded, no orphan mark is without its action | `BackedInv`: every row, stored or held by a handler, is backed, and a handler's own action is not in the log before it records it. Exclusion is not needed: an interleaved handler overwrites a row with one that counts fewer |
| `FileWatcherProofs!WatcherRestAgrees`, `WatcherRestJoined` | where nothing failed, an inscription of a quiet palace has the source, embedding, revision, orphan mark, edges and triple its history says | `RestInv`, `TripleInv` below |
| `PalaceVaultProofs!VaultInvariant`, `VaultBundleResolves`, `VaultCasClosed` | every bundle line and every reference of a stored envelope resolves | `VaultInv` below |
| `PalaceVaultProofs!VaultVerifyAccepts` | with any number of commands at once, `palace verify` accepts every bundle that names a room | `OrderInv` and `Shallow` below |
| `PalaceVaultProofs!VaultTypeCorrect` | `TypeOK`, the graph included | `Scripted` |
| `PalaceVaultProofs!VaultMirroredFirst` | no action is stored that the graph has not logged | `MirrorInv` below |
| `PalaceVaultProofs!VaultOneHome` | an inscription lives in one room at most | `HomeInv` below |
| `PalaceVaultProofs!VaultHistoryLinear`, `VaultAcknowledged` | one command at a time: the timelines in the bundle are one chain, and what a command that succeeded signed is in it | `SerialInv` below |
| `PalaceVaultProofs!VaultHeadRecorded` | one command at a time: the graph points to the mythos of the last mint or rename recorded | `HeadInv` below |
| `PalaceVaultProofs!VaultResidenceRecorded` | one command at a time: an inscription lives where its last recorded placement put it | `ResidenceInv` below |
| `BrowserStoreProofs!StoreTypeCorrect` | `TypeOK` | `Staged` below |
| `BrowserStoreProofs!StoreArcAfterPersist` | an arc is drawn for a move the database holds, in this session and the next | `Session`, `Arcs` below |
| `BrowserStoreProofs!StoreTraversalsCounted` | every recorded walk has strengthened its aqueduct once, unless two walks of it overlapped | `Session`, `Tallies` below |
| `BrowserStoreProofs!StoreAckedKept` | what a resolved call promised is in the database, and what was saved survives a reload, whatever other calls do, fail at or leave half done | `Keeping` below |
| `BrowserStoreProofs!StoreHeadUnique` | a caller that relies on a mythos head finds that one only, and the palace's column names it | `Keeping`, `Crowned` below |
| `DreamballServerProofs!ServerInvariant`, `ServerTypeCorrect`, `ServerFilesAgree`, `ServerMintsKept` | the two files of a DreamBall and the last answer agree unless its update is being stored or was cut short; of what a client was told of, the server keeps a file and the key | `SInv` below |
| `DreamballServerProofs!ServerGrowthsKept` | what clients were told an update added is in the envelope, unless updates overlapped or a file was cut short | `GrowthInv` below |
| `DreamballServerProofs!ServerArenaSuffices` | the arena never overflows | whoever calls the host finds it empty, because nothing is awaited before the reset |
| `DreamballFileProofs!FileTypeCorrect` | `TypeOK` | `TInv`: a command about to sign holds an envelope or a receipt, one about to write a key file the envelope it minted |
| `DreamballFileProofs!FileInvariant`, `FileVerifiesIffOwned` | an envelope verifies exactly when its own key signed it as it is | `FInv` below |
| `DreamballFileProofs!FileFieldsSurvive` | an update leaves the other slots as the codecs on its way know them | `FInv`, and the codec lemmas `ThroughKnown`, `EditedKnown`, `PlainKnown` |
| `WasmHostProofs!HostInvariant`, `HostTypeCorrect`, `HostReturnsIntact` | what the host answered stays as written | `HInv` below |

*`IInv` of PalaceMutex.* Exclusion is not inductive: a call enters when
`current` has settled, and only the shape of the chain says that this means
everybody earlier is done. `TicketInv` numbers the calls of a palace,
`LinkInv` says that `current` is the call with the preceding ticket or that all
earlier ones have settled, `SettledInv` that a settled call is done and what it
chained on has settled, `TailInv` that the map entry is the last call, or absent
when all have settled. Then `CurrentSettled(c)` implies that all earlier calls
are done, which is the lock's guard.

*`RestInv` of FileWatcher.* At rest the row agrees with the history, but between
two steps of a handler it does not, and `RestAgrees` says nothing of how it comes
to agree again. `RestInv` does: for each place of a handler, which columns and
edges of the row it is at are already those of the history and which are those it
read (`Placed`); a row no handler in its section is at agrees. What the history
says is the content of the update with the highest ticket, so a handler that
records an update must have the highest: `SignersServed` says that whoever signed
entered its section before everybody who has yet to leave it, which is the order
of the lock. `TripleInv` follows the triple from `insertTriple` to the log.

*`VaultInv`.* That bundle lines resolve is not inductive, because a command
writes back lines it read long ago: `ReadStored` says those are still stored
(the content store never shrinks), `PromotedStored` that the first `promoted[c]`
envelopes of `c` are, `Control` that a command rewrites the bundle only when all
are. `CasClosed` needs the order of the file list (an action before its
timeline, the palace last: lemma `EnvelopesTyped`), and `Fresh`, so that a
command that starts does not redefine what stored envelopes refer to.

*`OrderInv`.* Commands that overlap overwrite each other's lines, so a bundle may
lose an action; that the head of its last timeline is nevertheless followed by no
action left in it (invariant e) is not obvious. `OrderInv` says that lines never
move: in every bundle, and in whatever a command has read of one, the six lines of
the mint come first, the timeline of a command stands right behind its action and
at the place `PlaceOf` gives, behind every line the command has read, and an
action follows only actions whose timelines its command has read. An action that
followed the last head would have its own timeline further down. The third line
is always the genesis, which every rename takes for its predecessor, so the chain
the verifier walks has two levels (`Shallow`). That the recursive function `Walk`
has the value its equation says then needs no induction: lemma `WalkDefined` gives
a table of two levels that satisfies it. `VerifyAssumption` says that the runs are
finitely many, for the scaled depth limit counts them, and that no fingerprint is
`None`.

*`MirrorInv`.* That the graph is ahead needs the content of a script not yet
run: `Announced` says that, while a bridge runs, the signed action is logged or
its row is still to come *before any query that may be given up*, so the `catch`
around the aqueduct cannot swallow it; `Unstored` that nothing is stored before
the bridge has ended; `Scripted` that the queries are typed. Lemma `ScriptCalls`
establishes both for each of the six scripts.

*`HomeInv`.* A move may only create a home when the one it found is gone. The
invariant says that one bridge at most has the store open (`OneBridge`), and what
is left of its script (`Housing`): it places nothing, or it places the command's
own inscription, which has no home yet, or it deletes the one home before it
creates another. `Unborn` and `MovesEnded` say why the last two never meet: an
avatar has no home before its own command, and moves are only of avatars whose
command has ended.

*`SerialInv`.* That history is linear is not inductive, because a command appends
to the lines it read when it started and truncates the file in between. With one
process alive nobody else runs (`Alone`), so the bundle is what the running
command has read, or empty because it has just been truncated (`Reads`); its
parent is the tip of that chain; and what succeeded earlier is among those lines.
Before the mint has ended nobody has succeeded and the bundle is empty
(`Minting`).

*`HeadInv`.* While a mint or a rename runs its bridge, the graph points to the old
mythos, to none or to the new one. `Becomes` says of what is left of its script
that the new head is set already, or is still to be set and not to be unset after
that, and likewise for `headCol` and the `KNOWS` edges. Between bridge and bundle
the graph names the command (`Agrees`); once it has died there, the rename stays
unrecorded, which is the exception the property states.

*`ResidenceInv`.* The same for the homes of inscriptions (`Settling`): the avatar
is in its room, or what is left of the script puts it there and does not take it
out again. It needs that edges join nodes that exist (`Rooted`), for a query on
`MATCH` of a missing node does nothing, and that what an `inscribe` writes before
its aqueduct, which may be given up, includes the home (`Ready`).

*`Staged` of BrowserStore.* The steps a call has still to run are a list the call
itself rewrites as its queries answer, so nothing can be said of it action by
action. `Staged` says what it always looks like: *quiet* steps, which strengthen
no aqueduct and touch no move and delete neither, and after them, for a walk,
the last of its four own steps: read the strength, raise what was read, record
the move, read the aqueduct back (`Raising`, `Raised`, `Recorded`). Lemma
`ScriptShape` establishes it for every verb, `StagedNext` says what the next step
may be.

*`Session` and `Arcs`.* That a recorded move stays needs more than that nobody
deletes it: the page has two graphs, and close() drops one of them. `Session` says
which calls may be between mount and load (one, with nothing in memory), that
from the load to the end of close() memory holds every move and aqueduct the disk
holds, and that `save` has made them equal before `unmount` empties memory. So the
graph the next session reads only gains moves (`CurrentLasts`). `Arcs` adds that a
navigation past its recording step has its move there.

*`Tallies`.* A walk reads the strength, and raises *what it read* some steps
later, so the count is right in between only if what it read still covers the
recorded walks (`Readied`), and after the raise exceeds them by one (`Ahead`)
until the move is recorded. Other calls keep both, because only a walk of the same
aqueduct could disturb them and two such walks have marked it (`Overlaps`), and a
query that writes finds that `Current` is the graph in memory (`CurrentWritten`).
Both graphs are counted, since a reload brings back the older one.

*`Keeping`.* That promises are kept says nothing of the calls still under way, on
which everything depends. `Tracked` says of each of them that what it owes is in
the database already and none of its remaining statements takes it away, or one of
them gives it for good and the nodes it needs come before (`Ready`). Statements
that find what they look for are no exception: a probe that matches an edge tells
that its ends exist, which needs `Rooted`, in both graphs. Lemma `ScriptMeets`
establishes it for each verb (`Honours...`), `ReadyRan`, `ReadyFound` and
`ReadyMissing` carry it over a statement that runs, a probe that finds and one
that does not. Verbs that delete an inscription and create it again are followed
lap by lap instead (`Turn`, `Lap`): until the `DETACH DELETE` all is in the graph,
after it in what the call has read, and at the end each edge in one of the two.
Between calls, `Harms` bounds what a statement takes away by what its verb
suspends (`Hurts`); the clicks only navigate, which takes nothing away, and what a
navigation is owed (aqueducts, moves) no verb removes (`Firm`). `Upright` relates
the two graphs: from the load on, memory is what the next session reads.

*`Crowned`.* setMythosHead deletes the old head edge, creates the new one and sets
the column afterwards, so while it runs there may be no head, or an edge and a
column that differ. `Crowning` says how far it is: the `DELETE` is still to run or
no other head edge is left, and the same of the column. Nobody relies on a head
meanwhile, because the call has suspended it, and when it resolves both are done.

*`SInv` of DreamballServer.* That the files agree is not inductive, because the
second file is written a step after the first: the invariant says that at most
one handler is between its two writes (nothing is awaited there), that what it
has written and what it will write are of the version it made, and that the
DreamBalls being updated are known ones, so that an update never creates one.

*`GrowthInv`.* An update may lose another only if it loaded the envelope before
the other stored it. The invariant says of every DreamBall that is not marked as
overlapped that each handler between load and answer holds an envelope that
follows what clients know of it (`Growing`) and so does the one on disk
(`DiskFollows`); and that two handlers that are both busy with one DreamBall have
marked it (`OverlapSeen`), so the answer of one never overtakes the other.

*`FInv` of DreamballFile.* A signature covers what was read and edited earlier,
so the invariant speaks of the processes too: every envelope, in a file or in a
process, is unsigned, has lost its ML-DSA half, or carries the signature of the
key named in it over exactly what it contains; what a process holds before it
signs has no signature that could be mistaken for one. For the slots it says that
every envelope has attributes only among those `encodeDreamBall` writes, and
every rendering only among those `writeDreamBall` writes; without this a codec
could drop what no file contains.

*`HInv` of WasmHost.* That answers are intact needs that the next answer does not
land on them: every answer lies below the cursor of the scratch region, and an
import writes at the cursor or above, since `allocScratch` only moves it forward.

*Only model-checked.* Liveness (`EveryCallEnters`, `EntryForgotten`,
`HandlersFinish`, `RequestsAnswered`) is out of the prover's reach here, as is
ENABLED. Every other property of a passing run is a theorem.

## 8 Where code and documents differ

The four runs above, and the following, which the models show but no run is
spent on.

Palace commands:

* Two commands at a time overwrite each other's bundle lines: the function
  documented as "Append hex fps ... onto an existing palace bundle"
  (`cli/internal/mint.zig:720`) writes back what was read at the start.
* "no partial state is ever visible" (`mint.zig:9-10`): a failed bridge leaves
  its graph writes, and only the staging directory is deleted.
* A move that stops between its two LIVES_IN queries leaves the avatar in no
  room, and every further move of it is refused; "retry-is-idempotent" (sprint
  002, `architecture-decisions.md:123`).
* "ActionLog append happens after promote (not before)" (the same, `:147`,
  D-022): the bridge logs before the command promotes. `MirroredFirst` is the
  order the code does keep.
* After every verb but mint the staging directory stays, with the manifest in
  it; D-022 expects it only after a hard crash (`:153`).
* An inscription without embedding service exits with the graph's rows written
  and the staged envelopes deleted; story 6.2 promises it on the timeline, but
  the bundle never names it.
* `ActionLog` rows of the bridges have no parents, so the log's DAG differs from
  the signed one; story 2 asks for "matching fields" (`epic-2.md:90`).
* A move does not touch CONTAINS, documented as the complement of LIVES_IN
  (`memory-palace/schema.cypher:154`).
* The verifier walks from the last `ball.mythos` line of the bundle, which may be
  the genesis of a room's or an inscription's own mythos, although
  `mythos-chain.zig:14-15` keeps poetic mythoi out of the chain. It therefore
  accepts palaces whose own chain it has not walked.

Watcher:

* Two events for one edit pass the hash check before either holds the mutex; the
  second reads the row again ("Re-read and re-check inside the mutex",
  `file-watcher.ts:286`) but compares no hash, and signs the same bytes again.
* Two palaces on one store: overlapping `setWriteContext`/`restore` pairs are not
  nested; the last restore can leave the other palace's oracle as the writer.
  With one palace the context is always restored (`OnePalaceContextRestored`).
* "full rollback" of the watcher (`file-watcher.ts:8`): nothing is undone; the
  write order bounds the damage (`MetadataBacked`).
* "no observable instant has new embedding without authorising action"
  (`epic-4.md:90`): `reembed` precedes `recordAction`.
* "The oracle has read access to every slot" (`requirements.md:180`): while an
  inscription of a restricted policy is being recreated, the oracle's own read
  is denied and that handler ends.

Browser store:

* Strength is "monotone" (`aqueduct.ts:20-22`), but it is read, computed and
  written back: of two overlapping walks one is lost (`TraversalsCounted` counts
  walks that did not overlap).
* `recordAction` is idempotent in the server adapter and a plain CREATE here.
* "Missing rooms throw" (`store-types.ts:443-445`): the first walk creates half
  an aqueduct from a room that is none, and only then fails to match.
* `getPalace`, `roomsFor` and `roomContents` put a fingerprint into their query
  without quotes; `surface` is a column no table declares.

Server:

* Two grows of one DreamBall overlap at `await getWasm()` and give out two signed
  envelopes of one revision; `docs/PROTOCOL.md:132` and `:166` want revisions
  strictly increasing.
* "If the JSON cache is missing we rebuild it" (`store.ts:11-12`): no route does;
  `loadDreamBall` returns null and the DreamBall is not found.
* Transmit and unlock always answer 422, seal-relic 500: they hand JSON to
  functions that take envelopes, as verify does.

Generic commands:

* join-guild, documented to append (`cli/join_guild.zig`, header;
  `dispatch.zig:40`), keeps only what its own encoder writes: other attributes
  and earlier guilds go.
* `import_json.zig:1-3` "Round-trips byte-identically": typed DreamBalls are
  refused, `identity-pq` is dropped so that the result does not verify, and
  guilds, memory and knowledge graph are written but not read.
* `unlock.zig:4-5` says the payload hash is verified; a comment further down calls
  the skipped step "v0", and the envelope of the relic is not parsed.
* grow raises the revision only when an option says so; `protocol.zig:356` ties it
  to every mutation. `decodeDreamBall` skips `field-kind`, so grow drops it. The
  note on scope in `envelope.zig` (1657-1672) no longer describes what the decoder
  does.
* grow with the key of somebody else overwrites `identity-pq`, signs, and reports
  success; the result does not verify.
* A death of mint between its envelope and its key leaves a DreamBall nobody can
  sign for.

WASM host:

* `beginInvocation` does not clear `emitted`, though `imports.zig:143-144` says so;
  no caller uses one host twice.
* `encode_cbor` writes the header before it reads its source, which may overlap
  it (`imports.zig:323-337`), despite "copy via a temp".
* The length of an answer is at the latest `len_slot`, not at `scratch_base[0..4]`.
* `emit_action_envelope` appends its payload to `emitted` and then allocates in the
  scratch region; when that is exhausted the error path frees the payload, which
  is still in `emitted` and is freed again at the end.
* Neither fuel nor depth is limited in the interpreter.

## 9 Assumptions

* The database is opened by one process at a time, and what a query wrote is
  durable even if the process exits at once. (External.) In the browser, a
  query writes memory and `syncfs` copies it to IndexedDB. (External.)
* Every store writer of an inscription row holds the palace mutex; the server's
  traversals only append to the log.
* Fingerprints of different commands differ. The clock that goes into them has a
  resolution of one second (`add_room.zig:149`), so two identical commands
  within a second would share theirs.
* Fingerprints are hashes: a move's or an aqueduct's is nobody else's, nor is that
  of an inscription or a triple, the nodes verbs delete (`FingerprintAssumption`);
  the names of the schema's tables are no fingerprints (`SchemaAssumption`). A page
  shows finitely many rooms (`StoreRoomsAssumption`).
* A database a former session left was left between calls: its edges have their
  ends (`Rooted`), it has one mythos head, which the palace's column names
  (`OneHead`), and its walks are counted, as `TraversalsCounted` says of this one
  (`StoreSeedsAssumption`). Callers rely on all of it from the start. One that ended
  inside setMythosHead may have a head edge and a column that differ; what the next
  session finds then is not modelled.
* Reading bundle, content store and keys at the start of a command is one step:
  the store only grows and lines always resolve, so a later read of an envelope
  finds what an earlier one would. For the same reason the verifier reads in one
  step. join-guild reads its two inputs in one step.
* The write of the bundle is one write; the two key renames of mint are one
  step; a bridge is killed with its command; the embedding service is asked
  before the first write of an inscription.
* The sources the watcher is given are files of the palace. For any other it
  throws before it reads anything (`file-watcher.ts:261-263`).
* What a look, feel or act holds was written by this code. Their decoders refuse
  an attribute they do not know (`envelope.zig:1776` and below), where that of the
  DreamBall skips it; none is ever written.
* `PALACE_ORACLE_FP` is not set by the command line, so the bridges mirror no
  lives-in triples.
* A signature verifies under the key that made it and the bytes it covers, and
  only so; a digest stands for its preimage.
* The clients of the server present the key of the DreamBall they update;
  `Torn` and `None` are no envelopes and no keys.
* Omitted because they add nothing the properties distinguish: archiforms (they
  travel as a mythos does), agent slots, names, bodies, vectors, the numbers of
  an aqueduct.
* An unhandled rejection of `void onFileChange(...)` may or may not kill the
  process, depending on the runtime; both are behaviours (`FailStep`, `Crash`).

## 10 Not modelled

* The bytes of codecs (dcbor, base58, JSON text), the version 2 palace envelopes
  and `identity_envelope.zig`, and cryptography: functions of bytes, out of TLC's
  reach and covered by golden vectors in the repository. What the codecs *keep*
  is modelled.
* `graph.zig`: a cycle check over a list of DreamBalls that no command calls.
* The saturating arithmetic, conductance and phase of aqueducts: real numbers.
* The policy's audit log and write gate, which deny nothing the watcher does.
* Escaping and validation of values put into a query: functions of strings.
* Nearest neighbours, the palace readers `open` and `show`: no state of their own.
* The client library (`lib/wasm/loader.ts`, `lib/backend`), the user interface but
  for navigation, tool servers and generators: rendering, adapters, build time.
* Opening and closing of OS watches: events may come at any time, which covers
  watches that are late, doubled or closed.
* Opcodes of the interpreter: a guest is any sequence of stores, calls and traps.

## 11 Plan

Done, in this order: FcfsLock and PalaceMutex (everything above the store rests
on it), FileWatcher (the concurrent part), PalaceVault (two stores and two
processes), PalaceVerify, PalaceGraph and BrowserStore, DreamballServer,
DreamballFile, WasmHost, with the proofs of section 7.

Left, most important first:

1. The traversal verbs of the *server* adapter, which differ from the browser's
   in the comment that promises a CREATE "no-ops" and in the log's idempotence.
2. The policy's audit log; the initialisation of the client library's loader;
   `graph.zig` as operators against a reference definition of acyclicity.
