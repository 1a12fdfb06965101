# TwilightBoxart in TLA+

TwilightBoxart puts box art on the SD cards of Nintendo DS launchers. A server
(`TwilightBoxart.Web` over `TwilightBoxart.Pipeline`, `.Core` and `.Data`)
identifies ROMs by fingerprint, fetches covers from volunteer-run mirrors, keeps
the originals and the renders made of them on disk, and accounts for them in a
SQLite table; a browser page, a desktop app and a homebrew client on the console
scan cards and ask it for art. These modules model the parts of it where several
actors work on shared state - what is cached on disk and what the table says of
it, who asks upstream when, and who is answered what - and of the console's client,
which works against a network, a card and a user that may do anything. TLC checks
small instances of each; TLAPS proves some of what matters most for every instance.

Paths below are relative to `src/`.

## The system

### Inventory

| Component | State it keeps | Operations | What is hard about it | What makes it correct |
| --- | --- | --- | --- | --- |
| **Disk cache index** (`TwilightBoxart.Pipeline/Caching/CacheIndex.cs`, `DiskCache.cs`, `CacheEvictionService.cs`, `CacheAccountingService.cs`; `TwilightBoxart.Data/Extensions/CacheEntryExtensions.cs`; the clear-cache route of `AdminEndpoints.cs`) | files of two layers, originals and renders; a `CacheEntry` row per file; buffered hits; the `_maintenance` semaphore and each pass's loaded rows | write a file and register its row, read, flush hits, reconcile at start, expire by age, evict by budget, purge, cancel a purge | file and row are two systems without a transaction; writes take no lock while maintenance does; a kill between any two steps; EF saves that fail when a row is gone; deletes that fail | no pass saves over a row that is gone; files and rows agree but for named races; a purge leaves nothing; victims go coldest first by the access times loaded with their batch; layers end within budget; expired originals go |
| **Access buffer** (`Caching/CacheAccessBuffer.cs`) | a counter per key hit since the last drain | record, drain | a record between the removal of a counter and its reading | no hit is lost or counted twice |
| **Art pipeline** (`ArtPipeline.cs`, `ArtEndpoints.cs`) | each request's locals; the fetch flight of a title; the render flight of a path | look up the record, honour its back-off, fetch, draw, drop a dead pointer, refetch once | everything read before an await is stale after it: requests, evictions, identify calls, rebuilds and the clock interleave | a title that has art is not fetched again; a miss is believed once per change of what is known; a request whose original has gone is answered from a new one; each request is answered |
| **Single flight** (`SingleFlight.cs`) | a dictionary of lazy tasks | join or create, run once, remove when ended, stop waiting | callers cancel; a joiner may start the work; the task may end before its removal is arranged | one execution of a key at a time; nobody's cancellation stops another; ended work is forgotten |
| **Art records** (`ArtRecordStore.cs`, `TwilightBoxart.Data/AppDbContext.cs`) | the `ArtRecords` table | load, upsert with one retry, remember an identity, prune unresolved rows | read-then-insert races; a miss for the new name cleared by the identity that brought it; a retry that loses to the pruning | nothing learned is lost; a name only changes to what the index says |
| **Art sources** (`ArtFetcher.cs`, `TwilightBoxart.Core/Art/*`) | per source a gate of four and a cool-down; each call's place in the walk, attempts left, whether a source was down | walk sources and URLs, retry, back off on 429 and 503, follow one pointer, ask the mirror, end early on the caller's token | a cool-down set while others are past their wait; slots around every way a request may end; a stalled body | slots come back; a pause is kept; a miss is not confused with an outage; each fetch ends |
| **Upstream monitor** (`UpstreamMonitor.cs`) | counts of hits, misses, failures | count, show | nothing reads them back | - |
| **Index build and swap** (`IndexBuildService.cs`, `ReloadableMetadataIndex.cs`, `TwilightBoxart.Core/Identify/SqliteMetadataIndex.cs`, `Core/Index/*`) | the index file and its temporary twin, the current index object, its pool of readers, the build task and its status | start a build, swap, look up, dispose | lookups while the old index is disposed and none is open; a build ending while another starts; shutdown | one build at a time; a lookup gives an answer or a miss, never a crash; a failed swap keeps the old index |
| **Atomic file** (`TwilightBoxart.Core/AtomicFile.cs`) | a file and its temporaries | write, move over, delete | two writers of one path, a kill before the move | a reader sees a whole file or none |
| **Identification ladder** (`Core/Identify/IdentificationLadder.cs`, `Crc32Arithmetic.cs`) | none | match by CRC, SHA-1, serial, name | CRC arithmetic of headered dumps | equals the reference computation |
| **Index data processing** (`Core/Index/DatParser.cs`, `EntryDeduplicator.cs`, `ArtNameResolver.cs`, `RomName.cs`, ...) | none | parse, merge, resolve names | which of several entries wins | order-independent results |
| **ROM probing, header parsers** (`Core/Probe/*`, `Core/Consoles/*`) | a stream position | read headers, walk archives, decompress LZ77 | truncated input | output bounded, equal to a reference decoder |
| **Renderer** (`Core/Render/BoxartRenderer.cs`) | none | decode, scale, encode | image data | out of reach |
| **Web endpoints, middleware, front end** (`TwilightBoxart.Web`) | per-client counters; the browser's scan queue | admission and counting of clients; scan loop | a ceiling checked outside the dictionary | the ceiling holds; each file is tried once |
| **Desktop app** (`TwilightBoxart.Desktop`) | the scan's counters and its set of names taken | collect, probe, identify, fetch and write in parallel | two ROMs of one output name | counters add up; each file has one outcome |
| **DSi HTTP layer** (`TwilightBoxart.DSi/source/networking.c`) | one socket, its last use, the streak of stale connections, a request's locals, the temporary file | request with one retry, keep or drop the connection, frame the answer, write a cover beside the old one and rename it | a reused connection the router dropped; answers cut short; framing that contradicts itself; a card without replace-on-rename; a power cut | one answer to a request, 200 exactly when the cover asked for landed; a kept connection is clean; at most one retry; no litter |
| **DSi scan** (`main.c`, `formats.c`) | the walk's stack, the counters, the history, the served lists | walk, skip what is there, ask, hash after a miss, ask again, remember | ROMs that share a cover; B in the middle of a CRC; a history that is full; lists that replace the compiled ones | the walk is whole; counters, history and card agree; with "overwrite" off nothing is lost |
| **DSi LZ77 decoder** (`lz77.c`) | a static ring, the CRC so far, the decoder's locals | literal, reference, copy, cancel | references into what the last file left, runs that overlap themselves or wrap | the CRC is of the decoded ROM |
| **DSi settings, menus, WiFi** (`main.c`) | the settings and their file, the menu's row, the radio, the button, the result list | load, save, reset, choose, join a network by four ways, run, browse | one press seen by two screens; the key of one network beside the name of another; stale association status; a save cut short | one press answers one screen; only a login that worked is saved; the selection is on the screen |
| **DSi TLS glue** (`tls.c`, `tls_entropy.c`) | the session | handshake, read, write | - | a failure is a lost connection |
| **Vendored code** (`TwilightBoxart.DSi/mbedtls`, `dswifi-patched`) | - | - | - | third-party, not modelled |

### How they interact

An art request enters through `ArtEndpoints` and runs in `ArtPipeline.TryGetAsync`.
It reads the title's record (Art records), fetches through Single flight, Art
sources and Atomic file when there is no original, and draws through a second
Single flight. Each file it writes is registered in the Disk cache index; each
hit goes to the Access buffer. `POST /v2/identify` runs the ladder over the index
and stores names on the same records. In the background `CacheEvictionService`
reconciles once and then sweeps, `CacheAccountingService` flushes hits,
`IndexBuildService` swaps the index. The owner's purge competes with the sweep for
the `_maintenance` semaphore, but not with requests, which take no lock. The
clients only talk to the server over HTTP. On the console `main.c` loads its
settings, joins a network and walks the card; for each ROM it calls the HTTP layer
once or, after a miss, twice, with a CRC between the two that for an `.lz77` ROM goes
through the decoder.

## Modules

| Module | What it is |
| --- | --- |
| `CacheIndex`, `MCCacheIndex` | the disk cache index with the buffer's effect on it; its instances: sizes and budgets |
| `CacheIndex_proofs` | type correctness, `SavesNeverConflict`, `InStep`, `PurgeLeavesNothing` and `EvictsColdest`, proved |
| `SingleFlight`, `MCSingleFlight` | `SingleFlight.RunAsync`; its instance |
| `Coalescing` | what it promises, abstractly |
| `SingleFlight_proofs` | type correctness, `OneExecution`, and that `SingleFlight` implements `Coalescing`, proved |
| `ArtPipeline`, `MCArtPipeline` | requests, the two flights of `Coalescing`'s shape, back-off and refetch; its instances: which covers upstream has, under which names |
| `ArtPipeline_proofs` | type correctness, with that nobody waits for a flight that has ended, `FetchesOnlyMissing`, `BackoffHonoured` and `RefetchSticks`, proved |
| `ArtSources`, `MCArtSources` | what `ArtPipeline` takes as one outcome: the walk over upstreams, gate, cool-down, retries; its instance |
| `ArtSources_proofs` | type correctness, `GateKept`, `OutageIsNoMiss`, `PausesKept`, proved |
| `ArtTransfer` | what the console's HTTP layer promises its callers, abstractly |
| `DsiHttp`, `MCDsiHttp` | the layer itself against any server; its instance: one response of each kind |
| `DsiHttp_proofs` | its invariants, and that it implements `ArtTransfer`, proved |
| `Lz77`, `Lz77_proofs` | the decoder, and that its ring suffices, proved |
| `DsiScan`, `MCDsiScan` | a run over the card; it EXTENDS `Lz77` and makes its requests through an INSTANCE of `ArtTransfer`; its instance: a card |
| `DsiScan_proofs` | type correctness, `ScanAddsUp`, `ScanIsWhole`, `OverwriteOffKeeps`, `MarksTell`, and that a run decodes as `Lz77` does and uses the layer as `ArtTransfer` does, proved |
| `DsiClient`, `MCDsiClient` | the program around it; a run is one step there; its instance |
| `DsiClient_proofs` | its five invariants, proved |

Three compositions: `SingleFlight` implements `Coalescing`, whose shape `ArtPipeline`'s
two flights have; `DsiHttp` implements `ArtTransfer`, on which `DsiScan` is built;
`DsiScan` runs `Lz77`'s steps inside its own.

### CacheIndex

A step is one file operation or one database statement; what the code computes on
local data between two awaits belongs to the step before it.

*State.* `disk` holds the size of each key's file (0: none) and `rows` its
`CacheEntry`. `writer` is each request's progress: *landed* after `DiskCache.WriteAsync`,
*loaded* after `RegisterAsync` has read the row; `seen` is EF's snapshot of it, `live`
whether the row it tracks still exists. `buffer` and `drained` are the hits.
`holder` is the semaphore; `pc`, `left`, `batch`, `doomed`, `used`, `listing`, `todo` and
`cancelled` are the locals of the pass in progress: layers left, rows loaded and
not visited, rows marked deleted, byte counts, the reconcile's listing, paths a
purge has yet to visit, the request's token. `spent` counts against the bounds.
`late` and `raced` are history: which keys were written during the present pass,
and which may have diverged.

*Actions.* `WriteFile`, `RegisterLoad`, then `RegisterInsert` (an insert that hits the
unique index is swallowed, as in the code), `RegisterUpdate` (EF writes only the
columns that changed, operator `Column`) or `RegisterConflict` (the row is gone:
`DbUpdateConcurrencyException`, which the filter does not match). `TryRead`, `Drain`,
`FlushHits`. `StartReconcile`, `ListFiles`, `MatchRows`, `MergeRows` or `MergeFails`, layer
by layer. `StartEvict`, `LoadExpired`, `ExpireVictim`, `SaveExpired` until no row is
expired, `MeasureUsage`, then per layer `SkipLayer` or `LoadColdest`, `EvictVictim`,
`SaveEvicted` until the low-water mark. `StartPurge`, `LoadPurge`, `PurgeVictim`,
`SavePurged`, then `ClearPath` for each path and `EndLayer`; `Disconnect` cancels the
request's token, which stops the row loop and the next database call
(`PurgeCancelled`) but not the walk over files. `Restart` is a kill and a new
process with whatever files are left. `RegisterLoad` merges reading the clock into
loading the row.

### SingleFlight and Coalescing

Each call brings a fresh `Lazy` and uses the one the dictionary keeps (`Call`). Whoever
reads `Value` first starts the factory; the caller that created the `Lazy` attaches
its removal (`Attach`), which may be after the task has ended; `Remove` takes out that
exact pair. `Cancel` is a caller's own token. `Coalescing` has a run per key and a
question per caller: asking starts a run or shares it, the end of a run answers
all who wait, leaving stops nobody. `SingleFlight` implements it under the mapping
`runs`, `asks`: a caller is *answered* as soon as its `Lazy` has ended.

### ArtPipeline

*State.* `record` is each title's `ArtRecord`: pointer to an original, end of the
back-off, and the identity known. `originals` and `renders` are what is on disk,
`index` the art name the current index gives a title, `req` each request's locals,
`fetch` and `draw` the flights. `asked`, `missed` and `disturbed` are history.

*Actions.* `Arrive`, by key alone or with an identity; `LookUp`, `JoinFetch`, `Fetched`,
`ReadRender`, `JoinDraw`, `Drawn` are `TryGetAsync` between its awaits; `CheckRecord`,
`AskUpstream`, `RecordMiss` or `StoreOriginal` and `RecordHit`, `EndFetch` the body of the
fetch; `CheckRender`, `ReadOriginal`, `DropPointer` or `WriteRender`, `EndDraw` the body of
the render. Both bodies may fault; a caller may `Leave`. `EvictOriginal` and
`EvictRender`, `Remember` (identify), `Rebuild` (a new index) and `Tick` come from
outside. A flight that has ended and not been removed still answers who joins it.
`GoneFor` is what `RenderAsync`'s captured local does: only the caller that created
the flight learns that the original was gone.

What is left to other modules: a record's save is one step, the disk is a set, and
`TryFetchAsync` has three outcomes, found, missing or unreachable. The initial state
is that of a server started over what an earlier run left: pointers whose
originals may have gone since.

### ArtSources

*State.* `gate` and `cooldown` are each source's; `fetch` each call's locals: its place in
the walk (`src`, `url`), the attempt, whether a pointer was followed, the sleep and
where it leads (`left`, `then`), `anyUnavailable` (`down`). `heard`, `pause` and `unaware` are
history: which sources have answered, what is left of the longest pause a source
asked for, who had looked before it was asked for. A tick is the unit of every wait.

*Actions.* `Look` is `WaitOutCooldownAsync`, `Enter` the gate, then one outcome each:
`Decline` (404 and other statuses), `Throttle` (429, 503: a cool-down, a sleep, or no art
once retries are spent), `Fail` (no answer: a sleep, or the source has failed),
`Headers`. A body becomes an `Image`, `NoImage`, a `Link` to follow once, or `Break`s off,
which is an exception nothing retries. `Cancel` is the caller's token at any await.
Where a URL leads is in five operators: `NoArt`, `GivesUp` (the mirror, for an
unreachable primary only), `Throws`, `NextSource`, `Ended`. Which URLs a title has is a
constant; a redirect the client library follows is part of an answer.

### DsiHttp and ArtTransfer

*State.* The client's `sock`, `streak` and `req` (http_get's and do_request's locals; `req.at`
is the next thing it does); the environment's `peer`, `owed` (requests not answered) and
`wire` (what was sent and not read: a head, bytes, a last chunk, each marked with the
request it answers); the card and each cover's temporary file. Bytes are counted
one by one, so that an answer may be cut anywhere.

*Actions.* `LetGo`, `Reuse` or `Connect`, `Send`, `ReadHead`, then `Refuse` or the body, by length,
by chunks or to the end of the connection; `JudgeEmpty` and `JudgeWhole` are what a
complete body is; `CloseFile`, `RemoveOld`, `Rename` the replacement of a cover. Each has a
failing twin. `Lost`, `Retry` and `Served` are http_get's three ends. A `PowerCut` at any
time leaves the card and the temporary files. Responses are of any shape a server
frames consistently (`ShapeAssumption`), with the origin's length left beside chunks,
a malformed length, or none.

`ArtTransfer` has the card and one call: begin, then one answer. The mapping reads the
call off `req`; `dropped` holds between `RemoveOld` and `Rename`, the one moment in
which a power cut loses a cover. It allows the half cover that a body without framing
may leave, as the code knowingly does.

### Lz77

One step per flag byte, literal, reference, copied byte, and end; any byte may be
read next, or none. `folded` is the sequence the CRC is folded over, `window` the ring,
`plain` (history) the output by the format's definition, for which the whole output is
at hand. The ring starts with whatever the file before left.

### DsiScan

*State.* `scan` holds the walk's stack and `fetch_art`'s locals, `counters`, `results` and
`complete` what the last screen shows, `lists` which of the served lists replaced the
compiled ones. *Actions.* The format lists first; then `WalkDir`, `WalkOther`, `SkipRom`,
`AskForRom`, `Leave` per directory entry; `FirstAnswer`, then, after a miss in full mode, `Hash` or
`Decode` steps, `SecondAnswer`. `UserAborts` sets the flag at any time; the code looks at it
where the model does. A directory may fail to open, the root included. An entry stands
for its path, so that no two directories share one and none holds the root
(`TreeAssumption`). Which ROMs a run must come to is told by the ways down from the root:
`Ways` are the chains of openable directories within the limit, `RomsAt` what they lead to.

### DsiClient

*State.* `config` and `ini` (the file), `at`, the menu's `row`, `endpoint` (what `net_configure` was
given), the `radio`, `status` (`g_last_assoc_status`), `join` (connect_wifi's locals), `button`, the `list`. A
key is modelled by the network it was typed for and whether it is right. *Actions.*
`Boot`, the menu, the reset and its confirmation, `SaveOpens` and `SaveWrites` (which truncates
first), the ways onto a network in connect_wifi's order - what is saved, twice, what
the console has stored, one from the list or typed - with the static-address rescue
at its two places, `Run`, and the list's keys. `Off` is START, an error or the power.

## What is checked

Twelve runs. Ten must pass:

| Run | Checks | Instance |
| --- | --- | --- |
| `cache_safety` | `TypeOK`, `SavesNeverConflict`, `InStep`, `PurgeLeavesNothing` | one key in each layer, over its budget alone so that every sweep evicts it, two requests (two writes), the sweeper, two owners with two purges that may be cancelled, deletes that may fail, one kill, three instants: every pair of actors on a key, and a second purge after a half-done one |
| `cache_liveness` | `BudgetKept`, `ExpiredRowsGo`, `EvictsColdest` | an original, a render of size 2 that has hits and one of size 1 or 3 that has none, under a budget of 2 and a low-water mark of 1, two writes, two instants, a retention of less than one tick, under `FairSpec`: a batch of two in which a flush changes which is colder, and a rewrite that takes a layer over its budget; deletes may fail, and `BudgetKept` leaves those files out as `InStep` does |
| `flight` | `TypeOK`, `OneExecution`, `Coalesces`, `CallsReturn`, `EndedIsForgotten` | three callers, two keys, three `Lazy` objects: a flight in use, one ended but registered and one afresh. It may stop for want of `Lazy` objects, so deadlock is off |
| `art_backoff` | `BackoffHonoured` | a title whose cover is missing, three arrivals by two requests, an index rebuild between two names, an outage, back-offs of two instants and one |
| `art_evict` | `TypeOK`, `FetchesOnlyMissing`, `RefetchSticks` | a title whose upstream answers with one of two originals, one of which does not decode; two requests in two sizes, a stale pointer and one more eviction |
| `art_liveness` | `EveryRequestAnswered` | two requests, a flight that may fail, under `FairSpec` |
| `art_sources` | `TypeOK`, `GateKept`, `OutageIsNoMiss`, `PausesKept`, `FetchesEnd` | two fetches, one with an embedded cover at the end of its walk, two upstreams of two URLs each, one slot, two retries, pauses of up to two ticks, under `FairSpec`. All calls may have ended, so deadlock is off |
| `dsi_http` | `TypeOK`, `KeptIsClean`, `NoReuseOnceStale`, `NoLitter`, `ImplementsTransfer`, `RequestEnds` | requests without end for two covers and the lists, nine responses of up to two bytes, one of each kind `do_request` tells apart, a streak limit of two, under `FairSpec` |
| `dsi_scan` | `TypeOK`, `RingHoldsTail`, `DecodesPlain`, `ScanAddsUp`, `ScanIsWhole`, `OverwriteOffKeeps`, `MarksTell` | a card of four directories, one a level too deep, one the launchers' own; three ROMs to come to, two of which share a cover under one launcher, one compressed; games of the same names in the two directories that are not walked; a ring of two bytes, files of up to three; a history of two results; four settings of the options; four answers to the lists. A scan ends, so deadlock is off |
| `dsi_client` | `TypeOK`, `OnePressOneAnswer`, `KeyBelongs`, `SavedIsProven`, `SelectedIsShown` | two networks, one open; a card without settings, or with a key that is right or no longer is; three kinds of server; results of up to four lines on a screen of two |

Symmetry is used where no liveness property is checked: of requests, of owners and
of render options, which the specifications do not tell apart.

Why the bounds are enough: each race here is between at most three actors - a
request, a maintenance pass, a kill; or two requests and an outside event - on one
key, and each instance has those and one spare. A second key matters where order
does (`EvictsColdest`), a second name or original where a change does. Counters
(writes, purges, kills, evictions, outages, rebuilds, faults, arrivals, the clock)
only bound how often the outside acts; nothing in the code reads them. In
`ArtSources` one slot makes every pair of requests compete, and two ticks let one
pause begin inside another. In `DsiHttp` nothing is bounded but the length of an answer
and the number of requests on the wire: a body of two bytes has a first, a last and
something between to cut at, and what a connection leaves behind shows in the very
next request. A ring of two and runs of two wrap, overlap themselves and reach the
oldest byte; the proof covers the real sizes.

What the properties say, beyond their comments in the modules:

- `InStep` names every way in which a key's file and row may come to disagree:
  a write that overlaps a pass, a file that would not be deleted, a purge cut
  short, a kill. It says there is no other, and that the reconcile repairs a key.
- `BackoffHonoured` is `ArtPipeline.cs`'s own promise that a record "can bypass its
  backoff once per change, not once per request".
- `EvictsColdest` compares the rows that are left with the victim as it was loaded: the walk
  over a batch never jumps over a colder entry, whatever is flushed or registered
  meanwhile. That the victim has not been served since its batch was loaded is not
  promised (`ServedIsSpared`, below).
- `BudgetKept` is about what is on the disk and not only what the rows say of it: a
  row that kept the size of an earlier render would satisfy the sweep and not it.
- `RefetchSticks` says one inline refetch is enough unless the disk is disturbed again,
  or the request took the result of a fetch that began earlier.
- `OutageIsNoMiss` speaks of what each source last said, mirrors and retries
  included: a mirror that answers makes up for a primary that does not.
- `ImplementsTransfer` is the reason to believe a cover on the card: it landed because
  it was asked for under that name, whatever answers were cut, late or left behind.
- `SavedIsProven` leaves out one case, a server given by its number (below).

### What the code says and does not do

Two runs must fail; each is a finding.

| Run | Property | What happens |
| --- | --- | --- |
| `art_render_joiner` | `GoneIsRefetched` | a request that joins a render of an original that has gone is answered 404 instead of refetching |
| `dsi_reset_backend` | `BackendFixed` | settings reset in the first menu leave the HTTP layer pointed at the backend the reset has just forgotten |

Other disagreements are stated in the modules without a run of their own. Checked with
the configuration named, TLC finds each violated: `WritesSucceed`,
`BlindMissNotBelieved`, `EmbeddedIsLast` and `NoHalfCover` as an `INVARIANT`, the others as a
`PROPERTY`.

| Property | Configuration | What the source says, and what happens |
| --- | --- | --- |
| `WritesSucceed` | `CacheSafety.cfg` | writes need no lock, for "they touch one row each" (`CacheIndex.cs:37-38`); when a pass deletes that row between `RegisterAsync`'s load and its save, the exception is not the one it swallows (`CacheEntryExtensions.cs:111`), and a fetch that succeeded is a 500 |
| `RetentionHonoured` | `CacheLiveness.cfg` | an original is "dropped regardless of popularity" when its retention ends (`CacheSettings.cs:32`); one rewritten between the sweep's delete of the file and of the row (`CacheIndex.cs:294-299`) has no row, and stays until a restart |
| `ServedIsSpared` | `CacheLiveness.cfg` | "Recency, not hit count, picks the victim - a cover requested a thousand times last year is worth less than one requested once this morning" (`CacheIndex.cs:190-191`); a hit that is flushed after the victim's batch was loaded comes too late, and the victim goes before an entry that is colder by then (`CacheIndex.cs:226-243`) |
| `BlindMissNotBelieved` | `ArtBackoff.cfg` | a bypass is for what was not known (`ArtPipeline.cs:307-309`); a key-only fetch in flight while identify stores the name leaves a miss that seems earned under it (`ArtPipeline.cs:217`) |
| `DropsOnlyDead` | `ArtEvict.cfg` | the pointer dropped is a dead one (`ArtPipeline.cs:118-119`); of two renders that find one original gone, the second drops what the first one's refetch has restored (`:122`) |
| `QueuedBackOff` | `ArtSources.cfg` | a 429 "also backs off the other N requests already queued behind the gate" (`HttpArtSource.cs:40-41`); those have looked at the cool-down already and go out |
| `EmbeddedIsLast` | `ArtSources.cfg` | "a real cover, when one exists, always wins" (`DsiWarePlaceholderArtSource.cs:16`); when GameTDB cannot be reached the generic cover is the title's, for good |
| `NoHalfCover` | `DsiHttp.cfg` | "a dropped transfer can never leave half a PNG behind" (`networking.c:237-239`); a body without framing that a FIN cuts short passes for whole (`networking.c:595-598`) |

Seen while modelling, and not stated as properties:

- `ArtSourceLimits.RequestTimeout` "covers headers + body" (`ArtSourceLimits.cs:54`);
  `ResponseHeadersRead` (`HttpArtSource.cs:131`) ends it with the headers. A body that
  stalls keeps its slot and its title's flight. `FetchesEnd` assumes that none does.
- A body that breaks off is neither retried nor asked of the mirror: only `GetAsync` is
  inside `AttemptAsync`'s try (`HttpArtSource.cs:128-144`, `:194`).
- A `Retry-After` beyond the ceiling should be "a miss now" (`ArtSourceLimits.cs:57-60`); it
  is cut down to the ceiling and slept out (`HttpArtSource.cs:282`, `:108`).
- A merge of the reconcile may put back the size of a render that was rewritten after
  it listed the files; the row then stays wrong until the next start.
- `static_ip_rescue` reads the association status of an earlier attempt when the last was
  refused at once (`main.c:853-855`, `1183-1191`); with a backend given by its number it
  needs no radio, "works", and the login is saved unproven.
- `moved = step > 0` (`main.c:1683`, `1690`) hides an UP in the same frame as a LEFT.
- SELECT shows the CRC of an `.lz77` file's compressed bytes (`main.c:1654`), the scan asks
  with that of the ROM (`main.c:443-446`).
- A request that knows the name and joins a fetch begun without it takes that
  fetch's miss.

### Fairness

`CacheIndex!FairSpec`: the sweep and the flush run on timers for the life of the
process (`CacheEvictionService`, `CacheAccountingService` loop and catch what a pass
throws), and a request or a purge that has begun is run to its end by the thread
pool. Nothing is assumed of traffic, owners, kills or the clock; `BudgetKept` therefore
says what holds once the bounded traffic is over.
`SingleFlight!FairSpec`: threads run, and every factory ends. For the fetch, that is
`ArtSources!FetchesEnd`, with its assumption about bodies.
`ArtPipeline!FairSpec`: each request and each flight goes on; arrivals, hang-ups,
evictions, identify, rebuilds and time are not obliged to happen.
`ArtSources!FairSpec`: tasks run, time passes, and a request has its headers or its
timeout; bodies, cancellation and new calls are not obliged to happen. `FetchesEnd`
carries its assumption in the formula: if no call stays for good in a body.
`DsiHttp!FairSpec`: the client moves, for every wait of its has a ceiling
(`CONNECT_TIMEOUT_SECS`, `IO_TIMEOUT_SECS`) after which the failing twin of the step is
taken; nothing is assumed of the server, the link or the user.

## What is proved

For any sets of keys, requests, owners, titles, names, sizes, budgets, upstreams,
responses and limits, under the named assumptions of the modules (layers are
disjoint, an original's key fixes its size, markers are not values, bounds are naturals, batch size and
slots positive, a finite set of fetches, responses framed consistently, a card is a tree,
every ROM has a cover's path and the lists are no cover). Every safety property that a passing
run checks is a theorem here:

- `CacheIndex_proofs!TypeCorrect` and `MaintenanceIsSafe`. `SavesNeverConflict` is not
  inductive by itself. The invariant `IInv` adds that only the semaphore's holder has
  rows loaded or marked (`OneHolder`), and that a flight's tracked row is alive exactly
  as long as the row is there (`Tracked`). A row loaded by the holder stays in the table
  because only the holder deletes rows: requests insert and update, the flush
  updates. Each action has its lemma. The byte counts have no type in `TypeOK`: they
  come from a sum over a set, whose value a proof cannot reach.
- `CacheIndex_proofs!KeptInStep` and `PurgeIsThorough`. `StepInv` says of each actor what makes its next
  step keep the two in step: a flight of an unraced key has its file on the disk and will leave
  the row with that size, whichever flight of the key saves first (`FlightsInStep`, from
  `FlightsAgree`: an original's bytes are its key's, `ContentAssumption`); while the semaphore
  is held whatever is being written is among the raced (`RacesKnown`); a marked row has lost its file
  (`DeletionsInStep`); a reconcile's listing and rows are still those of the disk and the
  table, but for keys written since (`ReconcilesInStep`), so that its merge may take its
  layer out of the raced; and what a purge has still to visit has no row (`VisitsLayer`, with
  `PurgeLeavesNothing`). `StepInv` was checked with TLC before it was proved.
- `CacheIndex_proofs!VictimsAreColdest`. The sweep goes by the access times loaded with a batch.
  While the batch is walked no row outside it has a last access older than one in it had when
  it was loaded, and none in it has been moved back since (`BatchIsColdest`). A flush only
  moves a row's last access forward; an insert or an update may move it back, to a time its
  flight read earlier, but its key is under way and so not compared (`RacesKnown`). A hit of
  the victim that is flushed in between is outside the theorem: `ServedIsSpared` fails.
- `SingleFlight_proofs!TypeCorrect`, `OneAtATime`, `Implements`. `IInv` adds that a `Lazy` that has
  not ended is the one its key has in the dictionary (`Installed`), that its removal
  is arranged once, by its creator (`RemovedOnce`), and that a caller uses a `Lazy` of the
  key it asked for (`UsesItsKey`). One execution per key follows from `Installed`; in the
  refinement, `Call` is `Ask`, `Finish` is `End`, `Remove` is `Forget`, `Return` and `Cancel` are
  `Leave`, `Value` and `Attach` are stutters.
- `ArtPipeline_proofs!TypeCorrect` and `OnlyMissingFetched`. `TypeOK` says that a request
  that waits for a fetch or a render waits for one that is running; it needs, in
  `IInv`, that a request past the lookup has a title, options and a pointer
  (`RequestOK`), so that what it draws is a render, and that a fetch with upstream's
  bytes has their hash (`FetchOK`). Three lemmas cover the shapes of a step: a request
  goes on, a flight goes on, a flight ends and wakes those who wait (`Woken`). A title's
  pointer appears only at the end of the title's one fetch, hence `FetchesOnlyMissing`.
- `ArtPipeline_proofs!BackoffIsHonoured`. While a miss holds, the record carries it and knows
  all that the attempt knew (`MissKept`). Whoever bypasses the back-off therefore brings
  a new name or the canonical one, so that what is about to be asked differs from what
  missed (`AsksAnew`); only a step that clears the miss breaks the first, and it clears
  the history with it.
- `ArtPipeline_proofs!RefetchIsFinal`. For a request that refetches and that nothing disturbed,
  the title's record points to an original on disk or to none, and so does the record
  it carries (`RefetchOK`). That holds across other requests' steps since what a fetch has
  stored stays until an eviction disturbs it (`StoredStays`), and since a render's creator,
  the one request told that the original had gone, waits for that render
  (`CreatorWaits`).
- `ArtSources_proofs!TypeCorrect`, `SlotsComeBack`, `OutagesAreTold`, `PausesAreKept`. `IInv` adds what
  a call under way knows of the sources before its present one (`Told`: it is down
  exactly if one of them has not answered), and that whoever has looked since the
  last pause was asked for sleeps at least as long as it lasts (`Patient`). The slots
  are counted: a step leaves the holders as they are, adds one or takes one out.
- `Lz77_proofs!LzTypeCorrect`, `NoStaleByte`, `RingSuffices`. `LzInv` says that the ring holds the last
  `Window` bytes of this file at their places and that a copy under way refers to one
  of them; the arithmetic is that two positions less than `Window` apart have
  different slots. `RingSuffices` is the refinement of the format's definition: `folded`
  is `plain` at every step.
- `DsiHttp_proofs!TypeCorrect`, `ConnectionsAreClean`, `StaleStopsReuse`, `LeavesNoLitter`,
  `LayerImplementsTransfer`. `LinkInv` describes each stage: before the request is sent the
  connection owes nothing (`Clean`); while one waits for the head, one request is owed or
  what is on the wire is the beginning of its answer (`Asked`); while one reads, what
  has come and what is left add up to a response to it, whole or cut (`Reading`);
  what is judged and filed is of the cover asked for (`Judging`, `Filing`); a retry is the
  second and last attempt (`OneTry`). `DiskInv` adds that an open temporary file is the
  request's own. From these each step maps to a step of `ArtTransfer` or a stutter.
- `DsiScan_proofs!TypeCorrect`, `RunDecodesPlain`, `RunsTransfers`. `IInv` adds to the types
  which thing the layer is at work for at each stage of the walk (`CallOK`). Each step of a
  run is a step of `Lz77` or leaves the decoder alone, and a step of `ArtTransfer` or leaves the
  layer alone; so what is proved of the decoder holds in every run, and what `DsiHttp` implements
  is what a run relies on.
- `DsiScan_proofs!CountsAddUp`. `ScanAddsUp` needs that no more is remembered than was counted,
  mark by mark, and that the ROM in hand is the one found and not yet told (`CountsOK`).
- `DsiScan_proofs!CoversStay` and `MarksAreTrue`. With "overwrite" off a cover that is there is never
  asked for, and from the moment it is asked for until it is marked the card holds what
  the answer tells (`CoverOK`). `MarksTell` is not inductive: between a request and its mark the
  card is ahead of the list. `MarksOK` therefore excepts the cover of the ROM in hand once its
  request has disturbed it (`Disturbed`), and says of one asked for again that its last mark is
  still true, since a CRC that the user cancels leaves no mark.
- `DsiScan_proofs!RunIsWhole`. `ScanIsWhole` speaks of a run that has ended, on any tree. The
  invariant `WalkOK` says that there are two sets, the directories *opened*, each with its
  depth, and the entries *passed*: the stack's frames are opened, each passed up to its
  place; one that has left the stack is passed whole; the ROMs passed are those seen, and
  `found` is their number. Of each way down it says that its end is opened, or that some opened
  directory on it has the entry that leads on still ahead (`Ahead`). With an empty stack nothing
  is ahead, so every way has been walked: what looks like an induction over directories
  is in the invariant, kept one step at a time. That no entry is met twice is
  `TreeAssumption` (`EntryIsFresh`).
  `CoverOK`, `MarksOK` and `WalkOK` were checked with TLC before they were proved.
- `DsiClient_proofs!TypeCorrect`, `PressesAreSpent`, `KeysStay`, `SavesAreProven`, `SelectionIsShown`.
  The menu never comes up while an A is spent (`PressInv`); only in the list of
  networks, where the name has been wiped, may a key of another network stand (`KeyInv`);
  until the first run the card holds nothing new, and after it what the program holds
  has been proven and no network is tried any more (`LoginInv`); each key of the list
  keeps the selected line on the screen. The types need the count of tries (`TriesInv`).

Model-checked only: liveness (`BudgetKept`, `ExpiredRowsGo`, `CallsReturn`, `EndedIsForgotten`,
`EveryRequestAnswered`, `FetchesEnd`, `RequestEnds`), which is out of the prover's reach under
fairness, and the byte counts of `CacheIndex`, a sum over a set.

## What is not modelled

Byte-level code (renderer, header parsers, probing), text matching (DAT parsing, ROM
names), request shaping and views: no state that outlives a call, or nothing a
small model could tell apart. In the modules themselves: file contents other than
size or hash, the names of temporary files, logging, the fields of a record that
no decision reads. Database failures other than those of two statements that meet - a
flush that fails loses the hits it drained - and lookups in the index's swap window
belong to modules of the plan; a graceful stop is no more than the kill that is
modelled. Assumed of the configuration: the low-water mark is not above the budget,
and the batch size is positive, as the code's constant is.

Vendored libraries. The C sources under `TwilightBoxart.DSi/mbedtls` are some 205,000
lines of a TLS library and its headers, taken as they are; the console program's own C
is about 3,600 lines, and the modules above cover the parts of it that keep state. Of
it are left out: SELECT's CRC of a single result, the screen shown while R is held, the
line editor's cursor, the scan for networks (the user may pick or type any), and the
drawing. TLS is a connect, a send or a read that fails.

## Plan

What is left, in this order.

1. `AccessBuffer`: `Record` and `Drain` step by step against a counter per key.
2. `ArtRecordStore`: load, save, the unique-index retry, `Apply`, pruning; the abstract
   specification is the one-step save of `ArtPipeline`, and where it is not implemented
   (the miss `Apply` clears, the retry that loses) that is to be stated.
   Theorem: a title has one row.
3. `ReloadableIndex`, `IndexBuild`: swap window, reader pool, disposal, build life cycle.
   Theorem: one build at a time, and no lookup reads a disposed index unanswered.
4. `ScanService`: the desktop scan's parallel loop, counters and names taken; then the
   browser's.
5. Algorithms against reference definitions: CRC-32 combination, deduplication, safe
   names, art keys.

