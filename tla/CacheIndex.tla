----------------------------- MODULE CacheIndex -----------------------------
(***************************************************************************)
(* The art cache of TwilightBoxart.Pipeline: blobs on disk, one bookkeeping *)
(* row per blob in the database, and the four kinds of activity that move   *)
(* them - requests that write and register a blob, the sweeper that         *)
(* reconciles once at boot and then evicts on a timer, the owner's purge,   *)
(* and the flush of buffered hits.  A kill may come between any two steps.  *)
(*                                                                         *)
(* One step is one file operation or one database statement: what the code  *)
(* does between two awaits on local data is part of the step before it.     *)
(***************************************************************************)
EXTENDS Integers, FiniteSets

LOCAL INSTANCE Functions

CONSTANTS
    Originals,      \* cache keys of the originals layer
    Renders,        \* cache keys of the renders layer
    Writers,        \* request flights that may write a blob at one time
    Sweeper,        \* the CacheEvictionService
    Admins,         \* requests to the admin panel's "clear cache"
    SizesOf,        \* the sizes a blob of each key may have
    Budget,         \* BudgetBytes of each layer
    LowWater,       \* Budget scaled by EvictionLowWaterFraction
    EvictionBatchSize,
    OriginalsMaxAge,    \* in whole ticks of the clock: 0 where a tick is longer
    Nobody,         \* the maintenance semaphore is free
    NoRow,          \* a key with no CacheEntry
    \* bounds of a model
    MaxClock, MaxWrites, MaxPurges, MaxKills,
    ReadKeys,       \* the keys whose cache hits are modelled
    MayDiscon,      \* whether an admin may drop the connection mid-purge
    MayStick        \* whether deleting a file may fail

Keys == Originals \cup Renders
Kinds == {"original", "render"}
Maintainers == {Sweeper} \cup Admins
Row == [size : Nat, access : Nat, created : Nat]

ASSUME LayersAssumption == Originals \cap Renders = {}
ASSUME ActorsAssumption == Sweeper \notin Admins /\ Nobody \notin Maintainers
ASSUME RowAssumption == NoRow \notin Row
ASSUME SizesAssumption == SizesOf \in [Keys -> SUBSET (Nat \ {0})]
\* An original's key is the hash of its bytes.
ASSUME ContentAssumption == \A k \in Originals : \A s, t \in SizesOf[k] : s = t
ASSUME BoundsAssumption ==
    /\ Budget \in [Kinds -> Nat] /\ LowWater \in [Kinds -> Nat]
    /\ \A kind \in Kinds : LowWater[kind] <= Budget[kind]
    /\ EvictionBatchSize \in Nat \ {0} /\ OriginalsMaxAge \in Nat
    /\ {MaxClock, MaxWrites, MaxPurges, MaxKills} \subseteq Nat
    /\ ReadKeys \subseteq Keys /\ {MayDiscon, MayStick} \subseteq BOOLEAN

VARIABLES
    clock,
    disk,       \* size of the file of each key, 0 for no file
    rows,       \* the CacheEntry table
    writer,     \* each flight's progress through WriteAsync and RegisterAsync
    buffer,     \* CacheAccessBuffer: last access of the keys hit since the drain, 0 for none
    drained,    \* what FlushAsync drained and has not committed yet
    holder,     \* who holds _maintenance
    scanned,    \* Scanned
    pc, left, batch, doomed, used, listing, todo, cancelled,
                \* the locals of each maintainer: where it is, the layers left
                \* to do, the loaded rows still to process, the rows marked
                \* deleted, the byte counts, the reconcile's listing, the
                \* paths a purge has not visited, its cancelled token
    spent,      \* how much of each bound is used up
    late,       \* history: keys with a write under way since _maintenance was taken
    raced       \* history: keys that may have diverged, see InStep

fileVars == <<disk, rows>>
hitVars == <<buffer, drained>>
jobVars == <<pc, left, batch, doomed, used, listing, todo, cancelled>>
lockVars == <<holder, scanned>>
histVars == <<late, raced>>
vars == <<clock, fileVars, writer, hitVars, lockVars, jobVars, spent, histVars>>

Layer(kind) == IF kind = "original" THEN Originals ELSE Renders
Files(S) == {k \in S : disk[k] # 0}
Rowed(S) == {k \in S : rows[k] # NoRow}
SizeInRow(k) == IF rows[k] = NoRow THEN 0 ELSE rows[k].size
InFlight == {k \in Keys : \E w \in Writers : writer[w].pc # "idle" /\ writer[w].key = k}
Larger(a, b) == IF a < b THEN b ELSE a
EmptyFunction == [k \in {} |-> 0]

-----------------------------------------------------------------------------
(* Requests: WriteAsync puts the file down first, then RegisterAsync loads   *)
(* the row and inserts or updates it.                                        *)

IdleWriter == [pc |-> "idle", key |-> NoRow, size |-> 0, now |-> 0, seen |-> NoRow, live |-> FALSE]

\* mutant: the flight registers under no key
UnkeyedFlight(k, s) == [IdleWriter EXCEPT !.pc = "landed", !.size = s]

Flight(k, s) == [IdleWriter EXCEPT !.pc = "landed", !.key = k, !.size = s]

\* An original's bytes are its key's, so any number of flights may be writing
\* one; two flights never write one render, whose flight is keyed on its path.
WriteFile(w, k, s) ==
    /\ writer[w].pc = "idle" /\ spent.writes < MaxWrites
    /\ s \in SizesOf[k]
    /\ k \in Renders => k \notin InFlight
    /\ disk' = [disk EXCEPT ![k] = s]
    /\ writer' = [writer EXCEPT ![w] = Flight(k, s)]
    /\ spent' = [spent EXCEPT !.writes = @ + 1]
    /\ late' = late \cup {k}
    /\ raced' = IF holder = Nobody THEN raced ELSE raced \cup {k}
    /\ UNCHANGED <<clock, rows, hitVars, lockVars, jobVars>>

RegisterLoad(w) ==
    /\ writer[w].pc = "landed"
    /\ LET k == writer[w].key IN
       writer' = [writer EXCEPT ![w].pc = "loaded", ![w].now = clock,
                                ![w].seen = rows[k], ![w].live = rows[k] # NoRow]
    /\ UNCHANGED <<clock, fileVars, hitVars, lockVars, jobVars, spent, histVars>>

\* mutant: a rewrite leaves the row as it was
ColumnKept(stored, loaded, assigned) == stored

\* SaveChanges writes only the columns that differ from what was loaded.
Column(stored, loaded, assigned) == IF assigned = loaded THEN stored ELSE assigned

RegisterInsert(w) ==
    /\ writer[w].pc = "loaded" /\ writer[w].seen = NoRow
    /\ LET k == writer[w].key IN
       rows' = [rows EXCEPT ![k] =
                  IF @ # NoRow THEN @      \* SQLITE_CONSTRAINT, swallowed
                  ELSE [size |-> writer[w].size, access |-> writer[w].now, created |-> clock]]
    /\ writer' = [writer EXCEPT ![w] = IdleWriter]
    /\ UNCHANGED <<clock, disk, hitVars, lockVars, jobVars, spent, histVars>>

RegisterUpdate(w) ==
    /\ writer[w].pc = "loaded" /\ writer[w].seen # NoRow /\ writer[w].live
    /\ LET k == writer[w].key
           old == writer[w].seen IN
       rows' = [rows EXCEPT ![k].size = Column(@, old.size, writer[w].size),
                            ![k].access = Column(@, old.access, writer[w].now)]
    /\ writer' = [writer EXCEPT ![w] = IdleWriter]
    /\ UNCHANGED <<clock, disk, hitVars, lockVars, jobVars, spent, histVars>>

\* The row that was loaded is gone: the UPDATE matches nothing and the
\* DbUpdateConcurrencyException is not one that RegisterAsync swallows.
RegisterConflict(w) ==
    /\ writer[w].pc = "loaded" /\ writer[w].seen # NoRow /\ ~writer[w].live
    /\ writer' = [writer EXCEPT ![w].pc = "failed"]
    /\ UNCHANGED <<clock, fileVars, hitVars, lockVars, jobVars, spent, histVars>>

AnswerError(w) ==
    /\ writer[w].pc = "failed"
    /\ writer' = [writer EXCEPT ![w] = IdleWriter]
    /\ UNCHANGED <<clock, fileVars, hitVars, lockVars, jobVars, spent, histVars>>

\* The flights whose loaded row is one of those being deleted.
Forget(S) ==
    [w \in Writers |-> IF writer[w].key \in S THEN [writer[w] EXCEPT !.live = FALSE] ELSE writer[w]]

-----------------------------------------------------------------------------
(* Cache hits: recorded in memory, drained and committed on a timer.         *)

TryRead(k) ==
    /\ disk[k] # 0 /\ buffer[k] # clock
    /\ buffer' = [buffer EXCEPT ![k] = clock]
    /\ UNCHANGED <<clock, fileVars, writer, drained, lockVars, jobVars, spent, histVars>>

Drain ==
    /\ \E k \in Keys : buffer[k] # 0
    /\ \A k \in Keys : drained[k] = 0
    /\ drained' = buffer
    /\ buffer' = [k \in Keys |-> 0]
    /\ UNCHANGED <<clock, fileVars, writer, lockVars, jobVars, spent, histVars>>

FlushHits ==
    /\ \E k \in Keys : drained[k] # 0
    /\ rows' = [k \in Keys |-> IF rows[k] = NoRow THEN NoRow
                               ELSE [rows[k] EXCEPT !.access = Larger(@, drained[k])]]
    /\ drained' = [k \in Keys |-> 0]
    /\ UNCHANGED <<clock, disk, writer, buffer, lockVars, jobVars, spent, histVars>>

-----------------------------------------------------------------------------
(* The maintenance semaphore and what its holders share.                     *)

\* mutant: every pass opens its own context and takes no lock
LockIgnored == TRUE

LockFree == holder = Nobody

Acquire(m, start, layers) ==
    /\ LockFree
    /\ holder' = m
    /\ pc' = [pc EXCEPT ![m] = start]
    /\ left' = [left EXCEPT ![m] = layers]
    /\ late' = InFlight
    /\ raced' = raced \cup InFlight
    /\ UNCHANGED <<clock, fileVars, writer, hitVars, scanned, batch, doomed, used, listing, todo, cancelled>>

\* The semaphore's release in the finally, with the locals it ends.
Release(m) ==
    /\ holder' = Nobody
    /\ pc' = [pc EXCEPT ![m] = "rest"]
    /\ batch' = [batch EXCEPT ![m] = EmptyFunction]
    /\ doomed' = [doomed EXCEPT ![m] = {}]
    /\ used' = [used EXCEPT ![m] = [kind \in Kinds |-> 0]]
    /\ listing' = [listing EXCEPT ![m] = EmptyFunction]
    /\ todo' = [todo EXCEPT ![m] = {}]
    /\ left' = [left EXCEPT ![m] = {}]
    /\ cancelled' = [cancelled EXCEPT ![m] = FALSE]

\* caches.All is originals, then renders.
Kind(m) == IF "original" \in left[m] THEN "original" ELSE "render"

\* The first EvictionBatchSize of the rows S by the given order.
IsBatch(B, S, order(_)) ==
    /\ B \subseteq S
    /\ Cardinality(B) = IF Cardinality(S) < EvictionBatchSize THEN Cardinality(S) ELSE EvictionBatchSize
    /\ \A k \in B, j \in S \ B : order(rows[k]) <= order(rows[j])

\* mutant: the oldest copy is taken for the coldest
AccessAsCreated(row) == row.created

Access(row) == row.access
Created(row) == row.created

Load(m, S, order(_), next) ==
    /\ \E B \in SUBSET S : IsBatch(B, S, order) /\ batch' = [batch EXCEPT ![m] = [k \in B |-> rows[k]]]
    /\ pc' = [pc EXCEPT ![m] = next]

\* Delete the file and mark the row; AtomicFile.TryDelete ignores a failure.
DeleteVictim(m, k, order(_)) ==
    /\ k \in DOMAIN batch[m]
    /\ \A j \in DOMAIN batch[m] : order(batch[m][k]) <= order(batch[m][j])
    /\ \E stuck \in {FALSE, MayStick} :
         /\ disk' = IF stuck THEN disk ELSE [disk EXCEPT ![k] = 0]
         /\ raced' = IF stuck THEN raced \cup {k} ELSE raced
         /\ late' = IF stuck THEN late \cup {k} ELSE late
    /\ doomed' = [doomed EXCEPT ![m] = @ \cup {k}]
    /\ used' = [used EXCEPT ![m][Kind(m)] = @ - batch[m][k].size]
    /\ batch' = [batch EXCEPT ![m] = [j \in DOMAIN @ \ {k} |-> @[j]]]
    /\ UNCHANGED <<clock, rows, writer, hitVars, lockVars, pc, left, listing, todo, cancelled, spent>>

\* Whether SaveChanges finds every row it is to delete.
Deletable(m) == doomed[m] \subseteq Rowed(Keys)

\* An exception out of the pass: nothing is saved and the lock is released.
Abandon(m) ==
    /\ Release(m)
    /\ raced' = raced \cup doomed[m]
    /\ UNCHANGED <<clock, fileVars, writer, hitVars, scanned, spent, late>>

\* A row that is not there any more fails the whole save.
SaveDeletes(m, next) ==
    IF Deletable(m)
    THEN /\ rows' = [k \in Keys |-> IF k \in doomed[m] THEN NoRow ELSE rows[k]]
         /\ writer' = Forget(doomed[m])
         /\ doomed' = [doomed EXCEPT ![m] = {}]
         /\ batch' = [batch EXCEPT ![m] = EmptyFunction]
         /\ pc' = [pc EXCEPT ![m] = next]
         /\ UNCHANGED <<clock, disk, hitVars, lockVars, left, used, listing, todo, cancelled, spent, histVars>>
    ELSE Abandon(m)

-----------------------------------------------------------------------------
(* The reconcile at boot: list the files of a layer, then load its rows, then *)
(* save the difference.                                                      *)

StartReconcile == pc[Sweeper] = "boot" /\ Acquire(Sweeper, "list", Kinds) /\ UNCHANGED spent

ListFiles(m) ==
    /\ pc[m] = "list"
    /\ listing' = [listing EXCEPT ![m] = [k \in Files(Layer(Kind(m))) |-> disk[k]]]
    /\ pc' = [pc EXCEPT ![m] = "match"]
    /\ UNCHANGED <<clock, fileVars, writer, hitVars, lockVars, left, batch, doomed, used, todo, cancelled, spent, histVars>>

MatchRows(m) ==
    /\ pc[m] = "match"
    /\ batch' = [batch EXCEPT ![m] = [k \in Rowed(Layer(Kind(m))) |-> rows[k]]]
    /\ pc' = [pc EXCEPT ![m] = "merge"]
    /\ UNCHANGED <<clock, fileVars, writer, hitVars, lockVars, left, doomed, used, listing, todo, cancelled, spent, histVars>>

Listed(m) == DOMAIN listing[m]
Loaded(m) == DOMAIN batch[m]
Adoptable(m) == Listed(m) \ Loaded(m) \subseteq Keys \ Rowed(Keys)

\* mutant: the reconcile adopts files but leaves the rows of those that are gone
AdoptedOnly(m, k) ==
    IF k \in Listed(m) \ Loaded(m)
    THEN [size |-> listing[m][k], access |-> clock, created |-> clock]
    ELSE rows[k]

Reconciled(m, k) ==
    CASE k \in Loaded(m) \ Listed(m) -> NoRow
      [] k \in Loaded(m) \cap Listed(m) ->
            [rows[k] EXCEPT !.size = Column(@, batch[m][k].size, listing[m][k])]
      [] k \in Listed(m) \ Loaded(m) ->
            [size |-> listing[m][k], access |-> clock, created |-> clock]
      [] OTHER -> rows[k]

MergeRows(m) ==
    /\ pc[m] = "merge" /\ Adoptable(m)
    /\ rows' = [k \in Keys |-> Reconciled(m, k)]
    /\ writer' = Forget(Loaded(m) \ Listed(m))
    /\ raced' = raced \ (Layer(Kind(m)) \ late)
    /\ IF left[m] = {"render"}
       THEN Release(m) /\ scanned' = TRUE
       ELSE /\ pc' = [pc EXCEPT ![m] = "list"]
            /\ left' = [left EXCEPT ![m] = @ \ {Kind(m)}]
            /\ batch' = [batch EXCEPT ![m] = EmptyFunction]
            /\ UNCHANGED <<holder, scanned, doomed, used, listing, todo, cancelled>>
    /\ UNCHANGED <<clock, disk, hitVars, spent, late>>

\* A row appeared for a file being adopted: the unique index fails the whole
\* save, the service logs it and goes on without a reconcile.
MergeFails(m) == pc[m] = "merge" /\ ~Adoptable(m) /\ Abandon(m)

-----------------------------------------------------------------------------
(* The eviction sweep: age first, on originals only, then the least recently  *)
(* served rows of each layer that is over its budget.                        *)

StartEvict == pc[Sweeper] = "rest" /\ Acquire(Sweeper, "expire", Kinds) /\ UNCHANGED spent

\* mutant: retention is a matter of popularity
ExpiredUnread ==
    {k \in Rowed(Originals) : Larger(rows[k].created, rows[k].access) + OriginalsMaxAge < clock}

Expired == {k \in Rowed(Originals) : rows[k].created + OriginalsMaxAge < clock}

LoadExpired(m) ==
    /\ pc[m] = "expire"
    /\ IF Expired # {}
       THEN Load(m, Expired, Created, "expiring")
       ELSE pc' = [pc EXCEPT ![m] = "usage"] /\ UNCHANGED batch
    /\ UNCHANGED <<clock, fileVars, writer, hitVars, lockVars, left, doomed, used, listing, todo, cancelled, spent, histVars>>

ExpireVictim(m) == pc[m] = "expiring" /\ \E k \in Keys : DeleteVictim(m, k, Created)

SaveExpired(m) == pc[m] = "expiring" /\ Loaded(m) = {} /\ SaveDeletes(m, "expire")

Usage(kind) == SumFunctionOnSet([k \in Keys |-> SizeInRow(k)], Layer(kind))

MeasureUsage(m) ==
    /\ pc[m] = "usage"
    /\ used' = [used EXCEPT ![m] = [kind \in Kinds |-> Usage(kind)]]
    /\ pc' = [pc EXCEPT ![m] = "layer"]
    /\ UNCHANGED <<clock, fileVars, writer, hitVars, lockVars, left, batch, doomed, listing, todo, cancelled, spent, histVars>>

\* mutant: the sweep looks at the originals only
OverBudgetOriginals(m) == Kind(m) = "original" /\ used[m]["original"] > Budget["original"]

\* A layer at or under its budget is skipped; one that is over is swept down
\* to the low-water mark.
OverBudget(m) == used[m][Kind(m)] > Budget[Kind(m)]
Trimmed(m) == used[m][Kind(m)] <= LowWater[Kind(m)]

SkipLayer(m) ==
    /\ \/ pc[m] = "layer" /\ left[m] # {} /\ ~OverBudget(m)
       \/ pc[m] = "trim" /\ (Trimmed(m) \/ Rowed(Layer(Kind(m))) = {})
    /\ pc' = [pc EXCEPT ![m] = "layer"]
    /\ left' = [left EXCEPT ![m] = @ \ {Kind(m)}]
    /\ UNCHANGED <<clock, fileVars, writer, hitVars, lockVars, batch, doomed, used, listing, todo, cancelled, spent, histVars>>

LoadColdest(m) ==
    /\ \/ pc[m] = "layer" /\ left[m] # {} /\ OverBudget(m)
       \/ pc[m] = "trim"
    /\ ~Trimmed(m) /\ Rowed(Layer(Kind(m))) # {}
    /\ Load(m, Rowed(Layer(Kind(m))), Access, "evicting")
    /\ UNCHANGED <<clock, fileVars, writer, hitVars, lockVars, left, doomed, used, listing, todo, cancelled, spent, histVars>>

EvictVictim(m) ==
    /\ pc[m] = "evicting" /\ ~Trimmed(m)
    /\ \E k \in Keys : DeleteVictim(m, k, Access)

SaveEvicted(m) ==
    /\ pc[m] = "evicting" /\ (Trimmed(m) \/ Loaded(m) = {})
    /\ SaveDeletes(m, "trim")

EndEvict(m) ==
    /\ pc[m] = "layer" /\ left[m] = {}
    /\ Release(m)
    /\ UNCHANGED <<clock, fileVars, writer, hitVars, scanned, spent, histVars>>

-----------------------------------------------------------------------------
(* The owner's purge: every row with its file, in batches, then every file    *)
(* still there.  The request's token stops the row loop and any database call.*)

StartPurge(a, kinds) ==
    /\ pc[a] = "rest" /\ spent.purges < MaxPurges
    /\ Acquire(a, "purge", kinds)
    /\ spent' = [spent EXCEPT !.purges = @ + 1]

Disconnect(a) ==
    /\ MayDiscon /\ holder = a /\ ~cancelled[a]
    /\ cancelled' = [cancelled EXCEPT ![a] = TRUE]
    /\ UNCHANGED <<clock, fileVars, writer, hitVars, lockVars, pc, left, batch, doomed, used, listing, todo, spent, histVars>>

\* mutant: a purge trusts the table to know every file
OnlyRows(a) == {}

OnDisk(a) == Layer(Kind(a))

LoadPurge(a) ==
    /\ pc[a] = "purge"
    /\ IF cancelled[a] \/ Rowed(Layer(Kind(a))) = {}
       THEN /\ pc' = [pc EXCEPT ![a] = "clear"]
            /\ todo' = [todo EXCEPT ![a] = OnDisk(a)]
            /\ UNCHANGED batch
       ELSE Load(a, Rowed(Layer(Kind(a))), Access, "purging") /\ UNCHANGED todo
    /\ UNCHANGED <<clock, fileVars, writer, hitVars, lockVars, left, doomed, used, listing, cancelled, spent, histVars>>

PurgeVictim(a) == pc[a] = "purging" /\ \E k \in Keys : DeleteVictim(a, k, Access)

SavePurged(a) ==
    /\ pc[a] = "purging" /\ Loaded(a) = {}
    /\ SaveDeletes(a, "purge")

\* The database call that finds the token cancelled throws; one that was
\* already past its check does not.
PurgeCancelled(a) ==
    /\ cancelled[a] /\ (pc[a] = "purge" \/ (pc[a] = "purging" /\ Loaded(a) = {}))
    /\ Abandon(a)

\* Enumerate visits each path once, at a moment of its own, and the file found
\* there is deleted.
ClearPath(a, k) ==
    /\ pc[a] = "clear" /\ k \in todo[a]
    /\ todo' = [todo EXCEPT ![a] = @ \ {k}]
    /\ \E stuck \in {FALSE, MayStick} :
         /\ disk' = IF stuck THEN disk ELSE [disk EXCEPT ![k] = 0]
         /\ raced' = IF stuck \/ cancelled[a] THEN raced \cup {k} ELSE raced
         /\ late' = IF stuck THEN late \cup {k} ELSE late
    /\ UNCHANGED <<clock, rows, writer, hitVars, lockVars, pc, left, batch, doomed, used, listing, cancelled, spent>>

EndLayer(a) ==
    /\ pc[a] = "clear" /\ todo[a] = {}
    /\ IF left[a] = {Kind(a)}
       THEN Release(a)
       ELSE /\ pc' = [pc EXCEPT ![a] = "purge"]
            /\ left' = [left EXCEPT ![a] = @ \ {Kind(a)}]
            /\ UNCHANGED <<holder, batch, doomed, used, listing, todo, cancelled>>
    /\ UNCHANGED <<clock, fileVars, writer, hitVars, scanned, spent, histVars>>

-----------------------------------------------------------------------------
Init ==
    /\ clock = 1
    /\ disk = [k \in Keys |-> 0]
    /\ rows = [k \in Keys |-> NoRow]
    /\ writer = [w \in Writers |-> IdleWriter]
    /\ buffer = [k \in Keys |-> 0] /\ drained = [k \in Keys |-> 0]
    /\ holder = Nobody /\ scanned = FALSE
    /\ pc = [m \in Maintainers |-> IF m = Sweeper THEN "boot" ELSE "rest"]
    /\ left = [m \in Maintainers |-> {}]
    /\ batch = [m \in Maintainers |-> EmptyFunction]
    /\ doomed = [m \in Maintainers |-> {}]
    /\ used = [m \in Maintainers |-> [kind \in Kinds |-> 0]]
    /\ listing = [m \in Maintainers |-> EmptyFunction]
    /\ todo = [m \in Maintainers |-> {}]
    /\ cancelled = [m \in Maintainers |-> FALSE]
    /\ spent = [writes |-> 0, purges |-> 0, kills |-> 0]
    /\ late = {} /\ raced = {}

\* A kill and a new process: files and rows survive, unless an operator or the
\* volume loses files in between.
Restart(kept) ==
    /\ spent.kills < MaxKills
    /\ spent' = [spent EXCEPT !.kills = @ + 1]
    /\ disk' = [k \in Keys |-> IF k \in kept THEN disk[k] ELSE 0]
    /\ writer' = [w \in Writers |-> IdleWriter]
    /\ buffer' = [k \in Keys |-> 0] /\ drained' = [k \in Keys |-> 0]
    /\ holder' = Nobody /\ scanned' = FALSE
    /\ pc' = [m \in Maintainers |-> IF m = Sweeper THEN "boot" ELSE "rest"]
    /\ left' = [m \in Maintainers |-> {}]
    /\ batch' = [m \in Maintainers |-> EmptyFunction]
    /\ doomed' = [m \in Maintainers |-> {}]
    /\ used' = [m \in Maintainers |-> [kind \in Kinds |-> 0]]
    /\ listing' = [m \in Maintainers |-> EmptyFunction]
    /\ todo' = [m \in Maintainers |-> {}]
    /\ cancelled' = [m \in Maintainers |-> FALSE]
    /\ late' = {} /\ raced' = Keys
    /\ UNCHANGED <<clock, rows>>

Tick ==
    /\ clock < MaxClock
    /\ clock' = clock + 1
    /\ UNCHANGED <<fileVars, writer, hitVars, lockVars, jobVars, spent, histVars>>

Register(w) == RegisterLoad(w) \/ RegisterInsert(w) \/ RegisterUpdate(w) \/ RegisterConflict(w) \/ AnswerError(w)

Reconcile(m) == ListFiles(m) \/ MatchRows(m) \/ MergeRows(m) \/ MergeFails(m)

Evict(m) ==
    \/ LoadExpired(m) \/ ExpireVictim(m) \/ SaveExpired(m) \/ MeasureUsage(m)
    \/ SkipLayer(m) \/ LoadColdest(m) \/ EvictVictim(m) \/ SaveEvicted(m) \/ EndEvict(m)

Purge(a) ==
    \/ LoadPurge(a) \/ PurgeVictim(a) \/ SavePurged(a) \/ PurgeCancelled(a)
    \/ (\E k \in Keys : ClearPath(a, k)) \/ EndLayer(a)

Sweep == StartReconcile \/ Reconcile(Sweeper) \/ StartEvict \/ Evict(Sweeper)

Next ==
    \/ \E w \in Writers : Register(w) \/ \E k \in Keys : \E s \in SizesOf[k] : WriteFile(w, k, s)
    \/ \E k \in ReadKeys : TryRead(k)
    \/ Drain \/ FlushHits
    \/ Sweep
    \/ \E a \in Admins : Purge(a) \/ Disconnect(a) \/ \E kinds \in {{"render"}, Kinds} : StartPurge(a, kinds)
    \/ \E kept \in SUBSET Keys : Restart(kept)
    \/ Tick

Spec == Init /\ [][Next]_vars
-----------------------------------------------------------------------------
(* Properties.                                                               *)

WriterState == [pc : {"idle", "landed", "loaded", "failed"}, key : Keys \cup {NoRow}, size : Nat,
                now : Nat, seen : Row \cup {NoRow}, live : BOOLEAN]

Places == {"boot", "rest", "list", "match", "merge", "expire", "expiring", "usage", "layer",
           "trim", "evicting", "purge", "purging", "clear"}

DataTypeOK ==
    /\ clock \in Nat
    /\ disk \in [Keys -> Nat]
    /\ rows \in [Keys -> Row \cup {NoRow}]
    /\ writer \in [Writers -> WriterState]
    /\ \A w \in Writers : writer[w].pc # "idle" => writer[w].key \in Keys
    /\ buffer \in [Keys -> Nat] /\ drained \in [Keys -> Nat]
    /\ holder \in Maintainers \cup {Nobody} /\ scanned \in BOOLEAN
    /\ spent \in [writes : Nat, purges : Nat, kills : Nat]
    /\ late \in SUBSET Keys /\ raced \in SUBSET Keys

JobTypeOK ==
    /\ pc \in [Maintainers -> Places]
    /\ left \in [Maintainers -> SUBSET Kinds]
    /\ doomed \in [Maintainers -> SUBSET Keys]
    /\ todo \in [Maintainers -> SUBSET Keys]
    /\ cancelled \in [Maintainers -> BOOLEAN]
    /\ DOMAIN used = Maintainers /\ DOMAIN batch = Maintainers /\ DOMAIN listing = Maintainers
    /\ \A m \in Maintainers :
         /\ DOMAIN used[m] = Kinds
         /\ Loaded(m) \subseteq Keys /\ batch[m] \in [Loaded(m) -> Row]
         /\ Listed(m) \subseteq Keys /\ listing[m] \in [Listed(m) -> Nat]

\* The types of the state; the byte counts are left to TLC, a sum being out of
\* reach of a proof.
TypeOK == DataTypeOK /\ JobTypeOK

\* Every row a reconcile, a sweep or a purge has loaded or is about to delete is
\* still in the table: no SaveChanges of theirs throws and leaves the pass half
\* done, whoever else asked for the cache meanwhile (CacheIndex._maintenance).
SavesNeverConflict ==
    \A m \in Maintainers : doomed[m] \cup Loaded(m) \subseteq Rowed(Keys)

\* Files and rows are kept in step: a key's row has the size of its file, and
\* neither is there without the other, except while a write or a deletion of
\* that key is under way and for the keys in raced.  A key is in raced when a
\* write of it overlapped a maintenance pass, its file could not be deleted, a
\* cancelled purge took its file, or the process was killed and no reconcile has
\* put the key right since.
InStep ==
    \A k \in Keys \ (raced \cup InFlight) :
        (\A m \in Maintainers : k \notin doomed[m]) => disk[k] = SizeInRow(k)

\* Cleared means cleared: when a purge is done with a layer, nothing is left of
\* it - no row, and no file it has not still to visit - but what a request wrote
\* while the purge ran and what the file system would not delete.
PurgeLeavesNothing ==
    \A a \in Admins : pc[a] = "clear" /\ ~cancelled[a] =>
        /\ Rowed(Layer(Kind(a))) \subseteq late
        /\ Files(Layer(Kind(a))) \subseteq late \cup todo[a]

\* Recency picks the victim, by the access times loaded with the batch: whatever
\* is flushed, evicted or registered while a batch is walked, no entry left in the
\* layer has by then a last access older than the victim had when its batch was
\* loaded.  A hit of the victim flushed after that load is not seen, see
\* ServedIsSpared; entries being written are not compared.
EvictsColdest ==
    [][\A m \in Maintainers : \A k \in doomed'[m] \ doomed[m] : pc[m] = "evicting" =>
          \A j \in Rowed(Layer(Kind(m))) \ (doomed[m] \cup late) :
              rows[j].access >= batch[m][k].access]_vars

\* The sweeper and the flush run on timers for as long as the process does, a
\* purge and a request run to their end; only traffic and time need not go on.
FairSpec ==
    /\ Spec
    /\ WF_vars(Sweep) /\ WF_vars(Drain) /\ WF_vars(FlushHits)
    /\ \A a \in Admins : WF_vars(Purge(a))
    /\ \A w \in Writers : WF_vars(Register(w))

\* Once traffic stops, what the rows of a layer account for is within its budget
\* for good, whatever hits, races and kills went before; and so is what is on the
\* disk for them, the races that InStep names apart (CacheEvictionService).
Accounted(kind) ==
    SumFunctionOnSet([k \in Keys |-> IF rows[k] = NoRow \/ k \in raced THEN 0 ELSE disk[k]], Layer(kind))
BudgetKept == <>[](\A kind \in Kinds : Usage(kind) <= Budget[kind] /\ Accounted(kind) <= Budget[kind])

\* A row of an original past its retention does not stay.
Stale(k) == rows[k] # NoRow /\ rows[k].created + OriginalsMaxAge < clock
ExpiredRowsGo == \A k \in Originals : Stale(k) ~> ~Stale(k)

\* What the comments of the code promise and a race breaks, see the README.

\* CacheIndex._maintenance: writes touch one row each and need no lock, so a
\* write never fails because of a maintenance pass.
WritesSucceed == \A w \in Writers : writer[w].pc # "failed"

\* EvictAsync: an entry requested this morning is worth more than one that was not.
\* A victim has not been served since an entry that is left, by the rows as they
\* are when it goes and not as they were when its batch was loaded.
ServedIsSpared ==
    [][\A m \in Maintainers : \A k \in (doomed'[m] \ doomed[m]) \ late : pc[m] = "evicting" =>
          \A j \in Rowed(Layer(Kind(m))) \ (doomed[m] \cup late) :
              rows[j].access >= rows[k].access]_vars

\* CacheSettings.OriginalsMaxAge: an original is dropped when it is that old.  A
\* file on disk without a row still within its retention does not stay.
WithinRetention(k) == rows[k] # NoRow /\ rows[k].created + OriginalsMaxAge >= clock
RetentionHonoured ==
    \A k \in Originals : (disk[k] # 0 /\ ~WithinRetention(k)) ~> (disk[k] = 0 \/ WithinRetention(k))
=============================================================================
