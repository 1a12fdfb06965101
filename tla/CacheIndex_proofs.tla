-------------------------- MODULE CacheIndex_proofs --------------------------
(***************************************************************************)
(* Proofs about CacheIndex, for every set of keys, flights and maintainers  *)
(* and every bound: one holder of each lock, a row for every write, files   *)
(* and rows in step, a purge that leaves nothing, a sweep that takes the     *)
(* coldest.                                                                 *)
(***************************************************************************)
EXTENDS CacheIndex, TLAPS

(* The inductive invariant.  TypeOK is not inductive alone: that an UPDATE    *)
(* finds a row rests on Tracked, that a reconcile rewrites one on             *)
(* SavesNeverConflict, and that one on there being a single holder.           *)

\* A flight that believes its loaded row is there is right.
Tracked == \A w \in Writers : writer[w].live => writer[w].key \in Rowed(Keys)

\* Only the holder of the semaphore has work in hand, and a reconcile has no
\* deletions pending.
OneHolder ==
    \A m \in Maintainers :
        /\ m # holder => /\ pc[m] \in {"boot", "rest"}
                         /\ doomed[m] = {} /\ Loaded(m) = {} /\ Listed(m) = {} /\ todo[m] = {}
        /\ pc[m] \in {"list", "match", "merge"} => doomed[m] = {}

IInv == TypeOK /\ Tracked /\ OneHolder /\ SavesNeverConflict

LEMMA EmptyRows == \A S : EmptyFunction \in [{} -> S] /\ DOMAIN EmptyFunction = {}
  BY DEF EmptyFunction

LEMMA TypeInit == Init => TypeOK
<1> SUFFICES ASSUME Init PROVE TypeOK
  OBVIOUS
<1>1. \A m \in Maintainers : Loaded(m) = {} /\ Listed(m) = {} /\ batch[m] = EmptyFunction /\ listing[m] = EmptyFunction
  BY EmptyRows DEF Init, Loaded, Listed
<1>2. \A m \in Maintainers : batch[m] \in [Loaded(m) -> Row] /\ listing[m] \in [Listed(m) -> Nat]
  BY <1>1, EmptyRows
<1>3. writer \in [Writers -> WriterState]
  BY DEF Init, IdleWriter, WriterState
<1>4. \A m \in Maintainers : DOMAIN used[m] = Kinds
  BY DEF Init
<1>5. QED
  BY <1>1, <1>2, <1>3, <1>4 DEF Init, TypeOK, DataTypeOK, JobTypeOK, IdleWriter, Places

\* What only steps outside maintenance leave alone.
LEMMA JobsUntouched == JobTypeOK /\ UNCHANGED jobVars => JobTypeOK'
  BY DEF JobTypeOK, jobVars, Loaded, Listed

\* A step outside maintenance that drops no row.
LEMMA Outside ==
  ASSUME IInv, UNCHANGED <<jobVars, holder>>,
         \A k \in Keys : rows[k] # NoRow => rows'[k] # NoRow
  PROVE  JobTypeOK' /\ OneHolder' /\ SavesNeverConflict'
  BY JobsUntouched DEF IInv, TypeOK, OneHolder, SavesNeverConflict, Rowed, jobVars, Loaded, Listed

LEMMA IdleType == IdleWriter \in WriterState /\ IdleWriter.pc = "idle" /\ IdleWriter.live = FALSE
  BY DEF IdleWriter, WriterState

-----------------------------------------------------------------------------
(* Requests and hits.                                                        *)

LEMMA WriteFileInv ==
  ASSUME IInv, NEW w \in Writers, NEW k \in Keys, NEW s \in SizesOf[k], WriteFile(w, k, s)
  PROVE  IInv'
<1>1. Flight(k, s) \in WriterState /\ s \in Nat
  BY SizesAssumption DEF Flight, IdleWriter, WriterState
<1>2. Flight(k, s).key = k /\ Flight(k, s).live = FALSE
  BY DEF Flight, IdleWriter
<1>3. spent' \in [writes : Nat, purges : Nat, kills : Nat]
  BY DEF WriteFile, IInv, TypeOK, DataTypeOK
<1>4. writer' \in [Writers -> WriterState] /\ \A v \in Writers : writer'[v].pc # "idle" => writer'[v].key \in Keys
  BY <1>1, <1>2 DEF WriteFile, IInv, TypeOK, DataTypeOK
<1>5. JobTypeOK' /\ OneHolder' /\ SavesNeverConflict'
  BY Outside DEF WriteFile, lockVars
<1>6. DataTypeOK'
  BY <1>1, <1>3, <1>4 DEF IInv, TypeOK, DataTypeOK, WriteFile, hitVars, lockVars
<1>7. Tracked'
  BY <1>1, <1>2 DEF Tracked, IInv, TypeOK, DataTypeOK, WriteFile, Rowed
<1>8. QED
  BY <1>5, <1>6, <1>7 DEF IInv, TypeOK

LEMMA RegisterLoadInv ==
  ASSUME IInv, NEW w \in Writers, RegisterLoad(w)
  PROVE  IInv'
<1> DEFINE new == [writer[w] EXCEPT !.pc = "loaded", !.now = clock, !.seen = rows[writer[w].key],
                                    !.live = rows[writer[w].key] # NoRow]
<1>1. writer[w] \in WriterState /\ writer[w].key \in Keys
  BY DEF RegisterLoad, IInv, TypeOK, DataTypeOK
<1>2. new \in WriterState /\ new.key = writer[w].key /\ new.live = (rows[writer[w].key] # NoRow)
  BY <1>1 DEF WriterState, IInv, TypeOK, DataTypeOK
<1>3. writer' = [writer EXCEPT ![w] = new]
  BY <1>1 DEF RegisterLoad, IInv, TypeOK, DataTypeOK, WriterState
<1>4. JobTypeOK' /\ OneHolder' /\ SavesNeverConflict'
  BY Outside DEF RegisterLoad, lockVars, fileVars
<1>5. DataTypeOK'
  BY <1>1, <1>2, <1>3 DEF RegisterLoad, IInv, TypeOK, DataTypeOK, fileVars, hitVars, lockVars, histVars
<1>6. Tracked'
  <2> SUFFICES ASSUME NEW v \in Writers, writer'[v].live PROVE rows[writer'[v].key] # NoRow /\ writer'[v].key \in Keys
    BY DEF Tracked, Rowed, RegisterLoad, fileVars
  <2>1. CASE v = w
    BY <2>1, <1>1, <1>2, <1>3 DEF IInv, TypeOK, DataTypeOK
  <2>2. CASE v # w
    BY <2>2, <1>3 DEF IInv, TypeOK, DataTypeOK, Tracked, Rowed
  <2>3. QED
    BY <2>1, <2>2
<1>7. QED
  BY <1>4, <1>5, <1>6 DEF IInv, TypeOK

LEMMA RegisterInsertInv ==
  ASSUME IInv, NEW w \in Writers, RegisterInsert(w)
  PROVE  IInv'
<1>1. writer[w] \in WriterState /\ writer[w].key \in Keys
  BY DEF RegisterInsert, IInv, TypeOK, DataTypeOK
<1>2. [size |-> writer[w].size, access |-> writer[w].now, created |-> clock] \in Row
  BY <1>1 DEF WriterState, Row, IInv, TypeOK, DataTypeOK
<1>3. /\ rows' \in [Keys -> Row \cup {NoRow}]
      /\ \A k \in Keys : rows[k] # NoRow => rows'[k] # NoRow
  BY <1>1, <1>2, RowAssumption DEF RegisterInsert, IInv, TypeOK, DataTypeOK
<1>4. JobTypeOK' /\ OneHolder' /\ SavesNeverConflict'
  BY <1>3, Outside DEF RegisterInsert, lockVars
<1>5. DataTypeOK'
  BY <1>3, IdleType DEF RegisterInsert, IInv, TypeOK, DataTypeOK, hitVars, lockVars, histVars
<1>6. Tracked'
  BY <1>3, IdleType DEF RegisterInsert, IInv, TypeOK, DataTypeOK, Tracked, Rowed
<1>7. QED
  BY <1>4, <1>5, <1>6 DEF IInv, TypeOK

LEMMA RegisterUpdateInv ==
  ASSUME IInv, NEW w \in Writers, RegisterUpdate(w)
  PROVE  IInv'
<1> DEFINE k == writer[w].key
           old == writer[w].seen
           new == [rows[k] EXCEPT !.size = Column(@, old.size, writer[w].size),
                                  !.access = Column(@, old.access, writer[w].now)]
<1>1. writer[w] \in WriterState /\ k \in Keys /\ old \in Row
  BY DEF RegisterUpdate, IInv, TypeOK, DataTypeOK, WriterState
<1>2. rows' = [rows EXCEPT ![k] = new]
  BY DEF RegisterUpdate
<1>3. rows[k] \in Row
  BY <1>1 DEF RegisterUpdate, IInv, Tracked, Rowed, TypeOK, DataTypeOK
<1>4. new \in Row
  BY <1>1, <1>3 DEF Column, WriterState, Row
<1>5. /\ rows' \in [Keys -> Row \cup {NoRow}]
      /\ \A j \in Keys : rows[j] # NoRow => rows'[j] # NoRow
  BY <1>1, <1>2, <1>4, RowAssumption DEF IInv, TypeOK, DataTypeOK
<1>6. JobTypeOK' /\ OneHolder' /\ SavesNeverConflict'
  BY <1>5, Outside DEF RegisterUpdate, lockVars
<1>7. DataTypeOK'
  BY <1>5, IdleType DEF RegisterUpdate, IInv, TypeOK, DataTypeOK, hitVars, lockVars, histVars
<1>8. Tracked'
  BY <1>5, IdleType DEF RegisterUpdate, IInv, TypeOK, DataTypeOK, Tracked, Rowed
<1>9. QED
  BY <1>6, <1>7, <1>8 DEF IInv, TypeOK

LEMMA RegisterEndInv ==
  ASSUME IInv, NEW w \in Writers, RegisterConflict(w) \/ AnswerError(w)
  PROVE  IInv'
<1>1. JobTypeOK' /\ OneHolder' /\ SavesNeverConflict'
  BY Outside DEF RegisterConflict, AnswerError, lockVars, fileVars
<1>2. DataTypeOK'
  BY IdleType DEF RegisterConflict, AnswerError, WriterState, IInv, TypeOK, DataTypeOK, fileVars, hitVars, lockVars, histVars
<1>3. Tracked'
  BY IdleType DEF RegisterConflict, AnswerError, WriterState, IInv, TypeOK, DataTypeOK, Tracked, Rowed, fileVars
<1>4. QED
  BY <1>1, <1>2, <1>3 DEF IInv, TypeOK

LEMMA HitsInv ==
  ASSUME IInv, (\E k \in ReadKeys : TryRead(k)) \/ Drain \/ FlushHits \/ Tick
  PROVE  IInv'
<1>1. ASSUME NEW k \in ReadKeys, TryRead(k) PROVE IInv'
  BY <1>1, Outside, BoundsAssumption DEF TryRead, IInv, TypeOK, DataTypeOK, Tracked, Rowed, fileVars, lockVars, histVars
<1>2. CASE Drain
  BY <1>2, Outside DEF Drain, IInv, TypeOK, DataTypeOK, Tracked, Rowed, fileVars, lockVars, histVars
<1>3. CASE FlushHits
  <2>1. ASSUME NEW k \in Keys, rows[k] # NoRow PROVE [rows[k] EXCEPT !.access = Larger(@, drained[k])] \in Row
    BY <2>1 DEF Larger, Row, IInv, TypeOK, DataTypeOK
  <2>2. /\ rows' \in [Keys -> Row \cup {NoRow}]
        /\ \A k \in Keys : rows[k] # NoRow => rows'[k] # NoRow
    BY <1>3, <2>1, RowAssumption DEF FlushHits
  <2>3. QED
    BY <1>3, <2>2, Outside DEF FlushHits, IInv, TypeOK, DataTypeOK, Tracked, Rowed, lockVars, histVars
<1>4. CASE Tick
  BY <1>4, Outside DEF Tick, IInv, TypeOK, DataTypeOK, Tracked, Rowed, fileVars, hitVars, lockVars, histVars
<1>5. QED
  BY <1>1, <1>2, <1>3, <1>4

-----------------------------------------------------------------------------
(* Maintenance.                                                              *)

\* Whoever is at work holds the semaphore.
LEMMA HolderActs ==
  ASSUME IInv, NEW m \in Maintainers, pc[m] \notin {"boot", "rest"}
  PROVE  holder = m
  BY DEF IInv, OneHolder

JobOf(m) == <<pc[m], left[m], batch[m], doomed[m], used[m], listing[m], todo[m], cancelled[m]>>

\* The holder moves on: what it has in hand is well typed and still in the table,
\* nobody else's work changed, and no row was dropped.
LEMMA HolderStep ==
  ASSUME IInv, NEW m \in Maintainers, holder' = m,
         \A n \in Maintainers \ {m} : n # holder /\ UNCHANGED JobOf(n),
         DOMAIN pc' = Maintainers, DOMAIN left' = Maintainers, DOMAIN doomed' = Maintainers,
         DOMAIN todo' = Maintainers, DOMAIN cancelled' = Maintainers, DOMAIN used' = Maintainers,
         DOMAIN batch' = Maintainers, DOMAIN listing' = Maintainers,
         pc' \in [Maintainers -> Places], left' \in [Maintainers -> SUBSET Kinds],
         doomed' \in [Maintainers -> SUBSET Keys], todo' \in [Maintainers -> SUBSET Keys],
         cancelled' \in [Maintainers -> BOOLEAN],
         DOMAIN used'[m] = Kinds,
         Loaded(m)' \subseteq Keys, batch'[m] \in [Loaded(m)' -> Row],
         Listed(m)' \subseteq Keys, listing'[m] \in [Listed(m)' -> Nat],
         doomed'[m] \cup Loaded(m)' \subseteq Rowed(Keys)',
         pc'[m] \in {"list", "match", "merge"} => doomed'[m] = {}
  PROVE  JobTypeOK' /\ OneHolder' /\ SavesNeverConflict'
<1>1. \A n \in Maintainers \ {m} : /\ pc'[n] \in {"boot", "rest"}
                                    /\ doomed'[n] = {} /\ Loaded(n)' = {} /\ Listed(n)' = {} /\ todo'[n] = {}
  BY DEF IInv, OneHolder, JobOf, Loaded, Listed
<1>2. \A n \in Maintainers \ {m} : DOMAIN used'[n] = Kinds /\ batch'[n] \in [Loaded(n)' -> Row] /\ listing'[n] \in [Listed(n)' -> Nat]
  BY DEF IInv, TypeOK, JobTypeOK, JobOf, Loaded, Listed
<1>3. JobTypeOK'
  BY <1>1, <1>2 DEF JobTypeOK
<1>4. OneHolder' /\ SavesNeverConflict'
  BY <1>1 DEF OneHolder, SavesNeverConflict
<1>5. QED
  BY <1>3, <1>4

\* The holder lets go.
LEMMA ReleaseStep ==
  ASSUME IInv, NEW m \in Maintainers, holder = m, Release(m)
  PROVE  JobTypeOK' /\ OneHolder' /\ SavesNeverConflict'
<1>1. \A n \in Maintainers : Loaded(n)' = {} /\ Listed(n)' = {} /\ doomed'[n] = {} /\ todo'[n] = {}
  BY EmptyRows DEF Release, IInv, TypeOK, JobTypeOK, OneHolder, Loaded, Listed
<1>2. \A n \in Maintainers : batch'[n] \in [Loaded(n)' -> Row] /\ listing'[n] \in [Listed(n)' -> Nat]
  BY <1>1, EmptyRows DEF Release, IInv, TypeOK, JobTypeOK, OneHolder, Loaded, Listed
<1>3. \A n \in Maintainers : pc'[n] \in {"boot", "rest"}
  BY DEF Release, IInv, TypeOK, JobTypeOK, OneHolder
<1>4. JobTypeOK'
  BY <1>1, <1>2, <1>3 DEF Release, IInv, TypeOK, JobTypeOK, Places
<1>5. QED
  BY <1>1, <1>3, <1>4 DEF OneHolder, SavesNeverConflict

LEMMA AbandonInv ==
  ASSUME IInv, NEW m \in Maintainers, holder = m, Abandon(m)
  PROVE  IInv'
<1>1. JobTypeOK' /\ OneHolder' /\ SavesNeverConflict'
  BY ReleaseStep DEF Abandon
<1>2. DataTypeOK' /\ Tracked'
  BY DEF Abandon, Release, IInv, TypeOK, DataTypeOK, JobTypeOK, Tracked, Rowed, fileVars, hitVars
<1>3. QED
  BY <1>1, <1>2 DEF IInv, TypeOK

LEMMA AcquireInv ==
  ASSUME IInv, NEW m \in Maintainers, NEW layers \in SUBSET Kinds, NEW start \in Places,
         Acquire(m, start, layers), spent' \in [writes : Nat, purges : Nat, kills : Nat]
  PROVE  IInv'
<1>1. \A n \in Maintainers : n # holder
  BY ActorsAssumption DEF Acquire, LockFree
<1>2. JobTypeOK' /\ OneHolder' /\ SavesNeverConflict'
  BY <1>1 DEF Acquire, IInv, TypeOK, JobTypeOK, OneHolder, SavesNeverConflict, Loaded, Listed, Rowed, fileVars
<1>3. DataTypeOK' /\ Tracked'
  BY DEF Acquire, InFlight, IInv, TypeOK, DataTypeOK, Tracked, Rowed, fileVars, hitVars
<1>4. QED
  BY <1>2, <1>3 DEF IInv, TypeOK

\* The layer at hand is one of the two.
LEMMA KindType == \A m : Layer(Kind(m)) \subseteq Keys
  BY DEF Layer, Kind, Keys

LEMMA MeasureUsageInv ==
  ASSUME IInv, NEW m \in Maintainers, MeasureUsage(m)
  PROVE  IInv'
<1>1. holder = m
  BY HolderActs DEF MeasureUsage
<1>2. JobTypeOK' /\ OneHolder' /\ SavesNeverConflict'
  BY <1>1, HolderStep DEF MeasureUsage, Places, JobOf, IInv, TypeOK, DataTypeOK, JobTypeOK, SavesNeverConflict, Loaded, Listed, Rowed, fileVars, lockVars
<1>3. DataTypeOK' /\ Tracked'
  BY DEF MeasureUsage, IInv, TypeOK, DataTypeOK, JobTypeOK, Tracked, Rowed, fileVars, hitVars, lockVars, histVars
<1>4. QED
  BY <1>2, <1>3 DEF IInv, TypeOK

LEMMA SkipLayerInv ==
  ASSUME IInv, NEW m \in Maintainers, SkipLayer(m)
  PROVE  IInv'
<1>1. holder = m
  BY HolderActs DEF SkipLayer
<1>2. JobTypeOK' /\ OneHolder' /\ SavesNeverConflict'
  BY <1>1, HolderStep DEF SkipLayer, Places, JobOf, IInv, TypeOK, DataTypeOK, JobTypeOK, SavesNeverConflict, Loaded, Listed, Rowed, fileVars, lockVars
<1>3. DataTypeOK' /\ Tracked'
  BY DEF SkipLayer, IInv, TypeOK, DataTypeOK, JobTypeOK, Tracked, Rowed, fileVars, hitVars, lockVars, histVars
<1>4. QED
  BY <1>2, <1>3 DEF IInv, TypeOK

LEMMA ListFilesInv ==
  ASSUME IInv, NEW m \in Maintainers, ListFiles(m)
  PROVE  IInv'
<1>1. holder = m
  BY HolderActs DEF ListFiles
<1>2. JobTypeOK' /\ OneHolder' /\ SavesNeverConflict'
  BY <1>1, HolderStep DEF ListFiles, OneHolder, Places, JobOf, IInv, TypeOK, DataTypeOK, JobTypeOK, SavesNeverConflict, Loaded, Listed, Rowed, fileVars, lockVars, Files, Layer, Kind, Keys
<1>3. DataTypeOK' /\ Tracked'
  BY DEF ListFiles, IInv, TypeOK, DataTypeOK, JobTypeOK, Tracked, Rowed, fileVars, hitVars, lockVars, histVars
<1>4. QED
  BY <1>2, <1>3 DEF IInv, TypeOK

LEMMA MatchRowsInv ==
  ASSUME IInv, NEW m \in Maintainers, MatchRows(m)
  PROVE  IInv'
<1>1. holder = m
  BY HolderActs DEF MatchRows
<1>2. JobTypeOK' /\ OneHolder' /\ SavesNeverConflict'
  BY <1>1, HolderStep DEF MatchRows, OneHolder, Places, JobOf, IInv, TypeOK, DataTypeOK, JobTypeOK, SavesNeverConflict, Loaded, Listed, Rowed, fileVars, lockVars, Layer, Kind, Keys
<1>3. DataTypeOK' /\ Tracked'
  BY DEF MatchRows, IInv, TypeOK, DataTypeOK, JobTypeOK, Tracked, Rowed, fileVars, hitVars, lockVars, histVars
<1>4. QED
  BY <1>2, <1>3 DEF IInv, TypeOK

LEMMA DisconnectInv ==
  ASSUME IInv, NEW m \in Maintainers, m \in Admins, Disconnect(m)
  PROVE  IInv'
<1>1. holder = m
  BY HolderActs DEF Disconnect
<1>2. JobTypeOK' /\ OneHolder' /\ SavesNeverConflict'
  BY <1>1, HolderStep DEF Disconnect, OneHolder, Places, JobOf, IInv, TypeOK, DataTypeOK, JobTypeOK, SavesNeverConflict, Loaded, Listed, Rowed, fileVars, lockVars
<1>3. DataTypeOK' /\ Tracked'
  BY DEF Disconnect, IInv, TypeOK, DataTypeOK, JobTypeOK, Tracked, Rowed, fileVars, hitVars, lockVars, histVars
<1>4. QED
  BY <1>2, <1>3 DEF IInv, TypeOK

\* A batch of rows is loaded, or there is none to load.
LEMMA BatchLoaded ==
  ASSUME IInv, NEW m \in Maintainers, holder = m, NEW B \in SUBSET Rowed(Keys),
         batch' = [batch EXCEPT ![m] = [k \in B |-> rows[k]]] \/ UNCHANGED batch,
         NEW place \in Places \ {"list", "match", "merge"}, pc' = [pc EXCEPT ![m] = place],
         NEW T \in SUBSET Keys, todo' = [todo EXCEPT ![m] = T] \/ UNCHANGED todo,
         UNCHANGED <<clock, fileVars, writer, hitVars, lockVars, left, doomed, used, listing, cancelled, spent, histVars>>
  PROVE  IInv'
<1>1. /\ Loaded(m)' \subseteq Rowed(Keys)
      /\ Loaded(m)' \subseteq Keys
      /\ batch'[m] \in [Loaded(m)' -> Row]
  BY DEF IInv, TypeOK, DataTypeOK, JobTypeOK, SavesNeverConflict, Loaded, Rowed
<1>2. JobTypeOK' /\ OneHolder' /\ SavesNeverConflict'
  BY <1>1, HolderStep DEF JobOf, IInv, TypeOK, JobTypeOK, SavesNeverConflict, Loaded, Listed, Rowed, fileVars, lockVars
<1>3. DataTypeOK' /\ Tracked'
  BY DEF IInv, TypeOK, DataTypeOK, JobTypeOK, Tracked, Rowed, fileVars, hitVars, lockVars, histVars
<1>4. QED
  BY <1>2, <1>3 DEF IInv, TypeOK

LEMMA LoadExpiredInv ==
  ASSUME IInv, NEW m \in Maintainers, LoadExpired(m)
  PROVE  IInv'
<1>1. holder = m
  BY HolderActs DEF LoadExpired
<1>2. Expired \subseteq Rowed(Keys)
  BY DEF Expired, Rowed, Keys
<1>3. PICK B \in SUBSET Rowed(Keys) : batch' = [batch EXCEPT ![m] = [k \in B |-> rows[k]]] \/ UNCHANGED batch
  BY <1>2 DEF LoadExpired, Load
<1>4. PICK place \in Places \ {"list", "match", "merge"} : pc' = [pc EXCEPT ![m] = place]
  BY DEF LoadExpired, Load, Places
<1>5. QED
  BY <1>1, <1>3, <1>4, BatchLoaded DEF LoadExpired

LEMMA LoadColdestInv ==
  ASSUME IInv, NEW m \in Maintainers, LoadColdest(m)
  PROVE  IInv'
<1>1. holder = m
  BY HolderActs DEF LoadColdest
<1>2. Rowed(Layer(Kind(m))) \subseteq Rowed(Keys)
  BY KindType DEF Rowed
<1>3. PICK B \in SUBSET Rowed(Keys) : batch' = [batch EXCEPT ![m] = [k \in B |-> rows[k]]]
  BY <1>2 DEF LoadColdest, Load
<1>4. "evicting" \in Places /\ pc' = [pc EXCEPT ![m] = "evicting"]
  BY DEF LoadColdest, Load, Places
<1>5. QED
  BY <1>1, <1>3, <1>4, BatchLoaded DEF LoadColdest

LEMMA LoadPurgeInv ==
  ASSUME IInv, NEW m \in Maintainers, LoadPurge(m)
  PROVE  IInv'
<1>1. holder = m
  BY HolderActs DEF LoadPurge
<1>2. Rowed(Layer(Kind(m))) \subseteq Rowed(Keys) /\ OnDisk(m) \subseteq Keys
  BY KindType DEF Rowed, OnDisk
<1>3. PICK B \in SUBSET Rowed(Keys) : batch' = [batch EXCEPT ![m] = [k \in B |-> rows[k]]] \/ UNCHANGED batch
  BY <1>2 DEF LoadPurge, Load
<1>4. PICK place \in Places \ {"list", "match", "merge"} : pc' = [pc EXCEPT ![m] = place]
  BY DEF LoadPurge, Load, Places
<1>5. todo' = [todo EXCEPT ![m] = OnDisk(m)] \/ UNCHANGED todo
  BY DEF LoadPurge
<1>6. QED
  BY <1>1, <1>2, <1>3, <1>4, <1>5, BatchLoaded DEF LoadPurge

\* What every deletion of a victim does, in whatever order they are taken.
Victim(m, k) ==
    /\ k \in DOMAIN batch[m]
    /\ \E stuck \in {FALSE, MayStick} :
         /\ disk' = IF stuck THEN disk ELSE [disk EXCEPT ![k] = 0]
         /\ raced' = IF stuck THEN raced \cup {k} ELSE raced
         /\ late' = IF stuck THEN late \cup {k} ELSE late
    /\ doomed' = [doomed EXCEPT ![m] = @ \cup {k}]
    /\ used' = [used EXCEPT ![m][Kind(m)] = @ - batch[m][k].size]
    /\ batch' = [batch EXCEPT ![m] = [j \in DOMAIN @ \ {k} |-> @[j]]]
    /\ UNCHANGED <<clock, rows, writer, hitVars, lockVars, pc, left, listing, todo, cancelled, spent>>

LEMMA VictimInv ==
  ASSUME IInv, NEW m \in Maintainers, ExpireVictim(m) \/ EvictVictim(m) \/ PurgeVictim(m)
  PROVE  IInv'
<1>1. holder = m
  BY HolderActs DEF ExpireVictim, EvictVictim, PurgeVictim
<1>2. PICK k \in Keys : Victim(m, k)
  BY DEF ExpireVictim, EvictVictim, PurgeVictim, DeleteVictim, Victim
<1>3. /\ Loaded(m)' = Loaded(m) \ {k}
      /\ batch'[m] \in [Loaded(m)' -> Row]
      /\ k \in Rowed(Keys)
  BY <1>2 DEF Victim, IInv, TypeOK, JobTypeOK, SavesNeverConflict, Loaded
<1>4. DOMAIN used'[m] = Kinds /\ pc'[m] \notin {"list", "match", "merge"}
  BY <1>2 DEF Victim, IInv, TypeOK, JobTypeOK, ExpireVictim, EvictVictim, PurgeVictim
<1>5. JobTypeOK' /\ OneHolder' /\ SavesNeverConflict'
  BY <1>1, <1>2, <1>3, <1>4, HolderStep DEF Victim, JobOf, IInv, TypeOK, JobTypeOK, SavesNeverConflict, Listed, Rowed, lockVars
<1>6. DataTypeOK' /\ Tracked'
  BY <1>2 DEF Victim, IInv, TypeOK, DataTypeOK, Tracked, Rowed, hitVars, lockVars
<1>7. QED
  BY <1>5, <1>6 DEF IInv, TypeOK

LEMMA SaveInv ==
  ASSUME IInv, NEW m \in Maintainers, SaveExpired(m) \/ SaveEvicted(m) \/ SavePurged(m)
  PROVE  IInv'
<1>1. holder = m
  BY HolderActs DEF SaveExpired, SaveEvicted, SavePurged
<1>2. PICK next \in Places : SaveDeletes(m, next)
  BY DEF SaveExpired, SaveEvicted, SavePurged, Places
<1>3. Deletable(m)
  BY DEF Deletable, IInv, SavesNeverConflict
<1>4. /\ rows' = [k \in Keys |-> IF k \in doomed[m] THEN NoRow ELSE rows[k]]
      /\ writer' = Forget(doomed[m])
      /\ doomed' = [doomed EXCEPT ![m] = {}]
      /\ batch' = [batch EXCEPT ![m] = EmptyFunction]
      /\ pc' = [pc EXCEPT ![m] = next]
      /\ UNCHANGED <<clock, disk, hitVars, lockVars, left, used, listing, todo, cancelled, spent, histVars>>
  BY <1>2, <1>3 DEF SaveDeletes
<1>5. /\ Loaded(m)' = {} /\ doomed'[m] = {}
      /\ batch'[m] \in [Loaded(m)' -> Row]
  BY <1>4, EmptyRows DEF IInv, TypeOK, JobTypeOK, Loaded
<1>6. JobTypeOK' /\ OneHolder' /\ SavesNeverConflict'
  BY <1>1, <1>4, <1>5, HolderStep DEF JobOf, IInv, TypeOK, JobTypeOK, Loaded, Listed, lockVars
<1>7. ASSUME NEW w \in Writers PROVE /\ writer'[w] \in WriterState
                                     /\ writer'[w].pc = writer[w].pc /\ writer'[w].key = writer[w].key
                                     /\ writer'[w].live => writer[w].live /\ writer[w].key \notin doomed[m]
  BY <1>4 DEF Forget, WriterState, IInv, TypeOK, DataTypeOK
<1>8. DataTypeOK'
  BY <1>4, <1>7 DEF Forget, IInv, TypeOK, DataTypeOK, hitVars, lockVars, histVars
<1>9. Tracked'
  BY <1>4, <1>7 DEF IInv, TypeOK, Tracked, Rowed
<1>10. QED
  BY <1>6, <1>8, <1>9 DEF IInv, TypeOK

LEMMA EndInv ==
  ASSUME IInv, NEW m \in Maintainers, EndEvict(m) \/ MergeFails(m) \/ (m \in Admins /\ PurgeCancelled(m))
  PROVE  IInv'
<1>1. holder = m
  BY HolderActs DEF EndEvict, MergeFails, PurgeCancelled
<1>2. CASE EndEvict(m)
  <2>1. JobTypeOK' /\ OneHolder' /\ SavesNeverConflict'
    BY <1>1, <1>2, ReleaseStep DEF EndEvict
  <2>2. DataTypeOK' /\ Tracked'
    BY <1>2 DEF EndEvict, Release, IInv, TypeOK, DataTypeOK, Tracked, Rowed, fileVars, hitVars, histVars
  <2>3. QED
    BY <2>1, <2>2 DEF IInv, TypeOK
<1>3. CASE MergeFails(m) \/ (m \in Admins /\ PurgeCancelled(m))
  BY <1>1, <1>3, AbandonInv DEF MergeFails, PurgeCancelled
<1>4. QED
  BY <1>2, <1>3

LEMMA MergeRowsInv ==
  ASSUME IInv, NEW m \in Maintainers, MergeRows(m)
  PROVE  IInv'
<1>1. holder = m
  BY HolderActs DEF MergeRows
<1>2. /\ Loaded(m) \subseteq Rowed(Keys) /\ Listed(m) \subseteq Keys
      /\ batch[m] \in [Loaded(m) -> Row] /\ listing[m] \in [Listed(m) -> Nat]
  BY DEF IInv, TypeOK, JobTypeOK, SavesNeverConflict
<1>3. ASSUME NEW k \in Keys
      PROVE  /\ Reconciled(m, k) \in Row \cup {NoRow}
             /\ rows[k] # NoRow /\ k \notin Loaded(m) \ Listed(m) => Reconciled(m, k) # NoRow
  <2>1. CASE k \in Loaded(m) \ Listed(m)
    BY <2>1 DEF Reconciled
  <2>2. CASE k \in Loaded(m) \cap Listed(m)
    <3>1. rows[k] \in Row /\ batch[m][k].size \in Nat /\ listing[m][k] \in Nat
      BY <1>2, <2>2 DEF IInv, TypeOK, DataTypeOK, Rowed, Row
    <3>2. [rows[k] EXCEPT !.size = Column(@, batch[m][k].size, listing[m][k])] \in Row
      BY <3>1 DEF Row, Column
    <3>3. Reconciled(m, k) \in Row
      BY <2>2, <3>2 DEF Reconciled
    <3>4. QED
      BY <2>2, <3>3, RowAssumption
  <2>3. CASE k \in Listed(m) \ Loaded(m)
    <3>1. [size |-> listing[m][k], access |-> clock, created |-> clock] \in Row
      BY <1>2, <2>3 DEF IInv, TypeOK, DataTypeOK, Row
    <3>2. QED
      BY <2>3, <3>1, RowAssumption DEF Reconciled
  <2>4. CASE k \notin Loaded(m) \cup Listed(m)
    BY <2>4 DEF Reconciled, IInv, TypeOK, DataTypeOK
  <2>5. QED
    BY <2>1, <2>2, <2>3, <2>4
<1>4. /\ rows' = [k \in Keys |-> Reconciled(m, k)]
      /\ writer' = Forget(Loaded(m) \ Listed(m))
      /\ raced' \subseteq raced /\ late' = late /\ clock' = clock /\ disk' = disk
      /\ buffer' = buffer /\ drained' = drained /\ spent' = spent
      /\ scanned' \in BOOLEAN /\ holder' \in Maintainers \cup {Nobody}
  BY <1>1 DEF MergeRows, Release, hitVars, IInv, TypeOK, DataTypeOK
<1>5. rows' \in [Keys -> Row \cup {NoRow}]
  BY <1>3, <1>4
<1>6. JobTypeOK' /\ OneHolder' /\ SavesNeverConflict'
  <2>1. CASE left[m] = {"render"}
    BY <1>1, <2>1, ReleaseStep DEF MergeRows
  <2>2. CASE left[m] # {"render"}
    <3>1. /\ pc' = [pc EXCEPT ![m] = "list"]
          /\ left' = [left EXCEPT ![m] = @ \ {Kind(m)}]
          /\ batch' = [batch EXCEPT ![m] = EmptyFunction]
          /\ UNCHANGED <<holder, scanned, doomed, used, listing, todo, cancelled>>
      BY <2>2 DEF MergeRows
    <3>2. Loaded(m)' = {} /\ batch'[m] \in [Loaded(m)' -> Row]
      BY <3>1, EmptyRows DEF IInv, TypeOK, JobTypeOK, Loaded
    <3>3. doomed[m] = {}
      BY DEF MergeRows, IInv, OneHolder
    <3>4. QED
      BY <1>1, <3>1, <3>2, <3>3, HolderStep DEF JobOf, IInv, TypeOK, JobTypeOK, Loaded, Listed, Places
  <2>3. QED
    BY <2>1, <2>2
<1>7. ASSUME NEW w \in Writers
      PROVE  /\ writer'[w] \in WriterState
             /\ writer'[w].pc = writer[w].pc /\ writer'[w].key = writer[w].key
             /\ writer'[w].live => writer[w].live /\ writer[w].key \notin Loaded(m) \ Listed(m)
  BY <1>4 DEF Forget, WriterState, IInv, TypeOK, DataTypeOK
<1>8. DataTypeOK'
  BY <1>4, <1>5, <1>7 DEF Forget, IInv, TypeOK, DataTypeOK
<1>9. Tracked'
  BY <1>3, <1>4, <1>7 DEF IInv, TypeOK, Tracked, Rowed
<1>10. QED
  BY <1>6, <1>8, <1>9 DEF IInv, TypeOK

LEMMA ClearInv ==
  ASSUME IInv, NEW m \in Admins, EndLayer(m) \/ \E k \in Keys : ClearPath(m, k)
  PROVE  IInv'
<1>1. m \in Maintainers
  BY DEF Maintainers
<1>2. holder = m
  BY <1>1, HolderActs DEF EndLayer, ClearPath
<1>3. ASSUME NEW k \in Keys, ClearPath(m, k) PROVE IInv'
  <2>1. JobTypeOK' /\ OneHolder' /\ SavesNeverConflict'
    BY <1>1, <1>2, <1>3, HolderStep DEF ClearPath, JobOf, IInv, TypeOK, JobTypeOK, SavesNeverConflict, Loaded, Listed, Rowed, lockVars
  <2>2. DataTypeOK' /\ Tracked'
    BY <1>3 DEF ClearPath, IInv, TypeOK, DataTypeOK, Tracked, Rowed, hitVars, lockVars
  <2>3. QED
    BY <2>1, <2>2 DEF IInv, TypeOK
<1>4. CASE EndLayer(m)
  <2>1. JobTypeOK' /\ OneHolder' /\ SavesNeverConflict'
    <3>1. CASE left[m] = {Kind(m)}
      BY <1>1, <1>2, <1>4, <3>1, ReleaseStep DEF EndLayer
    <3>2. CASE left[m] # {Kind(m)}
      BY <1>1, <1>2, <1>4, <3>2, HolderStep
      DEF EndLayer, OneHolder, JobOf, Places, IInv, TypeOK, JobTypeOK, SavesNeverConflict, Loaded, Listed, Rowed, fileVars
    <3>3. QED
      BY <3>1, <3>2
  <2>2. DataTypeOK' /\ Tracked'
    BY <1>2, <1>4 DEF EndLayer, Release, IInv, TypeOK, DataTypeOK, Tracked, Rowed, fileVars, hitVars, histVars
  <2>3. QED
    BY <2>1, <2>2 DEF IInv, TypeOK
<1>5. QED
  BY <1>3, <1>4

LEMMA RestartInv ==
  ASSUME IInv, NEW kept \in SUBSET Keys, Restart(kept)
  PROVE  IInv'
<1>1. \A m \in Maintainers : Loaded(m)' = {} /\ Listed(m)' = {} /\ doomed'[m] = {} /\ todo'[m] = {} /\ pc'[m] \in {"boot", "rest"}
  BY EmptyRows DEF Restart, Loaded, Listed
<1>2. \A m \in Maintainers : batch'[m] \in [Loaded(m)' -> Row] /\ listing'[m] \in [Listed(m)' -> Nat]
  BY <1>1, EmptyRows DEF Restart
<1>3. JobTypeOK'
  BY <1>1, <1>2 DEF Restart, JobTypeOK, Places
<1>4. OneHolder' /\ SavesNeverConflict'
  BY <1>1 DEF OneHolder, SavesNeverConflict
<1>5. spent' \in [writes : Nat, purges : Nat, kills : Nat]
  BY SMTT(30) DEF Restart, IInv, TypeOK, DataTypeOK
<1>6. DataTypeOK' /\ Tracked'
  BY <1>5, IdleType DEF Restart, IInv, TypeOK, DataTypeOK, Tracked
<1>7. QED
  BY <1>3, <1>4, <1>6 DEF IInv, TypeOK

-----------------------------------------------------------------------------
LEMMA InitInv == Init => IInv
<1> SUFFICES ASSUME Init PROVE IInv
  OBVIOUS
<1>1. \A m \in Maintainers : Loaded(m) = {} /\ Listed(m) = {} /\ doomed[m] = {} /\ todo[m] = {} /\ pc[m] \in {"boot", "rest"}
  BY EmptyRows DEF Init, Loaded, Listed
<1>2. OneHolder /\ SavesNeverConflict
  BY <1>1 DEF OneHolder, SavesNeverConflict
<1>3. Tracked
  BY IdleType DEF Init, Tracked
<1>4. QED
  BY <1>2, <1>3, TypeInit DEF IInv

LEMMA NextInv == IInv /\ [Next]_vars => IInv'
<1> SUFFICES ASSUME IInv, [Next]_vars PROVE IInv'
  OBVIOUS
<1> Sweeper \in Maintainers /\ Admins \subseteq Maintainers
  BY DEF Maintainers
<1>1. ASSUME NEW w \in Writers, Register(w) PROVE IInv'
  BY <1>1, RegisterLoadInv, RegisterInsertInv, RegisterUpdateInv, RegisterEndInv DEF Register
<1>2. ASSUME NEW w \in Writers, NEW k \in Keys, NEW s \in SizesOf[k], WriteFile(w, k, s) PROVE IInv'
  BY <1>2, WriteFileInv
<1>3. CASE (\E k \in ReadKeys : TryRead(k)) \/ Drain \/ FlushHits \/ Tick
  BY <1>3, HitsInv
<1>4. CASE Sweep
  <2>1. CASE StartReconcile \/ StartEvict
    <3>1. spent' \in [writes : Nat, purges : Nat, kills : Nat]
      BY <2>1 DEF StartReconcile, StartEvict, IInv, TypeOK, DataTypeOK
    <3>2. PICK start \in Places : Acquire(Sweeper, start, Kinds)
      BY <2>1 DEF StartReconcile, StartEvict, Places
    <3>3. QED
      BY <3>1, <3>2, AcquireInv
  <2>2. CASE Reconcile(Sweeper)
    BY <2>2, ListFilesInv, MatchRowsInv, MergeRowsInv, EndInv DEF Reconcile
  <2>3. CASE Evict(Sweeper)
    BY <2>3, LoadExpiredInv, VictimInv, SaveInv, MeasureUsageInv, SkipLayerInv, LoadColdestInv, EndInv DEF Evict
  <2>4. QED
    BY <1>4, <2>1, <2>2, <2>3 DEF Sweep
<1>5. ASSUME NEW a \in Admins, Purge(a) \/ Disconnect(a) PROVE IInv'
  BY <1>5, LoadPurgeInv, VictimInv, SaveInv, EndInv, ClearInv, DisconnectInv DEF Purge
<1>6. ASSUME NEW a \in Admins, NEW kinds \in {{"render"}, Kinds}, StartPurge(a, kinds) PROVE IInv'
  <2>1. "purge" \in Places /\ kinds \in SUBSET Kinds
    BY DEF Places, Kinds
  <2>2. spent' \in [writes : Nat, purges : Nat, kills : Nat]
    BY <1>6 DEF StartPurge, IInv, TypeOK, DataTypeOK
  <2>3. QED
    BY <1>6, <2>1, <2>2, AcquireInv DEF StartPurge
<1>7. ASSUME NEW kept \in SUBSET Keys, Restart(kept) PROVE IInv'
  BY <1>7, RestartInv
<1>8. CASE UNCHANGED vars
  BY <1>8, Outside DEF vars, fileVars, hitVars, lockVars, histVars, IInv, TypeOK, DataTypeOK, Tracked, Rowed
<1>9. QED
  BY <1>1, <1>2, <1>3, <1>4, <1>5, <1>6, <1>7, <1>8 DEF Next

\* In every reachable state the variables have their types, and the invariant
\* the maintenance lock exists for holds.
THEOREM Invariance == Spec => []IInv
  BY InitInv, NextInv, PTL DEF Spec

THEOREM TypeCorrect == Spec => []TypeOK
<1>1. IInv => TypeOK
  BY DEF IInv
<1>2. QED
  BY <1>1, Invariance, PTL

\* No reconcile, sweep or purge ever finds a row gone that it loaded: the one
\* thing CacheIndex._maintenance is there to guarantee.
THEOREM MaintenanceIsSafe == Spec => []SavesNeverConflict
<1>1. IInv => SavesNeverConflict
  BY DEF IInv
<1>2. QED
  BY <1>1, Invariance, PTL

-----------------------------------------------------------------------------
(* Files and rows in step, the purge and the sweep.                         *)


(* What a request under way knows of a key no maintenance has raced with: its *)
(* file is there, and registering it leaves the row with the file's size.     *)
FlightsInStep ==
    \A w \in Writers : writer[w].pc # "idle" /\ writer[w].key \notin raced =>
        LET k == writer[w].key IN
        /\ writer[w].pc # "failed"
        /\ disk[k] = writer[w].size
        /\ writer[w].pc = "loaded" =>
             IF writer[w].seen = NoRow
             THEN rows[k] = NoRow \/ rows[k].size = writer[w].size
             ELSE /\ writer[w].live /\ rows[k] # NoRow
                  /\ rows[k].size \in {writer[w].seen.size, writer[w].size}

(* Flights of one key carry the same bytes.                                   *)
FlightsAgree ==
    /\ \A w \in Writers : writer[w].pc # "idle" => writer[w].size \in SizesOf[writer[w].key]
    /\ \A v, w \in Writers :
         writer[v].pc # "idle" /\ writer[w].pc # "idle" /\ writer[v].key = writer[w].key
            => writer[v].size = writer[w].size

(* While the semaphore is held every write under way is known to race.        *)
RacesKnown == holder # Nobody => InFlight \subseteq late /\ late \subseteq raced

(* A row marked deleted has lost its file, and no pass ends with marked rows.  *)
DeletionsInStep ==
    \A m \in Maintainers :
        /\ pc[m] \notin {"expiring", "evicting", "purging"} => doomed[m] = {}
        /\ \A k \in doomed[m] \ raced : disk[k] = 0

(* The listing and the rows of a reconcile are those of its layer, the keys     *)
(* being written apart.                                                       *)
ListedSize(m, k) == IF k \in Listed(m) THEN listing[m][k] ELSE 0
LoadedSize(m, k) == IF k \in Loaded(m) THEN batch[m][k].size ELSE 0
ListingInStep(m) ==
    /\ Listed(m) \subseteq Layer(Kind(m))
    /\ \A k \in Layer(Kind(m)) \ late : disk[k] = ListedSize(m, k)
RowsInStep(m) ==
    /\ Loaded(m) \subseteq Layer(Kind(m))
    /\ \A k \in Layer(Kind(m)) \ late : SizeInRow(k) = LoadedSize(m, k)
ReconcilesInStep ==
    \A m \in Maintainers :
        /\ pc[m] \in {"match", "merge"} => ListingInStep(m)
        /\ pc[m] = "merge" => RowsInStep(m)

(* What a purge has still to visit is of the layer it is done with.            *)
VisitsLayer == \A m \in Maintainers : pc[m] = "clear" => todo[m] \subseteq Layer(Kind(m))

StepInv ==
    /\ InStep /\ PurgeLeavesNothing
    /\ FlightsInStep /\ FlightsAgree /\ RacesKnown
    /\ DeletionsInStep /\ ReconcilesInStep /\ VisitsLayer

SInv == IInv /\ StepInv

-----------------------------------------------------------------------------
(* Two facts about who works, and what follows when the data is left alone.   *)

LEMMA OthersRest ==
  ASSUME IInv, NEW m \in Maintainers, m # holder
  PROVE  pc[m] \in {"boot", "rest"} /\ doomed[m] = {}
  BY DEF IInv, OneHolder

LEMMA AdminsWork == Admins \subseteq Maintainers /\ Sweeper \in Maintainers
  BY DEF Maintainers

\* Under the semaphore a flight's key may have raced, in FlightsInStep's sense.
LEMMA FlightsRace ==
  ASSUME IInv, RacesKnown, holder # Nobody, NEW w \in Writers, writer[w].pc # "idle"
  PROVE  writer[w].key \in late /\ writer[w].key \in raced /\ writer[w].key \in Keys
  BY DEF RacesKnown, InFlight, IInv, TypeOK, DataTypeOK

\* Hits, the clock and a stutter: no file, no size and no job changes.
LEMMA QuietStep ==
  ASSUME IInv, StepInv, UNCHANGED <<disk, writer, holder, late, raced, jobVars>>,
         \A k \in Keys : /\ rows'[k] = NoRow <=> rows[k] = NoRow
                         /\ rows[k] # NoRow => rows'[k].size = rows[k].size
  PROVE  StepInv'
<1>1. \A k \in Keys : SizeInRow(k)' = SizeInRow(k)
  BY DEF SizeInRow
<1>2. InFlight' = InFlight
  BY DEF InFlight
<1>3. InStep'
  BY <1>1, <1>2 DEF StepInv, InStep, jobVars
<1>4. \A m : Layer(Kind(m))' = Layer(Kind(m)) /\ Layer(Kind(m)) \subseteq Keys
  BY KindType DEF Layer, Kind, jobVars
<1>5. PurgeLeavesNothing'
  BY <1>4 DEF StepInv, PurgeLeavesNothing, Rowed, Files, jobVars
<1>6. FlightsInStep'
  BY DEF StepInv, FlightsInStep, IInv, TypeOK, DataTypeOK
<1>7. FlightsAgree' /\ RacesKnown' /\ DeletionsInStep' /\ VisitsLayer'
  BY <1>2, <1>4 DEF StepInv, FlightsAgree, RacesKnown, DeletionsInStep, VisitsLayer, jobVars
<1>8. ReconcilesInStep'
  BY <1>1, <1>4 DEF StepInv, ReconcilesInStep, ListingInStep, RowsInStep, ListedSize, LoadedSize, Listed, Loaded, jobVars
<1>9. QED
  BY <1>3, <1>5, <1>6, <1>7, <1>8 DEF StepInv

\* The holder moves on without touching files, rows or marks, to a place where
\* nothing is claimed of what it has in hand.
LEMMA QuietMove ==
  ASSUME IInv, IInv', StepInv, NEW m \in Maintainers, holder = m, holder' \in {m, Nobody},
         UNCHANGED <<disk, rows, writer, late, raced>>,
         \A n \in Maintainers : doomed'[n] = doomed[n],
         pc'[m] \notin {"match", "merge", "clear"},
         pc'[m] \notin {"expiring", "evicting", "purging"} => doomed[m] = {}
  PROVE  StepInv'
<1>1. \A n \in Maintainers \ {m} : pc'[n] \in {"boot", "rest"}
  BY ActorsAssumption DEF IInv, OneHolder
<1>2. InFlight' = InFlight /\ \A k \in Keys : SizeInRow(k)' = SizeInRow(k)
  BY DEF InFlight, SizeInRow
<1>3. InStep' /\ FlightsInStep' /\ FlightsAgree' /\ RacesKnown'
  BY <1>2, ActorsAssumption DEF StepInv, InStep, FlightsInStep, FlightsAgree, RacesKnown
<1>4. PurgeLeavesNothing' /\ ReconcilesInStep' /\ VisitsLayer'
  BY <1>1, AdminsWork DEF PurgeLeavesNothing, ReconcilesInStep, VisitsLayer
<1>5. DeletionsInStep'
  <2>1. \A n \in Maintainers \ {m} : doomed'[n] = {}
    BY OthersRest
  <2>2. QED
    BY <2>1 DEF StepInv, DeletionsInStep
<1>6. QED
  BY <1>3, <1>4, <1>5 DEF StepInv

-----------------------------------------------------------------------------
(* Requests.                                                                 *)

LEMMA WriteFileStep ==
  ASSUME IInv, IInv', StepInv, NEW w \in Writers, NEW k \in Keys, NEW s \in SizesOf[k], WriteFile(w, k, s)
  PROVE  StepInv'
<1>1. /\ writer' = [writer EXCEPT ![w] = Flight(k, s)] /\ writer[w].pc = "idle"
      /\ disk' = [disk EXCEPT ![k] = s] /\ late' = late \cup {k}
      /\ raced' = IF holder = Nobody THEN raced ELSE raced \cup {k}
      /\ UNCHANGED <<rows, holder, jobVars>>
  BY DEF WriteFile, lockVars
<1>2. /\ Flight(k, s).pc = "landed" /\ Flight(k, s).key = k /\ Flight(k, s).size = s
  BY DEF Flight, IdleWriter
<1>3. writer'[w] = Flight(k, s) /\ \A v \in Writers \ {w} : writer'[v] = writer[v]
  BY <1>1 DEF IInv, TypeOK, DataTypeOK
<1>4. InFlight' = InFlight \cup {k}
  BY <1>1, <1>2, <1>3 DEF InFlight
<1>5. \A j \in Keys \ {k} : disk'[j] = disk[j]
  BY <1>1 DEF IInv, TypeOK, DataTypeOK
<1>6. disk'[k] = s
  BY <1>1 DEF IInv, TypeOK, DataTypeOK
<1>7. FlightsAgree'
  <2>1. ASSUME NEW v \in Writers \ {w}, writer[v].pc # "idle", writer[v].key = k PROVE writer[v].size = s
    <3>1. k \in InFlight
      BY <2>1 DEF InFlight
    <3>2. k \in Originals
      BY <3>1 DEF WriteFile, Keys
    <3>3. writer[v].size \in SizesOf[k]
      BY <2>1 DEF StepInv, FlightsAgree
    <3>4. QED
      BY <3>2, <3>3, ContentAssumption
  <2>2. QED
    BY <1>2, <1>3, <2>1 DEF StepInv, FlightsAgree
<1>8. FlightsInStep'
  <2>1. SUFFICES ASSUME NEW v \in Writers \ {w}, writer[v].pc # "idle", writer[v].key \notin raced'
                 PROVE  writer[v].pc # "failed" /\ disk'[writer[v].key] = writer[v].size /\ writer[v].key \notin raced
    BY <1>1, <1>2, <1>3, <1>6 DEF FlightsInStep, StepInv
  <2>2. writer[v].key \notin raced
    BY <1>1, <2>1
  <2>3. CASE writer[v].key = k
    BY <1>2, <1>3, <1>6, <1>7, <2>1, <2>2, <2>3 DEF StepInv, FlightsInStep, FlightsAgree
  <2>4. CASE writer[v].key # k
    BY <1>5, <2>1, <2>2, <2>4 DEF StepInv, FlightsInStep, IInv, TypeOK, DataTypeOK
  <2>5. QED
    BY <2>2, <2>3, <2>4
<1>9. InStep'
  BY <1>1, <1>4, <1>5 DEF StepInv, InStep, SizeInRow, jobVars
<1>10. RacesKnown'
  BY <1>1, <1>4 DEF StepInv, RacesKnown
<1>11. DeletionsInStep'
  <2>1. SUFFICES ASSUME NEW m \in Maintainers, NEW j \in doomed[m] \ raced' PROVE disk'[j] = 0
    BY <1>1 DEF StepInv, DeletionsInStep, jobVars
  <2>2. holder # Nobody /\ j \in Keys
    BY <2>1, OthersRest, ActorsAssumption DEF IInv, TypeOK, JobTypeOK
  <2>3. QED
    BY <1>1, <1>5, <2>1, <2>2 DEF StepInv, DeletionsInStep
<1>12. \A m : Layer(Kind(m))' = Layer(Kind(m)) /\ Layer(Kind(m)) \subseteq Keys
  BY <1>1, KindType DEF Layer, Kind, jobVars
<1>13. PurgeLeavesNothing' /\ VisitsLayer'
  BY <1>1, <1>5, <1>12 DEF StepInv, PurgeLeavesNothing, VisitsLayer, Rowed, Files, jobVars
<1>14. ReconcilesInStep'
  BY <1>1, <1>5, <1>12 DEF StepInv, ReconcilesInStep, ListingInStep, RowsInStep, ListedSize, LoadedSize, SizeInRow, Listed, Loaded, jobVars
<1>15. QED
  BY <1>7, <1>8, <1>9, <1>10, <1>11, <1>13, <1>14 DEF StepInv
\* A step of a request that leaves files and maintenance alone, and touches only
\* the rows of keys under way.
LEMMA RequestStep ==
  ASSUME IInv, StepInv, UNCHANGED <<disk, holder, late, raced, jobVars>>, InFlight' \subseteq InFlight,
         \A k \in Keys \ InFlight : rows'[k] = rows[k],
         InStep', FlightsInStep', FlightsAgree'
  PROVE  StepInv'
<1>1. \A m \in Maintainers : pc[m] \notin {"boot", "rest"} => InFlight \subseteq late
  BY OthersRest, ActorsAssumption DEF StepInv, RacesKnown
<1>2. RacesKnown' /\ DeletionsInStep'
  BY DEF StepInv, RacesKnown, DeletionsInStep, jobVars
<1>3. \A m : Layer(Kind(m))' = Layer(Kind(m)) /\ Layer(Kind(m)) \subseteq Keys
  BY KindType DEF Layer, Kind, jobVars
<1>4. PurgeLeavesNothing' /\ VisitsLayer'
  BY <1>1, <1>3, AdminsWork DEF StepInv, PurgeLeavesNothing, VisitsLayer, Rowed, Files, jobVars
<1>5. ReconcilesInStep'
  BY <1>1, <1>3 DEF StepInv, ReconcilesInStep, ListingInStep, RowsInStep, ListedSize, LoadedSize, SizeInRow, Listed, Loaded, jobVars
<1>6. QED
  BY <1>2, <1>4, <1>5 DEF StepInv

LEMMA RegisterLoadStep ==
  ASSUME IInv, StepInv, NEW w \in Writers, RegisterLoad(w)
  PROVE  StepInv'
<1> DEFINE new == [writer[w] EXCEPT !.pc = "loaded", !.now = clock, !.seen = rows[writer[w].key],
                                    !.live = rows[writer[w].key] # NoRow]
<1>1. writer[w] \in WriterState /\ writer[w].pc = "landed"
  BY DEF RegisterLoad, IInv, TypeOK, DataTypeOK
<1>2. /\ new.pc = "loaded" /\ new.key = writer[w].key /\ new.size = writer[w].size
      /\ new.seen = rows[writer[w].key] /\ new.live = (rows[writer[w].key] # NoRow)
  BY <1>1 DEF WriterState, IInv, TypeOK, DataTypeOK
<1>3. writer'[w] = new /\ \A v \in Writers \ {w} : writer'[v] = writer[v]
  BY <1>1 DEF RegisterLoad, IInv, TypeOK, DataTypeOK, WriterState
<1> HIDE DEF new
<1>4. UNCHANGED <<disk, rows, holder, late, raced, jobVars>>
  BY DEF RegisterLoad, fileVars, lockVars, histVars
<1>5. InFlight' = InFlight
  BY <1>1, <1>2, <1>3 DEF InFlight
<1>6. InStep'
  BY <1>4, <1>5 DEF StepInv, InStep, SizeInRow, jobVars
<1>7. FlightsAgree'
  BY <1>1, <1>2, <1>3 DEF StepInv, FlightsAgree
<1>8. FlightsInStep'
  <2>1. ASSUME NEW v \in Writers \ {w} PROVE writer'[v] = writer[v]
    BY <1>3
  <2>2. writer[w].key \notin raced => disk[writer[w].key] = writer[w].size
    BY <1>1 DEF StepInv, FlightsInStep
  <2>3. new.seen # NoRow => new.live /\ rows[new.key] # NoRow /\ rows[new.key].size = new.seen.size
    BY <1>2
  <2>4. QED
    BY <1>2, <1>3, <1>4, <2>1, <2>2, <2>3 DEF StepInv, FlightsInStep
<1>9. QED
  BY <1>4, <1>5, <1>6, <1>7, <1>8, RequestStep

\* A flight of an unraced key that registers leaves the row with the file's size.
LEMMA RegistersInStep ==
  ASSUME IInv, IInv', StepInv, NEW w \in Writers, writer[w].pc # "idle",
         writer' = [writer EXCEPT ![w] = IdleWriter],
         UNCHANGED <<disk, holder, late, raced, jobVars>>,
         \A k \in Keys \ {writer[w].key} : rows'[k] = rows[k],
         writer[w].key \notin raced =>
             rows'[writer[w].key] # NoRow /\ rows'[writer[w].key].size = writer[w].size
  PROVE  StepInv'
<1> DEFINE key == writer[w].key
<1>1. writer'[w] = IdleWriter /\ \A v \in Writers \ {w} : writer'[v] = writer[v]
  BY DEF IInv, TypeOK, DataTypeOK
<1>2. InFlight' \subseteq InFlight /\ InFlight \subseteq InFlight' \cup {key} /\ key \in InFlight
  BY <1>1, IdleType DEF InFlight, IInv, TypeOK, DataTypeOK
<1>3. InStep'
  <2>1. SUFFICES ASSUME NEW k \in Keys \ (raced \cup InFlight'), \A m \in Maintainers : k \notin doomed[m]
                 PROVE  disk[k] = SizeInRow(k)'
    BY DEF InStep, jobVars
  <2>2. CASE k = key
    BY <2>2 DEF StepInv, FlightsInStep, SizeInRow
  <2>3. CASE k # key
    BY <1>2, <2>1, <2>3 DEF StepInv, InStep, SizeInRow
  <2>4. QED
    BY <2>2, <2>3
<1>4. FlightsAgree'
  BY <1>1, IdleType DEF StepInv, FlightsAgree
<1>5. FlightsInStep'
  <2>1. SUFFICES ASSUME NEW v \in Writers \ {w}, writer[v].pc # "idle", writer[v].key \notin raced,
                        writer[v].pc = "loaded"
                 PROVE  IF writer[v].seen = NoRow
                        THEN rows'[writer[v].key] = NoRow \/ rows'[writer[v].key].size = writer[v].size
                        ELSE /\ rows'[writer[v].key] # NoRow
                             /\ rows'[writer[v].key].size \in {writer[v].seen.size, writer[v].size}
    BY <1>1, IdleType DEF StepInv, FlightsInStep
  <2>2. CASE writer[v].key = key
    BY <2>1, <2>2 DEF StepInv, FlightsAgree
  <2>3. CASE writer[v].key # key
    BY <2>1, <2>3 DEF StepInv, FlightsInStep, IInv, TypeOK, DataTypeOK
  <2>4. QED
    BY <2>2, <2>3
<1>6. QED
  BY <1>2, <1>3, <1>4, <1>5, RequestStep

LEMMA RegisterInsertStep ==
  ASSUME IInv, IInv', StepInv, NEW w \in Writers, RegisterInsert(w)
  PROVE  StepInv'
<1> DEFINE key == writer[w].key
           new == [size |-> writer[w].size, access |-> writer[w].now, created |-> clock]
<1>1. key \in Keys /\ writer[w].pc = "loaded" /\ writer[w].seen = NoRow
  BY DEF RegisterInsert, IInv, TypeOK, DataTypeOK
<1>2. new \in Row /\ new # NoRow
  BY <1>1, RowAssumption DEF WriterState, Row, IInv, TypeOK, DataTypeOK
<1>3. /\ rows'[key] = IF rows[key] # NoRow THEN rows[key] ELSE new
      /\ \A k \in Keys \ {key} : rows'[k] = rows[k]
  BY <1>1 DEF RegisterInsert, IInv, TypeOK, DataTypeOK
<1>4. key \notin raced => rows'[key] # NoRow /\ rows'[key].size = writer[w].size
  BY <1>1, <1>2, <1>3 DEF StepInv, FlightsInStep
<1>5. /\ writer' = [writer EXCEPT ![w] = IdleWriter]
      /\ UNCHANGED <<disk, holder, late, raced, jobVars>>
  BY DEF RegisterInsert, lockVars, histVars
<1>6. QED
  BY <1>1, <1>3, <1>4, <1>5, RegistersInStep

LEMMA RegisterUpdateStep ==
  ASSUME IInv, IInv', StepInv, NEW w \in Writers, RegisterUpdate(w)
  PROVE  StepInv'
<1> DEFINE key == writer[w].key
           old == writer[w].seen
           new == [rows[key] EXCEPT !.size = Column(@, old.size, writer[w].size),
                                    !.access = Column(@, old.access, writer[w].now)]
<1>1. writer[w] \in WriterState /\ key \in Keys /\ writer[w].pc = "loaded" /\ old \in Row /\ old # NoRow
  BY DEF RegisterUpdate, IInv, TypeOK, DataTypeOK, WriterState
<1>2. rows[key] \in Row
  BY <1>1 DEF RegisterUpdate, IInv, Tracked, Rowed, TypeOK, DataTypeOK
<1>3. rows' = [rows EXCEPT ![key] = new]
  BY DEF RegisterUpdate
<1>4. rows'[key] = new /\ \A k \in Keys \ {key} : rows'[k] = rows[k]
  BY <1>1, <1>3 DEF IInv, TypeOK, DataTypeOK
<1>5. new \in Row /\ new # NoRow /\ new.size = Column(rows[key].size, old.size, writer[w].size)
  BY <1>1, <1>2, RowAssumption DEF Column, WriterState, Row
<1>6. key \notin raced => new.size = writer[w].size
  BY <1>1, <1>5 DEF StepInv, FlightsInStep, Column
<1>7. /\ writer' = [writer EXCEPT ![w] = IdleWriter]
      /\ UNCHANGED <<disk, holder, late, raced, jobVars>>
  BY DEF RegisterUpdate, lockVars, histVars
<1> HIDE DEF new
<1>8. QED
  BY <1>1, <1>4, <1>5, <1>6, <1>7, RegistersInStep

\* A registration fails only for a key maintenance has raced with.
LEMMA RegisterEndStep ==
  ASSUME IInv, IInv', StepInv, NEW w \in Writers, RegisterConflict(w) \/ AnswerError(w)
  PROVE  StepInv'
<1>1. writer[w].key \in raced /\ writer[w].pc # "idle"
  BY DEF RegisterConflict, AnswerError, StepInv, FlightsInStep
<1>2. UNCHANGED <<disk, rows, holder, late, raced, jobVars>>
  BY DEF RegisterConflict, AnswerError, fileVars, lockVars, histVars
<1>3. CASE AnswerError(w)
  BY <1>1, <1>2, <1>3, RegistersInStep DEF AnswerError
<1>4. CASE RegisterConflict(w)
  <2> DEFINE new == [writer[w] EXCEPT !.pc = "failed"]
  <2>1. writer[w] \in WriterState
    BY DEF IInv, TypeOK, DataTypeOK
  <2>2. new.key = writer[w].key /\ new.size = writer[w].size /\ new.pc = "failed"
    BY <2>1 DEF WriterState
  <2>3. writer'[w] = new /\ \A v \in Writers \ {w} : writer'[v] = writer[v]
    BY <1>4, <2>1 DEF RegisterConflict, IInv, TypeOK, DataTypeOK, WriterState
  <2> HIDE DEF new
  <2>4. InFlight' = InFlight
    BY <1>1, <2>2, <2>3 DEF InFlight
  <2>5. InStep'
    BY <1>2, <2>4 DEF StepInv, InStep, SizeInRow, jobVars
  <2>6. FlightsAgree'
    BY <1>1, <2>2, <2>3 DEF StepInv, FlightsAgree
  <2>7. FlightsInStep'
    BY <1>1, <1>2, <2>2, <2>3 DEF StepInv, FlightsInStep
  <2>8. QED
    BY <1>2, <2>4, <2>5, <2>6, <2>7, RequestStep
<1>5. QED
  BY <1>3, <1>4

-----------------------------------------------------------------------------
(* Maintenance.                                                              *)

LEMMA AcquireStep ==
  ASSUME IInv, IInv', StepInv, NEW m \in Maintainers, NEW layers, NEW start \in {"list", "expire", "purge"},
         Acquire(m, start, layers)
  PROVE  StepInv'
<1>1. \A n \in Maintainers : doomed[n] = {} /\ n # holder
  BY OthersRest, ActorsAssumption DEF Acquire, LockFree
<1>2. /\ UNCHANGED <<disk, rows, writer, doomed>> /\ holder' = m
      /\ late' = InFlight /\ raced' = raced \cup InFlight
  BY DEF Acquire, fileVars
<1>3. InFlight' = InFlight /\ \A k \in Keys : SizeInRow(k)' = SizeInRow(k)
  BY <1>2 DEF InFlight, SizeInRow
<1>4. pc'[m] = start /\ \A n \in Maintainers \ {m} : pc'[n] \in {"boot", "rest"}
  BY <1>2 DEF Acquire, IInv, OneHolder, TypeOK, JobTypeOK
<1>5. InStep'
  BY <1>1, <1>2, <1>3 DEF StepInv, InStep
<1>6. PurgeLeavesNothing' /\ ReconcilesInStep' /\ VisitsLayer'
  BY <1>4, AdminsWork DEF PurgeLeavesNothing, ReconcilesInStep, VisitsLayer
<1>7. FlightsInStep' /\ FlightsAgree' /\ RacesKnown'
  BY <1>2, <1>3 DEF StepInv, FlightsInStep, FlightsAgree, RacesKnown
<1>8. DeletionsInStep'
  BY <1>1, <1>2 DEF DeletionsInStep
<1>9. QED
  BY <1>5, <1>6, <1>7, <1>8 DEF StepInv

\* The steps of a sweep or a purge that only read.
LEMMA ReadStep ==
  ASSUME IInv, IInv', StepInv, NEW m \in Maintainers,
         \/ MeasureUsage(m) \/ SkipLayer(m) \/ LoadExpired(m) \/ LoadColdest(m) \/ EndEvict(m)
         \/ m \in Admins /\ EndLayer(m)
  PROVE  StepInv'
<1>1. holder = m /\ pc[m] \notin {"expiring", "evicting", "purging"}
  BY HolderActs DEF MeasureUsage, SkipLayer, LoadExpired, LoadColdest, EndEvict, EndLayer
<1>2. doomed[m] = {}
  BY <1>1 DEF StepInv, DeletionsInStep
<1>3. /\ UNCHANGED <<disk, rows, writer, late, raced>>
      /\ holder' \in {m, Nobody}
  BY <1>1 DEF MeasureUsage, SkipLayer, LoadExpired, LoadColdest, EndEvict, EndLayer, Release, fileVars, lockVars, histVars
<1>4. \A n \in Maintainers : doomed'[n] = doomed[n]
  <2>1. UNCHANGED doomed \/ doomed' = [doomed EXCEPT ![m] = {}]
    BY DEF MeasureUsage, SkipLayer, LoadExpired, LoadColdest, EndEvict, EndLayer, Release
  <2>2. QED
    BY <1>2, <2>1 DEF IInv, TypeOK, JobTypeOK
<1>5. pc'[m] \notin {"match", "merge", "clear"}
  BY DEF MeasureUsage, SkipLayer, LoadExpired, LoadColdest, EndEvict, EndLayer, Load, Release, IInv, TypeOK, JobTypeOK
<1>6. QED
  BY <1>1, <1>2, <1>3, <1>4, <1>5, QuietMove

\* The holder moves between the steps of a reconcile.
LEMMA ReconcileMove ==
  ASSUME IInv, IInv', StepInv, NEW m \in Maintainers, holder = m,
         UNCHANGED <<disk, rows, writer, holder, late, raced, doomed, left>>,
         doomed[m] = {}, pc'[m] \in {"match", "merge"},
         ListingInStep(m)', pc'[m] = "merge" => RowsInStep(m)'
  PROVE  StepInv'
<1>1. \A n \in Maintainers \ {m} : pc'[n] \in {"boot", "rest"} /\ doomed[n] = {}
  BY OthersRest DEF IInv, OneHolder
<1>2. InFlight' = InFlight /\ \A k \in Keys : SizeInRow(k)' = SizeInRow(k)
  BY DEF InFlight, SizeInRow
<1>3. InStep' /\ FlightsInStep' /\ FlightsAgree' /\ RacesKnown' /\ DeletionsInStep'
  BY <1>1, <1>2 DEF StepInv, InStep, FlightsInStep, FlightsAgree, RacesKnown, DeletionsInStep
<1>4. PurgeLeavesNothing' /\ ReconcilesInStep' /\ VisitsLayer'
  BY <1>1, AdminsWork DEF PurgeLeavesNothing, ReconcilesInStep, VisitsLayer
<1>5. QED
  BY <1>3, <1>4 DEF StepInv

LEMMA ListFilesStep ==
  ASSUME IInv, IInv', StepInv, NEW m \in Maintainers, ListFiles(m)
  PROVE  StepInv'
<1>1. holder = m /\ doomed[m] = {}
  BY HolderActs DEF ListFiles, StepInv, DeletionsInStep
<1>2. UNCHANGED <<disk, rows, writer, holder, late, raced, doomed, left>> /\ pc'[m] = "match"
  BY DEF ListFiles, fileVars, lockVars, histVars, IInv, TypeOK, JobTypeOK
<1>3. Layer(Kind(m))' = Layer(Kind(m))
  BY <1>2 DEF Layer, Kind
<1>4. listing'[m] = [k \in Files(Layer(Kind(m))) |-> disk[k]]
  BY DEF ListFiles, IInv, TypeOK, JobTypeOK
<1>5. Listed(m)' = Files(Layer(Kind(m)))
  BY <1>4 DEF Listed
<1>6. ListingInStep(m)'
  BY <1>2, <1>3, <1>4, <1>5 DEF ListingInStep, ListedSize, Files
<1>7. QED
  BY <1>1, <1>2, <1>6, ReconcileMove

LEMMA MatchRowsStep ==
  ASSUME IInv, IInv', StepInv, NEW m \in Maintainers, MatchRows(m)
  PROVE  StepInv'
<1>1. holder = m /\ doomed[m] = {} /\ ListingInStep(m)
  BY HolderActs DEF MatchRows, StepInv, DeletionsInStep, ReconcilesInStep
<1>2. UNCHANGED <<disk, rows, writer, holder, late, raced, doomed, left, listing>> /\ pc'[m] = "merge"
  BY DEF MatchRows, fileVars, lockVars, histVars, IInv, TypeOK, JobTypeOK
<1>3. Layer(Kind(m))' = Layer(Kind(m))
  BY <1>2 DEF Layer, Kind
<1>4. batch'[m] = [k \in Rowed(Layer(Kind(m))) |-> rows[k]]
  BY DEF MatchRows, IInv, TypeOK, JobTypeOK
<1>5. Loaded(m)' = Rowed(Layer(Kind(m)))
  BY <1>4 DEF Loaded
<1>6. RowsInStep(m)'
  BY <1>2, <1>3, <1>4, <1>5 DEF RowsInStep, LoadedSize, SizeInRow, Rowed
<1>7. ListingInStep(m)'
  BY <1>1, <1>2, <1>3 DEF ListingInStep, ListedSize, Listed
<1>8. QED
  BY <1>1, <1>2, <1>6, <1>7, ReconcileMove

\* Deleting rows and forgetting their loads changes no flight's key or bytes.
LEMMA ForgetKeeps ==
  ASSUME IInv, NEW S, writer' = Forget(S), NEW w \in Writers
  PROVE  writer'[w].pc = writer[w].pc /\ writer'[w].key = writer[w].key /\ writer'[w].size = writer[w].size
  BY DEF Forget, WriterState, IInv, TypeOK, DataTypeOK

\* The merge puts every key of the layer right but those being written.
LEMMA MergedInStep ==
  ASSUME IInv, StepInv, NEW m \in Maintainers, MergeRows(m), NEW k \in Layer(Kind(m)) \ late
  PROVE  disk[k] = SizeInRow(k)'
<1>1. ListingInStep(m) /\ RowsInStep(m)
  BY DEF MergeRows, StepInv, ReconcilesInStep
<1>2. k \in Keys /\ disk[k] = ListedSize(m, k) /\ SizeInRow(k) = LoadedSize(m, k)
  BY <1>1, KindType DEF ListingInStep, RowsInStep
<1>3. rows'[k] = Reconciled(m, k)
  BY <1>2 DEF MergeRows
<1>4. Loaded(m) \subseteq Rowed(Keys) /\ batch[m] \in [Loaded(m) -> Row] /\ listing[m] \in [Listed(m) -> Nat]
  BY DEF IInv, TypeOK, JobTypeOK, SavesNeverConflict
<1>5. CASE k \in Loaded(m) \ Listed(m)
  BY <1>2, <1>3, <1>5 DEF Reconciled, ListedSize, SizeInRow
<1>6. CASE k \in Loaded(m) \cap Listed(m)
  <2>1. rows[k] \in Row /\ rows[k].size = batch[m][k].size /\ listing[m][k] = disk[k] /\ listing[m][k] \in Nat
    BY <1>2, <1>4, <1>6 DEF ListedSize, LoadedSize, SizeInRow, Rowed, IInv, TypeOK, DataTypeOK
  <2> DEFINE new == [rows[k] EXCEPT !.size = Column(@, batch[m][k].size, listing[m][k])]
  <2>2. new \in Row /\ new # NoRow /\ new.size = disk[k]
    BY <2>1, RowAssumption DEF Row, Column
  <2>3. rows'[k] = new
    BY <1>3, <1>6 DEF Reconciled
  <2>4. QED
    BY <2>2, <2>3 DEF SizeInRow
<1>7. CASE k \in Listed(m) \ Loaded(m)
  <2> DEFINE new == [size |-> listing[m][k], access |-> clock, created |-> clock]
  <2>1. new \in Row /\ new # NoRow
    BY <1>4, <1>7, RowAssumption DEF Row, IInv, TypeOK, DataTypeOK
  <2>2. rows'[k] = new /\ new.size = disk[k]
    BY <1>2, <1>3, <1>7 DEF Reconciled, ListedSize
  <2>3. QED
    BY <2>1, <2>2 DEF SizeInRow
<1>8. CASE k \notin Loaded(m) \cup Listed(m)
  <2>1. rows'[k] = rows[k]
    BY <1>3, <1>8 DEF Reconciled
  <2>2. QED
    BY <1>2, <1>8, <2>1 DEF ListedSize, LoadedSize, SizeInRow
<1>9. QED
  BY <1>5, <1>6, <1>7, <1>8

LEMMA MergeRowsStep ==
  ASSUME IInv, IInv', StepInv, NEW m \in Maintainers, MergeRows(m)
  PROVE  StepInv'
<1>1. holder = m /\ doomed[m] = {} /\ holder # Nobody
  BY HolderActs, ActorsAssumption DEF MergeRows, StepInv, DeletionsInStep
<1>2. \A n \in Maintainers \ {m} : doomed[n] = {}
  BY <1>1, OthersRest
<1>3. /\ disk' = disk /\ late' = late /\ raced' = raced \ (Layer(Kind(m)) \ late)
      /\ writer' = Forget(Loaded(m) \ Listed(m))
      /\ \A k \in Keys : rows'[k] = Reconciled(m, k)
  BY DEF MergeRows
<1>4. /\ \A n \in Maintainers : doomed'[n] = {}
      /\ pc'[m] \in {"list", "rest"}
      /\ holder' \in {m, Nobody}
  <2>1. CASE left[m] = {"render"}
    <3>1. Release(m)
      BY <2>1 DEF MergeRows
    <3>2. QED
      BY <1>1, <1>2, <3>1 DEF Release, IInv, TypeOK, JobTypeOK
  <2>2. CASE left[m] # {"render"}
    <3>1. pc' = [pc EXCEPT ![m] = "list"] /\ UNCHANGED <<holder, doomed>>
      BY <2>2 DEF MergeRows
    <3>2. QED
      BY <1>1, <1>2, <3>1 DEF IInv, TypeOK, JobTypeOK
  <2>3. QED
    BY <2>1, <2>2
<1>5. \A n \in Maintainers \ {m} : pc'[n] \in {"boot", "rest"}
  BY <1>4, ActorsAssumption DEF IInv, OneHolder
<1>6. InFlight \subseteq late /\ late \subseteq raced /\ late \subseteq raced'
  BY <1>1, <1>3 DEF StepInv, RacesKnown
<1>7. \A w \in Writers : writer'[w].pc = writer[w].pc /\ writer'[w].key = writer[w].key /\ writer'[w].size = writer[w].size
  BY <1>3, ForgetKeeps
<1>8. InFlight' = InFlight
  BY <1>7 DEF InFlight
<1>9. FlightsAgree'
  BY <1>7 DEF StepInv, FlightsAgree
<1>10. FlightsInStep'
  <2>1. ASSUME NEW w \in Writers, writer[w].pc # "idle" PROVE writer[w].key \in raced'
    BY <1>1, <1>6, <2>1, FlightsRace DEF StepInv
  <2>2. QED
    BY <1>7, <2>1 DEF FlightsInStep
<1>11. RacesKnown'
  BY <1>3, <1>6, <1>8 DEF RacesKnown
<1>12. InStep'
  <2>1. SUFFICES ASSUME NEW k \in Keys \ (raced' \cup InFlight) PROVE disk[k] = SizeInRow(k)'
    BY <1>3, <1>8 DEF InStep
  <2>2. CASE k \in Layer(Kind(m)) \ late
    BY <2>2, MergedInStep
  <2>3. CASE k \notin Layer(Kind(m))
    <3>1. k \notin Loaded(m) \cup Listed(m)
      BY <2>3 DEF MergeRows, StepInv, ReconcilesInStep, ListingInStep, RowsInStep
    <3>2. rows'[k] = rows[k]
      BY <1>3, <3>1 DEF Reconciled
    <3>3. k \notin raced
      BY <1>3, <2>1, <2>3
    <3>4. QED
      BY <1>1, <1>2, <2>1, <3>2, <3>3 DEF StepInv, InStep, SizeInRow
  <2>4. CASE k \in late
    BY <1>6, <2>1, <2>4
  <2>5. QED
    BY <2>2, <2>3, <2>4
<1>13. PurgeLeavesNothing' /\ ReconcilesInStep' /\ VisitsLayer' /\ DeletionsInStep'
  BY <1>4, <1>5, AdminsWork DEF PurgeLeavesNothing, ReconcilesInStep, VisitsLayer, DeletionsInStep
<1>14. QED
  BY <1>9, <1>10, <1>11, <1>12, <1>13 DEF StepInv

\* A deletion's victim loses its file or, when the file sticks, joins the raced.
LEMMA VictimStep ==
  ASSUME IInv, IInv', StepInv, NEW m \in Maintainers, ExpireVictim(m) \/ EvictVictim(m) \/ PurgeVictim(m)
  PROVE  StepInv'
<1>1. holder = m /\ holder # Nobody /\ pc[m] \in {"expiring", "evicting", "purging"}
  BY HolderActs, ActorsAssumption DEF ExpireVictim, EvictVictim, PurgeVictim
<1>2. PICK k \in Keys : Victim(m, k)
  BY DEF ExpireVictim, EvictVictim, PurgeVictim, DeleteVictim, Victim
<1>3. UNCHANGED <<rows, writer, holder, pc>>
  BY <1>2 DEF Victim, lockVars
<1>4. /\ doomed'[m] = doomed[m] \cup {k}
      /\ \A n \in Maintainers \ {m} : doomed'[n] = {} /\ pc'[n] \in {"boot", "rest"}
  BY <1>1, <1>2, <1>3, OthersRest DEF Victim, IInv, TypeOK, JobTypeOK
<1>5. /\ \A j \in Keys \ {k} : disk'[j] = disk[j]
      /\ \/ disk'[k] = 0 /\ UNCHANGED <<raced, late>>
         \/ raced' = raced \cup {k} /\ late' = late \cup {k}
  <2>1. PICK stuck \in {FALSE, MayStick} :
           /\ disk' = IF stuck THEN disk ELSE [disk EXCEPT ![k] = 0]
           /\ raced' = IF stuck THEN raced \cup {k} ELSE raced
           /\ late' = IF stuck THEN late \cup {k} ELSE late
    BY <1>2 DEF Victim
  <2>2. QED
    BY <2>1 DEF IInv, TypeOK, DataTypeOK
<1>6. InFlight' = InFlight /\ \A j \in Keys : SizeInRow(j)' = SizeInRow(j)
  BY <1>3 DEF InFlight, SizeInRow
<1>7. InStep'
  <2>1. SUFFICES ASSUME NEW j \in Keys \ (raced' \cup InFlight'), \A n \in Maintainers : j \notin doomed'[n]
                 PROVE  disk'[j] = SizeInRow(j)'
    BY DEF InStep
  <2>2. j # k /\ j \notin raced /\ \A n \in Maintainers : j \notin doomed[n]
    BY <1>1, <1>4, <1>5, <2>1, OthersRest
  <2>3. QED
    BY <1>5, <1>6, <2>1, <2>2 DEF StepInv, InStep
<1>8. RacesKnown'
  BY <1>3, <1>5, <1>6 DEF StepInv, RacesKnown
<1>9. FlightsAgree'
  BY <1>3 DEF StepInv, FlightsAgree
<1>10. FlightsInStep'
  <2>1. ASSUME NEW w \in Writers, writer[w].pc # "idle" PROVE writer[w].key \in raced'
    BY <1>1, <1>5, <2>1, FlightsRace DEF StepInv
  <2>2. QED
    BY <1>3, <2>1 DEF FlightsInStep
<1>11. DeletionsInStep'
  <2>1. ASSUME NEW j \in doomed'[m] \ raced' PROVE disk'[j] = 0
    <3>1. CASE j = k
      BY <1>5, <2>1, <3>1
    <3>2. CASE j # k
      BY <1>4, <1>5, <2>1, <3>2 DEF StepInv, DeletionsInStep, IInv, TypeOK, JobTypeOK
    <3>3. QED
      BY <3>1, <3>2
  <2>2. QED
    BY <1>1, <1>3, <1>4, <2>1 DEF DeletionsInStep
<1>12. PurgeLeavesNothing' /\ ReconcilesInStep' /\ VisitsLayer'
  BY <1>1, <1>3, <1>4, AdminsWork DEF PurgeLeavesNothing, ReconcilesInStep, VisitsLayer
<1>13. QED
  BY <1>7, <1>8, <1>9, <1>10, <1>11, <1>12 DEF StepInv

\* The rows of the victims go, whose files have gone before.
LEMMA SaveStep ==
  ASSUME IInv, IInv', StepInv, NEW m \in Maintainers, SaveExpired(m) \/ SaveEvicted(m) \/ SavePurged(m)
  PROVE  StepInv'
<1>1. holder = m /\ holder # Nobody
  BY HolderActs, ActorsAssumption DEF SaveExpired, SaveEvicted, SavePurged
<1>2. PICK next \in {"expire", "trim", "purge"} : SaveDeletes(m, next)
  BY DEF SaveExpired, SaveEvicted, SavePurged
<1>3. Deletable(m)
  BY DEF Deletable, IInv, SavesNeverConflict
<1>4. /\ rows' = [k \in Keys |-> IF k \in doomed[m] THEN NoRow ELSE rows[k]]
      /\ writer' = Forget(doomed[m])
      /\ doomed' = [doomed EXCEPT ![m] = {}] /\ pc' = [pc EXCEPT ![m] = next]
      /\ UNCHANGED <<disk, holder, late, raced>>
  BY <1>2, <1>3 DEF SaveDeletes, lockVars, histVars
<1>5. /\ pc'[m] = next /\ \A n \in Maintainers : doomed'[n] = {}
      /\ \A n \in Maintainers \ {m} : doomed[n] = {} /\ pc'[n] \in {"boot", "rest"}
  BY <1>1, <1>4, OthersRest DEF IInv, TypeOK, JobTypeOK
<1>6. \A w \in Writers : writer'[w].pc = writer[w].pc /\ writer'[w].key = writer[w].key /\ writer'[w].size = writer[w].size
  BY <1>4, ForgetKeeps
<1>7. InFlight' = InFlight
  BY <1>6 DEF InFlight
<1>8. InStep'
  <2>1. SUFFICES ASSUME NEW k \in Keys \ (raced \cup InFlight) PROVE disk[k] = SizeInRow(k)'
    BY <1>4, <1>7 DEF InStep
  <2>2. CASE k \in doomed[m]
    BY <1>4, <2>1, <2>2 DEF StepInv, DeletionsInStep, SizeInRow
  <2>3. CASE k \notin doomed[m]
    BY <1>4, <1>5, <2>1, <2>3 DEF StepInv, InStep, SizeInRow
  <2>4. QED
    BY <2>2, <2>3
<1>9. FlightsAgree' /\ RacesKnown'
  BY <1>4, <1>6, <1>7 DEF StepInv, FlightsAgree, RacesKnown
<1>10. FlightsInStep'
  <2>1. ASSUME NEW w \in Writers, writer[w].pc # "idle" PROVE writer[w].key \in raced'
    BY <1>1, <1>4, <2>1, FlightsRace DEF StepInv
  <2>2. QED
    BY <1>6, <2>1 DEF FlightsInStep
<1>11. PurgeLeavesNothing' /\ ReconcilesInStep' /\ VisitsLayer' /\ DeletionsInStep'
  BY <1>5, AdminsWork DEF PurgeLeavesNothing, ReconcilesInStep, VisitsLayer, DeletionsInStep
<1>12. QED
  BY <1>8, <1>9, <1>10, <1>11 DEF StepInv

\* A pass that throws leaves its victims among the raced.
LEMMA AbandonStep ==
  ASSUME IInv, IInv', StepInv, NEW m \in Maintainers, MergeFails(m) \/ (m \in Admins /\ PurgeCancelled(m))
  PROVE  StepInv'
<1>1. holder = m /\ Abandon(m)
  BY HolderActs DEF MergeFails, PurgeCancelled
<1>2. /\ UNCHANGED <<disk, rows, writer, late>> /\ raced' = raced \cup doomed[m] /\ holder' = Nobody
      /\ doomed' = [doomed EXCEPT ![m] = {}]
  BY <1>1 DEF Abandon, Release, fileVars
<1>3. /\ \A n \in Maintainers : doomed'[n] = {} /\ pc'[n] \in {"boot", "rest"}
      /\ \A n \in Maintainers \ {m} : doomed[n] = {}
  BY <1>1, <1>2, OthersRest, ActorsAssumption DEF Abandon, Release, IInv, OneHolder, TypeOK, JobTypeOK
<1>4. InFlight' = InFlight /\ \A k \in Keys : SizeInRow(k)' = SizeInRow(k)
  BY <1>2 DEF InFlight, SizeInRow
<1>5. InStep'
  BY <1>2, <1>3, <1>4 DEF StepInv, InStep
<1>6. FlightsInStep' /\ FlightsAgree' /\ RacesKnown'
  BY <1>2 DEF StepInv, FlightsInStep, FlightsAgree, RacesKnown
<1>7. PurgeLeavesNothing' /\ ReconcilesInStep' /\ VisitsLayer' /\ DeletionsInStep'
  BY <1>3, AdminsWork DEF PurgeLeavesNothing, ReconcilesInStep, VisitsLayer, DeletionsInStep
<1>8. QED
  BY <1>5, <1>6, <1>7 DEF StepInv

-----------------------------------------------------------------------------
(* The purge.                                                                *)

LEMMA DisconnectStep ==
  ASSUME IInv, StepInv, NEW a \in Admins, Disconnect(a)
  PROVE  StepInv'
<1>1. UNCHANGED <<disk, rows, writer, holder, late, raced, pc, left, doomed, batch, listing, todo>>
  BY DEF Disconnect, fileVars, lockVars, histVars
<1>2. InFlight' = InFlight /\ \A k \in Keys : SizeInRow(k)' = SizeInRow(k)
  BY <1>1 DEF InFlight, SizeInRow
<1>3. \A m : Layer(Kind(m))' = Layer(Kind(m)) /\ Layer(Kind(m)) \subseteq Keys
  BY <1>1, KindType DEF Layer, Kind
<1>4. InStep' /\ FlightsInStep' /\ FlightsAgree' /\ RacesKnown' /\ DeletionsInStep' /\ VisitsLayer'
  BY <1>1, <1>2, <1>3 DEF StepInv, InStep, FlightsInStep, FlightsAgree, RacesKnown, DeletionsInStep, VisitsLayer
<1>5. PurgeLeavesNothing'
  <2>1. \A b \in Admins : ~cancelled'[b] => ~cancelled[b]
    BY AdminsWork DEF Disconnect, IInv, TypeOK, JobTypeOK
  <2>2. QED
    BY <1>1, <1>3, <2>1 DEF StepInv, PurgeLeavesNothing, Rowed, Files
<1>6. ReconcilesInStep'
  BY <1>1, <1>2, <1>3 DEF StepInv, ReconcilesInStep, ListingInStep, RowsInStep, ListedSize, LoadedSize, Listed, Loaded
<1>7. QED
  BY <1>4, <1>5, <1>6 DEF StepInv

\* A purge that finds no row left goes on to the files.
LEMMA LoadPurgeStep ==
  ASSUME IInv, IInv', StepInv, NEW a \in Admins, LoadPurge(a)
  PROVE  StepInv'
<1>1. a \in Maintainers /\ holder = a /\ doomed[a] = {}
  BY HolderActs, AdminsWork DEF LoadPurge, StepInv, DeletionsInStep
<1>2. UNCHANGED <<disk, rows, writer, holder, late, raced, doomed, left, cancelled>>
  BY DEF LoadPurge, fileVars, lockVars, histVars
<1>3. CASE pc'[a] # "clear"
  <2>1. pc'[a] = "purging"
    BY <1>1, <1>3 DEF LoadPurge, Load, IInv, TypeOK, JobTypeOK
  <2>2. QED
    BY <1>1, <1>2, <2>1, QuietMove
<1>4. CASE pc'[a] = "clear"
  <2>1. /\ cancelled[a] \/ Rowed(Layer(Kind(a))) = {}
        /\ todo'[a] = Layer(Kind(a))
    BY <1>1, <1>4 DEF LoadPurge, Load, OnDisk, IInv, TypeOK, JobTypeOK
  <2>2. \A n \in Maintainers \ {a} : pc'[n] \in {"boot", "rest"}
    BY <1>1, <1>2 DEF IInv, OneHolder
  <2>3. InFlight' = InFlight /\ \A k \in Keys : SizeInRow(k)' = SizeInRow(k)
    BY <1>2 DEF InFlight, SizeInRow
  <2>4. Layer(Kind(a))' = Layer(Kind(a))
    BY <1>2 DEF Layer, Kind
  <2>5. InStep' /\ FlightsInStep' /\ FlightsAgree' /\ RacesKnown'
    BY <1>2, <2>3 DEF StepInv, InStep, FlightsInStep, FlightsAgree, RacesKnown
  <2>6. PurgeLeavesNothing' /\ VisitsLayer'
    BY <1>1, <1>2, <2>1, <2>2, <2>4, AdminsWork DEF PurgeLeavesNothing, VisitsLayer, Rowed, Files
  <2>7. ReconcilesInStep' /\ DeletionsInStep'
    BY <1>1, <1>2, <1>4, <2>2, OthersRest DEF ReconcilesInStep, DeletionsInStep
  <2>8. QED
    BY <2>5, <2>6, <2>7 DEF StepInv
<1>5. QED
  BY <1>3, <1>4

LEMMA ClearPathStep ==
  ASSUME IInv, IInv', StepInv, NEW a \in Admins, NEW k \in Keys, ClearPath(a, k)
  PROVE  StepInv'
<1>1. /\ a \in Maintainers /\ holder = a /\ holder # Nobody /\ pc[a] = "clear" /\ doomed[a] = {}
      /\ k \in Layer(Kind(a)) /\ InFlight \subseteq late /\ late \subseteq raced
  BY HolderActs, AdminsWork, ActorsAssumption DEF ClearPath, StepInv, DeletionsInStep, VisitsLayer, RacesKnown
<1>2. UNCHANGED <<rows, writer, holder, pc, left, doomed, cancelled>>
  BY DEF ClearPath, lockVars
<1>3. /\ \A j \in Keys \ {k} : disk'[j] = disk[j]
      /\ \/ disk'[k] = 0 /\ late' = late /\ raced' = IF cancelled[a] THEN raced \cup {k} ELSE raced
         \/ disk'[k] = disk[k] /\ raced' = raced \cup {k} /\ late' = late \cup {k}
  <2>1. PICK stuck \in {FALSE, MayStick} :
           /\ disk' = IF stuck THEN disk ELSE [disk EXCEPT ![k] = 0]
           /\ raced' = IF stuck \/ cancelled[a] THEN raced \cup {k} ELSE raced
           /\ late' = IF stuck THEN late \cup {k} ELSE late
    BY DEF ClearPath
  <2>2. QED
    BY <2>1 DEF IInv, TypeOK, DataTypeOK
<1>4. \A n \in Maintainers \ {a} : pc'[n] \in {"boot", "rest"} /\ doomed[n] = {}
  BY <1>1, <1>2, OthersRest
<1>5. InFlight' = InFlight /\ \A j \in Keys : SizeInRow(j)' = SizeInRow(j)
  BY <1>2 DEF InFlight, SizeInRow
<1>6. Layer(Kind(a))' = Layer(Kind(a)) /\ Layer(Kind(a)) \subseteq Keys
  BY <1>2, KindType DEF Layer, Kind
<1>7. todo'[a] = todo[a] \ {k}
  BY <1>1 DEF ClearPath, IInv, TypeOK, JobTypeOK
<1>8. InStep'
  <2>1. SUFFICES ASSUME NEW j \in Keys \ (raced' \cup InFlight) PROVE disk'[j] = SizeInRow(j)
    BY <1>5 DEF InStep
  <2>2. j \notin raced
    BY <1>3, <2>1
  <2>3. disk[j] = SizeInRow(j)
    BY <1>1, <1>4, <2>1, <2>2 DEF StepInv, InStep
  <2>4. CASE j = k
    <3>1. ~cancelled[a] /\ disk'[k] = 0
      BY <1>3, <2>1, <2>4
    <3>2. rows[k] = NoRow
      BY <1>1, <2>2, <2>4, <3>1 DEF StepInv, PurgeLeavesNothing, Rowed
    <3>3. QED
      BY <2>4, <3>1, <3>2 DEF SizeInRow
  <2>5. CASE j # k
    BY <1>3, <2>3, <2>5
  <2>6. QED
    BY <2>4, <2>5
<1>9. FlightsAgree' /\ RacesKnown'
  BY <1>1, <1>2, <1>3, <1>5 DEF StepInv, FlightsAgree, RacesKnown
<1>10. FlightsInStep'
  <2>1. ASSUME NEW w \in Writers, writer[w].pc # "idle" PROVE writer[w].key \in raced'
    BY <1>1, <1>3, <2>1, FlightsRace DEF StepInv
  <2>2. QED
    BY <1>2, <2>1 DEF FlightsInStep
<1>11. DeletionsInStep' /\ ReconcilesInStep'
  BY <1>1, <1>2, <1>4 DEF DeletionsInStep, ReconcilesInStep
<1>12. VisitsLayer'
  BY <1>1, <1>4, <1>6, <1>7 DEF StepInv, VisitsLayer
<1>13. PurgeLeavesNothing'
  <2>1. SUFFICES ASSUME ~cancelled[a]
                 PROVE  /\ Rowed(Layer(Kind(a))) \subseteq late'
                        /\ \A j \in Layer(Kind(a)) : disk'[j] # 0 => j \in late' \cup todo'[a]
    BY <1>2, <1>4, <1>6, AdminsWork DEF PurgeLeavesNothing, Rowed, Files
  <2>2. Rowed(Layer(Kind(a))) \subseteq late /\ Files(Layer(Kind(a))) \subseteq late \cup todo[a]
    BY <1>1, <2>1 DEF StepInv, PurgeLeavesNothing
  <2>3. QED
    BY <1>3, <1>6, <1>7, <2>2 DEF Files
<1>14. QED
  BY <1>8, <1>9, <1>10, <1>11, <1>12, <1>13 DEF StepInv

-----------------------------------------------------------------------------
LEMMA RestartStep ==
  ASSUME IInv, IInv', NEW kept \in SUBSET Keys, Restart(kept)
  PROVE  StepInv'
<1>1. /\ raced' = Keys /\ holder' = Nobody
      /\ \A w \in Writers : writer'[w].pc = "idle"
      /\ \A m \in Maintainers : pc'[m] \in {"boot", "rest"} /\ doomed'[m] = {}
  BY IdleType DEF Restart
<1>2. InStep' /\ FlightsInStep' /\ FlightsAgree' /\ RacesKnown'
  BY <1>1 DEF InStep, FlightsInStep, FlightsAgree, RacesKnown
<1>3. PurgeLeavesNothing' /\ ReconcilesInStep' /\ VisitsLayer' /\ DeletionsInStep'
  BY <1>1, AdminsWork DEF PurgeLeavesNothing, ReconcilesInStep, VisitsLayer, DeletionsInStep
<1>4. QED
  BY <1>2, <1>3 DEF StepInv

LEMMA InitStep == Init => StepInv
<1> SUFFICES ASSUME Init PROVE StepInv
  OBVIOUS
<1>1. /\ holder = Nobody /\ \A k \in Keys : disk[k] = 0 /\ SizeInRow(k) = 0
      /\ \A w \in Writers : writer[w].pc = "idle"
      /\ \A m \in Maintainers : pc[m] \in {"boot", "rest"} /\ doomed[m] = {}
  BY IdleType DEF Init, SizeInRow
<1>2. InStep /\ FlightsInStep /\ FlightsAgree /\ RacesKnown
  BY <1>1 DEF InStep, FlightsInStep, FlightsAgree, RacesKnown
<1>3. PurgeLeavesNothing /\ ReconcilesInStep /\ VisitsLayer /\ DeletionsInStep
  BY <1>1, AdminsWork DEF PurgeLeavesNothing, ReconcilesInStep, VisitsLayer, DeletionsInStep
<1>4. QED
  BY <1>2, <1>3 DEF StepInv

LEMMA HitsStep ==
  ASSUME IInv, StepInv, (\E k \in ReadKeys : TryRead(k)) \/ Drain \/ FlushHits \/ Tick \/ UNCHANGED vars
  PROVE  StepInv'
<1>1. UNCHANGED <<disk, writer, holder, late, raced, jobVars>>
  BY DEF TryRead, Drain, FlushHits, Tick, vars, fileVars, lockVars, histVars
<1>2. \A k \in Keys : /\ rows'[k] = NoRow <=> rows[k] = NoRow
                      /\ rows[k] # NoRow => rows'[k].size = rows[k].size
  <2>1. CASE FlushHits
    <3>1. SUFFICES ASSUME NEW k \in Keys, rows[k] # NoRow
                   PROVE  rows'[k] # NoRow /\ rows'[k].size = rows[k].size
      BY <2>1 DEF FlushHits
    <3>2. rows[k] \in Row
      BY <3>1 DEF IInv, TypeOK, DataTypeOK
    <3> DEFINE new == [rows[k] EXCEPT !.access = Larger(@, drained[k])]
    <3>3. new \in Row /\ new # NoRow /\ new.size = rows[k].size
      BY <3>2, RowAssumption DEF Larger, Row, IInv, TypeOK, DataTypeOK
    <3>4. rows'[k] = new
      BY <2>1, <3>1 DEF FlushHits
    <3>5. QED
      BY <3>3, <3>4
  <2>2. CASE (\E k \in ReadKeys : TryRead(k)) \/ Drain \/ Tick \/ UNCHANGED vars
    BY <2>2 DEF TryRead, Drain, Tick, vars, fileVars
  <2>3. QED
    BY <2>1, <2>2
<1>3. QED
  BY <1>1, <1>2, QuietStep

LEMMA NextStep == IInv /\ IInv' /\ StepInv /\ [Next]_vars => StepInv'
<1> SUFFICES ASSUME IInv, IInv', StepInv, [Next]_vars PROVE StepInv'
  OBVIOUS
<1> Sweeper \in Maintainers /\ Admins \subseteq Maintainers
  BY AdminsWork
<1>1. ASSUME NEW w \in Writers, Register(w) PROVE StepInv'
  BY <1>1, RegisterLoadStep, RegisterInsertStep, RegisterUpdateStep, RegisterEndStep DEF Register
<1>2. ASSUME NEW w \in Writers, NEW k \in Keys, NEW s \in SizesOf[k], WriteFile(w, k, s) PROVE StepInv'
  BY <1>2, WriteFileStep
<1>3. CASE (\E k \in ReadKeys : TryRead(k)) \/ Drain \/ FlushHits \/ Tick \/ UNCHANGED vars
  BY <1>3, HitsStep
<1>4. CASE Sweep
  <2>1. CASE StartReconcile \/ StartEvict
    <3>1. PICK start \in {"list", "expire", "purge"} : Acquire(Sweeper, start, Kinds)
      BY <2>1 DEF StartReconcile, StartEvict
    <3>2. QED
      BY <3>1, AcquireStep
  <2>2. CASE Reconcile(Sweeper)
    BY <2>2, ListFilesStep, MatchRowsStep, MergeRowsStep, AbandonStep DEF Reconcile
  <2>3. CASE Evict(Sweeper)
    BY <2>3, ReadStep, VictimStep, SaveStep DEF Evict
  <2>4. QED
    BY <1>4, <2>1, <2>2, <2>3 DEF Sweep
<1>5. ASSUME NEW a \in Admins, Purge(a) \/ Disconnect(a) PROVE StepInv'
  BY <1>5, LoadPurgeStep, VictimStep, SaveStep, AbandonStep, ClearPathStep, ReadStep, DisconnectStep DEF Purge
<1>6. ASSUME NEW a \in Admins, NEW kinds \in {{"render"}, Kinds}, StartPurge(a, kinds) PROVE StepInv'
  BY <1>6, AcquireStep DEF StartPurge
<1>7. ASSUME NEW kept \in SUBSET Keys, Restart(kept) PROVE StepInv'
  BY <1>7, RestartStep
<1>8. QED
  BY <1>1, <1>2, <1>3, <1>4, <1>5, <1>6, <1>7 DEF Next

\* The two invariants hold together in every reachable state.
THEOREM StepInvariance == Spec => []SInv
<1>1. Init => SInv
  BY InitInv, InitStep DEF SInv
<1>2. SInv /\ [Next]_vars => SInv'
  BY NextInv, NextStep DEF SInv
<1>3. QED
  BY <1>1, <1>2, PTL DEF Spec

\* Whatever requests, sweeps, purges, kills and lost files do to each other, a key
\* whose write no maintenance pass overlapped has a file and a row that agree.
THEOREM KeptInStep == Spec => []InStep
<1>1. SInv => InStep
  BY DEF SInv, StepInv
<1>2. QED
  BY <1>1, StepInvariance, PTL

\* A purge that nobody cancelled leaves no row and no file of its layer but those
\* written meanwhile and those the file system would not delete (PurgeAsync).
THEOREM PurgeIsThorough == Spec => []PurgeLeavesNothing
<1>1. SInv => PurgeLeavesNothing
  BY DEF SInv, StepInv
<1>2. QED
  BY <1>1, StepInvariance, PTL

-----------------------------------------------------------------------------
(* The victims.  While a batch is being evicted, no row outside it was served   *)
(* before one that is in it, and none of its rows has been served less since    *)
(* it was loaded; rows being written are not compared.                          *)

BatchIsColdest(m) ==
    /\ \A k \in Loaded(m) \ late : rows[k].access >= batch[m][k].access
    /\ \A k \in Loaded(m) : \A j \in Rowed(Layer(Kind(m))) \ (Loaded(m) \cup doomed[m] \cup late) :
          rows[j].access >= batch[m][k].access
ColdInv == \A m \in Maintainers : pc[m] = "evicting" => BatchIsColdest(m)

\* EvictsColdest, of one step.
PicksColdest ==
    \A m \in Maintainers : \A k \in doomed'[m] \ doomed[m] : pc[m] = "evicting" =>
        \A j \in Rowed(Layer(Kind(m))) \ (doomed[m] \cup late) : rows[j].access >= batch[m][k].access

\* Times are numbers.
LEMMA Times ==
  ASSUME IInv
  PROVE  /\ \A k \in Keys : rows[k] # NoRow => rows[k] \in Row /\ rows[k].access \in Nat
         /\ \A m \in Maintainers, k \in Keys : k \in Loaded(m) => batch[m][k] \in Row /\ batch[m][k].access \in Nat
         /\ \A m \in Maintainers : Loaded(m) \subseteq Rowed(Keys)
<1>1. \A k \in Keys : rows[k] # NoRow => rows[k] \in Row
  BY DEF IInv, TypeOK, DataTypeOK
<1>2. \A m \in Maintainers, k \in Keys : k \in Loaded(m) => batch[m][k] \in Row
  BY DEF IInv, TypeOK, JobTypeOK
<1>3. QED
  BY <1>1, <1>2 DEF Row, IInv, SavesNeverConflict

\* Traffic, hits and time: what is served meanwhile only gets warmer, and what is
\* written is not compared.
LEMMA TrafficIsWarm ==
  ASSUME IInv, IInv', StepInv, ColdInv, UNCHANGED <<pc, left, batch, doomed>>, late \subseteq late',
         \A k \in Keys \ InFlight :
             \/ rows'[k] = rows[k]
             \/ rows[k] # NoRow /\ rows'[k] # NoRow /\ rows'[k].access >= rows[k].access
  PROVE  ColdInv' /\ PicksColdest
<1>1. PicksColdest
  BY DEF PicksColdest
<1>2. SUFFICES ASSUME NEW m \in Maintainers, pc[m] = "evicting" PROVE BatchIsColdest(m)'
  BY <1>1 DEF ColdInv
<1>3. InFlight \subseteq late
  BY <1>2, HolderActs, ActorsAssumption DEF StepInv, RacesKnown
<1>4. Loaded(m)' = Loaded(m) /\ Layer(Kind(m))' = Layer(Kind(m)) /\ Layer(Kind(m)) \subseteq Keys
  BY KindType DEF Loaded, Layer, Kind
<1>5. ASSUME NEW j \in Keys \ late', rows'[j] # NoRow, NEW n \in Nat, rows[j] # NoRow => rows[j].access >= n
      PROVE  rows[j] # NoRow /\ rows'[j].access >= n
  <2>1. rows[j] # NoRow
    BY <1>3, <1>5
  <2>2. rows[j].access \in Nat /\ rows'[j].access \in Nat
    BY <1>5, <2>1, Times DEF IInv, TypeOK, DataTypeOK, Row
  <2>3. rows'[j].access >= rows[j].access
    BY <1>3, <2>2
  <2>4. QED
    BY <1>5, <2>1, <2>2, <2>3
<1>6. BatchIsColdest(m)
  BY <1>2 DEF ColdInv
<1>7. \A k \in Loaded(m) \ late' : rows'[k].access >= batch[m][k].access
  <2>1. ASSUME NEW k \in Loaded(m) \ late' PROVE rows'[k].access >= batch[m][k].access
    <3>1. k \in Keys /\ rows'[k] # NoRow /\ batch[m][k].access \in Nat
      BY <1>4, Times DEF IInv, SavesNeverConflict, Rowed
    <3>2. rows[k].access >= batch[m][k].access
      BY <1>6 DEF BatchIsColdest
    <3>3. QED
      BY <1>5, <3>1, <3>2
  <2>2. QED
    BY <2>1
<1>8. ASSUME NEW k \in Loaded(m), NEW j \in Layer(Kind(m)) \ (Loaded(m) \cup doomed[m] \cup late'), rows'[j] # NoRow
      PROVE  rows'[j].access >= batch[m][k].access
  <2>1. k \in Keys /\ batch[m][k].access \in Nat
    BY Times DEF Rowed
  <2>2. rows[j] # NoRow => rows[j].access >= batch[m][k].access
    BY <1>6, <1>8 DEF BatchIsColdest, Rowed
  <2>3. QED
    BY <1>4, <1>5, <1>8, <2>1, <2>2
<1>9. QED
  BY <1>4, <1>7, <1>8 DEF BatchIsColdest, Rowed

\* A step of the holder from and to another place than "evicting".
LEMMA HolderElsewhere ==
  ASSUME IInv, IInv', NEW m \in Maintainers, holder \in {m, Nobody}, holder' \in {m, Nobody},
         pc[m] # "evicting", pc'[m] # "evicting"
  PROVE  ColdInv' /\ PicksColdest
<1>1. \A n \in Maintainers : pc[n] # "evicting"
  BY HolderActs, ActorsAssumption
<1>2. \A n \in Maintainers : pc'[n] # "evicting"
  BY ActorsAssumption DEF IInv, OneHolder
<1>3. QED
  BY <1>1, <1>2 DEF ColdInv, PicksColdest

LEMMA LoadColdestPicks ==
  ASSUME IInv, IInv', NEW m \in Maintainers, LoadColdest(m)
  PROVE  ColdInv' /\ PicksColdest
<1> DEFINE S == Rowed(Layer(Kind(m)))
<1>1. /\ holder = m /\ UNCHANGED <<rows, holder, left, doomed, late>>
      /\ pc' = [pc EXCEPT ![m] = "evicting"]
  BY HolderActs DEF LoadColdest, Load, fileVars, lockVars, histVars
<1>2. PICK B \in SUBSET S : /\ \A k \in B, j \in S \ B : Access(rows[k]) <= Access(rows[j])
                            /\ batch' = [batch EXCEPT ![m] = [k \in B |-> rows[k]]]
  BY DEF LoadColdest, Load, IsBatch
<1>3. batch'[m] = [k \in B |-> rows[k]] /\ Loaded(m)' = B
  BY <1>2 DEF IInv, TypeOK, JobTypeOK, Loaded
<1>4. S' = S /\ S \subseteq Rowed(Keys)
  BY <1>1, KindType DEF Rowed, Layer, Kind
<1>5. \A k \in S : rows[k].access \in Nat
  BY <1>4, Times DEF Rowed
<1> HIDE DEF S
<1>6. \A k \in B : batch'[m][k] = rows[k]
  BY <1>3
<1>7. \A k \in B, j \in S \ B : rows[j].access >= rows[k].access
  BY <1>2, <1>5 DEF Access
<1>8. BatchIsColdest(m)'
  BY <1>1, <1>3, <1>4, <1>5, <1>6, <1>7 DEF BatchIsColdest, S
<1>9. \A n \in Maintainers \ {m} : pc'[n] # "evicting"
  BY <1>1 DEF IInv, OneHolder
<1>10. QED
  BY <1>1, <1>8, <1>9 DEF ColdInv, PicksColdest

\* The coldest of the batch is taken, hence the coldest of the layer.
LEMMA EvictVictimPicks ==
  ASSUME IInv, IInv', ColdInv, NEW m \in Maintainers, EvictVictim(m)
  PROVE  ColdInv' /\ PicksColdest
<1>1. holder = m /\ pc[m] = "evicting" /\ BatchIsColdest(m)
  BY HolderActs DEF EvictVictim, ColdInv
<1>2. PICK k \in Keys : /\ Victim(m, k)
                        /\ \A j \in Loaded(m) : Access(batch[m][k]) <= Access(batch[m][j])
  BY DEF EvictVictim, DeleteVictim, Victim, Loaded
<1>3. UNCHANGED <<rows, holder, pc, left>> /\ k \in Loaded(m) /\ late \subseteq late'
  BY <1>2 DEF Victim, lockVars, Loaded
<1>4. /\ doomed'[m] = doomed[m] \cup {k} /\ Loaded(m)' = Loaded(m) \ {k}
      /\ \A j \in Loaded(m) \ {k} : batch'[m][j] = batch[m][j]
      /\ \A n \in Maintainers \ {m} : doomed'[n] = doomed[n] /\ pc'[n] # "evicting"
  BY <1>1, <1>2, <1>3, SMTT(30) DEF Victim, IInv, OneHolder, TypeOK, JobTypeOK, Loaded
<1>5. Rowed(Layer(Kind(m)))' = Rowed(Layer(Kind(m))) /\ Layer(Kind(m)) \subseteq Keys
  BY <1>3, KindType DEF Rowed, Layer, Kind
<1>6. BatchIsColdest(m)'
  BY <1>1, <1>3, <1>4, <1>5 DEF BatchIsColdest
<1>7. ASSUME NEW j \in Rowed(Layer(Kind(m))) \ (doomed[m] \cup late)
      PROVE  rows[j].access >= batch[m][k].access
  <2>1. CASE j \notin Loaded(m)
    BY <1>1, <1>3, <1>7, <2>1 DEF BatchIsColdest
  <2>2. CASE j \in Loaded(m)
    <3>1. rows[j].access >= batch[m][j].access
      BY <1>1, <1>7, <2>2 DEF BatchIsColdest
    <3>2. batch[m][k].access <= batch[m][j].access
      BY <1>2, <2>2 DEF Access
    <3>3. j \in Keys /\ rows[j] # NoRow
      BY <1>5, <1>7 DEF Rowed
    <3>4. rows[j].access \in Nat /\ batch[m][j].access \in Nat /\ batch[m][k].access \in Nat
      BY <1>3, <2>2, <3>3, Times
    <3>5. QED
      BY <3>1, <3>2, <3>4
  <2>3. QED
    BY <2>1, <2>2
<1>8. ColdInv'
  BY <1>4, <1>6 DEF ColdInv
<1>9. PicksColdest
  BY <1>4, <1>7 DEF PicksColdest
<1>10. QED
  BY <1>8, <1>9

LEMMA SaveEvictedPicks ==
  ASSUME IInv, IInv', NEW m \in Maintainers, SaveEvicted(m)
  PROVE  ColdInv' /\ PicksColdest
<1>1. holder = m /\ SaveDeletes(m, "trim")
  BY HolderActs DEF SaveEvicted
<1>2. Deletable(m)
  BY DEF Deletable, IInv, SavesNeverConflict
<1>3. doomed' = [doomed EXCEPT ![m] = {}] /\ pc' = [pc EXCEPT ![m] = "trim"] /\ holder' = m
  BY <1>1, <1>2 DEF SaveDeletes, lockVars
<1>4. \A n \in Maintainers : pc'[n] # "evicting" /\ doomed'[n] \subseteq doomed[n]
  BY <1>1, <1>3 DEF IInv, OneHolder, TypeOK, JobTypeOK
<1>5. QED
  BY <1>4 DEF ColdInv, PicksColdest

\* The other steps of maintenance.
LEMMA MaintenanceElsewhere ==
  ASSUME IInv, IInv', NEW m \in Maintainers,
         \/ \E start \in {"list", "expire", "purge"}, layers \in SUBSET Kinds : Acquire(m, start, layers)
         \/ Reconcile(m)
         \/ LoadExpired(m) \/ ExpireVictim(m) \/ SaveExpired(m) \/ MeasureUsage(m) \/ SkipLayer(m) \/ EndEvict(m)
         \/ Purge(m)
  PROVE  ColdInv' /\ PicksColdest
<1> USE DEF IInv, TypeOK, JobTypeOK
<1>1. CASE \E start \in {"list", "expire", "purge"}, layers \in SUBSET Kinds : Acquire(m, start, layers)
  <2>1. PICK start \in {"list", "expire", "purge"} :
           holder = Nobody /\ holder' = m /\ pc' = [pc EXCEPT ![m] = start]
    BY <1>1 DEF Acquire, LockFree
  <2>2. pc[m] # "evicting" /\ pc'[m] # "evicting"
    BY <2>1, ActorsAssumption DEF OneHolder
  <2>3. QED
    BY <2>1, <2>2, HolderElsewhere
<1>2. ASSUME pc[m] \notin {"boot", "rest", "evicting"}, holder' \in {m, Nobody}, pc'[m] # "evicting"
      PROVE  ColdInv' /\ PicksColdest
  BY <1>2, HolderActs, HolderElsewhere
<1>3. CASE ListFiles(m) \/ MatchRows(m) \/ MergeRows(m) \/ MergeFails(m)
  <2>1. pc[m] \in {"list", "match", "merge"}
    BY <1>3 DEF ListFiles, MatchRows, MergeRows, MergeFails
  <2>2. pc'[m] \in {"list", "match", "merge", "rest"}
    BY <1>3 DEF ListFiles, MatchRows, MergeRows, MergeFails, Abandon, Release
  <2>3. holder' \in {holder, Nobody}
    BY <1>3 DEF ListFiles, MatchRows, MergeRows, MergeFails, Abandon, Release, lockVars
  <2>4. holder = m
    BY <2>1, HolderActs
  <2>5. QED
    BY <1>2, <2>1, <2>2, <2>3, <2>4
<1>4. CASE LoadExpired(m) \/ ExpireVictim(m) \/ SaveExpired(m)
  <2>1. pc[m] \in {"expire", "expiring"} /\ holder = m
    BY <1>4, HolderActs DEF LoadExpired, ExpireVictim, SaveExpired
  <2>2. pc'[m] \in {"expire", "expiring", "usage", "rest"}
    <3>1. CASE LoadExpired(m) \/ ExpireVictim(m)
      BY <2>1, <3>1 DEF LoadExpired, Load, ExpireVictim, DeleteVictim
    <3>2. CASE SaveExpired(m)
      BY <3>2 DEF SaveExpired, SaveDeletes, Abandon, Release
    <3>3. QED
      BY <1>4, <3>1, <3>2
  <2>3. holder' \in {holder, Nobody}
    BY <1>4 DEF LoadExpired, ExpireVictim, DeleteVictim, SaveExpired, SaveDeletes, Abandon, Release, lockVars
  <2>4. QED
    BY <1>2, <2>1, <2>2, <2>3
<1>5. CASE MeasureUsage(m) \/ SkipLayer(m) \/ EndEvict(m)
  <2>1. pc[m] \in {"usage", "layer", "trim"} /\ holder = m
    BY <1>5, HolderActs DEF MeasureUsage, SkipLayer, EndEvict
  <2>2. pc'[m] \in {"layer", "rest"}
    BY <1>5 DEF MeasureUsage, SkipLayer, EndEvict, Release
  <2>3. holder' \in {holder, Nobody}
    BY <1>5 DEF MeasureUsage, SkipLayer, EndEvict, Release, lockVars
  <2>4. QED
    BY <1>2, <2>1, <2>2, <2>3
<1>6. CASE Purge(m)
  <2>1. pc[m] \in {"purge", "purging", "clear"} /\ holder = m
    BY <1>6, HolderActs DEF Purge, LoadPurge, PurgeVictim, SavePurged, PurgeCancelled, ClearPath, EndLayer
  <2>2. pc'[m] \in {"purge", "purging", "clear", "rest"}
    <3>1. CASE LoadPurge(m) \/ SavePurged(m) \/ PurgeCancelled(m) \/ EndLayer(m)
      BY <3>1 DEF LoadPurge, Load, SavePurged, SaveDeletes, PurgeCancelled, EndLayer, Abandon, Release
    <3>2. CASE PurgeVictim(m) \/ \E k \in Keys : ClearPath(m, k)
      BY <2>1, <3>2 DEF PurgeVictim, DeleteVictim, ClearPath
    <3>3. QED
      BY <1>6, <3>1, <3>2 DEF Purge
  <2>3. holder' \in {holder, Nobody}
    BY <1>6 DEF Purge, LoadPurge, PurgeVictim, DeleteVictim, SavePurged, SaveDeletes, PurgeCancelled, ClearPath,
                EndLayer, Abandon, Release, lockVars
  <2>4. QED
    BY <1>2, <2>1, <2>2, <2>3
<1>7. QED
  BY <1>1, <1>3, <1>4, <1>5, <1>6 DEF Reconcile

LEMMA ColdStep == IInv /\ IInv' /\ StepInv /\ ColdInv /\ [Next]_vars => ColdInv' /\ PicksColdest
<1> SUFFICES ASSUME IInv, IInv', StepInv, ColdInv, [Next]_vars PROVE ColdInv' /\ PicksColdest
  OBVIOUS
<1> Sweeper \in Maintainers /\ Admins \subseteq Maintainers
  BY AdminsWork
<1>1. ASSUME NEW w \in Writers, Register(w) PROVE ColdInv' /\ PicksColdest
  <2>1. UNCHANGED <<pc, left, batch, doomed, late>>
    BY <1>1 DEF Register, RegisterLoad, RegisterInsert, RegisterUpdate, RegisterConflict, AnswerError, jobVars, histVars
  <2>2. writer[w].pc # "idle" /\ writer[w].key \in InFlight
    BY <1>1 DEF Register, RegisterLoad, RegisterInsert, RegisterUpdate, RegisterConflict, AnswerError,
                InFlight, IInv, TypeOK, DataTypeOK
  <2>3. (\E row : rows' = [rows EXCEPT ![writer[w].key] = row]) \/ UNCHANGED rows
    BY <1>1 DEF Register, RegisterLoad, RegisterInsert, RegisterUpdate, RegisterConflict, AnswerError, fileVars
  <2>4. \A k \in Keys \ InFlight : rows'[k] = rows[k]
    BY <2>2, <2>3 DEF IInv, TypeOK, DataTypeOK
  <2>5. QED
    BY <2>1, <2>4, TrafficIsWarm
<1>2. ASSUME NEW w \in Writers, NEW k \in Keys, NEW s \in SizesOf[k], WriteFile(w, k, s)
      PROVE  ColdInv' /\ PicksColdest
  <2>1. UNCHANGED <<pc, left, batch, doomed, rows>> /\ late \subseteq late'
    BY <1>2 DEF WriteFile, jobVars
  <2>2. QED
    BY <2>1, TrafficIsWarm
<1>3. CASE (\E k \in ReadKeys : TryRead(k)) \/ Drain \/ Tick \/ UNCHANGED vars \/ \E a \in Admins : Disconnect(a)
  <2>1. UNCHANGED <<pc, left, batch, doomed, late, rows>>
    BY <1>3 DEF TryRead, Drain, Tick, Disconnect, vars, fileVars, jobVars, histVars
  <2>2. QED
    BY <2>1, TrafficIsWarm
<1>4. CASE FlushHits
  <2>1. UNCHANGED <<pc, left, batch, doomed, late>>
    BY <1>4 DEF FlushHits, jobVars, histVars
  <2>2. ASSUME NEW k \in Keys, rows[k] # NoRow
        PROVE  rows'[k] # NoRow /\ rows'[k].access >= rows[k].access
    <3> DEFINE new == [rows[k] EXCEPT !.access = Larger(@, drained[k])]
    <3>1. rows[k] \in Row /\ drained[k] \in Nat
      BY <2>2 DEF IInv, TypeOK, DataTypeOK
    <3>2. new \in Row /\ new # NoRow /\ new.access >= rows[k].access
      BY <3>1, RowAssumption DEF Larger, Row
    <3>3. rows'[k] = new
      BY <1>4, <2>2 DEF FlushHits
    <3>4. QED
      BY <3>2, <3>3
  <2>3. \A k \in Keys : rows[k] = NoRow => rows'[k] = rows[k]
    BY <1>4 DEF FlushHits
  <2>4. QED
    BY <2>1, <2>2, <2>3, TrafficIsWarm
<1>5. CASE Sweep
  <2>1. CASE StartReconcile \/ StartEvict
    <3>1. PICK start \in {"list", "expire", "purge"}, layers \in SUBSET Kinds : Acquire(Sweeper, start, layers)
      BY <2>1 DEF StartReconcile, StartEvict
    <3>2. QED
      BY <3>1, MaintenanceElsewhere
  <2>2. CASE Reconcile(Sweeper)
    BY <2>2, MaintenanceElsewhere
  <2>3. CASE Evict(Sweeper)
    BY <2>3, MaintenanceElsewhere, LoadColdestPicks, EvictVictimPicks, SaveEvictedPicks DEF Evict
  <2>4. QED
    BY <1>5, <2>1, <2>2, <2>3 DEF Sweep
<1>6. ASSUME NEW a \in Admins, Purge(a) PROVE ColdInv' /\ PicksColdest
  BY <1>6, MaintenanceElsewhere
<1>7. ASSUME NEW a \in Admins, NEW kinds \in {{"render"}, Kinds}, StartPurge(a, kinds)
      PROVE  ColdInv' /\ PicksColdest
  <2>1. kinds \in SUBSET Kinds /\ Acquire(a, "purge", kinds)
    BY <1>7 DEF StartPurge, Kinds
  <2>2. PICK start \in {"list", "expire", "purge"}, layers \in SUBSET Kinds : Acquire(a, start, layers)
    BY <2>1
  <2>3. QED
    BY <2>2, MaintenanceElsewhere
<1>8. ASSUME NEW kept \in SUBSET Keys, Restart(kept) PROVE ColdInv' /\ PicksColdest
  BY <1>8 DEF Restart, ColdInv, PicksColdest
<1>9. QED
  BY <1>1, <1>2, <1>3, <1>4, <1>5, <1>6, <1>7, <1>8 DEF Next

\* No entry is evicted while one left in its layer has a last access older than the
\* victim's as loaded with its batch, whatever is flushed between the load and the
\* batch's last victim (EvictCoreAsync).  It says nothing of a hit of the victim
\* itself that is flushed in between.
THEOREM VictimsAreColdest == Spec => EvictsColdest
<1>1. Init => SInv /\ ColdInv
  BY InitInv, InitStep DEF SInv, Init, ColdInv
<1>2. SInv /\ ColdInv /\ [Next]_vars => (SInv /\ ColdInv)' /\ [PicksColdest]_vars
  BY NextInv, NextStep, ColdStep DEF SInv
<1>3. QED
  BY <1>1, <1>2, PTL DEF Spec, EvictsColdest, PicksColdest
=============================================================================
