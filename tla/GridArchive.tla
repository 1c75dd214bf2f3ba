---------------------------- MODULE GridArchive ----------------------------
(* The archive of grid changes on Arweave.  Transactions that change a grid
   merge the change into its row of hex_grid_pending; every ten minutes a cron
   run uploads all pending rows as one Arweave transaction, saves references to
   it and empties the table.  A script does the same with all grids.

   A change is a number; the properties of a pending row are the set of changes
   merged into it.  Archiving may be switched off and on: the uploads go on, and
   changes are not queued meanwhile.  MySQL runs at REPEATABLE READ: a transaction
   reads from the snapshot of its first query.  It holds the rows it has written, and
   a metadata lock on every table it has used, until it ends.  The pendings are emptied
   with TRUNCATE, which commits the transaction that runs it, then waits for the
   transactions that have used the table and holds up those to come. *)
EXTENDS Naturals, Sequences, FiniteSets

CONSTANTS
  MaxGrids,     \* bound: grids
  Writers,      \* transactions of occupy and updateByUserId that may be open
  CronRuns,     \* runs of HexGridScheduler.handleBatchUpload that may overlap
  ScriptRuns,   \* runs of upload-hex-grids-to-arweave.ts
  MaxChanges,   \* bound: transactions that change a grid
  MaxUploads,   \* bound: transactions on Arweave
  MaxToggles,   \* bound: edits of upload_to_arweave
  MaxCrashes    \* bound: crashes of the processes

ASSUME BoundsAssumption ==
  /\ MaxGrids \in Nat /\ MaxChanges \in Nat /\ MaxUploads \in Nat
  /\ MaxToggles \in Nat /\ MaxCrashes \in Nat
ASSUME RunsAssumption == CronRuns \cap ScriptRuns = {}
ASSUME WritersAssumption == Writers \cap (CronRuns \cup ScriptRuns) = {}

Grids   == 1 .. MaxGrids
Runs    == CronRuns \cup ScriptRuns
Changes == 1 .. MaxChanges

VARIABLES
  done,        \* changes committed to each grid; none: not occupied yet
  pending,     \* hex_grid_pending: changes merged in each grid's row; none: no row
  ref,         \* hex_grid_transaction_reference: latest tx of each grid; 0: none
  batches,     \* hex_grid_batch_tx: ids and txs in the order of their commits
  lastId,      \* AUTO_INCREMENT of hex_grid_batch_tx
  arweave,     \* transactions on Arweave; a tx is its position
  wr,          \* open transactions that change a grid
  run,         \* upload runs
  lastChange,  \* number of the last change begun
  exposed,     \* history: changes committed during an upload run, or while
               \* another transaction on the same grid was open
  archiving,   \* what isUploadToArweaveEnabled answers
  skipped,     \* history: changes not queued because it was off
  toggles,     \* edits of it so far
  crashes      \* crashes so far

vars == <<done, pending, ref, batches, lastId, arweave, wr, run, lastChange, exposed,
          archiving, skipped, toggles, crashes>>
tables == <<done, pending, ref, batches, lastId>>
switch == <<archiving, skipped, toggles>>

NoWriter == [phase |-> "idle"]
NoRun    == [phase |-> "idle"]

\* An open transaction: the change it makes to a grid, and the pending row its
\* snapshot shows or, once "queued", the one it has written.
Writer == [phase : {"opened", "locked", "looked", "queued", "skipped"}, grid : Grids,
           change : Changes, row : SUBSET Changes]

\* An upload: what it read in its snapshot, its transaction on Arweave, and while it
\* is "saving" the id of its batch and the references it has written.
Upload == [phase : {"read", "uploaded", "saving", "committed", "truncating"},
           items : [Grids -> SUBSET Changes], prev : [Grids -> 0 .. MaxUploads],
           prevBatch : 0 .. MaxUploads, tx : 0 .. MaxUploads,
           batch : Nat, saved : SUBSET Grids]

Batch == [id : Nat \ {0}, tx : 1 .. MaxUploads]

ArweaveTx == [items : [Grids -> SUBSET Changes], prev : [Grids -> 0 .. MaxUploads],
              prevBatch : 0 .. MaxUploads]

TypeOK ==
  /\ done \in [Grids -> SUBSET Changes]
  /\ pending \in [Grids -> SUBSET Changes]
  /\ ref \in [Grids -> 0 .. MaxUploads]
  /\ batches \in Seq(Batch)
  /\ lastId \in Nat
  /\ arweave \in Seq(ArweaveTx)
  /\ wr \in [Writers -> Writer \cup {NoWriter}]
  /\ run \in [Runs -> Upload \cup {NoRun}]
  /\ lastChange \in 0 .. MaxChanges
  /\ exposed \subseteq Changes
  /\ archiving \in BOOLEAN
  /\ skipped \subseteq Changes
  /\ toggles \in 0 .. MaxToggles
  /\ crashes \in 0 .. MaxCrashes
-----------------------------------------------------------------------------
Init ==
  /\ done = [g \in Grids |-> {}]
  /\ pending = [g \in Grids |-> {}]
  /\ ref = [g \in Grids |-> 0]
  /\ batches = << >>
  /\ lastId = 0
  /\ arweave = << >>
  /\ wr = [w \in Writers |-> NoWriter]
  /\ run = [u \in Runs |-> NoRun]
  /\ lastChange = 0
  /\ exposed = {}
  /\ archiving \in BOOLEAN
  /\ skipped = {}
  /\ toggles = 0
  /\ crashes = 0

\* A TRUNCATE waits for the table, and whoever asks for the table next waits
\* behind it.
Truncating    == {u \in Runs : run[u].phase = "truncating"}
TruncateWaits == Truncating # {}

Busy(w)   == wr[w].phase # "idle"
Active(u) == run[u].phase # "idle"
OpenOn(g) == {w \in Writers : Busy(w) /\ wr[w].grid = g}

Begin(w, g, row, phase) ==
  /\ ~Busy(w)
  /\ lastChange < MaxChanges
  /\ lastChange' = lastChange + 1
  /\ wr' = [wr EXCEPT ![w] = [phase |-> phase, grid |-> g, change |-> lastChange', row |-> row]]
  /\ UNCHANGED <<tables, arweave, run, exposed, crashes, switch>>

\* occupy inserts the grid's row: no other transaction sees it before the commit.
BeginOccupy(w, g) ==
  /\ done[g] = {} /\ OpenOn(g) = {}
  /\ Begin(w, g, {}, "locked")

\* updateByUserId finds the grid; its snapshot is taken here.
BeginUpdate(w, g) ==
  /\ done[g] # {}
  /\ Begin(w, g, pending[g], "opened")

\* UPDATE hex_grid: waits for the row lock of another transaction on the grid.
UpdateGrid(w) ==
  /\ wr[w].phase = "opened"
  /\ \A v \in OpenOn(wr[w].grid) : wr[v].phase = "opened"
  /\ wr' = [wr EXCEPT ![w].phase = "locked"]
  /\ UNCHANGED <<tables, arweave, run, lastChange, exposed, crashes, switch>>

\* doUpdateHexGridPending finds the pending row of the snapshot, or the save of occupy
\* finds none: from here on the transaction has used the table.
ReadPending(w) ==
  /\ wr[w].phase = "locked"
  /\ archiving
  /\ ~TruncateWaits
  /\ wr' = [wr EXCEPT ![w].phase = "looked"]
  /\ UNCHANGED <<tables, arweave, run, lastChange, exposed, crashes, switch>>

(* Definitions with a name in Mut* are plausible mistakes in the operator that
   follows them; nothing uses them but the validation of the properties. *)

\* The properties of the pending row are replaced instead of merged.
MutReplaceProperties(w) ==
  /\ wr[w].phase = "looked"
  /\ ~TruncateWaits
  /\ LET h == wr[w] IN
     IF h.row = {} /\ pending[h.grid] # {}
       THEN wr' = [wr EXCEPT ![w] = NoWriter]
       ELSE wr' = [wr EXCEPT ![w].phase = "queued", ![w].row = {h.change}]
  /\ UNCHANGED <<tables, arweave, run, lastChange, exposed, crashes, switch>>

\* The save: the change is merged into the pending row of the snapshot.  Where the
\* snapshot shows none the row is inserted, and a row committed since then makes that
\* fail and the transaction roll back.
QueueChange(w) ==
  /\ wr[w].phase = "looked"
  /\ ~TruncateWaits
  /\ LET h == wr[w] IN
     IF h.row = {} /\ pending[h.grid] # {}
       THEN wr' = [wr EXCEPT ![w] = NoWriter]
       ELSE wr' = [wr EXCEPT ![w].phase = "queued", ![w].row = @ \cup {h.change}]
  /\ UNCHANGED <<tables, arweave, run, lastChange, exposed, crashes, switch>>

\* To write a table one has only read needs another lock on it.  A TRUNCATE that waits
\* for the first goes before the second: MySQL finds the deadlock and rolls the
\* transaction back, not the TRUNCATE.
DeadlockVictim(w) ==
  /\ wr[w].phase = "looked"
  /\ TruncateWaits
  /\ wr' = [wr EXCEPT ![w] = NoWriter]
  /\ UNCHANGED <<tables, arweave, run, lastChange, exposed, crashes, switch>>

\* While upload_to_arweave is off nothing is queued and the table is not touched.
SkipChange(w) ==
  /\ wr[w].phase = "locked"
  /\ ~archiving
  /\ wr' = [wr EXCEPT ![w].phase = "skipped"]
  /\ UNCHANGED <<tables, arweave, run, lastChange, exposed, crashes, switch>>

CommitChange(w) ==
  /\ wr[w].phase \in {"queued", "skipped"}
  /\ LET h == wr[w] IN
     /\ done' = [done EXCEPT ![h.grid] = @ \cup {h.change}]
     /\ IF h.phase = "queued"
          THEN pending' = [pending EXCEPT ![h.grid] = h.row] /\ UNCHANGED skipped
          ELSE skipped' = skipped \cup {h.change} /\ UNCHANGED pending
     /\ exposed' = IF (\E u \in Runs : Active(u)) \/ OpenOn(h.grid) # {w}
                     THEN exposed \cup {h.change} ELSE exposed
  /\ wr' = [wr EXCEPT ![w] = NoWriter]
  /\ UNCHANGED <<ref, batches, lastId, arweave, run, lastChange, archiving, toggles, crashes>>

\* A query fails; among the causes, a read of the pending table after a TRUNCATE
\* that the snapshot precedes.
RollbackChange(w) ==
  /\ Busy(w)
  /\ wr' = [wr EXCEPT ![w] = NoWriter]
  /\ UNCHANGED <<tables, arweave, run, lastChange, exposed, crashes, switch>>
-----------------------------------------------------------------------------
\* The order of the batches is ascending.
MutFirstBatch == IF batches = << >> THEN 0 ELSE batches[1].tx

\* The last transaction on Arweave is taken for the last batch.
MutLastPosted == Len(arweave)

Latest(i) == \A j \in 1 .. Len(batches) : batches[j].id <= batches[i].id

\* The committed batch with the greatest id.
LastBatch ==
  IF batches = << >> THEN 0 ELSE batches[CHOOSE i \in 1 .. Len(batches) : Latest(i)].tx

\* What getPendings reads: the pending rows, or for the script all grids, whole.
PendingsOf(u) == IF u \in ScriptRuns THEN done ELSE pending

\* The pending rows of uncommitted transactions are read.
MutReadUncommitted(u) ==
  /\ ~Active(u)
  /\ u \in CronRuns => ~TruncateWaits
  /\ Len(arweave) < MaxUploads
  /\ LET queued(g) == UNION {wr[w].row : w \in {v \in OpenOn(g) : wr[v].phase = "queued"}}
         items == [g \in Grids |-> PendingsOf(u)[g] \cup queued(g)] IN
     /\ \E g \in Grids : items[g] # {}
     /\ run' = [run EXCEPT ![u] =
          [phase |-> "read", items |-> items,
           prev |-> [g \in Grids |-> IF items[g] # {} THEN ref[g] ELSE 0],
           prevBatch |-> LastBatch, tx |-> 0, batch |-> 0, saved |-> {}]]
  /\ UNCHANGED <<tables, arweave, wr, lastChange, exposed, crashes, switch>>

\* previousTx is the last batch, whether or not it holds the grid.
MutPreviousBatch(u) ==
  /\ ~Active(u)
  /\ u \in CronRuns => ~TruncateWaits
  /\ Len(arweave) < MaxUploads
  /\ LET items == PendingsOf(u) IN
     /\ \E g \in Grids : items[g] # {}
     /\ run' = [run EXCEPT ![u] =
          [phase |-> "read", items |-> items,
           prev |-> [g \in Grids |-> IF items[g] # {} THEN LastBatch ELSE 0],
           prevBatch |-> LastBatch, tx |-> 0, batch |-> 0, saved |-> {}]]
  /\ UNCHANGED <<tables, arweave, wr, lastChange, exposed, crashes, switch>>

\* uploadPendings reads everything in one snapshot: the pendings, their references,
\* and the last batch.  Without pendings it returns.
ReadPendings(u) ==
  /\ ~Active(u)
  /\ u \in CronRuns => ~TruncateWaits
  /\ Len(arweave) < MaxUploads
  /\ LET items == PendingsOf(u) IN
     /\ \E g \in Grids : items[g] # {}
     /\ run' = [run EXCEPT ![u] =
          [phase |-> "read", items |-> items,
           prev |-> [g \in Grids |-> IF items[g] # {} THEN ref[g] ELSE 0],
           prevBatch |-> LastBatch, tx |-> 0, batch |-> 0, saved |-> {}]]
  /\ UNCHANGED <<tables, arweave, wr, lastChange, exposed, crashes, switch>>

Post(u) ==
  arweave' = Append(arweave, [items |-> run[u].items, prev |-> run[u].prev,
                              prevBatch |-> run[u].prevBatch])

\* The id of the transaction is not kept.
MutTxNotKept(u) ==
  /\ run[u].phase = "read"
  /\ Len(arweave) < MaxUploads
  /\ Post(u)
  /\ run' = [run EXCEPT ![u].phase = "uploaded"]
  /\ UNCHANGED <<tables, wr, lastChange, exposed, crashes, switch>>

\* arweave.createTransaction: signed, posted, and all chunks uploaded.
CreateTransaction(u) ==
  /\ run[u].phase = "read"
  /\ Len(arweave) < MaxUploads
  /\ Post(u)
  /\ run' = [run EXCEPT ![u].phase = "uploaded", ![u].tx = Len(arweave')]
  /\ UNCHANGED <<tables, wr, lastChange, exposed, crashes, switch>>

\* It throws and the database transaction is rolled back, whether or not the
\* transaction reached Arweave.
CreateTransactionFails(u) ==
  /\ run[u].phase = "read"
  /\ UNCHANGED arweave \/ (Len(arweave) < MaxUploads /\ Post(u))
  /\ run' = [run EXCEPT ![u] = NoRun]
  /\ UNCHANGED <<tables, wr, lastChange, exposed, crashes, switch>>

Uploaded(u) == {g \in Grids : run[u].items[g] # {}}

ToSave(u)   == Uploaded(u) \ run[u].saved

\* updateHexGridsTransactionReference inserts the batch, which takes its id,
SaveBatch(u) ==
  /\ run[u].phase = "uploaded"
  /\ lastId' = lastId + 1
  /\ run' = [run EXCEPT ![u].phase = "saving", ![u].batch = lastId']
  /\ UNCHANGED <<done, pending, ref, batches, arweave, wr, lastChange, exposed, crashes, switch>>

\* The script goes through the grids from the last to the first.
MutScriptDescends(u, g) ==
  /\ g \in ToSave(u)
  /\ \A h \in ToSave(u) : IF u \in ScriptRuns THEN h <= g ELSE g <= h

\* The references are saved in the order of the pendings, which the database reads
\* along its primary key.
IsNext(u, g) ==
  /\ g \in ToSave(u)
  /\ \A h \in ToSave(u) : g <= h

Holders(u, g) == {v \in Runs \ {u} : run[v].phase = "saving" /\ g \in run[v].saved}

\* and saves one reference after the other: each waits for the row another run has
\* saved.  Where the snapshot shows no reference the row is inserted, and one committed
\* since then makes that fail and the transaction roll back.
SaveReference(u) ==
  /\ run[u].phase = "saving"
  /\ \E g \in Grids :
       /\ IsNext(u, g)
       /\ Holders(u, g) = {}
       /\ IF run[u].prev[g] = 0 /\ ref[g] # 0
            THEN run' = [run EXCEPT ![u] = NoRun]
            ELSE run' = [run EXCEPT ![u].saved = @ \cup {g}]
  /\ UNCHANGED <<tables, arweave, wr, lastChange, exposed, crashes, switch>>

SavedAll(u)   == run[u].phase = "saving" /\ ToSave(u) = {}
NewBatch(u)   == [id |-> run[u].batch, tx |-> run[u].tx]
References(u) == [g \in Grids |-> IF g \in Uploaded(u) THEN run[u].tx ELSE ref[g]]

\* The batch is saved and its grids' references are not.
MutBatchOnly(u) ==
  /\ SavedAll(u)
  /\ batches' = Append(batches, NewBatch(u))
  /\ run' = [run EXCEPT ![u].phase = "committed"]
  /\ UNCHANGED <<done, pending, ref, lastId, arweave, wr, lastChange, exposed, crashes, switch>>

\* The references are saved and their batch is not.
MutReferencesOnly(u) ==
  /\ SavedAll(u)
  /\ ref' = References(u)
  /\ run' = [run EXCEPT ![u].phase = "committed"]
  /\ UNCHANGED <<done, pending, batches, lastId, arweave, wr, lastChange, exposed, crashes,
                 switch>>

\* A reference that exists is not replaced.
MutFirstReference(u) ==
  /\ SavedAll(u)
  /\ ref' = [g \in Grids |-> IF ref[g] = 0 THEN References(u)[g] ELSE ref[g]]
  /\ batches' = Append(batches, NewBatch(u))
  /\ run' = [run EXCEPT ![u].phase = "committed"]
  /\ UNCHANGED <<done, pending, lastId, arweave, wr, lastChange, exposed, crashes, switch>>

\* clearPendings is a TRUNCATE: first it commits the batch and its references,
CommitReferences(u) ==
  /\ SavedAll(u)
  /\ ref' = References(u)
  /\ batches' = Append(batches, NewBatch(u))
  /\ run' = [run EXCEPT ![u].phase = "committed"]
  /\ UNCHANGED <<done, pending, lastId, arweave, wr, lastChange, exposed, crashes, switch>>

\* then it asks for the table,
RequestTable(u) ==
  /\ run[u].phase = "committed"
  /\ run' = [run EXCEPT ![u].phase = "truncating"]
  /\ UNCHANGED <<tables, arweave, wr, lastChange, exposed, crashes, switch>>

\* The TRUNCATE waits for the locks of its own transaction.
MutTruncateWaitsForItself ==
  {w \in Writers : wr[w].phase \in {"looked", "queued"}} \cup {u \in CronRuns : Active(u)}

\* Open transactions that have read or written the pending table.
UsingPendings ==
  {w \in Writers : wr[w].phase \in {"looked", "queued"}}
    \cup {u \in CronRuns : run[u].phase \in {"read", "uploaded", "saving"}}

\* and when no open transaction has used the table, it removes every row.
\* A transaction that reads the table later finds it empty.
Truncate(u) ==
  /\ run[u].phase = "truncating"
  /\ UsingPendings = {}
  /\ pending' = [g \in Grids |-> {}]
  /\ wr' = [w \in Writers |-> IF Busy(w) THEN [wr[w] EXCEPT !.row = {}] ELSE wr[w]]
  /\ run' = [run EXCEPT ![u] = NoRun]
  /\ UNCHANGED <<done, ref, batches, lastId, arweave, lastChange, exposed, crashes, switch>>

\* A query fails: the connection, or a row that another run keeps for too long.  What
\* is not committed is rolled back.
RunFails(u) ==
  /\ Active(u) /\ run[u].phase # "read"
  /\ run' = [run EXCEPT ![u] = NoRun]
  /\ UNCHANGED <<tables, arweave, wr, lastChange, exposed, crashes, switch>>

\* The configuration file is edited; ConfigBizCache says when the getter follows.
Toggle ==
  /\ toggles < MaxToggles
  /\ toggles' = toggles + 1
  /\ archiving' = ~archiving
  /\ UNCHANGED <<tables, arweave, wr, run, lastChange, exposed, skipped, crashes>>

\* The processes die: open transactions are rolled back, a TRUNCATE that waits
\* is not run.
Crash ==
  /\ crashes < MaxCrashes
  /\ crashes' = crashes + 1
  /\ wr' = [w \in Writers |-> NoWriter]
  /\ run' = [u \in Runs |-> NoRun]
  /\ UNCHANGED <<tables, arweave, lastChange, exposed, switch>>

WriterStep(w) ==
  \/ UpdateGrid(w) \/ ReadPending(w) \/ QueueChange(w) \/ DeadlockVictim(w)
  \/ SkipChange(w) \/ CommitChange(w)

RunStep(u) ==
  \/ CreateTransaction(u) \/ CreateTransactionFails(u)
  \/ SaveBatch(u) \/ SaveReference(u) \/ CommitReferences(u) \/ RequestTable(u) \/ Truncate(u)

Next ==
  \/ \E w \in Writers :
       \/ \E g \in Grids : BeginOccupy(w, g) \/ BeginUpdate(w, g)
       \/ WriterStep(w) \/ RollbackChange(w)
  \/ \E u \in Runs : ReadPendings(u) \/ RunStep(u) \/ RunFails(u)
  \/ Toggle
  \/ Crash

Spec == Init /\ [][Next]_vars

\* The database and the event loop resume every open transaction; that a query fails
\* is owed to nobody.
Fairness ==
  /\ \A w \in Writers : WF_vars(WriterStep(w))
  /\ \A u \in Runs : WF_vars(RunStep(u))

FairSpec == Spec /\ Fairness
-----------------------------------------------------------------------------
Batched == {batches[i].tx : i \in 1 .. Len(batches)}

\* The references of the database always name a transaction that is on Arweave,
\* belongs to a committed batch and holds an item of the grid, although the upload
\* and the commit are separate and either may be the last thing that happens.
ReferencesAreUploaded ==
  \A g \in Grids :
    ref[g] # 0 =>
      ref[g] \in 1 .. Len(arweave) /\ ref[g] \in Batched /\ arweave[ref[g]].items[g] # {}

\* The transactions found by following previousTx of grid g back from t: those that
\* every set that holds t and is closed under previousTx must hold.
Reached(t, g) ==
  {s \in 1 .. Len(arweave) :
     \A T \in SUBSET (0 .. Len(arweave)) :
       t \in T /\ (\A v \in T \ {0} : arweave[v].prev[g] \in T) => s \in T}

\* The changes found on the way, and from the reference of the grid.
Found(t, g) == UNION {arweave[s].items[g] : s \in Reached(t, g)}
Trail(g)    == Found(ref[g], g)

\* Committed changes that nothing excuses to be lost.
Lasting(g) == done[g] \ (exposed \cup skipped)

\* A committed change is either queued or found by following previousTx from the
\* grid's reference, unless it was committed during an upload run, beside another
\* transaction on its grid, or while archiving was off: switching it loses neither
\* what is queued nor what is archived already.
OnlyExposedChangesAreLost ==
  \A g \in Grids : \A c \in Lasting(g) : c \in pending[g] \/ c \in Trail(g)

\* previousTx and previousBatchTx only lead back in time, to transactions of batches
\* that the database had committed, although several uploads may run at once and any of
\* them fail after its transaction was posted.  previousTx leads to an item of the grid.
LinksLeadBack ==
  \A t \in 1 .. Len(arweave) :
    /\ arweave[t].prevBatch < t
    /\ arweave[t].prevBatch # 0 => arweave[t].prevBatch \in Batched
    /\ \A g \in Grids : arweave[t].prev[g] < t /\
         (arweave[t].prev[g] # 0 =>
            arweave[t].prev[g] \in Batched /\ arweave[arweave[t].prev[g]].items[g] # {})

\* With runs that never overlap the batches form one chain, crashes and failed
\* uploads notwithstanding.
BatchesFormOneChain ==
  \A i \in 1 .. Len(batches) :
    arweave[batches[i].tx].prevBatch = IF i = 1 THEN 0 ELSE batches[i - 1].tx

\* With runs that never overlap, whoever follows previousTx from the reference of a
\* grid finds every batch that holds the grid, over all that failed in between.
EveryBatchIsFound ==
  \A g \in Grids : \A t \in Batched : arweave[t].items[g] # {} => t \in Reached(ref[g], g)

\* Nothing is archived that was not committed to its grid.
OnlyCommittedIsArchived ==
  \A t \in 1 .. Len(arweave), g \in Grids : arweave[t].items[g] \subseteq done[g]

\* clearPendings follows updateHexGridsTransactionReference for the ids that were
\* read (hex-grid-storage.service.spec.ts:188-192): what is cleared was uploaded.
ClearsOnlyUploaded ==
  [][\A g \in Grids : pending[g] # {} /\ pending'[g] = {} =>
       \E u \in Runs : run[u].phase = "truncating" /\ pending[g] \subseteq run[u].items[g]]_vars

\* What a transaction waits for, and an upload: rows that another has written, and the
\* table of pendings, for which a TRUNCATE comes first.
AsksForTable(w) == wr[w].phase = "looked" \/ (wr[w].phase = "locked" /\ archiving)

WaitsFor(a, b) ==
  \/ a \in Writers /\ wr[a].phase = "opened" /\ b \in OpenOn(wr[a].grid) /\ wr[b].phase # "opened"
  \/ a \in Writers /\ AsksForTable(a) /\ b \in Truncating
  \/ a \in Runs /\ run[a].phase = "saving" /\ \E g \in Grids : IsNext(a, g) /\ b \in Holders(a, g)
  \/ a \in Truncating /\ b \in UsingPendings

\* However many transactions and uploads lock rows, and the table of pendings, and wait
\* for each other: where a circle of them waits, a TRUNCATE waits for a transaction that
\* has read its pending row and not written it yet.  That circle is of metadata locks
\* only, and MySQL finds it; rows of two tables, or rows and the table, make none.
OnlyUpgradesDeadlock ==
  \A S \in (SUBSET (Writers \cup Runs)) \ {{}} :
    (\A a \in S : \E b \in S : WaitsFor(a, b)) =>
      S \cap Truncating # {} /\ \E w \in S \cap Writers : wr[w].phase = "looked"

\* Transactions that lock rows and wait for each other's, and a TRUNCATE that
\* waits for all of them, always end.
TransactionsEnd ==
  /\ \A w \in Writers : Busy(w) ~> ~Busy(w)
  /\ \A u \in Runs : Active(u) ~> ~Active(u)
-----------------------------------------------------------------------------
\* The uploads of the committed batches, as Arweave holds them.
BatchLog ==
  [i \in 1 .. Len(batches) |->
     [tx |-> batches[i].tx, items |-> arweave[batches[i].tx].items,
      prev |-> arweave[batches[i].tx].prev, prevBatch |-> arweave[batches[i].tx].prevBatch]]

Log == INSTANCE ArchiveLog WITH
  Txs <- 1 .. MaxUploads, NoTx <- 0, committed <- done, log <- BatchLog, latest <- ref

\* The batches are a log as ArchiveLog describes it: an upload that crashes, fails or
\* is posted without being committed leaves no trace in it, and one that is committed
\* is the only one to name its predecessors.
ImplementsLog == Log!Spec
=============================================================================
