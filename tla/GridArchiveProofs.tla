------------------------- MODULE GridArchiveProofs -------------------------
(* The safety of the archive for any number of grids, transactions, uploads,
   switches and crashes, and of runs that overlap as they like. *)
EXTENDS GridArchive, SequenceTheorems, NaturalFacts

(* The inductive invariant: a run carries what it has read to Arweave and from
   there to the references, so what holds of the tables and of Arweave must hold
   of the runs in between. *)

\* Transaction t is on Arweave, of a committed batch, and holds an item of grid g.
Holds(t, g) == t \in 1 .. Len(arweave) /\ t \in Batched /\ arweave[t].items[g] # {}

\* Pending rows, and those that open transactions go on to write, hold committed
\* changes and the transaction's own.
QueueInv ==
  /\ \A g \in Grids : pending[g] \subseteq done[g]
  /\ \A w \in Writers : Busy(w) => wr[w].row \subseteq done[wr[w].grid] \cup {wr[w].change}

\* What a run h has read is committed, and is still true of Arweave, where its
\* transaction says the same.
Sound(h) ==
  /\ \A g \in Grids : h.items[g] \subseteq done[g] /\ (h.prev[g] # 0 => Holds(h.prev[g], g))
  /\ h.prevBatch # 0 => h.prevBatch \in Batched
  /\ h.phase # "read" =>
       /\ h.tx \in 1 .. Len(arweave)
       /\ arweave[h.tx].items = h.items /\ arweave[h.tx].prev = h.prev
       /\ arweave[h.tx].prevBatch = h.prevBatch
  /\ h.phase = "saving" => h.batch \in 1 .. lastId

RunInv == \A u \in Runs : Active(u) => Sound(run[u])

BatchInv ==
  /\ Len(arweave) <= MaxUploads /\ Batched \subseteq 1 .. Len(arweave)
  /\ \A i \in 1 .. Len(batches) : batches[i].id \in 1 .. lastId

ArchiveInv == ReferencesAreUploaded /\ LinksLeadBack /\ OnlyCommittedIsArchived

IInv == TypeOK /\ QueueInv /\ RunInv /\ BatchInv /\ ArchiveInv
-----------------------------------------------------------------------------
(* Commits only add to a grid, runs that end carry nothing: as long as nothing is
   posted and no reference saved, the runs and the archive stay sound. *)
LEMMA Kept ==
  ASSUME IInv, UNCHANGED <<ref, batches, lastId, arweave>>,
         \A g \in Grids : done[g] \subseteq done'[g],
         \A u \in Runs : run'[u] = run[u] \/ run'[u] = NoRun
  PROVE  RunInv' /\ BatchInv' /\ ArchiveInv'
<1>1. Batched' = Batched
  BY DEF Batched
<1>2. BatchInv'
  BY <1>1 DEF IInv, BatchInv
<1>3. ASSUME NEW u \in Runs, Active(u)' PROVE Sound(run[u])'
  <2>1. run'[u] # NoRun
    BY <1>3 DEF Active, NoRun
  <2>2. Active(u)
    BY <1>3, <2>1 DEF Active
  <2>3. Sound(run[u])
    BY <2>2 DEF IInv, RunInv
  <2>4. run'[u] = run[u]
    BY <2>1
  <2>. QED BY <1>1, <2>3, <2>4 DEF Sound, Holds
<1>4. RunInv'
  BY <1>3 DEF RunInv
<1>5. ReferencesAreUploaded'
  BY <1>1 DEF IInv, ArchiveInv, ReferencesAreUploaded
<1>6. LinksLeadBack'
  BY <1>1 DEF IInv, ArchiveInv, LinksLeadBack
<1>7. OnlyCommittedIsArchived'
  BY DEF IInv, ArchiveInv, OnlyCommittedIsArchived
<1>. QED BY <1>2, <1>4, <1>5, <1>6, <1>7 DEF ArchiveInv

(* A step of a writer that changes no table keeps the invariant if the writer
   itself still holds committed changes and its own only. *)
LEMMA WriterKept ==
  ASSUME IInv, NEW w \in Writers, NEW k \in Writer \cup {NoWriter},
         wr' = [wr EXCEPT ![w] = k],
         k # NoWriter => k.row \subseteq done[k.grid] \cup {k.change},
         lastChange' \in 0 .. MaxChanges,
         UNCHANGED <<tables, arweave, run, exposed, crashes, switch>>
  PROVE  IInv'
<1>1. UNCHANGED <<done, pending, ref, batches, lastId, arweave, run, exposed, crashes, archiving,
                  skipped, toggles>>
  BY DEF tables, switch
<1>2. wr' \in [Writers -> Writer \cup {NoWriter}]
  BY DEF IInv, TypeOK
<1>3. TypeOK'
  BY <1>1, <1>2 DEF IInv, TypeOK
<1>4. ASSUME NEW v \in Writers, Busy(v)'
      PROVE  wr'[v].row \subseteq done'[wr'[v].grid] \cup {wr'[v].change}
  <2>1. CASE v = w
    BY <1>1, <1>4, <2>1 DEF Busy, NoWriter, IInv, TypeOK
  <2>2. CASE v # w
    BY <1>1, <1>4, <2>2 DEF Busy, IInv, TypeOK, QueueInv
  <2>. QED BY <2>1, <2>2
<1>5. QueueInv'
  BY <1>1, <1>4 DEF IInv, QueueInv
<1>6. RunInv' /\ BatchInv' /\ ArchiveInv'
  BY <1>1, Kept
<1>. QED BY <1>3, <1>5, <1>6 DEF IInv

(* A transaction that begins holds the pending row its snapshot shows. *)
LEMMA BeginStep ==
  ASSUME IInv, NEW w \in Writers, NEW g \in Grids, BeginOccupy(w, g) \/ BeginUpdate(w, g)
  PROVE  IInv'
<1>1. PICK row \in {{}, pending[g]}, phase \in {"opened", "locked"} : Begin(w, g, row, phase)
  BY DEF BeginOccupy, BeginUpdate
<1> DEFINE k == [phase |-> phase, grid |-> g, change |-> lastChange', row |-> row]
<1>2. lastChange' \in Changes
  BY <1>1, BoundsAssumption DEF Begin, IInv, TypeOK, Changes
<1>3. row \in SUBSET Changes /\ row \subseteq done[g]
  BY DEF IInv, TypeOK, QueueInv
<1>4. k \in Writer
  BY <1>2, <1>3 DEF Writer
<1>5. k.row \subseteq done[k.grid] \cup {k.change}
  BY <1>3
<1>6. wr' = [wr EXCEPT ![w] = k] /\ lastChange' \in 0 .. MaxChanges
  BY <1>1, <1>2, BoundsAssumption DEF Begin, Changes
<1>7. UNCHANGED <<tables, arweave, run, exposed, crashes, switch>>
  BY <1>1 DEF Begin, tables
<1> HIDE DEF k
<1>. QED BY <1>4, <1>5, <1>6, <1>7, WriterKept

\* The steps of a transaction before its commit.
OwnStep(w) ==
  \/ UpdateGrid(w) \/ ReadPending(w) \/ QueueChange(w) \/ DeadlockVictim(w)
  \/ SkipChange(w) \/ RollbackChange(w)

(* Up to its commit a transaction only merges its own change into its row. *)
LEMMA WriterSteps ==
  ASSUME IInv, NEW w \in Writers,
         OwnStep(w)
  PROVE  IInv'
<1> DEFINE h == wr[w]
           Moved == {NoWriter, [h EXCEPT !.phase = "locked"], [h EXCEPT !.phase = "looked"],
                     [h EXCEPT !.phase = "skipped"],
                     [h EXCEPT !.phase = "queued", !.row = @ \cup {h.change}]}
<1>1. Busy(w) /\ h \in Writer /\ h.row \subseteq done[h.grid] \cup {h.change}
  BY DEF OwnStep, UpdateGrid, ReadPending, QueueChange, DeadlockVictim, SkipChange,
         RollbackChange, Busy, NoWriter, IInv, TypeOK,
         QueueInv
<1>2. \E k \in Moved : wr' = [wr EXCEPT ![w] = k]
  <2>1. CASE UpdateGrid(w)
    BY <2>1 DEF UpdateGrid, IInv, TypeOK
  <2>2. CASE QueueChange(w)
    BY <2>2 DEF QueueChange, IInv, TypeOK
  <2>3. CASE SkipChange(w)
    BY <2>3 DEF SkipChange, IInv, TypeOK
  <2>4. CASE RollbackChange(w) \/ DeadlockVictim(w)
    BY <2>4 DEF RollbackChange, DeadlockVictim
  <2>5. CASE ReadPending(w)
    BY <2>5 DEF ReadPending, IInv, TypeOK
  <2>. QED BY <2>1, <2>2, <2>3, <2>4, <2>5 DEF OwnStep
<1>3. ASSUME NEW k \in Moved
      PROVE  /\ k \in Writer \cup {NoWriter}
             /\ k # NoWriter => k.row \subseteq done[k.grid] \cup {k.change}
  <2>1. CASE k = [h EXCEPT !.phase = "locked"]
    BY <1>1, <2>1 DEF Writer
  <2>2. CASE k = [h EXCEPT !.phase = "skipped"]
    BY <1>1, <2>2 DEF Writer
  <2>3. CASE k = [h EXCEPT !.phase = "queued", !.row = @ \cup {h.change}]
    BY <1>1, <2>3 DEF Writer
  <2>4. CASE k = [h EXCEPT !.phase = "looked"]
    BY <1>1, <2>4 DEF Writer
  <2>. QED BY <2>1, <2>2, <2>3, <2>4
<1>4. UNCHANGED <<tables, arweave, run, lastChange, exposed, crashes, switch>>
  BY DEF OwnStep, UpdateGrid, ReadPending, QueueChange, DeadlockVictim, SkipChange, RollbackChange
<1>5. lastChange' \in 0 .. MaxChanges
  BY <1>4 DEF IInv, TypeOK
<1> HIDE DEF Moved
<1>. QED BY <1>2, <1>3, <1>4, <1>5, WriterKept

(* A commit adds the change to its grid and, if it was queued, to the grid's
   pending row. *)
LEMMA CommitChangeStep ==
  ASSUME IInv, NEW w \in Writers, CommitChange(w)
  PROVE  IInv'
<1> DEFINE h == wr[w]
<1>1. h \in Writer /\ h.row \subseteq done[h.grid] \cup {h.change}
  BY DEF CommitChange, Busy, NoWriter, IInv, TypeOK, QueueInv
<1>2. h.grid \in Grids /\ h.change \in Changes /\ h.row \in SUBSET Changes
  BY <1>1 DEF Writer
<1>3. /\ done' = [done EXCEPT ![h.grid] = @ \cup {h.change}]
      /\ wr' = [wr EXCEPT ![w] = NoWriter]
      /\ UNCHANGED <<ref, batches, lastId, arweave, run, lastChange, archiving, toggles, crashes>>
  BY DEF CommitChange
<1>4. /\ pending' \in {pending, [pending EXCEPT ![h.grid] = h.row]}
      /\ skipped' \in {skipped, skipped \cup {h.change}}
      /\ exposed' \in {exposed, exposed \cup {h.change}}
  BY DEF CommitChange
<1>5. TypeOK'
  BY <1>2, <1>3, <1>4 DEF IInv, TypeOK
<1>6. \A g \in Grids : done[g] \subseteq done'[g]
  BY <1>3 DEF IInv, TypeOK
<1>7. \A g \in Grids : pending'[g] \subseteq done'[g]
  BY <1>1, <1>2, <1>3, <1>4 DEF IInv, TypeOK, QueueInv
<1>8. ASSUME NEW v \in Writers, Busy(v)'
      PROVE  wr'[v].row \subseteq done'[wr'[v].grid] \cup {wr'[v].change}
  <2>1. v # w /\ wr'[v] = wr[v] /\ Busy(v)
    BY <1>3, <1>8 DEF Busy, NoWriter, IInv, TypeOK
  <2>2. wr[v] \in Writer
    BY <2>1 DEF Busy, NoWriter, IInv, TypeOK
  <2>. QED BY <1>6, <2>1, <2>2 DEF IInv, QueueInv, Writer
<1>9. QueueInv'
  BY <1>7, <1>8 DEF QueueInv
<1>10. RunInv' /\ BatchInv' /\ ArchiveInv'
  BY <1>3, <1>6, Kept
<1>. QED BY <1>5, <1>9, <1>10 DEF IInv
-----------------------------------------------------------------------------
(* An upload in progress has a record of its own, and what it has read is sound. *)
LEMMA ActiveRun ==
  ASSUME IInv, NEW u \in Runs, Active(u)
  PROVE  run[u] \in Upload /\ Sound(run[u])
BY DEF IInv, TypeOK, RunInv, Active, NoRun

(* There is a batch with the greatest id, as soon as there is one. *)
LEMMA LatestExists ==
  ASSUME IInv, batches # << >>
  PROVE  \E i \in 1 .. Len(batches) : Latest(i)
<1> DEFINE S == {batches[i].id : i \in 1 .. Len(batches)}
<1>1. batches \in Seq(Batch) /\ lastId \in Nat
  BY DEF IInv, TypeOK
<1>2. S \subseteq 1 .. lastId
  BY DEF IInv, BatchInv
<1>3. 1 \in 1 .. Len(batches)
  BY <1>1, EmptySeq
<1>4. S # {}
  BY <1>3
<1> HIDE DEF S
<1>5. PICK n \in S : \A j \in S : j <= n
  BY <1>1, <1>2, <1>4, GreatestIndex
<1> USE DEF S
<1>6. PICK i \in 1 .. Len(batches) : n = batches[i].id
  OBVIOUS
<1>. QED BY <1>5, <1>6 DEF Latest

(* The last batch is committed. *)
LEMMA LastBatchType ==
  ASSUME IInv
  PROVE  LastBatch \in 0 .. MaxUploads /\ (LastBatch # 0 => LastBatch \in Batched)
<1>1. CASE batches = << >>
  BY <1>1, BoundsAssumption DEF LastBatch
<1>2. CASE batches # << >>
  <2>1. batches \in Seq(Batch)
    BY DEF IInv, TypeOK
  <2>2. PICK i \in 1 .. Len(batches) : LastBatch = batches[i].tx
    BY <1>2, LatestExists DEF LastBatch
  <2>3. batches[i] \in Batch
    BY <2>1, ElementOfSeq
  <2>4. LastBatch \in Batched
    BY <2>2 DEF Batched
  <2>5. LastBatch \in 0 .. MaxUploads
    BY <2>2, <2>3, BoundsAssumption DEF Batch
  <2>. QED BY <2>4, <2>5
<1>. QED BY <1>1, <1>2

(* A run reads committed rows, and references that are sound. *)
LEMMA ReadPendingsStep ==
  ASSUME IInv, NEW u \in Runs, ReadPendings(u)
  PROVE  IInv'
<1> DEFINE items == PendingsOf(u)
           h == [phase |-> "read", items |-> items,
                 prev |-> [g \in Grids |-> IF items[g] # {} THEN ref[g] ELSE 0],
                 prevBatch |-> LastBatch, tx |-> 0, batch |-> 0, saved |-> {}]
<1>1. run' = [run EXCEPT ![u] = h]
  BY DEF ReadPendings
<1>2. UNCHANGED <<done, pending, ref, batches, lastId, arweave, wr, lastChange, exposed, crashes,
                  archiving, skipped, toggles>>
  BY DEF ReadPendings, tables, switch
<1>3. items \in [Grids -> SUBSET Changes] /\ \A g \in Grids : items[g] \subseteq done[g]
  BY DEF IInv, TypeOK, QueueInv, PendingsOf
<1>4. \A g \in Grids : h.prev[g] \in 0 .. MaxUploads /\ (h.prev[g] # 0 => Holds(h.prev[g], g))
  <2>1. \A g \in Grids : ref[g] \in 0 .. MaxUploads /\ (ref[g] # 0 => Holds(ref[g], g))
    BY DEF IInv, TypeOK, ArchiveInv, ReferencesAreUploaded, Holds
  <2> HIDE DEF items
  <2>. QED BY <2>1, BoundsAssumption
<1>5. h \in Upload
  <2>1. h.prev \in [Grids -> 0 .. MaxUploads]
    BY <1>4
  <2>. QED BY <1>3, <2>1, LastBatchType, BoundsAssumption DEF Upload
<1>6. Sound(h)
  BY <1>3, <1>4, LastBatchType DEF Sound
<1> HIDE DEF h
<1>7. TypeOK'
  BY <1>1, <1>2, <1>5 DEF IInv, TypeOK
<1>8. QueueInv'
  BY <1>2 DEF IInv, QueueInv, Busy
<1>9. Batched' = Batched
  BY <1>2 DEF Batched
<1>10. RunInv'
  <2>1. \A v \in Runs : Active(v)' => v = u \/ Active(v)
    BY <1>1 DEF Active, IInv, TypeOK
  <2>2. \A v \in Runs : Active(v)' => Sound(run'[v])
    BY <1>1, <1>6, <2>1 DEF IInv, TypeOK, RunInv
  <2>. QED BY <1>2, <1>9, <2>2 DEF RunInv, Sound, Holds
<1>11. BatchInv' /\ ArchiveInv'
  BY <1>2, <1>9 DEF IInv, BatchInv, ArchiveInv, ReferencesAreUploaded, LinksLeadBack,
                    OnlyCommittedIsArchived
<1>. QED BY <1>7, <1>8, <1>10, <1>11 DEF IInv

(* What is posted keeps what there was; it is what the run had read. *)
LEMMA Posting ==
  ASSUME IInv, NEW u \in Runs, run[u].phase = "read", Len(arweave) < MaxUploads, Post(u)
  PROVE  /\ arweave' \in Seq(ArweaveTx)
         /\ Len(arweave') = Len(arweave) + 1
         /\ \A t \in 1 .. Len(arweave) : arweave'[t] = arweave[t]
         /\ arweave'[Len(arweave')] = [items |-> run[u].items, prev |-> run[u].prev,
                                       prevBatch |-> run[u].prevBatch]
<1>1. run[u] \in Upload
  BY ActiveRun DEF Active
<1>2. [items |-> run[u].items, prev |-> run[u].prev, prevBatch |-> run[u].prevBatch] \in ArweaveTx
  BY <1>1 DEF Upload, ArweaveTx
<1>3. arweave \in Seq(ArweaveTx)
  BY DEF IInv, TypeOK
<1>. QED BY <1>2, <1>3 DEF Post

(* A transaction that is posted links back to committed batches and to items of
   its grids, and nothing that was on Arweave changes. *)
LEMMA PostStep ==
  ASSUME IInv, NEW u \in Runs, run[u].phase = "read", Len(arweave) < MaxUploads, Post(u),
         UNCHANGED <<done, pending, ref, batches, lastId>>
  PROVE  /\ arweave' \in Seq(ArweaveTx) /\ BatchInv' /\ ArchiveInv'
         /\ \A t, g : Holds(t, g) => Holds(t, g)'
         /\ Batched' = Batched
<1> DEFINE n == Len(arweave)
           tx == [items |-> run[u].items, prev |-> run[u].prev, prevBatch |-> run[u].prevBatch]
<1>1. /\ arweave' \in Seq(ArweaveTx) /\ Len(arweave') = n + 1 /\ n \in Nat
      /\ \A t \in 1 .. n : arweave'[t] = arweave[t]
      /\ arweave'[n + 1] = tx
  BY Posting DEF IInv, TypeOK
<1>2. run[u] \in Upload /\ Sound(run[u])
  BY ActiveRun DEF Active
<1>3. Batched' = Batched
  BY DEF Batched
<1>4. BatchInv'
  BY <1>1, <1>3, BoundsAssumption DEF IInv, BatchInv
<1>5. \A t, g : Holds(t, g) => Holds(t, g)'
  BY <1>1, <1>3 DEF Holds
<1>6. ReferencesAreUploaded'
  BY <1>1, <1>3 DEF IInv, ArchiveInv, ReferencesAreUploaded
<1>7. LinksLeadBack'
  <2> SUFFICES ASSUME NEW t \in 1 .. n + 1
               PROVE  /\ arweave'[t].prevBatch < t
                      /\ arweave'[t].prevBatch # 0 => arweave'[t].prevBatch \in Batched
                      /\ \A g \in Grids : arweave'[t].prev[g] < t /\
                           (arweave'[t].prev[g] # 0 =>
                              /\ arweave'[t].prev[g] \in Batched
                              /\ arweave'[arweave'[t].prev[g]].items[g] # {})
    BY <1>1, <1>3 DEF LinksLeadBack
  <2>1. CASE t = n + 1
    <3>1. tx.prevBatch \in Nat /\ (tx.prevBatch # 0 => tx.prevBatch \in Batched)
      BY <1>2, BoundsAssumption DEF Upload, Sound
    <3>2. tx.prevBatch < n + 1
      BY <1>1, <3>1 DEF IInv, BatchInv
    <3>3. \A g \in Grids : tx.prev[g] \in Nat /\ (tx.prev[g] # 0 => Holds(tx.prev[g], g))
      BY <1>2, BoundsAssumption DEF Upload, Sound
    <3>4. \A g \in Grids : tx.prev[g] < n + 1
                           /\ (tx.prev[g] # 0 => /\ tx.prev[g] \in Batched
                                                /\ arweave'[tx.prev[g]].items[g] # {})
      BY <1>1, <3>3 DEF Holds
    <3>. QED BY <1>1, <2>1, <3>1, <3>2, <3>4
  <2>2. CASE t \in 1 .. n
    <3>1. /\ arweave[t].prevBatch < t
          /\ arweave[t].prevBatch # 0 => arweave[t].prevBatch \in Batched
          /\ \A g \in Grids : arweave[t].prev[g] < t /\
               (arweave[t].prev[g] # 0 => /\ arweave[t].prev[g] \in Batched
                                          /\ arweave[arweave[t].prev[g]].items[g] # {})
      BY <2>2 DEF IInv, ArchiveInv, LinksLeadBack
    <3>2. arweave[t] \in ArweaveTx
      BY <2>2 DEF IInv, TypeOK
    <3>3. \A g \in Grids : arweave[t].prev[g] \in Nat
      BY <3>2, BoundsAssumption DEF ArweaveTx
    <3>4. \A g \in Grids : arweave[t].prev[g] # 0 => arweave[t].prev[g] \in 1 .. n
      BY <1>1, <2>2, <3>1, <3>3
    <3>. QED BY <1>1, <2>2, <3>1, <3>4
  <2>. QED BY <1>1, <2>1, <2>2
<1>8. OnlyCommittedIsArchived'
  <2>1. \A g \in Grids : tx.items[g] \subseteq done[g]
    BY <1>2 DEF Sound
  <2>. QED BY <1>1, <2>1 DEF IInv, ArchiveInv, OnlyCommittedIsArchived
<1>. QED BY <1>1, <1>3, <1>4, <1>5, <1>6, <1>7, <1>8 DEF ArchiveInv

(* A run that only moves on, ends, or posts what it has read keeps the invariant
   if it is still sound. *)
LEMMA RunKept ==
  ASSUME IInv, NEW u \in Runs, NEW k \in Upload \cup {NoRun},
         run' = [run EXCEPT ![u] = k],
         UNCHANGED <<done, pending, ref, batches, wr, lastChange, exposed, crashes, switch>>,
         lastId' \in Nat, lastId <= lastId',
         arweave' \in Seq(ArweaveTx), BatchInv', ArchiveInv',
         \A t \in 1 .. Len(arweave) : arweave'[t] = arweave[t],
         Len(arweave) <= Len(arweave'),
         k # NoRun => Sound(k)'
  PROVE  IInv'
<1>1. UNCHANGED <<done, pending, ref, batches, wr, lastChange, exposed, crashes, archiving,
                  skipped, toggles>>
  BY DEF switch
<1>2. run \in [Runs -> Upload \cup {NoRun}] /\ run' \in [Runs -> Upload \cup {NoRun}]
  BY DEF IInv, TypeOK
<1>3. TypeOK'
  BY <1>1, <1>2 DEF IInv, TypeOK
<1>4. QueueInv'
  BY <1>1 DEF IInv, QueueInv, Busy
<1>5. Len(arweave) \in Nat /\ Len(arweave') \in Nat
  BY DEF IInv, TypeOK
<1>6. Batched' = Batched
  BY <1>1 DEF Batched
<1>7. \A t, g : Holds(t, g) => Holds(t, g)'
  BY <1>5, <1>6 DEF Holds
<1>8. ASSUME NEW v \in Runs, Active(v)' PROVE Sound(run[v])'
  <2>1. CASE v = u
    <3>1. run'[v] = k /\ k # NoRun
      BY <1>2, <1>8, <2>1 DEF Active, NoRun
    <3>. QED BY <3>1
  <2>2. CASE v # u
    <3>1. run'[v] = run[v] /\ Active(v)
      BY <1>2, <1>8, <2>2 DEF Active
    <3>2. Sound(run[v])
      BY <3>1, ActiveRun
    <3>3. \A g \in Grids : run[v].items[g] \subseteq done'[g]
                           /\ (run[v].prev[g] # 0 => Holds(run[v].prev[g], g)')
      BY <1>1, <1>7, <3>1, <3>2 DEF Sound
    <3>4. run[v].phase # "read" =>
            /\ run[v].tx \in 1 .. Len(arweave')
            /\ arweave'[run[v].tx].items = run[v].items /\ arweave'[run[v].tx].prev = run[v].prev
            /\ arweave'[run[v].tx].prevBatch = run[v].prevBatch
      BY <1>5, <3>2 DEF Sound
    <3>5. run[v].phase = "saving" => run[v].batch \in 1 .. lastId'
      BY <3>2 DEF Sound, IInv, TypeOK
    <3>. QED BY <1>6, <3>1, <3>2, <3>3, <3>4, <3>5 DEF Sound
  <2>. QED BY <2>1, <2>2
<1>9. RunInv'
  BY <1>8 DEF RunInv
<1>. QED BY <1>3, <1>4, <1>9 DEF IInv

(* A run keeps the number of the transaction it has posted. *)
LEMMA CreateTransactionStep ==
  ASSUME IInv, NEW u \in Runs, CreateTransaction(u)
  PROVE  IInv'
<1> PICK k : k = [run[u] EXCEPT !.phase = "uploaded", !.tx = Len(arweave')]
  OBVIOUS
<1>1. run[u].phase = "read" /\ Len(arweave) < MaxUploads /\ Post(u)
      /\ UNCHANGED <<done, pending, ref, batches, lastId, wr, lastChange, exposed, crashes, switch>>
  BY DEF CreateTransaction, tables
<1>2. run[u] \in Upload /\ Sound(run[u])
  BY <1>1, ActiveRun DEF Active
<1>3. /\ arweave' \in Seq(ArweaveTx) /\ BatchInv' /\ ArchiveInv'
      /\ (\A t, g : Holds(t, g) => Holds(t, g)')
      /\ Batched' = Batched
  BY <1>1, PostStep
<1>4. /\ Len(arweave') = Len(arweave) + 1 /\ Len(arweave) \in Nat
      /\ \A t \in 1 .. Len(arweave) : arweave'[t] = arweave[t]
      /\ arweave'[Len(arweave')].items = run[u].items
      /\ arweave'[Len(arweave')].prev = run[u].prev
      /\ arweave'[Len(arweave')].prevBatch = run[u].prevBatch
  <2>1. Len(arweave) \in Nat
    BY DEF IInv, TypeOK
  <2>2. arweave'[Len(arweave')] = [items |-> run[u].items, prev |-> run[u].prev,
                                   prevBatch |-> run[u].prevBatch]
    BY <1>1, Posting
  <2>3. Len(arweave') = Len(arweave) + 1 /\ \A t \in 1 .. Len(arweave) : arweave'[t] = arweave[t]
    BY <1>1, Posting
  <2>4. /\ arweave'[Len(arweave')].items = run[u].items
        /\ arweave'[Len(arweave')].prev = run[u].prev
        /\ arweave'[Len(arweave')].prevBatch = run[u].prevBatch
    BY <2>2
  <2>. QED BY <2>1, <2>3, <2>4
<1>5. run' = [run EXCEPT ![u] = k]
  BY DEF CreateTransaction, IInv, TypeOK
<1>6. k \in Upload
  <2>1. Len(arweave') \in 0 .. MaxUploads
    BY <1>1, <1>4, BoundsAssumption
  <2>. QED BY <1>2, <2>1 DEF Upload
<1>7. /\ k.items = run[u].items /\ k.prev = run[u].prev /\ k.prevBatch = run[u].prevBatch
      /\ k.tx = Len(arweave') /\ k.phase = "uploaded"
  BY <1>2 DEF Upload
<1>8. Sound(k)'
  <2>1. \A g \in Grids : k.items[g] \subseteq done'[g] /\ (k.prev[g] # 0 => Holds(k.prev[g], g)')
    BY <1>1, <1>2, <1>3, <1>7 DEF Sound
  <2>2. k.prevBatch # 0 => k.prevBatch \in Batched'
    BY <1>2, <1>3, <1>7 DEF Sound
  <2>3. /\ k.tx \in 1 .. Len(arweave')
        /\ arweave'[k.tx].items = k.items /\ arweave'[k.tx].prev = k.prev
        /\ arweave'[k.tx].prevBatch = k.prevBatch
    BY <1>4, <1>7
  <2>. QED BY <1>7, <2>1, <2>2, <2>3 DEF Sound
<1>9. Len(arweave) <= Len(arweave') /\ lastId' \in Nat /\ lastId <= lastId'
  BY <1>1, <1>4 DEF IInv, TypeOK
<1>. QED BY <1>1, <1>3, <1>4, <1>5, <1>6, <1>8, <1>9, RunKept

(* An upload that throws may have been posted all the same. *)
LEMMA CreateTransactionFailsStep ==
  ASSUME IInv, NEW u \in Runs, CreateTransactionFails(u)
  PROVE  IInv'
<1>1. run[u].phase = "read" /\ run' = [run EXCEPT ![u] = NoRun]
      /\ UNCHANGED <<done, pending, ref, batches, lastId, wr, lastChange, exposed, crashes, switch>>
  BY DEF CreateTransactionFails, tables
<1>2. CASE UNCHANGED arweave
  <2>0. Batched' = Batched
    BY <1>1 DEF Batched
  <2>1. BatchInv' /\ ArchiveInv' /\ arweave' \in Seq(ArweaveTx)
    BY <1>1, <1>2, <2>0 DEF IInv, TypeOK, BatchInv, ArchiveInv, ReferencesAreUploaded,
                            LinksLeadBack, OnlyCommittedIsArchived
  <2>2. Len(arweave) <= Len(arweave') /\ lastId' \in Nat /\ lastId <= lastId'
    BY <1>1, <1>2 DEF IInv, TypeOK
  <2>. QED BY <1>1, <1>2, <2>1, <2>2, RunKept
<1>3. CASE Len(arweave) < MaxUploads /\ Post(u)
  <2>1. arweave' \in Seq(ArweaveTx) /\ BatchInv' /\ ArchiveInv'
    BY <1>1, <1>3, PostStep
  <2>2. /\ Len(arweave') = Len(arweave) + 1 /\ Len(arweave) \in Nat
        /\ \A t \in 1 .. Len(arweave) : arweave'[t] = arweave[t]
    <3>1. Len(arweave) \in Nat
      BY DEF IInv, TypeOK
    <3>. QED BY <1>1, <1>3, <3>1, Posting
  <2>3. Len(arweave) <= Len(arweave') /\ lastId' \in Nat /\ lastId <= lastId'
    BY <1>1, <2>2 DEF IInv, TypeOK
  <2>. QED BY <1>1, <2>1, <2>2, <2>3, RunKept
<1>. QED BY <1>2, <1>3 DEF CreateTransactionFails

\* The steps of a run that change no table but the next id of a batch.
Waiting(u) == SaveBatch(u) \/ SaveReference(u) \/ RequestTable(u) \/ RunFails(u)

\* What such a step leaves of a run that it does not end.
MovesOn(u) ==
  /\ run'[u].items = run[u].items /\ run'[u].prev = run[u].prev
  /\ run'[u].prevBatch = run[u].prevBatch /\ run'[u].tx = run[u].tx
  /\ \/ /\ run[u].phase = "uploaded" /\ run'[u].phase = "saving"
        /\ lastId' = lastId + 1 /\ run'[u].batch = lastId + 1
     \/ /\ run[u].phase = "saving" /\ run'[u].phase = "saving"
        /\ run'[u].batch = run[u].batch
     \/ run[u].phase = "committed" /\ run'[u].phase = "truncating"

(* Such a step moves the run on, or ends it. *)
LEMMA WaitingMoves ==
  ASSUME TypeOK, NEW u \in Runs, Waiting(u)
  PROVE  /\ Active(u) /\ run[u] \in Upload /\ run[u].phase # "read"
         /\ run' = [run EXCEPT ![u] = run'[u]]
         /\ run'[u] = NoRun \/ (run'[u] \in Upload /\ MovesOn(u))
         /\ lastId \in Nat /\ lastId' \in {lastId, lastId + 1}
         /\ UNCHANGED <<done, pending, ref, batches, arweave, wr, lastChange, exposed, crashes,
                        archiving, skipped, toggles>>
<1>1. Active(u) /\ run[u].phase # "read"
  BY DEF Waiting, SaveBatch, SaveReference, RequestTable, RunFails, Active
<1>2. run[u] \in Upload /\ run \in [Runs -> Upload \cup {NoRun}]
  BY <1>1 DEF TypeOK, Active, NoRun
<1>3. lastId \in Nat /\ lastId' \in {lastId, lastId + 1}
  BY DEF Waiting, SaveBatch, SaveReference, RequestTable, RunFails, tables, TypeOK
<1>4. UNCHANGED <<done, pending, ref, batches, arweave, wr, lastChange, exposed, crashes,
                  archiving, skipped, toggles>>
  BY DEF Waiting, SaveBatch, SaveReference, RequestTable, RunFails, tables, switch
<1>5. CASE SaveBatch(u)
  <2>1. /\ run[u].phase = "uploaded" /\ lastId' = lastId + 1
        /\ run' = [run EXCEPT ![u].phase = "saving", ![u].batch = lastId + 1]
    BY <1>5 DEF SaveBatch
  <2>2. run'[u] = [run[u] EXCEPT !.phase = "saving", !.batch = lastId + 1]
    BY <1>2, <2>1
  <2>3. lastId + 1 \in Nat
    BY <1>3
  <2>4. /\ run'[u].items = run[u].items /\ run'[u].prev = run[u].prev
        /\ run'[u].prevBatch = run[u].prevBatch /\ run'[u].tx = run[u].tx
        /\ run'[u].phase = "saving" /\ run'[u].batch = lastId + 1
        /\ run'[u] \in Upload
    BY <1>2, <2>2, <2>3 DEF Upload
  <2>5. run' = [run EXCEPT ![u] = run'[u]]
    BY <1>2, <2>1, <2>2
  <2>. QED BY <1>1, <1>2, <1>3, <1>4, <2>1, <2>4, <2>5 DEF MovesOn
<1>6. CASE SaveReference(u)
  <2>1. PICK g \in Grids : \/ run' = [run EXCEPT ![u] = NoRun]
                           \/ run' = [run EXCEPT ![u].saved = @ \cup {g}]
    BY <1>6 DEF SaveReference
  <2>2. run[u].phase = "saving"
    BY <1>6 DEF SaveReference
  <2>. QED BY <1>1, <1>2, <1>3, <1>4, <2>1, <2>2 DEF Upload, MovesOn
<1>7. CASE RequestTable(u)
  BY <1>1, <1>2, <1>3, <1>4, <1>7 DEF RequestTable, Upload, MovesOn
<1>8. CASE RunFails(u)
  BY <1>1, <1>2, <1>3, <1>4, <1>8 DEF RunFails
<1>. QED BY <1>5, <1>6, <1>7, <1>8 DEF Waiting

(* A run that saves, or asks for the table, is as sound as before. *)
LEMMA WaitingStep ==
  ASSUME IInv, NEW u \in Runs, Waiting(u)
  PROVE  IInv'
<1> PICK k : k = run'[u]
  OBVIOUS
<1>1. /\ Active(u) /\ run[u] \in Upload /\ run[u].phase # "read"
      /\ run' = [run EXCEPT ![u] = k]
      /\ k = NoRun \/ (k \in Upload /\ MovesOn(u))
      /\ lastId \in Nat /\ lastId' \in {lastId, lastId + 1}
      /\ UNCHANGED <<done, pending, ref, batches, arweave, wr, lastChange, exposed, crashes,
                     archiving, skipped, toggles>>
  BY WaitingMoves DEF IInv
<1>2. Sound(run[u])
  BY <1>1, ActiveRun
<1>3. Batched' = Batched
  BY <1>1 DEF Batched
<1>4. \A t, g : Holds(t, g)' <=> Holds(t, g)
  BY <1>1, <1>3 DEF Holds
<1>5. k # NoRun => Sound(k)'
  <2> SUFFICES ASSUME k # NoRun PROVE Sound(k)'
    OBVIOUS
  <2>1. /\ k.items = run[u].items /\ k.prev = run[u].prev
        /\ k.prevBatch = run[u].prevBatch /\ k.tx = run[u].tx
    BY <1>1 DEF MovesOn
  <2>2. k.phase = "saving" => k.batch \in 1 .. lastId'
    BY <1>1, <1>2 DEF MovesOn, Sound
  <2>. QED BY <1>1, <1>2, <1>3, <1>4, <2>1, <2>2 DEF Sound
<1>6. /\ BatchInv' /\ ArchiveInv' /\ arweave' \in Seq(ArweaveTx)
      /\ Len(arweave) <= Len(arweave') /\ lastId' \in Nat /\ lastId <= lastId'
  <2>1. arweave' = arweave /\ Len(arweave) \in Nat /\ arweave \in Seq(ArweaveTx)
    BY <1>1 DEF IInv, TypeOK
  <2>2. BatchInv'
    BY <1>1, <1>3, <2>1 DEF IInv, BatchInv
  <2>3. ArchiveInv'
    BY <1>1, <1>3 DEF IInv, ArchiveInv, ReferencesAreUploaded, LinksLeadBack,
                      OnlyCommittedIsArchived
  <2>. QED BY <1>1, <2>1, <2>2, <2>3
<1>7. UNCHANGED <<done, pending, ref, batches, wr, lastChange, exposed, crashes, switch>>
  BY <1>1 DEF switch
<1>. QED BY <1>1, <1>5, <1>6, <1>7, RunKept

(* The references that are committed name the run's own transaction, and its batch
   is committed with them. *)
LEMMA CommitReferencesStep ==
  ASSUME IInv, NEW u \in Runs, CommitReferences(u)
  PROVE  IInv'
<1> DEFINE tx == run[u].tx
<1>1. run[u] \in Upload /\ Sound(run[u]) /\ run[u].phase = "saving"
  BY ActiveRun DEF CommitReferences, SavedAll, Active
<1>2. /\ ref' = [g \in Grids |-> IF g \in Uploaded(u) THEN tx ELSE ref[g]]
      /\ batches' = Append(batches, NewBatch(u))
      /\ run' = [run EXCEPT ![u].phase = "committed"]
      /\ UNCHANGED <<done, pending, lastId, arweave, wr, lastChange, exposed, crashes, archiving,
                     skipped, toggles>>
  BY DEF CommitReferences, References, switch
<1>3. tx \in 1 .. Len(arweave) /\ arweave[tx].items = run[u].items
  BY <1>1 DEF Sound
<1>4. tx \in 1 .. MaxUploads
  BY <1>3, BoundsAssumption DEF IInv, BatchInv, TypeOK
<1>5. /\ batches' \in Seq(Batch) /\ Batched' = Batched \cup {tx}
      /\ \A i \in 1 .. Len(batches') : batches'[i].id \in 1 .. lastId
  <2>1. batches \in Seq(Batch) /\ lastId \in Nat
    BY DEF IInv, TypeOK
  <2>2. /\ NewBatch(u) \in Batch /\ NewBatch(u).tx = tx
        /\ NewBatch(u).id \in 1 .. lastId
    BY <1>1, <1>4, <2>1 DEF NewBatch, Batch, Sound
  <2>3. /\ batches' \in Seq(Batch) /\ Len(batches') = Len(batches) + 1
        /\ Len(batches) \in Nat
        /\ batches'[Len(batches) + 1] = NewBatch(u)
        /\ \A i \in 1 .. Len(batches) : batches'[i] = batches[i]
    BY <1>2, <2>1, <2>2, AppendProperties
  <2>4. 1 .. Len(batches') = 1 .. Len(batches) \cup {Len(batches) + 1}
    BY <2>3
  <2>5. Batched' = Batched \cup {tx}
    BY <2>2, <2>3, <2>4 DEF Batched
  <2>6. ASSUME NEW i \in 1 .. Len(batches') PROVE batches'[i].id \in 1 .. lastId
    BY <2>2, <2>3, <2>4 DEF IInv, BatchInv
  <2>. QED BY <2>3, <2>5, <2>6
<1>6. TypeOK'
  <2>1. ref' \in [Grids -> 0 .. MaxUploads]
    BY <1>2, <1>4 DEF IInv, TypeOK
  <2>2. run' \in [Runs -> Upload \cup {NoRun}]
    BY <1>1, <1>2 DEF IInv, TypeOK, Upload
  <2>. QED BY <1>2, <1>5, <2>1, <2>2 DEF IInv, TypeOK
<1>7. QueueInv'
  BY <1>2 DEF IInv, QueueInv, Busy
<1>8. ASSUME NEW v \in Runs, Active(v)' PROVE Sound(run[v])'
  <2>1. Active(v)
    BY <1>1, <1>2, <1>8 DEF Active, IInv, TypeOK
  <2>2. Sound(run[v]) /\ run[v] \in Upload
    BY <2>1, ActiveRun
  <2>3. /\ run'[v].items = run[v].items /\ run'[v].prev = run[v].prev
        /\ run'[v].prevBatch = run[v].prevBatch /\ run'[v].tx = run[v].tx
        /\ run'[v].batch = run[v].batch
        /\ run'[v].phase # "read" => run[v].phase # "read"
        /\ run'[v].phase = "saving" => run[v].phase = "saving"
    BY <1>1, <1>2, <2>2 DEF IInv, TypeOK, Upload
  <2>4. \A g \in Grids : run[v].items[g] \subseteq done'[g]
                         /\ (run[v].prev[g] # 0 => Holds(run[v].prev[g], g))
    BY <1>2, <2>2 DEF Sound
  <2>5. \A t, g : Holds(t, g) => Holds(t, g)'
    BY <1>2, <1>5 DEF Holds
  <2>6. run[v].prevBatch # 0 => run[v].prevBatch \in Batched'
    BY <1>5, <2>2 DEF Sound
  <2>7. run[v].phase # "read" =>
          /\ run[v].tx \in 1 .. Len(arweave')
          /\ arweave'[run[v].tx].items = run[v].items /\ arweave'[run[v].tx].prev = run[v].prev
          /\ arweave'[run[v].tx].prevBatch = run[v].prevBatch
    BY <1>2, <2>2 DEF Sound
  <2>8. run[v].phase = "saving" => run[v].batch \in 1 .. lastId'
    BY <1>2, <2>2 DEF Sound
  <2>9. \A g \in Grids : /\ run'[v].items[g] \subseteq done'[g]
                         /\ run'[v].prev[g] # 0 => /\ run'[v].prev[g] \in 1 .. Len(arweave')
                                                  /\ run'[v].prev[g] \in Batched'
                                                  /\ arweave'[run'[v].prev[g]].items[g] # {}
    BY <2>3, <2>4, <2>5 DEF Holds
  <2>. QED BY <2>3, <2>6, <2>7, <2>8, <2>9 DEF Sound, Holds
<1>9. RunInv'
  BY <1>8 DEF RunInv
<1>10. BatchInv'
  BY <1>2, <1>3, <1>5 DEF IInv, BatchInv
<1>11. ReferencesAreUploaded'
  <2> SUFFICES ASSUME NEW g \in Grids, ref'[g] # 0
               PROVE  /\ ref'[g] \in 1 .. Len(arweave) /\ ref'[g] \in Batched'
                      /\ arweave[ref'[g]].items[g] # {}
    BY <1>2 DEF ReferencesAreUploaded
  <2>1. CASE g \in Uploaded(u)
    BY <1>2, <1>3, <1>5, <2>1 DEF Uploaded
  <2>2. CASE g \notin Uploaded(u)
    BY <1>2, <1>5, <2>2 DEF IInv, ArchiveInv, ReferencesAreUploaded
  <2>. QED BY <2>1, <2>2
<1>12. LinksLeadBack' /\ OnlyCommittedIsArchived'
  BY <1>2, <1>5 DEF IInv, ArchiveInv, LinksLeadBack, OnlyCommittedIsArchived
<1>. QED BY <1>6, <1>7, <1>9, <1>10, <1>11, <1>12 DEF IInv, ArchiveInv

(* An empty queue holds committed changes only. *)
LEMMA TruncateStep ==
  ASSUME IInv, NEW u \in Runs, Truncate(u)
  PROVE  IInv'
<1>1. /\ pending' = [g \in Grids |-> {}]
      /\ wr' = [w \in Writers |-> IF Busy(w) THEN [wr[w] EXCEPT !.row = {}] ELSE wr[w]]
      /\ run' = [run EXCEPT ![u] = NoRun]
      /\ UNCHANGED <<done, ref, batches, lastId, arweave, lastChange, exposed, crashes, archiving,
                     skipped, toggles>>
  BY DEF Truncate, switch
<1>2. ASSUME NEW w \in Writers
      PROVE  wr'[w] \in Writer \cup {NoWriter} /\ (wr'[w].phase # "idle" => wr'[w].row = {})
  <2>1. CASE Busy(w)
    <3>1. wr[w] \in Writer /\ wr'[w] = [wr[w] EXCEPT !.row = {}]
      BY <1>1, <2>1 DEF IInv, TypeOK, Busy, NoWriter
    <3>. QED BY <3>1 DEF Writer
  <2>2. CASE ~Busy(w)
    BY <1>1, <2>2 DEF IInv, TypeOK, Busy
  <2>. QED BY <2>1, <2>2
<1>3. TypeOK'
  <2>1. wr' \in [Writers -> Writer \cup {NoWriter}]
    BY <1>1, <1>2
  <2>2. run' \in [Runs -> Upload \cup {NoRun}] /\ pending' \in [Grids -> SUBSET Changes]
    BY <1>1 DEF IInv, TypeOK
  <2>. QED BY <1>1, <2>1, <2>2 DEF IInv, TypeOK
<1>4. QueueInv'
  BY <1>1, <1>2 DEF QueueInv, Busy
<1>5. RunInv' /\ BatchInv' /\ ArchiveInv'
  <2>1. \A v \in Runs : run'[v] = run[v] \/ run'[v] = NoRun
    BY <1>1 DEF IInv, TypeOK
  <2>. QED BY <1>1, <2>1, Kept
<1>. QED BY <1>3, <1>4, <1>5 DEF IInv

(* The switch touches no table. *)
LEMMA ToggleStep ==
  ASSUME IInv, Toggle
  PROVE  IInv'
<1>1. UNCHANGED <<done, pending, ref, batches, lastId, arweave, wr, run, lastChange, exposed, skipped,
                  crashes>>
  BY DEF Toggle, tables
<1>2. TypeOK'
  BY <1>1, BoundsAssumption DEF Toggle, IInv, TypeOK
<1>3. QueueInv'
  BY <1>1 DEF IInv, QueueInv, Busy
<1>4. RunInv' /\ BatchInv' /\ ArchiveInv'
  BY <1>1, Kept
<1>. QED BY <1>2, <1>3, <1>4 DEF IInv

(* A crash ends what is open. *)
LEMMA CrashStep ==
  ASSUME IInv, Crash
  PROVE  IInv'
<1>1. /\ UNCHANGED <<done, pending, ref, batches, lastId, arweave, lastChange, exposed, archiving,
                     skipped, toggles>>
      /\ wr' = [w \in Writers |-> NoWriter] /\ run' = [u \in Runs |-> NoRun]
      /\ crashes < MaxCrashes /\ crashes' = crashes + 1
  BY DEF Crash, tables, switch
<1>2. TypeOK'
  BY <1>1, BoundsAssumption DEF IInv, TypeOK
<1>3. QueueInv'
  BY <1>1 DEF IInv, QueueInv, Busy, NoWriter
<1>4. RunInv' /\ BatchInv' /\ ArchiveInv'
  BY <1>1, Kept
<1>. QED BY <1>2, <1>3, <1>4 DEF IInv
-----------------------------------------------------------------------------
(* The invariant holds of empty tables and an empty Arweave. *)
LEMMA InitIInv == ASSUME Init PROVE IInv
<1>1. TypeOK
  BY BoundsAssumption DEF Init, TypeOK
<1>2. QueueInv /\ RunInv
  BY DEF Init, QueueInv, RunInv, Busy, Active, NoWriter, NoRun
<1>3. Len(arweave) = 0 /\ Batched = {} /\ Len(batches) = 0
  BY DEF Init, Batched
<1>4. BatchInv
  BY <1>3, BoundsAssumption DEF BatchInv
<1>5. ArchiveInv
  BY <1>3 DEF Init, ArchiveInv, ReferencesAreUploaded, LinksLeadBack, OnlyCommittedIsArchived
<1>. QED BY <1>1, <1>2, <1>4, <1>5 DEF IInv

(* No step breaks the invariant. *)
LEMMA NextIInv == ASSUME IInv, [Next]_vars PROVE IInv'
<1>1. ASSUME NEW w \in Writers, NEW g \in Grids, BeginOccupy(w, g) \/ BeginUpdate(w, g)
      PROVE  IInv'
  BY <1>1, BeginStep
<1>2. ASSUME NEW w \in Writers, WriterStep(w) \/ RollbackChange(w)
      PROVE  IInv'
  BY <1>2, WriterSteps, CommitChangeStep DEF WriterStep, OwnStep
<1>3. ASSUME NEW u \in Runs, ReadPendings(u) \/ RunStep(u) \/ RunFails(u)
      PROVE  IInv'
  BY <1>3, ReadPendingsStep, CreateTransactionStep, CreateTransactionFailsStep, WaitingStep,
     CommitReferencesStep, TruncateStep DEF RunStep, Waiting
<1>4. CASE UNCHANGED vars
  <2>1. UNCHANGED <<done, pending, ref, batches, lastId, arweave, wr, run, lastChange, exposed,
                    archiving, skipped, toggles, crashes>>
    BY <1>4 DEF vars
  <2>2. TypeOK' /\ QueueInv'
    BY <2>1 DEF IInv, TypeOK, QueueInv, Busy
  <2>3. RunInv' /\ BatchInv' /\ ArchiveInv'
    BY <2>1, Kept
  <2>. QED BY <2>2, <2>3 DEF IInv
<1>. QED BY <1>1, <1>2, <1>3, <1>4, ToggleStep, CrashStep DEF Next

(* The inductive invariant holds in every reachable state. *)
THEOREM Invariance == Spec => []IInv
<1>1. Init => IInv
  BY InitIInv
<1>2. IInv /\ [Next]_vars => IInv'
  BY NextIInv
<1>. QED BY <1>1, <1>2, PTL DEF Spec

(* The state keeps its types. *)
THEOREM TypeCorrectness == Spec => []TypeOK
BY Invariance, PTL DEF IInv

(* References name transactions on Arweave that belong to a committed batch and
   hold an item of the grid, for any number of overlapping runs. *)
THEOREM ReferencesHold == Spec => []ReferencesAreUploaded
BY Invariance, PTL DEF IInv, ArchiveInv

(* previousTx and previousBatchTx lead back in time, to what the database had
   committed. *)
THEOREM LinksHold == Spec => []LinksLeadBack
BY Invariance, PTL DEF IInv, ArchiveInv

(* What is archived for ever was committed. *)
THEOREM ArchiveIsCommitted == Spec => []OnlyCommittedIsArchived
BY Invariance, PTL DEF IInv, ArchiveInv
-----------------------------------------------------------------------------
(* With a single run the batch it read stays the last one until it commits its
   own, and the ids of the batches ascend. *)
OneRun == \A u, v \in Runs : u = v

Ascending == \A i, j \in 1 .. Len(batches) : i < j => batches[i].id < batches[j].id

\* Id n is greater than those of the batches.
Newest(n) == \A i \in 1 .. Len(batches) : batches[i].id < n

ChainInv ==
  /\ BatchesFormOneChain /\ Ascending
  /\ \A u \in Runs :
       /\ run[u].phase \in {"read", "uploaded", "saving"} => run[u].prevBatch = LastBatch
       /\ run[u].phase = "saving" => Newest(run[u].batch)

(* The last batch by its id is then the last to have been committed. *)
LEMMA LastIsNewest ==
  ASSUME IInv, Ascending
  PROVE  LastBatch = IF Len(batches) = 0 THEN 0 ELSE batches[Len(batches)].tx
<1> DEFINE n == Len(batches)
<1>1. batches \in Seq(Batch) /\ n \in Nat /\ (batches = << >> <=> n = 0)
  <2>1. batches \in Seq(Batch)
    BY DEF IInv, TypeOK
  <2>. QED BY <2>1, EmptySeq
<1>2. \A i \in 1 .. n : batches[i].id \in Nat
  <2>1. \A i \in 1 .. n : batches[i] \in Batch
    BY <1>1, ElementOfSeq
  <2>. QED BY <2>1 DEF Batch
<1>3. ASSUME n # 0
      PROVE  \A i \in 1 .. n : Latest(i) <=> i = n
  <2>1. n \in 1 .. n
    BY <1>1, <1>3
  <2>2. Latest(n)
    <3>1. ASSUME NEW j \in 1 .. n PROVE batches[j].id <= batches[n].id
      <4>1. CASE j = n
        BY <1>2, <2>1, <4>1
      <4>2. CASE j < n
        BY <1>2, <2>1, <4>2 DEF Ascending
      <4>. QED BY <1>1, <4>1, <4>2
    <3>. QED BY <3>1 DEF Latest
  <2>3. ASSUME NEW i \in 1 .. n, Latest(i), i # n PROVE FALSE
    <3>1. batches[n].id <= batches[i].id
      BY <2>1, <2>3 DEF Latest
    <3>2. batches[i].id < batches[n].id
      BY <1>1, <2>1, <2>3 DEF Ascending
    <3>. QED BY <1>2, <2>1, <3>1, <3>2
  <2>. QED BY <2>2, <2>3
<1>4. CASE n = 0
  BY <1>1, <1>4 DEF LastBatch
<1>5. CASE n # 0
  <2> DEFINE k == CHOOSE i \in 1 .. n : Latest(i)
  <2>1. \E i \in 1 .. n : Latest(i)
    BY <1>1, <1>3, <1>5
  <2>2. k \in 1 .. n /\ Latest(k)
    BY <2>1
  <2>3. k = n
    BY <1>3, <1>5, <2>2
  <2>4. LastBatch = batches[k].tx
    BY <1>1, <1>5 DEF LastBatch
  <2> HIDE DEF k
  <2>. QED BY <1>5, <2>3, <2>4
<1>. QED BY <1>4, <1>5

(* A step that posts nothing, commits no batch and at most lets runs move on. *)
LEMMA ChainKept ==
  ASSUME IInv, ChainInv, UNCHANGED <<batches, arweave>>,
         \A u \in Runs :
           \/ run'[u] = run[u]
           \/ run'[u].phase \in {"idle", "committed", "truncating"}
           \/ run'[u].phase = "read" /\ run'[u].prevBatch = LastBatch
           \/ /\ run[u].phase \in {"uploaded", "saving"} /\ run'[u].phase = "saving"
              /\ run'[u].prevBatch = run[u].prevBatch /\ Newest(run'[u].batch)
  PROVE  ChainInv'
<1>1. LastBatch' = LastBatch /\ BatchesFormOneChain' /\ Ascending'
  BY DEF LastBatch, Latest, ChainInv, BatchesFormOneChain, Ascending
<1>2. \A u \in Runs : Newest(run'[u].batch) => Newest(run[u].batch)'
  BY DEF Newest
<1>. QED BY <1>1, <1>2 DEF ChainInv

(* What is posted names the last batch, and batches keep their transactions. *)
LEMMA ChainPost ==
  ASSUME IInv, ChainInv, NEW u \in Runs, run[u].phase = "read", Len(arweave) < MaxUploads,
         Post(u), UNCHANGED batches, OneRun,
         \/ run'[u].phase = "idle"
         \/ run'[u].phase = "uploaded" /\ run'[u].prevBatch = run[u].prevBatch
  PROVE  ChainInv'
<1>1. \A t \in 1 .. Len(arweave) : arweave'[t] = arweave[t]
  BY Posting
<1>2. \A i \in 1 .. Len(batches) : batches[i].tx \in 1 .. Len(arweave)
  BY DEF IInv, BatchInv, Batched
<1>3. BatchesFormOneChain' /\ Ascending'
  BY <1>1, <1>2 DEF ChainInv, BatchesFormOneChain, Ascending
<1>4. LastBatch' = LastBatch
  BY DEF LastBatch, Latest
<1>5. run[u].prevBatch = LastBatch
  BY DEF ChainInv
<1>6. \A v \in Runs : v = u
  BY DEF OneRun
<1>. QED BY <1>3, <1>4, <1>5, <1>6 DEF ChainInv

(* The batch that is committed follows the last one. *)
LEMMA ChainCommit ==
  ASSUME IInv, ChainInv, NEW u \in Runs, CommitReferences(u), OneRun
  PROVE  ChainInv'
<1> DEFINE n == Len(batches)
           tx == run[u].tx
<1>1. batches' = Append(batches, NewBatch(u)) /\ arweave' = arweave /\ run[u].phase = "saving"
  BY DEF CommitReferences, SavedAll
<1>2. /\ n \in Nat /\ Len(batches') = n + 1
      /\ batches'[n + 1].tx = tx /\ batches'[n + 1].id = run[u].batch
      /\ \A i \in 1 .. n : batches'[i] = batches[i]
  BY <1>1 DEF IInv, TypeOK, NewBatch
<1>3. arweave[tx].prevBatch = LastBatch
  BY <1>1, ActiveRun DEF ChainInv, Active, Sound
<1>4. LastBatch = IF n = 0 THEN 0 ELSE batches[n].tx
  BY LastIsNewest DEF ChainInv
<1>5. BatchesFormOneChain'
  <2> SUFFICES ASSUME NEW i \in 1 .. n + 1
               PROVE  arweave[batches'[i].tx].prevBatch = IF i = 1 THEN 0 ELSE batches'[i - 1].tx
    BY <1>1, <1>2 DEF BatchesFormOneChain
  <2>1. CASE i = n + 1
    <3>1. CASE n = 0
      BY <1>2, <1>3, <1>4, <2>1, <3>1
    <3>2. CASE n # 0
      <4>1. n \in 1 .. n /\ i - 1 = n /\ i # 1
        BY <1>2, <2>1, <3>2
      <4>2. batches'[i - 1] = batches[n]
        BY <1>2, <4>1
      <4>. QED BY <1>2, <1>3, <1>4, <2>1, <3>2, <4>1, <4>2
    <3>. QED BY <3>1, <3>2
  <2>2. CASE i \in 1 .. n
    <3>1. arweave[batches[i].tx].prevBatch = IF i = 1 THEN 0 ELSE batches[i - 1].tx
      BY <2>2 DEF ChainInv, BatchesFormOneChain
    <3>2. i # 1 => i - 1 \in 1 .. n
      BY <1>2, <2>2
    <3>. QED BY <1>2, <2>2, <3>1, <3>2
  <2>. QED BY <1>2, <2>1, <2>2
<1>6. Ascending'
  <2> SUFFICES ASSUME NEW i \in 1 .. n + 1, NEW j \in 1 .. n + 1, i < j
               PROVE  batches'[i].id < batches'[j].id
    BY <1>2 DEF Ascending
  <2>1. i \in 1 .. n
    BY <1>2
  <2>2. CASE j = n + 1
    <3>1. batches[i].id < run[u].batch
      BY <1>1, <2>1 DEF ChainInv, Newest
    <3>. QED BY <1>2, <2>1, <2>2, <3>1
  <2>3. CASE j \in 1 .. n
    BY <1>2, <2>1, <2>3 DEF ChainInv, Ascending
  <2>. QED BY <1>2, <2>2, <2>3
<1>7. \A v \in Runs : v = u
  BY DEF OneRun
<1>8. run'[u].phase = "committed"
  <2>1. run[u] \in Upload
    BY <1>1, ActiveRun DEF Active
  <2>. QED BY <2>1 DEF CommitReferences, IInv, TypeOK, Upload
<1>. QED BY <1>5, <1>6, <1>7, <1>8 DEF ChainInv

(* No step breaks the chain while there is a single run. *)
LEMMA NextChain ==
  ASSUME IInv, ChainInv, [Next]_vars, OneRun
  PROVE  ChainInv'
<1>1. ASSUME UNCHANGED <<batches, arweave>>,
             \A u \in Runs : run'[u] = run[u] \/ run'[u] = NoRun
      PROVE  ChainInv'
  BY <1>1, ChainKept DEF NoRun
<1>2. ASSUME NEW w \in Writers, NEW g \in Grids, BeginOccupy(w, g) \/ BeginUpdate(w, g)
      PROVE  ChainInv'
  BY <1>1, <1>2 DEF BeginOccupy, BeginUpdate, Begin, tables
<1>3. ASSUME NEW w \in Writers, WriterStep(w) \/ RollbackChange(w)
      PROVE  ChainInv'
  <2>1. UNCHANGED <<batches, arweave, run>>
    BY <1>3 DEF WriterStep, UpdateGrid, ReadPending, QueueChange, DeadlockVictim, SkipChange,
                CommitChange, RollbackChange, tables
  <2>. QED BY <1>1, <2>1
<1>4. ASSUME NEW u \in Runs, ReadPendings(u)
      PROVE  ChainInv'
  <2>1. UNCHANGED <<batches, arweave>>
    BY <1>4 DEF ReadPendings, tables
  <2>2. run'[u].phase = "read" /\ run'[u].prevBatch = LastBatch
    BY <1>4 DEF ReadPendings, IInv, TypeOK
  <2>3. \A v \in Runs : v = u
    BY DEF OneRun
  <2>. QED BY <2>1, <2>2, <2>3, ChainKept
<1>5. ASSUME NEW u \in Runs, CreateTransaction(u)
      PROVE  ChainInv'
  <2>1. /\ run[u].phase = "read" /\ Len(arweave) < MaxUploads /\ Post(u) /\ UNCHANGED batches
        /\ run' = [run EXCEPT ![u].phase = "uploaded", ![u].tx = Len(arweave')]
    BY <1>5 DEF CreateTransaction, tables
  <2>2. run[u] \in Upload
    BY <2>1, ActiveRun DEF Active
  <2>3. run'[u].phase = "uploaded" /\ run'[u].prevBatch = run[u].prevBatch
    BY <2>1, <2>2 DEF IInv, TypeOK, Upload
  <2>. QED BY <2>1, <2>3, ChainPost
<1>6. ASSUME NEW u \in Runs, CreateTransactionFails(u)
      PROVE  ChainInv'
  <2>1. run[u].phase = "read" /\ UNCHANGED batches /\ run' = [run EXCEPT ![u] = NoRun]
    BY <1>6 DEF CreateTransactionFails, tables
  <2>2. CASE UNCHANGED arweave
    BY <1>1, <2>1, <2>2 DEF IInv, TypeOK
  <2>3. CASE Len(arweave) < MaxUploads /\ Post(u)
    <3>1. run'[u].phase = "idle"
      BY <2>1 DEF IInv, TypeOK, NoRun
    <3>. QED BY <2>1, <2>3, <3>1, ChainPost
  <2>. QED BY <1>6, <2>2, <2>3 DEF CreateTransactionFails
<1>7. ASSUME NEW u \in Runs, Waiting(u)
      PROVE  ChainInv'
  <2>1. /\ run[u] \in Upload /\ run' = [run EXCEPT ![u] = run'[u]]
        /\ run'[u] = NoRun \/ MovesOn(u)
        /\ UNCHANGED <<batches, arweave>>
    BY <1>7, WaitingMoves DEF IInv
  <2>2. CASE run'[u] = NoRun
    BY <1>1, <2>1, <2>2 DEF IInv, TypeOK
  <2>3. CASE MovesOn(u)
    <3>1. \A v \in Runs : v = u
      BY DEF OneRun
    <3>2. CASE run'[u].phase = "truncating"
      BY <2>1, <3>1, <3>2, ChainKept
    <3>3. CASE run'[u].phase = "saving"
      <4>1. Newest(run'[u].batch)
        <5>1. CASE run'[u].batch = run[u].batch /\ run[u].phase = "saving"
          BY <5>1 DEF ChainInv
        <5>2. CASE run'[u].batch = lastId + 1
          <6>1. lastId \in Nat /\ \A i \in 1 .. Len(batches) : batches[i].id \in 1 .. lastId
            BY DEF IInv, TypeOK, BatchInv
          <6>2. \A i \in 1 .. Len(batches) : batches[i].id < lastId + 1
            BY <6>1
          <6>. QED BY <5>2, <6>2 DEF Newest
        <5>. QED BY <2>3, <3>3, <5>1, <5>2 DEF MovesOn
      <4>2. run[u].phase \in {"uploaded", "saving"} /\ run'[u].prevBatch = run[u].prevBatch
        BY <2>3, <3>3 DEF MovesOn
      <4>. QED BY <2>1, <3>1, <3>3, <4>1, <4>2, ChainKept
    <3>. QED BY <2>3, <3>2, <3>3 DEF MovesOn
  <2>. QED BY <2>1, <2>2, <2>3
<1>8. ASSUME NEW u \in Runs, Truncate(u)
      PROVE  ChainInv'
  BY <1>1, <1>8 DEF Truncate, IInv, TypeOK
<1>9. CASE Toggle \/ Crash
  BY <1>1, <1>9 DEF Toggle, Crash, tables
<1>10. CASE UNCHANGED vars
  BY <1>1, <1>10 DEF vars
<1>. QED BY <1>2, <1>3, <1>4, <1>5, <1>6, <1>7, <1>8, <1>9, <1>10, ChainCommit
         DEF Next, RunStep, Waiting

(* Runs of a single cron job that never overlap form one chain of batches,
   whatever fails or crashes in between. *)
THEOREM OneRunOneChain == ASSUME OneRun PROVE Spec => []BatchesFormOneChain
<1>1. Init => ChainInv
  BY DEF Init, ChainInv, BatchesFormOneChain, Ascending, NoRun
<1>2. IInv /\ ChainInv /\ [Next]_vars => ChainInv'
  BY NextChain
<1>3. ChainInv => BatchesFormOneChain
  BY DEF ChainInv
<1>. QED BY <1>1, <1>2, <1>3, Invariance, PTL DEF Spec
-----------------------------------------------------------------------------
(* No change is lost that was committed alone.  What a transaction goes on to
   write, and what a run goes on to reference and to clear, must then hold every
   such change of the pending row, or of the row and the archive together. *)

\* Writer h has the pending row of its grid, but for exposed changes and its own.
RowCurrent(h) ==
  /\ pending[h.grid] \ exposed \subseteq h.row
  /\ h.row \subseteq pending[h.grid] \cup exposed \cup {h.change}
  /\ h.phase = "queued" => h.change \in h.row

\* Run h uploads what it clears, and what it references leads to the rest.
Covers(h) ==
  \A g \in Grids :
    /\ pending[g] \ exposed \subseteq h.items[g]
    /\ h.items[g] # {} => Lasting(g) \subseteq h.items[g] \cup Found(h.prev[g], g)
    /\ h.items[g] # {} /\ h.phase \in {"committed", "truncating"} =>
         Lasting(g) \subseteq Trail(g)

LossInv ==
  /\ OnlyExposedChangesAreLost
  /\ \A w \in Writers : Busy(w) => RowCurrent(wr[w])
  /\ \A u \in Runs : Active(u) => Covers(run[u])

(* From a transaction one reaches the transaction itself and all that can be
   reached from its previous one. *)
LEMMA ReachedFrom ==
  ASSUME NEW g, NEW t \in 1 .. Len(arweave), Len(arweave) \in Nat
  PROVE  {t} \cup Reached(arweave[t].prev[g], g) \subseteq Reached(t, g)
<1>1. t \in Reached(t, g)
  BY DEF Reached
<1>2. Reached(arweave[t].prev[g], g) \subseteq Reached(t, g)
  <2> SUFFICES ASSUME NEW s \in Reached(arweave[t].prev[g], g),
                      NEW T \in SUBSET (0 .. Len(arweave)), t \in T,
                      \A v \in T \ {0} : arweave[v].prev[g] \in T
               PROVE  s \in T
    BY DEF Reached
  <2>1. arweave[t].prev[g] \in T
    OBVIOUS
  <2>. QED BY <2>1 DEF Reached
<1>. QED BY <1>1, <1>2

(* It finds its own items and what its previous one finds. *)
LEMMA FoundFrom ==
  ASSUME NEW g, NEW t \in 1 .. Len(arweave), Len(arweave) \in Nat
  PROVE  arweave[t].items[g] \cup Found(arweave[t].prev[g], g) \subseteq Found(t, g)
BY ReachedFrom DEF Found

(* What is reached stays in reach when more is posted. *)
LEMMA ReachedStays ==
  ASSUME IInv, NEW g \in Grids, NEW t \in 0 .. Len(arweave),
         Len(arweave) <= Len(arweave'), Len(arweave') \in Nat,
         \A v \in 1 .. Len(arweave) : arweave'[v] = arweave[v]
  PROVE  Reached(t, g) \subseteq Reached(t, g)'
<1> DEFINE n == Len(arweave)
<1>1. n \in Nat /\ 0 .. n \subseteq 0 .. Len(arweave')
  BY DEF IInv, TypeOK
<1>2. \A v \in 1 .. n : arweave[v].prev[g] \in 0 .. n
  <2> SUFFICES ASSUME NEW v \in 1 .. n PROVE arweave[v].prev[g] \in 0 .. n
    OBVIOUS
  <2>1. arweave[v] \in ArweaveTx
    BY DEF IInv, TypeOK
  <2>2. arweave[v].prev[g] \in Nat
    BY <2>1, BoundsAssumption DEF ArweaveTx
  <2>3. arweave[v].prev[g] < v
    BY DEF IInv, ArchiveInv, LinksLeadBack
  <2>. QED BY <1>1, <2>2, <2>3
<1> SUFFICES ASSUME NEW s \in Reached(t, g) PROVE s \in Reached(t, g)'
  OBVIOUS
<1>3. s \in 1 .. n /\ s \in 1 .. Len(arweave')
  BY <1>1 DEF Reached
<1>4. ASSUME NEW T \in SUBSET (0 .. Len(arweave')), t \in T,
             \A v \in T \ {0} : arweave'[v].prev[g] \in T
      PROVE  s \in T
  <2> DEFINE S == T \cap 0 .. n
  <2>1. S \in SUBSET (0 .. n) /\ t \in S
    BY <1>4
  <2>2. \A v \in S \ {0} : arweave[v].prev[g] \in S
    BY <1>1, <1>2, <1>4
  <2>3. s \in S
    <3> HIDE DEF S
    <3>. QED BY <2>1, <2>2 DEF Reached
  <2>. QED BY <2>3
<1>. QED BY <1>3, <1>4 DEF Reached

(* What is found stays found. *)
LEMMA FoundStays ==
  ASSUME IInv, NEW g \in Grids, NEW t \in 0 .. Len(arweave),
         Len(arweave) <= Len(arweave'), Len(arweave') \in Nat,
         \A v \in 1 .. Len(arweave) : arweave'[v] = arweave[v]
  PROVE  Found(t, g) \subseteq Found(t, g)'
<1>1. Reached(t, g) \subseteq Reached(t, g)'
  BY ReachedStays
<1>2. \A s \in Reached(t, g) : arweave'[s] = arweave[s]
  BY DEF Reached
<1>. QED BY <1>1, <1>2 DEF Found

(* As long as the tables, Arweave and the history stay as they are, each writer and
   run need only keep what it knows. *)
LEMMA LossKept ==
  ASSUME IInv, LossInv, UNCHANGED <<done, pending, ref, arweave, exposed, skipped>>,
         \A w \in Writers : Busy(w)' => wr'[w] = wr[w] \/ RowCurrent(wr'[w]),
         \A u \in Runs : Active(u)' => run'[u] = run[u] \/ Covers(run'[u])
  PROVE  LossInv'
<1>1. \A g : Lasting(g)' = Lasting(g)
  BY DEF Lasting
<1>2. \A t, g : Found(t, g)' = Found(t, g)
  BY DEF Found, Reached
<1>3. \A g : Trail(g)' = Trail(g)
  BY <1>2 DEF Trail
<1>4. OnlyExposedChangesAreLost'
  BY <1>1, <1>3 DEF LossInv, OnlyExposedChangesAreLost
<1>5. ASSUME NEW w \in Writers, Busy(w)' PROVE RowCurrent(wr[w])'
  <2>1. RowCurrent(wr'[w])
    BY <1>5 DEF LossInv, Busy
  <2>. QED BY <2>1 DEF RowCurrent
<1>6. ASSUME NEW u \in Runs, Active(u)' PROVE Covers(run[u])'
  <2>1. Covers(run'[u])
    BY <1>6 DEF LossInv, Active
  <2>. QED BY <1>1, <1>2, <1>3, <2>1 DEF Covers
<1>. QED BY <1>4, <1>5, <1>6 DEF LossInv

(* A transaction that begins has read the pending row of its grid. *)
LEMMA LossBegin ==
  ASSUME IInv, LossInv, NEW w \in Writers, NEW g \in Grids,
         BeginOccupy(w, g) \/ BeginUpdate(w, g)
  PROVE  LossInv'
<1>1. PICK phase \in {"opened", "locked"} : Begin(w, g, pending[g], phase)
  BY DEF BeginOccupy, BeginUpdate, IInv, QueueInv
<1> PICK k : k = [phase |-> phase, grid |-> g, change |-> lastChange', row |-> pending[g]]
  OBVIOUS
<1>2. wr' = [wr EXCEPT ![w] = k]
      /\ UNCHANGED <<done, pending, ref, arweave, exposed, skipped, run>>
  BY <1>1 DEF Begin, tables, switch
<1>3. RowCurrent(k)
  BY DEF RowCurrent
<1>4. \A v \in Writers : wr'[v] = wr[v] \/ RowCurrent(wr'[v])
  BY <1>2, <1>3 DEF IInv, TypeOK
<1>. QED BY <1>2, <1>4, LossKept

(* Until it commits, a transaction merges its own change into the row. *)
LEMMA LossWriter ==
  ASSUME IInv, LossInv, NEW w \in Writers,
         OwnStep(w)
  PROVE  LossInv'
<1> DEFINE h == wr[w]
           Moved == {NoWriter, [h EXCEPT !.phase = "locked"], [h EXCEPT !.phase = "looked"],
                     [h EXCEPT !.phase = "skipped"],
                     [h EXCEPT !.phase = "queued", !.row = @ \cup {h.change}]}
<1>1. h \in Writer /\ RowCurrent(h)
  BY DEF OwnStep, UpdateGrid, ReadPending, QueueChange, DeadlockVictim, SkipChange,
         RollbackChange, Busy, NoWriter, IInv, TypeOK,
         LossInv
<1>2. \E k \in Moved : wr' = [wr EXCEPT ![w] = k]
  <2>1. CASE UpdateGrid(w)
    BY <2>1 DEF UpdateGrid, IInv, TypeOK
  <2>2. CASE QueueChange(w)
    BY <2>2 DEF QueueChange, IInv, TypeOK
  <2>3. CASE SkipChange(w)
    BY <2>3 DEF SkipChange, IInv, TypeOK
  <2>4. CASE RollbackChange(w) \/ DeadlockVictim(w)
    BY <2>4 DEF RollbackChange, DeadlockVictim
  <2>5. CASE ReadPending(w)
    BY <2>5 DEF ReadPending, IInv, TypeOK
  <2>. QED BY <2>1, <2>2, <2>3, <2>4, <2>5 DEF OwnStep
<1>3. ASSUME NEW k \in Moved, k # NoWriter PROVE RowCurrent(k)
  <2>1. CASE k = [h EXCEPT !.phase = "locked"]
    BY <1>1, <2>1 DEF Writer, RowCurrent
  <2>2. CASE k = [h EXCEPT !.phase = "skipped"]
    BY <1>1, <2>2 DEF Writer, RowCurrent
  <2>3. CASE k = [h EXCEPT !.phase = "queued", !.row = @ \cup {h.change}]
    BY <1>1, <2>3 DEF Writer, RowCurrent
  <2>4. CASE k = [h EXCEPT !.phase = "looked"]
    BY <1>1, <2>4 DEF Writer, RowCurrent
  <2>. QED BY <1>3, <2>1, <2>2, <2>3, <2>4
<1>4. UNCHANGED <<done, pending, ref, arweave, exposed, skipped, run>>
  BY DEF OwnStep, UpdateGrid, ReadPending, QueueChange, DeadlockVictim, SkipChange,
         RollbackChange, tables, switch
<1> HIDE DEF Moved
<1>5. \A v \in Writers : Busy(v)' => wr'[v] = wr[v] \/ RowCurrent(wr'[v])
  BY <1>2, <1>3 DEF Busy, NoWriter, IInv, TypeOK
<1>. QED BY <1>4, <1>5, LossKept

(* A commit beside a run or beside another transaction of its grid is exposed, so
   that all others still hold what is not. *)
LEMMA LossCommit ==
  ASSUME IInv, LossInv, NEW w \in Writers, CommitChange(w)
  PROVE  LossInv'
<1> DEFINE h == wr[w]
<1>1. h \in Writer /\ RowCurrent(h) /\ h.phase \in {"queued", "skipped"}
  BY DEF CommitChange, Busy, NoWriter, IInv, TypeOK, LossInv
<1>2. h.grid \in Grids
  BY <1>1 DEF Writer
<1>3. /\ done' = [done EXCEPT ![h.grid] = @ \cup {h.change}]
      /\ wr' = [wr EXCEPT ![w] = NoWriter]
      /\ UNCHANGED <<ref, arweave, run>>
      /\ exposed \subseteq exposed' /\ skipped \subseteq skipped'
      /\ (\E u \in Runs : Active(u)) \/ OpenOn(h.grid) # {w} => h.change \in exposed'
  BY DEF CommitChange
<1>4. /\ h.phase = "queued" => pending' = [pending EXCEPT ![h.grid] = h.row]
      /\ h.phase = "skipped" => pending' = pending /\ h.change \in skipped'
  BY DEF CommitChange
<1>5. /\ \A g \in Grids : g # h.grid => pending'[g] = pending[g]
      /\ pending'[h.grid] = pending[h.grid] \/ pending'[h.grid] = h.row
  BY <1>1, <1>2, <1>4 DEF IInv, TypeOK
<1>6. \A t, g : Found(t, g)' = Found(t, g) /\ Trail(g)' = Trail(g)
  BY <1>3 DEF Found, Reached, Trail
<1>7. \A g \in Grids : Lasting(g)' \subseteq Lasting(g) \cup (IF g = h.grid THEN {h.change} ELSE {})
  BY <1>2, <1>3 DEF Lasting, IInv, TypeOK
<1>8. OnlyExposedChangesAreLost'
  <2> SUFFICES ASSUME NEW g \in Grids, NEW c \in Lasting(g)'
               PROVE  c \in pending'[g] \/ c \in Trail(g)
    BY <1>6 DEF OnlyExposedChangesAreLost
  <2>1. CASE c \in Lasting(g)
    <3>1. c \in pending[g] \/ c \in Trail(g)
      BY <2>1 DEF LossInv, OnlyExposedChangesAreLost
    <3>2. c \notin exposed
      BY <2>1 DEF Lasting
    <3>3. g = h.grid /\ c \in pending[g] => c \in h.row
      BY <1>1, <3>2 DEF RowCurrent
    <3>. QED BY <1>5, <3>1, <3>3
  <2>2. CASE g = h.grid /\ c = h.change
    <3>1. h.phase = "queued"
      BY <1>1, <1>4, <2>2 DEF Lasting
    <3>2. pending'[g] = h.row /\ c \in h.row
      BY <1>1, <1>2, <1>4, <2>2, <3>1 DEF RowCurrent, IInv, TypeOK
    <3>. QED BY <3>2
  <2>. QED BY <1>7, <2>1, <2>2
<1>9. ASSUME NEW v \in Writers, Busy(v)' PROVE RowCurrent(wr[v])'
  <2>1. v # w /\ wr'[v] = wr[v] /\ Busy(v)
    BY <1>3, <1>9 DEF Busy, NoWriter, IInv, TypeOK
  <2>2. RowCurrent(wr[v]) /\ wr[v] \in Writer
    BY <2>1 DEF LossInv, Busy, NoWriter, IInv, TypeOK
  <2>3. CASE wr[v].grid # h.grid
    <3>1. pending'[wr[v].grid] = pending[wr[v].grid]
      BY <1>5, <2>2, <2>3 DEF Writer
    <3>. QED BY <1>3, <2>1, <2>2, <3>1 DEF RowCurrent
  <2>4. CASE wr[v].grid = h.grid
    <3>1. h.change \in exposed'
      BY <1>3, <2>1, <2>4 DEF OpenOn
    <3>2. pending'[h.grid] \ exposed' \subseteq pending[h.grid] \ exposed
      BY <1>1, <1>3, <1>5, <3>1 DEF RowCurrent
    <3>3. pending[h.grid] \subseteq pending'[h.grid] \cup exposed'
      BY <1>1, <1>3, <1>5 DEF RowCurrent
    <3>. QED BY <1>3, <2>1, <2>2, <2>4, <3>2, <3>3 DEF RowCurrent
  <2>. QED BY <2>3, <2>4
<1>10. ASSUME NEW u \in Runs, Active(u)' PROVE Covers(run[u])'
  <2>1. run'[u] = run[u] /\ Active(u) /\ Covers(run[u])
    BY <1>3, <1>10 DEF Active, LossInv
  <2>2. h.change \in exposed'
    BY <1>3, <2>1
  <2>3. \A g \in Grids : pending'[g] \ exposed' \subseteq pending[g] \ exposed
    BY <1>1, <1>3, <1>5, <2>2 DEF RowCurrent
  <2>4. \A g \in Grids : Lasting(g)' \subseteq Lasting(g)
    BY <1>7, <2>2 DEF Lasting
  <2>. QED BY <1>6, <2>1, <2>3, <2>4 DEF Covers
<1>. QED BY <1>8, <1>9, <1>10 DEF LossInv

(* A run that begins reads all there is to lose: what is queued, and the references
   to the rest. *)
LEMMA LossRead ==
  ASSUME IInv, LossInv, NEW u \in Runs, ReadPendings(u)
  PROVE  LossInv'
<1> DEFINE items == PendingsOf(u)
           h == [phase |-> "read", items |-> items,
                 prev |-> [g \in Grids |-> IF items[g] # {} THEN ref[g] ELSE 0],
                 prevBatch |-> LastBatch, tx |-> 0, batch |-> 0, saved |-> {}]
<1>1. run' = [run EXCEPT ![u] = h]
      /\ UNCHANGED <<done, pending, ref, arweave, wr, exposed, skipped>>
  BY DEF ReadPendings, tables, switch
<1>2. Covers(h)
  <2>1. \A g \in Grids : pending[g] \subseteq items[g]
    BY DEF IInv, QueueInv, PendingsOf
  <2>2. \A g \in Grids : h.items[g] # {} => h.prev[g] = ref[g]
    OBVIOUS
  <2>3. \A g \in Grids : Lasting(g) \subseteq pending[g] \cup Trail(g)
    BY DEF LossInv, OnlyExposedChangesAreLost
  <2>4. h.phase = "read" /\ h.items = items
    OBVIOUS
  <2> HIDE DEF h, items
  <2>. QED BY <2>1, <2>2, <2>3, <2>4 DEF Covers, Trail
<1>3. \A v \in Runs : run'[v] = run[v] \/ Covers(run'[v])
  BY <1>1, <1>2 DEF IInv, TypeOK
<1>. QED BY <1>1, <1>3, LossKept

(* What is posted adds to what is found. *)
LEMMA LossPost ==
  ASSUME IInv, LossInv, NEW u \in Runs, CreateTransaction(u) \/ CreateTransactionFails(u)
  PROVE  LossInv'
<1>1. /\ run[u].phase = "read"
      /\ UNCHANGED arweave \/ (Len(arweave) < MaxUploads /\ Post(u))
      /\ UNCHANGED <<done, pending, ref, wr, exposed, skipped>>
      /\ \/ run' = [run EXCEPT ![u] = NoRun]
         \/ run' = [run EXCEPT ![u].phase = "uploaded", ![u].tx = Len(arweave')]
  BY DEF CreateTransaction, CreateTransactionFails, tables, switch
<1>2. run[u] \in Upload /\ Sound(run[u])
  BY <1>1, ActiveRun DEF Active
<1>3. /\ Len(arweave) \in Nat /\ Len(arweave') \in Nat /\ Len(arweave) <= Len(arweave')
      /\ \A t \in 1 .. Len(arweave) : arweave'[t] = arweave[t]
  <2>1. Len(arweave) \in Nat
    BY DEF IInv, TypeOK
  <2>2. CASE UNCHANGED arweave
    BY <2>1, <2>2
  <2>3. CASE Len(arweave) < MaxUploads /\ Post(u)
    <3>1. Len(arweave') = Len(arweave) + 1
          /\ \A t \in 1 .. Len(arweave) : arweave'[t] = arweave[t]
      BY <1>1, <2>3, Posting
    <3>. QED BY <2>1, <3>1
  <2>. QED BY <1>1, <2>2, <2>3
<1>4. \A g \in Grids, t \in 0 .. Len(arweave) : Found(t, g) \subseteq Found(t, g)'
  BY <1>3, FoundStays
<1>5. \A g \in Grids : ref[g] \in 0 .. Len(arweave)
  <2>1. \A g \in Grids : ref[g] \in Nat
    BY BoundsAssumption DEF IInv, TypeOK
  <2>. QED BY <1>3, <2>1 DEF IInv, ArchiveInv, ReferencesAreUploaded
<1>6. \A g \in Grids : Trail(g) \subseteq Trail(g)'
  BY <1>1, <1>4, <1>5 DEF Trail
<1>7. \A g : Lasting(g)' = Lasting(g)
  BY <1>1 DEF Lasting
<1>8. OnlyExposedChangesAreLost'
  BY <1>1, <1>6, <1>7 DEF LossInv, OnlyExposedChangesAreLost
<1>9. ASSUME NEW w \in Writers, Busy(w)' PROVE RowCurrent(wr[w])'
  BY <1>1, <1>9 DEF LossInv, Busy, RowCurrent
<1>10. ASSUME NEW v \in Runs, Active(v)' PROVE Covers(run[v])'
  <2>1. /\ Active(v) /\ run'[v].items = run[v].items /\ run'[v].prev = run[v].prev
        /\ run'[v].phase \in {"committed", "truncating"} => run[v].phase \in {"committed", "truncating"}
    <3>1. CASE v # u
      BY <1>1, <1>10, <3>1 DEF Active, IInv, TypeOK
    <3>2. CASE v = u /\ run' = [run EXCEPT ![u].phase = "uploaded", ![u].tx = Len(arweave')]
      BY <1>1, <1>2, <3>2 DEF Active, IInv, TypeOK, Upload
    <3>3. CASE v = u /\ run' = [run EXCEPT ![u] = NoRun]
      BY <1>10, <3>3 DEF Active, NoRun, IInv, TypeOK
    <3>. QED BY <1>1, <3>1, <3>2, <3>3
  <2>2. Covers(run[v]) /\ run[v] \in Upload /\ Sound(run[v])
    BY <2>1, ActiveRun DEF LossInv
  <2>3. \A g \in Grids : run[v].prev[g] \in 0 .. Len(arweave)
    <3>1. \A g \in Grids : run[v].prev[g] \in Nat
      BY <2>2, BoundsAssumption DEF Upload
    <3>. QED BY <1>3, <2>2, <3>1 DEF Sound, Holds
  <2>4. \A g \in Grids : Found(run[v].prev[g], g) \subseteq Found(run[v].prev[g], g)'
    <3>1. \A g \in Grids : \A t \in 0 .. Len(arweave) : t = run[v].prev[g] =>
            Found(t, g) \subseteq Found(run[v].prev[g], g)'
      BY <1>4, <2>1
    <3>. QED BY <2>3, <3>1
  <2>. QED BY <1>1, <1>6, <1>7, <2>1, <2>2, <2>4 DEF Covers
<1>. QED BY <1>8, <1>9, <1>10 DEF LossInv

(* A run that waits keeps what it covers. *)
LEMMA LossWait ==
  ASSUME IInv, LossInv, NEW u \in Runs, Waiting(u)
  PROVE  LossInv'
<1>1. /\ Active(u) /\ run[u] \in Upload /\ run' = [run EXCEPT ![u] = run'[u]]
      /\ run'[u] = NoRun \/ MovesOn(u)
      /\ UNCHANGED <<done, pending, ref, arweave, wr, exposed, skipped>>
  BY WaitingMoves DEF IInv
<1>2. Covers(run[u])
  BY <1>1 DEF LossInv
<1>3. Active(u)' => Covers(run'[u])
  <2>1. Active(u)' => /\ run'[u].items = run[u].items /\ run'[u].prev = run[u].prev
                      /\ run'[u].phase \in {"committed", "truncating"} =>
                           run[u].phase \in {"committed", "truncating"}
    BY <1>1 DEF Active, NoRun, MovesOn
  <2>. QED BY <1>2, <2>1 DEF Covers
<1>4. \A v \in Runs : v # u => run'[v] = run[v]
  BY <1>1 DEF IInv, TypeOK
<1>. QED BY <1>1, <1>3, <1>4, LossKept

(* What is referenced now is found from the run's own transaction. *)
LEMMA LossReference ==
  ASSUME IInv, LossInv, NEW u \in Runs, CommitReferences(u)
  PROVE  LossInv'
<1> DEFINE tx == run[u].tx
<1>1. Active(u) /\ run[u] \in Upload /\ Sound(run[u]) /\ Covers(run[u]) /\ run[u].phase = "saving"
  BY ActiveRun DEF CommitReferences, SavedAll, Active, LossInv
<1>2. /\ ref' = [g \in Grids |-> IF g \in Uploaded(u) THEN tx ELSE ref[g]]
      /\ run' = [run EXCEPT ![u].phase = "committed"]
      /\ UNCHANGED <<done, pending, arweave, wr, exposed, skipped>>
  BY DEF CommitReferences, References, switch
<1>3. \A t, g : Found(t, g)' = Found(t, g) /\ Lasting(g)' = Lasting(g)
  BY <1>2 DEF Found, Reached, Lasting
<1>4. ASSUME NEW g \in Uploaded(u) PROVE Lasting(g) \subseteq Trail(g)'
  <2>1. g \in Grids /\ run[u].items[g] # {}
    BY DEF Uploaded
  <2>2. Lasting(g) \subseteq run[u].items[g] \cup Found(run[u].prev[g], g)
    BY <1>1, <2>1 DEF Covers
  <2>3. tx \in 1 .. Len(arweave) /\ arweave[tx].items = run[u].items
        /\ arweave[tx].prev = run[u].prev
    BY <1>1 DEF Sound
  <2>4. run[u].items[g] \cup Found(run[u].prev[g], g) \subseteq Found(tx, g)
    <3>1. Len(arweave) \in Nat
      BY DEF IInv, TypeOK
    <3>2. arweave[tx].items[g] \cup Found(arweave[tx].prev[g], g) \subseteq Found(tx, g)
      BY <2>3, <3>1, FoundFrom
    <3>. QED BY <2>3, <3>2
  <2>5. Trail(g)' = Found(tx, g)
    BY <1>2, <1>3, <2>1 DEF Trail
  <2>. QED BY <2>2, <2>4, <2>5
<1>5. ASSUME NEW g \in Grids, g \notin Uploaded(u) PROVE Trail(g)' = Trail(g)
  BY <1>2, <1>3, <1>5 DEF Trail
<1>6. OnlyExposedChangesAreLost'
  BY <1>2, <1>3, <1>4, <1>5 DEF LossInv, OnlyExposedChangesAreLost
<1>7. ASSUME NEW w \in Writers, Busy(w)' PROVE RowCurrent(wr[w])'
  BY <1>2, <1>7 DEF LossInv, Busy, RowCurrent
<1>8. ASSUME NEW v \in Runs, Active(v)' PROVE Covers(run[v])'
  <2>1. Active(v) /\ Covers(run[v]) /\ run[v] \in Upload
    BY <1>1, <1>2, <1>8, ActiveRun DEF Active, LossInv, IInv, TypeOK
  <2>2. /\ run'[v].items = run[v].items /\ run'[v].prev = run[v].prev
        /\ v # u => run'[v] = run[v]
    BY <1>1, <1>2, <2>1 DEF IInv, TypeOK, Upload
  <2>3. ASSUME NEW g \in Grids, run[v].items[g] # {},
               run'[v].phase \in {"committed", "truncating"}
        PROVE  Lasting(g) \subseteq Trail(g)'
    <3>1. CASE g \in Uploaded(u)
      BY <1>4, <3>1
    <3>2. CASE g \notin Uploaded(u)
      <4>1. v # u
        BY <2>3, <3>2 DEF Uploaded
      <4>. QED BY <1>5, <2>1, <2>2, <2>3, <3>2, <4>1 DEF Covers
    <3>. QED BY <3>1, <3>2
  <2>4. \A g \in Grids : Found(run[v].prev[g], g)' = Found(run[v].prev[g], g)
    BY <1>3, <2>2
  <2>. QED BY <1>2, <1>3, <2>1, <2>2, <2>3, <2>4 DEF Covers
<1>. QED BY <1>6, <1>7, <1>8 DEF LossInv

(* What is cleared is covered by the run that clears. *)
LEMMA LossTruncate ==
  ASSUME IInv, LossInv, NEW u \in Runs, Truncate(u)
  PROVE  LossInv'
<1>1. /\ pending' = [g \in Grids |-> {}]
      /\ wr' = [w \in Writers |-> IF Busy(w) THEN [wr[w] EXCEPT !.row = {}] ELSE wr[w]]
      /\ run' = [run EXCEPT ![u] = NoRun]
      /\ UNCHANGED <<done, ref, arweave, exposed, skipped>>
      /\ run[u].phase = "truncating" /\ \A w \in Writers : wr[w].phase # "queued"
  BY DEF Truncate, switch, UsingPendings
<1>2. Active(u) /\ Covers(run[u])
  BY <1>1 DEF Active, LossInv
<1>3. \A t, g : Found(t, g)' = Found(t, g) /\ Lasting(g)' = Lasting(g) /\ Trail(g)' = Trail(g)
  BY <1>1 DEF Found, Reached, Lasting, Trail
<1>4. \A g \in Grids : Lasting(g) \subseteq Trail(g)
  <2> SUFFICES ASSUME NEW g \in Grids, NEW c \in Lasting(g) PROVE c \in Trail(g)
    OBVIOUS
  <2>1. c \in pending[g] \/ c \in Trail(g)
    BY DEF LossInv, OnlyExposedChangesAreLost
  <2>2. c \in pending[g] => run[u].items[g] # {}
    BY <1>2 DEF Covers, Lasting
  <2>. QED BY <1>1, <1>2, <2>1, <2>2 DEF Covers
<1>5. OnlyExposedChangesAreLost'
  BY <1>3, <1>4 DEF OnlyExposedChangesAreLost
<1>6. ASSUME NEW w \in Writers, Busy(w)' PROVE RowCurrent(wr[w])'
  <2>1. Busy(w)
    BY <1>1, <1>6 DEF Busy
  <2>2. wr[w] \in Writer /\ wr'[w] = [wr[w] EXCEPT !.row = {}]
    BY <1>1, <2>1 DEF Busy, NoWriter, IInv, TypeOK
  <2>3. /\ wr'[w].row = {} /\ wr'[w].phase # "queued" /\ wr'[w].grid \in Grids
    BY <1>1, <2>2 DEF Writer
  <2>. QED BY <1>1, <2>3 DEF RowCurrent
<1>7. ASSUME NEW v \in Runs, Active(v)' PROVE Covers(run[v])'
  <2>1. run'[v] = run[v] /\ Active(v) /\ Covers(run[v])
    BY <1>1, <1>7 DEF Active, NoRun, IInv, TypeOK, LossInv
  <2>. QED BY <1>1, <1>3, <2>1 DEF Covers
<1>. QED BY <1>5, <1>6, <1>7 DEF LossInv

(* No step loses a change that lasts. *)
LEMMA NextLoss ==
  ASSUME IInv, LossInv, [Next]_vars
  PROVE  LossInv'
<1>1. ASSUME NEW w \in Writers, WriterStep(w) \/ RollbackChange(w)
      PROVE  LossInv'
  BY <1>1, LossWriter, LossCommit DEF WriterStep, OwnStep
<1>2. ASSUME NEW u \in Runs, ReadPendings(u) \/ RunStep(u) \/ RunFails(u)
      PROVE  LossInv'
  BY <1>2, LossRead, LossPost, LossWait, LossReference, LossTruncate DEF RunStep, Waiting
<1>3. CASE Toggle
  BY <1>3, LossKept DEF Toggle, tables
<1>4. CASE Crash
  <2>1. /\ UNCHANGED <<done, pending, ref, arweave, exposed, skipped>>
        /\ wr' = [w \in Writers |-> NoWriter] /\ run' = [u \in Runs |-> NoRun]
    BY <1>4 DEF Crash, tables, switch
  <2>2. (\A w \in Writers : ~Busy(w)') /\ (\A u \in Runs : ~Active(u)')
    BY <2>1 DEF Busy, Active, NoWriter, NoRun
  <2>. QED BY <2>1, <2>2, LossKept
<1>5. CASE UNCHANGED vars
  BY <1>5, LossKept DEF vars
<1>. QED BY <1>1, <1>2, <1>3, <1>4, <1>5, LossBegin DEF Next

(* However uploads overlap, fail and crash, and however archiving is switched, a
   change that was committed alone while archiving was on is queued or can be found
   from its grid's reference. *)
THEOREM UnexposedChangesLast == Spec => []OnlyExposedChangesAreLost
<1>1. Init => LossInv
  BY DEF Init, LossInv, OnlyExposedChangesAreLost, Lasting, Busy, Active, NoWriter, NoRun
<1>2. IInv /\ LossInv /\ [Next]_vars => LossInv'
  BY NextLoss
<1>3. LossInv => OnlyExposedChangesAreLost
  BY DEF LossInv
<1>. QED BY <1>1, <1>2, <1>3, Invariance, PTL DEF Spec
-----------------------------------------------------------------------------
(* With a single run, what it has read stays true of the references until it
   replaces them, and the transaction it has posted is in no batch yet. *)
LogInv ==
  \A u \in Runs :
    /\ Active(u) => \E g \in Grids : run[u].items[g] # {}
    /\ run[u].phase \in {"read", "uploaded", "saving"} =>
         \A g \in Grids : run[u].prev[g] = IF run[u].items[g] # {} THEN ref[g] ELSE 0
    /\ run[u].phase \in {"uploaded", "saving"} => run[u].tx \notin Batched

(* A step that commits no batch and at most lets runs move on. *)
LEMMA LogKept ==
  ASSUME LogInv, UNCHANGED <<ref, batches>>,
         \A u \in Runs :
           \/ run'[u] = run[u]
           \/ run'[u] = NoRun
           \/ Active(u) /\ MovesOn(u)
  PROVE  LogInv'
<1>1. Batched' = Batched
  BY DEF Batched
<1> SUFFICES ASSUME NEW u \in Runs
             PROVE  /\ Active(u)' => \E g \in Grids : run'[u].items[g] # {}
                    /\ run'[u].phase \in {"read", "uploaded", "saving"} =>
                         \A g \in Grids : run'[u].prev[g] = IF run'[u].items[g] # {}
                                                              THEN ref[g] ELSE 0
                    /\ run'[u].phase \in {"uploaded", "saving"} => run'[u].tx \notin Batched
  BY <1>1 DEF LogInv
<1>2. CASE run'[u] = run[u]
  BY <1>2 DEF LogInv, Active
<1>3. CASE run'[u] = NoRun
  BY <1>3 DEF Active, NoRun
<1>4. CASE Active(u) /\ MovesOn(u)
  BY <1>4 DEF LogInv, MovesOn
<1>. QED BY <1>2, <1>3, <1>4

(* No step leaves a run with references that are not the latest, as long as there
   is only one. *)
LEMMA NextLog ==
  ASSUME IInv, LogInv, [Next]_vars, OneRun
  PROVE  LogInv'
<1>1. ASSUME UNCHANGED <<ref, batches>>, \A u \in Runs : run'[u] = run[u] \/ run'[u] = NoRun
      PROVE  LogInv'
  BY <1>1, LogKept
<1>2. ASSUME NEW w \in Writers, NEW g \in Grids, BeginOccupy(w, g) \/ BeginUpdate(w, g)
      PROVE  LogInv'
  BY <1>1, <1>2 DEF BeginOccupy, BeginUpdate, Begin, tables
<1>3. ASSUME NEW w \in Writers, WriterStep(w) \/ RollbackChange(w)
      PROVE  LogInv'
  <2>1. UNCHANGED <<ref, batches, run>>
    BY <1>3 DEF WriterStep, UpdateGrid, ReadPending, QueueChange, DeadlockVictim, SkipChange,
                CommitChange, RollbackChange, tables
  <2>. QED BY <1>1, <2>1
<1>4. ASSUME NEW u \in Runs, ReadPendings(u)
      PROVE  LogInv'
  <2> DEFINE items == PendingsOf(u)
             prev == [g \in Grids |-> IF items[g] # {} THEN ref[g] ELSE 0]
  <2>1. /\ run'[u].phase = "read" /\ run'[u].items = items /\ run'[u].prev = prev
        /\ \E g \in Grids : items[g] # {}
        /\ UNCHANGED <<ref, batches>>
    BY <1>4 DEF ReadPendings, IInv, TypeOK, tables
  <2>2. \A v \in Runs : v = u
    BY DEF OneRun
  <2>3. \A g \in Grids : prev[g] = IF items[g] # {} THEN ref[g] ELSE 0
    OBVIOUS
  <2> HIDE DEF items, prev
  <2>. QED BY <2>1, <2>2, <2>3 DEF LogInv
<1>5. ASSUME NEW u \in Runs, CreateTransaction(u)
      PROVE  LogInv'
  <2>1. /\ run[u].phase = "read" /\ Len(arweave) < MaxUploads /\ Post(u)
        /\ UNCHANGED <<ref, batches>>
        /\ run' = [run EXCEPT ![u].phase = "uploaded", ![u].tx = Len(arweave')]
    BY <1>5 DEF CreateTransaction, tables
  <2>2. run[u] \in Upload /\ Active(u)
    BY <2>1, ActiveRun DEF Active
  <2>3. /\ run'[u].phase = "uploaded" /\ run'[u].tx = Len(arweave')
        /\ run'[u].items = run[u].items /\ run'[u].prev = run[u].prev
    BY <2>1, <2>2 DEF IInv, TypeOK, Upload
  <2>4. Len(arweave') = Len(arweave) + 1
    BY <2>1, Posting
  <2>5. Batched' = Batched
    BY <2>1 DEF Batched
  <2>6. run'[u].tx \notin Batched
    <3>1. Len(arweave) \in Nat /\ Batched \subseteq 1 .. Len(arweave)
      BY DEF IInv, TypeOK, BatchInv
    <3>. QED BY <2>3, <2>4, <3>1
  <2>7. \A v \in Runs : v = u
    BY DEF OneRun
  <2>8. /\ \E g \in Grids : run'[u].items[g] # {}
        /\ \A g \in Grids : run'[u].prev[g] = IF run'[u].items[g] # {} THEN ref'[g] ELSE 0
    <3>1. run[u].phase = "read" /\ ref' = ref
      BY <2>1
    <3>2. /\ \E g \in Grids : run[u].items[g] # {}
          /\ \A g \in Grids : run[u].prev[g] = IF run[u].items[g] # {} THEN ref[g] ELSE 0
      BY <2>2, <3>1 DEF LogInv
    <3>. QED BY <2>3, <3>1, <3>2
  <2>. QED BY <2>5, <2>6, <2>7, <2>8 DEF LogInv
<1>6. ASSUME NEW u \in Runs, CreateTransactionFails(u) \/ Truncate(u)
      PROVE  LogInv'
  BY <1>1, <1>6 DEF CreateTransactionFails, Truncate, IInv, TypeOK, tables
<1>7. ASSUME NEW u \in Runs, Waiting(u)
      PROVE  LogInv'
  <2>1. /\ Active(u) /\ run' = [run EXCEPT ![u] = run'[u]]
        /\ run'[u] = NoRun \/ MovesOn(u)
        /\ UNCHANGED <<ref, batches>>
    BY <1>7, WaitingMoves DEF IInv
  <2>2. \A v \in Runs : v # u => run'[v] = run[v]
    BY <2>1 DEF IInv, TypeOK
  <2>. QED BY <2>1, <2>2, LogKept
<1>8. ASSUME NEW u \in Runs, CommitReferences(u)
      PROVE  LogInv'
  <2>1. run[u] \in Upload /\ Active(u)
    BY <1>8, ActiveRun DEF CommitReferences, SavedAll, Active
  <2>2. /\ run'[u].phase = "committed" /\ run'[u].items = run[u].items
        /\ \A v \in Runs : v = u
    BY <1>8, <2>1 DEF CommitReferences, IInv, TypeOK, Upload, OneRun
  <2>. QED BY <2>1, <2>2 DEF LogInv, Active
<1>9. CASE Toggle \/ Crash
  BY <1>1, <1>9 DEF Toggle, Crash, tables
<1>10. CASE UNCHANGED vars
  BY <1>1, <1>10 DEF vars
<1>. QED BY <1>2, <1>3, <1>4, <1>5, <1>6, <1>7, <1>8, <1>9, <1>10 DEF Next, RunStep, Waiting

(* What can be reached from the references when a batch is committed: its own
   transaction, and from there what the references it replaces had led to. *)
LEMMA CommitReaches ==
  ASSUME IInv, LogInv, EveryBatchIsFound, NEW u \in Runs, CommitReferences(u)
  PROVE  EveryBatchIsFound'
<1> DEFINE tx == run[u].tx
<1>1. /\ run[u].phase = "saving"
      /\ ref' = [g \in Grids |-> IF g \in Uploaded(u) THEN tx ELSE ref[g]]
      /\ batches' = Append(batches, NewBatch(u))
      /\ UNCHANGED arweave
  BY DEF CommitReferences, SavedAll, References
<1>2. run[u] \in Upload /\ Sound(run[u])
  BY <1>1, ActiveRun DEF Active
<1>3. /\ tx \in 1 .. Len(arweave) /\ tx \in 1 .. MaxUploads
      /\ arweave[tx].items = run[u].items /\ arweave[tx].prev = run[u].prev
  BY <1>1, <1>2 DEF Sound, Upload
<1>4. Batched' \subseteq Batched \cup {tx}
  <2>1. NewBatch(u).tx = tx
    BY DEF NewBatch
  <2>. QED BY <1>1, <2>1 DEF Batched, IInv, TypeOK
<1>5. \A t, g : Reached(t, g)' = Reached(t, g)
  BY <1>1 DEF Reached
<1> SUFFICES ASSUME NEW g \in Grids, NEW t \in Batched \cup {tx}, arweave[t].items[g] # {}
             PROVE  t \in Reached(ref'[g], g)
  BY <1>1, <1>4, <1>5 DEF EveryBatchIsFound
<1>6. CASE g \in Uploaded(u)
  <2>1. ref'[g] = tx
    BY <1>1, <1>6
  <2>2. arweave[tx].prev[g] = ref[g]
    BY <1>1, <1>3, <1>6 DEF LogInv, Uploaded
  <2>3. {tx} \cup Reached(ref[g], g) \subseteq Reached(tx, g)
    <3>1. Len(arweave) \in Nat
      BY DEF IInv, TypeOK
    <3>. QED BY <1>3, <2>2, <3>1, ReachedFrom
  <2>. QED BY <2>1, <2>3 DEF EveryBatchIsFound
<1>7. CASE g \notin Uploaded(u)
  <2>1. ref'[g] = ref[g]
    BY <1>1, <1>7
  <2>2. t # tx
    BY <1>3, <1>7 DEF Uploaded
  <2>. QED BY <2>1, <2>2 DEF EveryBatchIsFound
<1>. QED BY <1>6, <1>7

(* Steps that commit no batch take nothing out of reach. *)
LEMMA NextReaches ==
  ASSUME IInv, LogInv, EveryBatchIsFound, [Next]_vars
  PROVE  EveryBatchIsFound'
<1>1. ASSUME UNCHANGED <<ref, batches, arweave>> PROVE EveryBatchIsFound'
  BY <1>1 DEF EveryBatchIsFound, Batched, Reached
<1>2. ASSUME NEW w \in Writers, NEW g \in Grids, BeginOccupy(w, g) \/ BeginUpdate(w, g)
      PROVE  EveryBatchIsFound'
  BY <1>1, <1>2 DEF BeginOccupy, BeginUpdate, Begin, tables
<1>3. ASSUME NEW w \in Writers, WriterStep(w) \/ RollbackChange(w)
      PROVE  EveryBatchIsFound'
  <2>1. UNCHANGED <<ref, batches, arweave>>
    BY <1>3 DEF WriterStep, UpdateGrid, ReadPending, QueueChange, DeadlockVictim, SkipChange,
                CommitChange, RollbackChange, tables
  <2>. QED BY <1>1, <2>1
<1>4. ASSUME NEW u \in Runs,
             ReadPendings(u) \/ Waiting(u) \/ Truncate(u)
      PROVE  EveryBatchIsFound'
  <2>1. UNCHANGED <<ref, batches, arweave>>
    BY <1>4, WaitingMoves DEF ReadPendings, Truncate, tables, IInv
  <2>. QED BY <1>1, <2>1
<1>5. ASSUME NEW u \in Runs, CreateTransaction(u) \/ CreateTransactionFails(u),
             arweave' # arweave
      PROVE  EveryBatchIsFound'
  <2>1. /\ UNCHANGED <<ref, batches>> /\ run[u].phase = "read"
        /\ Len(arweave) < MaxUploads /\ Post(u)
    BY <1>5 DEF CreateTransaction, CreateTransactionFails, tables
  <2>2. Len(arweave) \in Nat
    BY DEF IInv, TypeOK
  <2>3. /\ Len(arweave') = Len(arweave) + 1
        /\ \A t \in 1 .. Len(arweave) : arweave'[t] = arweave[t]
    BY <2>1, Posting
  <2>4. Batched' = Batched /\ Batched \subseteq 1 .. Len(arweave)
    BY <2>1 DEF Batched, IInv, BatchInv
  <2>5. \A g \in Grids : ref[g] \in 0 .. Len(arweave)
    <3>1. \A g \in Grids : ref[g] \in Nat
      BY BoundsAssumption DEF IInv, TypeOK
    <3>. QED BY <2>2, <3>1 DEF IInv, ArchiveInv, ReferencesAreUploaded
  <2>6. \A g \in Grids, t \in 0 .. Len(arweave) : Reached(t, g) \subseteq Reached(t, g)'
    BY <2>2, <2>3, ReachedStays
  <2>7. \A g \in Grids : Reached(ref[g], g) \subseteq Reached(ref[g], g)'
    BY <2>1, <2>5, <2>6
  <2>. QED BY <2>1, <2>3, <2>4, <2>7 DEF EveryBatchIsFound
<1>6. ASSUME NEW u \in Runs, CreateTransaction(u) \/ CreateTransactionFails(u)
      PROVE  EveryBatchIsFound'
  BY <1>1, <1>5, <1>6 DEF CreateTransaction, CreateTransactionFails, tables
<1>7. CASE Toggle \/ Crash
  BY <1>1, <1>7 DEF Toggle, Crash, tables
<1>8. CASE UNCHANGED vars
  BY <1>1, <1>8 DEF vars
<1>. QED BY <1>2, <1>3, <1>4, <1>6, <1>7, <1>8, CommitReaches
         DEF Next, RunStep, Waiting

(* With a single run, no batch that holds a grid is ever out of reach of the grid's
   reference. *)
THEOREM OneRunFindsEveryBatch == ASSUME OneRun PROVE Spec => []EveryBatchIsFound
<1>1. Init => LogInv /\ EveryBatchIsFound
  BY DEF Init, LogInv, NoRun, Active, EveryBatchIsFound, Batched
<1>2. IInv /\ LogInv /\ [Next]_vars => LogInv'
  BY NextLog
<1>3. IInv /\ LogInv /\ EveryBatchIsFound /\ [Next]_vars => EveryBatchIsFound'
  BY NextReaches
<1>. QED BY <1>1, <1>2, <1>3, Invariance, PTL DEF Spec
-----------------------------------------------------------------------------
(* The refinement of ArchiveLog: the log has an entry per batch. *)
Entry == [tx : 1 .. MaxUploads, items : [Grids -> SUBSET Changes],
          prev : [Grids -> 0 .. MaxUploads], prevBatch : 0 .. MaxUploads]

EntryOf(t) == [tx |-> t, items |-> arweave[t].items, prev |-> arweave[t].prev,
               prevBatch |-> arweave[t].prevBatch]

(* Entries have their type. *)
LEMMA LogEntries ==
  ASSUME IInv
  PROVE  /\ BatchLog \in Seq(Entry) /\ Len(BatchLog) = Len(batches) /\ Len(batches) \in Nat
         /\ \A i \in 1 .. Len(batches) : BatchLog[i] = EntryOf(batches[i].tx)
<1>1. batches \in Seq(Batch) /\ Len(batches) \in Nat /\ arweave \in Seq(ArweaveTx)
  BY DEF IInv, TypeOK
<1>2. BatchLog = [i \in 1 .. Len(batches) |-> EntryOf(batches[i].tx)]
  BY DEF BatchLog, EntryOf
<1>3. ASSUME NEW i \in 1 .. Len(batches) PROVE EntryOf(batches[i].tx) \in Entry
  <2>1. batches[i].tx \in 1 .. MaxUploads /\ batches[i].tx \in 1 .. Len(arweave)
    <3>1. batches[i].tx \in Batched
      BY DEF Batched
    <3>2. batches[i] \in Batch
      BY <1>1, ElementOfSeq
    <3>. QED BY <3>1, <3>2 DEF IInv, BatchInv, Batch
  <2>2. arweave[batches[i].tx] \in ArweaveTx
    BY <1>1, <2>1
  <2>. QED BY <2>1, <2>2 DEF Entry, EntryOf, ArweaveTx
<1>4. BatchLog \in Seq(Entry) /\ Len(BatchLog) = Len(batches)
  <2>1. BatchLog \in [1 .. Len(batches) -> Entry]
    BY <1>2, <1>3
  <2>. QED BY <1>1, <2>1
<1>5. \A i \in 1 .. Len(batches) : BatchLog[i] = EntryOf(batches[i].tx)
  BY <1>2
<1>. QED BY <1>1, <1>4, <1>5

(* The last entry is that of the last batch. *)
LEMMA LastEntry ==
  ASSUME IInv, ChainInv
  PROVE  Log!LastUpload = LastBatch
<1>1. /\ BatchLog \in Seq(Entry) /\ Len(BatchLog) = Len(batches) /\ Len(batches) \in Nat
      /\ \A i \in 1 .. Len(batches) : BatchLog[i] = EntryOf(batches[i].tx)
  BY LogEntries
<1>2. BatchLog = << >> <=> Len(batches) = 0
  BY <1>1, EmptySeq
<1>3. Len(batches) # 0 => BatchLog[Len(BatchLog)].tx = batches[Len(batches)].tx
  <2>1. \A t : EntryOf(t).tx = t
    BY DEF EntryOf
  <2>2. Len(batches) # 0 => Len(batches) \in 1 .. Len(batches)
    BY <1>1
  <2>. QED BY <1>1, <2>1, <2>2
<1>4. LastBatch = IF Len(batches) = 0 THEN 0 ELSE batches[Len(batches)].tx
  BY LastIsNewest DEF ChainInv
<1>. QED BY <1>2, <1>3, <1>4 DEF Log!LastUpload

(* Steps that commit nothing change nothing in the log: Arweave keeps what it has. *)
LEMMA LogStutters ==
  ASSUME IInv, UNCHANGED <<done, ref, batches>>,
         \A t \in 1 .. Len(arweave) : arweave'[t] = arweave[t]
  PROVE  UNCHANGED Log!archiveVars
<1>1. \A i \in 1 .. Len(batches) : batches[i].tx \in 1 .. Len(arweave)
  BY DEF IInv, BatchInv, Batched
<1>2. BatchLog' = BatchLog
  BY <1>1 DEF BatchLog
<1>. QED BY <1>2 DEF Log!archiveVars

(* A commit of a writer is a change of the log's grids. *)
LEMMA CommitIsChange ==
  ASSUME IInv, NEW w \in Writers, CommitChange(w)
  PROVE  Log!Next
<1> DEFINE h == wr[w]
<1>1. h \in Writer
  BY DEF CommitChange, Busy, NoWriter, IInv, TypeOK
<1>2. h.grid \in Grids /\ h.change \in Changes
  BY <1>1 DEF Writer
<1>3. done' = [done EXCEPT ![h.grid] = @ \cup {h.change}] /\ UNCHANGED <<ref, batches, arweave>>
  BY DEF CommitChange
<1>4. BatchLog' = BatchLog
  BY <1>3 DEF BatchLog
<1>5. Log!Change(h.grid, h.change)
  BY <1>3, <1>4 DEF Log!Change
<1>. QED BY <1>2, <1>5 DEF Log!Next

(* The commit of a single run's references is an upload that names its
   predecessors. *)
LEMMA CommitIsUpload ==
  ASSUME IInv, ChainInv, LogInv, NEW u \in Runs, CommitReferences(u)
  PROVE  Log!Next
<1> DEFINE tx == run[u].tx
           items == run[u].items
           n == Len(batches)
           entry == [tx |-> tx, items |-> items,
                     prev |-> [g \in Grids |-> IF items[g] # {} THEN ref[g] ELSE 0],
                     prevBatch |-> Log!LastUpload]
<1>1. /\ run[u].phase = "saving"
      /\ ref' = [g \in Grids |-> IF g \in Uploaded(u) THEN tx ELSE ref[g]]
      /\ batches' = Append(batches, NewBatch(u))
      /\ UNCHANGED <<done, arweave>>
  BY DEF CommitReferences, SavedAll, References
<1>2. Active(u) /\ run[u] \in Upload /\ Sound(run[u])
  BY <1>1, ActiveRun DEF Active
<1>3. /\ tx \in 1 .. Len(arweave) /\ tx \in 1 .. MaxUploads /\ items \in [Grids -> SUBSET Changes]
      /\ arweave[tx].items = items /\ arweave[tx].prev = run[u].prev
      /\ arweave[tx].prevBatch = run[u].prevBatch
  BY <1>1, <1>2 DEF Sound, Upload
<1>4. /\ \E g \in Grids : items[g] # {}
      /\ \A g \in Grids : items[g] \subseteq done[g]
      /\ \A g \in Grids : run[u].prev[g] = IF items[g] # {} THEN ref[g] ELSE 0
      /\ tx \notin Batched
      /\ run[u].prevBatch = LastBatch
  BY <1>1, <1>2 DEF LogInv, ChainInv, Sound
<1>5. /\ BatchLog \in Seq(Entry) /\ Len(BatchLog) = n /\ n \in Nat
      /\ \A i \in 1 .. n : BatchLog[i] = EntryOf(batches[i].tx)
      /\ Log!LastUpload = LastBatch
  BY LogEntries, LastEntry
<1>6. BatchLog' = [i \in 1 .. Len(batches') |-> EntryOf(batches'[i].tx)]
  BY <1>1 DEF BatchLog, EntryOf
<1>7. /\ Len(batches') = n + 1 /\ batches'[n + 1].tx = tx
      /\ \A i \in 1 .. n : batches'[i] = batches[i]
  BY <1>1, <1>5 DEF IInv, TypeOK, NewBatch
<1>8. run[u].prev = [g \in Grids |-> IF items[g] # {} THEN ref[g] ELSE 0]
  <2>1. run[u].prev \in [Grids -> 0 .. MaxUploads]
    BY <1>2 DEF Upload
  <2> HIDE DEF items
  <2>. QED BY <1>4, <2>1
<1>9. EntryOf(tx) = entry /\ entry \in Entry
  <2>1. EntryOf(tx) = entry
    BY <1>3, <1>4, <1>5, <1>8 DEF EntryOf
  <2>2. arweave[tx] \in ArweaveTx
    BY <1>3 DEF IInv, TypeOK
  <2>3. EntryOf(tx) \in Entry
    BY <1>3, <2>2 DEF Entry, EntryOf, ArweaveTx
  <2>. QED BY <2>1, <2>3
<1> HIDE DEF entry
<1>10. BatchLog' = Append(BatchLog, entry)
  <2>1. /\ Append(BatchLog, entry) \in Seq(Entry) /\ Len(Append(BatchLog, entry)) = n + 1
        /\ \A i \in 1 .. n : Append(BatchLog, entry)[i] = BatchLog[i]
        /\ Append(BatchLog, entry)[n + 1] = entry
    BY <1>5, <1>9, AppendProperties
  <2>2. \A i \in 1 .. n + 1 : EntryOf(batches'[i].tx) = Append(BatchLog, entry)[i]
    BY <1>5, <1>7, <1>9, <2>1
  <2>3. BatchLog' = [i \in 1 .. n + 1 |-> Append(BatchLog, entry)[i]]
    BY <1>6, <1>7, <2>2
  <2>4. Append(BatchLog, entry) \in [1 .. n + 1 -> Entry]
    BY <2>1, LenProperties
  <2>. QED BY <2>3, <2>4
<1>11. \A i \in 1 .. Len(BatchLog) : BatchLog[i].tx # tx
  <2>1. \A i \in 1 .. n : batches[i].tx # tx
    BY <1>4 DEF Batched
  <2>2. \A t : EntryOf(t).tx = t
    BY DEF EntryOf
  <2>. QED BY <1>5, <2>1, <2>2
<1>12. ref' = [g \in Grids |-> IF items[g] # {} THEN tx ELSE ref[g]]
  BY <1>1 DEF Uploaded
<1>13. Log!Upload(tx, items)
  BY <1>1, <1>4, <1>10, <1>11, <1>12 DEF Log!Upload, entry
<1>14. Len(BatchLog') > Len(BatchLog)
  BY <1>5, <1>9, <1>10, AppendProperties
<1>. QED BY <1>3, <1>13, <1>14 DEF Log!Next

(* Every step is a step of the log or leaves it alone. *)
LEMMA NextIsLog ==
  ASSUME IInv, ChainInv, LogInv, [Next]_vars
  PROVE  [Log!Next]_(Log!archiveVars)
<1>1. ASSUME UNCHANGED <<done, ref, batches, arweave>> PROVE UNCHANGED Log!archiveVars
  BY <1>1, LogStutters
<1>2. ASSUME NEW w \in Writers, NEW g \in Grids, BeginOccupy(w, g) \/ BeginUpdate(w, g)
      PROVE  UNCHANGED Log!archiveVars
  BY <1>1, <1>2 DEF BeginOccupy, BeginUpdate, Begin, tables
<1>3. ASSUME NEW w \in Writers,
             OwnStep(w)
      PROVE  UNCHANGED Log!archiveVars
  BY <1>1, <1>3 DEF OwnStep, UpdateGrid, ReadPending, QueueChange, DeadlockVictim, SkipChange,
                    RollbackChange, tables
<1>4. ASSUME NEW u \in Runs, ReadPendings(u) \/ Waiting(u) \/ Truncate(u)
      PROVE  UNCHANGED Log!archiveVars
  <2>1. UNCHANGED <<done, ref, batches, arweave>>
    BY <1>4, WaitingMoves DEF ReadPendings, Truncate, tables, IInv
  <2>. QED BY <1>1, <2>1
<1>5. ASSUME NEW u \in Runs, CreateTransaction(u) \/ CreateTransactionFails(u)
      PROVE  UNCHANGED Log!archiveVars
  <2>1. /\ UNCHANGED <<done, ref, batches>> /\ run[u].phase = "read"
        /\ UNCHANGED arweave \/ (Len(arweave) < MaxUploads /\ Post(u))
    BY <1>5 DEF CreateTransaction, CreateTransactionFails, tables
  <2>2. \A t \in 1 .. Len(arweave) : arweave'[t] = arweave[t]
    BY <2>1, Posting
  <2>. QED BY <2>1, <2>2, LogStutters
<1>6. CASE Toggle \/ Crash
  BY <1>1, <1>6 DEF Toggle, Crash, tables
<1>7. CASE UNCHANGED vars
  BY <1>1, <1>7 DEF vars
<1>. QED BY <1>2, <1>3, <1>4, <1>5, <1>6, <1>7, CommitIsChange, CommitIsUpload
         DEF Next, WriterStep, OwnStep, RunStep, Waiting

(* Uploads of a single run implement ArchiveLog: whatever fails or crashes between
   the read, the post on Arweave and the two commits, the committed batches are a
   log in which the latest upload of every grid leads to all of them. *)
THEOREM ArchiveIsALog == ASSUME OneRun PROVE Spec => ImplementsLog
<1>1. Init => LogInv /\ ChainInv
  BY DEF Init, LogInv, ChainInv, BatchesFormOneChain, Ascending, NoRun, Active
<1>2. Init => Log!Init
  <2> SUFFICES ASSUME Init PROVE Log!Init
    OBVIOUS
  <2>1. IInv
    BY InitIInv
  <2>2. BatchLog = << >>
    BY <2>1, LogEntries, EmptySeq DEF Init
  <2>. QED BY <2>2 DEF Init, Log!Init
<1>3. IInv /\ LogInv /\ [Next]_vars => LogInv'
  BY NextLog
<1>4. IInv /\ ChainInv /\ [Next]_vars => ChainInv'
  BY NextChain
<1>5. IInv /\ ChainInv /\ LogInv /\ [Next]_vars => [Log!Next]_(Log!archiveVars)
  BY NextIsLog
<1>. QED BY <1>1, <1>2, <1>3, <1>4, <1>5, Invariance, PTL DEF Spec, ImplementsLog, Log!Spec
-----------------------------------------------------------------------------
(* A run saves its references in ascending order: those it waits for are greater
   than those it has saved. *)
OrderInv == \A u \in Runs : Active(u) => \A g \in run[u].saved, h \in ToSave(u) : g < h

(* A step in which runs keep what they have read and saved, or end. *)
LEMMA OrderKept ==
  ASSUME OrderInv,
         \A u \in Runs :
           \/ run'[u] = NoRun
           \/ /\ run'[u].items = run[u].items /\ run'[u].saved = run[u].saved
              /\ Active(u)' => Active(u)
  PROVE  OrderInv'
<1> SUFFICES ASSUME NEW u \in Runs, Active(u)',
                    NEW g \in run'[u].saved, NEW h \in ToSave(u)'
             PROVE  g < h
  BY DEF OrderInv
<1>1. run'[u] # NoRun
  BY DEF Active, NoRun
<1>2. Active(u) /\ g \in run[u].saved /\ h \in ToSave(u)
  BY <1>1 DEF ToSave, Uploaded
<1>. QED BY <1>2 DEF OrderInv

(* The reference saved next is the least of those that are left. *)
LEMMA OrderSave ==
  ASSUME TypeOK, OrderInv, NEW u \in Runs, SaveReference(u)
  PROVE  OrderInv'
<1>1. PICK g \in Grids : /\ IsNext(u, g)
                         /\ \/ run' = [run EXCEPT ![u] = NoRun]
                            \/ run' = [run EXCEPT ![u].saved = @ \cup {g}]
  BY DEF SaveReference
<1>2. run[u].phase = "saving" /\ run[u] \in Upload /\ run \in [Runs -> Upload \cup {NoRun}]
  BY DEF SaveReference, TypeOK, NoRun
<1>3. CASE run' = [run EXCEPT ![u] = NoRun]
  BY <1>2, <1>3, OrderKept DEF Active
<1>4. CASE run' = [run EXCEPT ![u].saved = @ \cup {g}]
  <2>1. /\ run'[u].items = run[u].items /\ run'[u].saved = run[u].saved \cup {g}
        /\ \A v \in Runs : v # u => run'[v] = run[v]
    BY <1>2, <1>4 DEF Upload
  <2>2. \A a \in run'[u].saved, h \in ToSave(u)' : a < h
    <3> SUFFICES ASSUME NEW a \in run'[u].saved, NEW h \in ToSave(u)' PROVE a < h
      OBVIOUS
    <3>1. h \in ToSave(u) /\ h # g /\ h \in Nat /\ g \in Nat
      BY <2>1 DEF ToSave, Uploaded, Grids
    <3>2. CASE a = g
      BY <1>1, <3>1, <3>2 DEF IsNext
    <3>3. CASE a \in run[u].saved
      BY <1>2, <3>1, <3>3 DEF OrderInv, Active
    <3>. QED BY <2>1, <3>2, <3>3
  <2>. QED BY <2>1, <2>2 DEF OrderInv, Active, ToSave, Uploaded
<1>. QED BY <1>1, <1>3, <1>4

(* No step saves a reference out of order. *)
LEMMA NextOrder ==
  ASSUME TypeOK, OrderInv, [Next]_vars
  PROVE  OrderInv'
<1>1. ASSUME UNCHANGED run PROVE OrderInv'
  BY <1>1, OrderKept DEF Active
<1>2. ASSUME NEW w \in Writers, NEW g \in Grids, BeginOccupy(w, g) \/ BeginUpdate(w, g)
      PROVE  OrderInv'
  BY <1>1, <1>2 DEF BeginOccupy, BeginUpdate, Begin
<1>3. ASSUME NEW w \in Writers, WriterStep(w) \/ RollbackChange(w)
      PROVE  OrderInv'
  BY <1>1, <1>3 DEF WriterStep, UpdateGrid, ReadPending, QueueChange, DeadlockVictim, SkipChange,
                    CommitChange, RollbackChange
<1>4. ASSUME NEW u \in Runs, ReadPendings(u)
      PROVE  OrderInv'
  <2>1. run'[u].saved = {} /\ \A v \in Runs : v # u => run'[v] = run[v]
    BY <1>4 DEF ReadPendings, TypeOK
  <2>. QED BY <2>1 DEF OrderInv, Active, ToSave, Uploaded
<1>5. ASSUME NEW u \in Runs, Active(u), run' = [run EXCEPT ![u] = NoRun]
      PROVE  OrderInv'
  BY <1>5, OrderKept DEF TypeOK, Active
<1>6. ASSUME NEW u \in Runs, CreateTransaction(u) \/ SaveBatch(u) \/ CommitReferences(u)
                             \/ RequestTable(u)
      PROVE  OrderInv'
  <2>1. Active(u)
    BY <1>6 DEF CreateTransaction, SaveBatch, CommitReferences, SavedAll, RequestTable, Active
  <2>2. run[u] \in Upload
    BY <2>1 DEF TypeOK, Active, NoRun
  <2>3. /\ run'[u].items = run[u].items /\ run'[u].saved = run[u].saved
        /\ \A v \in Runs : v # u => run'[v] = run[v]
    <3>1. CASE CreateTransaction(u)
      BY <2>2, <3>1 DEF CreateTransaction, TypeOK, Upload
    <3>2. CASE SaveBatch(u)
      BY <2>2, <3>2 DEF SaveBatch, TypeOK, Upload
    <3>3. CASE CommitReferences(u)
      BY <2>2, <3>3 DEF CommitReferences, TypeOK, Upload
    <3>4. CASE RequestTable(u)
      BY <2>2, <3>4 DEF RequestTable, TypeOK, Upload
    <3>. QED BY <1>6, <3>1, <3>2, <3>3, <3>4
  <2>. QED BY <2>1, <2>3, OrderKept DEF Active
<1>7. ASSUME NEW u \in Runs, CreateTransactionFails(u) \/ Truncate(u) \/ RunFails(u)
      PROVE  OrderInv'
  BY <1>5, <1>7 DEF CreateTransactionFails, Truncate, RunFails, Active
<1>8. CASE Toggle
  BY <1>1, <1>8 DEF Toggle
<1>9. CASE Crash
  BY <1>9, OrderKept DEF Crash
<1>10. CASE UNCHANGED vars
  BY <1>1, <1>10 DEF vars
<1>. QED BY <1>2, <1>3, <1>4, <1>6, <1>7, <1>8, <1>9, <1>10, OrderSave DEF Next, RunStep

(* Runs that wait for references of each other would each have saved one and want
   a greater one, up to a greatest. *)
LEMMA NoneWaitsToSave ==
  ASSUME TypeOK, OrderInv, NEW S, S \subseteq Writers \cup Runs,
         \A a \in S : \E b \in S : WaitsFor(a, b)
  PROVE  \A u \in S \cap Runs : run[u].phase # "saving"
<1> DEFINE W == {g \in Grids : \E u \in S \cap Runs : run[u].phase = "saving" /\ IsNext(u, g)}
<1>1. ASSUME NEW u \in S \cap Runs, run[u].phase = "saving"
      PROVE  \E g \in Grids, v \in S : /\ IsNext(u, g)
                                       /\ v \in Runs /\ run[v].phase = "saving"
                                       /\ g \in run[v].saved
  <2>1. PICK v \in S : WaitsFor(u, v)
    OBVIOUS
  <2>2. u \notin Writers /\ u \notin Truncating
    BY <1>1, WritersAssumption DEF Truncating, Runs
  <2>. QED BY <2>1, <2>2 DEF WaitsFor, Holders
<1> SUFFICES ASSUME NEW u0 \in S \cap Runs, run[u0].phase = "saving" PROVE FALSE
  OBVIOUS
<1>2. W # {} /\ W \subseteq 1 .. MaxGrids /\ MaxGrids \in Nat
  BY <1>1, BoundsAssumption DEF Grids
<1> HIDE DEF W
<1>3. PICK g \in W : \A h \in W : h <= g
  BY <1>2, GreatestIndex
<1> USE DEF W
<1>4. PICK u \in S \cap Runs : run[u].phase = "saving" /\ IsNext(u, g)
  OBVIOUS
<1>5. PICK f \in Grids, v \in S : /\ IsNext(u, f)
                                  /\ v \in Runs /\ run[v].phase = "saving"
                                  /\ f \in run[v].saved
  BY <1>1, <1>4
<1>6. f = g
  BY <1>2, <1>4, <1>5 DEF IsNext, Grids
<1>7. PICK h \in Grids : IsNext(v, h)
  BY <1>1, <1>5
<1>8. g < h
  BY <1>5, <1>6, <1>7 DEF OrderInv, Active, IsNext
<1>9. h <= g
  BY <1>3, <1>5, <1>7
<1>. QED BY <1>2, <1>7, <1>8, <1>9 DEF Grids

(* Transactions and uploads that wait for each other in a circle, however many there
   are, do so for the metadata locks of one table only: one is a TRUNCATE, and another
   has read its pending row and not written it yet. *)
THEOREM OnlyUpgradeDeadlocks == Spec => []OnlyUpgradesDeadlock
<1>1. Init => OrderInv
  BY DEF Init, OrderInv, Active, NoRun
<1>2. TypeOK /\ OrderInv /\ [Next]_vars => OrderInv'
  BY NextOrder
<1>3. ASSUME TypeOK, OrderInv PROVE OnlyUpgradesDeadlock
  <2> SUFFICES ASSUME NEW S, S \subseteq Writers \cup Runs, S # {},
                      \A a \in S : \E b \in S : WaitsFor(a, b)
               PROVE  /\ S \cap Truncating # {}
                      /\ \E w \in S \cap Writers : wr[w].phase = "looked"
    BY DEF OnlyUpgradesDeadlock
  <2>1. \A u \in S \cap Runs : run[u].phase # "saving"
    BY <1>3, NoneWaitsToSave
  <2>2. \A u \in S \cap Runs : u \in Truncating /\ u \notin Writers
    BY <2>1, WritersAssumption DEF WaitsFor, Runs
  <2>3. \A w \in S \cap Writers : \/ wr[w].phase = "opened"
                                  \/ wr[w].phase \in {"locked", "looked"} /\ S \cap Truncating # {}
    BY WritersAssumption DEF WaitsFor, AsksForTable, Truncating, Runs
  <2>4. S \cap Truncating # {}
    <3>1. PICK a \in S : TRUE
      OBVIOUS
    <3>2. CASE a \in Runs
      BY <2>2, <3>2
    <3>3. CASE a \in Writers /\ wr[a].phase # "opened"
      BY <2>3, <3>3
    <3>4. CASE a \in Writers /\ wr[a].phase = "opened"
      <4>1. PICK b \in S : WaitsFor(a, b)
        OBVIOUS
      <4>2. b \in Writers /\ wr[b].phase # "opened"
        BY <3>4, <4>1, WritersAssumption DEF WaitsFor, AsksForTable, Truncating, Runs, OpenOn
      <4>. QED BY <2>3, <4>2
    <3>. QED BY <3>2, <3>3, <3>4
  <2>5. PICK u \in S \cap Truncating, b \in S : WaitsFor(u, b)
    BY <2>4
  <2>6. b \in UsingPendings
    BY <2>1, <2>2, <2>5 DEF WaitsFor, Truncating
  <2>7. b \in Writers /\ wr[b].phase \in {"looked", "queued"}
    BY <2>2, <2>6 DEF UsingPendings, Truncating, Runs
  <2>8. wr[b].phase = "looked"
    BY <2>3, <2>7
  <2>. QED BY <2>4, <2>7, <2>8
<1>. QED BY <1>1, <1>2, <1>3, TypeCorrectness, PTL DEF Spec
=============================================================================
