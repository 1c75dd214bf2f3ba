----------------------------- MODULE ArchiveLog -----------------------------
(* What the archive promises while uploads do not overlap, with nothing of how:
   a log of uploads that only grows.  An upload holds committed changes only, it
   names the upload before it and, for each of its grids, the last upload that
   held the grid: whoever holds the latest one can find all of them. *)
EXTENDS Naturals, Sequences

CONSTANTS Grids, Changes, Txs, NoTx

VARIABLES
  committed,  \* changes committed to each grid
  log,        \* uploads, each under a tx of its own
  latest      \* the last upload that holds each grid, or NoTx

archiveVars == <<committed, log, latest>>

Init ==
  /\ committed = [g \in Grids |-> {}]
  /\ log = << >>
  /\ latest = [g \in Grids |-> NoTx]

Change(g, c) ==
  /\ committed' = [committed EXCEPT ![g] = @ \cup {c}]
  /\ UNCHANGED <<log, latest>>

LastUpload == IF log = << >> THEN NoTx ELSE log[Len(log)].tx

Upload(t, items) ==
  /\ \A i \in 1 .. Len(log) : log[i].tx # t
  /\ \E g \in Grids : items[g] # {}
  /\ \A g \in Grids : items[g] \subseteq committed[g]
  /\ log' = Append(log,
       [tx |-> t, items |-> items,
        prev |-> [g \in Grids |-> IF items[g] # {} THEN latest[g] ELSE NoTx],
        prevBatch |-> LastUpload])
  /\ latest' = [g \in Grids |-> IF items[g] # {} THEN t ELSE latest[g]]
  /\ UNCHANGED committed

Next ==
  \/ \E g \in Grids, c \in Changes : Change(g, c)
  \/ /\ Len(log') > Len(log)
     /\ \E t \in Txs, items \in [Grids -> SUBSET Changes] : Upload(t, items)

Spec == Init /\ [][Next]_archiveVars
=============================================================================
