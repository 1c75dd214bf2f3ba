-------------------------- MODULE SyncTasksProofs --------------------------
(* The chain of modifiedAfter has no gap, for any users, runs and times. *)
EXTENDS SyncTasks, NaturalFacts

\* Tasks and runs bear no time that is yet to come, and runs have fetched nothing that
\* no service had.
NothingFromTheFuture ==
  /\ \A i \in DOMAIN tasks : tasks[i].createdAt <= clock
  /\ \A r \in Runs : run[r].phase = "saving" => run[r].at <= clock
  /\ \A t \in Types, u \in Users : delivered[t][u] <= upstream[t][u]

\* The times that runs of type t ask for: those of its tasks, or the beginning.
Askable(t, c) == c = 0 \/ \E i \in DOMAIN tasks : tasks[i].type = t /\ tasks[i].createdAt = c

\* A run starts where an earlier one has covered, and covers up to its own task
\* once it has fetched.
RunsExtendTheChain ==
  \A r \in Runs :
    run[r] # NoRun =>
      /\ Askable(run[r].type, run[r].after)
      /\ Covered(run[r].type, run[r].after)
      /\ run[r].phase \notin {"looked", "saving"} => tasks[run[r].task].type = run[r].type
      /\ run[r].phase = "fetched" => Covered(run[r].type, tasks[run[r].task].createdAt)

IInv == TypeOK /\ NothingFromTheFuture /\ NoGap /\ RunsExtendTheChain

\* What the type invariant says of tasks and times.
LEMMA TypesOfTasks ==
  ASSUME TypeOK
  PROVE  /\ clock \in Nat
         /\ \A t \in Types, u \in Users : upstream[t][u] \in Nat /\ delivered[t][u] \in Nat
         /\ \A i \in DOMAIN tasks :
              tasks[i].type \in Types /\ tasks[i].createdAt \in Time
              /\ tasks[i].createdAt \in Nat
<1>1. Time \subseteq Nat
  BY BoundsAssumption DEF Time
<1>2. ASSUME NEW i \in DOMAIN tasks
      PROVE  tasks[i].type \in Types /\ tasks[i].createdAt \in Time
  <2>1. tasks[i] \in Task
    BY DEF TypeOK
  <2> QED
    BY <2>1 DEF Task
<1> QED
  BY <1>1, <1>2 DEF TypeOK

\* A run bears a time only while it saves its row.
LEMMA TimesOfRuns ==
  ASSUME TypeOK, NEW r \in Runs, run[r].phase = "saving"
  PROVE  run[r] # NoRun /\ run[r].at \in Nat /\ run[r].at \in Time
         /\ run[r].type \in Types /\ run[r].after \in Time
<1>1. run[r] \in Run(Len(tasks))
  BY DEF TypeOK, NoRun
<1>. QED BY <1>1, BoundsAssumption DEF Run, Time, NoRun

\* The invariant holds at the start: there is no task and no run.
LEMMA InitIInv == Init => IInv
<1> SUFFICES ASSUME Init PROVE IInv
  OBVIOUS
<1>1. TypeOK
  BY BoundsAssumption DEF Init, TypeOK, Never, Time, Types, NoRun
<1>2. DOMAIN tasks = {}
  BY DEF Init
<1>3. NothingFromTheFuture /\ NoGap /\ RunsExtendTheChain
  BY <1>2 DEF Init, NothingFromTheFuture, NoGap, RunsExtendTheChain, Never, NoRun
<1> QED
  BY <1>1, <1>3 DEF IInv

\* A modification bears a time after every task of its type, or is late: what is
\* covered up to a task stays covered.
LEMMA ModifyStep ==
  ASSUME IInv, NEW t \in Types, NEW u \in Users, Modify(t, u)
  PROVE  IInv'
<1> USE DEF IInv
<1>1. clock \in Nat /\ clock' = clock + 1 /\ clock' \in Time
  BY BoundsAssumption DEF TypeOK, Modify, Time
<1>2. PICK v \in Stamps(t, u) :
        /\ upstream' = [upstream EXCEPT ![t][u] = v]
        /\ late' = IF \E i \in DOMAIN tasks : tasks[i].type = t /\ tasks[i].createdAt >= v
                     THEN late \cup {<<t, u>>} ELSE late \ {<<t, u>>}
        /\ \/ Start({[from |-> 0, type |-> t, user |-> u, version |-> v]})
           \/ Start({})
  BY DEF Modify
<1>3. v \in Time /\ v \in Nat /\ v > upstream[t][u]
  BY <1>2, BoundsAssumption DEF Stamps, Time
<1>4. /\ upstream' \in [Types -> [Users -> Time]]
      /\ \A s \in Types, w \in Users :
           upstream'[s][w] = IF s = t /\ w = u THEN v ELSE upstream[s][w]
  BY <1>2, <1>3 DEF TypeOK
<1>5. TypeOK'
  <2>1. updates' \subseteq Update
    BY <1>2, <1>3 DEF TypeOK, Start, Update
  <2>2. disturbed' \subseteq Types \X Users
    BY <1>2, <1>3 DEF TypeOK, Start, Update
  <2>3. late' \subseteq Types \X Users
    BY <1>2 DEF TypeOK
  <2> QED
    BY <1>1, <1>4, <2>1, <2>2, <2>3 DEF TypeOK, Modify
<1>6. NothingFromTheFuture'
  <2>1. \A i \in DOMAIN tasks : tasks[i].createdAt <= clock'
    BY <1>1, TypesOfTasks DEF NothingFromTheFuture
  <2>2. \A s \in Types, w \in Users : delivered[s][w] <= upstream'[s][w]
    BY <1>3, <1>4, TypesOfTasks DEF NothingFromTheFuture
  <2>3. \A r \in Runs : run[r].phase = "saving" => run[r].at <= clock'
    BY <1>1, TimesOfRuns DEF NothingFromTheFuture
  <2> QED
    BY <2>1, <2>2, <2>3 DEF NothingFromTheFuture, Modify
<1>7. ASSUME NEW s \in Types, NEW c, Askable(s, c), Covered(s, c)
      PROVE  Covered(s, c)'
  <2> SUFFICES ASSUME NEW w \in Users, upstream'[s][w] <= c, <<s, w>> \notin late'
               PROVE  delivered[s][w] = upstream'[s][w]
    BY DEF Covered, Modify
  <2>1. CASE s = t /\ w = u
    <3>1. \A i \in DOMAIN tasks : tasks[i].type = t => ~(tasks[i].createdAt >= v)
      BY <1>2, <2>1
    <3>2. v # 0
      BY <1>3, TypesOfTasks
    <3> QED
      BY <1>3, <1>4, <1>7, <2>1, <3>1, <3>2 DEF Askable
  <2>2. CASE ~(s = t /\ w = u)
    BY <1>2, <1>4, <1>7, <2>2 DEF Covered
  <2> QED
    BY <2>1, <2>2
<1>8. NoGap'
  <2> SUFFICES ASSUME NEW i \in DOMAIN tasks, tasks[i].state = "SUCCESS"
               PROVE  Covered(tasks[i].type, tasks[i].createdAt)'
    BY DEF NoGap, Modify
  <2>1. Askable(tasks[i].type, tasks[i].createdAt) /\ tasks[i].type \in Types
    BY TypesOfTasks DEF Askable
  <2>2. tasks' = tasks
    BY DEF Modify
  <2> QED
    BY <1>7, <2>1, <2>2 DEF NoGap
<1>9. RunsExtendTheChain'
  <2>1. run' = run /\ tasks' = tasks
    BY DEF Modify
  <2> SUFFICES ASSUME NEW r \in Runs, run[r] # NoRun
               PROVE  /\ Askable(run[r].type, run[r].after)
                      /\ Covered(run[r].type, run[r].after)'
                      /\ run[r].phase \notin {"looked", "saving"} =>
                           tasks[run[r].task].type = run[r].type
                      /\ run[r].phase = "fetched" =>
                           Covered(run[r].type, tasks[run[r].task].createdAt)'
    BY <2>1 DEF RunsExtendTheChain, Askable
  <2>2. run[r] \in Run(Len(tasks)) /\ run[r].type \in Types
    BY DEF TypeOK, Run
  <2>3. Covered(run[r].type, run[r].after)'
    BY <1>7, <2>1, <2>2 DEF RunsExtendTheChain
  <2>4. ASSUME run[r].phase = "fetched"
        PROVE  Covered(run[r].type, tasks[run[r].task].createdAt)'
    <3>1. run[r].task \in DOMAIN tasks
      BY <2>2, <2>4 DEF Run, TypeOK
    <3>2. Askable(run[r].type, tasks[run[r].task].createdAt)
      BY <2>4, <3>1 DEF RunsExtendTheChain, Askable
    <3> QED
      BY <1>7, <2>1, <2>2, <2>4, <3>2 DEF RunsExtendTheChain
  <2> QED
    BY <2>3, <2>4 DEF RunsExtendTheChain
<1> QED
  BY <1>5, <1>6, <1>8, <1>9

\* A run asks for the time of a successful task, or for everything.
LEMMA FindLastSuccessStep ==
  ASSUME IInv, NEW t \in Types, NEW r \in Runs, FindLastSuccess(r, t)
  PROVE  IInv'
<1> USE DEF IInv
<1>1. UNCHANGED <<clock, upstream, tasks, delivered, late>>
  BY DEF FindLastSuccess
<1>2. /\ ModifiedAfter(t) \in Time
      /\ Askable(t, ModifiedAfter(t))
      /\ Covered(t, ModifiedAfter(t))
  <2>1. CASE Successes(t) = {}
    <3>1. ModifiedAfter(t) = 0
      BY <2>1 DEF ModifiedAfter
    <3>2. \A u \in Users : upstream[t][u] \in Nat /\ delivered[t][u] \in Nat
                           /\ delivered[t][u] <= upstream[t][u]
      BY BoundsAssumption DEF TypeOK, Time, NothingFromTheFuture
    <3> QED
      BY <3>1, <3>2, BoundsAssumption DEF Covered, Askable, Time
  <2>2. CASE Successes(t) # {}
    <3> DEFINE last == CHOOSE i \in Successes(t) : \A j \in Successes(t) : j <= i
    <3>1. \E i \in Successes(t) : \A j \in Successes(t) : j <= i
      <4>1. Successes(t) \subseteq 1 .. Len(tasks) /\ Len(tasks) \in Nat
        BY DEF Successes, TypeOK
      <4> QED
        BY <2>2, <4>1, GreatestIndex
    <3>2. last \in Successes(t) /\ ModifiedAfter(t) = tasks[last].createdAt
      BY <2>2, <3>1 DEF ModifiedAfter
    <3> HIDE DEF last
    <3> QED
      BY <3>2, TypesOfTasks DEF Successes, NoGap, Askable
  <2> QED
    BY <2>1, <2>2
<1> DEFINE new == [phase |-> "looked", type |-> t, after |-> ModifiedAfter(t)]
<1>3. run' = [run EXCEPT ![r] = new] /\ new \in Run(Len(tasks))
  BY <1>2 DEF FindLastSuccess, Run
<1>4. TypeOK'
  BY <1>1, <1>3 DEF TypeOK, FindLastSuccess
<1>5. NothingFromTheFuture' /\ NoGap'
  <2>1. \A q \in Runs : run'[q].phase = "saving" => run'[q] = run[q]
    BY <1>3 DEF TypeOK
  <2> QED
    BY <1>1, <2>1 DEF NothingFromTheFuture, NoGap, Covered
<1>6. RunsExtendTheChain'
  <2>1. \A s, c : Covered(s, c)' = Covered(s, c)
    BY <1>1 DEF Covered
  <2>2. \A q \in Runs : run'[q] = IF q = r THEN new ELSE run[q]
    BY <1>3 DEF TypeOK
  <2>3. new.phase = "looked" /\ new.type = t /\ new.after = ModifiedAfter(t)
    OBVIOUS
  <2> HIDE DEF new
  <2> QED
    BY <1>1, <1>2, <2>1, <2>2, <2>3 DEF RunsExtendTheChain, Covered, Askable
<1> QED
  BY <1>4, <1>5, <1>6

\* The statement that saves the row bears the time it begins at; nothing else changes.
LEMMA StampDoingStep ==
  ASSUME IInv, NEW r \in Runs, StampDoing(r)
  PROVE  IInv'
<1> USE DEF IInv
<1>1. clock' \in Time /\ clock' = clock + 1 /\ clock \in Nat
  BY BoundsAssumption DEF TypeOK, StampDoing, Time
<1>2. UNCHANGED <<upstream, tasks, delivered, late>>
  BY DEF StampDoing
<1> DEFINE new == [phase |-> "saving", type |-> run[r].type, after |-> run[r].after, at |-> clock']
<1>3. run[r] # NoRun /\ run[r] \in Run(Len(tasks)) /\ run[r].type \in Types /\ run[r].after \in Time
  <2>1. run[r] # NoRun /\ run[r] \in Run(Len(tasks))
    BY DEF TypeOK, StampDoing, NoRun
  <2> QED
    BY <2>1 DEF Run
<1>4. /\ new \in Run(Len(tasks)) /\ new.phase = "saving" /\ new.at = clock'
      /\ new.type = run[r].type /\ new.after = run[r].after
  BY <1>1, <1>3 DEF Run
<1>5. run' = [run EXCEPT ![r] = new]
  BY DEF StampDoing
<1> HIDE DEF new
<1>6. \A q \in Runs : run'[q] = IF q = r THEN new ELSE run[q]
  BY <1>5 DEF TypeOK
<1>7. TypeOK'
  <2>1. run' \in [Runs -> Run(Len(tasks)) \cup {NoRun}]
    BY <1>4, <1>5 DEF TypeOK
  <2> QED
    BY <1>1, <1>2, <2>1 DEF TypeOK, StampDoing
<1>8. NothingFromTheFuture'
  <2>1. \A i \in DOMAIN tasks : tasks[i].createdAt <= clock'
    BY <1>1, TypesOfTasks DEF NothingFromTheFuture
  <2>2. ASSUME NEW q \in Runs, run'[q].phase = "saving" PROVE run'[q].at <= clock'
    <3>1. CASE q = r
      BY <1>1, <1>4, <1>6, <3>1
    <3>2. CASE q # r
      BY <1>1, <1>6, <2>2, <3>2, TimesOfRuns DEF NothingFromTheFuture
    <3> QED
      BY <3>1, <3>2
  <2> QED
    BY <1>2, <2>1, <2>2 DEF NothingFromTheFuture
<1>9. NoGap'
  BY <1>2 DEF NoGap, Covered
<1>10. RunsExtendTheChain'
  <2>1. \A s, c : Covered(s, c)' = Covered(s, c)
    BY <1>2 DEF Covered
  <2> QED
    BY <1>2, <1>3, <1>4, <1>6, <2>1 DEF RunsExtendTheChain, Covered, Askable
<1> QED
  BY <1>7, <1>8, <1>9, <1>10

\* The new row bears the time of its statement, and the run is still where it looked.
LEMMA SaveDoingStep ==
  ASSUME IInv, NEW r \in Runs, SaveDoing(r)
  PROVE  IInv'
<1> USE DEF IInv
<1> DEFINE new == [type |-> run[r].type, state |-> "DOING", createdAt |-> run[r].at]
           next == [phase |-> "fetching", type |-> run[r].type, after |-> run[r].after,
                    task |-> Len(tasks')]
<1>1. run[r].phase = "saving" /\ run[r].at \in Time /\ run[r].at <= clock
      /\ clock' = clock /\ clock \in Nat
  BY TypesOfTasks, TimesOfRuns DEF SaveDoing, NothingFromTheFuture
<1>2. run[r].type \in Types /\ run[r].after \in Time
  BY <1>1, TimesOfRuns
<1>3. new \in Task /\ new.state = "DOING" /\ new.type = run[r].type /\ new.createdAt = run[r].at
  BY <1>1, <1>2 DEF Task
<1>4. tasks' = Append(tasks, new) /\ tasks \in Seq(Task)
  BY DEF SaveDoing, TypeOK
<1> HIDE DEF new
<1>5. /\ tasks' \in Seq(Task) /\ Len(tasks') = Len(tasks) + 1 /\ Len(tasks) \in Nat
      /\ \A i \in 1 .. Len(tasks) : tasks'[i] = tasks[i]
      /\ tasks'[Len(tasks')] = new
      /\ DOMAIN tasks' = 1 .. Len(tasks') /\ DOMAIN tasks = 1 .. Len(tasks)
  BY <1>3, <1>4
<1>6. next \in Run(Len(tasks'))
  BY <1>2, <1>5 DEF Run
<1>7. \A q \in Runs : run'[q] = IF q = r THEN next ELSE run[q]
  BY DEF SaveDoing, TypeOK
<1>8. \A q \in Runs : run[q] # NoRun => run[q] \in Run(Len(tasks)) /\ run[q] \in Run(Len(tasks'))
  BY <1>5 DEF TypeOK, Run
<1>9. TypeOK'
  <2>1. run' \in [Runs -> Run(Len(tasks')) \cup {NoRun}]
    BY <1>6, <1>7, <1>8 DEF SaveDoing, TypeOK
  <2> QED
    BY <1>1, <1>5, <2>1 DEF TypeOK, SaveDoing
<1>10. UNCHANGED <<upstream, delivered, late>> /\ \A s, c : Covered(s, c)' = Covered(s, c)
  BY DEF SaveDoing, Covered
<1>11. NothingFromTheFuture'
  <2>1. \A i \in DOMAIN tasks' : tasks'[i].createdAt <= clock'
    BY <1>1, <1>3, <1>5, TypesOfTasks DEF NothingFromTheFuture
  <2>2. \A q \in Runs : run'[q].phase = "saving" => run'[q] = run[q]
    BY <1>7
  <2> QED
    BY <1>1, <1>10, <2>1, <2>2 DEF NothingFromTheFuture
<1>12. NoGap'
  <2> SUFFICES ASSUME NEW i \in 1 .. Len(tasks'), tasks'[i].state = "SUCCESS"
               PROVE  Covered(tasks[i].type, tasks[i].createdAt)'
    BY <1>5 DEF NoGap
  <2>1. i \in 1 .. Len(tasks)
    BY <1>3, <1>5
  <2>2. tasks'[i] = tasks[i] /\ i \in DOMAIN tasks
    BY <1>5, <2>1
  <2>3. Covered(tasks[i].type, tasks[i].createdAt)
    BY <2>2 DEF NoGap
  <2>. QED BY <1>10, <2>2, <2>3 DEF Covered
<1>13. RunsExtendTheChain'
  <2>1. \A q \in Runs : run[q] # NoRun /\ run[q].phase \notin {"looked", "saving"} =>
       run[q].task \in 1 .. Len(tasks)
    BY <1>8 DEF Run
  <2> DEFINE Asked(s, c) ==
               c = 0 \/ \E i \in DOMAIN tasks' : tasks'[i].type = s /\ tasks'[i].createdAt = c
  <2>2. \A s, c : Askable(s, c) => Asked(s, c)
    BY <1>5 DEF Askable
  <2>3. run[r] # NoRun
    BY DEF SaveDoing, NoRun
  <2>4. next.phase = "fetching" /\ next.type = run[r].type /\ next.after = run[r].after
        /\ next.task = Len(tasks')
    OBVIOUS
  <2> HIDE DEF next, Asked
  <2>5. ASSUME NEW q \in Runs, q # r, run[q] # NoRun
        PROVE  /\ Asked(run[q].type, run[q].after)
               /\ Covered(run[q].type, run[q].after)
               /\ run[q].phase \notin {"looked", "saving"} =>
                    tasks'[run[q].task].type = run[q].type
               /\ run[q].phase = "fetched" => Covered(run[q].type, tasks'[run[q].task].createdAt)
    <3>1. /\ Askable(run[q].type, run[q].after) /\ Covered(run[q].type, run[q].after)
          /\ run[q].phase \notin {"looked", "saving"} =>
               tasks[run[q].task].type = run[q].type
          /\ run[q].phase = "fetched" => Covered(run[q].type, tasks[run[q].task].createdAt)
      BY <2>5 DEF RunsExtendTheChain
    <3>2. run[q].phase \notin {"looked", "saving"} =>
         tasks'[run[q].task] = tasks[run[q].task]
      BY <1>5, <2>1, <2>5
    <3>. QED BY <2>2, <3>1, <3>2
  <2>6. /\ Asked(next.type, next.after)
        /\ Covered(next.type, next.after)
        /\ tasks'[next.task].type = next.type
    BY <1>3, <1>5, <2>2, <2>3, <2>4 DEF RunsExtendTheChain
  <2> SUFFICES ASSUME NEW q \in Runs, run'[q] # NoRun
               PROVE  (/\ Askable(run[q].type, run[q].after)
                       /\ Covered(run[q].type, run[q].after)
                       /\ run[q].phase \notin {"looked", "saving"} =>
                            tasks[run[q].task].type = run[q].type
                       /\ run[q].phase = "fetched" =>
                            Covered(run[q].type, tasks[run[q].task].createdAt))'
    BY DEF RunsExtendTheChain
  <2>7. CASE q = r
    <3>1. run'[q] = next
      BY <1>7, <2>7
    <3>2. Askable(run[q].type, run[q].after)'
      BY <2>6, <3>1 DEF Askable, Asked
    <3>3. Covered(run[q].type, run[q].after)'
      BY <1>10, <2>6, <3>1 DEF Covered
    <3>. QED BY <2>4, <2>6, <3>1, <3>2, <3>3
  <2>8. CASE q # r
    <3>1. run'[q] = run[q]
      BY <1>7, <2>8
    <3>2. Askable(run[q].type, run[q].after)'
      BY <2>5, <2>8, <3>1 DEF Askable, Asked
    <3>3. Covered(run[q].type, run[q].after)'
      BY <1>10, <2>5, <2>8, <3>1 DEF Covered
    <3>4. (run[q].phase = "fetched" => Covered(run[q].type, tasks[run[q].task].createdAt))'
      BY <1>10, <2>5, <2>8, <3>1 DEF Covered
    <3>. QED BY <2>5, <2>8, <3>1, <3>2, <3>3, <3>4
  <2> QED
    BY <2>7, <2>8
<1> QED
  BY <1>9, <1>11, <1>12, <1>13

\* What was modified since modifiedAfter is fetched, what was modified before it
\* had been: then nothing of the type is left.
LEMMA FetchModifiedStep ==
  ASSUME IInv, NEW r \in Runs, FetchModified(r)
  PROVE  IInv'
<1> USE DEF IInv
<1> DEFINE t == run[r].type
<1>1. run[r] \in Run(Len(tasks)) /\ run[r] # NoRun /\ run[r].phase = "fetching"
  BY DEF TypeOK, FetchModified, NoRun
<1>2. t \in Types /\ run[r].after \in Nat /\ run[r].task \in Nat
  BY <1>1, BoundsAssumption DEF Run, Time, TypeOK
<1>3. UNCHANGED <<clock, upstream, tasks, late>>
  BY DEF FetchModified
<1>4. /\ \A s \in Types, v \in Users :
           delivered'[s][v] = IF s = t /\ upstream[s][v] > run[r].after
                                THEN upstream[s][v] ELSE delivered[s][v]
      /\ \A v \in Users : <<t, v>> \notin late => delivered'[t][v] = upstream[t][v]
  <2>1. \A s \in Types, v \in Users :
          delivered'[s][v] = IF s = t /\ upstream[s][v] > run[r].after
                               THEN upstream[s][v] ELSE delivered[s][v]
    BY <1>2 DEF FetchModified, TypeOK
  <2>2. \A v \in Users :
          upstream[t][v] <= run[r].after /\ <<t, v>> \notin late => delivered[t][v] = upstream[t][v]
    BY <1>1 DEF RunsExtendTheChain, Covered
  <2> QED
    BY <1>2, <2>1, <2>2, TypesOfTasks
<1> DEFINE Fetched(s, c) ==
             \A u \in Users :
               upstream[s][u] <= c /\ <<s, u>> \notin late => delivered'[s][u] = upstream[s][u]
<1>5. \A s \in Types : \A c : Covered(s, c) => Fetched(s, c)
  BY <1>4 DEF Covered
<1>6. \A c : Fetched(t, c)
  BY <1>2, <1>4
<1> DEFINE next == [run[r] EXCEPT !.phase = "fetched"]
<1>7. next \in Run(Len(tasks)) /\ next.phase = "fetched" /\ next.type = t
      /\ next.after = run[r].after /\ next.task = run[r].task /\ next # NoRun
  BY <1>1 DEF Run, NoRun
<1>8. run' = [run EXCEPT ![r] = next]
  BY DEF FetchModified
<1> HIDE DEF next
<1>9. \A q \in Runs : run'[q] = IF q = r THEN next ELSE run[q]
  BY <1>8 DEF TypeOK
<1>10. TypeOK'
  <2>1. run' \in [Runs -> Run(Len(tasks)) \cup {NoRun}]
    BY <1>7, <1>8 DEF TypeOK
  <2>2. delivered' \in [Types -> [Users -> Time]]
    BY <1>2 DEF TypeOK, FetchModified
  <2>3. updates' \subseteq Update
    BY <1>2 DEF TypeOK, FetchModified, Start, Update
  <2>4. disturbed' \subseteq Types \X Users
    BY <1>2 DEF TypeOK, FetchModified, Start
  <2> QED
    BY <1>3, <2>1, <2>2, <2>3, <2>4 DEF TypeOK, FetchModified
<1>11. NothingFromTheFuture'
  <2>1. \A s \in Types, v \in Users : delivered'[s][v] <= upstream[s][v]
    BY <1>4, TypesOfTasks DEF NothingFromTheFuture
  <2>2. \A q \in Runs : run'[q].phase = "saving" => run'[q] = run[q]
    BY <1>7, <1>9
  <2> QED
    BY <1>3, <2>1, <2>2 DEF NothingFromTheFuture
<1>12. NoGap'
  BY <1>3, <1>5, TypesOfTasks DEF NoGap, Covered
<1>13. RunsExtendTheChain'
  <2>1. \A q \in Runs : run[q] # NoRun => run[q].type \in Types
    BY DEF TypeOK, Run
  <2> HIDE DEF t, Fetched
  <2>2. ASSUME NEW q \in Runs, q # r, run[q] # NoRun
        PROVE  /\ Askable(run[q].type, run[q].after)
               /\ Fetched(run[q].type, run[q].after)
               /\ run[q].phase \notin {"looked", "saving"} =>
                    tasks[run[q].task].type = run[q].type
               /\ run[q].phase = "fetched" => Fetched(run[q].type, tasks[run[q].task].createdAt)
    BY <1>5, <2>1, <2>2 DEF RunsExtendTheChain
  <2>3. /\ Askable(next.type, next.after)
        /\ Fetched(next.type, next.after)
        /\ tasks[next.task].type = next.type
        /\ Fetched(next.type, tasks[next.task].createdAt)
    BY <1>1, <1>6, <1>7 DEF RunsExtendTheChain, t
  <2> QED
    BY <1>3, <1>9, <2>2, <2>3 DEF RunsExtendTheChain, Covered, Fetched, Askable
<1> QED
  BY <1>10, <1>11, <1>12, <1>13

\* A row leaves DOING; a successful one has covered the time it was created.
LEMMA SaveResultStep ==
  ASSUME IInv, NEW r \in Runs, SaveResult(r)
  PROVE  IInv'
<1> USE DEF IInv
<1> DEFINE k == run[r].task
<1>1. run[r] \in Run(Len(tasks)) /\ run[r] # NoRun /\ run[r].phase \in {"fetched", "failed"}
  BY DEF TypeOK, SaveResult, NoRun
<1>2. k \in DOMAIN tasks
  BY <1>1 DEF Run, TypeOK
<1>3. PICK state \in {"SUCCESS", "FAIL"} :
        /\ tasks' = [tasks EXCEPT ![k].state = state]
        /\ state = "SUCCESS" => run[r].phase = "fetched"
  BY <1>1 DEF SaveResult
<1>4. tasks \in Seq(Task) /\ tasks[k] \in Task
  BY <1>2 DEF TypeOK
<1>5. [tasks[k] EXCEPT !.state = state] \in Task
  BY <1>4 DEF Task
<1>6. /\ tasks' \in Seq(Task) /\ Len(tasks') = Len(tasks) /\ DOMAIN tasks' = DOMAIN tasks
      /\ \A i \in DOMAIN tasks :
           /\ tasks'[i].type = tasks[i].type
           /\ tasks'[i].createdAt = tasks[i].createdAt
           /\ tasks'[i].state = IF i = k THEN state ELSE tasks[i].state
  <2>1. tasks' = [tasks EXCEPT ![k] = [tasks[k] EXCEPT !.state = state]]
    BY <1>3
  <2>2. tasks' \in Seq(Task) /\ Len(tasks') = Len(tasks) /\ DOMAIN tasks' = DOMAIN tasks
    BY <1>2, <1>4, <1>5, <2>1
  <2>3. \A i \in DOMAIN tasks :
          tasks'[i] = IF i = k THEN [tasks[k] EXCEPT !.state = state] ELSE tasks[i]
    BY <1>2, <1>4, <2>1
  <2> QED
    BY <1>4, <2>2, <2>3 DEF Task
<1>7. UNCHANGED <<clock, upstream, delivered, late>> /\ \A s, c : Covered(s, c)' = Covered(s, c)
  BY DEF SaveResult, Covered
<1>8. \A q \in Runs : run'[q] = IF q = r THEN NoRun ELSE run[q]
  BY DEF SaveResult, TypeOK
<1>9. TypeOK'
  <2>1. run' \in [Runs -> Run(Len(tasks')) \cup {NoRun}]
    BY <1>6 DEF SaveResult, TypeOK
  <2> QED
    BY <1>6, <2>1 DEF TypeOK, SaveResult
<1>10. NothingFromTheFuture'
  <2>1. \A q \in Runs : run'[q].phase = "saving" => run'[q] = run[q]
    BY <1>8 DEF NoRun
  <2> QED
    BY <1>6, <1>7, <2>1 DEF NothingFromTheFuture
<1>11. NoGap'
  <2>1. state = "SUCCESS" => Covered(tasks[k].type, tasks[k].createdAt)
    BY <1>1, <1>3 DEF RunsExtendTheChain
  <2> HIDE DEF k
  <2> SUFFICES ASSUME NEW i \in DOMAIN tasks', (tasks[i].state = "SUCCESS")'
               PROVE  Covered(tasks[i].type, tasks[i].createdAt)'
    BY DEF NoGap
  <2>2. i \in DOMAIN tasks /\ tasks'[i].type = tasks[i].type
        /\ tasks'[i].createdAt = tasks[i].createdAt
    BY <1>6
  <2>3. i # k => tasks[i].state = "SUCCESS"
    BY <1>6, <2>2
  <2>4. i = k => state = "SUCCESS"
    BY <1>6, <2>2
  <2>5. Covered(tasks[i].type, tasks[i].createdAt)
    BY <2>1, <2>2, <2>3, <2>4 DEF NoGap
  <2> QED
    BY <1>7, <2>2, <2>5 DEF Covered
<1>12. RunsExtendTheChain'
  <2>1. ASSUME NEW q \in Runs, run[q] # NoRun, run[q].phase \notin {"looked", "saving"}
        PROVE  run[q].task \in DOMAIN tasks
    BY <2>1 DEF TypeOK, Run
  <2> HIDE DEF k
  <2> SUFFICES ASSUME NEW q \in Runs, run'[q] # NoRun
               PROVE  (/\ Askable(run[q].type, run[q].after)
                       /\ Covered(run[q].type, run[q].after)
                       /\ run[q].phase \notin {"looked", "saving"} =>
                            tasks[run[q].task].type = run[q].type
                       /\ run[q].phase = "fetched" =>
                            Covered(run[q].type, tasks[run[q].task].createdAt))'
    BY DEF RunsExtendTheChain, NoRun
  <2>2. run'[q] = run[q] /\ run[q] # NoRun
    BY <1>8
  <2>3. Askable(run[q].type, run[q].after)'
    BY <1>6, <2>2 DEF RunsExtendTheChain, Askable
  <2>4. Covered(run[q].type, run[q].after)'
    BY <1>7, <2>2 DEF RunsExtendTheChain, Covered
  <2>5. (run[q].phase \notin {"looked", "saving"} => tasks[run[q].task].type = run[q].type)'
    BY <1>6, <2>1, <2>2 DEF RunsExtendTheChain
  <2>6. (run[q].phase = "fetched" => Covered(run[q].type, tasks[run[q].task].createdAt))'
    BY <1>6, <1>7, <2>1, <2>2 DEF RunsExtendTheChain, Covered
  <2> QED
    BY <2>3, <2>4, <2>5, <2>6
<1> QED
  BY <1>9, <1>10, <1>11, <1>12

\* A run that fails or is cut short leaves the chain as it is.
LEMMA RunEndsStep ==
  ASSUME IInv,
         UNCHANGED <<clock, upstream, tasks, delivered, late>>,
         NEW S \in SUBSET Runs,
         run' = [q \in Runs |-> IF q \in S THEN NoRun ELSE run[q]],
         TypeOK'
  PROVE  IInv'
<1> USE DEF IInv
<1>1. NothingFromTheFuture' /\ NoGap'
  <2>1. \A q \in Runs : run'[q].phase = "saving" => run'[q] = run[q]
    BY DEF NoRun
  <2> QED
    BY <2>1 DEF NothingFromTheFuture, NoGap, Covered
<1>2. RunsExtendTheChain'
  BY DEF RunsExtendTheChain, Covered, Askable
<1> QED
  BY <1>1, <1>2

\* The answer of the service fails.
LEMMA FetchFailsStep ==
  ASSUME IInv, NEW r \in Runs, FetchFails(r)
  PROVE  IInv'
<1> USE DEF IInv
<1> DEFINE next == [run[r] EXCEPT !.phase = "failed"]
<1>1. run[r] \in Run(Len(tasks)) /\ run[r] # NoRun /\ run[r].phase = "fetching"
  BY DEF TypeOK, FetchFails, NoRun
<1>2. next \in Run(Len(tasks)) /\ next.phase = "failed" /\ next.type = run[r].type
      /\ next.after = run[r].after /\ next.task = run[r].task
  BY <1>1 DEF Run
<1>3. run' = [run EXCEPT ![r] = next]
  BY DEF FetchFails
<1> HIDE DEF next
<1>4. TypeOK'
  <2>1. run' \in [Runs -> Run(Len(tasks)) \cup {NoRun}]
    BY <1>2, <1>3 DEF TypeOK
  <2> QED
    BY <2>1 DEF TypeOK, FetchFails
<1>5. NothingFromTheFuture' /\ NoGap'
  <2>1. \A q \in Runs : run'[q].phase = "saving" => run'[q] = run[q]
    BY <1>2, <1>3 DEF TypeOK
  <2> QED
    BY <2>1 DEF NothingFromTheFuture, NoGap, Covered, FetchFails
<1>6. RunsExtendTheChain'
  <2>1. \A q \in Runs : run'[q] = IF q = r THEN next ELSE run[q]
    BY <1>3 DEF TypeOK
  <2> QED
    BY <1>1, <1>2, <2>1 DEF RunsExtendTheChain, Covered, Askable, FetchFails
<1> QED
  BY <1>4, <1>5, <1>6

\* Steps that touch neither the clock, the tasks, the runs nor what was modified
\* and delivered leave the chain as it was.
LEMMA ChainUndisturbed ==
  ASSUME IInv, TypeOK', UNCHANGED <<clock, upstream, tasks, run, delivered, late>>
  PROVE  IInv'
<1>1. NothingFromTheFuture'
  BY DEF IInv, NothingFromTheFuture
<1>2. \A t, c : Covered(t, c)' <=> Covered(t, c)
  BY DEF Covered
<1>3. \A t, c : Askable(t, c)' <=> Askable(t, c)
  BY DEF Askable
<1>4. NoGap'
  BY <1>2 DEF IInv, NoGap, Covered
<1>5. RunsExtendTheChain'
  BY <1>2, <1>3 DEF IInv, RunsExtendTheChain, Covered, Askable
<1>. QED BY <1>1, <1>4, <1>5 DEF IInv

\* No step breaks the invariant.
LEMMA NextIInv == IInv /\ [Next]_vars => IInv'
<1> SUFFICES ASSUME IInv, [Next]_vars PROVE IInv'
  OBVIOUS
<1>1. ASSUME NEW t \in Types, NEW u \in Users, Modify(t, u) PROVE IInv'
  BY <1>1, ModifyStep
<1>2. ASSUME NEW r \in Runs, NEW t \in Types, FindLastSuccess(r, t) PROVE IInv'
  BY <1>2, FindLastSuccessStep
<1>3. ASSUME NEW r \in Runs, StampDoing(r) \/ SaveDoing(r) PROVE IInv'
  BY <1>3, StampDoingStep, SaveDoingStep
<1>4. ASSUME NEW r \in Runs, FetchModified(r) PROVE IInv'
  BY <1>4, FetchModifiedStep
<1>5. ASSUME NEW r \in Runs, FetchFails(r) PROVE IInv'
  BY <1>5, FetchFailsStep
<1>6. ASSUME NEW r \in Runs, SaveResult(r) PROVE IInv'
  BY <1>6, SaveResultStep
<1>7. ASSUME NEW r \in Runs, RunThrows(r) PROVE IInv'
  <2>1. run' = [q \in Runs |-> IF q \in {r} THEN NoRun ELSE run[q]]
    BY <1>7 DEF RunThrows, IInv, TypeOK
  <2>2. TypeOK'
    BY <1>7 DEF RunThrows, IInv, TypeOK
  <2> QED
    BY <1>7, <2>1, <2>2, RunEndsStep DEF RunThrows
<1>8. ASSUME NEW j \in updates, ApplyUpdate(j) PROVE IInv'
  <2>1. j.type \in Types /\ j.user \in Users /\ j.version \in Time
    BY DEF IInv, TypeOK, Update
  <2>2. TypeOK'
    <3>1. grid' \in [Types -> [Users -> Time]]
      <4>1. grid' = grid \/ grid' = [grid EXCEPT ![j.type][j.user] = j.version]
        BY <1>8 DEF ApplyUpdate
      <4>2. \A t \in Types, u \in Users, v \in Time :
              [grid EXCEPT ![t][u] = v] \in [Types -> [Users -> Time]]
        BY DEF IInv, TypeOK
      <4>3. [grid EXCEPT ![j.type][j.user] = j.version] \in [Types -> [Users -> Time]]
        BY <2>1, <4>2, Zenon
      <4>4. grid \in [Types -> [Users -> Time]]
        BY DEF IInv, TypeOK
      <4> QED
        BY <4>1, <4>3, <4>4, Zenon
    <3>2. disturbed' \subseteq Types \X Users
      BY <1>8, <2>1 DEF ApplyUpdate, IInv, TypeOK
    <3> QED
      BY <1>8, <3>1, <3>2 DEF ApplyUpdate, IInv, TypeOK
  <2> QED
    BY <1>8, <2>2, ChainUndisturbed DEF ApplyUpdate
<1>9. ASSUME NEW j \in updates, UpdateFails(j) PROVE IInv'
  <2>1. j.type \in Types /\ j.user \in Users
    BY DEF IInv, TypeOK, Update
  <2>2. TypeOK'
    BY <1>9, <2>1 DEF UpdateFails, IInv, TypeOK
  <2> QED
    BY <1>9, <2>2, ChainUndisturbed DEF UpdateFails
<1>10. ASSUME NEW u \in Users, FetchSite(u) \/ InsertGrid(u) \/ OccupyFails(u) PROVE IInv'
  <2>1. "SITE_INFO" \in Types /\ 0 \in Time
    BY BoundsAssumption DEF Types, Time
  <2>2. ASSUME FetchSite(u) PROVE TypeOK'
    BY <2>1, <2>2 DEF FetchSite, IInv, TypeOK
  <2>3. ASSUME InsertGrid(u) PROVE TypeOK'
    <3>1. grid' \in [Types -> [Users -> Time]]
      BY <2>1, <2>3 DEF InsertGrid, IInv, TypeOK
    <3>2. site' \in [Users -> Time] /\ occupying' \in [Users -> {"none", "fetched", "owned"}]
      BY <2>1, <2>3 DEF InsertGrid, IInv, TypeOK
    <3> QED
      BY <2>3, <3>1, <3>2 DEF InsertGrid, IInv, TypeOK
  <2>4. ASSUME OccupyFails(u) PROVE TypeOK'
    BY <2>1, <2>4 DEF OccupyFails, IInv, TypeOK
  <2>5. TypeOK'
    BY <1>10, <2>2, <2>3, <2>4
  <2> QED
    BY <1>10, <2>5, ChainUndisturbed DEF FetchSite, InsertGrid, OccupyFails
<1>11. CASE Crash
  <2>1. run' = [q \in Runs |-> IF q \in Runs THEN NoRun ELSE run[q]]
    BY <1>11 DEF Crash
  <2>2. \A j \in updates : j.type \in Types /\ j.user \in Users
    BY DEF IInv, TypeOK, Update
  <2>3. TypeOK'
    BY <1>11, <2>2, BoundsAssumption DEF Crash, IInv, TypeOK, Time
  <2> QED
    BY <1>11, <2>1, <2>3, RunEndsStep DEF Crash
<1>12. CASE UNCHANGED vars
  <2>1. TypeOK'
    BY <1>12 DEF vars, IInv, TypeOK
  <2> QED BY <1>12, <2>1, ChainUndisturbed DEF vars
<1> QED
  BY <1>1, <1>2, <1>3, <1>4, <1>5, <1>6, <1>7, <1>8, <1>9, <1>10, <1>11, <1>12 DEF Next

\* The inductive invariant holds of every behaviour.
LEMMA Invariance == Spec => []IInv
  BY InitIInv, NextIInv, PTL DEF Spec

\* The variables of the synchronisation keep their types.
THEOREM TypeCorrectness == Spec => []TypeOK
<1>1. IInv => TypeOK
  BY DEF IInv
<1> QED
  BY <1>1, Invariance, PTL

\* Whatever a service modified before a successful task was created has been
\* fetched, for any number of users and of runs that overlap, fail or die.
THEOREM ChainHasNoGap == Spec => []NoGap
<1>1. IInv => NoGap
  BY DEF IInv
<1> QED
  BY <1>1, Invariance, PTL

\* With clocks that agree no modification is late, so that NoGap leaves none out.
THEOREM EqualClocksAreNeverLate ==
  ASSUME MaxSkew = 0
  PROVE  Spec => [](late = {})
<1> DEFINE L == late = {}
<1>1. Init => L
  BY DEF Init
<1>2. IInv /\ L /\ [Next]_vars => L'
  <2> SUFFICES ASSUME IInv, L, [Next]_vars PROVE L'
    OBVIOUS
  <2>1. ASSUME NEW t \in Types, NEW u \in Users, Modify(t, u) PROVE L'
    <3>1. clock \in Nat /\ \A i \in DOMAIN tasks : tasks[i].createdAt \in Nat
      BY TypesOfTasks DEF IInv
    <3>2. \A v \in Stamps(t, u) : v \in Nat /\ v >= clock + 1
      BY <3>1, BoundsAssumption DEF Stamps, Time
    <3>3. \A i \in DOMAIN tasks, v \in Stamps(t, u) : ~(tasks[i].createdAt >= v)
      BY <3>1, <3>2 DEF IInv, NothingFromTheFuture
    <3> QED
      BY <2>1, <3>3 DEF Modify
  <2> QED
    BY <2>1 DEF Next, vars, FindLastSuccess, StampDoing, SaveDoing, FetchModified, FetchFails,
                SaveResult, RunThrows, ApplyUpdate, UpdateFails, FetchSite, InsertGrid,
                OccupyFails, Crash
<1> QED
  BY <1>1, <1>2, Invariance, PTL DEF Spec
-----------------------------------------------------------------------------
\* With no update on its way the grid has the version a run fetched last, or a newer
\* one, or the occupy that is about to insert it has.  A grid has no profile until
\* the first update finds it.
Settled(t, u) ==
  /\ occupying[u] = "owned" /\ (t = "SITE_INFO" \/ grid[t][u] # 0)
       => grid[t][u] >= delivered[t][u]
  /\ occupying[u] = "fetched" /\ t = "SITE_INFO" => site[u] >= delivered[t][u]

\* Undisturbed updates carry what the last run fetched, or newer.
Follows(t, u) ==
  <<t, u>> \notin disturbed =>
    /\ \A j \in UpdatesOf(t, u) : j.version >= delivered[t][u]
    /\ UpdatesOf(t, u) = {} => Settled(t, u)

FieldsFollow ==
  /\ \A t \in Types, u \in Users : Follows(t, u)
  /\ \A u \in Users : occupying[u] # "owned" => grid["USER_PROFILE"][u] = 0

\* Versions are natural numbers.
LEMMA VersionsAreNatural ==
  ASSUME TypeOK
  PROVE  /\ \A j \in updates : j.version \in Nat /\ j.type \in Types /\ j.user \in Users
         /\ \A u \in Users : site[u] \in Nat
         /\ \A t \in Types, u \in Users : /\ grid[t][u] \in Nat /\ delivered[t][u] \in Nat
                                          /\ upstream[t][u] \in Nat
<1>1. Time \subseteq Nat
  BY BoundsAssumption DEF Time
<1>. QED BY <1>1 DEF TypeOK, Update

\* An update that starts beside one with another version disturbs.
LEMMA StartKeepsFields ==
  ASSUME TypeOK, FieldsFollow, NEW new \in SUBSET Update, Start(new),
         NEW t \in Types, NEW u \in Users,
         UNCHANGED <<occupying, site, grid>>,
         delivered'[t][u] \in Nat,
         \A i \in new : i.type = t /\ i.user = u => i.version >= delivered'[t][u],
         (\A i \in new : i.type # t \/ i.user # u) => delivered'[t][u] = delivered[t][u]
  PROVE  Follows(t, u)'
<1> SUFFICES ASSUME <<t, u>> \notin disturbed'
             PROVE  /\ \A j \in UpdatesOf(t, u)' : j.version >= delivered'[t][u]
                    /\ UpdatesOf(t, u)' = {} => Settled(t, u)'
  BY DEF Follows
<1>1. Follows(t, u) /\ <<t, u>> \notin disturbed
  BY DEF FieldsFollow, Start
<1>2. updates' = updates \cup new
  BY DEF Start
<1>3. CASE \A i \in new : i.type # t \/ i.user # u
  <2>1. UpdatesOf(t, u)' = UpdatesOf(t, u)
    BY <1>2, <1>3 DEF UpdatesOf
  <2>. QED BY <1>1, <1>3, <2>1 DEF Follows, Settled
<1>4. ASSUME NEW i \in new, i.type = t, i.user = u
      PROVE  /\ i \in UpdatesOf(t, u)'
             /\ \A j \in UpdatesOf(t, u)' : j.version >= delivered'[t][u]
  <2>1. i \in UpdatesOf(t, u)'
    BY <1>2, <1>4 DEF UpdatesOf
  <2>2. \A k \in UpdatesOf(t, u) : k.version = i.version
    BY <1>4 DEF Start
  <2>3. ASSUME NEW j \in UpdatesOf(t, u)' PROVE j.version >= delivered'[t][u]
    <3>1. (j \in new /\ j.type = t /\ j.user = u) \/ j \in UpdatesOf(t, u)
      BY <1>2 DEF UpdatesOf
    <3>. QED BY <1>4, <2>2, <3>1
  <2>. QED BY <2>1, <2>3
<1>. QED BY <1>3, <1>4

\* A modification and its event, if it is not lost.
LEMMA ModifyKeepsFields ==
  ASSUME IInv, FieldsFollow, NEW s \in Types, NEW v \in Users, Modify(s, v)
  PROVE  FieldsFollow'
<1>1. PICK stamp \in Stamps(s, v) :
        \/ Start({[from |-> 0, type |-> s, user |-> v, version |-> stamp]})
        \/ Start({})
  BY DEF Modify
<1>2. UNCHANGED <<occupying, site, grid, delivered>> /\ TypeOK
  BY DEF Modify, IInv
<1>3. stamp \in Time /\ stamp \in Nat /\ stamp > upstream[s][v]
  BY <1>1, BoundsAssumption DEF Stamps, Time
<1>4. delivered[s][v] <= upstream[s][v] /\ upstream[s][v] \in Nat /\ delivered[s][v] \in Nat
  BY TypesOfTasks DEF IInv, NothingFromTheFuture
<1>5. PICK new \in SUBSET Update :
        Start(new) /\ \A i \in new : i.type = s /\ i.user = v /\ i.version = stamp
  <2>1. [from |-> 0, type |-> s, user |-> v, version |-> stamp] \in Update
    BY <1>3 DEF Update
  <2>. QED BY <1>1, <2>1
<1>6. ASSUME NEW t \in Types, NEW u \in Users PROVE Follows(t, u)'
  <2>1. delivered'[t][u] \in Nat
    BY <1>2, VersionsAreNatural
  <2>2. \A i \in new : i.type = t /\ i.user = u => i.version >= delivered'[t][u]
    BY <1>2, <1>3, <1>4, <1>5
  <2>. QED BY <1>2, <1>5, <2>1, <2>2, StartKeepsFields
<1>. QED BY <1>2, <1>6 DEF FieldsFollow

\* What a run fetches is on its way at once.
LEMMA FetchKeepsFields ==
  ASSUME IInv, FieldsFollow, NEW r \in Runs, FetchModified(r)
  PROVE  FieldsFollow'
<1> DEFINE s == run[r].type
           modified == {u \in Users : upstream[s][u] > run[r].after}
           new == {[from |-> run[r].task, type |-> s, user |-> u, version |-> upstream[s][u]] :
                     u \in modified}
<1>1. /\ Start(new) /\ UNCHANGED <<occupying, site, grid, upstream>> /\ TypeOK
      /\ delivered' = [delivered EXCEPT ![s] =
           [u \in Users |-> IF u \in modified THEN upstream[s][u] ELSE delivered[s][u]]]
  BY DEF FetchModified, IInv
<1>2. s \in Types /\ run[r].task \in Nat
  <2>1. run[r] \in Run(Len(tasks)) \cup {NoRun} /\ run[r].phase = "fetching"
    BY DEF IInv, TypeOK, FetchModified
  <2>. QED BY <2>1 DEF Run, NoRun
<1>3. new \in SUBSET Update
  <2>1. \A u \in Users : upstream[s][u] \in Time
    BY <1>1, <1>2 DEF TypeOK
  <2>. QED BY <1>2, <2>1 DEF Update
<1>4. ASSUME NEW t \in Types, NEW u \in Users PROVE Follows(t, u)'
  <2>1. delivered'[t][u] =
          IF s = t /\ u \in modified THEN upstream[t][u] ELSE delivered[t][u]
    BY <1>1, <1>2 DEF TypeOK
  <2>2. delivered[t][u] \in Nat /\ upstream[t][u] \in Nat
    BY <1>1, VersionsAreNatural
  <2>3. \A i \in new : i.type = t /\ i.user = u => i.version >= delivered'[t][u]
    BY <2>1, <2>2
  <2>4. (\A i \in new : i.type # t \/ i.user # u) => delivered'[t][u] = delivered[t][u]
    <3> SUFFICES ASSUME s = t, u \in modified
                 PROVE  \E i \in new : i.type = t /\ i.user = u
      BY <2>1
    <3> DEFINE i == [from |-> run[r].task, type |-> s, user |-> u, version |-> upstream[s][u]]
    <3>1. i \in new /\ i.type = t /\ i.user = u
      OBVIOUS
    <3>. QED BY <3>1
  <2> HIDE DEF new, modified, s
  <2>. QED BY <1>1, <1>3, <2>1, <2>2, <2>3, <2>4, StartKeepsFields
<1>. QED BY <1>1, <1>4 DEF FieldsFollow

\* An update that ends alone brings its grid up to date, or disturbs.
LEMMA ApplyKeepsFields ==
  ASSUME IInv, FieldsFollow, NEW j \in updates, ApplyUpdate(j) \/ UpdateFails(j)
  PROVE  FieldsFollow'
<1>1. TypeOK /\ updates' = updates \ {j} /\ UNCHANGED <<occupying, site, delivered>>
  BY DEF IInv, ApplyUpdate, UpdateFails
<1>2. j.version \in Nat /\ j.type \in Types /\ j.user \in Users
  BY <1>1, VersionsAreNatural
<1>3. ASSUME NEW t \in Types, NEW u \in Users, ~(j.type = t /\ j.user = u)
      PROVE  Follows(t, u)'
  <2>1. UpdatesOf(t, u)' = UpdatesOf(t, u)
    BY <1>1, <1>3 DEF UpdatesOf
  <2>2. <<t, u>> \in disturbed' <=> <<t, u>> \in disturbed
    BY <1>3 DEF ApplyUpdate, UpdateFails
  <2>3. grid'[t][u] = grid[t][u]
    <3>1. grid' \in {grid, [grid EXCEPT ![j.type][j.user] = j.version]}
      BY DEF ApplyUpdate, UpdateFails
    <3>2. grid \in [Types -> [Users -> Time]]
      BY <1>1 DEF TypeOK
    <3>3. [grid EXCEPT ![j.type][j.user] = j.version][t][u] = grid[t][u]
      BY <1>2, <1>3, <3>2
    <3>. QED BY <3>1, <3>3
  <2>. QED BY <1>1, <2>1, <2>2, <2>3 DEF FieldsFollow, Follows, Settled
<1>4. ASSUME NEW t \in Types, NEW u \in Users, j.type = t, j.user = u, <<t, u>> \notin disturbed'
      PROVE  Follows(t, u)'
  <2>1. ApplyUpdate(j) /\ occupying[u] # "fetched"
    BY <1>4 DEF ApplyUpdate, UpdateFails
  <2>2. delivered[t][u] \in Nat
    BY <1>1, VersionsAreNatural
  <2>3. UpdatesOf(t, u)' = UpdatesOf(t, u) \ {j} /\ j \in UpdatesOf(t, u)
    BY <1>1, <1>4 DEF UpdatesOf
  <2>4. CASE occupying[u] = "owned"
    <3>1. grid'[t][u] = j.version
      BY <1>1, <1>2, <1>4, <2>1, <2>4 DEF ApplyUpdate, TypeOK
    <3>2. disturbed' = IF UpdatesOf(t, u) = {j} /\ j.version >= delivered[t][u]
                         THEN disturbed \ {<<t, u>>} ELSE disturbed
      BY <1>4, <2>1, <2>4 DEF ApplyUpdate
    <3>3. CASE UpdatesOf(t, u) = {j} /\ j.version >= delivered[t][u]
      BY <1>1, <2>3, <2>4, <3>1, <3>3 DEF Follows, Settled
    <3>4. CASE ~(UpdatesOf(t, u) = {j} /\ j.version >= delivered[t][u])
      <4>1. <<t, u>> \notin disturbed
        BY <1>4, <3>2, <3>4
      <4>. QED BY <1>1, <2>3, <2>4, <3>1, <4>1 DEF FieldsFollow, Follows, Settled
    <3>. QED BY <3>3, <3>4
  <2>5. CASE occupying[u] # "owned"
    <3>1. <<t, u>> \notin disturbed
      BY <1>4, <2>1, <2>5 DEF ApplyUpdate
    <3>. QED BY <1>1, <2>1, <2>3, <2>5, <3>1 DEF FieldsFollow, Follows, Settled
  <2>. QED BY <2>4, <2>5
<1>5. ASSUME NEW t \in Types, NEW u \in Users, <<t, u>> \in disturbed' PROVE Follows(t, u)'
  BY <1>5 DEF Follows
<1>6. ASSUME NEW u \in Users, occupying'[u] # "owned" PROVE grid'["USER_PROFILE"][u] = 0
  <2>1. grid["USER_PROFILE"][u] = 0 /\ occupying[u] # "owned"
    BY <1>1, <1>6 DEF FieldsFollow
  <2>2. grid'["USER_PROFILE"][u] = grid["USER_PROFILE"][u]
    BY <1>1, <1>2, <2>1 DEF ApplyUpdate, UpdateFails, TypeOK, Types
  <2>. QED BY <2>1, <2>2
<1>. QED BY <1>3, <1>4, <1>5, <1>6 DEF FieldsFollow

\* occupy copies a site that is not older than the last one fetched, and no profile.
LEMMA OccupyKeepsFields ==
  ASSUME IInv, FieldsFollow, NEW v \in Users, FetchSite(v) \/ InsertGrid(v) \/ OccupyFails(v)
  PROVE  FieldsFollow'
<1>1. /\ TypeOK /\ UNCHANGED <<updates, disturbed, delivered>>
      /\ delivered["SITE_INFO"][v] <= upstream["SITE_INFO"][v]
  BY DEF IInv, FetchSite, InsertGrid, OccupyFails, NothingFromTheFuture, Types
<1>2. \A u \in Users : grid'["USER_PROFILE"][u] = grid["USER_PROFILE"][u]
  BY <1>1 DEF FetchSite, InsertGrid, OccupyFails, TypeOK, Types
<1>3. ASSUME NEW t \in Types, NEW u \in Users PROVE Follows(t, u)'
  <2>1. Follows(t, u) /\ UpdatesOf(t, u)' = UpdatesOf(t, u)
    BY <1>1 DEF FieldsFollow, UpdatesOf
  <2>2. CASE u # v
    <3>1. /\ occupying'[u] = occupying[u] /\ site'[u] = site[u] /\ grid'[t][u] = grid[t][u]
      BY <1>1, <2>2 DEF FetchSite, InsertGrid, OccupyFails, TypeOK, Types
    <3>. QED BY <1>1, <2>1, <3>1 DEF Follows, Settled
  <2>3. CASE u = v /\ FetchSite(v)
    <3>1. occupying'[u] = "fetched" /\ site'[u] = upstream["SITE_INFO"][u]
      BY <1>1, <2>3 DEF FetchSite, TypeOK
    <3>. QED BY <1>1, <2>1, <2>3, <3>1 DEF Follows, Settled
  <2>4. CASE u = v /\ InsertGrid(v)
    <3>1. /\ occupying[u] = "fetched" /\ occupying'[u] = "owned"
          /\ grid'["SITE_INFO"][u] = site[u]
      BY <1>1, <2>4 DEF InsertGrid, TypeOK, Types
    <3>2. grid'["USER_PROFILE"][u] = 0
      BY <1>2, <3>1 DEF FieldsFollow
    <3>. QED BY <1>1, <2>1, <2>4, <3>1, <3>2 DEF Follows, Settled, Types
  <2>5. CASE u = v /\ OccupyFails(v)
    <3>1. occupying'[u] = "none"
      BY <1>1, <2>5 DEF OccupyFails, TypeOK
    <3>. QED BY <1>1, <2>1, <2>5, <3>1 DEF Follows, Settled
  <2>. QED BY <2>2, <2>3, <2>4, <2>5
<1>4. ASSUME NEW u \in Users, occupying'[u] # "owned" PROVE occupying[u] # "owned"
  BY <1>1, <1>4 DEF FetchSite, InsertGrid, OccupyFails, TypeOK
<1>. QED BY <1>2, <1>3, <1>4 DEF FieldsFollow

\* A crash disturbs whoever had an update on its way, and ends each occupy.
LEMMA CrashKeepsFields ==
  ASSUME IInv, FieldsFollow, Crash
  PROVE  FieldsFollow'
<1>1. /\ updates' = {} /\ UNCHANGED <<delivered, grid>>
      /\ disturbed' = disturbed \cup {<<j.type, j.user>> : j \in updates}
      /\ \A u \in Users : occupying'[u] =
           IF occupying[u] = "fetched" THEN "none" ELSE occupying[u]
  BY DEF Crash
<1>2. ASSUME NEW t \in Types, NEW u \in Users, <<t, u>> \notin disturbed' PROVE Follows(t, u)'
  <2>1. <<t, u>> \notin disturbed /\ UpdatesOf(t, u) = {}
    BY <1>1, <1>2 DEF UpdatesOf
  <2>2. UpdatesOf(t, u)' = {}
    BY <1>1 DEF UpdatesOf
  <2>. QED BY <1>1, <2>1, <2>2 DEF FieldsFollow, Follows, Settled
<1>3. ASSUME NEW t \in Types, NEW u \in Users, <<t, u>> \in disturbed' PROVE Follows(t, u)'
  BY <1>3 DEF Follows
<1>. QED BY <1>1, <1>2, <1>3 DEF FieldsFollow

\* The rest of a run is no concern of the grids.
LEMMA NextKeepsFields ==
  ASSUME IInv, FieldsFollow, [Next]_vars
  PROVE  FieldsFollow'
<1>1. ASSUME UNCHANGED <<updates, occupying, site, grid, delivered, disturbed>>
      PROVE  FieldsFollow'
  BY <1>1 DEF FieldsFollow, Follows, Settled, UpdatesOf
<1>2. CASE UNCHANGED vars
  BY <1>1, <1>2 DEF vars
<1>3. ASSUME NEW r \in Runs,
             \/ \E t \in Types : FindLastSuccess(r, t)
             \/ StampDoing(r) \/ SaveDoing(r)
             \/ FetchFails(r) \/ SaveResult(r) \/ RunThrows(r)
      PROVE  FieldsFollow'
  BY <1>1, <1>3 DEF FindLastSuccess, StampDoing, SaveDoing, FetchFails, SaveResult, RunThrows
<1>. QED BY <1>2, <1>3, ModifyKeepsFields, FetchKeepsFields, ApplyKeepsFields,
            OccupyKeepsFields, CrashKeepsFields DEF Next

\* The fields of a grid follow what runs fetch, once they are settled.
LEMMA FieldsAlwaysFollow == Spec => []FieldsFollow
<1>1. Init => FieldsFollow
  BY DEF Init, Never, Types, FieldsFollow, Follows, Settled, UpdatesOf
<1>2. IInv /\ FieldsFollow /\ [Next]_vars => FieldsFollow'
  BY NextKeepsFields
<1>. QED BY <1>1, <1>2, Invariance, PTL DEF Spec

\* The site of a grid is not older than the last one a run fetched, unless its
\* updates failed, overtook each other, or came between fetch and insert of occupy.
THEOREM UndisturbedSitesFollow == Spec => []UndisturbedSitesAreCurrent
<1>1. FieldsFollow => UndisturbedSitesAreCurrent
  BY DEF FieldsFollow, Follows, Settled, UndisturbedSitesAreCurrent, Current, Types
<1>. QED BY <1>1, FieldsAlwaysFollow, PTL

\* Of a profile that holds from the first update that reaches the grid.
THEOREM ReachedProfilesStayCurrent == Spec => []ReachedProfilesFollow
<1>1. FieldsFollow => ReachedProfilesFollow
  BY DEF FieldsFollow, Follows, Settled, ReachedProfilesFollow, Types
<1>. QED BY <1>1, FieldsAlwaysFollow, PTL
=============================================================================
