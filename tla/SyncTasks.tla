----------------------------- MODULE SyncTasks -----------------------------
(* How the profile and site fields of hex_grid follow the two services that own
   them.  Cron runs ask each service for what it modified since the last
   successful task and start one update per modified user without awaiting it;
   the services' events start the same updates; occupy copies the site it has
   fetched before it inserts the grid.

   Time is the clock of the database, a counter that advances with every
   modification and every row of sync_task.  A service stamps a modification with
   its own clock, which may be ahead or behind.  The version of a user's profile
   or site is the stamp of its last modification, 0 the empty one every user
   starts with. *)
EXTENDS Naturals, Sequences, FiniteSets

CONSTANTS
  Users,        \* ids of users
  Runs,         \* runs of SyncTasksService.sync that may overlap
  MaxTime,      \* bound: modifications and tasks
  MaxSkew       \* how far a service's clock may be from the database's

ASSUME BoundsAssumption == MaxTime \in Nat /\ MaxSkew \in Nat

Types == {"USER_PROFILE", "SITE_INFO"}
Time  == 0 .. (MaxTime + MaxSkew)

VARIABLES
  clock,      \* the time
  upstream,   \* version the owning service has, by type and user
  tasks,      \* sync_task; the id of a row is its position
  run,        \* runs in progress
  updates,    \* updateByUserId calls, and events on their way to one
  occupying,  \* progress of each user's occupy: "none", "fetched", "owned"
  site,       \* site version an occupy has fetched; 0 outside
  grid,       \* versions in the fields of each user's row of hex_grid
  delivered,  \* history: versions that runs have fetched
  disturbed,  \* history: type and user whose updates overlapped or were dropped
  late        \* history: type and user whose last modification bears a time before
              \* that of a task there already was

vars == <<clock, upstream, tasks, run, updates, occupying, site, grid, delivered,
          disturbed, late>>

NoRun == [phase |-> "idle"]

Task == [type : Types, state : {"DOING", "SUCCESS", "FAIL"}, createdAt : Time]

\* A run: modifiedAfter, the time its row will bear, the row once it is saved, the
\* result once known.
Run(n) ==
  [phase : {"looked"}, type : Types, after : Time] \cup
  [phase : {"saving"}, type : Types, after : Time, at : Time] \cup
  [phase : {"fetching", "fetched", "failed"}, type : Types, after : Time, task : 1 .. n]

\* An update: the task that started it (0: an event) and the version it carries.
Update == [from : Nat, type : Types, user : Users, version : Time]

TypeOK ==
  /\ clock \in Time
  /\ upstream \in [Types -> [Users -> Time]]
  /\ tasks \in Seq(Task)
  /\ run \in [Runs -> Run(Len(tasks)) \cup {NoRun}]
  /\ updates \subseteq Update
  /\ occupying \in [Users -> {"none", "fetched", "owned"}]
  /\ site \in [Users -> Time]
  /\ grid \in [Types -> [Users -> Time]]
  /\ delivered \in [Types -> [Users -> Time]]
  /\ disturbed \subseteq Types \X Users
  /\ late \subseteq Types \X Users
-----------------------------------------------------------------------------
Never == [t \in Types |-> [u \in Users |-> 0]]

Init ==
  /\ clock = 0
  /\ upstream = Never
  /\ tasks = << >>
  /\ run = [r \in Runs |-> NoRun]
  /\ updates = {}
  /\ occupying = [u \in Users |-> "none"]
  /\ site = [u \in Users |-> 0]
  /\ grid = Never
  /\ delivered = Never
  /\ disturbed = {}
  /\ late = {}

UpdatesOf(t, u) == {j \in updates : j.type = t /\ j.user = u}

\* updateByUserId is called and not awaited.
Start(new) ==
  /\ updates' = updates \cup new
  /\ disturbed' = disturbed \cup
       {<<j.type, j.user>> : j \in {i \in new : \E k \in UpdatesOf(i.type, i.user) :
                                                  k.version # i.version}}

\* The times a service may stamp a modification with: of one user's they increase.
Stamps(t, u) ==
  {v \in Time : v + MaxSkew >= clock + 1 /\ v <= clock + 1 + MaxSkew /\ v > upstream[t][u]}

\* A service changes a user's profile or site.  Its event starts an update, or
\* is lost, or is META_SPACE_SITE_UPDATED, which nothing handles.
Modify(t, u) ==
  /\ clock < MaxTime
  /\ clock' = clock + 1
  /\ \E v \in Stamps(t, u) :
       /\ upstream' = [upstream EXCEPT ![t][u] = v]
       /\ late' = IF \E i \in DOMAIN tasks : tasks[i].type = t /\ tasks[i].createdAt >= v
                    THEN late \cup {<<t, u>>} ELSE late \ {<<t, u>>}
       /\ \/ Start({[from |-> 0, type |-> t, user |-> u, version |-> v]})
          \/ Start({})
  /\ UNCHANGED <<tasks, run, occupying, site, grid, delivered>>

(* Definitions with a name in Mut* are plausible mistakes in the operator that
   follows them; nothing uses them but the validation of the properties. *)

\* The last task is taken whatever its state.
MutLastOfAnyState(t) == {i \in DOMAIN tasks : tasks[i].type = t}

Successes(t) == {i \in DOMAIN tasks : tasks[i].type = t /\ tasks[i].state = "SUCCESS"}

\* findLastSuccessOneByType orders by id, descending; getModifiedAfter defaults to
\* a date before every modification.
ModifiedAfter(t) ==
  IF Successes(t) = {} THEN 0
  ELSE tasks[CHOOSE i \in Successes(t) : \A j \in Successes(t) : j <= i].createdAt

FindLastSuccess(r, t) ==
  /\ run[r] = NoRun
  /\ run' = [run EXCEPT ![r] = [phase |-> "looked", type |-> t, after |-> ModifiedAfter(t)]]
  /\ UNCHANGED <<clock, upstream, tasks, updates, occupying, site, grid, delivered,
                 disturbed, late>>

\* The statement that saves the row begins: createdAt is its CURRENT_TIMESTAMP.
StampDoing(r) ==
  /\ run[r].phase = "looked"
  /\ clock < MaxTime
  /\ clock' = clock + 1
  /\ run' = [run EXCEPT ![r] = [phase |-> "saving", type |-> run[r].type,
                                after |-> run[r].after, at |-> clock']]
  /\ UNCHANGED <<upstream, tasks, updates, occupying, site, grid, delivered, disturbed, late>>

\* The run keeps the id of the row before its own.
MutPreviousTask(r) ==
  /\ run[r].phase = "saving"
  /\ tasks' = Append(tasks, [type |-> run[r].type, state |-> "DOING", createdAt |-> run[r].at])
  /\ run' = [run EXCEPT ![r] = [phase |-> "fetching", type |-> run[r].type,
                                after |-> run[r].after, task |-> Len(tasks)]]
  /\ UNCHANGED <<clock, upstream, updates, occupying, site, grid, delivered, disturbed, late>>

\* The row gets its id: of two runs the later id may bear the earlier time.
SaveDoing(r) ==
  /\ run[r].phase = "saving"
  /\ tasks' = Append(tasks, [type |-> run[r].type, state |-> "DOING", createdAt |-> run[r].at])
  /\ run' = [run EXCEPT ![r] = [phase |-> "fetching", type |-> run[r].type,
                                after |-> run[r].after, task |-> Len(tasks')]]
  /\ UNCHANGED <<clock, upstream, updates, occupying, site, grid, delivered, disturbed, late>>

\* The answer of the service: every user modified since, as it is now.
FetchModified(r) ==
  /\ run[r].phase = "fetching"
  /\ LET t == run[r].type
         modified == {u \in Users : upstream[t][u] > run[r].after} IN
     /\ Start({[from |-> run[r].task, type |-> t, user |-> u, version |-> upstream[t][u]] :
                 u \in modified})
     /\ delivered' = [delivered EXCEPT ![t] =
          [u \in Users |-> IF u \in modified THEN upstream[t][u] ELSE delivered[t][u]]]
  /\ run' = [run EXCEPT ![r].phase = "fetched"]
  /\ UNCHANGED <<clock, upstream, tasks, occupying, site, grid, late>>

\* send fails, or an answer without data makes the loop over it throw.
FetchFails(r) ==
  /\ run[r].phase = "fetching"
  /\ run' = [run EXCEPT ![r].phase = "failed"]
  /\ UNCHANGED <<clock, upstream, tasks, updates, occupying, site, grid, delivered,
                 disturbed, late>>

SaveResult(r) ==
  /\ run[r].phase \in {"fetched", "failed"}
  /\ tasks' = [tasks EXCEPT ![run[r].task].state =
                 IF run[r].phase = "fetched" THEN "SUCCESS" ELSE "FAIL"]
  /\ run' = [run EXCEPT ![r] = NoRun]
  /\ UNCHANGED <<clock, upstream, updates, occupying, site, grid, delivered, disturbed, late>>

\* One of its queries fails: a row that was saved stays DOING.
RunThrows(r) ==
  /\ run[r] # NoRun
  /\ run' = [run EXCEPT ![r] = NoRun]
  /\ UNCHANGED <<clock, upstream, tasks, updates, occupying, site, grid, delivered,
                 disturbed, late>>
-----------------------------------------------------------------------------
\* A field that has a value is left alone.
MutFirstUpdateOnly(j) ==
  /\ j \in updates
  /\ updates' = updates \ {j}
  /\ LET t == j.type  u == j.user IN
     IF occupying[u] = "owned"
       THEN /\ grid' = [grid EXCEPT ![t][u] = IF @ = 0 THEN j.version ELSE @]
            /\ disturbed' = IF UpdatesOf(t, u) = {j} /\ j.version >= delivered[t][u]
                              THEN disturbed \ {<<t, u>>} ELSE disturbed
       ELSE /\ disturbed' = IF occupying[u] = "fetched"
                              THEN disturbed \cup {<<t, u>>} ELSE disturbed
            /\ UNCHANGED grid
  /\ UNCHANGED <<clock, upstream, tasks, run, occupying, site, delivered, late>>

\* updateByUserId finds the user's grid and updates it, or does nothing.  The
\* update is dropped for good when an occupy has already fetched an older site;
\* a last update that stands alone repairs what came before.
ApplyUpdate(j) ==
  /\ j \in updates
  /\ updates' = updates \ {j}
  /\ LET t == j.type  u == j.user IN
     IF occupying[u] = "owned"
       THEN /\ grid' = [grid EXCEPT ![t][u] = j.version]
            /\ disturbed' = IF UpdatesOf(t, u) = {j} /\ j.version >= delivered[t][u]
                              THEN disturbed \ {<<t, u>>} ELSE disturbed
       ELSE /\ disturbed' = IF occupying[u] = "fetched"
                              THEN disturbed \cup {<<t, u>>} ELSE disturbed
            /\ UNCHANGED grid
  /\ UNCHANGED <<clock, upstream, tasks, run, occupying, site, delivered, late>>

\* Its transaction fails, and nobody learns of it: the promise is not awaited.
\* (Where the runtime ends the process for that, it is a Crash.)
UpdateFails(j) ==
  /\ j \in updates
  /\ updates' = updates \ {j}
  /\ disturbed' = disturbed \cup {<<j.type, j.user>>}
  /\ UNCHANGED <<clock, upstream, tasks, run, occupying, site, grid, delivered, late>>

\* occupy: fetchUserDefaultSiteInfo,
FetchSite(u) ==
  /\ occupying[u] = "none"
  /\ occupying' = [occupying EXCEPT ![u] = "fetched"]
  /\ site' = [site EXCEPT ![u] = upstream["SITE_INFO"][u]]
  /\ UNCHANGED <<clock, upstream, tasks, run, updates, grid, delivered, disturbed, late>>

\* The site is left to the synchronisation.
MutInsertWithoutSite(u) ==
  /\ occupying[u] = "fetched"
  /\ occupying' = [occupying EXCEPT ![u] = "owned"]
  /\ site' = [site EXCEPT ![u] = 0]
  /\ UNCHANGED <<clock, upstream, tasks, run, updates, grid, delivered, disturbed, late>>

\* then the insert: the site fetched, and of the profile only the username.
InsertGrid(u) ==
  /\ occupying[u] = "fetched"
  /\ occupying' = [occupying EXCEPT ![u] = "owned"]
  /\ grid' = [grid EXCEPT !["SITE_INFO"][u] = site[u]]
  /\ site' = [site EXCEPT ![u] = 0]
  /\ UNCHANGED <<clock, upstream, tasks, run, updates, delivered, disturbed, late>>

OccupyFails(u) ==
  /\ occupying[u] = "fetched"
  /\ occupying' = [occupying EXCEPT ![u] = "none"]
  /\ site' = [site EXCEPT ![u] = 0]
  /\ UNCHANGED <<clock, upstream, tasks, run, updates, grid, delivered, disturbed, late>>

\* The process dies, with its runs, its updates and the events it would receive.
Crash ==
  /\ run' = [r \in Runs |-> NoRun]
  /\ updates' = {}
  /\ disturbed' = disturbed \cup {<<j.type, j.user>> : j \in updates}
  /\ occupying' = [u \in Users |-> IF occupying[u] = "fetched" THEN "none" ELSE occupying[u]]
  /\ site' = [u \in Users |-> 0]
  /\ UNCHANGED <<clock, upstream, tasks, grid, delivered, late>>

Next ==
  \/ \E t \in Types, u \in Users : Modify(t, u)
  \/ \E r \in Runs :
       \/ \E t \in Types : FindLastSuccess(r, t)
       \/ StampDoing(r) \/ SaveDoing(r) \/ RunThrows(r)
       \/ FetchModified(r) \/ FetchFails(r) \/ SaveResult(r)
  \/ \E j \in updates : ApplyUpdate(j) \/ UpdateFails(j)
  \/ \E u \in Users : FetchSite(u) \/ InsertGrid(u) \/ OccupyFails(u)
  \/ Crash

Spec == Init /\ [][Next]_vars
-----------------------------------------------------------------------------
\* What was modified of type t until time c, and not late, has been fetched by some run.
Covered(t, c) ==
  \A u \in Users :
    upstream[t][u] <= c /\ <<t, u>> \notin late => delivered[t][u] = upstream[t][u]

\* The chain of modifiedAfter has no gap: whatever was modified before a
\* successful task was created has been fetched by it or by an earlier one, although
\* runs overlap, fail and are cut short, and although the next run asks for the
\* time the last one was created, not for the time it was answered, and rows may
\* not be created in the order of their ids.  Clocks may differ: only a modification
\* that was stamped with the time of a task there already was, or an earlier one, can
\* be missed.
NoGap ==
  \A i \in DOMAIN tasks :
    tasks[i].state = "SUCCESS" => Covered(tasks[i].type, tasks[i].createdAt)

Current(t) ==
  \A u \in Users :
    occupying[u] = "owned" /\ UpdatesOf(t, u) = {} /\ <<t, u>> \notin disturbed
      => grid[t][u] >= delivered[t][u]

\* A grid's site is not older than the last one a run fetched, if no update of
\* its user failed, was overtaken by another or came between the fetch and the
\* insert of occupy: no site is missed because the grid was occupied late.
UndisturbedSitesAreCurrent == Current("SITE_INFO")

\* The same of profiles, which hex_grid keeps to search by nickname
\* (hex-grid.entity.ts:68) and a successful task has fetched.
UndisturbedProfilesAreCurrent == Current("USER_PROFILE")

\* A profile that has reached its grid once is not older afterwards than the last
\* one a run fetched, under the same conditions: a grid misses a profile only from
\* its insert to the first update that finds it.
ReachedProfilesFollow ==
  \A u \in Users :
    /\ occupying[u] = "owned" /\ grid["USER_PROFILE"][u] # 0
    /\ UpdatesOf("USER_PROFILE", u) = {} /\ <<"USER_PROFILE", u>> \notin disturbed
    => grid["USER_PROFILE"][u] >= delivered["USER_PROFILE"][u]
=============================================================================
