--------------------------- MODULE ConfigBizCache ---------------------------
(* The cache in front of config.biz.*.yaml.  A change of the file makes the
   watcher refresh each key: delete it, then load it as any getter does, from the
   cache or else from the file as it was when the call began.  An operation on the
   store is issued at once and awaited; the store runs operations in the order
   they are issued.

   The module wires the store with options from a YAML file, which can only name
   cache-manager's memory store.  That store answers in microtasks: a refresh,
   which the watcher starts in a task of its own, is over before anything else
   runs, and getters interleave with getters only.  Behind the same interface a
   store across a connection would let every call interleave with every other.

   The keys do not affect each other, so one key stands for all of them; its
   value is a version number, 0 where the store or the file has none.

   The file is not replaced in one piece: a reader may find one that is half
   written.  Such a content counts as a version of its own, which has some value,
   no value for the key, nothing at all, or no value that yaml.load could parse. *)
EXTENDS Integers

CONSTANTS
  Calls,         \* calls of reloadValue and loadValue that may be in progress
  InMemory,      \* whether the store is the memory store of the process
  MaxVersion,    \* bound: versions of the file
  MaxFailures    \* bound: operations of the store that fail

ASSUME BoundsAssumption == MaxVersion \in Nat \ {0} /\ MaxFailures \in Nat
ASSUME InMemoryAssumption == InMemory \in BOOLEAN

VARIABLES
  file,       \* version of the file,
  content,    \* and what there is to read in it
  unseen,     \* the file has changed and the watcher has not told
  cached,     \* the store
  call,       \* calls in progress
  disturbed,  \* history: the last refresh did not delete, or began beside a call
              \* that had loaded an older file
  failures    \* failures so far

vars == <<file, content, unseen, cached, call, disturbed, failures>>

Version   == 1 .. MaxVersion
Contents  == {"value", "missing", "empty", "broken"}
Undefined == -1
NoCall    == [phase |-> "idle"]

\* A call: what it is for, its next operation on the store, the file it has loaded.
\* An empty file is undefined, and an argument that is undefined is loaded again.
Call == [kind : {"refresh", "read"}, phase : {"get", "set", "readback"},
         config : {Undefined, 0} \cup Version]

TypeOK ==
  /\ file \in Version
  /\ content \in Contents
  /\ unseen \in BOOLEAN
  /\ cached \in {0} \cup Version
  /\ call \in [Calls -> Call \cup {NoCall}]
  /\ disturbed \in BOOLEAN
  /\ failures \in 0 .. MaxFailures
-----------------------------------------------------------------------------
\* The process starts, with what an earlier one left in a store of its own.
\* onApplicationBootstrap refreshes as the watcher does.
Init ==
  /\ file \in {v \in Version : v <= 2}
  /\ content \in Contents
  /\ cached \in IF InMemory THEN {0} ELSE 0 .. file
  /\ unseen = TRUE
  /\ call = [c \in Calls |-> NoCall]
  /\ disturbed = FALSE
  /\ failures = 0

Open(c) == call[c] # NoCall

(* Definitions with a name in Mut* are plausible mistakes in the operator that
   follows them; nothing uses them but the validation of the properties. *)

\* What loadConfig returns, unless it throws: the value of the key, none, or
\* undefined for the whole of an empty file.
Loaded ==
  CASE content = "value"   -> file
    [] content = "missing" -> 0
    [] OTHER               -> Undefined

\* What is undefined is a value.
MutUndefinedValue(config) == config

\* objectPath.get finds nothing in undefined.
ValueOf(config) == IF config = Undefined THEN 0 ELSE config

ChangeFile ==
  /\ file < MaxVersion
  /\ file' = file + 1
  /\ content' \in Contents
  /\ unseen' = TRUE
  /\ UNCHANGED <<cached, call, disturbed, failures>>

Begin(c, kind, phase) ==
  /\ ~Open(c)
  /\ call' = [call EXCEPT ![c] = [kind |-> kind, phase |-> phase, config |-> Loaded]]

\* Calls in progress that may still store what they loaded from an older file.
Outdated == {c \in Calls : /\ Open(c) /\ call[c].phase # "readback"
                           /\ call[c].config \notin {Undefined, Loaded}}

\* The cached value is kept.
MutKeep(c) ==
  /\ unseen /\ content # "broken"
  /\ InMemory => \A d \in Calls : ~Open(d)
  /\ unseen' = FALSE
  /\ Begin(c, "refresh", "get")
  /\ disturbed' = (Outdated # {})
  /\ UNCHANGED <<file, content, cached, failures>>

\* An empty file refreshes nothing.
MutSkipEmpty(c) ==
  /\ unseen /\ content # "broken"
  /\ InMemory => \A d \in Calls : ~Open(d)
  /\ unseen' = FALSE
  /\ IF Loaded = Undefined
       THEN UNCHANGED <<cached, call>>
       ELSE cached' = 0 /\ Begin(c, "refresh", "get")
  /\ disturbed' = (Outdated # {})
  /\ UNCHANGED <<file, content, failures>>

\* refreshCache, on the watcher's event or at the start, up to its first await:
\* reloadValue has the key deleted.
Refresh(c) ==
  /\ unseen /\ content # "broken"
  /\ InMemory => \A d \in Calls : ~Open(d)
  /\ unseen' = FALSE
  /\ cached' = 0
  /\ Begin(c, "refresh", "get")
  /\ disturbed' = (Outdated # {})
  /\ UNCHANGED <<file, content, failures>>

\* The delete fails and reloadValue logs it.
RefreshFails ==
  /\ unseen /\ content # "broken"
  /\ ~InMemory /\ failures < MaxFailures
  /\ failures' = failures + 1
  /\ unseen' = FALSE
  /\ disturbed' = TRUE
  /\ UNCHANGED <<file, content, cached, call>>

\* loadConfig throws in the listener or at the start, nothing catches it, and the
\* process is restarted: it refreshes again.  A shared store keeps its value.
RefreshThrows ==
  /\ unseen
  /\ content = "broken"
  /\ cached' \in IF InMemory THEN {0} ELSE {0, cached}
  /\ call' = [c \in Calls |-> NoCall]
  /\ disturbed' = FALSE
  /\ UNCHANGED <<file, content, unseen, failures>>

\* A getter: its argument myConfig = loadConfig() reads the file at once, and when
\* that throws the getter is rejected, whatever is cached.  The store is asked in
\* the same tick: a value it has is the answer, and nothing changes.
Read(c) ==
  /\ content # "broken"
  /\ cached = 0
  /\ InMemory => \A d \in Calls : Open(d) => call[d].kind = "read"
  /\ Begin(c, "read", "set")
  /\ UNCHANGED <<file, content, unseen, cached, disturbed, failures>>

\* The argument of the next call of a chain: loaded again where it is undefined.
Reloaded(c) == IF call[c].config = Undefined THEN Loaded ELSE call[c].config

Throws(c) == call[c].config = Undefined /\ content = "broken"

\* The refresh goes on to loadValue, which is content with any cached value.
Get(c) ==
  /\ call[c].phase = "get" /\ ~Throws(c)
  /\ call' = IF cached # 0
               THEN [call EXCEPT ![c] = NoCall]
               ELSE [call EXCEPT ![c].phase = "set", ![c].config = Reloaded(c)]
  /\ UNCHANGED <<file, content, unseen, cached, disturbed, failures>>

\* setCacheValue stores the value of the file that the call has loaded,
Set(c) ==
  /\ call[c].phase = "set" /\ ~Throws(c)
  /\ cached' = ValueOf(Reloaded(c))
  /\ call' = [call EXCEPT ![c].phase = "readback"]
  /\ UNCHANGED <<file, content, unseen, disturbed, failures>>

\* which a store may refuse when it is undefined,
SetRefused(c) ==
  /\ call[c].phase = "set" /\ ~Throws(c)
  /\ ValueOf(Reloaded(c)) = 0
  /\ call' = [call EXCEPT ![c] = NoCall]
  /\ UNCHANGED <<file, content, unseen, cached, disturbed, failures>>

\* and answers with what the store then holds.
ReadBack(c) ==
  /\ call[c].phase = "readback"
  /\ call' = [call EXCEPT ![c] = NoCall]
  /\ UNCHANGED <<file, content, unseen, cached, disturbed, failures>>

\* The file cannot be parsed when it is loaded again, or an operation of the store
\* fails: reloadValue logs it, a getter throws.
CallFails(c) ==
  /\ \/ call[c].phase \in {"get", "set"} /\ Throws(c) /\ UNCHANGED failures
     \/ Open(c) /\ ~InMemory /\ failures < MaxFailures /\ failures' = failures + 1
  /\ call' = [call EXCEPT ![c] = NoCall]
  /\ UNCHANGED <<file, content, unseen, cached, disturbed>>

\* The store drops the value after its time to live.
Expire ==
  /\ cached # 0
  /\ cached' = 0
  /\ UNCHANGED <<file, content, unseen, call, disturbed, failures>>

Next ==
  \/ ChangeFile
  \/ \E c \in Calls :
       \/ Refresh(c) \/ Read(c)
       \/ Get(c) \/ Set(c) \/ SetRefused(c) \/ ReadBack(c) \/ CallFails(c)
  \/ RefreshFails
  \/ RefreshThrows
  \/ Expire

Spec == Init /\ [][Next]_vars
-----------------------------------------------------------------------------
\* Whatever the store: after a refresh that deleted the key and began beside no call
\* that had loaded an older file, the cache has the file's value or none, whatever
\* getters run beside it: nothing is left of what was read while the file was being
\* written.
UndisturbedCacheIsCurrent == ~unseen /\ ~disturbed => cached \in {0, ValueOf(Loaded)}

\* With the store that is wired: a getter finds the value of the file, or none, as
\* soon as the watcher has told (config-biz.service.spec.ts:46, 'should match the
\* (valid) value specified in the configuration file'), although getters that
\* began together store what each has loaded, an empty file is loaded again at every
\* call of the chain and the file may change between them.
CacheIsCurrent == ~unseen => cached \in {0, ValueOf(Loaded)}
=============================================================================
