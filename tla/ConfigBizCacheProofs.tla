------------------------ MODULE ConfigBizCacheProofs ------------------------
(* The cache is current after an undisturbed refresh, for any store and any
   number of calls, versions of the file and failures; and no refresh of the
   memory store is ever disturbed. *)
EXTENDS ConfigBizCache, TLAPS

\* Once the last change has been told and its refresh was not disturbed, every call
\* in progress will store what there is in the present file.
RefreshInv ==
  ~unseen /\ ~disturbed =>
    /\ content # "broken"
    /\ Outdated = {}
    /\ cached \in {0, ValueOf(Loaded)}

IInv == TypeOK /\ RefreshInv

\* What a call loads is a version of the file or nothing.
LEMMA LoadedType == TypeOK => Loaded \in {Undefined, 0} \cup Version
BY DEF TypeOK, Loaded, Contents

\* The value of a loaded file can be cached.
LEMMA ValueType ==
  ASSUME NEW config \in {Undefined, 0} \cup Version
  PROVE  ValueOf(config) \in {0} \cup Version
BY DEF ValueOf

\* A step of one call that changes neither the file nor what is known of it: the
\* call ends or goes on with what it has loaded, and stores that or nothing.
LEMMA CallStep ==
  ASSUME IInv, NEW c \in Calls, Open(c), ~Throws(c) \/ cached' = cached,
         NEW k \in Call \cup {NoCall},
         call' = [call EXCEPT ![c] = k],
         UNCHANGED <<file, content, unseen, disturbed>>,
         failures' \in 0 .. MaxFailures,
         \/ k = NoCall
         \/ k.phase = "readback"
         \/ call[c].phase = "get" /\ k.config = Reloaded(c),
         \/ cached' = cached
         \/ call[c].phase = "set" /\ cached' = ValueOf(Reloaded(c))
  PROVE  IInv'
<1>1. call[c] \in Call /\ Reloaded(c) \in {Undefined, 0} \cup Version
  BY LoadedType DEF IInv, TypeOK, Open, Call, Reloaded
<1>2. \A d \in Calls : call'[d] = IF d = c THEN k ELSE call[d]
  BY DEF IInv, TypeOK
<1>3. TypeOK'
  <2>1. call' \in [Calls -> Call \cup {NoCall}]
    BY DEF IInv, TypeOK
  <2>2. cached' \in {0} \cup Version
    BY <1>1, ValueType DEF IInv, TypeOK
  <2>. QED BY <2>1, <2>2 DEF IInv, TypeOK
<1>4. RefreshInv'
  <2> SUFFICES ASSUME ~unseen, ~disturbed
               PROVE  content # "broken" /\ Outdated' = {} /\ cached' \in {0, ValueOf(Loaded)}
    BY DEF RefreshInv, Loaded
  <2>1. content # "broken" /\ Outdated = {} /\ cached \in {0, ValueOf(Loaded)}
    BY DEF IInv, RefreshInv
  <2>2. call[c].phase \in {"get", "set"} => Reloaded(c) = Loaded
    BY <2>1 DEF Outdated, Reloaded
  <2>3. Loaded' = Loaded
    BY DEF Loaded
  <2>4. ASSUME NEW d \in Outdated' PROVE FALSE
    <3>1. CASE d = c
      BY <1>2, <2>2, <2>3, <2>4, <3>1 DEF Outdated, Open
    <3>2. CASE d # c
      BY <1>2, <2>1, <2>3, <2>4, <3>2 DEF Outdated, Open
    <3>. QED BY <3>1, <3>2
  <2>5. cached' \in {0, ValueOf(Loaded)}
    BY <2>1, <2>2
  <2>. QED BY <2>1, <2>4, <2>5
<1>. QED BY <1>3, <1>4 DEF IInv

\* A call that begins loads the file at once.
LEMMA BeginStep ==
  ASSUME IInv, NEW c \in Calls, Refresh(c) \/ Read(c)
  PROVE  IInv'
<1>1. PICK k \in Call :
        call' = [call EXCEPT ![c] = k] /\ k.config = Loaded
  <2>1. Loaded \in {Undefined, 0} \cup Version
    BY LoadedType DEF IInv
  <2>2. CASE Refresh(c)
    <3> DEFINE k == [kind |-> "refresh", phase |-> "get", config |-> Loaded]
    <3>1. k \in Call /\ k.config = Loaded
      BY <2>1 DEF Call
    <3>. QED BY <2>2, <3>1 DEF Refresh, Begin
  <2>3. CASE Read(c)
    <3> DEFINE k == [kind |-> "read", phase |-> "set", config |-> Loaded]
    <3>1. k \in Call /\ k.config = Loaded
      BY <2>1 DEF Call
    <3>. QED BY <2>3, <3>1 DEF Read, Begin
  <2>. QED BY <2>2, <2>3
<1>2. /\ content # "broken" /\ cached' = 0 /\ UNCHANGED <<file, content, failures>>
      /\ \/ unseen' = FALSE /\ disturbed' = FALSE /\ Outdated = {}
         \/ unseen' = FALSE /\ disturbed' = TRUE
         \/ unseen' = unseen /\ disturbed' = disturbed
  BY DEF Refresh, Read
<1>3. \A d \in Calls : call'[d] = IF d = c THEN k ELSE call[d]
  BY <1>1 DEF IInv, TypeOK
<1>4. TypeOK'
  <2>1. call' \in [Calls -> Call \cup {NoCall}]
    BY <1>1 DEF IInv, TypeOK
  <2>2. unseen' \in BOOLEAN /\ disturbed' \in BOOLEAN
    BY <1>2 DEF IInv, TypeOK
  <2>. QED BY <1>2, <2>1, <2>2 DEF IInv, TypeOK
<1>5. RefreshInv'
  <2>1. Loaded' = Loaded
    BY <1>2 DEF Loaded
  <2>2. Outdated' \subseteq Outdated
    BY <1>1, <1>3, <2>1 DEF Outdated, Open
  <2>3. CASE unseen' = unseen /\ disturbed' = disturbed
    BY <1>2, <2>2, <2>3 DEF IInv, RefreshInv
  <2>4. CASE Outdated = {}
    BY <1>2, <2>2, <2>4 DEF RefreshInv
  <2>. QED BY <1>2, <2>3, <2>4 DEF RefreshInv
<1>. QED BY <1>4, <1>5 DEF IInv

\* The inductive invariant holds of every behaviour.
LEMMA Invariance == Spec => []IInv
<1>1. ASSUME Init PROVE IInv
  <2>1. file \in Version /\ cached \in {0} \cup Version
    BY <1>1, BoundsAssumption, InMemoryAssumption DEF Init, Version
  <2>2. failures \in 0 .. MaxFailures /\ call \in [Calls -> Call \cup {NoCall}]
    BY <1>1, BoundsAssumption DEF Init
  <2>. QED BY <1>1, <2>1, <2>2 DEF Init, IInv, TypeOK, RefreshInv
<1>2. ASSUME IInv, [Next]_vars PROVE IInv'
  <2>1. CASE ChangeFile
    BY <1>2, <2>1, BoundsAssumption DEF ChangeFile, IInv, TypeOK, RefreshInv, Version
  <2>2. ASSUME NEW c \in Calls, Refresh(c) \/ Read(c) PROVE IInv'
    BY <1>2, <2>2, BeginStep
  <2>3. ASSUME NEW c \in Calls, Get(c) PROVE IInv'
    <3> DEFINE k == IF cached # 0
                      THEN NoCall
                      ELSE [call[c] EXCEPT !.phase = "set", !.config = Reloaded(c)]
    <3>1. Open(c) /\ call[c] \in Call /\ call[c].phase = "get"
      BY <1>2, <2>3 DEF Get, Open, NoCall, IInv, TypeOK
    <3>2. Reloaded(c) \in {Undefined, 0} \cup Version
      BY <1>2, <3>1, LoadedType DEF IInv, Reloaded, Call
    <3>3. k \in Call \cup {NoCall} /\ (k = NoCall \/ k.config = Reloaded(c))
      BY <3>1, <3>2 DEF Call
    <3>4. call' = [call EXCEPT ![c] = k]
      BY <1>2, <2>3 DEF Get, IInv, TypeOK
    <3>5. failures' \in 0 .. MaxFailures
      BY <1>2, <2>3 DEF Get, IInv, TypeOK
    <3> HIDE DEF k
    <3>. QED BY <1>2, <2>3, <3>1, <3>3, <3>4, <3>5, CallStep DEF Get
  <2>4. ASSUME NEW c \in Calls, Set(c) PROVE IInv'
    <3> DEFINE k == [call[c] EXCEPT !.phase = "readback"]
    <3>1. Open(c) /\ call[c] \in Call
      BY <1>2, <2>4 DEF Set, Open, NoCall, IInv, TypeOK
    <3>2. k \in Call /\ k.phase = "readback"
      BY <3>1 DEF Call
    <3>3. call' = [call EXCEPT ![c] = k] /\ failures' \in 0 .. MaxFailures
      BY <1>2, <2>4 DEF Set, IInv, TypeOK
    <3> HIDE DEF k
    <3>. QED BY <1>2, <2>4, <3>1, <3>2, <3>3, CallStep DEF Set
  <2>5. ASSUME NEW c \in Calls, SetRefused(c) \/ ReadBack(c) PROVE IInv'
    <3>1. Open(c)
      BY <2>5 DEF SetRefused, ReadBack, Open, NoCall
    <3>2. /\ call' = [call EXCEPT ![c] = NoCall]
          /\ UNCHANGED <<file, content, unseen, cached, disturbed, failures>>
      BY <2>5 DEF SetRefused, ReadBack
    <3>3. failures' \in 0 .. MaxFailures
      BY <1>2, <3>2 DEF IInv, TypeOK
    <3>. QED BY <1>2, <3>1, <3>2, <3>3, CallStep
  <2>6. ASSUME NEW c \in Calls, CallFails(c) PROVE IInv'
    <3>1. Open(c)
      BY <2>6 DEF CallFails, Open, NoCall
    <3>2. /\ call' = [call EXCEPT ![c] = NoCall]
          /\ UNCHANGED <<file, content, unseen, cached, disturbed>>
      BY <2>6 DEF CallFails
    <3>3. failures' \in 0 .. MaxFailures
      BY <1>2, <2>6, BoundsAssumption DEF CallFails, IInv, TypeOK
    <3>. QED BY <1>2, <3>1, <3>2, <3>3, CallStep
  <2>7. CASE RefreshFails
    <3>1. failures' \in 0 .. MaxFailures
      BY <1>2, <2>7, BoundsAssumption DEF RefreshFails, IInv, TypeOK
    <3>2. TypeOK'
      BY <1>2, <2>7, <3>1 DEF RefreshFails, IInv, TypeOK
    <3>3. RefreshInv'
      BY <2>7 DEF RefreshFails, RefreshInv
    <3>. QED BY <3>2, <3>3 DEF IInv
  <2>8. CASE RefreshThrows
    BY <1>2, <2>8, InMemoryAssumption DEF RefreshThrows, IInv, TypeOK, RefreshInv
  <2>9. CASE Expire
    BY <1>2, <2>9 DEF Expire, IInv, TypeOK, RefreshInv, Outdated, Open, Loaded
  <2>10. CASE UNCHANGED vars
    BY <1>2, <2>10 DEF vars, IInv, TypeOK, RefreshInv, Outdated, Open, Loaded
  <2>. QED BY <1>2, <2>1, <2>2, <2>3, <2>4, <2>5, <2>6, <2>7, <2>8, <2>9, <2>10 DEF Next
<1>. QED BY <1>1, <1>2, PTL DEF Spec

\* The variables of the cache keep their types.
THEOREM TypeCorrectness == Spec => []TypeOK
<1>1. IInv => TypeOK
  BY DEF IInv
<1>. QED BY <1>1, Invariance, PTL

\* Whatever the store, a refresh that deleted the key and began beside no call that
\* had loaded an older file leaves the file's value in the cache or none.
THEOREM UndisturbedRefreshTakesEffect == Spec => []UndisturbedCacheIsCurrent
<1>1. IInv => UndisturbedCacheIsCurrent
  BY DEF IInv, RefreshInv, UndisturbedCacheIsCurrent
<1>. QED BY <1>1, Invariance, PTL

\* The memory store, which config-biz.module.ts wires, does not fail, and a refresh
\* of it begins beside no other call: the cache is current whatever is written to the
\* file, however many getters run and however often the listener throws.
THEOREM MemoryCacheKeepsCurrent == ASSUME InMemory PROVE Spec => []CacheIsCurrent
<1>1. Init => ~disturbed
  BY DEF Init
<1>2. ASSUME ~disturbed, [Next]_vars PROVE ~disturbed'
  <2>1. ASSUME NEW c \in Calls, Refresh(c) PROVE ~disturbed'
    BY <2>1 DEF Refresh, Outdated
  <2>2. CASE RefreshThrows
    BY <2>2 DEF RefreshThrows
  <2>3. ~RefreshFails
    BY DEF RefreshFails
  <2>. QED BY <1>2, <2>1, <2>2, <2>3
       DEF Next, ChangeFile, Read, Get, Set, SetRefused, ReadBack, CallFails, Expire, vars
<1>3. IInv /\ ~disturbed => CacheIsCurrent
  BY DEF IInv, RefreshInv, CacheIsCurrent
<1>. QED BY <1>1, <1>2, <1>3, Invariance, PTL DEF Spec
=============================================================================
