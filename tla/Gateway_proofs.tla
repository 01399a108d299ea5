--------------------------- MODULE Gateway_proofs ---------------------------
(***************************************************************************)
(* Proofs about Gateway, for any number of requests, models, instances,     *)
(* threads and any limit of loaded models.                                  *)
(***************************************************************************)
EXTENDS Gateway, FiniteSetTheorems, TLAPS

InGpu == {"switching", "scoring", "restoring"}

\* A lock names exactly the handler that is inside.
LocksInv ==
  \A r \in Requests : (pc[r] = "loading" <=> loadLock = r) /\ (pc[r] \in InGpu <=> gpu = r)

\* What a handler holds is what its request named; an instance in use is not built anew.
HeldInv ==
  \A r \in Requests :
    /\ IsGate(r) \/ req[r].model # RulesOnly
    /\ held[r] # NoInstance => model[held[r]] = Target(r)
    /\ held[r] # NoInstance \/ pc[r] \in {"resolving", "loading"} =>
         Target(r) \in Available /\ req[r].model # RulesOnly
    /\ pc[r] \in {"queued", "scoring", "restoring"} => held[r] # NoInstance
    /\ pc[r] \in {"waiting", "switching"} /\ ~IsGate(r) => held[r] # NoInstance
    /\ pc[r] \in {"new", "resolving", "loading"} => held[r] = NoInstance
    /\ pc[r] = "switching" \/ pc[r] = "restoring" => IsGate(r)

LoadedInv ==
  /\ Len(loaded) <= MaxLoaded /\ (loadLock # Nobody => Len(loaded) < MaxLoaded)
  /\ \A j, k \in 1 .. Len(loaded) : model[loaded[j]] = model[loaded[k]] => j = k
  /\ \A r \in Requests : pc[r] = "loading" =>
       \A k \in 1 .. Len(loaded) : model[loaded[k]] # Target(r)

\* The one gate in the GPU section knows the cache was on and has switched it off.
CacheInv ==
  /\ \A i \in Instances : ~cache[i] =>
       \E r \in Requests : IsGate(r) /\ held[r] = i /\ pc[r] \in {"scoring", "restoring"}
  /\ \A r \in Requests : IsGate(r) /\ pc[r] \in {"scoring", "restoring"} =>
       (cache[held[r]] <=> model[held[r]] \notin Switchable)
       /\ (model[held[r]] \in Switchable => saved[r] = TRUE)

-----------------------------------------------------------------------------
(* Types *)

LEMMA MovedToEndType ==
  ASSUME TypeOK, NEW k \in 1 .. Len(loaded)
  PROVE  MovedToEnd(k) \in Seq(Instances) /\ Len(MovedToEnd(k)) = Len(loaded)
<1>1. Len(loaded) \in Nat /\ \A j \in 1 .. Len(loaded) : loaded[j] \in Instances
  BY DEF TypeOK
<1>2. \A j \in 1 .. Len(loaded) : MovedToEnd(k)[j] \in Instances
  BY <1>1 DEF MovedToEnd
<1>3. MovedToEnd(k) \in [1 .. Len(loaded) -> Instances]
  BY <1>2 DEF MovedToEnd
<1> QED
  BY <1>1, <1>3

LEMMA KeptAtMissType ==
  ASSUME TypeOK
  PROVE  /\ KeptAtMiss \in Seq(Instances) /\ Len(KeptAtMiss) < MaxLoaded
         /\ \E d \in Nat : \A k \in 1 .. Len(KeptAtMiss) :
              d + k \in 1 .. Len(loaded) /\ KeptAtMiss[k] = loaded[d + k]
<1> DEFINE d == IF Len(loaded) >= MaxLoaded THEN Len(loaded) - MaxLoaded + 1 ELSE 0
<1>1. d \in Nat /\ d <= Len(loaded) /\ Len(loaded) - d < MaxLoaded /\ Len(loaded) \in Nat
  BY LimitsAssumption DEF TypeOK
<1> HIDE DEF d
<1>2. KeptAtMiss = SubSeq(loaded, 1 + d, Len(loaded))
  BY DEF KeptAtMiss, d
<1>3. KeptAtMiss \in Seq(Instances) /\ Len(KeptAtMiss) = Len(loaded) - d
  BY <1>1, <1>2 DEF TypeOK
<1>4. \A k \in 1 .. Len(KeptAtMiss) : d + k \in 1 .. Len(loaded) /\ KeptAtMiss[k] = loaded[d + k]
  BY <1>1, <1>2, <1>3 DEF TypeOK
<1> QED
  BY <1>1, <1>3, <1>4

LEMMA WorkingGrows ==
  ASSUME TypeOK, NEW r \in Requests, Cardinality(working) < Workers
  PROVE  Cardinality(working \cup {r}) <= Workers
<1>1. IsFiniteSet(working)
  BY FiniteAssumption, FS_Subset DEF TypeOK
<1>2. Cardinality(working) \in Nat
  BY <1>1, FS_CardinalityType
<1> QED
  BY <1>1, <1>2, FS_AddElement, LimitsAssumption

LEMMA WorkingShrinks ==
  ASSUME TypeOK, NEW r \in Requests
  PROVE  Cardinality(working \ {r}) <= Workers
<1>1. IsFiniteSet(working)
  BY FiniteAssumption, FS_Subset DEF TypeOK
<1>2. IsFiniteSet(working \ {r}) /\ Cardinality(working \ {r}) <= Cardinality(working)
  BY <1>1, FS_Subset
<1>3. Cardinality(working) \in Nat /\ Cardinality(working \ {r}) \in Nat
  BY <1>1, <1>2, FS_CardinalityType
<1> QED
  BY <1>2, <1>3, LimitsAssumption DEF TypeOK

LEMMA InitTypes == Init => TypeOK
<1> SUFFICES ASSUME Init PROVE TypeOK
  OBVIOUS
<1>1. Cardinality(working) = 0
  BY FS_EmptySet DEF Init
<1>2. loaded \in Seq(Instances)
  <2>1. << >> \in Seq(Instances) /\ \A i \in Instances : <<i>> \in Seq(Instances)
    OBVIOUS
  <2>2. loaded = << >> \/ \E i \in Instances : loaded = <<i>>
    BY DEF Init
  <2> QED
    BY <2>1, <2>2
<1>3. req \in [Requests -> Request]
  BY DEF Init
<1>4. Cardinality(working) <= Workers
  BY <1>1, LimitsAssumption
<1>5. model \in [Instances -> Models \cup {DefaultModel}] /\ cache \in [Instances -> BOOLEAN]
  BY DEF Init
<1>6. held \in [Requests -> Instances \cup {NoInstance}] /\ saved \in [Requests -> BOOLEAN]
  BY DEF Init
<1> QED
  BY <1>2, <1>3, <1>4, <1>5, <1>6 DEF Init, TypeOK, Where, Answer

LEMMA TypesStep ==
  ASSUME TypeOK, HeldInv, [Next]_vars
  PROVE  TypeOK'
<1>1. CASE UNCHANGED vars
  BY <1>1 DEF vars, TypeOK
<1>2. ASSUME NEW r \in Requests, Handler(r) PROVE TypeOK'
  <2> USE DEF TypeOK, Where, Answer
  <2>1. CASE Refuse(r)
    BY <2>1 DEF Refuse
  <2>2. CASE Decide(r)
    BY <2>2 DEF Decide
  <2>3. CASE Gate(r)
    BY <2>3, WorkingGrows DEF Gate
  <2>4. CASE StartWork(r)
    BY <2>4, WorkingGrows DEF StartWork
  <2>5. CASE Respond(r)
    BY <2>5, WorkingShrinks DEF Respond
  <2>6. CASE Hit(r)
    <3>1. PICK k \in 1 .. Len(loaded) : loaded' = MovedToEnd(k) /\ Got(r, loaded[k])
      BY <2>6 DEF Hit
    <3>2. loaded' \in Seq(Instances) /\ loaded[k] \in Instances
      BY <3>1, MovedToEndType
    <3> QED
      BY <2>6, <3>1, <3>2 DEF Hit, Got
  <2>7. CASE Miss(r)
    BY <2>7, KeptAtMissType DEF Miss
  <2>8. CASE Load(r)
    <3> DEFINE i == CHOOSE j \in Instances : j \notin InMemory
    <3>1. i \in Instances
      BY <2>8 DEF Load
    <3>2. Target(r) \in Models
      BY <2>8, ModelsAssumption DEF Load, HeldInv
    <3> HIDE DEF i
    <3> QED
      BY <2>8, <3>1, <3>2 DEF Load, Got, i
  <2>9. CASE LoadFails(r)
    BY <2>9 DEF LoadFails
  <2>10. CASE TakeGpu(r) \/ ApplyRules(r)
    BY <2>10 DEF TakeGpu, ApplyRules
  <2>11. CASE SwitchCacheOff(r)
    BY <2>11 DEF SwitchCacheOff
  <2>12. CASE Score(r)
    <3>1. model[held[r]] \in Models
      BY <2>12, ModelsAssumption DEF Score, HeldInv
    <3> QED
      BY <2>12, <3>1 DEF Score
  <2>13. CASE RestoreCache(r)
    BY <2>13 DEF RestoreCache
  <2> QED
    BY <1>2, <2>1, <2>2, <2>3, <2>4, <2>5, <2>6, <2>7, <2>8, <2>9, <2>10, <2>11, <2>12, <2>13
    DEF Handler
<1> QED
  BY <1>1, <1>2 DEF Next

-----------------------------------------------------------------------------
(* Locks and references *)

LEMMA InitHeld == Init => LocksInv /\ HeldInv
<1> SUFFICES ASSUME Init PROVE LocksInv /\ HeldInv
  OBVIOUS
<1>1. \A r \in Requests : pc[r] = "new" /\ held[r] = NoInstance
  BY DEF Init
<1>2. \A r \in Requests : loadLock # r /\ gpu # r
  BY NamesAssumption DEF Init
<1>3. \A r \in Requests : IsGate(r) \/ req[r].model # RulesOnly
  <2> TAKE r \in Requests
  <2>1. req[r] \in {q \in Request : q.kind = "decide" => q.model # RulesOnly}
    BY DEF Init
  <2> QED
    BY <2>1 DEF IsGate, Request, Kind
<1> QED
  BY <1>1, <1>2, <1>3 DEF LocksInv, HeldInv, InGpu

LEMMA LocksStep ==
  ASSUME TypeOK, LocksInv, HeldInv, [Next]_vars
  PROVE  LocksInv'
<1> USE NamesAssumption DEF TypeOK, LocksInv, InGpu
<1>1. CASE UNCHANGED vars
  BY <1>1 DEF vars
<1>2. ASSUME NEW r \in Requests, Handler(r) PROVE LocksInv'
  <2>1. CASE Refuse(r) \/ Decide(r) \/ Gate(r)
    BY <2>1 DEF Refuse, Decide, Gate
  <2>2. CASE StartWork(r) \/ Respond(r)
    BY <2>2 DEF StartWork, Respond
  <2>3. CASE Hit(r)
    BY <2>3 DEF Hit, Got
  <2>4. CASE Miss(r)
    BY <2>4 DEF Miss
  <2>5. CASE Load(r) \/ LoadFails(r)
    BY <2>5 DEF Load, LoadFails, Got
  <2>6. CASE TakeGpu(r) \/ ApplyRules(r)
    BY <2>6 DEF TakeGpu, ApplyRules
  <2>7. CASE SwitchCacheOff(r)
    BY <2>7 DEF SwitchCacheOff
  <2>8. CASE Score(r)
    BY <2>8 DEF Score
  <2>9. CASE RestoreCache(r)
    BY <2>9 DEF RestoreCache
  <2> QED
    BY <1>2, <2>1, <2>2, <2>3, <2>4, <2>5, <2>6, <2>7, <2>8, <2>9 DEF Handler
<1> QED
  BY <1>1, <1>2 DEF Next

\* The instance a load takes is one no handler refers to.
LEMMA FreshInstance ==
  ASSUME TypeOK, NEW r \in Requests, Load(r)
  PROVE  \E i \in Instances : 
           /\ \A q \in Requests : held[q] # i
           /\ \A k \in 1 .. Len(loaded) : loaded[k] # i
           /\ loaded' = Append(loaded, i) /\ Got(r, i)
           /\ model' = [model EXCEPT ![i] = Target(r)] /\ cache' = [cache EXCEPT ![i] = TRUE]
<1> DEFINE i == CHOOSE j \in Instances : j \notin InMemory
<1>1. i \in Instances /\ i \notin InMemory
  BY DEF Load
<1>2. /\ loaded' = Append(loaded, i) /\ Got(r, i)
      /\ model' = [model EXCEPT ![i] = Target(r)] /\ cache' = [cache EXCEPT ![i] = TRUE]
  BY DEF Load
<1> HIDE DEF i
<1>3. \A q \in Requests : held[q] # i
  BY <1>1, NamesAssumption DEF InMemory
<1>4. \A k \in 1 .. Len(loaded) : loaded[k] # i
  BY <1>1 DEF InMemory, InLoaded
<1> QED
  BY <1>1, <1>2, <1>3, <1>4

LEMMA HeldStep ==
  ASSUME TypeOK, HeldInv, [Next]_vars
  PROVE  HeldInv'
<1> USE NamesAssumption DEF TypeOK, HeldInv, IsGate, Target
<1>1. CASE UNCHANGED vars
  BY <1>1 DEF vars
<1>2. ASSUME NEW r \in Requests, Handler(r) PROVE HeldInv'
  <2>1. CASE Refuse(r)
    BY <2>1 DEF Refuse
  <2>2. CASE Decide(r)
    BY <2>2 DEF Decide
  <2>3. CASE Gate(r)
    BY <2>3 DEF Gate
  <2>4. CASE StartWork(r) \/ Respond(r)
    BY <2>4 DEF StartWork, Respond
  <2>5. CASE Hit(r)
    <3>1. PICK k \in 1 .. Len(loaded) : model[loaded[k]] = Target(r) /\ Got(r, loaded[k])
      BY <2>5 DEF Hit
    <3>2. loaded[k] \in Instances
      OBVIOUS
    <3> QED
      BY <2>5, <3>1, <3>2 DEF Hit, Got
  <2>6. CASE Miss(r)
    BY <2>6 DEF Miss
  <2>7. CASE Load(r)
    <3>1. PICK i \in Instances : /\ \A q \in Requests : held[q] # i
                                 /\ Got(r, i) /\ model' = [model EXCEPT ![i] = Target(r)]
      BY <2>7, FreshInstance
    <3>2. req' = req /\ pc[r] = "loading"
      BY <2>7 DEF Load
    <3>3. model'[i] = Target(r) /\ \A q \in Requests : held[q] # NoInstance => model'[held[q]] = model[held[q]]
      BY <3>1
    <3>4. /\ held'[r] = i /\ pc'[r] = IF IsGate(r) THEN "waiting" ELSE "queued"
          /\ \A q \in Requests \ {r} : held'[q] = held[q] /\ pc'[q] = pc[q]
      BY <3>1 DEF Got
    <3>5. HeldInv!(r)'
      BY <3>2, <3>3, <3>4
    <3>6. \A q \in Requests \ {r} : HeldInv!(q)'
      BY <3>2, <3>3, <3>4
    <3> QED
      BY <3>5, <3>6
  <2>8. CASE LoadFails(r)
    BY <2>8 DEF LoadFails
  <2>9. CASE TakeGpu(r) \/ ApplyRules(r)
    BY <2>9 DEF TakeGpu, ApplyRules
  <2>10. CASE SwitchCacheOff(r)
    BY <2>10 DEF SwitchCacheOff
  <2>11. CASE Score(r)
    BY <2>11 DEF Score
  <2>12. CASE RestoreCache(r)
    BY <2>12 DEF RestoreCache
  <2> QED
    BY <1>2, <2>1, <2>2, <2>3, <2>4, <2>5, <2>6, <2>7, <2>8, <2>9, <2>10, <2>11, <2>12 DEF Handler
<1> QED
  BY <1>1, <1>2 DEF Next

-----------------------------------------------------------------------------
(* The cache of loaded models *)

LEMMA LoadedStep ==
  ASSUME TypeOK, LocksInv, LoadedInv, [Next]_vars
  PROVE  LoadedInv'
<1> USE NamesAssumption DEF LoadedInv, TypeOK
<1>1. CASE UNCHANGED vars
  BY <1>1 DEF vars, Target
<1>2. ASSUME NEW r \in Requests, Handler(r) PROVE LoadedInv'
  <2>1. CASE Refuse(r) \/ Decide(r) \/ Gate(r)
    BY <2>1 DEF Refuse, Decide, Gate, Target
  <2>2. CASE StartWork(r) \/ Respond(r)
    BY <2>2 DEF StartWork, Respond, Target
  <2>3. CASE Hit(r)
    <3>1. PICK k \in 1 .. Len(loaded) : loaded' = MovedToEnd(k) /\ Got(r, loaded[k])
      BY <2>3 DEF Hit
    <3>2. Len(loaded) \in Nat /\ loaded' \in Seq(Instances) /\ Len(loaded') = Len(loaded)
      BY <3>1, MovedToEndType
    <3>3. \A j \in 1 .. Len(loaded) :
            loaded'[j] = IF j < k THEN loaded[j] ELSE IF j < Len(loaded) THEN loaded[j + 1] ELSE loaded[k]
      BY <3>1 DEF MovedToEnd
    <3>4. \A j, l \in 1 .. Len(loaded) : model[loaded'[j]] = model[loaded'[l]] => j = l
      <4> DEFINE at(j) == IF j < k THEN j ELSE IF j < Len(loaded) THEN j + 1 ELSE k
      <4>1. \A j \in 1 .. Len(loaded) : at(j) \in 1 .. Len(loaded) /\ loaded'[j] = loaded[at(j)]
        BY <3>2, <3>3
      <4>2. \A j, l \in 1 .. Len(loaded) : at(j) = at(l) => j = l
        BY <3>2
      <4> HIDE DEF at
      <4>3. \A m, n \in 1 .. Len(loaded) : model[loaded[m]] = model[loaded[n]] => m = n
        BY DEF LoadedInv
      <4> SUFFICES ASSUME NEW j \in 1 .. Len(loaded), NEW l \in 1 .. Len(loaded),
                          model[loaded'[j]] = model[loaded'[l]]
                   PROVE  j = l
        OBVIOUS
      <4>4. model[loaded[at(j)]] = model[loaded[at(l)]]
        BY <4>1
      <4>5. at(j) = at(l)
        BY <4>1, <4>3, <4>4
      <4> QED
        BY <4>2, <4>5
    <3>5. loadLock = Nobody /\ loadLock' = Nobody /\ model' = model
      BY <2>3 DEF Hit
    <3>6. \A q \in Requests : pc'[q] # "loading"
      BY <2>3, <3>1, <3>5 DEF Hit, Got, LocksInv
    <3> QED
      BY <3>2, <3>4, <3>5, <3>6
  <2>4. CASE Miss(r)
    <3>1. loaded' = KeptAtMiss /\ model' = model /\ req' = req /\ loadLock = Nobody
      BY <2>4 DEF Miss
    <3>2. PICK d \in Nat : \A k \in 1 .. Len(KeptAtMiss) :
            d + k \in 1 .. Len(loaded) /\ KeptAtMiss[k] = loaded[d + k]
      BY KeptAtMissType
    <3>3. Len(loaded') \in Nat /\ Len(loaded') < MaxLoaded
      BY <3>1, KeptAtMissType
    <3>4. \A j, k \in 1 .. Len(loaded') : model[loaded'[j]] = model[loaded'[k]] => j = k
      <4>1. SUFFICES ASSUME NEW j \in 1 .. Len(loaded'), NEW k \in 1 .. Len(loaded'),
                            model[loaded'[j]] = model[loaded'[k]]
                     PROVE  j = k
        OBVIOUS
      <4>2. d + j \in 1 .. Len(loaded) /\ d + k \in 1 .. Len(loaded)
        BY <3>1, <3>2
      <4>3. model[loaded[d + j]] = model[loaded[d + k]]
        BY <3>1, <3>2, <4>1
      <4>4. d + j = d + k
        BY <4>2, <4>3 DEF LoadedInv
      <4> QED
        BY <3>3, <4>4
    <3>5. \A q \in Requests : pc'[q] = "loading" => q = r
      BY <2>4 DEF Miss, LocksInv
    <3>6. \A k \in 1 .. Len(loaded') : model[loaded'[k]] # Target(r)
      BY <2>4, <3>1, <3>2 DEF Miss, InLoaded
    <3> QED
      BY <3>1, <3>3, <3>4, <3>5, <3>6, LimitsAssumption DEF Target
  <2>5. CASE Load(r)
    <3>1. PICK i \in Instances :
            /\ \A k \in 1 .. Len(loaded) : loaded[k] # i
            /\ loaded' = Append(loaded, i) /\ Got(r, i)
            /\ model' = [model EXCEPT ![i] = Target(r)]
      BY <2>5, FreshInstance
    <3>2. /\ pc[r] = "loading" /\ loadLock = r /\ loadLock' = Nobody /\ req' = req
          /\ Len(loaded) \in Nat /\ Len(loaded) < MaxLoaded
      BY <2>5 DEF Load, LocksInv
    <3>3. /\ Len(loaded') = Len(loaded) + 1 /\ loaded'[Len(loaded')] = i
          /\ \A k \in 1 .. Len(loaded) : loaded'[k] = loaded[k] /\ loaded[k] \in Instances
      BY <3>1, <3>2
    <3>4. /\ model'[loaded'[Len(loaded')]] = Target(r)
          /\ \A k \in 1 .. Len(loaded) : model'[loaded'[k]] = model[loaded[k]]
      BY <3>1, <3>3
    <3>5. \A j, k \in 1 .. Len(loaded') : model'[loaded'[j]] = model'[loaded'[k]] => j = k
      BY <3>2, <3>3, <3>4
    <3>6. \A q \in Requests : pc'[q] # "loading"
      BY <3>1, <3>2 DEF Got, LocksInv
    <3> QED
      BY <3>2, <3>3, <3>5, <3>6, LimitsAssumption
  <2>6. CASE LoadFails(r)
    BY <2>6 DEF LoadFails, Target
  <2>7. CASE TakeGpu(r) \/ ApplyRules(r)
    BY <2>7 DEF TakeGpu, ApplyRules, Target
  <2>8. CASE SwitchCacheOff(r)
    BY <2>8 DEF SwitchCacheOff, Target
  <2>9. CASE Score(r)
    BY <2>9 DEF Score, Target
  <2>10. CASE RestoreCache(r)
    BY <2>10 DEF RestoreCache, Target
  <2> QED
    BY <1>2, <2>1, <2>2, <2>3, <2>4, <2>5, <2>6, <2>7, <2>8, <2>9, <2>10 DEF Handler
<1> QED
  BY <1>1, <1>2 DEF Next

-----------------------------------------------------------------------------
(* The cache switch *)

LEMMA CacheStep ==
  ASSUME TypeOK, LocksInv, HeldInv, CacheInv, [Next]_vars
  PROVE  CacheInv'
<1> USE NamesAssumption DEF TypeOK, CacheInv, IsGate
<1>1. CASE UNCHANGED vars
  BY <1>1 DEF vars
<1>2. ASSUME NEW r \in Requests, Handler(r) PROVE CacheInv'
  <2>1. CASE Refuse(r)
    BY <2>1 DEF Refuse
  <2>2. CASE Decide(r) \/ Gate(r)
    BY <2>2 DEF Decide, Gate
  <2>3. CASE StartWork(r) \/ Respond(r)
    BY <2>3 DEF StartWork, Respond
  <2>4. CASE Hit(r)
    <3>1. PICK k \in 1 .. Len(loaded) : Got(r, loaded[k])
      BY <2>4 DEF Hit
    <3> QED
      BY <2>4, <3>1 DEF Hit, Got, HeldInv
  <2>5. CASE Miss(r) \/ LoadFails(r)
    BY <2>5 DEF Miss, LoadFails
  <2>6. CASE Load(r)
    <3>1. PICK i \in Instances :
            /\ \A q \in Requests : held[q] # i
            /\ Got(r, i) /\ model' = [model EXCEPT ![i] = Target(r)] /\ cache' = [cache EXCEPT ![i] = TRUE]
      BY <2>6, FreshInstance
    <3>2. req' = req /\ saved' = saved /\ pc[r] = "loading"
      BY <2>6 DEF Load
    <3>3. /\ pc'[r] \notin {"scoring", "restoring"}
          /\ \A q \in Requests \ {r} : held'[q] = held[q] /\ pc'[q] = pc[q]
      BY <3>1, <3>2 DEF Got
    <3>4. \A j \in Instances \ {i} : cache'[j] = cache[j] /\ model'[j] = model[j]
      BY <3>1
    <3>5. \A q \in Requests \ {r} : pc[q] \in {"scoring", "restoring"} => held[q] \in Instances \ {i}
      BY <3>1 DEF HeldInv
    <3>6. cache'[i]
      BY <3>1
    <3>7. CacheInv!1'
      BY <3>2, <3>3, <3>4, <3>6
    <3>8. CacheInv!2'
      BY <3>2, <3>3, <3>4, <3>5
    <3> QED
      BY <3>7, <3>8
  <2>7. CASE TakeGpu(r) \/ ApplyRules(r)
    BY <2>7 DEF TakeGpu, ApplyRules
  <2>8. CASE SwitchCacheOff(r)
    <3>1. IsGate(r) /\ held[r] \in Instances /\ gpu = r
      BY <2>8 DEF SwitchCacheOff, HeldInv, LocksInv, InGpu
    <3>2. \A q \in Requests : pc[q] \in {"scoring", "restoring"} => q = r
      BY <3>1 DEF LocksInv, InGpu
    <3>3. \A i \in Instances : cache[i]
      BY <2>8, <3>2 DEF SwitchCacheOff
    <3>4. /\ req' = req /\ held' = held /\ model' = model /\ pc' = [pc EXCEPT ![r] = "scoring"]
          /\ model[held[r]] \in Switchable =>
               saved' = [saved EXCEPT ![r] = cache[held[r]]] /\ cache' = [cache EXCEPT ![held[r]] = FALSE]
          /\ model[held[r]] \notin Switchable => cache' = cache
      BY <2>8 DEF SwitchCacheOff
    <3>5. CASE model[held[r]] \in Switchable
      BY <3>1, <3>2, <3>3, <3>4, <3>5
    <3>6. CASE model[held[r]] \notin Switchable
      BY <3>1, <3>2, <3>3, <3>4, <3>6
    <3> QED
      BY <3>5, <3>6
  <2>9. CASE Score(r)
    BY <2>9 DEF Score
  <2>10. CASE RestoreCache(r)
    <3>1. IsGate(r) /\ held[r] \in Instances /\ gpu = r
      BY <2>10 DEF RestoreCache, HeldInv, LocksInv, InGpu
    <3>2. \A q \in Requests : pc[q] \in {"scoring", "restoring"} => q = r
      BY <3>1 DEF LocksInv, InGpu
    <3>3. \A i \in Instances : ~cache[i] => i = held[r]
      BY <3>2
    <3>4. /\ req' = req /\ held' = held /\ model' = model /\ pc' = [pc EXCEPT ![r] = "done"]
          /\ cache' = IF model[held[r]] \in Switchable THEN [cache EXCEPT ![held[r]] = saved[r]] ELSE cache
          /\ pc[r] = "restoring"
      BY <2>10 DEF RestoreCache
    <3>5. cache'[held[r]]
      BY <3>1, <3>4
    <3>6. \A i \in Instances : cache'[i]
      BY <3>3, <3>4, <3>5
    <3>7. \A q \in Requests : pc'[q] \notin {"scoring", "restoring"}
      BY <3>2, <3>4
    <3> QED
      BY <3>6, <3>7
  <2> QED
    BY <1>2, <2>1, <2>2, <2>3, <2>4, <2>5, <2>6, <2>7, <2>8, <2>9, <2>10 DEF Handler
<1> QED
  BY <1>1, <1>2 DEF Next

-----------------------------------------------------------------------------
(* Answers *)

LEMMA AnswersStep ==
  ASSUME TypeOK, HeldInv, AnsweredByNamed, [Next]_vars
  PROVE  AnsweredByNamed'
<1> USE AnswersAssumption DEF TypeOK, AnsweredByNamed, Target
<1>1. CASE UNCHANGED vars
  BY <1>1 DEF vars
<1>2. ASSUME NEW r \in Requests, Handler(r) PROVE AnsweredByNamed'
  <2>1. CASE Refuse(r) \/ Decide(r) \/ Gate(r)
    BY <2>1 DEF Refuse, Decide, Gate
  <2>2. CASE StartWork(r) \/ Respond(r)
    BY <2>2 DEF StartWork, Respond
  <2>3. CASE Hit(r) \/ Miss(r) \/ Load(r) \/ LoadFails(r)
    BY <2>3 DEF Hit, Miss, Load, LoadFails
  <2>4. CASE TakeGpu(r) \/ ApplyRules(r) \/ SwitchCacheOff(r)
    BY <2>4 DEF TakeGpu, ApplyRules, SwitchCacheOff
  <2>5. CASE Score(r)
    BY <2>5 DEF Score, HeldInv
  <2>6. CASE RestoreCache(r)
    BY <2>6 DEF RestoreCache
  <2> QED
    BY <1>2, <2>1, <2>2, <2>3, <2>4, <2>5, <2>6 DEF Handler
<1> QED
  BY <1>1, <1>2 DEF Next

-----------------------------------------------------------------------------
(* The theorems *)

Invariant == TypeOK /\ LocksInv /\ HeldInv /\ LoadedInv /\ CacheInv /\ AnsweredByNamed

LEMMA InitInvariant == Init => Invariant
<1> SUFFICES ASSUME Init PROVE LoadedInv /\ CacheInv /\ AnsweredByNamed
  BY InitTypes, InitHeld DEF Invariant
<1>1. LoadedInv
  <2>1. \/ loaded = << >>
        \/ \E i \in Instances : loaded = <<i>>
    BY DEF Init
  <2>2. Len(loaded) \in {0, 1} /\ loadLock = Nobody /\ \A r \in Requests : pc[r] = "new"
    BY <2>1 DEF Init
  <2> QED
    BY <2>2, LimitsAssumption DEF LoadedInv
<1>2. CacheInv
  BY DEF Init, CacheInv
<1>3. AnsweredByNamed
  BY AnswersAssumption DEF Init, AnsweredByNamed
<1> QED
  BY <1>1, <1>2, <1>3

LEMMA InvariantHolds == Spec => []Invariant
<1>1. Invariant /\ [Next]_vars => Invariant'
  BY TypesStep, LocksStep, HeldStep, LoadedStep, CacheStep, AnswersStep DEF Invariant
<1> QED
  BY <1>1, InitInvariant, PTL DEF Spec

(* The gateway's variables keep their types; the pool is never oversubscribed. *)
THEOREM TypeCorrect == Spec => []TypeOK
<1>1. Invariant => TypeOK
  BY DEF Invariant
<1> QED
  BY <1>1, InvariantHolds, PTL

(* A gate's cache switch is seen by no other request and is always put back,  *)
(* with any number of requests, threads and models, evictions and errors.    *)
THEOREM CacheSwitchIsContained == Spec => []CacheSwitchContained
<1>1. Invariant => CacheSwitchContained
  <2> SUFFICES ASSUME Invariant PROVE CacheSwitchContained
    OBVIOUS
  <2> USE DEF Invariant
  <2>1. ASSUME NEW r \in Requests, pc[r] = "scoring"
        PROVE  cache[held[r]] <=> ~(IsGate(r) /\ model[held[r]] \in Switchable)
    <3>1. CASE IsGate(r)
      BY <2>1, <3>1 DEF CacheInv
    <3>2. CASE ~IsGate(r)
      <4>1. held[r] \in Instances
        BY <2>1 DEF HeldInv, TypeOK
      <4>2. \A q \in Requests : pc[q] \in {"scoring", "restoring"} => q = r
        BY <2>1 DEF LocksInv, InGpu
      <4> QED
        BY <3>2, <4>1, <4>2 DEF CacheInv
    <3> QED
      BY <3>1, <3>2
  <2> QED
    BY <2>1 DEF CacheSwitchContained, CacheInv
<1> QED
  BY <1>1, InvariantHolds, PTL

(* Never more than MAX_LOADED backends in the cache, never two of one model. *)
THEOREM CacheIsBounded == Spec => []CacheBounded
<1>1. Invariant => CacheBounded
  <2> SUFFICES ASSUME Invariant PROVE CacheBounded
    OBVIOUS
  <2> USE DEF Invariant
  <2> DEFINE L == {r \in Requests : pc[r] = "loading"}
  <2>1. Len(loaded) + Cardinality(L) <= MaxLoaded
    <3>1. CASE loadLock = Nobody
      <4>1. L = {}
        BY <3>1, NamesAssumption DEF LocksInv
      <4>2. Cardinality(L) = 0
        BY <4>1, FS_EmptySet
      <4> HIDE DEF L
      <4> QED
        BY <4>2, LimitsAssumption DEF LoadedInv, TypeOK
    <3>2. CASE loadLock # Nobody
      <4>1. L = {loadLock}
        BY <3>2 DEF LocksInv, TypeOK
      <4>2. Cardinality(L) = 1
        BY <4>1, FS_Singleton
      <4> HIDE DEF L
      <4> QED
        BY <3>2, <4>2, LimitsAssumption DEF LoadedInv, TypeOK
    <3> QED
      BY <3>1, <3>2
  <2> QED
    BY <2>1 DEF CacheBounded, LoadedInv, InLoaded
<1> QED
  BY <1>1, InvariantHolds, PTL

(* A request is answered by the model it named, whatever was evicted meanwhile. *)
THEOREM AnswersAreNamed == Spec => []AnsweredByNamed
<1>1. Invariant => AnsweredByNamed
  BY DEF Invariant
<1> QED
  BY <1>1, InvariantHolds, PTL

-----------------------------------------------------------------------------
(* Nobody waits in a circle *)

\* Only a coroutine inside get_backend holds up the loop; a token of the pool belongs to a
\* handler in its worker thread, so a coroutine inside get_backend has none.
LoopInv == \A r \in Requests : loop = r => ~IsGate(r) /\ pc[r] \in {"resolving", "loading"}
TokensInv ==
  \A r \in working : /\ pc[r] \notin {"new", "queued", "answered"}
                     /\ pc[r] \in {"resolving", "loading"} => IsGate(r)

LEMMA WaitingStep ==
  ASSUME TypeOK, LoopInv, TokensInv, [Next]_vars
  PROVE  LoopInv' /\ TokensInv'
<1> USE NamesAssumption DEF TypeOK, LoopInv, TokensInv, IsGate
<1>1. CASE UNCHANGED vars
  BY <1>1 DEF vars
<1>2. ASSUME NEW r \in Requests, Handler(r) PROVE LoopInv' /\ TokensInv'
  <2>1. CASE Refuse(r)
    BY <2>1 DEF Refuse
  <2>2. CASE Decide(r)
    BY <2>2 DEF Decide
  <2>3. CASE Gate(r)
    BY <2>3 DEF Gate
  <2>4. CASE StartWork(r) \/ Respond(r)
    BY <2>4 DEF StartWork, Respond
  <2>5. CASE Hit(r)
    BY <2>5 DEF Hit, Got
  <2>6. CASE Miss(r)
    BY <2>6 DEF Miss
  <2>7. CASE Load(r) \/ LoadFails(r)
    BY <2>7 DEF Load, LoadFails, Got
  <2>8. CASE TakeGpu(r) \/ ApplyRules(r)
    BY <2>8 DEF TakeGpu, ApplyRules
  <2>9. CASE SwitchCacheOff(r) \/ Score(r) \/ RestoreCache(r)
    BY <2>9 DEF SwitchCacheOff, Score, RestoreCache
  <2> QED
    BY <1>2, <2>1, <2>2, <2>3, <2>4, <2>5, <2>6, <2>7, <2>8, <2>9 DEF Handler
<1> QED
  BY <1>1, <1>2 DEF Next

(* The locks, the loop and the pool never wait for each other in a circle:  *)
(* as long as a request is not answered, some handler has what its place    *)
(* waits for, and it is not one that can only be refused.                   *)
THEOREM SomeHandlerCanGo == Spec => []SomebodyCanGo
<1>1. Init => LoopInv /\ TokensInv
  BY NamesAssumption DEF Init, LoopInv, TokensInv
<1>2. Invariant /\ LoopInv /\ TokensInv /\ [Next]_vars => LoopInv' /\ TokensInv'
  BY WaitingStep DEF Invariant
<1>3. Invariant /\ LoopInv /\ TokensInv => SomebodyCanGo
  <2> SUFFICES ASSUME Invariant, LoopInv, TokensInv, NEW q \in Requests, pc[q] # "answered",
                      \A r \in Requests : ~CanGo(r)
               PROVE  FALSE
    BY DEF SomebodyCanGo
  <2>1. \A r \in Requests : pc[r] \notin {"loading", "switching", "scoring", "restoring"}
    BY DEF CanGo
  <2>2. loadLock = Nobody /\ gpu = Nobody
    BY <2>1 DEF Invariant, TypeOK, LocksInv, InGpu
  <2>3. \A r \in Requests : pc[r] \in {"new", "queued", "done", "answered"}
    BY <2>1, <2>2 DEF CanGo, Invariant, TypeOK, Where
  <2>4. loop = Nobody
    BY <2>3 DEF LoopInv, Invariant, TypeOK
  <2>5. \A r \in Requests : pc[r] # "done"
    BY <2>4 DEF CanGo
  <2>6. working = {}
    BY <2>3, <2>5 DEF TokensInv, Invariant, TypeOK
  <2>7. Cardinality(working) < Workers
    <3>1. Cardinality(working) = 0
      BY <2>6, FS_EmptySet
    <3> QED
      BY <3>1, LimitsAssumption
  <2> QED
    BY <2>3, <2>4, <2>5, <2>7 DEF CanGo
<1> QED
  BY <1>1, <1>2, <1>3, InvariantHolds, PTL DEF Spec
=============================================================================
