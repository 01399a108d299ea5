------------------------------ MODULE Gateway ------------------------------
(***************************************************************************)
(* The scoring gateway with the `hf' backend (serve/gateway.py, gate.py):   *)
(* several models share one GPU and a cache of loaded backends.  decide and *)
(* evaluate are coroutines: they look their backend up on the event loop,   *)
(* so a load, or waiting for another load, holds up the loop, and score in  *)
(* a worker thread.  gate_endpoint is a plain function: all of it runs in a *)
(* worker thread.  An instance is one scorer object in memory; two loads of *)
(* a model give two instances.                                              *)
(***************************************************************************)
EXTENDS Integers, Sequences, FiniteSets

CONSTANTS
  Requests,       \* the requests that arrive
  Models,         \* model ids a request may name
  Available,      \* what discover_models finds
  DefaultModel,   \* DEFAULT_MODEL; outside Available when there is none (lab mode)
  Switchable,     \* models whose scorer has a use_state_cache, on when loaded
  Instances,      \* scorer objects
  MaxLoaded,      \* OSJ_MAX_LOADED
  Workers         \* tokens of the thread pool

ASSUME ModelsAssumption == Available \subseteq Models /\ Switchable \subseteq Models
ASSUME LimitsAssumption == MaxLoaded \in Nat \ {0} /\ Workers \in Nat \ {0}
ASSUME FiniteAssumption == IsFiniteSet(Requests)

Nobody == "nobody"              \* a free lock, an idle loop
NoInstance == "no instance"
Unspecified == "unspecified"    \* model: null
RulesOnly == "none"             \* model: "none"
ASSUME NamesAssumption ==
  /\ Nobody \notin Requests /\ NoInstance \notin Instances
  /\ {Unspecified, RulesOnly} \cap Models = {}

Kind    == {"decide", "gate"}
Request == [kind : Kind, model : Models \cup {Unspecified, RulesOnly}]
Answer  == {"pending", "error", "not_found", "policy_only"} \cup Models
ASSUME AnswersAssumption == {"pending", "error", "not_found", "policy_only"} \cap Models = {}

VARIABLES
  req,       \* what each request asks for
  pc,        \* where its handler is
  loop,      \* the handler that holds up the event loop, or Nobody
  working,   \* requests with a token of the thread pool
  loadLock,  \* holder of _LOAD_LOCK
  gpu,       \* holder of _GPU_LOCK
  loaded,    \* _LOADED, the least recently used first
  model,     \* model_id of each instance
  cache,     \* use_state_cache of each instance
  held,      \* the backend a handler has a reference to
  saved,     \* prev_cache of a gate
  answer
vars == <<req, pc, loop, working, loadLock, gpu, loaded, model, cache, held, saved, answer>>

Where == {"new", "resolving", "loading", "queued", "waiting", "switching", "scoring",
          "restoring", "done", "answered"}

IsGate(r)  == req[r].kind = "gate"
Target(r)  == IF req[r].model = Unspecified THEN DefaultModel ELSE req[r].model
InLoaded   == {loaded[k] : k \in 1 .. Len(loaded)}
InMemory   == InLoaded \cup {held[r] : r \in {q \in Requests : held[q] # NoInstance}}

\* main loads the default model first, unless it runs as the Decision Lab.
Init ==
  /\ req \in [Requests -> {q \in Request : q.kind = "decide" => q.model # RulesOnly}]
  /\ pc = [r \in Requests |-> "new"] /\ answer = [r \in Requests |-> "pending"]
  /\ loop = Nobody /\ loadLock = Nobody /\ gpu = Nobody /\ working = {}
  /\ held = [r \in Requests |-> NoInstance] /\ saved = [r \in Requests |-> FALSE]
  /\ cache = [i \in Instances |-> TRUE]
  /\ model = [i \in Instances |-> DefaultModel]
  /\ \/ loaded = << >>
     \/ DefaultModel \in Available /\ \E i \in Instances : loaded = <<i>>

-----------------------------------------------------------------------------
(* On the event loop *)

\* A body that does not validate, before or after the backend was looked up.
Refuse(r) ==
  /\ pc[r] \in {"new", "queued"} /\ (pc[r] = "queued" => ~IsGate(r)) /\ loop = Nobody
  /\ pc' = [pc EXCEPT ![r] = "answered"] /\ answer' = [answer EXCEPT ![r] = "error"]
  /\ held' = [held EXCEPT ![r] = NoInstance]
  /\ UNCHANGED <<req, loop, working, loadLock, gpu, loaded, model, cache, saved>>

\* decide and evaluate enter get_backend.
Decide(r) ==
  /\ pc[r] = "new" /\ ~IsGate(r) /\ loop = Nobody
  /\ \/ /\ Target(r) \in Available
        /\ pc' = [pc EXCEPT ![r] = "resolving"] /\ loop' = r /\ UNCHANGED answer
     \/ /\ Target(r) \notin Available
        /\ pc' = [pc EXCEPT ![r] = "answered"] /\ answer' = [answer EXCEPT ![r] = "not_found"]
        /\ UNCHANGED loop
  /\ UNCHANGED <<req, working, loadLock, gpu, loaded, model, cache, held, saved>>

\* The 404 of get_backend matters to a gate only when the request named the model.
Gate(r) ==
  /\ pc[r] = "new" /\ IsGate(r) /\ loop = Nobody /\ Cardinality(working) < Workers
  /\ working' = working \cup {r}
  /\ \/ /\ req[r].model # RulesOnly /\ Target(r) \in Available
        /\ pc' = [pc EXCEPT ![r] = "resolving"] /\ UNCHANGED answer
     \/ /\ req[r].model = RulesOnly \/ (req[r].model = Unspecified /\ DefaultModel \notin Available)
        /\ pc' = [pc EXCEPT ![r] = "waiting"] /\ UNCHANGED answer
     \/ /\ req[r].model \in Models \ Available
        /\ pc' = [pc EXCEPT ![r] = "done"] /\ answer' = [answer EXCEPT ![r] = "not_found"]
  /\ UNCHANGED <<req, loop, loadLock, gpu, loaded, model, cache, held, saved>>

\* Mutated form: a pool without a limit.
StartWork_Unlimited(r) ==
  /\ pc[r] = "queued" /\ loop = Nobody
  /\ working' = working \cup {r} /\ pc' = [pc EXCEPT ![r] = "waiting"]
  /\ UNCHANGED <<req, loop, loadLock, gpu, loaded, model, cache, held, saved, answer>>

\* run_in_threadpool of a decision
StartWork(r) ==
  /\ pc[r] = "queued" /\ loop = Nobody /\ Cardinality(working) < Workers
  /\ working' = working \cup {r} /\ pc' = [pc EXCEPT ![r] = "waiting"]
  /\ UNCHANGED <<req, loop, loadLock, gpu, loaded, model, cache, held, saved, answer>>

\* The loop takes the result of the worker thread and writes the response.
Respond(r) ==
  /\ pc[r] = "done" /\ loop = Nobody
  /\ pc' = [pc EXCEPT ![r] = "answered"]
  /\ working' = working \ {r} /\ held' = [held EXCEPT ![r] = NoInstance]
  /\ UNCHANGED <<req, loop, loadLock, gpu, loaded, model, cache, saved, answer>>

-----------------------------------------------------------------------------
(* get_backend, under _LOAD_LOCK; on the loop or in a worker thread *)

Got(r, i) ==
  /\ held' = [held EXCEPT ![r] = i]
  /\ pc' = [pc EXCEPT ![r] = IF IsGate(r) THEN "waiting" ELSE "queued"]
  /\ loop' = IF IsGate(r) THEN loop ELSE Nobody

\* move_to_end
MovedToEnd(k) ==
  [j \in 1 .. Len(loaded) |-> IF j < k THEN loaded[j]
                             ELSE IF j < Len(loaded) THEN loaded[j + 1] ELSE loaded[k]]

Hit(r) ==
  /\ pc[r] = "resolving" /\ loadLock = Nobody
  /\ \E k \in 1 .. Len(loaded) :
       model[loaded[k]] = Target(r) /\ loaded' = MovedToEnd(k) /\ Got(r, loaded[k])
  /\ UNCHANGED <<req, working, loadLock, gpu, model, cache, saved, answer>>

\* Mutated form: evicts down to the limit, not to one below it.
KeptAtMiss_AtLimit == SubSeq(loaded, 1 + (IF Len(loaded) > MaxLoaded THEN Len(loaded) - MaxLoaded ELSE 0), Len(loaded))

\* What `while len(_LOADED) >= MAX_LOADED: popitem' leaves.
KeptAtMiss == SubSeq(loaded, 1 + (IF Len(loaded) >= MaxLoaded THEN Len(loaded) - MaxLoaded + 1 ELSE 0), Len(loaded))

\* Mutated form: looks the model up and loads it without the lock.
Miss_NoLock(r) ==
  /\ pc[r] = "resolving"
  /\ \A i \in InLoaded : model[i] # Target(r)
  /\ loaded' = KeptAtMiss /\ pc' = [pc EXCEPT ![r] = "loading"]
  /\ UNCHANGED <<req, loop, working, loadLock, gpu, model, cache, held, saved, answer>>

Miss(r) ==
  /\ pc[r] = "resolving" /\ loadLock = Nobody
  /\ \A i \in InLoaded : model[i] # Target(r)
  /\ loadLock' = r /\ loaded' = KeptAtMiss /\ pc' = [pc EXCEPT ![r] = "loading"]
  /\ UNCHANGED <<req, loop, working, gpu, model, cache, held, saved, answer>>

Load(r) ==
  /\ pc[r] = "loading" /\ Instances \ InMemory # {}
  /\ LET i == CHOOSE j \in Instances : j \notin InMemory
     IN  /\ loaded' = Append(loaded, i) /\ Got(r, i)
         /\ model' = [model EXCEPT ![i] = Target(r)] /\ cache' = [cache EXCEPT ![i] = TRUE]
  /\ loadLock' = Nobody
  /\ UNCHANGED <<req, working, gpu, saved, answer>>

\* Mutated form: acquire and release without a `with'.
LoadFails_KeepsLock(r) ==
  /\ pc[r] = "loading"
  /\ answer' = [answer EXCEPT ![r] = "error"]
  /\ pc' = [pc EXCEPT ![r] = IF IsGate(r) THEN "done" ELSE "answered"]
  /\ loop' = IF IsGate(r) THEN loop ELSE Nobody
  /\ UNCHANGED <<req, working, loadLock, gpu, loaded, model, cache, held, saved>>

\* The scorer's constructor raises: what was evicted is gone; no handler catches it.
LoadFails(r) ==
  /\ pc[r] = "loading"
  /\ answer' = [answer EXCEPT ![r] = "error"]
  /\ pc' = [pc EXCEPT ![r] = IF IsGate(r) THEN "done" ELSE "answered"]
  /\ loop' = IF IsGate(r) THEN loop ELSE Nobody
  /\ loadLock' = Nobody
  /\ UNCHANGED <<req, working, gpu, loaded, model, cache, held, saved>>

-----------------------------------------------------------------------------
(* In a worker thread, under _GPU_LOCK *)

\* Mutated form: a gate does not take the lock.
TakeGpu_NotForGate(r) ==
  /\ pc[r] = "waiting" /\ (gpu = Nobody \/ IsGate(r))
  /\ gpu' = r /\ pc' = [pc EXCEPT ![r] = IF IsGate(r) THEN "switching" ELSE "scoring"]
  /\ UNCHANGED <<req, loop, working, loadLock, loaded, model, cache, held, saved, answer>>

\* Mutated form: the thread takes the backend that was looked up last, by any request.
TakeGpu_LatestBackend(r) ==
  /\ pc[r] = "waiting" /\ gpu = Nobody
  /\ gpu' = r /\ pc' = [pc EXCEPT ![r] = IF IsGate(r) THEN "switching" ELSE "scoring"]
  /\ held' = [held EXCEPT ![r] = IF held[r] = NoInstance \/ loaded = << >> THEN held[r] ELSE loaded[Len(loaded)]]
  /\ UNCHANGED <<req, loop, working, loadLock, loaded, model, cache, saved, answer>>

TakeGpu(r) ==
  /\ pc[r] = "waiting" /\ gpu = Nobody
  /\ gpu' = r /\ pc' = [pc EXCEPT ![r] = IF IsGate(r) THEN "switching" ELSE "scoring"]
  /\ UNCHANGED <<req, loop, working, loadLock, loaded, model, cache, held, saved, answer>>

\* gate() without a scorer: the deterministic rules alone
ApplyRules(r) ==
  /\ pc[r] = "switching" /\ held[r] = NoInstance
  /\ answer' = [answer EXCEPT ![r] = "policy_only"]
  /\ gpu' = Nobody /\ pc' = [pc EXCEPT ![r] = "done"]
  /\ UNCHANGED <<req, loop, working, loadLock, loaded, model, cache, held, saved>>

\* prev_cache is read, then the cache is switched off.
SwitchCacheOff(r) ==
  /\ pc[r] = "switching" /\ held[r] # NoInstance
  /\ IF model[held[r]] \in Switchable
     THEN saved' = [saved EXCEPT ![r] = cache[held[r]]] /\ cache' = [cache EXCEPT ![held[r]] = FALSE]
     ELSE UNCHANGED <<saved, cache>>
  /\ pc' = [pc EXCEPT ![r] = "scoring"]
  /\ UNCHANGED <<req, loop, working, loadLock, gpu, loaded, model, held, answer>>

\* A decision's error reaches the client, a gate's becomes an answer of the rules.
Score(r) ==
  /\ pc[r] = "scoring"
  /\ \E a \in {model[held[r]], IF IsGate(r) THEN "policy_only" ELSE "error"} :
       answer' = [answer EXCEPT ![r] = a]
  /\ pc' = [pc EXCEPT ![r] = IF IsGate(r) THEN "restoring" ELSE "done"]
  /\ gpu' = IF IsGate(r) THEN gpu ELSE Nobody
  /\ UNCHANGED <<req, loop, working, loadLock, loaded, model, cache, held, saved>>

\* Mutated form: the switch is put back only when the model answered.
RestoreCache_OnSuccess(r) ==
  /\ pc[r] = "restoring"
  /\ cache' = IF model[held[r]] \in Switchable /\ answer[r] \in Models
              THEN [cache EXCEPT ![held[r]] = saved[r]] ELSE cache
  /\ gpu' = Nobody /\ pc' = [pc EXCEPT ![r] = "done"]
  /\ UNCHANGED <<req, loop, working, loadLock, loaded, model, held, saved, answer>>

\* the `finally' of gate()
RestoreCache(r) ==
  /\ pc[r] = "restoring"
  /\ cache' = IF model[held[r]] \in Switchable THEN [cache EXCEPT ![held[r]] = saved[r]] ELSE cache
  /\ gpu' = Nobody /\ pc' = [pc EXCEPT ![r] = "done"]
  /\ UNCHANGED <<req, loop, working, loadLock, loaded, model, held, saved, answer>>

-----------------------------------------------------------------------------
Handler(r) ==
  \/ Refuse(r) \/ Decide(r) \/ Gate(r) \/ StartWork(r) \/ Respond(r)
  \/ Hit(r) \/ Miss(r) \/ Load(r) \/ LoadFails(r)
  \/ TakeGpu(r) \/ ApplyRules(r) \/ SwitchCacheOff(r) \/ Score(r) \/ RestoreCache(r)
Next == \E r \in Requests : Handler(r)

\* The loop and the threads run; a load and a forward pass come to an end.
Spec == Init /\ [][Next]_vars /\ \A r \in Requests : WF_vars(Handler(r))

-----------------------------------------------------------------------------
(* Properties *)

TypeOK ==
  /\ req \in [Requests -> Request] /\ pc \in [Requests -> Where]
  /\ loop \in Requests \cup {Nobody} /\ loadLock \in Requests \cup {Nobody}
  /\ gpu \in Requests \cup {Nobody}
  /\ working \subseteq Requests /\ Cardinality(working) <= Workers
  /\ loaded \in Seq(Instances) /\ model \in [Instances -> Models \cup {DefaultModel}]
  /\ cache \in [Instances -> BOOLEAN] /\ held \in [Requests -> Instances \cup {NoInstance}]
  /\ saved \in [Requests -> BOOLEAN] /\ answer \in [Requests -> Answer]

(* gate() switches the state cache of a scorer other requests share: a      *)
(* decision never runs with the cache switched off by a gate, a gate never  *)
(* with the cache another gate has put back, and no gate leaves it off,     *)
(* whether its evaluation failed or not.                                    *)
CacheSwitchContained ==
  /\ \A r \in Requests : pc[r] = "scoring" =>
       (cache[held[r]] <=> ~(IsGate(r) /\ model[held[r]] \in Switchable))
  /\ \A i \in Instances : ~cache[i] =>
       \E r \in Requests : IsGate(r) /\ held[r] = i /\ pc[r] \in {"scoring", "restoring"}

(* _LOADED holds at most MAX_LOADED backends, counting the one being built, *)
(* and no model twice: two requests that miss the same model at the same    *)
(* time load it once.                                                       *)
CacheBounded ==
  /\ Len(loaded) + Cardinality({r \in Requests : pc[r] = "loading"}) <= MaxLoaded
  /\ \A j, k \in 1 .. Len(loaded) : model[loaded[j]] = model[loaded[k]] => j = k
  /\ \A r \in Requests : pc[r] = "loading" => \A i \in InLoaded : model[i] # Target(r)

(* "the UI never mislabels a model": a request scored by a model is scored  *)
(* by the one it named, or by the default, also where that model was        *)
(* evicted or loaded anew while the request waited for a thread or the GPU. *)
AnsweredByNamed ==
  \A r \in Requests : answer[r] \in Models => answer[r] = Target(r) /\ req[r].model # RulesOnly

(* What each place of a handler waits for; a load ends, in a backend or in  *)
(* an error.                                                                *)
CanGo(r) ==
  \/ pc[r] \in {"loading", "switching", "scoring", "restoring"}
  \/ pc[r] = "resolving" /\ loadLock = Nobody
  \/ pc[r] = "waiting" /\ gpu = Nobody
  \/ pc[r] = "done" /\ loop = Nobody
  \/ pc[r] = "queued" /\ loop = Nobody /\ Cardinality(working) < Workers
  \/ pc[r] = "new" /\ loop = Nobody /\ (IsGate(r) => Cardinality(working) < Workers)

(* As long as a request is not answered some handler has what its place     *)
(* waits for, whatever loads and evaluations failed: loop, pool, _LOAD_LOCK *)
(* and _GPU_LOCK never wait for each other in a circle, and refusing bodies *)
(* is not the only way on.                                                  *)
SomebodyCanGo == (\E r \in Requests : pc[r] # "answered") => \E r \in Requests : CanGo(r)

(* And a handler that has it can take its step.  A handler never goes back, *)
(* so under Spec's fairness every request is answered.                      *)
NobodyStuck == SomebodyCanGo /\ \A r \in Requests : CanGo(r) => ENABLED Handler(r)
=============================================================================
