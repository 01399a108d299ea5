# TLA+ models of open-spark-jev

The repository holds two programs and the scripts around them.

* `datagen-pipeline/` (package `os_datagen`) makes labelled decision datasets. Code samples
  *worlds* and solves them with an oracle; a *generator* model writes a text for each world, a
  *verifier* model extracts the facts back from the text, a *judge* model looks at what the
  verifier could not decide, a blind solve audits the row, and what is left is deduplicated,
  capped and checked for split isolation before it is published.
* `open_spark_jev/` scores decisions with small models: training, evaluation, a scoring gateway
  and a gate for tool calls. `scripts/ops` keeps the machine they run on alive.

The modules are of two kinds. One kind models the control of the parts that run concurrently,
fail, restart or decide something in an order nobody can see in one test: the pipeline with its
worker pools and its reverify, deduplication, the run directory, the controller that swaps the model
servers, the gateway with its cache of models and its locks, and the thermal guard. Texts, prompts and
model weights are opaque values there; what a model answers is any of the answers the code tells
apart.

The other kind models what the rows of a dataset say: for every task pack and every code-only family
the situations its sampler draws, the label its oracle or generator gives them, the rules the row
prints for its reader, and what the verifier recomputes or compares. A label that does not follow from
what the row shows is the one defect no later stage of the pipeline can notice.

## Inventory

Every component, its state, its operations, what is hard in it and what makes it correct.
`PROJECT.json` lists the same components with their sources and the hazards with their lines.

| component | state | operations | hard behaviour | correct when |
|---|---|---|---|---|
| dataset pipeline (`generation/pipeline.py`) | `cands` with a stage and reasons each, worlds, truths, judge counters | the phases sample, generate, verify, judge, support, finalize; `generate_only`, `reverify` | three thread pools over the candidates, skipped phases, aborts in the middle, a second process that starts from saved rows | every candidate is accepted or rejected with a reason, verdicts are final, nothing is accepted that a gate did not pass |
| candidate gates (`validation/*`, `generation/renderer.py`) | none | schema, leakage, anchors, facts, blind solve | the order in which they are asked, errors of the model calls | each can only reject |
| deduplication, split isolation | the kept and dropped lists of one call | `dedupe`, `diversity_select`, `check_worlds`, `check_records` | similarity is not transitive, the visiting order decides who survives, float rounding in the cap | no two kept records are duplicates, the harder copy survives, splits share nothing |
| phase scheduler, model servers (`llm/scheduler.py`) | `running` | start, health polling, stop, `stop_all` | servers that boot late, die, or outlive the process that started them; interrupts and kills of that process | one server at a time, none left behind but where a start or stop was cut off, a phase starts only when its server answers |
| run directory (`datasets/writer.py`, `manifest.py`) | some fifteen files and their checksums | `write_run`, `_balance_mixture` | a crash between two files, files of an earlier run | manifest and checksums describe the files that are there |
| LLM clients (`llm/openai_compatible.py`) | round-robin position | `chat` | retries, time outs, a 400 that makes the client drop the schema | bounded attempts, an error is raised and not an empty answer |
| scenario sampling, mixtures (`generation/scenario_sampler.py`, `datasets/mixture.py`, `splitter.py`) | seeds, family lists | `sample_split`, `family_split`, `split_counts`, `balance` | rounding and binding families | counts add up, held-out families stay out of train |
| symbolic oracle (`generation/symbolic.py`) | none | `closure`, `literal_status`, `verdict` | chained rules, negation by default | the verdict is what the facts entail |
| task packs (`taskpacks/`) | one row on its way: world, truth, surface, verdict | sample, decide, render, `finalize_surface`, `check_surface`, `compare_facts` | the policy text and the oracle are two encodings of the same rules; the comparison is tolerant and partial | a reader of the row arrives at its label, also after every deviation the comparison lets through |
| programmatic and code-only generators (`programmatic/`, `control/`, `generation/code_packs/`) | a row, its meta, a seed | generate, verify, write or stop | boundaries of dates and sums, a generator and a verifier that may share a mistake, phrasings that wrap around | the label follows from the text, honest rows pass, wrong ones do not, evaluation asks in words of its own |
| tool call risk (`code_packs/tool_call_risk.py`) | rows per split, tries | deal groups, draw, cap | quotas, a split that fills up between two rows, groups shared by splits | groups stay in one split, postures are balanced, drawing ends |
| sandbox, rollouts | a subprocess per call | run, validate | time-outs | - |
| command line, configuration | the list of server controllers | one command per process | the `finally` that stops servers, which a kill does not reach | servers are stopped on every path that reaches the `finally` |
| scoring gateway (`serve/gateway.py`) | an LRU of loaded models, two locks | decide, evaluate, gate, healthz | handlers on the event loop, handlers in threads, loads that evict a model in use | a request is answered by the model it asked for, the gate's cache switch never leaks into another request |
| gate and policy (`gate.py`, `policy.py`) | none | `gate`, `resolve` | errors of the evaluator | the action is never below the deterministic floor |
| thermal guard (`scripts/ops`) | `paused`, stopped processes and containers | poll, pause, resume; a watchdog | the guard dies while jobs are stopped, jobs that start while it is hot | what is paused is resumed, nothing runs while it is hot |
| training, evaluation, experiments, release, analysis | GPUs and files | numerical scripts | none a finite model tells apart | - |

Interactions: the pipeline calls the scheduler at every phase, the scheduler calls the
controller, the controller runs shell commands that start servers which outlive it. The
pipeline hands the verified records to deduplication and writes the run directory, from which a
later process reverifies. The packs give the pipeline its worlds, labels and comparisons; the code-only
families write their files directly. The gateway calls the gate, the gate calls the policy and a loaded
model. The thermal guard stops and continues any of these processes from outside.

## Modules

| module | models | how |
|---|---|---|
| `Selection` | `validation/deduplication.py`, `validation/split_isolation.py` | constant-level operators over a function from record ids to records. `Kept(K, rec)` *describes* the set the loop keeps, it does not compute it. |
| `Dedupe` | the loop of `dedupe` and `diversity_select` | one action `Visit` per iteration, `exact`, `dropped`, `kept` as in the code, `DiversitySelect` after it. Shown to compute what `Selection` describes. |
| `Acceptance` | nothing of the code: the abstract promise | candidates are rejected, then the rest is settled at once, then the run is published; a process may fail and another one start. |
| `Pipeline` | `generation/pipeline.py`, `validation/acceptance.py`, the reload of a run | `cand` is `Pipeline.cands`, `pc` and `started` are the scheduler's position. Workers are `RenderOne`, `VerifyOne`, `AuditOne` on any candidate left; the judge is one loop in list order; `Finalize` is one step because one thread runs it. |
| `ServerController` | `llm/scheduler.py`, `_hooks` and `_stop` of `cli.py` | one action per shell command and health check; `up` and `booting` are the machine's, so they survive `NewProcess`. A process ends in `StopAll` (it returned, raised or was interrupted) or in `Killed`. |
| `Gateway` | the `hf` backend of `serve/gateway.py`, the control of `gate()` | one action per stretch between two points where another handler or thread can run: on the event loop, inside `get_backend`, inside `_GPU_LOCK`. |
| `ThermalGuard` | `thermal_guard.sh`, `thermal_guard_watchdog.sh` | one action per round of signals of the loop; the guard's process state and its `paused`; the watchdog is one step. |
| `RunDirectory` | `datasets/writer.py`, `manifest.py`, `code_packs/emit.py`, `load_run`, `redact.py`, the commands of `cli.py` that write a run | a file is the number of the process that wrote it, negative when it was cut short; `Write` is one file, in the order of `write_run`; `Fails` ends a process between two files or inside one. |
| `RowSource` | `taskpacks/base.py`, the shared parts of the code-only generators | a pack and a family as records of functions: worlds, labels, readers, writable and accepted texts; worlds, options, gold, verified, phrasings. |
| `ActionRouter` `ToolActionGate` `TerminationGate` `RetrievalGate` `InjectionGate` `AnswerSufficiency` `AuthorizationGate` `UrgencyScore` `TemporalRelation` `RuleApplication` `SemanticEntailment` `DocumentType` `DocumentRelevance` `CommunicationIntent` `ExtractionJudge` | the pack of that name under `taskpacks/` | `Sample` (the worlds of each family), the oracle under its own name, `Policy` (the printed rules, read as they stand), `Writable` (what code pins in a surface), `Accepts` (the comparison), `Unchecked` (facts neither looks at); `Situations`, every combination of the facts, for the proofs. |
| `TextClasses` | `harness/text_packs.py` and the three packs like it | the packs whose world is a class: one table of classes and answers. |
| `Symbolic` | `generation/symbolic.py` | `Closure` is the loop over the strata; `Consequences` what follows from the facts, without rounds. |
| `ProgrammaticV1` `ProgrammaticV2` `ProgrammaticLong` `ProgrammaticHermes` | `programmatic/` | each family's worlds, gold, the text's rules read as they stand, and the verifier's own route. |
| `ControlFamilies`, `UseCases` | `control/families.py`, `code_packs/jev_use_cases.py` | the same; `FR_POLICY` and its like are the printed policies that are lists of rules, of which the first that holds decides (`Ruled`). |
| `DatasetRows` | `registry.py` and the loops over rows | one row at a time: `Sample` `Render` `Verify` for a pack, `Generate` `Mislabel` `Write` for a family. `Mislabel` is the bug the verifiers are there for. |
| `CallRisk` | `code_packs/tool_call_risk.py` | `make_rows`: one action per draw, per framing of a command, per split and for the cap. What is written is the set of positions of the drawn rows that the cap keeps. |
| `MC*` | - | instances for TLC: worlds, texts with a similarity, plans of phases, groups, the families to run. |
| `*_proofs` | - | the theorems about the module of that name; `Operations_proofs` has those of `ServerController` and `ThermalGuard`. |

Order: `Selection` first, because the pipeline's finalize is built from it; `Dedupe` shows that
this description is the loop's; `Pipeline` composes `Selection` with the phases and implements
`Acceptance`; `ServerController` is the detailed form of the pipeline's `StartPhase` and
`ServerFailed`, over several processes, and `RunDirectory` of its `disk` and `LoadRun`. `DatasetRows`
instantiates the packs and the families and composes them with the loops that make rows. `Gateway` and `ThermalGuard` stand alone: the programs they
model share nothing with the pipeline but the machine.

### Correspondence in `Pipeline`

* A candidate's `stage` takes the values a phase can leave behind (`oracle_ok`, `anchors_ok`,
  `verified`, `accepted`, `rejected`); the intermediate ones (`schema_ok`, `leak_ok`) are set and
  overwritten inside one call of a worker that no other thread looks at.
* `surface` is the rendered text and what the deterministic gates find in it (`gate`). A surface
  is drawn anew at each render and then kept, so the gates say the same thing when a reverify
  runs them again.
* `extraction` is the outcome of `compare_facts`, `judged` is set by `_judge`, `support` is
  `trace["support_status"]`, `dup_of` is the record named in the `dedupe:` reason.
* `disk` is what `candidates_raw.jsonl` and `rejected.jsonl` hold of each candidate. `LoadRun`
  rebuilds the candidates from it with `Loaded`, gates included.
* Reasons are one value per reject site. Where the code adds several reasons at once the set has
  one of them.
* `SkipPhase` is `when() == False`; `ServerFailed` is the exception of `on_start`, `OracleFailed`
  that of the oracle. Both abort the process before anything is written.

### Correspondence in `Selection`

* A record is its split, pack, family, difficulty, text and `held`, whether its scenario family is one the
  process holds out (`family_split`). Entity pools and ids are compared between splits just as template
  families are, so one `family` stands for the three; a held-out scenario family is looked for in
  the train split only (`HeldOutOfTrain`).

### Correspondence in `ServerController`

* `Interrupted` is a KeyboardInterrupt while the controller is at work: the `finally` of the command runs,
  but `running` does not name a server that is still being polled. Inside a phase's function an
  interrupt is `PhaseRaised`. During a shell command it counts as one before the command or as one
  after it; a second one, while `stop_all` runs, is a kill.
* `Killed` is SIGTERM, which the commands do not handle, or SIGKILL: no `finally` runs and every server
  stays as it is. The servers are taken to outlive the process that started them.
* `strays` are the servers nobody would stop: lost to a stop command that failed, a start that timed out or was
  interrupted, or a kill. `mishaps` counts those events. A stray is one no more when it
  dies, when it is stopped, or when a later phase of its role finds it answering and `running` names it. Until
  then it stays up: nothing else in the code looks for it.
* `generate_only` has no controller, so its phases are no plan of `AllPlans`.

### Correspondence in `Gateway`

* `decide` and `evaluate` are coroutines. Between `get_backend` and the first `await` they hold up
  the loop: `loop` names the handler that is inside `get_backend`, and nothing else that runs on
  the loop is enabled until it returns, also while it waits for `_LOAD_LOCK`. `gate_endpoint` is a
  plain function, so it takes a token of the thread pool first and calls `get_backend` there.
* `loaded` is `_LOADED` as the sequence of scorer objects, `model` their `model_id`. Two loads of a
  model are two instances, which is what makes "the model it named" a question.
* `held` is the reference a handler keeps to its scorer (`backend`, `scorer`, and the closure
  `work`); with `loaded` it is what is in memory.
* A body that does not validate is refused in one step, before the lookup or, where the route looks
  the model up first, right after it. A load and a forward pass may raise.
* `main` loads the default model first; with `--lab` it does not, and there may be no default.

### Correspondence in `ThermalGuard`

* A sensor reads below `RESUME_C`, from there to `PAUSE_C`, or above; an unreadable one counts as
  cool, as in the script. The two sensors are one look: they are read one after the other within
  milliseconds and only their levels matter.
* `at` is the place in one pass of the loop: both lists are made and the jobs signalled (`StopJobs`),
  then the containers (`PauseContainers`), then `paused=1`; the same for resuming.
* A guard is in state R or S (`alive`), T (`stopped`), D (`blocked`) or gone. The watchdog kills
  those in T and starts one when none is in R or S, so guards in D get company. `Guards` bounds how
  many there can be; beyond it the watchdog waits.
* The containers to pause come from the list made before the first signal (`listed`), those to
  continue from docker's list of paused ones.

* `late` and `lost` are history: targets that began to run while a guard counted them as paused, and
  whether a guard that had paused something was killed or stopped. They state what the code cannot
  make good; the other properties hold outside of it.

### Correspondence in `RunDirectory`

* One command at a time, as the documented workflow has it; there is no lock in the code. `log` is
  the kind of every process so far.
* `execution_results`, `validation_results` and `lineage` are one file of the model, the four
  `accepted_*.jsonl` one, `config` stands for itself and `prompts.lock.json`: no reader looks at one
  without the other, and nothing happens between them but a crash, which leaves `config` or `results`
  cut short in the model and one of the two missing in the directory.
* `listed` is what the manifest and the checksums say a file's content was when they were taken.
* `load_run` takes a file cut short at a line's end for a whole one; a line cut short is an exception,
  which is `Fails`.

### Correspondence in the packs and families

* A text is the facts it states, so it is a world of the pack, perhaps not the one the writer was
  given: `finalize_surface` and `check_surface` say which (`Writable`). The verifier is honest, it
  reads those facts back; what a lying verifier does is `Pipeline`'s `extraction`.
* Samplers draw numbers from ranges. The model draws the values the rules tell apart: both sides of
  every threshold and the threshold itself where the sampler can draw it, the ends of months, the
  leap day, the offset of a time zone.
* `Policy`, `*Read` and `reader` are written from the strings that are printed into a row, not from the
  functions that label it. For the symbolic packs, whose rules are the text, they are the entailed
  literals.
* In a pack of `TextClasses` the text is of a class or leaves its reader in doubt about a second one.
* A family's verifier sees the whole row; a world stands for it because no model writes its words.
  Where the verifier calls the generator's own derivation (`derive_multihop`, `_precedence`) so does
  the model, and `HonestRowsPass` says nothing there; the `*_Read` form does.

## Runs

| run | question | bounds and why they are enough |
|---|---|---|
| `dedupe_loop` | does the loop keep what `Selection` says and report each drop correctly; does the diversity cap meet its share; does a harder copy survive the cap | all inputs of 4 records, 2 splits, 2 difficulties, 4 texts on a line near to their neighbours: a chain of three near-duplicates whose ends are not near, plus a fourth record, is the smallest case in which "compare with kept" and "compare with visited" differ. And all inputs of 6 distinct train records, easy or not, in two packs, with a minimum size of 3 instead of 20: packs below and above the minimum and the hard share, both caps |
| `pipeline_small` | what a full run guarantees | 3 candidates in 4 world assignments (hard/medium/easy over two splits, three train records that reach the diversity cap, a family shared by two splits), 4 texts of which one is far from the others, judge cap 2 of 3 |
| `pipeline_reverify` | what survives a second process; refinement | 2 candidates, 2 processes, judge cap 1, no blind solve |
| `pipeline_nojudge` | disagreement with the docs, see below | 2 candidates, judge on or off |
| `servers_faulty` | is only what a mishap left behind (a failed or cut off start or stop, a kill) beside the server of the phase; does a mishap cost one server at most; is every phase served; does every process end | all sequences of phases of `run` and `reverify`, three processes, a judge served elsewhere, servers that come up late, two that die, stop commands that fail, an interrupt or a kill at every point, room for two servers so that a second one could start |
| `servers_late` | disagreement with the docs, see below | no server dies, stop commands work, no process is interrupted |
| `gateway_cache` | does the gate's cache switch stay with the gate, does the cache keep its limit, does a request get its own model, can handlers block each other | 3 requests of every kind for 2 models and an unknown one, a cache of one model, 2 threads: a third request can evict what two others use, and one thread less than requests |
| `thermal_steady` | is everything stopped remembered, and continued once it is cool; does nothing run on while it is hot | 2 jobs, a container, 2 guards, two faults of any kind: enough for a guard that blocks, its replacement, and the death of either |
| `thermal_stranded` | disagreement with the docs, see below | one guard that dies once |
| `run_directory` | do checksums that verify mean one run; what does `load_run` join; is raw/ the candidates' own | 2 directories, 3 commands of four kinds (`generate_mixture` writes every file, `generate_only` and `reverify` read and write across directories, a code-only pack lists its own files only), a death anywhere, redaction: a first run, one that dies over it, and one that reads the result |
| `rows` | does every label follow from its row, does what passes hold, do faithful rows pass, does an allowed call run, do evaluation rows have phrasings of their own | every pack and every family but five (below); all sampled worlds over the boundary values, all texts, all splits, all phrasings; a bug in every family whose verifier recomputes the label. 763,479 rows |
| `call_risk` | are the held-out groups dealt once and to all, does drawing end, is what is written balanced | 10 rows, and 9, which leave two splits without any; a train group of two postures, three held-out groups of each risky posture, as many as there are evaluation splits; commands with and without a slot to fill; one try per row wanted, so that splits also stay short |

Every bound is a constant of the module (`N`, `MaxRuns`, `MaxProcs`, `MaxFaults`, `Crashes`, `Capacity`,
`Count`, `Tries`) or a set given in the `MC` module. The type invariants of `Pipeline`, `ThermalGuard` and
`RunDirectory` are theorems and not repeated in the runs. `CHECK_DEADLOCK FALSE` is set because every process ends. `RoundsDown` holds the
counts for which `int(0.6 * h / (1 - 0.6))` is one below the exact quotient, computed with the
code's expression.

### Fairness

`ServerController` assumes weak fairness of the process itself: it keeps running, shell commands return, and a
phase's function returns or raises, because every model call has a timeout and a bounded
number of attempts. It adds that a server which boots comes up in the end; without it, the startup timeout
still ends the wait. No fairness is assumed of the operator, of interrupts and kills, or of failures, so
`Terminates` does not rest on a process being ended from outside.

`Pipeline` assumes none. Its phases are loops over lists of candidates that are never extended, so that
they end is plain from the code and no property says it; what a phase may leave undone is
`FailsClosed`.

`CallRisk` assumes that `make_rows` is executed to its end, and nothing of what it draws. `RunDirectory`
and `DatasetRows` assume no fairness.

`Gateway` assumes weak fairness of every handler: the loop and the threads run, a load and a forward
pass end. That every request is answered is checked as `NobodyStuck`, which says that some handler can go
on: a handler passes each of its places once, so a run of finitely many requests in which somebody can always go on
ends with all of them answered. `CanGo` says what each place of a handler waits for, and the run checks that whoever has
it can take a step; so that refusing a request is not the only way on, `CanGo` does not count `Refuse`. `ThermalGuard`
assumes that a live guard keeps polling, that cron keeps running the watchdog, and that a process in
an uninterruptible wait comes back. Temperatures, jobs and faults are free, so `Resumed` and
`Protected` are stated for sensors that stay cool, or hot, in the end.

## What the runs found

* **`pipeline_nojudge`**: without a judge (`use_judge` off, or no client) the judge phase is
  skipped as a whole and nothing else rejects the candidates with unverifiable facts; they stay at
  `anchors_ok` and appear neither in an accepted file nor in `rejected.jsonl`, against "Validation
  **fails closed** and every rejection is written to `rejected.jsonl`".
* **`servers_late`**: a server that misses its startup timeout is forgotten; nobody stops it and
  the next process starts a second one beside it, against "Only one role's server is kept up".
* **`thermal_stranded`**: `paused` dies with the guard. The guard that the watchdog starts next has
  `paused=0` and continues nothing, so a job stays stopped on a cool machine, against "the daemon and
  its watchdog already self-heal without supervision".

## Where code and documents disagree

The differences below are kept out of the passing runs by a constant; the constants given here make
TLC show them (the rest as in the configuration named).

| where | difference | to see it |
|---|---|---|
| `pipeline.py:310` | a reverify does not restore `lower_confidence`, against "marks records `lower_confidence_provenance`" (`docs/architecture.md:25`) | `MCPipeline_nojudge.cfg` with `JudgeConfigs = {TRUE}`, `Correlated = TRUE`, `MaxRuns = 2`: `CorrelatedRecordsMarked` |
| `cli.py:284` | the `mixture_*` files are written after the checksums, against "`checksums.sha256` covers all artifacts" (`docs/validation_and_provenance.md:22`); a second mixture in the same directory makes `sha256sum -c` fail | `RunDirectory_crash.cfg` with `Kinds = {"generate_mixture"}`: `ChecksumsCoverArtifacts` |
| `v2_hermes.py:371` | the label after one empty search is `finish`; the rules in the row (`:242`) say "Retry a failed or empty search once, then report." | `MCDatasetRows_all.cfg` with `Chosen = {"hermes_next_action"}`, the other two sets empty: `LabelIsReadable` |
| `control/families.py:361` | `answer_sufficiency` is yes when the article of the topic was found, also for a question it does not answer "completely" (`:349`) | `Chosen = {"control_answer_sufficiency"}`: `LabelIsReadable` |
| `jev_use_cases.py:69` | a shared identifier beside one that differs is `needs_review`; the policy in the row (`:58`) makes a match of "a shared email or phone number" | `Chosen = {"entity_resolution"}`: `LabelIsReadable` |
| `jev_use_cases.py:191` | `attack` needs a visible enemy; the policy in the row (`:174`) asks for the range only | `Chosen = {"game_control"}`: `LabelIsReadable` |
| `jev_use_cases.py:304` | a row that ends before it starts is invalid, which no constraint of the schema in the row says | `Chosen = {"row_validity"}`: `LabelIsReadable` |
| `programmatic/families.py:438` | the verifier of `underdetermined` never looks at the label, against "so a generator bug shows up as a test failure rather than as silent label noise" (`:18`); the same holds of Hermes' command and injection families, which check membership, and of the code packs, which have no verifier | `Chosen` and `MayMislabel` `{"underdetermined"}`: `PassedRowsHold` |
| `control/families.py:49` | with three or four prompts the index wraps around and evaluation rows get training prompts, against the "same discipline" of `:10` | `Chosen <- FewPhrasings`, `Wrapping = {}`: `PhrasingsHeldOut` |
| `next_action_router.py:211` | the tools that failed before decide the label and are neither extracted nor pinned, against "extracted facts must equal the world facts"; the other packs with such facts are listed below | `PassedRowsHold` without its condition on `unchecked` |
| `tool_call_risk.py:350` | one row of a contrastive pair can stand alone when its split is full or its posture capped, against the docstring (`:9`) | `MCCallRisk_small.cfg` with `Train <- OneOfThree`: `PairsComplete` |
| `tool_call_risk.py:324` | kubectl is the tool of training groups and of held-out groups, against "disjoint tools" (`:8`) | `MCCallRisk_small.cfg`: `ToolsHeldOut` |

Four more are assumptions that hold in the shipped configuration or limits the model states:

* `NearSplit => NearDup`: `_finalize` only logs what the isolation report finds. With a dedupe
  threshold above 0.92, or an embedder, near-duplicates of two splits can be accepted, against
  "SPLIT_OK → ACCEPTED: split isolation report; otherwise REJECTED".
* `HoldoutAssumption`: no train world is of a held-out scenario family, because `families_for` sampled it. A reverify
  computes the held-out families anew; had `holdout_families` or `holdout_max_share` changed in between, the
  report would fail and the rows would be accepted all the same.
* `late`: with `paused=1` the guard stops nothing more, so a job that starts during a pause runs on
  at any temperature, against "when either crosses PAUSE_C, SIGSTOPs every process matching PATTERN".
* `Instances` beyond `MaxLoaded`: eviction drops the cache's reference, not that of a request in
  flight, so more than `OSJ_MAX_LOADED` models can be in memory, against "up to `OSJ_MAX_LOADED`
  (default 2) stay in memory".

## What else reading the code for the models showed

Run directory. Nothing locks a directory. A command that dies between the worlds and the candidates
of a directory that was used before leaves new worlds beside old surfaces, and `load_run` joins them by
ids that every run numbers alike (`broken` is the condition of `LoadsOneGeneration`). Rows that
verify may have another run's text in raw/ after a crash, which the checksums do not cover. A
reverify into a new directory keeps paths into a raw/ that is not there; one in place that dies
while writing `candidates_raw.jsonl` loses its own input.

Packs. Facts that decide a label and that no one compares (`Unchecked`): the router's failed tools,
`shared_with_partners` in authorization, the authority and attribution of a source in entailment,
durations and authority in temporal reasoning, the required attributes of relevance, the primary act
of an ambiguous message, the date of a retrieval's context. The router answers `ask_user` also when
that is among the blocked actions. In three packs the policy text and the oracle differ,
off the worlds that are sampled (`Clear` says where, and TLC has evaluated both sides): termination retries
an absent artifact in a broken environment by the text's rule (2) and escalates in the code, and hands a
conflict over a defective artifact to a person by rule (3) where the code repairs it; retrieval answers from
the context by rule (1) where the code first asks about a missing key or a conflict, and where what the context has is too
old the code looks further; authorization lets an approved request proceed by its second clause, and the code asks
for approval of an external collaborator's confidential one all the same. The registry asks approval of
`send_message` by name, the gate by the side effect the metadata state: `EffectStated` is what keeps them together. Of a class named as "A or B" only
the first counts. `symbolic.py:33` calls the result independent of the rule order, which two
chained default rules would break; no pack has them.

Families. `long_policy` ranks neither its two exclusions nor the limit against the deductible, and
the samplers never draw both. A probability of exactly one half is labelled no. "Less than N months"
is N times 30.4375 days in `multi_hop_procedure`. Hermes' contrast pairs label install steps
injected that the other pools label clean. `test_locked` and `challenge` share a phrasing in the v2
families, and duplicates are removed within a split only. Calibration and locked test draw
held-out families only, so a pack may give them a single label. In `next_action` of `control/` the
rule that decides is not in the text; `tool_routing` sends "remove all my data" to the knowledge
base and "erase my data" to a human. `make_rows` of the code packs may return
fewer rows than asked, and asked for fewer than ten it draws all of them and then raises ValueError: a split without
rows has no rarest posture (`Raise` of `CallRisk`).

## Proofs

All theorems hold for every number of candidates and records, every similarity relation that is
symmetric, every set of worlds and every configuration, within the assumptions named in the
modules (`SimilarityAssumption`, `SizeAssumption`, ...), which TLC evaluates on the instances.

* `Selection_proofs`: the visiting order is total and transitive; every nonempty set of ids has a
  first one (`LeastNat` gives least numbers without an induction scheme); a kept set has no two
  duplicates; a dropped record is reported under a kept one that comes before it.
* `Dedupe_proofs`: the loop's invariant says that the visited ids are a prefix of the order, that
  `kept` is `Kept` of that prefix, that `exact` is the index of `kept` and that every drop is
  reported under the record `DuplicateOf` names. `LoopCorrect` is that invariant at the end.
  `SplitsAreSeparated` needs `NearSplit => NearDup` (the thresholds are ordered). `EasyShareIsCapped`
  is about numbers: `FirstFew` (of `Selection_proofs`) says that the ids which fewer than n others of
  a finite set precede are n in number, or all of it, and `CapIsTheShare` that the cap is at most 60% of what
  then stays and short of it by less than two rows, also where the float quotient is rounded down;
  `CutInv` says that `cut` is what `DiversitySelect` takes off.
* `Pipeline_proofs`: `Invariant` relates the stage of a candidate to what was decided about it in
  every phase, position by position of `pc`; `TypeOK` alone is not inductive because
  `Finalize` needs a surface behind every verified candidate. From it follow `GroundedCorrect`,
  `FailsClosedWithJudge` (under `JudgeConfigs = {TRUE}`), `VerdictsAreFinal`,
  `AcceptedAreDistinct`, `AcceptedAreIsolated` (for the held-out families by `HoldoutAssumption`, since
  a process's worlds are those it sampled, `FamiliesInv`) and the refinement of `Acceptance`, one step of
  the pipeline at a time. `GenerationVerdictsAreKept` and `DuplicatesGiveWayToKept` rest on
  `VerdictInv`: what a candidate's reasons say of its stage and its surface (`ReasonsInv`), that a row saved
  without a surface says why (`RowsInv`), that every candidate has been rendered once generation is past
  (`RenderedInv`), that a reverify works on the saved surfaces and reasons and has no others (`ReverifyInv`), and that
  only a finalized candidate can have been dropped as a duplicate (`DroppedInv`). `JudgeBudgetIsKept`
  rests on `BudgetInv`: the two counters are the sizes of two sets of candidates, which each step of the
  judge adds one candidate to or none, and no other step of a process changes.
* `Operations_proofs`, servers: under `MayStop` (unloading is on and every managed role has a stop command) whatever
  holds memory and is not in `strays` is the server of `running` or of the phase, and nothing once the process has ended:
  `HeldInv`. `LossInv` says that there are no more strays than mishaps; for a kill this needs `HeldInv`, by which
  at most one server is not lost already. `OneServerAtATime` and `NoServerLeft` follow, with servers that come up late, stop
  commands that fail, interrupts and kills at any point, and any number of processes. They do not say that
  nothing is up after a kill, which is false, but that it costs one server at most, also when several
  processes are killed one after the other. `PhasesAreServed` needs no assumption.
* `Gateway_proofs`: for any requests, models, instances and pool. `CacheSwitchContained` needs that
  the GPU's holder is exactly the request between `switching` and `restoring`, that what it holds
  has its own model, and that `saved` is TRUE, which is true because every switch is on whenever
  the lock is free. `CacheBounded` needs that the lock's holder is exactly the loading request.
  `SomeHandlerCanGo` is the half of `NobodyStuck` without `ENABLED`: whoever holds the loop is inside
  `get_backend` (`LoopInv`), whoever holds a thread is past the queue and, if inside `get_backend`, a gate
  (`TokensInv`), and with what is known of the two locks the chain of waits ends at a handler that waits for nothing.
* `Operations_proofs`, thermal guard: the types, and `NotForgotten`, under any faults. `NotForgotten` is not
  inductive: a guard between `ContinueJobs` and `UnpauseContainers` has `paused` set but has dealt with
  the jobs. `Remembered` asks for a guard that *will still* continue the jobs, and one that will still
  unpause the containers.
* `RunDirectory_proofs`: for any directories, commands and number of runs. The invariant says that the
  running command's files are its own and written in their order (`Progress`), that no file is of a
  process yet to come (`Known`), and what a list meant when it was taken (`SumsVouch`, `ManifestFresh`,
  `ManifestSeen`, `OneGeneration`). That numbers are not used twice carries the last four over to the
  commands that come after: a file that a list calls p and that is p now was not written since.
  `ManifestsAgree` has no run: TLC agrees with it, the runs' properties go to what it leaves open.

* `CallRisk_proofs`: for any groups that have one risky posture each, any count, commands and
  framings. `EvaluationIsHeldOut`: rows come from the groups of their split, those that the draw under way may still
  bring included (`DrawnInv`), and a group is dealt to one split (`DealtToOne`); three groups per risky posture suffice for
  every evaluation split to get one (`EveryRiskIsDealt`). `ReturnsBalanced` is the safety half of `Returns`: the
  cap is a positive number that is at most 1.3 times any posture that occurs, and it keeps the
  first rows of a posture, as many as it says or all of them.
* `DatasetRows_proofs`, situations: the runs visit the sampled worlds and the texts
  the model lets a writer compose. These theorems are about every combination of the facts a world has (`Situations`;
  numbers are any naturals or integers, attempts and sources any sets). `PolicyTextsDecide`: the printed policy
  gives the oracle's label in eleven packs; three carry `Clear`, which says of which situations the
  text says one thing (above), and three a condition on the shape of a world (a query that asks for something, a document
  that has the extracted fields, a message that does itself what it mainly does). `ComparedFactsDecide`: in ten packs the
  facts that `compare_facts` compares settle the label, those in `Unchecked` being as in the world. The argument is the same
  throughout: a policy is a list of clauses of which the first that holds decides, and `LeastIs` makes that a
  case per clause; then the oracle's branches are the same cases (`RouteUnrolled`, `DeadlineLadder`,
  `CutoffsAbove`). `AllowedCallsExecute`: an allowed call runs. `PhrasingsAreHeldOut`: `_variant` keeps training's
  phrasings out of the other splits exactly for five phrasings or more. `DrawnAssumption` of
  `DatasetRows`, which TLC evaluates, says that the sampled worlds and the texts are situations and meet these conditions.

* `DatasetRows_proofs`, rows: the invariants of the `rows` run, for every choice of packs and families, of
  generators with a bug (`MayMislabel`) and of families known to wrap around. `RowInv` is inductive: where a row is between
  `Sample` or `Generate` and the verdict, and that its label, text, options and phrasing come from the one
  entry of `Packs` or `Families` it names. `TablesApart` says that the merged tables do not hide an
  entry of each other, so what is shown of `V2!Families["policy_precedence"]` is a fact about a row of that name.
  What is left is one lemma per entry:
  * `Sound(p)` of a pack: the reader of the printed policy gives the oracle's label, whatever passes the comparison keeps
    the label, and a text that states its world passes. The eleven packs of `PolicyTextsDecide`, through
    `DrawnAssumption`, the class packs, and `document_type`: whatever features a text has, 60% of those of one class and none
    of another make it of that class (`OneClassIsClear`), and none at all make it `other` (`NoClassIsOther`).
  * `Honest(f)` of a family: gold and every acceptable answer are what the printed rules give, and gold passes the verifier;
    `Recomputes(f)` adds that the verifier lets nothing through that the rules do not give (`CatchesBugs`). Code and rules are
    two definitions, written from two places of the source, so each lemma is an argument: in `policy_precedence` the clause
    with the least number that applies is the one no other prevails over; in `ambiguous_routing` the largest weight is
    what the four sentences describe; in `weighted_tradeoff` a total near the best is a lead no option has; where rules
    are a list, `FirstRuleDecides` makes a case per rule, and where points add up to a level, `FloorsPassed` counts
    the floors reached.

  `LabelsAreReadable` and `FaithfulRowsPass` ask for `Chosen \subseteq ArguedPacks \cup ArguedFamilies` (all but
  three packs and eight families, listed below), `PassedRowsAreRight` also for `MayMislabel \subseteq RecomputedFamilies`:
  a family whose verifier does not look at the label passes whatever its generator does, which is a difference listed
  above. `TrainingKeepsItsPhrasings` asks that the families of `control/families.py`, which all have fewer
  than five phrasings, are in `Wrapping`. `AllowedCallsOfRowsRun` asks for nothing.

Model-checked only:

* liveness: `Terminates` (of `ServerController`), `Resumed`, `Protected`, and that `make_rows` returns (`Returns`);
* that a handler which can go on can take a step (`ENABLED`, in `NobodyStuck`);
* `LabelIsReadable`, `PassedRowsHold` and `HonestRowsPass` for the packs `temporal_reasoning`, `rule_application` and
  `semantic_entailment`, whose oracle saturates rules or follows an event to its anchor (a recursive function: what it
  computes for every input needs an induction over data); and for the families
  `probability_exact` and `sampling_probability`, which count samples, and `temporal_calendar`, which counts days one by
  one. TLC visits all of their worlds;
* the same three for the five families that break their own rules (in the table above): for those they are false.

## Not modelled, and why

* The text of prompts, answers and records, and with it the gates' patterns. Security of the gate's
  patterns is not a subject here.
* The LLM clients: one call is a loop of at most `max_retries` attempts whose state dies with it. An
  attempt that only learns that the server refuses the schema counts, so `max_retries = 1` cannot
  fall back; a stub server in a unit test reaches all of it.
* Scenario sampling, mixtures, splits: single passes of arithmetic over counts. Two of their edges
  are worth a unit test: `max(1, int(n * share))` lets the smallest family exceed its share, and the
  mixture's limit per pack may exceed `max_share`. What depends on their order, files written after
  checksums and ids that repeat, is in `RunDirectory`.
* `policy.resolve` and the confidence thresholds: one expression on a gate's answer.
* Numerical code (training, calibration, metrics, experiments), plots, release scripts.
* Of the gateway: the remote and the trtllm backends (one fixed backend, no cache), authentication,
  which takes a thread of the pool for an instant, and the conversion of the wire formats.
* Of the packs: the prompt templates and the repair of a surface inside one render call; of the
  families: the wording, apart from the rules it prints, and the random draws between boundary values.

## Plan

1. `Selection`, `Dedupe`, `Acceptance`, `Pipeline`, `ServerController`, `Gateway`, `ThermalGuard` with
   their proofs: done.
2. `RunDirectory` with its proofs: done.
3. The packs and families, `DatasetRows`, `CallRisk`: done.
4. The proofs of `EasyShareCapped`, `DuplicatesGiveWay`, `JudgeBudget`, `GenerationVerdictsKept`,
   `EvaluationHeldOut` and of the lock order in `NobodyStuck`: done.
5. The packs whose rules are clauses, proved for every combination of the facts of a world: done.
6. The invariants of `rows`, proved for the runs of the packs and families that are argued for: done.
7. Left: the remote backends of the gateway.
