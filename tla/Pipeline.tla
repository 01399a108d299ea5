------------------------------ MODULE Pipeline ------------------------------
(***************************************************************************)
(* One run of the dataset pipeline (generation/pipeline.py): the phases    *)
(* sample, generate, verify, judge, support and finalize, then the write   *)
(* of the run directory, and a later `reverify' of that directory by a new *)
(* process.  A candidate is the pair (world, variant); candidates are      *)
(* numbered in the order of Pipeline.cands, which within a pack is also    *)
(* the order of their record ids.                                          *)
(*                                                                         *)
(* The models are nondeterministic: what a generator, a verifier, a judge  *)
(* or the blind solver answers is any of the answers the code tells apart. *)
(***************************************************************************)
EXTENDS Selection

CONSTANTS
  N,                 \* number of candidates
  Worlds,            \* the assignments of worlds to candidates sampling may return
  JudgeConfigs,      \* values of "a judge client exists and use_judge is set"
  JudgePct,          \* validation.judge_max_share in percent
  SupportMode,       \* generation.supportability
  EnforcingPacks,    \* packs whose own supportability is "reject"
  Correlated,        \* generator and verifier share an endpoint or a model
  MaxRuns            \* bound: processes started, the first one included

Cand  == 1 .. N
World == [pack : Packs, split : Split, rank : Rank, family : Nat, held : BOOLEAN]

ASSUME SizeAssumption == N \in Nat \ {0} /\ MaxRuns \in Nat
ASSUME WorldAssumption == Worlds \subseteq [Cand -> World]
\* families_for: train draws from the scenario families that are not held out.  Every
\* process of a run holds out the same ones: family_split has no other input than the pack
\* and holdout_max_share.
ASSUME HoldoutAssumption == \A w \in Worlds : HeldOutOfTrain(Cand, w)
ASSUME ConfigAssumption ==
  /\ JudgeConfigs \subseteq BOOLEAN /\ JudgePct \in Nat
  /\ SupportMode \in {"reject", "tag", "off"} /\ EnforcingPacks \subseteq Packs
  /\ Correlated \in BOOLEAN

None == "none"
Stage == {"oracle_ok", "anchors_ok", "verified", "accepted", "rejected"}
Reason == {"generation_failed", "schema", "leak", "anchor", "verifier_failed", "mismatch",
           "fact_unverifiable", "judge_failed", "judge_reject", "human_review",
           "supportability", "policy", "dedupe", "diversity_cap"}
\* A schema-valid surface: its visible text and what the deterministic gates find in it.
Surface == [text : Texts, gate : {"ok", "leak", "anchor"}]
NoSurface == [gate |-> "none"]
SurfaceOrNone == Surface \cup {NoSurface}
Candidate == [stage : Stage, reasons : SUBSET Reason, surface : SurfaceOrNone,
              lower_confidence : BOOLEAN, extraction : {None, "match", "unverifiable", "other"},
              judged : BOOLEAN, support : {"pending", "skipped", "supported", "tagged"},
              dup_of : Cand \cup {0}]
Fresh == [stage |-> "oracle_ok", reasons |-> {}, surface |-> NoSurface, lower_confidence |-> FALSE,
          extraction |-> None, judged |-> FALSE, support |-> "pending", dup_of |-> 0]
\* What a row of candidates_raw.jsonl and rejected.jsonl keep of a candidate.
Row == [surface : SurfaceOrNone, reasons : SUBSET Reason]
NoRun == << >>

Phase == {"sample", "generate", "verify", "judge", "support", "finalize"}
PhaseAfter(p, m) ==
  CASE p = "sample"   -> "generate"
    [] p = "generate" -> IF m = "generate_only" THEN "write" ELSE "verify"
    [] p = "verify"   -> "judge"
    [] p = "judge"    -> "support"
    [] p = "support"  -> "finalize"
    [] OTHER          -> "write"

VARIABLES
  pc,        \* the phase the scheduler is at, or "write", "load", "done", "aborted"
  started,   \* the phase's server is up and its function runs
  mode,      \* the entry point of this process
  runs,      \* processes started so far
  judgeOn,   \* a judge client exists and use_judge is set, in this process
  world,     \* the sampled worlds, by candidate
  cand,      \* Pipeline.cands
  routed,    \* Pipeline.judge_routed
  human,     \* Pipeline.human_review
  iso,       \* check_records' report on the last finalized records
  disk       \* candidates_raw.jsonl and rejected.jsonl of the last written run
vars == <<pc, started, mode, runs, judgeOn, world, cand, routed, human, iso, disk>>
process == <<mode, runs, judgeOn>>

Alive(c)    == cand[c].stage # "rejected"
Verified    == {c \in Cand : cand[c].stage = "verified"}
\* Mutated form: everything that is not verified, the rejected included.
Unresolved_DeadToo == {c \in Cand : cand[c].stage # "verified"}
Unresolved  == {c \in Cand : Alive(c) /\ cand[c].stage # "verified"}
Accepted    == {c \in Cand : cand[c].stage = "accepted"}
\* Candidate.reject
Reject(k, reason) == [k EXCEPT !.stage = "rejected", !.reasons = @ \cup {reason}]

Init ==
  /\ pc = "sample" /\ started = FALSE /\ runs = 1
  /\ mode \in {"run", "generate_only"} /\ judgeOn \in JudgeConfigs
  /\ world \in Worlds /\ cand = [c \in Cand |-> Fresh]
  /\ routed = 0 /\ human = 0 /\ iso = TRUE /\ disk = NoRun

-----------------------------------------------------------------------------
(* PhaseScheduler.run: a phase whose `when' is false is skipped.  Starting  *)
(* its server may fail, which aborts the process before anything is written *)
(* (the exception of on_start is not caught); generate_only has no hooks    *)
(* and starts no server.                                                    *)

When(p) == CASE p = "judge"   -> judgeOn /\ Unresolved # {}
             [] p = "support" -> mode = "reverify" \/ Verified # {}
             [] OTHER         -> TRUE

SkipPhase ==
  /\ pc \in Phase /\ ~started /\ ~When(pc)
  /\ pc' = PhaseAfter(pc, mode)
  /\ UNCHANGED <<started, process, world, cand, routed, human, iso, disk>>

StartPhase ==
  /\ pc \in Phase /\ ~started /\ When(pc)
  /\ started' = TRUE
  /\ UNCHANGED <<pc, process, world, cand, routed, human, iso, disk>>

ServerFailed ==
  /\ pc \in {"generate", "verify", "judge", "support"} /\ ~started /\ When(pc)
  /\ mode # "generate_only" /\ pc' = "aborted"
  /\ UNCHANGED <<started, process, world, cand, routed, human, iso, disk>>

EndPhase(workLeft) ==
  /\ started /\ ~workLeft
  /\ started' = FALSE /\ pc' = PhaseAfter(pc, mode)
  /\ UNCHANGED <<process, world, cand, routed, human, iso, disk>>

-----------------------------------------------------------------------------
(* _sample: check_worlds aborts the run when two splits share a template    *)
(* family (scenario ids and entity pools are checked in the same way).      *)

\* Mutated form: the violation is reported and the run goes on.
Sample_WarnsOnly ==
  /\ pc = "sample" /\ started
  /\ started' = FALSE /\ pc' = PhaseAfter(pc, mode)
  /\ UNCHANGED <<process, world, cand, routed, human, iso, disk>>

Sample ==
  /\ pc = "sample" /\ started
  /\ started' = FALSE
  /\ pc' = IF FamiliesIsolated(Cand, world) THEN PhaseAfter(pc, mode) ELSE "aborted"
  /\ UNCHANGED <<process, world, cand, routed, human, iso, disk>>

DetGates(k) ==
  IF k.surface.gate = "ok" THEN [k EXCEPT !.stage = "anchors_ok"] ELSE Reject(k, k.surface.gate)

(* _render_one, by any worker of the thread pool on any candidate not yet   *)
(* rendered: the call fails, no answer fits the schema, or a surface.       *)
ToRender == {c \in Cand : cand[c].stage = "oracle_ok"}
Rendered(k) ==
  {Reject(k, r) : r \in {"generation_failed", "schema"}} \cup
  {DetGates([k EXCEPT !.surface = s, !.lower_confidence = Correlated]) : s \in Surface}

RenderOne(c) ==
  /\ pc = "generate" /\ started /\ c \in ToRender
  /\ \E k \in Rendered(cand[c]) : cand' = [cand EXCEPT ![c] = k]
  /\ UNCHANGED <<pc, started, process, world, routed, human, iso, disk>>

EndGenerate == pc = "generate" /\ EndPhase(ToRender # {})

-----------------------------------------------------------------------------
(* _verify_one, by any worker on any live candidate: the call or the parse  *)
(* fails, a fact is contradicted, a fact is unknown, or every fact matches. *)
ToVerify == {c \in Cand : Alive(c) /\ cand[c].extraction = None}

\* Mutated form: unknown facts are looked at before contradicted ones.
Compared_UnknownFirst(k) ==
  {[k EXCEPT !.extraction = e] : e \in {"other", "unverifiable"}} \cup
  {[k EXCEPT !.extraction = "match", !.stage = "verified"]}

Compared(k) ==
  {Reject([k EXCEPT !.extraction = "other"], r) : r \in {"verifier_failed", "mismatch"}} \cup
  {[k EXCEPT !.extraction = "unverifiable"], [k EXCEPT !.extraction = "match", !.stage = "verified"]}

VerifyOne(c) ==
  /\ pc = "verify" /\ started /\ c \in ToVerify
  /\ \E k \in Compared(cand[c]) : cand' = [cand EXCEPT ![c] = k]
  /\ UNCHANGED <<pc, started, process, world, routed, human, iso, disk>>

EndVerify == pc = "verify" /\ EndPhase(ToVerify # {})

-----------------------------------------------------------------------------
(* _judge: one loop over the unresolved candidates in list order.  The      *)
(* first JudgeCap of them are routed to the judge, the others rejected.     *)
JudgeCap == LET share == (JudgePct * N) \div 100 IN IF share > 1 THEN share ELSE 1
FirstOf(S, c) == c \in S /\ \A d \in S : c <= d

\* Mutated form: one candidate too many is routed.
JudgeOne_OffByOne(c) ==
  /\ pc = "judge" /\ started /\ FirstOf(Unresolved, c)
  /\ routed' = IF routed > JudgeCap THEN routed ELSE routed + 1
  /\ \/ routed > JudgeCap /\ cand' = [cand EXCEPT ![c] = Reject(@, "fact_unverifiable")]
     \/ routed <= JudgeCap /\ cand' = [cand EXCEPT ![c] = Reject(@, "judge_failed")]
  /\ UNCHANGED <<pc, started, process, world, human, iso, disk>>

\* judge failure, reject verdict, accept verdict
Ruled(k) == {Reject(k, "judge_failed"), Reject([k EXCEPT !.judged = TRUE], "judge_reject"),
             [k EXCEPT !.judged = TRUE, !.stage = "verified"]}

JudgeOne(c) ==
  /\ pc = "judge" /\ started /\ FirstOf(Unresolved, c)
  /\ \/ /\ routed >= JudgeCap
        /\ cand' = [cand EXCEPT ![c] = Reject(@, "fact_unverifiable")]
        /\ UNCHANGED <<routed, human>>
     \/ /\ routed < JudgeCap /\ routed' = routed + 1
        /\ \/ /\ \E k \in Ruled(cand[c]) : cand' = [cand EXCEPT ![c] = k]
              /\ UNCHANGED human
           \/ /\ cand' = [cand EXCEPT ![c] = Reject([@ EXCEPT !.judged = TRUE], "human_review")]
              /\ human' = human + 1
  /\ UNCHANGED <<pc, started, process, world, iso, disk>>

\* Mutated form: the loop is left at the cap.
EndJudge_AtCap == pc = "judge" /\ EndPhase(Unresolved # {} /\ routed < JudgeCap)

EndJudge == pc = "judge" /\ EndPhase(Unresolved # {})

-----------------------------------------------------------------------------
(* _support: the blind solve.  A wrong or invalid choice rejects where the  *)
(* audit is enforced; elsewhere, and for any weaker remark (an unparseable  *)
(* answer included), the row is only tagged.                                *)
ToAudit == {c \in Verified : cand[c].support = "pending"}
Enforced(c) == /\ SupportMode = "reject" /\ world[c].pack \in EnforcingPacks
               /\ world[c].split # "challenge"

Audited(c) ==
  {[cand[c] EXCEPT !.support = v] : v \in {"supported", "tagged"}} \cup
  (IF Enforced(c) THEN {Reject(cand[c], "supportability")} ELSE {})

AuditOne(c) ==
  /\ pc = "support" /\ started /\ SupportMode # "off" /\ c \in ToAudit
  /\ \E k \in Audited(c) : cand' = [cand EXCEPT ![c] = k]
  /\ UNCHANGED <<pc, started, process, world, routed, human, iso, disk>>

SkipAudit ==
  /\ pc = "support" /\ started /\ SupportMode = "off"
  /\ cand' = [c \in Cand |-> IF c \in Verified THEN [cand[c] EXCEPT !.support = "skipped"] ELSE cand[c]]
  /\ started' = FALSE /\ pc' = PhaseAfter(pc, mode)
  /\ UNCHANGED <<process, world, routed, human, iso, disk>>

EndSupport == pc = "support" /\ SupportMode # "off" /\ EndPhase(ToAudit # {})

-----------------------------------------------------------------------------
(* _make_record, as far as Selection looks at it *)
MakeRecord(c) == [pack |-> world[c].pack, split |-> world[c].split, rank |-> world[c].rank,
                  family |-> world[c].family, held |-> world[c].held,
                  text |-> cand[c].surface.text]
Records(S) == [c \in S |-> MakeRecord(c)]

(* _finalize: the oracle re-run and the record validation reject the set    *)
(* `bad', then dedupe keeps K and diversity_select cuts some of K; what is  *)
(* left is accepted whatever the isolation report says.                     *)
Finalized(c, bad, K, rec) ==
  IF c \notin Verified THEN cand[c]
  ELSE IF c \in bad THEN Reject(cand[c], "policy")
  ELSE IF c \notin K THEN Reject([cand[c] EXCEPT !.dup_of = DuplicateOf(K, rec, c)], "dedupe")
  ELSE IF c \in EasyCut(K, rec) THEN Reject(cand[c], "diversity_cap")
  ELSE [cand[c] EXCEPT !.stage = "accepted"]

Finalize ==
  /\ pc = "finalize" /\ started
  /\ \E bad \in SUBSET Verified : \E K \in SUBSET (Verified \ bad) :
       LET rec == Records(Verified \ bad) IN
       /\ Kept(K, rec)
       /\ cand' = [c \in Cand |-> Finalized(c, bad, K, rec)]
       /\ iso' = Isolated(K \ EasyCut(K, rec), rec)
  /\ started' = FALSE /\ pc' = PhaseAfter(pc, mode)
  /\ UNCHANGED <<process, world, routed, human, disk>>

(* An OracleError, while sampling or in rerun_oracle, is never a rejection: *)
(* it aborts the process, whose candidates are lost.                        *)
OracleFailed ==
  /\ pc \in {"sample", "finalize"} /\ started /\ (pc = "finalize" => Verified # {})
  /\ pc' = "aborted" /\ started' = FALSE
  /\ UNCHANGED <<process, world, cand, routed, human, iso, disk>>

-----------------------------------------------------------------------------
(* write_run, and the partial run directory generate_only writes.           *)
Write ==
  /\ pc = "write" /\ pc' = "done"
  /\ disk' = [c \in Cand |-> [surface |-> cand[c].surface,
                              reasons |-> IF Alive(c) THEN {} ELSE cand[c].reasons]]
  /\ UNCHANGED <<started, process, world, cand, routed, human, iso>>

(* `os-datagen reverify': a new process, with its own judge configuration.  *)
StartReverify ==
  /\ pc \in {"done", "aborted"} /\ disk # NoRun /\ runs < MaxRuns
  /\ pc' = "load" /\ started' = FALSE /\ mode' = "reverify" /\ runs' = runs + 1
  /\ judgeOn' \in JudgeConfigs
  /\ cand' = [c \in Cand |-> Fresh] /\ routed' = 0 /\ human' = 0 /\ iso' = TRUE
  /\ UNCHANGED <<world, disk>>

(* load_run: a row without surface is rejected for its old reasons, a       *)
(* surface goes through the deterministic gates again.  lower_confidence is *)
(* not restored.                                                            *)
\* Mutated forms: the old reasons are forgotten; a saved surface is trusted.
Loaded_Forgets(row) ==
  IF row.surface = NoSurface THEN Reject(Fresh, "generation_failed")
  ELSE DetGates([Fresh EXCEPT !.surface = row.surface])
Loaded_Trusts(row) ==
  IF row.surface = NoSurface THEN [Fresh EXCEPT !.stage = "rejected", !.reasons = row.reasons]
  ELSE [Fresh EXCEPT !.stage = "anchors_ok", !.surface = row.surface]

Loaded(row) ==
  IF row.surface = NoSurface
  THEN [Fresh EXCEPT !.stage = "rejected",
                     !.reasons = IF row.reasons = {} THEN {"generation_failed"} ELSE row.reasons]
  ELSE DetGates([Fresh EXCEPT !.surface = row.surface])

LoadRun ==
  /\ pc = "load" /\ pc' = "verify"
  /\ cand' = [c \in Cand |-> Loaded(disk[c])]
  /\ UNCHANGED <<started, process, world, routed, human, iso, disk>>

-----------------------------------------------------------------------------
Work == \/ SkipPhase \/ StartPhase \/ Sample
        \/ (\E c \in Cand : RenderOne(c) \/ VerifyOne(c) \/ JudgeOne(c) \/ AuditOne(c))
        \/ EndGenerate \/ EndVerify \/ EndJudge \/ EndSupport \/ SkipAudit
        \/ Finalize \/ Write \/ LoadRun

Next == Work \/ ServerFailed \/ OracleFailed \/ StartReverify

Spec == Init /\ [][Next]_vars

-----------------------------------------------------------------------------
(* Properties *)

Finished == pc = "done" /\ mode # "generate_only"

\* The fields of the candidates, the counters and the saved rows have their types.
TypeOK ==
  /\ pc \in Phase \cup {"write", "load", "done", "aborted"} /\ started \in BOOLEAN
  /\ mode \in {"run", "generate_only", "reverify"} /\ runs \in Nat /\ judgeOn \in BOOLEAN
  /\ world \in [Cand -> World] /\ cand \in [Cand -> Candidate]
  /\ routed \in Nat /\ human \in Nat /\ iso \in BOOLEAN
  /\ disk \in [Cand -> Row] \cup {NoRun}

(* "Validation fails closed and every rejection is written to               *)
(* rejected.jsonl": when a full run ends every candidate is accepted, or    *)
(* rejected with a reason; none is left in between, in neither file.        *)
FailsClosed ==
  Finished => \A c \in Cand : \/ cand[c].stage = "accepted"
                              \/ cand[c].stage = "rejected" /\ cand[c].reasons # {}

(* Nobody's word replaces a gate: an accepted row passed the deterministic  *)
(* gates on the very surface that is published, was not audited away, and   *)
(* its facts were all extracted, or the judge let the unknown ones pass; a  *)
(* fact the verifier contradicted is never overruled.  Holds through a      *)
(* reverify too, which starts from saved surfaces.                          *)
Grounded ==
  \A c \in Cand : cand[c].stage \in {"verified", "accepted"} =>
    /\ cand[c].surface # NoSurface /\ cand[c].surface.gate = "ok"
    /\ \/ cand[c].extraction = "match"
       \/ cand[c].extraction = "unverifiable" /\ cand[c].judged /\ judgeOn

(* No two accepted records of a pack are duplicates of each other, whatever *)
(* their splits and although similarity is not transitive.                  *)
AcceptedDistinct ==
  \A c, d \in Accepted : c # d => ~ Duplicates(MakeRecord(c), MakeRecord(d))

(* A record dropped as a duplicate gives way to one that deduplication kept *)
(* and that is at least as hard: losing a hard row to an easy copy, or to a *)
(* copy that is itself dropped as a duplicate, cannot happen.               *)
DuplicatesGiveWay ==
  \A c \in Cand : "dedupe" \in cand[c].reasons =>
    LET k == cand[c].dup_of IN
    /\ "dedupe" \notin cand[k].reasons /\ Duplicates(MakeRecord(k), MakeRecord(c))
    /\ world[k].rank >= world[c].rank
    /\ cand[k].stage \in {"accepted", "rejected"}

(* judge_max_share bounds the calls to the judge (never below one), and the *)
(* counters of the manifest are those of the candidates themselves.         *)
JudgeBudget ==
  /\ routed <= JudgeCap
  /\ routed = Cardinality({c \in Cand : cand[c].judged \/ "judge_failed" \in cand[c].reasons})
  /\ human = Cardinality({c \in Cand : "human_review" \in cand[c].reasons})

(* Records that reach the accepted files of two splits share no template    *)
(* family and no near-duplicate text, and none of train is of a held-out    *)
(* scenario family, as the isolation report must prove.                     *)
AcceptedIsolated == Finished => Isolated(Accepted, Records(Accepted))

(* What generation decided is not decided again by a reverify: a candidate  *)
(* without surface keeps its rejection and its reasons, and one stopped by  *)
(* a deterministic gate is stopped by the same gate.                        *)
GenerationVerdictsKept ==
  mode = "reverify" /\ pc # "load" /\ disk # NoRun => \A c \in Cand :
    /\ disk[c].surface = NoSurface => cand[c].stage = "rejected" /\ cand[c].reasons = disk[c].reasons
    /\ disk[c].surface # NoSurface /\ disk[c].surface.gate # "ok"
         => cand[c].stage = "rejected" /\ cand[c].reasons = {disk[c].surface.gate}

(* "if they point at the same endpoint/model the run warns and marks        *)
(* records lower_confidence_provenance".                                    *)
CorrelatedRecordsMarked == Correlated => \A c \in Accepted : cand[c].lower_confidence

(* Within a process a verdict is final: no later phase, loop or worker      *)
(* revives a rejected candidate, adds to its reasons, or takes an accepted  *)
(* one back.                                                                *)
VerdictsFinal ==
  [][runs' = runs => \A c \in Cand : cand[c].stage \in {"rejected", "accepted"} => cand'[c] = cand[c]]_vars

(* The pipeline implements Acceptance: verdicts are settled once, nothing   *)
(* is published while a candidate is undecided.                             *)
Verdict(c) == IF cand[c].stage \in {"accepted", "rejected"} THEN cand[c].stage ELSE "pending"
A == INSTANCE Acceptance WITH
       verdict <- [c \in Cand |-> Verdict(c)],
       status  <- IF Finished THEN "published" ELSE IF pc = "aborted" THEN "failed" ELSE "open",
       epoch   <- runs
ImplementsAcceptance == A!Spec
=============================================================================
