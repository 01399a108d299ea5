-------------------------- MODULE Pipeline_proofs ---------------------------
(***************************************************************************)
(* Proofs about Pipeline, for any number of candidates, any worlds, texts  *)
(* and similarity relations and any number of processes.                   *)
(***************************************************************************)
EXTENDS Pipeline, Selection_proofs, FiniteSetTheorems

-----------------------------------------------------------------------------
(* The inductive invariant.  Beside the types it says where a candidate     *)
(* stands at each stage, that the judge runs only when there is one, and    *)
(* which candidates a phase can still find undecided.                       *)

Sound(k) ==
  /\ k.stage = "oracle_ok" => k.extraction = None
  /\ k.stage \in {"anchors_ok", "verified", "accepted"} => k.surface # NoSurface /\ k.surface.gate = "ok"
  /\ k.stage = "anchors_ok" => k.extraction \in {None, "unverifiable"}
  /\ k.stage \in {"verified", "accepted"} =>
       k.extraction = "match" \/ (k.extraction = "unverifiable" /\ k.judged /\ judgeOn)
  /\ k.stage = "rejected" => k.reasons # {}

Written == pc \in {"write", "done"}
FullRun == Written /\ mode # "generate_only"

StagesInv  == \A c \in Cand : Sound(cand[c])
ProcessInv == /\ judgeOn \in JudgeConfigs
              /\ pc = "judge" /\ started => judgeOn
              /\ pc = "load" => disk # NoRun /\ \A c \in Cand : cand[c] = Fresh
              /\ mode = "generate_only" => pc \in {"sample", "generate", "write", "done", "aborted"}
              /\ ~ Written => Accepted = {}
SettledInv == /\ pc \in {"verify", "judge"} => ToRender = {}
              /\ pc = "judge" => ToVerify = {}
              /\ pc \in {"support", "finalize"} /\ judgeOn => Unresolved = {}
              /\ FullRun /\ judgeOn => \A c \in Cand : cand[c].stage \in {"accepted", "rejected"}
IInv == TypeOK /\ StagesInv /\ ProcessInv /\ SettledInv

-----------------------------------------------------------------------------
(* Steps that leave the candidates alone *)

LEMMA RejectIsTyped ==
  ASSUME NEW k \in Candidate, NEW r \in Reason
  PROVE  Reject(k, r) \in Candidate /\ Reject(k, r).stage = "rejected" /\ Reject(k, r).reasons # {}
BY DEF Reject, Candidate, Stage

LEMMA FreshIsTyped == Fresh \in Candidate
BY DEF Fresh, Candidate, Stage, SurfaceOrNone, None

LEMMA IsolatedIsBoolean == \A S, rec : Isolated(S, rec) \in BOOLEAN
BY DEF Isolated, FamiliesIsolated, HeldOutOfTrain, TextsIsolated

LEMMA InitIInv == Init => IInv
<1> SUFFICES ASSUME Init PROVE IInv
  OBVIOUS
<1>1. TypeOK
  BY FreshIsTyped, WorldAssumption, ConfigAssumption DEF Init, TypeOK, Phase, NoRun
<1>2. \A c \in Cand : cand[c] = Fresh
  BY DEF Init
<1>3. StagesInv
  BY <1>2 DEF StagesInv, Sound, Fresh
<1>4. ProcessInv
  BY <1>2 DEF Init, ProcessInv, Written, Accepted, Fresh
<1>5. SettledInv
  BY DEF Init, SettledInv, FullRun, Written
<1> QED
  BY <1>1, <1>3, <1>4, <1>5 DEF IInv

\* StagesInv only depends on the candidates and on judgeOn.
LEMMA SameCandidates ==
  ASSUME StagesInv, UNCHANGED <<cand, judgeOn>>
  PROVE  StagesInv' /\ ToRender' = ToRender /\ ToVerify' = ToVerify
         /\ Unresolved' = Unresolved /\ Verified' = Verified /\ Accepted' = Accepted
BY DEF StagesInv, Sound, ToRender, ToVerify, Unresolved, Alive, Verified, Accepted

LEMMA SchedulerSteps ==
  ASSUME IInv, \/ SkipPhase \/ StartPhase \/ ServerFailed \/ Sample \/ OracleFailed
               \/ EndGenerate \/ EndVerify \/ EndJudge \/ EndSupport
  PROVE  IInv'
<1> USE DEF IInv
<1>1. UNCHANGED <<cand, judgeOn, mode, disk, world, runs, routed, human, iso>>
  BY DEF SkipPhase, StartPhase, ServerFailed, Sample, OracleFailed, EndGenerate, EndVerify,
         EndJudge, EndSupport, EndPhase, process
<1>2. StagesInv' /\ ToRender' = ToRender /\ ToVerify' = ToVerify
         /\ Unresolved' = Unresolved /\ Verified' = Verified /\ Accepted' = Accepted
  BY <1>1, SameCandidates
<1>3. TypeOK'
  BY <1>1 DEF TypeOK, SkipPhase, StartPhase, ServerFailed, Sample, OracleFailed, EndGenerate, EndVerify,
         EndJudge, EndSupport, EndPhase, PhaseAfter, Phase
<1>4. ProcessInv'
  BY <1>1, <1>2 DEF ProcessInv, Written, TypeOK, SkipPhase, StartPhase, ServerFailed, Sample,
         OracleFailed, EndGenerate, EndVerify, EndJudge, EndSupport, EndPhase, PhaseAfter, Phase, When
<1>5. SettledInv'
  BY <1>1, <1>2 DEF SettledInv, FullRun, Written, ProcessInv, SkipPhase, StartPhase, ServerFailed, Sample,
         OracleFailed, EndGenerate, EndVerify, EndJudge, EndSupport, EndPhase, PhaseAfter, Phase, When
<1> QED
  BY <1>2, <1>3, <1>4, <1>5

-----------------------------------------------------------------------------
(* Steps that change one candidate *)

LEMMA OneCandidate ==
  ASSUME IInv, NEW c \in Cand, NEW k \in Candidate, Sound(k), k.stage # "accepted",
         cand' = [cand EXCEPT ![c] = k], UNCHANGED <<pc, started, process, world, iso, disk>>,
         pc # "load", routed' \in Nat, human' \in Nat
  PROVE  /\ TypeOK' /\ StagesInv'
         /\ ~ Written => ProcessInv'
<1> USE DEF IInv
<1>1. TypeOK'
  BY DEF TypeOK, process
<1>2. ASSUME NEW d \in Cand PROVE Sound(cand[d])'
  <2>1. cand'[d] = IF d = c THEN k ELSE cand[d]
    BY DEF TypeOK
  <2>2. judgeOn' = judgeOn
    BY DEF process
  <2>3. Sound(cand[d])
    BY DEF StagesInv
  <2> QED
    BY <2>1, <2>2, <2>3 DEF Sound
<1>3. ASSUME ~ Written PROVE ProcessInv'
  <2>1. Accepted' = {}
    BY <1>3 DEF Accepted, ProcessInv, TypeOK
  <2> QED
    BY <2>1 DEF ProcessInv, process
<1> QED
  BY <1>1, <1>2, <1>3 DEF StagesInv

LEMMA GatedIsSound ==
  ASSUME NEW k \in Candidate, k.surface \in Surface, k.extraction = None, k.stage # "accepted"
  PROVE  /\ DetGates(k) \in Candidate /\ Sound(DetGates(k))
         /\ DetGates(k).stage \in {"anchors_ok", "rejected"}
<1>1. CASE k.surface.gate = "ok"
  <2>1. DetGates(k) = [k EXCEPT !.stage = "anchors_ok"]
    BY <1>1 DEF DetGates
  <2> QED
    BY <1>1, <2>1 DEF Candidate, Stage, Sound, NoSurface, Surface, None
<1>2. CASE k.surface.gate # "ok"
  <2>1. DetGates(k) = Reject(k, k.surface.gate) /\ k.surface.gate \in Reason
    BY <1>2 DEF DetGates, Surface, Reason
  <2> QED
    BY <2>1, RejectIsTyped DEF Sound
<1> QED
  BY <1>1, <1>2

LEMMA RejectedIsSound ==
  ASSUME NEW k \in Candidate, NEW r \in Reason
  PROVE  Reject(k, r) \in Candidate /\ Sound(Reject(k, r)) /\ Reject(k, r).stage = "rejected"
BY RejectIsTyped DEF Sound

LEMMA RenderStep ==
  ASSUME IInv, NEW c \in Cand, RenderOne(c)
  PROVE  IInv'
<1> DEFINE k0 == cand[c]
<1>1. PICK k \in Rendered(k0) : cand' = [cand EXCEPT ![c] = k]
  BY DEF RenderOne
<1>2. k0 \in Candidate /\ k0.stage = "oracle_ok" /\ k0.extraction = None
  BY DEF RenderOne, ToRender, IInv, TypeOK, StagesInv, Sound
<1>3. k \in Candidate /\ Sound(k) /\ k.stage # "accepted"
  <2>1. CASE \E r \in {"generation_failed", "schema"} : k = Reject(k0, r)
    BY <1>2, <2>1, RejectedIsSound DEF Reason
  <2>2. ASSUME NEW s \in Surface, k = DetGates([k0 EXCEPT !.surface = s, !.lower_confidence = Correlated])
        PROVE  k \in Candidate /\ Sound(k) /\ k.stage # "accepted"
    <3> DEFINE k1 == [k0 EXCEPT !.surface = s, !.lower_confidence = Correlated]
    <3>1. k1 \in Candidate /\ k1.surface \in Surface /\ k1.extraction = None /\ k1.stage # "accepted"
      BY <1>2, ConfigAssumption DEF Candidate, SurfaceOrNone
    <3> HIDE DEF k1
    <3> QED
      BY <2>2, <3>1, GatedIsSound DEF k1
  <2> QED
    BY <1>1, <2>1, <2>2 DEF Rendered
<1>4. TypeOK' /\ StagesInv' /\ (~ Written => ProcessInv')
  BY <1>1, <1>3, OneCandidate DEF RenderOne, IInv, TypeOK
<1> QED
  BY <1>4 DEF RenderOne, IInv, Written, SettledInv, FullRun, process

LEMMA VerifyStep ==
  ASSUME IInv, NEW c \in Cand, VerifyOne(c)
  PROVE  IInv'
<1> DEFINE k0 == cand[c]
<1>1. PICK k \in Compared(k0) : cand' = [cand EXCEPT ![c] = k]
  BY DEF VerifyOne
<1>2. /\ k0 \in Candidate /\ k0.stage = "anchors_ok" /\ k0.extraction = None
      /\ k0.surface # NoSurface /\ k0.surface.gate = "ok"
  BY DEF VerifyOne, ToVerify, ToRender, Alive, IInv, TypeOK, Candidate, Stage, StagesInv, SettledInv, Sound, None
<1>3. k \in Candidate /\ Sound(k) /\ k.stage # "accepted"
  <2>1. ASSUME NEW r \in {"verifier_failed", "mismatch"}, k = Reject([k0 EXCEPT !.extraction = "other"], r)
        PROVE  k \in Candidate /\ Sound(k) /\ k.stage # "accepted"
    <3>1. [k0 EXCEPT !.extraction = "other"] \in Candidate
      BY <1>2 DEF Candidate
    <3> QED
      BY <2>1, <3>1, RejectedIsSound DEF Reason
  <2> QED
    BY <1>1, <1>2, <2>1 DEF Compared, Candidate, Stage, Sound, None
<1>4. TypeOK' /\ StagesInv' /\ (~ Written => ProcessInv')
  BY <1>1, <1>3, OneCandidate DEF VerifyOne, IInv, TypeOK
<1>5. ToRender' = {}
  <2>1. k.stage # "oracle_ok"
    BY <1>1, <1>2 DEF Compared, Reject, Candidate
  <2> QED
    BY <1>1, <2>1 DEF ToRender, IInv, SettledInv, VerifyOne, TypeOK
<1> QED
  BY <1>4, <1>5 DEF VerifyOne, IInv, Written, SettledInv, FullRun, process

LEMMA JudgeStep ==
  ASSUME IInv, NEW c \in Cand, JudgeOne(c)
  PROVE  IInv'
<1> DEFINE k0 == cand[c]
<1>1. /\ k0 \in Candidate /\ k0.stage = "anchors_ok" /\ k0.extraction = "unverifiable"
      /\ k0.surface # NoSurface /\ k0.surface.gate = "ok" /\ judgeOn /\ pc = "judge"
  <2>1. k0 \in Candidate /\ judgeOn /\ pc = "judge" /\ c \in Unresolved
    BY DEF JudgeOne, FirstOf, IInv, TypeOK, ProcessInv
  <2>2. k0.stage = "anchors_ok" /\ Alive(c)
    BY <2>1 DEF Unresolved, Alive, Candidate, Stage, IInv, ProcessInv, SettledInv, Accepted, Written, ToRender
  <2>3. Sound(k0) /\ k0.extraction # None
    BY <2>1, <2>2 DEF IInv, StagesInv, SettledInv, ToVerify
  <2> QED
    BY <2>1, <2>2, <2>3 DEF Sound
<1>2. [k0 EXCEPT !.judged = TRUE] \in Candidate
  BY <1>1 DEF Candidate
<1>3. PICK k \in Candidate : /\ Sound(k) /\ k.stage \in {"verified", "rejected"}
                             /\ cand' = [cand EXCEPT ![c] = k]
  <2>1. CASE cand' = [cand EXCEPT ![c] = Reject(k0, "fact_unverifiable")]
    BY <1>1, <2>1, RejectedIsSound DEF Reason
  <2>2. ASSUME NEW k \in Ruled(k0), cand' = [cand EXCEPT ![c] = k]
        PROVE  k \in Candidate /\ Sound(k) /\ k.stage \in {"verified", "rejected"}
    <3>1. CASE k = Reject(k0, "judge_failed")
      BY <1>1, <3>1, RejectedIsSound DEF Reason
    <3>2. CASE k = Reject([k0 EXCEPT !.judged = TRUE], "judge_reject")
      BY <1>2, <3>2, RejectedIsSound DEF Reason
    <3>3. CASE k = [k0 EXCEPT !.judged = TRUE, !.stage = "verified"]
      BY <1>1, <3>3 DEF Candidate, Stage, Sound
    <3> QED
      BY <3>1, <3>2, <3>3 DEF Ruled
  <2>3. CASE cand' = [cand EXCEPT ![c] = Reject([k0 EXCEPT !.judged = TRUE], "human_review")]
    BY <1>2, <2>3, RejectedIsSound DEF Reason
  <2> QED
    BY <2>1, <2>2, <2>3 DEF JudgeOne
<1>4. TypeOK' /\ StagesInv' /\ (~ Written => ProcessInv')
  <2>1. routed' \in Nat /\ human' \in Nat
    BY DEF JudgeOne, IInv, TypeOK
  <2> QED
    BY <1>3, <2>1, OneCandidate DEF JudgeOne
<1>5. ToRender' = {} /\ ToVerify' = {}
  <2>1. k.stage = "verified" => k.extraction # None
    BY <1>3 DEF Sound, None
  <2>2. \A d \in Cand : cand'[d] = IF d = c THEN k ELSE cand[d]
    BY <1>3 DEF IInv, TypeOK
  <2> QED
    BY <1>1, <1>3, <2>1, <2>2 DEF ToRender, ToVerify, Alive, IInv, SettledInv
<1> QED
  BY <1>1, <1>4, <1>5 DEF JudgeOne, IInv, Written, SettledInv, FullRun

LEMMA AuditStep ==
  ASSUME IInv, NEW c \in Cand, AuditOne(c)
  PROVE  IInv'
<1> DEFINE k0 == cand[c]
<1>1. k0 \in Candidate /\ k0.stage = "verified" /\ Sound(k0) /\ pc = "support"
  BY DEF AuditOne, ToAudit, Verified, IInv, TypeOK, StagesInv
<1>2. PICK k \in Audited(c) : cand' = [cand EXCEPT ![c] = k]
  BY DEF AuditOne
<1>3. k \in Candidate /\ Sound(k) /\ k.stage \in {"verified", "rejected"}
  <2>1. CASE \E v \in {"supported", "tagged"} : k = [k0 EXCEPT !.support = v]
    BY <1>1, <2>1 DEF Candidate, Sound
  <2>2. CASE k = Reject(k0, "supportability")
    BY <1>1, <2>2, RejectedIsSound DEF Reason
  <2> QED
    BY <2>1, <2>2 DEF Audited
<1>4. TypeOK' /\ StagesInv' /\ (~ Written => ProcessInv')
  BY <1>2, <1>3, OneCandidate DEF AuditOne, IInv, TypeOK
<1>5. judgeOn => Unresolved' = {}
  BY <1>1, <1>2, <1>3 DEF IInv, SettledInv, Unresolved, Alive, TypeOK
<1> QED
  BY <1>1, <1>4, <1>5 DEF AuditOne, IInv, Written, SettledInv, FullRun, process

-----------------------------------------------------------------------------
(* Steps that change all candidates *)

LEMMA SkipAuditStep ==
  ASSUME IInv, SkipAudit
  PROVE  IInv'
<1> DEFINE k(c) == IF c \in Verified THEN [cand[c] EXCEPT !.support = "skipped"] ELSE cand[c]
<1>1. /\ cand' = [c \in Cand |-> k(c)] /\ pc = "support" /\ pc' = "finalize" /\ started' = FALSE
      /\ UNCHANGED <<process, world, routed, human, iso, disk>>
  BY DEF SkipAudit, PhaseAfter
<1>2. ASSUME NEW c \in Cand
      PROVE  k(c) \in Candidate /\ Sound(k(c)) /\ k(c).stage = cand[c].stage
  <2>1. cand[c] \in Candidate /\ Sound(cand[c])
    BY DEF IInv, TypeOK, StagesInv
  <2> QED
    BY <2>1 DEF Candidate, Sound
<1> HIDE DEF k
<1>3. \A c \in Cand : cand'[c] = k(c)
  BY <1>1
<1>4. TypeOK'
  BY <1>1, <1>2 DEF IInv, TypeOK, process, Phase
<1>5. StagesInv'
  BY <1>1, <1>2, <1>3 DEF StagesInv, Sound, process
<1>6. Unresolved' = Unresolved /\ Accepted' = Accepted
  BY <1>2, <1>3 DEF Unresolved, Alive, Accepted
<1>7. ProcessInv'
  BY <1>1, <1>6 DEF IInv, ProcessInv, Written, process
<1>8. SettledInv'
  BY <1>1, <1>6 DEF IInv, SettledInv, FullRun, Written, process
<1> QED
  BY <1>4, <1>5, <1>7, <1>8 DEF IInv

LEMMA WriteStep ==
  ASSUME IInv, Write
  PROVE  IInv'
<1> USE DEF IInv
<1>1. UNCHANGED <<started, process, world, cand, routed, human, iso>> /\ pc = "write" /\ pc' = "done"
  BY DEF Write
<1>2. disk' \in [Cand -> Row]
  <2>1. \A c \in Cand : cand[c].surface \in SurfaceOrNone /\ cand[c].reasons \in SUBSET Reason
    BY DEF TypeOK, Candidate
  <2> QED
    BY <2>1 DEF Write, Row
<1>3. TypeOK'
  BY <1>1, <1>2 DEF TypeOK, process
<1>4. StagesInv' /\ Accepted' = Accepted /\ Unresolved' = Unresolved
  BY <1>1, SameCandidates DEF process
<1> QED
  BY <1>1, <1>3, <1>4 DEF ProcessInv, SettledInv, FullRun, Written, process

LEMMA StartReverifyStep ==
  ASSUME IInv, StartReverify
  PROVE  IInv'
<1> USE DEF IInv
<1>1. \A c \in Cand : cand'[c] = Fresh
  BY DEF StartReverify
<1>2. TypeOK'
  <2>1. cand' \in [Cand -> Candidate]
    <3>1. cand' = [c \in Cand |-> Fresh]
      BY DEF StartReverify
    <3> QED
      BY <3>1, FreshIsTyped
  <2>2. runs' \in Nat /\ judgeOn' \in BOOLEAN /\ pc' = "load" /\ started' = FALSE /\ mode' = "reverify"
    BY ConfigAssumption DEF StartReverify, TypeOK
  <2>3. routed' = 0 /\ human' = 0 /\ iso' = TRUE /\ UNCHANGED <<world, disk>>
    BY DEF StartReverify
  <2> QED
    BY <2>1, <2>2, <2>3 DEF TypeOK
<1>3. StagesInv'
  BY <1>1 DEF StagesInv, Sound, Fresh
<1>4. Accepted' = {}
  BY <1>1 DEF Accepted, Fresh
<1>5. pc' = "load" /\ mode' = "reverify" /\ disk' # NoRun /\ judgeOn' \in JudgeConfigs
  BY DEF StartReverify
<1> QED
  BY <1>1, <1>2, <1>3, <1>4, <1>5 DEF ProcessInv, SettledInv, FullRun, Written

LEMMA LoadedIsSound ==
  ASSUME NEW row \in Row
  PROVE  Loaded(row) \in Candidate /\ Sound(Loaded(row)) /\ Loaded(row).stage \in {"anchors_ok", "rejected"}
<1>1. CASE row.surface = NoSurface
  BY <1>1, FreshIsTyped DEF Loaded, Fresh, Candidate, Stage, Row, Sound, Reason
<1>2. CASE row.surface # NoSurface
  <2> DEFINE k == [Fresh EXCEPT !.surface = row.surface]
  <2>1. k \in Candidate /\ k.surface \in Surface /\ k.extraction = None /\ k.stage # "accepted"
    BY <1>2, FreshIsTyped DEF Fresh, Candidate, Row, SurfaceOrNone
  <2>2. Loaded(row) = DetGates(k)
    BY <1>2 DEF Loaded
  <2> HIDE DEF k
  <2> QED
    BY <2>1, <2>2, GatedIsSound
<1> QED
  BY <1>1, <1>2

LEMMA LoadRunStep ==
  ASSUME IInv, LoadRun
  PROVE  IInv'
<1> USE DEF IInv
<1>1. /\ cand' = [c \in Cand |-> Loaded(disk[c])] /\ pc = "load" /\ pc' = "verify"
      /\ UNCHANGED <<started, process, world, routed, human, iso, disk>>
  BY DEF LoadRun
<1>2. \A c \in Cand : disk[c] \in Row
  BY <1>1 DEF TypeOK, ProcessInv
<1>3. \A c \in Cand : /\ cand'[c] \in Candidate /\ Sound(cand'[c])
                      /\ cand'[c].stage \in {"anchors_ok", "rejected"}
  BY <1>1, <1>2, LoadedIsSound
<1>4. TypeOK'
  BY <1>1, <1>3 DEF TypeOK, process, Phase
<1>5. StagesInv'
  BY <1>1, <1>3 DEF StagesInv, Sound, process
<1>6. Accepted' = {} /\ ToRender' = {}
  BY <1>3 DEF Accepted, ToRender
<1> QED
  BY <1>1, <1>4, <1>5, <1>6 DEF ProcessInv, SettledInv, FullRun, Written, process

(* Finalize: every verified record is rejected, dropped under a kept        *)
(* record, cut, or accepted.                                                *)
LEMMA FinalizeStep ==
  ASSUME IInv, Finalize
  PROVE  IInv'
<1> USE DEF IInv
<1>0. PICK bad \in SUBSET Verified : \E K \in SUBSET (Verified \ bad) :
        /\ Kept(K, Records(Verified \ bad))
        /\ cand' = [c \in Cand |-> Finalized(c, bad, K, Records(Verified \ bad))]
        /\ iso' = Isolated(K \ EasyCut(K, Records(Verified \ bad)), Records(Verified \ bad))
  BY DEF Finalize
<1>1. PICK K \in SUBSET (Verified \ bad) :
        /\ Kept(K, Records(Verified \ bad))
        /\ cand' = [c \in Cand |-> Finalized(c, bad, K, Records(Verified \ bad))]
        /\ iso' = Isolated(K \ EasyCut(K, Records(Verified \ bad)), Records(Verified \ bad))
  BY <1>0
<1> DEFINE S == Verified \ bad
           rec == Records(S)
<1>2. /\ pc = "finalize" /\ started' = FALSE /\ pc' = "write" /\ mode' = mode
      /\ UNCHANGED <<process, world, routed, human, disk>>
  BY DEF Finalize, PhaseAfter, process
<1>3. S \subseteq Cand /\ S \in SUBSET Nat /\ rec \in [S -> Record]
  <2>1. \A c \in S : c \in Cand /\ cand[c] \in Candidate /\ cand[c].surface \in Surface /\ world[c] \in World
    BY DEF Verified, TypeOK, StagesInv, Sound, Candidate, SurfaceOrNone
  <2>2. \A c \in S : MakeRecord(c) \in Record
    BY <2>1 DEF MakeRecord, Record, World, Surface
  <2> QED
    BY <2>1, <2>2 DEF Records, Cand
<1>4. Kept(K, rec) /\ K \subseteq S
  BY <1>1
<1>5. ASSUME NEW c \in Cand
      PROVE  /\ cand'[c] \in Candidate /\ Sound(cand'[c])
             /\ c \in Verified => cand'[c].stage \in {"accepted", "rejected"}
             /\ c \notin Verified => cand'[c] = cand[c]
  <2>1. cand[c] \in Candidate /\ Sound(cand[c]) /\ cand'[c] = Finalized(c, bad, K, rec)
    BY <1>1 DEF TypeOK, StagesInv
  <2>2. CASE c \notin Verified
    BY <2>1, <2>2 DEF Finalized
  <2>3. CASE c \in bad
    BY <2>1, <2>3, RejectedIsSound DEF Finalized, Reason
  <2>4. CASE c \in S /\ c \notin K
    <3> DEFINE dup == DuplicateOf(K, rec, c)
    <3>1. dup \in K
      BY <1>3, <1>4, <2>4, ReportedUnderKept DEF DuplicatedBy
    <3>2. dup \in Cand
      BY <1>3, <1>4, <3>1
    <3>3. cand'[c] = Reject([cand[c] EXCEPT !.dup_of = dup], "dedupe")
      BY <2>1, <2>4 DEF Finalized
    <3>4. [cand[c] EXCEPT !.dup_of = dup] \in Candidate
      <4> HIDE DEF dup
      <4> QED
        BY <2>1, <3>2 DEF Candidate
    <3> QED
      BY <2>4, <3>3, <3>4, RejectedIsSound DEF Reason
  <2>5. CASE c \in K
    <3>1. CASE cand'[c] = Reject(cand[c], "diversity_cap")
      BY <1>4, <2>1, <2>5, <3>1, RejectedIsSound DEF Reason
    <3>2. CASE cand'[c] = [cand[c] EXCEPT !.stage = "accepted"]
      BY <1>4, <2>1, <2>5, <3>2 DEF Candidate, Stage, Sound, Verified
    <3> QED
      BY <1>4, <2>1, <2>5, <3>1, <3>2 DEF Finalized
  <2> QED
    BY <2>2, <2>3, <2>4, <2>5
<1>6. TypeOK'
  <2>1. cand' \in [Cand -> Candidate]
    BY <1>1, <1>5
  <2>2. iso' \in BOOLEAN
    BY <1>1, IsolatedIsBoolean
  <2> QED
    BY <1>2, <2>1, <2>2 DEF TypeOK, process
<1>7. StagesInv'
  BY <1>2, <1>5 DEF StagesInv, Sound, process
<1>8. ProcessInv'
  BY <1>2 DEF ProcessInv, Written, process
<1>9. SettledInv'
  <2>1. judgeOn => \A c \in Cand : cand'[c].stage \in {"accepted", "rejected"}
    BY <1>2, <1>5 DEF SettledInv, Unresolved, Alive, Verified
  <2> QED
    BY <1>2, <2>1 DEF SettledInv, process
<1> QED
  BY <1>6, <1>7, <1>8, <1>9

-----------------------------------------------------------------------------
LEMMA NextStep ==
  ASSUME IInv, [Next]_vars
  PROVE  IInv'
<1>1. CASE UNCHANGED vars
  <2>1. StagesInv' /\ ToRender' = ToRender /\ ToVerify' = ToVerify
         /\ Unresolved' = Unresolved /\ Verified' = Verified /\ Accepted' = Accepted
    BY <1>1, SameCandidates DEF IInv, vars, process
  <2> QED
    BY <1>1, <2>1 DEF IInv, TypeOK, ProcessInv, SettledInv, FullRun, Written, vars, process
<1>2. CASE Work
  BY <1>2, SchedulerSteps, RenderStep, VerifyStep, JudgeStep, AuditStep, SkipAuditStep, FinalizeStep,
     WriteStep, LoadRunStep DEF Work
<1>3. CASE ServerFailed \/ OracleFailed
  BY <1>3, SchedulerSteps
<1>4. CASE StartReverify
  BY <1>4, StartReverifyStep
<1> QED
  BY <1>1, <1>2, <1>3, <1>4 DEF Next

(* The invariant holds in every reachable state. *)
THEOREM Invariant == Spec => []IInv
<1>1. Init => IInv
  BY InitIInv
<1>2. IInv /\ [Next]_vars => IInv'
  BY NextStep
<1> QED
  BY <1>1, <1>2, PTL DEF Spec

(* Every field of the candidates, every counter and every saved row keeps   *)
(* its type, in every run and every reverify.                               *)
THEOREM TypeCorrect == Spec => []TypeOK
<1>1. IInv => TypeOK
  BY DEF IInv
<1> QED
  BY <1>1, Invariant, PTL

(* No verified or accepted row lacks its gates, nor its extraction or the   *)
(* judge's word on the facts the verifier could not tell.                   *)
THEOREM GroundedCorrect == Spec => []Grounded
<1>1. IInv => Grounded
  BY DEF IInv, StagesInv, Sound, Grounded
<1> QED
  BY <1>1, Invariant, PTL

(* Where a judge is always configured, a full run ends with every candidate *)
(* accepted, or rejected with a reason.                                     *)
THEOREM FailsClosedWithJudge ==
  ASSUME JudgeConfigs = {TRUE}
  PROVE  Spec => []FailsClosed
<1>1. IInv => FailsClosed
  BY DEF IInv, ProcessInv, SettledInv, FullRun, Written, StagesInv, Sound, FailsClosed, Finished
<1> QED
  BY <1>1, Invariant, PTL

-----------------------------------------------------------------------------
(* What was decided stays decided *)

LEMMA WorkOnOneCandidate ==
  ASSUME IInv, NEW c \in Cand, RenderOne(c) \/ VerifyOne(c) \/ JudgeOne(c) \/ AuditOne(c)
  PROVE  /\ cand[c].stage \notin {"accepted", "rejected"}
         /\ \E k : k.stage # "accepted" /\ cand' = [cand EXCEPT ![c] = k]
         /\ UNCHANGED <<pc, process, world>> /\ pc \in Phase
<1> DEFINE k0 == cand[c]
<1>1. k0 \in Candidate /\ ~ Written /\ k0.stage # "accepted"
  BY DEF IInv, TypeOK, ProcessInv, Written, Accepted, RenderOne, VerifyOne, JudgeOne, AuditOne
<1>2. k0.stage # "rejected"
  BY DEF RenderOne, ToRender, VerifyOne, ToVerify, JudgeOne, FirstOf, Unresolved, Alive, AuditOne, ToAudit, Verified
<1>3. \A k \in Candidate : \A r : Reject(k, r).stage = "rejected"
  BY DEF Reject, Candidate
<1>4. CASE RenderOne(c)
  <2>1. \A k \in Candidate : DetGates(k).stage \in {"anchors_ok", "rejected"}
    BY <1>3 DEF DetGates, Candidate
  <2>2. \A s \in Surface : [k0 EXCEPT !.surface = s, !.lower_confidence = Correlated] \in Candidate
    BY <1>1, ConfigAssumption DEF Candidate, SurfaceOrNone
  <2>3. \A k \in Rendered(k0) : k.stage # "accepted"
    BY <1>1, <1>3, <2>1, <2>2 DEF Rendered
  <2> QED
    BY <1>1, <1>2, <1>4, <2>3 DEF RenderOne, Phase
<1>5. CASE VerifyOne(c)
  <2>1. [k0 EXCEPT !.extraction = "other"] \in Candidate
    BY <1>1 DEF Candidate
  <2>2. \A k \in Compared(k0) : k.stage # "accepted"
    BY <1>1, <1>3, <2>1 DEF Compared, Candidate
  <2> QED
    BY <1>1, <1>2, <1>5, <2>2 DEF VerifyOne, Phase
<1>6. CASE JudgeOne(c)
  <2>1. [k0 EXCEPT !.judged = TRUE] \in Candidate
    BY <1>1 DEF Candidate
  <2>2. \A k \in Ruled(k0) : k.stage # "accepted"
    BY <1>1, <1>3, <2>1 DEF Ruled, Candidate
  <2>3. \E k : k.stage # "accepted" /\ cand' = [cand EXCEPT ![c] = k]
    BY <1>1, <1>3, <1>6, <2>1, <2>2 DEF JudgeOne
  <2> QED
    BY <1>1, <1>2, <1>6, <2>3 DEF JudgeOne, Phase
<1>7. CASE AuditOne(c)
  <2>1. \A k \in Audited(c) : k.stage # "accepted"
    BY <1>1, <1>3 DEF Audited, Candidate
  <2> QED
    BY <1>1, <1>2, <1>7, <2>1 DEF AuditOne, Phase
<1> QED
  BY <1>4, <1>5, <1>6, <1>7

LEMMA SchedulerKeepsCandidates ==
  ASSUME \/ SkipPhase \/ StartPhase \/ ServerFailed \/ Sample \/ OracleFailed
         \/ EndGenerate \/ EndVerify \/ EndJudge \/ EndSupport \/ Write
  PROVE  UNCHANGED <<cand, world, process>>
BY DEF SkipPhase, StartPhase, ServerFailed, Sample, OracleFailed, EndGenerate, EndVerify,
       EndJudge, EndSupport, EndPhase, Write

LEMMA VerdictStep ==
  ASSUME IInv, [Next]_vars, runs' = runs, NEW c \in Cand, cand[c].stage \in {"rejected", "accepted"}
  PROVE  cand'[c] = cand[c]
<1> USE DEF IInv
<1>1. CASE \/ UNCHANGED vars \/ SkipPhase \/ StartPhase \/ ServerFailed \/ Sample \/ OracleFailed
           \/ EndGenerate \/ EndVerify \/ EndJudge \/ EndSupport \/ Write
  BY <1>1, SchedulerKeepsCandidates DEF vars
<1>2. ASSUME NEW d \in Cand, RenderOne(d) \/ VerifyOne(d) \/ JudgeOne(d) \/ AuditOne(d)
      PROVE  cand'[c] = cand[c]
  BY <1>2, WorkOnOneCandidate DEF TypeOK
<1>3. CASE SkipAudit
  BY <1>3 DEF SkipAudit, Verified
<1>4. CASE Finalize
  BY <1>4 DEF Finalize, Finalized, Verified
<1>5. CASE LoadRun
  BY <1>5 DEF LoadRun, ProcessInv, Fresh
<1>6. CASE StartReverify
  BY <1>6 DEF StartReverify, TypeOK
<1> QED
  BY <1>1, <1>2, <1>3, <1>4, <1>5, <1>6 DEF Next, Work

(* No later phase, loop or worker of a process revives a rejected candidate,*)
(* adds to its reasons, or takes an accepted one back.                      *)
THEOREM VerdictsAreFinal == Spec => VerdictsFinal
<1>1. IInv /\ [Next]_vars =>
        [runs' = runs => \A c \in Cand : cand[c].stage \in {"rejected", "accepted"} => cand'[c] = cand[c]]_vars
  BY VerdictStep
<1> QED
  BY <1>1, Invariant, PTL DEF Spec, VerdictsFinal

-----------------------------------------------------------------------------
(* The accepted records are kept records, so no two are duplicates.         *)

LEMMA RecordsAreTyped ==
  ASSUME IInv, NEW S \in SUBSET Verified
  PROVE  S \in SUBSET Nat /\ S \subseteq Cand /\ Records(S) \in [S -> Record]
<1>1. \A c \in S : c \in Cand /\ cand[c] \in Candidate /\ cand[c].surface \in Surface /\ world[c] \in World
  BY DEF IInv, Verified, TypeOK, StagesInv, Sound, Candidate, SurfaceOrNone
<1>2. \A c \in S : MakeRecord(c) \in Record
  BY <1>1 DEF MakeRecord, Record, World, Surface
<1> QED
  BY <1>1, <1>2 DEF Records, Cand

LEMMA FinalizeKeepsDistinct ==
  ASSUME IInv, Finalize
  PROVE  AcceptedDistinct'
<1>1. PICK bad \in SUBSET Verified : \E K \in SUBSET (Verified \ bad) :
        /\ Kept(K, Records(Verified \ bad))
        /\ cand' = [c \in Cand |-> Finalized(c, bad, K, Records(Verified \ bad))]
  BY DEF Finalize
<1> DEFINE S == Verified \ bad
           rec == Records(S)
<1>2. PICK K \in SUBSET S :
        Kept(K, rec) /\ cand' = [c \in Cand |-> Finalized(c, bad, K, rec)]
  BY <1>1
<1>3. S \in SUBSET Nat /\ S \subseteq Cand /\ rec \in [S -> Record]
  BY RecordsAreTyped
<1>4. world' = world
  BY DEF Finalize
<1>5. ASSUME NEW c \in Accepted'
      PROVE  c \in K /\ MakeRecord(c)' = rec[c]
  <2>1. c \in Cand /\ cand[c] \in Candidate /\ cand[c].stage # "accepted"
        /\ cand'[c] = Finalized(c, bad, K, rec) /\ cand'[c].stage = "accepted"
    BY <1>2 DEF Accepted, IInv, TypeOK, ProcessInv, Written, Finalize
  <2>2. \A k \in Candidate : \A r : Reject(k, r).stage = "rejected"
    BY DEF Reject, Candidate
  <2>3. CASE c \in S \ K
    <3> DEFINE k == [cand[c] EXCEPT !.dup_of = DuplicateOf(K, rec, c)]
    <3>1. cand'[c] = Reject(k, "dedupe")
      BY <2>1, <2>3 DEF Finalized
    <3>2. Reject(k, "dedupe").stage = "rejected"
      BY <2>1 DEF Reject, Candidate
    <3> QED
      BY <2>1, <3>1, <3>2
  <2>4. c \in K /\ cand'[c] = [cand[c] EXCEPT !.stage = "accepted"]
    BY <2>1, <2>2, <2>3 DEF Finalized
  <2>5. cand'[c].surface = cand[c].surface
    BY <2>1, <2>4 DEF Candidate
  <2> QED
    BY <1>4, <2>4, <2>5 DEF MakeRecord, Records
<1>6. \A c, d \in K : c # d => ~ Duplicates(rec[c], rec[d])
  BY <1>2, <1>3, KeptIsDistinct
<1> HIDE DEF rec, S
<1> QED
  BY <1>5, <1>6 DEF AcceptedDistinct

LEMMA AfterWritten ==
  ASSUME IInv, [Next]_vars, Written', ~ Finalize
  PROVE  UNCHANGED <<cand, world>>
<1>1. CASE \/ UNCHANGED vars \/ SkipPhase \/ StartPhase \/ ServerFailed \/ Sample \/ OracleFailed
           \/ EndGenerate \/ EndVerify \/ EndJudge \/ EndSupport \/ Write
  BY <1>1, SchedulerKeepsCandidates DEF vars
<1>2. ASSUME NEW d \in Cand, RenderOne(d) \/ VerifyOne(d) \/ JudgeOne(d) \/ AuditOne(d)
      PROVE  FALSE
  BY <1>2, WorkOnOneCandidate DEF Written, Phase
<1> QED
  BY <1>1, <1>2 DEF Next, Work, SkipAudit, LoadRun, StartReverify, Written, PhaseAfter

LEMMA DistinctStep ==
  ASSUME IInv, AcceptedDistinct, [Next]_vars
  PROVE  AcceptedDistinct'
<1>1. CASE Finalize
  BY <1>1, FinalizeKeepsDistinct
<1>2. CASE ~ Written'
  <2>1. Accepted' = {}
    BY <1>2, NextStep DEF IInv, ProcessInv
  <2> QED
    BY <2>1 DEF AcceptedDistinct
<1>3. CASE Written' /\ ~ Finalize
  BY <1>3, AfterWritten DEF AcceptedDistinct, Accepted, MakeRecord
<1> QED
  BY <1>1, <1>2, <1>3

(* No two accepted records of a pack are duplicates of each other, whatever *)
(* the similarity relation: it need not be transitive.                      *)
THEOREM AcceptedAreDistinct == Spec => []AcceptedDistinct
<1>1. Init => AcceptedDistinct
  BY DEF Init, AcceptedDistinct, Accepted, Fresh
<1>2. IInv /\ AcceptedDistinct /\ [Next]_vars => AcceptedDistinct'
  BY DistinctStep
<1> QED
  BY <1>1, <1>2, Invariant, PTL DEF Spec

\* The worlds of a run that got past sampling, or was saved, share no family between splits.
FamiliesInv == /\ world \in Worlds
               /\ pc \notin {"sample", "aborted"} \/ disk # NoRun => FamiliesIsolated(Cand, world)

LEMMA FamiliesStep ==
  ASSUME FamiliesInv, [Next]_vars
  PROVE  FamiliesInv'
<1>1. world' = world
  BY DEF Next, Work, vars, process, SkipPhase, StartPhase, ServerFailed, Sample, OracleFailed,
         EndGenerate, EndVerify, EndJudge, EndSupport, EndPhase, Write, RenderOne, VerifyOne,
         JudgeOne, AuditOne, SkipAudit, Finalize, LoadRun, StartReverify
<1>2. FamiliesIsolated(Cand, world)' = FamiliesIsolated(Cand, world)
  BY <1>1
<1>3. CASE Sample \/ OracleFailed
  BY <1>1, <1>2, <1>3 DEF Sample, OracleFailed, FamiliesInv
<1>4. CASE pc = "sample" /\ ~ Sample /\ ~ OracleFailed
  <2>1. pc' = pc /\ disk' = disk
    BY <1>4 DEF Next, Work, vars, SkipPhase, When, StartPhase, ServerFailed, OracleFailed,
         EndGenerate, EndVerify, EndJudge, EndSupport, Write, RenderOne, VerifyOne,
         JudgeOne, AuditOne, SkipAudit, Finalize, LoadRun, StartReverify
  <2> QED
    BY <1>1, <1>2, <2>1 DEF FamiliesInv
<1>5. CASE pc = "aborted"
  <2>1. (pc' = pc /\ disk' = disk) \/ disk # NoRun
    BY <1>5 DEF Next, Work, vars, Phase, SkipPhase, StartPhase, ServerFailed, OracleFailed, Sample,
         EndGenerate, EndVerify, EndJudge, EndSupport, Write, RenderOne, VerifyOne,
         JudgeOne, AuditOne, SkipAudit, Finalize, LoadRun, StartReverify
  <2> QED
    BY <1>1, <1>2, <2>1 DEF FamiliesInv
<1>6. CASE pc \notin {"sample", "aborted"}
  BY <1>1, <1>2, <1>6 DEF FamiliesInv
<1> QED
  BY <1>3, <1>4, <1>5, <1>6

LEMMA IsolationFollows ==
  ASSUME \A s, t \in Texts : NearSplit(s, t) => NearDup(s, t),
         IInv, AcceptedDistinct, FamiliesInv
  PROVE  AcceptedIsolated
<1> SUFFICES ASSUME Finished PROVE Isolated(Accepted, Records(Accepted))
  BY DEF AcceptedIsolated
<1>1. \A c \in Accepted : /\ Records(Accepted)[c] = MakeRecord(c) /\ c \in Cand
                          /\ MakeRecord(c).text \in Texts
  BY DEF Records, MakeRecord, Accepted, IInv, StagesInv, Sound, TypeOK, Candidate, SurfaceOrNone, Surface
<1>2. FamiliesIsolated(Accepted, Records(Accepted))
  <2>1. FamiliesIsolated(Cand, world)
    BY DEF Finished, FamiliesInv
  <2>2. \A c \in Accepted : /\ Records(Accepted)[c].family = world[c].family
                            /\ Records(Accepted)[c].split = world[c].split
    BY DEF Records, MakeRecord
  <2> QED
    BY <1>1, <2>1, <2>2 DEF FamiliesIsolated
<1>3. TextsIsolated(Accepted, Records(Accepted))
  BY <1>1 DEF TextsIsolated, AcceptedDistinct, Duplicates
<1>4. HeldOutOfTrain(Accepted, Records(Accepted))
  <2>1. HeldOutOfTrain(Cand, world)
    BY HoldoutAssumption DEF FamiliesInv
  <2>2. \A c \in Accepted : /\ Records(Accepted)[c].held = world[c].held
                            /\ Records(Accepted)[c].split = world[c].split
    BY DEF Records, MakeRecord
  <2> QED
    BY <1>1, <2>1, <2>2 DEF HeldOutOfTrain
<1> QED
  BY <1>2, <1>3, <1>4 DEF Isolated

(* Where whatever check_records calls near is also near for dedupe (its     *)
(* threshold is not above 0.92 and no embedder replaces the shingles), the  *)
(* accepted files of two splits share no family and no near-duplicate text, *)
(* and train has no held-out scenario family.                               *)
THEOREM AcceptedAreIsolated ==
  ASSUME \A s, t \in Texts : NearSplit(s, t) => NearDup(s, t)
  PROVE  Spec => []AcceptedIsolated
<1>1. Init => FamiliesInv
  BY DEF Init, FamiliesInv
<1>2. FamiliesInv /\ [Next]_vars => FamiliesInv'
  BY FamiliesStep
<1>3. IInv /\ AcceptedDistinct /\ FamiliesInv => AcceptedIsolated
  BY IsolationFollows
<1> QED
  BY <1>1, <1>2, <1>3, Invariant, AcceptedAreDistinct, PTL DEF Spec

-----------------------------------------------------------------------------
(* The refinement *)

ReadVerdicts == [c \in Cand |-> Verdict(c)]
ReadStatus == IF Finished THEN "published" ELSE IF pc = "aborted" THEN "failed" ELSE "open"

LEMMA ReadsAgree ==
  ASSUME NEW c \in Cand
  PROVE  ReadVerdicts[c] = Verdict(c) /\ (c \in A!Pending <=> cand[c].stage \notin {"accepted", "rejected"})
BY DEF ReadVerdicts, Verdict, A!Pending

LEMMA VerdictsMove ==
  ASSUME runs' = runs, pc \notin {"done", "aborted"}, pc' \notin {"done", "aborted"},
         \A c \in Cand : \/ Verdict(c)' = Verdict(c)
                         \/ Verdict(c) = "pending" /\ Verdict(c)' = "rejected"
  PROVE  A!RejectSome
<1> DEFINE S == {c \in Cand : Verdict(c) = "pending" /\ Verdict(c)' = "rejected"}
<1>1. S \in SUBSET A!Pending
  BY DEF A!Pending
<1>2. ReadVerdicts' = [c \in Cand |-> IF c \in S THEN "rejected" ELSE ReadVerdicts[c]]
  BY DEF ReadVerdicts
<1>3. ReadStatus = "open" /\ ReadStatus' = "open"
  BY DEF ReadStatus, Finished
<1> HIDE DEF S
<1> QED
  BY <1>1, <1>2, <1>3 DEF A!RejectSome, ReadVerdicts, ReadStatus

LEMMA RefinementStep ==
  ASSUME JudgeConfigs = {TRUE}, IInv, [Next]_vars
  PROVE  [A!Next]_<<ReadStatus, ReadVerdicts, runs>>
<1> USE DEF IInv
<1>1. CASE \/ UNCHANGED vars \/ SkipPhase \/ StartPhase \/ EndGenerate \/ EndVerify \/ EndJudge \/ EndSupport
  <2>1. UNCHANGED <<cand, runs, mode>> /\ (pc' = pc \/ {pc, pc'} \cap {"done", "aborted"} = {})
    BY <1>1 DEF vars, process, SkipPhase, StartPhase, EndGenerate, EndVerify, EndJudge, EndSupport,
         EndPhase, PhaseAfter, Phase
  <2> QED
    BY <2>1 DEF ReadStatus, ReadVerdicts, Verdict, Finished
<1>2. CASE ServerFailed \/ OracleFailed \/ Sample
  <2>1. UNCHANGED <<cand, runs, mode>> /\ pc \notin {"done", "aborted"} /\ pc' # "done"
    BY <1>2 DEF process, ServerFailed, OracleFailed, Sample, PhaseAfter
  <2>2. UNCHANGED ReadVerdicts
    BY <2>1 DEF ReadVerdicts, Verdict
  <2>3. ReadStatus = "open" /\ ReadStatus' \in {"open", "failed"}
    BY <2>1 DEF ReadStatus, Finished
  <2> QED
    BY <2>1, <2>2, <2>3 DEF A!Next, A!Fail, ReadVerdicts, ReadStatus
<1>3. ASSUME NEW d \in Cand, RenderOne(d) \/ VerifyOne(d) \/ JudgeOne(d) \/ AuditOne(d)
      PROVE  A!RejectSome
  <2>1. \A c \in Cand : \/ Verdict(c)' = Verdict(c)
                        \/ Verdict(c) = "pending" /\ Verdict(c)' = "rejected"
    <3>1. cand[d].stage \notin {"accepted", "rejected"}
      BY <1>3, WorkOnOneCandidate
    <3>2. PICK k : k.stage # "accepted" /\ cand' = [cand EXCEPT ![d] = k]
      BY <1>3, WorkOnOneCandidate
    <3>3. \A c \in Cand : cand'[c] = IF c = d THEN k ELSE cand[c]
      BY <3>2 DEF TypeOK
    <3> QED
      BY <3>1, <3>2, <3>3 DEF Verdict
  <2> QED
    BY <1>3, <2>1, WorkOnOneCandidate, VerdictsMove DEF Phase, process
<1>4. CASE SkipAudit
  <2>1. \A c \in Cand : cand'[c].stage = cand[c].stage
    BY <1>4 DEF SkipAudit, TypeOK, Candidate
  <2>2. UNCHANGED <<runs, mode>> /\ {pc, pc'} \cap {"done", "aborted"} = {}
    BY <1>4 DEF SkipAudit, PhaseAfter, process
  <2> QED
    BY <2>1, <2>2 DEF ReadStatus, ReadVerdicts, Verdict, Finished
<1>5. CASE LoadRun
  <2>1. \A c \in Cand : Verdict(c) = "pending" /\ Verdict(c)' \in {"pending", "rejected"}
    <3>1. \A c \in Cand : cand[c] = Fresh /\ disk[c] \in Row /\ cand'[c] = Loaded(disk[c])
      BY <1>5 DEF LoadRun, ProcessInv, TypeOK
    <3>2. \A c \in Cand : cand'[c].stage \in {"anchors_ok", "rejected"}
      BY <3>1, LoadedIsSound
    <3> QED
      BY <3>1, <3>2 DEF Verdict, Fresh
  <2> QED
    <3>1. runs' = runs /\ pc \notin {"done", "aborted"} /\ pc' \notin {"done", "aborted"}
      BY <1>5 DEF LoadRun, process
    <3>2. A!RejectSome
      BY <2>1, <3>1, VerdictsMove
    <3> QED
      BY <3>2 DEF A!Next
<1>6. CASE StartReverify
  <2>1. \A c \in Cand : Verdict(c)' = "pending"
    BY <1>6 DEF StartReverify, Verdict, Fresh
  <2>2. pc' = "load" /\ runs' = runs + 1
    BY <1>6 DEF StartReverify
  <2>3. ReadVerdicts' = [c \in Cand |-> "pending"] /\ ReadStatus' = "open"
    BY <2>1, <2>2 DEF ReadVerdicts, ReadStatus, Finished
  <2> QED
    BY <2>2, <2>3 DEF A!Next, A!Restart, ReadVerdicts, ReadStatus
<1>7. CASE Write
  <2>1. UNCHANGED <<cand, runs, mode>> /\ pc = "write" /\ pc' = "done"
    BY <1>7 DEF Write, process
  <2>2. UNCHANGED ReadVerdicts
    BY <2>1 DEF ReadVerdicts, Verdict
  <2>3. CASE mode = "generate_only"
    BY <2>1, <2>2, <2>3 DEF ReadStatus, Finished
  <2>4. CASE mode # "generate_only"
    <3>1. A!Pending = {}
      BY <2>1, <2>4 DEF A!Pending, Verdict, SettledInv, FullRun, Written, ProcessInv
    <3>2. ReadStatus = "open" /\ ReadStatus' = "published"
      BY <2>1, <2>4 DEF ReadStatus, Finished
    <3> QED
      BY <2>1, <2>2, <3>1, <3>2 DEF A!Next, A!Publish, ReadVerdicts, ReadStatus
  <2> QED
    BY <2>3, <2>4
<1>8. CASE Finalize
  <2>1. pc = "finalize" /\ pc' = "write" /\ runs' = runs /\ Unresolved = {}
    BY <1>8 DEF Finalize, PhaseAfter, process, SettledInv, ProcessInv
  <2>2. \A c \in Cand : Verdict(c)' \in {"accepted", "rejected"}
    <3>1. SettledInv' /\ ProcessInv' /\ pc' = "write"
      BY <1>8, <2>1, FinalizeStep
    <3>2. mode # "generate_only" /\ mode' = mode
      BY <1>8, <2>1 DEF Finalize, process, ProcessInv
    <3> QED
      BY <3>1, <3>2 DEF SettledInv, FullRun, Written, ProcessInv, Verdict
  <2>3. \A c \in Cand : Verdict(c) # "pending" => Verdict(c)' = Verdict(c)
    BY <1>8, <2>1, VerdictStep DEF Verdict, Next, Work
  <2> DEFINE S == {c \in A!Pending : Verdict(c)' = "accepted"}
  <2>4. ReadVerdicts' = [c \in Cand |-> IF c \in S THEN "accepted"
                                  ELSE IF c \in A!Pending THEN "rejected" ELSE ReadVerdicts[c]]
    BY <2>2, <2>3 DEF ReadVerdicts, A!Pending
  <2>5. ReadStatus = "open" /\ ReadStatus' = "open" /\ S \in SUBSET A!Pending
    BY <2>1 DEF ReadStatus, Finished
  <2> HIDE DEF S
  <2> QED
    BY <2>1, <2>4, <2>5 DEF A!Next, A!Settle, ReadVerdicts, ReadStatus
<1> QED
  BY <1>1, <1>2, <1>3, <1>4, <1>5, <1>6, <1>7, <1>8 DEF Next, Work, A!Next

(* With a judge, the pipeline with all its phases, loops and restarts does  *)
(* nothing Acceptance forbids: verdicts are settled once, and a run is      *)
(* published only when no candidate is pending.                             *)
THEOREM PipelineImplementsAcceptance ==
  ASSUME JudgeConfigs = {TRUE}
  PROVE  Spec => ImplementsAcceptance
<1>1. Init => A!Init
  BY DEF Init, A!Init, Verdict, Fresh, Finished
<1>2. IInv /\ [Next]_vars => [A!Next]_<<ReadStatus, ReadVerdicts, runs>>
  BY RefinementStep
<1> QED
  BY <1>1, <1>2, Invariant, PTL DEF Spec, ImplementsAcceptance, A!Spec, ReadStatus, ReadVerdicts

-----------------------------------------------------------------------------
(* What a candidate's reasons say about it.  An undecided candidate has     *)
(* none; one without a surface was rejected while generating, one stopped   *)
(* by a gate for that gate alone; so no later phase ever looked at it.      *)

WithoutSurface == {"generation_failed", "schema"}
Reasoned(k) ==
  /\ k.stage = "oracle_ok" => k.surface = NoSurface
  /\ k.stage # "rejected" => k.reasons = {}
  /\ k.stage \in {"oracle_ok", "anchors_ok"} => k.judged = FALSE
  /\ k.surface = NoSurface /\ k.stage # "oracle_ok" =>
       k.stage = "rejected" /\ k.reasons \subseteq WithoutSurface
  /\ k.surface # NoSurface /\ k.surface.gate # "ok" =>
       k.stage = "rejected" /\ k.reasons = {k.surface.gate}
ReasonsInv == \A c \in Cand : Reasoned(cand[c])

\* The candidates the manifest counts: handed to the judge, left to a human.
Called(k)   == k.judged \/ "judge_failed" \in k.reasons
Referred(k) == "human_review" \in k.reasons

\* A step of another phase than the judge's on a candidate.
Moved(k, q) ==
  /\ Reasoned(q) /\ q.surface = k.surface
  /\ (Called(q) <=> Called(k)) /\ (Referred(q) <=> Referred(k))

\* Rejecting an undecided candidate whose surface passed its gates.
LEMMA RejectedFields ==
  ASSUME NEW k \in Candidate, NEW r \in Reason
  PROVE  /\ Reject(k, r).stage = "rejected" /\ Reject(k, r).reasons = k.reasons \cup {r}
         /\ Reject(k, r).surface = k.surface /\ Reject(k, r).judged = k.judged
BY DEF Reject, Candidate

LEMMA RejectMoves ==
  ASSUME NEW k \in Candidate, NEW r \in Reason \ {"judge_failed", "human_review"},
         k.reasons = {}, k.surface # NoSurface, k.surface.gate = "ok"
  PROVE  Moved(k, Reject(k, r))
<1>1. /\ Reject(k, r).stage = "rejected" /\ Reject(k, r).reasons = {r}
      /\ Reject(k, r).surface = k.surface /\ Reject(k, r).judged = k.judged
  BY RejectedFields
<1> QED
  BY <1>1 DEF Moved, Reasoned, Called, Referred

LEMMA GatedIsReasoned ==
  ASSUME NEW k \in Candidate, k.surface \in Surface, k.reasons = {}, k.judged = FALSE
  PROVE  /\ Reasoned(DetGates(k)) /\ ~ Called(DetGates(k)) /\ ~ Referred(DetGates(k))
         /\ DetGates(k).surface = k.surface /\ "dedupe" \notin DetGates(k).reasons
<1>1. k.surface # NoSurface
  BY DEF Surface, NoSurface
<1>2. CASE k.surface.gate = "ok"
  <2> DEFINE q == DetGates(k)
  <2>1. q = [k EXCEPT !.stage = "anchors_ok"]
    BY <1>2 DEF DetGates
  <2>2. q.stage = "anchors_ok" /\ q.surface = k.surface /\ q.reasons = {} /\ q.judged = FALSE
    BY <2>1 DEF Candidate
  <2> QED
    BY <1>1, <1>2, <2>2 DEF Reasoned, Called, Referred
<1>3. CASE k.surface.gate # "ok"
  <2> DEFINE q == DetGates(k)
  <2>1. k.surface.gate \in {"leak", "anchor"}
    BY <1>3 DEF Surface
  <2>2. q.stage = "rejected" /\ q.reasons = {k.surface.gate} /\ q.surface = k.surface /\ q.judged = FALSE
    BY <1>3, <2>1, RejectedFields DEF DetGates, Reason
  <2> QED
    BY <1>1, <2>1, <2>2 DEF Reasoned, Called, Referred
<1> QED
  BY <1>2, <1>3

LEMMA RenderMoves ==
  ASSUME IInv, ReasonsInv, NEW c \in Cand, RenderOne(c)
  PROVE  \E k : /\ cand' = [cand EXCEPT ![c] = k] /\ Reasoned(k) /\ "dedupe" \notin k.reasons
                /\ (Called(k) <=> Called(cand[c])) /\ (Referred(k) <=> Referred(cand[c]))
<1> DEFINE k0 == cand[c]
<1>1. PICK k \in Rendered(k0) : cand' = [cand EXCEPT ![c] = k]
  BY DEF RenderOne
<1>2. k0 \in Candidate /\ k0.stage = "oracle_ok" /\ k0.reasons = {} /\ k0.judged = FALSE /\ k0.surface = NoSurface
  BY DEF RenderOne, ToRender, IInv, TypeOK, ReasonsInv, Reasoned
<1>3. ~ Called(k0) /\ ~ Referred(k0)
  BY <1>2 DEF Called, Referred
<1>4. ASSUME NEW r \in {"generation_failed", "schema"}, k = Reject(k0, r)
      PROVE  Reasoned(k) /\ ~ Called(k) /\ ~ Referred(k) /\ "dedupe" \notin k.reasons
  <2>1. k.stage = "rejected" /\ k.reasons = {r} /\ k.surface = NoSurface /\ k.judged = FALSE
    BY <1>2, <1>4, RejectedFields DEF Reason
  <2> QED
    BY <1>2, <1>3, <2>1 DEF Reasoned, Called, Referred, WithoutSurface
<1>5. ASSUME NEW s \in Surface, k = DetGates([k0 EXCEPT !.surface = s, !.lower_confidence = Correlated])
      PROVE  Reasoned(k) /\ ~ Called(k) /\ ~ Referred(k) /\ "dedupe" \notin k.reasons
  <2> DEFINE k1 == [k0 EXCEPT !.surface = s, !.lower_confidence = Correlated]
  <2>1. k1 \in Candidate /\ k1.surface \in Surface /\ k1.reasons = {} /\ k1.judged = FALSE
    BY <1>2, ConfigAssumption DEF Candidate, SurfaceOrNone
  <2> HIDE DEF k1
  <2> QED
    BY <1>2, <1>3, <1>5, <2>1, GatedIsReasoned DEF k1
<1> QED
  BY <1>1, <1>3, <1>4, <1>5 DEF Rendered

\* A candidate whose gates passed: what the later phases are handed.
LEMMA PassedGates ==
  ASSUME IInv, ReasonsInv, NEW c \in Cand, cand[c].stage \in {"anchors_ok", "verified"}
  PROVE  /\ cand[c] \in Candidate /\ cand[c].reasons = {}
         /\ cand[c].surface # NoSurface /\ cand[c].surface.gate = "ok"
BY DEF IInv, TypeOK, StagesInv, Sound, ReasonsInv, Reasoned

LEMMA VerifyMoves ==
  ASSUME IInv, ReasonsInv, NEW c \in Cand, VerifyOne(c)
  PROVE  \E k : cand' = [cand EXCEPT ![c] = k] /\ Moved(cand[c], k) /\ "dedupe" \notin k.reasons
<1> DEFINE k0 == cand[c]
<1>1. PICK k \in Compared(k0) : cand' = [cand EXCEPT ![c] = k]
  BY DEF VerifyOne
<1>2. k0.stage = "anchors_ok"
  BY DEF VerifyOne, ToVerify, ToRender, Alive, IInv, TypeOK, Candidate, Stage, StagesInv, SettledInv, Sound, None
<1>3. /\ k0 \in Candidate /\ k0.reasons = {} /\ k0.surface # NoSurface /\ k0.surface.gate = "ok"
      /\ k0.judged = FALSE
  BY <1>2, PassedGates DEF ReasonsInv, Reasoned
<1>4. ASSUME NEW r \in {"verifier_failed", "mismatch"}, k = Reject([k0 EXCEPT !.extraction = "other"], r)
      PROVE  Moved(k0, k) /\ "dedupe" \notin k.reasons
  <2> DEFINE k1 == [k0 EXCEPT !.extraction = "other"]
  <2>1. k1 \in Candidate /\ k1.reasons = {} /\ k1.surface = k0.surface /\ k1.judged = k0.judged
    BY <1>3 DEF Candidate
  <2> HIDE DEF k1
  <2>2. Moved(k1, Reject(k1, r)) /\ Reject(k1, r).reasons = {r} /\ Reject(k1, r).surface = k0.surface
    BY <1>3, <2>1, RejectMoves, RejectedFields DEF Reason
  <2> QED
    BY <1>3, <1>4, <2>1, <2>2 DEF Moved, Called, Referred, k1
<1>5. CASE k = [k0 EXCEPT !.extraction = "unverifiable"]
  <2>1. k.reasons = {} /\ k.surface = k0.surface /\ k.judged = FALSE /\ k.stage = "anchors_ok"
    BY <1>2, <1>3, <1>5 DEF Candidate
  <2> QED
    BY <1>1, <1>3, <2>1 DEF Moved, Reasoned, Called, Referred
<1>6. CASE k = [k0 EXCEPT !.extraction = "match", !.stage = "verified"]
  <2>1. k.reasons = {} /\ k.surface = k0.surface /\ k.judged = FALSE /\ k.stage = "verified"
    BY <1>3, <1>6 DEF Candidate
  <2> QED
    BY <1>1, <1>3, <2>1 DEF Moved, Reasoned, Called, Referred
<1> QED
  BY <1>1, <1>4, <1>5, <1>6 DEF Compared

LEMMA AuditMoves ==
  ASSUME IInv, ReasonsInv, NEW c \in Cand, AuditOne(c)
  PROVE  \E k : cand' = [cand EXCEPT ![c] = k] /\ Moved(cand[c], k) /\ "dedupe" \notin k.reasons
<1> DEFINE k0 == cand[c]
<1>1. PICK k \in Audited(c) : cand' = [cand EXCEPT ![c] = k]
  BY DEF AuditOne
<1>2. k0.stage = "verified"
  BY DEF AuditOne, ToAudit, Verified
<1>3. k0 \in Candidate /\ k0.reasons = {} /\ k0.surface # NoSurface /\ k0.surface.gate = "ok"
  BY <1>2, PassedGates
<1>4. ASSUME NEW v \in {"supported", "tagged"}, k = [k0 EXCEPT !.support = v]
      PROVE  Moved(k0, k) /\ "dedupe" \notin k.reasons
  <2>1. k.reasons = {} /\ k.surface = k0.surface /\ k.judged = k0.judged /\ k.stage = "verified"
    BY <1>2, <1>3, <1>4 DEF Candidate
  <2> QED
    BY <1>3, <2>1 DEF Moved, Reasoned, Called, Referred
<1>5. ASSUME k = Reject(k0, "supportability")
      PROVE  Moved(k0, k) /\ "dedupe" \notin k.reasons
  <2>1. Moved(k0, k) /\ k.reasons = {"supportability"}
    BY <1>3, <1>5, RejectMoves, RejectedFields DEF Reason
  <2> QED
    BY <2>1
<1> QED
  BY <1>1, <1>4, <1>5 DEF Audited

(* The judge: the first JudgeCap candidates it looks at are calls, and a    *)
(* call that is left to a human counts as one.                              *)
LEMMA JudgeMoves ==
  ASSUME IInv, ReasonsInv, NEW c \in Cand, JudgeOne(c)
  PROVE  \E k : /\ cand' = [cand EXCEPT ![c] = k] /\ Reasoned(k) /\ k.surface = cand[c].surface
                /\ ~ Called(cand[c]) /\ ~ Referred(cand[c]) /\ "dedupe" \notin k.reasons
                /\ \/ routed' = routed /\ human' = human /\ ~ Called(k) /\ ~ Referred(k)
                   \/ /\ routed < JudgeCap /\ routed' = routed + 1 /\ Called(k)
                      /\ \/ human' = human /\ ~ Referred(k)
                         \/ human' = human + 1 /\ Referred(k)
<1> DEFINE k0 == cand[c]
<1>1. k0.stage = "anchors_ok"
  <2>1. k0 \in Candidate /\ judgeOn /\ pc = "judge" /\ c \in Unresolved
    BY DEF JudgeOne, FirstOf, IInv, TypeOK, ProcessInv
  <2> QED
    BY <2>1 DEF Unresolved, Alive, Candidate, Stage, IInv, ProcessInv, SettledInv, Accepted, Written, ToRender
<1>2. /\ k0 \in Candidate /\ k0.reasons = {} /\ k0.surface # NoSurface /\ k0.surface.gate = "ok"
      /\ k0.judged = FALSE
  BY <1>1, PassedGates DEF ReasonsInv, Reasoned
<1>3. ~ Called(k0) /\ ~ Referred(k0)
  BY <1>2 DEF Called, Referred
<1> DEFINE k1 == [k0 EXCEPT !.judged = TRUE]
<1>4. k1 \in Candidate /\ k1.reasons = {} /\ k1.surface = k0.surface /\ k1.judged = TRUE
  BY <1>2 DEF Candidate
<1> HIDE DEF k1
<1>5. CASE routed >= JudgeCap /\ cand' = [cand EXCEPT ![c] = Reject(k0, "fact_unverifiable")]
           /\ UNCHANGED <<routed, human>>
  <2> DEFINE q == Reject(k0, "fact_unverifiable")
  <2>1. q.stage = "rejected" /\ q.reasons = {"fact_unverifiable"} /\ q.surface = k0.surface /\ q.judged = FALSE
    BY <1>2, RejectedFields DEF Reason
  <2> HIDE DEF q
  <2> QED
    BY <1>2, <1>3, <1>5, <2>1 DEF Reasoned, Called, Referred, q
<1>6. CASE routed < JudgeCap /\ routed' = routed + 1 /\ human' = human
           /\ \E k \in Ruled(k0) : cand' = [cand EXCEPT ![c] = k]
  <2>1. PICK k \in Ruled(k0) : cand' = [cand EXCEPT ![c] = k]
    BY <1>6
  <2>2. Reasoned(k) /\ k.surface = k0.surface /\ Called(k) /\ ~ Referred(k) /\ "dedupe" \notin k.reasons
    <3>1. CASE k = Reject(k0, "judge_failed")
      <4>1. k.stage = "rejected" /\ k.reasons = {"judge_failed"} /\ k.surface = k0.surface
        BY <1>2, <3>1, RejectedFields DEF Reason
      <4> QED
        BY <1>2, <4>1 DEF Reasoned, Called, Referred
    <3>2. CASE k = Reject(k1, "judge_reject")
      <4>1. k.stage = "rejected" /\ k.reasons = {"judge_reject"} /\ k.surface = k0.surface /\ k.judged = TRUE
        BY <1>4, <3>2, RejectedFields DEF Reason
      <4> QED
        BY <1>2, <4>1 DEF Reasoned, Called, Referred
    <3>3. CASE k = [k0 EXCEPT !.judged = TRUE, !.stage = "verified"]
      <4>1. k.stage = "verified" /\ k.reasons = {} /\ k.surface = k0.surface /\ k.judged = TRUE
        BY <1>2, <3>3 DEF Candidate
      <4> QED
        BY <1>2, <4>1 DEF Reasoned, Called, Referred
    <3> QED
      BY <2>1, <3>1, <3>2, <3>3 DEF Ruled, k1
  <2> QED
    BY <1>3, <1>6, <2>1, <2>2
<1>7. CASE routed < JudgeCap /\ routed' = routed + 1 /\ human' = human + 1
           /\ cand' = [cand EXCEPT ![c] = Reject(k1, "human_review")]
  <2> DEFINE q == Reject(k1, "human_review")
  <2>1. q.stage = "rejected" /\ q.reasons = {"human_review"} /\ q.surface = k0.surface /\ q.judged = TRUE
    BY <1>4, RejectedFields DEF Reason
  <2> HIDE DEF q
  <2> QED
    BY <1>2, <1>3, <1>7, <2>1 DEF Reasoned, Called, Referred, q
<1> QED
  BY <1>5, <1>6, <1>7 DEF JudgeOne, k1

LEMMA SkipAuditMoves ==
  ASSUME IInv, ReasonsInv, SkipAudit, NEW c \in Cand
  PROVE  Moved(cand[c], cand'[c]) /\ cand'[c].reasons = cand[c].reasons
<1>1. cand[c] \in Candidate /\ Reasoned(cand[c])
  BY DEF IInv, TypeOK, ReasonsInv
<1>2. cand'[c] = cand[c] \/ cand'[c] = [cand[c] EXCEPT !.support = "skipped"]
  BY DEF SkipAudit
<1> DEFINE k == cand[c]
           q == cand'[c]
<1>3. q.stage = k.stage /\ q.reasons = k.reasons /\ q.surface = k.surface /\ q.judged = k.judged
  BY <1>1, <1>2 DEF Candidate
<1> HIDE DEF k, q
<1>4. Reasoned(k) => Reasoned(q)
  BY <1>3 DEF Reasoned
<1> QED
  BY <1>1, <1>3, <1>4 DEF Moved, Called, Referred, k, q

LEMMA FinalizeMoves ==
  ASSUME IInv, ReasonsInv, Finalize, NEW c \in Cand
  PROVE  Moved(cand[c], cand'[c])
<1>1. PICK bad \in SUBSET Verified : \E K \in SUBSET (Verified \ bad) :
        /\ Kept(K, Records(Verified \ bad))
        /\ cand' = [d \in Cand |-> Finalized(d, bad, K, Records(Verified \ bad))]
  BY DEF Finalize
<1> DEFINE S == Verified \ bad
           rec == Records(S)
           k == cand[c]
           q == cand'[c]
<1>2. PICK K \in SUBSET S :
        Kept(K, rec) /\ cand' = [d \in Cand |-> Finalized(d, bad, K, rec)]
  BY <1>1
<1>3. q = Finalized(c, bad, K, rec) /\ k \in Candidate /\ Reasoned(k)
  BY <1>2 DEF IInv, TypeOK, ReasonsInv
<1>4. CASE c \notin Verified
  BY <1>3, <1>4 DEF Finalized, Moved
<1>5. CASE c \in Verified
  <2>1. k.stage = "verified"
    BY <1>5 DEF Verified
  <2>2. k.reasons = {} /\ k.surface # NoSurface /\ k.surface.gate = "ok"
    BY <2>1, PassedGates
  <2>3. CASE \E r \in {"policy", "diversity_cap"} : q = Reject(k, r)
    BY <1>3, <2>2, <2>3, RejectMoves DEF Reason
  <2>4. CASE c \in S \ K
    <3> DEFINE k1 == [k EXCEPT !.dup_of = DuplicateOf(K, rec, c)]
    <3>1. DuplicateOf(K, rec, c) \in Cand
      <4>1. S \in SUBSET Nat /\ S \subseteq Cand /\ rec \in [S -> Record]
        BY RecordsAreTyped
      <4>2. DuplicateOf(K, rec, c) \in DuplicatedBy(K, rec, c)
        BY <1>2, <2>4, <4>1, ReportedUnderKept
      <4> QED
        BY <1>2, <4>1, <4>2 DEF DuplicatedBy
    <3>2. k1 \in Candidate /\ k1.reasons = {} /\ k1.surface = k.surface /\ k1.judged = k.judged
      BY <1>3, <2>2, <3>1 DEF Candidate
    <3>3. q = Reject(k1, "dedupe")
      BY <1>3, <1>5, <2>4 DEF Finalized
    <3> HIDE DEF k1, S, rec, q
    <3>4. Moved(k1, q)
      BY <2>2, <3>2, <3>3, RejectMoves DEF Reason
    <3>5. q.surface = k1.surface
      BY <3>2, <3>3, RejectedFields DEF Reason
    <3>6. (Called(k1) <=> Called(k)) /\ (Referred(k1) <=> Referred(k))
      BY <2>2, <3>2 DEF Called, Referred
    <3> QED
      BY <3>2, <3>4, <3>5, <3>6 DEF Moved, k, q
  <2>5. CASE q = [k EXCEPT !.stage = "accepted"]
    <3>1. q.stage = "accepted" /\ q.reasons = {} /\ q.surface = k.surface /\ q.judged = k.judged
      BY <1>3, <2>2, <2>5 DEF Candidate
    <3> HIDE DEF k, q
    <3> QED
      BY <2>2, <3>1 DEF Moved, Reasoned, Called, Referred, k, q
  <2> QED
    BY <1>3, <1>5, <2>3, <2>4, <2>5 DEF Finalized
<1> QED
  BY <1>4, <1>5

-----------------------------------------------------------------------------
(* A step of the same process other than load_run *)

LEMMA SameIsMoved ==
  ASSUME ReasonsInv, NEW c \in Cand, cand'[c] = cand[c]
  PROVE  Moved(cand[c], cand'[c])
BY DEF ReasonsInv, Moved

\* Every step of a process but the judge's and a render only moves its candidates.
LEMMA CandidatesMove ==
  ASSUME IInv, ReasonsInv, [Next]_vars, ~ StartReverify, ~ LoadRun,
         \A d \in Cand : ~ JudgeOne(d) /\ ~ RenderOne(d),
         NEW c \in Cand
  PROVE  /\ Moved(cand[c], cand'[c])
         /\ "dedupe" \in cand'[c].reasons => "dedupe" \in cand[c].reasons \/ Finalize
<1>1. CASE \/ UNCHANGED vars \/ SkipPhase \/ StartPhase \/ ServerFailed \/ Sample \/ OracleFailed
           \/ EndGenerate \/ EndVerify \/ EndJudge \/ EndSupport \/ Write
  BY <1>1, SchedulerKeepsCandidates, SameIsMoved DEF vars
<1>2. ASSUME NEW d \in Cand, VerifyOne(d) \/ AuditOne(d)
      PROVE  Moved(cand[c], cand'[c]) /\ ("dedupe" \in cand'[c].reasons => "dedupe" \in cand[c].reasons)
  <2>1. PICK k : cand' = [cand EXCEPT ![d] = k] /\ Moved(cand[d], k) /\ "dedupe" \notin k.reasons
    BY <1>2, VerifyMoves, AuditMoves
  <2>2. cand'[c] = IF c = d THEN k ELSE cand[c]
    BY <2>1 DEF IInv, TypeOK
  <2> QED
    BY <2>1, <2>2, SameIsMoved
<1>3. CASE SkipAudit
  BY <1>3, SkipAuditMoves
<1>4. CASE Finalize
  BY <1>4, FinalizeMoves
<1> QED
  BY <1>1, <1>2, <1>3, <1>4 DEF Next, Work

LEMMA LoadedIsReasoned ==
  ASSUME NEW row \in Row, row.surface = NoSurface => row.reasons # {} /\ row.reasons \subseteq WithoutSurface
  PROVE  /\ Reasoned(Loaded(row)) /\ ~ Called(Loaded(row)) /\ ~ Referred(Loaded(row))
         /\ Loaded(row).surface = row.surface /\ "dedupe" \notin Loaded(row).reasons
         /\ row.surface = NoSurface => Loaded(row).reasons = row.reasons
<1>1. CASE row.surface = NoSurface
  <2> DEFINE q == Loaded(row)
  <2>1. q.stage = "rejected" /\ q.reasons = row.reasons /\ q.surface = NoSurface /\ q.judged = FALSE
    BY <1>1 DEF Loaded, Fresh
  <2> QED
    BY <1>1, <2>1 DEF Reasoned, Called, Referred, WithoutSurface
<1>2. CASE row.surface # NoSurface
  <2> DEFINE k == [Fresh EXCEPT !.surface = row.surface]
  <2>1. k \in Candidate /\ k.surface \in Surface /\ k.surface = row.surface /\ k.reasons = {} /\ k.judged = FALSE
    BY <1>2, FreshIsTyped DEF Fresh, Candidate, Row, SurfaceOrNone
  <2>2. Loaded(row) = DetGates(k)
    BY <1>2 DEF Loaded
  <2> HIDE DEF k
  <2> QED
    BY <1>2, <2>1, <2>2, GatedIsReasoned
<1> QED
  BY <1>1, <1>2

-----------------------------------------------------------------------------
(* The saved rows, and what a reverify makes of them *)

\* A row saved without a surface says why generation gave none.
RowsInv ==
  disk # NoRun => \A c \in Cand :
    disk[c].surface = NoSurface => disk[c].reasons # {} /\ disk[c].reasons \subseteq WithoutSurface
\* Past generation every candidate has been rendered.
RenderedInv == pc \notin {"sample", "generate", "load", "aborted"} => ToRender = {}
\* A reverify works on the saved surfaces, and has no other.
ReverifyInv ==
  mode = "reverify" =>
    /\ disk # NoRun /\ pc \notin {"sample", "generate"}
    /\ pc # "load" => \A c \in Cand :
         /\ cand[c].surface = disk[c].surface
         /\ disk[c].surface = NoSurface => cand[c].reasons = disk[c].reasons
\* Only a finalized candidate can have been dropped as a duplicate.
DroppedInv == ~ Written => \A c \in Cand : "dedupe" \notin cand[c].reasons
VerdictInv == ReasonsInv /\ RowsInv /\ RenderedInv /\ ReverifyInv /\ DroppedInv

LEMMA InitVerdictInv == Init => VerdictInv
<1> SUFFICES ASSUME Init PROVE VerdictInv
  OBVIOUS
<1>1. \A c \in Cand : cand[c] = Fresh
  BY DEF Init
<1>2. ReasonsInv /\ DroppedInv
  BY <1>1 DEF ReasonsInv, Reasoned, Fresh, DroppedInv
<1> QED
  BY <1>2 DEF Init, VerdictInv, RowsInv, RenderedInv, ReverifyInv

\* A process does not go back behind finalize.
LEMMA WrittenStays ==
  ASSUME IInv, [Next]_vars, ~ StartReverify
  PROVE  (Written => Written') /\ (Finalize => Written')
<1>1. ASSUME NEW d \in Cand, RenderOne(d) \/ VerifyOne(d) \/ JudgeOne(d) \/ AuditOne(d)
      PROVE  ~ Written
  BY <1>1, WorkOnOneCandidate DEF Written, Phase
<1> QED
  BY <1>1 DEF Next, Work, Written, vars, Phase, SkipPhase, StartPhase, ServerFailed, Sample, OracleFailed,
     EndGenerate, EndVerify, EndJudge, EndSupport, Write, SkipAudit, LoadRun, Finalize, PhaseAfter

LEMMA ReasonsStep ==
  ASSUME IInv, VerdictInv, [Next]_vars
  PROVE  ReasonsInv' /\ DroppedInv'
<1> USE DEF VerdictInv
<1>1. CASE StartReverify
  BY <1>1 DEF StartReverify, ReasonsInv, Reasoned, Fresh, DroppedInv
<1>2. CASE LoadRun
  <2>1. \A c \in Cand : disk[c] \in Row /\ cand'[c] = Loaded(disk[c])
    BY <1>2 DEF LoadRun, IInv, TypeOK, ProcessInv
  <2>2. \A c \in Cand : Reasoned(cand'[c]) /\ "dedupe" \notin cand'[c].reasons
    BY <1>2, <2>1, LoadedIsReasoned DEF RowsInv, LoadRun, IInv, ProcessInv
  <2> QED
    BY <2>2 DEF ReasonsInv, Reasoned, DroppedInv
<1>3. ASSUME NEW d \in Cand, RenderOne(d) \/ JudgeOne(d)
      PROVE  ReasonsInv' /\ DroppedInv'
  <2>1. PICK k : cand' = [cand EXCEPT ![d] = k] /\ Reasoned(k) /\ "dedupe" \notin k.reasons
    BY <1>3, RenderMoves, JudgeMoves
  <2>2. \A c \in Cand : cand'[c] = IF c = d THEN k ELSE cand[c]
    BY <2>1 DEF IInv, TypeOK
  <2>3. ~ Written
    BY <1>3, WorkOnOneCandidate DEF Written, Phase
  <2> QED
    BY <2>1, <2>2, <2>3 DEF ReasonsInv, Reasoned, DroppedInv
<1>4. CASE ~ StartReverify /\ ~ LoadRun /\ \A d \in Cand : ~ JudgeOne(d) /\ ~ RenderOne(d)
  <2>1. \A c \in Cand : Reasoned(cand'[c])
    BY <1>4, CandidatesMove DEF Moved
  <2>2. ~ Written' => ~ Written /\ ~ Finalize
    BY <1>4, WrittenStays
  <2>3. ~ Written' => \A c \in Cand : "dedupe" \notin cand'[c].reasons
    BY <1>4, <2>2, CandidatesMove DEF DroppedInv
  <2> QED
    BY <2>1, <2>3 DEF ReasonsInv, Reasoned, DroppedInv
<1> QED
  BY <1>1, <1>2, <1>3, <1>4

\* Outside generate no candidate gets a surface, and none becomes unrendered again.
LEMMA SurfacesStay ==
  ASSUME IInv, VerdictInv, [Next]_vars, ~ StartReverify, ~ LoadRun, NEW c \in Cand
  PROVE  /\ pc # "generate" => cand'[c].surface = cand[c].surface
         /\ cand[c].stage # "oracle_ok" => cand'[c].stage # "oracle_ok"
<1> USE DEF VerdictInv
<1>1. runs' = runs
  BY DEF Next, Work, vars, process, SkipPhase, StartPhase, ServerFailed, Sample, OracleFailed,
     EndGenerate, EndVerify, EndJudge, EndSupport, EndPhase, Write, RenderOne, VerifyOne, JudgeOne,
     AuditOne, SkipAudit, Finalize
<1>2. CASE cand[c].stage = "rejected"
  BY <1>1, <1>2, VerdictStep
<1>3. ASSUME NEW d \in Cand, RenderOne(d)
      PROVE  pc = "generate" /\ (cand[c].stage # "oracle_ok" => cand'[c] = cand[c])
  <2>1. pc = "generate" /\ cand[d].stage = "oracle_ok"
    BY <1>3 DEF RenderOne, ToRender
  <2>2. \E k : cand' = [cand EXCEPT ![d] = k]
    BY <1>3, RenderMoves
  <2> QED
    BY <2>1, <2>2 DEF IInv, TypeOK
<1>4. ASSUME NEW d \in Cand, JudgeOne(d)
      PROVE  cand'[c].surface = cand[c].surface /\ Reasoned(cand'[c])
  <2>1. \E k : cand' = [cand EXCEPT ![d] = k] /\ Reasoned(k) /\ k.surface = cand[d].surface
    BY <1>4, JudgeMoves
  <2> QED
    BY <2>1 DEF IInv, TypeOK, ReasonsInv
<1>5. CASE \A d \in Cand : ~ RenderOne(d)
  <2>1. cand'[c].surface = cand[c].surface /\ Reasoned(cand'[c])
    BY <1>4, <1>5, CandidatesMove DEF Moved
  <2> QED
    BY <1>2, <2>1 DEF Reasoned, ReasonsInv
<1> QED
  BY <1>3, <1>5

LEMMA RowsStep ==
  ASSUME IInv, VerdictInv, [Next]_vars
  PROVE  RowsInv'
<1> USE DEF VerdictInv
<1>1. CASE Write
  <2> SUFFICES ASSUME NEW c \in Cand, disk'[c].surface = NoSurface
               PROVE  disk'[c].reasons # {} /\ disk'[c].reasons \subseteq WithoutSurface
    BY DEF RowsInv
  <2>1. /\ pc = "write" /\ disk'[c].surface = cand[c].surface
        /\ disk'[c].reasons = IF Alive(c) THEN {} ELSE cand[c].reasons
    BY <1>1 DEF Write
  <2>2. cand[c].stage # "oracle_ok"
    BY <2>1 DEF RenderedInv, ToRender
  <2>3. cand[c].stage = "rejected" /\ cand[c].reasons \subseteq WithoutSurface
    BY <2>1, <2>2 DEF ReasonsInv, Reasoned
  <2>4. cand[c].reasons # {}
    BY <2>3 DEF IInv, StagesInv, Sound
  <2> QED
    BY <2>1, <2>3, <2>4 DEF Alive
<1>2. CASE ~ Write
  <2>1. disk' = disk
    BY <1>2 DEF Next, Work, vars, SkipPhase, StartPhase, ServerFailed, Sample, OracleFailed,
       EndGenerate, EndVerify, EndJudge, EndSupport, EndPhase, RenderOne, VerifyOne, JudgeOne,
       AuditOne, SkipAudit, Finalize, LoadRun, StartReverify
  <2> QED
    BY <2>1 DEF RowsInv
<1> QED
  BY <1>1, <1>2

LEMMA RenderedStep ==
  ASSUME IInv, VerdictInv, [Next]_vars
  PROVE  RenderedInv'
<1> USE DEF VerdictInv
<1>1. CASE StartReverify
  BY <1>1 DEF StartReverify, RenderedInv
<1>2. CASE LoadRun
  <2>1. \A c \in Cand : cand'[c].stage # "oracle_ok"
    <3>1. \A c \in Cand : disk[c] \in Row /\ cand'[c] = Loaded(disk[c])
      BY <1>2 DEF LoadRun, IInv, TypeOK, ProcessInv
    <3> QED
      BY <3>1, LoadedIsSound
  <2> QED
    BY <2>1 DEF RenderedInv, ToRender
<1>3. CASE ~ StartReverify /\ ~ LoadRun /\ pc' \notin {"sample", "generate", "load", "aborted"}
  <2>1. CASE pc \in {"sample", "generate", "load", "aborted"}
    <3>1. pc # pc'
      BY <1>3, <2>1
    <3>2. EndGenerate
      BY <1>3, <2>1, <3>1 DEF Next, Work, vars, Phase, SkipPhase, When, StartPhase, ServerFailed, Sample,
         OracleFailed, EndVerify, EndJudge, EndSupport, EndPhase, PhaseAfter, Write, RenderOne, VerifyOne,
         JudgeOne, AuditOne, SkipAudit, Finalize, LoadRun, StartReverify
    <3>3. ToRender = {} /\ cand' = cand
      BY <3>2 DEF EndGenerate, EndPhase
    <3> QED
      BY <3>3 DEF RenderedInv, ToRender
  <2>2. CASE pc \notin {"sample", "generate", "load", "aborted"}
    <3>1. \A c \in Cand : cand'[c].stage # "oracle_ok"
      BY <1>3, <2>2, SurfacesStay DEF RenderedInv, ToRender
    <3> QED
      BY <3>1 DEF RenderedInv, ToRender
  <2> QED
    BY <2>1, <2>2
<1> QED
  BY <1>1, <1>2, <1>3 DEF RenderedInv

LEMMA ReverifyStep ==
  ASSUME IInv, VerdictInv, [Next]_vars
  PROVE  ReverifyInv'
<1> USE DEF VerdictInv
<1>1. CASE StartReverify
  BY <1>1 DEF StartReverify, ReverifyInv
<1>2. CASE LoadRun
  <2>1. \A c \in Cand : disk[c] \in Row /\ cand'[c] = Loaded(disk[c])
    BY <1>2 DEF LoadRun, IInv, TypeOK, ProcessInv
  <2>2. disk # NoRun /\ disk' = disk /\ pc' = "verify"
    BY <1>2 DEF LoadRun, IInv, ProcessInv
  <2>3. \A c \in Cand : /\ cand'[c].surface = disk'[c].surface
                        /\ disk'[c].surface = NoSurface => cand'[c].reasons = disk'[c].reasons
    BY <2>1, <2>2, LoadedIsReasoned DEF RowsInv
  <2> QED
    BY <2>2, <2>3 DEF ReverifyInv
<1>3. CASE Write
  <2>1. pc = "write" /\ pc' = "done" /\ disk' # NoRun /\ cand' = cand
    <3>1. disk' = [c \in Cand |-> [surface |-> cand[c].surface,
                                   reasons |-> IF Alive(c) THEN {} ELSE cand[c].reasons]]
      BY <1>3 DEF Write
    <3>2. disk' # << >>
      <4>1. DOMAIN disk' = Cand
        BY <3>1
      <4>2. 1 \in Cand
        BY SizeAssumption DEF Cand
      <4> QED
        BY <4>1, <4>2
    <3> QED
      BY <1>3, <3>2 DEF Write, NoRun
  <2>2. ASSUME NEW c \in Cand
        PROVE  /\ cand'[c].surface = disk'[c].surface
               /\ disk'[c].surface = NoSurface => cand'[c].reasons = disk'[c].reasons
    <3>1. /\ disk'[c].surface = cand[c].surface
          /\ disk'[c].reasons = IF Alive(c) THEN {} ELSE cand[c].reasons
      BY <1>3 DEF Write
    <3>2. cand[c].stage # "oracle_ok"
      BY <2>1 DEF RenderedInv, ToRender
    <3>3. cand[c].surface = NoSurface => ~ Alive(c)
      BY <3>2 DEF ReasonsInv, Reasoned, Alive
    <3> QED
      BY <2>1, <3>1, <3>3
  <2> QED
    BY <2>1, <2>2 DEF ReverifyInv
<1>4. CASE ~ StartReverify /\ ~ LoadRun /\ ~ Write /\ mode' = "reverify"
  <2>1. disk' = disk /\ mode' = mode /\ runs' = runs
    BY <1>4 DEF Next, Work, vars, process, SkipPhase, StartPhase, ServerFailed, Sample, OracleFailed,
       EndGenerate, EndVerify, EndJudge, EndSupport, EndPhase, RenderOne, VerifyOne, JudgeOne,
       AuditOne, SkipAudit, Finalize
  <2>2. disk # NoRun /\ pc \notin {"sample", "generate"}
    BY <1>4, <2>1 DEF ReverifyInv
  <2>3. pc' \notin {"sample", "generate"} /\ (pc = "load" => pc' = "load")
    BY <1>4, <2>2 DEF Next, Work, vars, Phase, SkipPhase, StartPhase, ServerFailed, Sample, OracleFailed,
       EndGenerate, EndVerify, EndJudge, EndSupport, EndPhase, PhaseAfter, RenderOne, VerifyOne, JudgeOne,
       AuditOne, SkipAudit, Finalize
  <2>4. ASSUME NEW c \in Cand, pc # "load"
        PROVE  /\ cand'[c].surface = disk'[c].surface
               /\ disk'[c].surface = NoSurface => cand'[c].reasons = disk'[c].reasons
    <3>1. cand[c].surface = disk[c].surface /\ cand'[c].surface = cand[c].surface
      BY <1>4, <2>1, <2>2, <2>4, SurfacesStay DEF ReverifyInv
    <3>2. ASSUME disk[c].surface = NoSurface PROVE cand'[c].reasons = disk[c].reasons
      <4>1. cand[c].reasons = disk[c].reasons /\ disk[c].reasons # {}
        BY <1>4, <2>1, <2>2, <2>4, <3>2 DEF ReverifyInv, RowsInv
      <4>2. cand[c].stage = "rejected"
        BY <4>1 DEF ReasonsInv, Reasoned
      <4> QED
        BY <2>1, <4>1, <4>2, VerdictStep
    <3> QED
      BY <2>1, <3>1, <3>2
  <2> QED
    BY <2>1, <2>2, <2>3, <2>4 DEF ReverifyInv
<1> QED
  BY <1>1, <1>2, <1>3, <1>4 DEF ReverifyInv

\* The verdicts' invariant holds in every reachable state.
LEMMA VerdictInvariant == Spec => []VerdictInv
<1>1. Init => VerdictInv
  BY InitVerdictInv
<1>2. IInv /\ VerdictInv /\ [Next]_vars => VerdictInv'
  BY ReasonsStep, RowsStep, RenderedStep, ReverifyStep DEF VerdictInv
<1> QED
  BY <1>1, <1>2, Invariant, PTL DEF Spec

(* A reverify never decides again what generation decided: a candidate      *)
(* without surface stays rejected for its old reasons, one stopped by a     *)
(* deterministic gate is stopped by the same gate, in any number of         *)
(* processes and whichever of them were aborted.                            *)
THEOREM GenerationVerdictsAreKept == Spec => []GenerationVerdictsKept
<1>1. VerdictInv => GenerationVerdictsKept
  <2> SUFFICES ASSUME VerdictInv, mode = "reverify", pc # "load", disk # NoRun, NEW c \in Cand
               PROVE  /\ disk[c].surface = NoSurface =>
                           cand[c].stage = "rejected" /\ cand[c].reasons = disk[c].reasons
                      /\ disk[c].surface # NoSurface /\ disk[c].surface.gate # "ok" =>
                           cand[c].stage = "rejected" /\ cand[c].reasons = {disk[c].surface.gate}
    BY DEF GenerationVerdictsKept
  <2> USE DEF VerdictInv
  <2>1. /\ cand[c].surface = disk[c].surface
        /\ disk[c].surface = NoSurface => cand[c].reasons = disk[c].reasons /\ disk[c].reasons # {}
    BY DEF ReverifyInv, RowsInv
  <2>2. Reasoned(cand[c])
    BY DEF ReasonsInv
  <2> QED
    BY <2>1, <2>2 DEF Reasoned
<1> QED
  BY <1>1, VerdictInvariant, PTL

-----------------------------------------------------------------------------
(* A duplicate gives way to a kept record *)

LEMMA FinalizeGivesWay ==
  ASSUME IInv, VerdictInv, Finalize
  PROVE  DuplicatesGiveWay'
<1> USE DEF VerdictInv
<1>1. PICK bad \in SUBSET Verified : \E K \in SUBSET (Verified \ bad) :
        /\ Kept(K, Records(Verified \ bad))
        /\ cand' = [d \in Cand |-> Finalized(d, bad, K, Records(Verified \ bad))]
  BY DEF Finalize
<1> DEFINE S == Verified \ bad
           rec == Records(S)
           After(d) == [pack |-> world'[d].pack, split |-> world'[d].split, rank |-> world'[d].rank,
                        family |-> world'[d].family, held |-> world'[d].held,
                        text |-> cand'[d].surface.text]
<1>2. PICK K \in SUBSET S :
        Kept(K, rec) /\ cand' = [d \in Cand |-> Finalized(d, bad, K, rec)]
  BY <1>1
<1>3. S \in SUBSET Nat /\ S \subseteq Cand /\ rec \in [S -> Record]
  BY RecordsAreTyped
<1>4. ASSUME NEW c \in S PROVE After(c) = rec[c]
  <2>1. cand'[c].surface = cand[c].surface
    BY <1>3, <1>4, FinalizeMoves DEF Moved
  <2>2. world' = world
    BY DEF Finalize
  <2> QED
    BY <2>1, <2>2 DEF MakeRecord, Records
\* A kept record is accepted or cut, never dropped.
<1>5. ASSUME NEW k \in K
      PROVE  cand'[k].stage \in {"accepted", "rejected"} /\ "dedupe" \notin cand'[k].reasons
  <2>1. /\ k \in Cand /\ k \in Verified /\ k \notin bad /\ cand[k] \in Candidate /\ cand[k].reasons = {}
        /\ cand'[k] = Finalized(k, bad, K, rec)
    BY <1>2, <1>3, PassedGates DEF Verified, IInv, TypeOK
  <2>2. CASE cand'[k] = Reject(cand[k], "diversity_cap")
    BY <2>1, <2>2, RejectedFields DEF Reason
  <2>3. CASE cand'[k] = [cand[k] EXCEPT !.stage = "accepted"]
    BY <2>1, <2>3 DEF Candidate
  <2> QED
    BY <2>1, <2>2, <2>3 DEF Finalized
\* Only a record outside K is dropped.
<1>6. ASSUME NEW c \in Cand, "dedupe" \in cand'[c].reasons
      PROVE  c \in S \ K /\ cand'[c].dup_of = DuplicateOf(K, rec, c)
  <2>1. /\ cand[c] \in Candidate /\ "dedupe" \notin cand[c].reasons
        /\ cand'[c] = Finalized(c, bad, K, rec)
    BY <1>2 DEF IInv, TypeOK, DroppedInv, Finalize, Written
  <2>2. c \in Verified
    BY <1>6, <2>1 DEF Finalized
  <2>3. c \notin bad
    BY <1>6, <2>1, <2>2, RejectedFields DEF Finalized, Reason
  <2>4. c \notin K
    BY <1>5, <1>6
  <2>5. cand'[c] = Reject([cand[c] EXCEPT !.dup_of = DuplicateOf(K, rec, c)], "dedupe")
    BY <2>1, <2>2, <2>3, <2>4 DEF Finalized
  <2>6. cand'[c].dup_of = DuplicateOf(K, rec, c)
    <3> HIDE DEF rec, S
    <3> QED
      BY <2>1, <2>5 DEF Reject, Candidate
  <2> QED
    BY <2>2, <2>3, <2>4, <2>6
<1>7. ASSUME NEW c \in Cand, "dedupe" \in cand'[c].reasons, NEW k, k = cand'[c].dup_of
      PROVE  /\ "dedupe" \notin cand'[k].reasons /\ Duplicates(After(k), After(c))
             /\ world'[k].rank >= world'[c].rank
             /\ cand'[k].stage \in {"accepted", "rejected"}
  <2> HIDE DEF rec, S, After
  <2>1. c \in S \ K /\ k \in DuplicatedBy(K, rec, c)
    BY <1>2, <1>3, <1>6, <1>7, ReportedUnderKept
  <2>2. k \in K /\ k \in S /\ Before(rec, k, c) /\ Duplicates(rec[k], rec[c])
    BY <1>2, <2>1 DEF DuplicatedBy
  <2>3. Duplicates(After(k), After(c))
    BY <1>4, <2>1, <2>2
  <2>4. world'[k].rank >= world'[c].rank
    <3>1. rec[k] \in Record /\ rec[c] \in Record /\ rec[k].rank >= rec[c].rank
      BY <1>3, <2>1, <2>2 DEF Before, Record, Rank
    <3>2. rec[k].rank = world[k].rank /\ rec[c].rank = world[c].rank /\ world' = world
      BY <2>1, <2>2 DEF Records, MakeRecord, Finalize, rec
    <3> QED
      BY <3>1, <3>2
  <2>5. "dedupe" \notin cand'[k].reasons /\ cand'[k].stage \in {"accepted", "rejected"}
    BY <1>5, <2>2
  <2> QED
    BY <2>3, <2>4, <2>5
<1> HIDE DEF rec, S
<1> QED
  BY <1>7 DEF DuplicatesGiveWay, MakeRecord

LEMMA GivesWayStep ==
  ASSUME IInv, VerdictInv, DuplicatesGiveWay, [Next]_vars
  PROVE  DuplicatesGiveWay'
<1>1. CASE Finalize
  BY <1>1, FinalizeGivesWay
<1>2. CASE ~ Written'
  <2>1. DroppedInv'
    BY ReasonsStep
  <2> QED
    BY <1>2, <2>1 DEF DroppedInv, DuplicatesGiveWay
<1>3. CASE Written' /\ ~ Finalize
  <2>1. cand' = cand /\ world' = world
    BY <1>3, AfterWritten
  <2> QED
    BY <2>1 DEF DuplicatesGiveWay, MakeRecord
<1> QED
  BY <1>1, <1>2, <1>3

(* A record dropped as a duplicate is reported under a record of its pack   *)
(* that is a duplicate of it, at least as hard, and itself not dropped as a *)
(* duplicate, whatever the similarity relation and the oracle re-run's      *)
(* verdicts.                                                                *)
THEOREM DuplicatesGiveWayToKept == Spec => []DuplicatesGiveWay
<1>1. Init => DuplicatesGiveWay
  BY DEF Init, DuplicatesGiveWay, Fresh
<1>2. IInv /\ VerdictInv /\ DuplicatesGiveWay /\ [Next]_vars => DuplicatesGiveWay'
  BY GivesWayStep
<1> QED
  BY <1>1, <1>2, Invariant, VerdictInvariant, PTL DEF Spec

-----------------------------------------------------------------------------
(* The judge's budget *)

CalledSet   == {c \in Cand : Called(cand[c])}
ReferredSet == {c \in Cand : Referred(cand[c])}
BudgetInv ==
  routed <= JudgeCap /\ routed = Cardinality(CalledSet) /\ human = Cardinality(ReferredSet)

LEMMA CapIsPositive == JudgeCap \in Nat \ {0}
<1>1. JudgePct * N \in Nat
  BY SizeAssumption, ConfigAssumption
<1>2. (JudgePct * N) \div 100 \in Int
  BY <1>1
<1> QED
  BY <1>2 DEF JudgeCap

LEMMA CountedAreFinite == IsFiniteSet(CalledSet) /\ IsFiniteSet(ReferredSet)
<1>1. IsFiniteSet(Cand)
  BY FS_Interval, SizeAssumption DEF Cand
<1>2. CalledSet \in SUBSET Cand /\ ReferredSet \in SUBSET Cand
  BY DEF CalledSet, ReferredSet
<1> QED
  BY <1>1, <1>2, FS_Subset

LEMMA NobodyCounted ==
  ASSUME NEW f, \A c \in Cand : ~ Called(f[c]) /\ ~ Referred(f[c])
  PROVE  /\ Cardinality({c \in Cand : Called(f[c])}) = 0
         /\ Cardinality({c \in Cand : Referred(f[c])}) = 0
<1>1. {c \in Cand : Called(f[c])} = {} /\ {c \in Cand : Referred(f[c])} = {}
  OBVIOUS
<1> QED
  BY <1>1, FS_EmptySet

LEMMA SameCounts ==
  ASSUME BudgetInv, UNCHANGED <<routed, human>>,
         \A c \in Cand : /\ Called(cand'[c]) <=> Called(cand[c])
                         /\ Referred(cand'[c]) <=> Referred(cand[c])
  PROVE  BudgetInv'
<1>1. CalledSet' = CalledSet /\ ReferredSet' = ReferredSet
  BY DEF CalledSet, ReferredSet, Called, Referred
<1>2. JudgeCap' = JudgeCap
  BY DEF JudgeCap
<1> QED
  BY <1>1, <1>2 DEF BudgetInv

LEMMA JudgeCounts ==
  ASSUME IInv, VerdictInv, BudgetInv, NEW c \in Cand, JudgeOne(c)
  PROVE  BudgetInv'
<1>1. PICK k : /\ cand' = [cand EXCEPT ![c] = k]
               /\ ~ Called(cand[c]) /\ ~ Referred(cand[c])
               /\ \/ routed' = routed /\ human' = human /\ ~ Called(k) /\ ~ Referred(k)
                  \/ /\ routed < JudgeCap /\ routed' = routed + 1 /\ Called(k)
                     /\ \/ human' = human /\ ~ Referred(k)
                        \/ human' = human + 1 /\ Referred(k)
  BY JudgeMoves DEF VerdictInv
<1>2. \A d \in Cand : cand'[d] = IF d = c THEN k ELSE cand[d]
  BY <1>1 DEF IInv, TypeOK
<1>3. c \notin CalledSet /\ c \notin ReferredSet
  BY <1>1 DEF CalledSet, ReferredSet
<1>4. /\ CalledSet' = IF Called(k) THEN CalledSet \cup {c} ELSE CalledSet
      /\ ReferredSet' = IF Referred(k) THEN ReferredSet \cup {c} ELSE ReferredSet
  BY <1>1, <1>2 DEF CalledSet, ReferredSet, Called, Referred
<1>5. /\ Cardinality(CalledSet \cup {c}) = Cardinality(CalledSet) + 1
      /\ Cardinality(ReferredSet \cup {c}) = Cardinality(ReferredSet) + 1
  BY <1>3, CountedAreFinite, FS_AddElement
<1>6. JudgeCap' = JudgeCap /\ JudgeCap \in Nat /\ routed \in Nat
  BY CapIsPositive DEF JudgeCap, IInv, TypeOK
<1> HIDE DEF JudgeCap
<1> QED
  BY <1>1, <1>4, <1>5, <1>6 DEF BudgetInv

LEMMA BudgetStep ==
  ASSUME IInv, VerdictInv, BudgetInv, [Next]_vars
  PROVE  BudgetInv'
<1>1. CASE StartReverify
  <2>1. \A c \in Cand : ~ Called(cand'[c]) /\ ~ Referred(cand'[c])
    BY <1>1 DEF StartReverify, Called, Referred, Fresh
  <2>2. routed' = 0 /\ human' = 0
    BY <1>1 DEF StartReverify
  <2>3. Cardinality(CalledSet') = 0 /\ Cardinality(ReferredSet') = 0
    BY <2>1, NobodyCounted DEF CalledSet, ReferredSet, Called, Referred
  <2>4. JudgeCap' = JudgeCap
    BY DEF JudgeCap
  <2> QED
    BY <2>2, <2>3, <2>4, CapIsPositive DEF BudgetInv
<1>2. CASE LoadRun
  <2>1. \A c \in Cand : /\ disk[c] \in Row /\ cand'[c] = Loaded(disk[c]) /\ cand[c] = Fresh
                        /\ disk # NoRun /\ UNCHANGED <<routed, human>>
    BY <1>2 DEF LoadRun, IInv, TypeOK, ProcessInv
  <2>2. \A c \in Cand : ~ Called(cand'[c]) /\ ~ Referred(cand'[c])
    BY <2>1, LoadedIsReasoned DEF VerdictInv, RowsInv
  <2>3. \A c \in Cand : ~ Called(cand[c]) /\ ~ Referred(cand[c])
    BY <2>1 DEF Called, Referred, Fresh
  <2>4. \A c \in Cand : /\ Called(cand'[c]) <=> Called(cand[c])
                        /\ Referred(cand'[c]) <=> Referred(cand[c])
    BY <2>2, <2>3
  <2>5. UNCHANGED <<routed, human>>
    BY <1>2 DEF LoadRun
  <2> QED
    BY <2>4, <2>5, SameCounts
<1>3. ASSUME NEW d \in Cand, JudgeOne(d) PROVE BudgetInv'
  BY <1>3, JudgeCounts
<1>4. ASSUME NEW d \in Cand, RenderOne(d) PROVE BudgetInv'
  <2>1. PICK k : /\ cand' = [cand EXCEPT ![d] = k]
                 /\ (Called(k) <=> Called(cand[d])) /\ (Referred(k) <=> Referred(cand[d]))
    BY <1>4, RenderMoves DEF VerdictInv
  <2>2. \A c \in Cand : cand'[c] = IF c = d THEN k ELSE cand[c]
    BY <2>1 DEF IInv, TypeOK
  <2> QED
    BY <1>4, <2>1, <2>2, SameCounts DEF RenderOne
<1>5. CASE ~ StartReverify /\ ~ LoadRun /\ \A d \in Cand : ~ JudgeOne(d) /\ ~ RenderOne(d)
  <2>1. UNCHANGED <<routed, human>>
    BY <1>5 DEF Next, Work, vars, SkipPhase, StartPhase, ServerFailed, Sample, OracleFailed,
       EndGenerate, EndVerify, EndJudge, EndSupport, EndPhase, Write, VerifyOne, AuditOne, SkipAudit, Finalize
  <2> QED
    BY <1>5, <2>1, CandidatesMove, SameCounts DEF Moved, VerdictInv
<1> QED
  BY <1>1, <1>2, <1>3, <1>4, <1>5

(* The judge is called at most JudgeCap times in a process, and the         *)
(* manifest's two counters are exactly the candidates that say so.          *)
THEOREM JudgeBudgetIsKept == Spec => []JudgeBudget
<1>1. Init => BudgetInv
  <2> SUFFICES ASSUME Init PROVE BudgetInv
    OBVIOUS
  <2>1. \A c \in Cand : ~ Called(cand[c]) /\ ~ Referred(cand[c])
    BY DEF Init, Fresh, Called, Referred
  <2>2. Cardinality(CalledSet) = 0 /\ Cardinality(ReferredSet) = 0
    BY <2>1, NobodyCounted DEF CalledSet, ReferredSet
  <2> QED
    BY <2>2, CapIsPositive DEF Init, BudgetInv
<1>2. IInv /\ VerdictInv /\ BudgetInv /\ [Next]_vars => BudgetInv'
  BY BudgetStep
<1>3. BudgetInv => JudgeBudget
  BY DEF BudgetInv, JudgeBudget, CalledSet, ReferredSet, Called, Referred
<1> QED
  BY <1>1, <1>2, <1>3, Invariant, VerdictInvariant, PTL DEF Spec
=============================================================================
