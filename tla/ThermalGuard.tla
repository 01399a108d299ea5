---------------------------- MODULE ThermalGuard ----------------------------
(***************************************************************************)
(* The thermal guard and its watchdog (scripts/ops/thermal_guard.sh,        *)
(* thermal_guard_watchdog.sh).  A guard polls two sensors; when one is hot  *)
(* it stops the jobs that match its pattern and pauses the containers that  *)
(* match its glob, when both are cool it continues them.  What it remembers *)
(* is one shell variable, `paused', that dies with it.  Cron runs the       *)
(* watchdog, which starts a guard when it sees none alive.                  *)
(***************************************************************************)
EXTENDS Integers, FiniteSets

CONSTANTS
  Jobs,         \* processes that match PATTERN
  Containers,   \* containers that match DOCKER_NAME_GLOB
  Sensors,      \* the GPU's and the SoC's
  Guards,       \* guard processes that can exist at a time
  FaultKinds,   \* what may happen to a guard: "dies", "stops" (SIGSTOP), "blocks" (state D)
  MaxFaults     \* bound

ASSUME TargetsAssumption == Jobs \cap Containers = {}
ASSUME FaultsAssumption  == FaultKinds \subseteq {"dies", "stops", "blocks"} /\ MaxFaults \in Nat

Targets == Jobs \cup Containers
\* below RESUME_C, between, at or above PAUSE_C; a sensor that cannot be read reads as cool
Level   == {"cool", "between", "hot"}
NoGuard == [state |-> "none", at |-> "polling", paused |-> FALSE, listed |-> {}]
NewGuard == [NoGuard EXCEPT !.state = "alive"]

VARIABLES
  heat,     \* what each sensor reads
  target,   \* absent, running, stopped
  guard,    \* the guard processes: process state, position in the loop, `paused',
            \* the containers listed for a pause
  faults,
  late,     \* history: targets that started, or were continued, while a guard that counts
            \* them as paused was there
  lost      \* history: a guard that had something paused was killed or stopped
guardVars == <<heat, target, guard, faults, late, lost>>

Hot(h)  == \E s \in Sensors : h[s] = "hot"
Cool(h) == \A s \in Sensors : h[s] = "cool"

Present(j)     == target[j] # "absent"          \* pgrep lists stopped processes, too
Polls(g)       == guard[g].state = "alive" /\ guard[g].at = "polling"
At(g, where)   == guard[g].state = "alive" /\ guard[g].at = where
Remembers(g)   == guard[g].paused \/ guard[g].at = "pausing"
\* History: `began' runs now, and nobody in `guards' will look at it again if one has paused.
LateAfter(began, guards) == IF \E g \in guards : Remembers(g) THEN late \cup began ELSE late

GuardInit ==
  /\ heat \in [Sensors -> Level] /\ target \in [Targets -> {"absent", "running"}]
  /\ guard = [g \in Guards |-> NoGuard] /\ faults = 0
  /\ late = {} /\ lost = FALSE

-----------------------------------------------------------------------------
(* The machine *)

Heats ==
  /\ \E s \in Sensors, l \in Level : heat' = [heat EXCEPT ![s] = l]
  /\ UNCHANGED <<target, guard, faults, late, lost>>

Starts(t) ==
  /\ target[t] = "absent"
  /\ target' = [target EXCEPT ![t] = "running"]
  /\ late' = LateAfter({t}, Guards)
  /\ UNCHANGED <<heat, guard, faults, lost>>

Ends(t) ==
  /\ target[t] = "running" /\ target' = [target EXCEPT ![t] = "absent"] /\ late' = late \ {t}
  /\ UNCHANGED <<heat, guard, faults, lost>>

-----------------------------------------------------------------------------
(* The guard's loop *)

SeesHot(g) ==
  /\ Polls(g) /\ Hot(heat) /\ ~guard[g].paused
  /\ guard' = [guard EXCEPT ![g].at = "hot"]
  /\ UNCHANGED <<heat, target, faults, late, lost>>

\* Mutated form: its own command line matches the pattern, too.
StopJobs_Itself(g) ==
  /\ At(g, "hot")
  /\ target' = [t \in Targets |-> IF t \in Jobs /\ Present(t) THEN "stopped" ELSE target[t]]
  /\ guard' = [guard EXCEPT ![g].at = "pausing", ![g].state = "stopped"]
  /\ UNCHANGED <<heat, faults, late, lost>>

\* Both lists are made, then the processes are stopped.
StopJobs(g) ==
  /\ At(g, "hot")
  /\ LET running == {c \in Containers : target[c] = "running"}
         jobs    == {j \in Jobs : Present(j)}
     IN  IF running \cup jobs = {}
         THEN guard' = [guard EXCEPT ![g].at = "polling"] /\ UNCHANGED <<target, late>>
         ELSE /\ late' = late \ jobs
              /\ target' = [t \in Targets |-> IF t \in jobs THEN "stopped" ELSE target[t]]
              /\ guard' = [guard EXCEPT ![g].at = "pausing", ![g].listed = running]
  /\ UNCHANGED <<heat, faults, lost>>

PauseContainers(g) ==
  /\ At(g, "pausing")
  /\ target' = [t \in Targets |-> IF t \in guard[g].listed /\ target[t] = "running" THEN "stopped" ELSE target[t]]
  /\ guard' = [guard EXCEPT ![g] = [NewGuard EXCEPT !.paused = TRUE]]
  /\ late' = late \ guard[g].listed
  /\ UNCHANGED <<heat, faults, lost>>

SeesCool(g) ==
  /\ Polls(g) /\ Cool(heat) /\ guard[g].paused
  /\ guard' = [guard EXCEPT ![g].at = "cool"]
  /\ UNCHANGED <<heat, target, faults, late, lost>>

ContinueJobs(g) ==
  /\ At(g, "cool")
  /\ target' = [t \in Targets |-> IF t \in Jobs /\ Present(t) THEN "running" ELSE target[t]]
  /\ guard' = [guard EXCEPT ![g].at = "resuming"]
  /\ late' = LateAfter({j \in Jobs : Present(j)}, Guards \ {g})
  /\ UNCHANGED <<heat, faults, lost>>

\* Mutated form: the containers come from matching_containers, which lists running ones.
UnpauseContainers_Running(g) ==
  /\ At(g, "resuming")
  /\ guard' = [guard EXCEPT ![g] = NewGuard]
  /\ UNCHANGED <<heat, target, faults, late, lost>>

UnpauseContainers(g) ==
  /\ At(g, "resuming")
  /\ target' = [t \in Targets |-> IF t \in Containers /\ target[t] = "stopped" THEN "running" ELSE target[t]]
  /\ guard' = [guard EXCEPT ![g] = NewGuard]
  /\ late' = IF \E h \in Guards \ {g} : Remembers(h)
              THEN late \cup {c \in Containers : target[c] = "stopped"} ELSE {}
  /\ UNCHANGED <<heat, faults, lost>>

-----------------------------------------------------------------------------
(* What happens to a guard, and the watchdog *)

Fault(g) ==
  /\ faults < MaxFaults /\ faults' = faults + 1
  /\ guard[g].state = "alive"
  /\ \/ /\ "dies" \in FaultKinds /\ guard' = [guard EXCEPT ![g] = NoGuard]
        /\ lost' = (lost \/ Remembers(g))
     \/ /\ "stops" \in FaultKinds /\ guard' = [guard EXCEPT ![g].state = "stopped"]
        /\ lost' = (lost \/ Remembers(g))
     \/ /\ "blocks" \in FaultKinds /\ guard' = [guard EXCEPT ![g].state = "blocked"]
        /\ UNCHANGED lost
  /\ UNCHANGED <<heat, target, late>>

Unblocks(g) ==
  /\ guard[g].state = "blocked" /\ guard' = [guard EXCEPT ![g].state = "alive"]
  /\ UNCHANGED <<heat, target, faults, late, lost>>

\* Mutated form: a guard that exists counts as alive.
Watchdog_Exists ==
  /\ \A g \in Guards : guard[g].state = "none"
  /\ \E g \in Guards : guard' = [guard EXCEPT ![g] = NewGuard]
  /\ UNCHANGED <<heat, target, faults, late, lost>>

\* Stopped guards are killed; one in state R or S counts as alive, one in state D does not.
Watchdog ==
  LET left == [g \in Guards |-> IF guard[g].state = "stopped" THEN NoGuard ELSE guard[g]]
  IN  /\ IF \E g \in Guards : guard[g].state = "alive"
         THEN guard' = left
         ELSE \E g \in Guards : left[g].state = "none" /\ guard' = [left EXCEPT ![g] = NewGuard]
      /\ UNCHANGED <<heat, target, faults, late, lost>>

-----------------------------------------------------------------------------
Loop(g) == \/ SeesHot(g) \/ StopJobs(g) \/ PauseContainers(g)
           \/ SeesCool(g) \/ ContinueJobs(g) \/ UnpauseContainers(g)
Machine == Heats \/ \E t \in Targets : Starts(t) \/ Ends(t)
GuardNext == Machine \/ Watchdog \/ \E g \in Guards : Loop(g) \/ Fault(g) \/ Unblocks(g)

\* The guard polls and cron runs for ever; a blocked process comes back.
GuardSpec == /\ GuardInit /\ [][GuardNext]_guardVars /\ WF_guardVars(Watchdog)
             /\ \A g \in Guards : WF_guardVars(Loop(g)) /\ WF_guardVars(Unblocks(g))

-----------------------------------------------------------------------------
(* Properties *)

GuardTypeOK ==
  /\ heat \in [Sensors -> Level] /\ target \in [Targets -> {"absent", "running", "stopped"}]
  /\ guard \in [Guards -> [state : {"none", "alive", "stopped", "blocked"},
                           at : {"polling", "hot", "pausing", "cool", "resuming"},
                           paused : BOOLEAN, listed : SUBSET Containers]]
  /\ \A g \in Guards : /\ guard[g].at \in {"hot", "pausing"} => ~guard[g].paused
                       /\ guard[g].at \in {"cool", "resuming"} => guard[g].paused
  /\ faults \in 0 .. MaxFaults /\ late \subseteq Targets /\ lost \in BOOLEAN

(* Whatever is stopped is remembered: some guard has `paused' set, or is in *)
(* the middle of the pause that will set it, also where the watchdog runs   *)
(* two guards and one continues what the other stopped.  Unless a guard     *)
(* with something paused was killed or stopped: `paused' went with it.      *)
NotForgotten ==
  ~lost /\ (\E t \in Targets : target[t] = "stopped") =>
    \E g \in Guards : guard[g].state # "none" /\ Remembers(g)

(* "a paused training run resumes exactly where it left off once the box    *)
(* cools": when the sensors stay cool nothing stays stopped, unless a guard *)
(* was lost.                                                                *)
Resumed == (<>[]Cool(heat) /\ []~lost) => <>[](\A t \in Targets : target[t] # "stopped")

(* "the daemon and its watchdog already self-heal without supervision":     *)
(* the same, whatever happens to the guards.                                *)
SelfHeals == <>[]Cool(heat) => <>[](\A t \in Targets : target[t] # "stopped")

(* "when either crosses PAUSE_C, SIGSTOPs every process matching PATTERN":  *)
(* while a sensor stays hot nothing runs on for ever, although guards die,  *)
(* are stopped or block, except what began to run while a guard counted it  *)
(* as paused.                                                               *)
Protected == <>[]Hot(heat) => \A t \in Targets : []<>(target[t] # "running" \/ t \in late)
=============================================================================
