-------------------------- MODULE Operations_proofs --------------------------
(***************************************************************************)
(* Proofs about what is started and stopped beside a run: the model servers *)
(* (ServerController), for any roles, plans, capacity, crashes and number   *)
(* of processes, and the thermal guard (ThermalGuard), for any jobs,        *)
(* containers, sensors and guards.                                          *)
(***************************************************************************)
EXTENDS ServerController, ThermalGuard, FiniteSetTheorems, TLAPS

-----------------------------------------------------------------------------
(* The model servers *)

\* The controller may stop each server it starts.
MayStop == Unload /\ Stoppable = Managed

Kept    == Held \ strays     \* the servers the controller has not lost
InPhase == pc \in {"headroom", "probe", "poll", "serving"}

TypesInv == /\ TypeOK
            /\ Held \subseteq Managed /\ running \in Managed \cup {Nobody}
            /\ InPhase => todo # << >>
            /\ pc \in {"headroom", "probe", "poll"} => Role \in Managed

(* Whose server may hold memory, the lost ones aside: that of `running',    *)
(* the one a stop would reach; only while a start is polled may it be one `running' does not     *)
(* name yet, that of the current phase.                                     *)
HeldInv == /\ pc \notin {"poll", "ended"} => Kept \subseteq {running}
           /\ pc \in {"headroom", "probe"} => running \in {Nobody, Role} \/ Kept = {}
           /\ pc = "poll" => Kept \subseteq {Role}
           /\ pc = "ended" => Kept = {}

(* The role of the current phase is one of the roles. *)
LEMMA RoleIsRole == ASSUME TypeOK, todo # << >> PROVE Role \in Roles /\ Tail(todo) \in Seq(Roles)
BY DEF TypeOK, Role

(* The first state has its types. *)
LEMMA InitTypes == Init => TypesInv
BY PlansAssumption, BoundsAssumption DEF Init, TypesInv, TypeOK, Held, InPhase

(* And every step keeps them. *)
LEMMA TypesStep ==
  ASSUME TypesInv, [Next]_vars
  PROVE  TypesInv'
<1> USE RolesAssumption DEF TypesInv, TypeOK, Held, InPhase
<1>1. CASE UNCHANGED vars
  BY <1>1 DEF vars, Role
<1>2. CASE StopPrevious
  BY <1>2, RoleIsRole DEF StopPrevious, Stop, Lose, losses, Role
<1>3. CASE ServedElsewhere \/ CheckHeadroom
  BY <1>3, RoleIsRole DEF ServedElsewhere, CheckHeadroom, losses, Role
<1>4. CASE Probe
  BY <1>4, RoleIsRole DEF Probe, losses, Role
<1>5. CASE Healthy \/ TimedOut
  BY <1>5, RoleIsRole DEF Healthy, TimedOut, Unnamed, Lose, Role
<1>6. CASE PhaseDone
  BY <1>6, RoleIsRole DEF PhaseDone, losses
<1>7. CASE PhaseRaised \/ AllDone
  BY <1>7 DEF PhaseRaised, AllDone, losses
<1>8. CASE StopAll
  BY <1>8 DEF StopAll, Stop, Lose, losses
<1>9. CASE NewProcess
  BY <1>9, PlansAssumption DEF NewProcess, losses
<1>10. ASSUME NEW r \in Roles, ComesUp(r) \/ Dies(r) PROVE TypesInv'
  BY <1>10, BoundsAssumption DEF ComesUp, Dies, losses, Role
<1>11. CASE Interrupted
  BY <1>11 DEF Interrupted, Unnamed, Lose, losses, Role
<1>12. CASE Killed
  BY <1>12 DEF Killed, Lose, Role
<1> QED
  BY <1>1, <1>2, <1>3, <1>4, <1>5, <1>6, <1>7, <1>8, <1>9, <1>10, <1>11, <1>12 DEF Next, Controller, Servers

(* The controller keeps its types, whatever the servers do. *)
THEOREM TypeCorrect == Spec => []TypeOK
<1>1. TypesInv => TypeOK
  BY DEF TypesInv
<1> QED
  BY <1>1, InitTypes, TypesStep, PTL DEF Spec

(* Whatever happens, memory is held by the server a stop would reach. *)
LEMMA HeldStep ==
  ASSUME MayStop, TypesInv, HeldInv, [Next]_vars
  PROVE  HeldInv'
<1> USE NobodyAssumption, RolesAssumption DEF TypesInv, TypeOK, HeldInv, Kept, Held, InPhase, MayStop
<1>1. CASE UNCHANGED vars
  BY <1>1 DEF vars, Role
<1>2. CASE StopPrevious
  BY <1>2 DEF StopPrevious, Stop, Lose, losses, Role
<1>3. CASE ServedElsewhere \/ CheckHeadroom
  BY <1>3 DEF ServedElsewhere, CheckHeadroom, losses, Role
<1>4. CASE Probe
  BY <1>4, RoleIsRole DEF Probe, losses, Role
<1>5. CASE Healthy \/ TimedOut
  BY <1>5 DEF Healthy, TimedOut, Unnamed, Lose, Role
<1>6. CASE PhaseDone \/ PhaseRaised \/ AllDone
  BY <1>6 DEF PhaseDone, PhaseRaised, AllDone, losses
<1>7. CASE StopAll
  BY <1>7 DEF StopAll, Stop, Lose, losses
<1>8. CASE NewProcess
  BY <1>8 DEF NewProcess, losses
<1>9. ASSUME NEW r \in Roles, ComesUp(r) \/ Dies(r) PROVE HeldInv'
  BY <1>9 DEF ComesUp, Dies, losses, Role
<1>10. CASE Interrupted
  BY <1>10 DEF Interrupted, Unnamed, Lose, losses, Role
<1>11. CASE Killed
  BY <1>11 DEF Killed, Lose
<1> QED
  BY <1>1, <1>2, <1>3, <1>4, <1>5, <1>6, <1>7, <1>8, <1>9, <1>10, <1>11 DEF Next, Controller, Servers

(* Then one server at most is not lost. *)
LEMMA AtMostOne ==
  ASSUME HeldInv
  PROVE  \E r : Kept \subseteq {r}
BY DEF HeldInv

(* The lost servers are finitely many, and no more than mishaps.            *)
LossInv == IsFiniteSet(strays) /\ Cardinality(strays) <= mishaps

(* A mishap that loses one server that was not lost is paid for. *)
LEMMA LoseOne ==
  ASSUME LossInv, mishaps \in Nat, NEW S, NEW r, S \ strays \subseteq {r}, Lose(S)
  PROVE  LossInv'
<1>1. CASE S \subseteq strays
  BY <1>1 DEF LossInv, Lose
<1>2. CASE ~(S \subseteq strays)
  <2>1. strays' = strays \cup {r} /\ mishaps' = mishaps + 1 /\ r \notin strays
    BY <1>2 DEF Lose
  <2>2. IsFiniteSet(strays \cup {r}) /\ Cardinality(strays \cup {r}) = Cardinality(strays) + 1
    BY <2>1, FS_AddElement DEF LossInv
  <2>3. Cardinality(strays) \in Nat
    BY FS_CardinalityType DEF LossInv
  <2> QED
    BY <2>1, <2>2, <2>3 DEF LossInv
<1> QED
  BY <1>1, <1>2

(* A step without a mishap loses none. *)
LEMMA LoseNone ==
  ASSUME LossInv, mishaps \in Nat, strays' \subseteq strays, mishaps' = mishaps
  PROVE  LossInv'
<1>1. IsFiniteSet(strays') /\ Cardinality(strays') <= Cardinality(strays)
  BY FS_Subset DEF LossInv
<1>2. Cardinality(strays) \in Nat /\ Cardinality(strays') \in Nat
  BY <1>1, FS_CardinalityType DEF LossInv
<1> QED
  BY <1>1, <1>2 DEF LossInv

(* No timeout, failed stop, interrupt or kill loses more than one server:   *)
(* for a kill this is HeldInv, since it loses whatever the process held.    *)
LEMMA LossStep ==
  ASSUME TypesInv, HeldInv, LossInv, [Next]_vars
  PROVE  LossInv'
<1>0. mishaps \in Nat
  BY DEF TypesInv, TypeOK
<1>1. ASSUME NEW r, Stop(r) PROVE LossInv'
  BY <1>0, <1>1, LoseOne, LoseNone DEF Stop
<1>2. CASE StopPrevious \/ StopAll
  <2>1. CASE UNCHANGED losses
    BY <1>0, <2>1, LoseNone DEF losses
  <2>2. CASE Stop(running)
    BY <1>1, <2>2
  <2> QED
    BY <1>2, <2>1, <2>2 DEF StopPrevious, StopAll
<1>3. CASE TimedOut \/ Interrupted
  <2>1. CASE UNCHANGED losses
    BY <1>0, <2>1, LoseNone DEF losses
  <2>2. CASE Lose(Unnamed)
    <3>1. Unnamed \ strays \subseteq {Role}
      BY DEF Unnamed
    <3> QED
      BY <1>0, <2>2, <3>1, LoseOne
  <2> QED
    BY <1>3, <2>1, <2>2 DEF TimedOut, Interrupted
<1>4. CASE Killed
  <2>1. PICK r : Held \ strays \subseteq {r}
    BY AtMostOne DEF Kept
  <2> QED
    BY <1>0, <1>4, <2>1, LoseOne DEF Killed
<1>5. CASE ServedElsewhere \/ CheckHeadroom \/ Probe \/ Healthy
  BY <1>0, <1>5, LoseNone DEF ServedElsewhere, CheckHeadroom, Probe, Healthy, losses
<1>6. CASE PhaseDone \/ PhaseRaised \/ AllDone \/ NewProcess \/ Servers
  BY <1>0, <1>6, LoseNone DEF PhaseDone, PhaseRaised, AllDone, NewProcess, Servers, ComesUp, Dies, losses
<1>7. CASE UNCHANGED vars
  BY <1>0, <1>7, LoseNone DEF vars
<1> QED
  BY <1>2, <1>3, <1>4, <1>5, <1>6, <1>7 DEF Next, Controller

(* Never do two servers hold the machine's memory, the ones lost to a       *)
(* timeout, a failed stop_cmd, an interrupted start or a kill aside, across *)
(* any number of processes, skipped and failed phases, late servers and     *)
(* crashes.                                                                 *)
THEOREM OneServerAtATime ==
  ASSUME MayStop
  PROVE  Spec => []OneServerUp
<1>1. Init => HeldInv
  BY DEF Init, HeldInv, Kept, Held
<1>2. TypesInv /\ HeldInv /\ [Next]_vars => HeldInv'
  BY HeldStep
<1>3. HeldInv => OneServerUp
  <2> SUFFICES ASSUME HeldInv PROVE Cardinality(Kept) <= 1
    BY DEF OneServerUp, Kept
  <2>1. PICK r : Kept \subseteq {r}
    BY AtMostOne
  <2>2. CASE Kept = {}
    BY <2>2, FS_EmptySet
  <2>3. CASE Kept = {r}
    <3>1. Cardinality(Kept) = 1
      BY <2>3, FS_Singleton, Zenon
    <3> QED
      BY <3>1
  <2> QED
    BY <2>1, <2>2, <2>3
<1> QED
  BY <1>1, <1>2, <1>3, InitTypes, TypesStep, PTL DEF Spec

(* No process that returns, raises or is interrupted leaves a server behind *)
(* that was not lost in a mishap, and each mishap, the kill of a process    *)
(* included, costs one server at most.                                      *)
THEOREM NoServerLeft ==
  ASSUME MayStop
  PROVE  Spec => []NothingLeftUp
<1>1. Init => HeldInv /\ LossInv
  BY FS_EmptySet DEF Init, HeldInv, LossInv, Kept, Held
<1>2. TypesInv /\ HeldInv /\ [Next]_vars => HeldInv'
  BY HeldStep
<1>3. TypesInv /\ HeldInv /\ LossInv /\ [Next]_vars => LossInv'
  BY LossStep
<1>4. HeldInv /\ LossInv => NothingLeftUp
  BY DEF HeldInv, LossInv, Kept, NothingLeftUp
<1> QED
  BY <1>1, <1>2, <1>3, <1>4, InitTypes, TypesStep, PTL DEF Spec

(* A phase starts only when the server of its role answers, whatever died   *)
(* or came late before it.                                                  *)
THEOREM PhasesAreServed == Spec => ServedWhenStarted
<1> DEFINE Served == pc # "serving" /\ pc' = "serving" /\ Role \in Managed => Role \in up
<1>1. ASSUME Next PROVE Served
  <2>1. CASE StopPrevious \/ ServedElsewhere \/ CheckHeadroom
    BY <2>1 DEF StopPrevious, ServedElsewhere, CheckHeadroom
  <2>2. CASE Probe \/ Healthy \/ TimedOut
    BY <2>2 DEF Probe, Healthy, TimedOut
  <2>3. CASE PhaseDone \/ PhaseRaised \/ AllDone \/ StopAll \/ NewProcess
    BY <2>3 DEF PhaseDone, PhaseRaised, AllDone, StopAll, NewProcess
  <2>4. CASE Servers
    BY <2>4 DEF Servers, ComesUp, Dies
  <2>5. CASE Interrupted \/ Killed
    BY <2>5 DEF Interrupted, Killed
  <2> QED
    BY <1>1, <2>1, <2>2, <2>3, <2>4, <2>5 DEF Next, Controller
<1>2. [Next]_vars => [Served]_vars
  BY <1>1 DEF vars
<1> QED
  BY <1>2, PTL DEF Spec, ServedWhenStarted

-----------------------------------------------------------------------------
(* The thermal guard *)

(* Whatever happens to the guards, the variables keep their types, and a    *)
(* guard pauses only what it has not paused, resumes only what it has.      *)
THEOREM GuardTypeCorrect == GuardSpec => []GuardTypeOK
<1>1. GuardInit => GuardTypeOK
  <2>1. NoGuard \in [state : {"none", "alive", "stopped", "blocked"},
                      at : {"polling", "hot", "pausing", "cool", "resuming"},
                      paused : BOOLEAN, listed : SUBSET Containers]
    BY DEF NoGuard
  <2>2. NoGuard.at = "polling"
    BY DEF NoGuard
  <2> SUFFICES ASSUME GuardInit PROVE GuardTypeOK
    OBVIOUS
  <2>3. target \in [Targets -> {"absent", "running", "stopped"}]
    BY DEF GuardInit
  <2>4. heat \in [Sensors -> Level] /\ late \subseteq Targets /\ lost \in BOOLEAN
    BY DEF GuardInit
  <2>5. faults \in 0 .. MaxFaults
    BY FaultsAssumption DEF GuardInit
  <2>6. guard = [g \in Guards |-> NoGuard]
    BY DEF GuardInit
  <2> QED BY <2>1, <2>2, <2>3, <2>4, <2>5, <2>6 DEF GuardTypeOK
<1>2. GuardTypeOK /\ [GuardNext]_guardVars => GuardTypeOK'
  <2> SUFFICES ASSUME GuardTypeOK, [GuardNext]_guardVars PROVE GuardTypeOK'
    OBVIOUS
  <2> USE FaultsAssumption DEF GuardTypeOK
  <2>1. CASE Machine
    BY <2>1 DEF Machine, Heats, Starts, Ends, Level, Targets, LateAfter
  <2>2. CASE Watchdog
    <3> DEFINE left == [g \in Guards |-> IF guard[g].state = "stopped" THEN NoGuard ELSE guard[g]]
               Process == [state : {"none", "alive", "stopped", "blocked"},
                           at : {"polling", "hot", "pausing", "cool", "resuming"},
                           paused : BOOLEAN, listed : SUBSET Containers]
               AtFits(g) == /\ g.at \in {"hot", "pausing"} => ~g.paused
                            /\ g.at \in {"cool", "resuming"} => g.paused
    <3>1. /\ NoGuard \in Process /\ AtFits(NoGuard)
          /\ NewGuard \in Process /\ AtFits(NewGuard)
      BY DEF NewGuard, NoGuard
    <3>2. left \in [Guards -> Process] /\ \A g \in Guards : AtFits(left[g])
      BY <3>1
    <3>3. \/ guard' = left
          \/ \E g \in Guards : guard' = [left EXCEPT ![g] = NewGuard]
      BY <2>2 DEF Watchdog
    <3> HIDE DEF left, Process, AtFits
    <3>4. \A g \in Guards : [left EXCEPT ![g] = NewGuard] \in [Guards -> Process]
      BY <3>1, <3>2
    <3>5. \A g, h \in Guards : AtFits([left EXCEPT ![g] = NewGuard][h])
      BY <3>1, <3>2
    <3>6. guard' \in [Guards -> Process] /\ \A g \in Guards : AtFits(guard'[g])
      BY <3>2, <3>3, <3>4, <3>5
    <3> QED BY <2>2, <3>6 DEF Watchdog, Process, AtFits
  <2>3. ASSUME NEW g \in Guards, SeesHot(g) PROVE GuardTypeOK'
    BY <2>3 DEF SeesHot, Polls
  <2>4. ASSUME NEW g \in Guards, StopJobs(g) PROVE GuardTypeOK'
    <3>1. CASE {c \in Containers : target[c] = "running"} \cup {j \in Jobs : Present(j)} = {}
      BY <2>4, <3>1 DEF StopJobs, At
    <3>2. CASE {c \in Containers : target[c] = "running"} \cup {j \in Jobs : Present(j)} # {}
      BY <2>4, <3>2 DEF StopJobs, At
    <3> QED BY <3>1, <3>2
  <2>5. ASSUME NEW g \in Guards, PauseContainers(g) PROVE GuardTypeOK'
    BY <2>5 DEF PauseContainers, NewGuard, NoGuard
  <2>6. ASSUME NEW g \in Guards, SeesCool(g) PROVE GuardTypeOK'
    BY <2>6 DEF SeesCool, Polls
  <2>7. ASSUME NEW g \in Guards, ContinueJobs(g) PROVE GuardTypeOK'
    BY <2>7 DEF ContinueJobs, At, LateAfter, Targets
  <2>8. ASSUME NEW g \in Guards, UnpauseContainers(g) PROVE GuardTypeOK'
    BY <2>8 DEF UnpauseContainers, NewGuard, NoGuard, Targets
  <2>9. ASSUME NEW g \in Guards, Fault(g) PROVE GuardTypeOK'
    <3>1. faults' \in 0 .. MaxFaults
      BY <2>9 DEF Fault
    <3>2. \/ guard' = [guard EXCEPT ![g] = NoGuard]
          \/ guard' = [guard EXCEPT ![g].state = "stopped"]
          \/ guard' = [guard EXCEPT ![g].state = "blocked"]
      BY <2>9 DEF Fault
    <3>3. UNCHANGED <<heat, target, late>> /\ lost' \in BOOLEAN
      BY <2>9 DEF Fault, Remembers
    <3>4. CASE guard' = [guard EXCEPT ![g] = NoGuard]
      BY <3>1, <3>3, <3>4 DEF NoGuard
    <3>5. CASE guard' = [guard EXCEPT ![g].state = "stopped"]
      BY <3>1, <3>3, <3>5
    <3>6. CASE guard' = [guard EXCEPT ![g].state = "blocked"]
      BY <3>1, <3>3, <3>6
    <3> QED BY <3>2, <3>4, <3>5, <3>6
  <2>10. ASSUME NEW g \in Guards, Unblocks(g) PROVE GuardTypeOK'
    BY <2>10 DEF Unblocks
  <2>11. CASE UNCHANGED guardVars
    BY <2>11 DEF guardVars
  <2> QED BY <2>1, <2>2, <2>3, <2>4, <2>5, <2>6, <2>7, <2>8, <2>9, <2>10, <2>11 DEF GuardNext, Loop
<1> QED BY <1>1, <1>2, PTL DEF GuardSpec

-----------------------------------------------------------------------------
(* A guard that will still continue the jobs, or the containers. *)
WillContinue(g) == /\ guard[g].state # "none"
                   /\ guard[g].at = "pausing" \/ (guard[g].paused /\ guard[g].at # "resuming")
WillUnpause(g)  == guard[g].state # "none" /\ Remembers(g)

(* Between ContinueJobs and UnpauseContainers a guard still has `paused'    *)
(* set although it has dealt with the jobs: NotForgotten alone would let it *)
(* drop a job that another guard stopped in between.                        *)
JobsRemembered == (\E j \in Jobs : target[j] = "stopped") => \E g \in Guards : WillContinue(g)
ContainersRemembered == (\E c \in Containers : target[c] = "stopped") => \E g \in Guards : WillUnpause(g)
\* What the watchdog kills has nothing paused.
NoneStopped == \A g \in Guards : guard[g].state = "stopped" => ~Remembers(g)
Remembered  == ~lost => NoneStopped /\ JobsRemembered /\ ContainersRemembered

(* A step that stops nothing and leaves the guards' memory keeps both.      *)
LEMMA MemoryKept ==
  ASSUME Remembered, ~lost,
         \A t \in Targets : target'[t] = "stopped" => target[t] = "stopped",
         \A g \in Guards : WillContinue(g) => WillContinue(g)',
         \A g \in Guards : WillUnpause(g) => WillUnpause(g)'
  PROVE  JobsRemembered' /\ ContainersRemembered'
BY DEF Remembered, JobsRemembered, ContainersRemembered, Targets

(* Every step of guards, watchdog and machine keeps what is remembered. *)
LEMMA RememberedStep ==
  ASSUME GuardTypeOK, Remembered, [GuardNext]_guardVars
  PROVE  Remembered'
<1> USE DEF GuardTypeOK
<1> SUFFICES ASSUME ~lost' PROVE NoneStopped' /\ JobsRemembered' /\ ContainersRemembered'
  BY DEF Remembered
<1>1. CASE Machine
  <2>1. UNCHANGED <<guard, lost>>
    BY <1>1 DEF Machine, Heats, Starts, Ends
  <2>2. \A t \in Targets : target'[t] = "stopped" => target[t] = "stopped"
    BY <1>1 DEF Machine, Heats, Starts, Ends
  <2> QED BY <2>1, <2>2, MemoryKept DEF Remembered, NoneStopped, WillContinue, WillUnpause, Remembers
<1>2. CASE Watchdog
  <2> DEFINE left == [g \in Guards |-> IF guard[g].state = "stopped" THEN NoGuard ELSE guard[g]]
  <2>1. \A g \in Guards : left[g] = guard[g] \/ (left[g] = NoGuard /\ ~Remembers(g) /\ guard[g].state = "stopped")
    BY <1>2 DEF Remembered, NoneStopped, Watchdog
  <2>2. UNCHANGED <<target, lost>>
    BY <1>2 DEF Watchdog
  <2>3. \/ guard' = left
        \/ \E g \in Guards : left[g].state = "none" /\ guard' = [left EXCEPT ![g] = NewGuard]
    BY <1>2 DEF Watchdog
  <2>4. \A h \in Guards : \/ guard'[h] = guard[h]
                          \/ guard'[h] \in {NoGuard, NewGuard} /\ ~WillContinue(h) /\ ~WillUnpause(h)
    <3>1. \A h \in Guards : guard'[h] = left[h] \/ (guard'[h] = NewGuard /\ left[h].state = "none")
      BY <2>3
    <3>2. \A h \in Guards : left[h].state = "none" => ~WillContinue(h) /\ ~WillUnpause(h)
      BY <2>1 DEF WillContinue, WillUnpause, Remembers
    <3>3. \A h \in Guards : left[h] = NoGuard => ~WillContinue(h) /\ ~WillUnpause(h)
      BY <3>2 DEF NoGuard
    <3> HIDE DEF left
    <3> QED BY <2>1, <3>1, <3>2, <3>3
  <2>5. NoneStopped'
    BY <2>2, <2>4 DEF Remembered, NoneStopped, NewGuard, NoGuard, Remembers
  <2>6. \A g \in Guards : (WillContinue(g) => WillContinue(g)') /\ (WillUnpause(g) => WillUnpause(g)')
    BY <2>4 DEF WillContinue, WillUnpause, Remembers
  <2> QED BY <2>2, <2>5, <2>6, MemoryKept DEF Remembered
<1>3. ASSUME NEW g \in Guards, SeesHot(g) PROVE NoneStopped' /\ JobsRemembered' /\ ContainersRemembered'
  <2>1. NoneStopped' /\ UNCHANGED <<target, lost>>
    BY <1>3 DEF SeesHot, Polls, Remembered, NoneStopped, Remembers
  <2>2. \A h \in Guards : (WillContinue(h) => WillContinue(h)') /\ (WillUnpause(h) => WillUnpause(h)')
    BY <1>3 DEF SeesHot, Polls, WillContinue, WillUnpause, Remembers
  <2> QED BY <2>1, <2>2, MemoryKept DEF Remembered
<1>4. ASSUME NEW g \in Guards, StopJobs(g) PROVE NoneStopped' /\ JobsRemembered' /\ ContainersRemembered'
  <2>1. NoneStopped' /\ UNCHANGED lost
    BY <1>4 DEF StopJobs, At, Remembered, NoneStopped, Remembers
  <2>2. CASE UNCHANGED target /\ guard' = [guard EXCEPT ![g].at = "polling"]
    <3>1. \A h \in Guards : (WillContinue(h) => WillContinue(h)') /\ (WillUnpause(h) => WillUnpause(h)')
      BY <1>4, <2>2 DEF StopJobs, At, WillContinue, WillUnpause, Remembers
    <3> QED BY <2>1, <2>2, <3>1, MemoryKept DEF Remembered
  <2>3. CASE guard'[g].at = "pausing" /\ guard'[g].state = "alive"
    <3>1. WillContinue(g)' /\ WillUnpause(g)'
      BY <2>3 DEF WillContinue, WillUnpause, Remembers
    <3> QED BY <2>1, <3>1 DEF JobsRemembered, ContainersRemembered
  <2> QED BY <1>4, <2>2, <2>3 DEF StopJobs, At
<1>5. ASSUME NEW g \in Guards, PauseContainers(g) PROVE NoneStopped' /\ JobsRemembered' /\ ContainersRemembered'
  <2>1. NoneStopped' /\ WillContinue(g)' /\ WillUnpause(g)'
    BY <1>5 DEF PauseContainers, Remembered, NoneStopped, NewGuard, NoGuard, WillContinue, WillUnpause, Remembers
  <2> QED BY <2>1 DEF JobsRemembered, ContainersRemembered
<1>6. ASSUME NEW g \in Guards, SeesCool(g) PROVE NoneStopped' /\ JobsRemembered' /\ ContainersRemembered'
  <2>1. NoneStopped' /\ UNCHANGED <<target, lost>>
    BY <1>6 DEF SeesCool, Polls, Remembered, NoneStopped, Remembers
  <2>2. \A h \in Guards : (WillContinue(h) => WillContinue(h)') /\ (WillUnpause(h) => WillUnpause(h)')
    BY <1>6 DEF SeesCool, Polls, WillContinue, WillUnpause, Remembers
  <2> QED BY <2>1, <2>2, MemoryKept DEF Remembered
<1>7. ASSUME NEW g \in Guards, ContinueJobs(g) PROVE NoneStopped' /\ JobsRemembered' /\ ContainersRemembered'
  <2>1. NoneStopped' /\ UNCHANGED lost
    BY <1>7 DEF ContinueJobs, At, Remembered, NoneStopped, Remembers
  <2>2. WillUnpause(g)'
    BY <1>7 DEF ContinueJobs, At, WillUnpause, Remembers
  <2>3. \A j \in Jobs : target'[j] # "stopped"
    BY <1>7 DEF ContinueJobs, Present, Targets
  <2> QED BY <2>1, <2>2, <2>3 DEF JobsRemembered, ContainersRemembered
<1>8. ASSUME NEW g \in Guards, UnpauseContainers(g) PROVE NoneStopped' /\ JobsRemembered' /\ ContainersRemembered'
  <2>1. NoneStopped' /\ UNCHANGED lost
    BY <1>8 DEF UnpauseContainers, Remembered, NoneStopped, NewGuard, NoGuard, Remembers
  <2>2. \A c \in Containers : target'[c] # "stopped"
    BY <1>8 DEF UnpauseContainers, Targets
  <2>3. \A j \in Jobs : target'[j] = "stopped" => target[j] = "stopped"
    BY <1>8 DEF UnpauseContainers, Targets
  <2>4. \A h \in Guards : WillContinue(h) => WillContinue(h)'
    BY <1>8 DEF UnpauseContainers, At, WillContinue
  <2> QED BY <2>1, <2>2, <2>3, <2>4 DEF Remembered, JobsRemembered, ContainersRemembered
<1>9. ASSUME NEW g \in Guards, Fault(g) PROVE NoneStopped' /\ JobsRemembered' /\ ContainersRemembered'
  <2>1. UNCHANGED target /\ ~lost
    BY <1>9 DEF Fault
  <2>2. CASE ~Remembers(g) /\ guard' = [guard EXCEPT ![g] = NoGuard]
    <3>1. NoneStopped'
      BY <2>1, <2>2 DEF Remembered, NoneStopped, NoGuard, Remembers
    <3>2. \A h \in Guards : (WillContinue(h) => WillContinue(h)') /\ (WillUnpause(h) => WillUnpause(h)')
      BY <2>2 DEF WillContinue, WillUnpause, Remembers
    <3> QED BY <2>1, <3>1, <3>2, MemoryKept
  <2>3. CASE ~Remembers(g) /\ guard' = [guard EXCEPT ![g].state = "stopped"]
    <3>1. NoneStopped'
      BY <2>1, <2>3 DEF Remembered, NoneStopped, Remembers
    <3>2. \A h \in Guards : (WillContinue(h) => WillContinue(h)') /\ (WillUnpause(h) => WillUnpause(h)')
      BY <2>3 DEF WillContinue, WillUnpause, Remembers
    <3> QED BY <2>1, <3>1, <3>2, MemoryKept
  <2>4. CASE guard' = [guard EXCEPT ![g].state = "blocked"]
    <3>1. NoneStopped'
      BY <2>1, <2>4 DEF Remembered, NoneStopped, Remembers
    <3>2. \A h \in Guards : (WillContinue(h) => WillContinue(h)') /\ (WillUnpause(h) => WillUnpause(h)')
      BY <2>4 DEF WillContinue, WillUnpause, Remembers
    <3> QED BY <2>1, <3>1, <3>2, MemoryKept
  <2> QED BY <1>9, <2>2, <2>3, <2>4 DEF Fault
<1>10. ASSUME NEW g \in Guards, Unblocks(g) PROVE NoneStopped' /\ JobsRemembered' /\ ContainersRemembered'
  <2>1. UNCHANGED <<target, lost>> /\ guard' = [guard EXCEPT ![g].state = "alive"]
    BY <1>10 DEF Unblocks
  <2>2. NoneStopped'
    BY <2>1 DEF Remembered, NoneStopped, Remembers
  <2>3. \A h \in Guards : (WillContinue(h) => WillContinue(h)') /\ (WillUnpause(h) => WillUnpause(h)')
    BY <1>10, <2>1 DEF Unblocks, WillContinue, WillUnpause, Remembers
  <2> QED BY <2>1, <2>2, <2>3, MemoryKept DEF Remembered
<1>11. CASE UNCHANGED guardVars
  BY <1>11 DEF guardVars, Remembered, NoneStopped, JobsRemembered, ContainersRemembered,
               WillContinue, WillUnpause, Remembers
<1> QED BY <1>1, <1>2, <1>3, <1>4, <1>5, <1>6, <1>7, <1>8, <1>9, <1>10, <1>11 DEF GuardNext, Loop

(* Guards never forget what is stopped, although the watchdog then runs     *)
(* several at once and each stops and continues what it sees, as long as no *)
(* guard with something paused is killed or stopped itself.                 *)
THEOREM NothingForgotten == GuardSpec => []NotForgotten
<1>1. GuardInit => Remembered
  BY DEF GuardInit, Remembered, NoneStopped, JobsRemembered, ContainersRemembered, NoGuard, Targets, Remembers
<1>2. GuardTypeOK /\ Remembered /\ [GuardNext]_guardVars => Remembered'
  BY RememberedStep
<1>3. Remembered => NotForgotten
  BY DEF Remembered, JobsRemembered, ContainersRemembered, NotForgotten, Targets,
         WillContinue, WillUnpause, Remembers
<1> QED BY <1>1, <1>2, <1>3, GuardTypeCorrect, PTL DEF GuardSpec
=============================================================================
