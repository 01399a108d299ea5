-------------------------- MODULE ServerController --------------------------
(***************************************************************************)
(* The model servers of a run (llm/scheduler.py): CommandServerController   *)
(* starts a role's server before the role's phase and stops the one of the  *)
(* role before it; PhaseScheduler.run calls it; `_stop' in cli.py stops the *)
(* last one when the command returns or raises, but not when the process is *)
(* killed.  The servers outlive the process; a later process finds them as  *)
(* they are.                                                                *)
(***************************************************************************)
EXTENDS Integers, Sequences, FiniteSets

CONSTANTS
  Roles,          \* the model roles
  Managed,        \* roles with a start_cmd
  Stoppable,      \* roles with a stop_cmd
  Unload,         \* scheduler.unload_between_roles
  Capacity,       \* servers that fit before the memory headroom is gone
  Plans,          \* the roles of the phases a process runs, skipped phases left out
  StopsWork,      \* a stop_cmd always stops the server (its exit status is not looked at)
  TimeoutsHit,    \* a server may need longer than startup_timeout_s
  Interrupts,     \* a process may be interrupted (Ctrl-C) or killed, at any point
  Crashes,        \* bound: servers that die by themselves
  MaxRuns         \* bound: processes, one after the other

ASSUME RolesAssumption == Managed \subseteq Roles /\ Stoppable \subseteq Managed
ASSUME InterruptsAssumption == Interrupts \in BOOLEAN
ASSUME PlansAssumption == \A plan \in Plans : plan \in Seq(Roles)
ASSUME BoundsAssumption == Capacity \in Nat /\ Crashes \in Nat /\ MaxRuns \in Nat

Nobody == "nobody"
ASSUME NobodyAssumption == Nobody \notin Roles

(* The phases with a model of `run' and `reverify': judge and, in a run that *)
(* verified nothing, support are skipped.  generate_only has no controller.  *)
AllPlans ==
  { <<"generator", "verifier">>, <<"generator", "verifier", "semantic_judge">>,
    <<"generator", "verifier", "verifier">>,
    <<"generator", "verifier", "semantic_judge", "verifier">>,
    <<"verifier", "verifier">>, <<"verifier", "semantic_judge", "verifier">> }

VARIABLES
  pc,        \* "next", "headroom", "probe", "poll", "serving", "closing", "ended"
  todo,      \* roles of the phases not finished yet, the current one first
  running,   \* CommandServerController.running
  up,        \* servers that answer
  booting,   \* servers started that do not answer yet
  crashed, runs,
  strays,    \* history: servers that hold memory and that no controller would stop
  mishaps    \* history: stop_cmds that failed, starts that timed out or were interrupted
             \* and processes that were killed, those only that lost a server
vars == <<pc, todo, running, up, booting, crashed, runs, strays, mishaps>>
losses == <<strays, mishaps>>

Role == Head(todo)
Held == up \cup booting     \* servers that hold memory

Init ==
  /\ pc = "next" /\ todo \in Plans /\ running = Nobody
  /\ up = {} /\ booting = {} /\ crashed = 0 /\ runs = 1 /\ strays = {} /\ mishaps = 0

\* One mishap, after which nobody would stop the servers of S.
Lose(S) == /\ strays' = strays \cup S
           /\ mishaps' = IF S \subseteq strays THEN mishaps ELSE mishaps + 1

\* A stop_cmd: the server is gone, or the command failed unnoticed.
Stop(r) ==
  \/ up' = up \ {r} /\ booting' = booting \ {r} /\ strays' = strays \ {r} /\ UNCHANGED mishaps
  \/ ~StopsWork /\ r \in Held /\ Lose({r}) /\ UNCHANGED <<up, booting>>

-----------------------------------------------------------------------------
(* start(phase) *)

\* Mutated form: the server of the role before is left running.
StopPrevious_Keeps ==
  /\ pc = "next" /\ todo # << >> /\ Role \in Managed
  /\ pc' = "headroom"
  /\ UNCHANGED <<todo, running, up, booting, crashed, runs, losses>>

StopPrevious ==
  /\ pc = "next" /\ todo # << >> /\ Role \in Managed
  /\ IF running \notin {Nobody, Role} /\ Unload /\ running \in Stoppable
     THEN Stop(running) ELSE UNCHANGED <<up, booting, losses>>
  /\ pc' = "headroom"
  /\ UNCHANGED <<todo, running, crashed, runs>>

\* A role served from elsewhere: nothing is started, nothing is stopped.
ServedElsewhere ==
  /\ pc = "next" /\ todo # << >> /\ Role \notin Managed
  /\ pc' = "serving"
  /\ UNCHANGED <<todo, running, up, booting, crashed, runs, losses>>

\* check_headroom_before: a server that still boots may not hold its memory yet.
CheckHeadroom ==
  /\ pc = "headroom"
  /\ \/ Cardinality(up) < Capacity /\ pc' = "probe"
     \/ Cardinality(Held) >= Capacity /\ pc' = "closing"
  /\ UNCHANGED <<todo, running, up, booting, crashed, runs, losses>>

\* Mutated form: a server the controller started itself is not asked again.
Probe_TrustsRunning ==
  /\ pc = "probe"
  /\ \/ /\ (running = Role \/ Role \in up)
        /\ running' = Role /\ pc' = "serving" /\ strays' = strays \ {Role} /\ UNCHANGED booting
     \/ /\ running # Role /\ Role \notin up
        /\ booting' = booting \cup {Role} /\ pc' = "poll" /\ UNCHANGED <<running, losses>>
  /\ UNCHANGED <<todo, up, crashed, runs, mishaps>>

\* Mutated form: the start_cmd is run for a server that answers, too.
Probe_StartsAlways ==
  /\ pc = "probe"
  /\ booting' = booting \cup {Role} /\ pc' = "poll"
  /\ UNCHANGED <<todo, running, up, crashed, runs, losses>>

\* healthy() at once, or the start_cmd
Probe ==
  /\ pc = "probe"
  /\ \/ /\ Role \in up
        /\ running' = Role /\ pc' = "serving" /\ strays' = strays \ {Role} /\ UNCHANGED booting
     \/ /\ Role \notin up
        /\ booting' = booting \cup {Role} /\ pc' = "poll" /\ UNCHANGED <<running, losses>>
  /\ UNCHANGED <<todo, up, crashed, runs, mishaps>>

Healthy ==
  /\ pc = "poll" /\ Role \in up
  /\ running' = Role /\ pc' = "serving" /\ strays' = strays \ {Role}
  /\ UNCHANGED <<todo, up, booting, crashed, runs, mishaps>>

\* Mutated form: the deadline is computed anew at every poll.
TimedOut_Postponed == pc = "poll" /\ UNCHANGED vars

\* The server that is being polled, unless `running' names it from an earlier phase.
Unnamed == ({Role} \cap Held) \ {running}

\* The deadline passes between two polls; a server that died never answers.
TimedOut ==
  /\ pc = "poll" /\ (TimeoutsHit \/ Role \notin Held)
  /\ pc' = "closing" /\ Lose(Unnamed)
  /\ UNCHANGED <<todo, running, up, booting, crashed, runs>>

-----------------------------------------------------------------------------
(* PhaseScheduler.run and the end of the process *)

PhaseDone ==
  /\ pc = "serving" /\ pc' = "next" /\ todo' = Tail(todo)
  /\ UNCHANGED <<running, up, booting, crashed, runs, losses>>

\* An exception of the phase's function, an interrupt among them.
PhaseRaised ==
  /\ pc = "serving" /\ pc' = "closing"
  /\ UNCHANGED <<todo, running, up, booting, crashed, runs, losses>>

AllDone ==
  /\ pc = "next" /\ todo = << >> /\ pc' = "closing"
  /\ UNCHANGED <<todo, running, up, booting, crashed, runs, losses>>

\* Mutated form: only a process that got through all its phases stops its server.
StopAll_OnSuccess ==
  /\ pc = "closing" /\ pc' = "ended"
  /\ IF running \in Stoppable /\ Unload /\ todo = << >>
     THEN Stop(running) /\ running' = Nobody
     ELSE UNCHANGED <<running, up, booting, losses>>
  /\ UNCHANGED <<todo, crashed, runs>>

\* stop_all, from the `finally' of the commands
StopAll ==
  /\ pc = "closing" /\ pc' = "ended"
  /\ IF running \in Stoppable /\ Unload
     THEN Stop(running) /\ running' = Nobody
     ELSE UNCHANGED <<running, up, booting, losses>>
  /\ UNCHANGED <<todo, crashed, runs>>

(* A KeyboardInterrupt outside of a phase's function: the `finally' of the  *)
(* command runs, but of a server that is still polled it knows nothing.     *)
(* An interrupt during a shell command counts as one before the command, or *)
(* as one after the command has done its work.                              *)
Interrupted ==
  /\ Interrupts /\ pc \in {"next", "headroom", "probe", "poll"} /\ pc' = "closing"
  /\ IF pc = "poll" THEN Lose(Unnamed) ELSE UNCHANGED losses
  /\ UNCHANGED <<todo, running, up, booting, crashed, runs>>

(* SIGTERM, SIGKILL, or a second interrupt while stop_all runs: the process *)
(* and its `running' are gone, the servers stay.                            *)
Killed ==
  /\ Interrupts /\ pc # "ended" /\ pc' = "ended" /\ running' = Nobody
  /\ Lose(Held)
  /\ UNCHANGED <<todo, up, booting, crashed, runs>>

\* The next command the operator gives: a new controller, the same machine.
NewProcess ==
  /\ pc = "ended" /\ runs < MaxRuns /\ runs' = runs + 1
  /\ pc' = "next" /\ todo' \in Plans /\ running' = Nobody
  /\ UNCHANGED <<up, booting, crashed, losses>>

-----------------------------------------------------------------------------
(* The servers themselves *)

ComesUp(r) ==
  /\ r \in booting /\ booting' = booting \ {r} /\ up' = up \cup {r}
  /\ UNCHANGED <<pc, todo, running, crashed, runs, losses>>

Dies(r) ==
  /\ r \in Held /\ crashed < Crashes /\ crashed' = crashed + 1
  /\ up' = up \ {r} /\ booting' = booting \ {r} /\ strays' = strays \ {r}
  /\ UNCHANGED <<pc, todo, running, runs, mishaps>>

Controller == \/ StopPrevious \/ ServedElsewhere \/ CheckHeadroom \/ Probe \/ Healthy \/ TimedOut
              \/ PhaseDone \/ PhaseRaised \/ AllDone \/ StopAll
Servers    == \E r \in Roles : ComesUp(r) \/ Dies(r)
Next       == Controller \/ Interrupted \/ Killed \/ NewProcess \/ Servers

(* The controller runs to its end.  A server that boots comes up in the end,*)
(* when no bound is set on how long it may take; phases are finite.         *)
Spec == Init /\ [][Next]_vars /\ WF_vars(Controller) /\ \A r \in Roles : WF_vars(ComesUp(r))

-----------------------------------------------------------------------------
(* Properties *)

TypeOK ==
  /\ pc \in {"next", "headroom", "probe", "poll", "serving", "closing", "ended"}
  /\ todo \in Seq(Roles) /\ running \in Roles \cup {Nobody}
  /\ up \subseteq Roles /\ booting \subseteq Roles /\ up \cap booting = {} /\ strays \subseteq Held
  /\ crashed \in 0 .. Crashes /\ runs \in Nat /\ mishaps \in Nat

(* Never do two servers hold the memory of the machine at a time, booting   *)
(* ones included, whatever phases are skipped, fail or follow in another    *)
(* process, except for those a timeout, a failed stop_cmd, an interrupted   *)
(* start or a kill lost.                                                    *)
OneServerUp == Cardinality(Held \ strays) <= 1

(* "unload the last model server": a process that returned, raised or was   *)
(* interrupted leaves no server behind that was not lost in a mishap, of    *)
(* its own or of a process before it; and every mishap, a kill included,    *)
(* costs one server at most.  So where nothing timed out, was cut off or    *)
(* failed to stop, nothing is up after the end.                             *)
NothingLeftUp ==
  /\ pc = "ended" => Held \subseteq strays
  /\ Cardinality(strays) <= mishaps

(* "Only one role's server is kept up", taken at its word.                  *)
OnlyOneRole == Cardinality(Held) <= 1

(* "a phase's model role must be served before it starts": when a phase's   *)
(* function starts, the server of its role answers, also where the same     *)
(* role served before and died in between.                                  *)
ServedWhenStarted ==
  [][pc # "serving" /\ pc' = "serving" /\ Role \in Managed => Role \in up]_vars

(* Every process ends, whatever the servers do: none polls for ever.        *)
Terminates == []<>(pc = "ended")
=============================================================================
