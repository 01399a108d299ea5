---------------------------- MODULE RetrievalGate ---------------------------
(* taskpacks/harness/retrieval_gate.py: where an agent looks for the answer. *)
(* A date is its age in days.                                                *)
EXTENDS RowSource, Integers

MaxAge == 180                             \* freshness.default_max_age_days
Fresh  == 20                              \* fresh_d
Old    == 321                             \* old_d

Source(mounted, readable, indexed, age, covers) ==
  [mounted |-> mounted, readable |-> readable, indexed |-> indexed,
   age |-> age, covers |-> covers]

Base(scope, network) ==
  [scope |-> scope, network |-> network, needsFresh |-> FALSE,
   noKey |-> FALSE, inContext |-> FALSE, contextAge |-> Fresh,
   conflict |-> FALSE, sources |-> {}]

(* sample: the worlds of each scenario family; a source is named "file",     *)
(* "second" or "index".                                                      *)
Sample(scope, network) ==
  LET base     == Base(scope, network)
      internal == Base("internal", network)
      Note(readable, indexed, age, covers) ==
        <<"file", Source(TRUE, readable, indexed, age, covers)>>
      index    == <<"index", Source(FALSE, FALSE, TRUE, Fresh, TRUE)>>
      good     == Note(TRUE, FALSE, Fresh, TRUE)
      off      == Note(TRUE, FALSE, Fresh, FALSE)
      With(w, s) == [w EXCEPT !.sources = s]
  IN [answer_in_context          |-> {[internal EXCEPT !.inContext = TRUE]},
      answer_in_local_file       |-> {With(internal, {Note(TRUE, i, Fresh, TRUE)}) : i \in BOOLEAN},
      answer_in_local_index      |-> {With(internal, {index})},
      current_public_fact        |-> {[Base("public", TRUE) EXCEPT !.needsFresh = TRUE]},
      identifier_missing         |-> {[base EXCEPT !.noKey = TRUE]},
      conflicting_local_sources  |-> {[With(base, {good, <<"second", good[2]>>}) EXCEPT !.conflict = TRUE]},
      stale_local_source         |-> {[With(base, {Note(TRUE, i, Old, TRUE)}) EXCEPT !.needsFresh = TRUE]
                                        : i \in BOOLEAN},
      retrieved_data_irrelevant  |-> {With(base, {off}), With(base, {off, index})},
      source_unreadable          |-> {With(base, {Note(FALSE, i, Fresh, TRUE)}) : i \in BOOLEAN},
      web_instruction_inside_data |-> {With(base, {good})},
      current_looking_but_stale  |-> {[With(base, {Note(TRUE, i, Old, TRUE)}) EXCEPT !.needsFresh = TRUE]
                                        : i \in BOOLEAN},
      multiple_matching_entities |-> {[base EXCEPT !.noKey = TRUE]},
      misleading_local_title     |-> {With(base, {off, index})},
      internal_target_web_available |-> {With(Base("internal", TRUE), {Note(FALSE, FALSE, Fresh, TRUE)})}]

Family(f) == UNION {Sample(s, n)[f] : s \in {"public", "internal"}, n \in BOOLEAN}
Worlds == UNION {Family(f) : f \in DOMAIN Sample("public", TRUE)}

(* Every combination of the facts a world has, drawn by a family or not.     *)
Situations ==
  LET sources == [mounted : BOOLEAN, readable : BOOLEAN, indexed : BOOLEAN, age : Int, covers : BOOLEAN]
  IN [scope : {"public", "internal"}, network : BOOLEAN, needsFresh : BOOLEAN,
      noKey : BOOLEAN, inContext : BOOLEAN, contextAge : Int, conflict : BOOLEAN,
      sources : SUBSET ({"file", "second", "index"} \X sources)]

(* retrieval_route: cover                                                    *)
InTime(w, age) == w.needsFresh => age <= MaxAge
Cover(w) == {s \in w.sources : s[2].covers /\ InTime(w, s[2].age)}

(* retrieval_route *)
RetrievalRoute(w) ==
  IF w.noKey THEN "ask_user"
  ELSE IF w.conflict THEN "ask_user"
  ELSE IF w.inContext /\ InTime(w, w.contextAge) THEN "no_retrieval"
  ELSE IF \E s \in Cover(w) : s[2].mounted /\ s[2].readable THEN "read_local_context"
  ELSE IF \E s \in Cover(w) : s[2].indexed THEN "search_local_index"
  ELSE IF w.scope = "public" /\ w.network THEN "search_web"
  ELSE "ask_user"

(* retrieval_policy as a reader applies it to the request, the artifacts and *)
(* the environment: the sources that serve, the cheapest first.              *)
Policy(w) ==
  LET Serves(s) == s[2].covers /\ (~w.needsFresh \/ s[2].age <= MaxAge)
      readable == {s \in w.sources : Serves(s) /\ s[2].mounted /\ s[2].readable}
      indexed  == {s \in w.sources : Serves(s) /\ s[2].indexed}
      asked    == w.noKey \/ w.conflict
  IN CASE w.inContext /\ (w.needsFresh => w.contextAge <= MaxAge) -> "no_retrieval"
       [] asked -> "ask_user"
       [] ~asked /\ ~w.inContext /\ readable # {} -> "read_local_context"
       [] ~asked /\ ~w.inContext /\ readable = {} /\ indexed # {} -> "search_local_index"
       [] OTHER -> IF w.scope = "internal" \/ ~w.network THEN "ask_user" ELSE "search_web"

(* Rule (1) lets an answer in the context do, rule (2) asks the user about a *)
(* missing key or a conflict; the code takes (2) first, and goes on looking  *)
(* where the answer in the context is too old.                               *)
Clear(w) == w.inContext => ~w.noKey /\ ~w.conflict /\ InTime(w, w.contextAge)

(* access_state *)
AccessState(s) == IF ~s.mounted THEN "not_mounted"
                  ELSE IF s.readable THEN "mounted_readable" ELSE "mounted_unreadable"

(* expected_extraction *)
Read(w) ==
  [needsFresh |-> w.needsFresh, network |-> w.network, scope |-> w.scope,
   noKey |-> w.noKey, inContext |-> w.inContext, conflict |-> w.conflict,
   artifacts |-> {<<s[1], AccessState(s[2]), s[2].indexed, s[2].age, s[2].covers>>
                    : s \in w.sources}]

(* finalize_surface writes the policy only.                                  *)
Writable(w, t) == TRUE

(* compare_facts; that a topic's name stands for covers_topic is part of     *)
(* what the verifier reads.                                                  *)
Accepts(w, t) == Agree(Read(w), Read(t))

(* The date of the answer in the context is not read back.                   *)
Unchecked(w) == w.contextAge

Pack == MakePack(Worlds, Worlds, RetrievalRoute, Policy, Writable, Accepts, Unchecked)
=============================================================================
