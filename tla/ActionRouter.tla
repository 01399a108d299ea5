---------------------------- MODULE ActionRouter ----------------------------
(* taskpacks/harness/next_action_router.py: which action an agent takes      *)
(* next.  Prose, names and the CSV's content are left out.                   *)
EXTENDS RowSource

TTL == 30                                  \* router.cache_ttl_days_default

NoCache == [available |-> FALSE, key |-> FALSE, age |-> 0, checksum |-> FALSE]
CacheOk == [available |-> TRUE, key |-> TRUE, age |-> 10, checksum |-> TRUE]

Usable(c) == c.available /\ c.key /\ c.age <= TTL /\ c.checksum

Base(network) ==
  [files |-> {}, cache |-> NoCache, network |-> network, exact |-> FALSE,
   complete |-> TRUE, complexity |-> "low", fresh |-> FALSE,
   inContext |-> FALSE, disallowed |-> {}, failed |-> {},
   mode |-> "answer_question"]

(* sample: the worlds of each scenario family.                               *)
Sample(network) ==
  LET base  == Base(network)
      csv   == [base EXCEPT !.files = {"csv"}, !.exact = TRUE]
      doc   == [base EXCEPT !.files = {"readme"}, !.inContext = TRUE]
      absent == [base EXCEPT !.complete = FALSE, !.mode = "execute_record_creation"]
      hard  == [base EXCEPT !.complexity = "high"]
      Fresh(n) == [base EXCEPT !.fresh = TRUE, !.network = n]
  IN [exact_local_calculation       |-> {csv},
      valid_cache                   |-> {[w EXCEPT !.cache = CacheOk] : w \in {base, csv}},
      local_context_answer          |-> {doc},
      fresh_public_information      |-> {Fresh(TRUE)},
      missing_essential_information |-> {absent},
      complex_reasoning             |-> {hard},
      simple_formatting             |-> {base},
      constraint_conflict           |-> {[hard EXCEPT !.disallowed = {"call_large_model"}],
                                         Fresh(FALSE)},
      stale_cache                   |-> {[csv EXCEPT !.cache = [CacheOk EXCEPT !.age = a]] : a \in {45, 200}},
      cache_collision               |-> {[csv EXCEPT !.cache = [CacheOk EXCEPT !.key = FALSE]]},
      search_bait                   |-> {[doc EXCEPT !.network = TRUE]},
      network_disallowed            |-> {Fresh(FALSE)},
      ambiguous_request             |-> {absent},
      generic_guidance_request      |-> {[base EXCEPT !.mode = "explain_process"]},
      repeated_failed_tool          |-> {[csv EXCEPT !.failed = {[action |-> "use_python", times |-> 2]}]},
      misleading_tool_description   |-> {csv},
      unknown_tool_name             |-> {hard}]

Challenge == {"stale_cache", "cache_collision", "search_bait",
              "network_disallowed", "ambiguous_request",
              "generic_guidance_request", "repeated_failed_tool",
              "misleading_tool_description", "unknown_tool_name"}

Family(f) == Sample(TRUE)[f] \cup Sample(FALSE)[f]
Worlds == UNION {Family(f) : f \in DOMAIN Sample(TRUE)}

COSTS == [use_cache |-> 0, use_python |-> 1, ask_user |-> 2,
          call_small_model |-> 4, search_web |-> 5, call_large_model |-> 20]

(* Every combination of the facts a world has, drawn by a family or not.     *)
Situations ==
  [files : SUBSET {"csv", "readme"},
   cache : [available : BOOLEAN, key : BOOLEAN, age : Nat, checksum : BOOLEAN],
   network : BOOLEAN, exact : BOOLEAN, complete : BOOLEAN, complexity : {"low", "high"},
   fresh : BOOLEAN, inContext : BOOLEAN, disallowed : SUBSET DOMAIN COSTS,
   failed : SUBSET [action : DOMAIN COSTS, times : Nat],
   mode : {"answer_question", "execute_record_creation", "explain_process"}]

Blocked(w) ==
  w.disallowed \cup (IF w.network THEN {} ELSE {"search_web"})
    \cup {p.action : p \in {q \in w.failed : q.times >= 2}}

(* Mutated form: the fallback does not look at what is blocked.              *)
Route_Blind(w) ==
  IF Usable(w.cache) THEN "use_cache"
  ELSE IF ~w.complete THEN "ask_user"
  ELSE IF w.fresh THEN "search_web"
  ELSE IF w.inContext \/ (w.exact /\ w.files # {}) THEN "use_python"
  ELSE IF w.complexity = "high" THEN "call_large_model"
  ELSE "call_small_model"

(* route: the first unblocked action of the branch that applies.             *)
Route(w) ==
  LET prefs ==
        IF Usable(w.cache) THEN <<"use_cache">>
        ELSE IF ~w.complete THEN <<"ask_user">>
        ELSE IF w.fresh THEN <<"search_web", "ask_user">>
        ELSE IF w.inContext \/ (w.exact /\ w.files # {}) THEN <<"use_python", "ask_user">>
        ELSE IF w.complexity = "high" THEN <<"call_large_model", "call_small_model", "ask_user">>
        ELSE <<"call_small_model", "call_large_model", "ask_user">>
      open == {i \in DOMAIN prefs : prefs[i] \notin Blocked(w)}
  IN IF open = {} THEN "ask_user"
     ELSE prefs[CHOOSE i \in open : \A j \in open : i <= j]

(* ROUTER_POLICY as a reader of the visible state applies it: the actions    *)
(* rules (1)-(5) admit for the request, rule (5)'s preference, and rule (6): *)
(* the cheapest of the rest, the user being asked when nothing is left.      *)
Policy(w) ==
  LET cached == Usable(w.cache)
      means  == IF cached THEN {"use_cache"}
                ELSE IF ~w.complete THEN {"ask_user"}
                ELSE IF w.fresh THEN {"search_web"}
                ELSE IF w.inContext \/ (w.exact /\ w.files # {}) THEN {"use_python"}
                ELSE {"call_small_model", "call_large_model"}
      left   == means \ Blocked(w)
      wanted == IF w.complexity = "high" THEN "call_large_model" ELSE "call_small_model"
  IN IF left = {} THEN "ask_user"
     ELSE IF wanted \in left THEN wanted
     ELSE CHOOSE a \in left : \A b \in left : COSTS[a] <= COSTS[b]

(* expected_extraction *)
Read(w) == [network |-> w.network, exact |-> w.exact, files |-> w.files,
            cacheUsable |-> Usable(w.cache), complete |-> w.complete,
            mode |-> w.mode, fresh |-> w.fresh, inContext |-> w.inContext,
            complexity |-> w.complexity]

(* finalize_surface *)
Writable(w, t) == w.complexity = t.complexity /\ w.disallowed = t.disallowed

(* The failed attempts are only told in the trace the writer composes.       *)
Unchecked(w) == w.failed

Accepts(w, t) == Agree(Read(w), Read(t))

Pack == MakePack(Worlds, Worlds, Route, Policy, Writable, Accepts, Unchecked)
=============================================================================
