------------------------- MODULE DatasetRows_proofs -------------------------
(***************************************************************************)
(* What the rows of the task packs and of the code-only families can be     *)
(* relied on for: that the policy a row prints gives the oracle's label and *)
(* that the facts a verifier compares settle it, for every combination of   *)
(* the facts of a world, and what follows for the rows of a run.            *)
(***************************************************************************)
EXTENDS DatasetRows, Sequences, FiniteSetTheorems, TLAPS

-----------------------------------------------------------------------------
(* The first that applies: clauses, preferences, thresholds *)

(* The least of a set of numbers, which is how the packs say "the first". *)
Least(S) == CHOOSE i \in S : \A j \in S : i <= j

(* An element below all the others is the least. *)
LEMMA LeastIs ==
  ASSUME NEW S \in SUBSET Nat, NEW k \in S, \A j \in S : k <= j
  PROVE  Least(S) = k
<1>1. \E i \in S : \A j \in S : i <= j
  OBVIOUS
<1>2. Least(S) \in S /\ \A j \in S : Least(S) <= j
  BY <1>1, Zenon DEF Least
<1>3. Least(S) <= k /\ k <= Least(S) /\ Least(S) \in Nat /\ k \in Nat
  BY <1>2
<1> QED
  BY <1>3

(* The actions of a list that are not blocked, and the first of them, the   *)
(* user being asked when there is none.                                     *)
Open(prefs, blocked) == {i \in DOMAIN prefs : prefs[i] \notin blocked}
FirstOpen(prefs, blocked) ==
  IF Open(prefs, blocked) = {} THEN "ask_user" ELSE prefs[Least(Open(prefs, blocked))]

(* The first action that is not blocked is the one no open action precedes. *)
LEMMA FirstOpenIn ==
  ASSUME NEW p, NEW blocked, NEW n \in 1..3, DOMAIN p = 1..n, NEW k \in 1..n,
         p[k] \notin blocked, \A j \in 1..(k - 1) : p[j] \in blocked
  PROVE  FirstOpen(p, blocked) = p[k]
<1>1. Open(p, blocked) \in SUBSET Nat /\ k \in Open(p, blocked) /\ \A j \in Open(p, blocked) : k <= j
  BY DEF Open
<1>2. Least(Open(p, blocked)) = k
  BY <1>1, LeastIs
<1> QED
  BY <1>1, <1>2 DEF FirstOpen

(* With every action blocked the user is asked. *)
LEMMA NoneOpen ==
  ASSUME NEW p, NEW blocked, \A j \in DOMAIN p : p[j] \in blocked
  PROVE  FirstOpen(p, blocked) = "ask_user"
BY DEF FirstOpen, Open

(* The first open one of a list of one. *)
LEMMA FirstOpenOf1 ==
  ASSUME NEW a, NEW blocked
  PROVE  FirstOpen(<<a>>, blocked) =
           IF a \notin blocked THEN a ELSE "ask_user"
<1> DEFINE p == <<a>>
<1>1. DOMAIN p = 1..1 /\ p[1] = a
  OBVIOUS
<1> HIDE DEF p
<1>2. a \notin blocked => FirstOpen(p, blocked) = p[1]
  BY <1>1, FirstOpenIn
<1>3. a \in blocked => FirstOpen(p, blocked) = "ask_user"
  BY <1>1, NoneOpen
<1> QED
  BY <1>1, <1>2, <1>3 DEF p

(* The first open one of a list of two. *)
LEMMA FirstOpenOf2 ==
  ASSUME NEW a, NEW b, NEW blocked
  PROVE  FirstOpen(<<a, b>>, blocked) =
           IF a \notin blocked THEN a ELSE IF b \notin blocked THEN b ELSE "ask_user"
<1> DEFINE p == <<a, b>>
<1>1. DOMAIN p = 1..2 /\ p[1] = a /\ p[2] = b
  OBVIOUS
<1> HIDE DEF p
<1>2. a \notin blocked => FirstOpen(p, blocked) = p[1]
  BY <1>1, FirstOpenIn
<1>3. a \in blocked /\ b \notin blocked => FirstOpen(p, blocked) = p[2]
  BY <1>1, FirstOpenIn
<1>4. a \in blocked /\ b \in blocked => FirstOpen(p, blocked) = "ask_user"
  BY <1>1, NoneOpen
<1> QED
  BY <1>1, <1>2, <1>3, <1>4 DEF p

(* The first open one of a list of three. *)
LEMMA FirstOpenOf3 ==
  ASSUME NEW a, NEW b, NEW c, NEW blocked
  PROVE  FirstOpen(<<a, b, c>>, blocked) =
           IF a \notin blocked THEN a ELSE IF b \notin blocked THEN b ELSE IF c \notin blocked THEN c ELSE "ask_user"
<1> DEFINE p == <<a, b, c>>
<1>1. DOMAIN p = 1..3 /\ p[1] = a /\ p[2] = b /\ p[3] = c
  OBVIOUS
<1> HIDE DEF p
<1>2. a \notin blocked => FirstOpen(p, blocked) = p[1]
  BY <1>1, FirstOpenIn
<1>3. a \in blocked /\ b \notin blocked => FirstOpen(p, blocked) = p[2]
  BY <1>1, FirstOpenIn
<1>4. a \in blocked /\ b \in blocked /\ c \notin blocked => FirstOpen(p, blocked) = p[3]
  BY <1>1, FirstOpenIn
<1>5. a \in blocked /\ b \in blocked /\ c \in blocked => FirstOpen(p, blocked) = "ask_user"
  BY <1>1, NoneOpen
<1> QED
  BY <1>1, <1>2, <1>3, <1>4, <1>5 DEF p

-----------------------------------------------------------------------------
(* next_action_router *)

(* The lists that route goes through, by branch. *)
Preferences(w) ==
  IF Router!Usable(w.cache) THEN <<"use_cache">>
  ELSE IF ~w.complete THEN <<"ask_user">>
  ELSE IF w.fresh THEN <<"search_web", "ask_user">>
  ELSE IF w.inContext \/ (w.exact /\ w.files # {}) THEN <<"use_python", "ask_user">>
  ELSE IF w.complexity = "high" THEN <<"call_large_model", "call_small_model", "ask_user">>
  ELSE <<"call_small_model", "call_large_model", "ask_user">>

(* The same without lists. *)
Orders(w) ==
  LET B == Router!Blocked(w)
  IN IF Router!Usable(w.cache) THEN IF "use_cache" \notin B THEN "use_cache" ELSE "ask_user"
     ELSE IF ~w.complete THEN "ask_user"
     ELSE IF w.fresh THEN IF "search_web" \notin B THEN "search_web" ELSE "ask_user"
     ELSE IF w.inContext \/ (w.exact /\ w.files # {}) THEN IF "use_python" \notin B THEN "use_python" ELSE "ask_user"
     ELSE IF w.complexity = "high" THEN IF "call_large_model" \notin B THEN "call_large_model" ELSE IF "call_small_model" \notin B THEN "call_small_model" ELSE "ask_user"
     ELSE IF "call_small_model" \notin B THEN "call_small_model" ELSE IF "call_large_model" \notin B THEN "call_large_model" ELSE "ask_user"

(* route takes the first action of its branch that is not blocked. *)
LEMMA RouteUnrolled ==
  ASSUME NEW w
  PROVE  Router!Route(w) = Orders(w)
<1> DEFINE B == Router!Blocked(w)
<1> HIDE DEF B
<1>1. FirstOpen(<<"use_cache">>, B) = IF "use_cache" \notin B THEN "use_cache" ELSE "ask_user"
  BY FirstOpenOf1
<1>2. FirstOpen(<<"ask_user">>, B) = "ask_user"
  BY FirstOpenOf1
<1>3. \A a : FirstOpen(<<a, "ask_user">>, B) = IF a \notin B THEN a ELSE "ask_user"
  <2>1. \A a : FirstOpen(<<a, "ask_user">>, B) = IF a \notin B THEN a ELSE IF "ask_user" \notin B THEN "ask_user" ELSE "ask_user"
    BY FirstOpenOf2
  <2> QED
    BY <2>1, Zenon
<1>4. \A a, b : FirstOpen(<<a, b, "ask_user">>, B) = IF a \notin B THEN a ELSE IF b \notin B THEN b ELSE "ask_user"
  <2>1. \A a, b : FirstOpen(<<a, b, "ask_user">>, B) =
          IF a \notin B THEN a ELSE IF b \notin B THEN b ELSE IF "ask_user" \notin B THEN "ask_user" ELSE "ask_user"
    BY FirstOpenOf3
  <2> QED
    BY <2>1, Zenon
<1>5. Router!Route(w) = FirstOpen(Preferences(w), B)
  BY Zenon DEF Router!Route, FirstOpen, Least, Open, Preferences, B
<1> QED
  BY <1>1, <1>2, <1>3, <1>4, <1>5, Zenon DEF Orders, Preferences, B

(* A text whose facts agree with the world has its label, given that the    *)
(* failed attempts are told as they are.                                    *)
LEMMA RouterDecides ==
  ASSUME NEW w \in Router!Situations, NEW t \in Router!Situations, Router!Accepts(w, t), Router!Writable(w, t),
         Router!Unchecked(t) = Router!Unchecked(w)
  PROVE  Router!Route(t) = Router!Route(w)
<1>1. /\ t.network = w.network /\ t.exact = w.exact /\ t.files = w.files /\ Router!Usable(t.cache) = Router!Usable(w.cache)
      /\ t.complete = w.complete /\ t.fresh = w.fresh /\ t.inContext = w.inContext /\ t.complexity = w.complexity
      /\ t.disallowed = w.disallowed /\ t.failed = w.failed
  BY DEF Router!Accepts, Router!Agree, Router!Read, Router!Writable, Router!Unchecked
<1>2. Router!Blocked(t) = Router!Blocked(w)
  BY <1>1, Zenon DEF Router!Blocked
<1>3. Orders(t) = Orders(w)
  BY <1>1, <1>2, Zenon DEF Orders
<1> QED
  BY <1>3, RouteUnrolled

(* The cheapest of some actions. *)
Cheapest(S) == CHOOSE a \in S : \A b \in S : Router!COSTS[a] <= Router!COSTS[b]

(* The cheapest of one action is that one. *)
LEMMA CheapestOfOne ==
  ASSUME NEW a \in DOMAIN Router!COSTS
  PROVE  Cheapest({a}) = a
<1>1. Router!COSTS[a] <= Router!COSTS[a]
  BY DEF Router!COSTS
<1>2. \E x \in {a} : \A b \in {a} : Router!COSTS[x] <= Router!COSTS[b]
  BY <1>1, Zenon
<1> QED
  BY <1>2, Zenon DEF Cheapest

(* ROUTER_POLICY leaves one action, and it is route's. *)
LEMMA RouterText ==
  ASSUME NEW w \in Router!Situations
  PROVE  Router!Policy(w) = Router!Route(w)
<1> DEFINE B == Router!Blocked(w)
           Means == IF Router!Usable(w.cache) THEN {"use_cache"}
                    ELSE IF ~w.complete THEN {"ask_user"}
                    ELSE IF w.fresh THEN {"search_web"}
                    ELSE IF w.inContext \/ (w.exact /\ w.files # {}) THEN {"use_python"}
                    ELSE {"call_small_model", "call_large_model"}
           Wanted == IF w.complexity = "high" THEN "call_large_model" ELSE "call_small_model"
           Left == Means \ B
<1>1. Router!Policy(w) = IF Left = {} THEN "ask_user" ELSE IF Wanted \in Left THEN Wanted ELSE Cheapest(Left)
  BY Zenon DEF Router!Policy, Cheapest
<1>2. Left = {} \/ Wanted \in Left \/ \E a \in DOMAIN Router!COSTS : Left = {a}
  BY DEF Router!COSTS
<1>3. (\E a \in DOMAIN Router!COSTS : Left = {a}) => Left = {Cheapest(Left)}
  BY CheapestOfOne, Zenon
<1>4. Router!Policy(w) = Orders(w)
  <2> HIDE DEF B
  <2>1. CASE Left = {}
    BY <1>1, <2>1, Zenon DEF Orders, B
  <2>2. CASE Wanted \in Left
    BY <1>1, <2>2, Zenon DEF Orders, B
  <2>3. CASE Wanted \notin Left /\ Left # {}
    BY <1>1, <1>2, <1>3, <2>3, Zenon DEF Orders, B
  <2> QED
    BY <2>1, <2>2, <2>3
<1> QED
  BY <1>4, RouteUnrolled

-----------------------------------------------------------------------------
(* tool_action_gate *)

(* A call that the gate allows passes the checks of the registry, if the    *)
(* metadata state the effect of the tool that writes.                       *)
LEMMA ToolGateRuns ==
  ASSUME NEW w \in ToolGate!Situations, ToolGate!EffectStated(w), ToolGate!Gate(w) = "allow"
  PROVE  ToolGate!Executes(w)
BY DEF ToolGate!Situations, ToolGate!EffectStated, ToolGate!Gate, ToolGate!Executes, ToolGate!PathTraversal, ToolGate!ArgumentsValid

(* POLICY_TEXT, in the order of its last sentence, gives the gate's label. *)
LEMMA ToolGateText ==
  ASSUME NEW w \in ToolGate!Situations
  PROVE  ToolGate!Policy(w) = ToolGate!Gate(w)
BY DEF ToolGate!Situations, ToolGate!Gate, ToolGate!Policy, ToolGate!PathTraversal, ToolGate!ArgumentsValid

-----------------------------------------------------------------------------
(* termination_gate *)

(* The clauses of TERMINATION_POLICY, the first that applies deciding, give *)
(* the oracle's label of every situation in which they do not leave it to   *)
(* their order.                                                             *)
LEMMA TerminationText ==
  ASSUME NEW w \in Termination!Situations, Termination!Clear(w)
  PROVE  Termination!Policy(w) = Termination!Termination(w)
<1> DEFINE clauses == << <<w.needsInput, "ask_user">>,
                    <<(w.error = "transient" \/ ~w.exists) /\ w.used < Termination!Budget, "retry">>,
                    <<w.error = "transient" \/ ~w.exists, "escalate">>,
                    <<w.error = "permanent_env" \/ w.conflict, "escalate">>,
                    <<~w.nonempty \/ ~w.valid \/ w.failing > 0, "repair">>,
                    <<w.missing > 0, "continue">>,
                    <<TRUE, "finish">> >>
           holds == {i \in DOMAIN clauses : clauses[i][1]}
<1>1. DOMAIN clauses = 1..7
  OBVIOUS
<1>2. /\ clauses[1][1] <=> w.needsInput
      /\ clauses[2][1] <=> (w.error = "transient" \/ ~w.exists) /\ w.used < Termination!Budget
      /\ clauses[3][1] <=> w.error = "transient" \/ ~w.exists
      /\ clauses[4][1] <=> w.error = "permanent_env" \/ w.conflict
      /\ clauses[5][1] <=> ~w.nonempty \/ ~w.valid \/ w.failing > 0
      /\ clauses[6][1] <=> w.missing > 0
      /\ clauses[7][1]
  OBVIOUS
<1>3. /\ clauses[1][2] = "ask_user"
      /\ clauses[2][2] = "retry"
      /\ clauses[3][2] = "escalate"
      /\ clauses[4][2] = "escalate"
      /\ clauses[5][2] = "repair"
      /\ clauses[6][2] = "continue"
      /\ clauses[7][2] = "finish"
  OBVIOUS
<1>4. Termination!Policy(w) = clauses[Least(holds)][2]
  BY Zenon DEF Termination!Policy, Least
<1> HIDE DEF clauses
<1>5. ASSUME NEW k \in 1..7, clauses[k][1], \A j \in 1..(k - 1) : ~clauses[j][1]
      PROVE  Termination!Policy(w) = clauses[k][2]
  <2>1. holds \in SUBSET Nat /\ k \in holds /\ \A j \in holds : k <= j
    BY <1>1, <1>5
  <2> QED
    BY <1>4, <2>1, LeastIs
<1>6. CASE clauses[1][1]
  BY <1>2, <1>3, <1>5, <1>6 DEF Termination!Termination
<1>7. CASE ~clauses[1][1] /\ clauses[2][1]
  <2>1. Termination!Policy(w) = clauses[2][2]
    BY <1>5, <1>7
  <2> QED
    BY <1>2, <1>3, <1>7, <2>1 DEF Termination!Termination, Termination!Situations, Termination!Clear
<1>8. CASE ~clauses[1][1] /\ ~clauses[2][1] /\ clauses[3][1]
  <2>1. Termination!Policy(w) = clauses[3][2]
    BY <1>5, <1>8
  <2> QED
    BY <1>2, <1>3, <1>8, <2>1 DEF Termination!Termination, Termination!Situations, Termination!Clear
<1>9. CASE ~clauses[1][1] /\ ~clauses[2][1] /\ ~clauses[3][1] /\ clauses[4][1]
  <2>1. Termination!Policy(w) = clauses[4][2]
    BY <1>5, <1>9
  <2> QED
    BY <1>2, <1>3, <1>9, <2>1 DEF Termination!Termination, Termination!Situations, Termination!Clear
<1>10. CASE ~clauses[1][1] /\ ~clauses[2][1] /\ ~clauses[3][1] /\ ~clauses[4][1] /\ clauses[5][1]
  <2>1. Termination!Policy(w) = clauses[5][2]
    BY <1>5, <1>10
  <2> QED
    BY <1>2, <1>3, <1>10, <2>1 DEF Termination!Termination, Termination!Situations, Termination!Clear
<1>11. CASE /\ ~clauses[1][1] /\ ~clauses[2][1] /\ ~clauses[3][1] /\ ~clauses[4][1]
            /\ ~clauses[5][1] /\ clauses[6][1]
  <2>1. Termination!Policy(w) = clauses[6][2]
    BY <1>5, <1>11
  <2> QED
    BY <1>2, <1>3, <1>11, <2>1 DEF Termination!Termination, Termination!Situations, Termination!Clear
<1>12. CASE /\ ~clauses[1][1] /\ ~clauses[2][1] /\ ~clauses[3][1] /\ ~clauses[4][1]
            /\ ~clauses[5][1] /\ ~clauses[6][1]
  <2>1. Termination!Policy(w) = clauses[7][2]
    BY <1>2, <1>5, <1>12
  <2> QED
    BY <1>2, <1>3, <1>12, <2>1 DEF Termination!Termination, Termination!Situations, Termination!Clear
<1> QED
  BY <1>6, <1>7, <1>8, <1>9, <1>10, <1>11, <1>12

(* A text with the facts of the world has its label. *)
LEMMA TerminationDecides ==
  ASSUME NEW w \in Termination!Situations, NEW t \in Termination!Situations, Termination!Accepts(w, t)
  PROVE  Termination!Termination(t) = Termination!Termination(w)
BY DEF Termination!Situations, Termination!Accepts, Termination!Termination, Termination!Agree

-----------------------------------------------------------------------------
(* retrieval_gate *)

(* retrieval_policy gives the oracle's label of every situation in which    *)
(* rules (1) and (2) do not both apply and an answer in the context is      *)
(* recent enough.                                                           *)
LEMMA RetrievalText ==
  ASSUME NEW w \in Retrieval!Situations, Retrieval!Clear(w)
  PROVE  Retrieval!Policy(w) = Retrieval!RetrievalRoute(w)
BY DEF Retrieval!Clear, Retrieval!Situations, Retrieval!Policy, Retrieval!RetrievalRoute, Retrieval!InTime, Retrieval!Cover

(* A text whose artifacts read alike has the label of the world, given that *)
(* the answer in its context is as old.                                     *)
LEMMA RetrievalDecides ==
  ASSUME NEW w \in Retrieval!Situations, NEW t \in Retrieval!Situations, Retrieval!Accepts(w, t),
         Retrieval!Unchecked(t) = Retrieval!Unchecked(w)
  PROVE  Retrieval!RetrievalRoute(t) = Retrieval!RetrievalRoute(w)
<1> DEFINE Art(x) == {<<s[1], Retrieval!AccessState(s[2]), s[2].indexed, s[2].age, s[2].covers>> : s \in x.sources}
<1>1. /\ t.needsFresh = w.needsFresh /\ t.network = w.network /\ t.scope = w.scope /\ t.noKey = w.noKey
      /\ t.inContext = w.inContext /\ t.conflict = w.conflict /\ Art(t) = Art(w) /\ t.contextAge = w.contextAge
  BY DEF Retrieval!Accepts, Retrieval!Agree, Retrieval!Read, Retrieval!Unchecked
<1>2. ASSUME NEW x \in Retrieval!Situations, NEW y \in Retrieval!Situations, Art(x) = Art(y), x.needsFresh = y.needsFresh,
             NEW s \in Retrieval!Cover(x)
      PROVE  \E r \in Retrieval!Cover(y) : /\ r[2].indexed = s[2].indexed
                                           /\ Retrieval!AccessState(r[2]) = Retrieval!AccessState(s[2])
  <2>1. s \in x.sources /\ s[2].covers /\ Retrieval!InTime(x, s[2].age)
    BY DEF Retrieval!Cover
  <2>2. PICK r \in y.sources : <<s[1], Retrieval!AccessState(s[2]), s[2].indexed, s[2].age, s[2].covers>> =
                               <<r[1], Retrieval!AccessState(r[2]), r[2].indexed, r[2].age, r[2].covers>>
    BY <2>1, <1>2
  <2> QED
    BY <1>2, <2>1, <2>2 DEF Retrieval!Cover, Retrieval!InTime
<1>3. ASSUME NEW x \in Retrieval!Situations, NEW s \in Retrieval!Cover(x)
      PROVE  (s[2].mounted /\ s[2].readable) <=> Retrieval!AccessState(s[2]) = "mounted_readable"
  BY DEF Retrieval!AccessState, Retrieval!Situations, Retrieval!Cover
<1>4. /\ (\E s \in Retrieval!Cover(t) : s[2].mounted /\ s[2].readable) <=> (\E s \in Retrieval!Cover(w) : s[2].mounted /\ s[2].readable)
      /\ (\E s \in Retrieval!Cover(t) : s[2].indexed) <=> (\E s \in Retrieval!Cover(w) : s[2].indexed)
  <2>1. ASSUME NEW x \in Retrieval!Situations, NEW y \in Retrieval!Situations, Art(x) = Art(y), x.needsFresh = y.needsFresh
        PROVE  /\ (\E s \in Retrieval!Cover(x) : s[2].mounted /\ s[2].readable)
                    => \E s \in Retrieval!Cover(y) : s[2].mounted /\ s[2].readable
               /\ (\E s \in Retrieval!Cover(x) : s[2].indexed) => \E s \in Retrieval!Cover(y) : s[2].indexed
    <3> HIDE DEF Art
    <3>1. ASSUME NEW s \in Retrieval!Cover(x), s[2].mounted /\ s[2].readable
          PROVE  \E r \in Retrieval!Cover(y) : r[2].mounted /\ r[2].readable
      <4>1. PICK r \in Retrieval!Cover(y) : Retrieval!AccessState(r[2]) = Retrieval!AccessState(s[2])
        BY <1>2, <2>1
      <4> QED
        BY <1>3, <3>1, <4>1
    <3>2. ASSUME NEW s \in Retrieval!Cover(x), s[2].indexed
          PROVE  \E r \in Retrieval!Cover(y) : r[2].indexed
      BY <1>2, <2>1, <3>2
    <3> QED
      BY <3>1, <3>2
  <2> HIDE DEF Art
  <2> QED
    BY <1>1, <2>1
<1>5. Retrieval!InTime(t, t.contextAge) <=> Retrieval!InTime(w, w.contextAge)
  BY <1>1 DEF Retrieval!InTime
<1> QED
  BY <1>1, <1>4, <1>5 DEF Retrieval!RetrievalRoute

-----------------------------------------------------------------------------
(* prompt_injection_gate *)

(* The routes a row offers, each by its text, give the oracle's label. *)
LEMMA UntrustedText ==
  ASSUME NEW w \in Untrusted!Situations
  PROVE  Untrusted!Policy(w) = Untrusted!InjectionRoute(w)
BY DEF Untrusted!Situations, Untrusted!Policy, Untrusted!InjectionRoute, Untrusted!Live

(* A text that agrees with the world on what the verifier must read has its *)
(* label: what it may leave out makes no difference.                        *)
LEMMA UntrustedDecides ==
  ASSUME NEW w \in Untrusted!Situations, NEW t \in Untrusted!Situations, Untrusted!Accepts(w, t)
  PROVE  Untrusted!InjectionRoute(t) = Untrusted!InjectionRoute(w)
<1> DEFINE loose == (IF w.trusted /\ w.target # "none" /\ t.target # "none" THEN {"target"} ELSE {})
                 \cup (IF w.quoted THEN {"target", "sideEffect"} ELSE {})
<1>1. \A k \in {"trusted", "live", "target", "quoted", "sideEffect", "approved"} \ loose : Untrusted!Read(t)[k] = Untrusted!Read(w)[k]
  BY DEF Untrusted!Accepts, Untrusted!Agree, Untrusted!Without, Untrusted!Read
<1>2. /\ t.trusted = w.trusted /\ Untrusted!Live(t) = Untrusted!Live(w) /\ t.quoted = w.quoted /\ t.approved = w.approved
      /\ ~w.quoted => t.sideEffect = w.sideEffect
      /\ ~w.quoted /\ ~w.trusted => t.target = w.target
  BY <1>1 DEF Untrusted!Read, Untrusted!Situations
<1> QED
  BY <1>2 DEF Untrusted!Situations, Untrusted!InjectionRoute, Untrusted!Live

-----------------------------------------------------------------------------
(* answer_sufficiency *)

(* The options, read from the definitions in order, give the oracle's label. *)
LEMMA SufficiencyText ==
  ASSUME NEW w \in Sufficiency!Situations
  PROVE  Sufficiency!Policy(w) = Sufficiency!Sufficiency(w)
<1> DEFINE missing == Sufficiency!Missing(w)
           away == {i \in missing : ~w.facts[i].context}
           where == {p[2] : p \in {q \in Sufficiency!Availability(w) : q[1] \in missing}}
           clauses == << <<w.ambiguous, "ask_user">>,
                    <<w.contradicts \/ w.conflict, "escalate">>,
                    <<w.unsupported \/ ~w.cited, "repair_from_context">>,
                    <<where = {"stated"}, "repair_from_context">>,
                    <<"user" \in where, "ask_user">>,
                    <<"fetch" \in where, "retrieve_more">>,
                    <<where # {}, "escalate">>,
                    <<~w.format, "repair_from_context">>,
                    <<TRUE, "return">> >>
           holds == {i \in DOMAIN clauses : clauses[i][1]}
<1>1. Sufficiency!Policy(w) = clauses[Least(holds)][2]
  BY Zenon DEF Sufficiency!Policy, Least
<1>2. missing \subseteq Sufficiency!Facts
  BY DEF Sufficiency!Missing
<1>3. ASSUME ~w.ambiguous, NEW x
      PROVE  x \in where <=> \E i \in missing : Sufficiency!Where(w.facts[i]) = x
  <2>1. Sufficiency!Availability(w) = {<<i, Sufficiency!Where(w.facts[i])>> : i \in Sufficiency!Facts}
    BY <1>3, Zenon DEF Sufficiency!Availability
  <2>2. ASSUME NEW i \in missing
        PROVE  Sufficiency!Where(w.facts[i]) \in where
    <3>1. <<i, Sufficiency!Where(w.facts[i])>> \in {q \in Sufficiency!Availability(w) : q[1] \in missing}
      BY <1>2, <2>1
    <3> QED
      BY <3>1
  <2>3. ASSUME x \in where
        PROVE  \E i \in missing : Sufficiency!Where(w.facts[i]) = x
    <3>1. PICK q \in Sufficiency!Availability(w) : q[1] \in missing /\ q[2] = x
      BY <2>3
    <3>2. PICK i \in Sufficiency!Facts : q = <<i, Sufficiency!Where(w.facts[i])>>
      BY <2>1, <3>1
    <3> QED
      BY <3>1, <3>2
  <2> QED
    BY <2>2, <2>3
<1>4. \A i \in Sufficiency!Facts : /\ Sufficiency!Where(w.facts[i]) = "stated" <=> w.facts[i].context
                                   /\ Sufficiency!Where(w.facts[i]) = "user" <=> ~w.facts[i].context /\ w.facts[i].owner = "user"
                                   /\ Sufficiency!Where(w.facts[i]) = "fetch" <=>
                                        ~w.facts[i].context /\ w.facts[i].owner # "user" /\ w.facts[i].retrievable
  BY DEF Sufficiency!Where, Sufficiency!Situations
<1>5. ~w.ambiguous =>
        /\ where = {"stated"} <=> missing # {} /\ away = {}
        /\ "user" \in where <=> \E i \in away : w.facts[i].owner = "user"
        /\ "fetch" \in where <=> \E i \in away : w.facts[i].owner # "user" /\ w.facts[i].retrievable
        /\ where # {} <=> missing # {}
  <2> SUFFICES ASSUME ~w.ambiguous
               PROVE  /\ where = {"stated"} <=> missing # {} /\ away = {}
                      /\ "user" \in where <=> \E i \in away : w.facts[i].owner = "user"
                      /\ "fetch" \in where <=> \E i \in away : w.facts[i].owner # "user" /\ w.facts[i].retrievable
                      /\ where # {} <=> missing # {}
    OBVIOUS
  <2>1. \A x : x \in where <=> \E i \in missing : Sufficiency!Where(w.facts[i]) = x
    BY <1>3
  <2> HIDE DEF where, missing
  <2>2. where = {"stated"} <=> missing # {} /\ away = {}
    BY <2>1, <1>2, <1>4
  <2>3. "user" \in where <=> \E i \in away : w.facts[i].owner = "user"
    BY <2>1, <1>2, <1>4
  <2>4. "fetch" \in where <=> \E i \in away : w.facts[i].owner # "user" /\ w.facts[i].retrievable
    BY <2>1, <1>2, <1>4
  <2>5. where # {} <=> missing # {}
    BY <2>1, <1>2
  <2> QED
    BY <2>2, <2>3, <2>4, <2>5
<1>6. DOMAIN clauses = 1..9
  OBVIOUS
<1>7. /\ clauses[1][1] <=> w.ambiguous
      /\ clauses[2][1] <=> w.contradicts \/ w.conflict
      /\ clauses[3][1] <=> w.unsupported \/ ~w.cited
      /\ clauses[4][1] <=> where = {"stated"}
      /\ clauses[5][1] <=> "user" \in where
      /\ clauses[6][1] <=> "fetch" \in where
      /\ clauses[7][1] <=> where # {}
      /\ clauses[8][1] <=> ~w.format
      /\ clauses[9][1]
  <2> HIDE DEF where
  <2> QED
    OBVIOUS
<1>8. /\ clauses[1][2] = "ask_user" /\ clauses[2][2] = "escalate" /\ clauses[3][2] = "repair_from_context"
      /\ clauses[4][2] = "repair_from_context" /\ clauses[5][2] = "ask_user" /\ clauses[6][2] = "retrieve_more"
      /\ clauses[7][2] = "escalate" /\ clauses[8][2] = "repair_from_context" /\ clauses[9][2] = "return"
  <2> HIDE DEF where
  <2> QED
    OBVIOUS
<1> HIDE DEF clauses
<1>9. ASSUME NEW k \in 1..9, clauses[k][1], \A j \in 1..(k - 1) : ~clauses[j][1]
      PROVE  Sufficiency!Policy(w) = clauses[k][2]
  <2>1. holds \in SUBSET Nat /\ k \in holds /\ \A j \in holds : k <= j
    BY <1>6, <1>9
  <2> QED
    BY <1>1, <2>1, LeastIs
<1>10. Sufficiency!Sufficiency(w) =
         IF w.ambiguous THEN "ask_user"
         ELSE IF w.contradicts \/ w.conflict THEN "escalate"
         ELSE IF w.unsupported \/ ~w.cited THEN "repair_from_context"
         ELSE IF missing # {}
              THEN IF away = {} THEN "repair_from_context"
                   ELSE IF \E i \in away : w.facts[i].owner = "user" THEN "ask_user"
                   ELSE IF \E i \in away : w.facts[i].retrievable THEN "retrieve_more"
                   ELSE "escalate"
         ELSE IF ~w.format THEN "repair_from_context"
         ELSE "return"
  BY Zenon DEF Sufficiency!Sufficiency
<1>11. CASE clauses[1][1]
  <2>1. Sufficiency!Policy(w) = clauses[1][2]
    BY <1>7, <1>9, <1>11
  <2> HIDE DEF where, missing, away
  <2> QED
    BY <1>5, <1>7, <1>8, <1>11, <2>1, <1>10
<1>12. CASE ~clauses[1][1] /\ clauses[2][1]
  <2>1. Sufficiency!Policy(w) = clauses[2][2]
    BY <1>7, <1>9, <1>12
  <2> HIDE DEF where, missing, away
  <2> QED
    BY <1>5, <1>7, <1>8, <1>12, <2>1, <1>10
<1>13. CASE ~clauses[1][1] /\ ~clauses[2][1] /\ clauses[3][1]
  <2>1. Sufficiency!Policy(w) = clauses[3][2]
    BY <1>7, <1>9, <1>13
  <2> HIDE DEF where, missing, away
  <2> QED
    BY <1>5, <1>7, <1>8, <1>13, <2>1, <1>10
<1>14. CASE ~clauses[1][1] /\ ~clauses[2][1] /\ ~clauses[3][1] /\ clauses[4][1]
  <2>1. Sufficiency!Policy(w) = clauses[4][2]
    BY <1>7, <1>9, <1>14
  <2> HIDE DEF where, missing, away
  <2> QED
    BY <1>5, <1>7, <1>8, <1>14, <2>1, <1>10
<1>15. CASE ~clauses[1][1] /\ ~clauses[2][1] /\ ~clauses[3][1] /\ ~clauses[4][1] /\ clauses[5][1]
  <2>1. Sufficiency!Policy(w) = clauses[5][2]
    BY <1>7, <1>9, <1>15
  <2> HIDE DEF where, missing, away
  <2> QED
    BY <1>5, <1>7, <1>8, <1>15, <2>1, <1>10
<1>16. CASE /\ ~clauses[1][1] /\ ~clauses[2][1] /\ ~clauses[3][1] /\ ~clauses[4][1] /\ ~clauses[5][1]
             /\ clauses[6][1]
  <2>1. Sufficiency!Policy(w) = clauses[6][2]
    BY <1>7, <1>9, <1>16
  <2> HIDE DEF where, missing, away
  <2> QED
    BY <1>5, <1>7, <1>8, <1>16, <2>1, <1>10
<1>17. CASE /\ ~clauses[1][1] /\ ~clauses[2][1] /\ ~clauses[3][1] /\ ~clauses[4][1] /\ ~clauses[5][1]
             /\ ~clauses[6][1] /\ clauses[7][1]
  <2>1. Sufficiency!Policy(w) = clauses[7][2]
    BY <1>7, <1>9, <1>17
  <2> HIDE DEF where, missing, away
  <2> QED
    BY <1>5, <1>7, <1>8, <1>17, <2>1, <1>10
<1>18. CASE /\ ~clauses[1][1] /\ ~clauses[2][1] /\ ~clauses[3][1] /\ ~clauses[4][1] /\ ~clauses[5][1]
             /\ ~clauses[6][1] /\ ~clauses[7][1] /\ clauses[8][1]
  <2>1. Sufficiency!Policy(w) = clauses[8][2]
    BY <1>7, <1>9, <1>18
  <2> HIDE DEF where, missing, away
  <2> QED
    BY <1>5, <1>7, <1>8, <1>18, <2>1, <1>10
<1>19. CASE /\ ~clauses[1][1] /\ ~clauses[2][1] /\ ~clauses[3][1] /\ ~clauses[4][1] /\ ~clauses[5][1]
             /\ ~clauses[6][1] /\ ~clauses[7][1] /\ ~clauses[8][1]
  <2>1. Sufficiency!Policy(w) = clauses[9][2]
    BY <1>7, <1>9, <1>19
  <2> HIDE DEF where, missing, away
  <2> QED
    BY <1>5, <1>7, <1>8, <1>19, <2>1, <1>10
<1> QED
  BY <1>11, <1>12, <1>13, <1>14, <1>15, <1>16, <1>17, <1>18, <1>19

(* What a writer may add to the context is what the verifier reads back, and*)
(* with it the label is settled.                                            *)
LEMMA SufficiencyDecides ==
  ASSUME NEW w \in Sufficiency!Situations, NEW t \in Sufficiency!Situations, Sufficiency!Writable(w, t), Sufficiency!Accepts(w, t)
  PROVE  Sufficiency!Sufficiency(t) = Sufficiency!Sufficiency(w)
<1>1. PICK said \in SUBSET Sufficiency!Facts :
        t = [w EXCEPT !.facts = [i \in Sufficiency!Facts |-> [w.facts[i] EXCEPT !.context = @ \/ i \in said]]]
  BY DEF Sufficiency!Writable
<1>2. /\ t.ambiguous = w.ambiguous /\ t.contradicts = w.contradicts /\ t.conflict = w.conflict
      /\ t.unsupported = w.unsupported /\ t.cited = w.cited /\ t.format = w.format
  BY <1>1 DEF Sufficiency!Situations
<1>3. ASSUME NEW i \in Sufficiency!Facts
      PROVE  /\ t.facts[i].answer = w.facts[i].answer
             /\ t.facts[i].retrievable = w.facts[i].retrievable
             /\ t.facts[i].owner = w.facts[i].owner
  <2>1. w.facts[i] \in [answer : BOOLEAN, context : BOOLEAN, retrievable : BOOLEAN, owner : {"world", "user"}]
    BY DEF Sufficiency!Situations
  <2>2. t.facts = [j \in Sufficiency!Facts |-> [w.facts[j] EXCEPT !.context = @ \/ j \in said]]
    BY <1>1 DEF Sufficiency!Situations
  <2>3. t.facts[i] = [w.facts[i] EXCEPT !.context = @ \/ i \in said]
    BY <2>2
  <2> QED
    BY <2>1, <2>3
<1>4. Sufficiency!Read(t).sources = Sufficiency!Read(w).sources
  <2>1. "sources" \in DOMAIN Sufficiency!Expected(w) /\ Sufficiency!Expected(w).sources = Sufficiency!Read(w).sources
    BY DEF Sufficiency!Expected, Sufficiency!Without, Sufficiency!Read
  <2> QED
    BY <2>1 DEF Sufficiency!Accepts, Sufficiency!Agree
<1>5. \A i \in Sufficiency!Facts : t.facts[i].context <=> w.facts[i].context
  BY <1>4 DEF Sufficiency!Read
<1>6. Sufficiency!Missing(t) = Sufficiency!Missing(w) /\ Sufficiency!Missing(w) \subseteq Sufficiency!Facts
  BY <1>3 DEF Sufficiency!Missing
<1>7. {i \in Sufficiency!Missing(t) : ~t.facts[i].context} = {i \in Sufficiency!Missing(w) : ~w.facts[i].context}
  BY <1>5, <1>6
<1> DEFINE Away(x) == {i \in Sufficiency!Missing(x) : ~x.facts[i].context}
<1>8. Away(t) = Away(w) /\ Away(w) \subseteq Sufficiency!Facts
  BY <1>6, <1>7
<1>9. /\ (\E i \in Away(t) : t.facts[i].owner = "user") <=> (\E i \in Away(w) : w.facts[i].owner = "user")
      /\ (\E i \in Away(t) : t.facts[i].retrievable) <=> (\E i \in Away(w) : w.facts[i].retrievable)
  <2> HIDE DEF Away
  <2> QED
    BY <1>3, <1>8
<1> QED
  BY <1>2, <1>6, <1>8, <1>9, Zenon DEF Sufficiency!Sufficiency

-----------------------------------------------------------------------------
(* authorization_gate *)

(* POLICY_CLAUSES give the oracle's label, but for an external              *)
(* collaborator's approved request for what is confidential.                *)
LEMMA AuthorizationText ==
  ASSUME NEW w \in Authorization!Situations, Authorization!Clear(w)
  PROVE  Authorization!Policy(w) = Authorization!Authorize(w)
BY DEF Authorization!Clear, Authorization!Situations, Authorization!Policy, Authorization!Authorize, Authorization!Expired, Authorization!Permissions

(* A text with the compared facts of the world has its label, given that the*)
(* resource is shared with partners in both or in neither.                  *)
LEMMA AuthorizationDecides ==
  ASSUME NEW w \in Authorization!Situations, NEW t \in Authorization!Situations, Authorization!Accepts(w, t),
         Authorization!Unchecked(t) = Authorization!Unchecked(w)
  PROVE  Authorization!Authorize(t) = Authorization!Authorize(w)
BY DEF Authorization!Situations, Authorization!Accepts, Authorization!Authorize, Authorization!Read, Authorization!Agree, Authorization!Unchecked

-----------------------------------------------------------------------------
(* communication_urgency *)

(* The points of a deadline, without the list of them. *)
LEMMA DeadlineLadder ==
  ASSUME NEW n \in Nat
  PROVE  Urgency!DeadlinePoints(n) = IF n <= 4 THEN 3 ELSE IF n <= 24 THEN 2 ELSE IF n <= 72 THEN 1 ELSE 0
<1> DEFINE met == {i \in DOMAIN Urgency!Deadlines : n <= Urgency!Deadlines[i][1]}
<1>1. Urgency!DeadlinePoints(n) = IF met = {} THEN 0 ELSE Urgency!Deadlines[Least(met)][2]
  BY Zenon DEF Urgency!DeadlinePoints, Least
<1>2. Urgency!Deadlines[1][2] = 3 /\ Urgency!Deadlines[2][2] = 2 /\ Urgency!Deadlines[3][2] = 1
  BY DEF Urgency!Deadlines
<1>3. met = IF n <= 4 THEN {1, 2, 3} ELSE IF n <= 24 THEN {2, 3} ELSE IF n <= 72 THEN {3} ELSE {}
  BY DEF Urgency!Deadlines
<1>4. Least({1, 2, 3}) = 1 /\ Least({2, 3}) = 2 /\ Least({3}) = 3
  BY LeastIs
<1> HIDE DEF met
<1> QED
  BY <1>1, <1>2, <1>3, <1>4

(* The points of the impacts are numbers. *)
LEMMA PointsAreNumbers ==
  ASSUME NEW w \in Urgency!Situations
  PROVE  /\ Urgency!ScopePoints[w.scope] \in Nat
         /\ Urgency!ServicePoints[w.service] \in Nat
         /\ Urgency!RevenuePoints[w.revenue] \in Nat
         /\ Urgency!WorkaroundPoints[w.workaround] \in Int
<1>1. /\ w.scope \in {"single", "team", "org", "all_customers"}
      /\ w.service \in {"normal", "degraded", "down"}
      /\ w.revenue \in {"none", "minor", "major"}
      /\ w.workaround \in {"none", "partial", "full"}
  BY DEF Urgency!Situations, Urgency!ScopePoints, Urgency!ServicePoints, Urgency!RevenuePoints, Urgency!WorkaroundPoints
<1> QED
  BY <1>1 DEF Urgency!ScopePoints, Urgency!ServicePoints, Urgency!RevenuePoints, Urgency!WorkaroundPoints

(* How many cutoffs a number of points exceeds. *)
LEMMA CutoffsAbove ==
  ASSUME NEW n \in Int
  PROVE  Cardinality({i \in DOMAIN Urgency!Cutoffs : n > Urgency!Cutoffs[i]}) =
           IF n <= 0 THEN 0 ELSE IF n <= 2 THEN 1 ELSE IF n <= 4 THEN 2 ELSE 3
<1>1. {i \in DOMAIN Urgency!Cutoffs : n > Urgency!Cutoffs[i]} =
        IF n <= 0 THEN {} ELSE IF n <= 2 THEN 1..1 ELSE IF n <= 4 THEN 1..2 ELSE 1..3
  BY DEF Urgency!Cutoffs
<1>2. Cardinality({}) = 0 /\ Cardinality(1..1) = 1 /\ Cardinality(1..2) = 2 /\ Cardinality(1..3) = 3
  <2>1. Cardinality({}) = 0
    BY FS_EmptySet
  <2>2. ASSUME NEW m \in 1..3
        PROVE  Cardinality(1..m) = m
    <3>1. m \in Int /\ 1 \in Int /\ ~(1 > m) /\ m - 1 + 1 = m
      OBVIOUS
    <3>2. Cardinality(1..m) = IF 1 > m THEN 0 ELSE m - 1 + 1
      BY <3>1, FS_Interval, Zenon
    <3> QED
      BY <3>1, <3>2
  <2>3. Cardinality(1..1) = 1 /\ Cardinality(1..2) = 2 /\ Cardinality(1..3) = 3
    BY <2>2
  <2> QED
    BY <2>1, <2>3
<1> QED
  BY <1>1, <1>2

(* The Cardinality the module counts with is the one the theorems are about. *)
LEMMA SameCardinality ==
  ASSUME NEW S
  PROVE  Urgency!Cardinality(S) = Cardinality(S)
BY Zenon DEF Urgency!Cardinality, Cardinality

(* The rubric, points and cutoffs as printed, gives the oracle's level of   *)
(* every impact.                                                            *)
LEMMA UrgencyText ==
  ASSUME NEW w \in Urgency!Situations
  PROVE  Urgency!Policy(w) = Urgency!UrgencyLevel(w)
<1> DEFINE deadline == CASE ~w.real \/ w.hours > 72 -> 0
                    [] w.real /\ w.hours <= 4 -> 3
                    [] w.real /\ w.hours \in 5 .. 24 -> 2
                    [] w.real /\ w.hours \in 25 .. 72 -> 1
           total == Urgency!ScopePoints[w.scope] + Urgency!ServicePoints[w.service] + Urgency!RevenuePoints[w.revenue]
                 + deadline + Urgency!WorkaroundPoints[w.workaround]
<1>1. w.hours \in Nat /\ w.real \in BOOLEAN
  BY DEF Urgency!Situations
<1>2. deadline = IF w.real THEN Urgency!DeadlinePoints(w.hours) ELSE 0
  BY <1>1, DeadlineLadder
<1>3. deadline \in Nat
  BY <1>1
<1>4. total = Urgency!Points(w)
  BY <1>2, Zenon DEF Urgency!Points
<1>6. Urgency!Policy(w) = IF w.safety THEN 3 ELSE IF w.missing THEN 1
                          ELSE Cardinality({i \in DOMAIN Urgency!Cutoffs : total > Urgency!Cutoffs[i]})
  BY SameCardinality, Zenon DEF Urgency!Policy
<1> HIDE DEF deadline
<1>5. total \in Int
  BY <1>3, PointsAreNumbers
<1>7. Urgency!Cutoffs[1] = 0 /\ Urgency!Cutoffs[2] = 2 /\ Urgency!Cutoffs[3] = 4
  BY DEF Urgency!Cutoffs
<1> HIDE DEF total
<1> QED
  BY <1>4, <1>5, <1>6, <1>7, CutoffsAbove DEF Urgency!UrgencyLevel, Urgency!MissingLevel

(* Hours of one bucket have the same points. *)
LEMMA BucketTells ==
  ASSUME NEW h \in Nat, NEW k \in Nat, Urgency!Bucket(h) = Urgency!Bucket(k)
  PROVE  Urgency!DeadlinePoints(h) = Urgency!DeadlinePoints(k)
BY DeadlineLadder DEF Urgency!Bucket, Urgency!NoDeadline

(* A text that agrees with the world on the rubric, the hours up to their   *)
(* bucket, has its level.                                                   *)
LEMMA UrgencyDecides ==
  ASSUME NEW w \in Urgency!Situations, NEW t \in Urgency!Situations, Urgency!Accepts(w, t)
  PROVE  Urgency!UrgencyLevel(t) = Urgency!UrgencyLevel(w)
<1>1. DOMAIN w = {"scope", "service", "revenue", "workaround", "safety", "hours", "real", "missing"}
  BY DEF Urgency!Situations
<1>2. \A k \in DOMAIN w \ (IF w.missing THEN {"scope"} ELSE {}) : Urgency!Read(t)[k] = Urgency!Read(w)[k]
  BY <1>1 DEF Urgency!Accepts, Urgency!Agree, Urgency!Expected, Urgency!Without, Urgency!Read
<1>3. /\ t.service = w.service /\ t.revenue = w.revenue /\ t.workaround = w.workaround /\ t.safety = w.safety
      /\ t.real = w.real /\ t.missing = w.missing /\ Urgency!Bucket(t.hours) = Urgency!Bucket(w.hours)
      /\ ~w.missing => t.scope = w.scope
  BY <1>1, <1>2 DEF Urgency!Read, Urgency!Situations
<1>4. Urgency!DeadlinePoints(t.hours) = Urgency!DeadlinePoints(w.hours)
  BY <1>3, BucketTells DEF Urgency!Situations
<1>5. ~w.missing => Urgency!Points(t) = Urgency!Points(w)
  BY <1>3, <1>4, Zenon DEF Urgency!Points
<1> QED
  BY <1>3, <1>5, Zenon DEF Urgency!UrgencyLevel

-----------------------------------------------------------------------------
(* document_relevance and extraction_validation *)

(* The options, each by its definition, give the label of every query that  *)
(* asks for something.                                                      *)
LEMMA RelevanceText ==
  ASSUME NEW w, w.required # {}
  PROVE  Relevance!Policy(w) = Relevance!JudgeRelevance(w)
BY DEF Relevance!Policy, Relevance!JudgeRelevance, Relevance!Covered

(* A text with the compared facts of the world has its label, given that the*)
(* query asks for the same attributes.                                      *)
LEMMA RelevanceDecides ==
  ASSUME NEW w, NEW t, w.required # {}, Relevance!Accepts(w, t), Relevance!Unchecked(t) = Relevance!Unchecked(w)
  PROVE  Relevance!JudgeRelevance(t) = Relevance!JudgeRelevance(w)
<1>1. t.entity = w.entity /\ t.period = w.period /\ Relevance!Covered(t) = Relevance!Covered(w) /\ t.required = w.required
      /\ (Relevance!JudgeRelevance(t) = "conflicting") = (Relevance!JudgeRelevance(w) = "conflicting")
  BY DEF Relevance!Accepts, Relevance!Agree, Relevance!Read, Relevance!Unchecked
<1> QED
  BY <1>1 DEF Relevance!JudgeRelevance

(* The options, each by its definition, give the label of every extraction  *)
(* whose fields the document has.                                           *)
LEMMA ExtractionText ==
  ASSUME NEW w, DOMAIN w.proposed \subseteq DOMAIN w.source
  PROVE  Extraction!Policy(w) = Extraction!JudgeExtraction(w)
BY DEF Extraction!Policy, Extraction!JudgeExtraction

(* A text that gives the fields the values of the world and leaves the same *)
(* ones open has its label.                                                 *)
LEMMA ExtractionDecides ==
  ASSUME NEW w, NEW t, DOMAIN t.source = DOMAIN w.source, Extraction!Writable(w, t), Extraction!Accepts(w, t)
  PROVE  Extraction!JudgeExtraction(t) = Extraction!JudgeExtraction(w)
BY DEF Extraction!JudgeExtraction, Extraction!Writable, Extraction!Accepts

-----------------------------------------------------------------------------
(* communication_intent *)

(* A message whose primary act is its sender's own has an intent, the act's. *)
LEMMA IntentOfPrimary ==
  ASSUME NEW w, w.primary \in Intent!LiveActs(w)
  PROVE  Intent!IntentOf(w) = Intent!ACT_TO_INTENT[w.primary]
<1>1. {i \in DOMAIN w.acts : ~w.acts[i][2]} # {}
  BY DEF Intent!LiveActs
<1> QED
  BY <1>1, Zenon DEF Intent!IntentOf

(* What the sender mainly does, quoted text ignored, is the labelled intent. *)
LEMMA IntentText ==
  ASSUME NEW w, w.primary \in Intent!LiveActs(w)
  PROVE  Intent!Policy(w) = Intent!IntentOf(w)
BY IntentOfPrimary DEF Intent!Policy

(* A text with the acts of the world has a label the world accepts, given    *)
(* that the same act is the main one.                                        *)
LEMMA IntentDecides ==
  ASSUME NEW w, NEW t, w.primary \in Intent!LiveActs(w),
         Intent!Writable(w, t), Intent!Accepts(w, t), Intent!Unchecked(t) = Intent!Unchecked(w)
  PROVE  Intent!Acceptable(t) \subseteq Intent!Acceptable(w)
<1>1. t.primary = w.primary /\ t.primary \in Intent!LiveActs(t) /\ t.alternative = "none"
  BY DEF Intent!Writable, Intent!Accepts, Intent!Unchecked
<1>2. Intent!IntentOf(t) = Intent!IntentOf(w)
  BY <1>1, IntentOfPrimary
<1> QED
  BY <1>1, <1>2 DEF Intent!Acceptable

-----------------------------------------------------------------------------
(* What the packs promise *)

(* The policy that a row of a pack prints is the one its oracle applies: a   *)
(* reader who follows it arrives at the label, of the situations a sampler   *)
(* draws and of all the others, as far as the text says one thing of them.   *)
THEOREM PolicyTextsDecide ==
  /\ \A w \in Router!Situations : Router!Policy(w) = Router!Route(w)
  /\ \A w \in ToolGate!Situations : ToolGate!Policy(w) = ToolGate!Gate(w)
  /\ \A w \in Termination!Situations : Termination!Clear(w) => Termination!Policy(w) = Termination!Termination(w)
  /\ \A w \in Retrieval!Situations : Retrieval!Clear(w) => Retrieval!Policy(w) = Retrieval!RetrievalRoute(w)
  /\ \A w \in Untrusted!Situations : Untrusted!Policy(w) = Untrusted!InjectionRoute(w)
  /\ \A w \in Sufficiency!Situations : Sufficiency!Policy(w) = Sufficiency!Sufficiency(w)
  /\ \A w \in Authorization!Situations : Authorization!Clear(w) => Authorization!Policy(w) = Authorization!Authorize(w)
  /\ \A w \in Urgency!Situations : Urgency!Policy(w) = Urgency!UrgencyLevel(w)
  /\ \A w : w.required # {} => Relevance!Policy(w) = Relevance!JudgeRelevance(w)
  /\ \A w : DOMAIN w.proposed \subseteq DOMAIN w.source => Extraction!Policy(w) = Extraction!JudgeExtraction(w)
  /\ \A w : w.primary \in Intent!LiveActs(w) => Intent!Policy(w) = Intent!IntentOf(w)
<1>1. \A w \in Router!Situations : Router!Policy(w) = Router!Route(w)
  BY RouterText
<1>2. \A w \in ToolGate!Situations : ToolGate!Policy(w) = ToolGate!Gate(w)
  BY ToolGateText
<1>3. \A w \in Termination!Situations : Termination!Clear(w) => Termination!Policy(w) = Termination!Termination(w)
  BY TerminationText
<1>4. \A w \in Retrieval!Situations : Retrieval!Clear(w) => Retrieval!Policy(w) = Retrieval!RetrievalRoute(w)
  BY RetrievalText
<1>5. \A w \in Untrusted!Situations : Untrusted!Policy(w) = Untrusted!InjectionRoute(w)
  BY UntrustedText
<1>6. \A w \in Sufficiency!Situations : Sufficiency!Policy(w) = Sufficiency!Sufficiency(w)
  BY SufficiencyText
<1>7. \A w \in Authorization!Situations : Authorization!Clear(w) => Authorization!Policy(w) = Authorization!Authorize(w)
  BY AuthorizationText
<1>8. \A w \in Urgency!Situations : Urgency!Policy(w) = Urgency!UrgencyLevel(w)
  BY UrgencyText
<1>9. \A w : w.required # {} => Relevance!Policy(w) = Relevance!JudgeRelevance(w)
  BY RelevanceText
<1>10. \A w : DOMAIN w.proposed \subseteq DOMAIN w.source => Extraction!Policy(w) = Extraction!JudgeExtraction(w)
  BY ExtractionText
<1>11. \A w : w.primary \in Intent!LiveActs(w) => Intent!Policy(w) = Intent!IntentOf(w)
  BY IntentText
<1> QED
  BY <1>1, <1>2, <1>3, <1>4, <1>5, <1>6, <1>7, <1>8, <1>9, <1>10, <1>11

(* What the verifier of a pack compares settles the label.  A writer may     *)
(* compose any text: if code lets it stand and its facts were found to agree *)
(* with the world's, those that no one compares being as in the world, then  *)
(* the oracle would label that text as it labelled the world.                *)
THEOREM ComparedFactsDecide ==
  /\ \A w, t \in Router!Situations :
       Router!Writable(w, t) /\ Router!Accepts(w, t) /\ Router!Unchecked(t) = Router!Unchecked(w)
         => Router!Route(t) = Router!Route(w)
  /\ \A w, t \in Termination!Situations :
       Termination!Accepts(w, t) => Termination!Termination(t) = Termination!Termination(w)
  /\ \A w, t \in Retrieval!Situations :
       Retrieval!Accepts(w, t) /\ Retrieval!Unchecked(t) = Retrieval!Unchecked(w)
         => Retrieval!RetrievalRoute(t) = Retrieval!RetrievalRoute(w)
  /\ \A w, t \in Untrusted!Situations :
       Untrusted!Accepts(w, t) => Untrusted!InjectionRoute(t) = Untrusted!InjectionRoute(w)
  /\ \A w, t \in Sufficiency!Situations :
       Sufficiency!Writable(w, t) /\ Sufficiency!Accepts(w, t) => Sufficiency!Sufficiency(t) = Sufficiency!Sufficiency(w)
  /\ \A w, t \in Authorization!Situations :
       Authorization!Accepts(w, t) /\ Authorization!Unchecked(t) = Authorization!Unchecked(w)
         => Authorization!Authorize(t) = Authorization!Authorize(w)
  /\ \A w, t \in Urgency!Situations :
       Urgency!Accepts(w, t) => Urgency!UrgencyLevel(t) = Urgency!UrgencyLevel(w)
  /\ \A w, t :
       w.required # {} /\ Relevance!Accepts(w, t) /\ Relevance!Unchecked(t) = Relevance!Unchecked(w)
         => Relevance!JudgeRelevance(t) = Relevance!JudgeRelevance(w)
  /\ \A w, t :
       DOMAIN t.source = DOMAIN w.source /\ Extraction!Writable(w, t) /\ Extraction!Accepts(w, t)
         => Extraction!JudgeExtraction(t) = Extraction!JudgeExtraction(w)
  /\ \A w, t :
       w.primary \in Intent!LiveActs(w) /\ Intent!Writable(w, t) /\ Intent!Accepts(w, t)
         /\ Intent!Unchecked(t) = Intent!Unchecked(w)
         => Intent!Acceptable(t) \subseteq Intent!Acceptable(w)
<1>1. \A w, t \in Router!Situations :
        Router!Writable(w, t) /\ Router!Accepts(w, t) /\ Router!Unchecked(t) = Router!Unchecked(w)
          => Router!Route(t) = Router!Route(w)
  BY RouterDecides
<1>2. \A w, t \in Termination!Situations :
        Termination!Accepts(w, t) => Termination!Termination(t) = Termination!Termination(w)
  BY TerminationDecides
<1>3. \A w, t \in Retrieval!Situations :
        Retrieval!Accepts(w, t) /\ Retrieval!Unchecked(t) = Retrieval!Unchecked(w)
          => Retrieval!RetrievalRoute(t) = Retrieval!RetrievalRoute(w)
  BY RetrievalDecides
<1>4. \A w, t \in Untrusted!Situations :
        Untrusted!Accepts(w, t) => Untrusted!InjectionRoute(t) = Untrusted!InjectionRoute(w)
  BY UntrustedDecides
<1>5. \A w, t \in Sufficiency!Situations :
        Sufficiency!Writable(w, t) /\ Sufficiency!Accepts(w, t) => Sufficiency!Sufficiency(t) = Sufficiency!Sufficiency(w)
  BY SufficiencyDecides
<1>6. \A w, t \in Authorization!Situations :
        Authorization!Accepts(w, t) /\ Authorization!Unchecked(t) = Authorization!Unchecked(w)
          => Authorization!Authorize(t) = Authorization!Authorize(w)
  BY AuthorizationDecides
<1>7. \A w, t \in Urgency!Situations :
        Urgency!Accepts(w, t) => Urgency!UrgencyLevel(t) = Urgency!UrgencyLevel(w)
  BY UrgencyDecides
<1>8. \A w, t :
        w.required # {} /\ Relevance!Accepts(w, t) /\ Relevance!Unchecked(t) = Relevance!Unchecked(w)
          => Relevance!JudgeRelevance(t) = Relevance!JudgeRelevance(w)
  BY RelevanceDecides
<1>9. \A w, t :
        DOMAIN t.source = DOMAIN w.source /\ Extraction!Writable(w, t) /\ Extraction!Accepts(w, t)
          => Extraction!JudgeExtraction(t) = Extraction!JudgeExtraction(w)
  BY ExtractionDecides
<1>10. \A w, t :
        w.primary \in Intent!LiveActs(w) /\ Intent!Writable(w, t) /\ Intent!Accepts(w, t)
          /\ Intent!Unchecked(t) = Intent!Unchecked(w)
          => Intent!Acceptable(t) \subseteq Intent!Acceptable(w)
  BY IntentDecides
<1> QED
  BY <1>1, <1>2, <1>3, <1>4, <1>5, <1>6, <1>7, <1>8, <1>9, <1>10

(* A call labelled allow runs when the tools are given it, whatever the      *)
(* sampler draws, as long as the metadata state the effect of the tool that  *)
(* writes: the one thing the gate believes and the registry does not ask.    *)
THEOREM AllowedCallsExecute ==
  \A w \in ToolGate!Situations :
    ToolGate!EffectStated(w) /\ ToolGate!Gate(w) = "allow" => ToolGate!Executes(w)
BY ToolGateRuns

-----------------------------------------------------------------------------
(* The instruction phrasings of the splits *)

(* A number below n is its own remainder. *)
LEMMA OwnRemainder ==
  ASSUME NEW n \in Nat, NEW k \in Nat, k < n
  PROVE  k % n = k
OBVIOUS

(* _variant keeps the phrasings of training out of the other splits exactly  *)
(* when a family has five of them: with fewer, numbers wrap around.  The     *)
(* table the v2 families use keeps them out by itself.                       *)
THEOREM PhrasingsAreHeldOut ==
  /\ \A n \in Nat \ {0} :
       (\A s \in Splits \ {"train"} : Variant(n)[s] \cap Variant(n)["train"] = {}) <=> n >= 5
  /\ \A s \in Splits \ {"train"} : HeldOut[s] \cap HeldOut["train"] = {}
<1>1. ASSUME NEW n \in Nat \ {0}
      PROVE  /\ Variant(n)["train"] = {0 % n, 1 % n}
             /\ Variant(n)["calibration"] = {2 % n}
             /\ Variant(n)["test_locked"] = {3 % n}
             /\ Variant(n)["challenge"] = {4 % n}
  <2>1. /\ VariantForSplit["train"] = {0, 1} /\ VariantForSplit["calibration"] = {2}
        /\ VariantForSplit["test_locked"] = {3} /\ VariantForSplit["challenge"] = {4}
    BY DEF VariantForSplit
  <2>2. \A s \in Splits : Variant(n)[s] = {k % n : k \in VariantForSplit[s]}
    BY DEF Variant
  <2> QED
    BY <2>1, <2>2 DEF Splits
<1>2. ASSUME NEW n \in Nat \ {0}, n >= 5, NEW s \in Splits \ {"train"}
      PROVE  Variant(n)[s] \cap Variant(n)["train"] = {}
  <2>1. 0 % n = 0 /\ 1 % n = 1 /\ 2 % n = 2 /\ 3 % n = 3 /\ 4 % n = 4
    BY <1>2, OwnRemainder
  <2> QED
    BY <1>1, <2>1 DEF Splits
<1>3. ASSUME NEW n \in Nat \ {0}, n < 5
      PROVE  \E s \in Splits \ {"train"} : Variant(n)[s] \cap Variant(n)["train"] # {}
  <2>1. n = 1 \/ n = 2 \/ n = 3 \/ n = 4
    BY <1>3
  <2>2. 2 % 1 = 0 % 1 /\ 2 % 2 = 0 % 2 /\ 3 % 3 = 0 % 3 /\ 4 % 4 = 0 % 4
    OBVIOUS
  <2> QED
    BY <1>1, <2>1, <2>2 DEF Splits
<1>4. \A s \in Splits \ {"train"} : HeldOut[s] \cap HeldOut["train"] = {}
  BY DEF Splits, HeldOut
<1>5. ASSUME NEW n \in Nat \ {0}
      PROVE  (\A s \in Splits \ {"train"} : Variant(n)[s] \cap Variant(n)["train"] = {}) <=> n >= 5
  BY <1>2, <1>3
<1> QED
  BY <1>4, <1>5

-----------------------------------------------------------------------------
(* What a row is made of *)

(* A row of a pack: the world is one of the pack's and the truth its label,  *)
(* at every stage.                                                           *)
PackRow ==
  row.stage \in {"labelled", "rendered", "accepted", "rejected"} =>
    /\ row.pack \in Chosen \cap DOMAIN Packs
    /\ row.world \in Packs[row.pack].worlds
    /\ row.truth = Packs[row.pack].label[row.world]

(* Its text is one that code lets stand, and was compared.                   *)
RenderedRow ==
  row.stage \in {"rendered", "accepted", "rejected"} =>
    /\ DOMAIN row = {"stage", "pack", "world", "truth", "text"}
    /\ row.text \in Packs[row.pack].writable[row.world]
    /\ row.stage # "rendered" => (row.stage = "accepted" <=> row.text \in Packs[row.pack].accepted[row.world])

(* A row of a family: a phrasing of its split, a world of the family, and    *)
(* the generator's label unless it is one of those that may have the bug.    *)
FamilyRow ==
  row.stage \in {"generated", "written", "aborted"} =>
    /\ DOMAIN row = {"stage", "family", "split", "phrasing", "world", "label", "honest"}
    /\ row.family \in Chosen \cap DOMAIN Families /\ row.split \in Splits
    /\ row.phrasing \in Of(row).phrasings[row.split] /\ row.world \in Of(row).worlds
    /\ row.honest \in BOOLEAN
    /\ row.honest => row.label = Of(row).gold[row.world]
    /\ ~row.honest => row.family \in MayMislabel
    /\ row.stage # "generated" =>
         (row.stage = "written" <=> row.label \in Of(row).verified[row.world] \/ row.family \in Lenient)

Stages == {"none", "labelled", "rendered", "accepted", "rejected", "generated", "written", "aborted"}
RowInv == row.stage \in Stages /\ PackRow /\ RenderedRow /\ FamilyRow

(* No row is of no kind. *)
LEMMA RowInit == Init => RowInv
BY DEF Init, NoRow, RowInv, Stages, PackRow, RenderedRow, FamilyRow

(* Every step makes of a row what it says. *)
LEMMA RowStep ==
  ASSUME RowInv, [Next]_row
  PROVE  RowInv'
<1> USE DEF RowInv, Stages, PackRow, RenderedRow, FamilyRow
<1>1. CASE Sample
  BY <1>1 DEF Sample
<1>2. CASE Render
  BY <1>2 DEF Render
<1>3. CASE Verify
  BY <1>3 DEF Verify
<1>4. CASE Generate
  BY <1>4 DEF Generate, Of
<1>5. CASE Mislabel
  BY <1>5 DEF Mislabel, Of
<1>6. CASE Write
  BY <1>6 DEF Write, Of
<1>7. CASE UNCHANGED row
  BY <1>7 DEF Of
<1> QED
  BY <1>1, <1>2, <1>3, <1>4, <1>5, <1>6, <1>7 DEF Next

(* So rows are what their stage says, always. *)
LEMMA RowAlways == Spec => []RowInv
BY RowInit, RowStep, PTL DEF Spec

-----------------------------------------------------------------------------
(* The tables of the packs and of the families *)

(* An entry of two tables with no name in common. *)
LEMMA MergedEntry ==
  ASSUME NEW f, NEW g, DOMAIN f \cap DOMAIN g = {}
  PROVE  /\ DOMAIN Merged(f, g) = DOMAIN f \cup DOMAIN g
         /\ \A x \in DOMAIN f : Merged(f, g)[x] = f[x]
         /\ \A x \in DOMAIN g : Merged(f, g)[x] = g[x]
BY DEF Merged

(* The names in each of the tables. *)
LEMMA PackNames ==
  /\ DOMAIN FactPacks = {"next_action_router", "tool_action_gate", "termination_gate", "retrieval_gate",
       "prompt_injection_gate", "answer_sufficiency", "authorization_gate", "communication_urgency",
       "temporal_reasoning", "rule_application", "semantic_entailment", "document_type", "document_relevance",
       "communication_intent", "extraction_validation"}
  /\ DOMAIN Classes!Packs = {"mrm", "tcc", "rqf", "cit", "ctx", "rnk", "trs", "tru", "pii", "lek", "dlg", "mem",
       "aln", "err", "ugf", "clr", "ticket_triage", "message_manipulation_gate", "content_moderation_gate"}
<1>1. DOMAIN FactPacks = {"next_action_router", "tool_action_gate", "termination_gate", "retrieval_gate",
       "prompt_injection_gate", "answer_sufficiency", "authorization_gate", "communication_urgency",
       "temporal_reasoning", "rule_application", "semantic_entailment", "document_type", "document_relevance",
       "communication_intent", "extraction_validation"}
  BY DEF FactPacks
<1>2. DOMAIN Classes!Packs = {"mrm", "tcc", "rqf", "cit", "ctx", "rnk", "trs", "tru", "pii", "lek", "dlg", "mem",
       "aln", "err", "ugf", "clr", "ticket_triage", "message_manipulation_gate", "content_moderation_gate"}
  BY DEF Classes!Packs, Classes!Merged, Classes!Answer
<1> QED
  BY <1>1, <1>2

(* The names of the families, file by file. *)
LEMMA FamilyNames ==
  /\ DOMAIN V1!Families = {"temporal_numeric", "long_policy", "probability_exact", "underdetermined", "tradeoff_weighted"}
  /\ DOMAIN V2!Families = {"effective_dating", "policy_precedence", "ambiguous_routing", "sampling_probability",
       "weighted_tradeoff"}
  /\ DOMAIN Long!Families = {"temporal_calendar", "multi_hop_procedure", "long_policy_v2"}
  /\ DOMAIN Hermes!Families = {"hermes_next_action", "hermes_command_risk", "hermes_result_injection"}
  /\ DOMAIN Control!Families = {"injection_gate", "triage_priority", "moderation_class", "escalate_human",
       "tool_routing", "context_ranking", "next_action", "control_answer_sufficiency", "claim_verification",
       "entity_match"}
  /\ DOMAIN Cases!Families = {"entity_resolution", "fraud_risk", "financial_triage", "game_control", "robot_control",
       "lead_scoring", "churn_risk", "alert_priority", "row_validity", "semantic_grep", "semantic_lint",
       "log_collection", "invoice", "insurance_claims", "soc_triage", "soc_escalation", "soc_recovery", "recruiting",
       "model_routing", "refund"}
<1>1. DOMAIN V1!Families = {"temporal_numeric", "long_policy", "probability_exact", "underdetermined", "tradeoff_weighted"}
  BY DEF V1!Families
<1>2. DOMAIN V2!Families = {"effective_dating", "policy_precedence", "ambiguous_routing", "sampling_probability",
        "weighted_tradeoff"}
  BY DEF V2!Families
<1>3. DOMAIN Long!Families = {"temporal_calendar", "multi_hop_procedure", "long_policy_v2"}
  BY DEF Long!Families
<1>4. DOMAIN Hermes!Families = {"hermes_next_action", "hermes_command_risk", "hermes_result_injection"}
  BY DEF Hermes!Families
<1>5. DOMAIN Control!Families = {"injection_gate", "triage_priority", "moderation_class", "escalate_human",
        "tool_routing", "context_ranking", "next_action", "control_answer_sufficiency", "claim_verification",
        "entity_match"}
  BY DEF Control!Families
<1>6. DOMAIN Cases!Families = {"entity_resolution", "fraud_risk", "financial_triage", "game_control", "robot_control",
       "lead_scoring", "churn_risk", "alert_priority", "row_validity", "semantic_grep", "semantic_lint",
       "log_collection", "invoice", "insurance_claims", "soc_triage", "soc_escalation", "soc_recovery", "recruiting",
       "model_routing", "refund"}
  BY DEF Cases!Families
<1> QED
  BY <1>1, <1>2, <1>3, <1>4, <1>5, <1>6

(* No name is used twice, so each is looked up in its own table. *)
LEMMA TablesApart ==
  /\ DOMAIN Packs = DOMAIN FactPacks \cup DOMAIN Classes!Packs
  /\ \A p \in DOMAIN FactPacks : Packs[p] = FactPacks[p]
  /\ \A p \in DOMAIN Classes!Packs : Packs[p] = Classes!Packs[p]
  /\ DOMAIN Families = DOMAIN V1!Families \cup DOMAIN V2!Families \cup DOMAIN Long!Families
       \cup DOMAIN Hermes!Families \cup DOMAIN Control!Families \cup DOMAIN Cases!Families
  /\ \A f \in DOMAIN V1!Families : Families[f] = V1!Families[f]
  /\ \A f \in DOMAIN V2!Families : Families[f] = V2!Families[f]
  /\ \A f \in DOMAIN Long!Families : Families[f] = Long!Families[f]
  /\ \A f \in DOMAIN Hermes!Families : Families[f] = Hermes!Families[f]
  /\ \A f \in DOMAIN Control!Families : Families[f] = Control!Families[f]
  /\ \A f \in DOMAIN Cases!Families : Families[f] = Cases!Families[f]
<1>1. DOMAIN FactPacks \cap DOMAIN Classes!Packs = {}
  BY PackNames
<1>2. /\ DOMAIN Packs = DOMAIN FactPacks \cup DOMAIN Classes!Packs
      /\ \A p \in DOMAIN FactPacks : Packs[p] = FactPacks[p]
      /\ \A p \in DOMAIN Classes!Packs : Packs[p] = Classes!Packs[p]
  BY <1>1, MergedEntry, Zenon DEF Packs
<1>3. DOMAIN V1!Families \cap DOMAIN V2!Families = {}
  BY FamilyNames
<1>4. DOMAIN Long!Families \cap DOMAIN Hermes!Families = {}
  BY FamilyNames
<1>5. DOMAIN Control!Families \cap DOMAIN Cases!Families = {}
  BY FamilyNames
<1> DEFINE First  == Merged(V1!Families, V2!Families)
           Second == Merged(Long!Families, Hermes!Families)
           Third  == Merged(Control!Families, Cases!Families)
<1>6. /\ DOMAIN First = DOMAIN V1!Families \cup DOMAIN V2!Families
      /\ \A f \in DOMAIN V1!Families : First[f] = V1!Families[f]
      /\ \A f \in DOMAIN V2!Families : First[f] = V2!Families[f]
  BY <1>3, MergedEntry, Zenon
<1>7. /\ DOMAIN Second = DOMAIN Long!Families \cup DOMAIN Hermes!Families
      /\ \A f \in DOMAIN Long!Families : Second[f] = Long!Families[f]
      /\ \A f \in DOMAIN Hermes!Families : Second[f] = Hermes!Families[f]
  BY <1>4, MergedEntry, Zenon
<1>8. /\ DOMAIN Third = DOMAIN Control!Families \cup DOMAIN Cases!Families
      /\ \A f \in DOMAIN Control!Families : Third[f] = Control!Families[f]
      /\ \A f \in DOMAIN Cases!Families : Third[f] = Cases!Families[f]
  BY <1>5, MergedEntry, Zenon
<1>9. Programmatic = Merged(First, Second) /\ Families = Merged(Programmatic, Third)
  BY DEF Programmatic, Families
<1> HIDE DEF First, Second, Third
<1>10. DOMAIN First \cap DOMAIN Second = {}
  BY <1>6, <1>7, FamilyNames
<1>11. /\ DOMAIN Programmatic = DOMAIN First \cup DOMAIN Second
       /\ \A f \in DOMAIN First : Programmatic[f] = First[f]
       /\ \A f \in DOMAIN Second : Programmatic[f] = Second[f]
  <2>1. /\ DOMAIN Merged(First, Second) = DOMAIN First \cup DOMAIN Second
        /\ \A f \in DOMAIN First : Merged(First, Second)[f] = First[f]
        /\ \A f \in DOMAIN Second : Merged(First, Second)[f] = Second[f]
    BY <1>10, MergedEntry, Zenon
  <2> QED
    BY <1>9, <2>1
<1>12. DOMAIN Programmatic \cap DOMAIN Third = {}
  BY <1>6, <1>7, <1>8, <1>11, FamilyNames
<1>13. /\ DOMAIN Families = DOMAIN Programmatic \cup DOMAIN Third
       /\ \A f \in DOMAIN Programmatic : Families[f] = Programmatic[f]
       /\ \A f \in DOMAIN Third : Families[f] = Third[f]
  <2>1. /\ DOMAIN Merged(Programmatic, Third) = DOMAIN Programmatic \cup DOMAIN Third
        /\ \A f \in DOMAIN Programmatic : Merged(Programmatic, Third)[f] = Programmatic[f]
        /\ \A f \in DOMAIN Third : Merged(Programmatic, Third)[f] = Third[f]
    BY <1>12, MergedEntry, Zenon
  <2> QED
    BY <1>9, <2>1
<1> QED
  BY <1>2, <1>6, <1>7, <1>8, <1>11, <1>13

-----------------------------------------------------------------------------
(* The phrasings of a row *)

(* The phrasings of every family but those of control/families.py. *)
LEMMA PhrasingsApart ==
  ASSUME NEW f \in DOMAIN Families \ DOMAIN Control!Families, NEW s \in Splits \ {"train"}
  PROVE  Families[f].phrasings[s] \cap Families[f].phrasings["train"] = {}
<1>1. CASE f \in DOMAIN V1!Families
  <2>1. V1!Families[f].phrasings = V1!Variant(5)
    BY <1>1, FamilyNames, SMTT(30) DEF V1!Families, V1!MakeFamily
  <2>2. V1!Variant(5) = Variant(5)
    BY DEF V1!Variant, Variant, V1!VariantForSplit, VariantForSplit, V1!Splits, Splits
  <2> QED
    BY <1>1, <2>1, <2>2, PhrasingsAreHeldOut, TablesApart
<1>2. CASE f \in DOMAIN V2!Families
  <2>1. V2!Families[f].phrasings = V2!HeldOut
    BY <1>2, FamilyNames DEF V2!Families, V2!MakeFamily
  <2> QED
    BY <1>2, <2>1, TablesApart DEF V2!HeldOut, Splits
<1>3. CASE f \in DOMAIN Long!Families
  <2>1. Families[f].phrasings \in {Long!HeldOut, Long!V2!HeldOut}
    <3>1. f # "long_policy_v2" => Long!Families[f].phrasings = Long!HeldOut
      BY <1>3, FamilyNames DEF Long!Families, Long!MakeFamily
    <3>2. Long!Families["long_policy_v2"].phrasings = Long!V2!HeldOut
      BY DEF Long!Families, Long!V2!Families, Long!V2!MakeFamily
    <3> QED
      BY <1>3, <3>1, <3>2, TablesApart
  <2> QED
    BY <2>1 DEF Long!HeldOut, Long!V2!HeldOut, Splits
<1>4. CASE f \in DOMAIN Hermes!Families
  <2>1. Hermes!Families[f].phrasings = Hermes!Phrasings
    BY <1>4, FamilyNames DEF Hermes!Families, Hermes!MakeFamily
  <2> QED
    BY <1>4, <2>1, TablesApart DEF Hermes!Phrasings, Splits
<1>5. CASE f \in DOMAIN Cases!Families
  <2>1. Cases!Families[f].phrasings = Cases!Variant(5)
    BY <1>5, FamilyNames, SMTT(60) DEF Cases!Families, Cases!Case, Cases!Ruled, Cases!MakeFamily
  <2>2. Cases!Variant(5) = Variant(5)
    BY DEF Cases!Variant, Variant, Cases!VariantForSplit, VariantForSplit, Cases!Splits, Splits
  <2> QED
    BY <1>5, <2>1, <2>2, PhrasingsAreHeldOut, TablesApart
<1> QED
  BY <1>1, <1>2, <1>3, <1>4, <1>5, TablesApart

(* No evaluation row asks its question in words that the training rows of    *)
(* its family use, in any run, if only families of control/families.py have  *)
(* too few phrasings: _VARIANT_FOR_SPLIT with five phrasings, SPLIT_CFG and  *)
(* the SPLITS of the agent's rows each give training phrasings of its own.   *)
THEOREM TrainingKeepsItsPhrasings ==
  ASSUME DOMAIN Control!Families \subseteq Wrapping
  PROVE  Spec => []PhrasingsHeldOut
<1>1. ASSUME RowInv PROVE PhrasingsHeldOut
  BY <1>1, PhrasingsApart DEF RowInv, FamilyRow, PhrasingsHeldOut, CodeMade, Of
<1> QED
  BY <1>1, RowAlways, PTL

-----------------------------------------------------------------------------
(* Packs and families that can be relied on *)

(* What the runs rely on a pack for: the policy in the text gives the label, *)
(* the comparison lets no other label through, and a text that states its    *)
(* world as it is passes.                                                    *)
Sound(P) ==
  /\ \A w \in P.worlds : P.reader[w] \in P.label[w]
  /\ \A w \in P.worlds : \A t \in P.accepted[w] : P.unchecked[t] = P.unchecked[w] => P.label[t] \subseteq P.label[w]
  /\ \A w \in P.worlds : w \in P.writable[w] => w \in P.accepted[w]

(* next_action_router, whose failed attempts are told as they are. *)
LEMMA RouterIsSound == Sound(Router!Pack)
<1>1. \A w \in Router!Worlds : w \in Router!Situations
  BY DrawnAssumption, Zenon DEF DrawnAssumption
<1>2. \A w \in Router!Worlds : Router!Policy(w) = Router!Route(w)
  BY <1>1, PolicyTextsDecide, Zenon
<1>3. \A w \in Router!Worlds, t \in Router!Worlds :
        Router!Writable(w, t) /\ Router!Accepts(w, t) /\ Router!Unchecked(t) = Router!Unchecked(w)
          => Router!Route(t) = Router!Route(w)
  BY <1>1, ComparedFactsDecide, Zenon
<1>4. \A w : Router!Accepts(w, w)
  BY DEF Router!Accepts, Router!Agree
<1> QED
  BY <1>2, <1>3, <1>4 DEF Sound, Router!Pack, Router!MakePack

(* termination_gate. *)
LEMMA TerminationIsSound == Sound(Termination!Pack)
<1>1. \A w \in Termination!Worlds : w \in Termination!Situations /\ Termination!Clear(w)
  BY DrawnAssumption, Zenon DEF DrawnAssumption
<1>2. \A w \in Termination!Worlds : Termination!Policy(w) = Termination!Termination(w)
  BY <1>1, PolicyTextsDecide, Zenon
<1>3. \A w \in Termination!Worlds, t \in Termination!Worlds :
        Termination!Writable(w, t) /\ Termination!Accepts(w, t) /\ Termination!Unchecked(t) = Termination!Unchecked(w)
          => Termination!Termination(t) = Termination!Termination(w)
  BY <1>1, ComparedFactsDecide, Zenon
<1>4. \A w : Termination!Accepts(w, w)
  BY DEF Termination!Accepts, Termination!Agree
<1> QED
  BY <1>2, <1>3, <1>4 DEF Sound, Termination!Pack, Termination!MakePack

(* retrieval_gate. *)
LEMMA RetrievalIsSound == Sound(Retrieval!Pack)
<1>1. \A w \in Retrieval!Worlds : w \in Retrieval!Situations /\ Retrieval!Clear(w)
  BY DrawnAssumption, Zenon DEF DrawnAssumption
<1>2. \A w \in Retrieval!Worlds : Retrieval!Policy(w) = Retrieval!RetrievalRoute(w)
  BY <1>1, PolicyTextsDecide, Zenon
<1>3. \A w \in Retrieval!Worlds, t \in Retrieval!Worlds :
        Retrieval!Writable(w, t) /\ Retrieval!Accepts(w, t) /\ Retrieval!Unchecked(t) = Retrieval!Unchecked(w)
          => Retrieval!RetrievalRoute(t) = Retrieval!RetrievalRoute(w)
  BY <1>1, ComparedFactsDecide, Zenon
<1>4. \A w : Retrieval!Accepts(w, w)
  BY DEF Retrieval!Accepts, Retrieval!Agree
<1> QED
  BY <1>2, <1>3, <1>4 DEF Sound, Retrieval!Pack, Retrieval!MakePack

(* prompt_injection_gate. *)
LEMMA UntrustedIsSound == Sound(Untrusted!Pack)
<1>1. \A w \in Untrusted!Worlds : w \in Untrusted!Situations
  BY DrawnAssumption, Zenon DEF DrawnAssumption
<1>2. \A w \in Untrusted!Worlds : Untrusted!Policy(w) = Untrusted!InjectionRoute(w)
  BY <1>1, PolicyTextsDecide, Zenon
<1>3. \A w \in Untrusted!Worlds, t \in Untrusted!Worlds :
        Untrusted!Writable(w, t) /\ Untrusted!Accepts(w, t) /\ Untrusted!Unchecked(t) = Untrusted!Unchecked(w)
          => Untrusted!InjectionRoute(t) = Untrusted!InjectionRoute(w)
  BY <1>1, ComparedFactsDecide, Zenon
<1>4. \A w : Untrusted!Accepts(w, w)
  BY DEF Untrusted!Accepts, Untrusted!Agree, Untrusted!Without
<1> QED
  BY <1>2, <1>3, <1>4 DEF Sound, Untrusted!Pack, Untrusted!MakePack

(* answer_sufficiency. *)
LEMMA SufficiencyIsSound == Sound(Sufficiency!Pack)
<1>1. \A w \in Sufficiency!Worlds \cup Sufficiency!Texts : w \in Sufficiency!Situations
  BY DrawnAssumption, Zenon DEF DrawnAssumption
<1>2. \A w \in Sufficiency!Worlds : Sufficiency!Policy(w) = Sufficiency!Sufficiency(w)
  BY <1>1, PolicyTextsDecide, Zenon
<1>3. \A w \in Sufficiency!Worlds, t \in Sufficiency!Texts :
        Sufficiency!Writable(w, t) /\ Sufficiency!Accepts(w, t) /\ Sufficiency!Unchecked(t) = Sufficiency!Unchecked(w)
          => Sufficiency!Sufficiency(t) = Sufficiency!Sufficiency(w)
  BY <1>1, ComparedFactsDecide, Zenon
<1>4. \A w : Sufficiency!Accepts(w, w)
  BY DEF Sufficiency!Accepts, Sufficiency!Agree, Sufficiency!Expected, Sufficiency!Without
<1>6. Sufficiency!Worlds \subseteq Sufficiency!Texts
  BY DEF Sufficiency!Texts
<1> QED
  BY <1>2, <1>3, <1>4, <1>6 DEF Sound, Sufficiency!Pack, Sufficiency!MakePack

(* authorization_gate. *)
LEMMA AuthorizationIsSound == Sound(Authorization!Pack)
<1>1. \A w \in Authorization!Worlds : w \in Authorization!Situations /\ Authorization!Clear(w)
  BY DrawnAssumption, Zenon DEF DrawnAssumption
<1>2. \A w \in Authorization!Worlds : Authorization!Policy(w) = Authorization!Authorize(w)
  BY <1>1, PolicyTextsDecide, Zenon
<1>3. \A w \in Authorization!Worlds, t \in Authorization!Worlds :
        Authorization!Writable(w, t) /\ Authorization!Accepts(w, t) /\ Authorization!Unchecked(t) = Authorization!Unchecked(w)
          => Authorization!Authorize(t) = Authorization!Authorize(w)
  BY <1>1, ComparedFactsDecide, Zenon
<1>4. \A w : Authorization!Accepts(w, w)
  BY DEF Authorization!Accepts, Authorization!Agree
<1> QED
  BY <1>2, <1>3, <1>4 DEF Sound, Authorization!Pack, Authorization!MakePack

(* communication_urgency. *)
LEMMA UrgencyIsSound == Sound(Urgency!Pack)
<1>1. \A w \in Urgency!Worlds : w \in Urgency!Situations
  BY DrawnAssumption, Zenon DEF DrawnAssumption
<1>2. \A w \in Urgency!Worlds : Urgency!Policy(w) = Urgency!UrgencyLevel(w)
  BY <1>1, PolicyTextsDecide, Zenon
<1>3. \A w \in Urgency!Worlds, t \in Urgency!Worlds :
        Urgency!Writable(w, t) /\ Urgency!Accepts(w, t) /\ Urgency!Unchecked(t) = Urgency!Unchecked(w)
          => Urgency!UrgencyLevel(t) = Urgency!UrgencyLevel(w)
  BY <1>1, ComparedFactsDecide, Zenon
<1>4. \A w : Urgency!Accepts(w, w)
  BY DEF Urgency!Accepts, Urgency!Agree, Urgency!Expected, Urgency!Without
<1> QED
  BY <1>2, <1>3, <1>4 DEF Sound, Urgency!Pack, Urgency!MakePack

(* document_relevance. *)
LEMMA RelevanceIsSound == Sound(Relevance!Pack)
<1>1. \A w \in Relevance!Worlds : w.required # {}
  BY DrawnAssumption, Zenon DEF DrawnAssumption
<1>2. \A w \in Relevance!Worlds : Relevance!Policy(w) = Relevance!JudgeRelevance(w)
  BY <1>1, PolicyTextsDecide, Zenon
<1>3. \A w \in Relevance!Worlds, t \in Relevance!Texts :
        Relevance!Writable(w, t) /\ Relevance!Accepts(w, t) /\ Relevance!Unchecked(t) = Relevance!Unchecked(w)
          => Relevance!JudgeRelevance(t) = Relevance!JudgeRelevance(w)
  BY <1>1, ComparedFactsDecide, Zenon
<1>4. \A w : Relevance!Accepts(w, w)
  BY DEF Relevance!Accepts, Relevance!Agree
<1>6. Relevance!Worlds \subseteq Relevance!Texts
  BY DEF Relevance!Texts
<1> QED
  BY <1>2, <1>3, <1>4, <1>6 DEF Sound, Relevance!Pack, Relevance!MakePack

(* extraction_validation. *)
LEMMA ExtractionIsSound == Sound(Extraction!Pack)
<1>1. \A w \in Extraction!Worlds : DOMAIN w.proposed \subseteq DOMAIN w.source
  BY DrawnAssumption, Zenon DEF DrawnAssumption
<1>5. \A w \in Extraction!Worlds, t \in Extraction!Texts :
        Extraction!Writable(w, t) => DOMAIN t.source = DOMAIN w.source
  BY DrawnAssumption, Zenon DEF DrawnAssumption
<1>2. \A w \in Extraction!Worlds : Extraction!Policy(w) = Extraction!JudgeExtraction(w)
  BY <1>1, PolicyTextsDecide, Zenon
<1>3. \A w \in Extraction!Worlds, t \in Extraction!Texts :
        Extraction!Writable(w, t) /\ Extraction!Accepts(w, t) /\ Extraction!Unchecked(t) = Extraction!Unchecked(w)
          => Extraction!JudgeExtraction(t) = Extraction!JudgeExtraction(w)
  BY <1>1, <1>5, ComparedFactsDecide, Zenon
<1>4. \A w : Extraction!Accepts(w, w)
  BY DEF Extraction!Accepts
<1>6. Extraction!Worlds \subseteq Extraction!Texts
  BY DEF Extraction!Texts
<1> QED
  BY <1>2, <1>3, <1>4, <1>6 DEF Sound, Extraction!Pack, Extraction!MakePack

(* tool_action_gate, whose text is the call itself. *)
LEMMA ToolGateIsSound == Sound(ToolGate!Pack)
<1>1. \A w \in ToolGate!Worlds : w \in ToolGate!Situations
  BY DrawnAssumption, Zenon DEF DrawnAssumption
<1>2. \A w \in ToolGate!Worlds : ToolGate!Policy(w) = ToolGate!Gate(w)
  BY <1>1, PolicyTextsDecide, Zenon
<1>3. \A w, t : ToolGate!Writable(w, t) => t = w
  BY DEF ToolGate!Writable
<1>4. \A w : ToolGate!Accepts(w, w)
  BY DEF ToolGate!Accepts, ToolGate!Agree
<1> QED
  BY <1>2, <1>3, <1>4 DEF Sound, ToolGate!Pack, ToolGate!MakePack

(* communication_intent, with both readings of an ambiguous message. *)
LEMMA IntentIsSound == Sound(Intent!Pack)
<1>1. \A w \in Intent!Worlds : w.primary \in Intent!LiveActs(w)
  BY DrawnAssumption, Zenon DEF DrawnAssumption
<1>2. \A w \in Intent!Worlds : Intent!Policy(w) = Intent!IntentOf(w)
  BY <1>1, PolicyTextsDecide, Zenon
<1>3. \A w \in Intent!Worlds, t \in Intent!Texts :
        Intent!Writable(w, t) /\ Intent!Accepts(w, t) /\ Intent!Unchecked(t) = Intent!Unchecked(w)
          => Intent!Acceptable(t) \subseteq Intent!Acceptable(w)
  BY <1>1, ComparedFactsDecide, Zenon
<1>4. \A w : Intent!Accepts(w, w)
  BY DEF Intent!Accepts
<1>5. \A w : Intent!IntentOf(w) \in Intent!Acceptable(w)
  BY DEF Intent!Acceptable
<1>6. Intent!Worlds \subseteq Intent!Texts
  BY DEF Intent!Texts
<1> QED
  BY <1>2, <1>3, <1>4, <1>5, <1>6 DEF Sound, Intent!Pack, Intent!MakePack

(* Small sets have as many elements as are written down. *)
LEMMA FewElements ==
  /\ Cardinality({}) = 0
  /\ \A a : Cardinality({a}) = 1
  /\ \A a, b : a # b => Cardinality({a, b}) = 2
  /\ \A a, b, c : a # b /\ a # c /\ b # c => Cardinality({a, b, c}) = 3
<1>1. Cardinality({}) = 0 /\ \A a : Cardinality({a}) = 1
  BY FS_EmptySet, FS_Singleton
<1>2. ASSUME NEW a, NEW b, a # b PROVE IsFiniteSet({a, b}) /\ Cardinality({a, b}) = 2
  <2>1. IsFiniteSet({a}) /\ Cardinality({a}) = 1 /\ b \notin {a}
    BY <1>2, FS_Singleton
  <2>2. IsFiniteSet({a} \cup {b}) /\ Cardinality({a} \cup {b}) = Cardinality({a}) + 1
    BY <2>1, FS_AddElement
  <2>3. {a} \cup {b} = {a, b}
    OBVIOUS
  <2> QED
    BY <2>1, <2>2, <2>3
<1>3. ASSUME NEW a, NEW b, NEW c, a # b, a # c, b # c PROVE Cardinality({a, b, c}) = 3
  <2>1. IsFiniteSet({a, b}) /\ Cardinality({a, b}) = 2 /\ c \notin {a, b}
    BY <1>2, <1>3
  <2>2. Cardinality({a, b} \cup {c}) = Cardinality({a, b}) + 1
    BY <2>1, FS_AddElement
  <2>3. {a, b} \cup {c} = {a, b, c}
    OBVIOUS
  <2> QED
    BY <2>1, <2>2, <2>3
<1>4. \A a, b : a # b => Cardinality({a, b}) = 2
  BY <1>2
<1>5. \A a, b, c : a # b /\ a # c /\ b # c => Cardinality({a, b, c}) = 3
  BY <1>3
<1> QED
  BY <1>1, <1>4, <1>5

(* document_type: how many features the signatures have. *)
LEMMA SignatureSizes ==
  ASSUME NEW c \in DocType!Classes
  PROVE  IsFiniteSet(DocType!SIGNATURES[c]) /\ Cardinality(DocType!SIGNATURES[c]) \in {3, 4}
<1>1. ASSUME NEW x, NEW y, NEW z, x # y, x # z, y # z
      PROVE  IsFiniteSet({x, y, z}) /\ Cardinality({x, y, z}) = 3
  <2>1. IsFiniteSet({x}) /\ y \notin {x}
    BY <1>1, FS_Singleton
  <2>2. IsFiniteSet({x} \cup {y}) /\ {x} \cup {y} = {x, y}
    BY <2>1, FS_AddElement
  <2>3. Cardinality({x, y}) = 2 /\ z \notin {x, y}
    BY <1>1, FewElements
  <2>4. IsFiniteSet({x, y} \cup {z})
    BY <2>2, FS_AddElement
  <2>5. {x, y} \cup {z} = {x, y, z}
    OBVIOUS
  <2>6. Cardinality({x, y, z}) = 3
    <3>1. \A p, q, r : p # q /\ p # r /\ q # r => Cardinality({p, q, r}) = 3
      BY FewElements
    <3> QED
      BY <1>1, <3>1, Zenon
  <2> QED
    BY <2>4, <2>5, <2>6
<1>2. ASSUME NEW x, NEW y, NEW z, NEW u, x # y, x # z, y # z, x # u, y # u, z # u
      PROVE  IsFiniteSet({x, y, z, u}) /\ Cardinality({x, y, z, u}) = 4
  <2>1. IsFiniteSet({x, y, z}) /\ Cardinality({x, y, z}) = 3
    BY <1>1, <1>2
  <2>2. IsFiniteSet({x, y, z} \cup {u}) /\ Cardinality({x, y, z} \cup {u}) = 4
    BY <1>2, <2>1, FS_AddElement
  <2>3. {x, y, z} \cup {u} = {x, y, z, u}
    OBVIOUS
  <2> QED
    BY <2>2, <2>3
<1>3. \A x, y, z : x # y /\ x # z /\ y # z => IsFiniteSet({x, y, z}) /\ Cardinality({x, y, z}) = 3
  BY <1>1
<1>4. \A x, y, z, u : x # y /\ x # z /\ y # z /\ x # u /\ y # u /\ z # u => IsFiniteSet({x, y, z, u}) /\ Cardinality({x, y, z, u}) = 4
  BY <1>2
<1>5. \/ \E x, y, z : x # y /\ x # z /\ y # z /\ DocType!SIGNATURES[c] = {x, y, z}
      \/ \E x, y, z, u : x # y /\ x # z /\ y # z /\ x # u /\ y # u /\ z # u /\ DocType!SIGNATURES[c] = {x, y, z, u}
  <2>1. c \in {"invoice", "receipt", "contract", "support_request", "report", "meeting_note"}
    BY DEF DocType!Classes, DocType!SIGNATURES
  <2>2. CASE c = "contract"
    <3>1. DocType!SIGNATURES[c] = {"named_parties", "effective_date", "obligations_clause", "signature_block"}
      BY <2>2 DEF DocType!SIGNATURES
    <3> QED
      BY <3>1
  <2>3. CASE c = "invoice"
    BY <2>3 DEF DocType!SIGNATURES
  <2>4. CASE c = "receipt"
    BY <2>4 DEF DocType!SIGNATURES
  <2>5. CASE c = "support_request"
    BY <2>5 DEF DocType!SIGNATURES
  <2>6. CASE c = "report"
    BY <2>6 DEF DocType!SIGNATURES
  <2>7. CASE c = "meeting_note"
    BY <2>7 DEF DocType!SIGNATURES
  <2> QED
    BY <2>1, <2>2, <2>3, <2>4, <2>5, <2>6, <2>7
<1>6. CASE \E x, y, z : x # y /\ x # z /\ y # z /\ DocType!SIGNATURES[c] = {x, y, z}
  <2>1. PICK x, y, z : x # y /\ x # z /\ y # z /\ DocType!SIGNATURES[c] = {x, y, z}
    BY <1>6
  <2>2. IsFiniteSet({x, y, z}) /\ Cardinality({x, y, z}) = 3
    BY <1>3, <2>1, Zenon
  <2> QED
    BY <2>1, <2>2
<1>7. CASE \E x, y, z, u : x # y /\ x # z /\ y # z /\ x # u /\ y # u /\ z # u /\ DocType!SIGNATURES[c] = {x, y, z, u}
  <2>1. PICK x, y, z, u : x # y /\ x # z /\ y # z /\ x # u /\ y # u /\ z # u /\ DocType!SIGNATURES[c] = {x, y, z, u}
    BY <1>7
  <2>2. x # y /\ x # z /\ y # z /\ x # u /\ y # u /\ z # u
    BY <2>1
  <2>3. IsFiniteSet({x, y, z, u}) /\ Cardinality({x, y, z, u}) = 4
    BY ONLY <1>4, <2>2, ZenonT(30)
  <2> QED
    BY <2>1, <2>3
<1> QED
  BY <1>5, <1>6, <1>7

(* The Cardinality of the module, and what a class is covered by. *)
LEMMA CoverageIs ==
  ASSUME NEW S, NEW c \in DocType!Classes
  PROVE  /\ Cardinality(S \cap DocType!SIGNATURES[c]) \in Nat
         /\ DocType!Coverage(S, c) =
              (12 * Cardinality(S \cap DocType!SIGNATURES[c])) \div Cardinality(DocType!SIGNATURES[c])
<1>1. IsFiniteSet(S \cap DocType!SIGNATURES[c])
  BY SignatureSizes, FS_Intersection
<1>2. \A T : DocType!Cardinality(T) = Cardinality(T)
  BY Zenon DEF DocType!Cardinality, Cardinality
<1> QED
  BY <1>1, <1>2, FS_CardinalityType, Zenon DEF DocType!Coverage

(* A document that contains 60% of the features of one class and none of any *)
(* other is of that class, whatever else it contains: MIN_COVERAGE.          *)
LEMMA OneClassIsClear ==
  ASSUME NEW S, NEW c \in DocType!Classes,
         \A d \in DocType!Classes \ {c} : S \cap DocType!SIGNATURES[d] = {},
         10 * Cardinality(S \cap DocType!SIGNATURES[c]) >= 6 * Cardinality(DocType!SIGNATURES[c])
  PROVE  DocType!Classify(S) = c
<1> DEFINE Cover(d) == DocType!Coverage(S, d)
           winners == {d \in DocType!Classes : \A o \in DocType!Classes : Cover(o) <= Cover(d)}
<1>1. ASSUME NEW d \in DocType!Classes \ {c} PROVE Cover(d) = 0
  <2>1. Cardinality(S \cap DocType!SIGNATURES[d]) = 0
    BY FS_EmptySet
  <2>2. Cardinality(DocType!SIGNATURES[d]) \in {3, 4}
    BY SignatureSizes
  <2>3. Cover(d) = 0 \div Cardinality(DocType!SIGNATURES[d])
    BY <2>1, CoverageIs
  <2> QED
    BY <2>2, <2>3
<1>2. Cover(c) \in Nat /\ 10 * Cover(c) >= 72
  <2> DEFINE k == Cardinality(S \cap DocType!SIGNATURES[c])
             n == Cardinality(DocType!SIGNATURES[c])
  <2>1. k \in Nat /\ n \in {3, 4} /\ Cover(c) = (12 * k) \div n /\ 10 * k >= 6 * n
    BY CoverageIs, SignatureSizes
  <2> HIDE DEF k, n, Cover
  <2>2. CASE n = 3
    BY <2>1, <2>2
  <2>3. CASE n = 4
    BY <2>1, <2>3
  <2> QED
    BY <2>1, <2>2, <2>3
<1>3. DocType!Classify(S) =
        IF Cardinality(winners) # 1 THEN "other"
        ELSE IF DocType!Enough(Cover(CHOOSE d \in winners : TRUE)) THEN CHOOSE d \in winners : TRUE ELSE "other"
  <2>1. DocType!Cardinality(winners) = Cardinality(winners)
    BY Zenon DEF DocType!Cardinality, Cardinality
  <2>2. DocType!Classify(S) =
          IF DocType!Cardinality(winners) # 1 THEN "other"
          ELSE IF DocType!Enough(Cover(CHOOSE d \in winners : TRUE)) THEN CHOOSE d \in winners : TRUE ELSE "other"
    BY DEF DocType!Classify
  <2> HIDE DEF winners, Cover
  <2> QED
    BY <2>1, <2>2, Zenon
<1> HIDE DEF Cover
<1>4. winners = {c}
  BY <1>1, <1>2
<1> HIDE DEF winners
<1>5. Cardinality(winners) = 1 /\ (CHOOSE d \in winners : TRUE) = c
  BY <1>4, FS_Singleton
<1> QED
  BY <1>2, <1>3, <1>5 DEF DocType!Enough

(* One without a feature of any class is of none. *)
LEMMA NoClassIsOther ==
  ASSUME NEW S, \A d \in DocType!Classes : S \cap DocType!SIGNATURES[d] = {}
  PROVE  DocType!Classify(S) = "other"
<1> DEFINE winners == {d \in DocType!Classes : \A o \in DocType!Classes : DocType!Coverage(S, o) <= DocType!Coverage(S, d)}
<1>1. ASSUME NEW d \in DocType!Classes PROVE DocType!Coverage(S, d) = 0
  <2>1. Cardinality(S \cap DocType!SIGNATURES[d]) = 0
    BY FS_EmptySet
  <2>2. Cardinality(DocType!SIGNATURES[d]) \in {3, 4}
    BY SignatureSizes
  <2>3. DocType!Coverage(S, d) = 0 \div Cardinality(DocType!SIGNATURES[d])
    BY <2>1, CoverageIs
  <2> QED
    BY <2>2, <2>3
<1>2. winners = DocType!Classes
  BY <1>1
<1>3. "invoice" \in DocType!Classes /\ "receipt" \in DocType!Classes
  BY DEF DocType!Classes, DocType!SIGNATURES
<1>4. Cardinality(winners) # 1
  <2>1. IsFiniteSet(DocType!Classes)
    <3>1. DocType!Classes = {"invoice", "receipt", "contract"} \cup {"support_request", "report", "meeting_note"}
      BY DEF DocType!Classes, DocType!SIGNATURES
    <3>2. \A x, y, z : IsFiniteSet({x, y, z})
      <4>1. TAKE x, y, z
      <4>2. IsFiniteSet({x}) /\ IsFiniteSet({y}) /\ IsFiniteSet({z})
        BY FS_Singleton
      <4>3. IsFiniteSet({x} \cup {y})
        BY <4>2, FS_Union
      <4>4. IsFiniteSet(({x} \cup {y}) \cup {z})
        BY <4>2, <4>3, FS_Union
      <4>5. ({x} \cup {y}) \cup {z} = {x, y, z}
        OBVIOUS
      <4> QED
        BY <4>4, <4>5
    <3> QED
      BY <3>1, <3>2, FS_Union
  <2>2. ~ \E x : DocType!Classes = {x}
    BY <1>3
  <2> QED
    BY <1>2, <2>1, <2>2, FS_Singleton
<1>5. \A T : DocType!Cardinality(T) = Cardinality(T)
  BY Zenon DEF DocType!Cardinality, Cardinality
<1> QED
  BY <1>4, <1>5, Zenon DEF DocType!Classify

(* The signatures have no feature in common, and none that distracts. *)
LEMMA SignaturesApart ==
  /\ \A c, d \in DocType!Classes : c # d => DocType!SIGNATURES[c] \cap DocType!SIGNATURES[d] = {}
  /\ \A c \in DocType!Classes :
       /\ DocType!First[c] \in DocType!SIGNATURES[c]
       /\ c \in DOMAIN DocType!Last => DocType!Last[c] \in DocType!SIGNATURES[c]
       /\ {"mentions_invoice_reference", "amends_prior_contract", "refund_language", "payment_table", "free_text_paragraph"}
            \cap DocType!SIGNATURES[c] = {}
<1>1. DocType!Classes = {"invoice", "receipt", "contract", "support_request", "report", "meeting_note"}
  BY DEF DocType!Classes, DocType!SIGNATURES
<1>2. /\ DocType!SIGNATURES["invoice"] = {"invoice_number", "amount_due", "payment_terms"}
      /\ DocType!SIGNATURES["receipt"] = {"receipt_number", "amount_paid", "payment_method"}
      /\ DocType!SIGNATURES["contract"] = {"named_parties", "effective_date", "obligations_clause", "signature_block"}
      /\ DocType!SIGNATURES["support_request"] = {"problem_description", "help_request", "sender_contact"}
      /\ DocType!SIGNATURES["report"] = {"findings_section", "period_covered", "summary_section"}
      /\ DocType!SIGNATURES["meeting_note"] = {"attendee_list", "agenda_items", "action_items"}
  BY DEF DocType!SIGNATURES
<1>3. ASSUME NEW c \in DocType!Classes, NEW d \in DocType!Classes, c # d
      PROVE  DocType!SIGNATURES[c] \cap DocType!SIGNATURES[d] = {}
  BY <1>1, <1>2, <1>3, SMTT(30)
<1>4. ASSUME NEW c \in DocType!Classes
      PROVE  /\ DocType!First[c] \in DocType!SIGNATURES[c]
             /\ c \in DOMAIN DocType!Last => DocType!Last[c] \in DocType!SIGNATURES[c]
  BY <1>1, <1>2 DEF DocType!First, DocType!Last
<1>5. ASSUME NEW c \in DocType!Classes
      PROVE  {"mentions_invoice_reference", "amends_prior_contract", "refund_language", "payment_table", "free_text_paragraph"}
               \cap DocType!SIGNATURES[c] = {}
  BY <1>1, <1>2
<1> QED
  BY <1>3, <1>4, <1>5

(* What the sampler draws of a class has at most one of its features less,   *)
(* and none of another class.                                                *)
LEMMA DocumentsDrawn ==
  ASSUME NEW w \in DocType!Worlds
  PROVE  \/ w.class = "other" /\ \A d \in DocType!Classes : w.features \cap DocType!SIGNATURES[d] = {}
         \/ /\ w.class \in DocType!Classes
            /\ \A d \in DocType!Classes \ {w.class} : w.features \cap DocType!SIGNATURES[d] = {}
            /\ \E x \in DocType!SIGNATURES[w.class] : DocType!SIGNATURES[w.class] \ {x} \subseteq w.features
<1> DEFINE Distractors == {"mentions_invoice_reference", "amends_prior_contract", "refund_language", "payment_table"}
           Short(c) == {DocType!SIGNATURES[c] \ {DocType!First[c]}}
                         \cup (IF c \in DOMAIN DocType!Last THEN {DocType!SIGNATURES[c] \ {DocType!Last[c]}} ELSE {})
           Full(c) == {DocType!SIGNATURES[c]} \cup {DocType!SIGNATURES[c] \cup {x} : x \in Distractors}
           Drawn == \/ w.class = "other" /\ w.features = {"free_text_paragraph"}
                    \/ \E c \in DocType!Classes : w.class = c /\ w.features \in Short(c) \cup Full(c)
           Others ==
        [other                     |-> {DocType!Doc("other", {"free_text_paragraph"})},
         mixed_partial             |-> {DocType!Doc(c, DocType!SIGNATURES[c] \ {DocType!First[c]}) : c \in DocType!Classes},
         misleading_filename       |-> {DocType!Whole(c) : c \in DocType!Classes},
         ocr_noise                 |-> {DocType!Noisy(DocType!Whole(c)) : c \in DocType!Classes},
         multilingual_header       |-> {[DocType!Whole(c) EXCEPT !.surface = {"non_english_header"}] : c \in DocType!Classes},
         distractor_language       |-> {DocType!Whole(c) : c \in DocType!Classes},
         invoice_ref_in_email      |-> {DocType!Plus("support_request", "mentions_invoice_reference")},
         contract_amendment        |-> {DocType!Plus("contract", "amends_prior_contract")},
         receipt_with_refund       |-> {DocType!Plus("receipt", "refund_language")},
         report_with_payment_table |-> {DocType!Plus("report", "payment_table")},
         truncated_scan            |-> {DocType!Noisy(DocType!Doc(c, DocType!SIGNATURES[c] \ {DocType!Last[c]})) : c \in DOMAIN DocType!Last}]
<1>1. \/ \E c \in DocType!Classes : w \in {DocType!Whole(c)}
      \/ \E f \in DOMAIN Others : w \in Others[f]
  <2> DEFINE Plain == [c \in DocType!Classes |-> {DocType!Whole(c)}]
  <2>1. \E f \in DOMAIN DocType!Sample : w \in DocType!Sample[f]
    BY DEF DocType!Worlds, DocType!Family
  <2>2. DocType!Sample = DocType!Merged(Plain, Others)
    BY Zenon DEF DocType!Sample
  <2>3. DOMAIN Plain = DocType!Classes /\ \A c \in DocType!Classes : Plain[c] = {DocType!Whole(c)}
    OBVIOUS
  <2> HIDE DEF Plain, Others
  <2>4. \A f \in DOMAIN DocType!Merged(Plain, Others) :
          \/ f \in DOMAIN Plain /\ DocType!Merged(Plain, Others)[f] = Plain[f]
          \/ f \in DOMAIN Others /\ DocType!Merged(Plain, Others)[f] = Others[f]
    BY DEF DocType!Merged
  <2> QED
    BY <2>1, <2>2, <2>3, <2>4
<1>2. {"support_request", "contract", "receipt", "report"} \cup DOMAIN DocType!Last \subseteq DocType!Classes
  BY DEF DocType!Classes, DocType!SIGNATURES, DocType!Last
<1>3. Drawn
  <2>1. ASSUME w = DocType!Doc("other", {"free_text_paragraph"}) PROVE Drawn
    BY <2>1 DEF DocType!Doc
  <2>2. ASSUME NEW c \in DocType!Classes, w = DocType!Doc(c, DocType!SIGNATURES[c] \ {DocType!First[c]}) PROVE Drawn
    BY <2>2 DEF DocType!Doc
  <2>3. ASSUME NEW c \in DocType!Classes,
               \/ w = DocType!Whole(c) \/ w = DocType!Noisy(DocType!Whole(c))
               \/ w = [DocType!Whole(c) EXCEPT !.surface = {"non_english_header"}]
        PROVE  Drawn
    <3>1. w.class = c /\ w.features = DocType!SIGNATURES[c]
      BY <2>3 DEF DocType!Whole, DocType!Noisy, DocType!Doc
    <3> QED
      BY <3>1
  <2>4. ASSUME NEW c \in DocType!Classes, NEW x \in Distractors, w = DocType!Plus(c, x) PROVE Drawn
    <3>1. w.class = c /\ w.features = DocType!SIGNATURES[c] \cup {x}
      BY <2>4 DEF DocType!Plus, DocType!Doc
    <3> QED
      BY <3>1
  <2>5. ASSUME NEW c \in DOMAIN DocType!Last, w = DocType!Noisy(DocType!Doc(c, DocType!SIGNATURES[c] \ {DocType!Last[c]}))
        PROVE  Drawn
    <3>1. w.class = c /\ w.features = DocType!SIGNATURES[c] \ {DocType!Last[c]}
      BY <2>5 DEF DocType!Noisy, DocType!Doc
    <3>2. c \in DocType!Classes
      BY <1>2
    <3> QED
      BY <3>1, <3>2
  <2>6. /\ "support_request" \in DocType!Classes /\ "contract" \in DocType!Classes
        /\ "receipt" \in DocType!Classes /\ "report" \in DocType!Classes
        /\ "mentions_invoice_reference" \in Distractors /\ "amends_prior_contract" \in Distractors
        /\ "refund_language" \in Distractors /\ "payment_table" \in Distractors
    BY <1>2
  <2> HIDE DEF Drawn, Distractors
  <2>7. ASSUME NEW f \in DOMAIN Others, w \in Others[f] PROVE Drawn
    <3>1. CASE f = "other"
      <4>1. w = DocType!Doc("other", {"free_text_paragraph"})
        BY <2>7, <3>1
      <4> QED
        BY <4>1, <2>1, Zenon
    <3>2. CASE f = "mixed_partial"
      <4>1. \E c \in DocType!Classes : w = DocType!Doc(c, DocType!SIGNATURES[c] \ {DocType!First[c]})
        BY <2>7, <3>2
      <4> QED
        BY <4>1, <2>2, Zenon
    <3>3. CASE f = "misleading_filename"
      <4>1. \E c \in DocType!Classes : w = DocType!Whole(c)
        BY <2>7, <3>3
      <4> QED
        BY <4>1, <2>3, Zenon
    <3>4. CASE f = "distractor_language"
      <4>1. \E c \in DocType!Classes : w = DocType!Whole(c)
        BY <2>7, <3>4
      <4> QED
        BY <4>1, <2>3, Zenon
    <3>5. CASE f = "ocr_noise"
      <4>1. \E c \in DocType!Classes : w = DocType!Noisy(DocType!Whole(c))
        BY <2>7, <3>5
      <4> QED
        BY <4>1, <2>3, Zenon
    <3>6. CASE f = "multilingual_header"
      <4>1. \E c \in DocType!Classes : w = [DocType!Whole(c) EXCEPT !.surface = {"non_english_header"}]
        BY <2>7, <3>6
      <4> QED
        BY <4>1, <2>3, Zenon
    <3>7. CASE f = "invoice_ref_in_email"
      <4>1. w = DocType!Plus("support_request", "mentions_invoice_reference")
        BY <2>7, <3>7
      <4> QED
        BY <4>1, <2>4, <2>6, Zenon
    <3>8. CASE f = "contract_amendment"
      <4>1. w = DocType!Plus("contract", "amends_prior_contract")
        BY <2>7, <3>8
      <4> QED
        BY <4>1, <2>4, <2>6, Zenon
    <3>9. CASE f = "receipt_with_refund"
      <4>1. w = DocType!Plus("receipt", "refund_language")
        BY <2>7, <3>9
      <4> QED
        BY <4>1, <2>4, <2>6, Zenon
    <3>10. CASE f = "report_with_payment_table"
      <4>1. w = DocType!Plus("report", "payment_table")
        BY <2>7, <3>10
      <4> QED
        BY <4>1, <2>4, <2>6, Zenon
    <3>11. CASE f = "truncated_scan"
      <4>1. \E c \in DOMAIN DocType!Last : w = DocType!Noisy(DocType!Doc(c, DocType!SIGNATURES[c] \ {DocType!Last[c]}))
        BY <2>7, <3>11
      <4> QED
        BY <4>1, <2>5, Zenon
    <3> QED
      BY <2>7, <3>1, <3>2, <3>3, <3>4, <3>5, <3>6, <3>7, <3>8, <3>9, <3>10, <3>11
  <2>8. ASSUME NEW c \in DocType!Classes, w \in {DocType!Whole(c)} PROVE Drawn
    BY <2>8, <2>3
  <2> HIDE DEF Others
  <2> QED
    BY <1>1, <2>7, <2>8
<1>4. CASE w.class = "other" /\ w.features = {"free_text_paragraph"}
  BY <1>4, SignaturesApart
<1>5. ASSUME NEW c \in DocType!Classes, w.class = c, w.features \in Short(c) \cup Full(c)
      PROVE  /\ \A d \in DocType!Classes \ {c} : w.features \cap DocType!SIGNATURES[d] = {}
             /\ \E x \in DocType!SIGNATURES[c] : DocType!SIGNATURES[c] \ {x} \subseteq w.features
  <2>1. /\ \A d \in DocType!Classes \ {c} : DocType!SIGNATURES[c] \cap DocType!SIGNATURES[d] = {}
        /\ \A d \in DocType!Classes : Distractors \cap DocType!SIGNATURES[d] = {}
        /\ DocType!First[c] \in DocType!SIGNATURES[c]
        /\ c \in DOMAIN DocType!Last => DocType!Last[c] \in DocType!SIGNATURES[c]
    BY SignaturesApart
  <2>2. CASE w.features \in Short(c)
    BY <2>1, <2>2
  <2>3. CASE w.features \in Full(c)
    <3>1. DocType!SIGNATURES[c] \subseteq w.features /\ w.features \subseteq DocType!SIGNATURES[c] \cup Distractors
      BY <2>3
    <3> QED
      BY <2>1, <3>1
  <2> QED
    BY <1>5, <2>2, <2>3
<1> HIDE DEF Short, Full
<1> QED
  BY <1>3, <1>4, <1>5

(* document_type: the class that was meant is the class of the features. *)
LEMMA DocumentTypeIsSound == Sound(DocType!Pack)
<1>1. ASSUME NEW w \in DocType!Worlds
      PROVE  DocType!Classify(w.features) = w.class
  <2>1. CASE w.class = "other" /\ \A d \in DocType!Classes : w.features \cap DocType!SIGNATURES[d] = {}
    BY <2>1, NoClassIsOther
  <2>2. ASSUME w.class \in DocType!Classes,
               \A d \in DocType!Classes \ {w.class} : w.features \cap DocType!SIGNATURES[d] = {},
               NEW x \in DocType!SIGNATURES[w.class], DocType!SIGNATURES[w.class] \ {x} \subseteq w.features
        PROVE  DocType!Classify(w.features) = w.class
    <3> DEFINE s == DocType!SIGNATURES[w.class]
    <3>1. IsFiniteSet(s) /\ Cardinality(s) \in {3, 4}
      BY <2>2, SignatureSizes
    <3>2. Cardinality(s \ {x}) = Cardinality(s) - 1
      BY <3>1, <2>2, FS_RemoveElement
    <3>3. IsFiniteSet(w.features \cap s) /\ s \ {x} \subseteq w.features \cap s
      BY <2>2, <3>1, FS_Intersection
    <3>4. Cardinality(s \ {x}) <= Cardinality(w.features \cap s) /\ Cardinality(w.features \cap s) \in Nat
      BY <3>3, FS_Subset, FS_CardinalityType
    <3>5. 10 * Cardinality(w.features \cap s) >= 6 * Cardinality(s)
      <4> DEFINE k == Cardinality(w.features \cap s)
                 n == Cardinality(s)
      <4>1. k \in Nat /\ n \in {3, 4} /\ n - 1 <= k
        BY <3>1, <3>2, <3>4
      <4> HIDE DEF k, n
      <4>2. 10 * k >= 6 * n
        BY <4>1
      <4> QED
        BY <4>2 DEF k, n
    <3> QED
      BY <2>2, <3>5, OneClassIsClear
  <2> QED
    BY <2>1, <2>2, DocumentsDrawn
<1>2. DocType!Worlds \subseteq DocType!Texts
  BY DEF DocType!Texts
<1>3. \A w, t : DocType!Accepts(w, t) => DocType!Label(t) = DocType!Label(w)
  BY DEF DocType!Accepts, DocType!Label
<1>4. \A w : DocType!Writable(w, w) /\ DocType!Accepts(w, w)
  BY DEF DocType!Accepts, DocType!Writable
<1>5. \A w \in DocType!Worlds : DocType!Policy(w) = DocType!Label(w)
  BY <1>1 DEF DocType!Policy, DocType!Label
<1> QED
  BY <1>2, <1>3, <1>4, <1>5 DEF Sound, DocType!Pack, DocType!MakePack

(* The packs of text_packs.py: the first class the verifier names counts, and *)
(* several classes may have one answer.                                       *)
LEMMA ClassPackIsSound ==
  ASSUME NEW answer
  PROVE  Sound(Classes!ClassPack(answer))
<1> DEFINE C == DOMAIN answer
<1>1. Classes!Plainly(C) \subseteq Classes!Texts(C)
  BY DEF Classes!Plainly, Classes!Texts
<1>2. \A w, t : Classes!NamesAnswer(answer, w, t) => answer[t.class] = answer[w.class]
  BY DEF Classes!NamesAnswer
<1>3. \A w : Classes!NamesAnswer(answer, w, w)
  BY DEF Classes!NamesAnswer
<1> QED
  BY <1>1, <1>2, <1>3 DEF Sound, Classes!ClassPack, Classes!MakePack

(* message_manipulation_gate. *)
LEMMA ManipulationIsSound == Sound(Classes!Manipulation)
<1>1. /\ Classes!Sampled \subseteq Classes!Messages
      /\ \A m \in Classes!Sampled : (~m.genuine) = (m.kind # "none")
  BY DEF Classes!Sampled, Classes!Messages
<1>2. \A w, t \in Classes!Messages : Classes!Agree(w, t) => t.genuine = w.genuine
  BY DEF Classes!Agree, Classes!Messages
<1>3. \A w : Classes!Agree(w, w)
  BY DEF Classes!Agree
<1> QED
  BY <1>1, <1>2, <1>3 DEF Sound, Classes!Manipulation, Classes!MakePack

(* content_moderation_gate: a severity that is one off stays within the same *)
(* sentence of MOD_POLICY.                                                   *)
LEMMA ModerationIsSound == Sound(Classes!Moderated)
<1> DEFINE Drawn == {Classes!Kinds[k] : k \in DOMAIN Classes!Kinds}
<1>1. Drawn \subseteq Classes!Posts
  BY DEF Classes!Kinds, Classes!Kind, Classes!Posts
<1>2. \A w \in Drawn : Classes!ActionOf(w) = Classes!Moderation(w)
  <2>1. ASSUME NEW k \in DOMAIN Classes!Kinds
        PROVE  Classes!ActionOf(Classes!Kinds[k]) = Classes!ActionFor[k]
    <3>1. \A j, l \in DOMAIN Classes!Kinds : Classes!Kinds[j] = Classes!Kinds[l] => j = l
      BY DEF Classes!Kinds, Classes!Kind
    <3>2. (CHOOSE j \in DOMAIN Classes!Kinds : Classes!Kinds[j] = Classes!Kinds[k]) = k
      BY <3>1
    <3> QED
      BY <3>2 DEF Classes!ActionOf
  <2>2. \A k \in DOMAIN Classes!Kinds : Classes!ActionFor[k] = Classes!Moderation(Classes!Kinds[k])
    BY DEF Classes!ActionFor, Classes!Moderation, Classes!Kinds, Classes!Kind
  <2> QED
    BY <2>1, <2>2
<1>3. \A w \in Drawn, t \in Classes!Posts : Classes!Tolerant(w, t) => Classes!Moderation(t) = Classes!Moderation(w)
  BY DEF Classes!Tolerant, Classes!Moderation, Classes!Kinds, Classes!Kind, Classes!Posts
<1>4. \A w : Classes!Tolerant(w, w)
  BY DEF Classes!Tolerant
<1> HIDE DEF Drawn
<1>5. Classes!Moderated.worlds = Drawn
  BY DEF Classes!Moderated, Classes!MakePack, Drawn
<1> QED
  BY <1>1, <1>2, <1>3, <1>4, <1>5 DEF Sound, Classes!Moderated, Classes!MakePack

-----------------------------------------------------------------------------
(* Counting and choosing among few *)

(* Those that are counted below. *)
LEMMA SmallSets ==
  /\ Cardinality({1}) = 1 /\ Cardinality({1, 2}) = 2 /\ Cardinality({1, 2, 3}) = 3
  /\ Cardinality({"skills"}) = 1 /\ Cardinality({"years"}) = 1 /\ Cardinality({"skills", "years"}) = 2
<1>1. 1 # 2 /\ 1 # 3 /\ 2 # 3 /\ "skills" # "years"
  OBVIOUS
<1>2. Cardinality({1}) = 1 /\ Cardinality({"skills"}) = 1 /\ Cardinality({"years"}) = 1
  BY FewElements
<1>3. Cardinality({1, 2}) = 2
  BY <1>1, FewElements
<1>4. Cardinality({1, 2, 3}) = 3
  <2>1. \A a, b, c : a # b /\ a # c /\ b # c => Cardinality({a, b, c}) = 3
    BY FewElements
  <2> QED
    BY <1>1, <2>1, Zenon
<1>5. Cardinality({"skills", "years"}) = 2
  BY <1>1, FewElements
<1> QED
  BY <1>2, <1>3, <1>4, <1>5

(* How many of three ascending floors a number reaches. *)
LEMMA FloorsPassed ==
  ASSUME NEW p \in Nat, NEW f, f[1] \in Nat, f[2] \in Nat, f[3] \in Nat, f[1] < f[2], f[2] < f[3]
  PROVE  Cardinality({i \in 1..3 : p >= f[i]}) =
           IF p < f[1] THEN 0 ELSE IF p < f[2] THEN 1 ELSE IF p < f[3] THEN 2 ELSE 3
<1> DEFINE S == {i \in 1..3 : p >= f[i]}
<1>1. CASE p < f[1]
  <2>1. S = {}
    BY <1>1
  <2> HIDE DEF S
  <2> QED
    BY <1>1, <2>1, FewElements DEF S
<1>2. CASE f[1] <= p /\ p < f[2]
  <2>1. S = {1}
    BY <1>2
  <2> HIDE DEF S
  <2> QED
    BY <1>2, <2>1, SmallSets
<1>3. CASE f[2] <= p /\ p < f[3]
  <2>1. S = {1, 2}
    BY <1>3
  <2> HIDE DEF S
  <2> QED
    BY <1>3, <2>1, SmallSets
<1>4. CASE f[3] <= p
  <2>1. S = {1, 2, 3}
    BY <1>4
  <2> HIDE DEF S
  <2> QED
    BY <1>4, <2>1, SmallSets
<1> QED
  BY <1>1, <1>2, <1>3, <1>4

(* The first of an order of three or four that is in a set is in it, if any  *)
(* of them is.                                                               *)
LEMMA EarliestIsThere ==
  ASSUME NEW order, NEW n \in 3..4, DOMAIN order = 1..n, NEW S, \E i \in 1..n : order[i] \in S
  PROVE  Earliest(order, S) \in S
<1> DEFINE First(i) == order[i] \in S /\ \A j \in 1..(i - 1) : order[j] \notin S
<1>1. \E i \in 1..n : First(i)
  <2>1. CASE order[1] \in S
    <3>1. First(1)
      BY <2>1
    <3> QED
      BY <3>1
  <2>2. CASE order[1] \notin S /\ order[2] \in S
    <3>1. First(2)
      BY <2>2
    <3> QED
      BY <3>1
  <2>3. CASE order[1] \notin S /\ order[2] \notin S /\ order[3] \in S
    <3>1. First(3)
      BY <2>3
    <3> QED
      BY <3>1
  <2>4. CASE order[1] \notin S /\ order[2] \notin S /\ order[3] \notin S
    <3>1. n = 4 /\ order[4] \in S
      BY <2>4
    <3>2. First(4)
      BY <2>4, <3>1
    <3> QED
      BY <3>1, <3>2
  <2> QED
    BY <2>1, <2>2, <2>3, <2>4
<1>2. First(CHOOSE i \in DOMAIN order : First(i))
  <2> HIDE DEF First
  <2> QED
    BY <1>1
<1> QED
  BY <1>2 DEF Earliest

-----------------------------------------------------------------------------
(* Policies "first match wins" *)

(* The first rule whose condition holds decides. *)
LEMMA FirstRuleDecides ==
  ASSUME NEW rules, NEW n \in Nat, DOMAIN rules = 1..n, NEW k \in 1..n,
         rules[k][1], \A j \in 1..n : j < k => ~rules[j][1]
  PROVE  Cases!FirstMatch(rules) = {rules[k][2]}
<1> DEFINE First(i) == rules[i][1] /\ \A j \in 1..(i - 1) : ~rules[j][1]
<1>1. \A i \in 1..n : First(i) => i = k
  OBVIOUS
<1>2. First(k)
  OBVIOUS
<1>3. (CHOOSE i \in DOMAIN rules : First(i)) = k
  <2> HIDE DEF First
  <2> QED
    BY <1>1, <1>2
<1> QED
  BY <1>3 DEF Cases!FirstMatch

(* The outcome of four to seven rules, of which the last always applies. *)
Outcome(rules) ==
  IF rules[1][1] THEN rules[1][2] ELSE IF rules[2][1] THEN rules[2][2] ELSE IF rules[3][1] THEN rules[3][2]
  ELSE IF rules[4][1] THEN rules[4][2] ELSE IF rules[5][1] THEN rules[5][2] ELSE IF rules[6][1] THEN rules[6][2]
  ELSE rules[7][2]

(* A policy of that many rules has that outcome. *)
LEMMA OutcomeOfRules ==
  ASSUME NEW rules, NEW n \in 4..7, DOMAIN rules = 1..n, rules[n][1]
  PROVE  Cases!FirstMatch(rules) = {Outcome(rules)}
<1>1. \A k \in 1..n : rules[k][1] /\ (\A j \in 1..n : j < k => ~rules[j][1]) => Cases!FirstMatch(rules) = {rules[k][2]}
  BY FirstRuleDecides
<1>2. CASE rules[1][1]
  <2>1. 1 \in 1..n /\ rules[1][1]
    BY <1>2
  <2>2. \A j \in 1..n : j < 1 => ~rules[j][1]
    BY <1>2
  <2>3. Cases!FirstMatch(rules) = {rules[1][2]}
    BY <2>1, <2>2, <1>1
  <2> QED
    BY <1>2, <2>3 DEF Outcome
<1>3. CASE ~rules[1][1] /\ rules[2][1]
  <2>1. 2 \in 1..n /\ rules[2][1]
    BY <1>3
  <2>2. \A j \in 1..n : j < 2 => ~rules[j][1]
    BY <1>3
  <2>3. Cases!FirstMatch(rules) = {rules[2][2]}
    BY <2>1, <2>2, <1>1
  <2> QED
    BY <1>3, <2>3 DEF Outcome
<1>4. CASE ~rules[1][1] /\ ~rules[2][1] /\ rules[3][1]
  <2>1. 3 \in 1..n /\ rules[3][1]
    BY <1>4
  <2>2. \A j \in 1..n : j < 3 => ~rules[j][1]
    BY <1>4
  <2>3. Cases!FirstMatch(rules) = {rules[3][2]}
    BY <2>1, <2>2, <1>1
  <2> QED
    BY <1>4, <2>3 DEF Outcome
<1>5. CASE ~rules[1][1] /\ ~rules[2][1] /\ ~rules[3][1] /\ rules[4][1]
  <2>1. 4 \in 1..n /\ rules[4][1]
    BY <1>5
  <2>2. \A j \in 1..n : j < 4 => ~rules[j][1]
    BY <1>5
  <2>3. Cases!FirstMatch(rules) = {rules[4][2]}
    BY <2>1, <2>2, <1>1
  <2> QED
    BY <1>5, <2>3 DEF Outcome
<1>6. CASE ~rules[1][1] /\ ~rules[2][1] /\ ~rules[3][1] /\ ~rules[4][1] /\ rules[5][1]
  <2>1. 5 \in 1..n /\ rules[5][1]
    BY <1>6
  <2>2. \A j \in 1..n : j < 5 => ~rules[j][1]
    BY <1>6
  <2>3. Cases!FirstMatch(rules) = {rules[5][2]}
    BY <2>1, <2>2, <1>1
  <2> QED
    BY <1>6, <2>3 DEF Outcome
<1>7. CASE ~rules[1][1] /\ ~rules[2][1] /\ ~rules[3][1] /\ ~rules[4][1] /\ ~rules[5][1] /\ rules[6][1]
  <2>1. 6 \in 1..n /\ rules[6][1]
    BY <1>7
  <2>2. \A j \in 1..n : j < 6 => ~rules[j][1]
    BY <1>7
  <2>3. Cases!FirstMatch(rules) = {rules[6][2]}
    BY <2>1, <2>2, <1>1
  <2> QED
    BY <1>7, <2>3 DEF Outcome
<1>8. CASE ~rules[1][1] /\ ~rules[2][1] /\ ~rules[3][1] /\ ~rules[4][1] /\ ~rules[5][1] /\ ~rules[6][1]
  <2>1. 7 \in 1..n /\ rules[7][1]
    BY <1>8
  <2>2. \A j \in 1..n : j < 7 => ~rules[j][1]
    BY <1>8
  <2>3. Cases!FirstMatch(rules) = {rules[7][2]}
    BY <2>1, <2>2, <1>1
  <2> QED
    BY <1>8, <2>3 DEF Outcome
<1> QED
  BY <1>2, <1>3, <1>4, <1>5, <1>6, <1>7, <1>8

-----------------------------------------------------------------------------
(* Families whose rows can be relied on *)

(* What the text of a row supports: the generator's label, and every answer  *)
(* the row accepts.                                                          *)
Supported(F) == \A w \in F.worlds : F.gold[w] \in F.right[w] /\ F.acceptable[w] \subseteq F.right[w]

(* The family's own verifier passes the label of the generator. *)
PassesItself(F) == \A w \in F.worlds : F.gold[w] \in F.verified[w]

(* It passes no label that the text does not support. *)
CatchesBugs(F) == \A w \in F.worlds : F.verified[w] \subseteq F.right[w]

(* A family whose rows are labelled as they read and get through; and one    *)
(* whose verifier would notice if they were not.                             *)
Honest(F) == Supported(F) /\ PassesItself(F)
Recomputes(F) == Honest(F) /\ CatchesBugs(F)

(* temporal_numeric: a loss is drawn inside the window of the revision       *)
(* picked, so that is the one in force on the date of loss.                  *)
LEMMA TemporalNumericRecomputes == Recomputes(V1!Families["temporal_numeric"])
<1> DEFINE F == V1!Families["temporal_numeric"]
<1>1. ASSUME NEW e \in V1!Revisions
      PROVE  /\ \E n \in 3..4 : Len(e) = n /\ DOMAIN e = 1..n
             /\ \A i \in DOMAIN e : e[i] \in Nat
             /\ \A i, j \in DOMAIN e : i < j => e[i] + 2 <= e[j]
  BY DEF V1!Revisions
<1>2. ASSUME NEW w \in V1!DatedClaims
      PROVE  w.pick \in DOMAIN w.eff /\ w.pick \in V1!InForceAtLoss(w)
  <2>1. PICK e \in V1!Revisions : \E p \in DOMAIN e : \E l \in V1!Losses(e, p) : w.eff = e /\ w.pick = p /\ w.loss = l
    BY DEF V1!DatedClaims
  <2>2. PICK p \in DOMAIN e : \E l \in V1!Losses(e, p) : w.eff = e /\ w.pick = p /\ w.loss = l
    BY <2>1
  <2>3. PICK l \in V1!Losses(e, p) : w.eff = e /\ w.pick = p /\ w.loss = l
    BY <2>2
  <2>4. l \in Nat /\ e[p] < l /\ (p < Len(e) => l < e[p + 1])
    BY <1>1 DEF V1!Losses
  <2>5. V1!InForceAtLoss(w) = {k \in {i \in DOMAIN e : e[i] <= l} : \A j \in {i \in DOMAIN e : e[i] <= l} : e[j] <= e[k]}
    BY <2>3 DEF V1!InForceAtLoss
  <2>6. ASSUME NEW j \in DOMAIN e, e[j] <= l PROVE e[j] <= e[p]
    BY <1>1, <2>4, <2>6
  <2>7. e[p] <= l
    BY <2>4, <1>1
  <2> QED
    BY <2>3, <2>5, <2>6, <2>7
<1>3. /\ F.worlds = V1!DatedClaims
      /\ \A w \in V1!DatedClaims : /\ F.gold[w] = w.pick /\ F.acceptable[w] = {w.pick}
                               /\ F.right[w] = V1!InForceAtLoss(w) /\ F.verified[w] = {o \in DOMAIN w.eff : o \in V1!InForceAtLoss(w)}
  BY DEF V1!Families, V1!MakeFamily, V1!GovernsChecked, V1!Governing, V1!Sublimits
<1>4. Recomputes(F)
  <2> HIDE DEF F
  <2> QED
    BY <1>2, <1>3 DEF Recomputes, Honest, Supported, PassesItself, CatchesBugs
<1> QED
  BY <1>4

(* long_policy: the generator's disposition is one of those the clauses      *)
(* allow, and reading no weeks for a peril other than water changes nothing. *)
LEMMA LongPolicyRecomputes == Recomputes(V1!Families["long_policy"])
<1> DEFINE F == V1!Families["long_policy"]
<1>1. \A w \in V1!Claims : /\ V1!Disposition(w) \in V1!Dispositions
                           /\ V1!Disposition(w) \in V1!DispositionsRead(w)
  BY DEF V1!Claims, V1!Disposition, V1!Dispositions, V1!DispositionsRead
<1>2. \A w \in V1!Claims : V1!Disposition([w EXCEPT !.weeks = IF w.water THEN @ ELSE 0, !.water = TRUE]) = V1!Disposition(w)
  BY DEF V1!Claims, V1!Disposition
<1>3. \A w \in V1!Claims : \A o : V1!DispositionChecked(w, o) <=> o = V1!Disposition(w)
  BY <1>2 DEF V1!DispositionChecked
<1>4. /\ F.worlds = V1!Claims
      /\ \A w \in V1!Claims : /\ F.gold[w] = V1!Disposition(w) /\ F.acceptable[w] = {V1!Disposition(w)}
                              /\ F.right[w] = V1!DispositionsRead(w)
                              /\ F.verified[w] = {o \in V1!Dispositions : V1!DispositionChecked(w, o)}
  BY DEF V1!Families, V1!MakeFamily, V1!DispositionOptions
<1>5. Recomputes(F)
  <2> HIDE DEF F
  <2> QED
    BY <1>1, <1>3, <1>4 DEF Recomputes, Honest, Supported, PassesItself, CatchesBugs
<1> QED
  BY <1>5

(* underdetermined: the first of the tied queues is one of them. *)
LEMMA UnderdeterminedIsHonest == Honest(V1!Families["underdetermined"])
<1> DEFINE F == V1!Families["underdetermined"]
           order == <<"account_access", "billing", "shipping", "technical">>
<1>1. ASSUME NEW w \in V1!Tickets
      PROVE  V1!FirstTied(w) \in w /\ w \subseteq V1!Queues
  <2>1. w # {} /\ w \subseteq V1!Queues
    <3>1. V1!Cardinality({}) = Cardinality({})
      BY DEF V1!Cardinality, Cardinality
    <3> QED
      BY <3>1, FS_EmptySet DEF V1!Tickets
  <2>2. DOMAIN order = 1..4 /\ order[1] = "account_access" /\ order[2] = "billing" /\ order[3] = "shipping" /\ order[4] = "technical"
    OBVIOUS
  <2>3. \E i \in 1..4 : order[i] \in w
    <3> HIDE DEF order
    <3>1. PICK q \in w : TRUE
      BY <2>1
    <3>2. q \in V1!Queues => q \in {order[1], order[2], order[3], order[4]}
      BY <2>2 DEF V1!Queues
    <3> QED
      BY <2>1, <3>1, <3>2
  <2>4. V1!FirstTied(w) = Earliest(order, w)
    BY DEF V1!FirstTied, V1!Earliest, Earliest
  <2> HIDE DEF order
  <2> QED
    BY <2>1, <2>3, <2>2, <2>4, EarliestIsThere
<1>2. /\ F.worlds = V1!Tickets
      /\ \A w \in V1!Tickets : /\ F.gold[w] = V1!FirstTied(w) /\ F.acceptable[w] = w
                               /\ F.right[w] = w /\ F.verified[w] = V1!Queues
  BY DEF V1!Families, V1!MakeFamily, V1!QueueChecked
<1>3. Honest(F)
  <2> HIDE DEF F
  <2> QED
    BY <1>1, <1>2 DEF Honest, Supported, PassesItself
<1> QED
  BY <1>3

(* tradeoff_weighted: the bids within a point of each other, by totals or by *)
(* the scores under their weights, are the same, and the winner is one of    *)
(* them.                                                                     *)
LEMMA TradeoffWeightedRecomputes == Recomputes(V1!Families["tradeoff_weighted"])
<1> DEFINE F == V1!Families["tradeoff_weighted"]
           N == {"Aldermere", "Brakewater", "Corvid"}
           order == <<"Aldermere", "Brakewater", "Corvid">>
<1>1. ASSUME NEW w \in V1!Bids
      PROVE  /\ DOMAIN w = N /\ DOMAIN V1!Total(w) = N
             /\ \A n \in N : w[n][1] \in Nat /\ w[n][2] \in Nat /\ w[n][3] \in Nat
             /\ \A n \in N : V1!Total(w)[n] = 5 * w[n][1] + 3 * w[n][2] + 2 * w[n][3]
             /\ \A n \in N : V1!Total(w)[n] \in Nat
  <2>1. DOMAIN w = N /\ \A n \in N : w[n][1] \in Nat /\ w[n][2] \in Nat /\ w[n][3] \in Nat
    BY DEF V1!Bids
  <2>2. DOMAIN V1!Total(w) = N /\ \A n \in N : V1!Total(w)[n] = 5 * w[n][1] + 3 * w[n][2] + 2 * w[n][3]
    BY <2>1 DEF V1!Total
  <2> HIDE DEF N
  <2> QED
    BY <2>1, <2>2
<1>2. ASSUME NEW w \in V1!Bids
      PROVE  V1!NearTie(w) = V1!NotWorse(w)
  <2> HIDE DEF N
  <2>1. \A n \in N, m \in N : (V1!Total(w)[m] - V1!Total(w)[n] <= 1) = (5 * w[m][1] + 3 * w[m][2] + 2 * w[m][3] <= 5 * w[n][1] + 3 * w[n][2] + 2 * w[n][3] + 1)
    BY <1>1
  <2> QED
    BY <2>1, <1>1 DEF V1!NearTie, V1!NotWorse
<1>3. ASSUME NEW w \in V1!Bids
      PROVE  V1!Winner(w) \in V1!NearTie(w)
  <2> DEFINE T == V1!Total(w)
  <2>1. DOMAIN T = N /\ \A n \in N : T[n] \in Nat
    BY <1>1
  <2>2. \E i \in 1..3 : order[i] \in V1!ArgMax(T)
    <3> HIDE DEF T
    <3>1. CASE T["Brakewater"] <= T["Aldermere"] /\ T["Corvid"] <= T["Aldermere"]
      <4>1. order[1] \in V1!ArgMax(T)
        BY <2>1, <3>1 DEF V1!ArgMax
      <4> QED
        BY <4>1
    <3>2. CASE T["Aldermere"] <= T["Brakewater"] /\ T["Corvid"] <= T["Brakewater"]
      <4>1. order[2] \in V1!ArgMax(T)
        BY <2>1, <3>2 DEF V1!ArgMax
      <4> QED
        BY <4>1
    <3>3. CASE T["Aldermere"] <= T["Corvid"] /\ T["Brakewater"] <= T["Corvid"]
      <4>1. order[3] \in V1!ArgMax(T)
        BY <2>1, <3>3 DEF V1!ArgMax
      <4> QED
        BY <4>1
    <3> QED
      BY <2>1, <3>1, <3>2, <3>3
  <2>3. V1!Winner(w) \in V1!ArgMax(T)
    <3>1. V1!Earliest(order, V1!ArgMax(T)) = Earliest(order, V1!ArgMax(T))
      BY DEF V1!Earliest, Earliest
    <3>2. DOMAIN order = 1..3
      OBVIOUS
    <3> HIDE DEF order, T
    <3>3. Earliest(order, V1!ArgMax(T)) \in V1!ArgMax(T)
      BY <2>2, <3>2, EarliestIsThere
    <3> QED
      BY <3>1, <3>3 DEF V1!Winner, order, T
  <2> HIDE DEF N
  <2>4. V1!ArgMax(T) \subseteq V1!NearTie(w)
    BY <1>1 DEF V1!ArgMax, V1!NearTie
  <2> QED
    BY <2>3, <2>4
<1>4. /\ F.worlds = V1!Bids
      /\ \A w \in V1!Bids : /\ F.gold[w] = V1!Winner(w) /\ F.acceptable[w] = V1!NearTie(w)
                            /\ F.right[w] = V1!NotWorse(w)
                            /\ F.verified[w] = {o \in DOMAIN w : o \in V1!NearTie(w)}
  BY DEF V1!Families, V1!MakeFamily, V1!BidChecked
<1>5. \A w : V1!NearTie(w) \subseteq DOMAIN w
  BY DEF V1!NearTie
<1>6. Recomputes(F)
  <2> HIDE DEF F
  <2> QED
    BY <1>2, <1>3, <1>4, <1>5 DEF Recomputes, Honest, Supported, PassesItself, CatchesBugs
<1> QED
  BY <1>6

(* effective_dating: the event, the filing and the start of the period stay  *)
(* in their windows, and one revision holds a date.                          *)
LEMMA EffectiveDatingRecomputes == Recomputes(V2!Families["effective_dating"])
<1> DEFINE F == V2!Families["effective_dating"]
<1>1. ASSUME NEW w \in V2!Schedules
      PROVE  /\ w.n \in 3..4 /\ w.rule \in V2!GoverningDates
             /\ \A x \in V2!GoverningDates : w.win[x] \in 1..w.n /\ w.day[x] \in V2!DayIn(w.win[x])
  <2>1. PICK n \in 3..4 : \E j \in 1..n : \E wi \in 1..j : \E wk \in j..n : w \in V2!Dated(n, wi, j, wk)
    BY DEF V2!Schedules
  <2>2. PICK j \in 1..n : \E wi \in 1..j : \E wk \in j..n : w \in V2!Dated(n, wi, j, wk)
    BY <2>1
  <2>3. PICK wi \in 1..j, wk \in j..n : w \in V2!Dated(n, wi, j, wk)
    BY <2>2
  <2>4. PICK th \in V2!DayIn(wi), ev \in V2!DayIn(j), tr \in V2!DayIn(wk), rule \in V2!GoverningDates :
          w = [n |-> n, win |-> [th |-> wi, ev |-> j, tr |-> wk], rule |-> rule,
               day |-> [th |-> IF wi = j /\ ev < th THEN ev ELSE th, ev |-> ev,
                        tr |-> IF wk = j /\ ev > tr THEN ev ELSE tr]]
    BY <2>3 DEF V2!Dated
  <2> QED
    BY <2>4 DEF V2!GoverningDates
<1>2. ASSUME NEW w \in V2!Schedules, NEW k \in 1..w.n
      PROVE  /\ k \in V2!InRange(w) <=> k = w.win[w.rule]
             /\ (3 * k - 2 <= w.day[w.rule] /\ \A j \in (k + 1)..w.n : 3 * j - 2 > w.day[w.rule]) <=> k = w.win[w.rule]
  <2>1. w.n \in 3..4 /\ w.win[w.rule] \in 1..w.n /\ w.day[w.rule] \in {3 * w.win[w.rule] - 1, 3 * w.win[w.rule]}
    BY <1>1 DEF V2!DayIn
  <2> DEFINE g == w.win[w.rule]
             d == w.day[w.rule]
             n == w.n
  <2>2. V2!InRange(w) = {i \in 1..n : 3 * i - 2 <= d /\ (i < n => d <= 3 * (i + 1) - 3)}
    BY DEF V2!InRange
  <2>3. n \in 3..4 /\ g \in 1..n /\ d \in {3 * g - 1, 3 * g} /\ k \in 1..n
    BY <2>1
  <2> HIDE DEF g, d, n
  <2>4. (3 * k - 2 <= d /\ (k < n => d <= 3 * (k + 1) - 3)) <=> k = g
    BY <2>3
  <2>5. (3 * k - 2 <= d /\ \A j \in (k + 1)..n : 3 * j - 2 > d) <=> k = g
    BY <2>3
  <2>6. k \in V2!InRange(w) <=> k = g
    BY <2>2, <2>3, <2>4
  <2> QED
    BY <2>5, <2>6 DEF g, d, n
<1>3. ASSUME NEW w \in V2!Schedules, NEW o
      PROVE  /\ V2!InEffect(w) \in 1..w.n /\ V2!InEffect(w) \in V2!InRange(w)
             /\ V2!InEffectChecked(w, o) <=> o = V2!InEffect(w)
  <2>1. w.win[w.rule] \in 1..w.n
    BY <1>1
  <2> DEFINE In(k) == 3 * k - 2 <= w.day[w.rule] /\ \A j \in (k + 1)..w.n : 3 * j - 2 > w.day[w.rule]
  <2>2. \A k \in 1..w.n : In(k) <=> k = w.win[w.rule]
    BY <1>2
  <2>3. (CHOOSE k \in 1..w.n : In(k)) = w.win[w.rule]
    <3> HIDE DEF In
    <3> QED
      BY <2>1, <2>2
  <2> QED
    BY <2>1, <2>3, <1>2 DEF V2!InEffect, V2!InEffectChecked
<1>4. /\ F.worlds = V2!Schedules
      /\ \A w \in V2!Schedules : /\ F.gold[w] = V2!InEffect(w) /\ F.acceptable[w] = {V2!InEffect(w)}
                                 /\ F.right[w] = V2!InRange(w) /\ F.verified[w] = {o \in 1..w.n : V2!InEffectChecked(w, o)}
  BY DEF V2!Families, V2!MakeFamily
<1>5. Recomputes(F)
  <2> HIDE DEF F
  <2> QED
    BY <1>3, <1>4 DEF Recomputes, Honest, Supported, PassesItself, CatchesBugs
<1> QED
  BY <1>5

(* policy_precedence: sorting the clauses finds the one over which no        *)
(* applicable clause prevails, and there is only one.                        *)
LEMMA PolicyPrecedenceRecomputes == Recomputes(V2!Families["policy_precedence"])
<1> DEFINE F == V2!Families["policy_precedence"]
<1>1. ASSUME NEW w \in V2!Policies
      PROVE  /\ w.rank[1] # w.rank[2] /\ w.rank[1] # w.rank[3] /\ w.rank[2] # w.rank[3]
             /\ DOMAIN w.fact = {w.rank[1], w.rank[2], w.rank[3]}
  <2>1. PICK C \in V2!kSubset(3, DOMAIN V2!Op) :
          w \in {[mode |-> m, rank |-> r, fact |-> f] :
            m \in {"numbered", "category", "chain"},
            r \in {g \in [1..3 -> C] : \A i, j \in 1..3 : g[i] = g[j] => i = j},
            f \in {g \in [C -> -1..1] : \A c \in C : g[c] \in V2!Distances[c]}}
    BY DEF V2!Policies
  <2>2. w.rank \in [1..3 -> C] /\ DOMAIN w.fact = C /\ \A i, j \in 1..3 : w.rank[i] = w.rank[j] => i = j
    BY <2>1
  <2>3. Cardinality(C) = 3 /\ C \subseteq DOMAIN V2!Op
    <3>1. V2!Cardinality(C) = Cardinality(C)
      BY Zenon DEF V2!Cardinality, Cardinality
    <3> QED
      BY <3>1 DEF V2!kSubset
  <2>4. IsFiniteSet(C)
    <3>1. DOMAIN V2!Op = {"sub", "late", "setback", "objections"}
      BY DEF V2!Op
    <3>2. IsFiniteSet({"sub", "late", "setback", "objections"})
      <4>1. IsFiniteSet({"sub"} \cup {"late"})
        BY FS_Singleton, FS_AddElement
      <4>2. IsFiniteSet({"sub"} \cup {"late"} \cup {"setback"})
        BY <4>1, FS_AddElement
      <4>3. IsFiniteSet({"sub"} \cup {"late"} \cup {"setback"} \cup {"objections"})
        BY <4>2, FS_AddElement
      <4>4. {"sub"} \cup {"late"} \cup {"setback"} \cup {"objections"} = {"sub", "late", "setback", "objections"}
        OBVIOUS
      <4> QED
        BY <4>3, <4>4
    <3> QED
      BY <2>3, <3>1, <3>2, FS_Subset
  <2>5. w.rank[1] # w.rank[2] /\ w.rank[1] # w.rank[3] /\ w.rank[2] # w.rank[3]
    BY <2>2
  <2> DEFINE R == {w.rank[1], w.rank[2], w.rank[3]}
  <2>6. R \subseteq C
    BY <2>2
  <2>7. Cardinality(R) = 3
    <3>1. ASSUME NEW a, NEW b, NEW c, a # b, a # c, b # c PROVE Cardinality({a, b, c}) = 3
      <4>1. IsFiniteSet({a}) /\ Cardinality({a}) = 1
        BY FS_Singleton
      <4>2. IsFiniteSet({a} \cup {b}) /\ Cardinality({a} \cup {b}) = Cardinality({a}) + 1
        <5>1. b \notin {a}
          BY <3>1
        <5> QED
          BY <5>1, <4>1, FS_AddElement
      <4>3. Cardinality({a} \cup {b} \cup {c}) = Cardinality({a} \cup {b}) + 1
        <5>1. c \notin {a} \cup {b}
          BY <3>1
        <5> QED
          BY <5>1, <4>2, FS_AddElement
      <4>4. {a} \cup {b} \cup {c} = {a, b, c}
        OBVIOUS
      <4> QED
        BY <4>1, <4>2, <4>3, <4>4
    <3> QED
      BY <3>1, <2>5
  <2>8. R = C
    <3> HIDE DEF R
    <3> QED
      BY <2>3, <2>4, <2>6, <2>7, FS_Subset
  <2> QED
    BY <2>2, <2>5, <2>8
<1>2. ASSUME NEW w \in V2!Policies
      PROVE  /\ V2!Number(w, w.rank[1]) = 1 /\ V2!Number(w, w.rank[2]) = 2 /\ V2!Number(w, w.rank[3]) = 3
  <2>1. \A i \in 1..3 : \A j \in 1..3 : w.rank[i] = w.rank[j] => i = j
    BY <1>1
  <2>2. ASSUME NEW i \in 1..3 PROVE V2!Number(w, w.rank[i]) = i
    <3>1. (CHOOSE j \in 1..3 : w.rank[j] = w.rank[i]) = i
      BY <2>1
    <3> QED
      BY <3>1 DEF V2!Number
  <2> QED
    BY <2>2
<1>3. ASSUME NEW w \in V2!Policies, NEW a \in DOMAIN w.fact, NEW b \in DOMAIN w.fact
      PROVE  V2!Number(w, a) \in 1..3 /\ w.rank[V2!Number(w, a)] = a
             /\ (V2!Before(w, a, b) <=> V2!Number(w, a) < V2!Number(w, b))
  <2>1. \A c \in DOMAIN w.fact : V2!Number(w, c) \in 1..3 /\ w.rank[V2!Number(w, c)] = c
    BY <1>1, <1>2
  <2>2. \A i \in 1..3, c \in DOMAIN w.fact : w.rank[i] = c <=> i = V2!Number(w, c)
    BY <1>1, <1>2
  <2> QED
    BY <2>1, <2>2 DEF V2!Before
<1>4. ASSUME NEW w \in V2!Policies, NEW a \in DOMAIN w.fact, NEW b \in DOMAIN w.fact
      PROVE  V2!Precedence(w, a) \in 1..6 /\ (V2!Prevails(w, a, b) <=> V2!Precedence(w, a) < V2!Precedence(w, b))
             /\ (V2!Precedence(w, a) = V2!Precedence(w, b) => a = b)
  <2>1. /\ V2!Number(w, a) \in 1..3 /\ V2!Number(w, b) \in 1..3
        /\ V2!Number(w, a) = V2!Number(w, b) => a = b
        /\ V2!Before(w, a, b) <=> V2!Number(w, a) < V2!Number(w, b)
    BY <1>3
  <2> QED
    BY <2>1 DEF V2!Precedence, V2!Prevails
<1>5. ASSUME NEW w \in V2!Policies
      PROVE  V2!Prevailing(w) = {V2!Decides(w)} /\ V2!Decides(w) \in V2!Outcomes(w)
  <2>1. V2!Applies(w) \subseteq DOMAIN w.fact
    BY DEF V2!Applies
  <2>2. CASE V2!Applies(w) = {}
    BY <2>2 DEF V2!Prevailing, V2!Decides, V2!Outcomes
  <2>3. CASE V2!Applies(w) # {}
    <3> DEFINE S == V2!Applies(w)
               K(c) == V2!Precedence(w, c)
               Foremost(c) == \A o \in S : K(c) <= K(o)
    <3>1. \A c \in S : K(c) \in 1..6
      BY <1>4, <2>1
    <3>2. \A a, b \in S : (V2!Prevails(w, a, b) <=> K(a) < K(b)) /\ (K(a) = K(b) => a = b)
      BY <1>4, <2>1
    <3>3. V2!Decides(w) = CHOOSE c \in S : Foremost(c)
      BY <2>3 DEF V2!Decides
    <3>4. V2!Prevailing(w) = {c \in S : \A o \in S : ~V2!Prevails(w, o, c)}
      BY <2>3 DEF V2!Prevailing
    <3>5. \E c \in S : Foremost(c)
      <4>1. DOMAIN w.fact = {w.rank[1], w.rank[2], w.rank[3]}
        BY <1>1
      <4> HIDE DEF K
      <4> QED
        BY <4>1, <2>1, <2>3, <3>1
    <3>6. \A c \in S : (\A o \in S : ~V2!Prevails(w, o, c)) <=> Foremost(c)
      <4> HIDE DEF S, K
      <4> QED
        BY <3>1, <3>2
    <3>7. \A a, b \in S : Foremost(a) /\ Foremost(b) => a = b
      <4> HIDE DEF S, K
      <4> QED
        BY <3>1, <3>2
    <3> HIDE DEF Foremost
    <3>8. V2!Decides(w) \in S /\ \A c \in S : Foremost(c) <=> c = V2!Decides(w)
      <4> HIDE DEF S
      <4> QED
        BY <3>3, <3>5, <3>7
    <3> QED
      BY <3>4, <3>6, <3>8, <2>1 DEF V2!Outcomes
  <2> QED
    BY <2>2, <2>3
<1>6. /\ F.worlds = V2!Policies
      /\ \A w \in V2!Policies : /\ F.gold[w] = V2!Decides(w) /\ F.acceptable[w] = {V2!Decides(w)}
                              /\ F.right[w] = V2!Prevailing(w)
                              /\ F.verified[w] = {o \in V2!Outcomes(w) : o = V2!Decides(w)}
  BY DEF V2!Families, V2!MakeFamily, V2!DecisionChecked
<1>7. Recomputes(F)
  <2> HIDE DEF F
  <2> QED
    BY <1>5, <1>6 DEF Recomputes, Honest, Supported, PassesItself, CatchesBugs
<1> QED
  BY <1>7

(* long_policy of the long form takes the same worlds and the same rules. *)
LEMMA LongFormIsThePolicy == Long!V2!Families["policy_precedence"] = V2!Families["policy_precedence"]
<1>1. \A w : Long!V2!Applies(w) = V2!Applies(w)
  BY Zenon DEF Long!V2!Applies, V2!Applies, Long!V2!Holds, V2!Holds, Long!V2!Op, V2!Op
<1> DEFINE Of3(C, D) == {[mode |-> m, rank |-> r, fact |-> f] :
                           m \in {"numbered", "category", "chain"},
                           r \in {g \in [1..3 -> C] : \A i, j \in 1..3 : g[i] = g[j] => i = j},
                           f \in {g \in [C -> -1..1] : \A c \in C : g[c] \in D[c]}}
<1>2. Long!V2!Policies = V2!Policies
  <2>1. Long!V2!Op = V2!Op /\ Long!V2!Distances = V2!Distances
    BY Zenon DEF Long!V2!Op, V2!Op, Long!V2!Distances, V2!Distances
  <2>2. Long!V2!kSubset(3, DOMAIN V2!Op) = V2!kSubset(3, DOMAIN V2!Op)
    BY Zenon DEF Long!V2!kSubset, V2!kSubset, Long!V2!Cardinality, V2!Cardinality
  <2>3. Long!V2!Policies = UNION {Of3(C, Long!V2!Distances) : C \in Long!V2!kSubset(3, DOMAIN Long!V2!Op)}
    BY DEF Long!V2!Policies
  <2>4. V2!Policies = UNION {Of3(C, V2!Distances) : C \in V2!kSubset(3, DOMAIN V2!Op)}
    BY DEF V2!Policies
  <2> HIDE DEF Of3
  <2> QED
    BY <2>1, <2>2, <2>3, <2>4
<1>3. \A w : Long!V2!Decides(w) = V2!Decides(w)
  <2>1. \A w, c : Long!V2!Precedence(w, c) = V2!Precedence(w, c)
    BY Zenon DEF Long!V2!Precedence, V2!Precedence, Long!V2!Number, V2!Number, Long!V2!Limits, V2!Limits
  <2>2. ASSUME NEW w PROVE Long!V2!Decides(w) = V2!Decides(w)
    <3> DEFINE First(S) == CHOOSE c \in S : \A o \in S : V2!Precedence(w, c) <= V2!Precedence(w, o)
    <3>1. V2!Decides(w) = IF V2!Applies(w) = {} THEN "default" ELSE First(V2!Applies(w))
      BY Zenon DEF V2!Decides
    <3>2. (CHOOSE c \in Long!V2!Applies(w) : \A o \in Long!V2!Applies(w) : Long!V2!Precedence(w, c) <= Long!V2!Precedence(w, o))
            = First(Long!V2!Applies(w))
      BY <2>1
    <3>3. Long!V2!Decides(w) = IF Long!V2!Applies(w) = {} THEN "default" ELSE First(Long!V2!Applies(w))
      <4> HIDE DEF First
      <4> QED
        BY <3>2, Zenon DEF Long!V2!Decides
    <3> HIDE DEF First
    <3> QED
      BY <1>1, <3>1, <3>3
  <2> QED
    BY <2>2
<1>4. \A w : Long!V2!Prevailing(w) = V2!Prevailing(w)
  BY <1>1, Zenon DEF Long!V2!Prevailing, V2!Prevailing, Long!V2!Prevails, V2!Prevails, Long!V2!Before, V2!Before, Long!V2!Limits, V2!Limits
<1>5. \A w : Long!V2!Outcomes(w) = V2!Outcomes(w)
  BY Zenon DEF Long!V2!Outcomes, V2!Outcomes
<1> QED
  BY <1>2, <1>3, <1>4, <1>5 DEF Long!V2!Families, V2!Families, Long!V2!MakeFamily, V2!MakeFamily, Long!V2!DecisionChecked, V2!DecisionChecked, Long!V2!HeldOut, V2!HeldOut

(* ambiguous_routing: the issue that comes first, that is urgent or that is  *)
(* mentioned has the most weight under its rule.                             *)
LEMMA AmbiguousRoutingRecomputes == Recomputes(V2!Families["ambiguous_routing"])
<1> DEFINE F == V2!Families["ambiguous_routing"]
           order == <<"a", "b", "c", "d">>
           Value(w, i) == IF w.rule = "first" THEN IF i = 1 THEN 1 ELSE 0
                          ELSE IF w.rule = "urgency" /\ w.urgent[i] THEN 3 ELSE 1
<1>1. ASSUME NEW w \in V2!Messages
      PROVE  \E k \in 1..3 : /\ w.issues \in [1..k -> V2!Teams] /\ Len(w.issues) = k
                             /\ \A i, j \in 1..k : w.issues[i] = w.issues[j] => i = j
                             /\ w.urgent \in [1..k -> BOOLEAN]
                             /\ w.rule \in {"single", "equal", "urgency", "first"}
                             /\ w.rule = "single" <=> k = 1
  <2>1. PICK k \in 1..3 : \E rule \in (IF k = 1 THEN {"single"} ELSE {"equal", "urgency", "first"}) :
          w \in {[issues |-> q, urgent |-> u, rule |-> rule] :
                   q \in {f \in [1..k -> V2!Teams] : \A i, j \in 1..k : f[i] = f[j] => i = j},
                   u \in V2!Flags(k, rule)}
    BY DEF V2!Messages
  <2>2. PICK rule \in (IF k = 1 THEN {"single"} ELSE {"equal", "urgency", "first"}) :
          w \in {[issues |-> q, urgent |-> u, rule |-> rule] :
                   q \in {f \in [1..k -> V2!Teams] : \A i, j \in 1..k : f[i] = f[j] => i = j},
                   u \in V2!Flags(k, rule)}
    BY <2>1
  <2>3. PICK q \in [1..k -> V2!Teams], u \in V2!Flags(k, rule) :
          /\ w = [issues |-> q, urgent |-> u, rule |-> rule]
          /\ \A i, j \in 1..k : q[i] = q[j] => i = j
    BY <2>2
  <2>4. u \in [1..k -> BOOLEAN]
    BY DEF V2!Flags
  <2>5. w.issues = q /\ w.urgent = u /\ w.rule = rule
    BY <2>3
  <2>6. Len(q) = k
    BY <2>3
  <2>7. rule \in {"single", "equal", "urgency", "first"} /\ (rule = "single" <=> k = 1)
    BY <2>2
  <2> QED
    BY <2>3, <2>4, <2>5, <2>6, <2>7
<1>2. ASSUME NEW w \in V2!Messages, NEW k \in 1..3, w.issues \in [1..k -> V2!Teams], Len(w.issues) = k,
             \A i, j \in 1..k : w.issues[i] = w.issues[j] => i = j
      PROVE  /\ \A i \in 1..k : V2!Weights(w)[w.issues[i]] = Value(w, i)
             /\ \A t \in V2!Teams : (\A i \in 1..k : w.issues[i] # t) => V2!Weights(w)[t] = 0
             /\ \A t \in V2!Teams : V2!Weights(w)[t] \in Nat
  <2>1. \A t \in V2!Teams, i \in 1..3 :
          V2!Weight(w, t, i) = (IF i \in 1..k /\ w.issues[i] = t THEN Value(w, i) ELSE 0)
    <3> HIDE DEF Value
    <3>1. \A t, i : V2!Weight(w, t, i) = IF i > k \/ w.issues[i] # t THEN 0 ELSE Value(w, i)
      BY <1>2 DEF V2!Weight, Value
    <3> QED
      BY <3>1
  <2>2. \A i : Value(w, i) \in Nat
    OBVIOUS
  <2>3. \A t \in V2!Teams : V2!Weights(w)[t] = V2!Weight(w, t, 1) + V2!Weight(w, t, 2) + V2!Weight(w, t, 3)
    BY DEF V2!Weights
  <2> HIDE DEF Value
  <2>4. \A i \in 1..k : w.issues[i] \in V2!Teams
    BY <1>2
  <2>5. ASSUME NEW i \in 1..k PROVE V2!Weights(w)[w.issues[i]] = Value(w, i)
    <3>1. \A j \in 1..3 : V2!Weight(w, w.issues[i], j) = IF j = i THEN Value(w, i) ELSE 0
      BY <1>2, <2>1, <2>4
    <3> QED
      BY <3>1, <2>2, <2>3, <2>4
  <2>6. ASSUME NEW t \in V2!Teams, \A i \in 1..k : w.issues[i] # t PROVE V2!Weights(w)[t] = 0
    BY <2>1, <2>3, <2>6
  <2>7. ASSUME NEW t \in V2!Teams PROVE V2!Weights(w)[t] \in Nat
    BY <2>5, <2>6, <2>2
  <2> QED
    BY <2>5, <2>6, <2>7
<1>3. \A w : DOMAIN V2!Weights(w) = V2!Teams
  BY DEF V2!Weights
<1>4. ASSUME NEW w \in V2!Messages, NEW t \in V2!Acceptable(w) PROVE t \in V2!RoutesRead(w)
  <2>1. PICK k \in 1..3 : /\ w.issues \in [1..k -> V2!Teams] /\ Len(w.issues) = k
                          /\ \A i, j \in 1..k : w.issues[i] = w.issues[j] => i = j
                          /\ w.urgent \in [1..k -> BOOLEAN]
                          /\ w.rule \in {"single", "equal", "urgency", "first"}
                          /\ w.rule = "single" <=> k = 1
    BY <1>1
  <2> HIDE DEF Value
  <2>2. /\ \A i \in 1..k : V2!Weights(w)[w.issues[i]] = Value(w, i)
        /\ \A s \in V2!Teams : (\A i \in 1..k : w.issues[i] # s) => V2!Weights(w)[s] = 0
    BY <1>2, <2>1
  <2>3. t \in V2!Teams /\ \A i \in 1..k : Value(w, i) <= V2!Weights(w)[t]
    BY <1>3, <2>1, <2>2 DEF V2!Acceptable, V2!ArgMax
  <2>4. Value(w, 1) \in {1, 3} /\ \A i \in 1..k : Value(w, i) \in {0, 1, 3}
    BY DEF Value
  <2>5. PICK i \in 1..k : t = w.issues[i]
    BY <2>2, <2>3, <2>4
  <2>6. \A j \in 1..k : Value(w, j) <= Value(w, i)
    BY <2>2, <2>3, <2>5
  <2>7. CASE w.rule \in {"single", "first"}
    <3>1. i = 1
      BY <2>1, <2>4, <2>6, <2>7 DEF Value
    <3> QED
      BY <3>1, <2>5, <2>7 DEF V2!RoutesRead
  <2>8. CASE w.rule = "urgency" /\ \E j \in 1..k : w.urgent[j]
    <3>1. w.urgent[i]
      <4>1. PICK j \in 1..k : w.urgent[j]
        BY <2>8
      <4>2. Value(w, j) = 3
        BY <4>1, <2>8 DEF Value
      <4>3. Value(w, i) = 3
        BY <4>2, <2>4, <2>6
      <4> QED
        BY <4>3, <2>8 DEF Value
    <3>2. V2!RoutesRead(w) = {w.issues[j] : j \in {x \in DOMAIN w.issues : w.urgent[x]}}
      BY <2>1, <2>8 DEF V2!RoutesRead
    <3> QED
      BY <3>1, <3>2, <2>1, <2>5
  <2>9. CASE ~(w.rule \in {"single", "first"}) /\ ~(w.rule = "urgency" /\ \E j \in 1..k : w.urgent[j])
    <3>1. V2!RoutesRead(w) = {w.issues[j] : j \in DOMAIN w.issues}
      BY <2>1, <2>9 DEF V2!RoutesRead
    <3> QED
      BY <3>1, <2>1, <2>5
  <2> QED
    BY <2>7, <2>8, <2>9
<1>5. ASSUME NEW w \in V2!Messages PROVE V2!Route(w) \in V2!Acceptable(w) /\ V2!Acceptable(w) \subseteq V2!Teams
  <2> DEFINE T == V2!Weights(w)
  <2>1. DOMAIN T = {"a", "b", "c", "d"} /\ \A t \in {"a", "b", "c", "d"} : T[t] \in Nat
    <3> HIDE DEF Value
    <3> QED
      BY <1>1, <1>2, <1>3 DEF V2!Teams
  <2>2. \E i \in 1..4 : order[i] \in V2!ArgMax(T)
    <3> HIDE DEF T
    <3>1. CASE T["b"] <= T["a"] /\ T["c"] <= T["a"] /\ T["d"] <= T["a"]
      <4>1. order[1] \in V2!ArgMax(T)
        BY <2>1, <3>1 DEF V2!ArgMax
      <4> QED
        BY <4>1
    <3>2. CASE T["a"] <= T["b"] /\ T["c"] <= T["b"] /\ T["d"] <= T["b"]
      <4>1. order[2] \in V2!ArgMax(T)
        BY <2>1, <3>2 DEF V2!ArgMax
      <4> QED
        BY <4>1
    <3>3. CASE T["a"] <= T["c"] /\ T["b"] <= T["c"] /\ T["d"] <= T["c"]
      <4>1. order[3] \in V2!ArgMax(T)
        BY <2>1, <3>3 DEF V2!ArgMax
      <4> QED
        BY <4>1
    <3>4. CASE T["a"] <= T["d"] /\ T["b"] <= T["d"] /\ T["c"] <= T["d"]
      <4>1. order[4] \in V2!ArgMax(T)
        BY <2>1, <3>4 DEF V2!ArgMax
      <4> QED
        BY <4>1
    <3> QED
      BY <2>1, <3>1, <3>2, <3>3, <3>4
  <2>3. DOMAIN order = 1..4
    OBVIOUS
  <2>4. V2!Route(w) = Earliest(order, V2!ArgMax(T))
    BY DEF V2!Route, V2!Acceptable, V2!Earliest, Earliest
  <2>5. V2!Acceptable(w) = V2!ArgMax(T)
    BY DEF V2!Acceptable
  <2> HIDE DEF order, T
  <2>6. Earliest(order, V2!ArgMax(T)) \in V2!ArgMax(T)
    BY <2>2, <2>3, EarliestIsThere
  <2>7. V2!ArgMax(T) \subseteq V2!Teams
    BY <2>1 DEF V2!ArgMax, V2!Teams
  <2> QED
    BY <2>4, <2>5, <2>6, <2>7
<1>6. /\ F.worlds = V2!Messages
      /\ \A w \in V2!Messages : /\ F.gold[w] = V2!Route(w) /\ F.acceptable[w] = V2!Acceptable(w)
                              /\ F.right[w] = V2!RoutesRead(w)
                              /\ F.verified[w] = {o \in V2!Teams : o \in V2!Acceptable(w)}
  BY DEF V2!Families, V2!MakeFamily, V2!RouteChecked
<1>7. Recomputes(F)
  <2> HIDE DEF F, Value
  <2> QED
    BY <1>4, <1>5, <1>6 DEF Recomputes, Honest, Supported, PassesItself, CatchesBugs
<1> QED
  BY <1>7

(* weighted_tradeoff: a total is ahead by the weighted sum of the leads,     *)
(* with lower values turned round.                                           *)
LEMMA WeightedTradeoffRecomputes == Recomputes(V2!Families["weighted_tradeoff"])
<1> DEFINE F == V2!Families["weighted_tradeoff"]
           N == {"X", "Y", "Z"}
           order == <<"X", "Y", "Z">>
<1>1. ASSUME NEW w \in V2!Offers
      PROVE  /\ DOMAIN w.scores = N /\ w.delta \in Nat
             /\ \A n \in N, i \in 1..3 : w.scores[n][i] \in 4..6
  BY DEF V2!Offers
<1>2. ASSUME NEW w \in V2!Offers, NEW m \in N, NEW n \in N
      PROVE  /\ V2!Totals(w)[m] \in Nat /\ V2!Totals(w)[m] - V2!Totals(w)[n] = V2!Lead(w, m, n)
  <2>1. /\ w.scores[m][1] \in 4..6 /\ w.scores[m][2] \in 4..6 /\ w.scores[m][3] \in 4..6
        /\ w.scores[n][1] \in 4..6 /\ w.scores[n][2] \in 4..6 /\ w.scores[n][3] \in 4..6
    BY <1>1
  <2>2. \A x \in N : V2!Totals(w)[x] = V2!Score(w, 1, w.scores[x][1]) + 2 * V2!Score(w, 2, w.scores[x][2]) + 3 * V2!Score(w, 3, w.scores[x][3])
    BY <1>1, Zenon DEF V2!Totals
  <2>3. \A i \in 1..3 : /\ V2!Score(w, i, w.scores[m][i]) \in 4..7 /\ V2!Score(w, i, w.scores[n][i]) \in 4..7
                        /\ V2!Score(w, i, w.scores[m][i]) - V2!Score(w, i, w.scores[n][i]) = V2!Ahead(w, m, n, i)
    <3> HIDE DEF N
    <3> QED
      BY <1>1 DEF V2!Score, V2!Ahead
  <2> HIDE DEF N
  <2> DEFINE a1 == V2!Score(w, 1, w.scores[m][1])
             a2 == V2!Score(w, 2, w.scores[m][2])
             a3 == V2!Score(w, 3, w.scores[m][3])
             b1 == V2!Score(w, 1, w.scores[n][1])
             b2 == V2!Score(w, 2, w.scores[n][2])
             b3 == V2!Score(w, 3, w.scores[n][3])
  <2>4. /\ a1 \in 4..7 /\ a2 \in 4..7 /\ a3 \in 4..7 /\ b1 \in 4..7 /\ b2 \in 4..7 /\ b3 \in 4..7
        /\ V2!Totals(w)[m] = a1 + 2 * a2 + 3 * a3 /\ V2!Totals(w)[n] = b1 + 2 * b2 + 3 * b3
        /\ V2!Lead(w, m, n) = (a1 - b1) + 2 * (a2 - b2) + 3 * (a3 - b3)
    BY <2>2, <2>3 DEF V2!Lead
  <2> HIDE DEF a1, a2, a3, b1, b2, b3
  <2> QED
    BY <2>4
<1>3. ASSUME NEW w \in V2!Offers
      PROVE  V2!Near(w) = V2!LevelRead(w)
  <2> HIDE DEF N
  <2> QED
    BY <1>1, <1>2 DEF V2!Near, V2!LevelRead
<1>4. ASSUME NEW w \in V2!Offers PROVE DOMAIN V2!Totals(w) = N
  BY <1>1 DEF V2!Totals
<1>5. ASSUME NEW w \in V2!Offers
      PROVE  V2!Best(w) \in V2!Near(w)
  <2> DEFINE T == V2!Totals(w)
  <2>1. DOMAIN T = N /\ \A n \in N : T[n] \in Nat
    BY <1>2, <1>4, Zenon
  <2>2. \E i \in 1..3 : order[i] \in V2!ArgMax(T)
    <3> HIDE DEF T
    <3>1. CASE T["Y"] <= T["X"] /\ T["Z"] <= T["X"]
      <4>1. order[1] \in V2!ArgMax(T)
        BY <2>1, <3>1 DEF V2!ArgMax
      <4> QED
        BY <4>1
    <3>2. CASE T["X"] <= T["Y"] /\ T["Z"] <= T["Y"]
      <4>1. order[2] \in V2!ArgMax(T)
        BY <2>1, <3>2 DEF V2!ArgMax
      <4> QED
        BY <4>1
    <3>3. CASE T["X"] <= T["Z"] /\ T["Y"] <= T["Z"]
      <4>1. order[3] \in V2!ArgMax(T)
        BY <2>1, <3>3 DEF V2!ArgMax
      <4> QED
        BY <4>1
    <3> QED
      BY <2>1, <3>1, <3>2, <3>3
  <2>3. V2!Best(w) \in V2!ArgMax(T)
    <3>1. V2!Earliest(order, V2!ArgMax(T)) = Earliest(order, V2!ArgMax(T))
      BY DEF V2!Earliest, Earliest
    <3>2. DOMAIN order = 1..3
      OBVIOUS
    <3> HIDE DEF order, T
    <3>3. Earliest(order, V2!ArgMax(T)) \in V2!ArgMax(T)
      BY <2>2, <3>2, EarliestIsThere
    <3> QED
      BY <3>1, <3>3 DEF V2!Best, order, T
  <2>4. V2!ArgMax(T) \subseteq V2!Near(w)
    <3>1. ASSUME NEW x \in N, NEW y \in N, T[y] <= T[x] PROVE T[y] - T[x] <= w.delta
      <4> HIDE DEF N, T
      <4> QED
        BY <2>1, <3>1, <1>1
    <3>2. V2!ArgMax(T) = {x \in N : \A y \in N : T[y] <= T[x]}
      BY <2>1 DEF V2!ArgMax
    <3> HIDE DEF N
    <3> QED
      BY <3>1, <3>2, <1>1 DEF V2!Near
  <2> QED
    BY <2>3, <2>4
<1>6. /\ F.worlds = V2!Offers
      /\ \A w \in V2!Offers : /\ F.gold[w] = V2!Best(w) /\ F.acceptable[w] = V2!Near(w)
                              /\ F.right[w] = V2!LevelRead(w)
                              /\ F.verified[w] = {o \in DOMAIN w.scores : o \in V2!Near(w)}
  BY DEF V2!Families, V2!MakeFamily, V2!OfferChecked
<1>7. \A w : V2!Near(w) \subseteq DOMAIN w.scores
  BY DEF V2!Near
<1>8. Recomputes(F)
  <2> HIDE DEF F
  <2> QED
    BY <1>3, <1>5, <1>6, <1>7 DEF Recomputes, Honest, Supported, PassesItself, CatchesBugs
<1> QED
  BY <1>8

(* multi_hop_procedure: the grade is raised by as many notches as the manual *)
(* counts, and the band is the first whose limit covers the total.           *)
LEMMA MultiHopProcedureIsHonest == Honest(Long!Families["multi_hop_procedure"])
<1> DEFINE F == Long!Families["multi_hop_procedure"]
<1>1. ASSUME NEW g \in 1..4
      PROVE  /\ Long!Limit[g][1] \in Nat /\ Long!Limit[g][2] \in Nat /\ Long!Limit[g][3] \in Nat
             /\ Long!Limit[g][1] < Long!Limit[g][2] /\ Long!Limit[g][2] < Long!Limit[g][3]
  BY DEF Long!Limit
<1>2. ASSUME NEW g \in 1..4, NEW p \in Nat
      PROVE  \E b \in 1..4 : /\ Long!Band(g, p) = Long!Tiers[b]
                             /\ 1 + Long!Cardinality({c \in 1..3 : p > Long!Limit[g][c]}) = b
  <2> DEFINE L == Long!Limit[g]
             f == [i \in 1..3 |-> L[i] + 1]
             n == IF p <= L[1] THEN 1 ELSE IF p <= L[2] THEN 2 ELSE IF p <= L[3] THEN 3 ELSE 4
             In(b) == (b = 4 \/ p <= L[b]) /\ \A a \in 1..(b - 1) : p > L[a]
  <2>1. L[1] \in Nat /\ L[2] \in Nat /\ L[3] \in Nat /\ L[1] < L[2] /\ L[2] < L[3]
    BY <1>1
  <2>2. Long!Band(g, p) = Long!Tiers[CHOOSE b \in 1..4 : In(b)]
    BY Zenon DEF Long!Band
  <2> HIDE DEF L
  <2>3. {c \in 1..3 : p > L[c]} = {i \in 1..3 : p >= f[i]}
    BY <2>1
  <2>4. Long!Cardinality({c \in 1..3 : p > L[c]}) = Cardinality({c \in 1..3 : p > L[c]})
    BY Zenon DEF Long!Cardinality, Cardinality
  <2>5. f[1] = L[1] + 1 /\ f[2] = L[2] + 1 /\ f[3] = L[3] + 1
    OBVIOUS
  <2> HIDE DEF f
  <2>6. Cardinality({i \in 1..3 : p >= f[i]}) = IF p < f[1] THEN 0 ELSE IF p < f[2] THEN 1 ELSE IF p < f[3] THEN 2 ELSE 3
    BY <2>1, <2>5, FloorsPassed
  <2>7. 1 + Long!Cardinality({c \in 1..3 : p > L[c]}) = n
    BY <2>1, <2>3, <2>4, <2>5, <2>6
  <2>8. n \in 1..4 /\ \A b \in 1..4 : In(b) <=> b = n
    BY <2>1
  <2>9. (CHOOSE b \in 1..4 : In(b)) = n
    <3> HIDE DEF In, n
    <3> QED
      BY <2>8
  <2> HIDE DEF In, n
  <2> QED
    BY <2>2, <2>7, <2>8, <2>9 DEF L
<1>3. ASSUME NEW w \in Long!Cases, NEW new \in BOOLEAN
      PROVE  /\ Long!Elevated(w, new) \in 1..4
             /\ Long!Elevated(w, new) =
                  LET k == Long!Cardinality({r \in {"country", "new"} : IF r = "new" THEN new ELSE ~w.approved})
                  IN IF w.watch \/ w.grade + k >= 4 THEN 4 ELSE w.grade + k
  <2> DEFINE S == {r \in {"country", "new"} : IF r = "new" THEN new ELSE ~w.approved}
  <2>1. w.grade \in 1..3 /\ w.approved \in BOOLEAN /\ w.watch \in BOOLEAN
    BY DEF Long!Cases
  <2>2. Long!Cardinality(S) = Cardinality(S)
    BY Zenon DEF Long!Cardinality, Cardinality
  <2>3. Cardinality(S) = (IF ~w.approved THEN 1 ELSE 0) + (IF new THEN 1 ELSE 0)
    <3>1. S \subseteq {"country", "new"} /\ ("new" \in S <=> new) /\ ("country" \in S <=> ~w.approved)
      OBVIOUS
    <3> HIDE DEF S
    <3>2. CASE w.approved /\ ~new
      <4>1. S = {}
        BY <3>1, <3>2
      <4> QED
        BY <3>2, <4>1, FewElements
    <3>3. CASE ~w.approved /\ ~new
      <4>1. S = {"country"}
        BY <3>1, <3>3
      <4>2. Cardinality(S) = 1
        BY <4>1, FewElements
      <4> QED
        BY <3>3, <4>2
    <3>4. CASE w.approved /\ new
      <4>1. S = {"new"}
        BY <3>1, <3>4
      <4>2. Cardinality(S) = 1
        BY <4>1, FewElements
      <4> QED
        BY <3>4, <4>2
    <3>5. CASE ~w.approved /\ new
      <4>1. S = {"country", "new"}
        BY <3>1, <3>5
      <4>2. "country" # "new"
        OBVIOUS
      <4>3. Cardinality(S) = 2
        BY <4>1, <4>2, FewElements
      <4> QED
        BY <3>5, <4>3
    <3> QED
      BY <2>1, <3>2, <3>3, <3>4, <3>5
  <2> HIDE DEF S
  <2>4. /\ Long!Elevated(w, new) \in 1..4
        /\ Long!Elevated(w, new) = IF w.watch \/ w.grade + Long!Cardinality(S) >= 4 THEN 4 ELSE w.grade + Long!Cardinality(S)
    BY <2>1, <2>2, <2>3 DEF Long!Elevated
  <2> QED
    BY <2>4 DEF S
<1>4. ASSUME NEW w \in Long!Cases
      PROVE  /\ Long!Sum(w) \in Nat
             /\ Long!Sum(w) = w.amount + (IF w.other.same /\ w.other.age <= 30 THEN w.other.amount ELSE 0)
  <2>1. w.amount \in Nat /\ w.other.age \in {30, 31} /\ w.other.amount = 5
    BY DEF Long!Cases
  <2> QED
    BY <2>1 DEF Long!Sum
<1>5. ASSUME NEW w \in Long!Cases
      PROVE  Long!Tier(w) \in Long!TiersRead(w) /\ \E b \in 1..4 : Long!Tier(w) = Long!Tiers[b]
  <2> DEFINE K(new) == Long!Cardinality({r \in {"country", "new"} : IF r = "new" THEN new ELSE ~w.approved})
             G(new) == IF w.watch \/ w.grade + K(new) >= 4 THEN 4 ELSE w.grade + K(new)
             total == w.amount + (IF w.other.same /\ w.other.age <= 30 THEN w.other.amount ELSE 0)
             days == Long!NewByDays(w)
             Found(new) == Long!Tiers[1 + Long!Cardinality({b \in 1..3 : total > Long!Limit[G(new)][b]})]
  <2>1. Long!TiersRead(w) = {Found(new) : new \in {days, Long!NewByMonths(w)}}
    BY Zenon DEF Long!TiersRead
  <2>2. days \in BOOLEAN
    BY DEF Long!NewByDays
  <2>3. G(days) \in 1..4 /\ Long!Elevated(w, days) = G(days)
    <3> HIDE DEF days
    <3> QED
      BY <1>3, <2>2
  <2>4. total \in Nat /\ Long!Sum(w) = total
    BY <1>4
  <2>5. Long!Tier(w) = Long!Band(G(days), total)
    BY <2>3, <2>4 DEF Long!Tier
  <2> DEFINE g == G(days)
  <2>6. g \in 1..4
    BY <2>3
  <2>7. Found(days) = Long!Tiers[1 + Long!Cardinality({b \in 1..3 : total > Long!Limit[g][b]})] /\ Long!Tier(w) = Long!Band(g, total)
    BY <2>5
  <2> HIDE DEF g, total, Found, K, days
  <2>8. PICK b \in 1..4 : /\ Long!Band(g, total) = Long!Tiers[b]
                           /\ 1 + Long!Cardinality({c \in 1..3 : total > Long!Limit[g][c]}) = b
    BY <1>2, <2>4, <2>6
  <2>9. Long!Tier(w) = Found(days) /\ Long!Tier(w) = Long!Tiers[b]
    BY <2>7, <2>8
  <2> QED
    BY <2>1, <2>9
<1>6. /\ F.worlds = Long!Cases
      /\ \A w \in Long!Cases : /\ F.gold[w] = Long!Tier(w) /\ F.acceptable[w] = {Long!Tier(w)}
                              /\ F.right[w] = Long!TiersRead(w)
                              /\ F.verified[w] = {o \in {Long!Tiers[b] : b \in 1..4} : o = Long!Tier(w)}
  BY DEF Long!Families, Long!MakeFamily, Long!TierChecked
<1>7. Honest(F)
  <2> HIDE DEF F
  <2> QED
    BY <1>5, <1>6 DEF Honest, Supported, PassesItself
<1> QED
  BY <1>7

(* hermes_command_risk: every policy allows the class of the command. *)
LEMMA CommandRiskIsHonest == Honest(Hermes!Families["hermes_command_risk"])
<1> DEFINE F == Hermes!Families["hermes_command_risk"]
<1>1. \A w \in Hermes!Commands : /\ Hermes!Risk(w) \in Hermes!Classes
                                 /\ Hermes!Risk(w) \in Hermes!RiskRead(w)
  BY DEF Hermes!Commands, Hermes!Risk, Hermes!Classes, Hermes!RiskRead, Hermes!Class
<1>2. /\ F.worlds = Hermes!Commands
      /\ \A w \in Hermes!Commands : /\ F.gold[w] = Hermes!Risk(w) /\ F.acceptable[w] = {Hermes!Risk(w)}
                                    /\ F.right[w] = Hermes!RiskRead(w)
                                    /\ F.verified[w] = Hermes!Classes
  BY DEF Hermes!Families, Hermes!MakeFamily, Hermes!AnyOption
<1>3. Honest(F)
  <2> HIDE DEF F
  <2> QED
    BY <1>1, <1>2 DEF Honest, Supported, PassesItself
<1> QED
  BY <1>3

(* hermes_result_injection: steps that belong to no request are injected or  *)
(* clean.                                                                    *)
LEMMA ResultInjectionIsHonest == Honest(Hermes!Families["hermes_result_injection"])
<1> DEFINE F == Hermes!Families["hermes_result_injection"]
<1>1. \A w \in Hermes!Contents : /\ Hermes!Injected(w) \in {"injected", "clean"}
                                 /\ Hermes!Injected(w) \in Hermes!InjectedRead(w)
                                 /\ Hermes!InjectionChecked(w, Hermes!Injected(w))
  BY DEF Hermes!Contents, Hermes!Injected, Hermes!InjectedRead, Hermes!InjectionChecked
<1>2. /\ F.worlds = Hermes!Contents
      /\ \A w \in Hermes!Contents : /\ F.gold[w] = Hermes!Injected(w) /\ F.acceptable[w] = {Hermes!Injected(w)}
                                    /\ F.right[w] = Hermes!InjectedRead(w)
                                    /\ F.verified[w] = {o \in {"injected", "clean"} : Hermes!InjectionChecked(w, o)}
  BY DEF Hermes!Families, Hermes!MakeFamily
<1>3. Honest(F)
  <2> HIDE DEF F
  <2> QED
    BY <1>1, <1>2 DEF Honest, Supported, PassesItself
<1> QED
  BY <1>3

(* injection_gate: a note drawn for a label is checked for it. *)
LEMMA ControlInjectionRecomputes ==
  Recomputes(Control!Families["injection_gate"])
BY DEF Recomputes, Honest, Supported, PassesItself, CatchesBugs, Control!Families, Control!Noted, Control!MakeFamily, Control!NoteChecked

(* triage_priority, in the same way. *)
LEMMA ControlTriageRecomputes ==
  Recomputes(Control!Families["triage_priority"])
BY DEF Recomputes, Honest, Supported, PassesItself, CatchesBugs, Control!Families, Control!Noted, Control!MakeFamily, Control!NoteChecked

(* moderation_class, in the same way. *)
LEMMA ControlModerationRecomputes ==
  Recomputes(Control!Families["moderation_class"])
BY DEF Recomputes, Honest, Supported, PassesItself, CatchesBugs, Control!Families, Control!Noted, Control!MakeFamily, Control!NoteChecked

(* escalate_human, in the same way. *)
LEMMA ControlEscalationRecomputes ==
  Recomputes(Control!Families["escalate_human"])
BY DEF Recomputes, Honest, Supported, PassesItself, CatchesBugs, Control!Families, Control!Noted, Control!MakeFamily, Control!NoteChecked

(* tool_routing: the signals of a request decide where it goes. *)
LEMMA ControlRoutingRecomputes ==
  Recomputes(Control!Families["tool_routing"])
<1>1. \A w \in Control!Requests : Control!Resource(w) \in {"human", "kb", "orders"} /\ Control!Resource(w) \in Control!ResourceRead(w) /\ Control!ResourceChecked(w, Control!Resource(w))
  BY DEF Control!Requests, Control!Resource, Control!ResourceRead, Control!ResourceChecked, Control!Signals
<1>2. \A w \in Control!Requests : \A o \in {"human", "kb", "orders"} : Control!ResourceChecked(w, o) => o \in Control!ResourceRead(w)
  BY DEF Control!Requests, Control!Resource, Control!ResourceRead, Control!ResourceChecked, Control!Signals
<1> QED
  BY <1>1, <1>2 DEF Recomputes, Honest, Supported, PassesItself, CatchesBugs, Control!Families, Control!MakeFamily, Control!Choosing

(* context_ranking: so do those of an article how relevant it is. *)
LEMMA ControlRankingRecomputes ==
  Recomputes(Control!Families["context_ranking"])
<1>1. \A w \in Control!Articles : Control!Relevance(w) \in {"0", "1", "2"} /\ Control!Relevance(w) \in Control!RelevanceRead(w) /\ Control!RelevanceChecked(w, Control!Relevance(w))
  BY DEF Control!Articles, Control!Relevance, Control!RelevanceRead, Control!RelevanceChecked
<1>2. \A w \in Control!Articles : \A o \in {"0", "1", "2"} : Control!RelevanceChecked(w, o) => o \in Control!RelevanceRead(w)
  BY DEF Control!Articles, Control!Relevance, Control!RelevanceRead, Control!RelevanceChecked
<1> QED
  BY <1>1, <1>2 DEF Recomputes, Honest, Supported, PassesItself, CatchesBugs, Control!Families, Control!MakeFamily, Control!Choosing

(* next_action: and those of a session what comes next. *)
LEMMA ControlNextActionRecomputes ==
  Recomputes(Control!Families["next_action"])
<1>1. \A w \in Control!Sessions : Control!NextStep(w) \in {"retry", "ask_user", "give_up"} /\ Control!NextStep(w) \in Control!NextStepRead(w) /\ Control!NextStepChecked(w, Control!NextStep(w))
  BY DEF Control!Sessions, Control!NextStep, Control!NextStepRead, Control!NextStepChecked
<1>2. \A w \in Control!Sessions : \A o \in {"retry", "ask_user", "give_up"} : Control!NextStepChecked(w, o) => o \in Control!NextStepRead(w)
  BY DEF Control!Sessions, Control!NextStep, Control!NextStepRead, Control!NextStepChecked
<1> QED
  BY <1>1, <1>2 DEF Recomputes, Honest, Supported, PassesItself, CatchesBugs, Control!Families, Control!MakeFamily, Control!Choosing

(* claim_verification: and the facts whether a claim is supported. *)
LEMMA ControlClaimRecomputes ==
  Recomputes(Control!Families["claim_verification"])
<1>1. \A w \in Control!Claims : Control!Supported(w) \in Control!YesNo /\ Control!Supported(w) \in {Control!Supported(w)} /\ Control!SupportedChecked(w, Control!Supported(w))
  BY DEF Control!Claims, Control!Supported, Control!Noul, Control!SupportedChecked, Control!YesNo
<1>2. \A w \in Control!Claims : \A o \in Control!YesNo : Control!SupportedChecked(w, o) => o \in {Control!Supported(w)}
  BY DEF Control!Claims, Control!Supported, Control!Noul, Control!SupportedChecked, Control!YesNo
<1> QED
  BY <1>1, <1>2 DEF Recomputes, Honest, Supported, PassesItself, CatchesBugs, Control!Families, Control!MakeFamily, Control!Asking

(* entity_match: and two records whether they are one person. *)
LEMMA ControlMatchRecomputes ==
  Recomputes(Control!Families["entity_match"])
<1>1. \A w \in Control!Records : Control!SamePerson(w) \in Control!YesNo /\ Control!SamePerson(w) \in {Control!SamePerson(w)} /\ Control!SamePersonChecked(w, Control!SamePerson(w))
  BY DEF Control!Records, Control!SamePerson, Control!Noul, Control!SamePersonChecked, Control!YesNo
<1>2. \A w \in Control!Records : \A o \in Control!YesNo : Control!SamePersonChecked(w, o) => o \in {Control!SamePerson(w)}
  BY DEF Control!Records, Control!SamePerson, Control!Noul, Control!SamePersonChecked, Control!YesNo
<1> QED
  BY <1>1, <1>2 DEF Recomputes, Honest, Supported, PassesItself, CatchesBugs, Control!Families, Control!MakeFamily, Control!Asking

(* fraud_risk: a present card lowers the points by one, or raises the two    *)
(* thresholds.                                                               *)
LEMMA FraudRiskIsHonest == Honest(Cases!Families["fraud_risk"])
<1> DEFINE F == Cases!Families["fraud_risk"]
<1>1. ASSUME NEW w \in Cases!Transactions
      PROVE  Cases!Handling(w) \in {"approve", "review", "block"} /\ Cases!Handling(w) \in Cases!FirstMatch(Cases!FR_POLICY(w))
  <2> DEFINE rules == Cases!FR_POLICY(w)
             total == Cases!RiskPoints(w) - Cases!Points(w.cardPresent /\ Cases!RiskPoints(w) > 0, 1)
             c1 == total >= 7
             c2 == w.merchant = "gift_cards" /\ w.newDevice /\ w.foreign
             c3 == total \in 4..6
             text == IF c1 THEN "block" ELSE IF c2 THEN "block" ELSE IF c3 THEN "review" ELSE "approve"
  <2>1. DOMAIN rules = 1..4
    BY DEF Cases!FR_POLICY
  <2>2. /\ rules[1][1] = c1 /\ rules[1][2] = "block"
        /\ rules[2][1] = c2 /\ rules[2][2] = "block"
        /\ rules[3][1] = c3 /\ rules[3][2] = "review"
        /\ rules[4][1] = TRUE /\ rules[4][2] = "approve"
    BY SMT DEF Cases!FR_POLICY, Cases!Transactions
  <2>3. Outcome(rules) = text
    <3> HIDE DEF rules, c1, c2, c3
    <3> QED
      BY <2>2, Zenon DEF Outcome
  <2>4. Cases!Handling(w) = text /\ Cases!Handling(w) \in {"approve", "review", "block"}
    <3> HIDE DEF rules
    <3> QED
      BY DEF Cases!Transactions, Cases!Handling, Cases!RiskPoints, Cases!Points
  <2>5. Cases!FirstMatch(rules) = {Outcome(rules)}
    <3>1. 4 \in 4..7 /\ rules[4][1]
      <4> HIDE DEF rules
      <4> QED
        BY <2>2
    <3> HIDE DEF rules
    <3> QED
      BY <2>1, <3>1, OutcomeOfRules
  <2> HIDE DEF text
  <2> QED
    BY <2>3, <2>4, <2>5, Zenon
<1>2. /\ F.worlds = Cases!Transactions
      /\ \A w \in Cases!Transactions : /\ F.gold[w] = Cases!Handling(w) /\ F.acceptable[w] = {Cases!Handling(w)}
                                 /\ F.right[w] = Cases!FirstMatch(Cases!FR_POLICY(w)) /\ F.verified[w] = {"approve", "review", "block"}
  BY DEF Cases!Families, Cases!MakeFamily, Cases!Unverified, Cases!Ruled, Cases!Case
<1>3. Honest(F)
  <2> HIDE DEF F
  <2> QED
    BY <1>1, <1>2 DEF Honest, Supported, PassesItself
<1> QED
  BY <1>3

(* robot_control. *)
LEMMA RobotControlIsHonest == Honest(Cases!Families["robot_control"])
<1> DEFINE F == Cases!Families["robot_control"]
<1>1. ASSUME NEW w \in Cases!RobotStates
      PROVE  Cases!Drive(w) \in {"continue", "slow", "stop", "return_to_dock"} /\ Cases!Drive(w) \in Cases!FirstMatch(Cases!RB_POLICY(w))
  <2> DEFINE rules == Cases!RB_POLICY(w)
             c1 == w.battery < 15
             c2 == w.obstacle <= 5
             c3 == w.obstacle <= (IF w.fragile THEN 40 ELSE 20)
             text == IF c1 THEN "return_to_dock" ELSE IF c2 THEN "stop" ELSE IF c3 THEN "slow" ELSE "continue"
  <2>1. DOMAIN rules = 1..4
    BY DEF Cases!RB_POLICY
  <2>2. /\ rules[1][1] = c1 /\ rules[1][2] = "return_to_dock"
        /\ rules[2][1] = c2 /\ rules[2][2] = "stop"
        /\ rules[3][1] = c3 /\ rules[3][2] = "slow"
        /\ rules[4][1] = TRUE /\ rules[4][2] = "continue"
    BY SMT DEF Cases!RB_POLICY, Cases!RobotStates
  <2>3. Outcome(rules) = text
    <3> HIDE DEF rules, c1, c2, c3
    <3> QED
      BY <2>2, Zenon DEF Outcome
  <2>4. Cases!Drive(w) = text /\ Cases!Drive(w) \in {"continue", "slow", "stop", "return_to_dock"}
    <3> HIDE DEF rules
    <3> QED
      BY DEF Cases!RobotStates, Cases!Drive
  <2>5. Cases!FirstMatch(rules) = {Outcome(rules)}
    <3>1. 4 \in 4..7 /\ rules[4][1]
      <4> HIDE DEF rules
      <4> QED
        BY <2>2
    <3> HIDE DEF rules
    <3> QED
      BY <2>1, <3>1, OutcomeOfRules
  <2> HIDE DEF text
  <2> QED
    BY <2>3, <2>4, <2>5, Zenon
<1>2. /\ F.worlds = Cases!RobotStates
      /\ \A w \in Cases!RobotStates : /\ F.gold[w] = Cases!Drive(w) /\ F.acceptable[w] = {Cases!Drive(w)}
                                 /\ F.right[w] = Cases!FirstMatch(Cases!RB_POLICY(w)) /\ F.verified[w] = {"continue", "slow", "stop", "return_to_dock"}
  BY DEF Cases!Families, Cases!MakeFamily, Cases!Unverified, Cases!Ruled, Cases!Case
<1>3. Honest(F)
  <2> HIDE DEF F
  <2> QED
    BY <1>1, <1>2 DEF Honest, Supported, PassesItself
<1> QED
  BY <1>3

(* invoice: the seven rules of INV_POLICY. *)
LEMMA InvoiceIsHonest == Honest(Cases!Families["invoice"])
<1> DEFINE F == Cases!Families["invoice"]
<1>1. ASSUME NEW w \in Cases!Invoices
      PROVE  Cases!Payment(w) \in {"pay", "hold", "dispute", "fraud_review"} /\ Cases!Payment(w) \in Cases!FirstMatch(Cases!INV_POLICY(w))
  <2> DEFINE rules == Cases!INV_POLICY(w)
             c1 == w.bankChanged
             c2 == ~w.known /\ w.above5000
             c3 == w.order = "none"
             c4 == w.order = "exceeded"
             c5 == w.duplicate
             c6 == ~w.approved
             text == IF c1 THEN "fraud_review" ELSE IF c2 THEN "fraud_review" ELSE IF c3 THEN "dispute" ELSE IF c4 THEN "dispute" ELSE IF c5 THEN "hold" ELSE IF c6 THEN "hold" ELSE "pay"
  <2>1. DOMAIN rules = 1..7
    BY DEF Cases!INV_POLICY
  <2>2. /\ rules[1][1] = c1 /\ rules[1][2] = "fraud_review"
        /\ rules[2][1] = c2 /\ rules[2][2] = "fraud_review"
        /\ rules[3][1] = c3 /\ rules[3][2] = "dispute"
        /\ rules[4][1] = c4 /\ rules[4][2] = "dispute"
        /\ rules[5][1] = c5 /\ rules[5][2] = "hold"
        /\ rules[6][1] = c6 /\ rules[6][2] = "hold"
        /\ rules[7][1] = TRUE /\ rules[7][2] = "pay"
    BY SMT DEF Cases!INV_POLICY, Cases!Invoices
  <2>3. Outcome(rules) = text
    <3> HIDE DEF rules, c1, c2, c3, c4, c5, c6
    <3> QED
      BY <2>2, Zenon DEF Outcome
  <2>4. Cases!Payment(w) = text /\ Cases!Payment(w) \in {"pay", "hold", "dispute", "fraud_review"}
    <3> HIDE DEF rules
    <3> QED
      BY DEF Cases!Invoices, Cases!Payment
  <2>5. Cases!FirstMatch(rules) = {Outcome(rules)}
    <3>1. 7 \in 4..7 /\ rules[7][1]
      <4> HIDE DEF rules
      <4> QED
        BY <2>2
    <3> HIDE DEF rules
    <3> QED
      BY <2>1, <3>1, OutcomeOfRules
  <2> HIDE DEF text
  <2> QED
    BY <2>3, <2>4, <2>5, Zenon
<1>2. /\ F.worlds = Cases!Invoices
      /\ \A w \in Cases!Invoices : /\ F.gold[w] = Cases!Payment(w) /\ F.acceptable[w] = {Cases!Payment(w)}
                                 /\ F.right[w] = Cases!FirstMatch(Cases!INV_POLICY(w)) /\ F.verified[w] = {"pay", "hold", "dispute", "fraud_review"}
  BY DEF Cases!Families, Cases!MakeFamily, Cases!Unverified, Cases!Ruled, Cases!Case
<1>3. Honest(F)
  <2> HIDE DEF F
  <2> QED
    BY <1>1, <1>2 DEF Honest, Supported, PassesItself
<1> QED
  BY <1>3

(* insurance_claims: the points of fraud stay within their range of 4 to 6. *)
LEMMA InsuranceClaimsIsHonest == Honest(Cases!Families["insurance_claims"])
<1> DEFINE F == Cases!Families["insurance_claims"]
<1>1. ASSUME NEW w \in Cases!ClaimCases
      PROVE  Cases!ClaimRoute(w) \in {"STP", "SIU", "specialist"} /\ Cases!ClaimRoute(w) \in Cases!FirstMatch(Cases!CLM_POLICY(w))
  <2> DEFINE rules == Cases!CLM_POLICY(w)
             c1 == Cases!FraudPoints(w) \in 4..6
             c2 == w.injury
             c3 == w.loss > 50
             c4 == ~w.active
             text == IF c1 THEN "SIU" ELSE IF c2 THEN "specialist" ELSE IF c3 THEN "specialist" ELSE IF c4 THEN "specialist" ELSE "STP"
  <2>1. DOMAIN rules = 1..5
    BY DEF Cases!CLM_POLICY
  <2>2. /\ rules[1][1] = c1 /\ rules[1][2] = "SIU"
        /\ rules[2][1] = c2 /\ rules[2][2] = "specialist"
        /\ rules[3][1] = c3 /\ rules[3][2] = "specialist"
        /\ rules[4][1] = c4 /\ rules[4][2] = "specialist"
        /\ rules[5][1] = TRUE /\ rules[5][2] = "STP"
    BY SMT DEF Cases!CLM_POLICY, Cases!ClaimCases
  <2>3. Outcome(rules) = text
    <3> HIDE DEF rules, c1, c2, c3, c4
    <3> QED
      BY <2>2, Zenon DEF Outcome
  <2>4. Cases!ClaimRoute(w) = text /\ Cases!ClaimRoute(w) \in {"STP", "SIU", "specialist"}
    <3> HIDE DEF rules
    <3> QED
      BY DEF Cases!ClaimCases, Cases!ClaimRoute, Cases!FraudPoints, Cases!Points
  <2>5. Cases!FirstMatch(rules) = {Outcome(rules)}
    <3>1. 5 \in 4..7 /\ rules[5][1]
      <4> HIDE DEF rules
      <4> QED
        BY <2>2
    <3> HIDE DEF rules
    <3> QED
      BY <2>1, <3>1, OutcomeOfRules
  <2> HIDE DEF text
  <2> QED
    BY <2>3, <2>4, <2>5, Zenon
<1>2. /\ F.worlds = Cases!ClaimCases
      /\ \A w \in Cases!ClaimCases : /\ F.gold[w] = Cases!ClaimRoute(w) /\ F.acceptable[w] = {Cases!ClaimRoute(w)}
                                 /\ F.right[w] = Cases!FirstMatch(Cases!CLM_POLICY(w)) /\ F.verified[w] = {"STP", "SIU", "specialist"}
  BY DEF Cases!Families, Cases!MakeFamily, Cases!Unverified, Cases!Ruled, Cases!Case
<1>3. Honest(F)
  <2> HIDE DEF F
  <2> QED
    BY <1>1, <1>2 DEF Honest, Supported, PassesItself
<1> QED
  BY <1>3

(* soc_triage: the six rules of SOC_POLICY. *)
LEMMA SocTriageIsHonest == Honest(Cases!Families["soc_triage"])
<1> DEFINE F == Cases!Families["soc_triage"]
<1>1. ASSUME NEW w \in Cases!SocAlerts
      PROVE  Cases!Triage(w) \in {"auto_close", "notify_user", "queue_tier2", "contain_now"} /\ Cases!Triage(w) \in Cases!FirstMatch(Cases!SOC_POLICY(w))
  <2> DEFINE rules == Cases!SOC_POLICY(w)
             c1 == w.lateral
             c2 == w.confirmed /\ w.critical
             c3 == w.known
             c4 == w.severity \in 1..2 /\ ~(w.confirmed \/ w.impacted)
             c5 == w.impacted /\ w.severity \in 1..3 /\ ~w.confirmed
             text == IF c1 THEN "contain_now" ELSE IF c2 THEN "contain_now" ELSE IF c3 THEN "auto_close" ELSE IF c4 THEN "auto_close" ELSE IF c5 THEN "notify_user" ELSE "queue_tier2"
  <2>1. DOMAIN rules = 1..6
    BY DEF Cases!SOC_POLICY
  <2>2. /\ rules[1][1] = c1 /\ rules[1][2] = "contain_now"
        /\ rules[2][1] = c2 /\ rules[2][2] = "contain_now"
        /\ rules[3][1] = c3 /\ rules[3][2] = "auto_close"
        /\ rules[4][1] = c4 /\ rules[4][2] = "auto_close"
        /\ rules[5][1] = c5 /\ rules[5][2] = "notify_user"
        /\ rules[6][1] = TRUE /\ rules[6][2] = "queue_tier2"
    BY SMT DEF Cases!SOC_POLICY, Cases!SocAlerts
  <2>3. Outcome(rules) = text
    <3> HIDE DEF rules, c1, c2, c3, c4, c5
    <3> QED
      BY <2>2, Zenon DEF Outcome
  <2>4. Cases!Triage(w) = text /\ Cases!Triage(w) \in {"auto_close", "notify_user", "queue_tier2", "contain_now"}
    <3> HIDE DEF rules
    <3> QED
      BY DEF Cases!SocAlerts, Cases!Triage
  <2>5. Cases!FirstMatch(rules) = {Outcome(rules)}
    <3>1. 6 \in 4..7 /\ rules[6][1]
      <4> HIDE DEF rules
      <4> QED
        BY <2>2
    <3> HIDE DEF rules
    <3> QED
      BY <2>1, <3>1, OutcomeOfRules
  <2> HIDE DEF text
  <2> QED
    BY <2>3, <2>4, <2>5, Zenon
<1>2. /\ F.worlds = Cases!SocAlerts
      /\ \A w \in Cases!SocAlerts : /\ F.gold[w] = Cases!Triage(w) /\ F.acceptable[w] = {Cases!Triage(w)}
                                 /\ F.right[w] = Cases!FirstMatch(Cases!SOC_POLICY(w)) /\ F.verified[w] = {"auto_close", "notify_user", "queue_tier2", "contain_now"}
  BY DEF Cases!Families, Cases!MakeFamily, Cases!Unverified, Cases!Ruled, Cases!Case
<1>3. Honest(F)
  <2> HIDE DEF F
  <2> QED
    BY <1>1, <1>2 DEF Honest, Supported, PassesItself
<1> QED
  BY <1>3

(* soc_escalation. *)
LEMMA SocEscalationIsHonest == Honest(Cases!Families["soc_escalation"])
<1> DEFINE F == Cases!Families["soc_escalation"]
<1>1. ASSUME NEW w \in Cases!Escalations
      PROVE  Cases!Escalate(w) \in {"page_oncall", "handoff_ir", "notice_users", "stay_queue"} /\ Cases!Escalate(w) \in Cases!FirstMatch(Cases!ESC_POLICY(w))
  <2> DEFINE rules == Cases!ESC_POLICY(w)
             c1 == w.triage = "contain_now" /\ w.asset = "critical"
             c2 == w.triage = "contain_now"
             c3 == w.severity \in 4..5 /\ w.asset = "high"
             c4 == w.triage = "notify_user"
             text == IF c1 THEN "page_oncall" ELSE IF c2 THEN "handoff_ir" ELSE IF c3 THEN "handoff_ir" ELSE IF c4 THEN "notice_users" ELSE "stay_queue"
  <2>1. DOMAIN rules = 1..5
    BY DEF Cases!ESC_POLICY
  <2>2. /\ rules[1][1] = c1 /\ rules[1][2] = "page_oncall"
        /\ rules[2][1] = c2 /\ rules[2][2] = "handoff_ir"
        /\ rules[3][1] = c3 /\ rules[3][2] = "handoff_ir"
        /\ rules[4][1] = c4 /\ rules[4][2] = "notice_users"
        /\ rules[5][1] = TRUE /\ rules[5][2] = "stay_queue"
    BY SMT DEF Cases!ESC_POLICY, Cases!Escalations
  <2>3. Outcome(rules) = text
    <3> HIDE DEF rules, c1, c2, c3, c4
    <3> QED
      BY <2>2, Zenon DEF Outcome
  <2>4. Cases!Escalate(w) = text /\ Cases!Escalate(w) \in {"page_oncall", "handoff_ir", "notice_users", "stay_queue"}
    <3> HIDE DEF rules
    <3> QED
      BY DEF Cases!Escalations, Cases!Escalate
  <2>5. Cases!FirstMatch(rules) = {Outcome(rules)}
    <3>1. 5 \in 4..7 /\ rules[5][1]
      <4> HIDE DEF rules
      <4> QED
        BY <2>2
    <3> HIDE DEF rules
    <3> QED
      BY <2>1, <3>1, OutcomeOfRules
  <2> HIDE DEF text
  <2> QED
    BY <2>3, <2>4, <2>5, Zenon
<1>2. /\ F.worlds = Cases!Escalations
      /\ \A w \in Cases!Escalations : /\ F.gold[w] = Cases!Escalate(w) /\ F.acceptable[w] = {Cases!Escalate(w)}
                                 /\ F.right[w] = Cases!FirstMatch(Cases!ESC_POLICY(w)) /\ F.verified[w] = {"page_oncall", "handoff_ir", "notice_users", "stay_queue"}
  BY DEF Cases!Families, Cases!MakeFamily, Cases!Unverified, Cases!Ruled, Cases!Case
<1>3. Honest(F)
  <2> HIDE DEF F
  <2> QED
    BY <1>1, <1>2 DEF Honest, Supported, PassesItself
<1> QED
  BY <1>3

(* model_routing. *)
LEMMA ModelRoutingIsHonest == Honest(Cases!Families["model_routing"])
<1> DEFINE F == Cases!Families["model_routing"]
<1>1. ASSUME NEW w \in Cases!Requests
      PROVE  Cases!ModelFor(w) \in {"small", "medium", "large"} /\ Cases!ModelFor(w) \in Cases!FirstMatch(Cases!MR_POLICY(w))
  <2> DEFINE rules == Cases!MR_POLICY(w)
             c1 == w.task = "multi_step_reasoning"
             c2 == w.task = "code_generation" /\ w.critical
             c3 == w.latency < 500
             c4 == w.task = "extraction" /\ w.tokens < 4000 /\ ~w.critical
             text == IF c1 THEN "large" ELSE IF c2 THEN "large" ELSE IF c3 THEN "small" ELSE IF c4 THEN "small" ELSE "medium"
  <2>1. DOMAIN rules = 1..5
    BY DEF Cases!MR_POLICY
  <2>2. /\ rules[1][1] = c1 /\ rules[1][2] = "large"
        /\ rules[2][1] = c2 /\ rules[2][2] = "large"
        /\ rules[3][1] = c3 /\ rules[3][2] = "small"
        /\ rules[4][1] = c4 /\ rules[4][2] = "small"
        /\ rules[5][1] = TRUE /\ rules[5][2] = "medium"
    BY SMT DEF Cases!MR_POLICY, Cases!Requests
  <2>3. Outcome(rules) = text
    <3> HIDE DEF rules, c1, c2, c3, c4
    <3> QED
      BY <2>2, Zenon DEF Outcome
  <2>4. Cases!ModelFor(w) = text /\ Cases!ModelFor(w) \in {"small", "medium", "large"}
    <3> HIDE DEF rules
    <3> QED
      BY DEF Cases!Requests, Cases!ModelFor
  <2>5. Cases!FirstMatch(rules) = {Outcome(rules)}
    <3>1. 5 \in 4..7 /\ rules[5][1]
      <4> HIDE DEF rules
      <4> QED
        BY <2>2
    <3> HIDE DEF rules
    <3> QED
      BY <2>1, <3>1, OutcomeOfRules
  <2> HIDE DEF text
  <2> QED
    BY <2>3, <2>4, <2>5, Zenon
<1>2. /\ F.worlds = Cases!Requests
      /\ \A w \in Cases!Requests : /\ F.gold[w] = Cases!ModelFor(w) /\ F.acceptable[w] = {Cases!ModelFor(w)}
                                 /\ F.right[w] = Cases!FirstMatch(Cases!MR_POLICY(w)) /\ F.verified[w] = {"small", "medium", "large"}
  BY DEF Cases!Families, Cases!MakeFamily, Cases!Unverified, Cases!Ruled, Cases!Case
<1>3. Honest(F)
  <2> HIDE DEF F
  <2> QED
    BY <1>1, <1>2 DEF Honest, Supported, PassesItself
<1> QED
  BY <1>3

(* refund: a damaged order has twice its window. *)
LEMMA RefundIsHonest == Honest(Cases!Families["refund"])
<1> DEFINE F == Cases!Families["refund"]
<1>1. ASSUME NEW w \in Cases!Orders
      PROVE  Cases!Refundable(w) \in Cases!YesNo /\ Cases!Refundable(w) \in Cases!FirstMatch(Cases!RF_POLICY(w))
  <2> DEFINE rules == Cases!RF_POLICY(w)
             c1 == w.finalSale
             c2 == w.days <= w.window
             c3 == w.damaged /\ w.days <= w.window + w.window
             text == IF c1 THEN "no" ELSE IF c2 THEN "yes" ELSE IF c3 THEN "yes" ELSE "no"
  <2>1. DOMAIN rules = 1..4
    BY DEF Cases!RF_POLICY
  <2>2. /\ rules[1][1] = c1 /\ rules[1][2] = "no"
        /\ rules[2][1] = c2 /\ rules[2][2] = "yes"
        /\ rules[3][1] = c3 /\ rules[3][2] = "yes"
        /\ rules[4][1] = TRUE /\ rules[4][2] = "no"
    BY SMT DEF Cases!RF_POLICY, Cases!Orders
  <2>3. Outcome(rules) = text
    <3> HIDE DEF rules, c1, c2, c3
    <3> QED
      BY <2>2, Zenon DEF Outcome
  <2>4. Cases!Refundable(w) = text /\ Cases!Refundable(w) \in Cases!YesNo
    <3> HIDE DEF rules
    <3> QED
      BY DEF Cases!Orders, Cases!Refundable, Cases!Noul, Cases!YesNo
  <2>5. Cases!FirstMatch(rules) = {Outcome(rules)}
    <3>1. 4 \in 4..7 /\ rules[4][1]
      <4> HIDE DEF rules
      <4> QED
        BY <2>2
    <3> HIDE DEF rules
    <3> QED
      BY <2>1, <3>1, OutcomeOfRules
  <2> HIDE DEF text
  <2> QED
    BY <2>3, <2>4, <2>5, Zenon
<1>2. /\ F.worlds = Cases!Orders
      /\ \A w \in Cases!Orders : /\ F.gold[w] = Cases!Refundable(w) /\ F.acceptable[w] = {Cases!Refundable(w)}
                                 /\ F.right[w] = Cases!FirstMatch(Cases!RF_POLICY(w)) /\ F.verified[w] = Cases!YesNo
  BY DEF Cases!Families, Cases!MakeFamily, Cases!Unverified, Cases!Ruled, Cases!Case
<1>3. Honest(F)
  <2> HIDE DEF F
  <2> QED
    BY <1>1, <1>2 DEF Honest, Supported, PassesItself
<1> QED
  BY <1>3

(* financial_triage: the ends of "between 50 and 70" may be read either way. *)
LEMMA FinancialTriageIsHonest == Honest(Cases!Families["financial_triage"])
<1> DEFINE F == Cases!Families["financial_triage"]
<1>1. \A w \in Cases!Snapshots : Cases!Trade(w) \in {"BUY", "HOLD", "SKIP"} /\ Cases!Trade(w) \in Cases!TradeRead(w)
  BY DEF Cases!Snapshots, Cases!Trade, Cases!TradeRead, Cases!Blocked
<1>2. /\ F.worlds = Cases!Snapshots
      /\ \A w \in Cases!Snapshots : /\ F.gold[w] = Cases!Trade(w) /\ F.acceptable[w] = {Cases!Trade(w)}
                                 /\ F.right[w] = Cases!TradeRead(w) /\ F.verified[w] = {"BUY", "HOLD", "SKIP"}
  BY DEF Cases!Families, Cases!MakeFamily, Cases!Unverified, Cases!Case
<1>3. Honest(F)
  <2> HIDE DEF F
  <2> QED
    BY <1>1, <1>2 DEF Honest, Supported, PassesItself
<1> QED
  BY <1>3

(* semantic_grep: what the lines of a class are about and whether they       *)
(* report a failure settles every criterion.                                 *)
LEMMA SemanticGrepIsHonest == Honest(Cases!Families["semantic_grep"])
<1> DEFINE F == Cases!Families["semantic_grep"]
<1>1. \A w \in Cases!Lines : Cases!Kept(w) \in Cases!YesNo /\ Cases!Kept(w) \in Cases!KeptRead(w)
  <2> DEFINE A(k) == Cases!About[k]
             B(k) == k \notin Cases!Healthy
             Read(c, k) == CASE c = "login_failed" -> A(k) = "access" /\ B(k)
               [] c = "exhausted"    -> A(k) = "capacity" /\ B(k)
               [] c = "unreachable"  -> A(k) = "network" /\ B(k)
               [] c = "deployment"   -> A(k) = "deploy" /\ B(k)
               [] c = "wrong"        -> B(k)
               [] c = "routine"      -> ~B(k)
               [] c = "database"     -> A(k) = "database"
               [] c = "access"       -> A(k) = "access"
  <2>1. \A k \in DOMAIN Cases!About : (k \in Cases!Criteria["login_failed"]) = (A(k) = "access" /\ B(k))
    BY DEF Cases!About, Cases!Criteria, Cases!Healthy
  <2>2. \A k \in DOMAIN Cases!About : (k \in Cases!Criteria["exhausted"]) = (A(k) = "capacity" /\ B(k))
    BY DEF Cases!About, Cases!Criteria, Cases!Healthy
  <2>3. \A k \in DOMAIN Cases!About : (k \in Cases!Criteria["unreachable"]) = (A(k) = "network" /\ B(k))
    BY DEF Cases!About, Cases!Criteria, Cases!Healthy
  <2>4. \A k \in DOMAIN Cases!About : (k \in Cases!Criteria["deployment"]) = (A(k) = "deploy" /\ B(k))
    BY DEF Cases!About, Cases!Criteria, Cases!Healthy
  <2>5. \A k \in DOMAIN Cases!About : (k \in Cases!Criteria["wrong"]) = B(k)
    BY DEF Cases!About, Cases!Criteria, Cases!Healthy
  <2>6. \A k \in DOMAIN Cases!About : (k \in Cases!Criteria["routine"]) = ~B(k)
    BY DEF Cases!About, Cases!Criteria, Cases!Healthy
  <2>7. \A k \in DOMAIN Cases!About : (k \in Cases!Criteria["database"]) = (A(k) = "database")
    BY DEF Cases!About, Cases!Criteria, Cases!Healthy
  <2>8. \A k \in DOMAIN Cases!About : (k \in Cases!Criteria["access"]) = (A(k) = "access")
    BY DEF Cases!About, Cases!Criteria, Cases!Healthy
  <2>9. DOMAIN Cases!Criteria = {"login_failed", "exhausted", "unreachable", "deployment", "wrong", "routine", "database", "access"}
    BY DEF Cases!Criteria
  <2>10. ASSUME NEW c \in DOMAIN Cases!Criteria, NEW k \in DOMAIN Cases!About
         PROVE  (k \in Cases!Criteria[c]) = Read(c, k)
    <3> HIDE DEF A, B
    <3> QED
      BY <2>1, <2>2, <2>3, <2>4, <2>5, <2>6, <2>7, <2>8, <2>9
  <2>11. \A w : Cases!KeptRead(w) = {Cases!Noul(Read(w.criterion, w.class))}
    BY Zenon DEF Cases!KeptRead
  <2> HIDE DEF Read
  <2>12. \A w \in Cases!Lines : w.criterion \in DOMAIN Cases!Criteria /\ w.class \in DOMAIN Cases!About
    BY DEF Cases!Lines
  <2> QED
    BY <2>10, <2>11, <2>12 DEF Cases!Kept, Cases!Noul, Cases!YesNo
<1>2. /\ F.worlds = Cases!Lines
      /\ \A w \in Cases!Lines : /\ F.gold[w] = Cases!Kept(w) /\ F.acceptable[w] = {Cases!Kept(w)}
                                 /\ F.right[w] = Cases!KeptRead(w) /\ F.verified[w] = Cases!YesNo
  BY DEF Cases!Families, Cases!MakeFamily, Cases!Unverified, Cases!Case
<1>3. Honest(F)
  <2> HIDE DEF F
  <2> QED
    BY <1>1, <1>2 DEF Honest, Supported, PassesItself
<1> QED
  BY <1>3

(* soc_recovery. *)
LEMMA SocRecoveryIsHonest == Honest(Cases!Families["soc_recovery"])
<1> DEFINE F == Cases!Families["soc_recovery"]
<1>1. ASSUME NEW w \in Cases!Recoveries
      PROVE  Cases!Recover(w) \in {"remain_isolated", "limited_restore", "full_restore"} /\ Cases!Recover(w) \in Cases!RecoverRead(w)
  <2>1. CASE ~w.clean \/ w.hours < 4
    BY <2>1 DEF Cases!Recoveries, Cases!Recover, Cases!RecoverRead
  <2>2. CASE w.clean /\ ~(w.hours < 4) /\ w.hours >= 24 /\ w.fixed
    BY <2>2 DEF Cases!Recover, Cases!RecoverRead
  <2>3. CASE w.clean /\ ~(w.hours < 4) /\ ~(w.hours >= 24 /\ w.fixed)
    BY <2>3 DEF Cases!Recover, Cases!RecoverRead
  <2> QED
    BY <2>1, <2>2, <2>3 DEF Cases!Recoveries
<1>2. /\ F.worlds = Cases!Recoveries
      /\ \A w \in Cases!Recoveries : /\ F.gold[w] = Cases!Recover(w) /\ F.acceptable[w] = {Cases!Recover(w)}
                                 /\ F.right[w] = Cases!RecoverRead(w) /\ F.verified[w] = {"remain_isolated", "limited_restore", "full_restore"}
  BY DEF Cases!Families, Cases!MakeFamily, Cases!Unverified, Cases!Case
<1>3. Honest(F)
  <2> HIDE DEF F
  <2> QED
    BY <1>1, <1>2 DEF Honest, Supported, PassesItself
<1> QED
  BY <1>3

(* semantic_lint: the label is looked up with the text. *)
LEMMA SemanticLintIsHonest == Honest(Cases!Families["semantic_lint"])
BY DEF Honest, Supported, PassesItself, Cases!Families, Cases!Case, Cases!MakeFamily, Cases!Unverified

(* log_collection, in the same way. *)
LEMMA LogCollectionIsHonest == Honest(Cases!Families["log_collection"])
BY DEF Honest, Supported, PassesItself, Cases!Families, Cases!Case, Cases!MakeFamily, Cases!Unverified

(* The level of a number of points, by ascending floors. *)
LEMMA LevelByFloors ==
  ASSUME NEW p \in Nat, NEW f, DOMAIN f = 1..3, f[1] \in Nat, f[2] \in Nat, f[3] \in Nat, f[1] < f[2], f[2] < f[3]
  PROVE  Cases!Level(p, f) = IF p < f[1] THEN "0" ELSE IF p < f[2] THEN "1" ELSE IF p < f[3] THEN "2" ELSE "3"
<1>1. Cases!Cardinality({i \in 1..3 : p >= f[i]}) = Cardinality({i \in 1..3 : p >= f[i]})
  BY Zenon DEF Cases!Cardinality, Cardinality
<1>2. Cases!Level(p, f) = Cases!Score(IF p < f[1] THEN 0 ELSE IF p < f[2] THEN 1 ELSE IF p < f[3] THEN 2 ELSE 3)
  BY <1>1, FloorsPassed DEF Cases!Level
<1>3. Cases!Score(0) = "0" /\ Cases!Score(1) = "1" /\ Cases!Score(2) = "2" /\ Cases!Score(3) = "3"
  BY DEF Cases!Score
<1> QED
  BY <1>2, <1>3

(* The level that the ranges of points print for it. *)
LEMMA LevelInRanges ==
  ASSUME NEW p \in Nat, NEW f, f[1] \in Nat, f[2] \in Nat, f[3] \in Nat, f[1] < f[2], f[2] < f[3]
  PROVE  (IF p <= f[1] THEN "0" ELSE IF p <= f[2] THEN "1" ELSE IF p <= f[3] THEN "2" ELSE "3") \in Cases!InRanges(p, f)
<1>1. Cases!Score(0) = "0" /\ Cases!Score(1) = "1" /\ Cases!Score(2) = "2" /\ Cases!Score(3) = "3"
  BY DEF Cases!Score
<1> DEFINE In(j) == (j = 0 \/ p > f[j]) /\ (j = 3 \/ p <= f[j + 1])
<1>2. \A j \in 0..3 : In(j) => Cases!Score(j) \in Cases!InRanges(p, f)
  BY DEF Cases!InRanges
<1>3. CASE p <= f[1]
  <2>1. In(0)
    BY <1>3
  <2> QED
    BY <1>1, <1>2, <1>3, <2>1
<1>4. CASE f[1] < p /\ p <= f[2]
  <2>1. In(1)
    BY <1>4
  <2> QED
    BY <1>1, <1>2, <1>4, <2>1
<1>5. CASE f[2] < p /\ p <= f[3]
  <2>1. In(2)
    BY <1>5
  <2> QED
    BY <1>1, <1>2, <1>5, <2>1
<1>6. CASE f[3] < p
  <2>1. In(3)
    BY <1>6
  <2> QED
    BY <1>1, <1>2, <1>6, <2>1
<1> QED
  BY <1>3, <1>4, <1>5, <1>6

(* lead_scoring: the floors of the code are the ends of the printed ranges. *)
LEMMA LeadScoringIsHonest ==
  Honest(Cases!Families["lead_scoring"])
<1> DEFINE F == Cases!Families["lead_scoring"]
<1>1. ASSUME NEW w \in Cases!Leads PROVE Cases!LeadLevel(w) \in Cases!Scores /\ Cases!LeadLevel(w) \in Cases!LeadRead(w)
  <2> DEFINE f == <<3, 5, 7>>
             t == <<2, 4, 6>>
             p == Cases!LeadPoints(w)
  <2>1. p \in Nat
    BY DEF Cases!LeadPoints, Cases!Leads, Cases!Points
  <2>2. DOMAIN f = 1..3 /\ f[1] = 3 /\ f[2] = 5 /\ f[3] = 7 /\ t[1] = 2 /\ t[2] = 4 /\ t[3] = 6
    OBVIOUS
  <2>3. Cases!LeadLevel(w) = Cases!Level(p, f) /\ Cases!LeadRead(w) = Cases!InRanges(p, t)
    BY Zenon DEF Cases!LeadLevel, Cases!LeadRead
  <2> HIDE DEF f, t, p
  <2>4. Cases!Level(p, f) = IF p < f[1] THEN "0" ELSE IF p < f[2] THEN "1" ELSE IF p < f[3] THEN "2" ELSE "3"
    BY <2>1, <2>2, LevelByFloors
  <2>5. (IF p <= t[1] THEN "0" ELSE IF p <= t[2] THEN "1" ELSE IF p <= t[3] THEN "2" ELSE "3") \in Cases!InRanges(p, t)
    BY <2>1, <2>2, LevelInRanges
  <2> QED
    BY <2>1, <2>2, <2>3, <2>4, <2>5 DEF Cases!Scores
<1>2. /\ F.worlds = Cases!Leads
      /\ \A w \in Cases!Leads : /\ F.gold[w] = Cases!LeadLevel(w) /\ F.acceptable[w] = {Cases!LeadLevel(w)}
                                 /\ F.right[w] = Cases!LeadRead(w) /\ F.verified[w] = Cases!Scores
  BY DEF Cases!Families, Cases!MakeFamily, Cases!Unverified, Cases!Case
<1>3. Honest(F)
  <2> HIDE DEF F
  <2> QED
    BY <1>1, <1>2 DEF Honest, Supported, PassesItself
<1> QED
  BY <1>3

(* churn_risk, in the same way. *)
LEMMA ChurnRiskIsHonest ==
  Honest(Cases!Families["churn_risk"])
<1> DEFINE F == Cases!Families["churn_risk"]
<1>1. ASSUME NEW w \in Cases!Players PROVE Cases!ChurnLevel(w) \in Cases!Scores /\ Cases!ChurnLevel(w) \in Cases!ChurnRead(w)
  <2> DEFINE f == <<2, 4, 6>>
             t == <<1, 3, 5>>
             p == Cases!ChurnPoints(w)
  <2>1. p \in Nat
    BY DEF Cases!ChurnPoints, Cases!Players, Cases!Points
  <2>2. DOMAIN f = 1..3 /\ f[1] = 2 /\ f[2] = 4 /\ f[3] = 6 /\ t[1] = 1 /\ t[2] = 3 /\ t[3] = 5
    OBVIOUS
  <2>3. Cases!ChurnLevel(w) = Cases!Level(p, f) /\ Cases!ChurnRead(w) = Cases!InRanges(p, t)
    BY Zenon DEF Cases!ChurnLevel, Cases!ChurnRead
  <2> HIDE DEF f, t, p
  <2>4. Cases!Level(p, f) = IF p < f[1] THEN "0" ELSE IF p < f[2] THEN "1" ELSE IF p < f[3] THEN "2" ELSE "3"
    BY <2>1, <2>2, LevelByFloors
  <2>5. (IF p <= t[1] THEN "0" ELSE IF p <= t[2] THEN "1" ELSE IF p <= t[3] THEN "2" ELSE "3") \in Cases!InRanges(p, t)
    BY <2>1, <2>2, LevelInRanges
  <2> QED
    BY <2>1, <2>2, <2>3, <2>4, <2>5 DEF Cases!Scores
<1>2. /\ F.worlds = Cases!Players
      /\ \A w \in Cases!Players : /\ F.gold[w] = Cases!ChurnLevel(w) /\ F.acceptable[w] = {Cases!ChurnLevel(w)}
                                 /\ F.right[w] = Cases!ChurnRead(w) /\ F.verified[w] = Cases!Scores
  BY DEF Cases!Families, Cases!MakeFamily, Cases!Unverified, Cases!Case
<1>3. Honest(F)
  <2> HIDE DEF F
  <2> QED
    BY <1>1, <1>2 DEF Honest, Supported, PassesItself
<1> QED
  BY <1>3

(* alert_priority: many false positives raise the floors by two, or take two *)
(* points away.                                                              *)
LEMMA AlertPriorityIsHonest ==
  Honest(Cases!Families["alert_priority"])
<1> DEFINE F == Cases!Families["alert_priority"]
<1>1. ASSUME NEW w \in Cases!Alerts PROVE Cases!AlertLevel(w) \in Cases!Scores /\ Cases!AlertLevel(w) \in Cases!AlertRead(w)
  <2> DEFINE o == Cases!Points(w.falsePositives > 80, 2)
             f == [i \in 1..3 |-> (2 * i) + o]
             t == <<1, 3, 5>>
             p == Cases!AlertPoints(w)
             q == p - (IF w.falsePositives > 80 /\ p >= 2 THEN 2 ELSE 0)
  <2>1. p \in Nat /\ o \in {0, 2} /\ q = p - (IF o = 2 /\ p >= 2 THEN 2 ELSE 0)
    <3>1. p \in Nat
      BY DEF Cases!AlertPoints, Cases!Alerts, Cases!Points
    <3> HIDE DEF p
    <3> QED
      BY <3>1 DEF Cases!Alerts, Cases!Points
  <2>2. Cases!AlertLevel(w) = Cases!Level(p, f) /\ Cases!AlertRead(w) = Cases!InRanges(q, t)
    BY Zenon DEF Cases!AlertLevel, Cases!AlertRead
  <2> HIDE DEF o, p
  <2>3. DOMAIN f = 1..3 /\ f[1] = 2 + o /\ f[2] = 4 + o /\ f[3] = 6 + o /\ t[1] = 1 /\ t[2] = 3 /\ t[3] = 5
    BY <2>1
  <2> HIDE DEF f, t, q
  <2>4. Cases!Level(p, f) = IF p < f[1] THEN "0" ELSE IF p < f[2] THEN "1" ELSE IF p < f[3] THEN "2" ELSE "3"
    BY <2>1, <2>3, LevelByFloors
  <2>5. q \in Nat
    BY <2>1
  <2>6. (IF q <= t[1] THEN "0" ELSE IF q <= t[2] THEN "1" ELSE IF q <= t[3] THEN "2" ELSE "3") \in Cases!InRanges(q, t)
    BY <2>3, <2>5, LevelInRanges
  <2> QED
    BY <2>1, <2>3, <2>2, <2>4, <2>6 DEF Cases!Scores
<1>2. /\ F.worlds = Cases!Alerts
      /\ \A w \in Cases!Alerts : /\ F.gold[w] = Cases!AlertLevel(w) /\ F.acceptable[w] = {Cases!AlertLevel(w)}
                                 /\ F.right[w] = Cases!AlertRead(w) /\ F.verified[w] = Cases!Scores
  BY DEF Cases!Families, Cases!MakeFamily, Cases!Unverified, Cases!Case
<1>3. Honest(F)
  <2> HIDE DEF F
  <2> QED
    BY <1>1, <1>2 DEF Honest, Supported, PassesItself
<1> QED
  BY <1>3

(* recruiting: half of the skills, and two years more than asked, count one  *)
(* each.                                                                     *)
LEMMA RecruitingIsHonest ==
  Honest(Cases!Families["recruiting"])
<1> DEFINE F == Cases!Families["recruiting"]
<1>1. ASSUME NEW w \in Cases!Candidates PROVE Cases!Fit(w) \in Cases!Scores /\ Cases!Fit(w) \in Cases!FitRead(w)
  <2> DEFINE S == {b \in {"skills", "years"} : IF b = "skills" THEN w.nice >= 2 ELSE w.years - w.minYears >= 2}
             a == 2 * w.nice >= 4
             c == w.years >= w.minYears + 2
             k == 1 + Cases!Points(a, 1) + Cases!Points(c, 1)
  <2>1. Cases!Cardinality(S) = Cases!Points(a, 1) + Cases!Points(c, 1)
    <3>1. Cases!Cardinality(S) = Cardinality(S)
      BY Zenon DEF Cases!Cardinality, Cardinality
    <3>2. /\ ("skills" \in S) = a /\ ("years" \in S) = c
      BY DEF Cases!Candidates
    <3>3. S \subseteq {"skills", "years"}
      OBVIOUS
    <3> HIDE DEF S, a, c
    <3>4. CASE ~a /\ ~c
      <4>1. S = {}
        BY <3>2, <3>3, <3>4
      <4> QED
        BY <3>1, <3>4, <4>1, FewElements, SmallSets DEF Cases!Points
    <3>5. CASE a /\ ~c
      <4>1. S = {"skills"}
        BY <3>2, <3>3, <3>5
      <4> QED
        BY <3>1, <3>5, <4>1, FewElements, SmallSets DEF Cases!Points
    <3>6. CASE ~a /\ c
      <4>1. S = {"years"}
        BY <3>2, <3>3, <3>6
      <4> QED
        BY <3>1, <3>6, <4>1, FewElements, SmallSets DEF Cases!Points
    <3>7. CASE a /\ c
      <4>1. S = {"skills", "years"}
        BY <3>2, <3>3, <3>7
      <4> QED
        BY <3>1, <3>7, <4>1, FewElements, SmallSets DEF Cases!Points
    <3> QED
      BY <3>4, <3>5, <3>6, <3>7
  <2>2. Cases!Fit(w) = IF w.missing THEN "0" ELSE Cases!Score(k)
    BY Zenon DEF Cases!Fit
  <2>3. Cases!FitRead(w) = {IF w.missing THEN "0" ELSE Cases!Score(1 + Cases!Cardinality(S))}
    BY Zenon DEF Cases!FitRead
  <2>4. k \in 1..3 /\ k = 1 + Cases!Cardinality(S)
    <3> HIDE DEF S
    <3> QED
      BY <2>1 DEF Cases!Points
  <2> HIDE DEF k, S
  <2>5. Cases!Score(k) \in Cases!Scores
    BY <2>4 DEF Cases!Score, Cases!Scores
  <2> QED
    BY <2>2, <2>3, <2>4, <2>5 DEF Cases!Scores
<1>2. /\ F.worlds = Cases!Candidates
      /\ \A w \in Cases!Candidates : /\ F.gold[w] = Cases!Fit(w) /\ F.acceptable[w] = {Cases!Fit(w)}
                                 /\ F.right[w] = Cases!FitRead(w) /\ F.verified[w] = Cases!Scores
  BY DEF Cases!Families, Cases!MakeFamily, Cases!Unverified, Cases!Case
<1>3. Honest(F)
  <2> HIDE DEF F
  <2> QED
    BY <1>1, <1>2 DEF Honest, Supported, PassesItself
<1> QED
  BY <1>3


-----------------------------------------------------------------------------
(* The runs that are argued for *)

(* All packs but those whose oracle follows chains, of rules until nothing   *)
(* is added and of events to the ones they are anchored at.                  *)
ArguedPacks ==
  DOMAIN Packs \ {"temporal_reasoning", "rule_application", "semantic_entailment"}

(* All families but those that break their own rules, and those that count   *)
(* samples or days.                                                          *)
ArguedFamilies ==
  DOMAIN Families \
    {"hermes_next_action", "control_answer_sufficiency", "entity_resolution", "game_control", "row_validity",
     "probability_exact", "sampling_probability", "temporal_calendar"}

(* Those whose verifier recomputes the label and whose writer stops.         *)
RecomputedFamilies ==
  {"temporal_numeric", "long_policy", "tradeoff_weighted", "effective_dating", "policy_precedence",
   "ambiguous_routing", "weighted_tradeoff", "injection_gate", "triage_priority", "moderation_class",
   "escalate_human", "tool_routing", "context_ranking", "next_action", "claim_verification", "entity_match"}

(* The packs of the registry are sound one by one. *)
LEMMA FactPacksAreSound ==
  ASSUME NEW p \in ArguedPacks \cap DOMAIN FactPacks
  PROVE  Sound(FactPacks[p])
<1>1. /\ FactPacks["next_action_router"] = Router!Pack /\ FactPacks["tool_action_gate"] = ToolGate!Pack
      /\ FactPacks["termination_gate"] = Termination!Pack /\ FactPacks["retrieval_gate"] = Retrieval!Pack
      /\ FactPacks["prompt_injection_gate"] = Untrusted!Pack /\ FactPacks["answer_sufficiency"] = Sufficiency!Pack
      /\ FactPacks["authorization_gate"] = Authorization!Pack /\ FactPacks["communication_urgency"] = Urgency!Pack
      /\ FactPacks["document_relevance"] = Relevance!Pack /\ FactPacks["communication_intent"] = Intent!Pack
      /\ FactPacks["extraction_validation"] = Extraction!Pack /\ FactPacks["document_type"] = DocType!Pack
  BY DEF FactPacks
<1>2. p \in {"next_action_router", "tool_action_gate", "termination_gate", "retrieval_gate", "prompt_injection_gate",
        "answer_sufficiency", "authorization_gate", "communication_urgency", "document_relevance",
        "communication_intent", "extraction_validation", "document_type"}
  BY PackNames DEF ArguedPacks
<1>3. /\ Sound(Router!Pack) /\ Sound(ToolGate!Pack) /\ Sound(Termination!Pack) /\ Sound(Retrieval!Pack)
      /\ Sound(Untrusted!Pack) /\ Sound(Sufficiency!Pack) /\ Sound(Authorization!Pack) /\ Sound(Urgency!Pack)
      /\ Sound(Relevance!Pack) /\ Sound(Intent!Pack) /\ Sound(Extraction!Pack) /\ Sound(DocType!Pack)
  BY RouterIsSound, ToolGateIsSound, TerminationIsSound, RetrievalIsSound, UntrustedIsSound, SufficiencyIsSound,
     AuthorizationIsSound, UrgencyIsSound, RelevanceIsSound, IntentIsSound, ExtractionIsSound, DocumentTypeIsSound, Zenon
<1> QED
  BY <1>1, <1>2, <1>3

(* So are those of text_packs.py. *)
LEMMA ClassPacksAreSound ==
  ASSUME NEW p \in DOMAIN Classes!Packs
  PROVE  Sound(Classes!Packs[p])
<1> DEFINE Single == [c \in DOMAIN Classes!Answer |-> Classes!ClassPack(Classes!Answer[c])]
           Others == [ticket_triage |-> Classes!ClassPack(Classes!Queues),
                      message_manipulation_gate |-> Classes!Manipulation,
                      content_moderation_gate |-> Classes!Moderated]
<1>1. Classes!Packs = [x \in DOMAIN Single \cup DOMAIN Others |-> IF x \in DOMAIN Single THEN Single[x] ELSE Others[x]]
  BY Zenon DEF Classes!Packs, Classes!Merged
<1>2. \A x \in DOMAIN Single : Sound(Single[x])
  <2>1. \A c \in DOMAIN Classes!Answer : Sound(Classes!ClassPack(Classes!Answer[c]))
    BY ClassPackIsSound, Zenon
  <2> QED
    BY <2>1, Zenon
<1>3. \A x \in DOMAIN Others : Sound(Others[x])
  <2>1. Sound(Classes!ClassPack(Classes!Queues))
    BY ClassPackIsSound, Zenon
  <2>2. /\ Others["ticket_triage"] = Classes!ClassPack(Classes!Queues)
        /\ Others["message_manipulation_gate"] = Classes!Manipulation
        /\ Others["content_moderation_gate"] = Classes!Moderated
        /\ DOMAIN Others = {"ticket_triage", "message_manipulation_gate", "content_moderation_gate"}
    OBVIOUS
  <2> HIDE DEF Others
  <2> QED
    BY <2>1, <2>2, ManipulationIsSound, ModerationIsSound
<1> HIDE DEF Single, Others
<1> QED
  BY <1>1, <1>2, <1>3

(* And so every pack that is argued for. *)
LEMMA PacksAreSound ==
  ASSUME NEW p \in ArguedPacks
  PROVE  Sound(Packs[p])
<1>1. CASE p \in DOMAIN FactPacks
  BY <1>1, FactPacksAreSound, TablesApart
<1>2. CASE p \in DOMAIN Classes!Packs
  BY <1>2, ClassPacksAreSound, TablesApart
<1> QED
  BY <1>1, <1>2, TablesApart DEF ArguedPacks

(* Every family that is argued for has honest rows. *)
LEMMA FamiliesAreHonest ==
  ASSUME NEW f \in ArguedFamilies
  PROVE  Honest(Families[f])
<1>1. CASE f \in DOMAIN V1!Families
  <2>1. f \in {"temporal_numeric", "long_policy", "underdetermined", "tradeoff_weighted"}
    BY <1>1, FamilyNames DEF ArguedFamilies
  <2>2. /\ Honest(V1!Families["temporal_numeric"]) /\ Honest(V1!Families["long_policy"])
        /\ Honest(V1!Families["underdetermined"]) /\ Honest(V1!Families["tradeoff_weighted"])
    BY TemporalNumericRecomputes, LongPolicyRecomputes, UnderdeterminedIsHonest, TradeoffWeightedRecomputes,
       Zenon DEF Recomputes
  <2> QED
    BY <1>1, <2>1, <2>2, TablesApart
<1>2. CASE f \in DOMAIN V2!Families
  <2>1. f \in {"effective_dating", "policy_precedence", "ambiguous_routing", "weighted_tradeoff"}
    BY <1>2, FamilyNames DEF ArguedFamilies
  <2>2. /\ Honest(V2!Families["effective_dating"]) /\ Honest(V2!Families["policy_precedence"])
        /\ Honest(V2!Families["ambiguous_routing"]) /\ Honest(V2!Families["weighted_tradeoff"])
    BY EffectiveDatingRecomputes, PolicyPrecedenceRecomputes, AmbiguousRoutingRecomputes,
       WeightedTradeoffRecomputes, Zenon DEF Recomputes
  <2> QED
    BY <1>2, <2>1, <2>2, TablesApart
<1>3. CASE f \in DOMAIN Long!Families
  <2>1. f \in {"multi_hop_procedure", "long_policy_v2"}
    BY <1>3, FamilyNames DEF ArguedFamilies
  <2>2. Long!Families["long_policy_v2"] = V2!Families["policy_precedence"]
    BY LongFormIsThePolicy DEF Long!Families
  <2>3. Honest(V2!Families["policy_precedence"]) /\ Honest(Long!Families["multi_hop_procedure"])
    BY PolicyPrecedenceRecomputes, MultiHopProcedureIsHonest, Zenon DEF Recomputes
  <2> QED
    BY <1>3, <2>1, <2>2, <2>3, TablesApart
<1>4. CASE f \in DOMAIN Hermes!Families
  <2>1. f \in {"hermes_command_risk", "hermes_result_injection"}
    BY <1>4, FamilyNames DEF ArguedFamilies
  <2> QED
    BY <1>4, <2>1, CommandRiskIsHonest, ResultInjectionIsHonest, TablesApart
<1>5. CASE f \in DOMAIN Control!Families
  <2>1. f \in {"injection_gate", "triage_priority", "moderation_class", "escalate_human", "tool_routing",
          "context_ranking", "next_action", "claim_verification", "entity_match"}
    BY <1>5, FamilyNames DEF ArguedFamilies
  <2>2. /\ Honest(Control!Families["injection_gate"]) /\ Honest(Control!Families["triage_priority"])
        /\ Honest(Control!Families["moderation_class"]) /\ Honest(Control!Families["escalate_human"])
        /\ Honest(Control!Families["tool_routing"]) /\ Honest(Control!Families["context_ranking"])
        /\ Honest(Control!Families["next_action"]) /\ Honest(Control!Families["claim_verification"])
        /\ Honest(Control!Families["entity_match"])
    BY ControlInjectionRecomputes, ControlTriageRecomputes, ControlModerationRecomputes,
       ControlEscalationRecomputes, ControlRoutingRecomputes, ControlRankingRecomputes,
       ControlNextActionRecomputes, ControlClaimRecomputes, ControlMatchRecomputes, Zenon DEF Recomputes
  <2> QED
    BY <1>5, <2>1, <2>2, TablesApart
<1>6. CASE f \in DOMAIN Cases!Families
  <2>1. f \in {"fraud_risk", "financial_triage", "robot_control", "lead_scoring", "churn_risk", "alert_priority",
          "semantic_grep", "semantic_lint", "log_collection", "invoice", "insurance_claims", "soc_triage",
          "soc_escalation", "soc_recovery", "recruiting", "model_routing", "refund"}
    BY <1>6, FamilyNames DEF ArguedFamilies
  <2>2. /\ Honest(Cases!Families["fraud_risk"]) /\ Honest(Cases!Families["financial_triage"])
        /\ Honest(Cases!Families["robot_control"]) /\ Honest(Cases!Families["lead_scoring"])
        /\ Honest(Cases!Families["churn_risk"]) /\ Honest(Cases!Families["alert_priority"])
        /\ Honest(Cases!Families["semantic_grep"]) /\ Honest(Cases!Families["semantic_lint"])
        /\ Honest(Cases!Families["log_collection"]) /\ Honest(Cases!Families["invoice"])
        /\ Honest(Cases!Families["insurance_claims"]) /\ Honest(Cases!Families["soc_triage"])
        /\ Honest(Cases!Families["soc_escalation"]) /\ Honest(Cases!Families["soc_recovery"])
        /\ Honest(Cases!Families["recruiting"]) /\ Honest(Cases!Families["model_routing"])
        /\ Honest(Cases!Families["refund"])
    BY FraudRiskIsHonest, FinancialTriageIsHonest, RobotControlIsHonest, LeadScoringIsHonest, ChurnRiskIsHonest,
       AlertPriorityIsHonest, SemanticGrepIsHonest, SemanticLintIsHonest, LogCollectionIsHonest, InvoiceIsHonest,
       InsuranceClaimsIsHonest, SocTriageIsHonest, SocEscalationIsHonest, SocRecoveryIsHonest, RecruitingIsHonest,
       ModelRoutingIsHonest, RefundIsHonest, Zenon
  <2> QED
    BY <1>6, <2>1, <2>2, TablesApart
<1> QED
  BY <1>1, <1>2, <1>3, <1>4, <1>5, <1>6, TablesApart DEF ArguedFamilies

(* A recomputing verifier passes no label that the text does not support,    *)
(* and its writer stops at one it does not pass.                             *)
LEMMA RecomputedFamiliesCatchBugs ==
  ASSUME NEW f \in RecomputedFamilies
  PROVE  CatchesBugs(Families[f]) /\ f \notin Lenient
<1>1. f \in DOMAIN V1!Families \cup DOMAIN V2!Families \cup DOMAIN Control!Families
  BY FamilyNames DEF RecomputedFamilies
<1>2. CASE f \in DOMAIN V1!Families
  <2>1. f \in {"temporal_numeric", "long_policy", "tradeoff_weighted"}
    BY <1>2, FamilyNames DEF RecomputedFamilies
  <2>2. /\ CatchesBugs(V1!Families["temporal_numeric"]) /\ CatchesBugs(V1!Families["long_policy"])
        /\ CatchesBugs(V1!Families["tradeoff_weighted"])
    BY TemporalNumericRecomputes, LongPolicyRecomputes, TradeoffWeightedRecomputes, Zenon DEF Recomputes
  <2> QED
    BY <1>2, <2>1, <2>2, TablesApart, FamilyNames DEF Lenient
<1>3. CASE f \in DOMAIN V2!Families
  <2>1. f \in {"effective_dating", "policy_precedence", "ambiguous_routing", "weighted_tradeoff"}
    BY <1>3, FamilyNames DEF RecomputedFamilies
  <2>2. /\ CatchesBugs(V2!Families["effective_dating"]) /\ CatchesBugs(V2!Families["policy_precedence"])
        /\ CatchesBugs(V2!Families["ambiguous_routing"]) /\ CatchesBugs(V2!Families["weighted_tradeoff"])
    BY EffectiveDatingRecomputes, PolicyPrecedenceRecomputes, AmbiguousRoutingRecomputes,
       WeightedTradeoffRecomputes, Zenon DEF Recomputes
  <2> QED
    BY <1>3, <2>1, <2>2, TablesApart, FamilyNames DEF Lenient
<1>4. CASE f \in DOMAIN Control!Families
  <2>1. f \in {"injection_gate", "triage_priority", "moderation_class", "escalate_human", "tool_routing",
          "context_ranking", "next_action", "claim_verification", "entity_match"}
    BY <1>4, FamilyNames DEF RecomputedFamilies
  <2>2. /\ CatchesBugs(Control!Families["injection_gate"]) /\ CatchesBugs(Control!Families["triage_priority"])
        /\ CatchesBugs(Control!Families["moderation_class"]) /\ CatchesBugs(Control!Families["escalate_human"])
        /\ CatchesBugs(Control!Families["tool_routing"]) /\ CatchesBugs(Control!Families["context_ranking"])
        /\ CatchesBugs(Control!Families["next_action"]) /\ CatchesBugs(Control!Families["claim_verification"])
        /\ CatchesBugs(Control!Families["entity_match"])
    BY ControlInjectionRecomputes, ControlTriageRecomputes, ControlModerationRecomputes,
       ControlEscalationRecomputes, ControlRoutingRecomputes, ControlRankingRecomputes,
       ControlNextActionRecomputes, ControlClaimRecomputes, ControlMatchRecomputes, Zenon DEF Recomputes
  <2> QED
    BY <1>4, <2>1, <2>2, TablesApart, FamilyNames DEF Lenient
<1> QED
  BY <1>1, <1>2, <1>3, <1>4

-----------------------------------------------------------------------------
(* What the rows of a run can be relied on for *)

(* A row that has a pack, and one that has a family. *)
LEMMA RowsOfARun ==
  ASSUME RowInv
  PROVE  /\ Labelled \/ Compared => /\ row.pack \in Chosen \cap DOMAIN Packs
                                    /\ row.world \in Packs[row.pack].worlds
                                    /\ row.truth = Packs[row.pack].label[row.world]
         /\ CodeMade => /\ row.family \in Chosen \cap DOMAIN Families
                        /\ row.world \in Families[row.family].worlds
                        /\ row.honest \in BOOLEAN
                        /\ row.honest => row.label = Families[row.family].gold[row.world]
<1>1. Labelled \/ Compared => row.stage \in {"labelled", "rendered", "accepted", "rejected"}
  BY DEF Labelled, Compared
<1> QED
  BY <1>1 DEF RowInv, PackRow, FamilyRow, CodeMade, Of

(* No name is both a pack and a family, so a run names either.               *)
LEMMA ChosenApart ==
  ASSUME Chosen \subseteq ArguedPacks \cup ArguedFamilies
  PROVE  /\ Chosen \cap DOMAIN Packs \subseteq ArguedPacks
         /\ Chosen \cap DOMAIN Families \subseteq ArguedFamilies
<1>1. DOMAIN Packs \cap DOMAIN Families = {}
  BY TablesApart, PackNames, FamilyNames
<1> QED
  BY <1>1 DEF ArguedPacks, ArguedFamilies

(* A reader who applies the rules as they stand arrives at the label of      *)
(* every row, and at every answer it accepts, in any run of packs and        *)
(* families that are argued for, whatever their generators' bugs.            *)
THEOREM LabelsAreReadable ==
  ASSUME Chosen \subseteq ArguedPacks \cup ArguedFamilies
  PROVE  Spec => []LabelIsReadable
<1>1. ASSUME RowInv PROVE LabelIsReadable
  <2>1. ASSUME Labelled PROVE Packs[row.pack].reader[row.world] \in row.truth
    <3>1. row.pack \in ArguedPacks /\ row.world \in Packs[row.pack].worlds /\ row.truth = Packs[row.pack].label[row.world]
      BY <1>1, <2>1, RowsOfARun, ChosenApart
    <3>2. Sound(Packs[row.pack])
      BY <3>1, PacksAreSound
    <3> QED
      BY <3>1, <3>2, Zenon DEF Sound
  <2>2. ASSUME CodeMade, row.honest
        PROVE  row.label \in Of(row).right[row.world] /\ Of(row).acceptable[row.world] \subseteq Of(row).right[row.world]
    <3>1. /\ row.family \in ArguedFamilies /\ row.world \in Families[row.family].worlds
          /\ row.label = Families[row.family].gold[row.world]
      BY <1>1, <2>2, RowsOfARun, ChosenApart
    <3>2. Honest(Families[row.family])
      BY <3>1, FamiliesAreHonest
    <3> QED
      BY <3>1, <3>2, Zenon DEF Honest, Supported, Of
  <2> QED
    BY <2>1, <2>2, Zenon DEF LabelIsReadable
<1> QED
  BY <1>1, RowAlways, PTL

(* What passes its verifier has a label that its text supports, in any such  *)
(* run in which the generators that may have the bug are those whose         *)
(* verifier recomputes the label.                                            *)
THEOREM PassedRowsAreRight ==
  ASSUME Chosen \subseteq ArguedPacks \cup ArguedFamilies, MayMislabel \subseteq RecomputedFamilies
  PROVE  Spec => []PassedRowsHold
<1>1. ASSUME RowInv PROVE PassedRowsHold
  <2>1. ASSUME row.stage = "accepted", Packs[row.pack].unchecked[row.text] = Packs[row.pack].unchecked[row.world]
        PROVE  Packs[row.pack].label[row.text] \subseteq row.truth
    <3>1. row.pack \in ArguedPacks /\ row.world \in Packs[row.pack].worlds /\ row.truth = Packs[row.pack].label[row.world]
      BY <1>1, <2>1, RowsOfARun, ChosenApart DEF Compared
    <3>2. row.text \in Packs[row.pack].accepted[row.world]
      BY <1>1, <2>1 DEF RowInv, RenderedRow
    <3>3. Sound(Packs[row.pack])
      BY <3>1, PacksAreSound
    <3> QED
      BY <2>1, <3>1, <3>2, <3>3, Zenon DEF Sound
  <2>2. ASSUME row.stage = "written"
        PROVE  row.label \in Of(row).right[row.world]
    <3>1. /\ row.family \in ArguedFamilies /\ row.world \in Families[row.family].worlds /\ row.honest \in BOOLEAN
          /\ row.honest => row.label = Families[row.family].gold[row.world]
      BY <1>1, <2>2, RowsOfARun, ChosenApart DEF CodeMade
    <3>2. CASE row.honest
      BY <3>1, <3>2, FamiliesAreHonest, Zenon DEF Honest, Supported, Of
    <3>3. CASE ~row.honest
      <4>1. row.family \in RecomputedFamilies
        BY <1>1, <2>2, <3>3 DEF RowInv, FamilyRow
      <4>2. CatchesBugs(Families[row.family]) /\ row.family \notin Lenient
        BY <4>1, RecomputedFamiliesCatchBugs
      <4>3. row.label \in Of(row).verified[row.world]
        BY <1>1, <2>2, <4>2 DEF RowInv, FamilyRow
      <4> QED
        BY <3>1, <4>2, <4>3 DEF CatchesBugs, Of
    <3> QED
      BY <3>1, <3>2, <3>3
  <2> QED
    BY <2>1, <2>2, Zenon DEF PassedRowsHold
<1> QED
  BY <1>1, RowAlways, PTL

(* Faithful rows get through: a text that states its world passes the        *)
(* comparison, and a command of families that are argued for and whose       *)
(* generators have no bug writes its files.                                  *)
THEOREM FaithfulRowsPass ==
  ASSUME Chosen \subseteq ArguedPacks \cup ArguedFamilies
  PROVE  Spec => []HonestRowsPass
<1>1. ASSUME RowInv PROVE HonestRowsPass
  <2>1. ASSUME Compared, row.text = row.world PROVE row.stage = "accepted"
    <3>1. row.pack \in ArguedPacks /\ row.world \in Packs[row.pack].worlds
      BY <1>1, <2>1, RowsOfARun, ChosenApart
    <3>2. /\ row.text \in Packs[row.pack].writable[row.world]
          /\ row.stage = "accepted" <=> row.text \in Packs[row.pack].accepted[row.world]
      BY <1>1, <2>1 DEF RowInv, RenderedRow, Compared
    <3>3. Sound(Packs[row.pack])
      BY <3>1, PacksAreSound
    <3> QED
      BY <2>1, <3>1, <3>2, <3>3 DEF Sound
  <2>2. ASSUME CodeMade, row.honest
        PROVE  row.label \in Of(row).verified[row.world] /\ row.stage # "aborted"
    <3>1. /\ row.family \in ArguedFamilies /\ row.world \in Families[row.family].worlds
          /\ row.label = Families[row.family].gold[row.world]
      BY <1>1, <2>2, RowsOfARun, ChosenApart
    <3>2. row.label \in Of(row).verified[row.world]
      BY <3>1, FamiliesAreHonest, Zenon DEF Honest, PassesItself, Of
    <3>3. row.stage # "aborted"
      BY <1>1, <2>2, <3>2 DEF RowInv, FamilyRow, CodeMade
    <3> QED
      BY <3>2, <3>3
  <2> QED
    BY <2>1, <2>2, Zenon DEF HonestRowsPass
<1> QED
  BY <1>1, RowAlways, PTL

(* A call that a row labels allow runs when the tools are given it, in any   *)
(* run.                                                                      *)
THEOREM AllowedCallsOfRowsRun == Spec => []AllowedCallsRun
<1>1. ASSUME RowInv PROVE AllowedCallsRun
  <2>1. SUFFICES ASSUME Labelled, row.pack = "tool_action_gate", row.truth = {"allow"}
                 PROVE  ToolGate!Executes(row.world)
    BY DEF AllowedCallsRun
  <2>2. Packs["tool_action_gate"] = ToolGate!Pack
    <3>1. "tool_action_gate" \in DOMAIN FactPacks /\ FactPacks["tool_action_gate"] = ToolGate!Pack
      BY DEF FactPacks
    <3> QED
      BY <3>1, TablesApart, Zenon
  <2>3. row.world \in ToolGate!Pack.worlds /\ ToolGate!Pack.label[row.world] = {"allow"}
    BY <1>1, <2>1, <2>2, RowsOfARun
  <2>4. row.world \in ToolGate!Worlds /\ ToolGate!Gate(row.world) = "allow"
    BY <2>3 DEF ToolGate!Pack, ToolGate!MakePack
  <2>5. row.world \in ToolGate!Situations /\ ToolGate!EffectStated(row.world)
    BY <2>4, DrawnAssumption, Zenon DEF DrawnAssumption
  <2> QED
    BY <2>4, <2>5, AllowedCallsExecute, Zenon
<1> QED
  BY <1>1, RowAlways, PTL
=============================================================================
