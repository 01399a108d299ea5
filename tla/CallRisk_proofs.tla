--------------------------- MODULE CallRisk_proofs --------------------------
(***************************************************************************)
(* What the call-risk rows can be relied on for, whatever is drawn: that   *)
(* the splits are fed by template groups of their own, and that the cap    *)
(* balances each of them, for any groups, any number of rows and any       *)
(* commands.                                                               *)
(***************************************************************************)
EXTENDS CallRisk, WellFoundedInduction, FiniteSetTheorems, TLAPS

-----------------------------------------------------------------------------
(* The splits and the risky postures, by name. *)
LEMMA Names ==
  /\ ToSet(Splits) = {"train", "calibration", "locked_test", "challenge"}
  /\ \A i \in 1..4 : Splits[i] \in ToSet(Splits)
  /\ \A i \in 2..4 : Splits[i] \in Evaluation
  /\ ToSet(Risky) = {"destructive", "privileged", "exfiltration"}
  /\ \A k, l \in 1..3 : Risky[k] \in ToSet(Risky) /\ (Risky[k] = Risky[l] => k = l)
  /\ \A p \in ToSet(Risky) : \E k \in 1..3 : Risky[k] = p
<1>1. DOMAIN Splits = 1..4 /\ DOMAIN Risky = 1..3
  BY DEF Splits, Risky
<1> QED
  BY <1>1 DEF ToSet, Splits, Risky, Evaluation

-----------------------------------------------------------------------------
(* How the groups are dealt *)

(* What is assumed of the groups of one risky posture. *)
LEMMA RiskyGroups ==
  ASSUME NEW p \in ToSet(Risky), NEW i \in DOMAIN HeldOut[p]
  PROVE  /\ HeldOut[p][i] \notin Train /\ PosturesOf(HeldOut[p][i]) \ {"readonly"} = {p}
         /\ \A j \in DOMAIN HeldOut[p] : HeldOut[p][i] = HeldOut[p][j] => i = j
<1> DEFINE Of(q) == /\ DOMAIN HeldOut[q] = 1..Len(HeldOut[q]) /\ Len(HeldOut[q]) \in Nat /\ Len(HeldOut[q]) >= 3
                    /\ \A m \in DOMAIN HeldOut[q] :
                         /\ HeldOut[q][m] \notin Train /\ PosturesOf(HeldOut[q][m]) \ {"readonly"} = {q}
                         /\ \A j \in DOMAIN HeldOut[q] : HeldOut[q][m] = HeldOut[q][j] => m = j
<1>1. \A q \in ToSet(Risky) : Of(q)
  BY GroupAssumption, Zenon DEF GroupAssumption
<1> QED
  BY <1>1, Zenon

(* A template group is dealt to one split only. *)
LEMMA DealtToOne ==
  ASSUME NEW s \in ToSet(Splits), NEW t \in ToSet(Splits), NEW g \in GroupsOf(s), g \in GroupsOf(t)
  PROVE  s = t
<1>1. ASSUME NEW u \in ToSet(Splits), u # "train", g \in GroupsOf(u)
      PROVE  \E k \in 1..3 : \E i \in DOMAIN HeldOut[Risky[k]] : g = HeldOut[Risky[k]][i] /\ Dealt(k, i) = u
  BY <1>1 DEF GroupsOf
<1>2. ASSUME NEW k \in 1..3, NEW i \in DOMAIN HeldOut[Risky[k]]
      PROVE  /\ HeldOut[Risky[k]][i] \notin Train
             /\ PosturesOf(HeldOut[Risky[k]][i]) \ {"readonly"} = {Risky[k]}
             /\ \A j \in DOMAIN HeldOut[Risky[k]] : HeldOut[Risky[k]][i] = HeldOut[Risky[k]][j] => i = j
  <2>1. Risky[k] \in ToSet(Risky)
    BY Names
  <2> QED
    BY <2>1, RiskyGroups, Zenon
<1>3. CASE s = "train" \/ t = "train"
  BY <1>1, <1>2, <1>3 DEF GroupsOf
<1>4. CASE s # "train" /\ t # "train"
  <2>1. PICK k \in 1..3 : \E i \in DOMAIN HeldOut[Risky[k]] : g = HeldOut[Risky[k]][i] /\ Dealt(k, i) = s
    BY <1>1, <1>4
  <2>2. PICK l \in 1..3 : \E i \in DOMAIN HeldOut[Risky[l]] : g = HeldOut[Risky[l]][i] /\ Dealt(l, i) = t
    BY <1>1, <1>4
  <2>3. k = l
    <3>1. {Risky[k]} = {Risky[l]}
      BY <1>2, <2>1, <2>2
    <3> QED
      BY <3>1, Names
  <2> QED
    BY <1>2, <2>1, <2>2, <2>3
<1> QED
  BY <1>3, <1>4

(* Every evaluation split is dealt a group of every risky posture. *)
LEMMA EveryRiskIsDealt ==
  ASSUME NEW s \in Evaluation, NEW p \in ToSet(Risky)
  PROVE  \E g \in GroupsOf(s) : p \in PosturesOf(g)
<1>1. PICK k \in 1..3 : Risky[k] = p
  BY Names
<1>2. PICK i \in 1..3 : Dealt(k, i) = s
  <2>1. \A n \in 1..3 : Dealt(1, n) = EvaluationOrder[((n - 1) % 3) + 1] /\ Dealt(2, n) = EvaluationOrder[(n % 3) + 1]
                        /\ Dealt(3, n) = EvaluationOrder[((n + 1) % 3) + 1]
    BY DEF Dealt
  <2>2. /\ Dealt(1, 1) = EvaluationOrder[1] /\ Dealt(1, 2) = EvaluationOrder[2] /\ Dealt(1, 3) = EvaluationOrder[3]
        /\ Dealt(2, 1) = EvaluationOrder[2] /\ Dealt(2, 2) = EvaluationOrder[3] /\ Dealt(2, 3) = EvaluationOrder[1]
        /\ Dealt(3, 1) = EvaluationOrder[3] /\ Dealt(3, 2) = EvaluationOrder[1] /\ Dealt(3, 3) = EvaluationOrder[2]
    BY <2>1
  <2>3. \E n \in 1..3 : EvaluationOrder[n] = s
    BY DEF EvaluationOrder, Evaluation
  <2> QED
    BY <2>2, <2>3
<1>3. i \in DOMAIN HeldOut[p] /\ PosturesOf(HeldOut[p][i]) \ {"readonly"} = {p}
  <2>1. DOMAIN HeldOut[p] = 1..Len(HeldOut[p]) /\ Len(HeldOut[p]) \in Nat /\ Len(HeldOut[p]) >= 3
    BY GroupAssumption, Zenon DEF GroupAssumption
  <2>2. i \in DOMAIN HeldOut[p]
    BY <2>1
  <2> QED
    BY <2>2, RiskyGroups
<1>4. HeldOut[p][i] \in GroupsOf(s)
  BY <1>1, <1>2, <1>3 DEF GroupsOf, Evaluation
<1> QED
  BY <1>3, <1>4

-----------------------------------------------------------------------------
(* What is drawn *)

(* The draws and the rows that the groups of a split allow. *)
Draws(s) ==
  {d \in [group : GroupsOf(s), entity : Entities, template : Nat, framing : Nat] :
     d.template \in 1..Len(d.group.templates)}
RowsOf(s) == {Row(d, f) : d \in Draws(s), f \in Frames}

(* The inductive invariant: the rows of a split come from its groups, also  *)
(* the ones that the draw under way may still bring, and no draw is under   *)
(* way once the splits are filled.                                          *)
DrawnInv ==
  /\ at \in 1..4
  /\ draw = NoDraw \/ (pc = "filling" /\ draw \in Draws(Filling))
  /\ DOMAIN rows = ToSet(Splits)
  /\ \A s \in ToSet(Splits) : rows[s] \in Seq(RowsOf(s))

(* The groups and the postures of such rows. *)
LEMMA RowsOfSplit ==
  ASSUME NEW s \in ToSet(Splits), NEW r \in RowsOf(s)
  PROVE  r.group \in GroupsOf(s) /\ r.posture \in Postures
<1>1. PICK d \in Draws(s), f \in Frames : r = Row(d, f)
  BY DEF RowsOf
<1>2. d.group \in GroupsOf(s) /\ d.template \in 1..Len(d.group.templates)
  BY DEF Draws
<1>3. d.group \in Train \cup UNION {ToSet(HeldOut[p]) : p \in ToSet(Risky)}
  BY <1>2, Names DEF GroupsOf, ToSet
<1>4. DOMAIN d.group.templates = 1..Len(d.group.templates) /\ PosturesOf(d.group) \subseteq Postures
  BY <1>3, GroupAssumption DEF GroupAssumption
<1>5. classify(d.group.templates[d.template]) \in PosturesOf(d.group)
  BY <1>2, <1>4 DEF PosturesOf, ToSet
<1>6. r.group = d.group /\ r.posture = classify(d.group.templates[d.template])
  BY <1>1 DEF Row
<1> QED
  BY <1>2, <1>4, <1>5, <1>6

LEMMA DrawnInit == Init => DrawnInv
<1> SUFFICES ASSUME Init PROVE DrawnInv
  OBVIOUS
<1>1. \A s \in ToSet(Splits) : rows[s] = <<>> /\ <<>> \in Seq(RowsOf(s))
  BY DEF Init
<1> QED
  BY <1>1 DEF Init, DrawnInv

LEMMA DrawnStep == DrawnInv /\ [Next]_vars => DrawnInv'
<1> SUFFICES ASSUME DrawnInv, [Next]_vars PROVE DrawnInv'
  OBVIOUS
<1> USE DEF DrawnInv
<1>1. CASE Draw
  <2>1. PICK g \in GroupsOf(Filling), e \in Entities :
          draw' = [group |-> g, entity |-> e, template |-> 1, framing |-> 1]
    BY <1>1 DEF Draw
  <2>2. 1 \in 1..Len(g.templates)
    <3>1. g \in Train \cup UNION {ToSet(HeldOut[p]) : p \in ToSet(Risky)}
      BY Names DEF GroupsOf, ToSet
    <3> QED
      BY <3>1, GroupAssumption DEF GroupAssumption
  <2>3. draw' \in Draws(Filling)
    BY <2>1, <2>2 DEF Draws
  <2> QED
    BY <1>1, <2>3 DEF Draw, Filling
<1>2. CASE Place
  <2>1. pc = "filling" /\ draw \in Draws(Filling) /\ pc' = pc /\ at' = at /\ Filling' = Filling
    BY <1>2 DEF Place, Filling
  <2>2. draw' = NoDraw \/ draw' \in Draws(Filling)
    <3>1. /\ draw.group \in GroupsOf(Filling) /\ draw.entity \in Entities /\ draw.template \in Nat
          /\ draw.framing \in Nat /\ draw.template \in 1..Len(draw.group.templates)
          /\ draw = [group |-> draw.group, entity |-> draw.entity, template |-> draw.template, framing |-> draw.framing]
      BY <2>1 DEF Draws
    <3>2. CASE draw.framing < Framings(Filling)
      <4>1. draw' = [draw EXCEPT !.framing = @ + 1]
        BY <1>2, <3>2 DEF Place
      <4> QED
        BY <3>1, <4>1, draw.framing + 1 \in Nat DEF Draws
    <3>3. CASE ~ (draw.framing < Framings(Filling)) /\ draw.template < Len(draw.group.templates)
      <4>1. draw' = [draw EXCEPT !.template = @ + 1, !.framing = 1]
        BY <1>2, <3>3 DEF Place
      <4>2. draw.template + 1 \in 1..Len(draw.group.templates) /\ draw.template + 1 \in Nat
        <5>1. draw.group \in Train \cup UNION {ToSet(HeldOut[p]) : p \in ToSet(Risky)}
          BY <3>1, Names DEF GroupsOf, ToSet
        <5>2. Len(draw.group.templates) \in Nat
          BY <5>1, GroupAssumption DEF GroupAssumption
        <5> QED
          BY <3>1, <3>3, <5>2
      <4> QED
        BY <3>1, <4>1, <4>2 DEF Draws
    <3> QED
      BY <1>2, <3>2, <3>3 DEF Place
  <2>3. PICK f \in Frames :
          rows' = IF Full \/ Seen(Row(draw, f)) THEN rows ELSE [rows EXCEPT ![Filling] = Append(@, Row(draw, f))]
    BY <1>2 DEF Place
  <2>4. Row(draw, f) \in RowsOf(Filling) /\ Filling \in ToSet(Splits)
    BY <2>1, Names DEF RowsOf, Filling
  <2>5. DOMAIN rows' = ToSet(Splits) /\ \A s \in ToSet(Splits) : rows'[s] \in Seq(RowsOf(s))
    <3>1. CASE rows' = rows
      BY <3>1
    <3>2. CASE rows' = [rows EXCEPT ![Filling] = Append(@, Row(draw, f))]
      <4>1. Append(rows[Filling], Row(draw, f)) \in Seq(RowsOf(Filling))
        BY <2>4
      <4> QED
        BY <2>4, <3>2, <4>1
    <3> QED
      BY <2>3, <3>1, <3>2
  <2> QED
    BY <2>1, <2>2, <2>5
<1>3. CASE NextSplit
  BY <1>3 DEF NextSplit
<1>4. CASE Balance \/ Raise
  BY <1>4 DEF Balance, Raise, Filling
<1>5. CASE UNCHANGED vars
  BY <1>5 DEF vars, Filling
<1> QED
  BY <1>1, <1>2, <1>3, <1>4, <1>5 DEF Next

LEMMA DrawnAlways == Spec => []DrawnInv
<1> QED
  BY DrawnInit, DrawnStep, PTL DEF Spec

(* No template group is used by two splits, and every evaluation split is   *)
(* drawn from groups of every risky posture: for any groups with one risky  *)
(* posture each, any number of rows and whatever is drawn.                  *)
THEOREM EvaluationIsHeldOut == Spec => []EvaluationHeldOut
<1>1. DrawnInv => GroupsHeldOut
  <2> SUFFICES ASSUME DrawnInv, NEW s \in ToSet(Splits), NEW t \in ToSet(Splits), s # t,
                      NEW q \in ToSet(rows[s]), NEW r \in ToSet(rows[t]), q.group = r.group
               PROVE  FALSE
    BY DEF GroupsHeldOut
  <2>1. q \in RowsOf(s) /\ r \in RowsOf(t)
    <3>1. rows[s] \in Seq(RowsOf(s)) /\ rows[t] \in Seq(RowsOf(t))
      BY DEF DrawnInv
    <3> QED
      BY <3>1 DEF ToSet
  <2>2. q.group \in GroupsOf(s) /\ r.group \in GroupsOf(t)
    BY <2>1, RowsOfSplit
  <2> QED
    BY <2>2, DealtToOne
<1>2. DrawnInv => EveryRiskDealt
  <2> SUFFICES ASSUME at \in 2..4, NEW p \in ToSet(Risky)
               PROVE  \E g \in GroupsOf(Filling) : p \in PosturesOf(g)
    BY DEF EveryRiskDealt
  <2> QED
    BY EveryRiskIsDealt, Names DEF Filling
<1> QED
  BY <1>1, <1>2, DrawnAlways, PTL DEF EvaluationHeldOut

-----------------------------------------------------------------------------
(* What the cap keeps *)

(* A non-empty set of naturals has a least element. *)
LEMMA LeastNat ==
  ASSUME NEW T \in SUBSET Nat, T # {}
  PROVE  \E x \in T : \A y \in T : x <= y
<1>1. PICK x \in T : \A y \in T : ~ (<<y, x>> \in OpToRel(<, Nat))
  BY NatLessThanWellFounded, WFMin
<1>2. \A y \in T : ~ (y < x)
  BY <1>1 DEF OpToRel
<1> QED
  BY <1>2

(* A set of positions that has one has a last one. *)
LEMMA LastPosition ==
  ASSUME NEW n \in Nat, NEW T \in SUBSET (1..n), T # {}
  PROVE  \E x \in T : \A y \in T : y <= x
<1>1. PICK z \in {n - x : x \in T} : \A y \in {n - x : x \in T} : z <= y
  <2>1. \A x \in T : n - x \in Nat
    OBVIOUS
  <2>2. {n - x : x \in T} \in SUBSET Nat /\ {n - x : x \in T} # {}
    BY <2>1
  <2> QED
    BY <2>2, LeastNat
<1>2. PICK x \in T : z = n - x
  BY <1>1
<1>3. ASSUME NEW y \in T PROVE y <= x
  <2>1. n - y \in {n - w : w \in T}
    OBVIOUS
  <2>2. n - x <= n - y
    BY <1>1, <1>2, <2>1
  <2> QED
    BY <2>2
<1> QED
  BY <1>3

(* The positions of a set that come before one. *)
Before(E, i) == {j \in E : j < i}

(* The positions of a set that fewer than cap of its positions precede are  *)
(* cap in number, or they are all of it; a cap of one leaves the first.     *)
LEMMA FirstFew ==
  ASSUME NEW n \in Nat, NEW E \in SUBSET (1..n), NEW cap \in Nat, NEW Few,
         Few \in SUBSET E, \A i \in E : i \in Few <=> Cardinality(Before(E, i)) < cap
  PROVE  /\ Cardinality(Few) \in Nat /\ Cardinality(Few) <= cap
         /\ Few # E => Cardinality(Few) = cap
         /\ cap > 0 /\ E # {} => Cardinality(Few) > 0
<1>1. IsFiniteSet(E) /\ \A i \in E : i \in Nat
  <2>1. IsFiniteSet(1..n)
    BY FS_Interval
  <2>2. IsFiniteSet(E)
    BY <2>1, FS_Subset
  <2> QED
    BY <2>2
<1>2. \A i : Before(E, i) \in SUBSET E /\ IsFiniteSet(Before(E, i)) /\ Cardinality(Before(E, i)) \in Nat
  <2> TAKE i
  <2>1. Before(E, i) \in SUBSET E
    BY DEF Before
  <2> QED
    BY <1>1, <2>1, FS_Subset, FS_CardinalityType
<1>3. Few \in SUBSET E /\ \A i \in E : i \in Few <=> Cardinality(Before(E, i)) < cap
  OBVIOUS
<1>4. IsFiniteSet(Few) /\ Cardinality(Few) \in Nat
  BY <1>1, <1>3, FS_Subset, FS_CardinalityType
<1>5. ASSUME NEW i \in E, NEW j \in E, i <= j PROVE Cardinality(Before(E, i)) <= Cardinality(Before(E, j))
  <2>1. ASSUME NEW x \in Before(E, i) PROVE x \in Before(E, j)
    <3>1. x \in E /\ x < i /\ x \in Nat /\ i \in Nat /\ j \in Nat
      BY <1>1 DEF Before
    <3>2. x < j
      BY <1>5, <3>1
    <3> QED
      BY <3>1, <3>2 DEF Before
  <2> QED
    BY <1>2, <2>1, FS_Subset
<1>6. ASSUME Few # {} PROVE Cardinality(Few) <= cap
  <2>1. PICK y \in Few : \A x \in Few : x <= y
    BY <1>3, <1>6, LastPosition
  <2>2. ASSUME NEW x \in Few PROVE x \in Before(E, y) \cup {y}
    <3>1. x \in E /\ x \in Nat /\ y \in Nat /\ x <= y
      BY <1>1, <1>3, <2>1
    <3>2. x < y \/ x = y
      BY <3>1
    <3> QED
      BY <3>1, <3>2 DEF Before
  <2>3. y \notin Before(E, y) /\ Cardinality(Before(E, y)) < cap
    <3>1. y \in Nat /\ ~ (y < y)
      BY <1>1, <1>3
    <3> QED
      BY <1>3, <3>1 DEF Before
  <2>4. Cardinality(Before(E, y) \cup {y}) = Cardinality(Before(E, y)) + 1 /\ IsFiniteSet(Before(E, y) \cup {y})
    BY <1>2, <2>3, FS_AddElement
  <2>5. Cardinality(Few) <= Cardinality(Before(E, y) \cup {y})
    BY <2>2, <2>4, FS_Subset
  <2> QED
    BY <1>2, <1>4, <2>3, <2>4, <2>5
<1>7. ASSUME Few = {} PROVE Cardinality(Few) = 0
  BY <1>7, FS_EmptySet
<1>8. ASSUME Few # E PROVE Cardinality(Few) >= cap
  <2>1. PICK x \in E \ Few : \A y \in E \ Few : x <= y
    <3>1. E \ Few \in SUBSET Nat /\ E \ Few # {}
      BY <1>1, <1>3, <1>8
    <3> QED
      BY <3>1, LeastNat
  <2>2. ASSUME NEW y \in Before(E, x) PROVE y \in Few
    <3>1. y \in E /\ y < x /\ y \in Nat /\ x \in Nat
      BY <1>1 DEF Before
    <3>2. ~ (x <= y)
      BY <3>1
    <3> QED
      BY <2>1, <3>1, <3>2
  <2>3. Cardinality(Before(E, x)) >= cap
    <3>1. x \in E /\ ~ (Cardinality(Before(E, x)) < cap)
      BY <1>3, <2>1
    <3> QED
      BY <1>2, <3>1
  <2>4. Cardinality(Before(E, x)) <= Cardinality(Few)
    BY <1>4, <2>2, FS_Subset
  <2> QED
    BY <1>2, <1>4, <2>3, <2>4
<1>9. ASSUME cap > 0, E # {} PROVE Cardinality(Few) > 0
  <2>1. CASE Few = E
    <3>1. Cardinality(Few) # 0
      BY <1>1, <1>9, <2>1, FS_EmptySet
    <3> QED
      BY <1>4, <3>1
  <2>2. CASE Few # E
    BY <1>4, <1>8, <1>9, <2>2
  <2> QED
    BY <2>1, <2>2
<1>10. Cardinality(Few) <= cap
  BY <1>6, <1>7
<1> QED
  BY <1>4, <1>8, <1>9, <1>10

(* The rarest posture that occurs bounds the cap, which leaves some row of  *)
(* every posture.                                                           *)
LEMMA CapFitsRarest ==
  ASSUME NEW drawn, NEW n \in Nat, DOMAIN drawn = 1..n, n > 0,
         \A i \in DOMAIN drawn : drawn[i].posture \in Postures, NEW s
  PROVE  /\ Cap(s, drawn) \in Nat \ {0}
         /\ \A q \in Postures : With(drawn, q) # {} => 10 * Cap(s, drawn) <= 13 * Cardinality(With(drawn, q))
<1>1. \A q : IsFiniteSet(With(drawn, q)) /\ Cardinality(With(drawn, q)) \in Nat
             /\ (With(drawn, q) # {} => Cardinality(With(drawn, q)) # 0)
  <2> TAKE q
  <2>1. With(drawn, q) \in SUBSET (1..n)
    BY DEF With
  <2>2. IsFiniteSet(With(drawn, q))
    BY <2>1, FS_Interval, FS_Subset
  <2> QED
    BY <2>2, FS_CardinalityType, FS_EmptySet
<1>2. Occurring(drawn) \in SUBSET Nat /\ Occurring(drawn) # {} /\ 0 \notin Occurring(drawn)
  <2>1. 1 \in With(drawn, drawn[1].posture) /\ drawn[1].posture \in Postures
    BY DEF With
  <2> QED
    BY <1>1, <2>1 DEF Occurring
<1>3. PICK m \in Occurring(drawn) : \A y \in Occurring(drawn) : m <= y
  BY <1>2, LeastNat
<1>4. Min(Occurring(drawn)) = m
  <2>1. \A x \in Occurring(drawn) : (\A y \in Occurring(drawn) : x <= y) => x = m
    BY <1>2, <1>3
  <2> QED
    BY <1>3, <2>1 DEF Min
<1>5. m \in Nat \ {0}
  BY <1>2
<1>6. Cap(s, drawn) \in Nat \ {0} /\ 10 * Cap(s, drawn) <= 13 * m
  <2> DEFINE cap == (13 * m) \div 10
  <2>1. cap \in Nat \ {0} /\ 10 * cap <= 13 * m
    BY <1>5
  <2>2. Cap(s, drawn) = IF s = "train" \/ cap < 90 THEN cap ELSE 90
    BY <1>4 DEF Cap
  <2> HIDE DEF cap
  <2> QED
    BY <1>5, <2>1, <2>2
<1>7. ASSUME NEW q \in Postures, With(drawn, q) # {} PROVE m <= Cardinality(With(drawn, q))
  BY <1>1, <1>3, <1>7 DEF Occurring
<1>8. ASSUME NEW q \in Postures, With(drawn, q) # {}
      PROVE  10 * Cap(s, drawn) <= 13 * Cardinality(With(drawn, q))
  BY <1>1, <1>5, <1>6, <1>7, <1>8
<1> QED
  BY <1>6, <1>8

(* No posture is lost by the cap, and none keeps more than 1.3 times the    *)
(* rows of another.                                                         *)
LEMMA CapBalances ==
  ASSUME NEW drawn, NEW n \in Nat, DOMAIN drawn = 1..n, n > 0,
         \A i \in DOMAIN drawn : drawn[i].posture \in Postures, NEW s,
         NEW p \in Postures, NEW q \in Postures, NEW K, K = Kept(drawn, Cap(s, drawn))
  PROVE  /\ With(drawn, p) # {} => Cardinality(K \cap With(drawn, p)) > 0
         /\ Cardinality(K \cap With(drawn, q)) > 0 =>
              10 * Cardinality(K \cap With(drawn, p)) <= 13 * Cardinality(K \cap With(drawn, q))
<1> DEFINE cap == Cap(s, drawn)
           E(c) == With(drawn, c)
           N(c) == Cardinality(K \cap E(c))
<1>1. cap \in Nat \ {0} /\ \A c \in Postures : E(c) # {} => 10 * cap <= 13 * Cardinality(E(c))
  BY CapFitsRarest
<1>2. ASSUME NEW c \in Postures
      PROVE  /\ N(c) \in Nat /\ N(c) <= cap /\ (K \cap E(c) # E(c) => N(c) = cap)
             /\ E(c) # {} => N(c) > 0
  <2>1. E(c) \in SUBSET (1..n)
    BY DEF With
  <2>2. \A i \in E(c) : i \in K \cap E(c) <=> Cardinality(Before(E(c), i)) < cap
    <3> TAKE i \in E(c)
    <3>1. {j \in With(drawn, drawn[i].posture) : j < i} = Before(E(c), i) /\ i \in DOMAIN drawn
      BY DEF With, Before
    <3> QED
      BY <3>1 DEF Kept
  <2>3. cap \in Nat /\ cap > 0
    BY <1>1
  <2> HIDE DEF E, cap
  <2> QED
    BY <2>1, <2>2, <2>3, FirstFew
<1>3. ASSUME N(q) > 0 PROVE 10 * cap <= 13 * N(q)
  <2>1. CASE K \cap E(q) = E(q)
    <3> HIDE DEF E, cap
    <3>1. E(q) # {}
      <4>1. Cardinality({}) = 0
        BY FS_EmptySet
      <4>2. Cardinality(E(q)) > 0
        BY <1>3, <2>1
      <4>3. ~ (0 > 0)
        OBVIOUS
      <4> QED
        BY <4>1, <4>2, <4>3, Zenon
    <3> HIDE DEF E, cap
    <3> QED
      BY <1>1, <2>1, <3>1
  <2>2. CASE K \cap E(q) # E(q)
    <3>1. N(q) = cap
      BY <1>2, <2>2
    <3> HIDE DEF E, cap, N
    <3> QED
      BY <1>1, <3>1
  <2> QED
    BY <2>1, <2>2
<1>4. (E(p) # {} => N(p) > 0) /\ (N(q) > 0 => 10 * N(p) <= 13 * N(q))
  <2>1. N(p) \in Nat /\ N(p) <= cap /\ N(q) \in Nat /\ cap \in Nat /\ (E(p) # {} => N(p) > 0)
    BY <1>1, <1>2
  <2> HIDE DEF E, cap, N
  <2> QED
    BY <1>3, <2>1
<1> QED
  BY <1>4

(* Once make_rows returned, what it writes is the capped rows. *)
CappedInv == pc = "returned" => \A s \in ToSet(Splits) :
               rows[s] # <<>> /\ out[s] = Kept(rows[s], Cap(s, rows[s]))

LEMMA CappedStep == DrawnInv /\ CappedInv /\ [Next]_vars => CappedInv'
<1> SUFFICES ASSUME DrawnInv, CappedInv, [Next]_vars, pc' = "returned"
             PROVE  \A s \in ToSet(Splits) : rows'[s] # <<>> /\ out'[s] = Kept(rows'[s], Cap(s, rows'[s]))
  BY DEF CappedInv
<1>1. CASE Balance
  BY <1>1 DEF Balance
<1>2. CASE UNCHANGED vars
  BY <1>2 DEF CappedInv, vars
<1>3. CASE Draw \/ Place \/ NextSplit \/ Raise
  BY <1>3 DEF Draw, Place, NextSplit, Raise, DrawnInv
<1> QED
  BY <1>1, <1>2, <1>3 DEF Next

(* What make_rows returns is balanced: the part of Returns that is a matter *)
(* of safety.                                                               *)
THEOREM ReturnsBalanced == Spec => [](pc = "returned" => Balanced)
<1>1. DrawnInv /\ CappedInv /\ pc = "returned" => Balanced
  <2> SUFFICES ASSUME DrawnInv, CappedInv, pc = "returned",
                      NEW s \in ToSet(Splits), NEW p \in Postures, NEW q \in Postures
               PROVE  LET n(c) == Cardinality(out[s] \cap With(rows[s], c))
                      IN /\ With(rows[s], p) # {} => n(p) > 0
                         /\ n(q) > 0 => 10 * n(p) <= 13 * n(q)
    BY DEF Balanced
  <2>1. rows[s] \in Seq(RowsOf(s)) /\ rows[s] # <<>> /\ out[s] = Kept(rows[s], Cap(s, rows[s]))
    BY DEF DrawnInv, CappedInv
  <2>2. DOMAIN rows[s] = 1..Len(rows[s]) /\ Len(rows[s]) \in Nat /\ Len(rows[s]) > 0
    BY <2>1
  <2>3. \A i \in DOMAIN rows[s] : rows[s][i].posture \in Postures
    BY <2>1, <2>2, RowsOfSplit
  <2> QED
    BY <2>1, <2>2, <2>3, CapBalances
<1>2. Init => CappedInv
  BY DEF Init, CappedInv
<1> QED
  BY <1>1, <1>2, CappedStep, DrawnAlways, PTL DEF Spec
=============================================================================
