-------------------------- MODULE ProgrammaticLong --------------------------
(* programmatic/v2_long.py: periods that end on a calendar, a procedure of   *)
(* several look-ups, and the long form of the policies of v2_policy.py.      *)
EXTENDS RowSource, Integers, Sequences, FiniteSetsExt

V2 == INSTANCE ProgrammaticV2         \* long_policy is policy_precedence, longer

(* Months are numbered from January 2025, days from 1 January 2025, which is *)
(* a Wednesday; weekday 0 is Monday.                                         *)
MonthDays == <<31, 28, 31, 30, 31, 30, 31, 31, 30, 31, 30, 31>>
Days(m) == MonthDays[(m % 12) + 1] + (IF m = 37 THEN 1 ELSE 0)
FirstDay[m \in 0..60] == IF m = 0 THEN 0 ELSE FirstDay[m - 1] + Days(m - 1)
Ordinal(m, d) == FirstDay[m] + d - 1
Weekday(day) == (day + 2) % 7

-----------------------------------------------------------------------------
(* temporal_calendar: an anchor is a month and a day, holidays count from    *)
(* it; the event comes some hours before or after the midnight that ends the *)
(* period and is stamped in another zone.                                    *)
Anchors == {<<0, 15>>, <<1, 28>>, <<7, 31>>, <<10, 30>>, <<12, 29>>}
Period(kind, n) ==
  [kind : {kind}, n : n, anchor : Anchors,
   roll : IF kind = "months" THEN BOOLEAN ELSE {FALSE},
   exclusive : IF kind = "months" THEN BOOLEAN ELSE {FALSE},
   counted : IF kind \in {"days", "weeks"} THEN BOOLEAN ELSE {FALSE},
   holidays : IF kind = "bdays" THEN {{1}, {2, 7}, {5, 14}} ELSE {{}},
   ask : {"date"} \cup {"in_time"}, hours : {-30, -2, 2, 30}, zones : {-7, 8}]
Periods ==
  {w \in Period("months", {3, 6, 24}) \cup Period("days", {14, 30})
           \cup Period("weeks", {2}) \cup Period("bdays", {5, 10}) :
     w.ask = "date" => w.hours = 2 /\ w.zones = 8}

Start(w) == Ordinal(w.anchor[1], w.anchor[2])
Business(w, day) == Weekday(day) < 5 /\ day - Start(w) \notin w.holidays

(* Mutated form: a day the month lacks is not brought back to its last.      *)
AddMonths_Overflow(w) ==
  LET m == w.anchor[1] + w.n
  IN FirstDay[m] + w.anchor[2] - 1

(* add_months: the last day of a month that is too short, or the day after   *)
AddMonths(w) ==
  LET m == w.anchor[1] + w.n
  IN IF w.anchor[2] <= Days(m) THEN Ordinal(m, w.anchor[2])
     ELSE Ordinal(m, Days(m)) + (IF w.roll THEN 1 ELSE 0)

(* add_bdays *)
AddBusinessDays(w) ==
  LET step[d \in 0..60, left \in 0..20] ==
        IF left = 0 THEN Start(w) + d
        ELSE step[d + 1, IF Business(w, Start(w) + d + 1) THEN left - 1 ELSE left]
  IN step[0, w.n]

(* period_end *)
PeriodEnd(w) ==
  CASE w.kind = "months" -> AddMonths(w) - (IF w.exclusive THEN 1 ELSE 0)
    [] w.kind = "days"   -> Start(w) + w.n - (IF w.counted THEN 1 ELSE 0)
    [] w.kind = "weeks"  -> Start(w) + 7 * w.n - (IF w.counted THEN 1 ELSE 0)
    [] w.kind = "bdays"  -> AddBusinessDays(w)

(* The event in hours of the reference clock, and as it is stamped.          *)
RefEvent(w) == 24 * (PeriodEnd(w) + 1) + w.hours
Stamp(w) == RefEvent(w) + w.zones
PeriodLabel(w) == IF w.ask = "date" THEN PeriodEnd(w) ELSE Noul(RefEvent(w) < 24 * (PeriodEnd(w) + 1))

PeriodOptions(w) ==
  LET alt == [w EXCEPT !.roll = w.kind = "months" /\ ~@, !.counted = w.kind \in {"days", "weeks"} /\ ~@,
                       !.holidays = {}]
  IN IF w.ask = "date" THEN {PeriodEnd(w) + k : k \in -1..1} \cup {PeriodEnd(alt)} ELSE YesNo

(* The rules as printed: the closing day is counted off, or is the day of    *)
(* that number in the closing month, or what its clause puts there.          *)
ClosingDays(w) ==
  LET span  == (Start(w) + 1)..(Start(w) + 60)
      month == w.anchor[1] + w.n
      short == w.anchor[2] > Days(month)
  IN CASE w.kind = "months" ->
            {(IF ~short THEN Ordinal(month, w.anchor[2])
              ELSE IF w.roll THEN FirstDay[month + 1] ELSE FirstDay[month + 1] - 1)
             - (IF w.exclusive THEN 1 ELSE 0)}
       [] w.kind \in {"days", "weeks"} ->
            LET n == IF w.kind = "weeks" THEN 7 * w.n ELSE w.n
            IN {d \in span : Cardinality((Start(w) + (IF w.counted THEN 0 ELSE 1))..d) = n}
       [] w.kind = "bdays" ->
            {d \in span : Business(w, d)
                          /\ Cardinality({x \in (Start(w) + 1)..d : Business(w, x)}) = w.n}
PeriodRead(w) ==
  IF w.ask = "date" THEN ClosingDays(w)
  ELSE {Noul(Stamp(w) - w.zones < 24 * (d + 1)) : d \in ClosingDays(w)}

(* Mutated form: the stamp is compared without translating it.               *)
PeriodChecked_LocalClock(w, o) ==
  o = IF w.ask = "date" THEN PeriodEnd(w) ELSE Noul(Stamp(w) < 24 * (PeriodEnd(w) + 1))

(* verify_temporal: months and days as ordinals, the stamp translated        *)
PeriodChecked(w, o) ==
  LET month == w.anchor[1] + w.n
      end   == IF w.kind # "months" THEN PeriodEnd(w)
               ELSE IF w.anchor[2] <= Days(month) THEN Ordinal(month, w.anchor[2]) - (IF w.exclusive THEN 1 ELSE 0)
               ELSE Ordinal(month, Days(month)) + (IF w.roll THEN 1 ELSE 0) - (IF w.exclusive THEN 1 ELSE 0)
  IN o = IF w.ask = "date" THEN end ELSE Noul(Stamp(w) - w.zones < 24 * (end + 1))

-----------------------------------------------------------------------------
(* multi_hop_procedure: grade, elevations, total, band.  Amounts and limits  *)
(* in hundreds; the limits of a grade are 1, 1.64, 1.92 and 1.84 times those *)
(* of the first.  A case is dated 1 June or 1 September 2026.                *)
Tiers == <<"t1", "t2", "t3", "t4">>
Limit == << <<100, 200, 300>>, <<164, 328, 492>>, <<192, 384, 576>>, <<184, 368, 552>> >>
Cases ==
  {w \in [grade : 1..3, approved : BOOLEAN, watch : BOOLEAN, date : {17, 20},
          joined : {<<11, 1>>, <<14, 1>>, <<14, 2>>}, amount : {95, 180, 365, 550},
          other : [same : BOOLEAN, age : {30, 31}, amount : {5}]] :
     w.date = 17 <=> w.joined[1] = 11}

(* Fewer than new_months * 30.4375 days (six months: 182.625), in the        *)
(* reading of a month that the code chose, and in the calendar's.            *)
NewByDays(w) == FirstDay[w.date] - Ordinal(w.joined[1], w.joined[2]) < 183
NewByMonths(w) == Ordinal(w.joined[1] + 6, w.joined[2]) > FirstDay[w.date]

(* Mutated form: the item of a similar name is counted too.                  *)
Sum_AnyName(w) == w.amount + (IF w.other.age <= 30 THEN w.other.amount ELSE 0)

Sum(w) == w.amount + (IF w.other.same /\ w.other.age \in 1..30 THEN w.other.amount ELSE 0)

(* derive_multihop *)
Elevated(w, new) ==
  LET up == w.grade + (IF ~w.approved THEN 1 ELSE 0) + (IF new THEN 1 ELSE 0)
  IN IF w.watch THEN 4 ELSE IF up > 4 THEN 4 ELSE up
Band(grade, total) == Tiers[CHOOSE b \in 1..4 : (b = 4 \/ total <= Limit[grade][b]) /\ \A a \in 1..(b - 1) : total > Limit[grade][a]]
Tier(w) == Band(Elevated(w, NewByDays(w)), Sum(w))

(* The sections of the manual, for either reading of "months".               *)
TiersRead(w) ==
  LET notches(new) == Cardinality({r \in {"country", "new"} : IF r = "new" THEN new ELSE ~w.approved})
      final(new)   == IF w.watch \/ w.grade + notches(new) >= 4 THEN 4 ELSE w.grade + notches(new)
      total        == w.amount + (IF w.other.same /\ w.other.age <= 30 THEN w.other.amount ELSE 0)
  IN {Tiers[1 + Cardinality({b \in 1..3 : total > Limit[final(new)][b]})] : new \in {NewByDays(w), NewByMonths(w)}}

(* verify_multihop calls derive_multihop again.                              *)
TierChecked(w, o) == o = Tier(w)

-----------------------------------------------------------------------------
Families ==
  [temporal_calendar   |-> MakeFamily(Periods, PeriodOptions, PeriodLabel, LAMBDA w : {PeriodLabel(w)},
                                      PeriodRead, PeriodChecked, HeldOut),
   multi_hop_procedure |-> MakeFamily(Cases, LAMBDA w : {Tiers[b] : b \in 1..4}, Tier,
                                      LAMBDA w : {Tier(w)}, TiersRead, TierChecked, HeldOut),
   long_policy_v2      |-> V2!Families["policy_precedence"]]
=============================================================================
