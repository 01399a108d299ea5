--------------------------- MODULE TemporalRelation -------------------------
(* taskpacks/foundation/temporal_reasoning.py: how one event lies in time to *)
(* another.  A local time is a number of minutes from midnight of the base   *)
(* date, on which New York springs forward at two.                           *)
EXTENDS RowSource, Integers, Sequences, TLC

Day == 1440
Zones == {"new_york", "tokyo"}

(* ZoneInfo: the time that does not exist is read with the offset before it. *)
Utc(local, tz) ==
  IF tz = "tokyo" THEN local - 540 ELSE IF local < 180 THEN local + 300 ELSE local + 240
Local(utc, tz) ==
  IF tz = "tokyo" THEN utc + 540 ELSE IF utc < 420 THEN utc - 300 ELSE utc - 240

(* src and a relative source                                                 *)
At(when, tz, minutes, authority) ==
  [kind |-> "at", when |-> when, tz |-> tz, minutes |-> minutes, authority |-> authority]
On(when, tz) == [At(when, tz, 0, 1) EXCEPT !.kind = "date"]
Never(tz) == [At(0, tz, 0, 1) EXCEPT !.kind = "unknown"]
Rel(anchor, days, at, tz) ==
  [kind |-> "relative", anchor |-> anchor, days |-> days, when |-> at, tz |-> tz,
   minutes |-> 60, authority |-> 1]

Event(a, b) == [launch |-> {a}, review |-> {b}]

(* sample: the worlds of each scenario family; tz1 is the zone of the first  *)
(* event, tz2 the other one, hh the hour.                                    *)
Sample(tz1, tz2, hh) ==
  LET Meeting(day, hour) == At(Day * day + 60 * hour, tz1, 60, 1)
      Apart(tz) == {Event(At(Local(Utc(60 * hh, tz) + 60 * h, tz1), tz1, 60, 1), At(60 * hh, tz, 0, 1)) :
                      h \in {-30, -3, 2, 40}}
      Twice == {At(60 * hh, tz1, 60, 2), At(Day + 60 * hh, tz1, 60, 2)}
      Spring(h) == At(60 * h + 30, "new_york", 30, 1)
  IN [deadlines              |-> Apart(tz1),
      time_zones             |-> Apart(tz2),
      relative_dates         |-> {Event(Rel("kickoff", d, 540, tz1), Meeting(1, 9)) @@ [kickoff |-> {Meeting(0, 9)}] :
                                    d \in {-2, 3, 10}},
      durations              |-> {Event(At(60 * hh + 60, tz1, 30, 1), At(60 * hh, tz1, 180, 1))},
      recurring_schedule     |-> {Event(Meeting(7 * (n - 1), 15), Meeting(d, 15)) : n \in 2 .. 5, d \in {10, 21, 40}},
      policy_window          |-> {Event(At(Day * d + 600, tz1, 30, 1), At(0, tz1, 14 * Day, 1)) : d \in {-5, 3, 20}},
      before_after_ordering  |-> Apart(tz1),
      missing_time           |-> {Event(Never(tz1), Meeting(0, hh))},
      conflicting_sources    |-> {[launch |-> Twice, review |-> {Meeting(5, hh)}]},
      dst_transition         |-> {Event(Spring(1), Spring(3)), Event(Spring(3), Spring(1))},
      date_only_vs_timestamp |-> {Event(On(0, tz1), Meeting(d, 12)) : d \in {0, 3}},
      conflicting_timestamps |-> {[launch |-> Twice, review |-> {Meeting(5, hh)}]},
      long_event_chain       |-> {Event(Rel("draft", 3, 540, tz1), Rel("kickoff", d, 540, tz1))
                                    @@ [kickoff |-> {Meeting(0, 9)}, draft |-> {Rel("kickoff", 2, 600, tz1)}] :
                                    d \in 4 .. 6}]

Family(f) == UNION {Sample(z[1], z[2], hh)[f] : z \in {<<"new_york", "tokyo">>, <<"tokyo", "new_york">>}, hh \in {8, 17}}
Worlds == UNION {Family(f) : f \in DOMAIN Sample("tokyo", "tokyo", 8)}

(* The timeline need not say how long an event takes.                        *)
Texts == Worlds \cup {[e \in DOMAIN w |-> {[s EXCEPT !.minutes = 0] : s \in w[e]}] : w \in Worlds}

Unknown  == <<"unknown">>
Conflict == <<"conflict">>

(* _resolve: one source as an interval in UTC, given that of its anchor; the *)
(* end is found on the local clock.                                          *)
Resolve(s, anchor) ==
  IF s.kind = "unknown" THEN Unknown
  ELSE IF s.kind = "relative"
       THEN LET start == Day * (Local(anchor[1], s.tz) \div Day + s.days) + s.when
            IN IF anchor \in {Unknown, Conflict} THEN Unknown
               ELSE <<Utc(start, s.tz), Utc(start + s.minutes, s.tz)>>
  ELSE LET length == IF s.kind = "date" THEN Day ELSE s.minutes
       IN <<Utc(s.when, s.tz), Utc(s.when + length, s.tz)>>

(* _event_interval: the sources of the highest authority decide, together.   *)
Interval(e, w) ==
  LET interval[x \in DOMAIN w] ==
        LET top == {s \in w[x] : \A r \in w[x] : r.authority <= s.authority}
            res == {Resolve(s, interval[s.anchor]) : s \in top}
        IN IF w[x] = {} \/ Unknown \in res THEN Unknown
           ELSE IF Cardinality(res) > 1 THEN Conflict
           ELSE CHOOSE i \in res : TRUE
  IN interval[e]

(* relate *)
Relate(w) ==
  LET a == Interval("launch", w)
      b == Interval("review", w)
  IN IF Conflict \in {a, b} THEN "conflicting"
     ELSE IF Unknown \in {a, b} THEN "unknown"
     ELSE IF a[2] <= b[1] THEN "before"
     ELSE IF a[1] >= b[2] /\ ~(a[1] = b[1] /\ b[2] = b[1]) THEN "after"
     ELSE IF a[1] >= b[1] /\ a[2] <= b[2] THEN "during"
     ELSE "unknown"

(* options: the answer whose definition the timeline satisfies, read from    *)
(* the minutes an event covers, if there is just one.                        *)
Policy(w) ==
  LET a == Interval("launch", w)
      b == Interval("review", w)
      definite == {a, b} \cap {Unknown, Conflict} = {}
      fits == IF ~definite THEN {}
              ELSE {o \in {"before", "after", "during"} :
                      CASE o = "before" -> a[2] <= b[1]
                        [] o = "after"  -> b[2] <= a[1]
                        [] o = "during" -> b[1] <= a[1] /\ a[2] <= b[2]}
  IN IF Conflict \in {a, b} THEN "conflicting"
     ELSE IF Cardinality(fits) = 1 THEN CHOOSE o \in fits : TRUE
     ELSE "unknown"

(* _fmt and expected_extraction: everything but how long an event takes and  *)
(* how authoritative a source is.                                            *)
Said(s) ==
  CASE s.kind = "relative" -> <<s.anchor, s.days, s.when, s.tz>>
    [] s.kind = "unknown" -> <<"unknown">>
    [] OTHER -> <<s.kind, s.when, s.tz>>

Read(w) == [e \in DOMAIN w |-> {Said(s) : s \in w[e]}]

Unchecked(w) == [e \in DOMAIN w |-> {<<Said(s), s.minutes, s.authority>> : s \in w[e]}]

(* finalize_surface writes the question only.                                *)
Writable(w, t) == TRUE

Accepts(w, t) == Read(w) = Read(t)

Pack == MakePack(Worlds, Texts, Relate, Policy, Writable, Accepts, Unchecked)
=============================================================================
