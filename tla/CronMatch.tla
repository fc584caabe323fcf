----------------------------- MODULE CronMatch -----------------------------
(***************************************************************************)
(* cron_due of retinue/heartbeat.py: whether a repo's five-field cadence   *)
(* is due at the instant of a heartbeat, and the reading of the same       *)
(* cadence, out of the docstrings, that it is checked against.             *)
(*                                                                         *)
(* A cadence is split into its fields and a field into its comma-separated *)
(* terms; a term's base and step are what the text parses to.              *)
(***************************************************************************)
EXTENDS Integers, Sequences

\* A term's step: absent (an empty one counts as absent), or text that is not a
\* positive integer.
NoStep == 0 - 1
BadStep == 0

\* A range's end may be any integer: a second hyphen is its sign.
Term ==
    [base : {"any", "point", "range", "bad"}, from : Nat, to : Int,
     step : Nat \cup {NoStep}]
Cadence == Seq(SUBSET Term)

\* An instant as Python's datetime gives it.
Instant ==
    [minute : 0 .. 59, hour : 0 .. 23, day : 1 .. 31, month : 1 .. 12,
     weekday : 0 .. 6]

Star             == [base |-> "any", from |-> 0, to |-> 0, step |-> NoStep]
Point(v)         == [base |-> "point", from |-> v, to |-> v, step |-> NoStep]
Span(a, b)       == [base |-> "range", from |-> a, to |-> b, step |-> NoStep]
Unparsable       == [base |-> "bad", from |-> 0, to |-> 0, step |-> NoStep]
Every(term, n)   == [term EXCEPT !.step = n]

-----------------------------------------------------------------------------
Within(v, interval) == interval[1] <= v /\ v <= interval[2]

\* Mutant of TermRange: a stepped value is the single point.
TermRangePoint(term, low, high) ==
    CASE term.base = "any"   -> <<low, high>>
      [] term.base = "bad"   -> <<1, 0>>
      [] OTHER               -> <<term.from, term.to>>

\* _term_range; the range of an unreadable or reversed base is empty.
TermRange(term, low, high) ==
    CASE term.base = "any"   -> <<low, high>>
      [] term.base = "range" -> <<term.from, term.to>>
      [] term.base = "point" ->
             <<term.from, IF term.step = NoStep THEN term.from ELSE high>>
      [] term.base = "bad"   -> <<1, 0>>

TermMatches(term, v, low, high) ==
    LET range == TermRange(term, low, high)
        step  == IF term.step = NoStep THEN 1 ELSE term.step
    IN  step # BadStep /\ Within(v, range) /\ (v - range[1]) % step = 0

FieldMatches(field, v, low, high) ==
    \E term \in field : TermMatches(term, v, low, high)

\* Python's weekday counts from Monday, cron's from Sunday, which is also 7.
WeekdayMatches(field, weekday) ==
    LET cronDow == (weekday + 1) % 7
    IN  \/ FieldMatches(field, cronDow, 0, 7)
        \/ cronDow = 0 /\ FieldMatches(field, 7, 0, 7)

\* cron_due.  No cadence is no field; a cadence of any other number of fields
\* than five is never due.
CronDue(cadence, when) ==
    /\ Len(cadence) = 5
    /\ FieldMatches(cadence[1], when.minute, 0, 59)
    /\ FieldMatches(cadence[2], when.hour, 0, 23)
    /\ FieldMatches(cadence[3], when.day, 1, 31)
    /\ FieldMatches(cadence[4], when.month, 1, 12)
    /\ WeekdayMatches(cadence[5], when.weekday)

-----------------------------------------------------------------------------
(* The reading: a term lists values, by walking from its first value to its  *)
(* last in strides, and none if its base is out of the field's bounds; a     *)
(* cadence names the instants listed by every field.  (A crontab with both a *)
(* day of the month and a day of the week names those listed by either.)     *)

Walk(first, last, stride) ==
    IF stride = BadStep THEN {}
    ELSE {n \in first .. last : \E k \in 0 .. last - first : n = first + k * stride}

InBounds(term, low, high) ==
    /\ term.base \in {"point", "range"} => low <= term.from
    /\ term.base = "point" => term.from <= high
    /\ term.base = "range" => term.to <= high

Listed(term, low, high) ==
    LET stride == IF term.step = NoStep THEN 1 ELSE term.step
    IN  IF ~InBounds(term, low, high) THEN {}
        ELSE CASE term.base = "any"   -> Walk(low, high, stride)
               [] term.base = "range" -> Walk(term.from, term.to, stride)
               [] term.base = "point" ->
                      IF term.step = NoStep THEN {term.from}
                      ELSE Walk(term.from, high, stride)
               [] term.base = "bad"   -> {}

Values(field, low, high) == UNION {Listed(term, low, high) : term \in field}

\* The days of the week a field lists, counted from Sunday.
Weekdays(field) == {n % 7 : n \in Values(field, 0, 7)}

\* Monday is 1 in a crontab and 0 in Python.
Names(cadence, when) ==
    /\ Len(cadence) = 5
    /\ when.minute \in Values(cadence[1], 0, 59)
    /\ when.hour \in Values(cadence[2], 0, 23)
    /\ when.day \in Values(cadence[3], 1, 31)
    /\ when.month \in Values(cadence[4], 1, 12)
    /\ \E d \in Weekdays(cadence[5]) :
          when.weekday = IF d = 0 THEN 6 ELSE d - 1

\* A cadence whose fields keep to their bounds.
Bounds == << <<0, 59>>, <<0, 23>>, <<1, 31>>, <<1, 12>>, <<0, 7>> >>

Bounded(cadence) ==
    Len(cadence) = 5 =>
        \A k \in 1 .. 5 : \A term \in cadence[k] :
            InBounds(term, Bounds[k][1], Bounds[k][2])
=============================================================================
