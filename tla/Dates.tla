------------------------------- MODULE Dates -------------------------------
(***************************************************************************)
(* services/agent/dates.py: the days a question is about, from what it     *)
(* says of them and the city's today.  A date is a number, its remainder   *)
(* by 7 the weekday: date 0 is Monday, 1 January of year 1.  What a        *)
(* question says is a record: the dates written out in it, the phrases it  *)
(* contains, the weekdays it names, and the first count of weeks and of    *)
(* days ahead, if any.                                                     *)
(***************************************************************************)
EXTENDS Integers

MaxRelativeDays == 31
MaxExplicitDays == 366

\* The end of 9999, the last year four digits write, after 2424 leap days.
LastDate == 9999 * 365 + 2424 - 1

Phrases == {"day_after_tomorrow", "tomorrow", "today", "yesterday", "weekend", "next_week",
            "this_week"}
Saying ==
  [dates : SUBSET (0 .. LastDate), phrases : SUBSET Phrases, weekdays : SUBSET (0 .. 6),
   weeks : SUBSET Nat, days : SUBSET Nat]
Nothing == [dates |-> {}, phrases |-> {}, weekdays |-> {}, weeks |-> {}, days |-> {}]

Weekday(d)        == d % 7
Period(from, to)  == [start |-> from, end |-> to]
One(d)            == Period(d, d)
Days(period)      == period.start .. period.end
First(set)        == CHOOSE x \in set : \A y \in set : x <= y
Last(set)         == CHOOSE x \in set : \A y \in set : y <= x
Bounded(lo, n, hi) == IF n < lo THEN lo ELSE IF n > hi THEN hi ELSE n

\* _explicit: from the earliest date to the latest, and no further than a year.
Explicit(dates) ==
  LET start == First(dates)
      asked == Last(dates) - start + 1
  IN Period(start, start + Bounded(1, asked, MaxExplicitDays) - 1)

\* _ahead
Ahead(today, span) == Period(today, today + Bounded(1, span, MaxRelativeDays) - 1)

\* The next such weekday that is not today.
Coming(today, weekday) ==
  LET ahead == (weekday - Weekday(today)) % 7 IN today + (IF ahead = 0 THEN 7 ELSE ahead)

\* _resolve: the first of these the question says anything about.
Resolve(said, today) ==
  LET says(phrase) == phrase \in said.phrases
      saturday     == today + ((5 - Weekday(today)) % 7)
      monday       == today + (7 - Weekday(today))
  IN IF said.dates # {} THEN Explicit(said.dates)
     ELSE IF says("day_after_tomorrow") THEN One(today + 2)
     ELSE IF says("tomorrow") THEN One(today + 1)
     ELSE IF says("today") THEN One(today)
     ELSE IF says("yesterday") THEN One(today - 1)
     ELSE IF says("weekend") THEN Period(saturday, saturday + 1)
     ELSE IF says("next_week") THEN Period(monday, monday + 6)
     ELSE IF says("this_week") THEN Period(today, today + 6)
     ELSE IF said.weekdays # {} THEN One(Coming(today, First(said.weekdays)))
     ELSE IF said.weeks # {} THEN Ahead(today, 7 * First(said.weeks))
     ELSE IF said.days # {} THEN Ahead(today, First(said.days))
     ELSE Period(today, today + 6)

--------------------------------------------------------------------------
(* What is promised of every day and every question. *)

\* A question is about one day at least, about a month at most when it counts from
\* today and about a year when it writes its dates out; only "yesterday" and
\* written dates look back.
WellFormed(said, today) ==
  LET days == Days(Resolve(said, today))
  IN /\ days # {}
     /\ said.dates = {} =>
          /\ days \subseteq (today - 1) .. (today + MaxRelativeDays - 1)
          /\ said.phrases \cap {"yesterday"} = {} => days \subseteq today .. (today + 30)
     /\ said.dates # {} =>
          /\ First(said.dates) \in days
          /\ days \subseteq First(said.dates) .. Last(said.dates)

\* A named weekday is that weekday, within the next seven days and never today; a
\* weekend is a Saturday and a Sunday, next week a Monday to a Sunday that are all
\* still to come.
OnTheDay(today) ==
  LET about(phrase) == Days(Resolve([Nothing EXCEPT !.phrases = {phrase}], today))
  IN /\ \A n \in 0 .. 6 :
          \E d \in (today + 1) .. (today + 7) :
            /\ Weekday(d) = n
            /\ Days(Resolve([Nothing EXCEPT !.weekdays = {n}], today)) = {d}
     /\ {Weekday(d) : d \in about("weekend")} = {5, 6}
     /\ {Weekday(d) : d \in about("next_week")} = 0 .. 6
     /\ \A d \in about("weekend") : d >= today
     /\ \A d \in about("next_week") : d > today
=============================================================================
