------------------------------ MODULE Calendar ------------------------------
(***************************************************************************)
(* The date picker's component: the limits, the disabled dates, and the    *)
(* dates selected, highlighted and in view.  A date is a number, counted   *)
(* from the first day of the first of Months; a record cal is the item of  *)
(* the component, and an operator gives the item that a call leaves.       *)
(***************************************************************************)
EXTENDS Materialize, SequencesExt, Ranks

CONSTANTS Months,  \* number of days of each month
          Week,    \* number of days of a week, DAYS_IN_WEEK
          Rows,    \* number of weeks drawn, WEEKS_IN_CALENDAR
          Today,
          Formats  \* the settings format and formatSubmit, sequences of labels

ASSUME CalendarAssumption ==
  /\ Months \in Seq(Nat \ {0}) /\ Months # <<>>
  /\ Week \in Nat \ {0, 1} /\ Rows \in Nat \ {0} /\ Today \in Nat \ {0}

-----------------------------------------------------------------------------
(* Dates                                                                   *)

\* FirstOf[m] is the first date of month m.
FirstOf[m \in 1..Len(Months) + 1] == IF m = 1 THEN 1 ELSE FirstOf[m - 1] + Months[m - 1]

Dates == 1..FirstOf[Len(Months) + 1] - 1

\* Nothing below depends on what lies before and after Months.
MonthOf(d) == IF d < 1 THEN 0
              ELSE IF d \notin Dates THEN Len(Months) + 1
              ELSE CHOOSE m \in 1..Len(Months) : d \in FirstOf[m]..FirstOf[m + 1] - 1

Weekday(d) == d % Week

NoDate == 0

-----------------------------------------------------------------------------
(* Dates as text.  A label of a format is one of formats, or "-" for any   *)
(* other character.  A character of a text is a digit, Separator, or a     *)
(* letter above it; the names of months and weekdays have two letters.     *)

Separator == 10
TwoDigits(n) == <<n \div 10, n % 10>>

\* What a label becomes; date is [year, month, day, weekday].
Spell(label, date) ==
  LET short(n) == IF n < 10 THEN <<n>> ELSE TwoDigits(n)
      name(n) == <<Separator + n, Separator + n>>
  IN CASE label = "d" -> short(date.day)
       [] label = "dd" -> TwoDigits(date.day)
       [] label = "dddd" -> name(20 + date.weekday)
       [] label = "m" -> short(date.month)
       [] label = "mm" -> TwoDigits(date.month)
       [] label = "mmmm" -> name(date.month)
       [] label = "yy" -> TwoDigits(date.year % 100)
       [] label = "yyyy" -> TwoDigits(date.year \div 100) \o TwoDigits(date.year % 100)
       [] label = "-" -> <<Separator>>

FormatDate(format, date) == FlattenSeq([i \in DOMAIN format |-> Spell(format[i], date)])

\* A word is a run of digits and letters.
FirstWordLength(text) ==
  LET inWord == {i \in DOMAIN text : text[i] # Separator}
  IN Min({i \in inWord : i + 1 \notin inWord}) - Min(inWord) + 1

\* How many characters a label takes when a text is read.
LabelLength(label, text) ==
  CASE label \in {"d", "m"} -> IF Len(text) > 1 /\ text[2] < Separator THEN 2 ELSE 1
    [] label \in {"dd", "mm", "yy"} -> 2
    [] label = "yyyy" -> 4
    [] label \in {"dddd", "mmmm"} -> FirstWordLength(text)
    [] label = "-" -> 1

ReadLabel(read, label) ==
  LET length == LabelLength(label, read.text)
      part == SubSeq(read.text, 1, length)
      number == FoldLeft(LAMBDA n, digit : 10 * n + digit, 0, part)
  IN [text |-> SubSeq(read.text, length + 1, Len(read.text)),
      day |-> IF label \in {"d", "dd"} THEN number ELSE read.day,
      month |-> IF label \in {"m", "mm"} THEN number
                ELSE IF label = "mmmm" /\ read.month = 0 THEN part[1] - Separator
                ELSE read.month,
      year |-> IF label \in {"yy", "yyyy"} THEN number ELSE read.year]

\* A date is made of what was read: a year of two digits is one of the 1900s.
Parse(format, text) ==
  LET read == FoldLeft(ReadLabel, [text |-> text, day |-> 0, month |-> 0, year |-> 0],
                       format)
  IN <<IF read.year < 100 THEN 1900 + read.year ELSE read.year, read.month, read.day>>

\* The formats of the settings can be read back, which is not so of every one:
\* "d", "m" before a digit or "yy" are not.  A date written to an input is then
\* the date that a picker started on it reads.
ASSUME FormatAssumption ==
  \A format \in Formats, day \in 1..31, month \in 1..12, year \in {1999, 2016} :
    Parse(format, FormatDate(format, [year |-> year, month |-> month, day |-> day,
                                    weekday |-> (day + month) % 7]))
      = <<year, month, day>>

-----------------------------------------------------------------------------
(* What disable holds: weekdays (from is 1..Week), dates and ranges.       *)

Weekdays(n) == [kind |-> "weekday", from |-> n, to |-> n, inverted |-> FALSE]
OneDate(d) == [kind |-> "date", from |-> d, to |-> d, inverted |-> FALSE]
DateRange(a, b) == [kind |-> "range", from |-> a, to |-> b, inverted |-> FALSE]

Unit == {Weekdays(n) : n \in 1..Week} \cup {OneDate(d) : d \in Dates}
          \cup {DateRange(a, b) : a, b \in Dates}

WithinRange(u, d) == d \in u.from..u.to

OverlapRanges(u, v) == u.from <= v.to /\ v.from <= u.to

\* The unit matches the date.
Matches(u, d) == IF u.kind = "weekday" THEN Weekday(d) = (u.from - 1) % Week
                 ELSE WithinRange(u, d)

Disabled(c, d) ==
  LET matched == {i \in DOMAIN c.units : Matches(c.units[i], d)}
      match == matched # {} /\ \A i \in matched : ~c.units[i].inverted
  IN IF c.flipped THEN ~match ELSE match \/ d \notin c.min..c.max

IsDateExact(u, v) == u.kind = v.kind /\ u.from = v.from /\ u.to = v.to

\* A date and a range never overlap, nor a date and the last weekday.
IsDateOverlap(u, v) ==
  \/ u.kind = "weekday" /\ v.kind = "date" /\ u.from % Week = Weekday(v.from) + 1
  \/ v.kind = "weekday" /\ u.kind = "date" /\ v.from % Week = Weekday(u.from) + 1
  \/ u.kind = "range" /\ v.kind = "range" /\ OverlapRanges(u, v)

Deactivate(units, u) ==
  IF \E i \in DOMAIN units : IsDateExact(u, units[i]) THEN units
  ELSE Append(units, u)

Exact(units, u) == {i \in DOMAIN units : IsDateExact(units[i], u)}
Overlapping(units, u) == {i \in DOMAIN units : IsDateOverlap(units[i], u)}

\* units without the first of those at the places P.
WithoutFirst(units, P) == ElementsAt(units, DOMAIN units \ FirstPlaces(P, 1))

\* The first unit that is u or overlaps it decides.
Activate(units, u) ==
  LET hits == Exact(units, u) \cup Overlapping(units, u)
      others == WithoutFirst(units, Exact(units, u))
  IN IF hits = {} THEN units
     ELSE IF FirstPlaces(hits, 1) \subseteq Exact(units, u)
          THEN WithoutFirst(others, Overlapping(others, u))
     ELSE IF u.kind = "weekday" THEN units
     ELSE Append(others, [u EXCEPT !.inverted = TRUE])

-----------------------------------------------------------------------------
(* Settling on a date                                                      *)

\* One turn of the loop of validate, up to the next date: back to the start and
\* in single steps when a long step left the month, and back from a limit.
Straighten(s, start) ==
  IF s.step \notin {-1, 1} /\ MonthOf(s.date) # MonthOf(start)
  THEN [s EXCEPT !.date = start, !.step = IF @ > 0 THEN 1 ELSE -1]
  ELSE s

TurnAtLimit(c, s) ==
  IF s.date <= c.min
  THEN [s EXCEPT !.atMin = TRUE, !.step = 1,
                 !.date = IF @ = c.min THEN @ ELSE c.min - 1]
  ELSE IF s.date >= c.max
  THEN [s EXCEPT !.atMax = TRUE, !.step = -1,
                 !.date = IF @ = c.max THEN @ ELSE c.max + 1]
  ELSE s

Onward(s) == IF s.atMin /\ s.atMax THEN s ELSE [s EXCEPT !.date = @ + s.step]

Ended(c, s) == (s.atMin /\ s.atMax) \/ ~Disabled(c, s.date)

Step(c, s, start) ==
  IF Ended(c, s) THEN s ELSE Onward(TurnAtLimit(c, Straighten(s, start)))

\* No walk takes more turns: in long steps through the month, in single ones to
\* one limit, and to the other.
MostTurns(c) == 8 + IF c.min < c.max THEN 3 * (c.max - c.min) ELSE 0

\* The walk from a disabled date to an enabled one, or until both limits are met.
Settle(c, start, interval) ==
  LET walk[i \in 0..MostTurns(c)] ==
        IF i = 0 THEN [date |-> start, step |-> interval, atMin |-> FALSE, atMax |-> FALSE]
        ELSE Step(c, walk[i - 1], start)
  IN walk[MostTurns(c)].date

\* When all but what disable holds is disabled, only weekdays and dates of it
\* are looked for, and the walk turns where they lie.
Validate(c, date, nav, interval) ==
  LET held(kind) == {c.units[i].from : i \in {j \in DOMAIN c.units : c.units[j].kind = kind}}
      before == \E d \in held("date") : d < date
      after == \E d \in held("date") : d > date
      days == held("weekday") # {}
      turn == c.flipped /\ ~days
              /\ ((~after /\ interval > 0) \/ (~before /\ interval < 0))
  IN IF nav = 0 /\ Disabled(c, date) /\ (c.flipped => days \/ before \/ after)
     THEN Settle(c, date, IF turn THEN -interval ELSE interval)
     ELSE date

\* The date nav months from the view, or the last one of a shorter month.
Navigate(c, date, nav) ==
  LET month == MonthOf(date)
      to == (IF nav = 0 THEN month ELSE c.view) + nav
  IN IF to \notin DOMAIN Months THEN date
     ELSE FirstOf[to] + Min({date - FirstOf[month], Months[to] - 1})

View(c, nav, interval) ==
  [c EXCEPT !.view = MonthOf(Validate(c, c.highlight, nav, interval))]

SetHighlight(c, date, nav, interval) ==
  View([c EXCEPT !.highlight = Validate(c, Navigate(c, date, nav), nav, interval)],
       nav, interval)

HighlightSelected(c) == SetHighlight(c, c.select, 0, 1)

SetSelect(c, date) ==
  HighlightSelected([c EXCEPT !.select = Validate(c, date, 0, 1)])

\* After a change of limits or disabled dates.
Reselect(c) == IF c.select # NoDate /\ Disabled(c, c.select)
               THEN SetSelect(c, c.select) ELSE c

Rehighlight(c) == IF Disabled(c, c.highlight)
                  THEN SetHighlight(c, c.highlight, 0, 1) ELSE c

Cascade(c) == Rehighlight(Reselect(c))

SetMin(c, d) == Cascade([c EXCEPT !.min = d])
SetMax(c, d) == Cascade([c EXCEPT !.max = d])
Disable(c, u) == Cascade([c EXCEPT !.units = Deactivate(@, u)])
Enable(c, u) == Cascade([c EXCEPT !.units = Activate(@, u)])

\* set('disable', all), set('enable', ~all), and set of either with 'flip'.
DisableAll(c, all) == Cascade([c EXCEPT !.units = <<>>, !.flipped = all])
Flip(c) == Cascade([c EXCEPT !.flipped = ~@])

\* The component that a picker starts with.
NewCalendar(min, max, value) ==
  LET c == [min |-> min, max |-> max, select |-> NoDate, highlight |-> Today,
            view |-> MonthOf(Today), units |-> <<>>, flipped |-> FALSE]
  IN IF value = NoDate THEN SetHighlight(c, Today, 0, 1) ELSE SetSelect(c, value)

-----------------------------------------------------------------------------
(* What nodes draws                                                        *)

\* The dates of the weeks from the one in which the month in view begins.
Cells(c) == LET first == FirstOf[c.view] - Weekday(FirstOf[c.view])
            IN first..first + Rows * Week - 1

CellDisabled(c, d) == Disabled(c, d) \/ d \notin c.min..c.max

NavDisabled(c, nav) == IF nav > 0 THEN c.view >= MonthOf(c.max)
                       ELSE c.view <= MonthOf(c.min)

\* The options of the month selector that are not disabled.
MonthOptions(c) == {m \in DOMAIN Months : m \in MonthOf(c.min)..MonthOf(c.max)}

\* A month chosen from the selector: the day highlighted, in that month.
ChooseMonth(c, month) ==
  LET day == c.highlight - FirstOf[MonthOf(c.highlight)]
  IN SetHighlight(c, FirstOf[month] + Min({day, Months[month] - 1}), 0, 1)
=============================================================================
