----------------------------- MODULE TimeRules ------------------------------
(***************************************************************************)
(* The due date of one obligation: what its words say, what the model has  *)
(* read in them, and the calendar: contracts/time_rules.py.                *)
(*                                                                         *)
(* A text is what the patterns find in it.  Dates are Gregorian, as those  *)
(* of the standard library; no offset chosen leaves its years 1..9999,     *)
(* where the code would raise.                                             *)
(***************************************************************************)
EXTENDS Integers, FiniteSets, RuleValues

CONSTANTS
    Wordings,    \* texts of an obligation
    ModelRules,  \* rules the model may have made of them
    EventDates,  \* dates of its base event
    RunDates     \* days on which due dates are calculated

Date(year, month, day) == [year |-> year, month |-> month, day |-> day]

Relative == {"relative_to_contract_effective", "relative_to_contract_signing",
             "relative_to_event"}
TimeRule == [type : Relative \cup {"fixed_date", "periodic", "no_explicit_date"},
             fixed : [year : Nat, month : 1..12, day : 1..31] \cup {None},
             base : {"contract_effective", "contract_signed", "event", None},
             offset : Nat \cup {None}, unit : {"day", "month", "year"},
             business : BOOLEAN, direction : {"before", "after", "on"}]
NoExplicitDate == [type |-> "no_explicit_date", fixed |-> None, base |-> None, offset |-> None,
                   unit |-> "day", business |-> FALSE, direction |-> "after"]

\* The words of an obligation: the date in them, "every" day or month, the event they are about,
\* the first number with its unit, and which words of direction there are.
Wording == [fixed : [year : Nat, month : 1..12, day : 1..31] \cup {None}, periodic : BOOLEAN,
            about : {"contract_effective", "contract_signed", "event", None},
            offset : Nat \cup {None}, unit : {"day", "month", "year"},
            business : BOOLEAN, before : BOOLEAN, after : BOOLEAN]

VARIABLES
    timeText,   \* what the obligation says
    timeRule,   \* the rule of the obligation, None before it is normalised
    occurred,   \* date of its base event
    planned,    \* its due date
    timeStatus  \* its status

timeVars == <<timeText, timeRule, occurred, planned, timeStatus>>

TimesTypeOK ==
    /\ timeText \in Wordings
    /\ timeRule \in TimeRule \cup {None}
    /\ occurred \in EventDates \cup {None}
    /\ timeStatus \in {"pending", "waiting_trigger", "overdue", None}

-----------------------------------------------------------------------------
(* The calendar of the standard library.                                   *)

IsLeap(year) == year % 4 = 0 /\ (year % 100 # 0 \/ year % 400 = 0)
MonthDays(year, month) ==
    CASE month = 2 -> IF IsLeap(year) THEN 29 ELSE 28
      [] month \in {4, 6, 9, 11} -> 30
      [] OTHER -> 31
DaysBeforeMonth == <<0, 31, 59, 90, 120, 151, 181, 212, 243, 273, 304, 334>>
DaysBefore(year, month) ==
    LET y == year - 1
    IN  365 * y + (y \div 4) - (y \div 100) + (y \div 400)
        + DaysBeforeMonth[month] + (IF month > 2 /\ IsLeap(year) THEN 1 ELSE 0)
DayNumber(date) == DaysBefore(date.year, date.month) + date.day
DateOf(n) ==
    LET year  == CHOOSE y \in Smaller(n \div 366, n \div 365)..(Larger(n \div 366, n \div 365) + 1) :
                     DaysBefore(y, 1) < n /\ n <= DaysBefore(y + 1, 1)
        month == CHOOSE m \in 1..12 :
                     DaysBefore(year, m) < n /\ n <= DaysBefore(year, m) + MonthDays(year, m)
    IN  Date(year, month, n - DaysBefore(year, month))
Workday(n) == (n - 1) % 7 < 5   \* day 1 was a Monday

CalendarDate == {d \in [year : Int, month : 1..12, day : 1..31] : d.day <= MonthDays(d.year, d.month)}

ASSUME TimeAssumption ==
    /\ Wordings \subseteq Wording /\ ModelRules \subseteq TimeRule
    /\ EventDates \subseteq CalendarDate

ASSUME NoneIsNoDate ==
    /\ None \notin Nat /\ None \notin CalendarDate /\ None \notin TimeRule
    /\ None \notin {"contract_effective", "contract_signed", "event"}

-----------------------------------------------------------------------------
(* Offsets.                                                                *)

AddBusinessDays(start, days) ==
    LET direction == IF days >= 0 THEN 1 ELSE -1
        Next(n)   == CHOOSE c \in {n + direction, n + 2 * direction, n + 3 * direction} :
                         Workday(c) /\ \A k \in 1..(direction * (c - n) - 1) :
                                           ~Workday(n + k * direction)
        after[k \in 0..(days * direction)] == IF k = 0 THEN DayNumber(start) ELSE Next(after[k - 1])
    IN  DateOf(after[days * direction])

AddMonthsOf30Days(start, months) == DateOf(DayNumber(start) + 30 * months)

AddMonths(start, months) ==
    LET index == start.month - 1 + months
        year  == start.year + (index \div 12)
        month == (index % 12) + 1
    IN  Date(year, month, Smaller(start.day, MonthDays(year, month)))

AddTimeOffset(start, value, unit, business) ==
    CASE unit = "day" /\ business -> AddBusinessDays(start, value)
      [] unit = "day" /\ ~business -> DateOf(DayNumber(start) + value)
      [] unit = "month" -> AddMonths(start, value)
      [] unit = "year" -> AddMonths(start, 12 * value)

-----------------------------------------------------------------------------
(* Rules.                                                                  *)

RelativeRule(type, base, w) ==
    [NoExplicitDate EXCEPT
        !.type = type, !.base = base, !.offset = IF w.offset = None THEN 0 ELSE w.offset,
        !.unit = w.unit, !.business = w.business,
        !.direction = IF w.offset = None THEN "on"
                      ELSE IF w.before /\ ~w.after THEN "before" ELSE "after"]

\* A date first, then a period; "before" or "after" without a number says nothing.
ParseTimeRule(w) ==
    CASE w.fixed # None -> [NoExplicitDate EXCEPT !.type = "fixed_date", !.fixed = w.fixed,
                                                  !.direction = "on"]
      [] w.fixed = None /\ w.periodic -> [NoExplicitDate EXCEPT !.type = "periodic"]
      [] w.fixed = None /\ ~w.periodic /\ ~(w.offset = None /\ (w.before \/ w.after)) /\
         w.about # None ->
            RelativeRule(CASE w.about = "contract_effective" -> "relative_to_contract_effective"
                           [] w.about = "contract_signed" -> "relative_to_contract_signing"
                           [] w.about = "event" -> "relative_to_event", w.about, w)
      [] OTHER -> NoExplicitDate

\* Where the text says something the model's offset replaces that of the text, and nothing
\* else does.
NormalizeTimeRule(rule, w) ==
    LET parsed == ParseTimeRule(w)
    IN  IF parsed.type = "no_explicit_date" THEN rule
        ELSE [parsed EXCEPT !.offset = IF rule.offset # None THEN rule.offset ELSE @,
                            !.business = rule.business \/ @]

ResolveDueDate(rule, event) ==
    IF rule.type = "fixed_date" THEN rule.fixed
    ELSE IF \/ rule.type \in {"periodic", "no_explicit_date"}
            \/ rule.base = None \/ event = None
            \/ rule.offset = None /\ rule.direction # "on"
      THEN None
    ELSE LET value == IF rule.offset = None THEN 0 ELSE rule.offset
         IN  AddTimeOffset(event, IF rule.direction = "before" THEN -value ELSE value,
                           rule.unit, rule.business)

-----------------------------------------------------------------------------

TimeInit ==
    /\ timeText \in Wordings
    /\ timeRule = None /\ occurred = None /\ planned = None /\ timeStatus = None

\* resolve_obligation; obligations that somebody works on or has closed keep their status,
\* and are not looked at here.
Resolve(rule, event, today) ==
    LET due == ResolveDueDate(rule, event)
    IN  /\ planned' = due
        /\ timeStatus' = IF due # None /\ DayNumber(due) < DayNumber(today) THEN "overdue"
                         ELSE IF rule.type \in Relative /\ due = None THEN "waiting_trigger"
                         ELSE "pending"

\* ContractObligationService.extract, with the dates of the contract it has found.
Extract(given, event, today) ==
    /\ timeRule = None
    /\ LET rule == NormalizeTimeRule(given, timeText)
       IN  timeRule' = rule /\ Resolve(rule, event, today)
    /\ occurred' = event
    /\ UNCHANGED timeText

\* recalculate_obligations after an event has been reported or changed.
Recalculate(event, today) ==
    /\ timeRule # None
    /\ occurred' = event
    /\ Resolve(timeRule, event, today)
    /\ UNCHANGED <<timeText, timeRule>>

TimeNext ==
    \/ \E given \in ModelRules, event \in EventDates \cup {None}, today \in RunDates :
           Extract(given, event, today)
    \/ \E event \in EventDates, today \in RunDates : Recalculate(event, today)

TimeSpec == TimeInit /\ [][TimeNext]_timeVars

-----------------------------------------------------------------------------
(* Properties.                                                             *)

Dated == timeRule # None /\ planned # None
Signed(rule) == IF rule.offset = None THEN 0
                ELSE IF rule.direction = "before" THEN -rule.offset ELSE rule.offset

\* Due dates are what a lawyer counts: so many days, or so many workdays after or before the
\* event, the last of them due; or the same day of a month so far away, its last day if the
\* month is too short; across the ends of years, in leap years, and backwards.
OffsetsAreExact ==
    Dated /\ timeRule.type \in Relative =>
        LET from  == DayNumber(occurred)
            to    == DayNumber(planned)
            n     == Signed(timeRule)
            moons == IF timeRule.unit = "year" THEN 12 * n ELSE n
        IN  CASE timeRule.unit = "day" /\ ~timeRule.business -> to - from = n
              [] timeRule.unit = "day" /\ timeRule.business ->
                   /\ n = 0 => to = from
                   /\ n > 0 => Workday(to) /\ Cardinality({d \in (from + 1)..to : Workday(d)}) = n
                   /\ n < 0 => Workday(to) /\ Cardinality({d \in to..(from - 1) : Workday(d)}) = -n
              [] OTHER ->
                   /\ 12 * planned.year + planned.month
                        = 12 * occurred.year + occurred.month + moons
                   /\ \/ planned.day = occurred.day
                      \/ /\ planned.day < occurred.day
                         /\ planned.day = MonthDays(planned.year, planned.month)

\* An event that is corrected to a later date never makes the obligation due earlier, and no
\* rule puts the due date on the wrong side of the event.
LaterEventsAreDueLater ==
    Dated /\ timeRule.type \in Relative =>
        /\ \A e \in EventDates : DayNumber(e) >= DayNumber(occurred) =>
               DayNumber(ResolveDueDate(timeRule, e)) >= DayNumber(planned)
        /\ IF timeRule.direction = "before" THEN DayNumber(planned) <= DayNumber(occurred)
           ELSE DayNumber(planned) >= DayNumber(occurred)

\* An obligation waits only for something: once its event has occurred it has a date, unless
\* the text says nothing and the model has left out event or offset.
WaitsForSomething ==
    timeStatus = "waiting_trigger" /\ occurred # None =>
        /\ ParseTimeRule(timeText).type = "no_explicit_date"
        /\ timeRule.base = None \/ timeRule.offset = None

\* Due dates are exact, monotone in the date of the event, and there when the event is.
DueDatesAreExact ==
    TimesTypeOK /\ OffsetsAreExact /\ LaterEventsAreDueLater /\ WaitsForSomething

\* Refuted by TLC, since the model's offset is taken and its unit is not: "30 days" of the
\* model for the text's "1 month" becomes 30 months.  A rule has the offset and the unit of
\* one reading, "keeping valid structured results of the model".
OffsetKeepsItsUnit ==
    timeRule # None /\ timeRule.type \in Relative =>
        \E reading \in ModelRules \cup {ParseTimeRule(timeText)} :
            reading.offset = timeRule.offset /\ reading.unit = timeRule.unit
=============================================================================
