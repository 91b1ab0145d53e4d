-------------------------- MODULE MCLeaveCalendar --------------------------
(***************************************************************************)
(* Instances of LeaveReport: Thursday to Tuesday with the weekend between  *)
(* (days 3 and 4) and a holiday at the end, forms of every mode.           *)
(***************************************************************************)
EXTENDS LeaveReport

Form(first, last, start, end) ==
    [first |-> first, last |-> last, startFormat |-> start, endFormat |-> end,
     from |-> 0, to |-> 0]

ClockForm(day, from, to) ==
    [Form(day, day, "hourly", "hourly") EXCEPT !.from = from, !.to = to]

DayForms ==
    {Form(2, 2, portion, portion) : portion \in Portions} \cup
    {Form(1, 2, start, "morning") : start \in {"full", "afternoon"}} \cup
    {Form(first, 5, start, end) :
        first \in {1, 2}, start \in Portions, end \in {"full", "morning"}}

\* Office hours; and for day 6, a public holiday, one form that finds it and one
\* that does not.
OfficeClock == {ClockForm(2, 9, 12), ClockForm(2, 13, 16)}

ClockForms ==
    {ClockForm(2, 9, 12), ClockForm(2, 17, 21), ClockForm(5, 19, 22),
     ClockForm(6, 7, 10), ClockForm(6, 8, 12)}

AllForms == DayForms \cup ClockForms
=============================================================================
