----------------------------- MODULE MCCalendar -----------------------------
(* The calendar: what is asked of it.                                      *)
EXTENDS GoogleCalendar

(* The end of a query in the offset of its start, ahead of it, and so far  *)
(* behind it that the last day is not looked at.                           *)
MCQueries == {[from |-> 0, to |-> 8, duration |-> 1, ahead |-> 0],
              [from |-> 1, to |-> 7, duration |-> 2, ahead |-> 2],
              [from |-> 1, to |-> 6, duration |-> 1, ahead |-> -3]}

=============================================================================
