--------------------------- MODULE GoogleCalendar ---------------------------
(***************************************************************************)
(* The calendar client (src/src/google_calendar/client.py): events are     *)
(* created, changed and deleted by one request and read back by another,   *)
(* and free slots are computed from the busy times.  The service is        *)
(* external: a request may be carried out and its answer lost, and other   *)
(* clients change the calendar between two requests.                       *)
(*                                                                         *)
(* Times are whole hours from the midnight of the first day, by the clock  *)
(* (the UTC offset) the start of a query is given in.  Its end may be      *)
(* given in another, which only its date shows.                            *)
(***************************************************************************)
EXTENDS Integers, Sequences, FiniteSets, SequencesExt, FiniteSetsExt

CONSTANTS
  EventIds, Summaries,   \* identities the service gives out; titles
  DayHours, Days, WorkStart, WorkEnd,   \* a day, the days looked at, the working hours
  Queries, MaxSlots,     \* what is asked: [from, to, duration, ahead]; max_slots
  MaxEdits               \* bound: changes to the calendar and by other programs

Hours == 0 .. Days * DayHours
EventTimes == {t \in Hours \X Hours : t[1] < t[2]}
(* All-day events begin and end at midnight.                               *)
Events ==
  {e \in [summary : Summaries, time : EventTimes, allDay : BOOLEAN] :
     e.allDay => e.time[1] % DayHours = 0 /\ e.time[2] % DayHours = 0}
(* What an update can change: the title (for all texts), the times (with   *)
(* all_day), or both.                                                      *)
Fields == {"summary", "time"}

ASSUME CalendarAssumption ==
  /\ EventIds \subseteq Nat \ {0} /\ IsFiniteSet(EventIds) /\ DayHours \in Nat \ {0} /\ Days \in Nat \ {0}
  /\ WorkStart \in Nat /\ WorkEnd \in WorkStart + 1 .. DayHours /\ MaxSlots \in Nat \ {0} /\ MaxEdits \in Nat
  /\ Queries \subseteq [from : Hours, to : Hours, duration : 1 .. DayHours, ahead : Int]
  /\ \A q \in Queries : q.from < q.to

VARIABLES
  grants,    \* the token file, _credentials and _service: none, read or write
  calendar,  \* external: the events there are, by id
  edits,     \* bound
  call,      \* the write that is under way
  report,    \* what the last call returned
  slots      \* what the last find_free_slots returned, with its query and the busy times

calendarVars == <<grants, calendar, edits, call, report, slots>>

NoCall   == [op |-> "none"]
NoReport == [call |-> NoCall]
NoSlots  == [found |-> <<>>, busy |-> {}, query |-> [from |-> 0, to |-> 0, duration |-> 1, ahead |-> 0]]

CalendarInit ==
  /\ grants \in [file : {"none", "read", "write"}, cached : {"none"}, service : {"none"}]
  /\ calendar = <<>> /\ edits = 0 /\ call = NoCall /\ report = NoReport /\ slots = NoSlots

(* What a call returned is looked at when it returns.                      *)
Forgotten == report' = NoReport /\ slots' = NoSlots

-----------------------------------------------------------------------------
(* Credentials.                                                            *)

(* _credentials_or_raise: those that were loaded once are kept.            *)
Loaded == IF grants.cached # "none" THEN grants.cached ELSE grants.file
(* _api: the service keeps the credentials it was built with.              *)
Served == IF grants.service # "none" THEN grants.service ELSE Loaded
WithService == [grants EXCEPT !.cached = Loaded, !.service = Served]

(* _missing_scopes also counts what the file says now.                     *)
WriteReady == Loaded # "none" /\ "write" \in {Loaded, grants.file}

(* status loads the file again; the service stays what it is.              *)
CalendarStatus ==
  /\ call = NoCall
  /\ grants' = IF grants.file = "none" THEN grants ELSE [grants EXCEPT !.cached = grants.file]
  /\ Forgotten /\ UNCHANGED <<calendar, edits, call>>

(* authorize_interactively: the user decides what is granted.              *)
Authorize(grant) ==
  /\ call = NoCall
  /\ grants' = [file |-> grant, cached |-> grant, service |-> "none"]
  /\ Forgotten /\ UNCHANGED <<calendar, edits, call>>

(* The same in another process, or the file is removed.                    *)
FileChanges(grant) ==
  /\ edits < MaxEdits /\ edits' = edits + 1
  /\ grant # grants.file /\ grants' = [grants EXCEPT !.file = grant]
  /\ Forgotten /\ UNCHANGED <<calendar, call>>

CloseCalendar ==
  /\ call = NoCall /\ grants' = [grants EXCEPT !.cached = "none", !.service = "none"]
  /\ Forgotten /\ UNCHANGED <<calendar, edits, call>>

-----------------------------------------------------------------------------
(* Writes.  A request may be carried out (if the service's credentials     *)
(* allow it) and then be answered or not.                                  *)

OnCalendar(id) == id \in DOMAIN calendar
WithEvent(id, event) == [i \in DOMAIN calendar \cup {id} |-> IF i = id THEN event ELSE calendar[i]]
WithoutEvent(id) == [i \in DOMAIN calendar \ {id} |-> calendar[i]]

(* A call that sends its request: the service may refuse it, the answer of *)
(* a request that was carried out may be lost.                             *)
Sends(asked, after) ==
  /\ edits < MaxEdits
  /\ \/ /\ Served = "write" /\ calendar' = after /\ edits' = edits + 1
        /\ call' \in {NoCall, asked}
     \/ call' = NoCall /\ UNCHANGED <<calendar, edits>>
  /\ grants' = WithService /\ Forgotten

CreateEvent(event) ==
  /\ call = NoCall /\ WriteReady
  /\ \E id \in EventIds :
       /\ ~OnCalendar(id)
       /\ Sends([op |-> "create", id |-> id, event |-> event, fields |-> Fields],
                WithEvent(id, event))

(* update_event sends the fields that are given.                           *)
Patched(old, event, fields) ==
  [summary |-> IF "summary" \in fields THEN event.summary ELSE old.summary,
   time    |-> IF "time" \in fields THEN event.time ELSE old.time,
   allDay  |-> IF "time" \in fields THEN event.allDay ELSE old.allDay]

UpdateEvent(id, event, fields) ==
  /\ call = NoCall /\ WriteReady
  /\ OnCalendar(id) /\ event = Patched(calendar[id], event, fields)
  /\ Sends([op |-> "update", id |-> id, event |-> event, fields |-> fields], WithEvent(id, event))

(* delete_event looks the event up first, by a request of its own, ...     *)
LookUp(id) ==
  /\ call = NoCall /\ WriteReady
  /\ grants' = WithService
  /\ \/ OnCalendar(id) /\ call' = [op |-> "look", id |-> id, event |-> calendar[id], fields |-> {}]
     \/ call' = NoCall
  /\ Forgotten /\ UNCHANGED <<calendar, edits>>

(* ... and it may be gone when the second one arrives, which then fails.   *)
DeleteEvent ==
  /\ call.op = "look"
  /\ \/ OnCalendar(call.id) /\ Sends([call EXCEPT !.op = "delete"], WithoutEvent(call.id))
     \/ call' = NoCall /\ Forgotten /\ UNCHANGED <<grants, calendar, edits>>

(* What is compared with what is read back: that a deleted event is gone;  *)
(* of a written one the title, if it was given; of the times of an update  *)
(* whether they are whole days, of those of a new event nothing.           *)
Verified ==
  IF call.op = "delete" THEN ~OnCalendar(call.id)
  ELSE /\ OnCalendar(call.id)
       /\ "summary" \in call.fields => calendar[call.id].summary = call.event.summary
       /\ call.op = "update" /\ "time" \in call.fields =>
            calendar[call.id].allDay = call.event.allDay

(* The last request; it raises when a written event is gone or the service *)
(* fails.                                                                  *)
ReadBack ==
  /\ call.op \in {"create", "update", "delete"}
  /\ \/ /\ call.op = "delete" \/ OnCalendar(call.id)
        /\ report' = [call |-> call, verified |-> Verified]
     \/ report' = NoReport
  /\ call' = NoCall
  /\ slots' = NoSlots /\ UNCHANGED <<grants, calendar, edits>>

(* External: another client.                                               *)
OthersEdit ==
  /\ edits < MaxEdits /\ edits' = edits + 1
  /\ \/ \E id \in EventIds, event \in Events : calendar' = WithEvent(id, event)
     \/ \E id \in DOMAIN calendar : calendar' = WithoutEvent(id)
  /\ Forgotten /\ UNCHANGED <<grants, call>>

-----------------------------------------------------------------------------
(* Free slots.                                                             *)

Earlier(s, t) == s[1] < t[1] \/ (s[1] = t[1] /\ s[2] < t[2])
Larger(a, b) == IF a > b THEN a ELSE b

Sorted(busy) ==
  CHOOSE s \in [1 .. Cardinality(busy) -> busy] :
    /\ \A t \in busy : \E i \in DOMAIN s : s[i] = t
    /\ \A i, j \in DOMAIN s : i < j => Earlier(s[i], s[j])

(* Mutant: the later of two that overlap tells where both end.             *)
JoinedToLast(m, t) ==
  IF m = <<>> \/ t[1] > Last(m)[2] THEN Append(m, t)
  ELSE [m EXCEPT ![Len(m)] = <<@[1], t[2]>>]

(* A busy time that overlaps or touches the last one becomes one with it.  *)
Joined(m, t) ==
  IF m = <<>> \/ t[1] > Last(m)[2] THEN Append(m, t)
  ELSE [m EXCEPT ![Len(m)] = <<@[1], Larger(@[2], t[2])>>]

Merged(busy) ==
  LET s == Sorted(busy)
      m[i \in 0 .. Len(s)] == IF i = 0 THEN <<>> ELSE Joined(m[i - 1], s[i])
  IN m[Len(s)]

(* Past a busy time, but not beyond the end of the working hours.          *)
Past(cursor, t, right) == Larger(cursor, IF t[2] < right THEN t[2] ELSE right)

(* A slot at the beginning of the gap before t, if it is long enough.      *)
Walked(w, t, right, duration) ==
  IF t[2] <= w.cursor \/ t[1] >= right THEN w
  ELSE [found  |-> IF t[1] - w.cursor >= duration THEN Append(w.found, w.cursor) ELSE w.found,
        cursor |-> Past(w.cursor, t, right)]

(* One day.                                                                *)
DaySlots(merged, left, right, duration) ==
  LET w[i \in 0 .. Len(merged)] ==
        IF i = 0 THEN [found |-> <<>>, cursor |-> left]
        ELSE Walked(w[i - 1], merged[i], right, duration)
      walked == w[Len(merged)]
  IN IF right <= left THEN <<>>
     ELSE IF right - walked.cursor >= duration THEN Append(walked.found, walked.cursor)
     ELSE walked.found

WindowStart(q, day) == Larger(q.from, day * DayHours + WorkStart)
WindowEnd(q, day) == IF q.to < day * DayHours + WorkEnd THEN q.to ELSE day * DayHours + WorkEnd

(* The days looked at: up to the date of the end by the end's own clock,   *)
(* which is so many hours ahead of the start's (or behind it).             *)
Visited(q, day) == day * DayHours <= q.to + q.ahead

SlotsOf(busy, q, day) ==
  IF Visited(q, day)
  THEN DaySlots(Merged(busy), WindowStart(q, day), WindowEnd(q, day), q.duration) ELSE <<>>

FreeSlots(busy, q) ==
  LET all[d \in 0 .. Days] == IF d = 0 THEN <<>> ELSE all[d - 1] \o SlotsOf(busy, q, d - 1)
  IN SubSeq(all[Days], 1, IF Len(all[Days]) < MaxSlots THEN Len(all[Days]) ELSE MaxSlots)

(* freebusy: the busy times that overlap what is asked for.                *)
Busy(q) == {t \in {calendar[i].time : i \in DOMAIN calendar} : t[1] < q.to /\ t[2] > q.from}

FindFreeSlots(q) ==
  /\ call = NoCall /\ Loaded # "none"
  /\ grants' = WithService
  /\ slots' = [found |-> FreeSlots(Busy(q), q), busy |-> Busy(q), query |-> q]
  /\ report' = NoReport /\ UNCHANGED <<calendar, edits, call>>

CalendarNext ==
  \/ CalendarStatus \/ CloseCalendar
  \/ \E grant \in {"read", "write"} : Authorize(grant)
  \/ \E grant \in {"none", "read", "write"} : FileChanges(grant)
  \/ \E event \in Events : CreateEvent(event)
  \/ \E id \in EventIds, event \in Events, fields \in SUBSET Fields \ {{}} :
       UpdateEvent(id, event, fields)
  \/ \E id \in EventIds : LookUp(id)
  \/ DeleteEvent \/ ReadBack \/ OthersEdit
  \/ \E q \in Queries : FindFreeSlots(q)

CalendarSpec == CalendarInit /\ [][CalendarNext]_calendarVars

-----------------------------------------------------------------------------
FreeFrom(t) ==
  /\ \E d \in 0 .. Days - 1 : WindowStart(slots.query, d) <= t
                              /\ t + slots.query.duration <= WindowEnd(slots.query, d)
  /\ \A b \in slots.busy : b[2] <= t \/ b[1] >= t + slots.query.duration
GapStarts ==
  {WindowStart(slots.query, d) : d \in 0 .. Days - 1} \cup {b[2] : b \in slots.busy}

(* All free beginnings.                                                    *)
Right == {t \in GapStarts : FreeFrom(t)}
(* Those on a day that is looked at.                                       *)
Reached ==
  {t \in Right : \E d \in 0 .. Days - 1 : Visited(slots.query, d) /\ t < (d + 1) * DayHours}
(* The first MaxSlots of a set of times.                                   *)
Firsts(T) == {t \in T : Cardinality({s \in T : s < t}) < MaxSlots}

(* Whatever busy times overlap, touch or span several days: the slots      *)
(* offered are the first of those, in order of time, that begin with the   *)
(* working hours or when a busy time ends, lie within the working hours of *)
(* a day and meet no busy time.  None is left out if the end is given in   *)
(* the offset of the start, or in one ahead of it; if it is given in one   *)
(* behind it, only what lies after the date of the end in its own offset   *)
(* is left out (client.py find_free_slots).                                *)
SlotsAreFree ==
  slots # NoSlots =>
    /\ Range(slots.found) = Firsts(IF slots.query.ahead >= 0 THEN Right ELSE Reached)
    /\ \A i \in 1 .. Len(slots.found) - 1 : slots.found[i] < slots.found[i + 1]

(* tools/google_calendar_tools.py: free times are looked up between        *)
(* time_min and time_max, whatever offsets these are given in: none of     *)
(* them is left out before max_slots are found (client.py _parse_datetime, *)
(* find_free_slots).  Violated: the last day is counted by another clock   *)
(* than the others.                                                        *)
NoneIsLeftOut == slots # NoSlots => Firsts(Right) \subseteq Range(slots.found)

=============================================================================
