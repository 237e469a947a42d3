------------------------------- MODULE Memory -------------------------------
(***************************************************************************)
(* Long-term memory: aliases and preferences (src/src/memory/store.py) and *)
(* projects, decisions, todos, relations and summaries with their history  *)
(* and conflicts (src/src/memory/v2.py), in one SQLite file.               *)
(*                                                                         *)
(* A key is a normalised kind, scope and name; the rows of a key are never *)
(* deleted, so the key also stands for the id.  Content is what _material  *)
(* compares; each call is one transaction, so a call that raises leaves    *)
(* nothing and is no step.                                                 *)
(***************************************************************************)
EXTENDS Integers, Sequences, FiniteSets

CONSTANTS
  Keys, KindOf(_),     \* structured items and their kinds
  Names,               \* normalised names of aliases and preferences
  Values,              \* values with notes, importance and confidence
  MaxEntries, MaxHistory, MaxConflicts,  \* the configured limits
  MaxRaised            \* bound: conflicts ever raised

ASSUME MemoryAssumption ==
  /\ MaxEntries \in Nat \ {0} /\ MaxHistory \in Nat \ {0} /\ MaxConflicts \in Nat \ {0}
  /\ MaxRaised \in Nat

VARIABLES
  records,    \* structured_memories: key -> content
  legacy,     \* the names in memories
  log,        \* memory_history, oldest first
  conflicts   \* memory_conflicts, by id

memoryVars == <<records, legacy, log, conflicts>>

StatusByKind(kind) ==
  CASE kind = "project"  -> {"active", "completed", "archived"}
    [] kind = "decision" -> {"active", "superseded", "archived"}
    [] kind = "todo"     -> {"pending", "in_progress", "completed", "cancelled", "archived"}
    [] kind = "relation" -> {"active", "archived"}
    [] kind = "summary"  -> {"active", "superseded", "archived"}

Contents(k) == [value : Values, status : StatusByKind(KindOf(k))]

MemoryInit == records = <<>> /\ legacy = {} /\ log = <<>> /\ conflicts = <<>>

Stored == DOMAIN records
Total == Cardinality(legacy) + Cardinality(Stored)

(* _append_history: the oldest entries go first.                           *)
Logged(entry) ==
  LET all == Append(log, entry)
  IN IF Len(all) > MaxHistory THEN Tail(all) ELSE all

Change(k, c) ==
  /\ log' = Logged([key |-> k, old |-> records[k], new |-> c])
  /\ records' = [records EXCEPT ![k] = c]

-----------------------------------------------------------------------------
PendingConflicts == {i \in DOMAIN conflicts : conflicts[i].status = "pending"}

(* _create_conflict: the same candidate for the same item is raised once.  *)
CreateConflict(k, c) ==
  IF \E i \in PendingConflicts : conflicts[i].key = k /\ conflicts[i].candidate = c
  THEN UNCHANGED conflicts
  ELSE /\ Cardinality(PendingConflicts) < MaxConflicts
       /\ conflicts' = Append(conflicts, [key |-> k, current |-> records[k], candidate |-> c,
                                          status |-> "pending"])

(* remember of a known item: as it is, replaced when the caller says so,   *)
(* or a conflict.                                                          *)
RememberKnown(k, c, replace) ==
  /\ k \in Stored
  /\ \/ records[k] = c /\ UNCHANGED <<records, log, conflicts>>
     \/ records[k] # c /\ replace /\ Change(k, c) /\ UNCHANGED conflicts
     \/ records[k] # c /\ ~replace /\ CreateConflict(k, c) /\ UNCHANGED <<records, log>>
  /\ UNCHANGED legacy

RememberNew(k, c) ==
  /\ k \notin Stored /\ Total < MaxEntries
  /\ records' = [j \in Stored \cup {k} |-> IF j = k THEN c ELSE records[j]]
  /\ UNCHANGED <<legacy, log, conflicts>>

(* Mutant: a status change is not entered in the history.                  *)
SetStatusUnlogged(k, s) ==
  /\ k \in Stored /\ s \in StatusByKind(KindOf(k)) /\ records[k].status # s
  /\ records' = [records EXCEPT ![k].status = s]
  /\ UNCHANGED <<legacy, log, conflicts>>

SetStatus(k, s) ==
  /\ k \in Stored /\ s \in StatusByKind(KindOf(k)) /\ records[k].status # s
  /\ Change(k, [records[k] EXCEPT !.status = s])
  /\ UNCHANGED <<legacy, conflicts>>

(* A conflict can be decided while the item is what it was compared with.  *)
Decidable(i) ==
  conflicts[i].status = "pending" /\ records[conflicts[i].key] = conflicts[i].current

(* resolve_conflict: nothing, the candidate, or a merged content.          *)
ResolveConflict(i, resolution, merged) ==
  /\ Decidable(i)
  /\ LET k == conflicts[i].key
     IN CASE resolution = "keep_existing" -> UNCHANGED <<records, log>>
          [] resolution = "use_candidate" -> Change(k, conflicts[i].candidate)
          [] resolution = "merge" ->
               merged \in Contents(k) /\ Change(k, merged)
  /\ conflicts' = [conflicts EXCEPT ![i].status = "resolved"]
  /\ UNCHANGED legacy

-----------------------------------------------------------------------------
(* _upsert of an alias or a preference looks at its own table only.        *)
RememberName(n) ==
  /\ n \notin legacy => Cardinality(legacy) < MaxEntries
  /\ legacy' = legacy \cup {n}
  /\ UNCHANGED <<records, log, conflicts>>

Forget(n) == legacy' = legacy \ {n} /\ UNCHANGED <<records, log, conflicts>>

MemoryNext ==
  \/ \E k \in Keys : \E c \in Contents(k) :
       RememberNew(k, c) \/ \E replace \in BOOLEAN : RememberKnown(k, c, replace)
  \/ \E k \in Stored : \E s \in StatusByKind(KindOf(k)) : SetStatus(k, s)
  \/ \E i \in DOMAIN conflicts, resolution \in {"keep_existing", "use_candidate", "merge"} :
       \E merged \in Contents(conflicts[i].key) : ResolveConflict(i, resolution, merged)
  \/ \E n \in Names : RememberName(n) \/ Forget(n)

MemoryBounded == Len(conflicts') <= MaxRaised

MemorySpec == MemoryInit /\ [][MemoryNext /\ MemoryBounded]_memoryVars

-----------------------------------------------------------------------------
(* A history tells how every item in it became what it is at present: the *)
(* entry of an item begins where the one before it ended, and the last one *)
(* ended at the present content.                                           *)
Untold(h, k, after, before) == \A m \in after + 1 .. before - 1 : h[m].key # k

Tells(h, present) ==
  \A i \in DOMAIN h :
    /\ \A j \in i + 1 .. Len(h) :
         h[j].key = h[i].key /\ Untold(h, h[i].key, i, j) => h[j].old = h[i].new
    /\ Untold(h, h[i].key, i, Len(h) + 1) =>
         h[i].key \in DOMAIN present /\ present[h[i].key] = h[i].new

(* The history tells how an item became what it is: its entries follow one *)
(* another without a gap and the last one leads to the present content,    *)
(* whether it was replaced, got another status or came out of a conflict,  *)
(* and although old entries are dropped (memory/v2.py _append_history,     *)
(* remember, set_status, resolve_conflict).                                *)
HistoryLeadsToPresent == Tells(log, records)

(* A conflict that is still pending can be decided, as the recommendation  *)
(* of memory/v2.py health asks of the user.                                *)
PendingCanBeDecided == \A i \in PendingConflicts : Decidable(i)

=============================================================================
