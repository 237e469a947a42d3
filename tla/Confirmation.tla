---------------------------- MODULE Confirmation ----------------------------
(***************************************************************************)
(* The confirmation manager (src/src/confirmation/manager.py): at most one *)
(* action waits in memory for the user's approval.  An entry expires       *)
(* lazily, on the next call that looks at it; a high-risk entry carries a  *)
(* random code and survives a bounded number of wrong codes.               *)
(*                                                                         *)
(* The manager is used by the main thread only, so each method is one      *)
(* action; the monotonic clock advances between them.  `log' is a history  *)
(* variable: one entry per request the manager accepted, with its outcome. *)
(***************************************************************************)
EXTENDS Integers, Sequences

CONSTANTS
  Tools,        \* names of the tools that need a confirmation
  Args,         \* argument mappings, told apart only by equality
  HighRisk,     \* the tools whose requirement has risk HIGH
  Ttl,          \* seconds before a request of a tool expires
  Codes,        \* approval codes the user may say
  MaxAttempts,  \* config.max_code_attempts
  None,         \* no pending action, no code
  MaxTime,      \* bound of the clock
  MaxRequests   \* bound of the number of accepted requests

Calls == [tool : Tools, args : Args]

PendingAction ==
  [id : Nat, call : Calls, expires : Nat, code : Codes \cup {None},
   attempts : Nat]

ASSUME ConfirmationAssumption ==
  /\ HighRisk \subseteq Tools
  /\ Ttl \in [Tools -> Nat \ {0}]
  /\ MaxAttempts \in 1..10
  /\ None \notin Codes
  /\ None \notin PendingAction
  /\ MaxTime \in Nat
  /\ MaxRequests \in Nat

VARIABLES
  now,      \* the monotonic clock
  pending,  \* _pending
  log       \* history: every accepted request and what became of it

confVars == <<now, pending, log>>

Outcomes == {"open", "approved", "cancelled", "locked", "expired"}

LogEntry ==
  [call : Calls, expires : Nat, code : Codes \cup {None}, wrong : Nat,
   outcome : Outcomes, at : Nat, given : Codes \cup {None}]

ConfTypeOK ==
  /\ now \in Nat
  /\ pending \in PendingAction \cup {None}
  /\ log \in Seq(LogEntry)

ConfInit ==
  /\ now = 0
  /\ pending = None
  /\ log = <<>>

-----------------------------------------------------------------------------

(* Every method first drops an entry whose deadline has passed.            *)
Expired == pending # None /\ now >= pending.expires

Live == IF Expired THEN None ELSE pending

Settle(id, outcome, given) ==
  [log EXCEPT ![id] = [@ EXCEPT !.outcome = outcome, !.at = now,
                                !.given = given]]

(* The log once the expired entry, if there is one, has been dropped.      *)
CleanLog == IF Expired THEN Settle(pending.id, "expired", None) ELSE log

CleanExpired ==
  /\ pending' = Live
  /\ log' = CleanLog

(* Mutant: looking at the entry takes it.                                  *)
PeekTakes == pending' = None /\ log' = CleanLog /\ UNCHANGED now

(* pop_expired, peek and has_pending change the manager in the same way.   *)
Peek ==
  /\ CleanExpired
  /\ UNCHANGED now

(* request(): an equal call returns the entry that waits already, another  *)
(* call is refused while one waits (ConfirmationBusyError).                *)
NewEntry(call, code) ==
  [id |-> Len(log) + 1, call |-> call, expires |-> now + Ttl[call.tool],
   code |-> code, attempts |-> 0]

CodesFor(tool) == IF tool \in HighRisk THEN Codes ELSE {None}

(* Mutant: asking again for the waiting action renews its deadline.        *)
RequestRenews(call) ==
  /\ UNCHANGED now
  /\ Live # None
       => pending' = [pending EXCEPT !.expires = now + Ttl[call.tool]] /\ log' = log
  /\ Live = None =>
       \E code \in CodesFor(call.tool) :
         /\ Len(log) < MaxRequests
         /\ pending' = NewEntry(call, code)
         /\ log' = Append(CleanLog, [call |-> call, expires |-> now + Ttl[call.tool],
                                     code |-> code, wrong |-> 0, outcome |-> "open",
                                     at |-> now, given |-> None])

Request(call) ==
  /\ UNCHANGED now
  /\ \/ /\ Live # None
        /\ CleanExpired
     \/ /\ Live = None
        /\ Len(log) < MaxRequests
        /\ \E code \in CodesFor(call.tool) :
             LET entry == NewEntry(call, code)
             IN  /\ pending' = entry
                 /\ log' = Append(CleanLog,
                             [call |-> call, expires |-> entry.expires,
                              code |-> code, wrong |-> 0, outcome |-> "open",
                              at |-> now, given |-> None])

(* Mutant: any code will do.                                               *)
AnyCode(given) == Live.code = None \/ given # None

(* approve(code): a standard entry ignores the code; a wrong code costs an *)
(* attempt, and the last one cancels the entry.                            *)
CodeAccepted(given) == Live.code = None \/ Live.code = given

(* Mutant: the approved entry is not taken out.                            *)
ApproveLiveKeeps(given) ==
  /\ Live # None /\ CodeAccepted(given)
  /\ log' = Settle(pending.id, "approved", given)
  /\ UNCHANGED <<pending, now>>

ApproveLive(given) ==
  /\ Live # None
  /\ CodeAccepted(given)
  /\ pending' = None
  /\ log' = Settle(pending.id, "approved", given)
  /\ UNCHANGED now

RejectCode(given) ==
  /\ Live # None
  /\ ~CodeAccepted(given)
  /\ LET attempts == pending.attempts + 1
         locked == MaxAttempts - attempts <= 0
     IN  /\ pending' = IF locked THEN None
                       ELSE [pending EXCEPT !.attempts = attempts]
         /\ log' = [log EXCEPT ![pending.id] =
                      [@ EXCEPT !.wrong = attempts, !.at = now,
                                !.outcome = IF locked THEN "locked" ELSE "open"]]
  /\ UNCHANGED now

ApproveNothing ==
  /\ Live = None
  /\ CleanExpired
  /\ UNCHANGED now

(* cancel(), also called by close() and by the runtime's recovery.         *)
Cancel ==
  /\ pending' = None
  /\ log' = IF Live # None THEN Settle(pending.id, "cancelled", None)
            ELSE CleanLog
  /\ UNCHANGED now

Tick ==
  /\ now < MaxTime
  /\ now' = now + 1
  /\ UNCHANGED <<pending, log>>

ConfNext ==
  \/ Tick
  \/ Peek
  \/ Cancel
  \/ \E call \in Calls : Request(call)
  \/ \E given \in Codes \cup {None} :
       ApproveLive(given) \/ RejectCode(given)
  \/ ApproveNothing

ConfSpec == ConfInit /\ [][ConfNext]_confVars

-----------------------------------------------------------------------------

(* An approval takes effect only strictly before the deadline of the very  *)
(* request it approves, although nothing runs when a deadline passes: the  *)
(* expired entry stays in _pending until the next call.                    *)
ApprovedInTime ==
  \A i \in DOMAIN log :
    log[i].outcome = "approved" => log[i].at < log[i].expires

(* A high-risk request is approved only by its own code, and only while    *)
(* fewer than max_code_attempts wrong codes were given for it.             *)
ApprovedByCode ==
  \A i \in DOMAIN log :
    (log[i].outcome = "approved" /\ log[i].call.tool \in HighRisk)
      => log[i].given = log[i].code /\ log[i].wrong < MaxAttempts

(* The manager never forgets a request: one that is neither approved,      *)
(* cancelled, locked nor expired is the entry it still holds, with the     *)
(* deadline, the code and the failed attempts it was accepted with.        *)
OpenIsPending ==
  \A i \in DOMAIN log :
    log[i].outcome = "open" =>
      /\ pending # None
      /\ pending.id = i
      /\ pending.call = log[i].call
      /\ pending.expires = log[i].expires
      /\ pending.code = log[i].code
      /\ pending.attempts = log[i].wrong

(* The other half: what the manager holds is an open request, so an        *)
(* approval can never revive one that was settled before.                  *)
PendingIsOpen ==
  pending # None =>
    /\ pending.id \in DOMAIN log
    /\ log[pending.id].outcome = "open"

(* The two together: nothing is executed that the user did not approve in  *)
(* time and by its own code.                                               *)
ApprovedLegally == ApprovedInTime /\ ApprovedByCode

(* The two together: the one open request, if any, is what is pending.     *)
OpenIsHeld == OpenIsPending /\ PendingIsOpen

(* A request is settled once: its outcome never changes afterwards, so an  *)
(* action is approved (and then executed) at most once, and never after it *)
(* was cancelled, locked out or expired.                                   *)
SettledOnce ==
  [][\A i \in DOMAIN log :
       log[i].outcome # "open" => i \in DOMAIN log' /\ log'[i] = log[i]]_confVars

(* Asking again for the action that waits, or failing a code, never moves  *)
(* its deadline, changes its code or gives an attempt back.                *)
DeadlineFixed ==
  [][(pending # None /\ pending' # None /\ pending'.id = pending.id)
       => /\ pending'.expires = pending.expires
          /\ pending'.code = pending.code
          /\ pending'.attempts >= pending.attempts]_confVars

=============================================================================
