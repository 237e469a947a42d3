------------------------- MODULE ConfirmationProofs -------------------------
(***************************************************************************)
(* The invariants of the confirmation manager for every set of tools, every*)
(* timeout, every number of attempts and every number of requests.         *)
(*                                                                         *)
(* The inductive invariant joins the two halves of the correspondence      *)
(* between _pending and the history (OpenIsPending, PendingIsOpen) with    *)
(* the facts about codes that make an accepted code the right one.         *)
(***************************************************************************)
EXTENDS Confirmation, TLAPS

(* A high-risk request always has a code, and an open request has attempts *)
(* left.                                                                   *)
CodeInv ==
  \A i \in DOMAIN log :
    /\ log[i].call.tool \in HighRisk => log[i].code # None
    /\ log[i].outcome = "open" => log[i].wrong < MaxAttempts

ConfInv ==
  /\ ConfTypeOK
  /\ OpenIsPending
  /\ PendingIsOpen
  /\ CodeInv
  /\ ApprovedInTime
  /\ ApprovedByCode

(* Settling one entry of the log touches that entry only, and in it only   *)
(* the outcome, its time and the code that was given.                      *)
Settled(old, new, outcome, given) ==
  /\ new.call = old.call /\ new.expires = old.expires
  /\ new.code = old.code /\ new.wrong = old.wrong
  /\ new.outcome = outcome /\ new.at = now /\ new.given = given

LEMMA SettleLemma ==
  ASSUME ConfTypeOK, NEW id \in DOMAIN log, NEW outcome \in Outcomes,
         NEW given \in Codes \cup {None}
  PROVE  /\ Settle(id, outcome, given) \in Seq(LogEntry)
         /\ DOMAIN Settle(id, outcome, given) = DOMAIN log
         /\ Settled(log[id], Settle(id, outcome, given)[id], outcome, given)
         /\ \A i \in DOMAIN log \ {id} :
              Settle(id, outcome, given)[i] = log[i]
<1> DEFINE e == [log[id] EXCEPT !.outcome = outcome, !.at = now, !.given = given]
<1>1. log[id] \in LogEntry
  BY DEF ConfTypeOK
<1>2. e \in LogEntry /\ Settled(log[id], e, outcome, given)
  <2>1. [log[id] EXCEPT !.outcome = outcome] \in LogEntry
    BY <1>1 DEF LogEntry
  <2>2. [[log[id] EXCEPT !.outcome = outcome] EXCEPT !.at = now] \in LogEntry
    BY <2>1 DEF LogEntry, ConfTypeOK
  <2> QED
    BY <1>1, <2>2 DEF LogEntry, ConfTypeOK, Settled
<1>3. Settle(id, outcome, given) = [log EXCEPT ![id] = e]
  BY DEF Settle
<1>4. log \in Seq(LogEntry) /\ id \in 1..Len(log)
  BY DEF ConfTypeOK
<1> HIDE DEF e
<1>5. [log EXCEPT ![id] = e] \in Seq(LogEntry)
  BY <1>2, <1>4
<1>6. \A i \in DOMAIN log :
        [log EXCEPT ![id] = e][i] = IF i = id THEN e ELSE log[i]
  BY <1>4
<1>7. DOMAIN [log EXCEPT ![id] = e] = DOMAIN log
  OBVIOUS
<1> QED
  BY <1>2, <1>3, <1>5, <1>6, <1>7

(* Settling the pending entry: an expiry, a cancellation or an approval.   *)
LEMMA SettlePendingLemma ==
  ASSUME ConfInv, pending # None,
         NEW outcome \in Outcomes \ {"open"}, NEW given \in Codes \cup {None},
         outcome = "approved" =>
           now < pending.expires /\ (pending.code = None \/ pending.code = given),
         pending' = None,
         log' = Settle(pending.id, outcome, given),
         UNCHANGED now
  PROVE  ConfInv'
<1> USE DEF ConfInv
<1>1. /\ pending.id \in DOMAIN log
      /\ log[pending.id].outcome = "open"
      /\ pending.expires = log[pending.id].expires
      /\ pending.code = log[pending.id].code
  BY DEF PendingIsOpen, OpenIsPending
<1>2. /\ log' \in Seq(LogEntry)
      /\ DOMAIN log' = DOMAIN log
      /\ Settled(log[pending.id], log'[pending.id], outcome, given)
      /\ \A i \in DOMAIN log \ {pending.id} : log'[i] = log[i]
  BY <1>1, SettleLemma
<1>3. ConfTypeOK'
  BY <1>2 DEF ConfTypeOK
<1>4. \A i \in DOMAIN log : log'[i].outcome # "open"
  BY <1>1, <1>2 DEF OpenIsPending, Settled
<1>5. OpenIsPending' /\ PendingIsOpen'
  BY <1>2, <1>4 DEF OpenIsPending, PendingIsOpen
<1>6. CodeInv'
  BY <1>1, <1>2, <1>4 DEF CodeInv, Settled
<1>7. ApprovedInTime'
  BY <1>1, <1>2 DEF ApprovedInTime, Settled
<1>8. ApprovedByCode'
  BY <1>1, <1>2 DEF ApprovedByCode, CodeInv, Settled
<1> QED BY <1>3, <1>5, <1>6, <1>7, <1>8

(* Dropping an expired entry, which every method does first.               *)
LEMMA CleanLemma ==
  ASSUME ConfInv, CleanExpired, UNCHANGED now
  PROVE  ConfInv'
<1>1. CASE Expired
  BY <1>1, SettlePendingLemma
  DEF Expired, CleanExpired, Live, CleanLog, Outcomes
<1>2. CASE ~Expired
  BY <1>2 DEF CleanExpired, Live, CleanLog, ConfInv, ConfTypeOK, OpenIsPending,
              PendingIsOpen, CodeInv, ApprovedInTime, ApprovedByCode
<1> QED BY <1>1, <1>2

(* The log an operation works on after the clean-up.                       *)
LEMMA CleanLogLemma ==
  ASSUME ConfInv
  PROVE  /\ CleanLog \in Seq(LogEntry)
         /\ DOMAIN CleanLog = DOMAIN log
         /\ Live = None => \A i \in DOMAIN log : CleanLog[i].outcome # "open"
         /\ \A i \in DOMAIN log :
              \/ CleanLog[i] = log[i]
              \/ /\ CleanLog[i].outcome = "expired"
                 /\ CleanLog[i].call = log[i].call
                 /\ CleanLog[i].code = log[i].code
<1> USE DEF ConfInv
<1>1. CASE Expired
  <2>1. pending.id \in DOMAIN log
    BY <1>1 DEF Expired, PendingIsOpen
  <2>2. /\ CleanLog \in Seq(LogEntry)
        /\ DOMAIN CleanLog = DOMAIN log
        /\ Settled(log[pending.id], CleanLog[pending.id], "expired", None)
        /\ \A i \in DOMAIN log \ {pending.id} : CleanLog[i] = log[i]
    BY <1>1, <2>1, SettleLemma DEF CleanLog, Outcomes
  <2> QED
    BY <2>1, <2>2 DEF Settled, OpenIsPending
<1>2. CASE ~Expired
  BY <1>2 DEF CleanLog, Live, ConfTypeOK, OpenIsPending
<1> QED BY <1>1, <1>2

(* request(): the entry that waits is returned or refused as it is, or a   *)
(* fresh one takes the free place.                                         *)
LEMMA RequestLemma ==
  ASSUME ConfInv, NEW call \in Calls, Request(call)
  PROVE  ConfInv'
<1> USE ConfirmationAssumption
<1>1. CASE Live # None /\ CleanExpired
  BY <1>1, CleanLemma DEF Request
<1>2. ASSUME Live = None, NEW code \in CodesFor(call.tool),
             pending' = NewEntry(call, code),
             log' = Append(CleanLog,
                      [call |-> call, expires |-> NewEntry(call, code).expires,
                       code |-> code, wrong |-> 0, outcome |-> "open",
                       at |-> now, given |-> None]),
             UNCHANGED now
      PROVE  ConfInv'
  <2> DEFINE new == [call |-> call, expires |-> now + Ttl[call.tool],
                     code |-> code, wrong |-> 0, outcome |-> "open",
                     at |-> now, given |-> None]
  <2>1. /\ CleanLog \in Seq(LogEntry)
        /\ DOMAIN CleanLog = DOMAIN log
        /\ \A i \in DOMAIN log : CleanLog[i].outcome # "open"
        /\ \A i \in DOMAIN log :
              \/ CleanLog[i] = log[i]
              \/ /\ CleanLog[i].outcome = "expired"
                 /\ CleanLog[i].call = log[i].call
                 /\ CleanLog[i].code = log[i].code
    BY <1>2, CleanLogLemma
  <2>2. /\ now + Ttl[call.tool] \in Nat
        /\ code \in Codes \cup {None}
        /\ call.tool \in HighRisk => code # None
    BY DEF Calls, CodesFor, ConfInv, ConfTypeOK
  <2>3. /\ pending' = [id |-> Len(log) + 1, call |-> call,
                       expires |-> now + Ttl[call.tool], code |-> code,
                       attempts |-> 0]
        /\ log' = Append(CleanLog, new)
    BY <1>2 DEF NewEntry
  <2>4. new \in LogEntry
    BY <2>2 DEF LogEntry, Outcomes, ConfInv, ConfTypeOK
  <2>5. log \in Seq(LogEntry)
    BY DEF ConfInv, ConfTypeOK
  <2>6. /\ log' \in Seq(LogEntry)
        /\ Len(log') = Len(log) + 1
        /\ DOMAIN log' = 1..(Len(log) + 1)
        /\ log'[Len(log) + 1] = new
        /\ \A i \in DOMAIN log : log'[i] = CleanLog[i]
    <3> HIDE DEF new
    <3>1. Len(CleanLog) = Len(log)
      BY <2>1, <2>5
    <3> QED
      BY <2>1, <2>3, <2>4, <2>5, <3>1
  <2>7. pending' \in PendingAction
    BY <2>2, <2>3, <2>5 DEF PendingAction
  <2>8. ConfTypeOK'
    BY <1>2, <2>6, <2>7 DEF ConfInv, ConfTypeOK
  <2>9. \A i \in DOMAIN log' : i \in DOMAIN log \/ i = Len(log) + 1
    BY <2>5, <2>6
  <2>10. pending' # None
    BY <2>7
  <2>11. OpenIsPending'
    BY <2>1, <2>3, <2>6, <2>9, <2>10 DEF OpenIsPending
  <2>12. PendingIsOpen'
    BY <2>3, <2>5, <2>6 DEF PendingIsOpen
  <2>13. CodeInv'
    BY <2>1, <2>2, <2>6, <2>9 DEF ConfInv, CodeInv
  <2>14. ApprovedInTime'
    BY <2>1, <2>6, <2>9 DEF ConfInv, ApprovedInTime
  <2>15. ApprovedByCode'
    BY <2>1, <2>6, <2>9 DEF ConfInv, ApprovedByCode
  <2> QED
    BY <2>8, <2>11, <2>12, <2>13, <2>14, <2>15 DEF ConfInv
<1> QED
  BY <1>1, <1>2 DEF Request

(* approve() with an acceptable code.                                      *)
LEMMA ApproveLemma ==
  ASSUME ConfInv, NEW given \in Codes \cup {None}, ApproveLive(given)
  PROVE  ConfInv'
<1>1. pending # None /\ Live = pending /\ now < pending.expires
  BY DEF ApproveLive, Live, Expired, ConfInv, ConfTypeOK, PendingAction
<1>2. pending.code = None \/ pending.code = given
  BY <1>1 DEF ApproveLive, CodeAccepted
<1> QED
  BY <1>1, <1>2, SettlePendingLemma DEF ApproveLive, Outcomes

(* approve() with a wrong code: the attempt is counted in both records.    *)
LEMMA RejectLemma ==
  ASSUME ConfInv, NEW given \in Codes \cup {None}, RejectCode(given)
  PROVE  ConfInv'
<1> USE ConfirmationAssumption DEF ConfInv
<1> DEFINE id == pending.id
           attempts == pending.attempts + 1
           locked == MaxAttempts - attempts <= 0
           e == [log[id] EXCEPT !.wrong = attempts, !.at = now,
                                !.outcome = IF locked THEN "locked" ELSE "open"]
<1>1. pending # None /\ Live = pending
  BY DEF RejectCode, Live
<1>2. /\ id \in DOMAIN log
      /\ log[id].outcome = "open"
      /\ pending.call = log[id].call
      /\ pending.expires = log[id].expires
      /\ pending.code = log[id].code
      /\ pending \in PendingAction
      /\ log \in Seq(LogEntry)
      /\ log[id] \in LogEntry
      /\ attempts \in Nat
  BY <1>1 DEF PendingIsOpen, OpenIsPending, ConfTypeOK, PendingAction
<1>3. /\ e \in LogEntry
      /\ e.call = log[id].call /\ e.expires = log[id].expires
      /\ e.code = log[id].code /\ e.wrong = attempts
      /\ e.outcome = IF locked THEN "locked" ELSE "open"
  <2>1. [log[id] EXCEPT !.wrong = attempts] \in LogEntry
    BY <1>2 DEF LogEntry
  <2>2. [[log[id] EXCEPT !.wrong = attempts] EXCEPT !.at = now] \in LogEntry
    BY <2>1 DEF LogEntry, ConfTypeOK
  <2> HIDE DEF locked, attempts
  <2>3. (IF locked THEN "locked" ELSE "open") \in Outcomes
    BY <1>2 DEF Outcomes
  <2> QED
    BY <1>2, <2>2, <2>3 DEF LogEntry
<1>4. log' = [log EXCEPT ![id] = e]
  BY DEF RejectCode
<1>5. UNCHANGED now
  BY DEF RejectCode
<1>6. pending' = IF locked THEN None ELSE [pending EXCEPT !.attempts = attempts]
  BY DEF RejectCode
<1> HIDE DEF e
<1>7. /\ log' \in Seq(LogEntry)
      /\ DOMAIN log' = DOMAIN log
      /\ log'[id] = e
      /\ \A i \in DOMAIN log \ {id} : log'[i] = log[i]
  BY <1>2, <1>3, <1>4
<1>8. \A i \in DOMAIN log \ {id} : log'[i].outcome # "open"
  BY <1>2, <1>7 DEF OpenIsPending
<1>9. CASE locked
  <2> HIDE DEF locked
  <2>1. pending' = None /\ log'[id].outcome = "locked"
    BY <1>3, <1>6, <1>7, <1>9
  <2>2. ConfTypeOK' /\ OpenIsPending' /\ PendingIsOpen'
    BY <1>5, <1>7, <1>8, <2>1 DEF ConfTypeOK, OpenIsPending, PendingIsOpen
  <2>3. CodeInv' /\ ApprovedInTime' /\ ApprovedByCode'
    BY <1>2, <1>3, <1>7, <1>8, <2>1 DEF CodeInv, ApprovedInTime, ApprovedByCode
  <2> QED BY <2>2, <2>3
<1>10. CASE ~locked
  <2>1. attempts < MaxAttempts
    BY <1>2, <1>10
  <2>2. /\ pending' = [pending EXCEPT !.attempts = attempts]
        /\ log'[id].outcome = "open"
    BY <1>3, <1>6, <1>7, <1>10
  <2>3. /\ pending' \in PendingAction
        /\ pending'.id = id
        /\ pending'.call = pending.call
        /\ pending'.expires = pending.expires
        /\ pending'.code = pending.code
        /\ pending'.attempts = attempts
    BY <1>2, <2>2 DEF PendingAction
  <2> HIDE DEF locked, attempts
  <2>4. pending' # None
    BY <2>3
  <2>5. ConfTypeOK'
    BY <1>5, <1>7, <2>3 DEF ConfTypeOK
  <2>6. OpenIsPending' /\ PendingIsOpen'
    BY <1>2, <1>3, <1>7, <1>8, <2>2, <2>3, <2>4 DEF OpenIsPending, PendingIsOpen
  <2>7. CodeInv' /\ ApprovedInTime' /\ ApprovedByCode'
    BY <1>2, <1>3, <1>7, <1>8, <2>1, <2>2
    DEF CodeInv, ApprovedInTime, ApprovedByCode
  <2> QED BY <2>5, <2>6, <2>7
<1> QED BY <1>9, <1>10

(* cancel(), called by the user, by the registry's close and by recovery.  *)
LEMMA CancelLemma ==
  ASSUME ConfInv, Cancel
  PROVE  ConfInv'
<1>1. CASE Live # None
  BY <1>1, SettlePendingLemma DEF Cancel, Live, Outcomes
<1>2. CASE Live = None
  BY <1>2, CleanLemma DEF Cancel, CleanExpired
<1> QED BY <1>1, <1>2

(* Time passing settles nothing: the deadline is looked at by the next     *)
(* call.                                                                   *)
LEMMA TickLemma ==
  ASSUME ConfInv, Tick
  PROVE  ConfInv'
BY DEF ConfInv, Tick, ConfTypeOK, OpenIsPending, PendingIsOpen, CodeInv,
       ApprovedInTime, ApprovedByCode

(* Every step of the manager preserves the invariant.                      *)
LEMMA ConfStep == ConfInv /\ [ConfNext]_confVars => ConfInv'
<1> SUFFICES ASSUME ConfInv, [ConfNext]_confVars
             PROVE  ConfInv'
  OBVIOUS
<1>1. CASE Tick
  BY <1>1, TickLemma
<1>2. CASE Peek
  BY <1>2, CleanLemma DEF Peek
<1>3. CASE Cancel
  BY <1>3, CancelLemma
<1>4. ASSUME NEW call \in Calls, Request(call) PROVE ConfInv'
  BY <1>4, RequestLemma
<1>5. ASSUME NEW given \in Codes \cup {None}, ApproveLive(given) PROVE ConfInv'
  BY <1>5, ApproveLemma
<1>6. ASSUME NEW given \in Codes \cup {None}, RejectCode(given) PROVE ConfInv'
  BY <1>6, RejectLemma
<1>7. CASE ApproveNothing
  BY <1>7, CleanLemma DEF ApproveNothing
<1>8. CASE UNCHANGED confVars
  BY <1>8 DEF confVars, ConfInv, ConfTypeOK, OpenIsPending, PendingIsOpen,
              CodeInv, ApprovedInTime, ApprovedByCode
<1> QED
  BY <1>1, <1>2, <1>3, <1>4, <1>5, <1>6, <1>7, <1>8 DEF ConfNext

(* The manager begins without requests.                                    *)
LEMMA ConfInitInv == ConfInit => ConfInv
BY DEF ConfInit, ConfInv, ConfTypeOK, OpenIsPending, PendingIsOpen, CodeInv,
       ApprovedInTime, ApprovedByCode

(* The inductive invariant holds in every reachable state.                 *)
THEOREM ConfInvariant == ConfSpec => []ConfInv
BY ConfInitInv, ConfStep, PTL DEF ConfSpec

(* Which requests are approved, compared with before.                      *)
SameApproved ==
  \A i \in DOMAIN log :
    i \in DOMAIN log' /\ (log'[i].outcome = "approved" <=> log[i].outcome = "approved")

(* Dropping an expired entry approves nothing.                             *)
LEMMA CleanApprovesNothing ==
  ASSUME ConfInv
  PROVE  /\ CleanLog \in Seq(LogEntry) /\ Len(CleanLog) = Len(log)
         /\ \A i \in DOMAIN log : CleanLog[i].outcome = "approved" <=> log[i].outcome = "approved"
<1>1. CleanLog \in Seq(LogEntry) /\ DOMAIN CleanLog = DOMAIN log /\ log \in Seq(LogEntry)
  BY CleanLogLemma DEF ConfInv, ConfTypeOK
<1>2. Expired => /\ pending.id \in DOMAIN log /\ log[pending.id].outcome = "open"
                 /\ log[pending.id] \in LogEntry
  BY <1>1 DEF ConfInv, PendingIsOpen, Expired
<1>3. \A i \in DOMAIN log : CleanLog[i].outcome = "approved" <=> log[i].outcome = "approved"
  BY <1>2 DEF CleanLog, Settle, LogEntry
<1> QED
  BY <1>1, <1>3

(* Only approve() with an acceptable code approves anything; request()     *)
(* may add an open request behind the others.                              *)
LEMMA OthersApproveNothing ==
  ASSUME ConfInv,
         \/ Tick \/ Peek \/ Cancel \/ ApproveNothing
         \/ \E call \in Calls : Request(call)
         \/ \E given \in Codes \cup {None} : RejectCode(given)
  PROVE  /\ SameApproved
         /\ \/ Len(log') = Len(log)
            \/ Len(log') = Len(log) + 1 /\ log'[Len(log) + 1].outcome # "approved"
<1>1. log \in Seq(LogEntry) /\ (pending # None => /\ pending.id \in DOMAIN log
                                                /\ log[pending.id].outcome = "open"
                                                /\ log[pending.id] \in LogEntry)
  BY DEF ConfInv, ConfTypeOK, PendingIsOpen
<1>2. CASE log' = CleanLog
  BY <1>1, <1>2, CleanApprovesNothing DEF SameApproved
<1>3. CASE Tick
  BY <1>3 DEF Tick, SameApproved
<1>4. CASE Cancel /\ Live # None
  <2>1. pending # None /\ log' = Settle(pending.id, "cancelled", None)
    BY <1>4 DEF Cancel, Live
  <2> QED
    BY <1>1, <2>1 DEF Settle, SameApproved, LogEntry
<1>5. ASSUME NEW given \in Codes \cup {None}, RejectCode(given)
      PROVE  SameApproved /\ Len(log') = Len(log)
  <2>1. pending # None
    BY <1>5 DEF RejectCode, Live
  <2> DEFINE locked == MaxAttempts - (pending.attempts + 1) <= 0
             e == [log[pending.id] EXCEPT !.wrong = pending.attempts + 1, !.at = now,
                                          !.outcome = IF locked THEN "locked" ELSE "open"]
  <2>2. log' = [log EXCEPT ![pending.id] = e]
    BY <1>5 DEF RejectCode
  <2> HIDE DEF locked
  <2>3. e.outcome # "approved"
    BY <1>1, <2>1 DEF LogEntry
  <2> HIDE DEF e
  <2> QED
    BY <1>1, <2>1, <2>2, <2>3 DEF SameApproved
<1>6. ASSUME NEW e, log' = Append(CleanLog, e), e.outcome = "open"
      PROVE  SameApproved /\ Len(log') = Len(log) + 1 /\ log'[Len(log) + 1].outcome # "approved"
  BY <1>1, <1>6, CleanApprovesNothing DEF SameApproved
<1>7. ASSUME NEW call \in Calls, Request(call)
      PROVE  log' = CleanLog \/ \E e : log' = Append(CleanLog, e) /\ e.outcome = "open"
  <2>1. ASSUME NEW code \in CodesFor(call.tool),
               log' = Append(CleanLog,
                        [call |-> call, expires |-> NewEntry(call, code).expires,
                         code |-> code, wrong |-> 0, outcome |-> "open",
                         at |-> now, given |-> None])
        PROVE  \E e : log' = Append(CleanLog, e) /\ e.outcome = "open"
    <3> DEFINE e == [call |-> call, expires |-> NewEntry(call, code).expires,
                     code |-> code, wrong |-> 0, outcome |-> "open",
                     at |-> now, given |-> None]
    <3>1. e.outcome = "open"
      OBVIOUS
    <3>2. log' = Append(CleanLog, e)
      BY <2>1
    <3> HIDE DEF e
    <3> QED
      BY <3>1, <3>2
  <2> QED
    BY <1>7, <2>1 DEF Request, CleanExpired
<1> QED
  BY <1>2, <1>3, <1>4, <1>5, <1>6, <1>7 DEF Peek, ApproveNothing, CleanExpired, Cancel

(* approve() with an acceptable code approves the open request and leaves  *)
(* all others as they are.                                                 *)
LEMMA ApproveApproves ==
  ASSUME ConfInv, NEW given \in Codes \cup {None}, ApproveLive(given)
  PROVE  /\ pending # None /\ pending.id \in DOMAIN log /\ log[pending.id].outcome = "open"
         /\ DOMAIN log' = DOMAIN log /\ log'[pending.id].outcome = "approved"
         /\ \A i \in DOMAIN log \ {pending.id} : log'[i] = log[i]
<1>1. pending # None /\ log' = Settle(pending.id, "approved", given)
  BY DEF ApproveLive, Live
<1>2. pending.id \in DOMAIN log /\ log[pending.id].outcome = "open" /\ "approved" \in Outcomes
  BY <1>1 DEF ConfInv, PendingIsOpen, Outcomes
<1> QED
  BY <1>1, <1>2, SettleLemma DEF ConfInv, Settled

(* Every approval is given before the deadline of what it approves, and a  *)
(* high-risk one by the code of that very request with attempts left.      *)
THEOREM ApprovalIsSound == ConfSpec => []ApprovedLegally
<1>1. ConfInv => ApprovedLegally
  BY DEF ConfInv, ApprovedLegally
<1> QED
  BY <1>1, ConfInvariant, PTL

(* The manager and the history agree: no accepted request is forgotten.    *)
THEOREM NoRequestForgotten == ConfSpec => []OpenIsHeld
<1>1. ConfInv => OpenIsHeld
  BY DEF ConfInv, OpenIsHeld
<1> QED
  BY <1>1, ConfInvariant, PTL

(* A settled request keeps its outcome for ever: at most one execution per *)
(* request, none after a cancellation, a lock-out or an expiry.            *)
THEOREM OutcomeIsFinal == ConfSpec => SettledOnce
<1> DEFINE Kept == \A i \in DOMAIN log :
                     log[i].outcome # "open" => i \in DOMAIN log' /\ log'[i] = log[i]
<1>1. ConfInv /\ [ConfNext]_confVars => Kept
  <2> SUFFICES ASSUME ConfInv, [ConfNext]_confVars
               PROVE  Kept
    OBVIOUS
  <2> USE ConfirmationAssumption DEF ConfInv
  <2>1. ASSUME pending # None,
               NEW e, log' = [log EXCEPT ![pending.id] = e]
        PROVE  Kept
    BY <2>1 DEF PendingIsOpen
  <2>2. ASSUME log' = CleanLog
        PROVE  Kept
    BY <2>1, <2>2 DEF CleanLog, Settle, Expired
  <2>3. CASE Tick
    BY <2>3 DEF Tick
  <2>4. CASE Peek \/ ApproveNothing
    BY <2>2, <2>4 DEF Peek, ApproveNothing, CleanExpired
  <2>5. CASE Cancel
    <3>1. CASE Live # None
      <4>1. pending # None /\ log' = Settle(pending.id, "cancelled", None)
        BY <2>5, <3>1 DEF Cancel, Live
      <4> QED BY <2>1, <4>1 DEF Settle
    <3>2. CASE Live = None
      BY <2>2, <2>5, <3>2 DEF Cancel
    <3> QED BY <3>1, <3>2
  <2>6. ASSUME NEW call \in Calls, Request(call)
        PROVE  Kept
    <3>1. CASE log' = CleanLog
      BY <2>2, <3>1
    <3>2. ASSUME NEW e, log' = Append(CleanLog, e), Live = None
          PROVE  Kept
      <4>1. /\ CleanLog \in Seq(LogEntry)
            /\ DOMAIN CleanLog = DOMAIN log
        BY CleanLogLemma
      <4>2. \A i \in DOMAIN log : i \in DOMAIN log' /\ log'[i] = CleanLog[i]
        BY <3>2, <4>1
      <4>3. \A i \in DOMAIN log : log[i].outcome # "open" => CleanLog[i] = log[i]
        BY DEF CleanLog, Settle, Expired, PendingIsOpen
      <4> QED BY <4>2, <4>3
    <3> QED BY <2>6, <3>1, <3>2 DEF Request, CleanExpired
  <2>7. ASSUME NEW given \in Codes \cup {None}, ApproveLive(given)
        PROVE  Kept
    <3>1. pending # None /\ log' = Settle(pending.id, "approved", given)
      BY <2>7 DEF ApproveLive, Live
    <3> QED BY <2>1, <3>1 DEF Settle
  <2>8. ASSUME NEW given \in Codes \cup {None}, RejectCode(given)
        PROVE  Kept
    <3>1. pending # None
      BY <2>8 DEF RejectCode, Live
    <3> QED BY <2>1, <2>8, <3>1 DEF RejectCode
  <2>9. CASE UNCHANGED confVars
    BY <2>9 DEF confVars
  <2> QED
    BY <2>3, <2>4, <2>5, <2>6, <2>7, <2>8, <2>9 DEF ConfNext
<1> QED
  BY <1>1, ConfInvariant, PTL DEF ConfSpec, SettledOnce

(* No step moves the deadline, changes the code or returns an attempt.     *)
THEOREM DeadlineIsFixed == ConfSpec => DeadlineFixed
<1> DEFINE Fixed ==
      (pending # None /\ pending' # None /\ pending'.id = pending.id)
        => /\ pending'.expires = pending.expires
           /\ pending'.code = pending.code
           /\ pending'.attempts >= pending.attempts
<1>1. ConfInv /\ [ConfNext]_confVars => Fixed
  <2> SUFFICES ASSUME ConfInv, [ConfNext]_confVars
               PROVE  Fixed
    OBVIOUS
  <2> USE ConfirmationAssumption DEF ConfInv
  <2>1. ASSUME pending' \in {None, pending}
        PROVE  Fixed
    BY <2>1 DEF ConfTypeOK, PendingAction
  <2>2. CASE Tick \/ Peek \/ Cancel \/ ApproveNothing \/ UNCHANGED confVars
    BY <2>1, <2>2
    DEF Tick, Peek, Cancel, ApproveNothing, CleanExpired, Live, confVars
  <2>3. ASSUME NEW call \in Calls, Request(call)
        PROVE  Fixed
    <3>1. CASE CleanExpired
      BY <2>1, <3>1 DEF CleanExpired, Live
    <3>2. ASSUME NEW code \in CodesFor(call.tool), pending' = NewEntry(call, code)
          PROVE  Fixed
      <4>1. pending # None => pending.id <= Len(log)
        BY DEF PendingIsOpen, ConfTypeOK
      <4>2. pending # None => pending'.id # pending.id
        BY <3>2, <4>1 DEF NewEntry, ConfTypeOK, PendingAction
      <4> QED BY <4>2
    <3> QED BY <2>3, <3>1, <3>2 DEF Request
  <2>4. ASSUME NEW given \in Codes \cup {None}, ApproveLive(given) \/ RejectCode(given)
        PROVE  Fixed
    <3>1. CASE pending' \in {None, pending}
      BY <2>1, <3>1
    <3>2. CASE pending # None /\ pending' = [pending EXCEPT !.attempts = pending.attempts + 1]
      BY <3>2 DEF ConfTypeOK, PendingAction
    <3> QED BY <2>4, <3>1, <3>2 DEF ApproveLive, RejectCode, Live
  <2> QED
    BY <2>2, <2>3, <2>4 DEF ConfNext
<1> QED
  BY <1>1, ConfInvariant, PTL DEF ConfSpec, DeadlineFixed

=============================================================================
