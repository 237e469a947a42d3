--------------------------- MODULE ServiceProofs ----------------------------
(***************************************************************************)
(* What the assistant knows, hears and arranges: its memory (Memory), the  *)
(* index of local documents (LocalRag), the turn of its agent (AgentTurn), *)
(* the queue of its microphone (Microphone) and its calendar               *)
(* (GoogleCalendar). Each part has its own variables and its own           *)
(* invariant; the results hold for all contents, files, texts, tiers,      *)
(* events and limits, and any number of steps.                             *)
(***************************************************************************)
EXTENDS Memory, LocalRag, AgentTurn, Microphone, GoogleCalendar,
        FiniteSetTheorems, SequenceTheorems, WellFoundedInduction, TLAPS

-----------------------------------------------------------------------------
(* The memory.                                                             *)

(* Whatever any item may say.                                              *)
AnyContent == UNION {Contents(k) : k \in Keys}
(* An entry of the history, and a conflict.                                *)
Entries == [key : Keys, old : AnyContent, new : AnyContent]
Conflict == [key : Keys, current : AnyContent, candidate : AnyContent,
             status : {"pending", "resolved"}]

(* Every item says something of its own kind.                              *)
MemoryTypes ==
  /\ Stored \subseteq Keys
  /\ records = [k \in Stored |-> records[k]]
  /\ \A k \in Stored : records[k] \in Contents(k)
  /\ log \in Seq(Entries)
  /\ conflicts \in Seq(Conflict)

(* A conflict is about an item there is and offers something that item may *)
(* say.                                                                    *)
ConflictsAreOfItems ==
  \A i \in DOMAIN conflicts :
    conflicts[i].key \in Stored /\ conflicts[i].candidate \in Contents(conflicts[i].key)

(* The inductive invariant of the memory.                                  *)
MemoryInv == MemoryTypes /\ ConflictsAreOfItems /\ HistoryLeadsToPresent

-----------------------------------------------------------------------------

(* The history with one more entry is the old one, without its first entry *)
(* if it was full, followed by the new one.                                *)
LEMMA LoggedLengths ==
  ASSUME log \in Seq(Entries), NEW e \in Entries
  PROVE  /\ Logged(e) \in Seq(Entries)
         /\ \E d \in {0, 1} :
              /\ Len(Logged(e)) = Len(log) + 1 - d /\ Len(Logged(e)) \in Nat /\ Len(log) \in Nat
              /\ Len(Logged(e)) >= 1
              /\ \A i \in 1 .. Len(Logged(e)) - 1 : i + d \in 1 .. Len(log) /\ Logged(e)[i] = log[i + d]
              /\ Logged(e)[Len(Logged(e))] = e
<1> DEFINE all == Append(log, e)
<1>1. /\ all \in Seq(Entries) /\ Len(all) = Len(log) + 1 /\ Len(log) \in Nat
      /\ \A i \in 1 .. Len(log) : all[i] = log[i]
      /\ all[Len(log) + 1] = e
  BY AppendProperties, LenProperties
<1>2. CASE Len(all) > MaxHistory
  <2>1. all # <<>> /\ Len(all) >= 2
    BY <1>1, <1>2, MemoryAssumption
  <2>2. /\ Tail(all) \in Seq(Entries) /\ Len(Tail(all)) = Len(all) - 1
        /\ \A i \in 1 .. Len(Tail(all)) : Tail(all)[i] = all[i + 1]
    BY <1>1, <2>1, HeadTailProperties
  <2>3. Logged(e) = Tail(all)
    BY <1>2 DEF Logged
  <2> HIDE DEF all
  <2>4. Len(Logged(e)) = Len(log) /\ Len(log) >= 1
    BY <1>1, <2>1, <2>2, <2>3
  <2>5. Logged(e)[Len(log)] = e
    BY <1>1, <2>2, <2>3, <2>4
  <2>6. \A i \in 1 .. Len(log) - 1 : i + 1 \in 1 .. Len(log) /\ Logged(e)[i] = log[i + 1]
    BY <1>1, <2>2, <2>3, <2>4
  <2> QED
    BY <1>1, <2>2, <2>3, <2>4, <2>5, <2>6
<1>3. CASE ~(Len(all) > MaxHistory)
  <2>1. Logged(e) = all
    BY <1>3 DEF Logged
  <2> HIDE DEF all
  <2> QED
    BY <1>1, <2>1
<1> QED
  BY <1>2, <1>3

(* If a history tells how things came to be as they are, it still does     *)
(* with one more entry that begins with what is and leads to what will be, *)
(* even if its first entry is dropped.                                     *)
LEMMA HistoryGoesOn ==
  ASSUME NEW h, NEW g, NEW d \in {0, 1}, NEW e, NEW old \in Nat, NEW n \in Nat,
         DOMAIN h = 1 .. old, Len(h) = old, DOMAIN g = 1 .. n, Len(g) = n,
         n = old + 1 - d, n >= 1, g[n] = e,
         \A i \in 1 .. n - 1 : i + d \in 1 .. old /\ g[i] = h[i + d],
         NEW now, NEW next, DOMAIN next = DOMAIN now, e.key \in DOMAIN now,
         e.old = now[e.key], next[e.key] = e.new,
         \A j \in DOMAIN now \ {e.key} : next[j] = now[j],
         Tells(h, now)
  PROVE  Tells(g, next)
<1>1. ASSUME NEW i \in 1 .. n, i # n
      PROVE  /\ \A j \in i + 1 .. n :
                  g[j].key = g[i].key /\ Untold(g, g[i].key, i, j) => g[j].old = g[i].new
             /\ Untold(g, g[i].key, i, n + 1) =>
                  g[i].key \in DOMAIN next /\ next[g[i].key] = g[i].new
  <2> DEFINE q == g[i].key
  <2>1. i \in 1 .. n - 1 /\ i + d \in 1 .. old /\ g[i] = h[i + d]
    BY <1>1
  <2>2. /\ \A j \in (i + d) + 1 .. old :
             h[j].key = q /\ Untold(h, q, i + d, j) => h[j].old = h[i + d].new
        /\ Untold(h, q, i + d, old + 1) => q \in DOMAIN now /\ now[q] = h[i + d].new
    BY <2>1 DEF Tells
  <2> HIDE DEF q
  <2>3. ASSUME NEW j \in i + 1 .. n - 1, g[j].key = q, Untold(g, q, i, j)
        PROVE  g[j].old = g[i].new
    <3>1. j \in 1 .. n - 1 /\ j + d \in (i + d) + 1 .. old
      BY <2>1, <2>3
    <3>2. g[j] = h[j + d]
      BY <3>1
    <3>3. ASSUME NEW m \in (i + d) + 1 .. (j + d) - 1 PROVE h[m].key # q
      <4>1. m - d \in i + 1 .. j - 1 /\ m - d \in 1 .. n - 1 /\ (m - d) + d = m
        BY <2>1, <2>3, <3>3
      <4>2. g[m - d] = h[m]
        BY <4>1
      <4>3. g[m - d].key # q
        BY <2>3, <4>1 DEF Untold
      <4> QED
        BY <4>2, <4>3
    <3>4. Untold(h, q, i + d, j + d)
      BY <3>3 DEF Untold
    <3> QED
      BY <2>1, <2>2, <2>3, <3>1, <3>2, <3>4
  <2>4. ASSUME Untold(g, q, i, n)
        PROVE  q \in DOMAIN now /\ now[q] = g[i].new
    <3>1. ASSUME NEW m \in (i + d) + 1 .. (old + 1) - 1 PROVE h[m].key # q
      <4>1. m - d \in i + 1 .. n - 1 /\ m - d \in 1 .. n - 1 /\ (m - d) + d = m
        BY <2>1, <3>1
      <4>2. g[m - d] = h[m]
        BY <4>1
      <4>3. g[m - d].key # q
        BY <2>4, <4>1 DEF Untold
      <4> QED
        BY <4>2, <4>3
    <3>2. Untold(h, q, i + d, old + 1)
      BY <3>1 DEF Untold
    <3> QED
      BY <2>1, <2>2, <3>2
  <2>5. g[n].key = q /\ Untold(g, q, i, n) => g[n].old = g[i].new
    BY <2>4
  <2>6. Untold(g, q, i, n + 1) => q # e.key /\ Untold(g, q, i, n)
    <3>1. n \in i + 1 .. (n + 1) - 1 /\ \A m \in i + 1 .. n - 1 : m \in i + 1 .. (n + 1) - 1
      BY <2>1
    <3> QED
      BY <3>1 DEF Untold
  <2>7. Untold(g, q, i, n + 1) => q \in DOMAIN next /\ next[q] = g[i].new
    BY <2>4, <2>6
  <2>8. \A j \in i + 1 .. n : j \in i + 1 .. n - 1 \/ j = n
    BY <2>1
  <2>9. \A j \in i + 1 .. n : g[j].key = q /\ Untold(g, q, i, j) => g[j].old = g[i].new
    BY <2>3, <2>5, <2>8
  <2> QED
    BY <2>7, <2>9 DEF q
<1>2. ASSUME NEW i \in 1 .. n, i = n
      PROVE  /\ i + 1 .. n = {}
             /\ g[i].key \in DOMAIN next /\ next[g[i].key] = g[i].new
  BY <1>2
<1> QED
  BY <1>1, <1>2 DEF Tells

(* A change is noted with what it replaces.                                *)
LEMMA ChangeKeeps ==
  ASSUME MemoryInv, NEW k \in Stored, NEW c \in Contents(k), Change(k, c)
  PROVE  /\ Stored' = Stored /\ records' = [j \in Stored |-> records'[j]]
         /\ \A j \in Stored : records'[j] \in Contents(j)
         /\ log' \in Seq(Entries)
         /\ HistoryLeadsToPresent'
<1> DEFINE e == [key |-> k, old |-> records[k], new |-> c]
<1>1. /\ Stored' = Stored /\ records' = [j \in Stored |-> records'[j]]
      /\ records'[k] = c /\ \A j \in Stored \ {k} : records'[j] = records[j]
  BY DEF MemoryInv, MemoryTypes, Change, Stored
<1>2. \A j \in Stored : records'[j] \in Contents(j)
  BY <1>1 DEF MemoryInv, MemoryTypes
<1>3. e \in Entries
  BY DEF MemoryInv, MemoryTypes, Entries, AnyContent
<1>4. e.key = k /\ e.old = records[k] /\ e.new = c
  OBVIOUS
<1>5. log' = Logged(e) /\ log \in Seq(Entries) /\ Tells(log, records)
  BY DEF Change, MemoryInv, MemoryTypes, HistoryLeadsToPresent
<1> HIDE DEF e
<1>6. PICK d \in {0, 1} :
        /\ Len(log') = Len(log) + 1 - d /\ Len(log') \in Nat /\ Len(log) \in Nat
        /\ Len(log') >= 1
        /\ \A i \in 1 .. Len(log') - 1 : i + d \in 1 .. Len(log) /\ log'[i] = log[i + d]
        /\ log'[Len(log')] = e
  BY <1>3, <1>5, LoggedLengths
<1>7. log' \in Seq(Entries)
  BY <1>3, <1>5, LoggedLengths
<1>8. DOMAIN log' = 1 .. Len(log') /\ DOMAIN log = 1 .. Len(log)
  BY <1>5, <1>7
<1>9. Tells(log', records')
  BY <1>1, <1>4, <1>5, <1>6, <1>8, HistoryGoesOn DEF Stored
<1> QED
  BY <1>1, <1>2, <1>7, <1>9 DEF HistoryLeadsToPresent

(* Conflicts that are left alone stay right.                               *)
LEMMA UnchangedConflicts ==
  ASSUME MemoryInv, Stored' = Stored, UNCHANGED conflicts
  PROVE  conflicts' \in Seq(Conflict) /\ ConflictsAreOfItems'
BY DEF MemoryInv, MemoryTypes, ConflictsAreOfItems

(* A contradiction becomes a conflict and changes no item.                 *)
LEMMA ConflictIsRaised ==
  ASSUME MemoryInv, NEW k \in Stored, NEW c \in Contents(k), CreateConflict(k, c),
         UNCHANGED <<records, log>>
  PROVE  MemoryInv'
<1>1. Stored' = Stored /\ Tells(log, records)' /\ k \in Keys
  BY DEF MemoryInv, MemoryTypes, HistoryLeadsToPresent, Stored
<1>2. CASE UNCHANGED conflicts
  BY <1>1, <1>2, UnchangedConflicts DEF MemoryInv, MemoryTypes, HistoryLeadsToPresent
<1>3. CASE conflicts' = Append(conflicts, [key |-> k, current |-> records[k], candidate |-> c,
                                          status |-> "pending"])
  <2> DEFINE x == [key |-> k, current |-> records[k], candidate |-> c, status |-> "pending"]
  <2>1. x \in Conflict /\ x.key = k /\ x.candidate = c
    BY <1>1 DEF Conflict, AnyContent, MemoryInv, MemoryTypes
  <2> HIDE DEF x
  <2>2. conflicts \in Seq(Conflict) /\ ConflictsAreOfItems
    BY DEF MemoryInv, MemoryTypes
  <2>3. conflicts' = Append(conflicts, x)
    BY <1>3 DEF x
  <2>4. /\ conflicts' \in Seq(Conflict)
        /\ \A i \in DOMAIN conflicts' :
             conflicts'[i] = x \/ (i \in DOMAIN conflicts /\ conflicts'[i] = conflicts[i])
    BY <2>1, <2>2, <2>3
  <2>5. ConflictsAreOfItems'
    BY <1>1, <2>1, <2>2, <2>4 DEF ConflictsAreOfItems
  <2> QED
    BY <1>1, <2>4, <2>5 DEF MemoryInv, MemoryTypes, HistoryLeadsToPresent
<1> QED
  BY <1>2, <1>3 DEF CreateConflict

(* A new item has no history.                                              *)
LEMMA RememberNewKeeps ==
  ASSUME MemoryInv, NEW k \in Keys, NEW c \in Contents(k), RememberNew(k, c)
  PROVE  MemoryInv'
<1>1. /\ Stored' = Stored \cup {k} /\ records' = [j \in Stored' |-> records'[j]]
      /\ records'[k] = c /\ \A j \in Stored : records'[j] = records[j]
      /\ UNCHANGED <<log, conflicts>>
  BY DEF RememberNew, Stored
<1>2. MemoryTypes'
  BY <1>1 DEF MemoryInv, MemoryTypes
<1>3. ConflictsAreOfItems'
  BY <1>1 DEF MemoryInv, ConflictsAreOfItems
<1>4. HistoryLeadsToPresent'
  BY <1>1 DEF MemoryInv, HistoryLeadsToPresent, Tells, Stored
<1> QED
  BY <1>2, <1>3, <1>4 DEF MemoryInv

(* Deciding a conflict changes its item at most once.                      *)
LEMMA ResolveKeeps ==
  ASSUME MemoryInv, NEW i \in DOMAIN conflicts,
         NEW resolution \in {"keep_existing", "use_candidate", "merge"},
         NEW merged \in Contents(conflicts[i].key), ResolveConflict(i, resolution, merged)
  PROVE  MemoryInv'
<1> DEFINE k == conflicts[i].key
<1>1. k \in Stored /\ conflicts[i].candidate \in Contents(k) /\ conflicts \in Seq(Conflict)
  BY DEF MemoryInv, MemoryTypes, ConflictsAreOfItems
<1>2. Stored' = Stored /\ MemoryTypes' /\ HistoryLeadsToPresent' /\ ConflictsAreOfItems'
  <2>1. conflicts' \in Seq(Conflict)
        /\ DOMAIN conflicts' = DOMAIN conflicts
        /\ \A j \in DOMAIN conflicts : /\ conflicts'[j].key = conflicts[j].key
                                       /\ conflicts'[j].candidate = conflicts[j].candidate
    <3> DEFINE x == [conflicts[i] EXCEPT !.status = "resolved"]
    <3>1. x \in Conflict /\ x.key = conflicts[i].key /\ x.candidate = conflicts[i].candidate
      <4>1. conflicts[i] \in Conflict
        BY <1>1
      <4> QED
        BY <4>1 DEF Conflict
    <3>2. conflicts' = [conflicts EXCEPT ![i] = x]
      BY DEF ResolveConflict
    <3> HIDE DEF x
    <3> QED
      BY <1>1, <3>1, <3>2
  <2>2. CASE UNCHANGED <<records, log>>
    BY <2>1, <2>2 DEF MemoryInv, MemoryTypes, HistoryLeadsToPresent, ConflictsAreOfItems, Stored
  <2>3. ASSUME NEW c \in Contents(k), Change(k, c)
        PROVE  Stored' = Stored /\ MemoryTypes' /\ HistoryLeadsToPresent' /\ ConflictsAreOfItems'
    <3>1. /\ Stored' = Stored /\ records' = [j \in Stored |-> records'[j]]
          /\ \A j \in Stored : records'[j] \in Contents(j)
          /\ log' \in Seq(Entries) /\ HistoryLeadsToPresent'
      BY <1>1, <2>3, ChangeKeeps
    <3> QED
      BY <2>1, <3>1 DEF MemoryInv, MemoryTypes, ConflictsAreOfItems
  <2> QED
    BY <1>1, <2>2, <2>3 DEF ResolveConflict
<1> QED
  BY <1>2 DEF MemoryInv

(* An item is replaced with a note in the history.                         *)
LEMMA ReplaceKeeps ==
  ASSUME MemoryInv, NEW k \in Stored, NEW c \in Contents(k), Change(k, c), UNCHANGED conflicts
  PROVE  MemoryInv'
<1>1. /\ Stored' = Stored /\ records' = [j \in Stored |-> records'[j]]
      /\ \A j \in Stored : records'[j] \in Contents(j)
      /\ log' \in Seq(Entries) /\ HistoryLeadsToPresent'
  BY ChangeKeeps
<1> QED
  BY <1>1, UnchangedConflicts DEF MemoryInv, MemoryTypes

(* So is its status.                                                       *)
LEMMA SetStatusKeeps ==
  ASSUME MemoryInv, NEW k \in Stored, NEW s \in StatusByKind(KindOf(k)), SetStatus(k, s)
  PROVE  MemoryInv'
<1>1. [records[k] EXCEPT !.status = s] \in Contents(k)
  BY DEF MemoryInv, MemoryTypes, Contents
<1> QED
  BY <1>1, ReplaceKeeps DEF SetStatus

(* Names are not part of it.                                               *)
LEMMA NothingRemembered ==
  ASSUME MemoryInv, UNCHANGED <<records, log, conflicts>>
  PROVE  MemoryInv'
BY DEF MemoryInv, MemoryTypes, ConflictsAreOfItems, HistoryLeadsToPresent, Stored

(* Nothing is remembered at the start.                                     *)
LEMMA MemoryInitInv == MemoryInit => MemoryInv
<1> SUFFICES ASSUME MemoryInit PROVE MemoryInv
  OBVIOUS
<1>1. DOMAIN records = {} /\ DOMAIN log = {} /\ DOMAIN conflicts = {}
  BY DEF MemoryInit
<1>2. log \in Seq(Entries) /\ conflicts \in Seq(Conflict)
  BY DEF MemoryInit
<1>3. records = [k \in Stored |-> records[k]]
  BY <1>1 DEF Stored, MemoryInit
<1> QED
  BY <1>1, <1>2, <1>3 DEF MemoryInv, MemoryTypes, ConflictsAreOfItems, HistoryLeadsToPresent, Tells, Stored

(* Every call preserves the invariant, also beyond the bound.              *)
LEMMA MemoryStep == MemoryInv /\ [MemoryNext /\ MemoryBounded]_memoryVars => MemoryInv'
<1> SUFFICES ASSUME MemoryInv, [MemoryNext]_memoryVars PROVE MemoryInv'
  OBVIOUS
<1>1. ASSUME NEW k \in Keys, NEW c \in Contents(k), RememberNew(k, c) PROVE MemoryInv'
  BY <1>1, RememberNewKeeps
<1>2. ASSUME NEW k \in Keys, NEW c \in Contents(k), NEW replace \in BOOLEAN,
             RememberKnown(k, c, replace)
      PROVE  MemoryInv'
  BY <1>2, NothingRemembered, ReplaceKeeps, ConflictIsRaised DEF RememberKnown
<1>3. ASSUME NEW k \in Stored, NEW s \in StatusByKind(KindOf(k)), SetStatus(k, s) PROVE MemoryInv'
  BY <1>3, SetStatusKeeps
<1>4. ASSUME NEW i \in DOMAIN conflicts,
             NEW resolution \in {"keep_existing", "use_candidate", "merge"},
             NEW merged \in Contents(conflicts[i].key), ResolveConflict(i, resolution, merged)
      PROVE  MemoryInv'
  BY <1>4, ResolveKeeps
<1>5. ASSUME NEW n \in Names, RememberName(n) \/ Forget(n) PROVE MemoryInv'
  BY <1>5, NothingRemembered DEF RememberName, Forget
<1>6. CASE UNCHANGED memoryVars
  BY <1>6, NothingRemembered DEF memoryVars
<1> QED
  BY <1>1, <1>2, <1>3, <1>4, <1>5, <1>6 DEF MemoryNext

(* The invariant holds in every behaviour of the memory.                   *)
THEOREM MemoryInvariant == MemorySpec => []MemoryInv
BY MemoryInitInv, MemoryStep, PTL DEF MemorySpec

(* For all items, contents and lengths of the history: every entry leads   *)
(* to the next of its item and the last to what the item says now          *)
(* (memory/service.py).                                                    *)
THEOREM HistoryIsTold == MemorySpec => []HistoryLeadsToPresent
<1>1. MemoryInv => HistoryLeadsToPresent
  BY DEF MemoryInv
<1> QED
  BY <1>1, MemoryInvariant, PTL

-----------------------------------------------------------------------------
(* The index of local documents.                                           *)

(* index_paths at work, or after its work.                                 *)
IsJob(j) ==
  /\ j = [at |-> j.at, root |-> j.root, force |-> j.force, prune |-> j.prune,
          todo |-> j.todo, saw |-> j.saw, failed |-> j.failed, quiet |-> j.quiet,
          stamp |-> j.stamp, digest |-> j.digest]
  /\ j.at \in {"files", "digest", "extract", "done"}
  /\ j.stamp \in Nat

(* No stamp is later than the last write.                                  *)
RagTypes ==
  /\ writes \in Nat
  /\ files = [f \in DOMAIN files |-> files[f]] /\ docs = [f \in DOMAIN docs |-> docs[f]]
  /\ \A f \in DOMAIN files :
       files[f].text \in Seq(Nat) /\ files[f].stamp \in Nat /\ files[f].stamp <= writes
  /\ \A f \in DOMAIN docs :
       /\ docs[f] = [stamp |-> docs[f].stamp, digest |-> docs[f].digest, text |-> docs[f].text,
                     chunks |-> docs[f].chunks, torn |-> docs[f].torn]
       /\ docs[f].stamp \in Nat /\ docs[f].stamp <= writes
  /\ job = NoJob \/ (IsJob(job) /\ job.stamp <= writes)

(* A document with the stamp of its file has the digest of its file.       *)
StampTells(f) ==
  Present(f) /\ docs[f].stamp = files[f].stamp => docs[f].digest = files[f].text

(* A document that is not torn has the text of its digest, and its chunks  *)
(* cover its text.                                                         *)
DocumentIsWhole(f) ==
  /\ ~docs[f].torn => docs[f].text = docs[f].digest
  /\ Cited(docs[f].text, docs[f].chunks)

(* A digest that was computed is of the present file if the stamp is, or   *)
(* if no file changed.                                                     *)
DigestTells ==
  job.at = "extract" /\ Present(Path) =>
    /\ job.stamp = files[Path].stamp => job.digest = files[Path].text
    /\ job.quiet => job.digest = files[Path].text

(* A call during which no file changed saw the files there are.            *)
SeesAll == job # NoJob /\ job.quiet => job.saw = Candidates(job.root)

(* What it has done is indexed.                                            *)
Processed ==
  job # NoJob /\ job.quiet =>
    \A f \in (job.saw \ job.todo) \ job.failed :
      Fit(f) => f \in DOMAIN docs /\ docs[f].digest = files[f].text

(* The inductive invariant of the index.                                   *)
RagInv ==
  /\ RagTypes
  /\ \A f \in DOMAIN docs : StampTells(f) /\ DocumentIsWhole(f)
  /\ DigestTells /\ SeesAll /\ Processed
  /\ IndexFollowsFiles

-----------------------------------------------------------------------------

(* A set of numbers within bounds that is not empty has a greatest one.    *)
(* Otherwise the sets of members from one of them on would go on           *)
(* shrinking.                                                              *)
LEMMA HasGreatest ==
  ASSUME NEW m \in Nat, NEW n \in Nat, NEW S \in SUBSET (m .. n), S # {}
  PROVE  \E p \in S : \A q \in S : p >= q
<1> DEFINE From(p) == {q \in S : q >= p}
           Sections == {From(p) : p \in S}
<1>1. IsFiniteSet(S)
  <2>1. IsFiniteSet(m .. n)
    BY FS_Interval
  <2> QED
    BY <2>1, FS_Subset
<1>2. IsWellFoundedOn(StrictSubsetOrdering(S), SUBSET S)
  BY <1>1, FS_StrictSubsetOrderingWellFounded, FS_FiniteSubsetsOfFinite
<1>3. Sections \subseteq SUBSET S /\ Sections # {}
  OBVIOUS
<1>4. PICK D \in Sections : \A E \in Sections : <<E, D>> \notin StrictSubsetOrdering(S)
  BY <1>2, <1>3, WFMin
<1>5. PICK p \in S : D = From(p)
  OBVIOUS
<1>6. ASSUME NEW q \in S, q > p PROVE FALSE
  <2>1. From(q) \in Sections
    OBVIOUS
  <2>2. From(q) \subseteq From(p)
    <3>1. \A r \in S : r >= q => r >= p
      BY <1>6
    <3> QED
      BY <3>1
  <2>3. p \in From(p) /\ p \notin From(q)
    BY <1>6
  <2>4. <<From(q), From(p)>> \in StrictSubsetOrdering(S)
    BY <2>2, <2>3 DEF StrictSubsetOrdering
  <2> QED
    BY <2>1, <2>4, <1>4, <1>5
<1> QED
  BY <1>6

(* So Max is a member.                                                     *)
LEMMA MaxIsGreatest ==
  ASSUME NEW m \in Nat, NEW n \in Nat, NEW S \in SUBSET (m .. n), S # {}
  PROVE  Max(S) \in S
BY HasGreatest DEF Max

(* A chunk ends within the text and is as wide as allowed unless it is a   *)
(* single line.                                                            *)
LEMMA ChunkEndFits ==
  ASSUME NEW text \in Seq(Nat), NEW start \in 1 .. Len(text)
  PROVE  /\ ChunkEnd(text, start) \in start .. Len(text)
         /\ \/ ChunkEnd(text, start) = start
            \/ Width(text, start, ChunkEnd(text, start)) <= ChunkCharacters
<1> DEFINE S == {e \in start .. Len(text) : e = start \/ Width(text, start, e) <= ChunkCharacters}
<1>1. Len(text) \in Nat /\ start \in Nat /\ start \in S
  OBVIOUS
<1>2. S \in SUBSET (start .. Len(text)) /\ S # {}
  BY <1>1
<1>3. Max(S) \in S
  BY <1>1, <1>2, MaxIsGreatest
<1> QED
  BY <1>3 DEF ChunkEnd

(* The next chunk begins later, and not behind a gap.                      *)
LEMMA NextStartFollows ==
  ASSUME NEW text \in Seq(Nat), NEW start \in 1 .. Len(text), NEW end \in start .. Len(text)
  PROVE  NextStart(text, start, end) \in start + 1 .. end + 1
<1> DEFINE S == {s \in start + 1 .. end + 1 : Width(text, s, end) >= Overlap} \cup {start + 1}
<1>1. start + 1 \in Nat /\ end + 1 \in Nat /\ start + 1 \in start + 1 .. end + 1
  OBVIOUS
<1>2. S \in SUBSET (start + 1 .. end + 1) /\ S # {}
  BY <1>1
<1>3. Max(S) \in S
  BY <1>1, <1>2, MaxIsGreatest
<1> QED
  BY <1>2, <1>3 DEF NextStart

(* f defines the chunks from each line on, from k on.                      *)
Solves(text, f, k) == f = [s \in k .. Len(text) + 1 |-> ChunksFrom(text, s, f)]

(* The chunks from a line on depend on those from later lines only.        *)
LEMMA OnlyLaterCount ==
  ASSUME NEW text \in Seq(Nat), NEW s \in 1 .. Len(text) + 1, NEW f, NEW g,
         \A j \in s + 1 .. Len(text) : f[j] = g[j]
  PROVE  ChunksFrom(text, s, f) = ChunksFrom(text, s, g)
<1>1. CASE s > Len(text)
  BY <1>1 DEF ChunksFrom
<1>2. CASE ~(s > Len(text))
  <2> DEFINE end == ChunkEnd(text, s)
             n == NextStart(text, s, end)
  <2>1. s \in 1 .. Len(text) /\ Len(text) \in Nat
    BY <1>2
  <2>2. end \in s .. Len(text)
    BY <2>1, ChunkEndFits
  <2>3. n \in s + 1 .. end + 1
    BY <2>1, <2>2, NextStartFollows
  <2>4. end # Len(text) => n \in s + 1 .. Len(text)
    BY <2>1, <2>2, <2>3
  <2>5. end # Len(text) => f[n] = g[n]
    BY <2>4
  <2> HIDE DEF end, n
  <2>6. \A h : ChunksFrom(text, s, h) =
                 <<[first |-> s, last |-> end]>> \o (IF end = Len(text) THEN <<>> ELSE h[n])
    BY <1>2 DEF ChunksFrom, end, n
  <2> QED
    BY <2>5, <2>6
<1> QED
  BY <1>1, <1>2

(* So such an f exists: there is no greatest line that has none.           *)
LEMMA ChunksExist ==
  ASSUME NEW text \in Seq(Nat), NEW k \in 1 .. Len(text) + 1
  PROVE  \E f : Solves(text, f, k)
<1> DEFINE L == Len(text)
           Bad == {j \in 1 .. L + 1 : ~ \E f : Solves(text, f, j)}
<1>1. L \in Nat
  OBVIOUS
<1>2. SUFFICES ASSUME Bad # {} PROVE FALSE
  OBVIOUS
<1> HIDE DEF L
<1>3. PICK b \in Bad : \A j \in Bad : b >= j
  <2>1. Bad \in SUBSET (1 .. L + 1) /\ 1 \in Nat /\ L + 1 \in Nat
    BY <1>1
  <2> HIDE DEF Bad
  <2> QED
    BY <1>2, <2>1, HasGreatest
<1>4. b \in 1 .. L + 1
  OBVIOUS
<1>5. \E g : \A j \in b + 1 .. L + 1 : g[j] = ChunksFrom(text, j, g)
  <2>1. CASE b = L + 1
    <3>1. b + 1 .. L + 1 = {}
      BY <1>1, <2>1
    <3> QED
      BY <3>1
  <2>2. CASE b # L + 1
    <3>1. b + 1 \in 1 .. L + 1 /\ ~(b >= b + 1)
      BY <1>1, <1>4, <2>2
    <3>2. PICK g : Solves(text, g, b + 1)
      BY <1>3, <3>1
    <3>3. g = [s \in b + 1 .. L + 1 |-> ChunksFrom(text, s, g)]
      BY <3>2 DEF Solves, L
    <3>4. \A j \in b + 1 .. L + 1 : g[j] = ChunksFrom(text, j, g)
      BY <3>3
    <3> QED
      BY <3>4
  <2> QED
    BY <2>1, <2>2
<1>6. PICK g : \A j \in b + 1 .. L + 1 : g[j] = ChunksFrom(text, j, g)
  BY <1>5
<1> DEFINE f == [s \in b .. L + 1 |-> ChunksFrom(text, s, g)]
<1>7. ASSUME NEW s \in b .. L + 1 PROVE ChunksFrom(text, s, g) = ChunksFrom(text, s, f)
  <2>1. s \in 1 .. Len(text) + 1
    BY <1>1, <1>4 DEF L
  <2>2. ASSUME NEW j \in s + 1 .. Len(text) PROVE g[j] = f[j]
    <3>1. j \in b + 1 .. L + 1 /\ j \in b .. L + 1
      BY <1>1, <1>4, <2>2 DEF L
    <3> QED
      BY <1>6, <3>1
  <2> HIDE DEF f
  <2> QED
    BY <2>1, <2>2, OnlyLaterCount
<1>8. f = [s \in b .. L + 1 |-> ChunksFrom(text, s, f)]
  <2>1. f = [s \in b .. L + 1 |-> ChunksFrom(text, s, g)]
    OBVIOUS
  <2> HIDE DEF f
  <2> QED
    BY <1>7, <2>1
<1>9. Solves(text, f, b)
  BY <1>8 DEF Solves, L
<1> QED
  BY <1>3, <1>9

(* The chunks of a text cover it: there is no greatest line from which on  *)
(* they do not (_chunk_numbered_lines).                                    *)
LEMMA ChunksAreCited ==
  ASSUME NEW text \in Seq(Nat), text # <<>>
  PROVE  Cited(text, Chunks(text))
<1> DEFINE L == Len(text)
           from == CHOOSE f : f = [start \in 1 .. L + 1 |-> ChunksFrom(text, start, f)]
<1>1. Chunks(text) = from[1]
  BY DEF Chunks
<1>2. L \in Nat /\ L >= 1 /\ 1 \in 1 .. L + 1
  OBVIOUS
<1>3. from = [s \in 1 .. L + 1 |-> ChunksFrom(text, s, from)]
  <2>1. \E f : f = [s \in 1 .. L + 1 |-> ChunksFrom(text, s, f)]
    BY <1>2, ChunksExist DEF Solves
  <2> QED
    BY <2>1
<1> HIDE DEF from
<1> DEFINE Piece == [first : Nat, last : Nat]
           Whole(c, s) ==
             /\ c \in Seq(Piece) /\ Len(c) >= 1 /\ c[1].first = s /\ c[Len(c)].last = L
             /\ \A i \in 1 .. Len(c) - 1 : /\ c[i].first < c[i + 1].first
                                           /\ c[i + 1].first <= c[i].last + 1
             /\ \A i \in 1 .. Len(c) : \/ c[i].first = c[i].last
                                       \/ Width(text, c[i].first, c[i].last) <= ChunkCharacters
           Bad == {s \in 1 .. L : ~Whole(from[s], s)}
<1>4. ASSUME NEW s \in 1 .. L, s = L \/ \A j \in s + 1 .. L : Whole(from[j], j)
      PROVE  Whole(from[s], s)
  <2> DEFINE end == ChunkEnd(text, s)
             n == NextStart(text, s, end)
             x == [first |-> s, last |-> end]
  <2>1. /\ end \in s .. L
        /\ end = s \/ Width(text, s, end) <= ChunkCharacters
    BY ChunkEndFits
  <2>2. n \in s + 1 .. end + 1
    BY <2>1, NextStartFollows
  <2>3. from[s] = <<x>> \o (IF end = L THEN <<>> ELSE from[n])
    <3>1. from[s] = ChunksFrom(text, s, from) /\ ~(s > L)
      BY <1>2, <1>3
    <3> QED
      BY <3>1 DEF ChunksFrom
  <2>4. end \in Nat /\ s \in Nat /\ x \in Piece /\ x.first = s /\ x.last = end
    BY <1>2, <2>1
  <2> HIDE DEF end, n, x
  <2>5. CASE end = L
    <3>1. from[s] = <<x>>
      <4>1. from[s] = <<x>> \o <<>>
        BY <2>3, <2>5
      <4> QED
        BY <4>1
    <3>2. /\ from[s] \in Seq(Piece) /\ Len(from[s]) = 1 /\ from[s][1] = x
      BY <2>4, <3>1
    <3> QED
      BY <2>1, <2>4, <2>5, <3>2
  <2>6. CASE end # L
    <3> DEFINE c == from[n]
               w == from[s]
               k == Len(c)
    <3>1. n \in s + 1 .. L
      BY <1>2, <2>1, <2>2, <2>6
    <3>2. Whole(c, n)
      BY <1>2, <1>4, <3>1
    <3>3. w = <<x>> \o c
      BY <2>3, <2>6
    <3> HIDE DEF c, w
    <3>4. c \in Seq(Piece) /\ k \in Nat /\ k >= 1
      BY <3>2
    <3>5. /\ w \in Seq(Piece) /\ Len(w) = k + 1 /\ w[1] = x
          /\ \A i \in 1 .. k : w[i + 1] = c[i]
      <4>1. <<x>> \in Seq(Piece) /\ Len(<<x>>) = 1 /\ <<x>>[1] = x
        BY <2>4
      <4> DEFINE y == <<x>>
      <4> HIDE DEF y
      <4>2. /\ w \in Seq(Piece) /\ Len(w) = 1 + Len(c)
            /\ \A i \in 1 .. 1 + Len(c) : w[i] = IF i <= 1 THEN y[i] ELSE c[i - 1]
        BY <3>3, <3>4, <4>1, ConcatProperties DEF y
      <4>3. w[1] = x
        <5>1. y[1] = x
          BY DEF y
        <5>2. 1 \in 1 .. 1 + Len(c) /\ 1 <= 1
          BY <3>4
        <5> QED
          BY <4>2, <5>1, <5>2
      <4>4. ASSUME NEW i \in 1 .. k PROVE w[i + 1] = c[i]
        <5>1. i + 1 \in 1 .. 1 + Len(c) /\ ~(i + 1 <= 1) /\ (i + 1) - 1 = i
          BY <3>4
        <5> QED
          BY <4>2, <5>1
      <4> QED
        BY <3>4, <4>2, <4>3, <4>4
    <3> HIDE DEF k
    <3>6. w[1].first = s /\ w[Len(w)].last = L
      <4>1. k \in 1 .. k
        BY <3>4
      <4>2. w[k + 1] = c[k]
        BY <3>5, <4>1
      <4>3. c[k].last = L
        BY <3>2 DEF k
      <4> QED
        BY <2>4, <3>5, <4>2, <4>3
    <3>7. ASSUME NEW i \in 1 .. Len(w) - 1
          PROVE  w[i].first < w[i + 1].first /\ w[i + 1].first <= w[i].last + 1
      <4>1. CASE i = 1
        <5>1. w[2] = c[1] /\ c[1].first = n
          BY <3>2, <3>4, <3>5
        <5> QED
          BY <2>2, <2>4, <3>5, <4>1, <5>1
      <4>2. CASE i # 1
        <5> DEFINE j == i - 1
        <5>1. Len(w) - 1 = k
          BY <3>4, <3>5
        <5>2. j \in 1 .. k - 1 /\ j \in 1 .. k /\ j + 1 = i /\ i \in 1 .. k
          BY <3>4, <4>2, <5>1
        <5> HIDE DEF j
        <5>3. w[i] = c[j] /\ w[i + 1] = c[i]
          BY <3>5, <5>2
        <5>4. c[j].first < c[j + 1].first /\ c[j + 1].first <= c[j].last + 1
          BY <3>2, <5>2 DEF k
        <5> QED
          BY <5>2, <5>3, <5>4
      <4> QED
        BY <4>1, <4>2
    <3>8. ASSUME NEW i \in 1 .. Len(w)
          PROVE  w[i].first = w[i].last \/ Width(text, w[i].first, w[i].last) <= ChunkCharacters
      <4>1. CASE i = 1
        BY <2>1, <2>4, <3>5, <4>1
      <4>2. CASE i # 1
        <5>1. i - 1 \in 1 .. k
          BY <3>4, <3>5, <4>2
        <5>2. w[i] = c[i - 1]
          BY <3>4, <3>5, <5>1
        <5> QED
          BY <3>2, <5>1, <5>2 DEF k
      <4> QED
        BY <4>1, <4>2
    <3> QED
      BY <3>4, <3>5, <3>6, <3>7, <3>8 DEF w
  <2> QED
    BY <2>5, <2>6
<1>5. Bad = {}
  <2> SUFFICES ASSUME Bad # {} PROVE FALSE
    OBVIOUS
  <2>1. PICK b \in Bad : \A j \in Bad : b >= j
    <3>1. Bad \in SUBSET (1 .. L)
      OBVIOUS
    <3> HIDE DEF Bad, L
    <3> QED
      BY <1>2, <3>1, HasGreatest
  <2> HIDE DEF Whole
  <2>2. b \in 1 .. L /\ ~Whole(from[b], b)
    OBVIOUS
  <2>3. \A j \in b + 1 .. L : Whole(from[j], j)
    BY <1>2, <2>1, <2>2
  <2> QED
    BY <1>4, <2>2, <2>3
<1>6. Whole(from[1], 1)
  <2> HIDE DEF Whole
  <2> QED
    BY <1>2, <1>5
<1>7. from[1] \in Seq(Piece)
  BY <1>6
<1>8. DOMAIN from[1] = 1 .. Len(from[1])
  BY <1>7
<1>9. Cited(text, from[1])
  BY <1>6, <1>8 DEF Cited
<1> QED
  BY <1>1, <1>9

-----------------------------------------------------------------------------

(* A call is not the absence of one.                                       *)
LEMMA NotIdle == ASSUME NEW j, IsJob(j) PROVE j # NoJob /\ j.at # "idle"
BY DEF IsJob, NoJob

(* Being done with a file, well or not.                                    *)
LEMMA DoneFields ==
  ASSUME NEW j, IsJob(j), NEW f, NEW d, d \in {Done(j, f), Fails(j, f)}
  PROVE  /\ IsJob(d) /\ d.at = "files" /\ d.todo = j.todo \ {f} /\ d.root = j.root
         /\ d.saw = j.saw /\ d.quiet = j.quiet /\ d.prune = j.prune /\ d.stamp = j.stamp
         /\ (d = Done(j, f) => d.failed = j.failed)
         /\ j.failed \subseteq d.failed
         /\ (d = Fails(j, f) => f \in d.failed)
BY DEF Done, Fails, IsJob

(* Being done with it well.                                                *)
LEMMA DoneKeeps ==
  ASSUME NEW j, IsJob(j), NEW f, NEW d, d = Done(j, f)
  PROVE  /\ IsJob(d) /\ d.at = "files" /\ d.todo = j.todo \ {f} /\ d.root = j.root
         /\ d.saw = j.saw /\ d.quiet = j.quiet /\ d.prune = j.prune /\ d.stamp = j.stamp
         /\ d.failed = j.failed
BY DEF Done, IsJob

(* A call that goes on with the same file.                                 *)
LEMMA JobGoesOn ==
  ASSUME RagInv, job.at \in {"files", "digest", "extract"},
         IsJob(job'), job'.stamp <= writes, job'.at \in {"files", "digest", "extract"},
         job'.root = job.root, job'.saw = job.saw, job'.quiet = job.quiet,
         UNCHANGED <<files, writes, docs>>,
         DigestTells', Processed'
  PROVE  RagInv'
<1>1. RagTypes'
  BY DEF RagInv, RagTypes
<1>2. ASSUME NEW f \in DOMAIN docs' PROVE StampTells(f)' /\ DocumentIsWhole(f)'
  BY DEF RagInv, StampTells, DocumentIsWhole, Present
<1>3. SeesAll'
  <2>1. job # NoJob
    BY DEF NoJob
  <2> QED
    BY <2>1 DEF RagInv, SeesAll, Candidates, Present
<1>4. IndexFollowsFiles'
  BY DEF IndexFollowsFiles
<1> QED
  BY <1>1, <1>2, <1>3, <1>4 DEF RagInv

(* A file that needs nothing, or fails.                                    *)
LEMMA FileIsDone ==
  ASSUME RagInv, IsJob(job), job.at \in {"files", "digest", "extract"},
         \/ /\ job' = Done(job, Path)
            /\ job.quiet /\ Fit(Path) =>
                 Path \in DOMAIN docs /\ docs[Path].digest = files[Path].text
         \/ job' = Fails(job, Path),
         UNCHANGED <<files, writes, docs>>
  PROVE  RagInv'
<1>1. /\ IsJob(job') /\ job'.at = "files" /\ job'.todo = job.todo \ {Path} /\ job'.root = job.root
      /\ job'.saw = job.saw /\ job'.quiet = job.quiet /\ job'.stamp = job.stamp
      /\ job.failed \subseteq job'.failed /\ job # NoJob
      /\ (job' = Fails(job, Path) => Path \in job'.failed)
  <2> DEFINE d == job'
             f == Path
  <2>1. d \in {Done(job, f), Fails(job, f)}
    OBVIOUS
  <2> HIDE DEF d, f
  <2>2. /\ IsJob(d) /\ d.at = "files" /\ d.todo = job.todo \ {f} /\ d.root = job.root
        /\ d.saw = job.saw /\ d.quiet = job.quiet /\ d.stamp = job.stamp
        /\ job.failed \subseteq d.failed /\ (d = Fails(job, f) => f \in d.failed)
    BY <2>1, DoneFields
  <2> QED
    BY <2>2, NotIdle DEF d, f
<1>2. DigestTells'
  BY <1>1 DEF DigestTells
<1>3. Processed'
  BY <1>1 DEF Processed, RagInv, Fit, Present
<1> QED
  BY <1>1, <1>2, <1>3, JobGoesOn DEF RagInv, RagTypes

(* A file whose document is replaced or renewed.                           *)
LEMMA FileIsStored ==
  ASSUME RagInv, IsJob(job), job.stamp <= writes, job.at \in {"digest", "extract"},
         NEW x, x = [stamp |-> job.stamp, digest |-> x.digest, text |-> x.text,
                     chunks |-> x.chunks, torn |-> x.torn],
         DOMAIN docs' = DOMAIN docs \cup {Path}, docs' = [f \in DOMAIN docs' |-> docs'[f]],
         docs'[Path] = x, \A f \in DOMAIN docs \ {Path} : docs'[f] = docs[f],
         Present(Path), job.stamp = files[Path].stamp => x.digest = files[Path].text,
         job.quiet => x.digest = files[Path].text,
         ~x.torn => x.text = x.digest, Cited(x.text, x.chunks),
         job' = Done(job, Path), UNCHANGED <<files, writes>>
  PROVE  RagInv'
<1> DEFINE p == Path
<1>1. /\ IsJob(job') /\ job'.at = "files" /\ job'.todo = job.todo \ {p} /\ job'.root = job.root
      /\ job'.saw = job.saw /\ job'.quiet = job.quiet /\ job'.stamp = job.stamp
      /\ job.failed = job'.failed /\ job # NoJob /\ job' # NoJob
  <2> DEFINE d == job'
  <2>1. d = Done(job, p)
    OBVIOUS
  <2> HIDE DEF d, p
  <2>2. /\ IsJob(d) /\ d.at = "files" /\ d.todo = job.todo \ {p} /\ d.root = job.root
        /\ d.saw = job.saw /\ d.quiet = job.quiet /\ d.stamp = job.stamp
        /\ d.failed = job.failed
    BY <2>1, DoneKeeps
  <2> QED
    BY <2>2, NotIdle DEF d
<1>2. x.stamp = job.stamp /\ job.stamp \in Nat
  BY DEF IsJob
<1>3. RagTypes'
  BY <1>1, <1>2 DEF RagInv, RagTypes
<1>4. ASSUME NEW f \in DOMAIN docs' PROVE StampTells(f)' /\ DocumentIsWhole(f)'
  <2>1. CASE f = p
    BY <1>2, <2>1 DEF StampTells, DocumentIsWhole, Present
  <2>2. CASE f # p
    BY <2>2 DEF RagInv, StampTells, DocumentIsWhole, Present
  <2> QED
    BY <2>1, <2>2
<1>5. SeesAll'
  BY <1>1 DEF RagInv, SeesAll, Candidates, Present
<1>6. Processed'
  BY <1>1 DEF RagInv, Processed, Fit, Present
<1>7. DigestTells' /\ IndexFollowsFiles'
  BY <1>1 DEF DigestTells, IndexFollowsFiles
<1> QED
  BY <1>3, <1>4, <1>5, <1>6, <1>7 DEF RagInv

(* The look at size and time.                                              *)
LEMMA StatKeeps == ASSUME RagInv, StatFile PROVE RagInv'
<1>1. IsJob(job) /\ job.stamp <= writes /\ job.at = "files" /\ job # NoJob
  BY DEF RagInv, RagTypes, StatFile, NoJob
<1>2. UNCHANGED <<files, writes, docs>>
  BY DEF StatFile
<1>3. CASE job' = Fails(job, Path)
  BY <1>1, <1>2, <1>3, FileIsDone
<1>4. CASE SameStamp(Path) /\ Present(Path) /\ job' = Done(job, Path)
  <2>1. Path \in DOMAIN docs /\ docs[Path].digest = files[Path].text
    BY <1>4 DEF SameStamp, RagInv, StampTells
  <2> QED
    BY <1>1, <1>2, <1>4, <2>1, FileIsDone
<1>5. CASE Present(Path) /\ job' = [job EXCEPT !.at = "digest", !.stamp = files[Path].stamp]
  <2>1. files[Path].stamp \in Nat /\ files[Path].stamp <= writes
    BY <1>5 DEF RagInv, RagTypes, Present
  <2>2. /\ IsJob(job') /\ job'.at = "digest" /\ job'.stamp = files[Path].stamp
        /\ job'.root = job.root /\ job'.saw = job.saw /\ job'.quiet = job.quiet
        /\ job'.todo = job.todo /\ job'.failed = job.failed
    BY <1>1, <1>5, <2>1 DEF IsJob
  <2>3. DigestTells'
    BY <2>2 DEF DigestTells
  <2>4. Processed'
    BY <1>1, <1>2, <2>2 DEF RagInv, Processed, Fit, Present
  <2> QED
    BY <1>1, <1>2, <2>1, <2>2, <2>3, <2>4, JobGoesOn
<1> QED
  BY <1>3, <1>4, <1>5 DEF StatFile

(* The digest.                                                             *)
LEMMA DigestKeeps == ASSUME RagInv, DigestFile PROVE RagInv'
<1>1. IsJob(job) /\ job.stamp <= writes /\ job.at = "digest" /\ job # NoJob
  BY DEF RagInv, RagTypes, DigestFile, NoJob
<1>2. UNCHANGED <<files, writes>>
  BY DEF DigestFile
<1>3. CASE job' = Fails(job, Path) /\ UNCHANGED docs
  BY <1>1, <1>2, <1>3, FileIsDone
<1>4. CASE /\ Present(Path) /\ Path \in DOMAIN docs /\ docs[Path].digest = files[Path].text
           /\ job' = Done(job, Path) /\ docs' = [docs EXCEPT ![Path].stamp = job.stamp]
  <2> DEFINE x == [docs[Path] EXCEPT !.stamp = job.stamp]
  <2>1. /\ docs[Path] = [stamp |-> docs[Path].stamp, digest |-> docs[Path].digest,
                         text |-> docs[Path].text, chunks |-> docs[Path].chunks,
                         torn |-> docs[Path].torn]
        /\ DocumentIsWhole(Path) /\ docs = [f \in DOMAIN docs |-> docs[f]]
    BY <1>4 DEF RagInv, RagTypes
  <2>2. /\ x = [stamp |-> job.stamp, digest |-> x.digest, text |-> x.text,
                chunks |-> x.chunks, torn |-> x.torn]
        /\ x.digest = docs[Path].digest /\ x.text = docs[Path].text
        /\ x.torn = docs[Path].torn /\ x.chunks = docs[Path].chunks
    BY <2>1
  <2>3. docs' = [docs EXCEPT ![Path] = x]
    BY <1>4
  <2> HIDE DEF x
  <2>4. /\ DOMAIN docs' = DOMAIN docs \cup {Path} /\ docs' = [f \in DOMAIN docs' |-> docs'[f]]
        /\ docs'[Path] = x /\ \A f \in DOMAIN docs \ {Path} : docs'[f] = docs[f]
    BY <1>4, <2>1, <2>3
  <2>5. (~x.torn => x.text = x.digest) /\ Cited(x.text, x.chunks)
    BY <2>1, <2>2 DEF DocumentIsWhole
  <2> QED
    BY <1>1, <1>2, <1>4, <2>2, <2>4, <2>5, FileIsStored
<1>5. CASE /\ Present(Path) /\ UNCHANGED docs
           /\ job' = [job EXCEPT !.at = "extract", !.digest = files[Path].text]
  <2>1. /\ IsJob(job') /\ job'.at = "extract" /\ job'.stamp = job.stamp
        /\ job'.root = job.root /\ job'.saw = job.saw /\ job'.quiet = job.quiet
        /\ job'.todo = job.todo /\ job'.failed = job.failed /\ job'.digest = files[Path].text
    BY <1>1, <1>5 DEF IsJob
  <2>2. DigestTells'
    BY <1>2, <2>1 DEF DigestTells, Path
  <2>3. Processed'
    BY <1>1, <1>2, <1>5, <2>1 DEF RagInv, Processed, Fit, Present
  <2> QED
    BY <1>1, <1>2, <1>5, <2>1, <2>2, <2>3, JobGoesOn
<1> QED
  BY <1>3, <1>4, <1>5 DEF DigestFile

(* The extraction, and the transaction behind it.                          *)
LEMMA ExtractKeeps == ASSUME RagInv, ExtractFile PROVE RagInv'
<1> DEFINE text == files[Path].text
<1>1. IsJob(job) /\ job.stamp <= writes /\ job.at = "extract" /\ job # NoJob
  BY DEF RagInv, RagTypes, ExtractFile, NoJob
<1>2. UNCHANGED <<files, writes>>
  BY DEF ExtractFile
<1>3. CASE job' = Fails(job, Path) /\ UNCHANGED docs
  BY <1>1, <1>2, <1>3, FileIsDone
<1>4. CASE (Secret(text) \/ text = <<>>) /\ job' = Done(job, Path) /\ UNCHANGED docs
  <2>1. ~Fit(Path)
    BY <1>4 DEF Fit
  <2> QED
    BY <1>1, <1>2, <1>4, <2>1, FileIsDone
<1>5. CASE /\ Present(Path) /\ text # <<>> /\ job' = Done(job, Path)
           /\ docs' = With(docs, Path, [stamp |-> job.stamp, digest |-> job.digest,
                                        text |-> text, chunks |-> Chunks(text),
                                        torn |-> text # job.digest])
  <2> DEFINE u == text # job.digest
             x == [stamp |-> job.stamp, digest |-> job.digest, text |-> text,
                   chunks |-> Chunks(text), torn |-> u]
  <2>1. ~u => text = job.digest
    OBVIOUS
  <2>2. docs' = With(docs, Path, x)
    BY <1>5
  <2> HIDE DEF u
  <2>3. /\ x = [stamp |-> job.stamp, digest |-> x.digest, text |-> x.text,
                chunks |-> x.chunks, torn |-> x.torn]
        /\ x.digest = job.digest /\ x.text = text /\ x.torn = u /\ x.chunks = Chunks(text)
    OBVIOUS
  <2> HIDE DEF x
  <2>4. /\ DOMAIN docs' = DOMAIN docs \cup {Path} /\ docs' = [f \in DOMAIN docs' |-> docs'[f]]
        /\ docs'[Path] = x /\ \A f \in DOMAIN docs \ {Path} : docs'[f] = docs[f]
    BY <2>2 DEF With
  <2>5. /\ job.stamp = files[Path].stamp => x.digest = files[Path].text
        /\ job.quiet => x.digest = files[Path].text
    BY <1>1, <1>5, <2>3 DEF RagInv, DigestTells
  <2>6. ~x.torn => x.text = x.digest
    BY <2>1, <2>3
  <2>7. Cited(x.text, x.chunks)
    <3>1. text \in Seq(Nat)
      BY <1>5 DEF RagInv, RagTypes, Present
    <3>2. Cited(text, Chunks(text))
      BY <1>5, <3>1, ChunksAreCited
    <3> QED
      BY <2>3, <3>2
  <2> QED
    BY <1>1, <1>2, <1>5, <2>3, <2>4, <2>5, <2>6, <2>7, FileIsStored
<1> QED
  BY <1>3, <1>4, <1>5 DEF ExtractFile

(* A call begins with all candidates.                                      *)
LEMMA StartKeeps ==
  ASSUME RagInv, NEW root \in Roots, NEW force \in BOOLEAN, NEW prune \in BOOLEAN,
         StartIndexing(root, force, prune)
  PROVE  RagInv'
<1>1. /\ IsJob(job') /\ job'.at = "files" /\ job'.stamp = 0 /\ job'.saw = Candidates(root)
      /\ job'.todo = Candidates(root) /\ job'.root = root /\ UNCHANGED <<files, writes, docs>>
  BY DEF StartIndexing, IsJob
<1>2. RagTypes'
  BY <1>1 DEF RagInv, RagTypes
<1>3. ASSUME NEW f \in DOMAIN docs' PROVE StampTells(f)' /\ DocumentIsWhole(f)'
  BY <1>1 DEF RagInv, StampTells, DocumentIsWhole, Present
<1>4. DigestTells' /\ SeesAll' /\ Processed' /\ IndexFollowsFiles'
  BY <1>1 DEF DigestTells, SeesAll, Processed, IndexFollowsFiles, Candidates, Present
<1> QED
  BY <1>2, <1>3, <1>4 DEF RagInv

(* It ends when nothing is left to do: then the index follows the files.   *)
LEMMA FinishKeeps == ASSUME RagInv, FinishIndexing PROVE RagInv'
<1>1. IsJob(job) /\ job.stamp <= writes /\ job.at = "files" /\ job # NoJob /\ job.todo = {}
  BY DEF RagInv, RagTypes, FinishIndexing, NoJob
<1>2. /\ IsJob(job') /\ job'.at = "done" /\ job'.stamp = job.stamp /\ job' # NoJob
      /\ job'.root = job.root /\ job'.saw = job.saw /\ job'.quiet = job.quiet
      /\ job'.prune = job.prune /\ job'.todo = job.todo /\ job'.failed = job.failed
  BY <1>1 DEF FinishIndexing, IsJob, NoJob
<1>3. UNCHANGED <<files, writes>>
  BY DEF FinishIndexing
<1>4. /\ DOMAIN docs' = IF job.prune THEN DOMAIN docs \ Pruned(job) ELSE DOMAIN docs
      /\ docs' = [f \in DOMAIN docs' |-> docs'[f]]
      /\ \A f \in DOMAIN docs' : f \in DOMAIN docs /\ docs'[f] = docs[f]
  BY DEF FinishIndexing, Restrict, RagInv, RagTypes
<1>5. RagTypes'
  BY <1>1, <1>2, <1>3, <1>4 DEF RagInv, RagTypes
<1>6. ASSUME NEW f \in DOMAIN docs' PROVE StampTells(f)' /\ DocumentIsWhole(f)'
  BY <1>3, <1>4 DEF RagInv, StampTells, DocumentIsWhole, Present
<1>7. DigestTells'
  BY <1>2 DEF DigestTells
<1>8. SeesAll'
  BY <1>1, <1>2, <1>3 DEF RagInv, SeesAll, Candidates, Present
<1>9. ASSUME job.quiet, NEW f \in job.saw, Fit(f)
      PROVE  f \in DOMAIN docs => f \in DOMAIN docs'
  BY <1>4, <1>9 DEF Pruned, Fit
<1>10. Processed'
  BY <1>1, <1>2, <1>3, <1>4, <1>9 DEF RagInv, Processed, Fit, Present
<1>11. IndexFollowsFiles'
  <2> SUFFICES ASSUME job.quiet PROVE IndexFollowsFiles'
    BY <1>2 DEF IndexFollowsFiles
  <2>1. job.saw = Candidates(job.root)
    BY <1>1 DEF RagInv, SeesAll
  <2>2. ASSUME NEW f \in Below(job.root) \ job.failed, Fit(f)
        PROVE  /\ f \in DOMAIN docs' /\ docs'[f].digest = files[f].text
               /\ ~docs'[f].torn => docs'[f].text = files[f].text
    <3>1. f \in (job.saw \ job.todo) \ job.failed
      BY <1>1, <2>1, <2>2 DEF Fit, Candidates
    <3>2. f \in DOMAIN docs /\ docs[f].digest = files[f].text /\ DocumentIsWhole(f)
      BY <1>1, <2>2, <3>1 DEF RagInv, Processed
    <3> QED
      BY <1>4, <1>9, <2>2, <3>1, <3>2 DEF DocumentIsWhole
  <2>3. ASSUME job.prune, NEW f \in DOMAIN docs' \cap Below(job.root)
        PROVE  Present(f) /\ ~TooLarge(files[f].text)
    BY <1>4, <2>1, <2>3 DEF Pruned, Candidates
  <2> QED
    BY <1>2, <1>3, <2>2, <2>3 DEF IndexFollowsFiles, Fit, Present
<1> QED
  BY <1>5, <1>6, <1>7, <1>8, <1>10, <1>11 DEF RagInv

(* The program stops; documents stay as they are.                          *)
LEMMA StopKeepsIndex == ASSUME RagInv, StopIndexing PROVE RagInv'
<1>1. job' = NoJob /\ UNCHANGED <<files, writes, docs>>
  BY DEF StopIndexing
<1>2. ASSUME NEW f \in DOMAIN docs' PROVE StampTells(f)' /\ DocumentIsWhole(f)'
  BY <1>1 DEF RagInv, StampTells, DocumentIsWhole, Present
<1> QED
  BY <1>1, <1>2 DEF RagInv, RagTypes, DigestTells, SeesAll, Processed, IndexFollowsFiles, NoJob

(* A change of a file ends what can be said of the call under way.         *)
LEMMA DisturbedJob ==
  ASSUME RagInv, job' = Disturbed
  PROVE  \/ job' = NoJob
         \/ /\ IsJob(job') /\ IsJob(job) /\ ~job'.quiet /\ job'.at = job.at
            /\ job'.at # "done" /\ job'.stamp = job.stamp /\ job'.stamp <= writes
            /\ job'.todo = job.todo /\ job'.digest = job.digest
BY DEF RagInv, RagTypes, Disturbed, NoJob, IsJob

(* A file that is written gets a new stamp, and one that is gone has none: *)
(* no document is mistaken for current.                                    *)
LEMMA FilesMayChange ==
  ASSUME RagInv, job' = Disturbed, RagTypes', UNCHANGED docs, NEW f,
         \A g : g # f => (Present(g)' <=> Present(g)),
         \A g \in DOMAIN files \ {f} : files'[g] = files[g],
         Present(f)' => files'[f].stamp > writes
  PROVE  RagInv'
<1>1. ASSUME NEW g \in DOMAIN docs' PROVE StampTells(g)' /\ DocumentIsWhole(g)'
  BY DEF RagInv, RagTypes, StampTells, DocumentIsWhole, Present
<1>2. DigestTells'
  BY DisturbedJob DEF RagInv, RagTypes, DigestTells, Present, Path, NoJob, IsJob
<1>3. SeesAll' /\ Processed' /\ IndexFollowsFiles'
  BY DisturbedJob DEF SeesAll, Processed, IndexFollowsFiles, NoJob
<1> QED
  BY <1>1, <1>2, <1>3 DEF RagInv

(* A file is written.                                                      *)
LEMMA WriteKeeps ==
  ASSUME RagInv, NEW f \in Files, NEW text \in Texts, WriteFile(f, text)
  PROVE  RagInv'
<1>1. /\ writes \in Nat /\ writes' = writes + 1 /\ job' = Disturbed /\ UNCHANGED docs
      /\ files' = With(files, f, [text |-> text, stamp |-> writes'])
  BY DEF WriteFile, RagInv, RagTypes
<1>2. /\ DOMAIN files' = DOMAIN files \cup {f} /\ files' = [g \in DOMAIN files' |-> files'[g]]
      /\ files'[f].stamp = writes' /\ files'[f].text = text /\ text \in Seq(Nat)
      /\ \A g \in DOMAIN files \ {f} : files'[g] = files[g]
  BY <1>1, RagAssumption DEF With, RagAssumption
<1>3. RagTypes'
  <2>1. \A g \in DOMAIN files' :
          /\ files'[g].text \in Seq(Nat)
          /\ files'[g].stamp \in Nat /\ files'[g].stamp <= writes'
    BY <1>1, <1>2 DEF RagInv, RagTypes
  <2>2. \A g \in DOMAIN docs' : docs'[g].stamp <= writes'
    BY <1>1 DEF RagInv, RagTypes
  <2>3. job' = NoJob \/ (IsJob(job') /\ job'.stamp <= writes')
    BY <1>1, DisturbedJob DEF IsJob
  <2> QED
    BY <1>1, <1>2, <2>1, <2>2, <2>3 DEF RagInv, RagTypes
<1>4. /\ files'[f].stamp > writes
      /\ \A g : g # f => (Present(g)' <=> Present(g))
  BY <1>1, <1>2 DEF Present
<1> QED
  BY <1>1, <1>2, <1>3, <1>4, FilesMayChange

(* A file is deleted.                                                      *)
LEMMA DeleteKeeps ==
  ASSUME RagInv, NEW f \in Files, DeleteFile(f)
  PROVE  RagInv'
<1>1. /\ DOMAIN files' = DOMAIN files \ {f} /\ files' = [g \in DOMAIN files' |-> files'[g]]
      /\ \A g \in DOMAIN files \ {f} : files'[g] = files[g]
      /\ job' = Disturbed /\ UNCHANGED <<writes, docs>>
  BY DEF DeleteFile, Restrict
<1>2. RagTypes'
  BY <1>1, DisturbedJob DEF RagInv, RagTypes
<1> QED
  BY <1>1, <1>2, FilesMayChange DEF Present

(* Nothing is indexed at the start.                                        *)
LEMMA RagInitInv == RagInit => RagInv
<1> SUFFICES ASSUME RagInit PROVE RagInv
  OBVIOUS
<1>1. DOMAIN files = {} /\ DOMAIN docs = {} /\ writes = 0 /\ job = NoJob
      /\ files = [f \in DOMAIN files |-> files[f]] /\ docs = [f \in DOMAIN docs |-> docs[f]]
  BY DEF RagInit
<1> QED
  BY <1>1 DEF RagInv, RagTypes, DigestTells, SeesAll, Processed, IndexFollowsFiles, NoJob

(* Every step preserves the invariant.                                     *)
LEMMA RagStep == RagInv /\ [RagNext]_ragVars => RagInv'
<1> SUFFICES ASSUME RagInv, [RagNext]_ragVars PROVE RagInv'
  OBVIOUS
<1>1. ASSUME NEW root \in Roots, NEW force \in BOOLEAN, NEW prune \in BOOLEAN,
             StartIndexing(root, force, prune)
      PROVE  RagInv'
  BY <1>1, StartKeeps
<1>2. CASE ExtractFails
  BY <1>2, FileIsDone DEF ExtractFails, RagInv, RagTypes, NoJob
<1>3. ASSUME NEW f \in Files, DeleteFile(f) \/ \E text \in Texts : WriteFile(f, text)
      PROVE  RagInv'
  BY <1>3, DeleteKeeps, WriteKeeps
<1>4. CASE UNCHANGED ragVars
  BY <1>4 DEF ragVars, RagInv, RagTypes, StampTells, DocumentIsWhole, DigestTells, SeesAll, Processed,
              IndexFollowsFiles, Candidates, Present, Fit, Path
<1> QED
  BY <1>1, <1>2, <1>3, <1>4, StatKeeps, DigestKeeps, ExtractKeeps, FinishKeeps, StopKeepsIndex
  DEF RagNext

(* The invariant holds in every behaviour of the index.                    *)
THEOREM RagInvariant == RagSpec => []RagInv
BY RagInitInv, RagStep, PTL DEF RagSpec

(* For all files, texts and limits: after a call during which no file      *)
(* changed, whatever disturbed or stopped earlier ones, every fit file     *)
(* that did not fail is indexed with its present content, and with pruning *)
(* nothing whose file is gone or too large; except that a document whose   *)
(* file changed between its digest and its extraction, in an earlier call, *)
(* may hold another text under a digest that fits (local_rag/store.py      *)
(* index_paths).                                                           *)
THEOREM IndexIsCurrent == RagSpec => []IndexFollowsFiles
<1>1. RagInv => IndexFollowsFiles
  BY DEF RagInv
<1> QED
  BY <1>1, RagInvariant, PTL

(* For every text and every configuration the chunks of a document contain *)
(* each of its lines, in order and without a gap, and none is wider than   *)
(* allowed except by a single line (local_rag/store.py                     *)
(* _chunk_numbered_lines).                                                 *)
THEOREM ChunksCoverDocuments == RagSpec => []EveryLineIsCited
<1>1. RagInv => EveryLineIsCited
  BY DEF RagInv, DocumentIsWhole, EveryLineIsCited
<1> QED
  BY <1>1, RagInvariant, PTL

-----------------------------------------------------------------------------
(* The turn of the agent: what the listener keeps and what a delegation    *)
(* honours.                                                                *)

TurnTypes ==
  /\ ask \in {"idle", "request", "stream", "execute", "replied", "failed"}
  /\ round \in Nat /\ explicit \in Tiers \cup {NoTier}
  /\ streamed \in BOOLEAN /\ emitted \in BOOLEAN /\ cancelled \in BOOLEAN /\ seen \in BOOLEAN
  /\ delegations \in Seq([tier : Tiers, success : BOOLEAN])

(* Between two rounds nothing is heard, and during a round at most its own *)
(* text, which is noted as emitted until it is taken back; a reply that is *)
(* not streamed is returned and not heard.                                 *)
OnlyThisRoundIsHeard ==
  /\ ask \in {"request", "execute"} \/ ~streamed => heard = {}
  /\ ask = "stream" => heard = {} \/ (heard = {round} /\ emitted)

TierHonoured ==
  \A i \in DOMAIN delegations : explicit # NoTier => delegations[i].tier = explicit

TurnInv ==
  TurnTypes /\ OnlyThisRoundIsHeard /\ TierHonoured /\ HeardIsTheReply /\ ExplicitRequestHonoured

-----------------------------------------------------------------------------

(* A response may lack calls only when none is forced.                     *)
LEMMA ForcedResponses == Forced => <<>> \notin Responses(Forced)
BY DEF Responses

(* A reply without calls was not forced to delegate.                       *)
LEMMA RepliesHonour ==
  ASSUME TurnInv, <<>> \in Responses(Forced)
  PROVE  RoutingEnabled /\ explicit # NoTier => delegations # <<>>
BY ForcedResponses DEF Forced

(* A turn begins without delegations and with nothing heard.               *)
LEMMA TurnInitInv == AgentInit => TurnInv
<1> SUFFICES ASSUME AgentInit PROVE TurnInv
  OBVIOUS
<1>1. /\ delegations = <<>> /\ ask = "idle" /\ heard = {} /\ round = 0 /\ explicit = NoTier
      /\ streamed = FALSE /\ emitted = FALSE /\ cancelled = FALSE /\ seen = FALSE
  BY DEF AgentInit
<1>2. delegations \in Seq([tier : Tiers, success : BOOLEAN]) /\ DOMAIN delegations = {}
  BY <1>1, EmptySeq
<1>3. TurnTypes
  BY <1>1, <1>2 DEF TurnTypes
<1> QED
  BY <1>1, <1>2, <1>3
     DEF TurnInv, OnlyThisRoundIsHeard, TierHonoured, HeardIsTheReply, ExplicitRequestHonoured

(* One more delegation to the tier that was asked for.                     *)
LEMMA DelegateHonours ==
  ASSUME TurnInv, NEW tier \in Tiers, NEW answers \in BOOLEAN, Delegate(tier, answers)
  PROVE  TurnInv'
<1> DEFINE d == [tier |-> TierOf(tier), success |-> answers]
<1>1. d \in [tier : Tiers, success : BOOLEAN] /\ (explicit # NoTier => d.tier = explicit)
  BY DEF TierOf, TurnInv, TurnTypes
<1>2. /\ delegations' = Append(delegations, d) /\ ask = "execute"
      /\ UNCHANGED <<ask, round, heard, emitted, cancelled, seen, streamed, explicit>>
  BY DEF Delegate, NextCall, ofRound, ofTurn
<1>3. TurnTypes'
  BY <1>1, <1>2, AppendProperties DEF TurnInv, TurnTypes
<1>4. TierHonoured'
  <2> SUFFICES ASSUME NEW i \in DOMAIN delegations', explicit # NoTier
               PROVE  delegations'[i].tier = explicit
    BY <1>2 DEF TierHonoured
  <2>1. CASE i \in DOMAIN delegations
    BY <2>1, <1>2, AppendProperties DEF TurnInv, TurnTypes, TierHonoured
  <2>2. CASE i \notin DOMAIN delegations
    <3>1. i = Len(delegations) + 1 /\ delegations'[i] = d
      BY <2>2, <1>1, <1>2, AppendProperties, LenProperties DEF TurnInv, TurnTypes
    <3> QED
      BY <3>1, <1>1
  <2> QED
    BY <2>1, <2>2
<1> QED
  BY <1>2, <1>3, <1>4
     DEF TurnInv, OnlyThisRoundIsHeard, TierHonoured, HeardIsTheReply, ExplicitRequestHonoured

(* Every step of a turn preserves the invariant.                           *)
LEMMA TurnStep == TurnInv /\ [AgentNext]_agentVars => TurnInv'
<1> SUFFICES ASSUME TurnInv, [AgentNext]_agentVars PROVE TurnInv'
  OBVIOUS
<1> USE DEF TurnInv, TurnTypes, OnlyThisRoundIsHeard, TierHonoured, HeardIsTheReply,
            ExplicitRequestHonoured, ofTurn, ofRound
<1>1. ASSUME NEW live \in BOOLEAN, NEW asked \in Tiers \cup {NoTier}, BeginTurn(live, asked)
      PROVE  TurnInv'
  BY <1>1 DEF BeginTurn
<1>2. CASE SendRequest
  BY <1>2 DEF SendRequest
<1>3. CASE TextDelta
  BY <1>3 DEF TextDelta
<1>4. CASE FunctionEvent
  BY <1>4 DEF FunctionEvent
<1>5. ASSUME NEW answer \in Responses(Forced), ResponseStreamed(answer) PROVE TurnInv'
  <2>1. CASE answer = <<>>
    BY <1>5, <2>1, RepliesHonour DEF ResponseStreamed, Replies
  <2>2. CASE answer # <<>>
    BY <1>5, <2>2 DEF ResponseStreamed, CallsTools, TakenBack
  <2> QED
    BY <2>1, <2>2
<1>6. ASSUME NEW answer \in Responses(Forced), ResponseReturned(answer) PROVE TurnInv'
  <2>1. CASE answer = <<>>
    BY <1>6, <2>1, RepliesHonour DEF ResponseReturned, Replies
  <2>2. CASE answer # <<>>
    BY <1>6, <2>2 DEF ResponseReturned, CallsTools
  <2> QED
    BY <2>1, <2>2
<1>7. CASE ResponseFails
  BY <1>7 DEF ResponseFails
<1>8. CASE ExecuteTool \/ DelegationRefused
  BY <1>8 DEF ExecuteTool, DelegationRefused, NextCall
<1>9. ASSUME NEW tier \in Tiers, NEW answers \in BOOLEAN, Delegate(tier, answers) PROVE TurnInv'
  BY <1>9, DelegateHonours
<1>10. CASE ListenerRaises
  BY <1>10 DEF ListenerRaises
<1>11. CASE NextRound
  BY <1>11 DEF NextRound
<1>12. CASE ResetConversation
  BY <1>12 DEF ResetConversation
<1>13. CASE UNCHANGED agentVars
  BY <1>13 DEF agentVars
<1> QED
  BY <1>1, <1>2, <1>3, <1>4, <1>5, <1>6, <1>7, <1>8, <1>9, <1>10, <1>11, <1>12, <1>13
     DEF AgentNext

(* The invariant holds in every behaviour of the agent.                    *)
THEOREM TurnInvariant == AgentSpec => []TurnInv
BY TurnInitInv, TurnStep, PTL DEF AgentSpec

(* In whatever order text and calls arrive, and in however many rounds:    *)
(* what was heard when the reply is there is text of the last response     *)
(* only (llm/agent.py _consume_response_stream).                           *)
THEOREM OnlyTheReplyIsHeard == AgentSpec => []HeardIsTheReply
<1>1. TurnInv => HeardIsTheReply
  BY DEF TurnInv
<1> QED
  BY <1>1, TurnInvariant, PTL

(* With any budget and whatever the model calls: a reply comes only after  *)
(* the stronger model the user asked for was tried, and every delegation   *)
(* went to its tier (llm/agent.py _request_tool_choice, router.py          *)
(* delegate).                                                              *)
THEOREM RequestIsHonoured == AgentSpec => []ExplicitRequestHonoured
<1>1. TurnInv => ExplicitRequestHonoured
  BY DEF TurnInv
<1> QED
  BY <1>1, TurnInvariant, PTL

-----------------------------------------------------------------------------
(* The queue of the microphone: the callback and the reader take turns at  *)
(* its lock, and neither the order of the frames nor their count suffers.  *)

NewestIn == IF waiting = <<>> THEN lastTaken ELSE waiting[Len(waiting)]

QueueTypeOK ==
  /\ waiting \in Seq(Nat) /\ Len(waiting) <= QueueSize
  /\ captured \in Nat /\ taken \in Nat /\ dropped \in Nat /\ lastTaken \in Nat
  /\ callback \in {"idle", "full", "popped"}

Ordered ==
  \A i \in 1 .. Len(waiting) : waiting[i] > IF i = 1 THEN lastTaken ELSE waiting[i - 1]

(* Outside the callback the newest frame is the last one of the queue, or  *)
(* was the last to be taken; inside it, it is newer than all of them.      *)
NewestIsKept ==
  /\ callback = "idle" => NewestIn = captured
  /\ callback # "idle" => NewestIn < captured

(* A frame that has been removed is counted when its place is filled.      *)
LossIsCounted ==
  captured - taken - Len(waiting) <= IF callback = "popped" THEN dropped + 1 ELSE dropped

(* A closed stream has no callback; a callback that made room finds it.    *)
CallbackInStream ==
  /\ stream # "runs" => callback = "idle"
  /\ callback = "popped" => Len(waiting) < QueueSize

QueueInv == QueueTypeOK /\ Ordered /\ NewestIsKept /\ LossIsCounted /\ CallbackInStream

-----------------------------------------------------------------------------

(* A newer frame at the end keeps the order.                               *)
LEMMA PutKeepsOrder ==
  ASSUME QueueTypeOK, Ordered, NEW n \in Nat, NewestIn < n, PutFrame(n), lastTaken' = lastTaken
  PROVE  /\ waiting' \in Seq(Nat) /\ Len(waiting') = Len(waiting) + 1
         /\ Ordered' /\ waiting' # <<>> /\ waiting'[Len(waiting')] = n
<1>1. /\ waiting' \in Seq(Nat) /\ Len(waiting') = Len(waiting) + 1
      /\ \A i \in 1 .. Len(waiting) : waiting'[i] = waiting[i]
      /\ waiting'[Len(waiting) + 1] = n
  BY DEF QueueTypeOK, PutFrame
<1>2. ASSUME NEW i \in 1 .. Len(waiting')
      PROVE  waiting'[i] > IF i = 1 THEN lastTaken' ELSE waiting'[i - 1]
  <2>1. CASE i \in 1 .. Len(waiting)
    <3>1. waiting[i] > IF i = 1 THEN lastTaken ELSE waiting[i - 1]
      BY <2>1 DEF Ordered
    <3>2. i # 1 => i - 1 \in 1 .. Len(waiting)
      BY <2>1
    <3> QED
      BY <1>1, <2>1, <3>1, <3>2
  <2>2. CASE i = Len(waiting) + 1 /\ waiting = <<>>
    BY <1>1, <2>2 DEF NewestIn, QueueTypeOK
  <2>3. CASE i = Len(waiting) + 1 /\ waiting # <<>>
    BY <1>1, <2>3 DEF NewestIn, QueueTypeOK
  <2> QED
    BY <1>1, <2>1, <2>2, <2>3 DEF QueueTypeOK
<1> QED
  BY <1>1, <1>2 DEF Ordered

(* So does taking the first frame, be it read or dropped; what remains     *)
(* ends as before, and is newer than what was taken.                       *)
LEMMA TailKeepsOrder ==
  ASSUME QueueTypeOK, Ordered, waiting # <<>>, waiting' = Tail(waiting),
         lastTaken' \in {lastTaken, Head(waiting)}
  PROVE  /\ waiting' \in Seq(Nat) /\ Len(waiting') = Len(waiting) - 1 /\ lastTaken' \in Nat
         /\ Ordered' /\ NewestIn' <= NewestIn
         /\ lastTaken' = Head(waiting) => NewestIn' = NewestIn
<1>1. /\ waiting' \in Seq(Nat) /\ Len(waiting') = Len(waiting) - 1
      /\ \A i \in 1 .. Len(waiting') : waiting'[i] = waiting[i + 1]
      /\ Head(waiting) = waiting[1] /\ Len(waiting) \in Nat /\ Len(waiting) > 0
      /\ \A i \in 1 .. Len(waiting) : waiting[i] \in Nat
  BY DEF QueueTypeOK
<1>2. lastTaken < waiting[1]
  BY <1>1 DEF Ordered
<1>3. lastTaken' \in Nat /\ lastTaken' <= waiting[1]
  BY <1>1, <1>2 DEF QueueTypeOK
<1>4. ASSUME NEW i \in 1 .. Len(waiting')
      PROVE  waiting'[i] > IF i = 1 THEN lastTaken' ELSE waiting'[i - 1]
  <2>1. i + 1 \in 1 .. Len(waiting) /\ waiting[i + 1] > waiting[i] /\ waiting'[i] = waiting[i + 1]
    BY <1>1 DEF Ordered
  <2>2. CASE i = 1
    BY <1>1, <1>3, <2>1, <2>2
  <2>3. CASE i # 1
    BY <1>1, <2>1, <2>3
  <2> QED
    BY <2>2, <2>3
<1>5. CASE Len(waiting) = 1
  <2>1. waiting' = <<>> /\ waiting # <<>>
    BY <1>1, <1>5
  <2>2. NewestIn' = lastTaken' /\ NewestIn = waiting[1]
    BY <1>5, <2>1 DEF NewestIn
  <2> QED
    BY <1>1, <1>3, <1>4, <2>2 DEF Ordered
<1>6. CASE Len(waiting) # 1
  <2>1. Len(waiting') \in Nat /\ Len(waiting') > 0
    BY <1>1, <1>6
  <2>2. waiting' # <<>> /\ Len(waiting') \in 1 .. Len(waiting')
    BY <2>1
  <2>3. waiting'[Len(waiting')] = waiting[Len(waiting)]
    BY <1>1, <2>2
  <2>4. NewestIn' = NewestIn /\ NewestIn \in Nat
    BY <1>1, <2>2, <2>3 DEF NewestIn
  <2> QED
    BY <1>1, <1>3, <1>4, <2>4 DEF Ordered
<1> QED
  BY <1>5, <1>6

-----------------------------------------------------------------------------

LEMMA CaptureKeeps == ASSUME QueueInv, Capture, UNCHANGED stream PROVE QueueInv'
<1> USE DEF QueueInv, QueueTypeOK
<1>1. callback = "idle" /\ NewestIn = captured /\ captured' = captured + 1
      /\ lastTaken' = lastTaken /\ taken' = taken
  BY DEF Capture, NewestIsKept
<1>2. CASE Len(waiting) < QueueSize
  <2>1. PutFrame(captured + 1) /\ callback' = callback /\ dropped' = dropped
    BY <1>2 DEF Capture
  <2>2. /\ waiting' \in Seq(Nat) /\ Len(waiting') = Len(waiting) + 1
        /\ Ordered' /\ waiting' # <<>> /\ waiting'[Len(waiting')] = captured + 1
    BY <1>1, <2>1, PutKeepsOrder
  <2> QED
    BY <1>1, <1>2, <2>1, <2>2, MicrophoneAssumption
       DEF NewestIsKept, NewestIn, LossIsCounted, CallbackInStream, MicrophoneAssumption
<1>3. CASE ~(Len(waiting) < QueueSize)
  <2>1. waiting' = waiting /\ callback' = "full" /\ dropped' = dropped + 1 /\ stream = "runs"
    BY <1>3 DEF Capture
  <2> QED
    BY <1>1, <2>1 DEF Ordered, NewestIsKept, NewestIn, LossIsCounted, CallbackInStream
<1> QED
  BY <1>2, <1>3

LEMMA MakeRoomKeeps == ASSUME QueueInv, MakeRoom, UNCHANGED stream PROVE QueueInv'
<1> USE DEF QueueInv, QueueTypeOK
<1>1. /\ callback = "full" /\ callback' = "popped" /\ NewestIn < captured /\ stream = "runs"
      /\ UNCHANGED <<dropped, captured, taken, lastTaken, stream>>
  BY DEF MakeRoom, NewestIsKept, CallbackInStream
<1>2. CASE waiting = <<>>
  <2>1. waiting' = waiting /\ Len(waiting) = 0
    BY <1>2 DEF MakeRoom
  <2> QED
    BY <1>1, <2>1, MicrophoneAssumption
       DEF Ordered, NewestIsKept, NewestIn, LossIsCounted, CallbackInStream, MicrophoneAssumption
<1>3. CASE waiting # <<>>
  <2>1. waiting' = Tail(waiting)
    BY <1>3 DEF MakeRoom
  <2>2. /\ waiting' \in Seq(Nat) /\ Len(waiting') = Len(waiting) - 1
        /\ Ordered' /\ NewestIn' <= NewestIn
    BY <1>1, <1>3, <2>1, TailKeepsOrder
  <2>3. Len(waiting') \in Nat /\ NewestIn \in Nat /\ NewestIn' \in Nat
    BY <1>1, <1>3, <2>2 DEF NewestIn
  <2> QED
    BY <1>1, <2>2, <2>3, MicrophoneAssumption
       DEF NewestIsKept, LossIsCounted, CallbackInStream, MicrophoneAssumption
<1> QED
  BY <1>2, <1>3

LEMMA PutNewestKeeps == ASSUME QueueInv, PutNewest, UNCHANGED stream PROVE QueueInv'
<1> USE DEF QueueInv, QueueTypeOK
<1>1. /\ callback = "popped" /\ callback' = "idle" /\ NewestIn < captured
      /\ Len(waiting) < QueueSize /\ PutFrame(captured)
      /\ UNCHANGED <<dropped, captured, taken, lastTaken, stream>>
  BY DEF PutNewest, NewestIsKept, CallbackInStream
<1>2. /\ waiting' \in Seq(Nat) /\ Len(waiting') = Len(waiting) + 1
      /\ Ordered' /\ waiting' # <<>> /\ waiting'[Len(waiting')] = captured
  BY <1>1, PutKeepsOrder
<1> QED
  BY <1>1, <1>2, MicrophoneAssumption
     DEF NewestIsKept, NewestIn, LossIsCounted, CallbackInStream, MicrophoneAssumption

LEMMA TakeFrameKeeps == ASSUME QueueInv, TakeFrame, UNCHANGED stream PROVE QueueInv'
<1> USE DEF QueueInv, QueueTypeOK
<1>1. /\ waiting # <<>> /\ waiting' = Tail(waiting) /\ lastTaken' = Head(waiting)
      /\ taken' = taken + 1 /\ UNCHANGED <<callback, dropped, captured, stream>>
  BY DEF TakeFrame
<1>2. /\ waiting' \in Seq(Nat) /\ Len(waiting') = Len(waiting) - 1 /\ lastTaken' \in Nat
      /\ Ordered' /\ NewestIn' = NewestIn
  BY <1>1, TailKeepsOrder
<1>3. Len(waiting) \in Nat
  OBVIOUS
<1> QED
  BY <1>1, <1>2, <1>3, MicrophoneAssumption
     DEF NewestIsKept, LossIsCounted, CallbackInStream, MicrophoneAssumption

(* The device may change, be recovered or vanish: its queue does not care. *)
LEMMA QueueStep == QueueInv /\ [MicNext]_micVars => QueueInv'
<1> SUFFICES ASSUME QueueInv, [MicNext]_micVars PROVE QueueInv'
  OBVIOUS
<1>1. CASE Capture /\ UNCHANGED stream
  BY <1>1, CaptureKeeps
<1>2. CASE MakeRoom /\ UNCHANGED stream
  BY <1>2, MakeRoomKeeps
<1>3. CASE PutNewest /\ UNCHANGED stream
  BY <1>3, PutNewestKeeps
<1>4. CASE TakeFrame /\ UNCHANGED stream
  BY <1>4, TakeFrameKeeps
<1>5. CASE EndProgram
  BY <1>5, MicrophoneAssumption
     DEF EndProgram, MicrophoneAssumption, QueueInv, QueueTypeOK, Ordered, NewestIsKept, NewestIn,
         LossIsCounted, CallbackInStream
<1>6. ASSUME UNCHANGED frames, stream' = "runs" \/ callback = "idle" \/ stream' = stream
      PROVE QueueInv'
  BY <1>6 DEF frames, QueueInv, QueueTypeOK, Ordered, NewestIsKept, NewestIn, LossIsCounted,
              CallbackInStream
<1>7. CASE MakeMicrophone \/ StartStream \/ OpenStream \/ RecoverStream \/ RecoveryCannotOpen
             \/ CloseStream
  <2>1. UNCHANGED frames /\ (stream' = "runs" \/ stream # "runs" \/ callback = "idle")
    BY <1>7 DEF MakeMicrophone, StartStream, OpenStream, RecoverStream, RecoveryCannotOpen,
                CloseStream
  <2> QED
    BY <1>6, <2>1 DEF QueueInv, CallbackInStream
<1>8. ASSUME NEW d \in Devices, NEW to, RigChanges(d, to) PROVE QueueInv'
  BY <1>6, <1>8 DEF RigChanges
<1>9. CASE UNCHANGED micVars
  BY <1>6, <1>9 DEF micVars, frames
<1> QED
  BY <1>1, <1>2, <1>3, <1>4, <1>5, <1>7, <1>8, <1>9 DEF MicNext

(* The queue's invariant holds in every reachable state.                   *)
THEOREM QueueInvariant == MicSpec => []QueueInv
<1>1. MicInit => QueueInv
  BY MicrophoneAssumption
     DEF MicInit, MicrophoneAssumption, QueueInv, QueueTypeOK, Ordered, NewestIsKept, NewestIn,
         LossIsCounted, CallbackInStream
<1> QED
  BY <1>1, QueueStep, PTL DEF MicSpec

(* Frames are read in the order they were captured, a full queue never     *)
(* loses the newest, and what it loses is counted (microphone.py           *)
(* _callback, read, clear_pending).                                        *)
THEOREM FramesKeepOrder == MicSpec => []FramesInOrder
<1>1. QueueInv => FramesInOrder
  <2> SUFFICES ASSUME QueueInv PROVE FramesInOrder
    OBVIOUS
  <2>1. callback = "idle" => captured \in Range(waiting) \cup {lastTaken}
    <3>1. waiting # <<>> => Len(waiting) \in DOMAIN waiting
      BY DEF QueueInv, QueueTypeOK
    <3> QED
      BY <3>1 DEF QueueInv, NewestIsKept, NewestIn, Range
  <2> QED
    BY <2>1 DEF QueueInv, Ordered, LossIsCounted, FramesInOrder
<1> QED
  BY <1>1, QueueInvariant, PTL

-----------------------------------------------------------------------------
(* The free slots of the calendar.                                         *)

(* Times of events, however long the days.                                 *)
Times == {t \in Nat \X Nat : t[1] < t[2]}

(* Such a time is a pair of numbers, the first less than the second.       *)
LEMMA TimesAre ==
  ASSUME NEW t \in Times
  PROVE  t[1] \in Nat /\ t[2] \in Nat /\ t[1] < t[2] /\ t = <<t[1], t[2]>>
BY DEF Times

(* A finite set of times that is not empty has a last one. Otherwise the   *)
(* sets of times from one of them on would go on shrinking.                *)
LEMMA HasLast ==
  ASSUME NEW B, IsFiniteSet(B), B \subseteq Times, B # {}
  PROVE  \E t \in B : \A u \in B \ {t} : Earlier(u, t)
<1> DEFINE From(p) == {q \in B : q = p \/ Earlier(p, q)}
           Sections == {From(p) : p \in B}
<1>1. IsWellFoundedOn(StrictSubsetOrdering(B), SUBSET B)
  BY FS_StrictSubsetOrderingWellFounded, FS_FiniteSubsetsOfFinite
<1>2. Sections \subseteq SUBSET B /\ Sections # {}
  OBVIOUS
<1>3. PICK D \in Sections : \A E \in Sections : <<E, D>> \notin StrictSubsetOrdering(B)
  BY <1>1, <1>2, WFMin
<1>4. PICK p \in B : D = From(p)
  OBVIOUS
<1>5. ASSUME NEW q \in B, Earlier(p, q) PROVE FALSE
  <2>1. From(q) \in Sections
    OBVIOUS
  <2>2. \A r \in B : Earlier(q, r) => Earlier(p, r)
    BY <1>5 DEF Earlier, Times
  <2>3. ~Earlier(q, p) /\ p # q
    BY <1>5 DEF Earlier, Times
  <2>4. From(q) \subseteq From(p) /\ p \in From(p) /\ p \notin From(q)
    BY <1>5, <2>2, <2>3
  <2>5. <<From(q), From(p)>> \in StrictSubsetOrdering(B)
    BY <2>4 DEF StrictSubsetOrdering
  <2> QED
    BY <2>1, <2>5, <1>3, <1>4
<1>6. ASSUME NEW u \in B \ {p} PROVE Earlier(u, p)
  <2>1. u \in Times /\ p \in Times /\ u # p /\ ~Earlier(p, u)
    BY <1>5
  <2>2. u = <<u[1], u[2]>> /\ p = <<p[1], p[2]>>
    BY <2>1 DEF Times
  <2>3. u[1] # p[1] \/ u[2] # p[2]
    BY <2>1, <2>2
  <2> QED
    BY <2>1, <2>3 DEF Earlier, Times
<1> QED
  BY <1>6

(* The members of B in the order of time.                                  *)
InOrderOf(s, B) ==
  /\ s \in [1 .. Cardinality(B) -> B]
  /\ \A t \in B : \E i \in 1 .. Cardinality(B) : s[i] = t
  /\ \A i, j \in 1 .. Cardinality(B) : i < j => Earlier(s[i], s[j])

(* Every finite set of times can be put in order: in a smallest set that   *)
(* cannot, the last one goes behind the others.                            *)
LEMMA SortedIsInOrder ==
  ASSUME NEW busy, IsFiniteSet(busy), busy \subseteq Times
  PROVE  InOrderOf(Sorted(busy), busy)
<1> DEFINE Bad == {B \in SUBSET busy : ~ \E s : InOrderOf(s, B)}
<1>1. ASSUME Bad # {} PROVE FALSE
  <2>1. IsWellFoundedOn(StrictSubsetOrdering(busy), SUBSET busy)
    BY FS_StrictSubsetOrderingWellFounded, FS_FiniteSubsetsOfFinite
  <2>2. PICK B \in Bad : \A C \in Bad : <<C, B>> \notin StrictSubsetOrdering(busy)
    BY <1>1, <2>1, WFMin
  <2>3. IsFiniteSet(B) /\ B \subseteq Times
    BY FS_Subset
  <2>4. CASE B = {}
    <3>1. Cardinality(B) = 0 /\ 1 .. 0 = {}
      BY <2>4, FS_EmptySet
    <3>2. InOrderOf([i \in 1 .. 0 |-> 0], B)
      BY <2>4, <3>1 DEF InOrderOf
    <3> QED
      BY <3>2
  <2>5. CASE B # {}
    <3>1. PICK t \in B : \A u \in B \ {t} : Earlier(u, t)
      BY <2>3, <2>5, HasLast
    <3> DEFINE C == B \ {t}
               n == Cardinality(C)
    <3>2. C \in SUBSET busy /\ <<C, B>> \in StrictSubsetOrdering(busy)
      BY DEF StrictSubsetOrdering
    <3>3. PICK s : InOrderOf(s, C)
      BY <2>2, <3>2
    <3>4. Cardinality(B) = n + 1 /\ n \in Nat
      <4>1. IsFiniteSet(C) /\ t \notin C /\ B = C \cup {t}
        BY <2>3, FS_RemoveElement
      <4>2. Cardinality(C \cup {t}) = n + 1 /\ n \in Nat
        BY <4>1, FS_AddElement, FS_CardinalityType
      <4> QED
        BY <4>1, <4>2
    <3> DEFINE r == [i \in 1 .. n + 1 |-> IF i = n + 1 THEN t ELSE s[i]]
    <3>5. /\ s \in [1 .. n -> C]
          /\ \A u \in C : \E i \in 1 .. n : s[i] = u
          /\ \A i, j \in 1 .. n : i < j => Earlier(s[i], s[j])
      BY <3>3 DEF InOrderOf
    <3>6. C \subseteq B /\ t \in B
      OBVIOUS
    <3> HIDE DEF n, C
    <3>7. r[n + 1] = t /\ \A i \in 1 .. n : r[i] = s[i] /\ s[i] \in C
      BY <3>4, <3>5
    <3>8. r \in [1 .. n + 1 -> B]
      <4>1. ASSUME NEW i \in 1 .. n + 1 PROVE (IF i = n + 1 THEN t ELSE s[i]) \in B
        BY <3>4, <3>5, <3>6
      <4> QED
        BY <4>1
    <3> HIDE DEF r
    <3>9. \A u \in B : u # t => u \in C
      BY DEF C
    <3>10. ASSUME NEW u \in B PROVE \E i \in 1 .. n + 1 : r[i] = u
      <4>1. CASE u = t
        BY <3>4, <3>7, <4>1
      <4>2. CASE u # t
        BY <3>4, <3>5, <3>7, <3>9, <4>2
      <4> QED
        BY <4>1, <4>2
    <3>11. ASSUME NEW i \in 1 .. n + 1, NEW j \in 1 .. n + 1, i < j PROVE Earlier(r[i], r[j])
      <4>1. i \in 1 .. n
        BY <3>4, <3>11
      <4>2. CASE j = n + 1
        BY <3>1, <3>7, <4>1, <4>2 DEF C
      <4>3. CASE j # n + 1
        BY <3>4, <3>5, <3>7, <3>11, <4>1, <4>3
      <4> QED
        BY <4>2, <4>3
    <3>12. InOrderOf(r, B)
      BY <3>4, <3>8, <3>10, <3>11 DEF InOrderOf
    <3> QED
      BY <3>12
  <2> QED
    BY <2>4, <2>5
<1>2. PICK s : InOrderOf(s, busy)
  BY <1>1
<1> DEFINE Fine(r) == /\ \A t \in busy : \E i \in DOMAIN r : r[i] = t
                      /\ \A i, j \in DOMAIN r : i < j => Earlier(r[i], r[j])
<1>3. \E r \in [1 .. Cardinality(busy) -> busy] : Fine(r)
  BY <1>2 DEF InOrderOf
<1>4. Sorted(busy) = CHOOSE r \in [1 .. Cardinality(busy) -> busy] : Fine(r)
  BY DEF Sorted
<1>5. Sorted(busy) \in [1 .. Cardinality(busy) -> busy] /\ Fine(Sorted(busy))
  BY <1>3, <1>4
<1> QED
  BY <1>5 DEF InOrderOf

(* f begins with a and goes on by step.                                    *)
Steps(f, n, a, step) == f = [i \in 0 .. n |-> IF i = 0 THEN a ELSE step[<<i, f[i - 1]>>]]

(* A function can be defined from 0 to n step by step: there is no         *)
(* greatest number below n up to which it can.                             *)
LEMMA StepByStep ==
  ASSUME NEW n \in Nat, NEW S, NEW a \in S, NEW step \in [(1 .. n) \X S -> S]
  PROVE  \E f \in [0 .. n -> S] : Steps(f, n, a, step)
<1> DEFINE Upto(f, k) == /\ f \in [0 .. k -> S]
                         /\ f[0] = a
                         /\ \A i \in 1 .. k : f[i] = step[<<i, f[i - 1]>>]
           Good == {k \in 0 .. n : \E f : Upto(f, k)}
<1>1. 0 \in Good
  <2> DEFINE h == [i \in 0 .. 0 |-> a]
  <2>2. h \in [0 .. 0 -> S] /\ h[0] = a /\ 1 .. 0 = {}
    OBVIOUS
  <2> HIDE DEF h
  <2>1. Upto(h, 0)
    BY <2>2
  <2> QED
    BY <2>1
<1>2. PICK k \in Good : \A j \in Good : k >= j
  <2>1. Good \in SUBSET (0 .. n) /\ Good # {} /\ 0 \in Nat
    BY <1>1
  <2> HIDE DEF Good
  <2> QED
    BY <2>1, HasGreatest
<1>3. k \in 0 .. n
  OBVIOUS
<1>4. PICK f : Upto(f, k)
  OBVIOUS
<1>5. k = n
  <2>1. SUFFICES ASSUME k # n PROVE FALSE
    OBVIOUS
  <2> DEFINE g == [i \in 0 .. k + 1 |-> IF i = k + 1 THEN step[<<k + 1, f[k]>>] ELSE f[i]]
  <2>2. k + 1 \in 1 .. n /\ k \in Nat /\ k \in 0 .. k /\ k + 1 \in 0 .. n
    BY <1>3, <2>1
  <2>3. step[<<k + 1, f[k]>>] \in S
    BY <1>4, <2>2
  <2>4. g \in [0 .. k + 1 -> S]
    BY <1>4, <2>2, <2>3
  <2>5. g[k + 1] = step[<<k + 1, f[k]>>] /\ \A i \in 0 .. k : g[i] = f[i]
    BY <2>2
  <2> HIDE DEF g
  <2>6. ASSUME NEW i \in 1 .. k + 1 PROVE g[i] = step[<<i, g[i - 1]>>]
    <3>1. CASE i = k + 1
      <4>1. i - 1 = k /\ k \in 0 .. k
        BY <2>2, <3>1
      <4> QED
        BY <2>5, <3>1, <4>1
    <3>2. CASE i # k + 1
      <4>1. i \in 1 .. k /\ i \in 0 .. k /\ i - 1 \in 0 .. k
        BY <2>2, <3>2
      <4> QED
        BY <1>4, <2>5, <4>1
    <3> QED
      BY <3>1, <3>2
  <2>7. Upto(g, k + 1)
    <3>1. g[0] = a
      BY <1>4, <2>2, <2>5
    <3> QED
      BY <2>4, <2>6, <3>1
  <2>8. k + 1 \in Good
    BY <2>2, <2>7
  <2>9. ~(k >= k + 1)
    BY <2>2
  <2> QED
    BY <1>2, <2>8, <2>9
<1>6. f = [i \in 0 .. n |-> IF i = 0 THEN a ELSE step[<<i, f[i - 1]>>]]
  <2>1. f \in [0 .. n -> S] /\ f[0] = a /\ \A i \in 1 .. n : f[i] = step[<<i, f[i - 1]>>]
    BY <1>4, <1>5
  <2>2. ASSUME NEW i \in 0 .. n PROVE f[i] = IF i = 0 THEN a ELSE step[<<i, f[i - 1]>>]
    <3>1. i # 0 => i \in 1 .. n
      OBVIOUS
    <3> QED
      BY <2>1, <3>1
  <2>3. f = [i \in 0 .. n |-> f[i]]
    BY <2>1
  <2> QED
    BY <2>2, <2>3
<1> QED
  BY <1>4, <1>5, <1>6 DEF Steps

(* Some of the first i times of s begins at an hour h or before and is not *)
(* over then.                                                              *)
BusyAt(s, i, h) == \E k \in 1 .. i : s[k][1] <= h /\ h < s[k][2]

(* m is what the first i times of s are merged to: it lies apart, is no    *)
(* less and no more than they are, and ends where some of them end.        *)
MergedUpTo(m, s, i) ==
  /\ m \in Seq(Times)
  /\ \A j, k \in 1 .. Len(m) : j < k => m[j][2] < m[k][1]
  /\ \A k \in 1 .. i : \E j \in 1 .. Len(m) : m[j][1] <= s[k][1] /\ s[k][2] <= m[j][2]
  /\ \A j \in 1 .. Len(m) :
       /\ \E k \in 1 .. i : s[k][2] = m[j][2]
       /\ \E k \in 1 .. i : m[j][1] <= s[k][1]
       /\ \A h \in Nat : m[j][1] <= h /\ h < m[j][2] => BusyAt(s, i, h)

(* The greater of two numbers.                                             *)
LEMMA LargerOfTwo ==
  ASSUME NEW a \in Nat, NEW b \in Nat
  PROVE  /\ Larger(a, b) \in Nat /\ Larger(a, b) >= a /\ Larger(a, b) >= b
         /\ Larger(a, b) = a \/ Larger(a, b) = b
BY DEF Larger

(* What Joined makes of times.                                             *)
LEMMA JoinedIs ==
  ASSUME NEW m \in Seq(Times), NEW t \in Times
  PROVE  LET n == Len(m) IN
         /\ Joined(m, t) \in Seq(Times)
         /\ n = 0 \/ t[1] > m[n][2] =>
              /\ Len(Joined(m, t)) = n + 1
              /\ \A j \in 1 .. n : Joined(m, t)[j] = m[j]
              /\ Joined(m, t)[n + 1] = t
         /\ n # 0 /\ ~(t[1] > m[n][2]) =>
              /\ Len(Joined(m, t)) = n
              /\ \A j \in 1 .. n - 1 : Joined(m, t)[j] = m[j]
              /\ Joined(m, t)[n] = <<m[n][1], Larger(m[n][2], t[2])>>
<1> DEFINE n == Len(m)
<1>1. n \in Nat /\ (m = <<>> <=> n = 0) /\ \A j \in 1 .. n : m[j] \in Times
  BY LenProperties
<1>2. CASE n = 0 \/ t[1] > m[n][2]
  <2>1. Joined(m, t) = Append(m, t)
    BY <1>1, <1>2 DEF Joined, Last
  <2> QED
    BY <1>2, <2>1, AppendProperties
<1>3. CASE n # 0 /\ ~(t[1] > m[n][2])
  <2> DEFINE x == <<m[n][1], Larger(m[n][2], t[2])>>
  <2>1. Joined(m, t) = [m EXCEPT ![n] = x]
    BY <1>1, <1>3 DEF Joined, Last
  <2>2. n \in 1 .. n /\ m[n] \in Times
    BY <1>1, <1>3
  <2>3. x \in Times
    <3>1. /\ m[n][1] \in Nat /\ m[n][2] \in Nat /\ m[n][1] < m[n][2] /\ t[2] \in Nat
      BY <2>2, TimesAre
    <3>2. Larger(m[n][2], t[2]) \in Nat /\ Larger(m[n][2], t[2]) >= m[n][2]
      BY <3>1, LargerOfTwo
    <3> QED
      BY <3>1, <3>2 DEF Times
  <2> HIDE DEF x
  <2>4. /\ [m EXCEPT ![n] = x] \in Seq(Times)
        /\ Len([m EXCEPT ![n] = x]) = n
        /\ \A j \in 1 .. n : [m EXCEPT ![n] = x][j] = IF j = n THEN x ELSE m[j]
    BY <2>2, <2>3, ExceptSeq
  <2>5. \A j \in 1 .. n - 1 : j \in 1 .. n /\ j # n
    BY <1>1
  <2>6. x = <<m[n][1], Larger(m[n][2], t[2])>>
    BY DEF x
  <2> HIDE DEF n
  <2>7. /\ Joined(m, t) \in Seq(Times) /\ Len(Joined(m, t)) = n
        /\ \A j \in 1 .. n - 1 : Joined(m, t)[j] = m[j]
        /\ Joined(m, t)[n] = x
    BY <2>1, <2>2, <2>4, <2>5
  <2> QED
    BY <1>3, <2>6, <2>7 DEF n
<1> QED
  BY <1>2, <1>3

(* One more time is merged.                                                *)
LEMMA MergesOneMore ==
  ASSUME NEW n \in Nat, NEW s \in [1 .. n -> Times], NEW i \in 0 .. n - 1,
         \A j, k \in 1 .. n : j < k => Earlier(s[j], s[k]),
         NEW m, MergedUpTo(m, s, i)
  PROVE  MergedUpTo(Joined(m, s[i + 1]), s, i + 1)
<1> DEFINE t == s[i + 1]
           L == Len(m)
           r == Joined(m, t)
<1>1. i \in Nat /\ i + 1 \in 1 .. n /\ (1 .. i) \subseteq 1 .. i + 1 /\ (1 .. i) \subseteq 1 .. n
  OBVIOUS
<1>2. t \in Times /\ t[1] \in Nat /\ t[2] \in Nat /\ t[1] < t[2]
  BY <1>1 DEF Times
<1>3. m \in Seq(Times) /\ L \in Nat
  BY LenProperties DEF MergedUpTo
<1>4. \A j \in 1 .. L : m[j][1] \in Nat /\ m[j][2] \in Nat /\ m[j][1] < m[j][2]
  <2>1. \A j \in 1 .. L : m[j] \in Times
    BY <1>3
  <2> QED
    BY <2>1 DEF Times
<1>5. /\ \A j, k \in 1 .. L : j < k => m[j][2] < m[k][1]
      /\ \A k \in 1 .. i : \E j \in 1 .. L : m[j][1] <= s[k][1] /\ s[k][2] <= m[j][2]
      /\ \A j \in 1 .. L :
           /\ \E k \in 1 .. i : s[k][2] = m[j][2]
           /\ \E k \in 1 .. i : m[j][1] <= s[k][1]
           /\ \A h \in Nat : m[j][1] <= h /\ h < m[j][2] => BusyAt(s, i, h)
  BY DEF MergedUpTo
<1>6. \A k \in 1 .. i : s[k][1] \in Nat /\ s[k][2] \in Nat /\ s[k][1] <= t[1]
  <2> SUFFICES ASSUME NEW k \in 1 .. i
               PROVE  s[k][1] \in Nat /\ s[k][2] \in Nat /\ s[k][1] <= t[1]
    OBVIOUS
  <2>1. s[k] \in Times /\ Earlier(s[k], t)
    BY <1>1
  <2>2. s[k][1] \in Nat /\ s[k][2] \in Nat
    BY <2>1, TimesAre
  <2> HIDE DEF t
  <2> QED
    BY <1>2, <2>1, <2>2 DEF Earlier
<1>7. \A j \in 1 .. L : m[j][1] <= t[1]
  <2> SUFFICES ASSUME NEW j \in 1 .. L PROVE m[j][1] <= t[1]
    OBVIOUS
  <2>1. PICK k \in 1 .. i : m[j][1] <= s[k][1]
    BY <1>5
  <2> QED
    BY <1>2, <1>4, <1>6, <2>1
<1>8. \A h \in Nat : \/ BusyAt(s, i, h)
                     \/ t[1] <= h /\ h < t[2]
                     => BusyAt(s, i + 1, h)
  BY <1>1 DEF BusyAt
<1>9. r \in Seq(Times)
  BY <1>2, <1>3, JoinedIs
<1>10. CASE L = 0 \/ t[1] > m[L][2]
  <2>1. /\ Len(r) = L + 1
        /\ \A j \in 1 .. L : r[j] = m[j]
        /\ r[L + 1] = t
    BY <1>2, <1>3, <1>10, JoinedIs
  <2> HIDE DEF r, t, L
  <2>2. \A j \in 1 .. L : m[j][2] < t[1]
    <3> SUFFICES ASSUME NEW j \in 1 .. L PROVE m[j][2] < t[1]
      OBVIOUS
    <3>1. L # 0 /\ L \in 1 .. L /\ t[1] > m[L][2]
      BY <1>3, <1>10
    <3>2. CASE j = L
      BY <1>2, <1>4, <3>1, <3>2
    <3>3. CASE j # L
      <4>1. m[j][2] < m[L][1]
        BY <1>3, <1>5, <3>1, <3>3
      <4> QED
        BY <1>2, <1>4, <3>1, <4>1
    <3> QED
      BY <3>2, <3>3
  <2>3. ASSUME NEW j \in 1 .. Len(r), NEW k \in 1 .. Len(r), j < k PROVE r[j][2] < r[k][1]
    <3>1. j \in 1 .. L
      BY <1>3, <2>1, <2>3
    <3>2. CASE k = L + 1
      BY <2>1, <2>2, <3>1, <3>2
    <3>3. CASE k # L + 1
      <4>1. k \in 1 .. L
        BY <1>3, <2>1, <3>3
      <4>2. m[j][2] < m[k][1]
        BY <1>5, <2>3, <3>1, <4>1
      <4> QED
        BY <2>1, <3>1, <4>1, <4>2
    <3> QED
      BY <3>2, <3>3
  <2>4. ASSUME NEW k \in 1 .. i + 1
        PROVE  \E j \in 1 .. Len(r) : r[j][1] <= s[k][1] /\ s[k][2] <= r[j][2]
    <3>1. CASE k = i + 1
      <4>1. s[k] = t /\ L + 1 \in 1 .. Len(r)
        BY <1>3, <2>1, <3>1 DEF t
      <4> QED
        BY <1>2, <2>1, <4>1
    <3>2. CASE k # i + 1
      <4>1. k \in 1 .. i
        BY <1>1, <3>2
      <4>2. PICK j \in 1 .. L : m[j][1] <= s[k][1] /\ s[k][2] <= m[j][2]
        BY <1>5, <4>1
      <4>3. j \in 1 .. Len(r)
        BY <1>3, <2>1
      <4> QED
        BY <2>1, <4>2, <4>3
    <3> QED
      BY <3>1, <3>2
  <2>5. ASSUME NEW j \in 1 .. Len(r)
        PROVE  /\ \E k \in 1 .. i + 1 : s[k][2] = r[j][2]
               /\ \E k \in 1 .. i + 1 : r[j][1] <= s[k][1]
               /\ \A h \in Nat : r[j][1] <= h /\ h < r[j][2] => BusyAt(s, i + 1, h)
    <3>1. CASE j = L + 1
      <4>1. r[j] = s[i + 1] /\ i + 1 \in 1 .. i + 1
        BY <1>1, <2>1, <3>1 DEF t
      <4>2. t[1] <= t[1]
        BY <1>2
      <4> QED
        BY <1>8, <4>1, <4>2 DEF t
    <3>2. CASE j # L + 1
      <4>1. j \in 1 .. L /\ r[j] = m[j]
        BY <1>3, <2>1, <3>2
      <4> QED
        BY <1>1, <1>5, <1>8, <4>1
    <3> QED
      BY <3>1, <3>2
  <2> QED
    BY <1>9, <2>3, <2>4, <2>5 DEF MergedUpTo, r, t
<1>11. CASE L # 0 /\ ~(t[1] > m[L][2])
  <2> DEFINE e == Larger(m[L][2], t[2])
  <2>1. /\ Len(r) = L
        /\ \A j \in 1 .. L - 1 : r[j] = m[j]
        /\ r[L] = <<m[L][1], e>>
    BY <1>2, <1>3, <1>11, JoinedIs
  <2>2. L \in 1 .. L /\ t[1] <= m[L][2]
    <3>1. L \in 1 .. L
      BY <1>3, <1>11
    <3> QED
      BY <1>2, <1>4, <1>11, <3>1
  <2>3. e \in Nat /\ e >= m[L][2] /\ e >= t[2] /\ (e = m[L][2] \/ e = t[2])
    BY <1>2, <1>4, <2>2, LargerOfTwo
  <2> HIDE DEF r, t, L, e
  <2>4. \A j \in 1 .. L : r[j][1] = m[j][1] /\ (j # L => r[j] = m[j])
    <3> SUFFICES ASSUME NEW j \in 1 .. L PROVE r[j][1] = m[j][1] /\ (j # L => r[j] = m[j])
      OBVIOUS
    <3>1. j # L => j \in 1 .. L - 1
      BY <1>3
    <3> QED
      BY <2>1, <3>1
  <2>5. r[L][1] = m[L][1] /\ r[L][2] = e
    BY <2>1
  <2>6. ASSUME NEW j \in 1 .. Len(r), NEW k \in 1 .. Len(r), j < k PROVE r[j][2] < r[k][1]
    <3>1. j \in 1 .. L /\ k \in 1 .. L /\ j # L
      BY <1>3, <2>1, <2>6
    <3> QED
      BY <1>5, <2>4, <2>6, <3>1
  <2>7. ASSUME NEW k \in 1 .. i + 1
        PROVE  \E j \in 1 .. Len(r) : r[j][1] <= s[k][1] /\ s[k][2] <= r[j][2]
    <3>1. CASE k = i + 1
      <4>1. s[k] = t /\ L \in 1 .. Len(r)
        BY <2>1, <2>2, <3>1 DEF t
      <4>2. r[L][1] <= t[1] /\ t[2] <= r[L][2]
        BY <1>2, <1>7, <2>2, <2>3, <2>5
      <4> QED
        BY <4>1, <4>2
    <3>2. CASE k # i + 1
      <4>1. k \in 1 .. i
        BY <1>1, <3>2
      <4>2. PICK j \in 1 .. L : m[j][1] <= s[k][1] /\ s[k][2] <= m[j][2]
        BY <1>5, <4>1
      <4>3. r[j][1] = m[j][1] /\ m[j][2] <= r[j][2]
        <5>1. CASE j = L
          BY <1>4, <2>3, <2>5, <5>1
        <5>2. CASE j # L
          BY <1>4, <2>4, <5>2
        <5> QED
          BY <5>1, <5>2
      <4>4. r[j][2] \in Nat
        <5>1. CASE j = L
          BY <2>3, <2>5, <5>1
        <5>2. CASE j # L
          BY <1>4, <2>4, <5>2
        <5> QED
          BY <5>1, <5>2
      <4>5. r[j][1] <= s[k][1] /\ s[k][2] <= r[j][2]
        BY <1>4, <1>6, <4>1, <4>2, <4>3, <4>4
      <4> QED
        BY <2>1, <4>5
    <3> QED
      BY <3>1, <3>2
  <2>8. ASSUME NEW j \in 1 .. Len(r)
        PROVE  /\ \E k \in 1 .. i + 1 : s[k][2] = r[j][2]
               /\ \E k \in 1 .. i + 1 : r[j][1] <= s[k][1]
               /\ \A h \in Nat : r[j][1] <= h /\ h < r[j][2] => BusyAt(s, i + 1, h)
    <3>1. j \in 1 .. L
      BY <2>1
    <3>2. \E k \in 1 .. i + 1 : r[j][1] <= s[k][1]
      BY <1>1, <1>5, <2>4, <3>1
    <3>3. CASE j # L
      <4>1. r[j] = m[j]
        BY <2>4, <3>1, <3>3
      <4> QED
        BY <1>1, <1>5, <1>8, <3>1, <3>2, <4>1
    <3>4. CASE j = L
      <4>1. \E k \in 1 .. i + 1 : s[k][2] = r[j][2]
        <5>1. CASE e = m[L][2]
          BY <1>1, <1>5, <2>2, <2>5, <3>4, <5>1
        <5>2. CASE e = t[2]
          <6>1. i + 1 \in 1 .. i + 1
            BY <1>1
          <6> QED
            BY <2>5, <3>4, <5>2, <6>1 DEF t
        <5> QED
          BY <2>3, <5>1, <5>2
      <4>2. ASSUME NEW h \in Nat, r[j][1] <= h, h < r[j][2] PROVE BusyAt(s, i + 1, h)
        <5>1. CASE h < m[L][2]
          BY <1>5, <1>8, <2>2, <2>5, <3>4, <4>2, <5>1
        <5>2. CASE ~(h < m[L][2])
          <6>1. h < e /\ h >= m[L][2]
            BY <1>4, <2>2, <2>5, <3>4, <4>2, <5>2
          <6>2. t[1] <= h /\ h < t[2]
            BY <1>2, <1>4, <2>2, <2>3, <6>1
          <6> QED
            BY <1>8, <6>2
        <5> QED
          BY <5>1, <5>2
      <4> QED
        BY <3>2, <4>1, <4>2
    <3> QED
      BY <3>3, <3>4
  <2> QED
    BY <1>9, <2>6, <2>7, <2>8 DEF MergedUpTo, r, t
<1> QED
  BY <1>10, <1>11

(* What the busy times are merged to.                                      *)
Covers(m, busy) ==
  /\ m \in Seq(Times)
  /\ \A j, k \in 1 .. Len(m) : j < k => m[j][2] < m[k][1]
  /\ \A b \in busy : \E j \in 1 .. Len(m) : m[j][1] <= b[1] /\ b[2] <= m[j][2]
  /\ \A j \in 1 .. Len(m) :
       /\ \E b \in busy : b[2] = m[j][2]
       /\ \A h \in Nat : m[j][1] <= h /\ h < m[j][2] => \E b \in busy : b[1] <= h /\ h < b[2]

(* The merged times lie apart and cover what the busy times cover.         *)
LEMMA MergedCovers ==
  ASSUME NEW busy, IsFiniteSet(busy), busy \subseteq Times
  PROVE  Covers(Merged(busy), busy)
<1> DEFINE s == Sorted(busy)
           n == Cardinality(busy)
           IsMerge(f) == f = [i \in 0 .. n |-> IF i = 0 THEN <<>> ELSE Joined(f[i - 1], s[i])]
           m == CHOOSE f : IsMerge(f)
<1>1. n \in Nat
  BY FS_CardinalityType
<1>2. /\ s \in [1 .. n -> busy] /\ \A t \in busy : \E i \in 1 .. n : s[i] = t
      /\ \A i, j \in 1 .. n : i < j => Earlier(s[i], s[j])
  BY SortedIsInOrder DEF InOrderOf
<1> HIDE DEF s, n
<1>3. s \in Seq(busy) /\ Len(s) = n
  BY <1>1, <1>2
<1>4. Merged(busy) = m[n]
  BY <1>3 DEF Merged, s
<1>5. s \in [1 .. n -> Times]
  BY <1>2
<1>6. IsMerge(m)
  <2> DEFINE step == [x \in (1 .. n) \X Seq(Times) |-> Joined(x[2], s[x[1]])]
  <2>1. step \in [(1 .. n) \X Seq(Times) -> Seq(Times)]
    <3>1. ASSUME NEW x \in (1 .. n) \X Seq(Times) PROVE Joined(x[2], s[x[1]]) \in Seq(Times)
      BY <1>5, JoinedIs
    <3> QED
      BY <3>1
  <2>2. \A i \in 1 .. n : \A q \in Seq(Times) : step[<<i, q>>] = Joined(q, s[i])
    OBVIOUS
  <2>3. <<>> \in Seq(Times)
    OBVIOUS
  <2> HIDE DEF step, m
  <2>4. PICK f \in [0 .. n -> Seq(Times)] :
          f = [i \in 0 .. n |-> IF i = 0 THEN <<>> ELSE step[<<i, f[i - 1]>>]]
    <3>1. \E f \in [0 .. n -> Seq(Times)] : Steps(f, n, <<>>, step)
      BY <1>1, <2>1, <2>3, StepByStep
    <3> QED
      BY <3>1 DEF Steps
  <2>5. ASSUME NEW i \in 0 .. n, i # 0 PROVE step[<<i, f[i - 1]>>] = Joined(f[i - 1], s[i])
    <3>1. i \in 1 .. n /\ i - 1 \in 0 .. n
      BY <1>1, <2>5
    <3> QED
      BY <2>2, <3>1
  <2>6. [i \in 0 .. n |-> IF i = 0 THEN <<>> ELSE step[<<i, f[i - 1]>>]]
          = [i \in 0 .. n |-> IF i = 0 THEN <<>> ELSE Joined(f[i - 1], s[i])]
    BY <2>5
  <2>7. IsMerge(f)
    BY <2>4, <2>6
  <2> QED
    BY <2>7 DEF m
<1> HIDE DEF m
<1>7. m[0] = <<>> /\ \A i \in 1 .. n : m[i] = Joined(m[i - 1], s[i])
  <2>1. 0 \in 0 .. n /\ \A i \in 1 .. n : i \in 0 .. n /\ i # 0
    BY <1>1
  <2> QED
    BY <1>6, <2>1
<1>8. MergedUpTo(m[0], s, 0)
  <2>1. Len(<<>>) = 0 /\ 1 .. 0 = {} /\ <<>> \in Seq(Times)
    OBVIOUS
  <2> QED
    BY <1>7, <2>1 DEF MergedUpTo
<1> DEFINE Good == {i \in 0 .. n : MergedUpTo(m[i], s, i)}
<1>9. PICK k \in Good : \A j \in Good : k >= j
  <2>1. Good \in SUBSET (0 .. n) /\ Good # {} /\ 0 \in Nat
    BY <1>1, <1>8
  <2> HIDE DEF Good
  <2> QED
    BY <1>1, <2>1, HasGreatest
<1>10. k = n
  <2>1. SUFFICES ASSUME k # n PROVE FALSE
    OBVIOUS
  <2>2. k \in 0 .. n - 1 /\ k + 1 \in 1 .. n /\ k + 1 \in 0 .. n /\ (k + 1) - 1 = k
    BY <1>1, <2>1
  <2>3. MergedUpTo(Joined(m[k], s[k + 1]), s, k + 1)
    BY <1>1, <1>2, <1>5, <2>2, MergesOneMore
  <2>4. m[k + 1] = Joined(m[k], s[k + 1])
    BY <1>7, <2>2
  <2>5. k + 1 \in Good /\ ~(k >= k + 1)
    BY <2>2, <2>3, <2>4
  <2> QED
    BY <1>9, <2>5
<1>11. MergedUpTo(m[n], s, n)
  BY <1>10
<1>12. \A k1 \in 1 .. n : s[k1] \in busy
  BY <1>2
<1> DEFINE r == m[n]
<1>13. MergedUpTo(r, s, n)
  BY <1>11
<1> HIDE DEF r
<1>14. ASSUME NEW b \in busy PROVE \E j \in 1 .. Len(r) : r[j][1] <= b[1] /\ b[2] <= r[j][2]
  <2>1. PICK i \in 1 .. n : s[i] = b
    BY <1>2
  <2> QED
    BY <1>13, <2>1 DEF MergedUpTo
<1>15. ASSUME NEW j \in 1 .. Len(r)
       PROVE  /\ \E b \in busy : b[2] = r[j][2]
              /\ \A h \in Nat : r[j][1] <= h /\ h < r[j][2]
                              => \E b \in busy : b[1] <= h /\ h < b[2]
  <2>1. \E b \in busy : b[2] = r[j][2]
    BY <1>12, <1>13 DEF MergedUpTo
  <2>2. ASSUME NEW h \in Nat, r[j][1] <= h, h < r[j][2]
        PROVE  \E b \in busy : b[1] <= h /\ h < b[2]
    <3>1. BusyAt(s, n, h)
      BY <1>13, <2>2 DEF MergedUpTo
    <3> QED
      BY <1>12, <3>1 DEF BusyAt
  <2> QED
    BY <2>1, <2>2
<1>16. Covers(r, busy)
  BY <1>13, <1>14, <1>15 DEF MergedUpTo, Covers
<1> QED
  BY <1>4, <1>16 DEF r

(* f is the list of the numbers in S, in order.                            *)
Lists(f, S) ==
  /\ f \in Seq(Nat)
  /\ \A i \in 1 .. Len(f) : f[i] \in S
  /\ \A x \in S : \E i \in 1 .. Len(f) : f[i] = x
  /\ \A i, j \in 1 .. Len(f) : i < j => f[i] < f[j]

(* The empty list.                                                         *)
LEMMA ListsNothing == Lists(<<>>, {})
<1>1. <<>> \in Seq(Nat) /\ Len(<<>>) = 0 /\ 1 .. 0 = {}
  OBVIOUS
<1> QED
  BY <1>1 DEF Lists

(* A list and what comes after.                                            *)
LEMMA ListsBoth ==
  ASSUME NEW S, NEW T, NEW f, NEW g, Lists(f, S), Lists(g, T),
         \A x \in S, y \in T : x < y
  PROVE  Lists(f \o g, S \cup T)
<1> DEFINE n == Len(f)
           k == Len(g)
           r == f \o g
<1>1. n \in Nat /\ k \in Nat /\ f \in Seq(Nat) /\ g \in Seq(Nat)
  BY LenProperties DEF Lists
<1>2. /\ r \in Seq(Nat) /\ Len(r) = n + k
      /\ \A i \in 1 .. n + k : r[i] = IF i <= n THEN f[i] ELSE g[i - n]
  BY <1>1, ConcatProperties
<1> HIDE DEF r
<1>3. \A i \in 1 .. n : r[i] = f[i] /\ i \in 1 .. n + k /\ f[i] \in S
  BY <1>1, <1>2 DEF Lists
<1>4. \A i \in 1 .. k : r[i + n] = g[i] /\ i + n \in 1 .. n + k /\ g[i] \in T
  <2> SUFFICES ASSUME NEW i \in 1 .. k
               PROVE  r[i + n] = g[i] /\ i + n \in 1 .. n + k /\ g[i] \in T
    OBVIOUS
  <2>1. i + n \in 1 .. n + k /\ ~(i + n <= n) /\ (i + n) - n = i
    BY <1>1
  <2> QED
    BY <1>2, <2>1 DEF Lists
<1>5. \A i \in 1 .. n + k : i \in 1 .. n \/ (i - n \in 1 .. k /\ (i - n) + n = i)
  BY <1>1
<1>6. \A i \in 1 .. n + k : r[i] \in S \cup T
  BY <1>3, <1>4, <1>5
<1>7. \A x \in S \cup T : \E i \in 1 .. n + k : r[i] = x
  <2>1. ASSUME NEW x \in S PROVE \E i \in 1 .. n + k : r[i] = x
    <3>1. PICK i \in 1 .. n : f[i] = x
      BY DEF Lists
    <3> QED
      BY <1>3, <3>1
  <2>2. ASSUME NEW x \in T PROVE \E i \in 1 .. n + k : r[i] = x
    <3>1. PICK i \in 1 .. k : g[i] = x
      BY DEF Lists
    <3> QED
      BY <1>4, <3>1
  <2> QED
    BY <2>1, <2>2
<1>8. ASSUME NEW i \in 1 .. n + k, NEW j \in 1 .. n + k, i < j PROVE r[i] < r[j]
  <2>1. CASE i \in 1 .. n /\ j \in 1 .. n
    BY <1>3, <1>8, <2>1 DEF Lists
  <2>2. CASE i \in 1 .. n /\ ~(j \in 1 .. n)
    <3>1. r[i] \in S
      BY <1>3, <2>2
    <3>2. j - n \in 1 .. k /\ (j - n) + n = j
      BY <1>5, <2>2
    <3>3. r[j] \in T
      BY <1>4, <3>2
    <3> QED
      BY <3>1, <3>3
  <2>3. CASE ~(i \in 1 .. n)
    <3>1. ~(j \in 1 .. n)
      BY <1>1, <1>8, <2>3
    <3>2. /\ i - n \in 1 .. k /\ (i - n) + n = i
          /\ j - n \in 1 .. k /\ (j - n) + n = j
      BY <1>5, <2>3, <3>1
    <3>3. r[i] = g[i - n] /\ r[j] = g[j - n]
      BY <1>4, <3>2
    <3>4. i - n < j - n
      BY <1>1, <1>8
    <3> QED
      BY <3>2, <3>3, <3>4 DEF Lists
  <2> QED
    BY <2>1, <2>2, <2>3
<1> QED
  BY <1>2, <1>6, <1>7, <1>8 DEF Lists, r

(* A list and one more.                                                    *)
LEMMA ListsOneMore ==
  ASSUME NEW S, NEW f, Lists(f, S), NEW x \in Nat, \A y \in S : y < x
  PROVE  Lists(Append(f, x), S \cup {x})
<1>1. Lists(<<x>>, {x})
  BY DEF Lists
<1>2. f \in Seq(Nat) /\ Append(f, x) = f \o <<x>>
  BY AppendIsConcat DEF Lists
<1> QED
  BY <1>1, <1>2, ListsBoth

-----------------------------------------------------------------------------

(* Where a slot of the day may begin, beside merged times m.               *)
Room(m, left, right, duration) ==
  {x \in Nat : /\ x = left \/ \E k \in 1 .. Len(m) : x = m[k][2]
               /\ left <= x /\ x + duration <= right
               /\ \A k \in 1 .. Len(m) : m[k][2] <= x \/ m[k][1] >= x + duration}

(* After the first i merged times: what lies before the cursor has been    *)
(* found, and none of them reaches beyond it.                              *)
WalkedUpTo(w, m, i, left, right, duration) ==
  /\ w.cursor \in left .. right
  /\ \A k \in 1 .. i : m[k][2] <= w.cursor \/ m[k][1] >= right \/ w.cursor = right
  /\ w.cursor = left \/ w.cursor = right \/ \E k \in 1 .. i : w.cursor = m[k][2]
  /\ Lists(w.found, {x \in Room(m, left, right, duration) : x < w.cursor})

(* One more merged time is walked past.                                    *)
LEMMA WalksOneMore ==
  ASSUME NEW m \in Seq(Times), \A j, k \in 1 .. Len(m) : j < k => m[j][2] < m[k][1],
         NEW left \in Nat, NEW right \in Nat, left < right, NEW duration \in Nat \ {0},
         NEW i \in 0 .. Len(m) - 1, NEW w, WalkedUpTo(w, m, i, left, right, duration)
  PROVE  WalkedUpTo(Walked(w, m[i + 1], right, duration), m, i + 1, left, right, duration)
<1> DEFINE t == m[i + 1]
           c == w.cursor
           v == Walked(w, t, right, duration)
           R == Room(m, left, right, duration)
           L == Len(m)
<1>1. L \in Nat /\ i \in Nat /\ i + 1 \in 1 .. L
  BY LenProperties
<1>2. \A k \in 1 .. L : m[k][1] \in Nat /\ m[k][2] \in Nat /\ m[k][1] < m[k][2]
  <2>1. \A k \in 1 .. L : m[k] \in Times
    BY LenProperties
  <2> QED
    BY <2>1, TimesAre
<1>3. t[1] \in Nat /\ t[2] \in Nat /\ t[1] < t[2]
  BY <1>1, <1>2
<1>4. /\ c \in Nat /\ left <= c /\ c <= right
      /\ \A k \in 1 .. i : m[k][2] <= c \/ m[k][1] >= right \/ c = right
      /\ c = left \/ c = right \/ \E k \in 1 .. i : c = m[k][2]
      /\ Lists(w.found, {x \in R : x < c})
  BY DEF WalkedUpTo
<1>5. \A k \in 1 .. i + 1 : k \in 1 .. L /\ (k \in 1 .. i \/ k = i + 1)
  BY <1>1
<1>6. \A k \in 1 .. L : k \in 1 .. i \/ k = i + 1 \/ t[2] < m[k][1]
  BY <1>1
<1>7. \A x \in R : /\ x \in Nat /\ left <= x /\ x + duration <= right
                   /\ x = left \/ \E k \in 1 .. L : x = m[k][2]
                   /\ t[2] <= x \/ t[1] >= x + duration
  BY <1>1 DEF Room
<1> HIDE DEF t, R, c, L
<1>8. CASE t[2] <= c \/ t[1] >= right
  <2>1. v = w
    BY <1>8 DEF Walked, c
  <2>2. \A k \in 1 .. i + 1 : m[k][2] <= c \/ m[k][1] >= right \/ c = right
    BY <1>4, <1>5, <1>8 DEF t
  <2>3. c = left \/ c = right \/ \E k \in 1 .. i + 1 : c = m[k][2]
    <3>1. \A k \in 1 .. i : k \in 1 .. i + 1
      BY <1>1
    <3> QED
      BY <1>4, <3>1
  <2> QED
    BY <1>4, <2>1, <2>2, <2>3 DEF WalkedUpTo, c, R, t
<1>9. CASE ~(t[2] <= c) /\ ~(t[1] >= right)
  <2> DEFINE d == Past(c, t, right)
             found == IF t[1] - c >= duration THEN Append(w.found, c) ELSE w.found
  <2>1. v = [found |-> found, cursor |-> d]
    BY <1>9 DEF Walked, c
  <2>2. v.found = found /\ v.cursor = d
    BY <2>1
  <2>3. /\ d \in Nat /\ c <= d /\ d <= right /\ d <= t[2] /\ (d = right \/ d = t[2])
        /\ c < right => c < d
    BY <1>3, <1>4, <1>9 DEF Past, Larger
  <2> HIDE DEF d
  <2>4. \A k \in 1 .. i + 1 : m[k][2] <= d \/ m[k][1] >= right \/ d = right
    <3> SUFFICES ASSUME NEW k \in 1 .. i + 1, d # right PROVE m[k][2] <= d \/ m[k][1] >= right
      OBVIOUS
    <3>1. c # right
      BY <1>4, <2>3
    <3>2. CASE k = i + 1
      BY <1>3, <2>3, <3>2 DEF t
    <3>3. CASE k \in 1 .. i
      <4>1. m[k][2] \in Nat
        BY <1>2, <1>5 DEF L
      <4> QED
        BY <1>4, <2>3, <3>1, <3>3, <4>1
    <3> QED
      BY <1>5, <3>2, <3>3
  <2>5. d = left \/ d = right \/ \E k \in 1 .. i + 1 : d = m[k][2]
    <3>1. i + 1 \in 1 .. i + 1
      BY <1>1
    <3> QED
      BY <2>3, <3>1 DEF t
  <2>6. ASSUME NEW x \in R, c <= x, x < d PROVE x = c /\ t[1] - c >= duration
    <3>1. x \in Nat /\ left <= x /\ (t[2] <= x \/ t[1] >= x + duration) /\ x < right
      BY <1>7
    <3>2. t[1] >= x + duration
      BY <1>3, <2>3, <2>6, <3>1
    <3>3. x = c
      <4>1. CASE x = left
        BY <1>4, <2>6, <3>1, <4>1
      <4>2. ASSUME NEW k \in 1 .. L, x = m[k][2] PROVE x = c
        <5>1. m[k][1] \in Nat /\ m[k][2] \in Nat /\ m[k][1] < m[k][2]
          BY <1>2 DEF L
        <5>2. CASE k \in 1 .. i
          <6>1. c # right
            BY <1>4, <2>3, <2>6, <3>1
          <6>2. m[k][2] <= c \/ m[k][1] >= right
            BY <1>4, <5>2, <6>1
          <6> QED
            BY <1>4, <2>6, <3>1, <4>2, <5>1, <6>2
        <5>3. CASE k = i + 1
          BY <1>3, <2>3, <2>6, <3>1, <4>2, <5>3 DEF t
        <5>4. CASE t[2] < m[k][1]
          BY <1>3, <2>3, <2>6, <3>1, <4>2, <5>1, <5>4
        <5> QED
          BY <1>6, <5>2, <5>3, <5>4
      <4> QED
        BY <1>7, <4>1, <4>2
    <3> QED
      BY <1>3, <1>4, <3>1, <3>2, <3>3
  <2>7. CASE t[1] - c >= duration
    <3>1. c < right /\ c < d /\ c + duration <= t[1] /\ c + duration <= right
      BY <1>3, <1>4, <1>9, <2>3, <2>7
    <3>2. c = left \/ \E k \in 1 .. L : c = m[k][2]
      <4>1. c # right /\ \A k \in 1 .. i : k \in 1 .. L
        BY <1>1, <1>4, <3>1
      <4> QED
        BY <1>4, <4>1
    <3>3. ASSUME NEW k \in 1 .. L PROVE m[k][2] <= c \/ m[k][1] >= c + duration
      <4>1. m[k][1] \in Nat /\ m[k][2] \in Nat
        BY <1>2 DEF L
      <4>2. CASE k \in 1 .. i
        BY <1>4, <3>1, <4>1, <4>2
      <4>3. CASE k = i + 1
        BY <3>1, <4>3 DEF t
      <4>4. CASE t[2] < m[k][1]
        BY <1>3, <1>4, <3>1, <4>1, <4>4
      <4> QED
        BY <1>6, <4>2, <4>3, <4>4
    <3>4. c \in R
      BY <1>4, <3>1, <3>2, <3>3 DEF R, Room, L
    <3>5. {x \in R : x < d} = {x \in R : x < c} \cup {c}
      <4>1. \A x \in R : x < d => x < c \/ x = c
        BY <1>4, <1>7, <2>6
      <4>2. \A x \in R : x < c => x < d
        BY <1>4, <1>7, <2>3
      <4> QED
        BY <3>1, <3>4, <4>1, <4>2
    <3>6. Lists(Append(w.found, c), {x \in R : x < c} \cup {c})
      <4>1. \A x \in {x \in R : x < c} : x < c
        OBVIOUS
      <4> QED
        BY <1>4, <4>1, ListsOneMore
    <3>7. Lists(v.found, {x \in R : x < d})
      BY <2>2, <2>7, <3>5, <3>6
    <3> QED
      BY <1>4, <2>2, <2>3, <2>4, <2>5, <3>7 DEF WalkedUpTo, R, t
  <2>8. CASE ~(t[1] - c >= duration)
    <3>1. {x \in R : x < d} = {x \in R : x < c}
      <4>1. \A x \in R : x < d => x < c
        BY <1>4, <1>7, <2>6, <2>8
      <4>2. \A x \in R : x < c => x < d
        BY <1>4, <1>7, <2>3
      <4> QED
        BY <4>1, <4>2
    <3>2. Lists(v.found, {x \in R : x < d})
      BY <1>4, <2>2, <2>8, <3>1
    <3> QED
      BY <1>4, <2>2, <2>3, <2>4, <2>5, <3>2 DEF WalkedUpTo, R, t
  <2> QED
    BY <2>7, <2>8
<1> QED
  BY <1>8, <1>9

(* The slots of a day are those there is room for.                         *)
LEMMA DayIsListed ==
  ASSUME NEW m \in Seq(Times), \A j, k \in 1 .. Len(m) : j < k => m[j][2] < m[k][1],
         NEW left \in Nat, NEW right \in Nat, NEW duration \in Nat \ {0}
  PROVE  Lists(DaySlots(m, left, right, duration), Room(m, left, right, duration))
<1> DEFINE n == Len(m)
           none == [found |-> <<>>, cursor |-> left]
           IsWalk(f) == f = [i \in 0 .. n |-> IF i = 0 THEN none
                                              ELSE Walked(f[i - 1], m[i], right, duration)]
           w == CHOOSE f : IsWalk(f)
           R == Room(m, left, right, duration)
<1>1. n \in Nat /\ \A i \in 1 .. n : m[i] \in Times
  BY LenProperties
<1>2. DaySlots(m, left, right, duration) =
        IF right <= left THEN <<>>
        ELSE IF right - w[n].cursor >= duration THEN Append(w[n].found, w[n].cursor)
        ELSE w[n].found
  BY DEF DaySlots
<1>3. CASE right <= left
  <2>1. R = {}
    BY <1>3 DEF Room
  <2> QED
    BY <1>2, <1>3, <2>1, ListsNothing
<1>4. CASE ~(right <= left)
  <2>1. left < right
    BY <1>4
  <2> HIDE DEF n, none
  <2>2. IsWalk(w)
    <3> DEFINE W == [found : Seq(Nat), cursor : Nat]
               step == [x \in (1 .. n) \X W |-> Walked(x[2], m[x[1]], right, duration)]
    <3>1. ASSUME NEW v \in W, NEW t \in Times PROVE Walked(v, t, right, duration) \in W
      <4>1. v.found \in Seq(Nat) /\ v.cursor \in Nat /\ t[2] \in Nat
        BY TimesAre
      <4>2. Past(v.cursor, t, right) \in Nat
        BY <4>1 DEF Past, Larger
      <4>3. Append(v.found, v.cursor) \in Seq(Nat)
        BY <4>1
      <4> QED
        BY <4>1, <4>2, <4>3 DEF Walked
    <3>2. step \in [(1 .. n) \X W -> W]
      <4>1. ASSUME NEW x \in (1 .. n) \X W PROVE Walked(x[2], m[x[1]], right, duration) \in W
        BY <1>1, <3>1
      <4> HIDE DEF W
      <4> QED
        BY <4>1
    <3>3. \A i \in 1 .. n : \A v \in W : step[<<i, v>>] = Walked(v, m[i], right, duration)
      <4> HIDE DEF W
      <4> QED
        OBVIOUS
    <3>4. none \in W
      BY DEF none
    <3> HIDE DEF step, W, w
    <3>5. PICK f \in [0 .. n -> W] : Steps(f, n, none, step)
      BY <1>1, <3>2, <3>4, StepByStep
    <3>6. ASSUME NEW i \in 0 .. n, i # 0
          PROVE  step[<<i, f[i - 1]>>] = Walked(f[i - 1], m[i], right, duration)
      <4>1. i \in 1 .. n /\ i - 1 \in 0 .. n
        BY <1>1, <3>6
      <4> QED
        BY <3>3, <4>1
    <3>7. [i \in 0 .. n |-> IF i = 0 THEN none ELSE step[<<i, f[i - 1]>>]]
            = [i \in 0 .. n |-> IF i = 0 THEN none ELSE Walked(f[i - 1], m[i], right, duration)]
      BY <3>6
    <3>8. IsWalk(f)
      BY <3>5, <3>7 DEF Steps
    <3> QED
      BY <3>8 DEF w
  <2> HIDE DEF w
  <2>3. w[0] = none /\ \A i \in 1 .. n : w[i] = Walked(w[i - 1], m[i], right, duration)
    <3>1. 0 \in 0 .. n /\ \A i \in 1 .. n : i \in 0 .. n /\ i # 0
      BY <1>1
    <3> QED
      BY <2>2, <3>1
  <2> HIDE DEF IsWalk
  <2>4. WalkedUpTo(none, m, 0, left, right, duration)
    <3>1. none.found = <<>> /\ none.cursor = left /\ left \in left .. right
      BY <2>1 DEF none
    <3>2. {x \in R : x < left} = {}
      BY DEF Room
    <3>3. 1 .. 0 = {}
      OBVIOUS
    <3> HIDE DEF R
    <3> QED
      BY <3>1, <3>2, <3>3, ListsNothing DEF WalkedUpTo, R
  <2> DEFINE Good == {i \in 0 .. n : WalkedUpTo(w[i], m, i, left, right, duration)}
  <2>5. PICK k \in Good : \A j \in Good : k >= j
    <3>1. Good \in SUBSET (0 .. n) /\ Good # {} /\ 0 \in Nat
      BY <1>1, <2>3, <2>4
    <3> HIDE DEF Good
    <3> QED
      BY <1>1, <3>1, HasGreatest
  <2>6. k = n
    <3>1. SUFFICES ASSUME k # n PROVE FALSE
      OBVIOUS
    <3>2. k \in 0 .. n - 1 /\ k + 1 \in 1 .. n /\ k + 1 \in 0 .. n /\ (k + 1) - 1 = k
      BY <1>1, <3>1
    <3>3. WalkedUpTo(w[k], m, k, left, right, duration)
      OBVIOUS
    <3>4. WalkedUpTo(Walked(w[k], m[k + 1], right, duration), m, k + 1, left, right, duration)
      BY <2>1, <3>2, <3>3, WalksOneMore DEF n
    <3>5. w[k + 1] = Walked(w[k], m[k + 1], right, duration)
      BY <2>3, <3>2
    <3>6. k + 1 \in Good /\ ~(k >= k + 1)
      BY <3>2, <3>4, <3>5
    <3> QED
      BY <2>5, <3>6
  <2>7. WalkedUpTo(w[n], m, n, left, right, duration)
    BY <2>6
  <2> DEFINE c == w[n].cursor
             found == w[n].found
  <2>8. /\ c \in Nat /\ left <= c /\ c <= right
        /\ \A i \in 1 .. n : m[i][2] <= c \/ m[i][1] >= right \/ c = right
        /\ c = left \/ c = right \/ \E i \in 1 .. n : c = m[i][2]
        /\ Lists(found, {x \in R : x < c})
    BY <2>7 DEF WalkedUpTo
  <2>9. DaySlots(m, left, right, duration) =
          IF right - c >= duration THEN Append(found, c) ELSE found
    BY <1>2, <1>4
  <2>10. \A i \in 1 .. n : m[i][1] \in Nat /\ m[i][2] \in Nat /\ m[i][1] < m[i][2]
    BY <1>1, TimesAre
  <2>11. \A x \in R : /\ x \in Nat /\ left <= x /\ x + duration <= right
                      /\ x = left \/ \E i \in 1 .. n : x = m[i][2]
    BY DEF Room, n
  <2> HIDE DEF c, found, R
  <2>12. ASSUME NEW x \in R, ~(x < c) PROVE x = c /\ right - c >= duration
    <3>1. x \in Nat /\ left <= x /\ x + duration <= right /\ c # right /\ x >= c
      BY <2>8, <2>11, <2>12
    <3>2. CASE x = left
      BY <2>8, <3>1, <3>2
    <3>3. ASSUME NEW i \in 1 .. n, x = m[i][2] PROVE x = c
      <4>1. m[i][1] \in Nat /\ m[i][2] \in Nat /\ m[i][1] < m[i][2]
        BY <2>10
      <4>2. m[i][2] <= c \/ m[i][1] >= right
        BY <2>8, <3>1
      <4> QED
        BY <2>8, <3>1, <3>3, <4>1, <4>2
    <3>4. x = c
      BY <2>11, <3>2, <3>3
    <3> QED
      BY <2>8, <3>1, <3>4
  <2>13. CASE right - c >= duration
    <3>1. c # right /\ c + duration <= right
      BY <2>8, <2>13
    <3>2. \A i \in 1 .. n : m[i][2] <= c \/ m[i][1] >= c + duration
      <4> SUFFICES ASSUME NEW i \in 1 .. n PROVE m[i][2] <= c \/ m[i][1] >= c + duration
        OBVIOUS
      <4>1. m[i][1] \in Nat /\ m[i][2] \in Nat
        BY <2>10
      <4>2. m[i][2] <= c \/ m[i][1] >= right
        BY <2>8, <3>1
      <4> QED
        BY <2>8, <3>1, <4>1, <4>2
    <3>3. c \in R
      BY <2>8, <3>1, <3>2 DEF R, Room, n
    <3>4. R = {x \in R : x < c} \cup {c}
      BY <2>12, <3>3
    <3>5. Lists(Append(found, c), {x \in R : x < c} \cup {c})
      <4>1. \A x \in {x \in R : x < c} : x < c
        OBVIOUS
      <4> QED
        BY <2>8, <4>1, ListsOneMore
    <3> QED
      BY <2>9, <2>13, <3>4, <3>5 DEF R
  <2>14. CASE ~(right - c >= duration)
    <3>1. R = {x \in R : x < c}
      BY <2>12, <2>14
    <3> QED
      BY <2>8, <2>9, <2>14, <3>1 DEF R
  <2> QED
    BY <2>13, <2>14
<1> QED
  BY <1>3, <1>4

-----------------------------------------------------------------------------

(* Where a slot of the day may begin, beside the busy times.               *)
FreeOn(busy, left, right, duration) ==
  {x \in Nat : /\ x = left \/ \E b \in busy : x = b[2]
               /\ left <= x /\ x + duration <= right
               /\ \A b \in busy : b[2] <= x \/ b[1] >= x + duration}

(* The merged times leave the room the busy times leave.                   *)
LEMMA MergedLeavesRoom ==
  ASSUME NEW busy \in SUBSET Times, NEW m, Covers(m, busy),
         NEW left \in Nat, NEW right \in Nat, NEW duration \in Nat \ {0}
  PROVE  Room(m, left, right, duration) = FreeOn(busy, left, right, duration)
<1> DEFINE n == Len(m)
<1>1. \A b \in busy : b[1] \in Nat /\ b[2] \in Nat /\ b[1] < b[2]
  BY TimesAre
<1>2. \A j \in 1 .. n : m[j][1] \in Nat /\ m[j][2] \in Nat /\ m[j][1] < m[j][2]
  <2>1. m \in Seq(Times)
    BY DEF Covers
  <2>2. \A j \in 1 .. n : m[j] \in Times
    BY <2>1, LenProperties
  <2> QED
    BY <2>2, TimesAre
<1>3. /\ \A b \in busy : \E j \in 1 .. n : m[j][1] <= b[1] /\ b[2] <= m[j][2]
      /\ \A j \in 1 .. n : \E b \in busy : b[2] = m[j][2]
      /\ \A j \in 1 .. n : \A h \in Nat :
           m[j][1] <= h /\ h < m[j][2] => \E b \in busy : b[1] <= h /\ h < b[2]
  BY DEF Covers
<1> HIDE DEF n
<1>4. ASSUME NEW x \in Nat, \A j \in 1 .. n : m[j][2] <= x \/ m[j][1] >= x + duration,
             NEW b \in busy
      PROVE  b[2] <= x \/ b[1] >= x + duration
  <2>1. PICK j \in 1 .. n : m[j][1] <= b[1] /\ b[2] <= m[j][2]
    BY <1>3
  <2>2. m[j][2] <= x \/ m[j][1] >= x + duration
    BY <1>4
  <2> QED
    BY <1>1, <1>2, <2>1, <2>2
<1>5. ASSUME NEW x \in Nat, \A b \in busy : b[2] <= x \/ b[1] >= x + duration,
             NEW j \in 1 .. n
      PROVE  m[j][2] <= x \/ m[j][1] >= x + duration
  <2> SUFFICES ASSUME m[j][2] > x, m[j][1] < x + duration PROVE FALSE
    BY <1>2
  <2> DEFINE h == Larger(m[j][1], x)
  <2>1. h \in Nat /\ m[j][1] <= h /\ x <= h /\ h < m[j][2] /\ h < x + duration
    <3>1. m[j][1] \in Nat /\ m[j][2] \in Nat /\ m[j][1] < m[j][2]
      BY <1>2
    <3>2. h \in Nat /\ h >= m[j][1] /\ h >= x /\ (h = m[j][1] \/ h = x)
      BY <3>1, LargerOfTwo
    <3> HIDE DEF h
    <3> QED
      BY <3>1, <3>2
  <2> HIDE DEF h
  <2>2. PICK b \in busy : b[1] <= h /\ h < b[2]
    BY <1>3, <2>1
  <2>3. b[2] <= x \/ b[1] >= x + duration
    BY <1>5
  <2> QED
    BY <1>1, <2>1, <2>2, <2>3
<1>6. ASSUME NEW x \in Room(m, left, right, duration)
      PROVE  x \in FreeOn(busy, left, right, duration)
  <2>1. /\ x \in Nat /\ (x = left \/ \E j \in 1 .. n : x = m[j][2])
        /\ left <= x /\ x + duration <= right
        /\ \A j \in 1 .. n : m[j][2] <= x \/ m[j][1] >= x + duration
    BY DEF Room, n
  <2>2. x = left \/ \E b \in busy : x = b[2]
    BY <1>3, <2>1
  <2>3. \A b \in busy : b[2] <= x \/ b[1] >= x + duration
    BY <1>4, <2>1
  <2> QED
    BY <2>1, <2>2, <2>3 DEF FreeOn
<1>7. ASSUME NEW x \in FreeOn(busy, left, right, duration)
      PROVE  x \in Room(m, left, right, duration)
  <2>1. /\ x \in Nat /\ (x = left \/ \E b \in busy : x = b[2])
        /\ left <= x /\ x + duration <= right
        /\ \A b \in busy : b[2] <= x \/ b[1] >= x + duration
    BY DEF FreeOn
  <2>2. \A j \in 1 .. n : m[j][2] <= x \/ m[j][1] >= x + duration
    BY <1>5, <2>1
  <2>3. ASSUME NEW b \in busy, x = b[2] PROVE \E j \in 1 .. n : x = m[j][2]
    <3>1. PICK j \in 1 .. n : m[j][1] <= b[1] /\ b[2] <= m[j][2]
      BY <1>3
    <3>2. m[j][2] <= x \/ m[j][1] >= x + duration
      BY <2>2
    <3>3. x = m[j][2]
      BY <1>1, <1>2, <2>1, <2>3, <3>1, <3>2
    <3> QED
      BY <3>3
  <2> QED
    BY <2>1, <2>2, <2>3 DEF Room, n
<1> QED
  BY <1>6, <1>7

(* A day ends before the next begins.                                      *)
LEMMA DaysFollow ==
  ASSUME NEW d \in Nat, NEW e \in Nat, e < d
  PROVE  e * DayHours + DayHours <= d * DayHours
<1>1. DayHours \in Nat
  BY CalendarAssumption DEF CalendarAssumption
<1>2. PICK k \in Nat : d = e + 1 + k
  <2>1. d - e - 1 \in Nat /\ d = e + 1 + (d - e - 1)
    OBVIOUS
  <2> QED
    BY <2>1
<1>3. d * DayHours = e * DayHours + DayHours + k * DayHours
  BY <1>1, <1>2
<1>4. k * DayHours \in Nat /\ e * DayHours \in Nat
  BY <1>1
<1> QED
  BY <1>1, <1>3, <1>4

(* The working hours of a day, within what is asked for.                   *)
LEMMA WindowsAre ==
  ASSUME NEW q \in Queries, NEW d \in Nat
  PROVE  /\ q.from \in Nat /\ q.to \in Nat /\ q.duration \in Nat \ {0} /\ d * DayHours \in Nat
         /\ WindowStart(q, d) \in Nat /\ WindowEnd(q, d) \in Nat
         /\ WindowStart(q, d) >= q.from /\ WindowStart(q, d) >= d * DayHours + WorkStart
         /\ WindowStart(q, d) = q.from \/ WindowStart(q, d) = d * DayHours + WorkStart
         /\ WindowEnd(q, d) <= d * DayHours + DayHours /\ WindowEnd(q, d) <= q.to
         /\ q.ahead \in Int
<1>1. /\ DayHours \in Nat /\ WorkStart \in Nat /\ WorkEnd \in Nat /\ WorkEnd <= DayHours
      /\ Days \in Nat /\ q \in [from : Hours, to : Hours, duration : 1 .. DayHours, ahead : Int]
  BY CalendarAssumption DEF CalendarAssumption
<1>2. Hours \subseteq Nat /\ 1 .. DayHours \subseteq Nat \ {0}
  BY <1>1 DEF Hours
<1>3. q.from \in Nat /\ q.to \in Nat /\ q.duration \in Nat \ {0} /\ q.ahead \in Int
  BY <1>1, <1>2
<1> DEFINE x == d * DayHours
<1>4. x \in Nat
  BY <1>1
<1>5. WindowStart(q, d) = Larger(q.from, x + WorkStart)
  BY DEF WindowStart
<1>6. WindowEnd(q, d) = IF q.to < x + WorkEnd THEN q.to ELSE x + WorkEnd
  BY DEF WindowEnd
<1> HIDE DEF x
<1>7. x + WorkStart \in Nat
  BY <1>1, <1>4
<1>8. /\ WindowStart(q, d) \in Nat
      /\ WindowStart(q, d) >= q.from /\ WindowStart(q, d) >= x + WorkStart
      /\ WindowStart(q, d) = q.from \/ WindowStart(q, d) = x + WorkStart
  BY <1>3, <1>5, <1>7, LargerOfTwo
<1>9. WindowEnd(q, d) \in Nat /\ WindowEnd(q, d) <= x + DayHours /\ WindowEnd(q, d) <= q.to
  BY <1>1, <1>3, <1>4, <1>6
<1> QED
  BY <1>3, <1>4, <1>8, <1>9 DEF x

(* Where slots may begin on a day, if it is looked at.                     *)
FreeInDay(busy, q, d) ==
  {x \in FreeOn(busy, WindowStart(q, d), WindowEnd(q, d), q.duration) : Visited(q, d)}

(* Where slots may begin on the first k days.                              *)
FreeUpTo(busy, q, k) == {x \in Nat : \E d \in 0 .. k - 1 : x \in FreeInDay(busy, q, d)}

(* The slots of one day are listed.                                        *)
LEMMA OneDay ==
  ASSUME NEW busy \in SUBSET Times, IsFiniteSet(busy), NEW q \in Queries, NEW d \in Nat
  PROVE  Lists(SlotsOf(busy, q, d), FreeInDay(busy, q, d))
<1> DEFINE m == Merged(busy)
<1>1. Covers(m, busy)
  BY MergedCovers
<1> HIDE DEF m
<1>2. m \in Seq(Times) /\ \A j, k \in 1 .. Len(m) : j < k => m[j][2] < m[k][1]
  BY <1>1 DEF Covers
<1>3. /\ WindowStart(q, d) \in Nat /\ WindowEnd(q, d) \in Nat /\ q.duration \in Nat \ {0}
  BY WindowsAre
<1>4. Lists(DaySlots(m, WindowStart(q, d), WindowEnd(q, d), q.duration),
            Room(m, WindowStart(q, d), WindowEnd(q, d), q.duration))
  BY <1>2, <1>3, DayIsListed
<1>5. Room(m, WindowStart(q, d), WindowEnd(q, d), q.duration)
        = FreeOn(busy, WindowStart(q, d), WindowEnd(q, d), q.duration)
  BY <1>1, <1>3, MergedLeavesRoom
<1>6. CASE Visited(q, d)
  <2>1. FreeInDay(busy, q, d) = FreeOn(busy, WindowStart(q, d), WindowEnd(q, d), q.duration)
    BY <1>6 DEF FreeInDay
  <2> QED
    BY <1>4, <1>5, <1>6, <2>1 DEF m, SlotsOf
<1>7. CASE ~Visited(q, d)
  <2>1. FreeInDay(busy, q, d) = {}
    BY <1>7 DEF FreeInDay
  <2> QED
    BY <1>7, <2>1, ListsNothing DEF SlotsOf
<1> QED
  BY <1>6, <1>7

(* The slots of all days are listed, of which find_free_slots takes the    *)
(* first.                                                                  *)
LEMMA AllDays ==
  ASSUME NEW busy \in SUBSET Times, IsFiniteSet(busy), NEW q \in Queries
  PROVE  \E f : /\ Lists(f, FreeUpTo(busy, q, Days))
                /\ FreeSlots(busy, q) =
                     SubSeq(f, 1, IF Len(f) < MaxSlots THEN Len(f) ELSE MaxSlots)
<1> DEFINE Day(d) == SlotsOf(busy, q, d)
           IsAll(f) == f = [d \in 0 .. Days |-> IF d = 0 THEN <<>> ELSE f[d - 1] \o Day(d - 1)]
           all == CHOOSE f : IsAll(f)
<1>1. FreeSlots(busy, q) =
        SubSeq(all[Days], 1, IF Len(all[Days]) < MaxSlots THEN Len(all[Days]) ELSE MaxSlots)
  BY DEF FreeSlots
<1>2. Days \in Nat
  BY CalendarAssumption DEF CalendarAssumption
<1>3. \A d \in Nat : Lists(Day(d), FreeInDay(busy, q, d))
  BY OneDay
<1>4. \A d \in Nat : Day(d) \in Seq(Nat)
  BY <1>3 DEF Lists
<1> HIDE DEF Day
<1>5. IsAll(all)
  <2> DEFINE W == Seq(Nat)
             step == [x \in (1 .. Days) \X W |-> x[2] \o Day(x[1] - 1)]
  <2>1. \A i \in 1 .. Days : i - 1 \in Nat
    BY <1>2
  <2>2. step \in [(1 .. Days) \X W -> W]
    <3>1. ASSUME NEW x \in (1 .. Days) \X W PROVE x[2] \o Day(x[1] - 1) \in W
      <4>1. x[2] \in Seq(Nat) /\ Day(x[1] - 1) \in Seq(Nat)
        BY <1>4, <2>1
      <4> QED
        BY <4>1, ConcatProperties
    <3> HIDE DEF W
    <3> QED
      BY <3>1
  <2>3. \A i \in 1 .. Days : \A v \in W : step[<<i, v>>] = v \o Day(i - 1)
    <3> HIDE DEF W
    <3> QED
      OBVIOUS
  <2>4. <<>> \in W
    OBVIOUS
  <2> HIDE DEF step, W, all
  <2>5. PICK f \in [0 .. Days -> W] : Steps(f, Days, <<>>, step)
    BY <1>2, <2>2, <2>4, StepByStep
  <2>6. ASSUME NEW i \in 0 .. Days, i # 0
        PROVE  step[<<i, f[i - 1]>>] = f[i - 1] \o Day(i - 1)
    <3>1. i \in 1 .. Days /\ i - 1 \in 0 .. Days
      BY <1>2, <2>6
    <3> QED
      BY <2>3, <3>1
  <2>7. [i \in 0 .. Days |-> IF i = 0 THEN <<>> ELSE step[<<i, f[i - 1]>>]]
          = [i \in 0 .. Days |-> IF i = 0 THEN <<>> ELSE f[i - 1] \o Day(i - 1)]
    BY <2>6
  <2>8. IsAll(f)
    BY <2>5, <2>7 DEF Steps
  <2> QED
    BY <2>8 DEF all
<1> HIDE DEF all
<1>6. all[0] = <<>> /\ \A i \in 1 .. Days : all[i] = all[i - 1] \o Day(i - 1)
  <2>1. 0 \in 0 .. Days /\ \A i \in 1 .. Days : i \in 0 .. Days /\ i # 0
    BY <1>2
  <2> QED
    BY <1>5, <2>1
<1> HIDE DEF IsAll
<1> DEFINE Good == {k \in 0 .. Days : Lists(all[k], FreeUpTo(busy, q, k))}
<1>7. 0 \in Good
  <2>1. FreeUpTo(busy, q, 0) = {} /\ 0 \in 0 .. Days
    BY <1>2 DEF FreeUpTo
  <2> QED
    BY <1>6, <2>1, ListsNothing
<1>8. PICK k \in Good : \A j \in Good : k >= j
  <2>1. Good \in SUBSET (0 .. Days) /\ Good # {} /\ 0 \in Nat
    BY <1>7
  <2> HIDE DEF Good
  <2> QED
    BY <1>2, <2>1, HasGreatest
<1>9. k \in 0 .. Days /\ Lists(all[k], FreeUpTo(busy, q, k))
  OBVIOUS
<1>10. k = Days
  <2>1. SUFFICES ASSUME k # Days PROVE FALSE
    OBVIOUS
  <2>2. k \in Nat /\ k + 1 \in 1 .. Days /\ k + 1 \in 0 .. Days /\ (k + 1) - 1 = k
    BY <1>2, <1>9, <2>1
  <2>3. \A x \in FreeUpTo(busy, q, k), y \in FreeInDay(busy, q, k) : x < y
    <3> SUFFICES ASSUME NEW x \in FreeUpTo(busy, q, k), NEW y \in FreeInDay(busy, q, k)
                 PROVE  x < y
      OBVIOUS
    <3>1. PICK d \in 0 .. k - 1 : x \in FreeInDay(busy, q, d)
      BY DEF FreeUpTo
    <3>2. d \in Nat /\ d < k
      BY <2>2
    <3>3. x \in Nat /\ x + q.duration <= WindowEnd(q, d) /\ y \in Nat /\ y >= WindowStart(q, k)
      <4>1. WindowStart(q, k) \in Nat
        BY <2>2, WindowsAre
      <4> QED
        BY <3>1, <4>1 DEF FreeInDay, FreeOn
    <3>4. /\ q.duration \in Nat \ {0} /\ WindowEnd(q, d) \in Nat
          /\ WindowEnd(q, d) <= d * DayHours + DayHours /\ d * DayHours \in Nat
      BY <3>2, WindowsAre
    <3>5. /\ WindowStart(q, k) \in Nat /\ k * DayHours \in Nat
          /\ WindowStart(q, k) >= k * DayHours + WorkStart
      BY <2>2, WindowsAre
    <3>6. d * DayHours + DayHours <= k * DayHours
      BY <2>2, <3>2, DaysFollow
    <3>7. WorkStart \in Nat /\ DayHours \in Nat
      BY CalendarAssumption DEF CalendarAssumption
    <3> DEFINE dh == d * DayHours
               kh == k * DayHours
    <3> HIDE DEF dh, kh
    <3>8. /\ WindowEnd(q, d) <= dh + DayHours /\ dh \in Nat /\ kh \in Nat
          /\ WindowStart(q, k) >= kh + WorkStart /\ dh + DayHours <= kh
      BY <3>4, <3>5, <3>6 DEF dh, kh
    <3> QED
      BY <3>3, <3>4, <3>5, <3>7, <3>8
  <2>4. Lists(all[k] \o Day(k), FreeUpTo(busy, q, k) \cup FreeInDay(busy, q, k))
    BY <1>3, <1>9, <2>2, <2>3, ListsBoth
  <2>5. FreeUpTo(busy, q, k + 1) = FreeUpTo(busy, q, k) \cup FreeInDay(busy, q, k)
    <3>1. \A d \in 0 .. (k + 1) - 1 : d \in 0 .. k - 1 \/ d = k
      BY <2>2
    <3>2. k \in 0 .. (k + 1) - 1 /\ \A d \in 0 .. k - 1 : d \in 0 .. (k + 1) - 1
      BY <2>2
    <3>3. FreeInDay(busy, q, k) \subseteq Nat
      BY DEF FreeInDay, FreeOn
    <3> QED
      BY <3>1, <3>2, <3>3 DEF FreeUpTo
  <2>6. all[k + 1] = all[k] \o Day(k)
    BY <1>6, <2>2
  <2>7. k + 1 \in Good /\ ~(k >= k + 1)
    <3>1. Lists(all[k + 1], FreeUpTo(busy, q, k + 1))
      BY <2>4, <2>5, <2>6
    <3> QED
      BY <2>2, <3>1
  <2> QED
    BY <1>8, <2>7
<1> QED
  BY <1>1, <1>9, <1>10

(* In a list as many numbers are before a number as it has places before   *)
(* it.                                                                     *)
LEMMA PlaceInList ==
  ASSUME NEW f, NEW S, Lists(f, S), NEW i \in 1 .. Len(f)
  PROVE  Cardinality({x \in S : x < f[i]}) = i - 1
<1> DEFINE T == {x \in S : x < f[i]}
           g == [k \in 1 .. i - 1 |-> f[k]]
           n == Len(f)
<1>1. n \in Nat /\ i \in Nat /\ i - 1 \in Nat
  BY LenProperties DEF Lists
<1>2. \A k \in 1 .. n : f[k] \in S /\ f[k] \in Nat
  BY LenProperties DEF Lists
<1>3. \A j, k \in 1 .. n : j < k => f[j] < f[k]
  BY DEF Lists
<1>4. \A k \in 1 .. i - 1 : k \in 1 .. n /\ k < i
  BY <1>1
<1>5. g \in [1 .. i - 1 -> T]
  BY <1>2, <1>3, <1>4
<1>6. \A j, k \in 1 .. i - 1 : g[j] = g[k] => j = k
  <2> SUFFICES ASSUME NEW j \in 1 .. i - 1, NEW k \in 1 .. i - 1, f[j] = f[k], j # k PROVE FALSE
    OBVIOUS
  <2>1. f[j] \in Nat /\ f[k] \in Nat /\ (j < k \/ k < j)
    BY <1>1, <1>2, <1>4
  <2>2. j < k => f[j] < f[k]
    BY <1>3, <1>4
  <2>3. k < j => f[k] < f[j]
    BY <1>3, <1>4
  <2> QED
    BY <2>1, <2>2, <2>3
<1>7. \A x \in T : \E k \in 1 .. i - 1 : g[k] = x
  <2> SUFFICES ASSUME NEW x \in T PROVE \E k \in 1 .. i - 1 : g[k] = x
    OBVIOUS
  <2>1. PICK k \in 1 .. n : f[k] = x
    BY DEF Lists
  <2>2. k < i
    <3> SUFFICES ASSUME ~(k < i) PROVE FALSE
      OBVIOUS
    <3>1. k = i \/ i < k
      BY <1>1
    <3>2. i < k => f[i] < f[k]
      BY <1>3
    <3>3. f[k] < f[i] /\ f[k] \in Nat /\ f[i] \in Nat
      BY <1>2, <2>1
    <3> QED
      BY <3>1, <3>2, <3>3
  <2>3. k \in 1 .. i - 1
    BY <1>1, <2>2
  <2> QED
    BY <2>1, <2>3
<1>8. g \in Bijection(1 .. i - 1, T)
  <2> HIDE DEF g, T
  <2> QED
    BY <1>5, <1>6, <1>7 DEF Bijection, Injection, Surjection, IsInjective
<1>9. ExistsBijection(1 .. i - 1, T)
  BY <1>8 DEF ExistsBijection
<1> QED
  BY <1>1, <1>9, FS_CountingElements

(* The list g holds the members of S with less than N of them before.       *)
HoldsFirst(g, S, N) ==
  /\ Range(g) = {x \in S : Cardinality({y \in S : y < x}) < N}
  /\ \A i \in 1 .. Len(g) - 1 : g[i] < g[i + 1]

(* The first N of a list are those with less than N before them.           *)
LEMMA FirstOfList ==
  ASSUME NEW f, NEW S, Lists(f, S), NEW N \in Nat,
         NEW g, g = SubSeq(f, 1, IF Len(f) < N THEN Len(f) ELSE N)
  PROVE  HoldsFirst(g, S, N)
<1> DEFINE n == Len(f)
           k == IF n < N THEN n ELSE N
<1>1. n \in Nat /\ f \in Seq(Nat) /\ k \in Nat /\ k <= n /\ k <= N /\ (k = n \/ k = N)
  BY LenProperties DEF Lists
<1>2. \A i \in 1 .. k : i \in 1 .. n
  BY <1>1
<1> HIDE DEF k
<1>3. g = SubSeq(f, 1, k)
  BY DEF k
<1>4. \A i \in 1 .. k : f[i] \in Nat
  BY <1>1, <1>2
<1>5. g \in Seq(Nat) /\ Len(g) = k /\ \A i \in 1 .. k : g[i] = f[i]
  <2>1. /\ SubSeq(f, 1, k) \in Seq(Nat)
        /\ Len(SubSeq(f, 1, k)) = IF 1 <= k THEN k - 1 + 1 ELSE 0
        /\ \A i \in 1 .. k - 1 + 1 : SubSeq(f, 1, k)[i] = f[1 + i - 1]
    BY <1>1, <1>4, SubSeqProperties
  <2>2. (IF 1 <= k THEN k - 1 + 1 ELSE 0) = k /\ k - 1 + 1 = k
    BY <1>1
  <2>3. \A i \in 1 .. k : 1 + i - 1 = i
    OBVIOUS
  <2> QED
    BY <1>3, <2>1, <2>2, <2>3
<1>6. DOMAIN g = 1 .. k
  BY <1>5, LenProperties
<1>7. ASSUME NEW x \in S, Cardinality({y \in S : y < x}) < N PROVE x \in Range(g)
  <2>1. PICK i \in 1 .. n : f[i] = x
    BY DEF Lists
  <2>2. Cardinality({y \in S : y < x}) = i - 1
    BY <2>1, PlaceInList
  <2>3. i \in 1 .. k
    BY <1>1, <1>7, <2>2
  <2> QED
    BY <1>5, <1>6, <2>1, <2>3 DEF Range
<1>8. ASSUME NEW x \in Range(g) PROVE x \in S /\ Cardinality({y \in S : y < x}) < N
  <2>1. PICK i \in 1 .. k : g[i] = x
    BY <1>6 DEF Range
  <2>2. f[i] = x /\ i \in 1 .. n
    BY <1>2, <1>5, <2>1
  <2>3. Cardinality({y \in S : y < x}) = i - 1
    BY <2>2, PlaceInList
  <2>4. x \in S
    BY <2>2 DEF Lists
  <2> QED
    BY <1>1, <2>3, <2>4
<1>9. ASSUME NEW i \in 1 .. k - 1 PROVE g[i] < g[i + 1]
  <2>1. i \in 1 .. k /\ i + 1 \in 1 .. k /\ i \in 1 .. n /\ i + 1 \in 1 .. n /\ i < i + 1
    BY <1>1
  <2>2. f[i] < f[i + 1]
    BY <2>1 DEF Lists
  <2> QED
    BY <1>5, <2>1, <2>2
<1> QED
  BY <1>5, <1>7, <1>8, <1>9 DEF HoldsFirst

(* Slots were asked for with what is allowed and found among busy times.   *)
SlotsWereFound ==
  \/ slots = NoSlots
  \/ \E busy \in SUBSET Times, q \in Queries :
       /\ IsFiniteSet(busy)
       /\ slots = [found |-> FreeSlots(busy, q), busy |-> busy, query |-> q]

(* The events there are have identities of the service and such times.     *)
CalendarTypes ==
  DOMAIN calendar \subseteq EventIds /\ \A i \in DOMAIN calendar : calendar[i].time \in Times

(* The inductive invariant of the calendar.                                *)
CalendarInv == CalendarTypes /\ SlotsWereFound

(* Such slots are the first ones that are free.                            *)
LEMMA FoundAreFree == SlotsWereFound => SlotsAreFree
<1> SUFFICES ASSUME SlotsWereFound, slots # NoSlots PROVE SlotsAreFree
  BY DEF SlotsAreFree
<1>1. PICK busy \in SUBSET Times, q \in Queries :
        /\ IsFiniteSet(busy)
        /\ slots = [found |-> FreeSlots(busy, q), busy |-> busy, query |-> q]
  BY DEF SlotsWereFound
<1>2. slots.found = FreeSlots(busy, q) /\ slots.busy = busy /\ slots.query = q
  BY <1>1
<1> DEFINE S == FreeUpTo(busy, q, Days)
           wanted == IF q.ahead >= 0 THEN Right ELSE Reached
           OnDay(d) == FreeOn(busy, WindowStart(q, d), WindowEnd(q, d), q.duration)
<1>3. PICK f : /\ Lists(f, S)
               /\ FreeSlots(busy, q) = SubSeq(f, 1, IF Len(f) < MaxSlots THEN Len(f) ELSE MaxSlots)
  BY <1>1, AllDays
<1>4. Days \in Nat /\ MaxSlots \in Nat
  BY CalendarAssumption DEF CalendarAssumption
<1>5. \A b \in busy : b[1] \in Nat /\ b[2] \in Nat /\ b[1] < b[2]
  BY TimesAre
<1>6. \A d \in 0 .. Days - 1 : d \in Nat
  BY <1>4
<1>7. ASSUME NEW t \in Right PROVE \E d \in 0 .. Days - 1 : t \in OnDay(d)
  <2>1. /\ \E d \in 0 .. Days - 1 : /\ WindowStart(q, d) <= t
                                    /\ t + q.duration <= WindowEnd(q, d)
        /\ \A b \in busy : b[2] <= t \/ b[1] >= t + q.duration
        /\ \/ \E d \in 0 .. Days - 1 : t = WindowStart(q, d)
           \/ \E b \in busy : t = b[2]
    BY <1>2 DEF Right, FreeFrom, GapStarts
  <2>2. PICK d \in 0 .. Days - 1 : WindowStart(q, d) <= t /\ t + q.duration <= WindowEnd(q, d)
    BY <2>1
  <2>3. t \in Nat
    <3>1. ASSUME NEW e \in 0 .. Days - 1, t = WindowStart(q, e) PROVE t \in Nat
      BY <1>6, <3>1, WindowsAre
    <3> QED
      BY <1>5, <2>1, <3>1
  <2>4. ASSUME NEW e \in 0 .. Days - 1, t = WindowStart(q, e) PROVE t = WindowStart(q, d)
    <3> DEFINE dh == d * DayHours
               eh == e * DayHours
    <3>1. /\ q.from \in Nat /\ q.duration \in Nat \ {0} /\ dh \in Nat
          /\ WindowStart(q, d) \in Nat /\ WindowEnd(q, d) \in Nat
          /\ WindowStart(q, d) >= q.from /\ WindowStart(q, d) >= dh + WorkStart
          /\ WindowStart(q, d) = q.from \/ WindowStart(q, d) = dh + WorkStart
          /\ WindowEnd(q, d) <= dh + DayHours
      BY <1>6, WindowsAre
    <3>2. /\ eh \in Nat /\ WindowStart(q, e) \in Nat
          /\ WindowStart(q, e) >= q.from /\ WindowStart(q, e) >= eh + WorkStart
          /\ WindowStart(q, e) = q.from \/ WindowStart(q, e) = eh + WorkStart
      BY <1>6, WindowsAre
    <3>3. /\ e < d => eh + DayHours <= dh
          /\ d < e => dh + DayHours <= eh
      BY <1>6, DaysFollow
    <3>4. WorkStart \in Nat /\ DayHours \in Nat \ {0}
      BY CalendarAssumption DEF CalendarAssumption
    <3> HIDE DEF dh, eh
    <3>5. CASE e = d
      BY <2>4, <3>5
    <3>6. CASE e < d
      BY <2>2, <2>3, <2>4, <3>1, <3>2, <3>3, <3>4, <3>6
    <3>7. CASE d < e
      BY <2>2, <2>3, <2>4, <3>1, <3>2, <3>3, <3>4, <3>7
    <3>8. e = d \/ e < d \/ d < e
      BY <1>6
    <3> QED
      BY <3>5, <3>6, <3>7, <3>8
  <2>5. t \in OnDay(d)
    <3>1. t = WindowStart(q, d) \/ \E b \in busy : t = b[2]
      BY <2>1, <2>4
    <3> QED
      BY <2>1, <2>2, <2>3, <3>1 DEF FreeOn
  <2> QED
    BY <2>5
<1>8. ASSUME NEW d \in 0 .. Days - 1, NEW t \in OnDay(d)
      PROVE  /\ t \in Right /\ t \in Nat
             /\ d * DayHours <= t /\ t < d * DayHours + DayHours /\ t < q.to
  <2>1. /\ t = WindowStart(q, d) \/ \E b \in busy : t = b[2]
        /\ WindowStart(q, d) <= t /\ t + q.duration <= WindowEnd(q, d)
        /\ \A b \in busy : b[2] <= t \/ b[1] >= t + q.duration
        /\ t \in Nat
    BY DEF FreeOn
  <2>2. t \in GapStarts
    BY <1>2, <2>1 DEF GapStarts
  <2>3. FreeFrom(t)
    BY <1>2, <2>1 DEF FreeFrom
  <2> DEFINE dh == d * DayHours
  <2>4. /\ q.to \in Nat /\ q.duration \in Nat \ {0} /\ dh \in Nat
        /\ WindowStart(q, d) \in Nat /\ WindowEnd(q, d) \in Nat
        /\ WindowStart(q, d) >= dh + WorkStart
        /\ WindowEnd(q, d) <= dh + DayHours /\ WindowEnd(q, d) <= q.to
    BY <1>6, WindowsAre
  <2>5. WorkStart \in Nat /\ DayHours \in Nat
    BY CalendarAssumption DEF CalendarAssumption
  <2> HIDE DEF dh
  <2>6. dh <= t /\ t < dh + DayHours /\ t < q.to
    BY <2>1, <2>4, <2>5
  <2> QED
    BY <2>1, <2>2, <2>3, <2>6 DEF Right, dh
<1> HIDE DEF OnDay
<1>9. /\ S = {t \in Nat : \E d \in 0 .. Days - 1 : Visited(q, d) /\ t \in OnDay(d)}
      /\ q.to \in Int /\ q.ahead \in Int
      /\ \A d \in 0 .. Days - 1 : d * DayHours \in Nat
  <2>1. \A d \in 0 .. Days - 1 : \A t : t \in FreeInDay(busy, q, d) <=> Visited(q, d) /\ t \in OnDay(d)
    BY DEF FreeInDay, OnDay
  <2>2. 0 \in Nat /\ q.to \in Nat /\ q.ahead \in Int
    BY WindowsAre
  <2> QED
    BY <1>6, <2>1, <2>2, WindowsAre DEF FreeUpTo
<1>10. ASSUME q.ahead >= 0 PROVE Right = S
  <2>1. ASSUME NEW d \in 0 .. Days - 1, NEW t \in OnDay(d) PROVE Visited(q, d)
    <3> DEFINE dh == d * DayHours
    <3>1. dh <= t /\ t < q.to /\ t \in Nat /\ dh \in Nat
      BY <1>8, <1>9
    <3> HIDE DEF dh
    <3>2. dh <= q.to + q.ahead
      BY <1>9, <1>10, <3>1
    <3> QED
      BY <3>2 DEF Visited, dh
  <2> QED
    BY <1>7, <1>8, <1>9, <2>1
<1>11. Reached = S
  <2>1. ASSUME NEW d \in 0 .. Days - 1 PROVE (d + 1) * DayHours = d * DayHours + DayHours
    BY <1>6, CalendarAssumption DEF CalendarAssumption
  <2>2. slots.query = q
    BY <1>2
  <2>3. ASSUME NEW t \in S PROVE t \in Reached
    <3>1. PICK d \in 0 .. Days - 1 : Visited(q, d) /\ t \in OnDay(d)
      BY <1>9
    <3>2. t \in Right /\ t < (d + 1) * DayHours
      BY <1>8, <2>1, <3>1
    <3> QED
      BY <2>2, <3>1, <3>2 DEF Reached
  <2>4. ASSUME NEW t \in Reached PROVE t \in S
    <3>1. t \in Right
      BY DEF Reached
    <3>2. PICK e \in 0 .. Days - 1 : Visited(q, e) /\ t < e * DayHours + DayHours
      BY <2>1, <2>2 DEF Reached
    <3>3. PICK d \in 0 .. Days - 1 : t \in OnDay(d)
      BY <1>7, <3>1
    <3> DEFINE dh == d * DayHours
               eh == e * DayHours
    <3>4. t \in Nat /\ dh <= t /\ dh \in Nat /\ eh \in Nat /\ t < eh + DayHours
      BY <1>8, <1>9, <3>2, <3>3
    <3>5. e < d => eh + DayHours <= dh
      BY <1>6, DaysFollow
    <3>6. d <= e => dh <= eh
      <4>1. d < e => dh + DayHours <= eh
        BY <1>6, DaysFollow
      <4>2. DayHours \in Nat
        BY CalendarAssumption DEF CalendarAssumption
      <4>3. CASE d = e
        BY <3>4, <4>3
      <4>4. CASE d < e
        <5> HIDE DEF dh, eh
        <5> QED
          BY <3>4, <4>1, <4>2, <4>4
      <4> QED
        BY <1>6, <4>3, <4>4
    <3>7. d \in Nat /\ e \in Nat /\ DayHours \in Nat /\ eh <= q.to + q.ahead
      BY <1>6, <3>2, CalendarAssumption DEF CalendarAssumption, Visited
    <3> HIDE DEF dh, eh
    <3>8. dh <= q.to + q.ahead
      BY <1>9, <3>4, <3>5, <3>6, <3>7
    <3>9. Visited(q, d)
      BY <3>8 DEF Visited, dh
    <3> QED
      BY <1>9, <3>3, <3>4, <3>9
  <2> QED
    BY <2>3, <2>4
<1>12. wanted = S
  BY <1>10, <1>11
<1> HIDE DEF wanted, S
<1>13. HoldsFirst(FreeSlots(busy, q), S, MaxSlots)
  BY <1>3, <1>4, FirstOfList
<1>14. HoldsFirst(slots.found, wanted, MaxSlots)
  BY <1>2, <1>12, <1>13
<1>15. /\ Range(slots.found) = Firsts(wanted)
       /\ \A i \in 1 .. Len(slots.found) - 1 : slots.found[i] < slots.found[i + 1]
  BY <1>14 DEF HoldsFirst, Firsts
<1> QED
  BY <1>2, <1>15 DEF SlotsAreFree, wanted

(* The busy times of a calendar are finitely many times.                   *)
LEMMA BusyIsFinite ==
  ASSUME CalendarTypes, NEW q
  PROVE  Busy(q) \in SUBSET Times /\ IsFiniteSet(Busy(q))
<1> DEFINE D == DOMAIN calendar
           T == {calendar[i].time : i \in D}
           f == [i \in D |-> calendar[i].time]
<1>1. IsFiniteSet(D)
  <2>1. IsFiniteSet(EventIds) /\ D \in SUBSET EventIds
    BY CalendarAssumption DEF CalendarAssumption, CalendarTypes
  <2> QED
    BY <2>1, FS_Subset
<1>2. f \in Surjection(D, T)
  BY DEF Surjection
<1>3. IsFiniteSet(T)
  BY <1>1, <1>2, FS_Surjection
<1>4. Busy(q) \in SUBSET T
  BY DEF Busy
<1>5. T \subseteq Times
  BY DEF CalendarTypes
<1> QED
  BY <1>3, <1>4, <1>5, FS_Subset

(* The invariant holds of every calendar that has no events.               *)
LEMMA CalendarInitInv == CalendarInit => CalendarInv
BY DEF CalendarInit, CalendarInv, CalendarTypes, SlotsWereFound

(* Every operation preserves the invariant.                                *)
LEMMA CalendarStep == CalendarInv /\ [CalendarNext]_calendarVars => CalendarInv'
<1> SUFFICES ASSUME CalendarInv, [CalendarNext]_calendarVars PROVE CalendarInv'
  OBVIOUS
<1>1. \A event \in Events : event.time \in Times
  <2>1. Hours \subseteq Nat
    BY DEF Hours
  <2>2. EventTimes \subseteq Times
    BY <2>1 DEF EventTimes, Times
  <2> QED
    BY <2>2 DEF Events
<1>2. CalendarTypes /\ SlotsWereFound
  BY DEF CalendarInv
<1>3. ASSUME Forgotten, CalendarTypes' PROVE CalendarInv'
  BY <1>3 DEF Forgotten, CalendarInv, SlotsWereFound, NoSlots
<1>4. ASSUME UNCHANGED calendar PROVE CalendarTypes'
  BY <1>2, <1>4 DEF CalendarTypes
<1>5. ASSUME NEW id \in EventIds, NEW event \in Events, calendar' = WithEvent(id, event)
      PROVE  CalendarTypes'
  BY <1>1, <1>2, <1>5 DEF CalendarTypes, WithEvent
<1>6. ASSUME NEW id, calendar' = WithoutEvent(id) PROVE CalendarTypes'
  BY <1>2, <1>6 DEF CalendarTypes, WithoutEvent
<1>7. CASE CalendarStatus
  BY <1>3, <1>4, <1>7 DEF CalendarStatus
<1>8. CASE CloseCalendar
  BY <1>3, <1>4, <1>8 DEF CloseCalendar
<1>9. ASSUME NEW grant, Authorize(grant) PROVE CalendarInv'
  BY <1>3, <1>4, <1>9 DEF Authorize
<1>10. ASSUME NEW grant, FileChanges(grant) PROVE CalendarInv'
  BY <1>3, <1>4, <1>10 DEF FileChanges
<1>11. ASSUME NEW event \in Events, CreateEvent(event) PROVE CalendarInv'
  BY <1>3, <1>4, <1>5, <1>11 DEF CreateEvent, Sends
<1>12. ASSUME NEW event \in Events, NEW id \in EventIds, NEW fields,
              UpdateEvent(id, event, fields)
       PROVE  CalendarInv'
  BY <1>3, <1>4, <1>5, <1>12 DEF UpdateEvent, Sends
<1>13. CASE DeleteEvent
  BY <1>3, <1>4, <1>6, <1>13 DEF DeleteEvent, Sends
<1>14. ASSUME NEW id, LookUp(id) PROVE CalendarInv'
  BY <1>3, <1>4, <1>14 DEF LookUp
<1>15. CASE ReadBack
  BY <1>4, <1>15 DEF ReadBack, CalendarInv, SlotsWereFound
<1>16. CASE OthersEdit
  BY <1>3, <1>5, <1>6, <1>16 DEF OthersEdit
<1>17. ASSUME NEW q \in Queries, FindFreeSlots(q) PROVE CalendarInv'
  <2>1. slots' = [found |-> FreeSlots(Busy(q), q), busy |-> Busy(q), query |-> q]
        /\ UNCHANGED calendar
    BY <1>17 DEF FindFreeSlots
  <2>2. Busy(q) \in SUBSET Times /\ IsFiniteSet(Busy(q))
    BY <1>2, BusyIsFinite
  <2> DEFINE busy == Busy(q)
  <2> HIDE DEF busy
  <2>3. \E b \in SUBSET Times, r \in Queries :
          IsFiniteSet(b) /\ slots' = [found |-> FreeSlots(b, r), busy |-> b, query |-> r]
    BY <2>1, <2>2
  <2> QED
    BY <1>4, <2>1, <2>3 DEF CalendarInv, SlotsWereFound
<1>18. CASE UNCHANGED calendarVars
  BY <1>2, <1>4, <1>18 DEF calendarVars, CalendarInv, SlotsWereFound
<1> QED
  BY <1>7, <1>8, <1>9, <1>10, <1>11, <1>12, <1>13, <1>14, <1>15, <1>16, <1>17, <1>18
     DEF CalendarNext

(* The inductive invariant of the calendar holds for all events and limits *)
(* (google_calendar/client.py).                                            *)
THEOREM CalendarInvariant == CalendarSpec => []CalendarInv
BY CalendarInitInv, CalendarStep, PTL DEF CalendarSpec

(* For any busy times, however they overlap, touch or span days, any       *)
(* working hours, durations, limits and offsets: the slots offered are the *)
(* first of those that begin with the working hours or at the end of a     *)
(* busy time and are free; none is left out but, when the end is given in  *)
(* an offset behind that of the start, what lies after its date            *)
(* (google_calendar/client.py find_free_slots).                            *)
THEOREM OfferedAreFree == CalendarSpec => []SlotsAreFree
<1>1. CalendarInv => SlotsAreFree
  BY FoundAreFree DEF CalendarInv
<1> QED
  BY <1>1, CalendarInvariant, PTL

=============================================================================
