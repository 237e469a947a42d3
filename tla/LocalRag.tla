------------------------------ MODULE LocalRag ------------------------------
(***************************************************************************)
(* The index of local documents (src/src/local_rag/store.py): index_paths  *)
(* walks the files below the requested paths and, file after file, looks   *)
(* at size and time, then at the digest, then extracts the text and        *)
(* replaces the document's chunks in one transaction; documents whose      *)
(* files are gone can be pruned.  The files are external and change        *)
(* between these steps; the program may stop between two files.            *)
(*                                                                         *)
(* One collection is followed; others only use up the limits.  A text is a *)
(* sequence of lengths of non-blank lines.  Size and time of a file are    *)
(* one stamp, which every write changes.                                   *)
(***************************************************************************)
EXTENDS Integers, Sequences, FiniteSets, FiniteSetsExt, Functions

CONSTANTS
  Files, Below(_),   \* paths, and those below a requested path
  Roots,             \* what may be requested
  Texts, Secret(_), TooLarge(_),   \* contents of files, and what makes them unfit
  ChunkCharacters, Overlap,        \* the configuration
  MaxRagFiles, MaxRagChunks,       \* max_files, max_chunks
  MaxWrites                        \* bound: writes to files

ASSUME RagAssumption ==
  /\ Texts \subseteq Seq(Nat) /\ ChunkCharacters \in Nat \ {0} /\ Overlap \in 0 .. ChunkCharacters - 1
  /\ MaxRagFiles \in Nat /\ MaxRagChunks \in Nat /\ MaxWrites \in Nat

VARIABLES
  files,   \* external: path -> [text, stamp]; a missing path has no file
  writes,  \* the stamp of the last write
  docs,    \* rag_documents with their rag_chunks: path -> document
  job      \* index_paths: what it has to do and where it is

ragVars == <<files, writes, docs, job>>

NoJob == [at |-> "idle"]

RagInit == files = <<>> /\ writes = 0 /\ docs = <<>> /\ job = NoJob

-----------------------------------------------------------------------------
(* _chunk_numbered_lines: as many lines as fit, at least one; the next     *)
(* chunk repeats lines until they fill the overlap.                        *)

Width(text, a, b) == MapThenSumSet(LAMBDA i : text[i] + 1, a .. b)

ChunkEnd(text, start) ==
  Max({e \in start .. Len(text) : e = start \/ Width(text, start, e) <= ChunkCharacters})

(* Mutant: the overlap is skipped rather than repeated.                    *)
NextStartBeyond(text, start, end) ==
  Min({s \in end + 1 .. Len(text) : Width(text, end + 1, s) >= Overlap} \cup {Len(text)})

NextStart(text, start, end) ==
  Max({s \in start + 1 .. end + 1 : Width(text, s, end) >= Overlap} \cup {start + 1})

ChunksFrom(text, start, later) ==
  IF start > Len(text) THEN <<>>
  ELSE LET end == ChunkEnd(text, start)
       IN <<[first |-> start, last |-> end]>> \o
            (IF end = Len(text) THEN <<>> ELSE later[NextStart(text, start, end)])

Chunks(text) ==
  LET from[start \in 1 .. Len(text) + 1] == ChunksFrom(text, start, from) IN from[1]

-----------------------------------------------------------------------------
Present(f) == f \in DOMAIN files
With(map, f, x) == [g \in DOMAIN map \cup {f} |-> IF g = f THEN x ELSE map[g]]

(* _iter_candidates and _safe_candidate.                                   *)
Candidates(root) == {f \in Below(root) : Present(f) /\ ~TooLarge(files[f].text)}

StartIndexing(root, force, prune) ==
  /\ job.at \in {"idle", "done"}
  /\ job' = [at |-> "files", root |-> root, force |-> force, prune |-> prune,
             todo |-> Candidates(root), saw |-> Candidates(root), failed |-> {}, quiet |-> TRUE,
             stamp |-> 0, digest |-> <<>>]
  /\ UNCHANGED <<files, writes, docs>>

Done(j, f) == [j EXCEPT !.at = "files", !.todo = @ \ {f}]
Fails(j, f) == [Done(j, f) EXCEPT !.failed = @ \cup {f}]
Path == Min(job.todo)

(* Mutant: an old document is taken as it is whatever its stamp.           *)
UnchangedIfKnown(f) == f \in DOMAIN docs

SameStamp(f) == f \in DOMAIN docs /\ docs[f].stamp = files[f].stamp

(* The next file in the order of paths: a failed stat is a failure.        *)
StatFile ==
  /\ job.at = "files" /\ job.todo # {}
  /\ job' = IF ~Present(Path) THEN Fails(job, Path)
            ELSE IF ~job.force /\ SameStamp(Path) THEN Done(job, Path)
            ELSE [job EXCEPT !.at = "digest", !.stamp = files[Path].stamp]
  /\ UNCHANGED <<files, writes, docs>>

(* The digest, which stands for the content; the same as before: only the  *)
(* stamp is stored.                                                        *)
DigestFile ==
  /\ job.at = "digest"
  /\ IF ~Present(Path) THEN job' = Fails(job, Path) /\ UNCHANGED docs
     ELSE IF ~job.force /\ Path \in DOMAIN docs /\ docs[Path].digest = files[Path].text
     THEN job' = Done(job, Path) /\ docs' = [docs EXCEPT ![Path].stamp = job.stamp]
     ELSE job' = [job EXCEPT !.at = "extract", !.digest = files[Path].text] /\ UNCHANGED docs
  /\ UNCHANGED <<files, writes>>

ChunksWithout(f) ==
  MapThenSumSet(LAMBDA g : Len(docs[g].chunks), DOMAIN docs \ {f})
Fits(f, text) ==
  /\ f \in DOMAIN docs \/ Cardinality(DOMAIN docs) < MaxRagFiles
  /\ ChunksWithout(f) + Len(Chunks(text)) <= MaxRagChunks

(* Text with secrets and empty text are skipped, and an earlier document   *)
(* stays.  Otherwise the document is replaced, within the limits; torn     *)
(* notes that the text is no longer the one of the digest.                 *)
ExtractFile ==
  /\ job.at = "extract"
  /\ IF ~Present(Path) THEN job' = Fails(job, Path) /\ UNCHANGED docs
     ELSE LET text == files[Path].text
          IN IF Secret(text) \/ text = <<>> THEN job' = Done(job, Path) /\ UNCHANGED docs
             ELSE IF ~Fits(Path, text) THEN job' = Fails(job, Path) /\ UNCHANGED docs
             ELSE /\ docs' = With(docs, Path, [stamp |-> job.stamp, digest |-> job.digest,
                                               text |-> text, chunks |-> Chunks(text),
                                               torn |-> text # job.digest])
                  /\ job' = Done(job, Path)
  /\ UNCHANGED <<files, writes>>

(* The text cannot be read: binary, damaged, a package is missing.         *)
ExtractFails ==
  /\ job.at = "extract" /\ job' = Fails(job, Path) /\ UNCHANGED <<files, writes, docs>>

(* _prune_missing_internal.                                                *)
Pruned(j) == {f \in DOMAIN docs \cap Below(j.root) : f \notin j.saw \/ ~Present(f)}

FinishIndexing ==
  /\ job.at = "files" /\ job.todo = {}
  /\ docs' = IF job.prune THEN Restrict(docs, DOMAIN docs \ Pruned(job)) ELSE docs
  /\ job' = [job EXCEPT !.at = "done"]
  /\ UNCHANGED <<files, writes>>

(* The program stops; what was committed stays.                            *)
StopIndexing == job # NoJob /\ job' = NoJob /\ UNCHANGED <<files, writes, docs>>

-----------------------------------------------------------------------------
(* External.                                                               *)
Disturbed == IF job.at \in {"idle", "done"} THEN NoJob ELSE [job EXCEPT !.quiet = FALSE]

WriteFile(f, text) ==
  /\ writes < MaxWrites /\ writes' = writes + 1
  /\ files' = With(files, f, [text |-> text, stamp |-> writes'])
  /\ job' = Disturbed /\ UNCHANGED docs
DeleteFile(f) ==
  /\ Present(f) /\ files' = Restrict(files, DOMAIN files \ {f})
  /\ job' = Disturbed /\ UNCHANGED <<writes, docs>>

RagNext ==
  \/ \E root \in Roots, force, prune \in BOOLEAN : StartIndexing(root, force, prune)
  \/ StatFile \/ DigestFile \/ ExtractFile \/ ExtractFails \/ FinishIndexing \/ StopIndexing
  \/ \E f \in Files : DeleteFile(f) \/ \E text \in Texts : WriteFile(f, text)

RagSpec == RagInit /\ [][RagNext]_ragVars

-----------------------------------------------------------------------------
Fit(f) == Present(f) /\ ~TooLarge(files[f].text) /\ ~Secret(files[f].text) /\ files[f].text # <<>>

(* After a call during which no file changed, whatever disturbed or        *)
(* stopped earlier ones: every fit file below the path that did not fail   *)
(* is indexed with its present content; only a document whose file changed *)
(* between its digest and its extraction may still hold another text.      *)
(* With pruning nothing stays indexed whose file is gone or left aside     *)
(* (local_rag/store.py index_paths, _prune_missing_internal).              *)
IndexFollowsFiles ==
  job.at = "done" /\ job.quiet =>
    /\ \A f \in Below(job.root) \ job.failed :
         Fit(f) => /\ f \in DOMAIN docs /\ docs[f].digest = files[f].text
                   /\ ~docs[f].torn => docs[f].text = files[f].text
    /\ job.prune => \A f \in DOMAIN docs \cap Below(job.root) :
                      Present(f) /\ ~TooLarge(files[f].text)

(* Chunks c that cover a text.                                             *)
Cited(text, c) ==
  /\ c[1].first = 1 /\ c[Len(c)].last = Len(text)
  /\ \A i \in 1 .. Len(c) - 1 : c[i].first < c[i + 1].first /\ c[i + 1].first <= c[i].last + 1
  /\ \A i \in DOMAIN c : c[i].first = c[i].last \/ Width(text, c[i].first, c[i].last) <= ChunkCharacters

(* The chunks of a document contain each of its lines, in order and with   *)
(* no gap, and none exceeds the configured size except by a single line    *)
(* that does (local_rag/store.py _chunk_numbered_lines).                   *)
EveryLineIsCited == \A f \in DOMAIN docs : Cited(docs[f].text, docs[f].chunks)

=============================================================================
