------------------------------- MODULE Memory -------------------------------
(***************************************************************************)
(* The trail of notes a workspace keeps between conversations              *)
(* (store/memory.go), the memory tool that writes, reads and compacts it   *)
(* (mcpserver/memory.go, compact.go) and the desktop's view of it          *)
(* (ctlapi/memory.go), for one workspace.  MemoryPlan has the rest.        *)
(*                                                                         *)
(* The database takes one statement at a time; a call is several of them,  *)
(* and calls of several conversations and of the desktop interleave.  Of a *)
(* note only its size counts.                                              *)
(***************************************************************************)
EXTENDS Naturals, FiniteSets, FiniteSetsExt

CONSTANTS
  Compactors,   \* conversations that compact
  Readers,      \* memory reads, desktop listings and exports under way
  Batch,        \* memoryCompactBatch
  PageSize,     \* notes per page
  Budget,       \* the inline budget
  MaxNotes      \* bound: ids of notes

ASSUME MemoryAssumption ==
  /\ {Batch, PageSize, Budget} \subseteq Nat \ {0} /\ MaxNotes \in Nat

NoteIds == 1..MaxNotes

VARIABLES
  trail,      \* memory_notes: id -> live, archived or none
  size,       \* bytes of each note, 0 once it is gone
  lastNote,   \* the highest id ever handed out
  text,       \* what each note says: every note says something of its own
  compaction, \* the two-call compactions
  reading     \* the paged reads

memoryVars == <<trail, size, text, lastNote, compaction, reading>>

NoCompaction == [pc |-> "idle", offered |-> {}, through |-> 0]
NoReading == [pc |-> "idle", kind |-> "read", before |-> 0, seen |-> {}, owed |-> {}]

MemoryInit ==
  /\ trail = [n \in NoteIds |-> "none"] /\ size = [n \in NoteIds |-> 0]
  /\ text = [n \in NoteIds |-> 0] /\ lastNote = 0
  /\ compaction = [k \in Compactors |-> NoCompaction]
  /\ reading = [r \in Readers |-> NoReading]

NotesIn(where) == {n \in NoteIds : trail[n] = where}
Bytes(ns) == MapThenSumSet(LAMBDA n : size[n], ns)
UpTo(ns, n) == {m \in ns : m <= n}
From(ns, n) == {m \in ns : m >= n}

\* AUTOINCREMENT: an id is handed out once, also after a clear.
NextId == lastNote + 1

\* AddMemoryNote.
AddMemoryNote(bytes) ==
  /\ lastNote < MaxNotes
  /\ trail' = [trail EXCEPT ![NextId] = "live"]
  /\ size' = [size EXCEPT ![NextId] = bytes] /\ text' = [text EXCEPT ![NextId] = lastNote + 1]
  /\ lastNote' = lastNote + 1

----------------------------------------------------------------------------
(* Notes.                                                                  *)

\* memoryNote, once its references were found.
MemoryNote ==
  /\ \E bytes \in 1..Budget : AddMemoryNote(bytes)
  /\ UNCHANGED <<compaction, reading>>

\* DeleteMemoryNote, from the desktop.
DeleteMemoryNote(n) ==
  /\ trail[n] # "none"
  /\ trail' = [trail EXCEPT ![n] = "none"] /\ size' = [size EXCEPT ![n] = 0] /\ text' = [text EXCEPT ![n] = 0]
  /\ UNCHANGED <<lastNote, compaction, reading>>

\* DeleteMemory: one transaction over the three tables, this one's part.
DeleteMemory ==
  /\ trail' = [n \in NoteIds |-> "none"] /\ size' = [n \in NoteIds |-> 0] /\ text' = [n \in NoteIds |-> 0]
  /\ UNCHANGED <<lastNote, compaction, reading>>

----------------------------------------------------------------------------
(* Compaction.                                                             *)

\* compactBatch: the oldest live notes, as many as the batch and the budget take;
\* the first always fits.
CompactBatch ==
  LET live == NotesIn("live") IN
  {n \in live : LET upto == UpTo(live, n) IN
     Cardinality(upto) <= Batch /\ (Cardinality(upto) = 1 \/ Bytes(upto) <= Budget)}

\* The first call: compactOffer.
CompactOffer(k) ==
  /\ compaction[k].pc = "idle"
  /\ Cardinality(NotesIn("live")) > 1
  /\ compaction' = [compaction EXCEPT ![k] =
       [pc |-> "check", offered |-> {text[n] : n \in CompactBatch}, through |-> Max(CompactBatch)]]
  /\ UNCHANGED <<trail, size, text, lastNote, reading>>

\* The second call computes the batch again; a through_id outside it is refused.
CompactChecks(k) ==
  LET fits == CompactBatch # {} /\ compaction[k].through \in Min(CompactBatch)..Max(CompactBatch) IN
  /\ compaction[k].pc = "check"
  /\ compaction' = [compaction EXCEPT ![k] = IF fits THEN [@ EXCEPT !.pc = "add"] ELSE NoCompaction]
  /\ UNCHANGED <<trail, size, text, lastNote, reading>>

\* The summary becomes a note; it stands for what its writer was shown.
CompactAdds(k) ==
  /\ compaction[k].pc = "add"
  /\ AddMemoryNote(1)
  /\ compaction' = [compaction EXCEPT ![k].pc = "archive"]
  /\ UNCHANGED <<reading>>

\* ArchiveMemoryNotes: every live note up to through_id.
ArchiveMemoryNotes(k) ==
  /\ compaction[k].pc = "archive"
  /\ trail' = [n \in NoteIds |-> IF trail[n] = "live" /\ n <= compaction[k].through THEN "archived" ELSE trail[n]]
  /\ compaction' = [compaction EXCEPT ![k] = NoCompaction]
  /\ UNCHANGED <<size, text, lastNote, reading>>

\* The conversation is cut off, or a statement fails.
CompactDies(k) ==
  /\ compaction[k].pc # "idle"
  /\ compaction' = [compaction EXCEPT ![k] = NoCompaction]
  /\ UNCHANGED <<trail, size, text, lastNote, reading>>

----------------------------------------------------------------------------
(* Paged reads, newest first.                                              *)

\* listMemoryNotes: the newest PageSize + 1 below the cursor.
Older(where, before) == {n \in NotesIn(where) : before = 0 \/ n < before}
Listed(where, before, limit) ==
  LET all == Older(where, before) IN {n \in all : Cardinality(From(all, n)) <= limit}

\* memoryRead: up to the first that the budget does not take; the newest always.
ToolPage(before) ==
  LET page == Listed("live", before, PageSize)
      Takes(n) == Cardinality(From(page, n)) = 1 \/ Bytes(From(page, n)) <= Budget
  IN {n \in page : \A m \in From(page, n) : Takes(m)}

\* A cursor that names the first note that was left out.
CursorPastIt(page, where, before) ==
  LET left == Older(where, before) \ page IN IF left = {} \/ page = {} THEN 0 ELSE Max(left)

\* NextBeforeID: the last note of the page, when older ones remain.
Cursor(page, where, before) ==
  LET left == Older(where, before) \ page IN IF left = {} \/ page = {} THEN 0 ELSE Min(page)

\* A read of the live notes (memoryRead, handleMemory), or an export, starts.
ReadStarts(r, kind) ==
  /\ reading[r].pc = "idle"
  /\ reading' = [reading EXCEPT ![r] =
       [pc |-> "live", kind |-> kind, before |-> 0, seen |-> {},
        owed |-> IF kind = "export" THEN NotesIn("live") \cup NotesIn("archived") ELSE NotesIn("live")]]
  /\ UNCHANGED <<trail, size, text, lastNote, compaction>>

\* handleMemoryExport: all live notes, then all archived ones.
ExportOrder(pc) == [live |-> "live", archived |-> "archived"][pc]

PageRead(r) ==
  LET now == reading[r]
      where == IF now.kind = "export" THEN ExportOrder(now.pc) ELSE now.pc
      page == IF now.kind = "read" THEN ToolPage(now.before) ELSE Listed(where, now.before, PageSize)
      next == Cursor(page, where, now.before)
  IN
  /\ now.pc \in {"live", "archived"}
  /\ reading' = [reading EXCEPT ![r].seen = @ \cup page, ![r].before = next,
       ![r].pc = IF next # 0 THEN @
                 ELSE IF now.kind = "export" /\ @ = "live" THEN "archived" ELSE "done"]
  /\ UNCHANGED <<trail, size, text, lastNote, compaction>>

ReadEnds(r) ==
  /\ reading[r].pc = "done"
  /\ reading' = [reading EXCEPT ![r] = NoReading]
  /\ UNCHANGED <<trail, size, text, lastNote, compaction>>

----------------------------------------------------------------------------
MemoryNext ==
  \/ MemoryNote \/ DeleteMemory
  \/ \E n \in NoteIds : DeleteMemoryNote(n)
  \/ \E k \in Compactors : \/ CompactOffer(k) \/ CompactChecks(k) \/ CompactAdds(k)
                           \/ ArchiveMemoryNotes(k) \/ CompactDies(k)
  \/ \E r \in Readers : PageRead(r) \/ ReadEnds(r) \/ \E kind \in {"read", "list", "export"} : ReadStarts(r, kind)

MemorySpec == MemoryInit /\ [][MemoryNext]_memoryVars

----------------------------------------------------------------------------
\* A read that follows next_before_id to its end, and an export, miss no note that
\* was there when they began and still is, whatever is added, deleted or archived
\* while they page.
PagingMissesNothing ==
  \A r \in Readers : reading[r].pc = "done" =>
    LET there == IF reading[r].kind = "export" THEN NotesIn("live") \cup NotesIn("archived") ELSE NotesIn("live")
    IN reading[r].owed \cap there \subseteq reading[r].seen
=============================================================================
