------------------------------ MODULE TaskLog ------------------------------
(***************************************************************************)
(* The append-only log of one task.  A file is the sequence of what was    *)
(* written to it, each piece with the offset of its end: whole records,    *)
(* torn ones that neither arrived whole nor could be rolled back, and the  *)
(* marker that says that output was cut at the size limit.  Whoever        *)
(* appends holds the lock of the task, so an append is one step.           *)
(***************************************************************************)
EXTENDS TaskContext, Sequences

CONSTANTS
  MaxBytes,      \* maxTaskLogBytes
  MarkerBytes,   \* length of taskLimitRecord
  EntryBytes,    \* lengths of encoded records
  Earlier        \* lengths of what earlier runs of the task have left

ASSUME LogConstants ==
  /\ MaxBytes \in Nat /\ MarkerBytes \in Nat \ {0} /\ MarkerBytes < MaxBytes
  /\ EntryBytes \subseteq Nat \ {0}
  /\ Earlier \subseteq 0 .. (MaxBytes - MarkerBytes)

VARIABLES
  file,
  limited,     \* Store.limited: the limit was met since the program started
  confirmed    \* history: places of the records whose append returned nil

logVars == <<file, limited, confirmed>>

Piece == [kind : {"record", "torn", "marker"}, end : 1 .. MaxBytes]

LogTypeOK ==
  /\ file \in Seq(Piece) /\ limited \in BOOLEAN /\ confirmed \subseteq Nat

LogInit ==
  /\ \E n \in Earlier :
       file = IF n = 0 THEN <<>> ELSE <<[kind |-> "record", end |-> n]>>
  /\ limited = FALSE /\ confirmed = DOMAIN file

-----------------------------------------------------------------------------
(* The bounded append. *)
Size == IF file = <<>> THEN 0 ELSE file[Len(file)].end
With(kind, n) == Append(file, [kind |-> kind, end |-> Size + n])

(* Definitions named Bug... are mistakes to test the properties with (see   *)
(* TaskStatus); they are not part of the specification.                     *)
BugUsableIsAll == MaxBytes

Usable == MaxBytes - MarkerBytes

Fits(n) == Size + n <= Usable

(* hasTaskLimitRecord: the file ends with the marker. *)
Marked == file # <<>> /\ file[Len(file)].kind = "marker"

(* The process dies in the middle of a write of n bytes. *)
Torn(kind, n) == {With("torn", b) : b \in 1 .. (n - 1)} \cup {With(kind, n)}

BugRollbackToStart(kind, n, done) ==
  \/ /\ done /\ file' = With(kind, n) /\ UNCHANGED faults
  \/ /\ ~done /\ Fails(1) /\ file' = <<>>
  \/ /\ ~done /\ Fails(2) /\ file' \in Torn(kind, n)

(* A failed write or sync is rolled back; the roll back may fail as well.   *)
AppendAndSync(kind, n, done) ==
  \/ /\ done /\ file' = With(kind, n) /\ UNCHANGED faults
  \/ /\ ~done /\ Fails(1) /\ UNCHANGED file
  \/ /\ ~done /\ Fails(2) /\ file' \in Torn(kind, n)

(* The directory or the file is not what it should be, or cannot be opened. *)
OpenFails == Fails(1) /\ UNCHANGED <<file, limited, confirmed>>

(* An append of a record of n bytes; ok says that it returns nil. *)
AppendRecord(n, ok) ==
  \/ /\ ~ok /\ limited
     /\ UNCHANGED <<file, limited, confirmed, faults>>
  \/ ~ok /\ ~limited /\ OpenFails     \* or lock, stat and read
  \/ /\ ~ok /\ ~limited /\ limited' = TRUE /\ UNCHANGED confirmed
     /\ \/ (Marked \/ Size > Usable) /\ UNCHANGED <<file, faults>>
        \/ /\ ~Marked /\ ~Fits(n) /\ Size <= Usable
           /\ \E done \in BOOLEAN : AppendAndSync("marker", MarkerBytes, done)
  \/ /\ ~limited /\ ~Marked /\ Fits(n) /\ UNCHANGED limited
     /\ \/ /\ AppendAndSync("record", n, ok)
           /\ confirmed' = IF ok THEN confirmed \cup {Len(file')} ELSE confirmed
        \/ /\ ~ok /\ Fails(1)           \* unlock or close fails
           /\ file' = With("record", n) /\ UNCHANGED confirmed

(* The process ends while it appends a record of n bytes: the file is as it *)
(* was or holds a part of what was being written.                           *)
DieInAppend(n) ==
  /\ ~limited /\ ~Marked
  /\ \/ Fits(n) /\ file' \in Torn("record", n)
     \/ ~Fits(n) /\ Size <= Usable /\ file' \in Torn("marker", MarkerBytes)
  /\ UNCHANGED confirmed

RemoveLog(ok) ==
  /\ IF ok THEN UNCHANGED faults ELSE Fails(1)
  /\ \/ file' = <<>> /\ limited' = FALSE /\ confirmed' = {}
     \/ ~ok /\ UNCHANGED logVars

(* A log by itself: any appends, ends of the process and removals. *)
LogNext ==
  /\ UNCHANGED live
  /\ \/ \E n \in EntryBytes, ok \in BOOLEAN : AppendRecord(n, ok)
     \/ \E n \in EntryBytes : DieInAppend(n) /\ limited' = FALSE /\ Fails(1)
     \/ limited' = FALSE /\ UNCHANGED <<file, confirmed, faults>>
     \/ \E ok \in BOOLEAN : RemoveLog(ok)

LogSpec ==
  LogInit /\ live \in BOOLEAN /\ faults = 0
    /\ [][LogNext]_<<file, limited, confirmed, live, faults>>

(* The log keeps every record whose append was confirmed, stays within its  *)
(* limit with the marker included, and nothing comes behind the marker -    *)
(* through failed writes and roll backs, and restarts that forget that the  *)
(* limit was met.                                                           *)
LogSound ==
  /\ Size <= MaxBytes
  /\ \A i \in DOMAIN file : file[i].kind = "marker" => i = Len(file)
  /\ \A i \in confirmed : i \in DOMAIN file /\ file[i].kind = "record"

=============================================================================
