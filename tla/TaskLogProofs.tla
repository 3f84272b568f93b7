--------------------------- MODULE TaskLogProofs ---------------------------
(* Proofs about the log of a task: every append, failed or not, and every   *)
(* end of the process in one keeps the log sound.                           *)
EXTENDS TaskLog, TLAPS

(* LogSound is inductive once the types are known. *)
LogInv == LogTypeOK /\ LogSound

-----------------------------------------------------------------------------
(* Adding a piece behind an unmarked file. *)

LEMMA WithIsPiece ==
  ASSUME LogInv, NEW kind \in {"record", "torn", "marker"}, NEW n \in Nat \ {0},
         Size + n <= MaxBytes
  PROVE  /\ Size \in Nat
         /\ \E p \in Piece : p.kind = kind /\ With(kind, n) = Append(file, p)
<1>1. Size \in Nat
  <2>1. CASE file = <<>>
    BY <2>1 DEF Size
  <2>2. CASE file # <<>>
    <3>1. file[Len(file)] \in Piece
      BY <2>2 DEF LogInv, LogTypeOK
    <3> QED
      BY <2>2, <3>1, LogConstants DEF Size, Piece
  <2> QED
    BY <2>1, <2>2
<1>2. [kind |-> kind, end |-> Size + n] \in Piece
  BY <1>1, LogConstants DEF Piece
<1> QED
  BY <1>1, <1>2 DEF With

LEMMA ExtendKeeps ==
  ASSUME LogInv, NEW p \in Piece, ~Marked, file' = Append(file, p),
         limited' \in BOOLEAN,
         \/ confirmed' = confirmed
         \/ p.kind = "record" /\ confirmed' = confirmed \cup {Len(file')}
  PROVE  LogInv'
<1>1. /\ file' \in Seq(Piece) /\ Len(file') = Len(file) + 1
      /\ file'[Len(file) + 1] = p
      /\ \A i \in DOMAIN file : i \in DOMAIN file' /\ file'[i] = file[i]
  BY DEF LogInv, LogTypeOK
<1>2. LogTypeOK'
  <2>1. Len(file') \in Nat
    BY <1>1
  <2> QED
    BY <1>1, <2>1 DEF LogInv, LogTypeOK
<1>3. Size' <= MaxBytes
  BY <1>1, LogConstants DEF Size, Piece
<1>4. \A i \in DOMAIN file' : file'[i].kind = "marker" => i = Len(file')
  <2> SUFFICES ASSUME NEW i \in DOMAIN file', file'[i].kind = "marker",
                      i # Len(file')
               PROVE  FALSE
    OBVIOUS
  <2>1. i \in DOMAIN file /\ file[i].kind = "marker"
    BY <1>1 DEF LogInv, LogTypeOK
  <2>2. i = Len(file) /\ file # <<>>
    BY <2>1 DEF LogInv, LogSound
  <2> QED
    BY <2>1, <2>2 DEF Marked
<1>5. \A i \in confirmed' : i \in DOMAIN file' /\ file'[i].kind = "record"
  <2>1. \A i \in confirmed : i \in DOMAIN file' /\ file'[i].kind = "record"
    BY <1>1 DEF LogInv, LogSound
  <2>2. p.kind = "record" =>
          Len(file') \in DOMAIN file' /\ file'[Len(file')].kind = "record"
    BY <1>1 DEF LogInv, LogTypeOK
  <2> QED
    BY <2>1, <2>2
<1> QED
  BY <1>2, <1>3, <1>4, <1>5 DEF LogInv, LogSound

(* Nothing but limited changes. *)
LEMMA SameFileKeeps ==
  ASSUME LogInv, UNCHANGED <<file, confirmed>>, limited' \in BOOLEAN
  PROVE  LogInv'
BY DEF LogInv, LogTypeOK, LogSound, Size

(* A torn or whole piece. *)
LEMMA TornKeeps ==
  ASSUME LogInv, NEW kind \in {"record", "marker"}, NEW n \in Nat \ {0},
         Size + n <= MaxBytes, ~Marked, file' \in Torn(kind, n),
         UNCHANGED confirmed, limited' \in BOOLEAN
  PROVE  LogInv'
<1>1. \/ file' = With(kind, n)
      \/ \E b \in 1 .. (n - 1) : file' = With("torn", b)
  BY DEF Torn
<1>2. CASE file' = With(kind, n)
  <2>1. \E p \in Piece : file' = Append(file, p)
    BY <1>2, WithIsPiece
  <2> QED
    BY <2>1, ExtendKeeps
<1>3. CASE \E b \in 1 .. (n - 1) : file' = With("torn", b)
  <2>1. PICK b \in 1 .. (n - 1) : file' = With("torn", b)
    BY <1>3
  <2>2. Size \in Nat
    BY WithIsPiece
  <2>3. b \in Nat \ {0} /\ Size + b <= MaxBytes
    BY <2>2, LogConstants
  <2>4. \E p \in Piece : file' = Append(file, p)
    BY <2>1, <2>3, WithIsPiece
  <2> QED
    BY <2>4, ExtendKeeps
<1> QED
  BY <1>1, <1>2, <1>3

-----------------------------------------------------------------------------
(* The actions of the log. *)

LEMMA AppendAndSyncKeeps ==
  ASSUME LogInv, NEW kind \in {"record", "marker"}, NEW n \in Nat \ {0},
         NEW done \in BOOLEAN, Size + n <= MaxBytes, ~Marked,
         AppendAndSync(kind, n, done), limited' \in BOOLEAN,
         \/ UNCHANGED confirmed
         \/ done /\ kind = "record" /\ confirmed' = confirmed \cup {Len(file')}
  PROVE  LogInv'
<1>1. CASE done /\ file' = With(kind, n)
  <2>1. \E p \in Piece : p.kind = kind /\ file' = Append(file, p)
    BY <1>1, WithIsPiece
  <2> QED
    BY <2>1, ExtendKeeps
<1>2. CASE ~done /\ UNCHANGED file
  BY <1>2, SameFileKeeps
<1>3. CASE ~done /\ file' \in Torn(kind, n)
  BY <1>3, TornKeeps
<1> QED
  BY <1>1, <1>2, <1>3 DEF AppendAndSync

(* A record that fits leaves room for the marker. *)
LEMMA RoomForMarker ==
  ASSUME LogInv, NEW n \in EntryBytes
  PROVE  /\ n \in Nat \ {0} /\ MarkerBytes \in Nat \ {0}
         /\ Fits(n) => Size + n <= MaxBytes
         /\ Size <= Usable => Size + MarkerBytes <= MaxBytes
<1>1. Size \in Nat
  <2>1. CASE file = <<>>
    BY <2>1 DEF Size
  <2>2. CASE file # <<>>
    <3>1. file[Len(file)] \in Piece
      BY <2>2 DEF LogInv, LogTypeOK
    <3> QED
      BY <2>2, <3>1, LogConstants DEF Size, Piece
  <2> QED
    BY <2>1, <2>2
<1> QED
  BY <1>1, LogConstants DEF Fits, Usable

(* An append keeps the log sound, whether or not it returns nil. *)
LEMMA AppendRecordKeeps ==
  ASSUME LogInv, NEW n \in EntryBytes, NEW ok \in BOOLEAN, AppendRecord(n, ok)
  PROVE  LogInv'
<1> limited \in BOOLEAN
  BY DEF LogInv, LogTypeOK
<1>1. CASE ~ok /\ limited /\ UNCHANGED <<file, limited, confirmed, faults>>
  BY <1>1, SameFileKeeps
<1>2. CASE ~ok /\ ~limited /\ OpenFails
  BY <1>2, SameFileKeeps DEF OpenFails
<1>3. CASE /\ ~ok /\ ~limited /\ limited' = TRUE /\ UNCHANGED confirmed
           /\ (Marked \/ Size > Usable) /\ UNCHANGED <<file, faults>>
  BY <1>3, SameFileKeeps
<1>4. CASE /\ ~ok /\ ~limited /\ limited' = TRUE /\ UNCHANGED confirmed
           /\ ~Marked /\ ~Fits(n) /\ Size <= Usable
           /\ \E done \in BOOLEAN : AppendAndSync("marker", MarkerBytes, done)
  BY <1>4, RoomForMarker, AppendAndSyncKeeps
<1>5. CASE /\ ~limited /\ ~Marked /\ Fits(n) /\ UNCHANGED limited
           /\ AppendAndSync("record", n, ok)
           /\ confirmed' = IF ok THEN confirmed \cup {Len(file')} ELSE confirmed
  BY <1>5, RoomForMarker, AppendAndSyncKeeps
<1>6. CASE /\ ~limited /\ ~Marked /\ Fits(n) /\ UNCHANGED limited
           /\ file' = With("record", n) /\ UNCHANGED confirmed
  <2>1. \E p \in Piece : file' = Append(file, p)
    BY <1>6, RoomForMarker, WithIsPiece
  <2> QED
    BY <1>6, <2>1, ExtendKeeps
<1> QED
  BY <1>1, <1>2, <1>3, <1>4, <1>5, <1>6 DEF AppendRecord

LEMMA DieInAppendKeeps ==
  ASSUME LogInv, NEW n \in EntryBytes, DieInAppend(n), limited' \in BOOLEAN
  PROVE  LogInv'
BY RoomForMarker, TornKeeps DEF DieInAppend

LEMMA RemoveLogKeeps ==
  ASSUME LogInv, NEW ok \in BOOLEAN, RemoveLog(ok)
  PROVE  LogInv'
<1>1. CASE file' = <<>> /\ limited' = FALSE /\ confirmed' = {}
  <2>1. LogTypeOK'
    <3>1. file' \in Seq(Piece)
      BY <1>1
    <3>2. confirmed' \subseteq Nat
      BY <1>1
    <3>3. limited' \in BOOLEAN
      BY <1>1, Zenon
    <3> QED
      BY <3>1, <3>2, <3>3 DEF LogTypeOK
  <2>2. Size' <= MaxBytes
    BY <1>1, LogConstants DEF Size
  <2>3. \A i \in DOMAIN file' : FALSE
    BY <1>1
  <2> QED
    BY <1>1, <2>1, <2>2, <2>3 DEF LogInv, LogSound
<1>2. CASE UNCHANGED logVars
  BY <1>2, SameFileKeeps DEF logVars, LogInv, LogTypeOK
<1> QED
  BY <1>1, <1>2 DEF RemoveLog

LEMMA LogInitInv == LogInit => LogInv
<1> SUFFICES ASSUME LogInit PROVE LogInv
  OBVIOUS
<1>1. PICK n \in Earlier :
        file = IF n = 0 THEN <<>> ELSE <<[kind |-> "record", end |-> n]>>
  BY DEF LogInit
<1>2. CASE n = 0
  <2>1. file = <<>> /\ DOMAIN file = {} /\ confirmed = {} /\ limited = FALSE
    BY <1>1, <1>2 DEF LogInit
  <2>2. LogTypeOK
    <3>1. file \in Seq(Piece)
      BY <2>1
    <3>2. confirmed \subseteq Nat
      BY <2>1
    <3>3. limited \in BOOLEAN
      BY <2>1, Zenon
    <3> QED
      BY <3>1, <3>2, <3>3 DEF LogTypeOK
  <2>3. Size <= MaxBytes
    BY <2>1, LogConstants DEF Size
  <2> QED
    BY <2>1, <2>2, <2>3 DEF LogInv, LogSound
<1>3. CASE n # 0
  <2>1. [kind |-> "record", end |-> n] \in Piece
    BY <1>3, LogConstants DEF Piece
  <2>2. file \in Seq(Piece) /\ Len(file) = 1 /\ file[1].kind = "record"
        /\ file[1].end = n /\ DOMAIN file = {1}
    BY <1>1, <1>3, <2>1
  <2>3. confirmed = {1} /\ limited = FALSE
    BY <2>2 DEF LogInit
  <2>4. LogTypeOK
    <3>1. file \in Seq(Piece)
      BY <2>2, <2>3
    <3>2. confirmed \subseteq Nat
      BY <2>2, <2>3
    <3>3. limited \in BOOLEAN
      BY <2>2, <2>3, Zenon
    <3> QED
      BY <3>1, <3>2, <3>3 DEF LogTypeOK
  <2>5. Size <= MaxBytes
    <3>1. file # <<>> /\ Size = n
      BY <2>2 DEF Size
    <3> QED
      BY <3>1, LogConstants
  <2>6. \A i \in DOMAIN file : file[i].kind = "record" /\ i = Len(file)
    BY <2>2
  <2>7. \A i \in confirmed : i \in DOMAIN file
    BY <2>2, <2>3
  <2> QED
    BY <2>4, <2>5, <2>6, <2>7 DEF LogInv, LogSound
<1> QED
  BY <1>2, <1>3

-----------------------------------------------------------------------------
(* The log by itself: appended to in any way, cut at its limit, torn by      *)
(* failed writes and dying processes, and removed, it keeps every confirmed  *)
(* record, stays within its limit and has nothing behind its marker.         *)
THEOREM LogsAreSound == LogSpec => []LogSound
<1>1. LogInv /\ [LogNext]_<<file, limited, confirmed, live, faults>> => LogInv'
  <2> SUFFICES ASSUME LogInv, [LogNext]_<<file, limited, confirmed, live, faults>>
               PROVE  LogInv'
    OBVIOUS
  <2> limited \in BOOLEAN
    BY DEF LogInv, LogTypeOK
  <2>1. CASE \E n \in EntryBytes, ok \in BOOLEAN : AppendRecord(n, ok)
    BY <2>1, AppendRecordKeeps
  <2>2. CASE \E n \in EntryBytes : DieInAppend(n) /\ limited' = FALSE /\ Fails(1)
    BY <2>2, DieInAppendKeeps
  <2>3. CASE limited' = FALSE /\ UNCHANGED <<file, confirmed, faults>>
    BY <2>3, SameFileKeeps
  <2>4. CASE \E ok \in BOOLEAN : RemoveLog(ok)
    BY <2>4, RemoveLogKeeps
  <2>5. CASE UNCHANGED <<file, limited, confirmed, live, faults>>
    BY <2>5, SameFileKeeps
  <2> QED
    BY <2>1, <2>2, <2>3, <2>4, <2>5 DEF LogNext
<1>2. LogInv => LogSound
  BY DEF LogInv
<1> QED
  BY <1>1, <1>2, LogInitInv, PTL DEF LogSpec

=============================================================================
