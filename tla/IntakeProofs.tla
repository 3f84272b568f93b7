---------------------------- MODULE IntakeProofs ----------------------------
(***************************************************************************)
(* Proofs about Intake for any number of workers and any capacities: until *)
(* something stops no message is lost or reordered, the queue is closed    *)
(* only behind its producer, and a clean stop leaves nothing running.      *)
(***************************************************************************)
EXTENDS Intake, SequenceTheorems, TLAPS

USE IntakeConstants

-----------------------------------------------------------------------------
(* Facts about sequences. *)

(* A sequence is its head and its tail. *)
LEMMA HeadAndTail ==
  ASSUME NEW S, NEW s \in Seq(S), s # <<>>
  PROVE  /\ <<Head(s)>> \in Seq(S) /\ Tail(s) \in Seq(S)
         /\ <<Head(s)>> \o Tail(s) = s
<1>1. /\ Head(s) \in S /\ Tail(s) \in Seq(S) /\ Len(Tail(s)) = Len(s) - 1
      /\ \A i \in 1 .. Len(Tail(s)) : Tail(s)[i] = s[i + 1]
  BY HeadTailProperties
<1>2. <<Head(s)>> \in Seq(S) /\ Len(<<Head(s)>>) = 1 /\ <<Head(s)>>[1] = Head(s)
  BY <1>1
<1>3. Head(s) = s[1] /\ Len(s) \in Nat \ {0}
  BY EmptySeq
<1> DEFINE t == <<Head(s)>> \o Tail(s)
<1>4. /\ t \in Seq(S) /\ Len(t) = 1 + Len(Tail(s))
      /\ \A i \in 1 .. 1 + Len(Tail(s)) : t[i] =
           IF i <= 1 THEN <<Head(s)>>[i] ELSE Tail(s)[i - 1]
  BY <1>1, <1>2, ConcatProperties
<1> HIDE DEF t
<1>5. \A i \in 1 .. Len(t) : t[i] = s[i]
  BY <1>1, <1>2, <1>3, <1>4
<1>6. t = s
  BY <1>1, <1>3, <1>4, <1>5, SeqEqual
<1> QED
  BY <1>1, <1>2, <1>6 DEF t

(* Concatenations of messages can be regrouped. *)
LEMMA Regroup == \A s, t, u \in Seq(Number) : (s \o t) \o u = s \o (t \o u)
  BY ConcatAssociative

(* Their types and lengths, and the empty one. *)
LEMMA Concats ==
  /\ \A s, t \in Seq(Number) : s \o t \in Seq(Number) /\ Len(s \o t) = Len(s) + Len(t)
  /\ \A s \in Seq(Number) : s \o <<>> = s /\ <<>> \o s = s /\ Len(s) \in Nat
  /\ <<>> \in Seq(Number) /\ Len(<<>>) = 0
<1>1. \A s, t \in Seq(Number) : s \o t \in Seq(Number) /\ Len(s \o t) = Len(s) + Len(t)
  BY ConcatProperties
<1>2. \A s \in Seq(Number) : s \o <<>> = s /\ <<>> \o s = s /\ Len(s) \in Nat
  BY ConcatEmptySeq, LenProperties
<1> QED
  BY <1>1, <1>2, EmptySeq

(* Handing the first message on keeps the order. *)
LEMMA HandOn ==
  ASSUME NEW S, NEW a \in Seq(S), NEW s \in Seq(S), s # <<>>
  PROVE  Append(a, Head(s)) \o Tail(s) = a \o s
<1>1. Head(s) \in S /\ <<Head(s)>> \in Seq(S) /\ Tail(s) \in Seq(S)
  BY HeadTailProperties, HeadAndTail
<1>2. Append(a, Head(s)) = a \o <<Head(s)>>
  BY <1>1, AppendIsConcat
<1>3. (a \o <<Head(s)>>) \o Tail(s) = a \o (<<Head(s)>> \o Tail(s))
  BY <1>1, ConcatAssociative
<1> QED
  BY <1>2, <1>3, HeadAndTail

(* Appending to a counting sequence. *)
LEMMA CountOn ==
  ASSUME NEW S, NEW s \in Seq(S), NEW n \in Nat, n + 1 \in S,
         Len(s) = n, \A i \in 1 .. n : s[i] = i
  PROVE  /\ Len(s \o <<n + 1>>) = n + 1
         /\ \A i \in 1 .. n + 1 : (s \o <<n + 1>>)[i] = i
<1>1. /\ Append(s, n + 1) = s \o <<n + 1>>
      /\ Len(Append(s, n + 1)) = n + 1 /\ Append(s, n + 1)[n + 1] = n + 1
      /\ \A i \in 1 .. n : Append(s, n + 1)[i] = s[i]
  BY AppendProperties, AppendIsConcat
<1> QED
  BY <1>1

-----------------------------------------------------------------------------
(* The invariant holds initially and is preserved. *)

LEMMA InitIInv == Init => IInv
<1> SUFFICES ASSUME Init PROVE IInv
  OBVIOUS
<1> USE DEF Init
<1>1. <<>> \in Seq(Number) /\ Len(<<>>) = 0
  BY EmptySeq
<1>2. TypeOK
  <2>1. Idle \in Job
    BY DEF Idle, Job
  <2>2. AppTypes /\ PeerTypes
    <3>1. fatal \in BOOLEAN /\ closed \in BOOLEAN /\ up \in BOOLEAN
      BY Zenon
    <3>2. 0 \in 0 .. MaxFaults /\ 0 \in 0 .. MaxSessions /\ 0 \in 0 .. MaxMessages
          /\ 0 \in 0 .. 0
      OBVIOUS
    <3> QED
      BY <3>1, <3>2 DEF AppTypes, PeerTypes
  <2>3. QueueTypes
    BY <1>1 DEF QueueTypes
  <2> QED
    BY <2>1, <2>2, <2>3 DEF TypeOK
<1>3. ResultsSound /\ JoinSound /\ CleanStop
  BY DEF ResultsSound, JoinSound, CleanStop
<1>4. <<>> \o <<>> = <<>>
  BY <1>1, Concats
<1>5. NothingLost
  BY <1>1, <1>4 DEF NothingLost, Pipeline
<1>6. QueueSound
  BY <1>4 DEF QueueSound, Cancelled, Idle
<1> QED
  BY <1>2, <1>3, <1>5, <1>6 DEF IInv

(* The invariant after a step of the client. *)
LEMMA ClientIInv ==
  ASSUME IInv, Dial \/ Event \/ ClientRuns \/ PeerCloses
  PROVE  IInv'
<1> USE DEF IInv, ClientSame, appVars
<1>1. UNCHANGED <<main, joined, outcome, closed, cancelled, fatal, scheduler,
                  workers, faults, handler, held, messages, accepted, dispatched>>
  BY DEF ClientRuns, Dial, Backlog, ReadFails, ClientEnds, Event, PeerCloses,
         EndSession
<1>2. /\ events \in Seq(Number) /\ overflow \in Seq(Number)
      /\ held \in Seq(Number) /\ accepted \in Seq(Number)
  BY DEF TypeOK, QueueTypes
<1>3. CASE Event
  <2>1. /\ arrived \in Nat /\ arrived' = arrived + 1 /\ arrived' \in Number
        /\ overflow = <<>>
    BY <1>3 DEF Event, TypeOK, AppTypes, PeerTypes, QueueTypes, Number, ResultsSound
  <2>2. <<arrived'>> \in Seq(Number) /\ Len(<<arrived'>>) = 1
    BY <2>1
  <2>3. /\ events' \in Seq(Number) /\ overflow' \in Seq(Number)
        /\ Len(events') <= EventQueue /\ Len(overflow') <= 1
        /\ events' \o overflow' = events \o <<arrived'>>
    <3>1. CASE Len(events) < EventQueue
      <4>1. events' = Append(events, arrived') /\ overflow' = <<>>
        BY <1>3, <2>1, <3>1 DEF Event
      <4>2. /\ Append(events, arrived') \in Seq(Number)
            /\ Append(events, arrived') = events \o <<arrived'>>
            /\ Len(Append(events, arrived')) = Len(events) + 1
        BY <1>2, <2>1, AppendProperties, AppendIsConcat
      <4>3. Append(events, arrived') \o <<>> = Append(events, arrived')
        BY <4>2, Concats
      <4>4. <<>> \in Seq(Number) /\ Len(<<>>) = 0 /\ Len(events) \in Nat
        BY <1>2, EmptySeq, LenProperties
      <4> QED
        BY <3>1, <4>1, <4>2, <4>3, <4>4
    <3>2. CASE ~(Len(events) < EventQueue)
      <4>1. events' = events /\ overflow' = <<arrived'>> /\ Len(events) <= EventQueue
        BY <1>3, <3>2 DEF Event, TypeOK, QueueTypes
      <4> QED
        BY <1>2, <2>2, <4>1
    <3> QED
      BY <3>1, <3>2
  <2>4. TypeOK'
    <3>1. AppTypes'
      BY <1>1, <1>3 DEF Event, TypeOK, AppTypes
    <3>2. PeerTypes'
      <4>1. up' \in BOOLEAN
        BY <1>3, Zenon DEF Event, TypeOK, PeerTypes
      <4>2. UNCHANGED <<session, active>> /\ client' \in {"read", "backlog"}
        BY <1>3 DEF Event
      <4>3. arrived' \in 0 .. MaxMessages
        BY <2>1 DEF Number
      <4> QED
        BY <4>1, <4>2, <4>3 DEF TypeOK, PeerTypes
    <3>3. QueueTypes'
      BY <1>1, <2>3 DEF TypeOK, QueueTypes
    <3> QED
      BY <1>1, <3>1, <3>2, <3>3 DEF TypeOK
  <2>5. ResultsSound' /\ JoinSound' /\ QueueSound' /\ CleanStop'
    <3>1. /\ posted' = posted /\ client # "done" /\ client' # "done"
          /\ client' # "backlog" => overflow' = <<>>
      BY <1>3, <2>1 DEF Event
    <3> QED
      BY <1>1, <3>1 DEF ResultsSound, JoinSound, QueueSound, CleanStop, Cancelled
  <2>6. Pipeline' = Pipeline \o <<arrived'>>
    <3> DEFINE a == accepted \o held
    <3>1. a \in Seq(Number) /\ a' = a /\ Pipeline = (a \o events) \o <<>>
      BY <1>1, <1>2, <2>1, Concats DEF Pipeline
    <3>2. Pipeline' = (a \o events') \o overflow'
      BY <1>1 DEF Pipeline
    <3> HIDE DEF a
    <3>3. Pipeline = a \o events
      BY <1>2, <3>1, Concats
    <3>4. (a \o events') \o overflow' = a \o (events' \o overflow')
      BY <2>3, <3>1, Regroup
    <3>5. (a \o events) \o <<arrived'>> = a \o (events \o <<arrived'>>)
      <4>1. a \in Seq(Number) /\ events \in Seq(Number) /\ <<arrived'>> \in Seq(Number)
        BY <1>2, <2>2, <3>1
      <4> QED
        BY <4>1, Regroup, Zenon
    <3> QED
      BY <2>3, <3>2, <3>3, <3>4, <3>5
  <2>7. NothingLost'
    <3>1. Pipeline \in Seq(Number)
      BY <1>2, Concats DEF Pipeline
    <3> SUFFICES ASSUME cancelled = {}
                 PROVE  /\ Len(Pipeline') = arrived'
                        /\ \A i \in 1 .. arrived' : Pipeline'[i] = i
      BY <1>1 DEF NothingLost
    <3>2. Len(Pipeline) = arrived /\ \A i \in 1 .. arrived : Pipeline[i] = i
      BY DEF NothingLost
    <3>3. /\ Len(Pipeline \o <<arrived + 1>>) = arrived + 1
          /\ \A i \in 1 .. arrived + 1 : (Pipeline \o <<arrived + 1>>)[i] = i
      BY <2>1, <3>1, <3>2, CountOn
    <3> QED
      BY <2>1, <2>6, <3>3
  <2> QED
    BY <2>4, <2>5, <2>7
<1>4. CASE Backlog
  <2>1. UNCHANGED <<session, arrived, posted>> /\ overflow' = <<>> /\ client # "done"
    BY <1>4 DEF Backlog, EndSession
  <2>2. <<>> \in Seq(Number) /\ Len(<<>>) = 0
    BY EmptySeq
  <2>3. /\ events' \in Seq(Number) /\ Len(events') <= EventQueue
        /\ cancelled = {} => events' = events \o overflow
    <3>1. /\ events \o overflow \in Seq(Number)
          /\ Len(events \o overflow) = Len(events) + Len(overflow)
          /\ Len(events) \in Nat /\ Len(overflow) \in Nat
      BY <1>2, Concats
    <3> QED
      <4>1. Len(events) <= EventQueue /\ Len(overflow) <= 1 /\ EventQueue \in Nat
        BY DEF TypeOK, QueueTypes
      <4>2. CASE Len(events) < EventQueue /\ events' = events \o overflow
        BY <3>1, <4>1, <4>2
      <4>3. CASE Stopping /\ events' = events
        BY <1>2, <4>1, <4>3 DEF Stopping
      <4> QED
        BY <1>4, <4>2, <4>3 DEF Backlog
  <2>4. TypeOK'
    <3>1. AppTypes'
      BY <1>1, <2>1 DEF TypeOK, AppTypes
    <3>2. PeerTypes'
      <4>1. up' \in BOOLEAN
        BY <1>4, Zenon DEF Backlog, EndSession
      <4>2. active' = 0 /\ client' \in {"drain", "dial"}
        BY <1>4 DEF Backlog, EndSession
      <4> QED
        BY <2>1, <4>1, <4>2 DEF TypeOK, PeerTypes
    <3>3. QueueTypes'
      BY <1>1, <2>1, <2>2, <2>3 DEF TypeOK, QueueTypes
    <3> QED
      BY <1>1, <3>1, <3>2, <3>3 DEF TypeOK
  <2>5. ResultsSound' /\ JoinSound' /\ QueueSound' /\ CleanStop'
    BY <1>1, <1>4, <2>1 DEF Backlog, EndSession, ResultsSound, JoinSound, QueueSound,
                            CleanStop, Cancelled
  <2>6. cancelled = {} => Pipeline' = Pipeline
    <3> SUFFICES ASSUME cancelled = {} PROVE Pipeline' = Pipeline
      OBVIOUS
    <3> DEFINE a == accepted \o held
    <3>1. a \in Seq(Number) /\ a' = a
      BY <1>1, <1>2, Concats
    <3>2. Pipeline = (a \o events) \o overflow /\ Pipeline' = (a \o events') \o <<>>
      BY <1>1, <2>1 DEF Pipeline
    <3> HIDE DEF a
    <3>3. (a \o events') \o <<>> = a \o events'
      BY <2>3, <3>1, Concats
    <3>4. (a \o events) \o overflow = a \o (events \o overflow)
      BY <1>2, <3>1, Regroup
    <3> QED
      BY <2>3, <3>2, <3>3, <3>4
  <2>7. NothingLost'
    BY <1>1, <2>1, <2>6 DEF NothingLost
  <2> QED
    BY <2>4, <2>5, <2>7
<1>5. CASE Dial \/ ReadFails \/ ClientEnds \/ PeerCloses
  <2>1. UNCHANGED <<arrived, events, overflow>>
    BY <1>5 DEF Dial, ReadFails, ClientEnds, PeerCloses, EndSession
  <2>2. TypeOK'
    <3>1. AppTypes'
      <4>1. posted' = posted \/ posted' = posted \cup {"onebot"}
        BY <1>5 DEF Dial, ReadFails, ClientEnds, PeerCloses, EndSession
      <4>2. ClientSame
        BY <1>5 DEF Dial, ReadFails, ClientEnds, PeerCloses, EndSession
      <4> QED
        BY <1>1, <4>1, <4>2 DEF ClientSame, TypeOK, AppTypes, Loop
    <3>2. PeerTypes'
      <4>1. up' \in BOOLEAN
        BY <1>5, Zenon DEF Dial, ReadFails, ClientEnds, PeerCloses, EndSession,
                           TypeOK, PeerTypes
      <4>2. session' \in 0 .. MaxSessions /\ active' \in 0 .. session'
        BY <1>5 DEF Dial, ReadFails, ClientEnds, PeerCloses, EndSession,
                    TypeOK, PeerTypes
      <4>3. client' \in {"dial", "read", "backlog", "drain", "done"}
        BY <1>5 DEF Dial, ReadFails, ClientEnds, PeerCloses, EndSession,
                    TypeOK, PeerTypes
      <4> QED
        BY <2>1, <4>1, <4>2, <4>3 DEF TypeOK, PeerTypes
    <3>3. QueueTypes'
      BY <1>1, <2>1 DEF TypeOK, QueueTypes
    <3> QED
      BY <1>1, <3>1, <3>2, <3>3 DEF TypeOK
  <2>3. ResultsSound' /\ JoinSound'
    BY <1>1, <1>5, <2>1 DEF Dial, ReadFails, ClientEnds, PeerCloses, EndSession,
                            ResultsSound, JoinSound
  <2>4. CleanStop'
    BY <1>1, <1>5 DEF Dial, ReadFails, ClientEnds, PeerCloses, EndSession, CleanStop
  <2>5. QueueSound' /\ NothingLost'
    BY <1>1, <2>1 DEF QueueSound, NothingLost, Pipeline, Cancelled
  <2> QED
    BY <2>2, <2>3, <2>4, <2>5
<1> QED
  BY <1>3, <1>4, <1>5 DEF ClientRuns

(* The invariant after a step of the handler goroutine. *)
LEMMA HandlerIInv ==
  ASSUME IInv, Receive \/ Put
  PROVE  IInv'
<1> USE DEF IInv, HandlerSame, appVars, peerVars
<1>1. UNCHANGED <<main, joined, outcome, closed, cancelled, fatal, posted, scheduler,
                  client, session, up, active, arrived, overflow, dispatched,
                  workers, faults>>
  BY DEF Receive, Put
<1>2. /\ events \in Seq(Number) /\ overflow \in Seq(Number)
      /\ held \in Seq(Number) /\ messages \in Seq(Number)
      /\ accepted \in Seq(Number) /\ dispatched \in Seq(Number)
  BY DEF TypeOK, QueueTypes
<1>3. <<>> \in Seq(Number) /\ Len(<<>>) = 0
  BY EmptySeq
<1>4. CASE Receive
  <2>1. UNCHANGED <<messages, accepted>> /\ held = <<>> /\ handler = "recv"
    BY <1>4 DEF Receive
  <2>2. CASE Stopping
    <3>1. /\ held' = held /\ handler' = "done"
          /\ events' = events \/ (events # <<>> /\ events' = Tail(events))
      BY <1>4, <2>2 DEF Receive, OneLess
    <3>a. events' \in Seq(Number) /\ Len(events') <= EventQueue
      <4>1. Len(events) <= EventQueue /\ EventQueue \in Nat
        BY DEF TypeOK, QueueTypes
      <4>2. CASE events # <<>> /\ events' = Tail(events)
        <5>1. /\ events \in Seq(Number) /\ Tail(events) \in Seq(Number)
              /\ Len(Tail(events)) = Len(events) - 1 /\ Len(events) \in Nat
          BY <1>2, <4>2, HeadTailProperties, LenProperties
        <5> QED
          BY <4>1, <4>2, <5>1
      <4> QED
        BY <1>2, <3>1, <4>1, <4>2
    <3>2. TypeOK'
      BY <1>1, <2>1, <3>1, <3>a DEF TypeOK, AppTypes, PeerTypes, QueueTypes
    <3>3. ResultsSound' /\ JoinSound' /\ QueueSound' /\ CleanStop'
      BY <1>1, <2>1, <3>1 DEF ResultsSound, JoinSound, QueueSound, CleanStop, Cancelled
    <3>4. NothingLost'
      BY <1>1, <2>2 DEF NothingLost, Stopping
    <3> QED
      BY <3>2, <3>3, <3>4
  <2>3. CASE ~Stopping
    <3>1. /\ events # <<>> /\ held' = <<Head(events)>> /\ events' = Tail(events)
          /\ handler' = handler
      BY <1>4, <2>3 DEF Receive
    <3>2. /\ held' \in Seq(Number) /\ events' \in Seq(Number)
          /\ held' \o events' = events /\ Len(held') = 1
          /\ Len(events') = Len(events) - 1 /\ Len(events) \in Nat
      BY <1>2, <3>1, HeadAndTail, HeadTailProperties, LenProperties
    <3>3. TypeOK'
      BY <1>1, <1>2, <2>1, <3>1, <3>2 DEF TypeOK, AppTypes, PeerTypes, QueueTypes
    <3>4. ResultsSound' /\ JoinSound' /\ QueueSound' /\ CleanStop'
      BY <1>1, <2>1, <3>1 DEF ResultsSound, JoinSound, QueueSound, CleanStop, Cancelled
    <3>5. Pipeline' = Pipeline
      <4>1. Pipeline = (accepted \o events) \o overflow
        BY <1>2, <2>1, Concats DEF Pipeline
      <4>2. Pipeline' = ((accepted \o held') \o events') \o overflow
        BY <1>1, <2>1 DEF Pipeline
      <4>3. (accepted \o held') \o events' = accepted \o events
        <5>1. accepted \in Seq(Number)
          BY <1>2
        <5>2. held' \in Seq(Number) /\ events' \in Seq(Number)
          BY <3>2
        <5>3. (accepted \o held') \o events' = accepted \o (held' \o events')
          BY <5>1, <5>2, Regroup
        <5> QED
          BY <3>2, <5>3
      <4> QED
        BY <4>1, <4>2, <4>3
    <3>6. NothingLost'
      BY <1>1, <2>1, <3>5 DEF NothingLost
    <3> QED
      BY <3>3, <3>4, <3>6
  <2> QED
    BY <2>2, <2>3
<1>5. CASE Put
  <2>1. /\ held # <<>> /\ held' = <<>> /\ UNCHANGED <<events, handler>>
        /\ handler # "done"
    BY <1>5 DEF Put, ResultsSound
  <2>2. ~closed /\ client # "done" /\ main \notin {"drain"}
    BY <2>1 DEF ResultsSound, JoinSound, TypeOK, AppTypes, PeerTypes, QueueTypes, Loop
  <2>3. CASE Stopping /\ UNCHANGED <<messages, accepted>>
    BY <1>1, <1>3, <2>1, <2>2, <2>3 DEF Stopping, TypeOK, AppTypes, PeerTypes, QueueTypes, ResultsSound, JoinSound,
       QueueSound, NothingLost, CleanStop, Cancelled
  <2>4. CASE /\ Len(messages) < MessageQueue
             /\ messages' = messages \o held /\ accepted' = accepted \o held
    <3>1. /\ messages' \in Seq(Number) /\ accepted' \in Seq(Number)
          /\ Len(messages') = Len(messages) + Len(held)
          /\ Len(messages) \in Nat /\ Len(held) \in Nat
      BY <1>2, <2>4, Concats
    <3>2. TypeOK'
      BY <1>1, <1>2, <1>3, <2>1, <2>4, <3>1 DEF TypeOK, AppTypes, PeerTypes, QueueTypes
    <3>3. ResultsSound' /\ JoinSound' /\ CleanStop'
      BY <1>1, <2>1, <2>2 DEF ResultsSound, JoinSound, CleanStop
    <3>4. dispatched \o messages = accepted => dispatched' \o messages' = accepted'
      <4>1. (dispatched \o messages) \o held = dispatched \o (messages \o held)
        BY <1>2, Regroup
      <4> QED
        BY <1>1, <2>4, <4>1
    <3>5. QueueSound'
      BY <1>1, <2>2, <3>4 DEF QueueSound, Cancelled
    <3>6. Pipeline' = Pipeline
      <4>1. accepted' \o held' = accepted \o held
        BY <2>1, <2>4, <3>1, Concats
      <4> QED
        BY <1>1, <2>1, <4>1 DEF Pipeline
    <3>7. NothingLost'
      BY <1>1, <3>4, <3>6 DEF NothingLost
    <3> QED
      BY <3>2, <3>3, <3>5, <3>7
  <2> QED
    BY <1>5, <2>3, <2>4 DEF Put
<1> QED
  BY <1>4, <1>5

-----------------------------------------------------------------------------
(* The records that the actions assign to a worker. *)
LEMMA IdleJob ==
  /\ Idle \in Job /\ Idle.pc = "recv"
  /\ [Idle EXCEPT !.pc = "done"] \in Job
  BY DEF Idle, Job

LEMMA JobAt ==
  ASSUME NEW j \in Job, NEW pc \in {"recv", "handle", "wait", "done"}
  PROVE  [j EXCEPT !.pc = pc] \in Job /\ [j EXCEPT !.pc = pc].pc = pc
  BY DEF Job

LEMMA JobAgain ==
  ASSUME NEW j \in Job, NEW n \in 1 .. Attempts
  PROVE  /\ [j EXCEPT !.pc = "handle", !.attempt = n] \in Job
         /\ [j EXCEPT !.pc = "handle", !.attempt = n].pc = "handle"
  BY DEF Job

LEMMA JobSent ==
  ASSUME NEW j \in Job, NEW n \in 0 .. MaxSessions
  PROVE  /\ [j EXCEPT !.pc = "wait", !.session = n] \in Job
         /\ [j EXCEPT !.pc = "wait", !.session = n].pc = "wait"
  BY DEF Job

(* A step of a worker changes its own record, and ends it only when it      *)
(* takes no further message or has met a fatal error.                       *)
Moves(w) ==
  /\ workers[w].pc # "done"
  /\ \E j \in Job : /\ workers' = [workers EXCEPT ![w] = j]
                    /\ j.pc = "done" => Take(w) \/ FatalStore(w)

LEMMA WorkerMoves ==
  ASSUME TypeOK, NEW w \in Worker, WorkerStep(w) \/ Answer(w) \/ FatalStore(w)
  PROVE  Moves(w)
<1> USE DEF Moves
<1>1. /\ workers \in [Worker -> Job] /\ workers[w] \in Job
      /\ workers[w].attempt \in 1 .. Attempts
  BY DEF TypeOK, Job
<1>2. workers[w].pc # "done"
  BY DEF WorkerStep, Take, Handle, RequestFails, Answer, FatalStore
<1>3. ASSUME NEW pc \in {"recv", "handle", "wait", "done"}, Go(w, pc)
      PROVE  \E j \in Job : workers' = [workers EXCEPT ![w] = j] /\ j.pc = pc
  <2> DEFINE j == [workers[w] EXCEPT !.pc = pc]
  <2>1. j \in Job /\ j.pc = pc
    BY <1>1, <1>3, JobAt
  <2>2. workers' = [workers EXCEPT ![w] = j]
    BY <1>1, <1>3 DEF Go
  <2> QED
    BY <2>1, <2>2
<1>4. ASSUME Handled(w)
      PROVE  \E j \in Job : workers' = [workers EXCEPT ![w] = j] /\ j.pc = "recv"
  BY <1>1, <1>4, IdleJob DEF Handled
<1>5. ASSUME Undelivered(w)
      PROVE  \E j \in Job : workers' = [workers EXCEPT ![w] = j] /\ j.pc # "done"
  <2>1. CASE Handled(w)
    BY <1>4, <2>1
  <2>2. CASE /\ workers[w].attempt < Attempts
             /\ workers' = [workers EXCEPT ![w] =
                  [Idle EXCEPT !.pc = "handle", !.attempt = workers[w].attempt + 1]]
    <3> DEFINE n == workers[w].attempt + 1
               j == [Idle EXCEPT !.pc = "handle", !.attempt = n]
    <3>1. n \in 1 .. Attempts
      BY <1>1, <2>2
    <3>2. j \in Job /\ j.pc = "handle"
      <4> HIDE DEF n
      <4> QED
        BY <3>1, IdleJob, JobAgain
    <3>3. workers' = [workers EXCEPT ![w] = j]
      BY <2>2
    <3> HIDE DEF j
    <3> QED
      BY <3>2, <3>3
  <2> QED
    BY <1>5, <2>1, <2>2 DEF Undelivered
<1>6. CASE Take(w)
  <2>1. Go(w, "done") \/ Go(w, "handle")
    BY <1>6 DEF Take
  <2> QED
    BY <1>2, <1>3, <1>6, <2>1
<1>7. CASE FatalStore(w)
  <2>1. Idle \in Job /\ [Idle EXCEPT !.pc = "done"] \in Job
    BY IdleJob
  <2>2. workers' = [workers EXCEPT ![w] = [Idle EXCEPT !.pc = "done"]]
    BY <1>7 DEF FatalStore
  <2> QED
    BY <1>2, <1>7, <2>1, <2>2
<1>8. CASE Handle(w)
  <2>1. CASE Handled(w) \/ Undelivered(w)
    BY <1>2, <1>4, <1>5, <2>1
  <2>2. CASE workers' = [workers EXCEPT ![w].pc = "wait", ![w].session = active]
    <3> DEFINE j == [workers[w] EXCEPT !.pc = "wait", !.session = active]
    <3>1. active \in 0 .. MaxSessions
      BY DEF TypeOK, PeerTypes
    <3>2. j \in Job /\ j.pc = "wait"
      BY <1>1, <3>1, JobSent
    <3>3. workers' = [workers EXCEPT ![w] = j]
      BY <1>1, <2>2
    <3> QED
      BY <1>2, <3>2, <3>3
  <2> QED
    BY <1>8, <2>1, <2>2 DEF Handle
<1>9. CASE RequestFails(w)
  BY <1>2, <1>5, <1>9 DEF RequestFails
<1>10. CASE Answer(w)
  BY <1>2, <1>4, <1>5, <1>10 DEF Answer
<1> QED
  BY <1>6, <1>7, <1>8, <1>9, <1>10 DEF WorkerStep

(* The invariant after a step of a worker. *)
LEMMA WorkerIInv ==
  ASSUME IInv, NEW w \in Worker, WorkerStep(w) \/ Answer(w) \/ FatalStore(w)
  PROVE  IInv'
<1>0. workers[w].pc # "done" /\ Moves(w)
  BY WorkerMoves DEF Moves, IInv
<1>2. SUFFICES ASSUME NEW j \in Job, workers' = [workers EXCEPT ![w] = j],
                      j.pc = "done" => Take(w) \/ FatalStore(w)
               PROVE  IInv'
  BY <1>0 DEF Moves
<1> USE DEF IInv
<1>1. UNCHANGED <<main, joined, outcome, closed, posted, scheduler, client, session,
                  up, active, arrived, overflow, events, handler, held, accepted>>
  BY DEF WorkerStep, Take, Handle, RequestFails, Answer, FatalStore, WorkerSame,
         appVars, peerVars
<1>3. /\ workers' \in [Worker -> Job] /\ workers[w].pc # "done" /\ workers'[w] = j
      /\ \A v \in Worker : v # w => workers'[v] = workers[v]
  BY <1>0, <1>2 DEF TypeOK
<1>4. /\ messages \in Seq(Number) /\ dispatched \in Seq(Number)
      /\ Len(messages) <= MessageQueue
  BY DEF TypeOK, QueueTypes
<1>5. ResultsSound' /\ JoinSound'
  BY <1>1 DEF ResultsSound, JoinSound
<1>6. CleanStop'
  BY <1>1, <1>3 DEF CleanStop
<1>7. PeerTypes'
  BY <1>1 DEF TypeOK, PeerTypes
<1>8. Pipeline' = Pipeline
  BY <1>1 DEF Pipeline
<1>9. CASE FatalStore(w)
  <2>1. UNCHANGED <<messages, dispatched>> /\ cancelled' = cancelled \cup {"workers"}
    BY <1>9 DEF FatalStore, Queues, Report
  <2>2. fatal' = TRUE /\ faults' \in 0 .. MaxFaults
    BY <1>9 DEF FatalStore, Report, Fault, TypeOK, AppTypes
  <2>3. AppTypes'
    <3>1. fatal' \in BOOLEAN
      BY <2>2, Zenon
    <3> QED
      BY <1>1, <2>1, <2>2, <3>1 DEF TypeOK, AppTypes
  <2>4. QueueTypes'
    BY <1>1, <2>1 DEF TypeOK, QueueTypes
  <2>5. QueueSound' /\ NothingLost'
    BY <2>1, <2>2 DEF QueueSound, NothingLost, Cancelled
  <2> QED
    BY <1>3, <1>5, <1>6, <1>7, <2>3, <2>4, <2>5 DEF TypeOK
<1>10. CASE ~FatalStore(w)
  <2>1. UNCHANGED <<cancelled, fatal, faults>>
    BY <1>10 DEF WorkerStep, Take, Handle, RequestFails, Answer, Quiet
  <2>2. AppTypes'
    BY <1>1, <2>1 DEF TypeOK, AppTypes
  <2>3. CASE Cancelled /\ Take(w)
    <3>1. messages' = messages \/ (messages # <<>> /\ messages' = Tail(messages))
      BY <2>3 DEF Take, OneLess, Queues
    <3>2. dispatched' = dispatched
      BY <2>3 DEF Take, Queues
    <3>3. messages' \in Seq(Number) /\ Len(messages') <= MessageQueue
      BY <1>4, <3>1, HeadTailProperties, LenProperties
    <3>4. QueueTypes'
      BY <1>1, <3>2, <3>3 DEF TypeOK, QueueTypes
    <3>5. QueueSound' /\ NothingLost'
      BY <1>1, <2>1, <2>3 DEF QueueSound, NothingLost, Cancelled
    <3> QED
      BY <1>3, <1>5, <1>6, <1>7, <2>2, <3>4, <3>5 DEF TypeOK
  <2>4. CASE ~Cancelled /\ messages # <<>> /\ Take(w)
    <3>1. /\ messages' = Tail(messages) /\ Go(w, "handle")
          /\ dispatched' = Append(dispatched, Head(messages))
      BY <2>4 DEF Take
    <3>2. /\ messages' \in Seq(Number) /\ dispatched' \in Seq(Number)
          /\ Len(messages') <= MessageQueue
      BY <1>4, <2>4, <3>1, HeadTailProperties, AppendProperties, LenProperties
    <3>3. dispatched' \o messages' = dispatched \o messages
      BY <1>4, <2>4, <3>1, HandOn
    <3>4. QueueTypes'
      BY <1>1, <3>2 DEF TypeOK, QueueTypes
    <3>5. workers'[w].pc = "handle"
      BY <1>3, <3>1 DEF Go, TypeOK, Job
    <3>6. QueueSound'
      BY <1>1, <1>3, <2>1, <2>4, <3>3, <3>5 DEF QueueSound, Cancelled
    <3>7. NothingLost'
      BY <1>1, <1>8, <2>1, <3>3 DEF NothingLost
    <3> QED
      BY <1>3, <1>5, <1>6, <1>7, <2>2, <3>4, <3>6, <3>7 DEF TypeOK
  <2>5. CASE ~Take(w) \/ (~Cancelled /\ messages = <<>>)
    <3>1. /\ UNCHANGED <<messages, dispatched>>
          /\ j.pc = "done" => Cancelled \/ (closed /\ messages = <<>>)
      BY <1>2, <1>10, <2>5 DEF WorkerStep, Take, Handle, RequestFails, Answer, Queues
    <3>2. QueueTypes'
      BY <1>1, <3>1 DEF TypeOK, QueueTypes
    <3>3. QueueSound'
      BY <1>1, <1>3, <2>1, <3>1 DEF QueueSound, Cancelled
    <3>4. NothingLost'
      BY <1>1, <1>8, <2>1, <3>1 DEF NothingLost
    <3> QED
      BY <1>3, <1>5, <1>6, <1>7, <2>2, <3>2, <3>3, <3>4 DEF TypeOK
  <2> QED
    BY <2>3, <2>4, <2>5
<1> QED
  BY <1>9, <1>10

(* The invariant after a step of the scheduler loop or a cancellation. *)
LEMMA LoopIInv ==
  ASSUME IInv, SchedulerEnds \/ SchedulerFails \/ CancelParent
  PROVE  IInv'
<1> USE DEF IInv, LoopSame, appVars, peerVars, queueVars
<1>1. UNCHANGED <<main, joined, outcome, closed, client, session, up, active, arrived,
                  overflow, events, handler, held, messages, accepted, dispatched,
                  workers>>
  BY DEF SchedulerEnds, SchedulerFails, CancelParent
<1>2. /\ cancelled \subseteq cancelled' /\ posted \subseteq posted'
      /\ fatal => fatal'
      /\ "workers" \in cancelled' <=> "workers" \in cancelled \/ (fatal' /\ ~fatal)
  <2>1. CASE SchedulerEnds
    BY <2>1 DEF SchedulerEnds
  <2>2. CASE SchedulerFails
    BY <2>2 DEF SchedulerFails, Report, QueueSound, Cancelled
  <2>3. CASE CancelParent
    BY <2>3 DEF CancelParent
  <2> QED
    BY <2>1, <2>2, <2>3
<1>3. AppTypes'
  <2>1. fatal' \in BOOLEAN /\ closed' \in BOOLEAN
    BY Zenon DEF SchedulerEnds, SchedulerFails, CancelParent, Report, TypeOK, AppTypes
  <2>2. faults' \in 0 .. MaxFaults
    BY DEF SchedulerEnds, SchedulerFails, CancelParent, Fault, TypeOK, AppTypes
  <2>3. /\ scheduler' \in {"run", "reported", "done"} /\ posted' \subseteq Loop
        /\ cancelled' \subseteq {"parent", "loops", "workers"}
    BY DEF SchedulerEnds, SchedulerFails, CancelParent, Report, TypeOK, AppTypes, Loop
  <2> QED
    BY <1>1, <1>2, <2>1, <2>2, <2>3 DEF TypeOK, AppTypes
<1>4. TypeOK'
  BY <1>1, <1>3 DEF TypeOK, PeerTypes, QueueTypes
<1>5. ResultsSound' /\ JoinSound'
  <2>1. /\ "scheduler" \in posted' => scheduler' = "done"
        /\ "onebot" \in posted' => "onebot" \in posted
    BY DEF SchedulerEnds, SchedulerFails, CancelParent, ResultsSound
  <2> QED
    BY <1>1, <2>1 DEF ResultsSound, JoinSound
<1>6. QueueSound' /\ NothingLost'
  BY <1>1, <1>2 DEF QueueSound, NothingLost, Pipeline, Cancelled
<1>7. CleanStop'
  <2>1. scheduler = "done" => UNCHANGED fatal /\ scheduler' = scheduler
    BY DEF SchedulerEnds, SchedulerFails, CancelParent
  <2> QED
    BY <1>1, <2>1 DEF CleanStop
<1> QED
  BY <1>4, <1>5, <1>6, <1>7

(* The invariant after a step of runLoops, or after the shutdown timer. *)
LEMMA MainIInv ==
  ASSUME IInv, MainStep \/ Timeout
  PROVE  IInv'
<1> USE DEF IInv
<1>1. CASE Timeout
  <2>1. /\ main # "returned" /\ main' = "returned" /\ outcome' = "timeout"
        /\ cancelled' = cancelled \cup {"workers"}
        /\ scheduler' = "done" /\ client' = "done" /\ handler' = "done"
        /\ held' = <<>> /\ overflow' = <<>>
        /\ UNCHANGED <<joined, closed, fatal, posted, session, active, arrived,
                       events, messages, accepted, dispatched, faults>>
    BY <1>1 DEF Timeout
  <2>2. TypeOK'
    <3>1. up' \in BOOLEAN
      BY <1>1, Zenon DEF Timeout
    <3>2. AppTypes' /\ PeerTypes'
      BY <2>1, <3>1 DEF TypeOK, AppTypes, PeerTypes
    <3>3. <<>> \in Seq(Number) /\ Len(<<>>) = 0
      BY EmptySeq
    <3>4. QueueTypes'
      BY <2>1, <3>3 DEF TypeOK, QueueTypes
    <3>5. workers' \in [Worker -> Job]
      BY <1>1, IdleJob DEF Timeout
    <3> QED
      BY <3>2, <3>4, <3>5 DEF TypeOK
  <2> QED
    BY <2>1, <2>2 DEF ResultsSound, JoinSound, QueueSound, NothingLost, CleanStop,
                      Cancelled
<1>2. CASE MainStep
  <2>1. UNCHANGED <<fatal, posted, scheduler, faults, client, session, up, active,
                    arrived, overflow, events, handler, held, messages, accepted,
                    dispatched, workers>>
    BY <1>2 DEF MainStep, Stop, Join, CloseQueue, Return, MainSame, LoopSame,
                peerVars, queueVars
  <2>2. PeerTypes' /\ QueueTypes' /\ workers' \in [Worker -> Job] /\ ResultsSound'
    BY <2>1 DEF TypeOK, PeerTypes, QueueTypes, ResultsSound
  <2>3. CASE Return
    <3>1. /\ main = "drain" /\ main' = "returned" /\ outcome' = Result
          /\ cancelled' = cancelled \cup {"workers"} /\ UNCHANGED <<joined, closed>>
          /\ \A w \in Worker : workers[w].pc = "done"
      BY <2>3 DEF Return
    <3>2. Result \in {"fatal", "stopped", "failed"} /\ (Result = "fatal" <=> fatal)
      BY DEF Result
    <3>3. AppTypes'
      BY <2>1, <3>1, <3>2 DEF TypeOK, AppTypes
    <3>4. JoinSound' /\ QueueSound' /\ NothingLost'
      BY <2>1, <3>1, <3>2 DEF JoinSound, QueueSound, NothingLost, Cancelled
    <3>5. scheduler = "done" /\ client = "done" /\ handler = "done"
      BY <3>1 DEF JoinSound, ResultsSound, Loop, TypeOK, AppTypes
    <3>6. ~fatal => dispatched = accepted
      <4> SUFFICES ASSUME ~fatal PROVE dispatched = accepted
        OBVIOUS
      <4>1. ~Cancelled
        BY <3>1 DEF QueueSound
      <4>2. PICK w \in Worker : TRUE
        OBVIOUS
      <4>3. dispatched \o messages = accepted /\ messages = <<>>
        BY <3>1, <4>1, <4>2 DEF QueueSound
      <4>4. dispatched \o <<>> = dispatched
        BY Concats DEF TypeOK, QueueTypes
      <4> QED
        BY <4>3, <4>4
    <3>7. CleanStop'
      BY <2>1, <3>1, <3>2, <3>5, <3>6 DEF CleanStop
    <3> QED
      BY <2>2, <3>3, <3>4, <3>7 DEF TypeOK
  <2>4. CASE Stop \/ (\E l \in Loop : Join(l)) \/ CloseQueue
    <3>1. main # "returned" /\ main' # "returned"
      BY <2>4 DEF Stop, Join, CloseQueue
    <3>2. /\ cancelled \subseteq cancelled' /\ outcome' = outcome
          /\ "workers" \in cancelled' <=> "workers" \in cancelled
          /\ closed => closed'
      BY <2>4 DEF Stop, Join, CloseQueue
    <3>3. AppTypes'
      <4>1. closed' \in BOOLEAN
        BY <2>4, Zenon DEF Stop, Join, CloseQueue, TypeOK, AppTypes
      <4>2. joined' \subseteq posted /\ main' \in {"join", "drain"}
        BY <2>4 DEF Stop, Join, CloseQueue, TypeOK, AppTypes
      <4>3. cancelled' \subseteq {"parent", "loops", "workers"}
        BY <2>4 DEF Stop, Join, CloseQueue, TypeOK, AppTypes
      <4> QED
        BY <2>1, <3>2, <4>1, <4>2, <4>3 DEF TypeOK, AppTypes
    <3>4. JoinSound'
      <4>1. CASE Stop
        BY <4>1 DEF Stop, JoinSound
      <4>2. CASE \E l \in Loop : Join(l)
        BY <3>1, <4>2 DEF Join, JoinSound, TypeOK, AppTypes
      <4>3. CASE CloseQueue
        BY <3>1, <4>3 DEF CloseQueue, JoinSound
      <4> QED
        BY <2>4, <4>1, <4>2, <4>3
    <3>5. QueueSound' /\ NothingLost' /\ CleanStop'
      BY <2>1, <3>1, <3>2 DEF QueueSound, NothingLost, Pipeline, CleanStop, Cancelled
    <3> QED
      BY <2>2, <3>3, <3>4, <3>5 DEF TypeOK
  <2> QED
    BY <1>2, <2>3, <2>4 DEF MainStep
<1> QED
  BY <1>1, <1>2

(* Every step preserves the invariant. *)
LEMMA NextIInv == IInv /\ [Next]_vars => IInv'
<1> SUFFICES ASSUME IInv, [Next]_vars PROVE IInv'
  OBVIOUS
<1>1. CASE Next
  <2>1. CASE Dial \/ Event \/ ClientRuns \/ PeerCloses
    BY <2>1, ClientIInv
  <2>2. CASE Receive \/ Put
    BY <2>2, HandlerIInv
  <2>3. ASSUME NEW w \in Worker, WorkerStep(w) \/ Answer(w) \/ FatalStore(w)
        PROVE  IInv'
    BY <2>3, WorkerIInv
  <2>4. CASE SchedulerEnds \/ SchedulerFails \/ CancelParent
    BY <2>4, LoopIInv
  <2>5. CASE MainStep \/ Timeout
    BY <2>5, MainIInv
  <2> QED
    BY <1>1, <2>1, <2>2, <2>3, <2>4, <2>5 DEF Next
<1>2. CASE UNCHANGED vars
  <2> USE <1>2 DEF vars, appVars, peerVars, queueVars
  <2>1. TypeOK'
    BY DEF IInv, TypeOK, AppTypes, PeerTypes, QueueTypes
  <2>2. ResultsSound' /\ JoinSound' /\ CleanStop'
    BY DEF IInv, ResultsSound, JoinSound, CleanStop
  <2>3. QueueSound' /\ NothingLost'
    BY DEF IInv, QueueSound, NothingLost, Pipeline, Cancelled
  <2> QED
    BY <2>1, <2>2, <2>3 DEF IInv
<1> QED
  BY <1>1, <1>2

-----------------------------------------------------------------------------
(* The results. *)

(* The conjunction of the named parts holds in every reachable state. *)
THEOREM Invariance == Spec => []IInv
  BY InitIInv, NextIInv, PTL DEF Spec

(* The queues keep to their capacities and the numbers to their ranges. *)
THEOREM TypeCorrect == Spec => []TypeOK
<1>1. IInv => TypeOK
  BY DEF IInv
<1> QED
  BY <1>1, Invariance, PTL

(* From the connection to the workers no message is lost, duplicated or     *)
(* reordered before something stops, whatever the capacities: the client's  *)
(* bounded events, the message it holds when they are full, the handler's   *)
(* message and the app's queue are one pipeline.                            *)
THEOREM MessagesStayInOrder == Spec => []NothingLost
<1>1. IInv => NothingLost
  BY DEF IInv
<1> QED
  BY <1>1, Invariance, PTL

(* The queue is closed only when its producer has ended: sending to a       *)
(* closed channel, a panic that ends the process, is impossible.            *)
THEOREM QueueClosedBehindProducer == Spec => []IntakeEndsFirst
<1>1. IInv => IntakeEndsFirst
  <2> SUFFICES ASSUME IInv, closed PROVE handler = "done" /\ held = <<>>
    BY DEF IntakeEndsFirst
  <2>1. joined = Loop /\ joined \subseteq posted
    BY DEF IInv, JoinSound, TypeOK, AppTypes
  <2>2. client = "done"
    BY <2>1 DEF IInv, ResultsSound, Loop
  <2> QED
    BY <2>2 DEF IInv, ResultsSound
<1> QED
  BY <1>1, Invariance, PTL

(* When the runtime lock is released without a timeout nothing is left that *)
(* could touch the store, and a graceful stop has handled what was taken    *)
(* in.                                                                      *)
THEOREM StopsAreClean == Spec => []CleanStop
<1>1. IInv => CleanStop
  BY DEF IInv
<1> QED
  BY <1>1, Invariance, PTL

(* Whatever the reasons to stop, and in whatever order the loops end, the    *)
(* queue is not used after it was closed and the store not after the return. *)
THEOREM StopsAreSafe == Spec => []StopIsSafe
<1>1. IntakeEndsFirst /\ CleanStop => StopIsSafe
  BY DEF StopIsSafe
<1> QED
  BY <1>1, QueueClosedBehindProducer, StopsAreClean, PTL

=============================================================================
