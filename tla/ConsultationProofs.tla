------------------------ MODULE ConsultationProofs ------------------------
(***************************************************************************)
(* Proofs about Consultation for any number of questions and handlers: its *)
(* inductive invariant, and that it implements Answer.                     *)
(***************************************************************************)
EXTENDS Consultation, TLAPS

USE ConsultationConstants

(* The initial states satisfy the invariant. *)
LEMMA InitIInv == Init => IInv
  BY DEF Init, IInv, TypeOK, Row, Local, Idle, RowsSound, HandlersSound,
         TimeSound, Busy, Q

(* The records that the actions assign are local states. *)
LEMMA LocalUpdates ==
  ASSUME NEW x \in Local, NEW q \in Question, NEW n \in 0 .. Attempts - 1
  PROVE  /\ Idle \in Local
         /\ [x EXCEPT !.pc = "ask", !.spent = 0] \in Local
         /\ [x EXCEPT !.pc = "create", !.question = q] \in Local
         /\ [x EXCEPT !.pc = "create", !.question = q, !.attempt = n] \in Local
<1>1. 0 \in 0 .. AskTime + MaxStalls /\ 0 \in 0 .. Attempts - 1
  BY ConsultationConstants
<1>2. Idle \in Local
  BY <1>1 DEF Idle, Local
<1>3. [x EXCEPT !.pc = "ask", !.spent = 0] \in Local
  BY <1>1 DEF Local
<1>4. /\ [x EXCEPT !.pc = "create", !.question = q] \in Local
      /\ [x EXCEPT !.pc = "create", !.question = q, !.attempt = n] \in Local
  BY DEF Local
<1> QED
  BY <1>2, <1>3, <1>4

(* A handler may move to any local state that agrees with the rows, provided *)
(* that no stored answer changes.                                           *)
LEMMA HandlerMoves ==
  ASSUME IInv, NEW h \in Handler, NEW l \in Local,
         handlers' = [handlers EXCEPT ![h] = l],
         l.pc # "idle" => l.question \in Question,
         l.pc = "complete" => l.reply \in Reply,
         l.pc = "send" => /\ row'[l.question].status = "completed"
                          /\ l.reply = row'[l.question].reply,
         l.spent <= AskTime + stalls,
         l.pc \notin {"ask", "complete"} => l.spent = 0,
         \A q \in Question : row[q].status = "completed" =>
           row'[q].status = "completed" /\ row'[q].reply = row[q].reply,
         UNCHANGED stalls
  PROVE  handlers' \in [Handler -> Local] /\ HandlersSound' /\ TimeSound'
<1>1. handlers' \in [Handler -> Local]
  BY DEF IInv, TypeOK
<1>2. handlers'[h] = l /\ \A g \in Handler \ {h} : handlers'[g] = handlers[g]
  BY DEF IInv, TypeOK
<1>3. HandlersSound'
  BY <1>2 DEF IInv, HandlersSound, Q
<1>4. TimeSound'
  BY <1>2 DEF IInv, TimeSound, Busy
<1> QED
  BY <1>1, <1>3, <1>4

(* A question is given to a handler, under a fresh lease. *)
LEMMA TakeIInv ==
  ASSUME IInv, NEW h \in Handler, Q(h) \in Question,
         row[Q(h)].status # "completed",
         row' = [row EXCEPT ![Q(h)] = [status |-> "pending", token |-> h,
                                       left |-> Lease, reply |-> NoReply]],
         AskNow(h), Same
  PROVE  IInv'
<1>1. /\ row' \in [Question -> Row]
      /\ \A q \in Question : q # Q(h) => row'[q] = row[q]
      /\ row'[Q(h)].status = "pending" /\ row'[Q(h)].reply = NoReply
  BY DEF IInv, TypeOK, Row
<1> DEFINE l == [handlers[h] EXCEPT !.pc = "ask", !.spent = 0]
<1>2. /\ l \in Local
      /\ l.pc = "ask" /\ l.spent = 0 /\ l.question = Q(h)
  <2>1. handlers[h] \in Local /\ 0 \in 0 .. Attempts - 1
    BY DEF IInv, TypeOK
  <2>2. l \in Local
    BY <2>1, LocalUpdates
  <2> QED
    BY <2>1, <2>2 DEF Local, Q
<1>3. handlers' = [handlers EXCEPT ![h] = l]
  BY DEF AskNow, IInv, TypeOK, Local
<1> HIDE DEF l
<1>4. RowsSound'
  <2>1. told[Q(h)] = {}
    BY DEF IInv, RowsSound
  <2> QED
    BY <1>1, <2>1 DEF IInv, RowsSound, Same
<1>5. \A q \in Question : row[q].status = "completed" =>
        row'[q].status = "completed" /\ row'[q].reply = row[q].reply
  BY <1>1
<1>6. 0 <= AskTime + stalls /\ UNCHANGED <<told, mode, stalls, faults>>
  BY DEF IInv, TypeOK, Same
<1>7. handlers' \in [Handler -> Local] /\ HandlersSound' /\ TimeSound'
  BY <1>2, <1>3, <1>5, <1>6, HandlerMoves
<1> QED
  BY <1>1, <1>4, <1>6, <1>7 DEF IInv, TypeOK

(* A handler moves and the rows stay, the group being told at most the      *)
(* stored answer.                                                           *)
LEMMA MoveIInv ==
  ASSUME IInv, NEW h \in Handler, NEW l \in Local,
         handlers' = [handlers EXCEPT ![h] = l],
         l.pc # "idle" => l.question \in Question,
         l.pc = "complete" => l.reply \in Reply,
         l.pc = "send" => /\ row[l.question].status = "completed"
                          /\ l.reply = row[l.question].reply,
         l.spent <= AskTime + stalls,
         l.pc \notin {"ask", "complete"} => l.spent = 0,
         UNCHANGED <<row, told, mode, stalls, faults>>
  PROVE  IInv'
<1>1. handlers' \in [Handler -> Local] /\ HandlersSound' /\ TimeSound'
  BY HandlerMoves
<1>2. RowsSound'
  BY DEF IInv, RowsSound
<1> QED
  BY <1>1, <1>2 DEF IInv, TypeOK

LEMMA GoIInv ==
  ASSUME IInv, NEW h \in Handler, NEW pc \in {"read", "reclaim"}, Go(h, pc),
         Q(h) \in Question, handlers[h].spent = 0,
         UNCHANGED <<row, told, mode, stalls, faults>>
  PROVE  IInv'
<1>1. handlers[h] \in Local /\ stalls \in Nat /\ AskTime \in Nat
  BY DEF IInv, TypeOK
<1> DEFINE l == [handlers[h] EXCEPT !.pc = pc]
<1>2. l \in Local /\ l.pc = pc /\ l.spent = 0 /\ l.question = Q(h)
  BY <1>1 DEF Local, Q
<1>3. handlers' = [handlers EXCEPT ![h] = l]
  BY DEF Go
<1> HIDE DEF l
<1>4. l.spent <= AskTime + stalls
  BY <1>1, <1>2
<1> QED
  BY <1>2, <1>3, <1>4, MoveIInv

(* A step of a handler, named as in Next. *)
LEMMA ActIInv ==
  ASSUME IInv, NEW h \in Handler, Act(h)
  PROVE  IInv'
<1> USE DEF At, Same
<1>1. handlers[h] \in Local /\ stalls \in Nat
  BY DEF IInv, TypeOK
<1>2. /\ handlers[h].pc # "idle" => Q(h) \in Question
      /\ handlers[h].pc \notin {"ask", "complete"} => handlers[h].spent = 0
      /\ handlers[h].spent <= AskTime + stalls
  BY DEF IInv, HandlersSound, TimeSound, Busy, Q
<1>3. CASE Create(h)
  <2>1. Q(h) \in Question
    BY <1>2, <1>3 DEF Create
  <2>2. CASE row[Q(h)].status = "absent"
    BY <1>3, <2>1, <2>2, TakeIInv DEF Create
  <2>3. CASE row[Q(h)].status # "absent"
    BY <1>2, <1>3, <2>1, <2>3, GoIInv DEF Create
  <2> QED
    BY <2>2, <2>3
<1>4. CASE Read(h)
  <2>1. Q(h) \in Question /\ handlers[h].spent = 0
    BY <1>2, <1>4 DEF Read
  <2>2. UNCHANGED <<row, told, mode, stalls, faults>>
    BY <1>4 DEF Read
  <2>3. CASE Go(h, "reclaim")
    BY <2>1, <2>2, <2>3, GoIInv
  <2>4. CASE ~Go(h, "reclaim")
    <3> DEFINE l == [handlers[h] EXCEPT !.pc = "send", !.reply = row[Q(h)].reply]
    <3>1. /\ row[Q(h)].status = "completed"
          /\ handlers' = [handlers EXCEPT ![h].pc = "send",
                                          ![h].reply = row[Q(h)].reply]
      BY <1>4, <2>4 DEF Read
    <3>2. row[Q(h)].reply \in Reply \cup {NoReply}
      BY <2>1 DEF IInv, TypeOK, Row
    <3>3. /\ l \in Local /\ l.pc = "send" /\ l.spent = 0
          /\ l.question = Q(h) /\ l.reply = row[Q(h)].reply
      BY <1>1, <2>1, <3>2 DEF Local, Q
    <3>4. handlers' = [handlers EXCEPT ![h] = l]
      BY <3>1 DEF IInv, TypeOK, Local
    <3> HIDE DEF l
    <3>5. l.pc # "complete" /\ l.spent <= AskTime + stalls
      BY <1>1, <3>3
    <3>6. /\ l.question \in Question /\ row[l.question].status = "completed"
          /\ l.reply = row[l.question].reply
      BY <2>1, <3>1, <3>3
    <3> QED
      BY <2>2, <3>3, <3>4, <3>5, <3>6, MoveIInv
  <2> QED
    BY <2>3, <2>4
<1>5. CASE Reclaim(h)
  <2>1. Q(h) \in Question /\ row[Q(h)] \in Row
    BY <1>2, <1>5 DEF Reclaim, IInv, TypeOK
  <2>2. CASE row[Q(h)].status = "pending" /\ row[Q(h)].left = 0
    <3>1. row[Q(h)].reply = NoReply
      BY <2>1, <2>2 DEF IInv, RowsSound
    <3>2. row' = [row EXCEPT ![Q(h)] = [status |-> "pending", token |-> h,
                                        left |-> Lease, reply |-> NoReply]]
      BY <1>5, <2>1, <2>2, <3>1 DEF Reclaim, Row, IInv, TypeOK
    <3> QED
      BY <1>5, <2>1, <2>2, <3>2, TakeIInv DEF Reclaim
  <2>3. CASE ~(row[Q(h)].status = "pending" /\ row[Q(h)].left = 0)
    BY <1>2, <1>5, <2>1, <2>3, GoIInv DEF Reclaim
  <2> QED
    BY <2>2, <2>3
<1>6. CASE Ask(h)
  <2>1. PICK r \in Reply : handlers' =
          [handlers EXCEPT ![h].pc = "complete", ![h].reply = r]
    BY <1>6 DEF Ask
  <2> DEFINE l == [handlers[h] EXCEPT !.pc = "complete", !.reply = r]
  <2>2. /\ l \in Local /\ l.pc = "complete" /\ l.reply = r
        /\ l.question = Q(h) /\ l.spent = handlers[h].spent
    BY <1>1 DEF Local, Q
  <2>3. handlers' = [handlers EXCEPT ![h] = l]
    BY <2>1 DEF IInv, TypeOK, Local
  <2> HIDE DEF l
  <2>4. Q(h) \in Question /\ UNCHANGED <<row, told, mode, stalls, faults>>
    BY <1>2, <1>6 DEF Ask
  <2> QED
    BY <1>2, <2>2, <2>3, <2>4, MoveIInv
<1>7. CASE Complete(h)
  <2>1. /\ Q(h) \in Question /\ handlers[h].reply \in Reply
        /\ UNCHANGED <<told, mode, stalls, faults>>
    BY <1>2, <1>7 DEF Complete, At, Same, IInv, HandlersSound
  <2>2. ASSUME NEW pc \in {"send", "read"}
        PROVE  /\ [handlers[h] EXCEPT !.pc = pc, !.spent = 0] \in Local
               /\ [handlers[h] EXCEPT !.pc = pc, !.spent = 0].pc = pc
               /\ [handlers[h] EXCEPT !.pc = pc, !.spent = 0].spent = 0
               /\ [handlers[h] EXCEPT !.pc = pc, !.spent = 0].question = Q(h)
               /\ [handlers[h] EXCEPT !.pc = pc, !.spent = 0].reply = handlers[h].reply
    <3>1. 0 \in 0 .. AskTime + MaxStalls
      BY ConsultationConstants
    <3>2. [handlers[h] EXCEPT !.pc = pc, !.spent = 0] \in Local
      BY <1>1, <3>1 DEF Local
    <3> QED
      BY <1>1, <3>2 DEF Local, Q
  <2>3. CASE row[Q(h)].status = "pending" /\ row[Q(h)].token = h
    <3> DEFINE l == [handlers[h] EXCEPT !.pc = "send", !.spent = 0]
    <3>1. /\ l \in Local /\ l.pc = "send" /\ l.spent = 0 /\ l.question = Q(h)
          /\ l.reply = handlers[h].reply
      BY <2>2
    <3>2. handlers' = [handlers EXCEPT ![h] = l]
      BY <1>7, <2>3 DEF Complete, IInv, TypeOK, Local
    <3> HIDE DEF l
    <3>3. /\ row' \in [Question -> Row]
          /\ row'[Q(h)].status = "completed" /\ row'[Q(h)].reply = handlers[h].reply
          /\ \A q \in Question \ {Q(h)} : row'[q] = row[q]
      BY <1>7, <2>1, <2>3 DEF Complete, IInv, TypeOK, Row
    <3>4. told[Q(h)] = {}
      BY <2>1, <2>3 DEF IInv, RowsSound
    <3>5. RowsSound'
      BY <2>1, <3>3, <3>4, ConsultationConstants DEF IInv, RowsSound
    <3>6. 0 <= AskTime + stalls
      BY ConsultationConstants DEF IInv, TypeOK
    <3>7. handlers' \in [Handler -> Local] /\ HandlersSound' /\ TimeSound'
      BY <2>1, <2>3, <3>1, <3>2, <3>3, <3>6, HandlerMoves
    <3> QED
      BY <2>1, <3>3, <3>5, <3>7 DEF IInv, TypeOK
  <2>4. CASE ~(row[Q(h)].status = "pending" /\ row[Q(h)].token = h)
    <3> DEFINE l == [handlers[h] EXCEPT !.pc = "read", !.spent = 0]
    <3>1. l \in Local /\ l.pc = "read" /\ l.spent = 0 /\ l.question = Q(h)
      BY <2>2
    <3>2. handlers' = [handlers EXCEPT ![h] = l] /\ row' = row
      BY <1>7, <2>4 DEF Complete, IInv, TypeOK, Local
    <3> HIDE DEF l
    <3>3. 0 <= AskTime + stalls
      BY ConsultationConstants DEF IInv, TypeOK
    <3> QED
      BY <2>1, <3>1, <3>2, <3>3, MoveIInv
  <2> QED
    BY <2>3, <2>4
<1>8. CASE Send(h)
  <2>1. /\ Q(h) \in Question /\ row[Q(h)].status = "completed"
        /\ handlers[h].reply = row[Q(h)].reply
    BY <1>2, <1>8 DEF Send, IInv, HandlersSound
  <2>2. row[Q(h)].reply \in Reply
    BY <2>1 DEF IInv, RowsSound, TypeOK, Row
  <2>3. told' \in [Question -> SUBSET Reply] /\ RowsSound'
    BY <1>8, <2>1, <2>2 DEF Send, IInv, RowsSound, TypeOK
  <2>4. UNCHANGED <<row, mode, stalls, faults>>
    BY <1>8 DEF Send
  <2>5. PICK l \in Local : /\ handlers' = [handlers EXCEPT ![h] = l]
                           /\ l.pc \in {"idle", "create"} /\ l.spent = 0
                           /\ l.pc = "create" => l.question = Q(h)
    <3>1. Idle \in Local /\ Idle.pc = "idle" /\ Idle.spent = 0
      BY DEF Idle, Local
    <3>2. CASE Stop(h)
      BY <3>1, <3>2 DEF Stop
    <3>3. CASE ~Stop(h)
      <4>1. /\ handlers[h].attempt + 1 < Attempts
            /\ handlers' = [handlers EXCEPT ![h] = [Idle EXCEPT
                 !.pc = "create", !.question = Q(h),
                 !.attempt = handlers[h].attempt + 1]]
        BY <1>8, <3>3 DEF Send, Again
      <4> DEFINE l == [Idle EXCEPT !.pc = "create", !.question = Q(h),
                                   !.attempt = handlers[h].attempt + 1]
      <4>2. handlers[h].attempt + 1 \in 0 .. Attempts - 1
        BY <1>1, <4>1 DEF Local
      <4>3. /\ l \in Local /\ l.pc = "create" /\ l.spent = 0
            /\ l.question = Q(h)
        <5>1. Idle \in Local /\ l \in Local
          BY <1>1, <2>1, <4>2, LocalUpdates
        <5>2. l.spent = Idle.spent
          BY <5>1 DEF Local
        <5>3. l.pc = "create" /\ l.question = Q(h)
          BY <5>1 DEF Local
        <5> QED
          BY <5>1, <5>2, <5>3 DEF Idle
      <4> HIDE DEF l
      <4> QED
        BY <4>1, <4>3 DEF l
    <3> QED
      BY <3>2, <3>3
  <2>6. handlers' \in [Handler -> Local] /\ HandlersSound' /\ TimeSound'
    <3>1. /\ l.pc # "idle" => l.question \in Question
          /\ l.pc # "complete" /\ l.pc # "send"
          /\ l.spent <= AskTime + stalls
      BY <1>1, <2>1, <2>5
    <3>2. row' = row /\ stalls' = stalls
      BY <2>4
    <3> QED
      BY <2>5, <3>1, <3>2, HandlerMoves
  <2> QED
    BY <2>3, <2>4, <2>6 DEF IInv, TypeOK
<1>9. CASE GiveUp(h)
  BY <1>1, <1>9 DEF GiveUp, Stop, Idle, Q, IInv, TypeOK, Row, Local, RowsSound,
                    HandlersSound, TimeSound, Busy
<1> QED
  BY <1>3, <1>4, <1>5, <1>6, <1>7, <1>8, <1>9 DEF Act

(* Time passes for the leases and for the runs, not beyond their limits. *)
LEMMA TickIInv ==
  ASSUME IInv, Tick
  PROVE  IInv'
<1> USE DEF IInv
<1>1. /\ \A h \in Handler : handlers[h] \in Local
      /\ \A q \in Question : row[q] \in Row
  BY DEF TypeOK
<1>2. /\ stalls' \in 0 .. MaxStalls
      /\ \A h \in Busy : handlers[h].spent + 1 <= AskTime + stalls'
  BY <1>1 DEF Tick, TimeSound, Overtime, Busy, TypeOK, Local
<1>3. handlers' \in [Handler -> Local]
  BY <1>1, <1>2 DEF Tick, Spend, Local, Busy, TypeOK
<1>4. row' \in [Question -> Row]
  BY <1>1 DEF Tick, Row
<1>5. /\ \A q \in Question : /\ row'[q].reply = row[q].reply
                             /\ row'[q].status = row[q].status
      /\ \A h \in Handler : /\ handlers'[h].pc = handlers[h].pc
                            /\ handlers'[h].question = handlers[h].question
                            /\ handlers'[h].reply = handlers[h].reply
      /\ told' = told /\ mode' = mode /\ faults' = faults
  BY <1>1 DEF Tick, Spend, Row, Local
<1>6. TypeOK'
  BY <1>2, <1>3, <1>4, <1>5 DEF TypeOK
<1>7. RowsSound' /\ HandlersSound'
  BY <1>5 DEF RowsSound, HandlersSound, Q
<1>8. TimeSound'
  BY <1>1, <1>2, <1>5 DEF TimeSound, Tick, Spend, Busy, TypeOK, Local
<1> QED
  BY <1>6, <1>7, <1>8

(* Every step preserves the invariant. *)
LEMMA NextIInv == IInv /\ [Next]_vars => IInv'
<1> SUFFICES ASSUME IInv, [Next]_vars PROVE IInv'
  OBVIOUS
<1> USE DEF IInv
<1>1. CASE UNCHANGED vars
  BY <1>1 DEF vars, TypeOK, RowsSound, HandlersSound, TimeSound, Busy, Q
<1>2. CASE \E h \in Handler : Act(h)
  BY <1>2, ActIInv
<1>3. CASE \E h \in Handler : StoreFails(h)
  BY <1>3 DEF StoreFails, Fault, Stop, Idle, TypeOK, Local, RowsSound,
              HandlersSound, TimeSound, Busy, Q
<1>4. CASE \E h \in Handler, q \in Question : Deliver(h, q)
  <2>1. PICK h \in Handler, q \in Question : Deliver(h, q)
    BY <1>4
  <2> DEFINE l == [Idle EXCEPT !.pc = "create", !.question = q]
  <2>2. Idle \in Local /\ 0 \in 0 .. Attempts - 1
    BY DEF Idle, Local
  <2>3. l \in Local /\ l.pc = "create" /\ l.spent = 0 /\ l.question = q
    <3>1. l \in Local
      BY <2>2, LocalUpdates
    <3>2. l.pc = "create" /\ l.question = q /\ l.spent = Idle.spent
      BY <2>2, <3>1 DEF Local
    <3> QED
      BY <3>1, <3>2 DEF Idle
  <2>4. handlers' = [handlers EXCEPT ![h] = l] /\ stalls \in Nat
        /\ UNCHANGED <<row, told, mode, stalls, faults>>
    BY <2>1 DEF Deliver, Same, TypeOK
  <2> HIDE DEF l
  <2>5. l.spent <= AskTime + stalls
    BY <2>3, <2>4
  <2> QED
    BY <2>3, <2>4, <2>5, MoveIInv
<1>5. CASE Tick
  BY <1>5, TickIInv
<1>6. CASE Shutdown \/ Stopped \/ Restart
  BY <1>6 DEF Shutdown, Stopped, Restart, Fault, TypeOK, RowsSound,
              HandlersSound, TimeSound, Busy, Q
<1>7. CASE Crash
  BY <1>7 DEF Crash, Fault, Idle, TypeOK, Local, RowsSound, HandlersSound,
              TimeSound, Busy, Q
<1> QED
  BY <1>1, <1>2, <1>3, <1>4, <1>5, <1>6, <1>7 DEF Next

(* The invariant holds in every reachable state, whatever is delivered,     *)
(* fails or crashes.                                                        *)
THEOREM Invariance == Spec => []IInv
  BY InitIInv, NextIInv, PTL DEF Spec

(* The rows, handlers and histories keep their types.                       *)
THEOREM TypeCorrect == Spec => []TypeOK
<1>1. IInv => TypeOK
  BY DEF IInv
<1> QED
  BY <1>1, Invariance, PTL

(* The answers as Answer sees them. *)
Answers == [q \in Question |-> row[q].reply]

(* Storing an answer decides the question; sending one tells the group what *)
(* was decided; every other step is invisible.                              *)
LEMMA StepSimulation ==
  IInv /\ [Next]_vars => [Promise!Next]_<<Answers, told>>
<1> SUFFICES ASSUME IInv, [Next]_vars
             PROVE  Promise!Next \/ (Answers' = Answers /\ told' = told)
  BY DEF Answers
<1> USE DEF IInv
<1>1. \A q \in Question : row[q] \in Row
  BY DEF TypeOK
<1>2. ASSUME NEW h \in Handler, Complete(h)
      PROVE  Promise!Next \/ (Answers' = Answers /\ told' = told)
  <2>1. PICK q \in Question, r \in Reply : q = Q(h) /\ r = handlers[h].reply
    BY <1>2 DEF Complete, At, HandlersSound
  <2>2. CASE row[Q(h)].status = "pending" /\ row[Q(h)].token = h
    <3>1. row[Q(h)].reply = NoReply
      BY <2>1, <2>2 DEF RowsSound
    <3>2. \A p \in Question : row'[p].reply =
            IF p = q THEN r ELSE row[p].reply
      BY <1>1, <1>2, <2>1, <2>2 DEF Complete, TypeOK, Row
    <3>3. Promise!Decide(q, r)
      BY <1>2, <2>1, <3>1, <3>2 DEF Promise!Decide, Complete, Same
    <3> QED
      BY <2>1, <3>3 DEF Promise!Next
  <2>3. CASE ~(row[Q(h)].status = "pending" /\ row[Q(h)].token = h)
    BY <1>2, <2>3 DEF Complete, Same, Answers
  <2> QED
    BY <2>2, <2>3
<1>3. ASSUME NEW h \in Handler, Send(h)
      PROVE  Promise!Next \/ (Answers' = Answers /\ told' = told)
  <2>1. /\ Q(h) \in Question /\ row[Q(h)].status = "completed"
        /\ handlers[h].reply = row[Q(h)].reply
    BY <1>3 DEF Send, At, HandlersSound
  <2>2. Answers[Q(h)] = handlers[h].reply /\ Answers[Q(h)] # NoReply
    BY <2>1 DEF Answers, RowsSound
  <2>3. Answers' = Answers
    BY <1>3 DEF Send, Answers
  <2>4. told' = told \/ told' = [told EXCEPT ![Q(h)] = @ \cup {handlers[h].reply}]
    BY <1>3 DEF Send
  <2>5. told' # told => Promise!Tell(Q(h))
    BY <2>2, <2>3, <2>4 DEF Promise!Tell, Answers
  <2> QED
    BY <2>1, <2>3, <2>5 DEF Promise!Next
<1>4. ASSUME NEW h \in Handler, Create(h) \/ Reclaim(h)
      PROVE  Answers' = Answers /\ told' = told
  <2>1. Q(h) \in Question
    BY <1>4 DEF Create, Reclaim, At, HandlersSound
  <2>2. \A q \in Question : row'[q].reply = row[q].reply
    <3>1. row \in [Question -> Row] /\ row[Q(h)] \in Row
      BY <1>1, <2>1 DEF TypeOK
    <3>2. CASE UNCHANGED row
      BY <3>2
    <3>3. CASE /\ row[Q(h)].status = "absent"
               /\ row' = [row EXCEPT ![Q(h)] = [status |-> "pending", token |-> h,
                                                left |-> Lease, reply |-> NoReply]]
      <4>1. row[Q(h)].reply = NoReply
        BY <2>1, <3>3 DEF RowsSound
      <4> QED
        BY <3>1, <3>3, <4>1
    <3>4. CASE row' = [row EXCEPT ![Q(h)].token = h, ![Q(h)].left = Lease]
      <4>1. PICK r \in Row : r = row[Q(h)]
        BY <3>1
      <4>2. [r EXCEPT !.token = h, !.left = Lease].reply = r.reply
        BY DEF Row
      <4>3. row' = [row EXCEPT ![Q(h)] = [r EXCEPT !.token = h, !.left = Lease]]
        BY <3>4, <4>1
      <4> QED
        BY <3>1, <4>1, <4>2, <4>3
    <3> QED
      BY <1>4, <3>2, <3>3, <3>4 DEF Create, Reclaim
  <2> QED
    BY <1>4, <2>2 DEF Create, Reclaim, Same, Answers
<1>5. ASSUME NEW h \in Handler, Read(h) \/ Ask(h) \/ GiveUp(h) \/ StoreFails(h)
      PROVE  Answers' = Answers /\ told' = told
  BY <1>5 DEF Read, Ask, GiveUp, StoreFails, Same, Answers
<1>6. CASE \E h \in Handler, q \in Question : Deliver(h, q)
  BY <1>6 DEF Deliver, Same, Answers
<1>7. CASE Tick
  <2>1. \A q \in Question : row'[q].reply = row[q].reply
    BY <1>1, <1>7 DEF Tick, Row
  <2> QED
    BY <1>7, <2>1 DEF Tick, Answers
<1>8. CASE Shutdown \/ Crash \/ Stopped \/ Restart
  BY <1>8 DEF Shutdown, Crash, Stopped, Restart, Answers
<1>9. CASE UNCHANGED vars
  BY <1>9 DEF vars, Answers
<1> QED
  BY <1>2, <1>3, <1>4, <1>5, <1>6, <1>7, <1>8, <1>9 DEF Next, Act

(* Consultation implements Answer: a question gets one answer for ever, and *)
(* the group is told nothing else, in spite of duplicate deliveries, lost   *)
(* leases, late completions, retries and crashes.                           *)
THEOREM AnswersAreFinal == Spec => AnswersOnce
<1>1. Init => Promise!Init
  BY DEF Init, Promise!Init
<1>2. IInv /\ [Next]_vars => [Promise!Next]_<<Answers, told>>
  BY StepSimulation
<1>3. <<Answers, told>> = <<[q \in Question |-> row[q].reply], told>>
  BY DEF Answers
<1> QED
  BY <1>1, <1>2, <1>3, Invariance, PTL DEF Spec, AnswersOnce, Promise!Spec, Answers

-----------------------------------------------------------------------------
(* A handler that does not own a question does not disturb its owner.       *)
LEMMA OthersKeepLease ==
  ASSUME IInv, LeaseSound, NEW h \in Handler, NEW l, h \notin Busy,
         handlers' = [handlers EXCEPT ![h] = l], l.pc \notin {"ask", "complete"},
         UNCHANGED <<row, stalls>>
  PROVE  LeaseSound'
<1>1. handlers'[h] = l /\ \A g \in Handler \ {h} : handlers'[g] = handlers[g]
  BY DEF IInv, TypeOK
<1>2. Busy' = Busy
  BY <1>1 DEF Busy
<1> QED
  BY <1>1, <1>2 DEF LeaseSound, Q, Busy

(* A handler takes a question that nobody can be asking, as nobody owns it  *)
(* or its lease has run out.                                                *)
LEMMA TakeKeepsLease ==
  ASSUME IInv, LeaseSound, NEW h \in Handler, Q(h) \in Question, h \notin Busy,
         row[Q(h)].status = "pending" => row[Q(h)].left = 0,
         row'[Q(h)].status = "pending", row'[Q(h)].token = h,
         row'[Q(h)].left = Lease,
         \A q \in Question : q # Q(h) => row'[q] = row[q],
         AskNow(h), UNCHANGED stalls
  PROVE  LeaseSound'
<1>1. \A g \in Handler : handlers[g] \in Local
  BY DEF IInv, TypeOK
<1>2. /\ handlers'[h].pc = "ask" /\ handlers'[h].spent = 0
      /\ handlers'[h].question = Q(h)
      /\ \A g \in Handler \ {h} : handlers'[g] = handlers[g]
  BY <1>1 DEF AskNow, IInv, TypeOK, Local, Q
<1>3. ASSUME stalls = 0, NEW g \in Busy, g # h PROVE Q(g) # Q(h)
  <2>1. row[Q(g)].status = "pending" /\ row[Q(g)].left + handlers[g].spent = Lease
    BY <1>3 DEF LeaseSound
  <2>2. handlers[g].spent <= AskTime /\ handlers[g].spent \in Nat
    BY <1>1, <1>3 DEF IInv, TimeSound, Busy, Local
  <2>3. Q(g) \in Question /\ row[Q(g)].left \in Nat
    BY <1>3 DEF IInv, HandlersSound, TypeOK, Row, Busy
  <2> QED
    BY <2>1, <2>2, <2>3
<1>4. ASSUME stalls = 0, NEW g \in Busy, g # h PROVE Q(g) \in Question
  BY <1>4 DEF IInv, HandlersSound, Busy
<1>5. SUFFICES ASSUME stalls = 0, NEW g \in Handler, g \in Busy'
               PROVE  /\ row'[Q(g)'].status = "pending" /\ row'[Q(g)'].token = g
                      /\ row'[Q(g)'].left + handlers'[g].spent = Lease
  BY DEF LeaseSound, Busy
<1>6. CASE g = h
  BY <1>2, <1>6 DEF Q
<1>7. CASE g # h
  <2>1. g \in Busy /\ Q(g)' = Q(g)
    BY <1>2, <1>5, <1>7 DEF Busy, Q
  <2>2. row'[Q(g)] = row[Q(g)]
    BY <1>3, <1>4, <1>5, <1>7, <2>1
  <2> QED
    BY <1>2, <1>5, <1>7, <2>1, <2>2 DEF LeaseSound
<1> QED
  BY <1>6, <1>7

(* Every step keeps the owners and their leases together.                   *)
LEMMA NextLeaseSound ==
  ASSUME IInv, LeaseSound, [Next]_vars PROVE LeaseSound'
<1>1. /\ \A h \in Handler : handlers[h] \in Local
      /\ \A q \in Question : row[q] \in Row
      /\ \A h \in Handler : handlers[h].pc # "idle" => Q(h) \in Question
  BY DEF IInv, TypeOK, HandlersSound
<1>2. CASE UNCHANGED vars
  BY <1>2 DEF vars, LeaseSound, Busy, Q
<1>3. ASSUME NEW h \in Handler, Create(h) PROVE LeaseSound'
  <2>1. Q(h) \in Question /\ h \notin Busy /\ UNCHANGED stalls
    BY <1>1, <1>3 DEF Create, At, Busy, Same
  <2>2. CASE row[Q(h)].status = "absent"
    BY <1>3, <2>1, <2>2, TakeKeepsLease DEF Create, IInv, TypeOK
  <2>3. CASE row[Q(h)].status # "absent"
    BY <1>1, <1>3, <2>1, <2>3, OthersKeepLease DEF Create, Go, Local, IInv, TypeOK
  <2> QED
    BY <2>2, <2>3
<1>4. ASSUME NEW h \in Handler, Reclaim(h) PROVE LeaseSound'
  <2>1. Q(h) \in Question /\ h \notin Busy /\ UNCHANGED stalls
    BY <1>1, <1>4 DEF Reclaim, At, Busy, Same
  <2>2. CASE row[Q(h)].status = "pending" /\ row[Q(h)].left = 0
    <3>1. /\ row'[Q(h)].status = "pending" /\ row'[Q(h)].token = h
          /\ row'[Q(h)].left = Lease
          /\ \A q \in Question : q # Q(h) => row'[q] = row[q]
      BY <1>1, <1>4, <2>1, <2>2 DEF Reclaim, Row, IInv, TypeOK
    <3> QED
      BY <1>4, <2>1, <2>2, <3>1, TakeKeepsLease DEF Reclaim
  <2>3. CASE ~(row[Q(h)].status = "pending" /\ row[Q(h)].left = 0)
    BY <1>1, <1>4, <2>1, <2>3, OthersKeepLease DEF Reclaim, Go, Local, IInv, TypeOK
  <2> QED
    BY <2>2, <2>3
<1>5. ASSUME NEW h \in Handler, Read(h) PROVE LeaseSound'
  <2>1. h \notin Busy /\ UNCHANGED <<row, stalls>>
    BY <1>5 DEF Read, At, Busy, Same
  <2>2. \/ handlers' = [handlers EXCEPT ![h] =
             [handlers[h] EXCEPT !.pc = "send", !.reply = row[Q(h)].reply]]
        \/ handlers' = [handlers EXCEPT ![h] = [handlers[h] EXCEPT !.pc = "reclaim"]]
    BY <1>1, <1>5 DEF Read, Go, IInv, TypeOK, Local
  <2>3. /\ [handlers[h] EXCEPT !.pc = "send", !.reply = row[Q(h)].reply].pc = "send"
        /\ [handlers[h] EXCEPT !.pc = "reclaim"].pc = "reclaim"
    BY <1>1 DEF Local
  <2> QED
    BY <2>1, <2>2, <2>3, OthersKeepLease
<1>6. ASSUME NEW h \in Handler, Ask(h) PROVE LeaseSound'
  <2>1. UNCHANGED <<row, stalls>> /\ h \in Busy
    BY <1>6 DEF Ask, At, Busy, Same
  <2>2. \A g \in Handler : /\ handlers'[g].question = handlers[g].question
                           /\ handlers'[g].spent = handlers[g].spent
    BY <1>1, <1>6 DEF Ask, Local, IInv, TypeOK
  <2>3. Busy' = Busy
    BY <1>1, <1>6, <2>1 DEF Ask, Busy, Local, IInv, TypeOK
  <2> QED
    BY <2>1, <2>2, <2>3 DEF LeaseSound, Q, Busy
<1>7. ASSUME NEW h \in Handler, Complete(h) PROVE LeaseSound'
  <2>1. UNCHANGED stalls /\ h \in Busy /\ Q(h) \in Question
    BY <1>1, <1>7 DEF Complete, At, Busy, Same
  <2>2. /\ handlers'[h].pc \in {"send", "read"}
        /\ \A g \in Handler \ {h} : handlers'[g] = handlers[g]
        /\ \A q \in Question : q # Q(h) => row'[q] = row[q]
    BY <1>1, <1>7, <2>1 DEF Complete, Local, IInv, TypeOK
  <2>3. ASSUME stalls = 0, NEW g \in Busy, g # h
        PROVE  Q(g) # Q(h) /\ Q(g) \in Question
    BY <1>1, <2>1, <2>3 DEF LeaseSound, Busy
  <2>4. \A g \in Busy' : g \in Busy /\ g # h
    BY <2>2 DEF Busy
  <2> QED
    BY <2>1, <2>2, <2>3, <2>4 DEF LeaseSound, Q, Busy
<1>8. ASSUME NEW h \in Handler, Send(h) PROVE LeaseSound'
  <2>1. h \notin Busy /\ UNCHANGED <<row, stalls>>
    BY <1>8 DEF Send, At, Busy
  <2>2. Idle.pc = "idle" /\ Idle \in Local
    BY DEF Idle, Local
  <2>3. [Idle EXCEPT !.pc = "create", !.question = Q(h),
                     !.attempt = handlers[h].attempt + 1].pc = "create"
    BY <2>2 DEF Local
  <2> QED
    BY <1>8, <2>1, <2>2, <2>3, OthersKeepLease DEF Send, Again, Stop
<1>9. ASSUME NEW h \in Handler, GiveUp(h) \/ StoreFails(h) PROVE LeaseSound'
  <2>1. UNCHANGED <<row, stalls>> /\ Stop(h)
    BY <1>9 DEF GiveUp, StoreFails, Same
  <2>2. handlers'[h].pc = "idle" /\ \A g \in Handler \ {h} : handlers'[g] = handlers[g]
    BY <1>1, <2>1 DEF Stop, Idle, IInv, TypeOK
  <2>3. \A g \in Busy' : g \in Busy /\ g # h
    BY <2>2 DEF Busy
  <2> QED
    BY <2>1, <2>2, <2>3 DEF LeaseSound, Q, Busy
<1>10. ASSUME NEW h \in Handler, NEW q \in Question, Deliver(h, q) PROVE LeaseSound'
  <2>1. h \notin Busy /\ UNCHANGED <<row, stalls>>
    BY <1>10 DEF Deliver, Busy, Same
  <2>2. [Idle EXCEPT !.pc = "create", !.question = q].pc = "create"
    BY DEF Idle
  <2> QED
    BY <1>10, <2>1, <2>2, OthersKeepLease DEF Deliver
<1>11. CASE Tick
  <2>1. SUFFICES ASSUME stalls' = 0, NEW h \in Handler, h \in Busy'
                 PROVE  /\ row'[Q(h)'].status = "pending" /\ row'[Q(h)'].token = h
                        /\ row'[Q(h)'].left + handlers'[h].spent = Lease
    BY DEF LeaseSound, Busy
  <2>2. stalls = 0 /\ Overtime = {}
    BY <1>11, <2>1 DEF Tick, IInv, TypeOK
  <2>3. h \in Busy /\ Q(h)' = Q(h) /\ handlers'[h].spent = handlers[h].spent + 1
    BY <1>1, <1>11, <2>1 DEF Tick, Spend, Busy, Q, Local
  <2>4. /\ row[Q(h)].status = "pending" /\ row[Q(h)].token = h
        /\ row[Q(h)].left + handlers[h].spent = Lease /\ Q(h) \in Question
    BY <1>1, <2>2, <2>3 DEF LeaseSound, Busy
  <2>5. handlers[h].spent < AskTime /\ handlers[h].spent \in Nat
        /\ row[Q(h)].left \in Nat
    BY <1>1, <2>2, <2>3, <2>4 DEF Overtime, Busy, Local, Row
  <2>6. row[Q(h)].left # 0
    BY <2>4, <2>5
  <2>7. /\ row'[Q(h)].status = "pending" /\ row'[Q(h)].token = h
        /\ row'[Q(h)].left = row[Q(h)].left - 1
    BY <1>1, <1>11, <2>4, <2>6 DEF Tick, Row
  <2> QED
    BY <2>3, <2>4, <2>5, <2>6, <2>7
<1>12. CASE Shutdown \/ Stopped \/ Restart
  BY <1>12 DEF Shutdown, Stopped, Restart, LeaseSound, Busy, Q
<1>13. CASE Crash
  BY <1>13 DEF Crash, Idle, LeaseSound, Busy
<1> QED
  BY <1>2, <1>3, <1>4, <1>5, <1>6, <1>7, <1>8, <1>9, <1>10, <1>11, <1>12, <1>13
     DEF Next, Act

(* Codex is asked by one handler at a time unless the process stalls, since *)
(* nobody can take a question over from a handler that has time left        *)
(* (consultsvc/service.go, leaseCleanupBuffer).                             *)
THEOREM AsksAreExclusive == Spec => []OneAsk
<1>1. Init => LeaseSound
  BY DEF Init, LeaseSound, Busy, Idle
<1>2. LeaseSound => OneAsk
  <2> SUFFICES ASSUME LeaseSound, stalls = 0, NEW g \in Handler, NEW h \in Handler,
                      handlers[g].pc = "ask", handlers[h].pc = "ask", Q(g) = Q(h)
               PROVE  g = h
    BY DEF OneAsk
  <2> QED
    BY DEF LeaseSound, Busy
<1> QED
  BY <1>1, <1>2, NextLeaseSound, Invariance, PTL DEF Spec

=============================================================================
