------------------------- MODULE ClientSessionProofs -------------------------
(***************************************************************************)
(* Proofs about ClientSession for any number of senders, segments and      *)
(* echoes and any capacity: every request gets at most one outcome, the    *)
(* one that it was meant to get, whoever of reader, writer and shutdown    *)
(* delivers it.                                                            *)
(***************************************************************************)
EXTENDS ClientSession, SequenceTheorems, TLAPS

USE SessionConstants

(* The steps that change neither a call nor the echo of a request. *)
LoopStep ==
  \/ \E l \in Loop : Common(l)
  \/ Take \/ Check \/ Write
  \/ Read \/ ReadFails \/ Leave \/ Join
  \/ CancelClient

-----------------------------------------------------------------------------
(* Types. *)

LEMMA InitTypes == Init => TypeOK
<1> SUFFICES ASSUME Init PROVE TypeOK
  OBVIOUS
<1>1. CallTypes
  BY DEF Init, CallTypes
<1>2. TableTypes
  BY DEF Init, TableTypes
<1>3. QueueTypes
  BY EmptySeq DEF Init, QueueTypes
<1>4. LoopTypes
  BY DEF Init, LoopTypes
<1>5. StopTypes
  BY DEF Init, StopTypes
<1> QED
  BY <1>1, <1>2, <1>3, <1>4, <1>5 DEF TypeOK

(* What a step of a call changes of the types. *)
LEMMA SendTypes ==
  ASSUME TypeOK, NEW s \in Sender, Send(s) \/ CancelCaller(s)
  PROVE  TypeOK'
<1>0. Req(s) \in Request
  BY DEF Req, Request, TypeOK, CallTypes
<1>1. CallTypes'
  <2> USE DEF TypeOK, CallTypes, SenderSame, Tell, Step, Outcome
  <2>1. CASE Start(s)
    BY <2>1 DEF Start
  <2>2. CASE Register(s)
    BY <2>2 DEF Register
  <2>3. CASE Enqueue(s)
    BY <2>3 DEF Enqueue
  <2>4. CASE GiveUp(s)
    BY <2>4 DEF GiveUp
  <2>5. CASE Receive(s)
    <3>1. PICK o \in Outcome : o = result[Req(s)]
      BY <1>0, <2>5 DEF Receive, TableTypes
    <3> QED
      BY <2>5, <3>1 DEF Receive
  <2>6. CASE Remove(s)
    BY <2>6 DEF Remove, NextPart
  <2>7. CASE CancelCaller(s)
    BY <2>7 DEF CancelCaller, sendVars
  <2> QED
    BY <2>1, <2>2, <2>3, <2>4, <2>5, <2>6, <2>7 DEF Send
<1>2. TableTypes'
  <2> USE DEF TypeOK, TableTypes
  <2>1. CASE UNCHANGED <<echo, result, pending>>
    BY <2>1
  <2>2. CASE Register(s)
    <3>1. CASE UNCHANGED <<echo, pending>>
      BY <2>2, <3>1 DEF Register
    <3>2. ASSUME NEW e \in Echo, echo' = [echo EXCEPT ![Req(s)] = e],
                 pending' = [pending EXCEPT ![e] = Req(s)]
          PROVE  TableTypes'
      BY <1>0, <2>2, <3>2 DEF Register
    <3> QED
      BY <2>2, <3>1, <3>2 DEF Register, Fresh
  <2>3. CASE Receive(s)
    BY <1>0, <2>3 DEF Receive
  <2>4. CASE Remove(s)
    BY <2>4 DEF Remove
  <2> QED
    BY <2>1, <2>2, <2>3, <2>4 DEF Send, Start, Enqueue, GiveUp, CancelCaller
<1>3. QueueTypes'
  <2>1. CASE UNCHANGED writes
    BY <2>1 DEF TypeOK, QueueTypes
  <2>2. CASE Enqueue(s)
    BY <1>0, <2>2, AppendProperties, LenProperties DEF Enqueue, TypeOK, QueueTypes
  <2> QED
    BY <2>1, <2>2 DEF Send, Start, Register, GiveUp, Receive, Remove, CancelCaller
<1>4. UNCHANGED <<loopVars, stopVars, peerVars>>
  BY DEF Send, Start, Register, Enqueue, GiveUp, Receive, Remove, CancelCaller, SenderSame
<1> QED
  BY <1>1, <1>2, <1>3, <1>4
     DEF TypeOK, LoopTypes, StopTypes, loopVars, stopVars, peerVars

(* The values that a reader or a writer holds. *)
LEMMA HasTypes ==
  ASSUME LoopTypes, NEW l \in Loop, NEW r \in Request \cup {NoRequest},
         NEW o \in Outcome \cup {"none"},
         NEW pc \in {"ready", "check", "write", "complete", "deliver",
                    "shutdown", "cancel", "drain", "leave", "join", "done"},
         Has(l, pc, r, o) \/ Goto(l, pc)
  PROVE  LoopTypes'
BY DEF LoopTypes, Has, Goto

LEMMA CommonTypes ==
  ASSUME TypeOK, Traces, Causes, NEW l \in Loop, Common(l)
  PROVE  TypeOK'
<1> USE DEF TypeOK
<1>1. CallTypes' /\ QueueTypes'
  BY DEF Common, Complete, Deliver, Shutdown, CancelContext, Drain, LoopSame, sendVars,
     CallTypes, QueueTypes
<1>2. LoopTypes'
  <2>1. CASE Complete(l)
    <3>1. PICK r \in Request \cup {NoRequest}, o \in Outcome \cup {"none"} :
            Has(l, "deliver", r, o) \/ Has(l, "ready", NoRequest, "none")
      <4>1. /\ reply[l] \in Outcome /\ item[l] \in Request
            /\ echo[item[l]] \in Echo
        BY <2>1 DEF Complete, Traces, Drawn, Serving, Causes, TableTypes
      <4>2. CASE pending[echo[item[l]]] = NoRequest
        BY <2>1, <4>2 DEF Complete, Rest
      <4>3. CASE pending[echo[item[l]]] # NoRequest
        BY <2>1, <4>1, <4>3 DEF Complete, TableTypes
      <4> QED
        BY <4>2, <4>3
    <3> QED
      BY <3>1, HasTypes
  <2>2. CASE Deliver(l)
    BY <2>2, HasTypes DEF Deliver, Rest
  <2>3. CASE Shutdown(l)
    BY <2>3, HasTypes DEF Shutdown, After
  <2>4. CASE CancelContext(l)
    BY <2>4, HasTypes DEF CancelContext
  <2>5. CASE Drain(l)
    <3>1. CASE UNCHANGED loopVars
      BY <3>1 DEF loopVars, LoopTypes
    <3>2. CASE Goto(l, After(l))
      BY <3>2, HasTypes DEF After
    <3> QED
      BY <2>5, <3>1, <3>2 DEF Drain
  <2> QED
    BY <2>1, <2>2, <2>3, <2>4, <2>5 DEF Common
<1>3. TableTypes'
  <2> USE DEF TableTypes, LoopSame
  <2>1. CASE Complete(l)
    BY <2>1 DEF Complete
  <2>2. CASE Deliver(l)
    <3>1. reply[l] \in Outcome /\ item[l] \in Request
      BY <2>2 DEF Deliver, Traces, Serving, Causes
    <3> QED
      BY <2>2, <3>1 DEF Deliver
  <2>3. CASE Shutdown(l)
    BY <2>3 DEF Shutdown
  <2>4. CASE CancelContext(l) \/ Drain(l)
    BY <2>4 DEF CancelContext, Drain, Outcome
  <2> QED
    BY <2>1, <2>2, <2>3, <2>4 DEF Common
<1>4. StopTypes'
  <2> USE DEF StopTypes, peerVars
  <2>1. CASE Complete(l) \/ Deliver(l)
    BY <2>1 DEF Complete, Deliver, stopVars
  <2>2. CASE Shutdown(l)
    <3>1. Listed \subseteq Request
      BY DEF Listed, TableTypes
    <3> QED
      BY <2>2, <3>1 DEF Shutdown
  <2>3. CASE CancelContext(l)
    BY <2>3 DEF CancelContext
  <2>4. CASE Drain(l)
    BY <2>4 DEF Drain
  <2> QED
    BY <2>1, <2>2, <2>3, <2>4 DEF Common
<1> QED
  BY <1>1, <1>2, <1>3, <1>4


LEMMA LoopStepTypes ==
  ASSUME TypeOK, Traces, Causes, LoopStep
  PROVE  TypeOK'
<1> USE DEF TypeOK
<1>0. "reader" \in Loop /\ "writer" \in Loop
  BY DEF Loop
<1>1. CASE \E l \in Loop : Common(l)
  BY <1>1, CommonTypes
<1>2. CASE Take
  <2>1. UNCHANGED <<sendVars, gone, echo, result, pending, stopVars, peerVars>>
    BY <1>2 DEF Take, LoopSame
  <2>2. QueueTypes' /\ LoopTypes'
    <3>1. CASE Goto("writer", "done") /\ UNCHANGED writes
      BY <1>0, <3>1, HasTypes DEF QueueTypes
    <3>2. CASE writes # <<>> /\ writes' = Tail(writes)
               /\ Has("writer", "check", Head(writes), "none")
      <4>1. /\ Head(writes) \in Request /\ Tail(writes) \in Seq(Request)
            /\ Len(Tail(writes)) = Len(writes) - 1 /\ Len(writes) \in Nat
        BY <3>2, HeadTailProperties, LenProperties DEF QueueTypes
      <4> QED
        BY <1>0, <3>2, <4>1, HasTypes DEF QueueTypes
    <3> QED
      BY <1>2, <3>1, <3>2 DEF Take
  <2> QED
    BY <2>1, <2>2 DEF CallTypes, TableTypes, StopTypes, sendVars, stopVars, peerVars
<1>3. CASE Check \/ Write \/ Read \/ ReadFails \/ Leave \/ Join
  <2>1. UNCHANGED <<sendVars, gone, echo, result, pending, writes>>
    BY <1>3 DEF Check, Write, Read, ReadFails, Leave, Join, LoopSame, ReaderSame
  <2>2. LoopTypes'
    <3>1. CASE Check
      <4>1. item["writer"] \in Request
        BY <1>0, <3>1 DEF Check, Traces, Serving
      <4> QED
        BY <1>0, <3>1, <4>1, HasTypes DEF Check, Rest, Outcome
    <3>2. CASE Write
      BY <1>0, <3>2, HasTypes DEF Write, Rest
    <3>3. CASE Read
      BY <1>0, <3>3, HasTypes DEF Read, StopTypes, Outcome
    <3>4. CASE ReadFails \/ Leave \/ Join
      BY <1>0, <3>4, HasTypes DEF ReadFails, Leave, Join
    <3> QED
      BY <1>3, <3>1, <3>2, <3>3, <3>4
  <2>3. StopTypes'
    <3> USE DEF StopTypes, stopVars, peerVars
    <3>1. CASE Write
      <4>1. item["writer"] \in Request
        BY <1>0, <3>1 DEF Write, Traces, Serving
      <4> QED
        BY <3>1, <4>1 DEF Write
    <3>2. CASE Read
      BY <3>2 DEF Read
    <3>3. CASE Check \/ ReadFails \/ Leave \/ Join
      BY <3>3 DEF Check, ReadFails, Leave, Join
    <3> QED
      BY <1>3, <3>1, <3>2, <3>3
  <2> QED
    BY <2>1, <2>2, <2>3 DEF CallTypes, TableTypes, QueueTypes, sendVars
<1>4. CASE CancelClient
  BY <1>4 DEF CancelClient, ReaderSame, LoopSame, sendVars, loopVars, peerVars,
     CallTypes, TableTypes, QueueTypes, LoopTypes, StopTypes
<1> QED
  BY <1>1, <1>2, <1>3, <1>4 DEF LoopStep

-----------------------------------------------------------------------------
(* Echoes and traces. *)

(* The requests are those of the senders. *)
LEMMA Requests ==
  ASSUME TypeOK
  PROVE  /\ \A s \in Sender : Req(s) \in Request /\ Req(s)[1] = s
         /\ \A s \in Sender : \A n \in 1 .. Parts :
              <<s, n>> \in Request /\ <<s, n>>[1] = s /\ <<s, n>>[2] = n
         /\ \A r \in Request : r[1] \in Sender /\ r[2] \in 1 .. Parts /\ r = <<r[1], r[2]>>
BY DEF Req, Request, TypeOK, CallTypes

(* An echo, once drawn, stays; only Register draws one, for a request that  *)
(* has none and is the current one of its sender.                           *)
LEMMA EchoStep ==
  ASSUME IInv, NEW s \in Sender, Register(s)
  PROVE  \/ /\ failed /\ UNCHANGED <<echo, pending>>
            /\ at' = [at EXCEPT ![s] = "done"]
            /\ told' = [told EXCEPT ![s] = "disconnected"]
         \/ \E e \in Fresh :
              /\ ~failed /\ Req(s) \in Request /\ ~Drawn(Req(s))
              /\ echo' = [echo EXCEPT ![Req(s)] = e] /\ e # NoEcho
              /\ pending' = [pending EXCEPT ![e] = Req(s)]
              /\ at' = [at EXCEPT ![s] = "enqueue"] /\ UNCHANGED told
<1>1. Req(s) \in Request /\ ~Drawn(Req(s))
  <2>1. TypeOK /\ Traces /\ at[s] = "draw"
    BY DEF IInv, Register
  <2> QED
    BY <2>1, Requests DEF Traces, Drawn
<1>2. \A e \in Fresh : e # NoEcho
  BY DEF Fresh
<1> QED
  BY <1>1, <1>2 DEF Register, Tell, Step

LEMMA EchoesStep ==
  ASSUME IInv, (\E s \in Sender : Send(s) \/ CancelCaller(s)) \/ LoopStep
  PROVE  EchoesDiffer'
<1>1. CASE UNCHANGED echo
  BY <1>1 DEF IInv, EchoesDiffer, Drawn
<1>2. ASSUME NEW s \in Sender, Register(s)
      PROVE  EchoesDiffer'
  <2>1. ASSUME NEW e \in Fresh, echo' = [echo EXCEPT ![Req(s)] = e], Req(s) \in Request
        PROVE  EchoesDiffer'
    <3>1. \A q \in Request : echo'[q] = IF q = Req(s) THEN e ELSE echo[q]
      BY <2>1 DEF IInv, TypeOK, TableTypes
    <3>2. \A q \in Request : echo[q] # e
      BY DEF Fresh
    <3> QED
      BY <3>1, <3>2 DEF IInv, EchoesDiffer, Drawn
  <2> QED
    BY <1>1, <1>2, <2>1, EchoStep
<1>3. CASE LoopStep
  BY <1>1, <1>3 DEF LoopStep, Common, Complete, Deliver, Shutdown, CancelContext, Drain,
     Take, Check, Write, Read, ReadFails, Leave, Join, CancelClient, LoopSame, ReaderSame
<1>4. ASSUME NEW s \in Sender, Send(s) \/ CancelCaller(s)
      PROVE  EchoesDiffer'
  BY <1>1, <1>2, <1>4 DEF Send, Start, Enqueue, GiveUp, Receive, Remove, CancelCaller
<1> QED
  BY <1>3, <1>4

LEMMA SendTraces ==
  ASSUME IInv, TypeOK', NEW s \in Sender, Send(s) \/ CancelCaller(s)
  PROVE  Traces'
<1> USE DEF Traces, Drawn, Serving
<1>0. TypeOK /\ Traces /\ Req(s) \in Request
  BY Requests DEF IInv
<1>1. CASE Register(s)
  <2>1. UNCHANGED <<result, drained, wire, writes, loop, item, part>>
    BY <1>1 DEF Register, Tell, Step, SenderSame, loopVars, stopVars, peerVars
  <2>2. CASE UNCHANGED echo /\ at' = [at EXCEPT ![s] = "done"]
    BY <1>0, <2>1, <2>2 DEF TypeOK, CallTypes, Req
  <2>3. ASSUME NEW e \in Echo, echo' = [echo EXCEPT ![Req(s)] = e],
               at' = [at EXCEPT ![s] = "enqueue"], e # NoEcho
        PROVE  Traces'
    <3>1. \A r \in Request : echo'[r] = IF r = Req(s) THEN e ELSE echo[r]
      BY <1>0, <2>3 DEF TypeOK, TableTypes
    <3>2. \A r \in Request : Drawn(r) => Drawn(r)'
      BY <2>3, <3>1
    <3>3. \A i \in 1 .. Len(writes) : writes[i] \in Request
      BY <1>0, ElementOfSeq DEF TypeOK, QueueTypes
    <3>4. \A u \in Sender : \A n \in 1 .. Parts : Drawn(<<u, n>>)' => n <= part[u]
      <4> SUFFICES ASSUME NEW u \in Sender, NEW n \in 1 .. Parts, Drawn(<<u, n>>)'
                   PROVE  n <= part[u]
        OBVIOUS
      <4>1. CASE <<u, n>> = Req(s)
        BY <1>0, <4>1 DEF Req, TypeOK, CallTypes
      <4>2. CASE <<u, n>> # Req(s)
        BY <1>0, <3>1, <4>2, Requests
      <4> QED
        BY <4>1, <4>2
    <3>5. \A u \in Sender : /\ at'[u] \in {"start", "draw"} => ~Drawn(Req(u))'
                            /\ at'[u] \in {"enqueue", "await"} => Drawn(Req(u))'
      <4> SUFFICES ASSUME NEW u \in Sender
                   PROVE  /\ at'[u] \in {"start", "draw"} => ~Drawn(Req(u))'
                          /\ at'[u] \in {"enqueue", "await"} => Drawn(Req(u))'
        OBVIOUS
      <4>1. Req(u)' = Req(u) /\ Req(u) \in Request /\ Req(u)[1] = u /\ Req(s)[1] = s
        BY <1>0, <2>1, Requests DEF Req
      <4>2. CASE u = s
        BY <1>0, <2>3, <3>1, <4>1, <4>2 DEF TypeOK, CallTypes
      <4>3. CASE u # s
        <5>1. at'[u] = at[u] /\ Req(u) # Req(s)
          BY <1>0, <2>3, <4>1, <4>3 DEF TypeOK, CallTypes
        <5>2. Drawn(Req(u))' <=> Drawn(Req(u))
          BY <3>1, <4>1, <5>1
        <5>3. /\ at[u] \in {"start", "draw"} => ~Drawn(Req(u))
              /\ at[u] \in {"enqueue", "await"} => Drawn(Req(u))
          BY <1>0
        <5> HIDE DEF Drawn
        <5> QED
          BY <5>1, <5>2, <5>3
      <4> QED
        BY <4>2, <4>3
    <3> QED
      BY <1>0, <2>1, <3>2, <3>3, <3>4, <3>5
  <2> QED
    BY <1>1, <2>2, <2>3, EchoStep DEF Fresh
<1>2. CASE Enqueue(s)
  <2>1. /\ UNCHANGED <<result, drained, wire, loop, item, part, echo>>
        /\ writes' = Append(writes, Req(s)) /\ at' = [at EXCEPT ![s] = "await"]
        /\ at[s] = "enqueue"
    BY <1>2 DEF Enqueue, Step, SenderSame, loopVars, stopVars, peerVars
  <2>2. \A i \in 1 .. Len(writes') : Drawn(writes'[i])
    <3>1. /\ Len(writes') = Len(writes) + 1 /\ Len(writes) \in Nat
          /\ writes'[Len(writes) + 1] = Req(s)
          /\ \A i \in 1 .. Len(writes) : writes'[i] = writes[i]
      BY <1>0, <2>1, AppendProperties, LenProperties DEF TypeOK, QueueTypes
    <3> QED
      BY <1>0, <2>1, <3>1
  <2> QED
    BY <1>0, <2>1, <2>2 DEF TypeOK, CallTypes, Req
<1>3. CASE Receive(s)
  <2>1. /\ UNCHANGED <<drained, wire, loop, item, part, echo, writes>>
        /\ result' = [result EXCEPT ![Req(s)] = "empty"]
        /\ at' = [at EXCEPT ![s] = "remove"]
    BY <1>3 DEF Receive, Tell, SenderSame, loopVars, stopVars, peerVars
  <2> QED
    BY <1>0, <2>1 DEF TypeOK, CallTypes, TableTypes, Req
<1>4. CASE Remove(s)
  <2>1. UNCHANGED <<result, drained, wire, loop, item, echo, writes>>
    BY <1>4 DEF Remove, SenderSame, loopVars, stopVars, peerVars
  <2>2. CASE at' = [at EXCEPT ![s] = "done"] /\ UNCHANGED part
    BY <1>0, <2>1, <2>2 DEF TypeOK, CallTypes, Req
  <2>3. CASE /\ at' = [at EXCEPT ![s] = "draw"] /\ part' = [part EXCEPT ![s] = part[s] + 1]
             /\ part[s] < Parts
    <3>1. /\ part'[s] = part[s] + 1 /\ part[s] \in Nat /\ part'[s] \in 1 .. Parts
          /\ \A u \in Sender \ {s} : part'[u] = part[u] /\ at'[u] = at[u]
          /\ at'[s] = "draw"
      BY <1>0, <2>3 DEF TypeOK, CallTypes
    <3>2. ~Drawn(<<s, part[s] + 1>>)
      BY <1>0, <3>1
    <3>3. \A u \in Sender : \A n \in 1 .. Parts : Drawn(<<u, n>>) => n <= part'[u]
      BY <1>0, <3>1
    <3> QED
      BY <1>0, <2>1, <3>1, <3>2, <3>3 DEF Req
  <2> QED
    BY <1>4, <2>2, <2>3 DEF Remove, NextPart, Step
<1>5. CASE Start(s) \/ GiveUp(s)
  <2>1. /\ UNCHANGED <<result, drained, wire, loop, item, echo, writes, part>>
        /\ \/ at[s] = "start" /\ at' = [at EXCEPT ![s] = "draw"]
           \/ \E pc \in {"done", "remove"} : at' = [at EXCEPT ![s] = pc]
    BY <1>5 DEF Start, GiveUp, Tell, Step, SenderSame, loopVars, stopVars, peerVars
  <2> QED
    BY <1>0, <2>1 DEF TypeOK, CallTypes, Req
<1>6. CASE CancelCaller(s)
  BY <1>0, <1>6 DEF CancelCaller, sendVars, loopVars, stopVars, peerVars, Req
<1> QED
  BY <1>1, <1>2, <1>3, <1>4, <1>5, <1>6 DEF Send

(* What is in the table has drawn the echo it is under. *)
LEMMA Entries ==
  ASSUME IInv
  PROVE  /\ \A e \in Echo : pending[e] # NoRequest =>
              /\ pending[e] \in Request /\ echo[pending[e]] = e /\ Drawn(pending[e])
         /\ \A r \in Listed : r \in Request /\ Drawn(r) /\ pending[echo[r]] = r
                             /\ echo[r] \in Echo
<1>1. \A e \in Echo : e # NoEcho /\ pending[e] \in Request \cup {NoRequest}
  BY DEF IInv, TypeOK, TableTypes
<1>2. \A e \in Echo : pending[e] # NoRequest =>
        pending[e] \in Request /\ echo[pending[e]] = e /\ Drawn(pending[e])
  BY <1>1 DEF IInv, TableIsLive, Drawn
<1> QED
  BY <1>1, <1>2 DEF Listed

LEMMA LoopTraces ==
  ASSUME IInv, LoopStep
  PROVE  Traces'
<1> USE DEF Traces, Drawn, Serving
<1>0. TypeOK /\ Traces /\ "reader" \in Loop /\ "writer" \in Loop
  BY DEF IInv, Loop
<1>1. UNCHANGED <<sendVars, echo>>
  BY DEF LoopStep, Common, Complete, Deliver, Shutdown, CancelContext, Drain,
     Take, Check, Write, Read, ReadFails, Leave, Join, CancelClient, LoopSame, ReaderSame
<1>2. ASSUME NEW l \in Loop, Complete(l)
      PROVE  Traces'
  <2>1. UNCHANGED <<result, drained, wire, writes>> /\ item[l] \in Request /\ Drawn(item[l])
    BY <1>0, <1>2 DEF Complete, stopVars, peerVars
  <2>2. CASE pending[echo[item[l]]] = NoRequest
    BY <1>0, <1>1, <1>2, <2>1, <2>2
       DEF Complete, Rest, Has, TypeOK, LoopTypes, sendVars, Req
  <2>3. CASE pending[echo[item[l]]] # NoRequest
    <3>1. PICK r \in Request : r = pending[echo[item[l]]] /\ Drawn(r)
      BY <1>0, <2>1, <2>3, Entries DEF TypeOK, TableTypes
    <3>2. loop' = [loop EXCEPT ![l] = "deliver"] /\ item' = [item EXCEPT ![l] = r]
      BY <1>2, <2>3, <3>1 DEF Complete, Has
    <3> QED
      BY <1>0, <1>1, <2>1, <3>1, <3>2 DEF TypeOK, LoopTypes, sendVars, Req
  <2> QED
    BY <2>2, <2>3
<1>3. ASSUME NEW l \in Loop, Deliver(l)
      PROVE  Traces'
  <2>1. /\ UNCHANGED <<drained, wire, writes>> /\ item[l] \in Request /\ Drawn(item[l])
        /\ result' = [result EXCEPT ![item[l]] = reply[l]]
        /\ loop' = [loop EXCEPT ![l] = "ready"] /\ item' = [item EXCEPT ![l] = NoRequest]
    BY <1>0, <1>3 DEF Deliver, Rest, Has, stopVars, peerVars
  <2> QED
    BY <1>0, <1>1, <2>1 DEF TypeOK, LoopTypes, TableTypes, sendVars, Req
<1>4. ASSUME NEW l \in Loop, Shutdown(l)
      PROVE  Traces'
  <2>1. /\ UNCHANGED <<result, wire, writes, item>>
        /\ \E pc \in {"cancel", "leave", "done"} : loop' = [loop EXCEPT ![l] = pc]
        /\ drained' = drained \/ drained' = Listed
    BY <1>4 DEF Shutdown, Goto, After, peerVars
  <2>2. \A r \in drained' : r \in Request => Drawn(r)
    BY <1>0, <2>1, Entries
  <2> QED
    BY <1>0, <1>1, <2>1, <2>2 DEF TypeOK, LoopTypes, sendVars, Req
<1>5. ASSUME NEW l \in Loop, CancelContext(l) \/ Drain(l)
      PROVE  Traces'
  <2>1. /\ UNCHANGED <<wire, writes, item>> /\ drained' \subseteq drained
        /\ \/ loop' = loop
           \/ \E pc \in {"drain", "leave", "done"} : loop' = [loop EXCEPT ![l] = pc]
        /\ \/ result' = result
           \/ \E r \in drained : result' = [result EXCEPT ![r] = "disconnected"]
    BY <1>5 DEF CancelContext, Drain, Goto, After, loopVars, stopVars, peerVars
  <2>2. \A r \in Request : result'[r] # "empty" => result[r] # "empty" \/ r \in drained
    BY <1>0, <2>1 DEF TypeOK, TableTypes
  <2> QED
    BY <1>0, <1>1, <2>1, <2>2 DEF TypeOK, LoopTypes, sendVars, Req
<1>6. CASE Take
  <2>1. UNCHANGED <<result, drained, wire>>
    BY <1>6 DEF Take, stopVars, peerVars
  <2>2. CASE Goto("writer", "done") /\ UNCHANGED writes
    BY <1>0, <1>1, <2>1, <2>2 DEF Goto, TypeOK, LoopTypes, sendVars, Req
  <2>3. CASE writes # <<>> /\ writes' = Tail(writes)
             /\ Has("writer", "check", Head(writes), "none")
    <3>1. /\ Head(writes) = writes[1] /\ Len(writes) \in Nat \ {0}
          /\ writes[1] \in Request /\ Len(Tail(writes)) = Len(writes) - 1
          /\ \A i \in 1 .. Len(Tail(writes)) : Tail(writes)[i] = writes[i + 1]
      BY <1>0, <2>3, HeadTailProperties, EmptySeq, ElementOfSeq DEF TypeOK, QueueTypes
    <3>2. \A i \in 1 .. Len(writes) : Drawn(writes[i])
      BY <1>0
    <3>3. Drawn(writes[1]) /\ (\A i \in 1 .. Len(writes) : Drawn(writes[i]))'
      BY <1>1, <2>3, <3>1, <3>2
    <3>4. /\ loop' = [loop EXCEPT !["writer"] = "check"]
          /\ item' = [item EXCEPT !["writer"] = writes[1]]
      BY <2>3, <3>1 DEF Has
    <3> QED
      BY <1>0, <1>1, <2>1, <3>1, <3>3, <3>4 DEF TypeOK, LoopTypes, sendVars, Req
  <2> QED
    BY <1>6, <2>2, <2>3 DEF Take
<1>7. CASE Check
  <2>1. /\ UNCHANGED <<result, drained, wire, writes>>
        /\ \/ /\ item' = item
              /\ \E pc \in {"complete", "write"} : loop' = [loop EXCEPT !["writer"] = pc]
           \/ /\ item' = [item EXCEPT !["writer"] = NoRequest]
              /\ loop' = [loop EXCEPT !["writer"] = "ready"]
        /\ loop["writer"] = "check"
    <3>1. [item EXCEPT !["writer"] = item["writer"]] = item
      BY <1>0 DEF TypeOK, LoopTypes
    <3> QED
      BY <1>7, <3>1 DEF Check, Rest, Has, Goto, stopVars, peerVars
  <2> QED
    BY <1>0, <1>1, <2>1 DEF TypeOK, LoopTypes, sendVars, Req
<1>8. CASE Write
  <2>1. /\ UNCHANGED <<result, drained, writes>>
        /\ item["writer"] \in Request /\ Drawn(item["writer"])
        /\ wire' \subseteq wire \cup {item["writer"]}
        /\ item' = [item EXCEPT !["writer"] = NoRequest]
        /\ \E pc \in {"ready", "shutdown"} : loop' = [loop EXCEPT !["writer"] = pc]
    BY <1>0, <1>8 DEF Write, Rest, Has, stopVars
  <2> QED
    BY <1>0, <1>1, <2>1 DEF TypeOK, LoopTypes, sendVars, Req
<1>9. CASE Read
  <2>1. PICK r \in wire : /\ UNCHANGED <<result, drained, writes, wire>>
                          /\ loop' = [loop EXCEPT !["reader"] = "complete"]
                          /\ item' = [item EXCEPT !["reader"] = r]
    BY <1>9 DEF Read, Has, stopVars, ReaderSame
  <2>2. r \in Request /\ Drawn(r)
    BY <1>0 DEF TypeOK, StopTypes
  <2> QED
    BY <1>0, <1>1, <2>1, <2>2 DEF TypeOK, LoopTypes, sendVars, Req
<1>10. CASE ReadFails \/ Leave \/ Join \/ CancelClient
  <2>1. /\ UNCHANGED <<result, drained, writes, wire, item>>
        /\ \/ loop' = loop
           \/ \E pc \in {"shutdown", "join", "done"} : loop' = [loop EXCEPT !["reader"] = pc]
    BY <1>10 DEF ReadFails, Leave, Join, CancelClient, Goto, stopVars, peerVars, loopVars,
       ReaderSame
  <2> QED
    BY <1>0, <1>1, <2>1 DEF TypeOK, LoopTypes, sendVars, Req
<1> QED
  BY <1>2, <1>3, <1>4, <1>5, <1>6, <1>7, <1>8, <1>9, <1>10 DEF LoopStep, Common

-----------------------------------------------------------------------------
(* The table. *)

UnderWay == {"enqueue", "await", "remove"}

(* Entries stay sound while they can only go, and the calls they belong to  *)
(* stay at their requests.                                                  *)
LEMMA TableKeeps ==
  ASSUME IInv, NEW s \in Sender,
         UNCHANGED <<echo, failed>>,
         \A u \in Sender \ {s} : at'[u] = at[u] /\ part'[u] = part[u],
         \A e \in Echo : pending'[e] \in {pending[e], NoRequest},
         \A e \in Echo : pending'[e] # NoRequest /\ pending'[e][1] = s =>
            part'[s] = part[s] /\ at'[s] \in UnderWay
  PROVE  TableIsLive'
<1> SUFFICES ASSUME NEW e \in Echo, pending'[e] # NoRequest
             PROVE  /\ ~failed /\ echo[pending'[e]] = e
                    /\ pending'[e] = <<pending'[e][1], part'[pending'[e][1]]>>
                    /\ at'[pending'[e][1]] \in UnderWay
  BY DEF TableIsLive, Req, UnderWay
<1>1. pending'[e] = pending[e]
  OBVIOUS
<1>2. PICK r \in Request : r = pending[e] /\ r[1] \in Sender
  BY <1>1, Requests DEF IInv, TypeOK, TableTypes
<1>3. ~failed /\ echo[r] = e /\ r = <<r[1], part[r[1]]>> /\ at[r[1]] \in UnderWay
  BY <1>1, <1>2 DEF IInv, TableIsLive, Req, UnderWay
<1>4. part'[r[1]] = part[r[1]] /\ at'[r[1]] \in UnderWay
  <2>1. CASE r[1] = s
    BY <1>1, <1>2, <2>1
  <2>2. CASE r[1] # s
    BY <1>2, <1>3, <2>2
  <2> QED
    BY <2>1, <2>2
<1> QED
  BY <1>1, <1>2, <1>3, <1>4

(* What an entry says of the call it belongs to. *)
LEMMA EntryOf ==
  ASSUME IInv, NEW e \in Echo, pending[e] # NoRequest
  PROVE  /\ pending[e] \in Request /\ echo[pending[e]] = e /\ ~failed
         /\ pending[e] = Req(pending[e][1]) /\ at[pending[e][1]] \in UnderWay
BY DEF IInv, TypeOK, TableTypes, TableIsLive, UnderWay

LEMMA SendTable ==
  ASSUME IInv, TypeOK', NEW s \in Sender, Send(s) \/ CancelCaller(s)
  PROVE  TableIsLive'
<1>0. TypeOK
  BY DEF IInv
<1>1. CASE Register(s)
  <2>1. UNCHANGED <<part, failed>> /\ at[s] = "draw"
    BY <1>1 DEF Register, Tell, Step, SenderSame, stopVars
  <2>2. \A e \in Echo : pending[e] # NoRequest => pending[e][1] # s
    BY <2>1, EntryOf DEF UnderWay
  <2>3. CASE UNCHANGED <<echo, pending>> /\ at' = [at EXCEPT ![s] = "done"]
    <3>1. \A u \in Sender \ {s} : at'[u] = at[u]
      BY <1>0, <2>3 DEF TypeOK, CallTypes
    <3> QED
      BY <2>1, <2>2, <2>3, <3>1, TableKeeps
  <2>4. ASSUME NEW e \in Fresh, ~failed, Req(s) \in Request, ~Drawn(Req(s)),
               echo' = [echo EXCEPT ![Req(s)] = e], e # NoEcho,
               pending' = [pending EXCEPT ![e] = Req(s)],
               at' = [at EXCEPT ![s] = "enqueue"]
        PROVE  TableIsLive'
    <3> SUFFICES ASSUME NEW f \in Echo, pending'[f] # NoRequest
                 PROVE  /\ ~failed /\ echo'[pending'[f]] = f
                        /\ pending'[f] = Req(pending'[f][1])
                        /\ at'[pending'[f][1]] \in UnderWay
      BY <2>1 DEF TableIsLive, UnderWay, Req
    <3>1. Req(s)[1] = s /\ e \in Echo
      BY <1>0, Requests DEF Fresh
    <3>2. CASE f = e
      <4>1. pending'[f] = Req(s) /\ echo'[Req(s)] = e /\ at'[s] = "enqueue"
        BY <1>0, <2>4, <3>1, <3>2 DEF TypeOK, TableTypes, CallTypes
      <4> QED
        BY <2>4, <3>1, <3>2, <4>1 DEF UnderWay
    <3>3. CASE f # e
      <4>1. pending'[f] = pending[f] /\ pending[f] # NoRequest
        BY <1>0, <2>4, <3>1, <3>3 DEF TypeOK, TableTypes
      <4>2. PICK r \in Request : /\ r = pending[f] /\ echo[r] = f
                                /\ r = Req(r[1]) /\ at[r[1]] \in UnderWay
        BY <4>1, EntryOf
      <4>3. r[1] # s /\ r # Req(s) /\ r[1] \in Sender
        BY <1>0, <2>2, <3>1, <4>1, <4>2, Requests
      <4>4. echo'[r] = echo[r] /\ at'[r[1]] = at[r[1]]
        BY <1>0, <2>4, <4>3 DEF TypeOK, TableTypes, CallTypes
      <4> QED
        BY <2>4, <4>1, <4>2, <4>4
    <3> QED
      BY <3>2, <3>3
  <2> QED
    BY <1>1, <2>3, <2>4, EchoStep
<1>2. CASE Enqueue(s) \/ GiveUp(s) \/ Receive(s)
  <2>1. /\ UNCHANGED <<echo, failed, pending, part>>
        /\ \E pc \in {"await", "remove"} : at' = [at EXCEPT ![s] = pc]
    BY <1>2 DEF Enqueue, GiveUp, Receive, Tell, Step, SenderSame, stopVars
  <2>2. at'[s] \in UnderWay /\ \A u \in Sender \ {s} : at'[u] = at[u]
    BY <1>0, <2>1 DEF TypeOK, CallTypes, UnderWay
  <2> QED
    BY <2>1, <2>2, TableKeeps
<1>3. CASE Start(s)
  <2>1. /\ UNCHANGED <<echo, failed, pending, part>> /\ at[s] = "start"
        /\ \E pc \in {"done", "draw"} : at' = [at EXCEPT ![s] = pc]
    BY <1>3 DEF Start, Tell, Step, SenderSame, stopVars
  <2>2. \A u \in Sender \ {s} : at'[u] = at[u]
    BY <1>0, <2>1 DEF TypeOK, CallTypes
  <2>3. \A e \in Echo : pending[e] # NoRequest => pending[e][1] # s
    BY <2>1, EntryOf DEF UnderWay
  <2> QED
    BY <2>1, <2>2, <2>3, TableKeeps
<1>4. CASE Remove(s)
  <2>1. /\ UNCHANGED <<echo, failed>>
        /\ pending' = [e \in Echo |-> IF e = echo[Req(s)] /\ pending[e] = Req(s)
                                        THEN NoRequest ELSE pending[e]]
    BY <1>4 DEF Remove, SenderSame, stopVars
  <2>2. \A u \in Sender \ {s} : at'[u] = at[u] /\ part'[u] = part[u]
    BY <1>0, <1>4 DEF Remove, NextPart, Step, TypeOK, CallTypes
  <2>3. \A e \in Echo : pending'[e] \in {pending[e], NoRequest}
    BY <2>1
  <2>4. ASSUME NEW e \in Echo, pending'[e] # NoRequest, pending'[e][1] = s
        PROVE  FALSE
    <3>1. pending'[e] = pending[e] /\ ~(e = echo[Req(s)] /\ pending[e] = Req(s))
      BY <2>1, <2>4
    <3>2. pending[e] = Req(s) /\ echo[Req(s)] = e
      BY <2>4, <3>1, EntryOf
    <3> QED
      BY <3>1, <3>2
  <2> QED
    BY <2>1, <2>2, <2>3, <2>4, TableKeeps
<1>5. CASE CancelCaller(s)
  <2>1. UNCHANGED <<echo, failed, pending, part, at>>
    BY <1>5 DEF CancelCaller, sendVars, stopVars
  <2> QED
    BY <2>1 DEF IInv, TableIsLive, Req
<1> QED
  BY <1>1, <1>2, <1>3, <1>4, <1>5 DEF Send

(* Reader, writer and shutdown only take entries out. *)
LEMMA LoopTable ==
  ASSUME IInv, LoopStep
  PROVE  /\ UNCHANGED <<at, part, told, gone, echo>>
         /\ TableIsLive'
<1>1. UNCHANGED <<at, part, told, gone, echo>>
  BY DEF LoopStep, Common, Complete, Deliver, Shutdown, CancelContext, Drain,
     Take, Check, Write, Read, ReadFails, Leave, Join, CancelClient, LoopSame, ReaderSame,
     sendVars
<1>2. CASE pending' = [e \in Echo |-> NoRequest]
  BY <1>1, <1>2 DEF TableIsLive
<1>3. CASE UNCHANGED failed /\ \A e \in Echo : pending'[e] \in {pending[e], NoRequest}
  BY <1>1, <1>3 DEF IInv, TableIsLive, Req
<1>4. ASSUME NEW l \in Loop, Complete(l)
      PROVE  TableIsLive'
  <2>1. /\ UNCHANGED failed
        /\ pending' \in {pending, [pending EXCEPT ![echo[item[l]]] = NoRequest]}
    BY <1>4 DEF Complete, stopVars
  <2>2. \A e \in Echo : pending'[e] \in {pending[e], NoRequest}
    BY <2>1 DEF IInv, TypeOK, TableTypes
  <2> QED
    BY <1>3, <2>1, <2>2
<1>5. ASSUME NEW l \in Loop, Shutdown(l)
      PROVE  TableIsLive'
  <2>1. \/ UNCHANGED <<pending, failed>>
        \/ pending' = [e \in Echo |-> NoRequest]
    BY <1>5 DEF Shutdown
  <2> QED
    BY <1>2, <1>3, <2>1
<1>6. ASSUME NEW l \in Loop, Deliver(l) \/ CancelContext(l) \/ Drain(l)
      PROVE  TableIsLive'
  BY <1>3, <1>6 DEF Deliver, CancelContext, Drain, stopVars
<1>7. CASE Take \/ Check \/ Write \/ Read \/ ReadFails \/ Leave \/ Join \/ CancelClient
  BY <1>3, <1>7 DEF Take, Check, Write, Read, ReadFails, Leave, Join, CancelClient,
     ReaderSame, stopVars
<1> QED
  BY <1>1, <1>4, <1>5, <1>6, <1>7 DEF LoopStep, Common

-----------------------------------------------------------------------------
(* One outcome for a request. *)

(* Nothing is promised anew: entries and duties only go, and channels are   *)
(* only emptied.                                                            *)
LEMMA OutcomeKeeps ==
  ASSUME IInv, TypeOK',
         \A e \in Echo : pending'[e] \in {pending[e], NoRequest},
         \A r \in Request : result'[r] \in {result[r], "empty"},
         drained' \subseteq drained,
         \A l \in Loop : loop'[l] = "deliver" => loop[l] = "deliver" /\ item'[l] = item[l]
  PROVE  OneOutcome'
<1> USE DEF OneOutcome, Delivers
<1>0. OneOutcome /\ TypeOK /\ Traces /\ "reader" \in Loop /\ "writer" \in Loop
  BY DEF IInv, Loop
<1>1. \A e \in Echo : pending'[e] # NoRequest =>
        /\ result'[pending'[e]] = "empty" /\ pending'[e] \notin drained'
        /\ \A l \in Loop : loop'[l] = "deliver" => item'[l] # pending'[e]
  <2> TAKE e \in Echo
  <2> HAVE pending'[e] # NoRequest
  <2>1. PICK r \in Request : r = pending[e] /\ r = pending'[e]
    BY <1>0 DEF TypeOK, TableTypes
  <2>2. result[r] = "empty" /\ r \notin drained /\ \A l \in Loop : ~Delivers(l, r)
    BY <1>0, <2>1
  <2> QED
    BY <2>1, <2>2
<1>2. \A r \in drained' : result'[r] = "empty" /\ \A l \in Loop : ~Delivers(l, r)'
  <2>1. drained \subseteq Request
    BY <1>0 DEF TypeOK, StopTypes
  <2> QED
    BY <1>0, <2>1
<1>3. \A l \in Loop : loop'[l] = "deliver" => result'[item'[l]] = "empty"
  <2>1. \A l \in Loop : loop[l] = "deliver" => item[l] \in Request
    BY <1>0 DEF Traces, Serving
  <2> QED
    BY <1>0, <2>1
<1>4. loop'["reader"] = "deliver" /\ loop'["writer"] = "deliver" =>
        item'["reader"] # item'["writer"]
  BY <1>0
<1> QED
  BY <1>1, <1>2, <1>3, <1>4

LEMMA SendOutcome ==
  ASSUME IInv, TypeOK', NEW s \in Sender, Send(s) \/ CancelCaller(s)
  PROVE  OneOutcome'
<1>0. TypeOK /\ Traces /\ OneOutcome /\ Req(s) \in Request
  BY Requests DEF IInv
<1>1. UNCHANGED <<drained, loop, item>>
  BY DEF Send, Start, Register, Enqueue, GiveUp, Receive, Remove, CancelCaller, SenderSame,
     loopVars, stopVars
<1>2. CASE Register(s)
  <2>1. UNCHANGED result
    BY <1>2 DEF Register
  <2>2. CASE UNCHANGED pending
    BY <1>1, <2>1, <2>2, OutcomeKeeps
  <2>3. ASSUME NEW e \in Fresh, ~Drawn(Req(s)), pending' = [pending EXCEPT ![e] = Req(s)]
        PROVE  OneOutcome'
    <3>1. /\ result[Req(s)] = "empty" /\ Req(s) \notin drained
          /\ \A l \in Loop : ~Delivers(l, Req(s))
      BY <1>0, <2>3 DEF Traces, Serving, Delivers
    <3>2. \A f \in Echo : pending'[f] = IF f = e THEN Req(s) ELSE pending[f]
      BY <1>0, <2>3 DEF Fresh, TypeOK, TableTypes
    <3> QED
      BY <1>0, <1>1, <2>1, <3>1, <3>2 DEF OneOutcome, Delivers
  <2> QED
    BY <1>2, <2>2, <2>3, EchoStep
<1>3. CASE Receive(s)
  <2>1. UNCHANGED pending /\ result' = [result EXCEPT ![Req(s)] = "empty"]
    BY <1>3 DEF Receive
  <2>2. \A r \in Request : result'[r] \in {result[r], "empty"}
    BY <1>0, <2>1 DEF TypeOK, TableTypes
  <2> QED
    BY <1>1, <2>1, <2>2, OutcomeKeeps
<1>4. CASE Remove(s)
  <2>1. UNCHANGED result /\ \A e \in Echo : pending'[e] \in {pending[e], NoRequest}
    BY <1>4 DEF Remove
  <2> QED
    BY <1>1, <2>1, OutcomeKeeps
<1>5. CASE Start(s) \/ Enqueue(s) \/ GiveUp(s) \/ CancelCaller(s)
  <2>1. UNCHANGED <<result, pending>>
    BY <1>5 DEF Start, Enqueue, GiveUp, CancelCaller
  <2> QED
    BY <1>1, <2>1, OutcomeKeeps
<1> QED
  BY <1>2, <1>3, <1>4, <1>5 DEF Send

(* There are two loops. *)
LEMMA TwoLoops ==
  ASSUME NEW k \in Loop, NEW l \in Loop, k # l
  PROVE  (k = "reader" /\ l = "writer") \/ (k = "writer" /\ l = "reader")
BY DEF Loop

LEMMA CompleteOutcome ==
  ASSUME IInv, TypeOK', NEW l \in Loop, Complete(l)
  PROVE  OneOutcome'
<1>0. TypeOK /\ Traces /\ OneOutcome /\ "reader" \in Loop /\ "writer" \in Loop
  BY DEF IInv, Loop
<1>1. /\ UNCHANGED <<result, drained>> /\ loop[l] = "complete"
      /\ item[l] \in Request /\ echo[item[l]] \in Echo
  BY <1>0 DEF Complete, stopVars, Traces, Serving, Drawn, TypeOK, TableTypes
<1>2. CASE pending[echo[item[l]]] = NoRequest
  <2>1. UNCHANGED pending /\ loop' = [loop EXCEPT ![l] = "ready"]
        /\ item' = [item EXCEPT ![l] = NoRequest]
    BY <1>2 DEF Complete, Rest, Has
  <2>2. \A k \in Loop : loop'[k] = "deliver" => loop[k] = "deliver" /\ item'[k] = item[k]
    BY <1>0, <2>1 DEF TypeOK, LoopTypes
  <2> QED
    BY <1>1, <2>1, <2>2, OutcomeKeeps
<1>3. CASE pending[echo[item[l]]] # NoRequest
  <2> DEFINE e == echo[item[l]]
             r == pending[e]
  <2>1. /\ loop' = [loop EXCEPT ![l] = "deliver"] /\ item' = [item EXCEPT ![l] = r]
        /\ pending' = [pending EXCEPT ![e] = NoRequest]
    BY <1>3 DEF Complete, Has
  <2>2. /\ r \in Request /\ echo[r] = e /\ e \in Echo /\ r # NoRequest
        /\ result[r] = "empty" /\ r \notin drained /\ \A k \in Loop : ~Delivers(k, r)
    BY <1>0, <1>1, <1>3, EntryOf DEF OneOutcome
  <2>3. \A f \in Echo : pending[f] = r => f = e
    BY <2>2, EntryOf
  <2> HIDE DEF e, r
  <2>4. \A f \in Echo : pending'[f] # NoRequest => pending'[f] = pending[f] /\ pending[f] # r
    BY <1>0, <2>1, <2>2, <2>3 DEF TypeOK, TableTypes
  <2>5. /\ loop'[l] = "deliver" /\ item'[l] = r
        /\ \A k \in Loop \ {l} : loop'[k] = loop[k] /\ item'[k] = item[k]
    BY <1>0, <2>1 DEF TypeOK, LoopTypes
  <2>6. \A k \in Loop, q \in Request : Delivers(k, q)' => Delivers(k, q) \/ q = r
    BY <2>5 DEF Delivers
  <2>7. \A f \in Echo : pending'[f] # NoRequest =>
          /\ result'[pending'[f]] = "empty" /\ pending'[f] \notin drained'
          /\ \A k \in Loop : loop'[k] = "deliver" => item'[k] # pending'[f]
    <3> TAKE f \in Echo
    <3> HAVE pending'[f] # NoRequest
    <3>1. /\ pending'[f] \in Request /\ pending'[f] = pending[f] /\ pending[f] # r
          /\ pending[f] # NoRequest
      BY <2>4 DEF TypeOK, TableTypes
    <3>2. /\ result[pending[f]] = "empty" /\ pending[f] \notin drained
          /\ \A k \in Loop : ~Delivers(k, pending[f])
      BY <1>0, <3>1 DEF OneOutcome
    <3> QED
      BY <1>1, <2>6, <3>1, <3>2 DEF Delivers
  <2>8. \A q \in drained' : result'[q] = "empty" /\ \A k \in Loop : ~Delivers(k, q)'
    <3>1. \A q \in drained : q \in Request /\ q # r
      BY <1>0, <2>2 DEF TypeOK, StopTypes
    <3>2. \A q \in drained : result[q] = "empty" /\ \A k \in Loop : ~Delivers(k, q)
      BY <1>0 DEF OneOutcome
    <3> QED
      BY <1>1, <2>6, <3>1, <3>2 DEF Delivers
  <2>9. \A k \in Loop : loop'[k] = "deliver" => result'[item'[k]] = "empty"
    BY <1>0, <1>1, <2>2, <2>5 DEF OneOutcome
  <2>10. loop'["reader"] = "deliver" /\ loop'["writer"] = "deliver" =>
           item'["reader"] # item'["writer"]
    <3>1. \A k \in Loop \ {l} : loop'[k] = "deliver" => item'[k] # r
      BY <2>2, <2>5 DEF Delivers
    <3> QED
      BY <1>0, <2>5, <3>1 DEF Loop
  <2> QED
    BY <2>7, <2>8, <2>9, <2>10 DEF OneOutcome, Delivers
<1> QED
  BY <1>2, <1>3

LEMMA DeliverOutcome ==
  ASSUME IInv, TypeOK', NEW l \in Loop, Deliver(l)
  PROVE  OneOutcome'
<1>0. TypeOK /\ Traces /\ OneOutcome
  BY DEF IInv
<1> DEFINE r == item[l]
<1>1. /\ UNCHANGED <<pending, drained>> /\ loop[l] = "deliver" /\ r \in Request
      /\ result' = [result EXCEPT ![r] = reply[l]]
      /\ loop' = [loop EXCEPT ![l] = "ready"] /\ item' = [item EXCEPT ![l] = NoRequest]
  BY <1>0 DEF Deliver, Rest, Has, stopVars, Traces, Serving
<1>2. Delivers(l, r)
  BY <1>1 DEF Delivers
<1> HIDE DEF r
<1>3. /\ \A e \in Echo : pending[e] # NoRequest => pending[e] # r
      /\ r \notin drained
  BY <1>0, <1>2 DEF OneOutcome
<1>4. \A k \in Loop : loop'[k] = "deliver" =>
        k # l /\ loop[k] = "deliver" /\ item'[k] = item[k] /\ item[k] # r
  <2> TAKE k \in Loop
  <2> HAVE loop'[k] = "deliver"
  <2>1. k # l /\ loop[k] = "deliver" /\ item'[k] = item[k]
    BY <1>0, <1>1 DEF TypeOK, LoopTypes
  <2>2. item[k] # item[l]
    BY <1>0, <1>1, <2>1, TwoLoops DEF OneOutcome
  <2> QED
    BY <2>1, <2>2 DEF r
<1>5. \A q \in Request : q # r => result'[q] = result[q]
  BY <1>0, <1>1 DEF TypeOK, TableTypes
<1>6. \A e \in Echo : pending'[e] # NoRequest =>
        /\ result'[pending'[e]] = "empty" /\ pending'[e] \notin drained'
        /\ \A k \in Loop : loop'[k] = "deliver" => item'[k] # pending'[e]
  <2> TAKE e \in Echo
  <2> HAVE pending'[e] # NoRequest
  <2>1. pending'[e] = pending[e] /\ pending[e] \in Request /\ pending[e] # NoRequest
    BY <1>0, <1>1 DEF TypeOK, TableTypes
  <2>2. /\ result[pending[e]] = "empty" /\ pending[e] \notin drained
        /\ \A k \in Loop : ~Delivers(k, pending[e])
    BY <1>0, <2>1 DEF OneOutcome
  <2> QED
    BY <1>1, <1>3, <1>4, <1>5, <2>1, <2>2 DEF Delivers
<1>7. \A q \in drained' : /\ result'[q] = "empty"
                          /\ \A k \in Loop : loop'[k] = "deliver" => item'[k] # q
  <2>1. \A q \in drained : q \in Request /\ q # r
    BY <1>0, <1>3 DEF TypeOK, StopTypes
  <2>2. \A q \in drained : result[q] = "empty" /\ \A k \in Loop : ~Delivers(k, q)
    BY <1>0 DEF OneOutcome
  <2> QED
    BY <1>1, <1>4, <1>5, <2>1, <2>2 DEF Delivers
<1>8. \A k \in Loop : loop'[k] = "deliver" => result'[item'[k]] = "empty"
  <2>1. \A k \in Loop : loop[k] = "deliver" => item[k] \in Request /\ result[item[k]] = "empty"
    BY <1>0 DEF OneOutcome, Traces, Serving
  <2> QED
    BY <1>4, <1>5, <2>1
<1>9. loop'["reader"] = "deliver" /\ loop'["writer"] = "deliver" =>
        item'["reader"] # item'["writer"]
  BY <1>4 DEF Loop
<1> QED
  BY <1>6, <1>7, <1>8, <1>9 DEF OneOutcome, Delivers

(* The shutdown takes over all entries, and has none before. *)
LEMMA ShutdownOutcome ==
  ASSUME IInv, TypeOK', NEW l \in Loop, Shutdown(l)
  PROVE  OneOutcome'
<1>0. TypeOK /\ Traces /\ OneOutcome /\ "reader" \in Loop /\ "writer" \in Loop
  BY DEF IInv, Loop
<1>1. /\ UNCHANGED <<result, item>>
      /\ \A k \in Loop : loop'[k] = "deliver" => loop[k] = "deliver"
  BY <1>0 DEF Shutdown, Goto, After, TypeOK, LoopTypes
<1>2. CASE failed
  BY <1>1, <1>2, OutcomeKeeps DEF Shutdown
<1>3. CASE ~failed
  <2>1. drained' = Listed /\ pending' = [e \in Echo |-> NoRequest]
    BY <1>3 DEF Shutdown
  <2>2. \A r \in Listed : result[r] = "empty" /\ \A k \in Loop : ~Delivers(k, r)
    BY <1>0 DEF OneOutcome, Listed
  <2>3. \A k \in Loop : loop'[k] = "deliver" => result[item[k]] = "empty"
    BY <1>0, <1>1 DEF OneOutcome
  <2>4. loop'["reader"] = "deliver" /\ loop'["writer"] = "deliver" =>
          item["reader"] # item["writer"]
    BY <1>0, <1>1 DEF OneOutcome
  <2> QED
    BY <1>1, <2>1, <2>2, <2>3, <2>4 DEF OneOutcome, Delivers
<1> QED
  BY <1>2, <1>3

LEMMA DrainOutcome ==
  ASSUME IInv, TypeOK', NEW l \in Loop, Drain(l)
  PROVE  OneOutcome'
<1>0. TypeOK /\ Traces /\ OneOutcome /\ "reader" \in Loop /\ "writer" \in Loop
  BY DEF IInv, Loop
<1>1. UNCHANGED <<pending, item>>
  BY DEF Drain, Goto, loopVars
<1>2. CASE Goto(l, After(l)) /\ UNCHANGED <<result, drained>>
  <2>1. \A k \in Loop : loop'[k] = "deliver" => loop[k] = "deliver"
    BY <1>0, <1>2 DEF Goto, After, TypeOK, LoopTypes
  <2> QED
    BY <1>1, <1>2, <2>1, OutcomeKeeps
<1>3. ASSUME NEW r \in drained, result' = [result EXCEPT ![r] = "disconnected"],
             drained' = drained \ {r}, loop' = loop
      PROVE  OneOutcome'
  <2>1. /\ r \in Request /\ \A k \in Loop : ~Delivers(k, r)
        /\ \A e \in Echo : pending[e] # NoRequest => pending[e] # r
    BY <1>0 DEF OneOutcome, TypeOK, StopTypes
  <2>2. \A q \in Request : q # r => result'[q] = result[q]
    BY <1>0, <1>3 DEF TypeOK, TableTypes
  <2>3. /\ \A e \in Echo : pending[e] # NoRequest => pending[e] \in Request
        /\ \A k \in Loop : loop[k] = "deliver" => item[k] \in Request /\ item[k] # r
        /\ drained \subseteq Request
    BY <1>0, <2>1 DEF TypeOK, TableTypes, StopTypes, Traces, Serving, Delivers
  <2>4. \A e \in Echo : pending[e] # NoRequest =>
          /\ result'[pending[e]] = "empty" /\ pending[e] \notin drained'
          /\ \A k \in Loop : ~Delivers(k, pending[e])
    BY <1>0, <1>3, <2>1, <2>2, <2>3 DEF OneOutcome
  <2>5. \A q \in drained' : result'[q] = "empty" /\ \A k \in Loop : ~Delivers(k, q)
    BY <1>0, <1>3, <2>2, <2>3 DEF OneOutcome
  <2>6. \A k \in Loop : loop[k] = "deliver" => result'[item[k]] = "empty"
    BY <1>0, <2>2, <2>3 DEF OneOutcome
  <2>7. loop["reader"] = "deliver" /\ loop["writer"] = "deliver" =>
          item["reader"] # item["writer"]
    BY <1>0 DEF OneOutcome
  <2> QED
    BY <1>1, <1>3, <2>4, <2>5, <2>6, <2>7 DEF OneOutcome, Delivers
<1> QED
  BY <1>2, <1>3 DEF Drain, loopVars

LEMMA LoopOutcome ==
  ASSUME IInv, TypeOK', LoopStep
  PROVE  OneOutcome'
<1>0. TypeOK /\ "reader" \in Loop /\ "writer" \in Loop
  BY DEF IInv, Loop
<1>1. CASE UNCHANGED <<pending, result, drained, loop, item>>
  BY <1>1, OutcomeKeeps
<1>2. ASSUME UNCHANGED <<pending, result, drained>>, NEW l \in Loop, NEW pc,
             pc # "deliver", NEW r, loop' = [loop EXCEPT ![l] = pc],
             item' = item \/ item' = [item EXCEPT ![l] = r]
      PROVE  OneOutcome'
  <2>1. \A k \in Loop : loop'[k] = "deliver" => loop[k] = "deliver" /\ item'[k] = item[k]
    BY <1>0, <1>2 DEF TypeOK, LoopTypes
  <2> QED
    BY <1>2, <2>1, OutcomeKeeps
<1>3. ASSUME NEW l \in Loop, Common(l)
      PROVE  OneOutcome'
  <2>1. CASE CancelContext(l)
    BY <1>2, <2>1 DEF CancelContext, Goto
  <2> QED
    BY <1>3, <2>1, CompleteOutcome, DeliverOutcome, ShutdownOutcome, DrainOutcome DEF Common
<1>4. CASE Take
  <2>1. UNCHANGED <<pending, result, drained>>
    BY <1>4 DEF Take, stopVars
  <2>2. CASE Has("writer", "check", Head(writes), "none")
    BY <1>0, <1>2, <2>1, <2>2 DEF Has
  <2>3. CASE Goto("writer", "done")
    BY <1>0, <1>2, <2>1, <2>3 DEF Goto
  <2> QED
    BY <1>4, <2>2, <2>3 DEF Take
<1>5. CASE Check
  <2>1. UNCHANGED <<pending, result, drained>>
    BY <1>5 DEF Check, stopVars
  <2>2. PICK pc \in {"complete", "ready", "write"}, r \in {item["writer"], NoRequest} :
          /\ loop' = [loop EXCEPT !["writer"] = pc]
          /\ item' = item \/ item' = [item EXCEPT !["writer"] = r]
    BY <1>5 DEF Check, Rest, Has, Goto
  <2> QED
    BY <1>0, <1>2, <2>1, <2>2
<1>6. CASE Write
  <2>1. UNCHANGED <<pending, result, drained>>
    BY <1>6 DEF Write, stopVars
  <2>2. PICK pc \in {"ready", "shutdown"} :
          /\ loop' = [loop EXCEPT !["writer"] = pc]
          /\ item' = [item EXCEPT !["writer"] = NoRequest]
    BY <1>6 DEF Write, Rest, Has
  <2> QED
    BY <1>0, <1>2, <2>1, <2>2
<1>7. CASE Read
  <2>1. UNCHANGED <<pending, result, drained>>
    BY <1>7 DEF Read, ReaderSame, stopVars
  <2>2. PICK r \in wire : /\ loop' = [loop EXCEPT !["reader"] = "complete"]
                          /\ item' = [item EXCEPT !["reader"] = r]
    BY <1>7 DEF Read, Has
  <2> QED
    BY <1>0, <1>2, <2>1, <2>2
<1>8. CASE ReadFails \/ Leave \/ Join
  <2>1. UNCHANGED <<pending, result, drained>>
    BY <1>8 DEF ReadFails, Leave, Join, ReaderSame, stopVars
  <2>2. PICK pc \in {"shutdown", "join", "done"} :
          loop' = [loop EXCEPT !["reader"] = pc] /\ item' = item
    BY <1>8 DEF ReadFails, Leave, Join, Goto
  <2> QED
    BY <1>0, <1>2, <2>1, <2>2
<1>9. CASE CancelClient
  BY <1>1, <1>9 DEF CancelClient, ReaderSame, loopVars
<1> QED
  BY <1>3, <1>4, <1>5, <1>6, <1>7, <1>8, <1>9 DEF LoopStep

-----------------------------------------------------------------------------
(* Outcomes have their causes. *)

(* Calls do not touch what reader, writer and shutdown keep. *)
LEMMA SendFrame ==
  ASSUME NEW s \in Sender, Send(s) \/ CancelCaller(s)
  PROVE  /\ UNCHANGED <<loop, item, reply, failed, ended, drained, active, wire, answers>>
         /\ gone \subseteq gone'
BY DEF Send, Start, Register, Enqueue, GiveUp, Receive, Remove, CancelCaller, SenderSame,
   loopVars, stopVars, peerVars

(* What has happened stays so. *)
LEMMA HistoryGrows ==
  ASSUME IInv, LoopStep
  PROVE  answers \subseteq answers' /\ (failed => failed') /\ (ended => ended')
<1>1. ASSUME NEW l \in Loop, Common(l)
      PROVE  answers \subseteq answers' /\ (failed => failed') /\ (ended => ended')
  BY <1>1 DEF Common, Complete, Deliver, Shutdown, CancelContext, Drain, stopVars, peerVars
<1> QED
  BY <1>1 DEF LoopStep, Take, Check, Write, Read, ReadFails, Leave, Join, CancelClient,
     stopVars, peerVars

LEMMA CausedKeeps ==
  ASSUME answers \subseteq answers', gone \subseteq gone', failed => failed', ended => ended'
  PROVE  /\ \A r, o : Caused(r, o) => Caused(r, o)'
         /\ \A r, o : Said(r, o) => Said(r, o)'
BY DEF Caused, Said

LEMMA SendStop ==
  ASSUME IInv, NEW s \in Sender, Send(s) \/ CancelCaller(s)
  PROVE  StopSound'
BY SendFrame DEF IInv, StopSound

LEMMA LoopStop ==
  ASSUME IInv, LoopStep
  PROVE  StopSound'
<1>0. TypeOK /\ StopSound /\ "reader" \in Loop /\ "writer" \in Loop
  BY DEF IInv, Loop
<1>1. ASSUME UNCHANGED <<failed, drained, active>>, NEW l \in Loop, NEW pc,
             pc \notin {"cancel", "drain", "leave"}, loop' = [loop EXCEPT ![l] = pc]
      PROVE  StopSound'
  BY <1>0, <1>1 DEF StopSound, TypeOK, LoopTypes
<1>2. ASSUME NEW l \in Loop, Complete(l) \/ Deliver(l)
      PROVE  StopSound'
  <2>1. PICK pc \in {"ready", "deliver"} : loop' = [loop EXCEPT ![l] = pc]
    BY <1>2 DEF Complete, Deliver, Rest, Has
  <2> QED
    BY <1>1, <1>2, <2>1 DEF Complete, Deliver, stopVars
<1>3. ASSUME NEW l \in Loop, Shutdown(l)
      PROVE  StopSound'
  <2>1. failed' /\ (drained' # {} \/ ~active' => failed')
    BY <1>3 DEF Shutdown
  <2> QED
    BY <2>1 DEF StopSound
<1>4. ASSUME NEW l \in Loop, CancelContext(l) \/ Drain(l)
      PROVE  StopSound'
  <2>1. failed /\ UNCHANGED failed
    BY <1>0, <1>4 DEF CancelContext, Drain, StopSound
  <2> QED
    BY <2>1 DEF StopSound
<1>5. CASE Take
  BY <1>0, <1>1, <1>5 DEF Take, Has, Goto, stopVars
<1>6. CASE Check
  <2>1. PICK pc \in {"complete", "ready", "write"} : loop' = [loop EXCEPT !["writer"] = pc]
    BY <1>6 DEF Check, Rest, Has, Goto
  <2> QED
    BY <1>0, <1>1, <1>6, <2>1 DEF Check, stopVars
<1>7. CASE Write
  <2>1. PICK pc \in {"shutdown", "ready"} : loop' = [loop EXCEPT !["writer"] = pc]
    BY <1>7 DEF Write, Rest, Has
  <2> QED
    BY <1>0, <1>1, <1>7, <2>1 DEF Write, stopVars
<1>8. CASE Read
  <2>1. loop' = [loop EXCEPT !["reader"] = "complete"]
    BY <1>8 DEF Read, Has
  <2> QED
    BY <1>0, <1>1, <1>8, <2>1 DEF Read, stopVars
<1>9. CASE ReadFails \/ Join
  <2>1. PICK pc \in {"shutdown", "done"} : loop' = [loop EXCEPT !["reader"] = pc]
    BY <1>9 DEF ReadFails, Join, Goto
  <2> QED
    BY <1>0, <1>1, <1>9, <2>1 DEF ReadFails, Join, stopVars
<1>10. CASE Leave
  <2>1. failed /\ UNCHANGED failed
    BY <1>0, <1>10 DEF Leave, StopSound
  <2> QED
    BY <2>1 DEF StopSound
<1>11. CASE CancelClient
  BY <1>0, <1>11 DEF CancelClient, loopVars, StopSound
<1> QED
  BY <1>2, <1>3, <1>4, <1>5, <1>6, <1>7, <1>8, <1>9, <1>10, <1>11 DEF LoopStep, Common

(* A call learns an outcome that has its cause. *)
LEMMA TellKeeps ==
  ASSUME IInv, TypeOK', NEW s \in Sender, NEW pc, NEW o, Tell(s, pc, o),
         answers' = answers, failed' = failed, ended' = ended, gone' = gone,
         UNCHANGED <<loop, item, reply>>,
         \A r \in Request : result'[r] \in {result[r], "empty"},
         Caused(Req(s), o), pc = "done" => o # "ok"
  PROVE  Causes'
<1>0. TypeOK /\ Causes
  BY DEF IInv
<1>1. (\A r \in Request : Caused(r, result[r]))'
  <2>1. \A r \in Request : Caused(r, result'[r])
    BY <1>0 DEF Causes, Caused
  <2> QED
    BY <2>1 DEF Caused, Said
<1>2. UNCHANGED part /\ \A u \in Sender : Req(u)' = Req(u)
  BY DEF Tell, Req
<1>3. /\ told'[s] = o /\ at'[s] = pc
      /\ \A u \in Sender \ {s} : told'[u] = told[u] /\ at'[u] = at[u]
  BY <1>0 DEF Tell, TypeOK, CallTypes
<1>4. (\A u \in Sender : Caused(Req(u), told[u]))'
  <2>1. \A u \in Sender : Caused(Req(u), told'[u])
    BY <1>0, <1>3 DEF Causes
  <2> QED
    BY <1>2, <2>1 DEF Caused, Said
<1>5. (\A l \in Loop : loop[l] \in {"complete", "deliver"} =>
        reply[l] \in Outcome /\ Caused(item[l], reply[l]))'
  BY <1>0 DEF Causes, Caused, Said
<1>6. (\A u \in Sender : \A n \in 1 .. part[u] - 1 : Said(<<u, n>>, "ok"))'
  BY <1>0, <1>2 DEF Causes, Said
<1>7. (\A u \in Sender : at[u] = "done" /\ told[u] = "ok" => part[u] = Parts)'
  BY <1>0, <1>2, <1>3 DEF Causes
<1> QED
  BY <1>1, <1>4, <1>5, <1>6, <1>7 DEF Causes

LEMMA SendCauses ==
  ASSUME IInv, TypeOK', NEW s \in Sender, Send(s) \/ CancelCaller(s)
  PROVE  Causes'
<1>0. TypeOK /\ Causes /\ StopSound /\ Req(s) \in Request /\ Req(s)[1] = s
  BY Requests DEF IInv
<1>1. /\ UNCHANGED <<loop, item, reply, failed, ended, answers>>
      /\ gone \subseteq gone'
  BY SendFrame
<1>2. CASE UNCHANGED <<part, told, result>> /\ \A u \in Sender : at'[u] = "done" => at[u] = "done"
  BY <1>0, <1>1, <1>2 DEF Causes, Caused, Said, Req
<1>3. CASE Start(s)
  <2>1. UNCHANGED <<gone, result>>
    BY <1>3 DEF Start, SenderSame
  <2>2. CASE Step(s, "draw")
    BY <1>0, <1>2, <2>1, <2>2 DEF Step, TypeOK, CallTypes
  <2>3. CASE s \in gone /\ Tell(s, "done", "cancelled")
    BY <1>0, <1>1, <2>1, <2>3, TellKeeps DEF Caused
  <2>4. CASE ~active /\ Tell(s, "done", "disconnected")
    BY <1>0, <1>1, <2>1, <2>4, TellKeeps DEF Caused, StopSound
  <2> QED
    BY <1>3, <2>2, <2>3, <2>4 DEF Start
<1>4. CASE Register(s)
  <2>1. UNCHANGED <<gone, result>>
    BY <1>4 DEF Register, SenderSame
  <2>2. CASE failed /\ Tell(s, "done", "disconnected")
    BY <1>0, <1>1, <2>1, <2>2, TellKeeps DEF Caused
  <2>3. CASE Step(s, "enqueue")
    BY <1>0, <1>2, <2>1, <2>3 DEF Step, TypeOK, CallTypes
  <2> QED
    BY <1>4, <2>2, <2>3 DEF Register
<1>5. CASE Enqueue(s)
  <2>1. UNCHANGED result /\ Step(s, "await")
    BY <1>5 DEF Enqueue
  <2> QED
    BY <1>0, <1>2, <2>1 DEF Step, TypeOK, CallTypes
<1>6. CASE GiveUp(s)
  <2>1. UNCHANGED <<gone, result>>
    BY <1>6 DEF GiveUp, SenderSame
  <2>2. PICK o \in {"cancelled", "disconnected"} : Tell(s, "remove", o) /\ Caused(Req(s), o)
    BY <1>0, <1>6 DEF GiveUp, Caused
  <2> QED
    BY <1>1, <2>1, <2>2, TellKeeps
<1>7. CASE Receive(s)
  <2>1. /\ UNCHANGED gone /\ Tell(s, "remove", result[Req(s)])
        /\ result' = [result EXCEPT ![Req(s)] = "empty"]
    BY <1>7 DEF Receive, SenderSame
  <2>2. \A r \in Request : result'[r] \in {result[r], "empty"}
    BY <1>0, <2>1 DEF TypeOK, TableTypes
  <2>3. Caused(Req(s), result[Req(s)])
    BY <1>0 DEF Causes
  <2> QED
    BY <1>1, <2>1, <2>2, <2>3, TellKeeps
<1>8. CASE Remove(s)
  <2>1. UNCHANGED <<gone, result>> /\ NextPart(s)
    BY <1>8 DEF Remove, SenderSame
  <2>2. /\ \A r \in Request : Caused(r, result'[r])
        /\ \A l \in Loop : loop[l] \in {"complete", "deliver"} =>
             reply[l] \in Outcome /\ Caused(item[l], reply[l])
    BY <1>0, <2>1 DEF Causes
  <2>3. CASE ~(told[s] = "ok" /\ part[s] < Parts)
    <3>1. UNCHANGED <<part, told>> /\ at' = [at EXCEPT ![s] = "done"]
      BY <2>1, <2>3 DEF NextPart, Step
    <3>2. told[s] = "ok" => part[s] = Parts
      BY <1>0, <2>3 DEF TypeOK, CallTypes
    <3>3. \A u \in Sender : at'[u] = "done" /\ told[u] = "ok" => part[u] = Parts
      BY <1>0, <3>1, <3>2 DEF TypeOK, CallTypes, Causes
    <3> QED
      BY <1>0, <1>1, <2>1, <3>1, <3>3 DEF Causes, Caused, Said, Req
  <2>4. CASE told[s] = "ok" /\ part[s] < Parts
    <3>1. /\ part'[s] = part[s] + 1 /\ told'[s] = "none" /\ at'[s] = "draw"
          /\ part[s] \in Nat /\ part[s] >= 1
          /\ \A u \in Sender \ {s} : /\ part'[u] = part[u] /\ told'[u] = told[u]
                                     /\ at'[u] = at[u]
      BY <1>0, <2>1, <2>4 DEF NextPart, TypeOK, CallTypes
    <3>2. Said(<<s, part[s]>>, "ok")
      BY <1>0, <2>4 DEF Causes, Caused, Req
    <3>3. (\A u \in Sender : Caused(Req(u), told[u]))'
      <4> SUFFICES ASSUME NEW u \in Sender
                   PROVE  Caused(Req(u), told[u])'
        OBVIOUS
      <4>1. CASE u = s
        BY <3>1, <4>1 DEF Caused
      <4>2. CASE u # s
        BY <1>0, <1>1, <2>1, <3>1, <4>2 DEF Causes, Caused, Said, Req
      <4> QED
        BY <4>1, <4>2
    <3>4. (\A u \in Sender : \A n \in 1 .. part[u] - 1 : Said(<<u, n>>, "ok"))'
      <4> SUFFICES ASSUME NEW u \in Sender, NEW n \in 1 .. part'[u] - 1
                   PROVE  Said(<<u, n>>, "ok")
        BY <1>1 DEF Said
      <4>1. CASE u # s
        BY <1>0, <3>1, <4>1 DEF Causes
      <4>2. CASE u = s /\ n = part[s]
        BY <3>2, <4>2
      <4>3. CASE u = s /\ n # part[s]
        <5>1. n \in 1 .. part[s] - 1
          BY <3>1, <4>3
        <5> QED
          BY <1>0, <4>3, <5>1 DEF Causes
      <4> QED
        BY <4>1, <4>2, <4>3
    <3>5. (\A u \in Sender : at[u] = "done" /\ told[u] = "ok" => part[u] = Parts)'
      BY <1>0, <3>1 DEF Causes
    <3>6. (\A r \in Request : Caused(r, result[r]))'
      BY <1>1, <2>1, <2>2 DEF Caused, Said
    <3>7. (\A l \in Loop : loop[l] \in {"complete", "deliver"} =>
             reply[l] \in Outcome /\ Caused(item[l], reply[l]))'
      BY <1>1, <2>1, <2>2 DEF Caused, Said
    <3> QED
      BY <3>3, <3>4, <3>5, <3>6, <3>7 DEF Causes
  <2> QED
    BY <2>3, <2>4
<1>9. CASE CancelCaller(s)
  <2>1. UNCHANGED <<part, told, result, at>>
    BY <1>9 DEF CancelCaller, sendVars
  <2> QED
    BY <1>2, <2>1
<1> QED
  BY <1>3, <1>4, <1>5, <1>6, <1>7, <1>8, <1>9 DEF Send

(* What reader and writer do keeps all causes if the outcomes that it adds, *)
(* to a channel or to what a loop holds, have theirs.                       *)
LEMMA LoopKeeps ==
  ASSUME IInv, TypeOK', LoopStep,
         \A r \in Request : result'[r] = result[r] \/ (Caused(r, result[r]))',
         \A l \in Loop : loop'[l] \in {"complete", "deliver"} =>
           \/ /\ loop[l] \in {"complete", "deliver"}
              /\ item'[l] = item[l] /\ reply'[l] = reply[l]
           \/ reply'[l] \in Outcome /\ (Caused(item[l], reply[l]))'
  PROVE  Causes'
<1>0. Causes
  BY DEF IInv
<1>1. /\ UNCHANGED <<at, part, told, gone, echo>>
      /\ answers \subseteq answers' /\ (failed => failed') /\ (ended => ended')
  BY LoopTable, HistoryGrows
<1>2. /\ \A r, o : Caused(r, o) => Caused(r, o)'
      /\ \A r, o : Said(r, o) => Said(r, o)'
  BY <1>1, CausedKeeps
<1> QED
  BY <1>0, <1>1, <1>2 DEF Causes, Req, Caused, Said

LEMMA LoopCauses ==
  ASSUME IInv, TypeOK', LoopStep
  PROVE  Causes'
<1>0. /\ TypeOK /\ Traces /\ Causes /\ StopSound
      /\ "reader" \in Loop /\ "writer" \in Loop
  BY DEF IInv, Loop
<1>1. ASSUME UNCHANGED result, NEW l \in Loop, NEW pc, NEW r, NEW o,
             loop' = [loop EXCEPT ![l] = pc],
             \/ pc \notin {"complete", "deliver"} /\ \A k \in Loop \ {l} :
                  item'[k] = item[k] /\ reply'[k] = reply[k]
             \/ /\ item' = [item EXCEPT ![l] = r] /\ reply' = [reply EXCEPT ![l] = o]
                /\ o \in Outcome /\ Caused(r, o)'
      PROVE  Causes'
  <2>1. /\ loop'[l] = pc
        /\ \A k \in Loop \ {l} : /\ loop'[k] = loop[k] /\ item'[k] = item[k]
                                 /\ reply'[k] = reply[k]
    BY <1>0, <1>1 DEF TypeOK, LoopTypes
  <2>2. pc \in {"complete", "deliver"} => item'[l] = r /\ reply'[l] = o /\ o \in Outcome
    BY <1>0, <1>1 DEF TypeOK, LoopTypes
  <2>3. pc \in {"complete", "deliver"} => Caused(item[l], reply[l])'
    BY <1>1, <2>2 DEF Caused, Said
  <2> QED
    BY <1>1, <2>1, <2>2, <2>3, LoopKeeps
<1>2. ASSUME NEW l \in Loop, Complete(l)
      PROVE  Causes'
  <2>1. /\ UNCHANGED <<result, gone, answers, failed, ended>> /\ loop[l] = "complete"
        /\ item[l] \in Request /\ Drawn(item[l]) /\ echo[item[l]] \in Echo
    BY <1>0, <1>2 DEF Complete, LoopSame, stopVars, peerVars, Traces, Serving, Drawn,
       TypeOK, TableTypes
  <2>2. CASE pending[echo[item[l]]] = NoRequest
    <3>1. /\ loop' = [loop EXCEPT ![l] = "ready"]
          /\ item' = [item EXCEPT ![l] = NoRequest] /\ reply' = [reply EXCEPT ![l] = "none"]
      BY <1>2, <2>2 DEF Complete, Rest, Has
    <3>2. \A k \in Loop \ {l} : item'[k] = item[k] /\ reply'[k] = reply[k]
      BY <1>0, <3>1 DEF TypeOK, LoopTypes
    <3> QED
      BY <1>1, <2>1, <3>1, <3>2
  <2>3. CASE pending[echo[item[l]]] # NoRequest
    <3>1. pending[echo[item[l]]] = item[l]
      BY <2>1, <2>3, EntryOf DEF IInv, EchoesDiffer
    <3>2. /\ loop' = [loop EXCEPT ![l] = "deliver"]
          /\ item' = [item EXCEPT ![l] = item[l]] /\ reply' = [reply EXCEPT ![l] = reply[l]]
      BY <1>2, <2>1, <2>3, <3>1 DEF Complete, Has
    <3> QED
      <4>1. \A k \in Loop : item'[k] = item[k] /\ reply'[k] = reply[k]
        BY <1>0, <3>2 DEF TypeOK, LoopTypes
      <4>2. \A k \in Loop : loop'[k] \in {"complete", "deliver"} =>
              loop[k] \in {"complete", "deliver"}
        BY <1>0, <2>1, <3>2 DEF TypeOK, LoopTypes
      <4> QED
        BY <2>1, <4>1, <4>2, LoopKeeps
  <2> QED
    BY <2>2, <2>3
<1>3. ASSUME NEW l \in Loop, Deliver(l)
      PROVE  Causes'
  <2> DEFINE q == item[l]
             o == reply[l]
  <2>1. /\ UNCHANGED <<gone, answers, failed, ended>> /\ q \in Request
        /\ Caused(q, o) /\ result' = [result EXCEPT ![q] = o]
        /\ loop' = [loop EXCEPT ![l] = "ready"]
        /\ item' = [item EXCEPT ![l] = NoRequest] /\ reply' = [reply EXCEPT ![l] = "none"]
    BY <1>0, <1>3 DEF Deliver, Rest, Has, LoopSame, stopVars, peerVars, Traces, Serving, Causes
  <2> HIDE DEF q, o
  <2>2. \A r \in Request : result'[r] = result[r] \/ (Caused(r, result[r]))'
    <3> TAKE r \in Request
    <3>1. CASE r # q
      BY <1>0, <2>1, <3>1 DEF TypeOK, TableTypes
    <3>2. CASE r = q
      <4>1. result'[r] = o
        BY <1>0, <2>1, <3>2 DEF TypeOK, TableTypes
      <4> QED
        BY <2>1, <3>2, <4>1 DEF Caused, Said
    <3> QED
      BY <3>1, <3>2
  <2>3. \A k \in Loop : loop'[k] \in {"complete", "deliver"} =>
          /\ loop[k] \in {"complete", "deliver"}
          /\ item'[k] = item[k] /\ reply'[k] = reply[k]
    BY <1>0, <2>1 DEF TypeOK, LoopTypes
  <2> QED
    BY <2>2, <2>3, LoopKeeps
<1>4. ASSUME NEW l \in Loop, Shutdown(l) \/ CancelContext(l)
      PROVE  Causes'
  <2>1. PICK pc \in {"cancel", "drain", "leave", "done"} : loop' = [loop EXCEPT ![l] = pc]
    BY <1>4 DEF Shutdown, CancelContext, Goto, After
  <2>2. UNCHANGED <<result, item, reply>>
    BY <1>4 DEF Shutdown, CancelContext, Goto
  <2> QED
    BY <1>1, <2>1, <2>2
<1>5. ASSUME NEW l \in Loop, Drain(l)
      PROVE  Causes'
  <2>1. CASE Goto(l, After(l)) /\ UNCHANGED result
    <3>1. PICK pc \in {"leave", "done"} : loop' = [loop EXCEPT ![l] = pc]
      BY <2>1 DEF Goto, After
    <3> QED
      BY <1>1, <2>1, <3>1 DEF Goto
  <2>2. ASSUME NEW r \in drained, result' = [result EXCEPT ![r] = "disconnected"],
               UNCHANGED loopVars
        PROVE  Causes'
    <3>1. failed'
      BY <1>0, <1>5, <2>2 DEF Drain, StopSound
    <3>2. \A q \in Request : result'[q] = result[q] \/ result'[q] = "disconnected"
      BY <1>0, <2>2 DEF TypeOK, TableTypes
    <3>3. \A q \in Request : result'[q] = result[q] \/ (Caused(q, result[q]))'
      BY <3>1, <3>2 DEF Caused
    <3> QED
      BY <2>2, <3>3, LoopKeeps DEF loopVars
  <2> QED
    BY <1>5, <2>1, <2>2 DEF Drain
<1>6. CASE Take
  <2>1. CASE Goto("writer", "done")
    BY <1>0, <1>1, <1>6, <2>1 DEF Take, Goto
  <2>2. CASE Has("writer", "check", Head(writes), "none")
    <3>1. /\ loop' = [loop EXCEPT !["writer"] = "check"] /\ UNCHANGED result
          /\ \A k \in Loop \ {"writer"} : item'[k] = item[k] /\ reply'[k] = reply[k]
      BY <1>0, <1>6, <2>2 DEF Take, Has, TypeOK, LoopTypes
    <3> QED
      BY <1>0, <1>1, <3>1
  <2> QED
    BY <1>6, <2>1, <2>2 DEF Take
<1>7. CASE Check
  <2> DEFINE r == item["writer"]
  <2>1. UNCHANGED <<result, gone>>
    BY <1>7 DEF Check, LoopSame
  <2>2. CASE r[1] \in gone /\ Has("writer", "complete", r, "cancelled")
    <3>1. Caused(r, "cancelled") /\ "cancelled" \in Outcome
      BY <2>2 DEF Caused, Outcome
    <3>2. UNCHANGED <<answers, failed, ended>>
      BY <1>7 DEF Check, stopVars, peerVars
    <3>3. /\ loop' = [loop EXCEPT !["writer"] = "complete"]
          /\ item' = [item EXCEPT !["writer"] = r]
          /\ reply' = [reply EXCEPT !["writer"] = "cancelled"]
      BY <2>2 DEF Has
    <3>4. /\ loop'["writer"] = "complete" /\ item'["writer"] = r
          /\ reply'["writer"] = "cancelled"
          /\ \A k \in Loop \ {"writer"} : /\ loop'[k] = loop[k] /\ item'[k] = item[k]
                                          /\ reply'[k] = reply[k]
      BY <1>0, <3>3 DEF TypeOK, LoopTypes
    <3>5. (Caused(item["writer"], reply["writer"]))'
      BY <2>1, <2>2, <3>4 DEF Caused
    <3> QED
      BY <2>1, <3>1, <3>4, <3>5, LoopKeeps
  <2>3. CASE Rest("writer")
    <3>1. /\ loop' = [loop EXCEPT !["writer"] = "ready"]
          /\ \A k \in Loop \ {"writer"} : item'[k] = item[k] /\ reply'[k] = reply[k]
      BY <1>0, <2>3 DEF Rest, Has, TypeOK, LoopTypes
    <3> QED
      BY <1>0, <1>1, <2>1, <3>1
  <2>4. CASE Goto("writer", "write")
    BY <1>0, <1>1, <2>1, <2>4 DEF Goto
  <2> QED
    BY <1>7, <2>2, <2>3, <2>4 DEF Check
<1>8. CASE Write
  <2>1. UNCHANGED result
    BY <1>8 DEF Write
  <2>2. PICK pc \in {"ready", "shutdown"} : Has("writer", pc, NoRequest, "none")
    BY <1>8 DEF Write, Rest
  <2>3. /\ loop' = [loop EXCEPT !["writer"] = pc]
        /\ \A k \in Loop \ {"writer"} : item'[k] = item[k] /\ reply'[k] = reply[k]
    BY <1>0, <2>2 DEF Has, TypeOK, LoopTypes
  <2> QED
    BY <1>0, <1>1, <2>1, <2>3
<1>9. CASE Read
  <2>1. PICK r \in wire, v \in {"ok", "refused"} :
          Has("reader", "complete", r, v) /\ answers' = answers \cup {<<r, v>>}
    BY <1>9 DEF Read
  <2>2. UNCHANGED result
    BY <1>9 DEF Read, ReaderSame
  <2>3. /\ loop'["reader"] = "complete" /\ item'["reader"] = r /\ reply'["reader"] = v
        /\ \A k \in Loop \ {"reader"} : /\ loop'[k] = loop[k] /\ item'[k] = item[k]
                                        /\ reply'[k] = reply[k]
    BY <1>0, <2>1 DEF Has, TypeOK, LoopTypes
  <2>4. (Caused(item["reader"], reply["reader"]))' /\ v \in Outcome
    BY <2>1, <2>3 DEF Caused, Said, Outcome
  <2> QED
    BY <2>2, <2>3, <2>4, LoopKeeps
<1>10. CASE ReadFails \/ Leave \/ Join
  <2>1. UNCHANGED <<result, item, reply>>
    BY <1>10 DEF ReadFails, Leave, Join, ReaderSame, Goto
  <2>2. PICK pc \in {"shutdown", "join", "done"} : loop' = [loop EXCEPT !["reader"] = pc]
    BY <1>10 DEF ReadFails, Leave, Join, Goto
  <2> QED
    BY <1>0, <1>1, <2>1, <2>2
<1>11. CASE CancelClient
  BY <1>11, LoopKeeps DEF CancelClient, ReaderSame, loopVars
<1> QED
  BY <1>2, <1>3, <1>4, <1>5, <1>6, <1>7, <1>8, <1>9, <1>10, <1>11 DEF LoopStep, Common

-----------------------------------------------------------------------------
(* The inductive invariant. *)

LEMMA InitIInv == Init => IInv
<1> SUFFICES ASSUME Init PROVE IInv
  OBVIOUS
<1>1. TypeOK
  BY InitTypes
<1>2. Traces /\ EchoesDiffer
  BY Requests, <1>1 DEF Init, Traces, EchoesDiffer, Drawn, Serving
<1>3. TableIsLive /\ OneOutcome /\ StopSound
  BY DEF Init, TableIsLive, OneOutcome, StopSound, Delivers, Loop
<1>4. Causes
  BY DEF Init, Causes, Caused
<1> QED
  BY <1>1, <1>2, <1>3, <1>4 DEF IInv

LEMMA NextIInv == IInv /\ [Next]_vars => IInv'
<1> SUFFICES ASSUME IInv, [Next]_vars PROVE IInv'
  OBVIOUS
<1>1. ASSUME NEW s \in Sender, Send(s) \/ CancelCaller(s)
      PROVE  IInv'
  <2>1. TypeOK'
    BY <1>1, SendTypes DEF IInv
  <2> QED
    BY <1>1, <2>1, EchoesStep, SendTraces, SendTable, SendOutcome, SendCauses, SendStop
       DEF IInv
<1>2. CASE LoopStep
  <2>1. TypeOK'
    BY <1>2, LoopStepTypes DEF IInv
  <2> QED
    BY <1>2, <2>1, EchoesStep, LoopTraces, LoopTable, LoopOutcome, LoopCauses, LoopStop
       DEF IInv
<1>3. CASE UNCHANGED vars
  <2>1. UNCHANGED <<at, part, told, gone, echo, result, pending, writes, loop, item, reply,
                    failed, ended, drained, active, wire, answers>>
    BY <1>3 DEF vars, sendVars, loopVars, stopVars, peerVars
  <2>2. TypeOK' /\ Traces' /\ EchoesDiffer' /\ TableIsLive'
    BY <2>1 DEF IInv, TypeOK, CallTypes, TableTypes, QueueTypes, LoopTypes, StopTypes,
       Traces, Drawn, Req, EchoesDiffer, TableIsLive
  <2>3. OneOutcome' /\ Causes' /\ StopSound'
    BY <2>1 DEF IInv, OneOutcome, Delivers, Causes, Caused, Said, Req, StopSound
  <2> QED
    BY <2>2, <2>3 DEF IInv
<1> QED
  BY <1>1, <1>2, <1>3 DEF Next, LoopStep

(* The session's table, its channels and the calls that wait agree in every *)
(* reachable state.                                                         *)
THEOREM SessionInvariance == Spec => []IInv
  BY InitIInv, NextIInv, PTL DEF Spec

(* The queue keeps to its capacity, and channels hold outcomes. *)
THEOREM TypeCorrect == Spec => []TypeOK
<1>1. IInv => TypeOK
  BY DEF IInv
<1> QED
  BY <1>1, SessionInvariance, PTL

(* Reader, writer and shutdown never wait for a caller (complete, shutdown  *)
(* in client.go): whoever took the entry finds room in the channel.         *)
THEOREM NobodyEverBlocks == Spec => []NobodyBlocks
<1>1. IInv => NobodyBlocks
  BY DEF IInv, OneOutcome, NobodyBlocks
<1> QED
  BY <1>1, SessionInvariance, PTL

(* Send reports what has happened to its own requests, and success only if  *)
(* the peer has acknowledged every segment.                                 *)
THEOREM SendReportsTheTruth == Spec => []ReportsAreTrue
<1>1. IInv => ReportsAreTrue
  <2> SUFFICES ASSUME IInv, NEW s \in Sender
               PROVE  /\ Caused(Req(s), told[s]) /\ Req(s)[1] = s
                      /\ at[s] = "done" /\ told[s] = "ok" =>
                           \A n \in 1 .. Parts : Said(<<s, n>>, "ok")
    BY DEF ReportsAreTrue, Caused
  <2>1. Caused(Req(s), told[s]) /\ Req(s)[1] = s
    BY DEF IInv, Causes, Req
  <2>2. ASSUME at[s] = "done", told[s] = "ok", NEW n \in 1 .. Parts
        PROVE  Said(<<s, n>>, "ok")
    <3>1. part[s] = Parts
      BY <2>2 DEF IInv, Causes
    <3>2. CASE n = Parts
      BY <2>1, <2>2, <3>1, <3>2 DEF Caused, Req
    <3>3. CASE n # Parts
      <4>1. n \in 1 .. part[s] - 1
        BY <3>1, <3>3
      <4> QED
        BY <4>1 DEF IInv, Causes
    <3> QED
      BY <3>2, <3>3
  <2> QED
    BY <2>1, <2>2
<1> QED
  BY <1>1, SessionInvariance, PTL

(* No segment reaches the peer before it has acknowledged those before it. *)
THEOREM SegmentsStayInOrder == Spec => []SegmentsInOrder
<1>1. IInv => SegmentsInOrder
  <2> SUFFICES ASSUME IInv, NEW r \in wire, NEW n \in 1 .. r[2] - 1
               PROVE  Said(<<r[1], n>>, "ok")
    BY DEF SegmentsInOrder
  <2>1. r \in Request /\ r[1] \in Sender /\ r[2] \in 1 .. Parts /\ r = <<r[1], r[2]>>
    BY Requests DEF IInv, TypeOK, StopTypes
  <2>2. Drawn(r)
    BY <2>1 DEF IInv, Traces
  <2>3. r[2] <= part[r[1]] /\ part[r[1]] \in 1 .. Parts
    BY <2>1, <2>2 DEF IInv, Traces, TypeOK, CallTypes
  <2>4. n \in 1 .. part[r[1]] - 1
    BY <2>1, <2>3
  <2> QED
    BY <2>1, <2>4 DEF IInv, Causes
<1> QED
  BY <1>1, SessionInvariance, PTL

(* Send keeps both promises. *)
THEOREM SendIsAsPromised == Spec => []SendIsSound
  BY SendReportsTheTruth, SegmentsStayInOrder, PTL DEF SendIsSound

(* The table holds requests that are under way, and none after a failure. *)
THEOREM TableStaysLive == Spec => []TableIsLive
<1>1. IInv => TableIsLive
  BY DEF IInv
<1> QED
  BY <1>1, SessionInvariance, PTL

=============================================================================
