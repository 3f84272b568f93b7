---------------------------- MODULE Consultation ----------------------------
(***************************************************************************)
(* Read-only questions to Codex.  A question may be delivered to several   *)
(* handlers at once, again after a failed notification and again after a   *)
(* restart.  The first handler stores a row under a lease and asks; others *)
(* wait for the stored answer, or take the question over when the lease    *)
(* has run out before an answer was stored.                                *)
(*                                                                         *)
(* Time is counted in ticks.  Asking and storing the answer take at most   *)
(* AskTime ticks (the timeout of the run, the time Codex needs to stop and *)
(* the limit of the store call), which the lease exceeds - unless the      *)
(* process is stalled.                                                     *)
(***************************************************************************)
EXTENDS Naturals, FiniteSets

CONSTANTS
  Question, Handler, NoHandler, NoQuestion,
  Reply, NoReply,
  Failure,     \* the fixed reply of a consultation that failed
  AskTime, Lease,
  Attempts,    \* deliveries of a message whose notification fails
  MaxStalls,   \* bound on ticks during which a run outlives its time
  MaxFaults    \* bound on crashes and store failures

ASSUME ConsultationConstants ==
  /\ NoHandler \notin Handler /\ NoQuestion \notin Question
  /\ NoReply \notin Reply /\ Failure \in Reply
  /\ AskTime \in Nat /\ Lease \in Nat /\ AskTime < Lease
  /\ Attempts \in Nat \ {0} /\ MaxStalls \in Nat /\ MaxFaults \in Nat

VARIABLES
  row,        \* table consultations, with the time left of each lease
  handlers,
  told,       \* history: what was sent to the group about each question
  mode,       \* up, stopping (the contexts are cancelled) or down
  stalls, faults

vars == <<row, handlers, told, mode, stalls, faults>>

(* A lease token belongs to one attempt of one handler, and a handler makes *)
(* one attempt at a time: the handler stands for its token.                 *)
Row == [status : {"absent", "pending", "completed"},
        token : Handler \cup {NoHandler}, left : 0 .. Lease,
        reply : Reply \cup {NoReply}]

Local ==
  [pc : {"idle", "create", "read", "reclaim", "ask", "complete", "send"},
   question : Question \cup {NoQuestion}, spent : 0 .. AskTime + MaxStalls,
   reply : Reply \cup {NoReply}, attempt : 0 .. Attempts - 1]

TypeOK ==
  /\ row \in [Question -> Row] /\ handlers \in [Handler -> Local]
  /\ told \in [Question -> SUBSET Reply]
  /\ mode \in {"up", "stopping", "down"}
  /\ stalls \in 0 .. MaxStalls /\ faults \in 0 .. MaxFaults

Idle == [pc |-> "idle", question |-> NoQuestion, spent |-> 0,
         reply |-> NoReply, attempt |-> 0]

Init ==
  /\ row = [q \in Question |-> [status |-> "absent", token |-> NoHandler,
                                left |-> 0, reply |-> NoReply]]
  /\ handlers = [h \in Handler |-> Idle]
  /\ told = [q \in Question |-> {}]
  /\ mode = "up" /\ stalls = 0 /\ faults = 0

-----------------------------------------------------------------------------
(* The handlers. *)
Q(h) == handlers[h].question
At(h, pc) == mode # "down" /\ handlers[h].pc = pc
Go(h, pc) == handlers' = [handlers EXCEPT ![h].pc = pc]
Stop(h) == handlers' = [handlers EXCEPT ![h] = Idle]
AskNow(h) == handlers' = [handlers EXCEPT ![h].pc = "ask", ![h].spent = 0]

Same == UNCHANGED <<told, mode, stalls, faults>>

Deliver(h, q) ==
  /\ mode = "up" /\ handlers[h].pc = "idle"
  /\ handlers' = [handlers EXCEPT ![h] = [Idle EXCEPT !.pc = "create",
                                                      !.question = q]]
  /\ UNCHANGED row /\ Same

(* The row is inserted unless the message already has one. *)
Create(h) ==
  /\ At(h, "create") /\ mode = "up"
  /\ IF row[Q(h)].status = "absent"
       THEN /\ row' = [row EXCEPT ![Q(h)] = [status |-> "pending", token |-> h,
                                             left |-> Lease, reply |-> NoReply]]
            /\ AskNow(h)
       ELSE Go(h, "read") /\ UNCHANGED row
  /\ Same

(* Definitions named Bug... are mistakes to test the properties with; they  *)
(* are not part of the specification.                                       *)
BugReadNeverReclaims(h) ==
  /\ At(h, "read") /\ mode = "up"
  /\ row[Q(h)].status = "completed"
  /\ handlers' = [handlers EXCEPT ![h].pc = "send", ![h].reply = row[Q(h)].reply]
  /\ UNCHANGED row /\ Same

(* A handler that does not own the question polls its row. *)
Read(h) ==
  /\ At(h, "read") /\ mode = "up"
  /\ \/ /\ row[Q(h)].status = "completed"
        /\ handlers' = [handlers EXCEPT ![h].pc = "send",
                                        ![h].reply = row[Q(h)].reply]
     \/ row[Q(h)].status = "pending" /\ row[Q(h)].left = 0 /\ Go(h, "reclaim")
  /\ UNCHANGED row /\ Same

BugReclaimWithoutCheck(h) ==
  /\ At(h, "reclaim") /\ mode = "up"
  /\ IF row[Q(h)].status = "pending"
       THEN /\ row' = [row EXCEPT ![Q(h)].token = h, ![Q(h)].left = Lease]
            /\ AskNow(h)
       ELSE Go(h, "read") /\ UNCHANGED row
  /\ Same

(* The update applies only if the lease is still expired when it is made.   *)
Reclaim(h) ==
  /\ At(h, "reclaim") /\ mode = "up"
  /\ IF row[Q(h)].status = "pending" /\ row[Q(h)].left = 0
       THEN /\ row' = [row EXCEPT ![Q(h)].token = h, ![Q(h)].left = Lease]
            /\ AskNow(h)
       ELSE Go(h, "read") /\ UNCHANGED row
  /\ Same

(* Codex answers, or fails; a cancelled run fails. *)
Ask(h) ==
  /\ At(h, "ask")
  /\ \E r \in Reply :
       /\ mode = "stopping" => r = Failure
       /\ handlers' = [handlers EXCEPT ![h].pc = "complete", ![h].reply = r]
  /\ UNCHANGED row /\ Same

BugCompleteUnfenced(h) ==
  /\ At(h, "complete")
  /\ row' = [row EXCEPT ![Q(h)].status = "completed",
                        ![Q(h)].reply = handlers[h].reply]
  /\ handlers' = [handlers EXCEPT ![h].pc = "send", ![h].spent = 0]
  /\ Same

(* The answer is stored under the token of the lease, also by a handler     *)
(* that was cancelled.  A handler that has lost the question waits for the  *)
(* answer of the one that took it over.                                     *)
Complete(h) ==
  /\ At(h, "complete")
  /\ IF row[Q(h)].status = "pending" /\ row[Q(h)].token = h
       THEN /\ row' = [row EXCEPT ![Q(h)].status = "completed",
                                  ![Q(h)].reply = handlers[h].reply]
            /\ handlers' = [handlers EXCEPT ![h].pc = "send", ![h].spent = 0]
       ELSE /\ handlers' = [handlers EXCEPT ![h].pc = "read", ![h].spent = 0]
            /\ UNCHANGED row
  /\ Same

Again(h) ==
  handlers' = [handlers EXCEPT ![h] = [Idle EXCEPT
    !.pc = "create", !.question = Q(h), !.attempt = handlers[h].attempt + 1]]

BugOneAttemptTooMany(h) ==
  /\ At(h, "send") /\ mode = "up"
  /\ \/ /\ told' = [told EXCEPT ![Q(h)] = @ \cup {handlers[h].reply}]
        /\ Stop(h)
     \/ /\ UNCHANGED told
        /\ IF handlers[h].attempt < Attempts THEN Again(h) ELSE Stop(h)
  /\ UNCHANGED <<row, mode, stalls, faults>>

(* A notification that failed, which may have reached the group, makes the  *)
(* application deliver the message to the service again, as often as        *)
(* notificationAttempts allows.                                             *)
Send(h) ==
  /\ At(h, "send") /\ mode = "up"
  /\ \/ /\ told' = [told EXCEPT ![Q(h)] = @ \cup {handlers[h].reply}]
        /\ Stop(h)
     \/ /\ \/ UNCHANGED told
           \/ told' = [told EXCEPT ![Q(h)] = @ \cup {handlers[h].reply}]
        /\ IF handlers[h].attempt + 1 < Attempts THEN Again(h) ELSE Stop(h)
  /\ UNCHANGED <<row, mode, stalls, faults>>

(* A cancelled handler ends where it waits, or at its next call. *)
GiveUp(h) ==
  /\ mode = "stopping"
  /\ handlers[h].pc \in {"create", "read", "reclaim", "send"}
  /\ Stop(h)
  /\ UNCHANGED row /\ Same

Act(h) == \/ Create(h) \/ Read(h) \/ Reclaim(h) \/ Ask(h) \/ Complete(h)
          \/ Send(h) \/ GiveUp(h)

-----------------------------------------------------------------------------
(* Time, failures of the store, stops and restarts. *)
Busy == {h \in Handler : handlers[h].pc \in {"ask", "complete"}}
Overtime == {h \in Busy : handlers[h].spent >= AskTime}
Spend == handlers' = [h \in Handler |->
  IF h \in Busy THEN [handlers[h] EXCEPT !.spent = @ + 1] ELSE handlers[h]]

Tick ==
  /\ \/ Overtime = {} /\ UNCHANGED stalls
     \/ /\ Overtime # {} /\ stalls < MaxStalls
        /\ stalls' = stalls + 1
  /\ row' = [q \in Question |-> [row[q] EXCEPT !.left = IF @ = 0 THEN 0 ELSE @ - 1]]
  /\ Spend
  /\ UNCHANGED <<told, mode, faults>>

Fault == faults < MaxFaults /\ faults' = faults + 1

(* A handler whose store call fails reports a fatal error; the application  *)
(* cancels the others and stops.                                            *)
StoreFails(h) ==
  /\ Fault /\ mode # "down"
  /\ handlers[h].pc \in {"create", "read", "reclaim", "complete"}
  /\ mode' = "stopping"
  /\ Stop(h)
  /\ UNCHANGED <<row, told, stalls>>

Shutdown ==
  /\ Fault /\ mode = "up" /\ mode' = "stopping"
  /\ UNCHANGED <<row, handlers, told, stalls>>

Crash ==
  /\ Fault /\ mode # "down" /\ mode' = "down"
  /\ handlers' = [h \in Handler |-> Idle]
  /\ UNCHANGED <<row, told, stalls>>

Stopped ==
  /\ mode = "stopping" /\ \A h \in Handler : handlers[h].pc = "idle"
  /\ mode' = "down"
  /\ UNCHANGED <<row, handlers, told, stalls, faults>>

Restart ==
  /\ mode = "down" /\ mode' = "up"
  /\ UNCHANGED <<row, handlers, told, stalls, faults>>

Next ==
  \/ \E h \in Handler : \/ Act(h) \/ StoreFails(h)
                        \/ \E q \in Question : Deliver(h, q)
  \/ Tick \/ Shutdown \/ Crash \/ Stopped \/ Restart

Spec == Init /\ [][Next]_vars

(* Handlers are goroutines whose calls end, and time passes. *)
Fairness ==
  /\ WF_vars(Tick) /\ WF_vars(Stopped) /\ WF_vars(Restart)
  /\ \A h \in Handler : WF_vars(Act(h))

FairSpec == Spec /\ Fairness

-----------------------------------------------------------------------------
(* Correctness. *)

(* The leases, tokens and replays implement the promise of Answer: one      *)
(* answer for ever, and nobody is told another.                             *)
Promise == INSTANCE Answer WITH
  answer <- [q \in Question |-> row[q].reply]

AnswersOnce == Promise!Spec

(* Codex is asked by one handler at a time: the lease outlasts the run it   *)
(* was taken for ("Keep extra scheduling margin before another owner        *)
(* reclaims").  A process that stalls may break this, and only this.        *)
OneAsk ==
  stalls = 0 => \A g, h \in Handler :
    handlers[g].pc = "ask" /\ handlers[h].pc = "ask" /\ Q(g) = Q(h) => g = h

(* A handler does not wait for ever: the question it was given is answered  *)
(* although its owner may have died, unless the application stops.          *)
QuestionsAnswered ==
  \A h \in Handler, q \in Question :
    handlers[h].pc # "idle" /\ Q(h) = q ~>
      row[q].status = "completed" \/ mode # "up"

-----------------------------------------------------------------------------
(* The inductive invariant behind AnswersOnce.                              *)

(* A stored reply completes the row, and only it was sent. *)
RowsSound ==
  \A q \in Question :
    /\ row[q].reply # NoReply <=> row[q].status = "completed"
    /\ told[q] \subseteq Reply \cap {row[q].reply}

(* A handler sends the stored reply. *)
HandlersSound ==
  \A h \in Handler :
    /\ handlers[h].pc # "idle" => Q(h) \in Question
    /\ handlers[h].pc = "complete" => handlers[h].reply \in Reply
    /\ handlers[h].pc = "send" => /\ row[Q(h)].status = "completed"
                                  /\ handlers[h].reply = row[Q(h)].reply

TimeSound ==
  \A h \in Handler : /\ handlers[h].spent <= AskTime + stalls
                     /\ h \notin Busy => handlers[h].spent = 0

(* Unless the process has stalled, who asks or stores the answer owns the    *)
(* pending row, and its lease and the time it has spent make up the lease   *)
(* it was given; the lease cannot run out before it is done.                *)
LeaseSound ==
  stalls = 0 => \A h \in Busy :
    /\ row[Q(h)].status = "pending" /\ row[Q(h)].token = h
    /\ row[Q(h)].left + handlers[h].spent = Lease

IInv == TypeOK /\ RowsSound /\ HandlersSound /\ TimeSound

=============================================================================
