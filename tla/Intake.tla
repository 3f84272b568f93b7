------------------------------- MODULE Intake -------------------------------
(***************************************************************************)
(* The way of a message from the OneBot connection to a message worker,    *)
(* the way of a reply back, and the life of the process around it.         *)
(*                                                                         *)
(*   peer -> reader -> events -> handler -> messages -> workers -> peer    *)
(*                                                                         *)
(* The reader also takes the answers to the replies.  When the events fill *)
(* up it ends its session, so that no worker waits for an answer that the  *)
(* reader, waiting for the workers, would never read.                      *)
(*                                                                         *)
(* Messages are numbered as they arrive; those of foreign groups, which    *)
(* the handler drops, are left out.  What Handle does to the tasks is in   *)
(* TaskLedger and Consultation.  The write loop of a session ends with it  *)
(* and is part of its peer: a failed write ends the session.               *)
(***************************************************************************)
EXTENDS Naturals, Sequences

CONSTANTS
  Worker,
  EventQueue, MessageQueue,   \* capacities
  Attempts,                   \* times a message is handled if replies fail
  MaxMessages, MaxSessions,   \* bounds on what the peer does
  MaxFaults                   \* bound on cancellations and failures

ASSUME IntakeConstants ==
  /\ Worker # {}
  /\ EventQueue \in Nat \ {0} /\ MessageQueue \in Nat \ {0}
  /\ Attempts \in Nat \ {0}
  /\ MaxMessages \in Nat /\ MaxSessions \in Nat /\ MaxFaults \in Nat

VARIABLES
  main, joined, outcome,      \* runLoops and the loop results it received
  cancelled, fatal, posted,   \* contexts, fatal state, results channel
  scheduler,
  client, session, up, active,
  arrived, events, overflow,
  handler, held,
  messages, closed, accepted, dispatched,   \* the last two are histories
  workers,
  faults

appVars == <<main, joined, outcome, closed>>
peerVars == <<client, session, up, active, arrived, overflow>>
queueVars == <<events, handler, held, messages, accepted, dispatched>>
vars == <<appVars, cancelled, fatal, posted, scheduler, peerVars, queueVars,
          workers, faults>>

Loop == {"scheduler", "onebot"}
Number == 1 .. MaxMessages

AppTypes ==
  /\ main \in {"select", "join", "drain", "returned"}
  /\ outcome \in {"none", "stopped", "failed", "fatal", "timeout"}
  /\ joined \subseteq posted /\ posted \subseteq Loop
  /\ cancelled \subseteq {"parent", "loops", "workers"} /\ fatal \in BOOLEAN
  /\ scheduler \in {"run", "reported", "done"} /\ closed \in BOOLEAN
  /\ faults \in 0 .. MaxFaults

PeerTypes ==
  /\ client \in {"dial", "read", "backlog", "drain", "done"}
  /\ session \in 0 .. MaxSessions /\ up \in BOOLEAN /\ active \in 0 .. session
  /\ arrived \in 0 .. MaxMessages

QueueTypes ==
  /\ events \in Seq(Number) /\ Len(events) <= EventQueue
  /\ overflow \in Seq(Number) /\ Len(overflow) <= 1
  /\ handler \in {"recv", "done"}
  /\ held \in Seq(Number) /\ Len(held) <= 1
  /\ messages \in Seq(Number) /\ Len(messages) <= MessageQueue
  /\ accepted \in Seq(Number) /\ dispatched \in Seq(Number)

Job == [pc : {"recv", "handle", "wait", "done"}, attempt : 1 .. Attempts,
        session : 0 .. MaxSessions]

TypeOK == /\ AppTypes /\ PeerTypes /\ QueueTypes
          /\ workers \in [Worker -> Job]

Idle == [pc |-> "recv", attempt |-> 1, session |-> 0]

Init ==
  /\ main = "select" /\ joined = {} /\ outcome = "none"
  /\ cancelled = {} /\ fatal = FALSE /\ posted = {} /\ scheduler = "run"
  /\ client = "dial" /\ session = 0 /\ up = FALSE /\ active = 0
  /\ arrived = 0 /\ events = <<>> /\ overflow = <<>>
  /\ handler = "recv" /\ held = <<>>
  /\ messages = <<>> /\ closed = FALSE /\ accepted = <<>> /\ dispatched = <<>>
  /\ workers = [w \in Worker |-> Idle]
  /\ faults = 0

Stopping == "loops" \in cancelled
Fault == faults < MaxFaults /\ faults' = faults + 1

-----------------------------------------------------------------------------
(* The loop of the client: one session after the other. *)

ClientSame ==
  UNCHANGED <<appVars, cancelled, fatal, scheduler, workers, faults, handler,
              held, messages, accepted, dispatched>>

(* A connection is made after pauses and failures that change nothing here. *)
(* The context is tested before and after the session becomes the active    *)
(* one; if it is cancelled in between a dead session stays active until the *)
(* client ends.                                                             *)
Dial ==
  /\ client = "dial"
  /\ \/ Stopping /\ client' = "drain" /\ UNCHANGED <<session, up, active>>
     \/ /\ session < MaxSessions /\ session' = session + 1
        /\ up' = ~Stopping
        /\ active' \in IF Stopping THEN {active, session'} ELSE {session'}
        /\ client' = IF Stopping THEN "drain" ELSE "read"
  /\ UNCHANGED <<arrived, events, overflow, posted>> /\ ClientSame

(* serve returns, and Run connects again unless its context is cancelled. *)
EndSession ==
  /\ up' = FALSE /\ active' = 0
  /\ client' = IF Stopping THEN "drain" ELSE "dial"
  /\ UNCHANGED <<session, arrived, posted>> /\ ClientSame

BugEventBlocksReader ==
  /\ client = "read" /\ up /\ arrived < MaxMessages /\ arrived' = arrived + 1
  /\ IF Len(events) < EventQueue
       THEN events' = Append(events, arrived') /\ UNCHANGED <<client, up, overflow>>
       ELSE /\ overflow' = <<arrived'>> /\ client' = "backlog"
            /\ UNCHANGED <<events, up>>
  /\ UNCHANGED <<session, active, posted>> /\ ClientSame

(* A message arrives.  The reader does not wait for room while the session  *)
(* is up: it ends the session first.                                        *)
Event ==
  /\ client = "read" /\ up /\ arrived < MaxMessages /\ arrived' = arrived + 1
  /\ IF Len(events) < EventQueue
       THEN events' = Append(events, arrived') /\ UNCHANGED <<client, up, overflow>>
       ELSE /\ overflow' = <<arrived'>> /\ client' = "backlog" /\ up' = FALSE
            /\ UNCHANGED events
  /\ UNCHANGED <<session, active, posted>> /\ ClientSame

BugBacklogDrops ==
  /\ client = "backlog" /\ overflow' = <<>> /\ UNCHANGED events
  /\ EndSession

(* The message that did not fit waits for room, or for the end. *)
Backlog ==
  /\ client = "backlog" /\ overflow' = <<>>
  /\ \/ Len(events) < EventQueue /\ events' = events \o overflow
     \/ Stopping /\ UNCHANGED events
  /\ EndSession

ReadFails ==
  /\ client = "read" /\ (~up \/ Stopping)
  /\ UNCHANGED <<events, overflow>>
  /\ EndSession

(* Run joins the handler before it returns. *)
ClientEnds ==
  /\ client = "drain" /\ handler = "done"
  /\ client' = "done" /\ active' = 0 /\ posted' = posted \cup {"onebot"}
  /\ UNCHANGED <<session, up, arrived, events, overflow>> /\ ClientSame

(* The connection is lost, as a reader or a writer of it will notice. *)
PeerCloses ==
  /\ client = "read" /\ up /\ up' = FALSE
  /\ UNCHANGED <<client, session, active, arrived, events, overflow, posted>>
  /\ ClientSame

ClientRuns == Backlog \/ ReadFails \/ ClientEnds

-----------------------------------------------------------------------------
(* The handler goroutine moves events to the queue of the workers.  When it *)
(* is cancelled it takes no event, or drops the one it took.                *)

HandlerSame == UNCHANGED <<appVars, cancelled, fatal, posted, scheduler, peerVars,
                           dispatched, workers, faults>>

OneLess(queue) == {queue} \cup {Tail(q) : q \in {queue} \ {<<>>}}

Receive ==
  /\ handler = "recv" /\ held = <<>>
  /\ \/ /\ Stopping /\ handler' = "done" /\ UNCHANGED held
        /\ events' \in OneLess(events)
     \/ /\ ~Stopping /\ events # <<>>
        /\ held' = <<Head(events)>> /\ events' = Tail(events)
        /\ UNCHANGED handler
  /\ UNCHANGED <<messages, accepted>> /\ HandlerSame

BugPutIgnoresCancel ==
  /\ held # <<>> /\ held' = <<>>
  /\ Len(messages) < MessageQueue
  /\ messages' = messages \o held /\ accepted' = accepted \o held
  /\ UNCHANGED <<events, handler>> /\ HandlerSame

(* The handler waits for room in the queue, or for the end. *)
Put ==
  /\ held # <<>> /\ held' = <<>>
  /\ \/ /\ Len(messages) < MessageQueue
        /\ messages' = messages \o held /\ accepted' = accepted \o held
     \/ Stopping /\ UNCHANGED <<messages, accepted>>
  /\ UNCHANGED <<events, handler>> /\ HandlerSame

-----------------------------------------------------------------------------
(* The message workers. *)

WorkerSame == UNCHANGED <<appVars, posted, scheduler, peerVars, events, handler,
                          held, accepted>>
Quiet == UNCHANGED <<cancelled, fatal, faults>>
Queues == UNCHANGED <<messages, dispatched>>

Go(w, pc) == workers' = [workers EXCEPT ![w].pc = pc]
Handled(w) == workers' = [workers EXCEPT ![w] = Idle]
Cancelled == "workers" \in cancelled

(* The first fatal error cancels the workers. *)
Report == fatal' = TRUE /\ cancelled' = cancelled \cup {"workers"}

(* A cancelled worker takes no message, or drops the one it took. *)
Take(w) ==
  /\ workers[w].pc = "recv"
  /\ \/ /\ Cancelled /\ Go(w, "done")
        /\ messages' \in OneLess(messages)
        /\ UNCHANGED dispatched
     \/ /\ ~Cancelled /\ messages # <<>> /\ messages' = Tail(messages)
        /\ dispatched' = Append(dispatched, Head(messages))
        /\ Go(w, "handle")
     \/ messages = <<>> /\ closed /\ Go(w, "done") /\ Queues
  /\ WorkerSame /\ Quiet

FatalStore(w) ==
  /\ workers[w].pc = "handle" /\ Fault
  /\ Report /\ workers' = [workers EXCEPT ![w] = [Idle EXCEPT !.pc = "done"]]
  /\ WorkerSame /\ Queues

BugUndelivered(w) ==
  IF workers[w].attempt <= Attempts
    THEN workers' = [workers EXCEPT ![w] =
           [Idle EXCEPT !.pc = "handle", !.attempt = workers[w].attempt + 1]]
    ELSE Handled(w)

(* A reply that failed makes the worker handle the message again, unless it *)
(* is cancelled during the pause before that.                               *)
Undelivered(w) ==
  \/ /\ workers[w].attempt < Attempts
     /\ workers' = [workers EXCEPT ![w] =
           [Idle EXCEPT !.pc = "handle", !.attempt = workers[w].attempt + 1]]
  \/ /\ workers[w].attempt = Attempts \/ Cancelled
     /\ Handled(w)

(* The service handles the message and has nothing to send, or sends its    *)
(* reply to the session that is active then.                                *)
Handle(w) ==
  /\ workers[w].pc = "handle"
  /\ \/ Handled(w)
     \/ IF active = 0 \/ Cancelled
          THEN Undelivered(w)
          ELSE workers' = [workers EXCEPT ![w].pc = "wait", ![w].session = active]
  /\ WorkerSame /\ Quiet /\ Queues

(* A worker waits while the session of its reply lasts. *)
Live(w) == workers[w].session = session /\ up

(* The reader takes the answer of the peer: the reply has been sent, or the *)
(* peer refused it.  The segments of a reply follow one another on the same *)
(* session: they are one request here, which lasts as long as all of them.  *)
Answer(w) ==
  /\ workers[w].pc = "wait" /\ Live(w) /\ client = "read"
  /\ Handled(w) \/ Undelivered(w)
  /\ WorkerSame /\ Quiet /\ Queues

RequestFails(w) ==
  /\ workers[w].pc = "wait" /\ (~Live(w) \/ cancelled \cap {"loops", "workers"} # {})
  /\ Undelivered(w)
  /\ WorkerSame /\ Quiet /\ Queues

WorkerStep(w) == Take(w) \/ Handle(w) \/ RequestFails(w)

-----------------------------------------------------------------------------
(* The scheduler loop, and runLoops. *)

LoopSame == UNCHANGED <<peerVars, queueVars, workers>>

SchedulerEnds ==
  /\ \/ scheduler = "run" /\ Stopping
     \/ scheduler = "reported"
  /\ scheduler' = "done" /\ posted' = posted \cup {"scheduler"}
  /\ UNCHANGED <<appVars, cancelled, fatal, faults>> /\ LoopSame

SchedulerFails ==
  /\ scheduler = "run" /\ Fault
  /\ \/ /\ Report /\ scheduler' = "reported" /\ UNCHANGED posted
     \/ /\ scheduler' = "done" /\ posted' = posted \cup {"scheduler"}
        /\ UNCHANGED <<cancelled, fatal>>
  /\ UNCHANGED appVars /\ LoopSame

CancelParent ==
  /\ "parent" \notin cancelled /\ main # "returned" /\ Fault
  /\ cancelled' = cancelled \cup {"parent", "loops"}
  /\ UNCHANGED <<appVars, fatal, posted, scheduler>> /\ LoopSame

MainSame == UNCHANGED <<fatal, posted, scheduler, faults>> /\ LoopSame

(* The first of three reasons to stop. *)
Stop ==
  /\ main = "select" /\ main' = "join" /\ cancelled' = cancelled \cup {"loops"}
  /\ \/ ("parent" \in cancelled \/ fatal) /\ joined' = {}
     \/ \E l \in posted : joined' = {l}
  /\ UNCHANGED <<outcome, closed>> /\ MainSame

Join(l) ==
  /\ main = "join" /\ l \in posted \ joined /\ joined' = joined \cup {l}
  /\ UNCHANGED <<main, outcome, closed, cancelled>> /\ MainSame

(* "Stop intake before closing the queue". *)
CloseQueue ==
  /\ main = "join" /\ joined = Loop /\ closed' = TRUE /\ main' = "drain"
  /\ UNCHANGED <<joined, outcome, cancelled>> /\ MainSame

Result == IF fatal THEN "fatal"
          ELSE IF "parent" \in cancelled THEN "stopped" ELSE "failed"

BugReturnWithoutWorkers ==
  /\ main = "drain"
  /\ main' = "returned" /\ outcome' = Result
  /\ cancelled' = cancelled \cup {"workers"}
  /\ UNCHANGED <<joined, closed>> /\ MainSame

Return ==
  /\ main = "drain" /\ \A w \in Worker : workers[w].pc = "done"
  /\ main' = "returned" /\ outcome' = Result
  /\ cancelled' = cancelled \cup {"workers"}
  /\ UNCHANGED <<joined, closed>> /\ MainSame

(* The shutdown timer: Run returns with the lock, and the process ends with *)
(* whatever is still running in it.                                         *)
Timeout ==
  /\ main \in {"join", "drain"} /\ main' = "returned" /\ outcome' = "timeout"
  /\ cancelled' = cancelled \cup {"workers"}
  /\ scheduler' = "done" /\ client' = "done" /\ handler' = "done" /\ up' = FALSE
  /\ workers' = [w \in Worker |-> [Idle EXCEPT !.pc = "done"]]
  /\ held' = <<>> /\ overflow' = <<>>
  /\ UNCHANGED <<joined, closed, fatal, posted, session, active, arrived, events,
                 messages, accepted, dispatched, faults>>

MainStep == Stop \/ (\E l \in Loop : Join(l)) \/ CloseQueue \/ Return

-----------------------------------------------------------------------------
Next ==
  \/ Dial \/ Event \/ ClientRuns \/ PeerCloses
  \/ Receive \/ Put
  \/ \E w \in Worker : WorkerStep(w) \/ Answer(w) \/ FatalStore(w)
  \/ SchedulerEnds \/ SchedulerFails \/ CancelParent
  \/ MainStep \/ Timeout

Spec == Init /\ [][Next]_vars

(* The goroutines run, and a peer that keeps its connection answers what it *)
(* is sent.  Neither the timer nor the peer's closing is relied upon, and   *)
(* dialling ends for certain only when it is cancelled.                     *)
Fairness ==
  /\ WF_vars(ClientRuns \/ (Stopping /\ Dial)) /\ WF_vars(Receive \/ Put)
  /\ WF_vars(SchedulerEnds) /\ WF_vars(MainStep)
  /\ \A w \in Worker : WF_vars(WorkerStep(w) \/ Answer(w))

FairSpec == Spec /\ Fairness

-----------------------------------------------------------------------------
(* Correctness. *)

(* Until something stops, every message is in exactly one place between the *)
(* peer and a worker, in the order of arrival, also when a queue is full    *)
(* and the session was given up for it.                                     *)
Pipeline == accepted \o held \o events \o overflow

NothingLost ==
  cancelled = {} =>
    /\ Len(Pipeline) = arrived /\ \A i \in 1 .. arrived : Pipeline[i] = i
    /\ dispatched \o messages = accepted

(* Nobody sends to the queue after it was closed, which would panic:        *)
(* "the client handler can no longer enqueue after both loops join".        *)
IntakeEndsFirst == closed => handler = "done" /\ held = <<>>

(* The runtime lock is released only when nothing that could touch the      *)
(* store is left, no fatal error went unreported and, after a graceful      *)
(* stop, every accepted message was handled.                                *)
CleanStop ==
  main = "returned" /\ outcome # "timeout" =>
    /\ scheduler = "done" /\ client = "done" /\ handler = "done"
    /\ \A w \in Worker : workers[w].pc = "done"
    /\ fatal <=> outcome = "fatal"
    /\ ~fatal => dispatched = accepted

(* An application that stops does neither send to the queue after closing   *)
(* it nor return while something can still touch the store.                 *)
StopIsSafe == IntakeEndsFirst /\ CleanStop

(* Every message that arrived gets to a worker, unless something stops:     *)
(* with all queues full the reader and the workers do not wait for one      *)
(* another.                                                                 *)
MessagesHandled ==
  []<>(Len(dispatched) = arrived \/ cancelled # {} \/ posted # {})

(* A stop ends by itself, without the shutdown timer. *)
StopsGracefully == cancelled # {} ~> main = "returned"

-----------------------------------------------------------------------------
(* The inductive invariant behind NothingLost, IntakeEndsFirst and CleanStop. *)

(* A loop posts its result when it has ended, the client after its handler. *)
ResultsSound ==
  /\ "scheduler" \in posted => scheduler = "done"
  /\ "onebot" \in posted => client = "done"
  /\ client = "done" => handler = "done"
  /\ handler = "done" => held = <<>>
  /\ client # "backlog" => overflow = <<>>

(* The queue is closed when both loops have been joined. *)
JoinSound ==
  /\ main = "drain" => closed
  /\ closed => joined = Loop /\ main \in {"drain", "returned"}
  /\ main = "returned" => outcome # "none"

(* The workers are cancelled by a fatal error, and at the end; unless they  *)
(* are, they empty the queue.                                               *)
QueueSound ==
  /\ Cancelled <=> fatal \/ main = "returned"
  /\ ~Cancelled => /\ dispatched \o messages = accepted
                   /\ \A w \in Worker : workers[w].pc = "done" =>
                        closed /\ messages = <<>>

IInv == /\ TypeOK /\ ResultsSound /\ JoinSound /\ QueueSound
        /\ NothingLost /\ CleanStop

=============================================================================
