---------------------------- MODULE ClientSession ----------------------------
(***************************************************************************)
(* One session of the OneBot client: the calls of Send that use it, its    *)
(* table of pending requests, its write loop and its reader.               *)
(*                                                                         *)
(* A call of Send (a sender) sends the segments of its text one after the  *)
(* other.  Each is a request with a channel of capacity one for its        *)
(* outcome; the table maps the echo of the request to that channel.  Who   *)
(* takes the entry out of the table delivers the outcome, outside of the   *)
(* lock: the reader with an answer of the peer, the write loop for a       *)
(* cancelled call, or the shutdown of the session, which either of the two *)
(* performs.  The connection may break at any time.                        *)
(***************************************************************************)
EXTENDS Naturals, Sequences

CONSTANTS
  Sender,
  Parts,            \* segments of a text
  Echo, NoEcho,     \* random identifiers of requests
  NoRequest,
  WriteQueue        \* capacity of the queue of the write loop

Request == Sender \X (1 .. Parts)

ASSUME SessionConstants ==
  /\ Parts \in Nat \ {0} /\ WriteQueue \in Nat \ {0}
  /\ NoRequest \notin Request /\ NoEcho \notin Echo

VARIABLES
  at, part, told,     \* of each sender: next step, segment, error of the request
  gone,               \* senders whose context is cancelled
  echo, result,       \* of each request: its echo, what its channel holds
  pending,            \* the table
  writes,             \* the queue of the write loop
  loop, item, reply,  \* of reader and writer: next step, request, its outcome
  failed, ended,      \* failure is set, the context of the session is done
  drained,            \* channels that the shutdown still has to serve
  active,             \* the client offers this session to new calls
  wire, answers       \* histories: requests written, and what the peer said

sendVars == <<at, part, told>>
loopVars == <<loop, item, reply>>
stopVars == <<failed, ended, drained, active>>
peerVars == <<wire, answers>>
vars == <<sendVars, gone, echo, result, pending, writes, loopVars, stopVars, peerVars>>

Outcome == {"ok", "refused", "cancelled", "disconnected"}
Loop == {"reader", "writer"}

CallTypes ==
  /\ at \in [Sender -> {"start", "draw", "enqueue", "await", "remove", "done"}]
  /\ part \in [Sender -> 1 .. Parts]
  /\ told \in [Sender -> Outcome \cup {"none"}]
  /\ gone \subseteq Sender

TableTypes ==
  /\ echo \in [Request -> Echo \cup {NoEcho}]
  /\ result \in [Request -> Outcome \cup {"empty"}]
  /\ pending \in [Echo -> Request \cup {NoRequest}]

QueueTypes == writes \in Seq(Request) /\ Len(writes) <= WriteQueue

LoopTypes ==
  /\ loop \in [Loop -> {"ready", "check", "write", "complete", "deliver",
                        "shutdown", "cancel", "drain", "leave", "join", "done"}]
  /\ item \in [Loop -> Request \cup {NoRequest}]
  /\ reply \in [Loop -> Outcome \cup {"none"}]

StopTypes ==
  /\ failed \in BOOLEAN /\ ended \in BOOLEAN /\ active \in BOOLEAN
  /\ drained \subseteq Request /\ wire \subseteq Request
  /\ answers \subseteq Request \X {"ok", "refused"}

TypeOK == CallTypes /\ TableTypes /\ QueueTypes /\ LoopTypes /\ StopTypes

Init ==
  /\ at = [s \in Sender |-> "start"] /\ part = [s \in Sender |-> 1]
  /\ told = [s \in Sender |-> "none"] /\ gone = {}
  /\ echo = [r \in Request |-> NoEcho] /\ result = [r \in Request |-> "empty"]
  /\ pending = [e \in Echo |-> NoRequest] /\ writes = <<>>
  /\ loop = [l \in Loop |-> "ready"] /\ item = [l \in Loop |-> NoRequest]
  /\ reply = [l \in Loop |-> "none"]
  /\ failed = FALSE /\ ended = FALSE /\ active = TRUE
  /\ drained = {} /\ wire = {} /\ answers = {}

-----------------------------------------------------------------------------
(* The calls of Send. *)

Req(s) == <<s, part[s]>>

Step(s, pc) == at' = [at EXCEPT ![s] = pc] /\ UNCHANGED <<part, told>>
Tell(s, pc, outcome) ==
  /\ at' = [at EXCEPT ![s] = pc] /\ told' = [told EXCEPT ![s] = outcome]
  /\ UNCHANGED part

SenderSame == UNCHANGED <<gone, loopVars, stopVars, peerVars>>

Start(s) ==
  /\ at[s] = "start"
  /\ IF s \in gone THEN Tell(s, "done", "cancelled")
     ELSE IF ~active THEN Tell(s, "done", "disconnected")
     ELSE Step(s, "draw")
  /\ UNCHANGED <<echo, result, pending, writes>> /\ SenderSame

(* The echoes that can be drawn.  An echo that is pending is refused and    *)
(* another one drawn; 16 random bytes do not come up again after that.      *)
Fresh == {e \in Echo : pending[e] = NoRequest /\ \A r \in Request : echo[r] # e}

Register(s) ==
  /\ at[s] = "draw"
  /\ \/ failed /\ Tell(s, "done", "disconnected") /\ UNCHANGED <<echo, pending>>
     \/ \E e \in Fresh :
          /\ ~failed
          /\ echo' = [echo EXCEPT ![Req(s)] = e]
          /\ pending' = [pending EXCEPT ![e] = Req(s)]
          /\ Step(s, "enqueue")
  /\ UNCHANGED <<result, writes>> /\ SenderSame

Enqueue(s) ==
  /\ at[s] = "enqueue" /\ Len(writes) < WriteQueue
  /\ writes' = Append(writes, Req(s)) /\ Step(s, "await")
  /\ UNCHANGED <<echo, result, pending>> /\ SenderSame

BugIgnoresEndOfSession(s) ==
  /\ at[s] \in {"enqueue", "await"}
  /\ s \in gone /\ Tell(s, "remove", "cancelled")
  /\ UNCHANGED <<echo, result, pending, writes>> /\ SenderSame

(* A call stops waiting, whatever its channel may hold by then. *)
GiveUp(s) ==
  /\ at[s] \in {"enqueue", "await"}
  /\ \/ s \in gone /\ Tell(s, "remove", "cancelled")
     \/ ended /\ Tell(s, "remove", "disconnected")
  /\ UNCHANGED <<echo, result, pending, writes>> /\ SenderSame

Receive(s) ==
  /\ at[s] = "await" /\ result[Req(s)] # "empty"
  /\ Tell(s, "remove", result[Req(s)])
  /\ result' = [result EXCEPT ![Req(s)] = "empty"]
  /\ UNCHANGED <<echo, pending, writes>> /\ SenderSame

(* The next segment is sent when this one has been acknowledged. *)
NextPart(s) ==
  IF told[s] = "ok" /\ part[s] < Parts
    THEN /\ part' = [part EXCEPT ![s] = @ + 1] /\ told' = [told EXCEPT ![s] = "none"]
         /\ at' = [at EXCEPT ![s] = "draw"]
    ELSE Step(s, "done")

Remove(s) ==
  /\ at[s] = "remove"
  /\ pending' = [e \in Echo |-> IF e = echo[Req(s)] /\ pending[e] = Req(s)
                                  THEN NoRequest ELSE pending[e]]
  /\ NextPart(s)
  /\ UNCHANGED <<echo, result, writes>> /\ SenderSame

Send(s) == Start(s) \/ Register(s) \/ Enqueue(s) \/ GiveUp(s) \/ Receive(s) \/ Remove(s)

-----------------------------------------------------------------------------
(* Steps that reader and writer share. *)

Goto(l, pc) == loop' = [loop EXCEPT ![l] = pc] /\ UNCHANGED <<item, reply>>
Has(l, pc, r, outcome) ==
  /\ loop' = [loop EXCEPT ![l] = pc]
  /\ item' = [item EXCEPT ![l] = r] /\ reply' = [reply EXCEPT ![l] = outcome]
Rest(l) == Has(l, "ready", NoRequest, "none")

LoopSame == UNCHANGED <<sendVars, gone, echo>>

BugCompleteKeepsEntry(l) ==
  /\ loop[l] = "complete"
  /\ LET r == pending[echo[item[l]]]
     IN IF r = NoRequest THEN Rest(l) ELSE Has(l, "deliver", r, reply[l])
  /\ UNCHANGED <<result, pending, writes, stopVars, peerVars>> /\ LoopSame

BugAnswersInOrder(l) ==
  /\ loop[l] = "complete"
  /\ \/ (\A e \in Echo : pending[e] = NoRequest) /\ Rest(l) /\ UNCHANGED pending
     \/ \E e \in Echo :
          /\ pending[e] # NoRequest /\ Has(l, "deliver", pending[e], reply[l])
          /\ pending' = [pending EXCEPT ![e] = NoRequest]
  /\ UNCHANGED <<result, writes, stopVars, peerVars>> /\ LoopSame

(* The entry is taken out of the table under its lock ... *)
Complete(l) ==
  /\ loop[l] = "complete"
  /\ LET e == echo[item[l]]
         r == pending[e]
     IN IF r = NoRequest
          THEN Rest(l) /\ UNCHANGED pending
          ELSE /\ Has(l, "deliver", r, reply[l])
               /\ pending' = [pending EXCEPT ![e] = NoRequest]
  /\ UNCHANGED <<result, writes, stopVars, peerVars>> /\ LoopSame

(* ... and the outcome is sent behind it, when the channel has room. *)
Deliver(l) ==
  /\ loop[l] = "deliver" /\ result[item[l]] = "empty"
  /\ result' = [result EXCEPT ![item[l]] = reply[l]]
  /\ Rest(l)
  /\ UNCHANGED <<pending, writes, stopVars, peerVars>> /\ LoopSame

(* shutdown: the first call ends the session, a second one waits for it. *)
Stopping(l) == loop[l] \in {"cancel", "drain"}
After(l) == IF l = "reader" THEN "leave" ELSE "done"
Listed == {pending[e] : e \in Echo} \ {NoRequest}

Shutdown(l) ==
  /\ loop[l] = "shutdown"
  /\ IF failed
       THEN /\ \A k \in Loop : ~Stopping(k)
            /\ Goto(l, After(l)) /\ UNCHANGED <<pending, failed, drained>>
       ELSE /\ failed' = TRUE /\ drained' = Listed
            /\ pending' = [e \in Echo |-> NoRequest]
            /\ Goto(l, "cancel")
  /\ UNCHANGED <<result, writes, ended, active, peerVars>> /\ LoopSame

CancelContext(l) ==
  /\ loop[l] = "cancel" /\ ended' = TRUE /\ Goto(l, "drain")
  /\ UNCHANGED <<result, pending, writes, failed, drained, active, peerVars>> /\ LoopSame

Drain(l) ==
  /\ loop[l] = "drain"
  /\ \/ \E r \in drained :
          /\ result[r] = "empty" /\ result' = [result EXCEPT ![r] = "disconnected"]
          /\ drained' = drained \ {r} /\ UNCHANGED loopVars
     \/ drained = {} /\ Goto(l, After(l)) /\ UNCHANGED <<result, drained>>
  /\ UNCHANGED <<pending, writes, failed, ended, active, peerVars>> /\ LoopSame

Common(l) ==
  Complete(l) \/ Deliver(l) \/ Shutdown(l) \/ CancelContext(l) \/ Drain(l)

-----------------------------------------------------------------------------
(* The write loop. *)

Take ==
  /\ loop["writer"] = "ready"
  /\ \/ /\ writes # <<>> /\ writes' = Tail(writes)
        /\ Has("writer", "check", Head(writes), "none")
     \/ ended /\ Goto("writer", "done") /\ UNCHANGED writes
  /\ UNCHANGED <<result, pending, stopVars, peerVars>> /\ LoopSame

(* A request whose caller is cancelled, or is no longer pending, is not     *)
(* written; one that is cancelled later may be.                             *)
Check ==
  /\ loop["writer"] = "check"
  /\ LET r == item["writer"]
     IN IF r[1] \in gone THEN Has("writer", "complete", r, "cancelled")
        ELSE IF pending[echo[r]] = NoRequest THEN Rest("writer")
        ELSE Goto("writer", "write")
  /\ UNCHANGED <<result, pending, writes, stopVars, peerVars>> /\ LoopSame

(* A write that fails may have reached the peer. *)
Write ==
  /\ loop["writer"] = "write"
  /\ \/ wire' = wire \cup {item["writer"]} /\ Rest("writer")
     \/ wire' \in {wire, wire \cup {item["writer"]}}
        /\ Has("writer", "shutdown", NoRequest, "none")
  /\ UNCHANGED <<result, pending, writes, stopVars, answers>> /\ LoopSame

-----------------------------------------------------------------------------
(* The reader, in serve. *)

ReaderSame == UNCHANGED <<result, pending, writes>> /\ LoopSame

(* The peer answers a request it has received, now or again; an answer that *)
(* cannot be decoded counts as a refusal.  The first look into the table,   *)
(* which drops answers to what is not pending, has no effect of its own.    *)
Read ==
  /\ loop["reader"] = "ready"
  /\ \E r \in wire, v \in {"ok", "refused"} :
       /\ answers \cap {<<r, u>> : u \in {"ok", "refused"} \ {v}} = {}
       /\ answers' = answers \cup {<<r, v>>}
       /\ Has("reader", "complete", r, v)
  /\ UNCHANGED <<wire, stopVars>> /\ ReaderSame

(* The connection is lost, its context is done, or the events are full. *)
ReadFails ==
  /\ loop["reader"] = "ready" /\ Goto("reader", "shutdown")
  /\ UNCHANGED <<peerVars, stopVars>> /\ ReaderSame

Leave ==
  /\ loop["reader"] = "leave" /\ active' = FALSE /\ Goto("reader", "join")
  /\ UNCHANGED <<peerVars, failed, ended, drained>> /\ ReaderSame

Join ==
  /\ loop["reader"] = "join" /\ loop["writer"] = "done" /\ Goto("reader", "done")
  /\ UNCHANGED <<peerVars, stopVars>> /\ ReaderSame

-----------------------------------------------------------------------------
CancelCaller(s) ==
  /\ s \notin gone /\ at[s] # "done" /\ gone' = gone \cup {s}
  /\ UNCHANGED <<sendVars, echo, result, pending, writes, loopVars, stopVars, peerVars>>

(* The context of the client, and with it that of the session, is cancelled. *)
CancelClient ==
  /\ ~ended /\ ended' = TRUE
  /\ UNCHANGED <<failed, drained, active, peerVars, loopVars>> /\ ReaderSame

Next ==
  \/ \E s \in Sender : Send(s) \/ CancelCaller(s)
  \/ \E l \in Loop : Common(l)
  \/ Take \/ Check \/ Write
  \/ Read \/ ReadFails \/ Leave \/ Join
  \/ CancelClient

Spec == Init /\ [][Next]_vars

(* The goroutines run.  The peer need not answer; reading from a connection *)
(* whose context is done fails in the end, whatever still arrives.          *)
Fairness ==
  /\ \A s \in Sender : WF_vars(Send(s))
  /\ WF_vars(Common("writer") \/ Take \/ Check \/ Write)
  /\ WF_vars(Common("reader") \/ Leave \/ Join)
  /\ SF_vars(ended /\ ReadFails)

FairSpec == Spec /\ Fairness

-----------------------------------------------------------------------------
(* Properties. *)

(* Whoever has taken an entry out of the table finds room in its channel,   *)
(* so that neither reader, writer nor shutdown ever waits for a caller.     *)
NobodyBlocks ==
  /\ \A l \in Loop : loop[l] = "deliver" => result[item[l]] = "empty"
  /\ \A r \in drained : result[r] = "empty"

Said(r, v) == <<r, v>> \in answers

(* What a call of Send reports about the request it made has happened to    *)
(* exactly this request, and success to all of them.                        *)
ReportsAreTrue ==
  \A s \in Sender :
    /\ told[s] \in {"ok", "refused"} => Said(Req(s), told[s])
    /\ told[s] = "cancelled" => s \in gone
    /\ told[s] = "disconnected" => failed \/ ended
    /\ at[s] = "done" /\ told[s] = "ok" => \A n \in 1 .. Parts : Said(<<s, n>>, "ok")

(* A segment is written only when the peer has acknowledged all before it. *)
SegmentsInOrder ==
  \A r \in wire : \A n \in 1 .. r[2] - 1 : Said(<<r[1], n>>, "ok")

(* What Send promises: success means that every segment was acknowledged,   *)
(* each before the next was sent, and an error that this request failed.    *)
SendIsSound == ReportsAreTrue /\ SegmentsInOrder

(* The table holds requests under way under their echoes, and nothing when  *)
(* the session has failed.                                                  *)
TableIsLive ==
  \A e \in Echo : pending[e] # NoRequest =>
    LET r == pending[e]
    IN /\ ~failed /\ echo[r] = e
       /\ r = Req(r[1]) /\ at[r[1]] \in {"enqueue", "await", "remove"}

(* When its context is done the session ends, and with it every call that   *)
(* uses it, whatever the peer does and however full the queue is.           *)
SessionEnds ==
  ended ~> (\A l \in Loop : loop[l] = "done") /\ (\A s \in Sender : at[s] = "done")

-----------------------------------------------------------------------------
(* The inductive invariant behind NobodyBlocks, ReportsAreTrue,             *)
(* SegmentsInOrder and TableIsLive.                                         *)

Serving == {"check", "write", "complete", "deliver"}
Drawn(r) == echo[r] # NoEcho

(* Only a request that has drawn its echo has left a trace anywhere; the    *)
(* segments that are not reached yet have drawn none.                       *)
Traces ==
  /\ \A r \in Request : result[r] # "empty" \/ r \in drained \/ r \in wire => Drawn(r)
  /\ \A i \in 1 .. Len(writes) : Drawn(writes[i])
  /\ \A l \in Loop : loop[l] \in Serving => item[l] \in Request /\ Drawn(item[l])
  /\ \A s \in Sender : \A n \in 1 .. Parts : Drawn(<<s, n>>) => n <= part[s]
  /\ \A s \in Sender : /\ at[s] \in {"start", "draw"} => ~Drawn(Req(s))
                       /\ at[s] \in {"enqueue", "await"} => Drawn(Req(s))

(* An echo belongs to one request. *)
EchoesDiffer ==
  \A q, r \in Request : Drawn(q) /\ echo[q] = echo[r] => q = r

(* A request is in the table, or with one who delivers its outcome, or its  *)
(* outcome is in the channel: never two of these.                           *)
Delivers(l, r) == loop[l] = "deliver" /\ item[l] = r

OneOutcome ==
  /\ \A e \in Echo : pending[e] # NoRequest =>
       /\ result[pending[e]] = "empty" /\ pending[e] \notin drained
       /\ \A l \in Loop : ~Delivers(l, pending[e])
  /\ \A r \in drained : result[r] = "empty" /\ \A l \in Loop : ~Delivers(l, r)
  /\ \A l \in Loop : loop[l] = "deliver" => result[item[l]] = "empty"
  /\ loop["reader"] = "deliver" /\ loop["writer"] = "deliver" =>
       item["reader"] # item["writer"]

(* Every outcome on its way to a caller has its cause. *)
Caused(r, outcome) ==
  /\ outcome \in {"ok", "refused"} => Said(r, outcome)
  /\ outcome = "cancelled" => r[1] \in gone
  /\ outcome = "disconnected" => failed \/ ended

Causes ==
  /\ \A r \in Request : Caused(r, result[r])
  /\ \A s \in Sender : Caused(Req(s), told[s])
  /\ \A l \in Loop : loop[l] \in {"complete", "deliver"} =>
       reply[l] \in Outcome /\ Caused(item[l], reply[l])
  /\ \A s \in Sender : \A n \in 1 .. part[s] - 1 : Said(<<s, n>>, "ok")
  /\ \A s \in Sender : at[s] = "done" /\ told[s] = "ok" => part[s] = Parts

(* What a shutdown leaves behind. *)
StopSound ==
  /\ drained # {} \/ ~active => failed
  /\ \A l \in Loop : loop[l] \in {"cancel", "drain", "leave"} => failed

IInv == /\ TypeOK /\ Traces /\ EchoesDiffer /\ TableIsLive
        /\ OneOutcome /\ Causes /\ StopSound

=============================================================================
