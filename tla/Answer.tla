------------------------------- MODULE Answer -------------------------------
(***************************************************************************)
(* What the consultation service promises: a question gets at most one     *)
(* answer, for ever, and the group is never told anything else, however    *)
(* often the question is delivered and whoever answers it.                 *)
(***************************************************************************)
CONSTANTS Question, Reply, NoReply

VARIABLES answer,   \* the answer of each question, or NoReply
          told      \* what the group has been told about each question

Init ==
  /\ answer = [q \in Question |-> NoReply]
  /\ told = [q \in Question |-> {}]

Decide(q, r) ==
  /\ answer[q] = NoReply
  /\ answer' = [answer EXCEPT ![q] = r]
  /\ UNCHANGED told

Tell(q) ==
  /\ answer[q] # NoReply
  /\ told' = [told EXCEPT ![q] = @ \cup {answer[q]}]
  /\ UNCHANGED answer

Next == \E q \in Question : Tell(q) \/ \E r \in Reply : Decide(q, r)

Spec == Init /\ [][Next]_<<answer, told>>

=============================================================================
