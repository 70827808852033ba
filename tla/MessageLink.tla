----------------------------- MODULE MessageLink -------------------------------
(***************************************************************************)
(* What the firmware expects of its serial link: messages arrive whole, in *)
(* order and once.  A message can be damaged on its way; from then on the  *)
(* link may be out of step, swallow messages and hand over junk, until it  *)
(* finds the beginning of a message again.                                 *)
(***************************************************************************)
EXTENDS Naturals, Sequences

CONSTANTS
  Messages,  (* What the host may send.                                    *)
  Nothing    (* No message has been handed over.                           *)

VARIABLES
  queue,     (* The messages on their way, each with whether it is whole.  *)
  out,       (* The link is out of step.                                   *)
  handed     (* The last message handed over, and a bit that changes with  *)
             (* each.                                                      *)

vars == <<queue, out, handed>>

Init ==
  /\ queue = <<>>
  /\ out = FALSE
  /\ handed = [message |-> Nothing, bit |-> 0]

Send(m) ==
  /\ queue' = Append(queue, [message |-> m, whole |-> TRUE])
  /\ UNCHANGED <<out, handed>>

\* The link is in step and the next message has not been damaged.
Healthy == ~out /\ (queue = <<>> \/ Head(queue).whole)

Deliver ==
  /\ Healthy /\ queue # <<>>
  /\ handed' = [message |-> Head(queue).message, bit |-> 1 - handed.bit]
  /\ queue' = Tail(queue)
  /\ out' = FALSE

\* The message the host is sending loses a byte, or the last one it had.
\* Whether the link is in step changes only when it had begun to receive it.
Damage ==
  /\ queue # <<>>
  /\ LET n == Len(queue)
     IN  /\ \/ queue' = [queue EXCEPT ![n].whole = FALSE]
            \/ queue' = SubSeq(queue, 1, n - 1)
         /\ n > 1 => UNCHANGED out
  /\ UNCHANGED handed

\* An unhealthy link may do anything but invent, reorder or repair messages.
Stumble ==
  /\ ~Healthy
  /\ UNCHANGED queue \/ (queue # <<>> /\ queue' = Tail(queue))

Next ==
  \/ \E m \in Messages : Send(m)
  \/ Deliver
  \/ Damage
  \/ Stumble

\* A message in a healthy link is delivered: weak fairness of Deliver, with
\* the condition that enables it written out.
Progress == <>[](Healthy /\ queue # <<>>) => []<><<Deliver>>_vars

Spec == Init /\ [][Next]_vars /\ Progress
===============================================================================
