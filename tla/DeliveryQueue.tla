---------------------------- MODULE DeliveryQueue ----------------------------
(***************************************************************************)
(* The SQS Standard queue between the publisher and the workers, with its  *)
(* dead-letter queue (template.yaml), and the hand-over of one message to  *)
(* one Lambda invocation of the worker.                                    *)
(*                                                                         *)
(* Delivery is at least once and unordered: any visible message may be     *)
(* received, and a message in flight may become visible again while the    *)
(* invocation that received it is still running.  A message that comes     *)
(* back after MaxReceives receives goes to the dead-letter queue.          *)
(***************************************************************************)
EXTENDS Integers

CONSTANTS
    Messages,     \* messages sent; two of them may carry the same delivery
    Workers,      \* concurrent invocations (MaximumConcurrency)
    MaxReceives,  \* maxReceiveCount of the redrive policy
    NoMessage

ASSUME QueueAssumption ==
    /\ MaxReceives \in Nat \ {0}
    /\ NoMessage \notin Messages

VARIABLES
    queue,     \* where each message is
    receives,  \* ApproximateReceiveCount of each message
    job        \* the message each worker is processing

queueVars == <<queue, receives, job>>

Places == {"UNSENT", "VISIBLE", "IN_FLIGHT", "DELETED", "DEAD"}

QueueTypeOK ==
    /\ queue \in [Messages -> Places]
    /\ receives \in [Messages -> 0 .. MaxReceives]
    /\ job \in [Workers -> Messages \cup {NoMessage}]
    /\ \A m \in Messages :
          queue[m] \in {"UNSENT", "VISIBLE"} => receives[m] < MaxReceives

\* No message has been received; "UNSENT" or "VISIBLE", as the workflow that
\* publishes them is part of the model or not.
QueueInit(place) ==
    /\ queue = [m \in Messages |-> place]
    /\ receives = [m \in Messages |-> 0]
    /\ job = [w \in Workers |-> NoMessage]

Idle(w) == job[w] = NoMessage

\* The publisher sends the messages of ms.
Send(ms) ==
    /\ \A m \in ms : queue[m] = "UNSENT"
    /\ queue' = [m \in Messages |-> IF m \in ms THEN "VISIBLE" ELSE queue[m]]
    /\ UNCHANGED <<receives, job>>

Receive(w, m) ==
    /\ Idle(w)
    /\ queue[m] = "VISIBLE"
    /\ queue' = [queue EXCEPT ![m] = "IN_FLIGHT"]
    /\ receives' = [receives EXCEPT ![m] = @ + 1]
    /\ job' = [job EXCEPT ![w] = m]

\* The visibility timeout ends: the message was reported in batchItemFailures,
\* its invocation died, or the invocation is merely slow.
Reappear(m) ==
    /\ queue[m] = "IN_FLIGHT"
    /\ queue' = [queue EXCEPT
                    ![m] = IF receives[m] < MaxReceives THEN "VISIBLE" ELSE "DEAD"]
    /\ UNCHANGED <<receives, job>>

\* The invocation is done with its message and does not report it as failed:
\* Lambda deletes it.  A message that has already left the queue stays there.
Acknowledge(w) ==
    /\ ~Idle(w)
    /\ queue' = [queue EXCEPT
                    ![job[w]] = IF @ = "DEAD" THEN "DEAD" ELSE "DELETED"]
    /\ job' = [job EXCEPT ![w] = NoMessage]
    /\ UNCHANGED receives

\* The invocation ends without acknowledging.
Abandon(w) ==
    /\ ~Idle(w)
    /\ job' = [job EXCEPT ![w] = NoMessage]
    /\ UNCHANGED <<queue, receives>>
=============================================================================
