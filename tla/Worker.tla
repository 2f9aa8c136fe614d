------------------------------- MODULE Worker -------------------------------
(***************************************************************************)
(* What the three processors share: one invocation of the worker handling  *)
(* one message (handlers/worker.py) and the retry of conflicting writes    *)
(* (processors/retry.py).                                                  *)
(*                                                                         *)
(* A worker here is one record of an invocation: the records of a batch    *)
(* are processed one after the other and deleted only when the handler     *)
(* returns, so between the last write for a record and its deletion the    *)
(* invocation may still die.  That is the step "ACK".                      *)
(***************************************************************************)
EXTENDS DisbursementStore, DeliveryQueue

CONSTANTS
    DeliveryOf,   \* the delivery whose event is the body of a message
    MaxAttempts   \* MAX_ATTEMPTS of the retrier

ASSUME WorkerAssumption ==
    /\ DeliveryOf \in [Messages -> Deliveries]
    /\ MaxAttempts \in Nat \ {0}

VARIABLES
    pc,        \* the request a worker makes next
    failures   \* consecutive conflicts of the operation being retried

workerVars == <<pc, failures>>

WorkerInit ==
    /\ pc = [w \in Workers |-> "IDLE"]
    /\ failures = [w \in Workers |-> 0]

WorkerTypeOK(Steps) ==
    /\ pc \in [Workers -> Steps \cup {"IDLE", "ACK"}]
    /\ failures \in [Workers -> 0 .. MaxAttempts - 1]
    /\ \A w \in Workers : pc[w] = "IDLE" <=> Idle(w)

Delivery(w) == DeliveryOf[job[w]]

\* Debited by one of the unsafe processors, and not yet in the ledger.
PaiseInHand ==
    UNION {{w} \X (1 .. AmountOf(Delivery(w))) :
             w \in {v \in Workers : pc[v] = "PUT_EFFECT"}}

\* Go on to the next request: a new call of the retrier starts from zero.
Proceed(w, step) ==
    /\ pc' = [pc EXCEPT ![w] = step]
    /\ failures' = [failures EXCEPT ![w] = 0]

\* A worker receives message m and starts at the processor's first request.
StartMessage(w, m, firstStep) ==
    /\ Receive(w, m)
    /\ Proceed(w, firstStep)
    /\ UNCHANGED storeVars

\* The processor returned an outcome: the message is deleted.
FinishMessage(w) ==
    /\ pc[w] = "ACK"
    /\ Acknowledge(w)
    /\ Proceed(w, "IDLE")
    /\ UNCHANGED storeVars

\* Mutation: the handler does not report the failed record (no
\* batchItemFailures), and Lambda deletes its message.
FailUnreported(w) ==
    /\ Acknowledge(w)
    /\ Proceed(w, "IDLE")
    /\ UNCHANGED storeVars

\* An exception, a timeout or a crash: the message stays in flight until its
\* visibility timeout, whatever this invocation has already written.
FailMessage(w) ==
    /\ Abandon(w)
    /\ Proceed(w, "IDLE")
    /\ UNCHANGED storeVars

\* Mutations of the retrier: one attempt too many; no limit at all.
RetryOnceTooOften(w) ==
    IF failures[w] < MaxAttempts
    THEN /\ failures' = [failures EXCEPT ![w] = @ + 1]
         /\ UNCHANGED <<pc, queueVars, storeVars>>
    ELSE FailMessage(w)
RetryWithoutLimit(w) ==
    /\ failures' = [failures EXCEPT ![w] = (@ + 1) % MaxAttempts]
    /\ UNCHANGED <<pc, queueVars, storeVars>>

\* A WriteConflict inside the retrier: sleep and retry, or RetriesExhausted.
RetryConflict(w) ==
    IF failures[w] + 1 < MaxAttempts
    THEN /\ failures' = [failures EXCEPT ![w] = @ + 1]
         /\ UNCHANGED <<pc, queueVars, storeVars>>
    ELSE FailMessage(w)
=============================================================================
