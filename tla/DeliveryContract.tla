--------------------------- MODULE DeliveryContract ---------------------------
(***************************************************************************)
(* What the delivery engine promises of each message for each subscriber   *)
(* (docs/delivery_guarantees.rst, "Flow" and "Mitigations"): at-least-once  *)
(* delivery up to a limit of failed attempts.  It knows nothing of rows in *)
(* progress, runs, locks, queues or time.                                  *)
(***************************************************************************)
EXTENDS Naturals

CONSTANTS
    Row,        \* a message for a subscriber
    Retries,    \* failed attempts above which a delivery may be given up
    FailCap     \* where the history of failures saturates

VARIABLES
    open,       \* deliveries still owed
    confirmed,  \* deliveries the subscriber answered with 2xx
    failures,   \* failed attempts of each delivery
    gone        \* deliveries whose subscription or message was deleted

vars == <<open, confirmed, failures, gone>>

Init ==
    /\ open = {} /\ gone = {}
    /\ confirmed = [r \in Row |-> FALSE]
    /\ failures = [r \in Row |-> 0]

\* A message is accepted for the subscribers in R: nothing was tried yet.
Accept(R) ==
    /\ R \cap (open \cup gone) = {}
    /\ \A r \in R : ~confirmed[r] /\ failures[r] = 0
    /\ open' = open \cup R
    /\ UNCHANGED <<confirmed, failures, gone>>

\* The subscriber confirms; it may have confirmed before, and the delivery may
\* be settled already.
Confirm(r) ==
    /\ confirmed' = [confirmed EXCEPT ![r] = TRUE]
    /\ UNCHANGED <<open, failures, gone>>

\* An attempt failed; when it was one too many, the delivery may be given up.
FailAttempt(r) ==
    /\ failures' = [failures EXCEPT ![r] = IF @ < FailCap THEN @ + 1 ELSE @]
    /\ \/ open' = open
       \/ failures'[r] > Retries /\ open' = open \ {r}
    /\ UNCHANGED <<confirmed, gone>>

Settle(r) ==
    /\ confirmed[r]
    /\ open' = open \ {r}
    /\ UNCHANGED <<confirmed, failures, gone>>

GiveUp(R) ==
    /\ \A r \in R : failures[r] > Retries
    /\ open' = open \ R
    /\ UNCHANGED <<confirmed, failures, gone>>

\* The subscription or the message is deleted, and what is owed to it or of it.
Cancel(R) ==
    /\ gone' = gone \cup R
    /\ open' = open \ R
    /\ UNCHANGED <<confirmed, failures>>

Next ==
    \/ \E R \in SUBSET Row : Accept(R) \/ GiveUp(R) \/ Cancel(R)
    \/ \E r \in Row : Confirm(r) \/ FailAttempt(r) \/ Settle(r)

Spec == Init /\ [][Next]_vars
===============================================================================
