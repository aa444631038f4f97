-------------------------- MODULE DeliveryImplements --------------------------
(* The delivery engine implements the delivery contract: a delivery is owed  *)
(* while its ScheduledNotification row exists.                               *)
EXTENDS Delivery

Contract == INSTANCE DeliveryContract
    WITH Retries <- LeastRetries, open <- DOMAIN table, gone <- Gone

\* Every behaviour of the engine, with crashes, overlapping runs, lost broker
\* messages and stale tasks (tasks.py:230-416), is one the contract allows.
ContractSpec == Contract!Spec
===============================================================================
