------------------------------ MODULE MCDelivery ------------------------------
(* Instances of the delivery engine for TLC.                                 *)
EXTENDS DeliveryImplements, TLC

CONSTANTS m1, m2, s1, s2

AllNotifications == [m \in Msg |-> "notificatie"]
AllCloudEvents == [m \in Msg |-> "cloudevent"]
EventThenNotification == [m \in Msg |-> IF m = m1 THEN "cloudevent" ELSE "notificatie"]

DistinctIds == [m \in Msg |-> m]

\* Threads are interchangeable (for the safety runs).
Threads == Permutations(Exec) \cup Permutations(Worker)

AnyOperation == {"deleteParent", "deleteSub", "updateSub", "configure"}
===============================================================================
