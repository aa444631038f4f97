------------------------- MODULE SubscriptionsImplement -------------------------
(* The requests on /abonnement, with their locks and transactions, implement *)
(* the contract: the write takes effect when its transaction commits.        *)
EXTENDS Subscriptions

Stage(pc) == CASE pc = "received" -> "asked" [] pc = "done" -> "answered" [] OTHER -> "ready"
View(r) == IF r = NoRequest THEN [stage |-> "unmade"]
           ELSE [stage |-> Stage(r.pc), body |-> r.body, instance |-> r.instance,
                 answer |-> r.answer]
client == [q \in Request |-> View(req[q])]

Contract == INSTANCE SubscriptionContract

\* However the statements of requests interleave, wait for each other, fail or are rolled
\* back, each request that is answered with success has made exactly its change, at once
\* (AbonnementSerializer.update, @transaction.atomic), and the filters of a subscription
\* are all those of one request and none of another.
OneStepPerRequest == Contract!Spec
=================================================================================
