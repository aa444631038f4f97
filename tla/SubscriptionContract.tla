-------------------------- MODULE SubscriptionContract --------------------------
(***************************************************************************)
(* What /abonnement promises to clients that call it at the same time: a   *)
(* request that is answered with success has done all it asks for in one   *)
(* step, and every other one has done nothing.  A PUT or PATCH builds on   *)
(* the row as it read it, which may be another by then.  There are no      *)
(* locks, no transactions and no groups that are half replaced.            *)
(***************************************************************************)
CONSTANTS
    Request, Initial, Sub, Field, Naam, Key, NoKanaal, Channels, Existing, Bodies

VARIABLES
    kanaal,     \* the channels: the filter attributes by name
    abonnement, \* the subscriptions: per column, the request it is from
    groups,     \* the filter groups of each subscription
    client      \* what a client waits for: how far its request is, and its answer

vars == <<kanaal, abonnement, groups, client>>

Unmade == [stage |-> "unmade"]
Wants(q) == client[q].body
On(q) == Wants(q).sub

Init ==
    /\ kanaal = Channels
    /\ abonnement = [s \in Existing |-> [f \in Field |-> Initial]]
    /\ groups \in [Sub -> SUBSET {[by |-> Initial, kanaal |-> n, keys |-> {}] : n \in Naam}]
    /\ \A s \in Sub \ Existing : groups[s] = {}
    /\ client = [q \in Request |-> Unmade]
-----------------------------------------------------------------------------
(* A request is made, reads the row that it is about, and is answered.       *)

Client(stage, b, instance, answer) ==
    [stage |-> stage, body |-> b, instance |-> instance, answer |-> answer]

Ask(q, b) ==
    /\ client[q] = Unmade
    /\ LET stage == IF b.method = "POST" THEN "ready" ELSE "asked"
       IN client' = [client EXCEPT ![q] = Client(stage, b, <<>>, 0)]
    /\ UNCHANGED <<kanaal, abonnement, groups>>

Read(q) ==
    /\ client[q].stage = "asked" /\ On(q) \in DOMAIN abonnement
    /\ client' = [client EXCEPT ![q] = Client("ready", Wants(q), abonnement[On(q)], 0)]
    /\ UNCHANGED <<kanaal, abonnement, groups>>

Answer(q, code) == client' = [client EXCEPT ![q] = Client("answered", Wants(q), <<>>, code)]

Refuse(q) ==
    /\ \/ client[q].stage = "asked" /\ On(q) \notin DOMAIN abonnement /\ Answer(q, 404)
       \/ client[q].stage = "ready" /\ Wants(q).method # "DELETE" /\ Answer(q, 400)
       \/ client[q].stage \in {"asked", "ready"} /\ Answer(q, 500)
    /\ UNCHANGED <<kanaal, abonnement, groups>>

\* The groups are those of the request, and no others, on channels that there are.
Filters(q) == {[by |-> q, kanaal |-> g.kanaal, keys |-> g.keys] : g \in Wants(q).filters}
Write(q, row) ==
    /\ \A g \in Wants(q).filters : g.kanaal \in {NoKanaal} \cup DOMAIN kanaal
    /\ abonnement' = [s \in DOMAIN abonnement \cup {On(q)} |->
                         IF s = On(q) THEN row ELSE abonnement[s]]
    /\ groups' = [groups EXCEPT ![On(q)] = Filters(q)]
    /\ UNCHANGED kanaal

Create(q) ==
    /\ client[q].stage = "ready" /\ Wants(q).method = "POST"
    /\ On(q) \notin DOMAIN abonnement
    /\ Write(q, [f \in Field |-> q]) /\ Answer(q, 201)

Update(q) ==
    /\ client[q].stage = "ready" /\ Wants(q).method \in {"PUT", "PATCH"}
    /\ Write(q, [f \in Field |-> IF f \in Wants(q).fields THEN q ELSE client[q].instance[f]])
    /\ Answer(q, 200)

Delete(q) ==
    /\ client[q].stage = "ready" /\ Wants(q).method = "DELETE"
    /\ abonnement' = [s \in DOMAIN abonnement \ {On(q)} |-> abonnement[s]]
    /\ groups' = [groups EXCEPT ![On(q)] = {}]
    /\ UNCHANGED kanaal
    /\ Answer(q, 204)
-----------------------------------------------------------------------------
(* Channels are set by others, and take their groups along.                  *)

SetKanaal(n, keys) ==
    /\ kanaal' = [m \in DOMAIN kanaal \cup {n} |-> IF m = n THEN keys ELSE kanaal[m]]
    /\ UNCHANGED <<abonnement, groups, client>>

DeleteKanaal(n) ==
    /\ n \in DOMAIN kanaal
    /\ kanaal' = [m \in DOMAIN kanaal \ {n} |-> kanaal[m]]
    /\ groups' = [s \in Sub |-> {g \in groups[s] : g.kanaal # n}]
    /\ UNCHANGED <<abonnement, client>>

Next ==
    \/ \E q \in Request : \/ \E b \in Bodies : Ask(q, b)
                          \/ Read(q) \/ Refuse(q) \/ Create(q) \/ Update(q) \/ Delete(q)
    \/ \E n \in Naam : DeleteKanaal(n) \/ \E keys \in SUBSET Key : SetKanaal(n, keys)

Spec == Init /\ [][Next]_vars
=================================================================================
