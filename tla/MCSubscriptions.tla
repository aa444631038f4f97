---------------------------- MODULE MCSubscriptions ----------------------------
(* Instances of the subscription endpoints for TLC.                          *)
EXTENDS SubscriptionsImplement

CONSTANTS q1, q2, q3, s1, s2, k1, initial

Bron == {"bron"}
OneFilter == [n \in Naam |-> Bron]

On(n, keys) == [kanaal |-> n, keys |-> keys]
Body(method, s, fields, filters) ==
    [method |-> method, sub |-> s, fields |-> fields, filters |-> filters]

Put(s) == Body("PUT", s, Field, {On(k1, Bron), On(NoKanaal, {})})
Delete(s) == Body("DELETE", s, {}, {})
Post(s, keys) == Body("POST", s, Field, {On(k1, keys)})

Patch(s) == Body("PATCH", s, {"auth"}, {})

AllMethods == {Put(s1), Patch(s1), Delete(s1), Post(s2, {"type"})}
===============================================================================
