----------------------------- MODULE MCPublication -----------------------------
(* Instances of publishing for TLC.                                          *)
EXTENDS Publication, TLC

CONSTANTS p1, p2, s1, s2, n1, e1, e2

Interchangeable == Permutations(Publication) \cup Permutations(Sub)

\* "zaak_type" and "zaakType" are two spellings of one attribute.
TwoSpellings == [k \in Key |-> "zaakType"]

\* A substring of an event type has groups of its own; a channel is its own topic.
EventTopics ==
    [t \in Topic |-> IF t = "zaak.created" THEN {"zaak", "created"} ELSE {t}]

Carries(kind, on, data, null, source) ==
    [kind |-> kind, on |-> on, data |-> data, null |-> null, hasSource |-> source]

\* n1 comes without a source, e2 with data null.
Contents ==
    [m \in Message |->
       CASE m = n1 -> Carries("notificatie", "zaken", [zaak_type |-> "1"], FALSE, FALSE)
         [] m = e1 -> Carries("cloudevent", "zaak.created", [zaakType |-> "1"], FALSE, TRUE)
         [] m = e2 -> Carries("cloudevent", "zaak.created", <<>>, TRUE, TRUE)]

\* A channel loses the attribute that n1 carries and gets another, or gets it back.
ChannelFilters == [n \in Naam |-> {"zaak_type"}]
SomeKeySets == {{"zaak_type"}, {"zaakType"}}

F(key, value) == [key |-> key, value |-> value]
On(topic, filters) == <<topic, filters>>
SomeFilters ==
    {{On("zaken", <<F("zaak_type", "1")>>), On("zaak", <<F("zaakType", "1")>>)},
     {On("zaken", <<F("zaakType", "2")>>), On("zaken", <<F("zaak_type", "*")>>),
      On("created", <<F("zaakType", "2")>>), On("zaak", <<>>)}}
NarrowFilters == {{On("zaken", <<F("zaakType", "2")>>)}}
===============================================================================
