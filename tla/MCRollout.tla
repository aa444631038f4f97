------------------------------- MODULE MCRollout -------------------------------
(* An instance of the rollout for TLC.                                       *)
EXTENDS RolloutFacts

\* Nothing, before statuses were numbers, before filters and addresses were unique,
\* and the version before.
Versions == {Upto(0, 0), Upto(1, 8), Upto(4, 16), Upto(5, 22)}
RollingVersions == {Upto(5, 22)}
ZakenAndEvents == <<"zaken", "nl.overheid.zaken">>
\* A subscription to a channel with two filters and to events with none.
FiltersOfEach == [item \in {"zaken", "nl.overheid.zaken"} |->
                     IF item = "zaken" THEN {"bron", "zaaktype"} ELSE {}]
\* One that is to have another value, and one that is not configured.
SomeKeySets == {{"bron", "kenmerk"}}
==============================================================================
