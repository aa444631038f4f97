---------------------------- MODULE MCCallbackStatus ----------------------------
(* An instance of the callback check for TLC.                                *)
EXTENDS CallbackStatus, TLC

\* One address with two credentials.
TwoTokens == {<<"url", "token">>, <<"url", "other">>}

Symmetry == Permutations(Admin) \cup Permutations(Thread) \cup Permutations(Abonnement)
==============================================================================
