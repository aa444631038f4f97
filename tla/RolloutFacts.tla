------------------------------ MODULE RolloutFacts ------------------------------
(* What the migrations of this version make of the tables and of an old row,  *)
(* from every state in which they can be executed.  The facts have no          *)
(* parameter: there is one plan, 108 sets of it can have been executed, and a  *)
(* row has at most two columns of six values.  TLC evaluates each of them.     *)
EXTENDS Rollout

Early == Upto(0, 12)
Moved == {"abonnement", "notificatieresponse"}

\* The first migration that has not been executed; every earlier one has.
Following(past, m) == m \in Migration \ past /\ \A n \in Migration : n < m => n \in past

\* A row has the columns of its table.
Rows(t, schema) == [Traced \cap DOMAIN schema[t].columns -> Value]

\* Where the value that must be kept is: a client id in client_id, or, until it is merged,
\* in auth_client_id when that is empty; a status in the column of numbers from the time
\* it is copied to it, which is empty before, and which is renamed.
Sound(t, row, value, past) ==
    /\ value \in Value
    /\ t = "abonnement" =>
         /\ value = ClientId(row) /\ \A c \in DOMAIN row : row[c] # "null"
         /\ Ran(past, D0023) /\ "auth_client_id" \in DOMAIN row => value = row["client_id"]
    /\ t # "abonnement" =>
         LET column == IF Ran(past, D0010) /\ ~Ran(past, D0012) THEN "response_status_int"
                       ELSE "response_status"
         IN /\ column \in DOMAIN row /\ value \in {"", row[column]} \ {"oversized"}
            /\ Ran(past, D0009) /\ ~Ran(past, D0010) => row["response_status_int"] = "null"

\* What m does, when past is executed, to a row that lets it.
RowKept(t, row, past, m, schema) ==
    LET new == RowAfter(t, row, Steps[m]) IN
    Convertible(t, row, m) =>
       /\ new \in Rows(t, schema)
       /\ \A value \in Value :
             Sound(t, row, value, past) => Sound(t, new, value, past \cup {m})
RowsKept(past, m) ==
    LET before == After(past)
        then == After(past \cup {m})
    IN \A t \in Moved \cap DOMAIN before : /\ t \in DOMAIN then
                                           /\ \A row \in Rows(t, before) :
                                                 RowKept(t, row, past, m, then)

\* A migration that is executed in its turn finds what it expects and leads to the tables
\* of the longer plan.
ASSUME NextMigration ==
    \A past \in Past, m \in Migration : Following(past, m) =>
       /\ past \cup {m} \in Past /\ Applicable(After(past), m)
       /\ SchemaAfter(After(past), Steps[m]) = After(past \cup {m})
       /\ RowsKept(past, m)

\* One that has been executed fails or changes nothing, if it is none of those up to 0012.
ASSUME MigrationAgain ==
    \A past \in Past : Early \subseteq past => \A m \in past \ Early :
       Applicable(After(past), m) =>
          SchemaAfter(After(past), Steps[m]) = After(past) /\ RowsKept(past, m)

\* It fails if it is one that is recorded after its transaction.
ASSUME DeferredAgain ==
    \A past \in Past : \A m \in past : Deferred(m) => ~Applicable(After(past), m)

\* The whole plan makes the tables of models.py.
ASSUME PlanMakesModels == Migration \in Past /\ After(Migration) = Models

\* Constraints are about columns that there are.
ASSUME KeysHaveColumns ==
    \A past \in Past : LET schema == After(past) IN
       \A t \in DOMAIN schema : UNION schema[t].keys \subseteq DOMAIN schema[t].columns

\* The rows that released versions have left.
ASSUME OldRowsSound ==
    \A past \in Past : Released(past) =>
       LET schema == After(past) IN
       \A t \in Moved \cap DOMAIN schema : \A row \in OldContent(schema[t].columns) :
          row \in Rows(t, schema) /\ Sound(t, row, ToKeep(t, row), past)
=================================================================================
