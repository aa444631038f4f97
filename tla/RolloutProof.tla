------------------------------ MODULE RolloutProof ------------------------------
(* Theorems about the rollout, for every set of containers, configuration and *)
(* number of faults.  What one migration makes of tables and rows they take   *)
(* from RolloutFacts.                                                         *)
EXTENDS RolloutFacts, FiniteSetTheorems, WellFoundedInduction, TLAPS

\* A container remembers a plan, an item, a group and the filters to write into it.
Form ==
    /\ DOMAIN pc = Container /\ pc = [c \in Container |-> pc[c]]
    /\ DOMAIN held = Container /\ held = [c \in Container |-> held[c]]
    /\ \A c \in Container :
          /\ held[c] = [plan |-> held[c].plan, item |-> held[c].item,
                        group |-> held[c].group, todo |-> held[c].todo]
          /\ held[c].plan \subseteq Migration /\ held[c].item \in Nat

\* What is not recorded is in the plan of a container that migrates.
Planned ==
    /\ recorded \subseteq Migration
    /\ \A c \in Container :
          /\ pc[c] \in {"migrating", "recording"} => Migration \ recorded \subseteq held[c].plan
          /\ pc[c] = "recording" => held[c].plan # {}
          /\ pc[c] \notin {"waiting", "migrating", "recording"} => recorded = Migration

\* What serves configures nothing.
SettingUp == {"kanalen", "abonnement", "item", "group", "filter"}
Places == \A c \in Web : pc[c] \notin SettingUp

\* How far a set-up is that nobody came between.
Configured(item) == \E g \in groups : Of(item) = {g} /\ Wanted[item] \subseteq g.ours
Prepared(c) ==
    /\ pc[c] \in {"abonnement", "item", "group", "filter", "done"} => kanalen = Kanalen
    /\ pc[c] \in {"item", "group", "filter", "done"} => subscription = "config"
    /\ pc[c] \in {"item", "group", "filter"} =>
          /\ held[c].item \in DOMAIN Items
          /\ \A i \in DOMAIN Items : i < held[c].item => Configured(Items[i])
    /\ pc[c] = "group" => Of(Item(c)) = {}
    /\ pc[c] = "filter" => \E g \in groups : /\ Of(Item(c)) = {g} /\ g.id = held[c].group
                                            /\ Wanted[Item(c)] \ held[c].todo \subseteq g.ours
    /\ pc[c] = "done" => \A i \in DOMAIN Items : Configured(Items[i])
PreparedAlone == ~disturbed => \A c \in Setup : Prepared(c)

Whole ==
    /\ kanalen \subseteq Kanalen
    /\ \A g \in groups : g = [id |-> g.id, item |-> g.item, ours |-> g.ours, theirs |-> g.theirs]

\* One container executes the configuration (web-init in docker-compose.yml).
OneSetup == \A c, d \in Setup : c = d

\* From the start before 0013 only the container that sets up migrates; the others wait for
\* its end (depends_on in docker-compose.yml).
Orderly == OneSetup /\ Setup # {} /\ \A past \in Together : Early \subseteq past

\* What has been executed, of which the last may not have been recorded.
Executing == {"migrating", "recording"}
Agrees(past) ==
    /\ past \in Past /\ tables = After(past) /\ recorded \subseteq past
    /\ \A m \in past \ recorded : Deferred(m)
    /\ \A c \in Container :
          /\ pc[c] \in Executing => Migration \ held[c].plan \subseteq past
          /\ pc[c] = "recording" => Min(held[c].plan) \in past

\* Containers that migrate at a time repeat nothing from before 0013; one that migrates alone
\* repeats at most the migration that was not recorded.
Meeting ==
    /\ Early \subseteq recorded
    /\ \A c \in Container : pc[c] \in Executing => held[c].plan \cap Early = {}
Alone(past) ==
    /\ ordered
    /\ recorded = Migration \/ \A c \in Web : pc[c] = "waiting"
    /\ \A c \in Container : pc[c] \in Executing => held[c].plan = Migration \ recorded
    /\ \A m \in past \ recorded, n \in Migration \ recorded : m <= n

\* The rows are those of the tables, and what must be kept is where it has to be by then.
RowsAgree(past) ==
    /\ DOMAIN content \subseteq Moved \cap DOMAIN After(past) /\ DOMAIN due = DOMAIN content
    /\ \A t \in DOMAIN content :
          /\ content[t] \in Rows(t, After(past))
          /\ (t = "abonnement" /\ late) \/ Sound(t, content[t], due[t], past)

DatabaseInv == \E past : Agrees(past) /\ RowsAgree(past) /\ (Meeting \/ Alone(past))

\* Types, by what disturbs them.
Simple ==
    /\ twins \subseteq {"filter", "user"} /\ users \subseteq {"admin", "other"} /\ index \in BOOLEAN
    /\ faults \in 0..MaxFaults
    /\ ordered \in BOOLEAN /\ late \in BOOLEAN /\ disturbed \in BOOLEAN
SetUpPlaces == {"kanalen", "abonnement", "item", "group", "filter", "done"}
Ranges ==
    /\ \A c \in Container :
          /\ pc[c] \in Migrates \cup {"fixtures", "superuser", "creating", "serving"}
                          \cup SetUpPlaces
          /\ held[c].item \in 1..Len(Items) + 1 /\ held[c].todo \subseteq Key
          /\ pc[c] \in {"item", "group", "filter"} => held[c].item \in DOMAIN Items
Grouped ==
    /\ subscription \in {"none", "config", "api"} /\ groups \subseteq Group
    /\ subscription = "none" => groups = {}
    /\ \A g, h \in groups : g.id = h.id => g = h
    /\ \A g \in groups : g.ours \cap g.theirs = {}
\* The numbers that are in use are bounded, so that the next one is new.
Numbered ==
    /\ \A c \in Container : held[c].group \in Nat
    /\ \E bound \in Nat : /\ \A g \in groups : g.id <= bound
                          /\ \A c \in Container : held[c].group <= bound

TypeInv == Simple /\ Ranges /\ Grouped /\ Numbered

RolloutInv == Form /\ Places /\ Planned /\ Whole /\ IndexRestored
SetupInv == RolloutInv /\ PreparedAlone

\* The part of ServesOnItsModels that is about django_migrations.
ServesMigrated == (\E c \in Web : pc[c] = "serving") => recorded = Migration

--------------------------------------------------------------------------------
(* What the steps do to the containers.                                        *)

\* Of a container that another's step is not about.
Stays(d) == pc'[d] = pc[d] /\ held'[d] = held[d]
\* A step of a container is about no other.
Apart(c) == Form' /\ \A d \in Container \ {c} : Stays(d)
PcApart(c) ==
    /\ DOMAIN pc' = Container /\ pc' = [d \in Container |-> pc'[d]]
    /\ \A d \in Container \ {c} : pc'[d] = pc[d]
HeldApart(c) ==
    /\ DOMAIN held' = Container /\ held' = [d \in Container |-> held'[d]]
    /\ \A d \in Container \ {c} : held'[d] = held[d]
    /\ held'[c] = [plan |-> held'[c].plan, item |-> held'[c].item,
                   group |-> held'[c].group, todo |-> held'[c].todo]
    /\ held'[c].plan \subseteq Migration /\ held'[c].item \in Nat

\* What a container remembers of the set-up.
Same(c) == /\ held'[c].item = held[c].item /\ held'[c].group = held[c].group
           /\ held'[c].todo = held[c].todo
Cleared(c) == held'[c].item = 1 /\ held'[c].group = 0 /\ held'[c].todo = {}

LEMMA BothApart ==
    ASSUME Form, NEW c \in Container, PcApart(c), HeldApart(c)
    PROVE  Apart(c)
  BY DEF Form, PcApart, HeldApart, Apart, Stays

LEMMA GotoEffect ==
    ASSUME Form, NEW c \in Container, NEW place, Goto(c, place)
    PROVE  PcApart(c) /\ pc'[c] = place
  BY DEF Form, Goto, PcApart

LEMMA NothingHeld ==
    ASSUME Form, NEW c \in Container, UNCHANGED held
    PROVE  HeldApart(c)
  BY DEF Form, HeldApart

LEMMA GotoApart ==
    ASSUME Form, NEW c \in Container, NEW place, Goto(c, place), UNCHANGED held
    PROVE  Apart(c) /\ pc'[c] = place /\ Same(c)
  BY GotoEffect, NothingHeld, BothApart DEF Same

LEMMA HeldBecomes ==
    ASSUME Form, NEW c \in Container, NEW r, held' = [held EXCEPT ![c] = r],
           r = [plan |-> r.plan, item |-> r.item, group |-> r.group, todo |-> r.todo],
           r.plan \subseteq Migration, r.item \in Nat
    PROVE  HeldApart(c) /\ held'[c] = r
<1>1. DOMAIN held' = Container /\ held'[c] = r /\ \A d \in Container \ {c} : held'[d] = held[d]
  BY DEF Form
<1> QED
  BY <1>1 DEF HeldApart

LEMMA RestartEffect ==
    ASSUME Form, NEW c \in Container, Restart(c)
    PROVE  Apart(c) /\ pc'[c] = "waiting" /\ Cleared(c)
<1>1. Goto(c, "waiting") /\ held' = [held EXCEPT ![c] = Fresh]
  BY DEF Restart
<1>2. /\ Fresh = [plan |-> Fresh.plan, item |-> Fresh.item, group |-> Fresh.group,
                  todo |-> Fresh.todo]
      /\ Fresh.plan \subseteq Migration /\ Fresh.item \in Nat /\ Fresh.item = 1
      /\ Fresh.group = 0 /\ Fresh.todo = {}
  BY DEF Fresh
<1> HIDE DEF Fresh
<1>3. HeldApart(c) /\ held'[c] = Fresh
  BY <1>1, <1>2, HeldBecomes
<1> QED
  BY <1>1, <1>2, <1>3, GotoEffect, BothApart DEF Cleared

LEMMA LeastIn ==
    ASSUME NEW S \in SUBSET Migration, S # {}
    PROVE  Min(S) \in S /\ \A n \in S : Min(S) <= n
<1>1. Migration \subseteq Nat
  BY DEF Migration, Plan
<1>2. S \subseteq Nat
  BY <1>1
<1>3. PICK x \in S : \A y \in S : <<y, x>> \notin OpToRel(<, Nat)
  BY <1>2, NatLessThanWellFounded, WFMin
<1>4. \A y \in S : ~(y < x)
  BY <1>2, <1>3 DEF OpToRel
<1>5. \A y \in S : x <= y
  BY <1>2, <1>4
<1> QED
  BY <1>5 DEF Min

LEMMA PlanBecomes ==
    ASSUME Form, NEW c \in Container, NEW plan \in SUBSET Migration,
           held' = [held EXCEPT ![c].plan = plan]
    PROVE  HeldApart(c) /\ held'[c].plan = plan /\ Same(c)
<1> DEFINE r == [plan |-> plan, item |-> held[c].item, group |-> held[c].group,
                 todo |-> held[c].todo]
<1>1. held[c] = [plan |-> held[c].plan, item |-> held[c].item, group |-> held[c].group,
                 todo |-> held[c].todo]
  BY DEF Form
<1>2. [held[c] EXCEPT !.plan = plan] = r
  BY <1>1
<1>3. /\ r = [plan |-> r.plan, item |-> r.item, group |-> r.group, todo |-> r.todo]
      /\ r.plan = plan /\ r.plan \subseteq Migration /\ r.item \in Nat
      /\ r.item = held[c].item /\ r.group = held[c].group /\ r.todo = held[c].todo
  BY DEF Form
<1>4. held' = [held EXCEPT ![c] = [held[c] EXCEPT !.plan = plan]]
  BY DEF Form
<1> HIDE DEF r
<1>5. held' = [held EXCEPT ![c] = r]
  BY <1>2, <1>4
<1> QED
  BY <1>3, <1>5, HeldBecomes DEF Same

LEMMA PlanEffect ==
    ASSUME Form, NEW c \in Container, PlanMigrations(c)
    PROVE  /\ Apart(c) /\ pc'[c] = "migrating" /\ held'[c].plan = Migration \ recorded
           /\ Same(c) /\ UNCHANGED <<recorded, index, configured, disturbed>>
<1>1. Goto(c, "migrating") /\ held' = [held EXCEPT ![c].plan = Migration \ recorded]
  BY DEF PlanMigrations
<1>2. HeldApart(c) /\ held'[c].plan = Migration \ recorded /\ Same(c)
  <2> DEFINE plan == Migration \ recorded
  <2>1. plan \in SUBSET Migration /\ held' = [held EXCEPT ![c].plan = plan]
    BY <1>1
  <2> HIDE DEF plan
  <2>2. HeldApart(c) /\ held'[c].plan = plan /\ Same(c)
    BY <2>1, PlanBecomes
  <2> QED
    BY <2>2 DEF plan
<1> QED
  BY <1>1, <1>2, GotoEffect, BothApart DEF PlanMigrations, database, ghosts

\* A migration is executed and recorded, executed, or fails.
LEMMA MigrateEffect ==
    ASSUME Form, NEW c \in Container, Migrate(c)
    PROVE  /\ Apart(c) /\ pc[c] = "migrating" /\ held[c].plan # {}
           /\ \/ /\ pc'[c] = "recording" /\ held'[c].plan = held[c].plan /\ Same(c)
                 /\ UNCHANGED recorded
              \/ /\ pc'[c] = "migrating" /\ held'[c].plan = held[c].plan \ {Min(held[c].plan)}
                 /\ Same(c) /\ recorded' = recorded \cup {Min(held[c].plan)}
              \/ pc'[c] = "waiting" /\ Cleared(c) /\ UNCHANGED recorded
           /\ UNCHANGED <<index, configured, disturbed>>
<1> DEFINE m == Min(held[c].plan)
<1>1. /\ pc[c] = "migrating" /\ held[c].plan # {}
      /\ \/ Goto(c, "recording") /\ UNCHANGED <<held, recorded>>
         \/ /\ recorded' = recorded \cup {m} /\ held' = [held EXCEPT ![c].plan = @ \ {m}]
            /\ UNCHANGED pc
         \/ Restart(c) /\ UNCHANGED recorded
      /\ UNCHANGED <<index, configured, disturbed>>
  BY DEF Migrate, database, ghosts
<1> HIDE DEF m
<1>2. CASE Goto(c, "recording") /\ UNCHANGED <<held, recorded>>
  BY <1>1, <1>2, GotoApart
<1>3. CASE /\ recorded' = recorded \cup {m} /\ held' = [held EXCEPT ![c].plan = @ \ {m}]
           /\ UNCHANGED pc
  <2>1. HeldApart(c) /\ held'[c].plan = held[c].plan \ {m} /\ Same(c)
    <3> DEFINE plan == held[c].plan \ {m}
    <3>1. plan \in SUBSET Migration /\ held' = [held EXCEPT ![c].plan = plan]
      BY <1>3 DEF Form
    <3> HIDE DEF plan
    <3>2. HeldApart(c) /\ held'[c].plan = plan /\ Same(c)
      BY <3>1, PlanBecomes
    <3> QED
      BY <3>2 DEF plan
  <2>2. PcApart(c)
    BY <1>3 DEF Form, PcApart
  <2> QED
    BY <1>1, <1>3, <2>1, <2>2, BothApart DEF m
<1>4. CASE Restart(c) /\ UNCHANGED recorded
  BY <1>1, <1>4, RestartEffect
<1> QED
  BY <1>1, <1>2, <1>3, <1>4

LEMMA RecordEffect ==
    ASSUME Form, NEW c \in Container, Record(c)
    PROVE  /\ Apart(c) /\ pc[c] = "recording" /\ pc'[c] = "migrating"
           /\ held'[c].plan = held[c].plan \ {Min(held[c].plan)} /\ Same(c)
           /\ recorded' = recorded \cup {Min(held[c].plan)}
           /\ UNCHANGED <<index, configured, disturbed>>
<1> DEFINE m == Min(held[c].plan)
<1>1. /\ pc[c] = "recording" /\ recorded' = recorded \cup {m}
      /\ held' = [held EXCEPT ![c].plan = @ \ {m}] /\ Goto(c, "migrating")
      /\ UNCHANGED <<index, configured, disturbed>>
  BY DEF Record, ghosts
<1> HIDE DEF m
<1>2. HeldApart(c) /\ held'[c].plan = held[c].plan \ {m} /\ Same(c)
  <2> DEFINE plan == held[c].plan \ {m}
  <2>1. plan \in SUBSET Migration /\ held' = [held EXCEPT ![c].plan = plan]
    BY <1>1 DEF Form
  <2> HIDE DEF plan
  <2>2. HeldApart(c) /\ held'[c].plan = plan /\ Same(c)
    BY <2>1, PlanBecomes
  <2> QED
    BY <2>2 DEF plan
<1> QED
  BY <1>1, <1>2, GotoEffect, BothApart DEF m

\* From here on a container knows that all is recorded.
LEMMA IndexEffect ==
    ASSUME Form, NEW c \in Container, DeleteIndex(c) \/ LookIndex(c) \/ LoadIndex(c)
    PROVE  /\ Apart(c) /\ (Same(c) \/ Cleared(c)) /\ UNCHANGED <<recorded, configured>>
           /\ \/ pc[c] = "migrating" /\ held[c].plan = {} /\ pc'[c] = "deleted"
                 /\ UNCHANGED disturbed
              \/ pc[c] = "deleted" /\ pc'[c] = "looked" /\ UNCHANGED <<index, disturbed>>
              \/ pc[c] = "looked" /\ pc'[c] = "waiting" /\ index' /\ UNCHANGED disturbed
              \/ /\ pc[c] \in {"deleted", "looked"} /\ index'
                 /\ pc'[c] = IF c \in Web THEN "fixtures" ELSE "kanalen"
                 /\ disturbed' = (disturbed /\ c \in Web)
<1>1. ASSUME DeleteIndex(c)
      PROVE  /\ Goto(c, "deleted") /\ pc[c] = "migrating" /\ held[c].plan = {}
             /\ UNCHANGED <<held, recorded, configured, disturbed>>
  BY <1>1 DEF DeleteIndex, database, ghosts
<1>2. ASSUME LookIndex(c)
      PROVE  /\ \/ Goto(c, "looked") /\ UNCHANGED disturbed
                \/ index /\ Migrated(c)
             /\ pc[c] = "deleted" /\ UNCHANGED <<held, recorded, configured, index>>
  BY <1>2 DEF LookIndex, database
<1>3. ASSUME LoadIndex(c)
      PROVE  /\ \/ Restart(c) /\ UNCHANGED disturbed
                \/ Migrated(c) /\ UNCHANGED held
             /\ pc[c] = "looked" /\ index' = TRUE /\ UNCHANGED <<recorded, configured>>
  BY <1>3 DEF LoadIndex, database
<1>4. ASSUME Migrated(c), UNCHANGED held
      PROVE  /\ Apart(c) /\ Same(c) /\ pc'[c] = IF c \in Web THEN "fixtures" ELSE "kanalen"
             /\ disturbed' = (disturbed /\ c \in Web)
  BY <1>4, GotoApart DEF Migrated
<1>5. CASE DeleteIndex(c)
  BY <1>1, <1>5, GotoApart
<1>6. CASE LookIndex(c)
  <2>1. CASE Goto(c, "looked") /\ UNCHANGED disturbed
    BY <1>2, <1>6, <2>1, GotoApart
  <2>2. CASE index /\ Migrated(c)
    BY <1>2, <1>4, <1>6, <2>2
  <2> QED
    BY <1>2, <1>6, <2>1, <2>2
<1>7. CASE LoadIndex(c)
  <2>1. CASE Restart(c) /\ UNCHANGED disturbed
    BY <1>3, <1>7, <2>1, RestartEffect
  <2>2. CASE Migrated(c) /\ UNCHANGED held
    BY <1>3, <1>4, <1>7, <2>2
  <2> QED
    BY <1>3, <1>7, <2>1, <2>2
<1> QED
  BY <1>5, <1>6, <1>7

\* What a web container does between its migrations and its service.
Preparing == {"fixtures", "superuser", "creating"}

LEMMA SuperuserEffect ==
    ASSUME Form, NEW c \in Container, LoadFixtures(c) \/ CheckSuperuser(c) \/ CreateSuperuser(c)
    PROVE  /\ Apart(c) /\ (Same(c) \/ Cleared(c)) /\ pc[c] \in Preparing
           /\ pc'[c] \in {"superuser", "serving", "creating", "waiting"}
           /\ UNCHANGED <<recorded, index, configured, disturbed>>
<1>1. ASSUME CheckSuperuser(c)
      PROVE  /\ \E place \in {"serving", "creating"} : Goto(c, place)
             /\ pc[c] = "superuser"
             /\ UNCHANGED <<held, recorded, index, configured, disturbed>>
  BY <1>1 DEF CheckSuperuser, database, ghosts
<1>2. ASSUME CreateSuperuser(c)
      PROVE  /\ (Goto(c, "serving") /\ UNCHANGED held) \/ Restart(c)
             /\ pc[c] = "creating" /\ UNCHANGED <<recorded, index, configured, disturbed>>
  BY <1>2 DEF CreateSuperuser, database, ghosts
<1>3. ASSUME LoadFixtures(c)
      PROVE  /\ (Goto(c, "superuser") /\ UNCHANGED held) \/ Restart(c)
             /\ pc[c] = "fixtures" /\ UNCHANGED <<recorded, index, configured, disturbed>>
  BY <1>3 DEF LoadFixtures, database, ghosts
<1> QED
  BY <1>1, <1>2, <1>3, GotoApart, RestartEffect DEF Preparing

--------------------------------------------------------------------------------
(* What the steps of the set-up do.                                            *)

LEMMA ItemBecomes ==
    ASSUME Form, NEW c \in Container, NEW item \in Nat,
           held' = [held EXCEPT ![c].item = item, ![c].group = 0, ![c].todo = {}]
    PROVE  /\ HeldApart(c)
           /\ held'[c].item = item /\ held'[c].group = 0 /\ held'[c].todo = {}
<1>1. PICK p, i, g, t : /\ held[c] = [plan |-> p, item |-> i, group |-> g, todo |-> t]
                        /\ p \subseteq Migration /\ i \in Nat
  BY DEF Form
<1>2. [held[c] EXCEPT !.item = item, !.group = 0, !.todo = {}]
         = [plan |-> p, item |-> item, group |-> 0, todo |-> {}]
  <2>1. [[plan |-> p, item |-> i, group |-> g, todo |-> t] EXCEPT !.item = item]
           = [plan |-> p, item |-> item, group |-> g, todo |-> t]
    OBVIOUS
  <2>2. [[plan |-> p, item |-> item, group |-> g, todo |-> t] EXCEPT !.group = 0]
           = [plan |-> p, item |-> item, group |-> 0, todo |-> t]
    OBVIOUS
  <2>3. [[plan |-> p, item |-> item, group |-> 0, todo |-> t] EXCEPT !.todo = {}]
           = [plan |-> p, item |-> item, group |-> 0, todo |-> {}]
    OBVIOUS
  <2>4. [held[c] EXCEPT !.item = item, !.group = 0, !.todo = {}]
           = [[[held[c] EXCEPT !.item = item] EXCEPT !.group = 0] EXCEPT !.todo = {}]
    OBVIOUS
  <2> QED
    BY <1>1, <2>1, <2>2, <2>3, <2>4
<1>3. held' = [held EXCEPT ![c] = [held[c] EXCEPT !.item = item, !.group = 0, !.todo = {}]]
  BY DEF Form
<1> DEFINE r == [plan |-> p, item |-> item, group |-> 0, todo |-> {}]
<1>4. held' = [held EXCEPT ![c] = r]
  BY <1>2, <1>3
<1>5. /\ r = [plan |-> r.plan, item |-> r.item, group |-> r.group, todo |-> r.todo]
      /\ r.plan \subseteq Migration /\ r.item \in Nat
      /\ r.item = item /\ r.group = 0 /\ r.todo = {}
  BY <1>1
<1>6. held[c].item = i /\ held[c].group = g /\ held[c].todo = t
  BY <1>1
<1> HIDE DEF r
<1> QED
  BY <1>4, <1>5, <1>6, HeldBecomes

LEMMA FirstItem ==
    ASSUME Form, NEW c \in Container,
           held' = [held EXCEPT ![c].item = 1]
    PROVE  /\ HeldApart(c) /\ held'[c].item = 1
           /\ held'[c].group = held[c].group /\ held'[c].todo = held[c].todo
<1>1. PICK p, i, g, t : /\ held[c] = [plan |-> p, item |-> i, group |-> g, todo |-> t]
                        /\ p \subseteq Migration /\ i \in Nat
  BY DEF Form
<1>2. [held[c] EXCEPT !.item = 1]
         = [plan |-> p, item |-> 1, group |-> g, todo |-> t]
  BY <1>1
<1>3. held' = [held EXCEPT ![c] = [held[c] EXCEPT !.item = 1]]
  BY DEF Form
<1> DEFINE r == [plan |-> p, item |-> 1, group |-> g, todo |-> t]
<1>4. held' = [held EXCEPT ![c] = r]
  BY <1>2, <1>3
<1>5. /\ r = [plan |-> r.plan, item |-> r.item, group |-> r.group, todo |-> r.todo]
      /\ r.plan \subseteq Migration /\ r.item \in Nat
      /\ r.item = 1 /\ r.group = g /\ r.todo = t
  BY <1>1
<1>6. held[c].item = i /\ held[c].group = g /\ held[c].todo = t
  BY <1>1
<1> HIDE DEF r
<1> QED
  BY <1>4, <1>5, <1>6, HeldBecomes

LEMMA GroupBecomes ==
    ASSUME Form, NEW c \in Container, NEW group, NEW todo,
           held' = [held EXCEPT ![c].group = group, ![c].todo = todo]
    PROVE  /\ HeldApart(c) /\ held'[c].item = held[c].item
           /\ held'[c].group = group /\ held'[c].todo = todo
<1>1. PICK p, i, g, t : /\ held[c] = [plan |-> p, item |-> i, group |-> g, todo |-> t]
                        /\ p \subseteq Migration /\ i \in Nat
  BY DEF Form
<1>2. [held[c] EXCEPT !.group = group, !.todo = todo]
         = [plan |-> p, item |-> i, group |-> group, todo |-> todo]
  <2>1. [[plan |-> p, item |-> i, group |-> g, todo |-> t] EXCEPT !.group = group]
           = [plan |-> p, item |-> i, group |-> group, todo |-> t]
    OBVIOUS
  <2>2. [[plan |-> p, item |-> i, group |-> group, todo |-> t] EXCEPT !.todo = todo]
           = [plan |-> p, item |-> i, group |-> group, todo |-> todo]
    OBVIOUS
  <2>3. [held[c] EXCEPT !.group = group, !.todo = todo]
           = [[held[c] EXCEPT !.group = group] EXCEPT !.todo = todo]
    OBVIOUS
  <2> QED
    BY <1>1, <2>1, <2>2, <2>3
<1>3. held' = [held EXCEPT ![c] = [held[c] EXCEPT !.group = group, !.todo = todo]]
  BY DEF Form
<1> DEFINE r == [plan |-> p, item |-> i, group |-> group, todo |-> todo]
<1>4. held' = [held EXCEPT ![c] = r]
  BY <1>2, <1>3
<1>5. /\ r = [plan |-> r.plan, item |-> r.item, group |-> r.group, todo |-> r.todo]
      /\ r.plan \subseteq Migration /\ r.item \in Nat
      /\ r.item = i /\ r.group = group /\ r.todo = todo
  BY <1>1
<1>6. held[c].item = i /\ held[c].group = g /\ held[c].todo = t
  BY <1>1
<1> HIDE DEF r
<1> QED
  BY <1>4, <1>5, <1>6, HeldBecomes

LEMMA TodoBecomes ==
    ASSUME Form, NEW c \in Container, NEW todo,
           held' = [held EXCEPT ![c].todo = todo]
    PROVE  /\ HeldApart(c) /\ held'[c].item = held[c].item
           /\ held'[c].group = held[c].group /\ held'[c].todo = todo
<1>1. PICK p, i, g, t : /\ held[c] = [plan |-> p, item |-> i, group |-> g, todo |-> t]
                        /\ p \subseteq Migration /\ i \in Nat
  BY DEF Form
<1>2. [held[c] EXCEPT !.todo = todo]
         = [plan |-> p, item |-> i, group |-> g, todo |-> todo]
  BY <1>1
<1>3. held' = [held EXCEPT ![c] = [held[c] EXCEPT !.todo = todo]]
  BY DEF Form
<1> DEFINE r == [plan |-> p, item |-> i, group |-> g, todo |-> todo]
<1>4. held' = [held EXCEPT ![c] = r]
  BY <1>2, <1>3
<1>5. /\ r = [plan |-> r.plan, item |-> r.item, group |-> r.group, todo |-> r.todo]
      /\ r.plan \subseteq Migration /\ r.item \in Nat
      /\ r.item = i /\ r.group = g /\ r.todo = todo
  BY <1>1
<1>6. held[c].item = i /\ held[c].group = g /\ held[c].todo = t
  BY <1>1
<1> HIDE DEF r
<1> QED
  BY <1>4, <1>5, <1>6, HeldBecomes

\* The filters of an item are to be written, or it is the next one's turn.
Filling(c, id) ==
    /\ pc'[c] = "filter" /\ held'[c].item = held[c].item
    /\ held'[c].group = id /\ held'[c].todo = Wanted[Item(c)]
Advanced(c) ==
    /\ pc'[c] = IF held[c].item = Len(Items) THEN "done" ELSE "item"
    /\ held'[c].item = held[c].item + 1 /\ held'[c].group = 0 /\ held'[c].todo = {}

LEMMA NextItemEffect ==
    ASSUME Form, NEW c \in Container, NextItem(c)
    PROVE  Apart(c) /\ Advanced(c)
<1>1. PICK item, place :
         /\ item = held[c].item + 1
         /\ place = IF held[c].item = Len(Items) THEN "done" ELSE "item"
  OBVIOUS
<1>2. /\ item \in Nat /\ Goto(c, place)
      /\ held' = [held EXCEPT ![c].item = item, ![c].group = 0, ![c].todo = {}]
  BY <1>1 DEF NextItem, Form
<1>3. /\ HeldApart(c) /\ held'[c].item = item /\ held'[c].group = 0 /\ held'[c].todo = {}
  BY <1>2, ItemBecomes
<1>4. Apart(c) /\ pc'[c] = place
  BY <1>2, <1>3, GotoEffect, BothApart
<1> QED
  BY <1>1, <1>3, <1>4 DEF Advanced

LEMMA FiltersEffect ==
    ASSUME Form, NEW c \in Container, NEW id, Filters(c, id)
    PROVE  Apart(c) /\ (Filling(c, id) \/ (Wanted[Item(c)] = {} /\ Advanced(c)))
<1>1. CASE Wanted[Item(c)] = {} /\ NextItem(c)
  BY <1>1, NextItemEffect
<1>2. CASE /\ held' = [held EXCEPT ![c].group = id, ![c].todo = Wanted[Item(c)]]
           /\ Goto(c, "filter")
  <2> DEFINE todo == Wanted[Item(c)]
  <2>1. held' = [held EXCEPT ![c].group = id, ![c].todo = todo]
    BY <1>2
  <2> HIDE DEF todo
  <2>2. /\ HeldApart(c) /\ held'[c].item = held[c].item
        /\ held'[c].group = id /\ held'[c].todo = todo
    BY ZenonT(30), <2>1, GroupBecomes
  <2>3. Apart(c) /\ pc'[c] = "filter"
    BY <1>2, <2>2, GotoEffect, BothApart
  <2> QED
    BY <2>2, <2>3 DEF Filling, todo
<1> QED
  BY <1>1, <1>2 DEF Filters

LEMMA KanalenEffect ==
    ASSUME Form, NEW c \in Container, ConfigureKanalen(c)
    PROVE  /\ Apart(c) /\ pc[c] = "kanalen" /\ pc'[c] = "abonnement"
           /\ kanalen' = kanalen \cup Kanalen /\ Same(c)
           /\ UNCHANGED <<recorded, index, subscription, groups, disturbed>>
  BY GotoApart DEF ConfigureKanalen, database, ghosts

LEMMA AbonnementEffect ==
    ASSUME Form, NEW c \in Container, ConfigureAbonnement(c)
    PROVE  /\ Apart(c) /\ pc[c] = "abonnement" /\ subscription' = "config"
           /\ \/ pc'[c] = "waiting" /\ Cleared(c)
              \/ /\ Items # <<>> /\ pc'[c] = "item" /\ held'[c].item = 1
                 /\ held'[c].group = held[c].group /\ held'[c].todo = held[c].todo
           /\ UNCHANGED <<recorded, index, kanalen, groups, disturbed>>
<1>1. /\ pc[c] = "abonnement" /\ subscription' = "config"
      /\ \/ Restart(c)
         \/ Items # <<>> /\ Goto(c, "item") /\ held' = [held EXCEPT ![c].item = 1]
      /\ UNCHANGED <<recorded, index, kanalen, groups, disturbed>>
  BY DEF ConfigureAbonnement, database, ghosts
<1>2. CASE Restart(c)
  BY <1>1, <1>2, RestartEffect
<1>3. CASE Items # <<>> /\ Goto(c, "item") /\ held' = [held EXCEPT ![c].item = 1]
  BY <1>1, <1>3, FirstItem, GotoEffect, BothApart
<1> QED
  BY <1>1, <1>2, <1>3

LEMMA FindEffect ==
    ASSUME Form, NEW c \in Container, FindGroup(c)
    PROVE  /\ Apart(c) /\ pc[c] = "item"
           /\ \/ pc'[c] = "waiting" /\ Cleared(c)
              \/ pc'[c] = "group" /\ Of(Item(c)) = {} /\ Same(c)
              \/ \E g \in groups :
                    /\ Of(Item(c)) = {g}
                    /\ Filling(c, g.id) \/ (Wanted[Item(c)] = {} /\ Advanced(c))
           /\ UNCHANGED <<recorded, index, configured, disturbed>>
<1> DEFINE g == CHOOSE g \in Of(Item(c)) : TRUE
<1>1. /\ pc[c] = "item" /\ UNCHANGED <<recorded, index, configured, disturbed>>
      /\ \/ Restart(c)
         \/ Of(Item(c)) = {} /\ Goto(c, "group") /\ UNCHANGED held
         \/ ~Several(Item(c)) /\ Of(Item(c)) # {} /\ Filters(c, g.id)
  BY DEF FindGroup, database, ghosts
<1>2. Of(Item(c)) # {} => g \in Of(Item(c))
  OBVIOUS
<1> HIDE DEF g
<1>3. ~Several(Item(c)) /\ Of(Item(c)) # {} => Of(Item(c)) = {g} /\ g \in groups
  BY <1>2 DEF Several, Of
<1>4. CASE Restart(c)
  BY <1>1, <1>4, RestartEffect
<1>5. CASE Of(Item(c)) = {} /\ Goto(c, "group") /\ UNCHANGED held
  BY <1>1, <1>5, GotoApart
<1>6. CASE ~Several(Item(c)) /\ Of(Item(c)) # {} /\ Filters(c, g.id)
  BY <1>1, <1>3, <1>6, FiltersEffect
<1> QED
  BY <1>1, <1>4, <1>5, <1>6

LEMMA CreateEffect ==
    ASSUME Form, NEW c \in Container, CreateGroup(c)
    PROVE  /\ Apart(c) /\ pc[c] = "group"
           /\ \/ pc'[c] = "waiting" /\ Cleared(c) /\ UNCHANGED groups
              \/ /\ subscription # "none"
                 /\ Filling(c, LastId + 1) \/ (Wanted[Item(c)] = {} /\ Advanced(c))
                 /\ groups' = groups \cup
                       {[id |-> LastId + 1, item |-> Item(c), ours |-> {}, theirs |-> {}]}
           /\ UNCHANGED <<recorded, index, kanalen, subscription, disturbed>>
<1> DEFINE id == LastId + 1
           new == {[id |-> id, item |-> Item(c), ours |-> {}, theirs |-> {}]}
<1>1. /\ pc[c] = "group" /\ UNCHANGED <<recorded, index, kanalen, subscription, disturbed>>
      /\ \/ Restart(c) /\ UNCHANGED groups
         \/ groups' = groups \cup new /\ Filters(c, id) /\ subscription # "none"
  BY DEF CreateGroup, Reachable, database, ghosts
<1>2. id = LastId + 1 /\ new = {[id |-> id, item |-> Item(c), ours |-> {}, theirs |-> {}]}
  OBVIOUS
<1> HIDE DEF id, new
<1>3. CASE Restart(c) /\ UNCHANGED groups
  BY <1>1, <1>3, RestartEffect
<1>4. CASE groups' = groups \cup new /\ Filters(c, id) /\ subscription # "none"
  BY <1>1, <1>2, <1>4, FiltersEffect
<1> QED
  BY <1>1, <1>3, <1>4

\* The group with an id gets the filter of a key.
Fill(g, id, key) == IF g.id = id THEN WithFilter(g, key) ELSE g
Filled(id, key) == {Fill(g, id, key) : g \in groups}

LEMMA FilterEffect ==
    ASSUME Form, NEW c \in Container, ConfigureFilter(c)
    PROVE  /\ Apart(c) /\ pc[c] = "filter"
           /\ \/ pc'[c] = "waiting" /\ Cleared(c) /\ UNCHANGED groups
              \/ \E key \in held[c].todo :
                    /\ groups' = Filled(held[c].group, key)
                    /\ \/ held[c].todo = {key} /\ Advanced(c)
                       \/ /\ pc'[c] = "filter" /\ held'[c].item = held[c].item
                          /\ held'[c].group = held[c].group
                          /\ held'[c].todo = held[c].todo \ {key}
           /\ UNCHANGED <<recorded, index, kanalen, subscription, disturbed>>
<1>1. /\ pc[c] = "filter" /\ UNCHANGED <<recorded, index, kanalen, subscription, disturbed>>
      /\ \/ Restart(c) /\ UNCHANGED groups
         \/ \E key \in held[c].todo :
               /\ groups' = Filled(held[c].group, key)
               /\ \/ held[c].todo = {key} /\ NextItem(c)
                  \/ held' = [held EXCEPT ![c].todo = @ \ {key}] /\ UNCHANGED pc
  BY DEF ConfigureFilter, Filled, Fill, database, ghosts
<1>2. CASE Restart(c) /\ UNCHANGED groups
  BY <1>1, <1>2, RestartEffect
<1>3. ASSUME NEW key \in held[c].todo, NextItem(c)
      PROVE  Apart(c) /\ Advanced(c)
  BY <1>3, NextItemEffect
<1>4. ASSUME NEW key \in held[c].todo, UNCHANGED pc,
             held' = [held EXCEPT ![c].todo = @ \ {key}]
      PROVE  /\ Apart(c) /\ pc'[c] = pc[c] /\ held'[c].item = held[c].item
             /\ held'[c].group = held[c].group /\ held'[c].todo = held[c].todo \ {key}
  <2> DEFINE todo == held[c].todo \ {key}
  <2>1. held' = [held EXCEPT ![c].todo = todo]
    BY <1>4 DEF Form
  <2> HIDE DEF todo
  <2>2. /\ HeldApart(c) /\ held'[c].item = held[c].item
        /\ held'[c].group = held[c].group /\ held'[c].todo = todo
    BY <2>1, TodoBecomes
  <2>3. PcApart(c)
    BY <1>4 DEF PcApart, Form
  <2> QED
    BY <1>4, <2>2, <2>3, BothApart DEF todo
<1> QED
  BY <1>1, <1>2, <1>3, <1>4

LEMMA KilledEffect ==
    ASSUME Form, NEW c \in Container, Killed(c)
    PROVE  /\ Apart(c) /\ pc'[c] = "waiting" /\ Cleared(c)
           /\ UNCHANGED <<recorded, index, configured, disturbed>>
  BY RestartEffect DEF Killed, database, ghosts

\* What everybody else does.
LEMMA OthersEffect ==
    ASSUME Next
    PROVE  \/ \E c \in Container : ContainerStep(c) \/ Killed(c)
           \/ /\ UNCHANGED <<pc, held, recorded, index>>
              /\ disturbed' \/ UNCHANGED <<configured, disturbed>>
  BY DEF Next, PutAbonnement, DeleteAbonnement, DeleteKanaal, EditUsers, RemoveTwins, OldPut,
         database, configured, ghosts

LEMMA ContainerApart ==
    ASSUME Form, NEW c \in Container, ContainerStep(c) \/ Killed(c)
    PROVE  Apart(c)
  BY PlanEffect, MigrateEffect, RecordEffect, IndexEffect, SuperuserEffect, KanalenEffect,
     AbonnementEffect, FindEffect, CreateEffect, FilterEffect, KilledEffect DEF ContainerStep

LEMMA FormStep ==
    ASSUME Form, Next
    PROVE  Form'
  BY OthersEffect, ContainerApart DEF Apart, Form

--------------------------------------------------------------------------------
(* Steps of the parts of the invariant.                                        *)

\* What a step of a container leaves it at.
LEMMA ContainerPlaces ==
    ASSUME Form, NEW c \in Container, ContainerStep(c) \/ Killed(c)
    PROVE  \/ pc'[c] \in Migrates
           \/ index' /\ pc'[c] = IF c \in Web THEN "fixtures" ELSE "kanalen"
           \/ /\ UNCHANGED index
              /\ \/ pc[c] \in Preparing /\ pc'[c] \notin SettingUp
                 \/ pc[c] \in SettingUp
<1>1. CASE PlanMigrations(c) \/ Migrate(c) \/ Record(c) \/ Killed(c)
  BY <1>1, PlanEffect, MigrateEffect, RecordEffect, KilledEffect DEF Migrates
<1>2. CASE DeleteIndex(c) \/ LookIndex(c) \/ LoadIndex(c)
  BY <1>2, IndexEffect DEF Migrates
<1>3. CASE LoadFixtures(c) \/ CheckSuperuser(c) \/ CreateSuperuser(c)
  BY <1>3, SuperuserEffect DEF Migrates, SettingUp
<1>4. CASE ConfigureKanalen(c)
  BY <1>4, KanalenEffect DEF SettingUp
<1>5. CASE ConfigureAbonnement(c)
  BY <1>5, AbonnementEffect DEF SettingUp
<1>6. CASE FindGroup(c)
  BY <1>6, FindEffect DEF SettingUp
<1>7. CASE CreateGroup(c)
  BY <1>7, CreateEffect DEF SettingUp
<1>8. CASE ConfigureFilter(c)
  BY <1>8, FilterEffect DEF SettingUp
<1> QED
  BY <1>1, <1>2, <1>3, <1>4, <1>5, <1>6, <1>7, <1>8 DEF ContainerStep

LEMMA PlacesStep ==
    ASSUME Form, Places, Next
    PROVE  Places'
<1>1. ASSUME NEW c \in Container, ContainerStep(c) \/ Killed(c)
      PROVE  Places'
  <2>1. \A d \in Container \ {c} : pc'[d] = pc[d]
    BY <1>1, ContainerApart DEF Apart, Stays
  <2>2. c \in Web => pc'[c] \notin SettingUp
    BY <1>1, ContainerPlaces DEF Places, Preparing, SettingUp, Migrates
  <2> QED
    BY <2>1, <2>2 DEF Places, Container
<1>2. CASE UNCHANGED pc
  BY <1>2 DEF Places
<1> QED
  BY <1>1, <1>2, OthersEffect

\* While the index is not there, a container has yet to load it.
LEMMA IndexStep ==
    ASSUME Form, IndexRestored, Next
    PROVE  IndexRestored'
<1>1. ASSUME NEW c \in Container, ContainerStep(c) \/ Killed(c)
      PROVE  IndexRestored'
  <2>1. \A d \in Container \ {c} : pc'[d] = pc[d]
    BY <1>1, ContainerApart DEF Apart, Stays
  <2>2. CASE pc'[c] \in Migrates \/ index'
    BY <2>2 DEF IndexRestored
  <2>3. CASE UNCHANGED index /\ pc[c] \notin Migrates
    BY <2>1, <2>3 DEF IndexRestored
  <2>4. SettingUp \cap Migrates = {} /\ Preparing \cap Migrates = {}
    BY DEF SettingUp, Preparing, Migrates
  <2> QED
    BY <1>1, <2>2, <2>3, <2>4, ContainerPlaces
<1>2. CASE UNCHANGED <<pc, index>>
  BY <1>2 DEF IndexRestored
<1> QED
  BY <1>1, <1>2, OthersEffect

\* A container is through with its plan when all is recorded, whoever did it.
LEMMA PlannedStep ==
    ASSUME Form, Planned, Next
    PROVE  Planned'
<1> DEFINE Left(c) ==
             /\ pc'[c] \in {"migrating", "recording"} =>
                   Migration \ recorded' \subseteq held'[c].plan
             /\ pc'[c] = "recording" => held'[c].plan # {}
             /\ pc'[c] \notin {"waiting", "migrating", "recording"} => recorded' = Migration
<1>1. ASSUME NEW c \in Container, Apart(c), recorded \subseteq recorded',
             recorded' \subseteq Migration, Left(c)
      PROVE  Planned'
  <2>1. \A d \in Container \ {c} : pc'[d] = pc[d] /\ held'[d] = held[d]
    BY <1>1 DEF Apart, Stays
  <2>2. \A d \in Container \ {c} : Left(d)
    BY <1>1, <2>1 DEF Planned
  <2> HIDE DEF Left
  <2>3. \A d \in Container : Left(d)
    BY <1>1, <2>2
  <2> QED
    BY <1>1, <2>3 DEF Planned, Left
<1>2. ASSUME NEW c \in Container, UNCHANGED recorded, Apart(c), Left(c)
      PROVE  Planned'
  BY <1>1, <1>2 DEF Planned
<1>3. ASSUME NEW c \in Container, pc[c] \in {"migrating", "recording"}, held[c].plan # {},
             Apart(c), pc'[c] = "migrating",
             held'[c].plan = held[c].plan \ {Min(held[c].plan)},
             recorded' = recorded \cup {Min(held[c].plan)}
      PROVE  Planned'
  <2> DEFINE m == Min(held[c].plan)
  <2>1. m \in Migration
    BY <1>3, LeastIn DEF Form
  <2>2. Migration \ recorded \subseteq held[c].plan /\ recorded \subseteq Migration
    BY <1>3 DEF Planned
  <2> HIDE DEF m
  <2>3. Migration \ recorded' \subseteq held'[c].plan /\ recorded' \subseteq Migration
    BY <1>3, <2>1, <2>2 DEF m
  <2>4. recorded \subseteq recorded'
    BY <1>3
  <2> QED
    BY <1>1, <1>3, <2>3, <2>4
<1>4. ASSUME NEW c \in Container, PlanMigrations(c)
      PROVE  Planned'
  <2>1. Left(c)
    BY <1>4, PlanEffect
  <2> QED
    BY <1>2, <1>4, <2>1, PlanEffect
<1>5. ASSUME NEW c \in Container, Migrate(c)
      PROVE  Planned'
  <2>1. CASE pc'[c] = "recording" /\ held'[c].plan = held[c].plan /\ UNCHANGED recorded
    <3>1. Left(c)
      BY <1>5, <2>1, MigrateEffect DEF Planned
    <3> QED
      BY <1>2, <1>5, <2>1, <3>1, MigrateEffect
  <2>2. CASE pc'[c] = "waiting" /\ UNCHANGED recorded
    <3>1. Left(c)
      BY <2>2
    <3> QED
      BY <1>2, <1>5, <2>2, <3>1, MigrateEffect
  <2>3. CASE /\ pc'[c] = "migrating" /\ held'[c].plan = held[c].plan \ {Min(held[c].plan)}
             /\ recorded' = recorded \cup {Min(held[c].plan)}
    BY <1>3, <1>5, <2>3, MigrateEffect
  <2> QED
    BY <1>5, <2>1, <2>2, <2>3, MigrateEffect
<1>6. ASSUME NEW c \in Container, Record(c)
      PROVE  Planned'
  <2>1. held[c].plan # {}
    BY <1>6, RecordEffect DEF Planned
  <2> QED
    BY <1>3, <1>6, <2>1, RecordEffect
<1>7. ASSUME NEW c \in Container, DeleteIndex(c) \/ LookIndex(c) \/ LoadIndex(c)
      PROVE  Planned'
  <2>1. /\ Apart(c) /\ UNCHANGED recorded
        /\ \/ pc[c] = "migrating" /\ held[c].plan = {}
           \/ pc[c] \in {"deleted", "looked"}
        /\ pc'[c] \notin {"migrating", "recording"}
    BY <1>7, IndexEffect
  <2>2. recorded = Migration
    BY <2>1 DEF Planned
  <2>3. Left(c)
    BY <2>1, <2>2
  <2> QED
    BY <1>2, <2>1, <2>3
<1>8. ASSUME NEW c \in Container, Apart(c), UNCHANGED recorded,
             pc[c] \in Preparing \cup SettingUp,
             pc'[c] \notin {"migrating", "recording"}
      PROVE  Planned'
  <2>1. recorded = Migration
    BY <1>8 DEF Planned, Preparing, SettingUp
  <2>2. Left(c)
    BY <1>8, <2>1
  <2> QED
    BY <1>2, <1>8, <2>2
<1>9. ASSUME NEW c \in Container, LoadFixtures(c) \/ CheckSuperuser(c) \/ CreateSuperuser(c)
      PROVE  Planned'
  BY <1>8, <1>9, SuperuserEffect
<1>10. ASSUME NEW c \in Container, ConfigureKanalen(c) \/ ConfigureAbonnement(c)
       PROVE  Planned'
  BY <1>8, <1>10, KanalenEffect, AbonnementEffect DEF SettingUp
<1>11. ASSUME NEW c \in Container, FindGroup(c) \/ CreateGroup(c)
       PROVE  Planned'
  BY <1>8, <1>11, FindEffect, CreateEffect DEF SettingUp, Filling, Advanced
<1>12. ASSUME NEW c \in Container, ConfigureFilter(c)
       PROVE  Planned'
  BY <1>8, <1>12, FilterEffect DEF SettingUp, Advanced
<1>13. ASSUME NEW c \in Container, Killed(c)
       PROVE  Planned'
  BY <1>2, <1>13, KilledEffect
<1>14. ASSUME UNCHANGED <<pc, held, recorded>>
       PROVE  Planned'
  BY <1>14 DEF Planned
<1> HIDE DEF Left
<1> QED
  BY <1>4, <1>5, <1>6, <1>7, <1>9, <1>10, <1>11, <1>12, <1>13, <1>14, OthersEffect
     DEF ContainerStep

\* Writing a filter takes nothing from those that are as configured.
LEMMA WithFilterShape ==
    ASSUME NEW g, NEW key, g = [id |-> g.id, item |-> g.item, ours |-> g.ours, theirs |-> g.theirs]
    PROVE  WithFilter(g, key) = [id |-> g.id, item |-> g.item, ours |-> g.ours \cup {key},
                                 theirs |-> g.theirs \ {key}]
<1> DEFINE i == g.id
           t == g.item
           o == g.ours
           h == g.theirs
<1>1. g = [id |-> i, item |-> t, ours |-> o, theirs |-> h]
  OBVIOUS
<1> HIDE DEF i, t, o, h
<1>2. /\ [[id |-> i, item |-> t, ours |-> o, theirs |-> h] EXCEPT !.ours = o \cup {key}]
             = [id |-> i, item |-> t, ours |-> o \cup {key}, theirs |-> h]
      /\ g.ours = o /\ g.theirs = h /\ g.id = i /\ g.item = t
  BY <1>1
<1>3. [[id |-> i, item |-> t, ours |-> o \cup {key}, theirs |-> h] EXCEPT !.theirs = h \ {key}]
         = [id |-> i, item |-> t, ours |-> o \cup {key}, theirs |-> h \ {key}]
  OBVIOUS
<1>4. WithFilter(g, key)
         = [[g EXCEPT !.ours = g.ours \cup {key}] EXCEPT !.theirs = g.theirs \ {key}]
  BY DEF WithFilter
<1> QED
  BY <1>1, <1>2, <1>3, <1>4

LEMMA WholeStep ==
    ASSUME Whole, Next
    PROVE  Whole'
<1> DEFINE IsGroup(g) == g = [id |-> g.id, item |-> g.item, ours |-> g.ours, theirs |-> g.theirs]
<1>1. ASSUME NEW c, ConfigureKanalen(c)
      PROVE  Whole'
  BY <1>1 DEF ConfigureKanalen, Whole
<1>2. ASSUME NEW c, CreateGroup(c)
      PROVE  Whole'
  <2> DEFINE new == [id |-> LastId + 1, item |-> Item(c), ours |-> {}, theirs |-> {}]
  <2>1. groups' \subseteq groups \cup {new} /\ UNCHANGED kanalen
    BY <1>2 DEF CreateGroup
  <2>2. IsGroup(new)
    OBVIOUS
  <2> HIDE DEF new
  <2> QED
    BY <2>1, <2>2 DEF Whole
<1>3. ASSUME NEW c, ConfigureFilter(c)
      PROVE  Whole'
  <2>1. ASSUME NEW g \in groups, NEW key
        PROVE  IsGroup(WithFilter(g, key))
    BY WithFilterShape DEF Whole
  <2>2. /\ UNCHANGED kanalen
        /\ \A h \in groups' : \/ h \in groups
                              \/ \E g \in groups : \E key : h = WithFilter(g, key)
    BY <1>3 DEF ConfigureFilter
  <2> QED
    BY <2>1, <2>2 DEF Whole
<1>4. ASSUME NEW name, NEW n, NEW keys, PutAbonnement(name, n, keys)
      PROVE  Whole'
  BY <1>4 DEF PutAbonnement, Whole
<1>5. ASSUME DeleteAbonnement \/ \E k \in Kanalen : DeleteKanaal(k)
      PROVE  Whole'
  BY <1>5 DEF DeleteAbonnement, DeleteKanaal, Whole
<1>6. CASE UNCHANGED <<kanalen, groups>>
  BY <1>6 DEF Whole
<1>7. ASSUME NEW c \in Container, ContainerStep(c) \/ Killed(c)
      PROVE  ConfigureKanalen(c) \/ CreateGroup(c) \/ ConfigureFilter(c)
             \/ UNCHANGED <<kanalen, groups>>
  BY <1>7
     DEF ContainerStep, PlanMigrations, Migrate, Record, DeleteIndex, LookIndex, LoadIndex,
         LoadFixtures, CheckSuperuser, CreateSuperuser, ConfigureAbonnement, FindGroup, Killed,
         configured
<1>8. CASE \/ \E result \in {{}, {"other"}} : EditUsers(result)
           \/ \E t \in {"filter", "user"} : RemoveTwins(t)
           \/ \E value \in {"", "auth"} : OldPut(value)
  BY <1>6, <1>8 DEF EditUsers, RemoveTwins, OldPut, configured
<1> QED
  BY <1>1, <1>2, <1>3, <1>4, <1>5, <1>6, <1>7, <1>8 DEF Next

--------------------------------------------------------------------------------
(* The set-up.                                                                 *)

LEMMA PreparedSame ==
    ASSUME NEW c \in Setup, Prepared(c), pc'[c] = pc[c], held'[c] = held[c], UNCHANGED configured
    PROVE  Prepared(c)'
  BY DEF Prepared, Configured, Of, Item, configured

LEMMA ItemsAre == DOMAIN Items = 1..Len(Items) /\ Len(Items) \in Nat
  BY RolloutAssumption

\* What a new group changes, and what a value does.
LEMMA OfCreated ==
    ASSUME NEW new, groups' = groups \cup {new}, Of(new.item) = {}
    PROVE  /\ Of(new.item)' = {new}
           /\ \A item : Configured(item) => Configured(item)'
<1>1. Of(new.item)' = {new}
  BY DEF Of
<1>2. ASSUME NEW item, Configured(item)
      PROVE  Configured(item)'
  <2>1. item # new.item
    BY <1>2 DEF Configured
  <2>2. Of(item)' = Of(item)
    BY <2>1 DEF Of
  <2> QED
    BY <1>2, <2>2 DEF Configured
<1> QED
  BY <1>1, <1>2

LEMMA OfFilled ==
    ASSUME Whole, NEW id, NEW key, groups' = Filled(id, key), NEW item, NEW g \in groups,
           Of(item) = {g}
    PROVE  /\ Of(item)' = {Fill(g, id, key)} /\ Fill(g, id, key) \in groups'
           /\ Fill(g, id, key).id = g.id /\ g.ours \subseteq Fill(g, id, key).ours
           /\ g.id = id => key \in Fill(g, id, key).ours
<1>1. ASSUME NEW h \in groups
      PROVE  /\ Fill(h, id, key).item = h.item /\ Fill(h, id, key).id = h.id
             /\ h.ours \subseteq Fill(h, id, key).ours
             /\ h.id = id => key \in Fill(h, id, key).ours
  <2> DEFINE f == WithFilter(h, key)
  <2>1. f = [id |-> h.id, item |-> h.item, ours |-> h.ours \cup {key}, theirs |-> h.theirs \ {key}]
    BY WithFilterShape DEF Whole
  <2> HIDE DEF f
  <2>2. f.item = h.item /\ f.id = h.id /\ f.ours = h.ours \cup {key}
    BY <2>1
  <2>3. Fill(h, id, key) = IF h.id = id THEN f ELSE h
    BY DEF f, Fill
  <2> QED
    BY <2>2, <2>3
<1>2. groups' = {Fill(h, id, key) : h \in groups}
  BY DEF Filled
<1>3. Of(item)' = {Fill(g, id, key)} /\ Fill(g, id, key) \in groups'
  <2>1. \A h \in groups : h.item = item <=> h = g
    BY DEF Of
  <2> QED
    BY <1>1, <1>2, <2>1 DEF Of
<1> QED
  BY <1>1, <1>3

\* What is configured stays so when filters are written.
LEMMA StaysConfigured ==
    ASSUME Whole, NEW id, NEW key, groups' = Filled(id, key), NEW item, Configured(item)
    PROVE  Configured(item)'
<1>1. PICK g \in groups : Of(item) = {g} /\ Wanted[item] \subseteq g.ours
  BY DEF Configured
<1>2. PICK h : h = Fill(g, id, key)
  OBVIOUS
<1>3. h \in groups' /\ Of(item)' = {h} /\ g.ours \subseteq h.ours
  BY <1>1, <1>2, OfFilled
<1> QED
  BY <1>1, <1>3 DEF Configured

\* When an item is through, the set-up is prepared for the next one, or done.
LEMMA AdvancedPrepared ==
    ASSUME NEW c \in Setup, NEW n \in DOMAIN Items, n = held[c].item, Advanced(c),
           kanalen' = Kanalen, subscription' = "config",
           Configured(Items[n])', \A i \in DOMAIN Items : i < n => Configured(Items[i])'
    PROVE  Prepared(c)'
<1>1. /\ pc'[c] = (IF n = Len(Items) THEN "done" ELSE "item") /\ held'[c].item = n + 1
  BY DEF Advanced
<1>2. \A i \in DOMAIN Items : i < n + 1 => Configured(Items[i])'
  <2>1. \A i \in DOMAIN Items : i < n + 1 => i < n \/ i = n
    BY ItemsAre
  <2> QED
    BY <2>1 DEF Configured
<1>3. CASE n = Len(Items)
  <2>1. \A i \in DOMAIN Items : Configured(Items[i])'
    BY <1>2, <1>3, ItemsAre
  <2> QED
    BY <1>1, <1>3, <2>1 DEF Prepared
<1>4. CASE n # Len(Items)
  <2>1. n + 1 \in DOMAIN Items
    BY <1>4, ItemsAre
  <2> QED
    BY <1>1, <1>2, <1>4, <2>1 DEF Prepared
<1> QED
  BY <1>3, <1>4

LEMMA PreparedStep ==
    ASSUME OneSetup, Form, Places, Whole, PreparedAlone, Next
    PROVE  PreparedAlone'
<1> SUFFICES ASSUME ~disturbed', NEW c \in Setup
             PROVE  Prepared(c)'
  BY DEF PreparedAlone
<1>0. c \in Container /\ c \notin Web
  BY RolloutAssumption DEF Container
<1>1. ASSUME pc'[c] \notin {"abonnement", "item", "group", "filter", "done"}
      PROVE  Prepared(c)'
  BY <1>1 DEF Prepared
<1>2. CASE \/ PlanMigrations(c) \/ Migrate(c) \/ Record(c) \/ Killed(c)
           \/ LoadFixtures(c) \/ CheckSuperuser(c) \/ CreateSuperuser(c)
  BY <1>0, <1>1, <1>2, PlanEffect, MigrateEffect, RecordEffect, KilledEffect, SuperuserEffect
<1>3. CASE DeleteIndex(c) \/ LookIndex(c) \/ LoadIndex(c)
  BY <1>0, <1>1, <1>3, IndexEffect
<1>4. CASE ConfigureKanalen(c)
  <2>1. pc'[c] = "abonnement" /\ kanalen' = Kanalen
    BY <1>0, <1>4, KanalenEffect DEF Whole
  <2> QED
    BY <2>1 DEF Prepared
<1>5. CASE ConfigureAbonnement(c)
  <2>1. /\ pc[c] = "abonnement" /\ subscription' = "config" /\ UNCHANGED <<kanalen, disturbed>>
        /\ \/ pc'[c] = "waiting"
           \/ Items # <<>> /\ pc'[c] = "item" /\ held'[c].item = 1
    BY <1>0, <1>5, AbonnementEffect
  <2>2. kanalen' = Kanalen
    BY <2>1 DEF PreparedAlone, Prepared
  <2>3. CASE pc'[c] = "waiting"
    BY <1>1, <2>3
  <2>4. CASE Items # <<>> /\ pc'[c] = "item" /\ held'[c].item = 1
    <3>1. 1 \in DOMAIN Items /\ \A i \in DOMAIN Items : ~(i < 1)
      BY <2>4, ItemsAre, RolloutAssumption
    <3> QED
      BY <2>1, <2>2, <2>4, <3>1 DEF Prepared
  <2> QED
    BY <2>1, <2>3, <2>4
<1>6. ASSUME pc[c] \in {"item", "group", "filter"}, ~disturbed
      PROVE  /\ kanalen = Kanalen /\ subscription = "config" /\ held[c].item \in DOMAIN Items
             /\ \A i \in DOMAIN Items : i < held[c].item => Configured(Items[i])
             /\ pc[c] = "group" => Of(Item(c)) = {}
             /\ pc[c] = "filter" =>
                   \E g \in groups : /\ Of(Item(c)) = {g} /\ g.id = held[c].group
                                     /\ Wanted[Item(c)] \ held[c].todo \subseteq g.ours
  BY <1>6 DEF PreparedAlone, Prepared
<1>7. CASE FindGroup(c)
  <2>1. /\ pc[c] = "item" /\ UNCHANGED <<configured, disturbed>>
        /\ \/ pc'[c] = "waiting"
           \/ /\ pc'[c] = "group" /\ Of(Item(c)) = {} /\ held'[c].item = held[c].item
           \/ \E g \in groups :
                 /\ Of(Item(c)) = {g}
                 /\ Filling(c, g.id) \/ (Wanted[Item(c)] = {} /\ Advanced(c))
    BY <1>0, <1>7, FindEffect DEF Same
  <2>2. \A item : Of(item)' = Of(item) /\ (Configured(item) => Configured(item)')
    BY <2>1 DEF Of, Configured, configured
  <2>3. held'[c].item = held[c].item => Item(c)' = Item(c)
    BY DEF Item
  <2>4. /\ kanalen' = Kanalen /\ subscription' = "config" /\ UNCHANGED groups
        /\ held[c].item \in DOMAIN Items
        /\ \A i \in DOMAIN Items : i < held[c].item => Configured(Items[i])'
    BY <1>6, <2>1, <2>2 DEF configured
  <2>5. CASE pc'[c] = "waiting"
    BY <1>1, <2>5
  <2>6. CASE pc'[c] = "group" /\ Of(Item(c)) = {} /\ held'[c].item = held[c].item
    BY <2>2, <2>3, <2>4, <2>6 DEF Prepared
  <2>7. ASSUME NEW g \in groups, Of(Item(c)) = {g}, Filling(c, g.id)
        PROVE  Prepared(c)'
    <3>1. /\ pc'[c] = "filter" /\ held'[c].item = held[c].item /\ g.id = held'[c].group
          /\ Wanted[Item(c)] \ held'[c].todo \subseteq g.ours
      BY <2>7 DEF Filling
    <3> QED
      BY <2>2, <2>3, <2>4, <2>7, <3>1 DEF Prepared
  <2>8. ASSUME NEW g \in groups, Of(Item(c)) = {g}, Wanted[Item(c)] = {}, Advanced(c)
        PROVE  Prepared(c)'
    <3>1. PICK n : n = held[c].item
      OBVIOUS
    <3>2. Configured(Items[n])
      BY <2>8, <3>1 DEF Configured, Item
    <3> QED
      BY <2>2, <2>4, <2>8, <3>1, <3>2, AdvancedPrepared
  <2> QED
    BY <2>1, <2>5, <2>6, <2>7, <2>8
<1>8. CASE CreateGroup(c)
  <2>1. CASE pc'[c] = "waiting"
    BY <1>1, <2>1
  <2>2. CASE pc'[c] # "waiting"
    <3>0. PICK n, new : /\ n = held[c].item
                        /\ new = [id |-> LastId + 1, item |-> Items[n], ours |-> {}, theirs |-> {}]
      OBVIOUS
    <3>1. /\ pc[c] = "group" /\ groups' = groups \cup {new}
          /\ Filling(c, LastId + 1) \/ (Wanted[Items[n]] = {} /\ Advanced(c))
          /\ UNCHANGED <<kanalen, subscription, disturbed>>
      BY <1>0, <1>8, <2>2, <3>0, CreateEffect DEF Item
    <3>2. new.item = Items[n] /\ new.id = LastId + 1
      BY <3>0
    <3>3. Of(new.item) = {}
      BY <1>6, <3>0, <3>1, <3>2 DEF Item
    <3>4. /\ Of(new.item)' = {new} /\ new \in groups'
          /\ \A item : Configured(item) => Configured(item)'
      BY <3>1, <3>3, OfCreated
    <3>5. /\ kanalen' = Kanalen /\ subscription' = "config" /\ n \in DOMAIN Items
          /\ \A i \in DOMAIN Items : i < n => Configured(Items[i])'
      BY <1>6, <3>0, <3>1, <3>4
    <3>6. Of(Items[n])' = {new}
      BY <3>2, <3>4 DEF Of
    <3>7. CASE Filling(c, LastId + 1)
      <4>1. /\ pc'[c] = "filter" /\ held'[c].item = n /\ new.id = held'[c].group
            /\ Wanted[Items[n]] \ held'[c].todo \subseteq new.ours
        BY <3>0, <3>2, <3>7 DEF Filling, Item
      <4>2. Item(c)' = Items[n]
        BY <4>1 DEF Item
      <4> QED
        BY <3>4, <3>5, <3>6, <4>1, <4>2 DEF Prepared
    <3>8. CASE Wanted[Items[n]] = {} /\ Advanced(c)
      <4>1. Configured(Items[n])'
        BY <3>4, <3>6, <3>8 DEF Configured
      <4> QED
        BY <3>0, <3>5, <3>8, <4>1, AdvancedPrepared
    <3> QED
      BY <3>1, <3>7, <3>8
  <2> QED
    BY <2>1, <2>2
<1>9. CASE ConfigureFilter(c)
  <2>1. CASE pc'[c] = "waiting"
    BY <1>1, <2>1
  <2>2. CASE pc'[c] # "waiting"
    <3>0. PICK n, id : n = held[c].item /\ id = held[c].group
      OBVIOUS
    <3>1. PICK key \in held[c].todo :
             /\ pc[c] = "filter" /\ groups' = Filled(id, key)
             /\ \/ held[c].todo = {key} /\ Advanced(c)
                \/ /\ pc'[c] = "filter" /\ held'[c].item = n /\ held'[c].group = id
                   /\ held'[c].todo = held[c].todo \ {key}
             /\ UNCHANGED <<kanalen, subscription, disturbed>>
      BY <1>0, <1>9, <2>2, <3>0, FilterEffect
    <3>2. /\ kanalen' = Kanalen /\ subscription' = "config" /\ n \in DOMAIN Items
          /\ \A i \in DOMAIN Items : i < n => Configured(Items[i])
      BY <1>6, <3>0, <3>1
    <3>3. PICK g \in groups : /\ Of(Items[n]) = {g} /\ g.id = id
                              /\ Wanted[Items[n]] \ held[c].todo \subseteq g.ours
      BY <1>6, <3>0, <3>1 DEF Item
    <3>4. PICK item, h : item = Items[n] /\ h = Fill(g, id, key)
      OBVIOUS
    <3>5. /\ h \in groups' /\ Of(item)' = {h} /\ h.id = id /\ key \in h.ours
          /\ g.ours \subseteq h.ours
      BY <3>1, <3>3, <3>4, OfFilled
    <3>6. Of(Items[n])' = {h}
      BY <3>4, <3>5 DEF Of
    <3>7. \A i \in DOMAIN Items : i < n => Configured(Items[i])'
      BY <3>1, <3>2, StaysConfigured
    <3>8. CASE held[c].todo = {key} /\ Advanced(c)
      <4>1. Wanted[Items[n]] \subseteq h.ours
        BY <3>3, <3>8, <3>5
      <4>2. Configured(Items[n])'
        BY <3>5, <3>6, <4>1 DEF Configured
      <4> QED
        BY <3>0, <3>2, <3>7, <3>8, <4>2, AdvancedPrepared
    <3>9. CASE /\ pc'[c] = "filter" /\ held'[c].item = n /\ held'[c].group = id
               /\ held'[c].todo = held[c].todo \ {key}
      <4>1. Wanted[Items[n]] \ held'[c].todo \subseteq h.ours
        BY <3>3, <3>9, <3>5
      <4>2. Item(c)' = Items[n]
        BY <3>9 DEF Item
      <4> QED
        BY <3>2, <3>7, <3>9, <3>5, <3>6, <4>1, <4>2 DEF Prepared
    <3> QED
      BY <3>1, <3>8, <3>9
  <2> QED
    BY <2>1, <2>2
<1>10. ASSUME NEW d \in Container, d # c, ContainerStep(d) \/ Killed(d)
       PROVE  Prepared(c)'
  <2>1. d \in Web /\ pc[d] \notin SettingUp
    BY <1>10 DEF OneSetup, Container, Places
  <2>2. UNCHANGED configured /\ ~disturbed
    <3>1. CASE PlanMigrations(d) \/ Migrate(d) \/ Record(d) \/ Killed(d)
      BY <3>1, PlanEffect, MigrateEffect, RecordEffect, KilledEffect
    <3>2. CASE DeleteIndex(d) \/ LookIndex(d) \/ LoadIndex(d)
      BY <2>1, <3>2, IndexEffect
    <3>3. CASE LoadFixtures(d) \/ CheckSuperuser(d) \/ CreateSuperuser(d)
      BY <3>3, SuperuserEffect
    <3>4. ~ConfigureKanalen(d) /\ ~ConfigureAbonnement(d) /\ ~FindGroup(d)
          /\ ~CreateGroup(d) /\ ~ConfigureFilter(d)
      BY <2>1
         DEF SettingUp, ConfigureKanalen, ConfigureAbonnement, FindGroup, CreateGroup,
             ConfigureFilter
    <3> QED
      BY <1>10, <3>1, <3>2, <3>3, <3>4 DEF ContainerStep
  <2>3. pc'[c] = pc[c] /\ held'[c] = held[c]
    BY <1>0, <1>10, ContainerApart DEF Apart, Stays
  <2> QED
    BY <2>2, <2>3, PreparedSame DEF PreparedAlone
<1>11. CASE UNCHANGED <<pc, held, configured, disturbed>>
  BY <1>11, PreparedSame DEF PreparedAlone
<1>12. ASSUME ContainerStep(c) \/ Killed(c)
       PROVE  Prepared(c)'
  BY <1>2, <1>3, <1>4, <1>5, <1>7, <1>8, <1>9, <1>12 DEF ContainerStep
<1> QED
  BY <1>10, <1>11, <1>12, OthersEffect

--------------------------------------------------------------------------------
(* The database.                                                               *)

LEMMA PastPlanned == \A past \in Past : past \subseteq Migration
  BY DEF Past, Upto

\* What a container does that does not migrate.
Elsewhere(c) ==
    /\ Apart(c) /\ pc[c] # "waiting" /\ pc'[c] \notin Executing
    /\ UNCHANGED <<database, ordered, due, late>>

LEMMA StepKinds ==
    ASSUME Form, Next
    PROVE  \/ \E c \in Container : PlanMigrations(c) \/ Migrate(c) \/ Record(c) \/ Elsewhere(c)
           \/ \E value \in {"", "auth"} : OldPut(value)
           \/ UNCHANGED <<pc, held, database, ordered, due, late>>
<1>1. ASSUME NEW c \in Container, DeleteIndex(c) \/ LookIndex(c) \/ LoadIndex(c)
      PROVE  Elsewhere(c)
  <2>1. UNCHANGED <<database, ordered, due, late>>
    BY <1>1 DEF DeleteIndex, LookIndex, LoadIndex, Migrated, limits, ghosts
  <2> QED
    BY <1>1, <2>1, IndexEffect DEF Elsewhere, Executing
<1>2. ASSUME NEW c \in Container, LoadFixtures(c) \/ CheckSuperuser(c) \/ CreateSuperuser(c)
      PROVE  Elsewhere(c)
  <2>1. UNCHANGED <<database, ordered, due, late>>
    BY <1>2 DEF LoadFixtures, CheckSuperuser, CreateSuperuser, limits, ghosts
  <2> QED
    BY <1>2, <2>1, SuperuserEffect DEF Elsewhere, Preparing, Executing
<1>3. ASSUME NEW c \in Container, ConfigureKanalen(c) \/ ConfigureAbonnement(c)
      PROVE  Elsewhere(c)
  <2>1. UNCHANGED <<database, ordered, due, late>>
    BY <1>3 DEF ConfigureKanalen, ConfigureAbonnement, limits, ghosts
  <2> QED
    BY <1>3, <2>1, KanalenEffect, AbonnementEffect DEF Elsewhere, Executing
<1>4. ASSUME NEW c \in Container, FindGroup(c) \/ CreateGroup(c) \/ ConfigureFilter(c)
      PROVE  Elsewhere(c)
  <2>1. UNCHANGED <<database, ordered, due, late>>
    BY <1>4 DEF FindGroup, CreateGroup, ConfigureFilter, limits, ghosts
  <2> QED
    BY <1>4, <2>1, FindEffect, CreateEffect, FilterEffect
       DEF Elsewhere, Executing, Filling, Advanced
<1>5. ASSUME NEW c \in Container, Killed(c)
      PROVE  Elsewhere(c)
  <2>1. UNCHANGED <<database, ordered, due, late>> /\ pc[c] # "waiting"
    BY <1>5 DEF Killed, ghosts
  <2> QED
    BY <1>5, <2>1, KilledEffect DEF Elsewhere, Executing
<1>6. ASSUME \/ \E name \in Name, n \in 1..2, keys \in KeySets : PutAbonnement(name, n, keys)
             \/ DeleteAbonnement
             \/ \E k \in Kanalen : DeleteKanaal(k)
             \/ \E result \in {{}, {"other"}} : EditUsers(result)
             \/ \E t \in {"filter", "user"} : RemoveTwins(t)
      PROVE  UNCHANGED <<pc, held, database, ordered, due, late>>
  BY <1>6 DEF PutAbonnement, DeleteAbonnement, DeleteKanaal, EditUsers, RemoveTwins, ghosts
<1> QED
  BY <1>1, <1>2, <1>3, <1>4, <1>5, <1>6 DEF Next, ContainerStep

\* The migration that a container executes is the next one, or was executed by another.
LEMMA FirstOfPlan ==
    ASSUME Form, NEW past, Agrees(past), NEW c \in Container, pc[c] \in Executing,
           held[c].plan # {}
    PROVE  LET m == Min(held[c].plan) IN
           /\ m \in Migration /\ m \in held[c].plan /\ \A n \in held[c].plan : m <= n
           /\ m \in past \/ Following(past, m)
<1> DEFINE m == Min(held[c].plan)
<1>1. held[c].plan \subseteq Migration
  BY DEF Form
<1>2. m \in held[c].plan /\ \A n \in held[c].plan : m <= n
  BY <1>1, LeastIn
<1> HIDE DEF m
<1>3. \A n \in Migration : n < m => n \notin held[c].plan
  <2>1. Migration \subseteq Nat
    BY DEF Migration, Plan
  <2>2. m \in Nat
    BY <1>1, <1>2, <2>1
  <2>3. ASSUME NEW n \in Migration, n < m, n \in held[c].plan
        PROVE  FALSE
    <3>1. n \in Nat /\ m <= n
      BY <1>2, <2>1, <2>3
    <3> QED
      BY <2>2, <2>3, <3>1
  <2> QED
    BY <2>3
<1>4. m \in past \/ Following(past, m)
  BY <1>1, <1>2, <1>3 DEF Following, Agrees
<1> QED
  BY <1>1, <1>2, <1>4 DEF m

\* A migration that succeeds leads to the tables of what has then been executed, and does to
\* the rows what it should.
LEMMA ExecutesWell ==
    ASSUME Form, NEW past, Agrees(past), Meeting \/ Alone(past), NEW c \in Container,
           pc[c] = "migrating", held[c].plan # {}, Applicable(tables, Min(held[c].plan))
    PROVE  LET m == Min(held[c].plan) IN
           /\ past \cup {m} \in Past
           /\ SchemaAfter(tables, Steps[m]) = After(past \cup {m})
           /\ RowsKept(past, m)
           /\ Alone(past) => m \notin past
<1> DEFINE m == Min(held[c].plan)
<1>1. /\ m \in Migration /\ m \in held[c].plan
      /\ m \in past \/ Following(past, m)
  BY FirstOfPlan DEF Executing
<1> HIDE DEF m
<1>2. past \in Past /\ tables = After(past) /\ recorded \subseteq past /\ Applicable(tables, m)
  BY DEF Agrees, m
<1>3. CASE Following(past, m)
  BY <1>2, <1>3, NextMigration DEF Following, m
<1>4. CASE m \in past
  <2>1. ~Alone(past)
    <3> SUFFICES ASSUME Alone(past)
                 PROVE  FALSE
      OBVIOUS
    <3>1. m \in past \ recorded
      BY <1>1, <1>4 DEF Alone, Executing
    <3>2. Deferred(m)
      BY <3>1 DEF Agrees
    <3> QED
      BY <1>2, <1>4, <3>2, DeferredAgain
  <2>2. Early \subseteq past /\ m \in past \ Early
    BY <1>1, <1>2, <1>4, <2>1 DEF Meeting, Executing
  <2>3. past \cup {m} = past
    BY <1>4
  <2> QED
    BY <1>2, <2>1, <2>2, <2>3, MigrationAgain DEF m
<1> QED
  BY <1>1, <1>3, <1>4

LEMMA PlanFrame ==
    ASSUME Form, NEW c \in Container, PlanMigrations(c)
    PROVE  /\ UNCHANGED <<tables, content, ordered, due, late>> /\ pc[c] = "waiting"
           /\ ordered /\ c \in Web => \A d \in Setup : pc[d] = "done"
  BY DEF PlanMigrations, database, limits, ghosts

\* What others do not change.
LEMMA AgreesElsewhere ==
    ASSUME NEW past, Agrees(past), UNCHANGED <<tables, recorded>>, NEW c \in Container, Apart(c),
           pc'[c] \notin Executing
    PROVE  Agrees(past)'
<1>1. \A d \in Container : d # c => pc'[d] = pc[d] /\ held'[d] = held[d]
  BY DEF Apart, Stays
<1>2. ASSUME NEW d \in Container
      PROVE  /\ pc'[d] \in Executing => Migration \ held'[d].plan \subseteq past
             /\ pc'[d] = "recording" => Min(held'[d].plan) \in past
  <2>1. CASE d = c
    BY <2>1 DEF Executing
  <2>2. CASE d # c
    BY <1>1, <2>2 DEF Agrees
  <2> QED
    BY <2>1, <2>2
<1> QED
  BY <1>2 DEF Agrees

LEMMA MeetingElsewhere ==
    ASSUME Meeting, UNCHANGED recorded, NEW c \in Container, Apart(c), pc'[c] \notin Executing
    PROVE  Meeting'
<1>1. \A d \in Container : d # c => pc'[d] = pc[d] /\ held'[d] = held[d]
  BY DEF Apart, Stays
<1> QED
  BY <1>1 DEF Meeting

LEMMA AloneElsewhere ==
    ASSUME NEW past, Alone(past), UNCHANGED <<recorded, ordered>>, NEW c \in Container,
           Apart(c), pc'[c] \notin Executing, pc[c] # "waiting"
    PROVE  Alone(past)'
<1>1. \A d \in Container : d # c => pc'[d] = pc[d] /\ held'[d] = held[d]
  BY DEF Apart, Stays
<1>2. recorded = Migration \/ c \notin Web
  BY DEF Alone
<1>3. recorded' = Migration \/ \A d \in Web : pc'[d] = "waiting"
  BY <1>1, <1>2 DEF Alone, Container
<1>4. \A d \in Container : pc'[d] \in Executing => held'[d].plan = Migration \ recorded'
  BY <1>1 DEF Alone
<1> QED
  BY <1>3, <1>4 DEF Alone

LEMMA RowsSame ==
    ASSUME NEW past, RowsAgree(past), UNCHANGED <<content, due, late>>
    PROVE  RowsAgree(past)'
  BY DEF RowsAgree

LEMMA ElsewhereStep ==
    ASSUME DatabaseInv, NEW c \in Container, Elsewhere(c)
    PROVE  DatabaseInv'
<1>1. PICK past : Agrees(past) /\ RowsAgree(past) /\ (Meeting \/ Alone(past))
  BY DEF DatabaseInv
<1>2. /\ Apart(c) /\ pc[c] # "waiting" /\ pc'[c] \notin Executing
      /\ UNCHANGED <<tables, recorded, content, ordered, due, late>>
  BY DEF Elsewhere, database
<1>3. Agrees(past)' /\ RowsAgree(past)'
  BY <1>1, <1>2, AgreesElsewhere, RowsSame
<1>4. Meeting' \/ Alone(past)'
  BY <1>1, <1>2, MeetingElsewhere, AloneElsewhere
<1> QED
  BY <1>3, <1>4 DEF DatabaseInv

LEMMA PlanStep ==
    ASSUME Orderly, Form, Planned, DatabaseInv, NEW c \in Container, PlanMigrations(c)
    PROVE  DatabaseInv'
<1>1. PICK past : Agrees(past) /\ RowsAgree(past) /\ (Meeting \/ Alone(past))
  BY DEF DatabaseInv
<1>2. /\ Apart(c) /\ pc'[c] = "migrating" /\ held'[c].plan = Migration \ recorded
      /\ UNCHANGED recorded
  BY PlanEffect
<1>3. \A d \in Container : d # c => pc'[d] = pc[d] /\ held'[d] = held[d]
  BY <1>2 DEF Apart, Stays
<1>4. UNCHANGED <<tables, content, ordered, due, late>> /\ pc[c] = "waiting"
  BY PlanFrame
<1>5. recorded \subseteq past /\ recorded \subseteq Migration
  BY <1>1 DEF Agrees, Planned
<1>6. Agrees(past)'
  <2>1. ASSUME NEW d \in Container
        PROVE  /\ pc'[d] \in Executing => Migration \ held'[d].plan \subseteq past
               /\ pc'[d] = "recording" => Min(held'[d].plan) \in past
    <3>1. CASE d = c
      BY <1>2, <1>5, <3>1
    <3>2. CASE d # c
      BY <1>1, <1>3, <3>2 DEF Agrees
    <3> QED
      BY <3>1, <3>2
  <2> QED
    BY <1>1, <1>2, <1>4, <2>1 DEF Agrees
<1>7. CASE Meeting
  <2>1. ASSUME NEW d \in Container, pc'[d] \in Executing
        PROVE  held'[d].plan \cap Early = {}
    <3>1. CASE d = c
      BY <1>2, <1>7, <3>1 DEF Meeting
    <3>2. CASE d # c
      BY <1>3, <1>7, <2>1, <3>2 DEF Meeting
    <3> QED
      BY <3>1, <3>2
  <2>2. Meeting'
    BY <1>2, <1>7, <2>1 DEF Meeting
  <2> QED
    BY <1>1, <1>4, <1>6, <2>2, RowsSame DEF DatabaseInv
<1>8. CASE Alone(past)
  <2>1. recorded = Migration \/ c \notin Web
    <3> SUFFICES ASSUME c \in Web
                 PROVE  recorded = Migration
      OBVIOUS
    <3>1. PICK d \in Setup : pc[d] = "done"
      BY <1>8, PlanFrame DEF Alone, Orderly
    <3> QED
      BY <3>1 DEF Planned, Container
  <2>2. recorded' = Migration \/ \A d \in Web : pc'[d] = "waiting"
    BY <1>2, <1>3, <1>8, <2>1 DEF Alone, Container
  <2>3. \A d \in Container : pc'[d] \in Executing => held'[d].plan = Migration \ recorded'
    BY <1>2, <1>3, <1>8 DEF Alone
  <2>4. Alone(past)'
    BY <1>2, <1>4, <1>8, <2>2, <2>3 DEF Alone
  <2> QED
    BY <1>1, <1>4, <1>6, <2>4, RowsSame DEF DatabaseInv
<1> QED
  BY <1>1, <1>7, <1>8

\* Who migrates alone is the one that sets up, and no other is executing.
LEMMA AloneIsSetup ==
    ASSUME Orderly, Form, NEW past, Alone(past), NEW c \in Container, pc[c] \in Executing,
           held[c].plan # {}
    PROVE  /\ recorded # Migration /\ c \notin Web /\ \A d \in Web : pc[d] = "waiting"
           /\ \A d \in Container : d # c => pc[d] \notin Executing
<1>1. recorded # Migration
  BY DEF Alone
<1>2. \A d \in Web : pc[d] = "waiting"
  BY <1>1 DEF Alone
<1>3. c \notin Web
  BY <1>2 DEF Executing
<1> QED
  BY <1>1, <1>2, <1>3 DEF Orderly, OneSetup, Container, Executing

\* The first migration of the plan of a container is recorded and taken out of it.
Recorded(c, m) ==
    /\ Apart(c) /\ pc'[c] = "migrating" /\ held'[c].plan = held[c].plan \ {m}
    /\ recorded' = recorded \cup {m} /\ UNCHANGED ordered

LEMMA MeetingRecorded ==
    ASSUME Meeting, NEW c \in Container, NEW m, Recorded(c, m), pc[c] \in Executing
    PROVE  Meeting'
<1>1. \A d \in Container : d # c => pc'[d] = pc[d] /\ held'[d] = held[d]
  BY DEF Recorded, Apart, Stays
<1>2. ASSUME NEW d \in Container, pc'[d] \in Executing
      PROVE  held'[d].plan \cap Early = {}
  <2>1. CASE d = c
    BY <2>1 DEF Meeting, Recorded
  <2>2. CASE d # c
    BY <1>1, <1>2, <2>2 DEF Meeting
  <2> QED
    BY <2>1, <2>2
<1> QED
  BY <1>2 DEF Meeting, Recorded

LEMMA AloneRecorded ==
    ASSUME Orderly, Form, NEW past, Alone(past), NEW c \in Container, pc[c] \in Executing,
           held[c].plan # {}, NEW m, Recorded(c, m),
           NEW then, \A n \in then \ (recorded \cup {m}) : n \in past
    PROVE  Alone(then)'
<1>1. /\ recorded # Migration /\ c \notin Web /\ \A d \in Web : pc[d] = "waiting"
      /\ \A d \in Container : d # c => pc[d] \notin Executing
  BY AloneIsSetup DEF Container
<1>2. \A d \in Container : d # c => pc'[d] = pc[d] /\ held'[d] = held[d]
  BY DEF Recorded, Apart, Stays
<1>3. \A d \in Web : pc'[d] = "waiting"
  BY <1>1, <1>2 DEF Container
<1>4. ASSUME NEW d \in Container, pc'[d] \in Executing
      PROVE  held'[d].plan = Migration \ recorded'
  <2>1. d = c
    BY <1>1, <1>2, <1>4
  <2>2. held[c].plan = Migration \ recorded
    BY DEF Alone
  <2> QED
    BY <2>1, <2>2 DEF Recorded
<1>5. \A k \in then \ recorded', n \in Migration \ recorded' : k <= n
  BY DEF Alone, Recorded
<1> QED
  BY <1>3, <1>4, <1>5 DEF Alone, Recorded

LEMMA AgreesRecorded ==
    ASSUME NEW past, Agrees(past), NEW c \in Container, pc[c] \in Executing, NEW m,
           Recorded(c, m), NEW then \in Past, then = past \cup {m}, tables' = After(then)
    PROVE  Agrees(then)'
<1>1. \A d \in Container : d # c => pc'[d] = pc[d] /\ held'[d] = held[d]
  BY DEF Recorded, Apart, Stays
<1>2. ASSUME NEW d \in Container
      PROVE  /\ pc'[d] \in Executing => Migration \ held'[d].plan \subseteq then
             /\ pc'[d] = "recording" => Min(held'[d].plan) \in then
  <2>1. CASE d = c
    <3>1. Migration \ held[c].plan \subseteq past
      BY DEF Agrees
    <3> QED
      BY <2>1, <3>1 DEF Recorded
  <2>2. CASE d # c
    BY <1>1, <2>2 DEF Agrees
  <2> QED
    BY <2>1, <2>2
<1>3. recorded' \subseteq then /\ \A k \in then \ recorded' : Deferred(k)
  BY DEF Agrees, Recorded
<1> QED
  BY <1>2, <1>3 DEF Agrees

LEMMA RecordStep ==
    ASSUME Orderly, Form, Planned, DatabaseInv, NEW c \in Container, Record(c)
    PROVE  DatabaseInv'
<1> DEFINE m == Min(held[c].plan)
<1>1. PICK past : Agrees(past) /\ RowsAgree(past) /\ (Meeting \/ Alone(past))
  BY DEF DatabaseInv
<1>2. Recorded(c, m) /\ pc[c] = "recording" /\ UNCHANGED <<tables, content, due, late>>
  BY RecordEffect DEF Record, Recorded, limits, ghosts
<1>3. m \in past /\ past \in Past /\ tables = After(past)
  BY <1>1, <1>2 DEF Agrees
<1>4. held[c].plan # {}
  BY <1>2 DEF Planned
<1> HIDE DEF m
<1>5. past = past \cup {m}
  BY <1>3
<1>6. Agrees(past)' /\ RowsAgree(past)'
  BY <1>1, <1>2, <1>3, <1>5, AgreesRecorded, RowsSame DEF Executing
<1>7. Meeting => Meeting'
  BY <1>2, MeetingRecorded DEF Executing
<1>8. Alone(past) => Alone(past)'
  BY <1>2, <1>4, AloneRecorded DEF Executing
<1> QED
  BY <1>1, <1>6, <1>7, <1>8 DEF DatabaseInv

\* A migration is executed, and recorded or not yet, or fails.
Carried(m) ==
    /\ Executes(m) /\ tables' = SchemaAfter(tables, Steps[m])
    /\ content' = [t \in DOMAIN content |-> RowAfter(t, content[t], Steps[m])]
    /\ UNCHANGED <<ordered, due, late>>
Unrecorded(c) ==
    /\ Apart(c) /\ pc'[c] = "recording" /\ held'[c].plan = held[c].plan
    /\ UNCHANGED <<recorded, ordered>>

LEMMA MigrateOutcome ==
    ASSUME Form, NEW c \in Container, Migrate(c)
    PROVE  LET m == Min(held[c].plan) IN
           /\ pc[c] = "migrating" /\ held[c].plan # {}
           /\ \/ Carried(m) /\ Deferred(m) /\ Unrecorded(c)
              \/ Carried(m) /\ Recorded(c, m)
              \/ Elsewhere(c)
<1> DEFINE m == Min(held[c].plan)
<1>1. /\ Apart(c) /\ pc[c] = "migrating" /\ held[c].plan # {}
      /\ \/ /\ pc'[c] = "recording" /\ held'[c].plan = held[c].plan /\ UNCHANGED recorded
         \/ /\ pc'[c] = "migrating" /\ held'[c].plan = held[c].plan \ {m}
            /\ recorded' = recorded \cup {m}
         \/ pc'[c] = "waiting" /\ UNCHANGED recorded
  BY MigrateEffect
<1>2. /\ UNCHANGED <<ordered, due, late>>
      /\ \/ Carried(m) /\ Deferred(m) /\ Goto(c, "recording")
         \/ Carried(m) /\ UNCHANGED pc
         \/ Restart(c) /\ UNCHANGED database
  BY DEF Migrate, Carried, limits, ghosts
<1> HIDE DEF m
<1>3. CASE Carried(m) /\ Deferred(m) /\ Goto(c, "recording")
  <2>1. pc'[c] = "recording"
    BY <1>3, GotoEffect
  <2> QED
    BY <1>1, <1>2, <1>3, <2>1 DEF Unrecorded, m
<1>4. CASE Carried(m) /\ UNCHANGED pc
  BY <1>1, <1>2, <1>4 DEF Recorded, m
<1>5. CASE Restart(c) /\ UNCHANGED database
  <2>1. pc'[c] = "waiting"
    BY <1>5, RestartEffect
  <2> QED
    BY <1>1, <1>2, <1>5, <2>1 DEF Elsewhere, Executing, m
<1> QED
  BY <1>2, <1>3, <1>4, <1>5

LEMMA RowsExecuted ==
    ASSUME NEW past, RowsAgree(past), NEW m, Carried(m), RowsKept(past, m)
    PROVE  RowsAgree(past \cup {m})'
<1> DEFINE then == past \cup {m}
<1>1. DOMAIN content' = DOMAIN content /\ DOMAIN due' = DOMAIN content'
  BY DEF Carried, RowsAgree
<1>2. ASSUME NEW t \in DOMAIN content
      PROVE  /\ t \in Moved \cap DOMAIN After(then)
             /\ content'[t] \in Rows(t, After(then))
             /\ (t = "abonnement" /\ late') \/ Sound(t, content'[t], due'[t], then)
  <2>1. /\ content'[t] = RowAfter(t, content[t], Steps[m]) /\ UNCHANGED <<due, late>>
        /\ Convertible(t, content[t], m)
    BY DEF Carried, Executes
  <2>2. /\ t \in Moved \cap DOMAIN After(past) /\ content[t] \in Rows(t, After(past))
        /\ (t = "abonnement" /\ late) \/ Sound(t, content[t], due[t], past)
    BY DEF RowsAgree
  <2>3. /\ t \in DOMAIN After(then) /\ RowKept(t, content[t], past, m, After(then))
    BY <2>2 DEF RowsKept
  <2>4. /\ content'[t] \in Rows(t, After(then))
        /\ \A value \in Value :
              Sound(t, content[t], value, past) => Sound(t, content'[t], value, then)
    BY <2>1, <2>3 DEF RowKept
  <2>5. Sound(t, content[t], due[t], past) => due[t] \in Value
    BY DEF Sound
  <2> HIDE DEF then
  <2> QED
    BY <2>1, <2>2, <2>3, <2>4, <2>5
<1> HIDE DEF then
<1>3. RowsAgree(then)'
  BY <1>1, <1>2 DEF RowsAgree
<1> QED
  BY <1>3 DEF then

LEMMA UnrecordedStep ==
    ASSUME Orderly, Form, NEW past, Agrees(past), NEW c \in Container, pc[c] = "migrating",
           held[c].plan # {}, Unrecorded(c), NEW m, m = Min(held[c].plan), Deferred(m),
           NEW then \in Past, then = past \cup {m}, tables' = After(then)
    PROVE  /\ Agrees(then)' /\ (Meeting => Meeting') /\ (Alone(past) => Alone(then)')
<1>1. \A d \in Container : d # c => pc'[d] = pc[d] /\ held'[d] = held[d]
  BY DEF Unrecorded, Apart, Stays
<1>2. Agrees(then)'
  <2>1. ASSUME NEW d \in Container
        PROVE  /\ pc'[d] \in Executing => Migration \ held'[d].plan \subseteq then
               /\ pc'[d] = "recording" => Min(held'[d].plan) \in then
    <3>1. CASE d = c
      <4>1. Migration \ held[c].plan \subseteq past
        BY DEF Agrees, Executing
      <4> QED
        BY <3>1, <4>1 DEF Unrecorded
    <3>2. CASE d # c
      BY <1>1, <3>2 DEF Agrees
    <3> QED
      BY <3>1, <3>2
  <2>2. recorded' \subseteq then /\ \A k \in then \ recorded' : Deferred(k)
    BY DEF Agrees, Unrecorded
  <2> QED
    BY <2>1, <2>2 DEF Agrees
<1>3. ASSUME Meeting
      PROVE  Meeting'
  <2>1. ASSUME NEW d \in Container, pc'[d] \in Executing
        PROVE  held'[d].plan \cap Early = {}
    <3>1. CASE d = c
      BY <1>3, <3>1 DEF Meeting, Unrecorded, Executing
    <3>2. CASE d # c
      BY <1>1, <1>3, <2>1, <3>2 DEF Meeting
    <3> QED
      BY <3>1, <3>2
  <2> QED
    BY <1>3, <2>1 DEF Meeting, Unrecorded
<1>4. ASSUME Alone(past)
      PROVE  Alone(then)'
  <2>1. /\ recorded # Migration /\ c \notin Web /\ \A d \in Web : pc[d] = "waiting"
        /\ \A d \in Container : d # c => pc[d] \notin Executing
    BY <1>4, AloneIsSetup DEF Executing
  <2>2. \A d \in Web : pc'[d] = "waiting"
    BY <1>1, <2>1 DEF Container
  <2>3. held[c].plan = Migration \ recorded
    BY <1>4 DEF Alone, Executing
  <2>4. \A d \in Container : pc'[d] \in Executing => held'[d].plan = Migration \ recorded'
    BY <1>1, <2>1, <2>3 DEF Unrecorded
  <2>5. \A n \in held[c].plan : m <= n
    BY LeastIn DEF Form
  <2>6. \A k \in then \ recorded', n \in Migration \ recorded' : k <= n
    BY <1>4, <2>3, <2>5 DEF Alone, Unrecorded
  <2> QED
    BY <1>4, <2>2, <2>4, <2>6 DEF Alone, Unrecorded
<1> QED
  BY <1>2, <1>3, <1>4

LEMMA MigrateStep ==
    ASSUME Orderly, Form, DatabaseInv, NEW c \in Container, Migrate(c)
    PROVE  DatabaseInv'
<1>0. PICK m : m = Min(held[c].plan)
  OBVIOUS
<1>1. PICK past : Agrees(past) /\ RowsAgree(past) /\ (Meeting \/ Alone(past))
  BY DEF DatabaseInv
<1>2. /\ pc[c] = "migrating" /\ held[c].plan # {}
      /\ \/ Carried(m) /\ Deferred(m) /\ Unrecorded(c)
         \/ Carried(m) /\ Recorded(c, m)
         \/ Elsewhere(c)
  BY <1>0, MigrateOutcome
<1>3. Applicable(tables, m) =>
         /\ past \cup {m} \in Past
         /\ SchemaAfter(tables, Steps[m]) = After(past \cup {m})
         /\ RowsKept(past, m)
         /\ Alone(past) => m \notin past
  BY <1>0, <1>1, <1>2, ExecutesWell
<1>4. PICK then : then = past \cup {m}
  OBVIOUS
<1>5. ASSUME Carried(m)
      PROVE  then \in Past /\ tables' = After(then) /\ RowsAgree(then)'
  <2>1. Applicable(tables, m)
    BY <1>5 DEF Carried, Executes
  <2>2. RowsAgree(past \cup {m})'
    BY <1>1, <1>3, <1>5, <2>1, RowsExecuted
  <2> QED
    BY <1>3, <1>4, <1>5, <2>1, <2>2 DEF Carried
<1>6. CASE Carried(m) /\ Deferred(m) /\ Unrecorded(c)
  <2>1. /\ Agrees(then)' /\ (Meeting => Meeting') /\ (Alone(past) => Alone(then)')
    BY <1>0, <1>1, <1>2, <1>4, <1>5, <1>6, UnrecordedStep
  <2> QED
    BY <1>1, <1>5, <1>6, <2>1 DEF DatabaseInv
<1>7. CASE Carried(m) /\ Recorded(c, m)
  <2>1. pc[c] \in Executing
    BY <1>2 DEF Executing
  <2>2. Agrees(then)'
    BY <1>1, <1>4, <1>5, <1>7, <2>1, AgreesRecorded
  <2>3. Meeting => Meeting'
    BY <1>7, <2>1, MeetingRecorded
  <2>4. \A n \in then \ (recorded \cup {m}) : n \in past
    BY <1>4
  <2>5. Alone(past) => Alone(then)'
    BY <1>2, <1>7, <2>1, <2>4, AloneRecorded
  <2> QED
    BY <1>1, <1>5, <1>7, <2>2, <2>3, <2>5 DEF DatabaseInv
<1> QED
  BY <1>2, <1>6, <1>7, ElsewhereStep

\* The merge of the client ids is recorded in its transaction.
LEMMA MergeRecorded ==
    ASSUME NEW past, Agrees(past), Ran(past, D0023)
    PROVE  Ran(recorded, D0023)
<1>1. PICK m \in past : Plan[m] = D0023
  BY DEF Ran
<1>2. ~Deferred(m)
  BY <1>1 DEF Deferred, Defers, D0023, Copy
<1> QED
  BY <1>1, <1>2 DEF Agrees, Ran

LEMMA OldPutStep ==
    ASSUME DatabaseInv, NEW value \in {"", "auth"}, OldPut(value)
    PROVE  DatabaseInv'
<1>1. PICK past : Agrees(past) /\ RowsAgree(past) /\ (Meeting \/ Alone(past))
  BY DEF DatabaseInv
<1> DEFINE a == "abonnement"
           row == [content[a] EXCEPT !["auth_client_id"] = value]
<1>2. /\ a \in DOMAIN content /\ "auth_client_id" \in DOMAIN content[a]
      /\ content' = [content EXCEPT ![a] = row]
      /\ due' = [due EXCEPT ![a] = ClientId(content'[a])]
      /\ late' = (late \/ Ran(recorded, D0023))
      /\ UNCHANGED <<pc, held, tables, recorded, ordered>>
  BY DEF OldPut
<1>3. /\ Agrees(past)' /\ (Meeting => Meeting') /\ (Alone(past) => Alone(past)')
  BY <1>1, <1>2 DEF Agrees, Meeting, Alone
<1>4. /\ DOMAIN content \subseteq Moved \cap DOMAIN After(past) /\ DOMAIN due = DOMAIN content
      /\ \A t \in DOMAIN content :
            /\ content[t] \in Rows(t, After(past))
            /\ (t = a /\ late) \/ Sound(t, content[t], due[t], past)
  BY <1>1 DEF RowsAgree
<1> HIDE DEF row
<1>5. /\ DOMAIN content' = DOMAIN content /\ DOMAIN due' = DOMAIN content /\ content'[a] = row
      /\ due'[a] = ClientId(row)
      /\ \A t \in DOMAIN content : t # a => content'[t] = content[t] /\ due'[t] = due[t]
  BY <1>2, <1>4
<1>6. /\ row \in Rows(a, After(past)) /\ DOMAIN row = DOMAIN content[a]
      /\ \A c \in DOMAIN row : row[c] = content[a][c] \/ row[c] = value
  <2> DEFINE columns == Traced \cap DOMAIN After(past)[a].columns
  <2>1. content[a] \in [columns -> Value]
    BY <1>2, <1>4 DEF Rows
  <2> HIDE DEF columns
  <2>2. value \in Value
    BY DEF Value
  <2>3. row \in [columns -> Value] /\ DOMAIN row = DOMAIN content[a]
        /\ \A c \in DOMAIN row : row[c] = content[a][c] \/ row[c] = value
    BY <2>1, <2>2 DEF row
  <2> QED
    BY <2>3 DEF Rows, columns
<1>7. ASSUME ~late'
      PROVE  Sound(a, row, ClientId(row), past)
  <2>1. ~Ran(past, D0023) /\ ~late
    BY <1>1, <1>2, <1>7, MergeRecorded
  <2>2. \A c \in DOMAIN row : row[c] # "null"
    BY <1>2, <1>4, <1>6, <2>1 DEF Sound
  <2>3. ClientId(row) \in Value
    BY <1>6 DEF ClientId, Rows, Value
  <2> QED
    BY <2>1, <2>2, <2>3 DEF Sound
<1>8. ASSUME NEW t \in DOMAIN content'
      PROVE  /\ content'[t] \in Rows(t, After(past))
             /\ (t = a /\ late') \/ Sound(t, content'[t], due'[t], past)
  <2>1. CASE t = a
    BY <1>5, <1>6, <1>7, <2>1
  <2>2. CASE t # a
    BY <1>4, <1>5, <1>8, <2>2
  <2> QED
    BY <2>1, <2>2
<1>9. RowsAgree(past)'
  BY <1>4, <1>5, <1>8 DEF RowsAgree
<1> QED
  BY <1>1, <1>3, <1>9 DEF DatabaseInv

LEMMA DatabaseInit ==
    ASSUME Orderly, Init
    PROVE  DatabaseInv
<1>1. \A c \in Container : pc[c] = "waiting"
  BY DEF Init
<1>2. recorded \in Past /\ Released(recorded) /\ tables = After(recorded)
  BY RolloutAssumption DEF Init
<1>3. Agrees(recorded)
  BY <1>1, <1>2 DEF Agrees, Executing
<1>4. PICK rows \in SUBSET (Moved \cap DOMAIN tables) :
         content \in {f \in [rows -> UNION {OldContent(tables[t].columns) : t \in rows}] :
                         \A t \in rows : f[t] \in OldContent(tables[t].columns)}
  BY DEF Init, Moved
<1>5. /\ DOMAIN content = rows
      /\ \A t \in rows : content[t] \in OldContent(After(recorded)[t].columns)
  BY <1>2, <1>4
<1>6. due = [t \in DOMAIN content |-> ToKeep(t, content[t])]
  BY DEF Init
<1>7. RowsAgree(recorded)
  <2>1. ASSUME NEW t \in DOMAIN content
        PROVE  content[t] \in Rows(t, After(recorded)) /\ Sound(t, content[t], due[t], recorded)
    BY <1>2, <1>4, <1>5, <1>6, OldRowsSound
  <2> QED
    BY <1>2, <1>4, <1>5, <1>6, <2>1 DEF RowsAgree
<1>8. CASE ordered
  BY <1>1, <1>3, <1>7, <1>8 DEF Alone, Executing, Container, DatabaseInv
<1>9. CASE ~ordered
  <2>1. Early \subseteq recorded
    BY <1>9 DEF Init, Orderly
  <2> QED
    BY <1>1, <1>3, <1>7, <2>1 DEF Meeting, Executing, DatabaseInv
<1> QED
  BY <1>8, <1>9

LEMMA DatabaseStep ==
    ASSUME Orderly, Form, Planned, DatabaseInv, Next
    PROVE  DatabaseInv'
<1>1. ASSUME UNCHANGED <<pc, held, database, ordered, due, late>>
      PROVE  DatabaseInv'
  BY <1>1 DEF DatabaseInv, Agrees, RowsAgree, Meeting, Alone, database
<1> QED
  BY <1>1, StepKinds, PlanStep, MigrateStep, RecordStep, ElsewhereStep, OldPutStep

--------------------------------------------------------------------------------
(* Types.                                                                      *)

LEMMA SimpleStep ==
    ASSUME Simple, Next
    PROVE  Simple'
<1> USE DEF Simple
<1>1. ASSUME UNCHANGED <<twins, users, index, faults, ordered, late, disturbed>>
      PROVE  Simple'
  BY <1>1
<1>2. ASSUME NEW c \in Container,
             \/ PlanMigrations(c) \/ Migrate(c) \/ Record(c) \/ CheckSuperuser(c)
             \/ ConfigureKanalen(c) \/ ConfigureAbonnement(c)
             \/ FindGroup(c) \/ CreateGroup(c) \/ ConfigureFilter(c)
      PROVE  UNCHANGED <<twins, users, index, faults, ordered, late, disturbed>>
  BY <1>2
     DEF PlanMigrations, Migrate, Record, CheckSuperuser, ConfigureKanalen, ConfigureAbonnement,
         FindGroup, CreateGroup, ConfigureFilter, limits, ghosts
<1>3. ASSUME index' \in BOOLEAN, disturbed' \in BOOLEAN,
             UNCHANGED <<twins, users, faults, ordered, late>>
      PROVE  Simple'
  BY <1>3
<1>4. ASSUME NEW c \in Container, Migrated(c)
      PROVE  disturbed' \in BOOLEAN
  BY <1>4, Zenon DEF Migrated
<1>5. ASSUME NEW c \in Container, DeleteIndex(c)
      PROVE  Simple'
  BY <1>3, <1>5 DEF DeleteIndex, limits, ghosts
<1>6. ASSUME NEW c \in Container, LookIndex(c)
      PROVE  Simple'
  <2>1. disturbed' \in BOOLEAN
    BY <1>4, <1>6 DEF LookIndex
  <2> QED
    BY <1>3, <1>6, <2>1 DEF LookIndex, limits
<1>7. ASSUME NEW c \in Container, LoadIndex(c)
      PROVE  Simple'
  <2>1. disturbed' \in BOOLEAN
    BY <1>4, <1>7 DEF LoadIndex
  <2> QED
    BY <1>3, <1>7, <2>1 DEF LoadIndex, limits
<1>8. ASSUME NEW c \in Container, CreateSuperuser(c)
      PROVE  Simple'
  BY <1>8 DEF CreateSuperuser, limits, ghosts
<1>9. ASSUME Fault
      PROVE  faults' \in 0..MaxFaults
  BY <1>9, RolloutAssumption DEF Fault
<1>10. ASSUME NEW c \in Container, Killed(c)
       PROVE  Simple'
  BY <1>9, <1>10 DEF Killed, ghosts
<1>11. ASSUME \/ \E name \in Name, n \in 1..2, keys \in KeySets : PutAbonnement(name, n, keys)
              \/ DeleteAbonnement
              \/ \E k \in Kanalen : DeleteKanaal(k)
       PROVE  Simple'
  BY <1>9, <1>11 DEF PutAbonnement, DeleteAbonnement, DeleteKanaal
<1>12. ASSUME NEW result \in {{}, {"other"}}, EditUsers(result)
       PROVE  Simple'
  BY <1>9, <1>12 DEF EditUsers, ghosts
<1>13. ASSUME NEW t, RemoveTwins(t)
       PROVE  Simple'
  BY <1>9, <1>13 DEF RemoveTwins, ghosts
<1>14. ASSUME NEW value, OldPut(value)
       PROVE  Simple'
  <2>1. late' \in BOOLEAN
    BY <1>14, Zenon DEF OldPut
  <2> QED
    BY <1>9, <1>14, <2>1 DEF OldPut
<1>15. ASSUME NEW c \in Container, LoadFixtures(c)
       PROVE  Simple'
  BY <1>9, <1>15 DEF LoadFixtures, ghosts
<1> QED
  BY <1>1, <1>2, <1>5, <1>6, <1>7, <1>8, <1>10, <1>11, <1>12, <1>13, <1>14, <1>15
     DEF Next, ContainerStep

\* What the step of a container leaves it at.
LEMMA RangesStep ==
    ASSUME Form, Ranges, Next
    PROVE  Ranges'
<1> DEFINE Ranged(c) ==
             /\ pc'[c] \in Migrates \cup {"fixtures", "superuser", "creating", "serving"}
                             \cup SetUpPlaces
             /\ held'[c].item \in 1..Len(Items) + 1 /\ held'[c].todo \subseteq Key
             /\ pc'[c] \in {"item", "group", "filter"} => held'[c].item \in DOMAIN Items
<1>1. ASSUME NEW c \in Container, Apart(c), Ranged(c)
      PROVE  Ranges'
  <2>1. ASSUME NEW d \in Container
        PROVE  Ranged(d)
    <3>1. d # c => pc'[d] = pc[d] /\ held'[d] = held[d]
      BY <1>1 DEF Apart, Stays
    <3>2. CASE d # c
      BY <3>1, <3>2 DEF Ranges
    <3> QED
      BY <1>1, <3>2
  <2> QED
    BY <2>1 DEF Ranges
<1>2. ASSUME NEW c \in Container, Same(c) \/ Cleared(c),
             pc'[c] \in Migrates \cup {"fixtures", "superuser", "creating", "serving"}
                         \cup (SetUpPlaces \ {"item", "group", "filter"})
      PROVE  Ranged(c)
  <2>1. 1 \in 1..Len(Items) + 1
    BY ItemsAre
  <2>2. held'[c].item \in 1..Len(Items) + 1 /\ held'[c].todo \subseteq Key
    BY <1>2, <2>1 DEF Ranges, Same, Cleared
  <2>3. pc'[c] \notin {"item", "group", "filter"}
    BY <1>2 DEF Migrates
  <2> QED
    BY <1>2, <2>2, <2>3
<1>3. ASSUME NEW c \in Container, PlanMigrations(c) \/ Migrate(c) \/ Record(c) \/ Killed(c)
      PROVE  Ranged(c)
  <2>1. Same(c) \/ Cleared(c)
    BY <1>3, PlanEffect, MigrateEffect, RecordEffect, KilledEffect
  <2>2. pc'[c] \in Migrates
    BY <1>3, PlanEffect, MigrateEffect, RecordEffect, KilledEffect DEF Migrates
  <2> QED
    BY <1>2, <2>1, <2>2
<1>4. ASSUME NEW c \in Container, DeleteIndex(c) \/ LookIndex(c) \/ LoadIndex(c)
      PROVE  Ranged(c)
  BY <1>2, <1>4, IndexEffect DEF Migrates, SetUpPlaces
<1>5. ASSUME NEW c \in Container, LoadFixtures(c) \/ CheckSuperuser(c) \/ CreateSuperuser(c)
      PROVE  Ranged(c)
  BY <1>2, <1>5, SuperuserEffect DEF Migrates
<1>6. ASSUME NEW c \in Container, ConfigureKanalen(c)
      PROVE  Ranged(c)
  BY <1>2, <1>6, KanalenEffect DEF SetUpPlaces
<1>7. ASSUME NEW c \in Container, ConfigureAbonnement(c)
      PROVE  Ranged(c)
  <2>1. \/ pc'[c] = "waiting" /\ Cleared(c)
        \/ /\ Items # <<>> /\ pc'[c] = "item" /\ held'[c].item = 1
           /\ held'[c].todo = held[c].todo
    BY <1>7, AbonnementEffect
  <2>2. CASE pc'[c] = "waiting" /\ Cleared(c)
    BY <1>2, <2>2 DEF Migrates
  <2>3. 1 \in 1..Len(Items) + 1 /\ (Items # <<>> => 1 \in DOMAIN Items)
    BY ItemsAre, RolloutAssumption
  <2> QED
    BY <2>1, <2>2, <2>3 DEF SetUpPlaces, Ranges
<1>8. ASSUME NEW c \in Container, held[c].item \in DOMAIN Items, Advanced(c)
      PROVE  Ranged(c)
  <2>1. /\ held[c].item + 1 \in 1..Len(Items) + 1
        /\ held[c].item # Len(Items) => held[c].item + 1 \in DOMAIN Items
    BY <1>8, ItemsAre
  <2> QED
    BY <1>8, <2>1 DEF Advanced, SetUpPlaces
<1>9. ASSUME NEW c \in Container, held[c].item \in DOMAIN Items, NEW id, Filling(c, id)
      PROVE  Ranged(c)
  <2>1. Wanted[Item(c)] \subseteq Key
    BY <1>9, RolloutAssumption DEF Item, Range
  <2> QED
    BY <1>9, <2>1 DEF Filling, SetUpPlaces, Ranges
<1>10. ASSUME NEW c \in Container, pc[c] \in {"item", "group", "filter"}
       PROVE  /\ held[c].item \in DOMAIN Items /\ held[c].item \in 1..Len(Items) + 1
              /\ held[c].todo \subseteq Key
  BY <1>10 DEF Ranges
<1>11. ASSUME NEW c \in Container, pc'[c] = "waiting", Cleared(c)
       PROVE  Ranged(c)
  BY <1>2, <1>11 DEF Migrates
<1>12. ASSUME NEW c \in Container, FindGroup(c)
       PROVE  Ranged(c)
  <2>1. CASE pc'[c] = "group" /\ Same(c)
    BY <1>10, <1>12, <2>1, FindEffect DEF Same, SetUpPlaces
  <2>2. CASE \E id : Filling(c, id) \/ Advanced(c)
    BY <1>8, <1>9, <1>10, <1>12, <2>2, FindEffect
  <2> QED
    BY <1>11, <1>12, <2>1, <2>2, FindEffect
<1>13. ASSUME NEW c \in Container, CreateGroup(c)
       PROVE  Ranged(c)
  <2>1. CASE Filling(c, LastId + 1) \/ Advanced(c)
    BY <1>8, <1>9, <1>10, <1>13, <2>1, CreateEffect
  <2> QED
    BY <1>11, <1>13, <2>1, CreateEffect
<1>14. ASSUME NEW c \in Container, ConfigureFilter(c)
       PROVE  Ranged(c)
  <2>1. CASE Advanced(c)
    BY <1>8, <1>10, <1>14, <2>1, FilterEffect
  <2>2. ASSUME NEW key, pc'[c] = "filter", held'[c].item = held[c].item,
               held'[c].todo = held[c].todo \ {key}
        PROVE  Ranged(c)
    BY <1>10, <1>14, <2>2, FilterEffect DEF SetUpPlaces
  <2> QED
    BY <1>11, <1>14, <2>1, <2>2, FilterEffect
<1>15. ASSUME UNCHANGED <<pc, held>>
       PROVE  Ranges'
  BY <1>15 DEF Ranges
<1> HIDE DEF Ranged
<1> QED
  BY <1>1, <1>3, <1>4, <1>5, <1>6, <1>7, <1>12, <1>13, <1>14, <1>15, OthersEffect,
     ContainerApart DEF ContainerStep

\* A bounded set of numbers has a greatest.
LEMMA GreatestIn ==
    ASSUME NEW n \in Nat, NEW T \in SUBSET (0..n), T # {}
    PROVE  Max(T) \in T /\ \A y \in T : y <= Max(T)
<1> DEFINE U == {n - i : i \in T}
<1>1. U \subseteq Nat /\ U # {}
  <2>1. \A i \in T : n - i \in Nat
    OBVIOUS
  <2>2. PICK i \in T : TRUE
    OBVIOUS
  <2>3. n - i \in U
    BY <2>2
  <2> QED
    BY <2>1, <2>3
<1>2. \E u \in U : \A v \in U : <<v, u>> \notin OpToRel(<, Nat)
  <2> HIDE DEF U
  <2> QED
    BY <1>1, NatLessThanWellFounded, WFMin
<1>3. PICK u \in U : \A v \in U : ~(v < u)
  BY <1>1, <1>2 DEF OpToRel
<1>4. PICK x \in T : u = n - x
  OBVIOUS
<1>5. \A y \in T : x >= y
  BY <1>3, <1>4
<1>6. Max(T) \in T /\ \A y \in T : Max(T) >= y
  BY <1>4, <1>5 DEF Max
<1> QED
  BY <1>6

LEMMA GroupShape ==
    ASSUME groups \subseteq Group
    PROVE  \A g \in groups :
              /\ g.id \in Nat \ {0} /\ g.item \in Name
              /\ g.ours \in SUBSET Key /\ g.theirs \in SUBSET Key
              /\ g = [id |-> g.id, item |-> g.item, ours |-> g.ours, theirs |-> g.theirs]
  BY DEF Group

LEMMA LastIdIs ==
    ASSUME Numbered, groups \subseteq Group
    PROVE  /\ LastId \in Nat
           /\ \A g \in groups : g.id <= LastId
           /\ \A c \in Container : held[c].group <= LastId
<1> DEFINE T == {0} \cup {g.id : g \in groups} \cup {held[c].group : c \in Container}
<1>1. PICK bound \in Nat : /\ \A g \in groups : g.id <= bound
                           /\ \A c \in Container : held[c].group <= bound
  BY DEF Numbered
<1>2. /\ \A g \in groups : g.id \in 0..bound
      /\ \A c \in Container : held[c].group \in 0..bound
  BY <1>1, GroupShape DEF Numbered
<1>3. T \in SUBSET (0..bound) /\ T # {}
  BY <1>2
<1>4. LastId = Max(T)
  BY DEF LastId
<1>5. (\A g \in groups : g.id \in T) /\ \A c \in Container : held[c].group \in T
  OBVIOUS
<1> HIDE DEF T
<1>6. Max(T) \in T /\ \A y \in T : y <= Max(T)
  BY <1>3, GreatestIn
<1>7. \A y \in T : y \in Nat
  BY <1>3
<1>8. Max(T) \in Nat
  BY <1>6, <1>7, Zenon
<1> QED
  BY <1>4, <1>5, <1>6, <1>8

\* Steps that leave the groups alone.
LEMMA GroupsSame ==
    ASSUME Grouped, UNCHANGED <<groups, subscription>>
    PROVE  Grouped'
  BY DEF Grouped

LEMMA Created ==
    ASSUME Grouped, Numbered, NEW new \in Group, new.id = LastId + 1, new.ours = {},
           groups' = groups \cup {new}, subscription' = subscription, subscription # "none"
    PROVE  Grouped'
<1>1. \A g \in groups : g.id # new.id
  <2>1. /\ LastId \in Nat /\ \A g \in groups : g.id \in Nat /\ g.id <= LastId
    BY LastIdIs, GroupShape DEF Grouped
  <2> QED
    BY <2>1
<1>2. \A g, h \in groups' : g.id = h.id => g = h
  BY <1>1 DEF Grouped
<1>3. groups' \subseteq Group
  BY DEF Grouped
<1> QED
  BY <1>2, <1>3 DEF Grouped

LEMMA FilledGroups ==
    ASSUME groups \subseteq Group, NEW id, NEW key \in Key
    PROVE  /\ Filled(id, key) \subseteq Group
           /\ \A f \in Filled(id, key) : \E g \in groups :
                 /\ f.id = g.id /\ f = Fill(g, id, key)
                 /\ g.ours \cap g.theirs = {} => f.ours \cap f.theirs = {}
<1>1. ASSUME NEW g \in groups
      PROVE  /\ WithFilter(g, key) \in Group /\ WithFilter(g, key).id = g.id
             /\ g.ours \cap g.theirs = {}
                  => WithFilter(g, key).ours \cap WithFilter(g, key).theirs = {}
  <2> DEFINE f == WithFilter(g, key)
             o == g.ours \cup {key}
             h == g.theirs \ {key}
  <2>1. f = [id |-> g.id, item |-> g.item, ours |-> o, theirs |-> h]
    BY GroupShape, WithFilterShape
  <2>2. /\ g.id \in Nat \ {0} /\ g.item \in Name /\ o \in SUBSET Key /\ h \in SUBSET Key
        /\ g.ours \cap g.theirs = {} => o \cap h = {}
    BY GroupShape
  <2> HIDE DEF f, o, h
  <2>3. f \in Group
    BY <2>1, <2>2 DEF Group
  <2>4. f.id = g.id /\ f.ours = o /\ f.theirs = h
    BY <2>1
  <2> QED
    BY <2>2, <2>3, <2>4 DEF f
<1> QED
  BY <1>1 DEF Filled, Fill

LEMMA GroupedStep ==
    ASSUME Form, Ranges, Grouped, Numbered, Next
    PROVE  Grouped'
<1>1. ASSUME NEW c \in Container,
             \/ PlanMigrations(c) \/ Migrate(c) \/ Record(c) \/ Killed(c)
             \/ DeleteIndex(c) \/ LookIndex(c) \/ LoadIndex(c)
             \/ LoadFixtures(c) \/ CheckSuperuser(c) \/ CreateSuperuser(c)
             \/ ConfigureKanalen(c) \/ FindGroup(c)
      PROVE  UNCHANGED <<groups, subscription>>
  BY <1>1, PlanEffect, MigrateEffect, RecordEffect, KilledEffect, IndexEffect, SuperuserEffect,
     KanalenEffect, FindEffect DEF configured
<1>2. ASSUME NEW c \in Container, ConfigureAbonnement(c)
      PROVE  Grouped'
  BY <1>2, AbonnementEffect DEF Grouped
<1>3. ASSUME NEW c \in Container, CreateGroup(c)
      PROVE  Grouped'
  <2>1. CASE UNCHANGED groups
    BY <1>3, <2>1, CreateEffect, GroupsSame
  <2>2. CASE ~UNCHANGED groups
    <3>1. /\ pc[c] = "group" /\ subscription # "none" /\ UNCHANGED subscription
          /\ groups' = groups \cup
                {[id |-> LastId + 1, item |-> Item(c), ours |-> {}, theirs |-> {}]}
      BY <1>3, <2>2, CreateEffect
    <3>2. held[c].item \in DOMAIN Items
      BY <3>1 DEF Ranges
    <3>3. LastId + 1 \in Nat \ {0}
      BY LastIdIs DEF Grouped
    <3>4. Item(c) \in Name
      BY <3>2, RolloutAssumption DEF Item, Range
    <3> DEFINE new == [id |-> LastId + 1, item |-> Item(c), ours |-> {}, theirs |-> {}]
    <3>5. new.id = LastId + 1 /\ new.ours = {} /\ new \in Group /\ groups' = groups \cup {new}
      BY <3>1, <3>3, <3>4 DEF Group
    <3> HIDE DEF new
    <3>6. PICK n : n = new
      OBVIOUS
    <3> QED
      BY <3>1, <3>5, <3>6, Created
  <2> QED
    BY <2>1, <2>2
<1>4. ASSUME NEW c \in Container, ConfigureFilter(c)
      PROVE  Grouped'
  <2>1. CASE UNCHANGED groups
    BY <1>4, <2>1, FilterEffect, GroupsSame
  <2>2. CASE ~UNCHANGED groups
    <3>1. PICK id, todo : id = held[c].group /\ todo = held[c].todo
      OBVIOUS
    <3>2. PICK key \in todo : groups' = Filled(id, key) /\ UNCHANGED subscription
      BY <1>4, <2>2, <3>1, FilterEffect
    <3>3. key \in Key
      BY <1>4, <3>1, <3>2 DEF Ranges
    <3>4. /\ groups' \subseteq Group
          /\ \A f \in groups' : \E g \in groups :
                /\ f.id = g.id /\ f = Fill(g, id, key)
                /\ g.ours \cap g.theirs = {} => f.ours \cap f.theirs = {}
      BY <3>2, <3>3, FilledGroups DEF Grouped
    <3>5. \A f, h \in groups' : f.id = h.id => f = h
      BY <3>4 DEF Grouped
    <3>6. subscription' = "none" => groups' = {}
      BY <3>2, <3>4 DEF Grouped
    <3> QED
      BY <3>2, <3>4, <3>5, <3>6 DEF Grouped
  <2> QED
    BY <2>1, <2>2
<1>5. ASSUME NEW name \in Name, NEW n \in 1..2, NEW keys \in KeySets,
             PutAbonnement(name, n, keys)
      PROVE  Grouped'
  <2>1. groups' = {[id |-> LastId + k, item |-> name, ours |-> {}, theirs |-> keys] : k \in 1..n}
        /\ subscription' = "api"
    BY <1>5 DEF PutAbonnement
  <2>2. \A k \in 1..n : LastId + k \in Nat \ {0}
    BY LastIdIs DEF Grouped
  <2>3. keys \subseteq Key
    BY RolloutAssumption
  <2>4. groups' \subseteq Group /\ \A g \in groups' : g.ours = {}
    BY <2>1, <2>2, <2>3 DEF Group
  <2>5. \A g, h \in groups' : g.id = h.id => g = h
    BY <2>1
  <2> QED
    BY <2>1, <2>4, <2>5 DEF Grouped
<1>6. ASSUME DeleteAbonnement
      PROVE  Grouped'
  BY <1>6 DEF DeleteAbonnement, Grouped
<1>7. ASSUME NEW k, DeleteKanaal(k)
      PROVE  Grouped'
  BY <1>7 DEF DeleteKanaal, Grouped
<1>8. ASSUME \/ \E result \in {{}, {"other"}} : EditUsers(result)
             \/ \E t \in {"filter", "user"} : RemoveTwins(t)
             \/ \E value \in {"", "auth"} : OldPut(value)
      PROVE  UNCHANGED <<groups, subscription>>
  BY <1>8 DEF EditUsers, RemoveTwins, OldPut, configured
<1> QED
  BY <1>1, <1>2, <1>3, <1>4, <1>5, <1>6, <1>7, <1>8, GroupsSame DEF Next, ContainerStep

\* The bound grows with the groups.
LEMMA NumberedStep ==
    ASSUME Form, Ranges, Grouped, Numbered, Next
    PROVE  Numbered'
<1>0. PICK bound \in Nat : bound = LastId + 2
  BY LastIdIs DEF Grouped
<1>1. /\ \A g \in groups : g.id \in Nat /\ g.id <= bound
      /\ \A c \in Container : held[c].group \in Nat /\ held[c].group <= bound
      /\ LastId + 1 \in Nat /\ LastId + 1 <= bound
  BY <1>0, LastIdIs, GroupShape DEF Grouped, Numbered
<1>2. ASSUME \A g \in groups' : g.id <= bound,
             \A c \in Container : held'[c].group \in Nat /\ held'[c].group <= bound
      PROVE  Numbered'
  BY <1>2 DEF Numbered
<1>3. ASSUME NEW c \in Container, ContainerStep(c) \/ Killed(c)
      PROVE  /\ \A g \in groups' : g.id <= bound
             /\ held'[c].group \in Nat /\ held'[c].group <= bound
  <2>1. CASE PlanMigrations(c) \/ Migrate(c) \/ Record(c) \/ Killed(c)
    BY <1>1, <2>1, PlanEffect, MigrateEffect, RecordEffect, KilledEffect
       DEF Same, Cleared, configured
  <2>2. CASE DeleteIndex(c) \/ LookIndex(c) \/ LoadIndex(c)
    BY <1>1, <2>2, IndexEffect DEF Same, Cleared, configured
  <2>3. CASE LoadFixtures(c) \/ CheckSuperuser(c) \/ CreateSuperuser(c)
    BY <1>1, <2>3, SuperuserEffect DEF Same, Cleared, configured
  <2>4. CASE ConfigureKanalen(c) \/ ConfigureAbonnement(c)
    BY <1>1, <2>4, KanalenEffect, AbonnementEffect DEF Same, Cleared
  <2>5. CASE FindGroup(c)
    BY <1>1, <2>5, FindEffect DEF Same, Cleared, Filling, Advanced, configured
  <2>6. CASE CreateGroup(c)
    <3>1. CASE pc'[c] = "waiting"
      BY <1>1, <2>6, <3>1, CreateEffect DEF Cleared, Filling, Advanced
    <3>2. CASE pc'[c] # "waiting"
      <4>1. /\ held'[c].group \in {0, LastId + 1}
            /\ groups' = groups \cup
                  {[id |-> LastId + 1, item |-> Item(c), ours |-> {}, theirs |-> {}]}
        BY <2>6, <3>2, CreateEffect DEF Filling, Advanced
      <4> QED
        BY <1>1, <4>1
    <3> QED
      BY <3>1, <3>2
  <2>7. CASE ConfigureFilter(c)
    <3>0. PICK id, todo : id = held[c].group /\ todo = held[c].todo
      OBVIOUS
    <3>1. held'[c].group \in {0, id}
      BY <2>7, <3>0, FilterEffect DEF Cleared, Advanced
    <3>2. UNCHANGED groups \/ \E key \in todo : groups' = Filled(id, key)
      BY <2>7, <3>0, FilterEffect
    <3>3. pc[c] = "filter" => todo \subseteq Key
      BY <3>0 DEF Ranges
    <3>4. pc[c] = "filter"
      BY <2>7, FilterEffect
    <3>5. \A key \in Key : \A f \in Filled(id, key) : \E g \in groups : f.id = g.id
      BY FilledGroups DEF Grouped
    <3> QED
      BY <1>1, <3>0, <3>1, <3>2, <3>3, <3>4, <3>5
  <2> QED
    BY <1>3, <2>1, <2>2, <2>3, <2>4, <2>5, <2>6, <2>7 DEF ContainerStep
<1>4. ASSUME NEW c \in Container, ContainerStep(c) \/ Killed(c)
      PROVE  Numbered'
  <2>1. \A d \in Container : d # c => held'[d] = held[d]
    BY <1>4, ContainerApart DEF Apart, Stays
  <2>2. \A d \in Container : held'[d].group \in Nat /\ held'[d].group <= bound
    BY <1>1, <1>3, <1>4, <2>1
  <2> QED
    BY <1>2, <1>3, <1>4, <2>2
<1>5. ASSUME NEW name \in Name, NEW n \in 1..2, NEW keys \in KeySets,
             PutAbonnement(name, n, keys)
      PROVE  Numbered'
  <2>1. groups' = {[id |-> LastId + k, item |-> name, ours |-> {}, theirs |-> keys] : k \in 1..n}
        /\ UNCHANGED held
    BY <1>5 DEF PutAbonnement
  <2>2. \A k \in 1..n : LastId + k <= bound
    BY <1>0, LastIdIs DEF Grouped
  <2> QED
    BY <1>1, <1>2, <2>1, <2>2
<1>6. ASSUME UNCHANGED held, groups' \subseteq groups
      PROVE  Numbered'
  BY <1>1, <1>2, <1>6
<1>7. ASSUME \/ DeleteAbonnement
             \/ \E k \in Kanalen : DeleteKanaal(k)
             \/ \E result \in {{}, {"other"}} : EditUsers(result)
             \/ \E t \in {"filter", "user"} : RemoveTwins(t)
             \/ \E value \in {"", "auth"} : OldPut(value)
      PROVE  UNCHANGED held /\ groups' \subseteq groups
  BY <1>7 DEF DeleteAbonnement, DeleteKanaal, EditUsers, RemoveTwins, OldPut, configured
<1> QED
  BY <1>4, <1>5, <1>6, <1>7 DEF Next

--------------------------------------------------------------------------------
(* The invariants.                                                             *)

LEMMA RolloutInvInit == Init => RolloutInv
<1> SUFFICES ASSUME Init
             PROVE  RolloutInv
  OBVIOUS
<1>1. \A c \in Container : pc[c] = "waiting" /\ held[c] = Fresh
  BY DEF Init
<1>2. Form
  <2>1. /\ DOMAIN pc = Container /\ pc = [c \in Container |-> pc[c]]
        /\ DOMAIN held = Container /\ held = [c \in Container |-> held[c]]
    BY DEF Init
  <2>2. /\ Fresh = [plan |-> Fresh.plan, item |-> Fresh.item, group |-> Fresh.group,
                    todo |-> Fresh.todo]
        /\ Fresh.plan \subseteq Migration /\ Fresh.item \in Nat
    BY DEF Fresh
  <2> HIDE DEF Fresh
  <2> QED
    BY <1>1, <2>1, <2>2 DEF Form
<1>3. recorded \subseteq Migration
  BY RolloutAssumption, PastPlanned DEF Init
<1>4. Places /\ Planned
  BY <1>1, <1>3 DEF Places, Planned, SettingUp, Container
<1>5. Whole
  <2>1. kanalen \subseteq Kanalen
    BY DEF Init
  <2>2. \A name, keys : LET g == [id |-> 1, item |-> name, ours |-> {}, theirs |-> keys]
                        IN  g = [id |-> g.id, item |-> g.item, ours |-> g.ours, theirs |-> g.theirs]
    OBVIOUS
  <2>3. \/ groups = {}
        \/ \E name, keys : groups = {[id |-> 1, item |-> name, ours |-> {}, theirs |-> keys]}
    BY DEF Init
  <2> QED
    BY <2>1, <2>2, <2>3 DEF Whole
<1>6. IndexRestored
  BY <1>1, RolloutAssumption DEF IndexRestored, Migrates
<1> QED
  BY <1>2, <1>4, <1>5, <1>6 DEF RolloutInv

LEMMA RolloutInvStep == RolloutInv /\ [Next]_vars => RolloutInv'
<1>1. ASSUME RolloutInv, Next
      PROVE  RolloutInv'
  BY <1>1, FormStep, PlacesStep, PlannedStep, WholeStep, IndexStep DEF RolloutInv
<1>2. ASSUME RolloutInv, UNCHANGED vars
      PROVE  RolloutInv'
  BY <1>2 DEF RolloutInv, vars, database, configured, Form, Places, Planned, Whole, IndexRestored
<1> QED
  BY <1>1, <1>2

LEMMA RolloutInvHolds == Spec => []RolloutInv
  BY RolloutInvInit, RolloutInvStep, PTL DEF Spec

LEMMA SetupInvHolds == ASSUME OneSetup PROVE Spec => []SetupInv
<1>1. Init => PreparedAlone
  BY DEF Init, PreparedAlone, Prepared, Container
<1>2. Init => SetupInv
  BY <1>1, RolloutInvInit DEF SetupInv
<1>3. ASSUME SetupInv, Next
      PROVE  SetupInv'
  BY <1>3, RolloutInvStep, PreparedStep, OneSetup DEF SetupInv, RolloutInv
<1>4. ASSUME SetupInv, UNCHANGED vars
      PROVE  SetupInv'
  <2>1. RolloutInv' /\ UNCHANGED <<pc, held, disturbed, configured>>
    BY <1>4, RolloutInvStep DEF SetupInv, vars, limits, ghosts
  <2>2. PreparedAlone'
    BY <1>4, <2>1, PreparedSame DEF SetupInv, PreparedAlone
  <2> QED
    BY <2>1, <2>2 DEF SetupInv
<1>5. SetupInv /\ [Next]_vars => SetupInv'
  BY <1>3, <1>4
<1> QED
  BY <1>2, <1>5, PTL DEF Spec

LEMMA TypeInvInit == Init => TypeInv
<1> SUFFICES ASSUME Init
             PROVE  TypeInv
  OBVIOUS
<1>1. \A c \in Container : /\ pc[c] = "waiting" /\ held[c].item = 1
                          /\ held[c].group = 0 /\ held[c].todo = {}
  BY DEF Init, Fresh
<1>2. Simple
  <2>1. twins \subseteq {"filter", "user"} /\ users \subseteq {"admin", "other"}
    BY DEF Init
  <2>2. faults \in 0..MaxFaults
    BY RolloutAssumption DEF Init
  <2> QED
    BY <2>1, <2>2 DEF Init, Simple
<1>3. Ranges
  <2>1. 1 \in 1..Len(Items) + 1
    BY ItemsAre
  <2> QED
    BY <1>1, <2>1 DEF Ranges, Migrates
<1>4. CASE groups = {}
  <2>1. Numbered
    BY <1>1, <1>4 DEF Numbered
  <2>2. Grouped
    BY <1>4 DEF Grouped, Init
  <2> QED
    BY <1>2, <1>3, <2>1, <2>2 DEF TypeInv
<1>5. CASE groups # {}
  <2>1. PICK name \in Name, keys \in KeySets :
           /\ groups = {[id |-> 1, item |-> name, ours |-> {}, theirs |-> keys]}
           /\ subscription = "api"
    BY <1>5 DEF Init
  <2>2. Numbered
    BY <1>1, <2>1 DEF Numbered
  <2>3. groups \subseteq Group /\ \A g \in groups : g.ours = {}
    <3>1. keys \subseteq Key
      BY RolloutAssumption
    <3> QED
      BY <2>1, <3>1 DEF Group
  <2>4. \A g, h \in groups : g = h
    BY <2>1
  <2> QED
    BY <1>2, <1>3, <2>1, <2>2, <2>3, <2>4 DEF Grouped, TypeInv
<1> QED
  BY <1>4, <1>5

LEMMA TypeInvHolds == Spec => [](RolloutInv /\ TypeInv)
<1>1. ASSUME RolloutInv /\ TypeInv, Next
      PROVE  (RolloutInv /\ TypeInv)'
  BY <1>1, RolloutInvStep, SimpleStep, RangesStep, GroupedStep, NumberedStep
     DEF RolloutInv, TypeInv
<1>2. ASSUME RolloutInv /\ TypeInv, UNCHANGED vars
      PROVE  (RolloutInv /\ TypeInv)'
  <2>1. RolloutInv'
    BY <1>2, RolloutInvStep
  <2>2. UNCHANGED <<twins, users, index, subscription, groups, pc, held, ordered, faults, late,
                    disturbed>>
    BY <1>2 DEF vars, configured, limits, ghosts
  <2>3. Simple'
    BY <1>2, <2>2 DEF TypeInv, Simple
  <2>4. (Ranges /\ Grouped /\ Numbered)'
    BY <1>2, <2>2 DEF TypeInv, Ranges, Grouped, Numbered
  <2> QED
    BY <2>1, <2>3, <2>4 DEF TypeInv
<1> QED
  BY <1>1, <1>2, RolloutInvInit, TypeInvInit, PTL DEF Spec

LEMMA DatabaseInvHolds == ASSUME Orderly PROVE Spec => [](RolloutInv /\ DatabaseInv)
<1>1. Init => RolloutInv /\ DatabaseInv
  BY Orderly, RolloutInvInit, DatabaseInit
<1>2. ASSUME RolloutInv /\ DatabaseInv, Next
      PROVE  (RolloutInv /\ DatabaseInv)'
  BY <1>2, Orderly, RolloutInvStep, DatabaseStep DEF RolloutInv
<1>3. ASSUME RolloutInv /\ DatabaseInv, UNCHANGED vars
      PROVE  (RolloutInv /\ DatabaseInv)'
  <2>1. RolloutInv'
    BY <1>3, RolloutInvStep
  <2>2. UNCHANGED <<pc, held, tables, recorded, content, ordered, due, late>>
    BY <1>3 DEF vars, database, limits, ghosts
  <2>3. DatabaseInv'
    BY <1>3, <2>2 DEF DatabaseInv, Agrees, RowsAgree, Meeting, Alone
  <2> QED
    BY <2>1, <2>3
<1>4. (RolloutInv /\ DatabaseInv) /\ [Next]_vars => (RolloutInv /\ DatabaseInv)'
  BY <1>2, <1>3
<1> QED
  BY <1>1, <1>4, PTL DEF Spec

--------------------------------------------------------------------------------
(* Theorems.                                                                   *)

\* When the last container that migrates is through, the admin index is there, however
\* their deletions and loads were interleaved, failed or were cut off.
THEOREM IndexComesBack == Spec => []IndexRestored
<1>1. RolloutInv => IndexRestored
  BY DEF RolloutInv
<1> QED
  BY <1>1, RolloutInvHolds, PTL

\* A container serves only on the tables that models.py declares, with all migrations
\* recorded, whoever executed them and however often it was killed or failed at it: of those
\* before 0013 none is repeated, and the later ones can be.
THEOREM ServesOnModels == ASSUME Orderly PROVE Spec => []ServesOnItsModels
<1>1. RolloutInv /\ DatabaseInv => ServesOnItsModels
  <2> SUFFICES ASSUME Planned, DatabaseInv, NEW c \in Web, pc[c] = "serving"
               PROVE  tables = Models /\ recorded = Migration
    BY DEF ServesOnItsModels, RolloutInv
  <2>1. recorded = Migration
    BY DEF Planned, Container
  <2>2. PICK past : past \in Past /\ tables = After(past) /\ recorded \subseteq past
    BY DEF DatabaseInv, Agrees
  <2>3. past = Migration
    BY <2>1, <2>2, PastPlanned
  <2> QED
    BY <2>1, <2>2, <2>3, PlanMakesModels
<1> QED
  BY <1>1, DatabaseInvHolds, PTL

\* The client id of a subscription and the status of a response are in one of the columns that
\* hold them at every moment, unless an old server wrote the client id after it was merged.
THEOREM ValuesSurvive == ASSUME Orderly PROVE Spec => []ValuesKept
<1>1. DatabaseInv => ValuesKept
  <2> SUFFICES ASSUME DatabaseInv, NEW t \in DOMAIN content, ~(t = "abonnement" /\ late)
               PROVE  Kept(t)
    BY DEF ValuesKept
  <2>1. PICK past : Sound(t, content[t], due[t], past)
    BY DEF DatabaseInv, RowsAgree
  <2>2. CASE t = "abonnement"
    BY <2>1, <2>2 DEF Sound, Kept
  <2>3. CASE t # "abonnement"
    <3>1. \E column \in DOMAIN content[t] : due[t] \in {"", content[t][column]}
      BY <2>1, <2>3 DEF Sound
    <3> QED
      BY <3>1 DEF Kept
  <2> QED
    BY <2>2, <2>3
<1> QED
  BY <1>1, DatabaseInvHolds, PTL

\* The variables have their types, groups of one primary key are one, a subscription that is
\* not there has none, and the rows have the columns of their tables.
THEOREM TypeCorrect == ASSUME Orderly PROVE Spec => []TypeOK
<1>1. RolloutInv /\ TypeInv /\ DatabaseInv => TypeOK
  <2> SUFFICES ASSUME RolloutInv, TypeInv, DatabaseInv
               PROVE  TypeOK
    OBVIOUS
  <2>1. PICK past : Agrees(past) /\ RowsAgree(past)
    BY DEF DatabaseInv
  <2>2. past \in Past /\ tables = After(past)
    BY <2>1 DEF Agrees
  <2>3. \A t \in DOMAIN tables : UNION tables[t].keys \subseteq DOMAIN tables[t].columns
    BY <2>2, KeysHaveColumns
  <2>4. \A t \in DOMAIN content :
           /\ t \in DOMAIN tables
           /\ content[t] \in [Traced \cap DOMAIN tables[t].columns -> Value]
    BY <2>1, <2>2 DEF RowsAgree, Rows
  <2>5. pc \in [Container -> Migrates \cup {"fixtures", "superuser", "creating", "serving",
                                    "kanalen", "abonnement", "item", "group", "filter", "done"}]
    BY DEF RolloutInv, Form, TypeInv, Ranges, SetUpPlaces
  <2>6. held \in [Container -> Held]
    <3>1. ASSUME NEW c \in Container
          PROVE  held[c] \in Held
      <4>1. /\ held[c] = [plan |-> held[c].plan, item |-> held[c].item,
                          group |-> held[c].group, todo |-> held[c].todo]
            /\ held[c].plan \in SUBSET Migration /\ held[c].item \in 1..Len(Items) + 1
            /\ held[c].group \in Nat /\ held[c].todo \in SUBSET Key
        BY DEF RolloutInv, Form, TypeInv, Ranges, Numbered
      <4> QED
        BY <4>1 DEF Held
    <3> QED
      BY <3>1 DEF RolloutInv, Form
  <2>7. kanalen \subseteq Kanalen /\ recorded \subseteq Migration
    BY DEF RolloutInv, Whole, Planned
  <2> QED
    BY <2>3, <2>4, <2>5, <2>6, <2>7 DEF TypeInv, Simple, Grouped, TypeOK
<1> QED
  BY <1>1, DatabaseInvHolds, TypeInvHolds, PTL

\* A container serves when all migrations are recorded, by itself or by another: the plan
\* it made at its start is enough.
THEOREM AllMigrationsRecorded == Spec => []ServesMigrated
<1>1. RolloutInv => ServesMigrated
  BY DEF RolloutInv, Planned, ServesMigrated, Container
<1> QED
  BY <1>1, RolloutInvHolds, PTL

\* One container that sets up, and that nobody came between, leaves all configured channels
\* and, for every item of the configured subscription, one group with the configured filters
\* at their values, whatever groups and filters were there before.  Others may be there still.
THEOREM SetUpAsConfigured == ASSUME OneSetup PROVE Spec => []ConfiguredWhenDone
<1>1. SetupInv => ConfiguredWhenDone
  BY DEF SetupInv, PreparedAlone, Prepared, Configured, ConfiguredWhenDone
<1> QED
  BY <1>1, SetupInvHolds, PTL

================================================================================
