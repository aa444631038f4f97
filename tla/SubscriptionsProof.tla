-------------------------- MODULE SubscriptionsProof --------------------------
(***************************************************************************)
(* Theorems about Subscriptions, for every number of requests,             *)
(* subscriptions and channels.                                             *)
(*                                                                         *)
(* The inductive invariant SubscriptionsInv says what the locks are for.   *)
(* Most steps only move one request: lemma Move is about all of these.     *)
(* With it the requests are shown to implement SubscriptionContract.       *)
(***************************************************************************)
EXTENDS SubscriptionsImplement, TLAPS

\* What a request remembers fits its method and where it is.
Fits(r) ==
    /\ r.body.method = "POST" => r.pc \in {"fetched", "probed", "valid", "done"}
    /\ r.body.method = "DELETE" => r.pc \in {"received", "fetched", "done"} \cup InDelete
    /\ r.pc \in InDelete => r.body.method = "DELETE"
    /\ r.pc # "done" => r.answer = 0
    /\ r.body.method \in {"PUT", "PATCH"} /\ r.pc \notin {"received", "done"} =>
          r.instance \in Column
RequestsFit == \A q \in Request : Made(q) => Fits(req[q])

\* The lock of the row: one update of a subscription at a time.
UpdatesExclusive ==
    \A p, q \in Request :
       /\ Made(p) /\ Made(q) /\ Target(p) = Target(q)
       /\ req[p].pc \in InUpdate /\ req[q].pc \in InUpdate
       => p = q

\* Every filter of a subscription comes from one and the same request: however
\* updates interleave, the filters of two of them never mix.
OneAuthor == \A s \in Sub : \A g, h \in groups[s] : g.by = h.by

\* Under that lock the groups do not grow: an update deletes all there are.
SeesAll(r) ==
    /\ r.pc = "read" => groups[r.body.sub] \subseteq r.seen
    /\ r.pc = "cleared" => groups[r.body.sub] \subseteq r.dropped
UpdatesSeeAll == \A q \in Request : Made(q) => SeesAll(req[q])

\* Nobody knows the key of a subscription that is being created.
PostsAlone ==
    \A q \in Request : Made(q) /\ req[q].body.method = "POST" /\ req[q].pc # "done" =>
       /\ Target(q) \notin DOMAIN abonnement /\ \A d \in deleted : d.sub # Target(q)
       /\ \A p \in Request \ {q} :
             Made(p) /\ Target(p) = Target(q) => req[p].pc \in {"received", "done"}

\* Groups go with their channel.
ChannelsExist == \A s \in Sub : \A g \in groups[s] : g.kanaal \in {NoKanaal} \cup DOMAIN kanaal

\* What was validated stays so, as long as the channel is the same.
Agrees(g) ==
    g.kanaal \in DOMAIN kanaal \ changed =>
       g.keys \subseteq kanaal[g.kanaal] \/ kanaal[g.kanaal] \subseteq g.keys
Validated(r) ==
    r.pc \in {"valid", "inserting"} \cup InUpdate => \A g \in r.body.filters : Agrees(g)
ValidatedAgrees == \A q \in Request : Made(q) => Validated(req[q])
GroupsAgree == \A s \in Sub : \A g \in groups[s] : Agrees(g)

\* A deleted subscription is gone, and its key known only to those that had read it; or
\* one of them has been answered.
Revived(d) == \E p \in d.readers : /\ Made(p) /\ req[p].body.method \in {"PUT", "PATCH"}
                                   /\ req[p].answer = 200
KnownToReaders(d) ==
    /\ d.sub \notin DOMAIN abonnement
    /\ \A q \in Request : Made(q) /\ Target(q) = d.sub
                          /\ req[q].pc \notin {"received", "done"} => q \in d.readers
DeletedKnown ==
    \A d \in deleted :
       /\ \E q \in Request : Made(q) /\ Target(q) = d.sub /\ req[q].pc = "done"
       /\ Revived(d) \/ KnownToReaders(d)

SubscriptionsInv ==
    /\ TypeOK /\ RequestsFit /\ UpdatesExclusive /\ UpdatesSeeAll /\ PostsAlone
    /\ OneAuthor /\ ChannelsExist /\ ValidatedAgrees /\ GroupsAgree /\ DeletedKnown

tables == <<kanaal, abonnement, groups, deleted, changed>>

Place == Pending \cup InUpdate \cup InDelete \cup {"inserting", "done"}
Instance == Column \cup {<<>>}
Answer == {0, 200, 201, 204, 400, 404, 500}
Groups == SUBSET Group

\* The record type, with a name for the type of every field.
LEMMA RecordShape ==
    ReqRecord = [pc : Place, body : BodyRecord, instance : Instance, seen : Groups,
                 dropped : Groups, answer : Answer]
BY DEF ReqRecord, Place, Instance, Groups, Answer

\* A request record stays one when it goes on ...
LEMMA SeenIsRecord ==
    ASSUME NEW r \in ReqRecord, NEW pc \in Place, NEW s \in Groups
    PROVE  [r EXCEPT !.pc = pc, !.seen = s] \in ReqRecord
BY RecordShape

\* ... with the row that it read ...
LEMMA InstanceIsRecord ==
    ASSUME NEW r \in ReqRecord, NEW pc \in Place, NEW i \in Instance
    PROVE  [r EXCEPT !.pc = pc, !.instance = i] \in ReqRecord
BY RecordShape

\* ... with the groups that it deleted ...
LEMMA DroppedIsRecord ==
    ASSUME NEW r \in ReqRecord, NEW pc \in Place, NEW d \in Groups
    PROVE  [r EXCEPT !.pc = pc, !.dropped = d] \in ReqRecord
BY RecordShape

\* A request record that is answered.
Finished(r, code) == [r EXCEPT !.pc = "done", !.instance = <<>>, !.seen = {}, !.dropped = {},
                               !.answer = code]

\* ... and when it is answered; it keeps its body.
LEMMA FinishedIsRecord ==
    ASSUME NEW r \in ReqRecord, NEW code \in Answer
    PROVE  /\ Finished(r, code) \in ReqRecord
           /\ Finished(r, code).pc = "done" /\ Finished(r, code).body = r.body
           /\ Finished(r, code).answer = code
<1>1. "done" \in Place /\ <<>> \in Instance /\ {} \in Groups
    BY DEF Place, Instance, Groups
<1>. QED
    BY <1>1, RecordShape DEF Finished

\* Only a request that was made is anywhere.
LEMMA RequestTypes ==
    ASSUME TypeOK, NEW q \in Request
    PROVE  /\ Made(q) => req[q] \in ReqRecord
           /\ Made(q) => Target(q) \in Sub /\ req[q].body \in BodyRecord
           /\ req[q].pc # "idle" => Made(q)
           /\ Made(q) => req[q].pc # "idle"
<1>1. req[q] \in ReqRecord \cup {NoRequest}
    BY DEF TypeOK
<1>2. req[q] \in ReqRecord => req[q].body \in BodyRecord /\ req[q].pc # "idle"
    BY SMT DEF ReqRecord, Pending, InUpdate, InDelete
<1>3. req[q] \in ReqRecord => req[q].body.sub \in Sub
    BY <1>2 DEF BodyRecord
<1>. QED
    BY <1>1, <1>2, <1>3 DEF Made, Target, NoRequest

\* A step that moves one request and changes no table preserves the invariant, if the
\* request fits where it comes to.
LEMMA Move ==
    ASSUME SubscriptionsInv, UNCHANGED tables,
           NEW q \in Request, Made(q), req[q].pc # "done",
           NEW r \in ReqRecord, req' = [req EXCEPT ![q] = r],
           r.body = req[q].body, Fits(r), SeesAll(r), Validated(r),
           r.pc \in InUpdate => req[q].pc \in InUpdate \/ ~RowLocked(q),
           \/ r.pc \in {"received", "done"}
           \/ req[q].pc # "received"
           \/ Target(q) \in DOMAIN abonnement
    PROVE  SubscriptionsInv'
<1>. USE DEF SubscriptionsInv, tables
<1>1. /\ req[q] \in ReqRecord /\ r # NoRequest /\ req \in [Request -> ReqRecord \cup {NoRequest}]
      /\ r.pc # "idle" /\ req[q].answer = 0
    BY RequestTypes DEF TypeOK, NoRequest, ReqRecord, Pending, InUpdate, InDelete,
       RequestsFit, Fits
<1>2. /\ req'[q] = r /\ \A p \in Request \ {q} : req'[p] = req[p]
      /\ \A p \in Request : Made(p)' <=> Made(p)
      /\ \A p \in Request : Made(p) => Target(p)' = Target(p) /\ req'[p].body = req[p].body
    BY <1>1 DEF Made, Target
<1>3. TypeOK'
    BY <1>1 DEF TypeOK
<1>4. RequestsFit'
    BY <1>2 DEF RequestsFit, Fits, Column
<1>5. UpdatesExclusive'
    BY <1>2 DEF UpdatesExclusive, RowLocked
<1>6. UpdatesSeeAll'
    BY <1>2 DEF UpdatesSeeAll, SeesAll
<1>7. PostsAlone'
    BY <1>2 DEF PostsAlone
<1>8. OneAuthor' /\ ChannelsExist' /\ GroupsAgree'
    BY DEF OneAuthor, ChannelsExist, GroupsAgree, Agrees
<1>9. ValidatedAgrees'
    BY <1>2 DEF ValidatedAgrees, Validated, Agrees
<1>10. DeletedKnown'
  <2> SUFFICES ASSUME NEW d \in deleted
               PROVE  /\ \E p \in Request : Made(p)' /\ Target(p)' = d.sub /\ req'[p].pc = "done"
                      /\ Revived(d)' \/ KnownToReaders(d)'
      BY DEF DeletedKnown
  <2>1. /\ \E p \in Request : Made(p) /\ Target(p) = d.sub /\ req[p].pc = "done"
        /\ Revived(d) \/ KnownToReaders(d)
      BY DEF DeletedKnown
  <2>2. \E p \in Request : Made(p)' /\ Target(p)' = d.sub /\ req'[p].pc = "done"
      BY <1>2, <2>1
  <2>3. d.readers \subseteq Request
      BY DEF TypeOK
  <2>4. Revived(d) => Revived(d)'
      BY <1>1, <1>2, <2>3 DEF Revived
  <2>5. KnownToReaders(d) => KnownToReaders(d)'
      BY <1>2 DEF KnownToReaders
  <2>. QED
      BY <2>1, <2>2, <2>4, <2>5
<1>. QED
    BY <1>3, <1>4, <1>5, <1>6, <1>7, <1>8, <1>9, <1>10

\* A request that is refused, that fails or that dies leaves everything else as it is.
LEMMA RefuseMoves ==
    ASSUME SubscriptionsInv, NEW q \in Request, Made(q), req[q].pc # "done",
           NEW code \in {400, 404, 500}, Refuse(q, code)
    PROVE  SubscriptionsInv'
<1> DEFINE r == Finished(req[q], code)
<1>1. req[q] \in ReqRecord
    BY RequestTypes DEF SubscriptionsInv
<1>2. r \in ReqRecord /\ r.pc = "done" /\ r.body = req[q].body
  <2>1. code \in Answer
      BY DEF Answer
  <2>. QED
      BY <1>1, <2>1, FinishedIsRecord
<1>3. Fits(r) /\ SeesAll(r) /\ Validated(r)
    BY <1>2 DEF Fits, SeesAll, Validated, InDelete, InUpdate
<1>4. req' = [req EXCEPT ![q] = r] /\ UNCHANGED tables
    BY DEF Refuse, Finish, Finished, tables
<1>5. r.pc \notin InUpdate
    BY <1>2 DEF InUpdate
<1> HIDE DEF r
<1>. QED
    BY ZenonT(30), <1>2, <1>3, <1>4, <1>5, Move

\* What Move asks of a request that goes on to another place and learns nothing.
LEMMA GotoMoves ==
    ASSUME SubscriptionsInv, UNCHANGED tables, NEW q \in Request, Made(q),
           NEW pc \in {"probed", "valid", "inserting", "saved"}, Goto(q, pc),
           req[q].pc \in {"fetched", "probed", "valid", "inserting"},
           req[q].body.method # "DELETE",
           req[q].body.method = "POST" => pc \in {"probed", "valid"},
           pc = "saved" => ~RowLocked(q),
           pc # "probed" => \A g \in req[q].body.filters : Agrees(g)
    PROVE  SubscriptionsInv'
<1> DEFINE r == [req[q] EXCEPT !.pc = pc]
<1>1. req[q] \in ReqRecord
    BY RequestTypes DEF SubscriptionsInv
<1>2. /\ r \in ReqRecord /\ r.pc = pc /\ r.body = req[q].body
      /\ r.instance = req[q].instance /\ r.answer = req[q].answer
    BY <1>1 DEF ReqRecord, Pending, InUpdate
<1>3. Fits(req[q])
    BY DEF SubscriptionsInv, RequestsFit
<1>4. Fits(r)
    BY <1>2, <1>3 DEF Fits, InDelete
<1>5. SeesAll(r) /\ Validated(r)
    BY <1>2 DEF SeesAll, Validated, InUpdate
<1>6. req' = [req EXCEPT ![q] = r]
    BY DEF Goto
<1>7. r.pc \in InUpdate => ~RowLocked(q)
    BY <1>2 DEF InUpdate
<1> HIDE DEF r
<1>. QED
    BY <1>2, <1>4, <1>5, <1>6, <1>7, Move

\* A request that reads its instance has a row to read.
LEMMA FetchPreserves ==
    ASSUME SubscriptionsInv, NEW q \in Request, Fetch(q) PROVE SubscriptionsInv'
<1>1. Made(q) /\ req[q] \in ReqRecord /\ Target(q) \in Sub
    BY RequestTypes DEF SubscriptionsInv, Fetch
<1>2. CASE Target(q) \notin DOMAIN abonnement
    BY <1>1, <1>2, RefuseMoves DEF Fetch
<1>3. CASE Target(q) \in DOMAIN abonnement
  <2> DEFINE r == [req[q] EXCEPT !.pc = "fetched", !.instance = abonnement[Target(q)]]
  <2>1. abonnement[Target(q)] \in Column
      BY <1>3 DEF SubscriptionsInv, TypeOK
  <2>2. r \in ReqRecord /\ r.pc = "fetched" /\ r.body = req[q].body
        /\ r.instance \in Column /\ r.answer = req[q].answer
    <3>1. "fetched" \in Place /\ abonnement[Target(q)] \in Instance
        BY <2>1 DEF Place, Pending, Instance
    <3>2. r \in ReqRecord
        BY <1>1, <3>1, InstanceIsRecord
    <3>. QED
        BY <1>1, <2>1, <3>2 DEF ReqRecord
  <2>3. Fits(req[q])
      BY <1>1 DEF SubscriptionsInv, RequestsFit
  <2>4. Fits(r) /\ SeesAll(r) /\ Validated(r) /\ r.pc \notin InUpdate
      BY <2>2, <2>3 DEF Fits, SeesAll, Validated, InDelete, InUpdate, Fetch
  <2>5. req' = [req EXCEPT ![q] = r] /\ UNCHANGED tables
      BY <1>3 DEF Fetch, tables
  <2> HIDE DEF r
  <2>. QED
      BY <1>1, <1>3, <2>2, <2>4, <2>5, Move DEF Fetch
<1>. QED
    BY <1>2, <1>3

\* Whatever the callback answers, no row changes.
LEMMA ProbePreserves ==
    ASSUME SubscriptionsInv, NEW q \in Request, Probe(q) PROVE SubscriptionsInv'
<1>1. Made(q) /\ req[q].pc = "fetched" /\ req[q].body.method # "DELETE"
    BY RequestTypes DEF SubscriptionsInv, Probe
<1>2. CASE Refuse(q, 400)
    BY <1>1, <1>2, RefuseMoves
<1>3. CASE Goto(q, "probed") /\ UNCHANGED tables
    BY <1>1, <1>3, GotoMoves
<1>. QED
    BY <1>2, <1>3 DEF Probe, tables

\* Consistent is what Agrees asks for.
LEMMA ConsistentAgrees == ASSUME NEW g, Consistent(g), NoKanaal \notin DOMAIN kanaal PROVE Agrees(g)
BY DEF Consistent, Agrees, MatchFilterNames

\* The mark of a cloud event filter is the name of no channel.
LEMMA NoChannelIsNoKanaal == TypeOK => NoKanaal \notin DOMAIN kanaal
BY SubscriptionAssumption DEF TypeOK

\* What is checked is what ValidatedAgrees says of the request.
LEMMA CheckKanalenPreserves ==
    ASSUME SubscriptionsInv, NEW q \in Request, CheckKanalen(q) PROVE SubscriptionsInv'
<1>1. Made(q) /\ req[q].pc = "probed"
    BY RequestTypes DEF SubscriptionsInv, CheckKanalen
<1>2. req[q].body.method # "DELETE"
    BY <1>1 DEF SubscriptionsInv, RequestsFit, Fits, InDelete
<1>3. CASE \A g \in req[q].body.filters : Consistent(g)
  <2>1. \A g \in req[q].body.filters : Agrees(g)
      BY <1>3, ConsistentAgrees, NoChannelIsNoKanaal DEF SubscriptionsInv
  <2>. QED
      BY <1>1, <1>2, <1>3, <2>1, GotoMoves DEF CheckKanalen, tables
<1>4. CASE ~(\A g \in req[q].body.filters : Consistent(g))
    BY <1>1, <1>4, RefuseMoves DEF CheckKanalen
<1>. QED
    BY <1>3, <1>4

\* The row is locked by one update only.
LEMMA SaveRowPreserves ==
    ASSUME SubscriptionsInv, NEW q \in Request, SaveRow(q) PROVE SubscriptionsInv'
<1>1. Made(q) /\ req[q].pc = "valid" /\ req[q].body.method \in {"PUT", "PATCH"}
    BY RequestTypes DEF SubscriptionsInv, SaveRow
<1>2. \A g \in req[q].body.filters : Agrees(g)
    BY <1>1 DEF SubscriptionsInv, ValidatedAgrees, Validated
<1>. QED
    BY <1>1, <1>2, GotoMoves DEF SaveRow, tables

\* So is the key of a row that is inserted.
LEMMA InsertRowPreserves ==
    ASSUME SubscriptionsInv, NEW q \in Request, InsertRow(q) PROVE SubscriptionsInv'
<1>1. Made(q) /\ req[q].pc = "inserting" /\ ~RowLocked(q)
    BY RequestTypes DEF SubscriptionsInv, InsertRow
<1>2. req[q].body.method \notin {"DELETE", "POST"} /\ \A g \in req[q].body.filters : Agrees(g)
    BY <1>1 DEF SubscriptionsInv, RequestsFit, Fits, InDelete, ValidatedAgrees, Validated
<1>3. CASE Target(q) \in DOMAIN abonnement
    BY <1>1, <1>3, RefuseMoves DEF InsertRow
<1>4. CASE Target(q) \notin DOMAIN abonnement
    BY <1>1, <1>2, <1>4, GotoMoves DEF InsertRow, tables
<1>. QED
    BY <1>3, <1>4

\* What is read to be deleted is all there is.
LEMMA ReadGroupsPreserves ==
    ASSUME SubscriptionsInv, NEW q \in Request, ReadGroups(q) PROVE SubscriptionsInv'
<1> DEFINE place == IF req[q].pc = "saved" THEN "read" ELSE "collected"
           r == [req[q] EXCEPT !.pc = place, !.seen = Old(q)]
<1>0. \/ req[q].pc = "saved"
      \/ req[q].pc = "fetched" /\ req[q].body.method = "DELETE"
    BY DEF ReadGroups
<1>1. Made(q) /\ req[q] \in ReqRecord /\ Target(q) \in Sub
    BY <1>0, RequestTypes DEF SubscriptionsInv
<1>2. Old(q) \in Groups
    BY <1>1 DEF SubscriptionsInv, TypeOK, Old, Groups
<1>3. /\ r.body = req[q].body /\ r.seen = groups[Target(q)]
      /\ r.instance = req[q].instance /\ r.answer = req[q].answer
      /\ r.pc = IF req[q].pc = "saved" THEN "read" ELSE "collected"
      /\ r \in ReqRecord
  <2>1. /\ r.body = req[q].body /\ r.seen = groups[Target(q)]
        /\ r.instance = req[q].instance /\ r.answer = req[q].answer
        /\ r.pc = IF req[q].pc = "saved" THEN "read" ELSE "collected"
      BY <1>1 DEF ReqRecord, Old
  <2>2. place \in Place
      BY DEF Place, InUpdate, InDelete
  <2> HIDE DEF place
  <2>3. r \in ReqRecord
      BY <1>1, <1>2, <2>2, SeenIsRecord
  <2>. QED
      BY <2>1, <2>3
<1>4. Fits(req[q]) /\ Validated(req[q])
    BY <1>1 DEF SubscriptionsInv, RequestsFit, ValidatedAgrees
<1>5. Fits(r) /\ Validated(r)
    BY <1>0, <1>1, <1>3, <1>4 DEF Fits, Validated, InDelete, InUpdate
<1>6. SeesAll(r)
    BY <1>1, <1>3 DEF SeesAll, Target
<1>7. r.pc \in InUpdate => req[q].pc \in InUpdate
    BY <1>0, <1>1, <1>3 DEF InUpdate
<1>8. req' = [req EXCEPT ![q] = r] /\ UNCHANGED tables
    BY DEF ReadGroups, tables
<1> HIDE DEF r
<1>. QED
    BY <1>0, <1>1, <1>3, <1>5, <1>6, <1>7, <1>8, Move

\* What is deleted is all there is, too: under the lock the groups do not grow.
LEMMA DropGroupsPreserves ==
    ASSUME SubscriptionsInv, NEW q \in Request, DropGroups(q) PROVE SubscriptionsInv'
<1> DEFINE place == IF req[q].pc = "read" THEN "cleared" ELSE "dropped"
           r == [req[q] EXCEPT !.pc = place, !.dropped = req[q].seen \cap groups[Target(q)]]
<1>1. /\ Made(q) /\ req[q] \in ReqRecord /\ Target(q) \in Sub
      /\ req[q].pc \in {"read", "collected"}
    BY RequestTypes DEF SubscriptionsInv, DropGroups
<1>2. req[q].seen \cap groups[Target(q)] \in Groups
    BY <1>1 DEF SubscriptionsInv, TypeOK, Groups
<1>3. /\ r.body = req[q].body /\ r.dropped = req[q].seen \cap groups[Target(q)]
      /\ r.instance = req[q].instance /\ r.answer = req[q].answer
      /\ r.pc = IF req[q].pc = "read" THEN "cleared" ELSE "dropped"
      /\ r \in ReqRecord
  <2>1. /\ r.body = req[q].body /\ r.dropped = req[q].seen \cap groups[Target(q)]
        /\ r.instance = req[q].instance /\ r.answer = req[q].answer
        /\ r.pc = IF req[q].pc = "read" THEN "cleared" ELSE "dropped"
      BY <1>1 DEF ReqRecord
  <2>2. place \in Place
      BY DEF Place, InUpdate, InDelete
  <2> HIDE DEF place
  <2>3. r \in ReqRecord
      BY <1>1, <1>2, <2>2, DroppedIsRecord
  <2>. QED
      BY <2>1, <2>3
<1>4. Fits(req[q]) /\ Validated(req[q]) /\ SeesAll(req[q])
    BY <1>1 DEF SubscriptionsInv, RequestsFit, ValidatedAgrees, UpdatesSeeAll
<1>5. Fits(r) /\ Validated(r)
    BY <1>1, <1>3, <1>4 DEF Fits, Validated, InDelete, InUpdate
<1>6. SeesAll(r)
    BY <1>1, <1>3, <1>4 DEF SeesAll, Target
<1>7. r.pc \in InUpdate => req[q].pc \in InUpdate
    BY <1>1, <1>3 DEF InUpdate
<1>8. req' = [req EXCEPT ![q] = r] /\ UNCHANGED tables
    BY DEF DropGroups, tables
<1> HIDE DEF r
<1>. QED
    BY <1>1, <1>3, <1>5, <1>6, <1>7, <1>8, Move

\* PostgreSQL and a dying worker end a request the same way.
LEMMA AbortsPreserve ==
    ASSUME SubscriptionsInv, NEW q \in Request, DeadlockAbort(q) \/ Crash(q)
    PROVE  SubscriptionsInv'
<1>1. Made(q) /\ req[q].pc # "done" /\ Refuse(q, 500)
    BY DEF DeadlockAbort, Deadlocked, Crash
<1>. QED
    BY <1>1, RefuseMoves

\* At first there are no requests, and all groups are of channels that exist.
LEMMA InitSubscriptions == Init => SubscriptionsInv
<1> SUFFICES ASSUME Init PROVE SubscriptionsInv
    OBVIOUS
<1>. USE DEF Init
<1>1. \A q \in Request : ~Made(q)
    BY DEF Made
<1>2. TypeOK
  <2>1. \A s \in Sub : groups[s] \subseteq Group
      BY DEF Group, Author
  <2>2. abonnement \in [DOMAIN abonnement -> Column] /\ DOMAIN abonnement \subseteq Sub
      BY SubscriptionAssumption DEF Column, Author
  <2>3. req \in [Request -> ReqRecord \cup {NoRequest}]
      OBVIOUS
  <2>. QED
      BY <2>1, <2>2, <2>3, SubscriptionAssumption DEF TypeOK
<1>3. \A s \in Sub : \A g \in groups[s] :
         g.by = Initial /\ g.keys = {} /\ g.kanaal \in DOMAIN kanaal
    BY SubscriptionAssumption
<1>4. OneAuthor /\ ChannelsExist /\ GroupsAgree
    BY <1>3 DEF OneAuthor, ChannelsExist, GroupsAgree, Agrees
<1>5. RequestsFit /\ UpdatesExclusive /\ UpdatesSeeAll /\ PostsAlone /\ ValidatedAgrees
    BY <1>1 DEF RequestsFit, UpdatesExclusive, UpdatesSeeAll, PostsAlone, ValidatedAgrees
<1>6. DeletedKnown
    BY DEF DeletedKnown
<1>. QED
    BY <1>2, <1>4, <1>5, <1>6 DEF SubscriptionsInv

\* A new request knows nothing yet; one that creates a subscription has its key alone.
LEMMA ReceivePreserves ==
    ASSUME SubscriptionsInv, NEW q \in Request, NEW b \in Bodies, Receive(q, b)
    PROVE  SubscriptionsInv'
<1> DEFINE r == [pc |-> IF b.method = "POST" THEN "fetched" ELSE "received", body |-> b,
                 instance |-> <<>>, seen |-> {}, dropped |-> {}, answer |-> 0]
<1>. USE DEF SubscriptionsInv
<1>1. /\ ~Made(q) /\ req' = [req EXCEPT ![q] = r] /\ UNCHANGED tables
      /\ b.method = "POST" => /\ b.sub \notin DOMAIN abonnement
                              /\ \A p \in Request : Made(p) => Target(p) # b.sub
    BY DEF Receive, tables
<1>2. /\ r.body = b /\ r.answer = 0
      /\ r.pc = IF b.method = "POST" THEN "fetched" ELSE "received"
    OBVIOUS
<1>3. r \in ReqRecord
  <2>1. b \in BodyRecord
      BY SubscriptionAssumption
  <2>2. r.pc \in Place /\ <<>> \in Instance /\ {} \in Groups /\ 0 \in Answer
      BY DEF Place, Pending, Instance, Groups, Answer
  <2>. QED
      BY <2>1, <2>2, RecordShape
<1>4. r # NoRequest /\ r.pc \in {"fetched", "received"}
    BY <1>2 DEF NoRequest
<1> HIDE DEF r
<1>5. req \in [Request -> ReqRecord \cup {NoRequest}]
    BY DEF TypeOK
<1>6. /\ req'[q] = r /\ \A p \in Request \ {q} : req'[p] = req[p]
      /\ Made(q)' /\ \A p \in Request \ {q} : Made(p)' <=> Made(p)
      /\ Target(q)' = b.sub /\ \A p \in Request \ {q} : Target(p)' = Target(p)
    BY <1>1, <1>2, <1>4, <1>5 DEF Made, Target
<1>7. TypeOK'
    BY <1>1, <1>3, <1>5 DEF TypeOK, tables
<1>8. Fits(r) /\ SeesAll(r) /\ Validated(r)
    BY <1>2, <1>4 DEF Fits, SeesAll, Validated, InDelete, InUpdate
<1>9. RequestsFit' /\ UpdatesSeeAll' /\ ValidatedAgrees'
    BY <1>1, <1>6, <1>8 DEF RequestsFit, UpdatesSeeAll, ValidatedAgrees, Fits, SeesAll,
       Validated, Agrees, tables, Column
<1>10. UpdatesExclusive'
    BY <1>4, <1>6 DEF UpdatesExclusive, InUpdate
<1>11. PostsAlone'
  <2>1. \A d \in deleted : \E p \in Request : Made(p) /\ Target(p) = d.sub
      BY DEF DeletedKnown
  <2>2. \A p \in Request \ {q} : Made(p) /\ Target(p) = b.sub => r.pc = "received"
      BY <1>1, <1>2
  <2>. QED
      BY <1>1, <1>2, <1>6, <2>1, <2>2 DEF PostsAlone, tables
<1>12. OneAuthor' /\ ChannelsExist' /\ GroupsAgree'
    BY <1>1 DEF OneAuthor, ChannelsExist, GroupsAgree, Agrees, tables
<1>13. DeletedKnown'
  <2> SUFFICES ASSUME NEW d \in deleted
               PROVE  /\ \E p \in Request : Made(p)' /\ Target(p)' = d.sub /\ req'[p].pc = "done"
                      /\ Revived(d)' \/ KnownToReaders(d)'
      BY <1>1 DEF DeletedKnown, tables
  <2>1. PICK p \in Request : Made(p) /\ Target(p) = d.sub /\ req[p].pc = "done"
      BY DEF DeletedKnown
  <2>2. Revived(d) \/ KnownToReaders(d)
      BY DEF DeletedKnown
  <2>3. d.readers \subseteq Request
      BY DEF TypeOK
  <2>4. Revived(d) => Revived(d)'
      BY <1>1, <1>6, <2>3 DEF Revived
  <2>5. b.sub = d.sub => r.pc = "received"
      BY <1>1, <1>2, <2>1
  <2>6. KnownToReaders(d) => KnownToReaders(d)'
      BY <1>1, <1>6, <2>5 DEF KnownToReaders, tables
  <2>. QED
      BY <1>1, <1>6, <2>1, <2>2, <2>4, <2>6
<1>. QED
    BY <1>7, <1>9, <1>10, <1>11, <1>12, <1>13

\* A request that is answered with success leaves the others as they are.
LEMMA FinishFrame ==
    ASSUME TypeOK, NEW q \in Request, Made(q), NEW code \in Answer, Finish(q, code)
    PROVE  /\ req' \in [Request -> ReqRecord \cup {NoRequest}]
           /\ req'[q].pc = "done" /\ req'[q].answer = code /\ req'[q].body = req[q].body
           /\ \A p \in Request \ {q} : req'[p] = req[p]
           /\ \A p \in Request : Made(p)' <=> Made(p)
           /\ \A p \in Request : Made(p) => Target(p)' = Target(p)
<1>1. req[q] \in ReqRecord /\ req \in [Request -> ReqRecord \cup {NoRequest}]
    BY RequestTypes DEF TypeOK
<1> DEFINE r == Finished(req[q], code)
<1>2. r \in ReqRecord /\ r.pc = "done" /\ r.body = req[q].body /\ r.answer = code
    BY <1>1, FinishedIsRecord
<1>3. req' = [req EXCEPT ![q] = r]
    BY DEF Finish, Finished
<1>4. r # NoRequest
    BY <1>2 DEF NoRequest
<1> HIDE DEF r
<1>. QED
    BY <1>1, <1>2, <1>3, <1>4 DEF Made, Target

\* Requests that stay the same, or end, still fit.
LEMMA FinishFits ==
    ASSUME SubscriptionsInv, NEW q \in Request, Made(q), NEW code \in Answer, Finish(q, code)
    PROVE  RequestsFit' /\ UpdatesExclusive'
<1>1. Fits(req'[q])
    BY FinishFrame DEF SubscriptionsInv, Fits, InDelete
<1>2. RequestsFit'
    BY <1>1, FinishFrame DEF SubscriptionsInv, RequestsFit, Fits, Column
<1>3. UpdatesExclusive'
    BY FinishFrame DEF SubscriptionsInv, UpdatesExclusive, InUpdate
<1>. QED
    BY <1>2, <1>3

\* A revived subscription stays one.
LEMMA StaysRevived ==
    ASSUME SubscriptionsInv, NEW q \in Request, Made(q), req[q].pc # "done",
           NEW code \in Answer, Finish(q, code), NEW d \in deleted, Revived(d)
    PROVE  Revived(d)'
<1>1. d.readers \subseteq Request
    BY DEF SubscriptionsInv, TypeOK
<1>2. req[q].answer = 0
    BY DEF SubscriptionsInv, RequestsFit, Fits
<1>. QED
    BY <1>1, <1>2, FinishFrame DEF SubscriptionsInv, Revived

\* The groups a request creates are its own, of channels that exist, and agree with them.
LEMMA NewGroupsFit ==
    ASSUME SubscriptionsInv, NEW q \in Request, Made(q), KanalenExist(q), Validated(req[q]),
           req[q].pc \in {"valid", "cleared"}
    PROVE  /\ NewGroups(q) \subseteq Group
           /\ \A g \in NewGroups(q) : /\ g.by = q /\ Agrees(g)
                                      /\ g.kanaal \in {NoKanaal} \cup DOMAIN kanaal
<1>1. req[q].body \in BodyRecord
    BY RequestTypes DEF SubscriptionsInv
<1>2. req[q].body.filters \subseteq Content
    BY <1>1 DEF BodyRecord
<1>3. NewGroups(q) \subseteq Group
    BY <1>2 DEF NewGroups, Content, Group, Author
<1>4. \A g \in req[q].body.filters : Agrees(g)
    BY DEF Validated, InUpdate
<1>. QED
    BY <1>3, <1>4 DEF NewGroups, KanalenExist, Agrees

\* A POST has its subscription to itself.
LEMMA CreatePreserves ==
    ASSUME SubscriptionsInv, NEW q \in Request, Create(q) PROVE SubscriptionsInv'
<1>. USE DEF SubscriptionsInv
<1>1. Made(q) /\ req[q].pc = "valid" /\ req[q].body.method = "POST" /\ Target(q) \in Sub
    BY RequestTypes DEF Create
<1>2. CASE ~KanalenExist(q)
    BY <1>1, <1>2, RefuseMoves DEF Create
<1>3. CASE KanalenExist(q)
  <2> DEFINE row == [f \in Field |-> q]
  <2>1. /\ abonnement' = With(Target(q), row) /\ Finish(q, 201) /\ 201 \in Answer
        /\ groups' = [groups EXCEPT ![Target(q)] = NewGroups(q)]
        /\ kanaal' = kanaal /\ deleted' = deleted /\ changed' = changed
      BY <1>3 DEF Create, Answer
  <2>2. Validated(req[q])
      BY <1>1 DEF ValidatedAgrees
  <2>3. groups \in [Sub -> SUBSET Group]
      BY DEF TypeOK
  <2>4. groups'[Target(q)] = NewGroups(q) /\ \A s \in Sub \ {Target(q)} : groups'[s] = groups[s]
      BY <1>1, <2>1, <2>3
  <2>5. row \in Column
      BY DEF Column, Author
  <2> HIDE DEF row
  <2>6. /\ DOMAIN abonnement' = DOMAIN abonnement \cup {Target(q)}
        /\ abonnement' \in [DOMAIN abonnement' -> Column]
      BY <2>1, <2>5 DEF With, TypeOK
  <2>7. /\ \A d \in deleted : d.sub # Target(q)
        /\ \A p \in Request \ {q} :
              Made(p) /\ Target(p) = Target(q) => req[p].pc \in {"received", "done"}
      BY <1>1 DEF PostsAlone
  <2>8. TypeOK'
    <3>1. groups' \in [Sub -> SUBSET Group]
        BY <1>1, <1>3, <2>1, <2>2, <2>3, NewGroupsFit
    <3>2. \A s \in Sub \ DOMAIN abonnement' : groups'[s] = {}
        BY <2>4, <2>6 DEF TypeOK
    <3>. QED
        BY <1>1, <2>1, <2>6, <3>1, <3>2, FinishFrame DEF TypeOK
  <2>9. RequestsFit' /\ UpdatesExclusive'
      BY <1>1, <2>1, FinishFits
  <2>10. UpdatesSeeAll' /\ ValidatedAgrees'
    <3>1. SeesAll(req[q])' /\ Validated(req[q])'
        BY <1>1, <2>1, FinishFrame DEF SeesAll, Validated, InUpdate
    <3>2. ASSUME NEW p \in Request \ {q}, Made(p)
          PROVE  SeesAll(req[p])' /\ Validated(req[p])'
      <4>1. SeesAll(req[p]) /\ Validated(req[p]) /\ Target(p) \in Sub
          BY <3>2, RequestTypes DEF UpdatesSeeAll, ValidatedAgrees
      <4>2. Target(p) = Target(q) => req[p].pc \notin InUpdate
          BY <2>7, <3>2 DEF InUpdate
      <4>3. req'[p] = req[p]
          BY <1>1, <2>1, FinishFrame
      <4>. QED
          BY <2>1, <2>4, <4>1, <4>2, <4>3 DEF SeesAll, Validated, InUpdate, Agrees, Target
    <3>. QED
        BY <1>1, <2>1, <3>1, <3>2, FinishFrame DEF UpdatesSeeAll, ValidatedAgrees
  <2>11. PostsAlone'
      BY <1>1, <2>1, <2>6, <2>7, FinishFrame DEF PostsAlone
  <2>12. OneAuthor' /\ ChannelsExist' /\ GroupsAgree'
      BY <1>1, <1>3, <2>1, <2>2, <2>4, NewGroupsFit
      DEF OneAuthor, ChannelsExist, GroupsAgree, Agrees
  <2>13. DeletedKnown'
    <3> SUFFICES ASSUME NEW d \in deleted
                 PROVE  /\ \E p \in Request : Made(p)' /\ Target(p)' = d.sub /\ req'[p].pc = "done"
                        /\ Revived(d)' \/ KnownToReaders(d)'
        BY <2>1 DEF DeletedKnown
    <3>1. PICK p \in Request : Made(p) /\ Target(p) = d.sub /\ req[p].pc = "done"
        BY DEF DeletedKnown
    <3>2. Revived(d) \/ KnownToReaders(d)
        BY DEF DeletedKnown
    <3>3. KnownToReaders(d) => KnownToReaders(d)'
        BY <1>1, <2>1, <2>6, <2>7, FinishFrame DEF KnownToReaders
    <3>4. Made(p)' /\ Target(p)' = d.sub /\ req'[p].pc = "done"
        BY <1>1, <2>1, <3>1, FinishFrame
    <3>. QED
        BY <1>1, <2>1, <3>2, <3>3, <3>4, StaysRevived
  <2>. QED
      BY <2>8, <2>9, <2>10, <2>11, <2>12, <2>13
<1>. QED
    BY <1>2, <1>3


\* An update has its subscription to itself: nobody else creates groups of it, and one that
\* creates the row again had read it.
LEMMA ReplacePreserves ==
    ASSUME SubscriptionsInv, NEW q \in Request, Replace(q) PROVE SubscriptionsInv'
<1>. USE DEF SubscriptionsInv
<1>1. Made(q) /\ req[q].pc = "cleared" /\ Target(q) \in Sub /\ req[q].body \in BodyRecord
    BY RequestTypes DEF Replace
<1>2. req[q].body.method \in {"PUT", "PATCH"} /\ req[q].instance \in Column
    BY <1>1 DEF RequestsFit, Fits, BodyRecord, InDelete
<1>3. CASE ~KanalenExist(q)
    BY <1>1, <1>3, RefuseMoves DEF Replace
<1>4. CASE KanalenExist(q)
  <2> DEFINE row == Merged(q)
  <2>1. /\ abonnement' = With(Target(q), row) /\ Finish(q, 200) /\ 200 \in Answer
        /\ groups' = [groups EXCEPT ![Target(q)] = (@ \ req[q].dropped) \cup NewGroups(q)]
        /\ kanaal' = kanaal /\ deleted' = deleted /\ changed' = changed
      BY <1>4 DEF Replace, Answer
  <2>2. Validated(req[q]) /\ groups[Target(q)] \subseteq req[q].dropped
      BY <1>1 DEF ValidatedAgrees, UpdatesSeeAll, SeesAll, Target
  <2>3. groups \in [Sub -> SUBSET Group]
      BY DEF TypeOK
  <2>4. groups'[Target(q)] = NewGroups(q) /\ \A s \in Sub \ {Target(q)} : groups'[s] = groups[s]
      BY <1>1, <2>1, <2>2, <2>3
  <2>5. row \in Column
      BY <1>2 DEF Column, Author, Merged
  <2> HIDE DEF row
  <2>6. /\ DOMAIN abonnement' = DOMAIN abonnement \cup {Target(q)}
        /\ abonnement' \in [DOMAIN abonnement' -> Column]
      BY <2>1, <2>5 DEF With, TypeOK
  <2>7. \A p \in Request \ {q} : Made(p) /\ Target(p) = Target(q) => req[p].pc \notin InUpdate
      BY <1>1 DEF UpdatesExclusive, InUpdate
  <2>8. TypeOK'
    <3>1. groups' \in [Sub -> SUBSET Group]
        BY <1>1, <1>4, <2>2, <2>3, <2>4, <2>1, NewGroupsFit
    <3>2. \A s \in Sub \ DOMAIN abonnement' : groups'[s] = {}
        BY <2>4, <2>6 DEF TypeOK
    <3>. QED
        BY <1>1, <2>1, <2>6, <3>1, <3>2, FinishFrame DEF TypeOK
  <2>9. RequestsFit' /\ UpdatesExclusive'
      BY <1>1, <2>1, FinishFits
  <2>10. UpdatesSeeAll' /\ ValidatedAgrees'
    <3>1. SeesAll(req[q])' /\ Validated(req[q])'
        BY <1>1, <2>1, FinishFrame DEF SeesAll, Validated, InUpdate
    <3>2. ASSUME NEW p \in Request \ {q}, Made(p)
          PROVE  SeesAll(req[p])' /\ Validated(req[p])'
      <4>1. SeesAll(req[p]) /\ Validated(req[p]) /\ Target(p) \in Sub
          BY <3>2, RequestTypes DEF UpdatesSeeAll, ValidatedAgrees
      <4>2. Target(p) = Target(q) => req[p].pc \notin InUpdate
          BY <2>7, <3>2
      <4>3. req'[p] = req[p]
          BY <1>1, <2>1, FinishFrame
      <4>. QED
          BY <2>1, <2>4, <4>1, <4>2, <4>3 DEF SeesAll, Validated, InUpdate, Agrees, Target
    <3>. QED
        BY <1>1, <2>1, <3>1, <3>2, FinishFrame DEF UpdatesSeeAll, ValidatedAgrees
  <2>11. PostsAlone'
    <3>1. \A p \in Request : Made(p) /\ req[p].body.method = "POST" /\ req[p].pc # "done" =>
             Target(p) # Target(q)
        BY <1>1, <1>2 DEF PostsAlone
    <3>. QED
        BY <1>1, <2>1, <2>6, <3>1, FinishFrame DEF PostsAlone
  <2>12. OneAuthor' /\ ChannelsExist' /\ GroupsAgree'
      BY <1>1, <1>4, <2>1, <2>2, <2>4, NewGroupsFit
      DEF OneAuthor, ChannelsExist, GroupsAgree, Agrees
  <2>13. DeletedKnown'
    <3> SUFFICES ASSUME NEW d \in deleted
                 PROVE  /\ \E p \in Request : Made(p)' /\ Target(p)' = d.sub /\ req'[p].pc = "done"
                        /\ Revived(d)' \/ KnownToReaders(d)'
        BY <2>1 DEF DeletedKnown
    <3>1. PICK p \in Request : Made(p) /\ Target(p) = d.sub /\ req[p].pc = "done"
        BY DEF DeletedKnown
    <3>2. Revived(d) \/ KnownToReaders(d)
        BY DEF DeletedKnown
    <3>3. Made(p)' /\ Target(p)' = d.sub /\ req'[p].pc = "done"
        BY <1>1, <2>1, <3>1, FinishFrame
    <3>4. ASSUME KnownToReaders(d), d.sub = Target(q) PROVE Revived(d)'
      <4>1. q \in d.readers
          BY <1>1, <3>4 DEF KnownToReaders
      <4>. QED
          BY <1>1, <1>2, <2>1, <4>1, FinishFrame DEF Revived
    <3>5. ASSUME KnownToReaders(d), d.sub # Target(q) PROVE KnownToReaders(d)'
        BY <1>1, <2>1, <2>6, <3>5, FinishFrame DEF KnownToReaders
    <3>. QED
        BY <1>1, <2>1, <3>2, <3>3, <3>4, <3>5, StaysRevived
  <2>. QED
      BY <2>8, <2>9, <2>10, <2>11, <2>12, <2>13
<1>. QED
    BY <1>3, <1>4

\* A subscription that goes takes its groups along, and leaves its readers.
LEMMA DestroyPreserves ==
    ASSUME SubscriptionsInv, NEW q \in Request, Destroy(q) PROVE SubscriptionsInv'
<1>. USE DEF SubscriptionsInv
<1>1. Made(q) /\ req[q].pc = "dropped" /\ Target(q) \in Sub
    BY RequestTypes DEF Destroy
<1>2. CASE ~(groups[Target(q)] \subseteq req[q].dropped)
    BY <1>1, <1>2, RefuseMoves DEF Destroy
<1>3. CASE groups[Target(q)] \subseteq req[q].dropped
  <2>0. PICK d0 : d0 = [sub |-> Target(q), readers |-> Readers(Target(q)) \ {q}]
      OBVIOUS
  <2>1. /\ abonnement' = [t \in DOMAIN abonnement \ {Target(q)} |-> abonnement[t]]
        /\ groups' = [groups EXCEPT ![Target(q)] = {}]
        /\ deleted' = deleted \cup {d0}
        /\ Finish(q, 204) /\ 204 \in Answer
        /\ kanaal' = kanaal /\ changed' = changed
      BY <1>3, <2>0 DEF Destroy, Answer
  <2>2. d0.sub = Target(q) /\ d0.readers = Readers(Target(q)) \ {q}
      BY <2>0
  <2>3. d0 \in [sub : Sub, readers : SUBSET Request]
      BY <1>1, <2>0 DEF Readers
  <2>4. groups \in [Sub -> SUBSET Group]
      BY DEF TypeOK
  <2>5. groups'[Target(q)] = {} /\ \A s \in Sub \ {Target(q)} : groups'[s] = groups[s]
      BY <1>1, <2>1, <2>4
  <2>6. /\ DOMAIN abonnement' = DOMAIN abonnement \ {Target(q)}
        /\ abonnement' \in [DOMAIN abonnement' -> Column]
      BY <2>1 DEF TypeOK
  <2>7. TypeOK'
    <3>1. groups' \in [Sub -> SUBSET Group]
        BY <2>1, <2>4
    <3>2. \A s \in Sub \ DOMAIN abonnement' : groups'[s] = {}
        BY <2>5, <2>6 DEF TypeOK
    <3>. QED
        BY <1>1, <2>1, <2>3, <2>6, <3>1, <3>2, FinishFrame DEF TypeOK
  <2>8. RequestsFit' /\ UpdatesExclusive'
      BY <1>1, <2>1, FinishFits
  <2>9. \A s \in Sub : groups'[s] \subseteq groups[s]
      BY <2>5
  <2>10. UpdatesSeeAll' /\ ValidatedAgrees'
    <3>1. SeesAll(req[q])' /\ Validated(req[q])'
        BY <1>1, <2>1, FinishFrame DEF SeesAll, Validated, InUpdate
    <3>2. ASSUME NEW p \in Request \ {q}, Made(p)
          PROVE  SeesAll(req[p])' /\ Validated(req[p])'
      <4>1. SeesAll(req[p]) /\ Validated(req[p]) /\ req[p].body.sub \in Sub
          BY <3>2, RequestTypes DEF UpdatesSeeAll, ValidatedAgrees, Target
      <4>2. req'[p] = req[p]
          BY <1>1, <2>1, FinishFrame
      <4>. QED
          BY <2>1, <2>9, <4>1, <4>2 DEF SeesAll, Validated, Agrees
    <3>. QED
        BY <1>1, <2>1, <3>1, <3>2, FinishFrame DEF UpdatesSeeAll, ValidatedAgrees
  <2>11. PostsAlone'
    <3>1. \A p \in Request : Made(p) /\ req[p].body.method = "POST" /\ req[p].pc # "done" =>
             p = q \/ Target(p) # Target(q)
        BY <1>1 DEF PostsAlone
    <3>. QED
        BY <1>1, <2>1, <2>2, <2>6, <3>1, FinishFrame DEF PostsAlone
  <2>12. OneAuthor' /\ ChannelsExist' /\ GroupsAgree'
      BY <2>1, <2>9 DEF OneAuthor, ChannelsExist, GroupsAgree, Agrees
  <2>13. DeletedKnown'
    <3>1. ASSUME NEW d \in deleted
          PROVE  /\ \E p \in Request : Made(p)' /\ Target(p)' = d.sub /\ req'[p].pc = "done"
                 /\ Revived(d)' \/ KnownToReaders(d)'
      <4>1. PICK p \in Request : Made(p) /\ Target(p) = d.sub /\ req[p].pc = "done"
          BY DEF DeletedKnown
      <4>2. Revived(d) \/ KnownToReaders(d)
          BY DEF DeletedKnown
      <4>3. Made(p)' /\ Target(p)' = d.sub /\ req'[p].pc = "done"
          BY <1>1, <2>1, <4>1, FinishFrame
      <4>4. KnownToReaders(d) => KnownToReaders(d)'
          BY <1>1, <2>1, <2>6, FinishFrame DEF KnownToReaders
      <4>. QED
          BY <1>1, <2>1, <4>2, <4>3, <4>4, StaysRevived
    <3>2. Made(q)' /\ Target(q)' = d0.sub /\ req'[q].pc = "done"
        BY <1>1, <2>1, <2>2, FinishFrame
    <3>3. KnownToReaders(d0)'
        BY <1>1, <2>1, <2>2, <2>6, FinishFrame DEF KnownToReaders, Readers
    <3>. QED
        BY <2>1, <3>1, <3>2, <3>3 DEF DeletedKnown
  <2>. QED
      BY <2>7, <2>8, <2>10, <2>11, <2>12, <2>13
<1>. QED
    BY <1>2, <1>3

\* Channels change under the requests; a group goes with its channel, and what agreed with
\* a channel that was not changed still does.
LEMMA SetKanaalPreserves ==
    ASSUME SubscriptionsInv, NEW n \in Naam, NEW keys \in SUBSET Key, SetKanaal(n, keys)
    PROVE  SubscriptionsInv'
<1>. USE DEF SubscriptionsInv
<1>1. /\ kanaal' = [m \in DOMAIN kanaal \cup {n} |-> IF m = n THEN keys ELSE kanaal[m]]
      /\ changed' = changed \cup {n}
      /\ UNCHANGED <<abonnement, groups, req, deleted>>
    BY DEF SetKanaal
<1>2. DOMAIN kanaal' = DOMAIN kanaal \cup {n}
    BY <1>1
<1>3. TypeOK'
    BY <1>1 DEF TypeOK
<1>4. \A g : Agrees(g) => Agrees(g)'
    BY <1>1, <1>2 DEF Agrees
<1>5. ValidatedAgrees' /\ GroupsAgree'
    BY <1>1, <1>4 DEF ValidatedAgrees, Validated, GroupsAgree, Made
<1>6. ChannelsExist'
    BY <1>1, <1>2 DEF ChannelsExist
<1>7. /\ RequestsFit' /\ UpdatesExclusive' /\ UpdatesSeeAll' /\ PostsAlone' /\ OneAuthor'
      /\ DeletedKnown'
    BY <1>1 DEF RequestsFit, Fits, Column, UpdatesExclusive, UpdatesSeeAll, SeesAll, PostsAlone,
       OneAuthor, DeletedKnown, Revived, KnownToReaders, Made, Target
<1>. QED
    BY <1>3, <1>5, <1>6, <1>7

\* A channel that goes takes its groups along.
LEMMA DeleteKanaalPreserves ==
    ASSUME SubscriptionsInv, NEW n \in Naam, DeleteKanaal(n) PROVE SubscriptionsInv'
<1>. USE DEF SubscriptionsInv
<1>1. /\ kanaal' = [m \in DOMAIN kanaal \ {n} |-> kanaal[m]]
      /\ groups' = [s \in Sub |-> {g \in groups[s] : g.kanaal # n}]
      /\ UNCHANGED <<abonnement, req, deleted, changed>>
    BY DEF DeleteKanaal
<1>2. DOMAIN kanaal' = DOMAIN kanaal \ {n}
    BY <1>1
<1>3. \A s \in Sub : groups'[s] = {g \in groups[s] : g.kanaal # n}
    BY <1>1
<1>4. TypeOK'
  <2>1. groups' \in [Sub -> SUBSET Group]
      BY <1>1 DEF TypeOK
  <2>. QED
      BY <1>1, <1>2, <1>3, <2>1 DEF TypeOK
<1>5. \A g : Agrees(g) => Agrees(g)'
    BY <1>1, <1>2 DEF Agrees
<1>6. ValidatedAgrees' /\ GroupsAgree'
    BY <1>1, <1>3, <1>5 DEF ValidatedAgrees, Validated, GroupsAgree, Made
<1>7. ChannelsExist' /\ OneAuthor'
    BY <1>2, <1>3 DEF ChannelsExist, OneAuthor
<1>8. UpdatesSeeAll'
  <2> SUFFICES ASSUME NEW p \in Request, Made(p) PROVE SeesAll(req[p])'
      BY <1>1 DEF UpdatesSeeAll, Made
  <2>1. SeesAll(req[p]) /\ req[p].body.sub \in Sub
      BY RequestTypes DEF UpdatesSeeAll, Target
  <2>. QED
      BY <1>1, <1>3, <2>1 DEF SeesAll
<1>9. RequestsFit' /\ UpdatesExclusive' /\ PostsAlone' /\ DeletedKnown'
    BY <1>1 DEF RequestsFit, Fits, Column, UpdatesExclusive, PostsAlone,
       DeletedKnown, Revived, KnownToReaders, Made, Target
<1>. QED
    BY <1>4, <1>6, <1>7, <1>8, <1>9

\* Nothing in the invariant is about anything but the variables.
LEMMA StutterPreserves == SubscriptionsInv /\ UNCHANGED vars => SubscriptionsInv'
BY DEF vars, SubscriptionsInv, TypeOK, RequestsFit, Fits, Column, UpdatesExclusive,
   UpdatesSeeAll, SeesAll, PostsAlone, OneAuthor, ChannelsExist, ValidatedAgrees, Validated,
   GroupsAgree, Agrees, DeletedKnown, Revived, KnownToReaders, Made, Target

\* Every step preserves the invariant.
LEMMA NextPreserves == SubscriptionsInv /\ [Next]_vars => SubscriptionsInv'
<1> SUFFICES ASSUME SubscriptionsInv, [Next]_vars PROVE SubscriptionsInv'
    OBVIOUS
<1>1. CASE \E q \in Request : Step(q)
  <2>1. PICK q \in Request : Step(q)
      BY <1>1
  <2>. QED
      BY <2>1, FetchPreserves, ProbePreserves, CheckKanalenPreserves, CreatePreserves,
         SaveRowPreserves, InsertRowPreserves, ReadGroupsPreserves, DropGroupsPreserves,
         ReplacePreserves, DestroyPreserves DEF Step
<1>2. CASE \E q \in Request : DeadlockAbort(q) \/ Crash(q)
    BY <1>2, AbortsPreserve
<1>3. CASE \E q \in Request, b \in Bodies : Receive(q, b)
    BY <1>3, ReceivePreserves
<1>4. CASE \E n \in Naam : DeleteKanaal(n) \/ \E keys \in SUBSET Key : SetKanaal(n, keys)
    BY <1>4, DeleteKanaalPreserves, SetKanaalPreserves
<1>5. CASE UNCHANGED vars
    BY <1>5, StutterPreserves
<1>. QED
    BY <1>1, <1>2, <1>3, <1>4, <1>5 DEF Next

\* So it holds in every state.
LEMMA AlwaysSubscriptions == Spec => []SubscriptionsInv
BY InitSubscriptions, NextPreserves, PTL DEF Spec
-----------------------------------------------------------------------------
\* The rows, the groups and the requests keep their shape, and a subscription that is not
\* there has no groups.
THEOREM TypeCorrect == Spec => []TypeOK
<1>1. SubscriptionsInv => TypeOK
    BY DEF SubscriptionsInv
<1>. QED
    BY <1>1, AlwaysSubscriptions, PTL

\* The filters of a subscription come from one request, whatever updates, deletions and
\* crashes come between (AbonnementSerializer.update).
THEOREM FiltersOfOneRequest == Spec => []OneAuthor
<1>1. SubscriptionsInv => OneAuthor
    BY DEF SubscriptionsInv
<1>. QED
    BY <1>1, AlwaysSubscriptions, PTL

\* As long as a channel keeps its filters, those of a subscription to it are some of them or
\* contain them all, and they go with the channel
\* (AbonnementSerializer.validate, on_delete=CASCADE).
THEOREM FiltersFitChannels == Spec => []GroupsConsistent
<1>1. SubscriptionsInv => GroupsConsistent
  <2> SUFFICES ASSUME SubscriptionsInv, NEW s \in Sub, NEW g \in groups[s],
                      g.kanaal \in Naam \ changed
               PROVE  /\ g.kanaal \in DOMAIN kanaal
                      /\ g.keys \subseteq kanaal[g.kanaal] \/ kanaal[g.kanaal] \subseteq g.keys
      BY DEF GroupsConsistent
  <2>1. g.kanaal \in DOMAIN kanaal
      BY SubscriptionAssumption DEF SubscriptionsInv, ChannelsExist
  <2>. QED
      BY <2>1 DEF SubscriptionsInv, GroupsAgree, Agrees
<1>. QED
    BY <1>1, AlwaysSubscriptions, PTL

\* A subscription whose DELETE was confirmed comes back by a request that had read it only
\* (get_object, the INSERT that Model.save falls back to).
THEOREM DeletedStaysAway == Spec => []RevivedByReader
<1>1. SubscriptionsInv => RevivedByReader
    BY DEF SubscriptionsInv, DeletedKnown, Revived, KnownToReaders, RevivedByReader
<1>. QED
    BY <1>1, AlwaysSubscriptions, PTL
-----------------------------------------------------------------------------
(* What a step leaves alone.                                               *)

Kept(s) ==
    /\ s \in DOMAIN abonnement <=> s \in DOMAIN abonnement'
    /\ s \in DOMAIN abonnement => abonnement'[s] = abonnement[s]
    /\ groups'[s] = {g \in groups[s] : g.kanaal = NoKanaal \/ g.kanaal \in DOMAIN kanaal'}

\* All groups are of channels that exist: as long as no channel goes, they stay.
LEMMA KeptAsItIs ==
    ASSUME SubscriptionsInv, NEW s \in Sub, groups'[s] = groups[s],
           DOMAIN kanaal \subseteq DOMAIN kanaal',
           s \in DOMAIN abonnement <=> s \in DOMAIN abonnement',
           s \in DOMAIN abonnement => abonnement'[s] = abonnement[s]
    PROVE  Kept(s)
BY DEF SubscriptionsInv, ChannelsExist, Kept

\* A success changes its own subscription only.
LEMMA SuccessIsLocal ==
    ASSUME SubscriptionsInv, NEW q \in Request, Create(q) \/ Replace(q) \/ Destroy(q),
           NEW s \in Sub
    PROVE  Succeeds(s) \/ Kept(s)
<1>1. /\ req[q].pc \in {"valid", "cleared", "dropped"} /\ Made(q) /\ Target(q) \in Sub
    BY RequestTypes DEF SubscriptionsInv, Create, Replace, Destroy
<1>2. CASE UNCHANGED <<kanaal, abonnement, groups>>
    BY <1>2, KeptAsItIs
<1>3. CASE /\ \E code \in {200, 201, 204} : Finish(q, code)
           /\ kanaal' = kanaal
           /\ \A t \in Sub \ {Target(q)} :
                 /\ groups'[t] = groups[t]
                 /\ t \in DOMAIN abonnement <=> t \in DOMAIN abonnement'
                 /\ t \in DOMAIN abonnement => abonnement'[t] = abonnement[t]
  <2>1. PICK code \in {200, 201, 204} : Finish(q, code)
      BY <1>3
  <2>2. code \in Answer
      BY DEF Answer
  <2>3. req[q].answer = 0 /\ req'[q].answer = code
      BY <1>1, <2>1, <2>2, FinishFrame DEF SubscriptionsInv, RequestsFit, Fits
  <2>4. s = Target(q) => Succeeds(s)
      BY <1>1, <2>3 DEF Succeeds
  <2>5. s # Target(q) => Kept(s)
      BY <1>3, KeptAsItIs
  <2>. QED
      BY <2>4, <2>5
<1>4. groups \in [Sub -> SUBSET Group]
    BY DEF SubscriptionsInv, TypeOK
<1>5. CASE Create(q)
  <2> DEFINE row == [f \in Field |-> q]
  <2>1. CASE ~KanalenExist(q)
      BY <1>2, <1>5, <2>1 DEF Create, Refuse
  <2>2. CASE KanalenExist(q)
    <3>1. /\ Finish(q, 201) /\ kanaal' = kanaal /\ abonnement' = With(Target(q), row)
          /\ groups' = [groups EXCEPT ![Target(q)] = NewGroups(q)]
        BY <1>5, <2>2 DEF Create
    <3> HIDE DEF row
    <3>. QED
        BY <1>1, <1>3, <1>4, <3>1 DEF With
  <2>. QED
      BY <2>1, <2>2
<1>6. CASE Replace(q)
  <2>1. CASE ~KanalenExist(q)
      BY <1>2, <1>6, <2>1 DEF Replace, Refuse
  <2>2. CASE KanalenExist(q)
    <3>1. /\ Finish(q, 200) /\ kanaal' = kanaal /\ abonnement' = With(Target(q), Merged(q))
          /\ groups' = [groups EXCEPT ![Target(q)] = (@ \ req[q].dropped) \cup NewGroups(q)]
        BY <1>6, <2>2 DEF Replace
    <3>. QED
        BY <1>1, <1>3, <1>4, <3>1 DEF With
  <2>. QED
      BY <2>1, <2>2
<1>7. CASE Destroy(q)
  <2>1. CASE ~(groups[Target(q)] \subseteq req[q].dropped)
      BY <1>2, <1>7, <2>1 DEF Destroy, Refuse
  <2>2. CASE groups[Target(q)] \subseteq req[q].dropped
    <3>1. /\ Finish(q, 204) /\ kanaal' = kanaal
          /\ abonnement' = [t \in DOMAIN abonnement \ {Target(q)} |-> abonnement[t]]
          /\ groups' = [groups EXCEPT ![Target(q)] = {}]
        BY <1>7, <2>2 DEF Destroy
    <3>. QED
        BY <1>1, <1>3, <1>4, <3>1
  <2>. QED
      BY <2>1, <2>2
<1>. QED
    BY <1>5, <1>6, <1>7

Writes(q) == Create(q) \/ Replace(q) \/ Destroy(q)

\* All other steps of requests change no table.
LEMMA OthersWriteNothing ==
    ASSUME NEW q \in Request, ~Writes(q),
           Step(q) \/ DeadlockAbort(q) \/ Crash(q) \/ \E b \in Bodies : Receive(q, b)
    PROVE  UNCHANGED tables
BY DEF Writes, Step, Fetch, Probe, CheckKanalen, SaveRow, InsertRow, ReadGroups, DropGroups,
   DeadlockAbort, Crash, Receive, Refuse, tables

\* So a step changes the subscriptions that one request succeeds on, or goes with a channel.
LEMMA StepsLeaveNoTrace ==
    ASSUME SubscriptionsInv, [Next]_vars, NEW s \in Sub PROVE Succeeds(s) \/ Kept(s)
<1>1. CASE UNCHANGED tables \/ UNCHANGED vars
    BY <1>1, KeptAsItIs DEF tables, vars
<1>2. CASE \E q \in Request : Writes(q)
    BY <1>2, SuccessIsLocal DEF Writes
<1>3. CASE \E q \in Request : /\ ~Writes(q)
                              /\ \/ Step(q) \/ DeadlockAbort(q) \/ Crash(q)
                                 \/ \E b \in Bodies : Receive(q, b)
    BY <1>1, <1>3, OthersWriteNothing
<1>4. CASE \E n \in Naam : \E keys \in SUBSET Key : SetKanaal(n, keys)
  <2>1. DOMAIN kanaal \subseteq DOMAIN kanaal' /\ UNCHANGED <<abonnement, groups>>
      BY <1>4 DEF SetKanaal
  <2>. QED
      BY <2>1, KeptAsItIs
<1>5. CASE \E n \in Naam : DeleteKanaal(n)
  <2>1. PICK n \in Naam : DeleteKanaal(n)
      BY <1>5
  <2>2. /\ DOMAIN kanaal' = DOMAIN kanaal \ {n} /\ abonnement' = abonnement
        /\ groups'[s] = {g \in groups[s] : g.kanaal # n}
      BY <2>1 DEF DeleteKanaal
  <2>3. n # NoKanaal /\ \A g \in groups[s] : g.kanaal \in {NoKanaal} \cup DOMAIN kanaal
      BY SubscriptionAssumption DEF SubscriptionsInv, ChannelsExist
  <2>. QED
      BY <2>2, <2>3 DEF Kept
<1>. QED
    BY <1>1, <1>2, <1>3, <1>4, <1>5 DEF Next

\* A subscription changes with the success of one request on it, or with a channel; a
\* request that fails, at whatever statement, leaves no trace (transaction.atomic).
THEOREM NoTraceOfFailures == Spec => FailureLeavesNoTrace
<1>1. SubscriptionsInv /\ [Next]_vars =>
         [\A s \in Sub :
             \/ Succeeds(s)
             \/ /\ s \in DOMAIN abonnement <=> s \in DOMAIN abonnement'
                /\ s \in DOMAIN abonnement => abonnement'[s] = abonnement[s]
                /\ groups'[s] = {g \in groups[s] : g.kanaal = NoKanaal
                                                   \/ g.kanaal \in DOMAIN kanaal'}]_vars
    BY StepsLeaveNoTrace DEF Kept
<1>. QED
    BY <1>1, AlwaysSubscriptions, PTL DEF Spec, FailureLeavesNoTrace
-----------------------------------------------------------------------------
(* Whole bodies: the row and the filters of a subscription are of one      *)
(* request.                                                                *)

\* PUT names every column (PATCH need not).
WholeBodies == \A b \in Bodies : b.method = "PUT" => b.fields = Field

BodiesMade == \A q \in Request : Made(q) => req[q].body \in Bodies

\* A request keeps its body.
LEMMA BodyKept ==
    ASSUME SubscriptionsInv, NEW q \in Request, Step(q) \/ DeadlockAbort(q) \/ Crash(q)
    PROVE  \A p \in Request : (Made(p)' <=> Made(p)) /\ req'[p].body = req[p].body
<1>1. Made(q) /\ req[q] \in ReqRecord
  <2>1. Step(q) => req[q].pc # "idle"
      BY DEF Step, Fetch, Probe, CheckKanalen, Create, SaveRow, InsertRow, ReadGroups,
         DropGroups, Replace, Destroy
  <2>. QED
      BY <2>1, RequestTypes DEF SubscriptionsInv, DeadlockAbort, Deadlocked, Crash
<1>2. req \in [Request -> ReqRecord \cup {NoRequest}]
    BY DEF SubscriptionsInv, TypeOK
<1>3. ASSUME NEW r, req' = [req EXCEPT ![q] = r], r.body = req[q].body, r.pc # "idle"
      PROVE  \A p \in Request : (Made(p)' <=> Made(p)) /\ req'[p].body = req[p].body
    BY <1>1, <1>2, <1>3 DEF Made, NoRequest
<1>4. CASE \E code \in Answer : Finish(q, code)
  <2>1. PICK code \in Answer : Finish(q, code)
      BY <1>4
  <2> DEFINE r == Finished(req[q], code)
  <2>2. req' = [req EXCEPT ![q] = r] /\ r.body = req[q].body /\ r.pc # "idle"
      BY <1>1, <2>1, FinishedIsRecord DEF Finish, Finished
  <2> HIDE DEF r
  <2>. QED
      BY <1>3, <2>2
<1>5. CASE \E pc \in Place : Goto(q, pc)
  <2>1. PICK pc \in Place : Goto(q, pc)
      BY <1>5
  <2> DEFINE r == [req[q] EXCEPT !.pc = pc]
  <2>2. req' = [req EXCEPT ![q] = r] /\ r.body = req[q].body /\ r.pc # "idle"
      BY <1>1, <2>1 DEF Goto, ReqRecord, Place, Pending, InUpdate, InDelete
  <2> HIDE DEF r
  <2>. QED
      BY <1>3, <2>2
<1>6. CASE Fetch(q) /\ Target(q) \in DOMAIN abonnement
  <2> DEFINE r == [req[q] EXCEPT !.pc = "fetched", !.instance = abonnement[Target(q)]]
  <2>1. req' = [req EXCEPT ![q] = r] /\ r.body = req[q].body /\ r.pc # "idle"
      BY <1>1, <1>6 DEF Fetch, ReqRecord
  <2> HIDE DEF r
  <2>. QED
      BY <1>3, <2>1
<1>7. CASE ReadGroups(q)
  <2> DEFINE place == IF req[q].pc = "saved" THEN "read" ELSE "collected"
             r == [req[q] EXCEPT !.pc = place, !.seen = Old(q)]
  <2>1. req' = [req EXCEPT ![q] = r] /\ r.body = req[q].body /\ r.pc # "idle"
      BY <1>1, <1>7 DEF ReadGroups, ReqRecord
  <2> HIDE DEF r
  <2>. QED
      BY <1>3, <2>1
<1>8. CASE DropGroups(q)
  <2> DEFINE place == IF req[q].pc = "read" THEN "cleared" ELSE "dropped"
             r == [req[q] EXCEPT !.pc = place, !.dropped = req[q].seen \cap groups[Target(q)]]
  <2>1. req' = [req EXCEPT ![q] = r] /\ r.body = req[q].body /\ r.pc # "idle"
      BY <1>1, <1>8 DEF DropGroups, ReqRecord
  <2> HIDE DEF r
  <2>. QED
      BY <1>3, <2>1
<1>9. {200, 201, 204, 400, 404, 500} \subseteq Answer
      /\ {"probed", "valid", "saved", "inserting"} \subseteq Place
    BY DEF Answer, Place, Pending, InUpdate
<1>10. \A code : Refuse(q, code) => Finish(q, code)
    BY DEF Refuse
<1>11. DeadlockAbort(q) \/ Crash(q) => Refuse(q, 500)
    BY DEF DeadlockAbort, Crash
<1>12. Probe(q) \/ CheckKanalen(q) =>
          Refuse(q, 400) \/ Goto(q, "probed") \/ Goto(q, "valid")
    BY DEF Probe, CheckKanalen
<1>13. SaveRow(q) \/ InsertRow(q) =>
          Refuse(q, 500) \/ Goto(q, "saved") \/ Goto(q, "inserting")
    BY DEF SaveRow, InsertRow
<1>14. Writes(q) => Refuse(q, 500) \/ Finish(q, 200) \/ Finish(q, 201) \/ Finish(q, 204)
    BY DEF Writes, Create, Replace, Destroy
<1>15. Fetch(q) => Refuse(q, 404) \/ Target(q) \in DOMAIN abonnement
    BY DEF Fetch
<1>. QED
    BY <1>4, <1>5, <1>6, <1>7, <1>8, <1>9, <1>10, <1>11, <1>12, <1>13, <1>14, <1>15
    DEF Step, Writes

\* Every body is one of those that are sent.
LEMMA BodiesMadeKept ==
    ASSUME SubscriptionsInv, BodiesMade, [Next]_vars PROVE BodiesMade'
<1>1. CASE \E q \in Request : Step(q) \/ DeadlockAbort(q) \/ Crash(q)
    BY <1>1, BodyKept DEF BodiesMade
<1>2. CASE \E q \in Request, b \in Bodies : Receive(q, b)
  <2>1. PICK q \in Request, b \in Bodies : Receive(q, b)
      BY <1>2
  <2>2. req \in [Request -> ReqRecord \cup {NoRequest}]
      BY DEF SubscriptionsInv, TypeOK
  <2>. QED
      BY <2>1, <2>2 DEF BodiesMade, Made, Receive
<1>3. CASE UNCHANGED req
    BY <1>3 DEF BodiesMade, Made
<1>4. (\E n \in Naam : DeleteKanaal(n) \/ \E keys \in SUBSET Key : SetKanaal(n, keys))
      \/ UNCHANGED vars => UNCHANGED req
    BY DEF DeleteKanaal, SetKanaal, vars
<1>. QED
    BY <1>1, <1>2, <1>3, <1>4 DEF Next

Whole(s) == \A f, h \in Field : /\ abonnement[s][f] = abonnement[s][h]
                                /\ \A g \in groups[s] : g.by = abonnement[s][f]
NoPatch == \A q \in Request : Made(q) => req[q].body.method # "PATCH"

\* What a request writes is of that request alone.
LEMMA WritesWhole ==
    ASSUME SubscriptionsInv, WholeBodies, BodiesMade, NoPatch,
           NEW q \in Request, Writes(q), \A s \in DOMAIN abonnement : Whole(s)
    PROVE  \A s \in DOMAIN abonnement' : Whole(s)'
<1>. USE DEF SubscriptionsInv
<1>1. /\ Made(q) /\ Target(q) \in Sub /\ req[q].body \in BodyRecord
    BY RequestTypes DEF Writes, Create, Replace, Destroy
<1>2. groups \in [Sub -> SUBSET Group] /\ DOMAIN abonnement \subseteq Sub
    BY DEF TypeOK
<1>3. \A g \in NewGroups(q) : g.by = q
    BY DEF NewGroups
<1>4. CASE UNCHANGED <<abonnement, groups>>
    BY <1>4 DEF Whole
<1>5. CASE \E row : /\ abonnement' = With(Target(q), row) /\ \A f \in Field : row[f] = q
                    /\ groups' = [groups EXCEPT ![Target(q)] = NewGroups(q)]
  <2>1. PICK row : /\ abonnement' = With(Target(q), row) /\ \A f \in Field : row[f] = q
                   /\ groups' = [groups EXCEPT ![Target(q)] = NewGroups(q)]
      BY <1>5
  <2>2. PICK t \in Sub : t = Target(q)
      BY <1>1
  <2>3. /\ DOMAIN abonnement' = DOMAIN abonnement \cup {t}
        /\ \A f \in Field : abonnement'[t][f] = q
        /\ \A g \in groups'[t] : g.by = q
        /\ \A s \in DOMAIN abonnement \ {t} :
              abonnement'[s] = abonnement[s] /\ groups'[s] = groups[s]
      BY <1>2, <1>3, <2>1, <2>2 DEF With
  <2>4. Whole(t)'
      BY <2>3 DEF Whole
  <2>5. \A s \in DOMAIN abonnement \ {t} : Whole(s)'
      BY <2>3 DEF Whole
  <2>. QED
      BY <2>3, <2>4, <2>5
<1>6. CASE Create(q)
  <2>1. CASE ~KanalenExist(q)
      BY <1>4, <1>6, <2>1 DEF Create, Refuse
  <2>2. CASE KanalenExist(q)
    <3> DEFINE row == [f \in Field |-> q]
    <3>1. /\ abonnement' = With(Target(q), row) /\ \A f \in Field : row[f] = q
          /\ groups' = [groups EXCEPT ![Target(q)] = NewGroups(q)]
        BY <1>6, <2>2 DEF Create
    <3> HIDE DEF row
    <3>. QED
        BY <1>5, <3>1
  <2>. QED
      BY <2>1, <2>2
<1>7. CASE Replace(q)
  <2>1. CASE ~KanalenExist(q)
      BY <1>4, <1>7, <2>1 DEF Replace, Refuse
  <2>2. CASE KanalenExist(q)
    <3>1. req[q].pc = "cleared"
        BY <1>7 DEF Replace
    <3>2. req[q].body.method \in {"PUT", "PATCH"} /\ groups[Target(q)] \subseteq req[q].dropped
        BY <1>1, <3>1 DEF RequestsFit, Fits, BodyRecord, InDelete, UpdatesSeeAll, SeesAll, Target
    <3>3. req[q].body.fields = Field
        BY <1>1, <3>2 DEF NoPatch, WholeBodies, BodiesMade
    <3>4. \A f \in Field : Merged(q)[f] = q
        BY <3>3 DEF Merged
    <3>5. /\ abonnement' = With(Target(q), Merged(q))
          /\ groups' = [groups EXCEPT ![Target(q)] = (@ \ req[q].dropped) \cup NewGroups(q)]
        BY <1>7, <2>2 DEF Replace
    <3>6. groups' = [groups EXCEPT ![Target(q)] = NewGroups(q)]
        BY <1>1, <1>2, <3>2, <3>5
    <3>. QED
        BY <1>5, <3>4, <3>5, <3>6
  <2>. QED
      BY <2>1, <2>2
<1>8. CASE Destroy(q)
  <2>1. CASE ~(groups[Target(q)] \subseteq req[q].dropped)
      BY <1>4, <1>8, <2>1 DEF Destroy, Refuse
  <2>2. CASE groups[Target(q)] \subseteq req[q].dropped
    <3>1. /\ abonnement' = [t \in DOMAIN abonnement \ {Target(q)} |-> abonnement[t]]
          /\ groups' = [groups EXCEPT ![Target(q)] = {}]
        BY <1>8, <2>2 DEF Destroy
    <3>2. /\ DOMAIN abonnement' = DOMAIN abonnement \ {Target(q)}
          /\ \A s \in DOMAIN abonnement' :
                abonnement'[s] = abonnement[s] /\ groups'[s] = groups[s]
        BY <1>1, <1>2, <3>1
    <3>. QED
        BY <3>2 DEF Whole
  <2>. QED
      BY <2>1, <2>2
<1>. QED
    BY <1>6, <1>7, <1>8 DEF Writes

\* No step tears a subscription, as long as nobody has sent a PATCH.
LEMMA UntornKept ==
    ASSUME SubscriptionsInv, WholeBodies, BodiesMade, Untorn, [Next]_vars PROVE Untorn'
<1> SUFFICES ASSUME NoPatch' PROVE \A s \in DOMAIN abonnement' : Whole(s)'
    BY DEF Untorn, NoPatch, Whole
<1>1. NoPatch
  <2>1. CASE \E q \in Request, b \in Bodies : Receive(q, b)
      BY <2>1 DEF Receive, NoPatch, Made, SubscriptionsInv, TypeOK
  <2>2. CASE \E q \in Request : Step(q) \/ DeadlockAbort(q) \/ Crash(q)
    <3>1. PICK q \in Request : Step(q) \/ DeadlockAbort(q) \/ Crash(q)
        BY <2>2
    <3>2. \A p \in Request : Made(p) => Made(p)' /\ req'[p].body = req[p].body
        BY <3>1, BodyKept
    <3>. QED
        BY <3>2 DEF NoPatch
  <2>3. CASE UNCHANGED req
      BY <2>3 DEF NoPatch, Made
  <2>4. (\E n \in Naam : DeleteKanaal(n) \/ \E keys \in SUBSET Key : SetKanaal(n, keys))
        \/ UNCHANGED vars => UNCHANGED req
      BY DEF DeleteKanaal, SetKanaal, vars
  <2>. QED
      BY <2>1, <2>2, <2>3, <2>4 DEF Next
<1>2. \A s \in DOMAIN abonnement : Whole(s)
    BY <1>1 DEF Untorn, NoPatch, Whole
<1>3. CASE \E q \in Request : Writes(q)
    BY <1>1, <1>2, <1>3, WritesWhole
<1>4. CASE UNCHANGED abonnement /\ \A s \in Sub : groups'[s] \subseteq groups[s]
    BY <1>2, <1>4 DEF Whole, SubscriptionsInv, TypeOK
<1>5. UNCHANGED <<abonnement, groups>> =>
         UNCHANGED abonnement /\ \A s \in Sub : groups'[s] \subseteq groups[s]
    OBVIOUS
<1>6. CASE \E q \in Request : /\ ~Writes(q)
                              /\ \/ Step(q) \/ DeadlockAbort(q) \/ Crash(q)
                                 \/ \E b \in Bodies : Receive(q, b)
    BY <1>4, <1>5, <1>6, OthersWriteNothing DEF tables
<1>7. CASE \E n \in Naam : DeleteKanaal(n) \/ \E keys \in SUBSET Key : SetKanaal(n, keys)
  <2>1. UNCHANGED abonnement /\ \A s \in Sub : groups'[s] \subseteq groups[s]
      BY <1>7 DEF DeleteKanaal, SetKanaal
  <2>. QED
      BY <1>4, <2>1
<1>8. CASE UNCHANGED vars
    BY <1>4, <1>5, <1>8 DEF vars
<1>. QED
    BY <1>3, <1>6, <1>7, <1>8 DEF Next

\* As long as subscribers send whole bodies, the callback, the credentials and the filters
\* of a subscription are of one request (Model.save, AbonnementSerializer.update).
THEOREM SubscriptionsAreWhole == ASSUME WholeBodies PROVE Spec => []Untorn
<1>1. Init => BodiesMade /\ Untorn
  <2> SUFFICES ASSUME Init PROVE BodiesMade /\ Untorn
      OBVIOUS
  <2>1. BodiesMade
      BY DEF Init, BodiesMade, Made
  <2>2. \A s \in Sub : \A g \in groups[s] : g.by = Initial
      BY DEF Init
  <2>3. Untorn
      BY <2>2, SubscriptionAssumption DEF Init, Untorn
  <2>. QED
      BY <2>1, <2>3
<1>2. SubscriptionsInv /\ BodiesMade /\ Untorn /\ [Next]_vars => BodiesMade' /\ Untorn'
    BY BodiesMadeKept, UntornKept
<1>. QED
    BY <1>1, <1>2, AlwaysSubscriptions, PTL DEF Spec
-----------------------------------------------------------------------------
(* Requests of several statements implement those of one step.             *)

\* What clients see of a step that moves one request.
LEMMA ClientMoves ==
    ASSUME TypeOK, NEW q \in Request, NEW r, req' = [req EXCEPT ![q] = r]
    PROVE  client' = [client EXCEPT ![q] = View(r)]
<1>1. req'[q] = r /\ \A p \in Request \ {q} : req'[p] = req[p]
    BY DEF TypeOK
<1>2. client' = [p \in Request |-> View(req'[p])]
    BY DEF client, View, NoRequest, Stage
<1>3. \A p \in Request : client[p] = View(req[p])
    BY DEF client
<1>4. client = [p \in Request |-> client[p]]
    BY DEF client
<1>. QED
    BY <1>1, <1>2, <1>3, <1>4

\* A client that waits.
LEMMA ClientIs ==
    ASSUME TypeOK, NEW q \in Request, Made(q)
    PROVE  /\ client[q] = [stage |-> Stage(req[q].pc), body |-> req[q].body,
                           instance |-> req[q].instance, answer |-> req[q].answer]
       /\ client[q].stage = Stage(req[q].pc) /\ client[q].body = req[q].body
       /\ client[q].instance = req[q].instance
<1>1. client[q] = [stage |-> Stage(req[q].pc), body |-> req[q].body,
                   instance |-> req[q].instance, answer |-> req[q].answer]
    BY DEF client, View, Made
<1>. QED
    BY <1>1

\* A request that goes on keeps what its client sees, until it reads or is answered.
LEMMA ClientStays ==
    ASSUME TypeOK, NEW q \in Request, Made(q), NEW r, req' = [req EXCEPT ![q] = r],
           r.pc # "idle", Stage(r.pc) = Stage(req[q].pc), r.body = req[q].body,
           r.instance = req[q].instance, r.answer = req[q].answer
    PROVE  UNCHANGED client
<1>1. r # NoRequest
    BY DEF NoRequest
<1>2. View(r) = client[q]
    BY <1>1, ClientIs DEF View
<1>3. client' = [client EXCEPT ![q] = View(r)]
    BY ClientMoves
<1>4. client = [p \in Request |-> client[p]]
    BY DEF client
<1>. QED
    BY <1>2, <1>3, <1>4

\* An answer.
LEMMA ClientAnswered ==
    ASSUME TypeOK, NEW q \in Request, Made(q), NEW code \in Answer, Finish(q, code)
    PROVE  Contract!Answer(q, code)
<1> DEFINE r == Finished(req[q], code)
<1>1. req[q] \in ReqRecord
    BY RequestTypes
<1>2. req' = [req EXCEPT ![q] = r]
    BY DEF Finish, Finished
<1>3. /\ r.pc = "done" /\ r.body = req[q].body /\ r.instance = <<>> /\ r.answer = code
    BY <1>1 DEF Finished, ReqRecord
<1>4. r # NoRequest
    BY <1>3 DEF NoRequest
<1> HIDE DEF r
<1>5. View(r) = [stage |-> "answered", body |-> req[q].body, instance |-> <<>>, answer |-> code]
    BY <1>3, <1>4 DEF View, Stage
<1>6. client' = [client EXCEPT ![q] = View(r)]
    BY <1>2, ClientMoves
<1>7. client[q].body = req[q].body
    BY ClientIs
<1>. QED
    BY <1>5, <1>6, <1>7 DEF Contract!Answer, Contract!Client, Contract!Wants

\* What the contract does or does not see.
Implemented == Contract!Next \/ UNCHANGED Contract!vars

\* How far a request is, seen from its client.
LEMMA Stages ==
    ASSUME TypeOK, NEW q \in Request, Made(q)
    PROVE  /\ Contract!Wants(q) = req[q].body /\ Contract!On(q) = Target(q)
           /\ client[q].stage = "answered" <=> req[q].pc = "done"
           /\ client[q].stage = "asked" <=> req[q].pc = "received"
           /\ client[q].stage = "ready" <=> req[q].pc \notin {"received", "done"}
BY ClientIs DEF Stage, Contract!Wants, Contract!On, Target

\* A request that is refused, that fails or that dies has done nothing.
LEMMA RefuseImplements ==
    ASSUME SubscriptionsInv, NEW q \in Request, Made(q), req[q].pc # "done",
           NEW code, Refuse(q, code),
           \/ code = 500
           \/ code = 400 /\ req[q].pc # "received" /\ req[q].body.method # "DELETE"
           \/ code = 404 /\ req[q].pc = "received" /\ Target(q) \notin DOMAIN abonnement
    PROVE  Implemented
<1>1. TypeOK /\ code \in Answer /\ Finish(q, code) /\ UNCHANGED <<kanaal, abonnement, groups>>
    BY DEF SubscriptionsInv, Answer, Refuse
<1>2. Contract!Answer(q, code)
    BY <1>1, ClientAnswered
<1>3. Contract!Refuse(q)
    BY <1>1, <1>2, Stages DEF Contract!Refuse
<1>. QED
    BY <1>3 DEF Implemented, Contract!Next

\* A request that goes on does nothing that others see.
LEMMA GotoImplements ==
    ASSUME SubscriptionsInv, NEW q \in Request, Made(q), req[q].pc \notin {"received", "done"},
           NEW pc \in Place \ {"received", "done"}, Goto(q, pc),
           UNCHANGED <<kanaal, abonnement, groups>>
    PROVE  Implemented
<1> DEFINE r == [req[q] EXCEPT !.pc = pc]
<1>1. TypeOK /\ req[q] \in ReqRecord
    BY RequestTypes DEF SubscriptionsInv
<1>2. req' = [req EXCEPT ![q] = r]
    BY DEF Goto
<1>3. /\ r.pc = pc /\ r.body = req[q].body /\ r.instance = req[q].instance
      /\ r.answer = req[q].answer
    BY <1>1 DEF ReqRecord
<1> HIDE DEF r
<1>4. r.pc # "idle" /\ Stage(r.pc) = Stage(req[q].pc)
    BY <1>3 DEF Stage, Place, Pending, InUpdate, InDelete
<1>5. UNCHANGED client
    BY <1>1, <1>2, <1>3, <1>4, ClientStays
<1>. QED
    BY <1>5 DEF Implemented, Contract!vars

\* A new request.
LEMMA ReceiveImplements ==
    ASSUME SubscriptionsInv, NEW q \in Request, NEW b \in Bodies, Receive(q, b)
    PROVE  Implemented
<1> DEFINE r == [pc |-> IF b.method = "POST" THEN "fetched" ELSE "received", body |-> b,
                 instance |-> <<>>, seen |-> {}, dropped |-> {}, answer |-> 0]
           stage == IF b.method = "POST" THEN "ready" ELSE "asked"
<1>1. TypeOK /\ req' = [req EXCEPT ![q] = r] /\ req[q] = NoRequest
      /\ UNCHANGED <<kanaal, abonnement, groups>>
    BY DEF SubscriptionsInv, Receive, Made
<1>2. client[q] = [stage |-> "unmade"]
    BY <1>1 DEF client, View
<1>3. /\ Stage(r.pc) = stage /\ r.pc # "idle"
      /\ r.body = b /\ r.instance = <<>> /\ r.answer = 0
    BY DEF Stage
<1> HIDE DEF r
<1>4. View(r) = [stage |-> stage, body |-> b, instance |-> <<>>, answer |-> 0]
    BY <1>3 DEF View, NoRequest
<1>5. client' = [client EXCEPT ![q] = View(r)]
    BY <1>1, ClientMoves
<1>6. Contract!Ask(q, b)
    BY <1>1, <1>2, <1>4, <1>5 DEF Contract!Ask, Contract!Client, Contract!Unmade
<1>. QED
    BY <1>6 DEF Implemented, Contract!Next

\* A request reads its row, or there is none.
LEMMA FetchImplements ==
    ASSUME SubscriptionsInv, NEW q \in Request, Fetch(q) PROVE Implemented
<1>1. TypeOK /\ Made(q) /\ req[q] \in ReqRecord /\ req[q].pc = "received" /\ req[q].answer = 0
    BY RequestTypes DEF SubscriptionsInv, RequestsFit, Fits, Fetch
<1>2. CASE Target(q) \notin DOMAIN abonnement
    BY <1>1, <1>2, RefuseImplements DEF Fetch
<1>3. CASE Target(q) \in DOMAIN abonnement
  <2> DEFINE r == [req[q] EXCEPT !.pc = "fetched", !.instance = abonnement[Target(q)]]
  <2>1. req' = [req EXCEPT ![q] = r] /\ UNCHANGED <<kanaal, abonnement, groups>>
      BY <1>3 DEF Fetch
  <2>2. r.pc = "fetched" /\ r.body = req[q].body /\ r.instance = abonnement[Target(q)]
        /\ r.answer = 0
      BY <1>1 DEF ReqRecord
  <2> HIDE DEF r
  <2>3. r # NoRequest /\ Stage(r.pc) = "ready"
      BY <2>2 DEF NoRequest, Stage
  <2>4. View(r) = Contract!Client("ready", req[q].body, abonnement[Target(q)], 0)
      BY <2>2, <2>3 DEF View, Contract!Client
  <2>5. client' = [client EXCEPT ![q] = View(r)]
      BY <1>1, <2>1, ClientMoves
  <2>6. Contract!Read(q)
      BY <1>1, <1>3, <2>1, <2>4, <2>5, Stages DEF Contract!Read
  <2>. QED
      BY <2>6 DEF Implemented, Contract!Next
<1>. QED
    BY <1>2, <1>3

\* What is read before a deletion, and what a transaction deletes before it commits, nobody
\* sees.
LEMMA GroupsImplement ==
    ASSUME SubscriptionsInv, NEW q \in Request, ReadGroups(q) \/ DropGroups(q)
    PROVE  Implemented
<1>1. TypeOK /\ req[q].pc \in {"saved", "fetched", "read", "collected"}
      /\ UNCHANGED <<kanaal, abonnement, groups>>
    BY DEF SubscriptionsInv, ReadGroups, DropGroups
<1>2. Made(q) /\ req[q] \in ReqRecord
    BY <1>1, RequestTypes
<1>3. \E r : /\ req' = [req EXCEPT ![q] = r] /\ r.pc \in {"read", "collected", "cleared", "dropped"}
             /\ r.body = req[q].body /\ r.instance = req[q].instance /\ r.answer = req[q].answer
  <2>1. CASE ReadGroups(q)
    <3> DEFINE place == IF req[q].pc = "saved" THEN "read" ELSE "collected"
               r == [req[q] EXCEPT !.pc = place, !.seen = Old(q)]
    <3>1. /\ req' = [req EXCEPT ![q] = r] /\ r.pc \in {"read", "collected", "cleared", "dropped"}
          /\ r.body = req[q].body /\ r.instance = req[q].instance /\ r.answer = req[q].answer
        BY <1>2, <2>1 DEF ReadGroups, ReqRecord
    <3>. QED
        BY <3>1
  <2>2. CASE DropGroups(q)
    <3> DEFINE place == IF req[q].pc = "read" THEN "cleared" ELSE "dropped"
               r == [req[q] EXCEPT !.pc = place, !.dropped = req[q].seen \cap groups[Target(q)]]
    <3>1. /\ req' = [req EXCEPT ![q] = r] /\ r.pc \in {"read", "collected", "cleared", "dropped"}
          /\ r.body = req[q].body /\ r.instance = req[q].instance /\ r.answer = req[q].answer
        BY <1>2, <2>2 DEF DropGroups, ReqRecord
    <3>. QED
        BY <3>1
  <2>. QED
      BY <2>1, <2>2
<1>4. UNCHANGED client
  <2>1. PICK r : /\ req' = [req EXCEPT ![q] = r]
                 /\ r.pc \in {"read", "collected", "cleared", "dropped"}
                 /\ r.body = req[q].body /\ r.instance = req[q].instance
                 /\ r.answer = req[q].answer
      BY <1>3
  <2>2. r.pc # "idle" /\ Stage(r.pc) = Stage(req[q].pc)
      BY <1>1, <2>1 DEF Stage
  <2>. QED
      BY <1>1, <1>2, <2>1, <2>2, ClientStays
<1>. QED
    BY <1>1, <1>4 DEF Implemented, Contract!vars

\* What is written at once is what the body asks for, on channels that there are.
LEMMA WriteImplements ==
    ASSUME TypeOK, NEW q \in Request, Made(q), KanalenExist(q), NEW row,
           abonnement' = With(Target(q), row), UNCHANGED kanaal,
           groups' = [groups EXCEPT ![Target(q)] = NewGroups(q)]
    PROVE  Contract!Write(q, row)
<1>1. Contract!Wants(q) = req[q].body /\ Contract!On(q) = Target(q)
    BY Stages
<1>2. Contract!Filters(q) = NewGroups(q)
    BY <1>1 DEF Contract!Filters, NewGroups
<1>. QED
    BY <1>1, <1>2 DEF Contract!Write, KanalenExist, With

\* The subscription of a POST is not there before.
LEMMA CreateImplements ==
    ASSUME SubscriptionsInv, NEW q \in Request, Create(q) PROVE Implemented
<1>1. TypeOK /\ Made(q) /\ req[q].pc = "valid" /\ req[q].body.method = "POST"
    BY RequestTypes DEF SubscriptionsInv, Create
<1>2. CASE ~KanalenExist(q)
    BY <1>1, <1>2, RefuseImplements DEF Create
<1>3. CASE KanalenExist(q)
  <2> DEFINE row == [f \in Field |-> q]
  <2>1. /\ abonnement' = With(Target(q), row) /\ Finish(q, 201) /\ UNCHANGED kanaal
        /\ groups' = [groups EXCEPT ![Target(q)] = NewGroups(q)]
      BY <1>3 DEF Create
  <2>2. Target(q) \notin DOMAIN abonnement
      BY <1>1 DEF SubscriptionsInv, PostsAlone
  <2> HIDE DEF row
  <2>3. Contract!Write(q, row)
      BY <1>1, <1>3, <2>1, WriteImplements
  <2>4. Contract!Answer(q, 201)
      BY <1>1, <2>1, ClientAnswered DEF Answer
  <2>5. Contract!Create(q)
      BY <1>1, <2>2, <2>3, <2>4, Stages DEF Contract!Create, row
  <2>. QED
      BY <2>5 DEF Implemented, Contract!Next
<1>. QED
    BY <1>2, <1>3

\* An update has deleted every group there is, so what it creates are the only ones.
LEMMA ReplaceImplements ==
    ASSUME SubscriptionsInv, NEW q \in Request, Replace(q) PROVE Implemented
<1>1. /\ TypeOK /\ Made(q) /\ req[q].pc = "cleared"
      /\ Target(q) \in Sub /\ req[q].body \in BodyRecord
    BY RequestTypes DEF SubscriptionsInv, Replace
<1>2. req[q].body.method \in {"PUT", "PATCH"} /\ groups[Target(q)] \subseteq req[q].dropped
    BY <1>1 DEF SubscriptionsInv, RequestsFit, Fits, BodyRecord, InDelete, UpdatesSeeAll,
       SeesAll, Target
<1>3. CASE ~KanalenExist(q)
    BY <1>1, <1>3, RefuseImplements DEF Replace
<1>4. CASE KanalenExist(q)
  <2>1. /\ abonnement' = With(Target(q), Merged(q)) /\ Finish(q, 200) /\ UNCHANGED kanaal
        /\ groups' = [groups EXCEPT ![Target(q)] = (@ \ req[q].dropped) \cup NewGroups(q)]
      BY <1>4 DEF Replace
  <2>2. groups' = [groups EXCEPT ![Target(q)] = NewGroups(q)]
      BY <1>1, <1>2, <2>1 DEF TypeOK
  <2>3. Contract!Write(q, Merged(q))
      BY <1>1, <1>4, <2>1, <2>2, WriteImplements
  <2>4. Contract!Answer(q, 200)
      BY <1>1, <2>1, ClientAnswered DEF Answer
  <2>5. Merged(q) = [f \in Field |-> IF f \in Contract!Wants(q).fields THEN q
                                     ELSE client[q].instance[f]]
      BY <1>1, Stages, ClientIs DEF Merged
  <2>6. Contract!Update(q)
      BY <1>1, <1>2, <2>3, <2>4, <2>5, Stages DEF Contract!Update
  <2>. QED
      BY <2>6 DEF Implemented, Contract!Next
<1>. QED
    BY <1>3, <1>4

\* A deletion takes all groups along, or fails.
LEMMA DestroyImplements ==
    ASSUME SubscriptionsInv, NEW q \in Request, Destroy(q) PROVE Implemented
<1>1. TypeOK /\ Made(q) /\ req[q].pc = "dropped" /\ req[q].body.method = "DELETE"
    BY RequestTypes DEF SubscriptionsInv, RequestsFit, Fits, InDelete, Destroy
<1>2. CASE ~(groups[Target(q)] \subseteq req[q].dropped)
    BY <1>1, <1>2, RefuseImplements DEF Destroy
<1>3. CASE groups[Target(q)] \subseteq req[q].dropped
  <2>1. /\ abonnement' = [t \in DOMAIN abonnement \ {Target(q)} |-> abonnement[t]]
        /\ groups' = [groups EXCEPT ![Target(q)] = {}] /\ Finish(q, 204) /\ UNCHANGED kanaal
      BY <1>3 DEF Destroy
  <2>2. Contract!Answer(q, 204)
      BY <1>1, <2>1, ClientAnswered DEF Answer
  <2>3. Contract!Delete(q)
      BY <1>1, <2>1, <2>2, Stages DEF Contract!Delete
  <2>. QED
      BY <2>3 DEF Implemented, Contract!Next
<1>. QED
    BY <1>2, <1>3

\* Checks and the locks that a transaction waits for are seen by nobody.
LEMMA WaitingImplements ==
    ASSUME SubscriptionsInv, NEW q \in Request,
           Probe(q) \/ CheckKanalen(q) \/ SaveRow(q) \/ InsertRow(q)
    PROVE  Implemented
<1>1. /\ Made(q) /\ req[q].pc \in {"fetched", "probed", "valid", "inserting"}
      /\ req[q].body.method # "DELETE"
  <2>1. /\ req[q].pc \in {"fetched", "probed", "valid", "inserting"}
        /\ req[q].pc = "fetched" => req[q].body.method # "DELETE"
      BY DEF Probe, CheckKanalen, SaveRow, InsertRow
  <2>. QED
      BY <2>1, RequestTypes DEF SubscriptionsInv, RequestsFit, Fits, InDelete
<1>2. \/ Refuse(q, 400) \/ Refuse(q, 500)
      \/ \E pc \in {"probed", "valid", "saved", "inserting"} :
            Goto(q, pc) /\ UNCHANGED <<kanaal, abonnement, groups>>
    BY DEF Probe, CheckKanalen, SaveRow, InsertRow
<1>3. {"probed", "valid", "saved", "inserting"} \subseteq Place \ {"received", "done"}
    BY DEF Place, Pending, InUpdate
<1>. QED
    BY <1>1, <1>2, <1>3, RefuseImplements, GotoImplements

\* Channels are set and deleted as in the contract.
LEMMA ChannelsImplement ==
    ASSUME NEW n \in Naam, DeleteKanaal(n) \/ \E keys \in SUBSET Key : SetKanaal(n, keys)
    PROVE  Implemented
<1>1. UNCHANGED client
    BY DEF DeleteKanaal, SetKanaal, client, View, NoRequest, Stage
<1>2. ASSUME NEW keys \in SUBSET Key, SetKanaal(n, keys) PROVE Contract!SetKanaal(n, keys)
    BY <1>1, <1>2 DEF SetKanaal, Contract!SetKanaal
<1>3. ASSUME DeleteKanaal(n) PROVE Contract!DeleteKanaal(n)
    BY <1>1, <1>3 DEF DeleteKanaal, Contract!DeleteKanaal
<1>. QED
    BY <1>2, <1>3 DEF Implemented, Contract!Next

\* However requests interleave, wait, fail and are rolled back, it is as if each that
\* succeeds did everything in one step, from the row it had read, and each other nothing.
THEOREM RequestsAreAtomic == Spec => OneStepPerRequest
<1>1. Init => Contract!Init
  <2>1. Init => client = [q \in Request |-> [stage |-> "unmade"]]
      BY DEF Init, client, View
  <2>. QED
      BY <2>1 DEF Init, Contract!Init, Contract!Unmade
<1>2. SubscriptionsInv /\ [Next]_vars => [Contract!Next]_(Contract!vars)
  <2> SUFFICES ASSUME SubscriptionsInv, [Next]_vars PROVE Implemented
      BY DEF Implemented
  <2>1. ASSUME NEW q \in Request, Step(q) PROVE Implemented
      BY <2>1, FetchImplements, WaitingImplements, CreateImplements, GroupsImplement,
         ReplaceImplements, DestroyImplements DEF Step
  <2>2. ASSUME NEW q \in Request, DeadlockAbort(q) \/ Crash(q) PROVE Implemented
    <3>1. Made(q) /\ req[q].pc # "done" /\ Refuse(q, 500)
        BY <2>2 DEF DeadlockAbort, Deadlocked, Crash
    <3>. QED
        BY <3>1, RefuseImplements
  <2>3. CASE UNCHANGED vars
      BY <2>3 DEF vars, Implemented, Contract!vars, client, View, NoRequest, Stage
  <2>. QED
      BY <2>1, <2>2, <2>3, ReceiveImplements, ChannelsImplement DEF Next
<1>. QED
    BY <1>1, <1>2, AlwaysSubscriptions, PTL DEF Spec, OneStepPerRequest, Contract!Spec
==============================================================================
