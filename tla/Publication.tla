------------------------------ MODULE Publication ------------------------------
(***************************************************************************)
(* Publishing in Open Notificaties: POST /notificaties, POST /cloudevents  *)
(* and the resend actions of the admin (api/serializers.py).  A message is *)
(* validated, stored, matched with the filter groups in two queries, and   *)
(* scheduled with one bulk_create.  No transaction holds these together:   *)
(* subscriptions and channels change, and objects are deleted, in between. *)
(*                                                                         *)
(* Groups are replaced atomically here, as module Subscriptions shows.     *)
(***************************************************************************)
EXTENDS Naturals, Sequences, FiniteSets

CONSTANTS
    Publication,  \* publications: each is one POST or one resend
    Message,      \* what is published
    Sub,          \* subscriptions
    Naam,         \* channels
    Topic,        \* channel names, event types and substrings of these
    Key, Value,   \* filter attributes and their values
    Camel,        \* [Key -> Key]: the camel case spelling of an attribute
    Covers,       \* [Topic -> SUBSET Topic]: the topics whose groups a message is for
    Content,      \* [Message -> MessageRecord]
    LogInDb,      \* settings.LOG_NOTIFICATIONS_IN_DB
    Channels,     \* [Naam -> SUBSET Key]: the channels there are at first
    KeySets,      \* the sets of filters a channel may be given
    FilterSets,   \* the sets of <<topic, filters>> a subscription may have
    Operations,   \* what goes on around publications in this instance
    MaxEdits      \* bound: changes of subscriptions, channels and objects

VARIABLES
    kanaal,     \* the Kanaal rows: filters by naam
    status,     \* of each subscription: it may come and go
    sendCE,     \* Abonnement.send_cloudevents
    groups,     \* filter groups, with their filters, per subscription
    stored,     \* Notificatie and CloudEvent objects, named by the POST that made them
    pub,        \* the publications
    scheduled,  \* ScheduledNotification rows per publication and subscription
    edits       \* changes so far; also the source of fresh group ids

database == <<kanaal, status, sendCE, groups>>
vars == <<database, stored, pub, scheduled, edits>>
-----------------------------------------------------------------------------
Wildcard == "*"

Attributes == UNION {[K -> Value] : K \in SUBSET Key}
MessageRecord == [kind : {"notificatie", "cloudevent"}, on : Topic,
                  data : Attributes, null : BOOLEAN, hasSource : BOOLEAN]
FilterRecord == [key : Key, value : Value \cup {Wildcard}]

ASSUME PublicationAssumption ==
    /\ Naam \subseteq Topic /\ Wildcard \notin Value
    /\ Camel \in [Key -> Key] /\ Covers \in [Topic -> SUBSET Topic]
    /\ Content \in [Message -> MessageRecord]
    /\ \A m \in Message : Content[m].kind = "notificatie" => ~Content[m].null
    /\ LogInDb \in BOOLEAN /\ Channels \in [Naam -> SUBSET Key] /\ MaxEdits \in Nat
    /\ KeySets \subseteq SUBSET Key
    /\ FilterSets \subseteq SUBSET (Topic \X Seq(FilterRecord))

IsEvent(m) == Content[m].kind = "cloudevent"
Data(m) == Content[m].data
HasData(m) == ~Content[m].null    \* the data of a cloud event may be null

\* Notifications arrive with snake case keys and are matched with camel case ones;
\* the keys in the data of an event are left as they are.
Camelized(d) ==
    [c \in {Camel[k] : k \in DOMAIN d} |-> d[CHOOSE k \in DOMAIN d : Camel[k] = c]]
Compared(m) == IF IsEvent(m) THEN Data(m) ELSE Camelized(Data(m))

\* Groups are created together and keep the id of the change that created them.
GroupsFrom(F, id) == {[id |-> id, on |-> f[1], filters |-> f[2]] : f \in F}
-----------------------------------------------------------------------------
(* Matching.                                                               *)

\* match_pattern: a dictionary of the filters in the order of their ids, with
\* camel case keys.  Of two spellings of one key the later one remains.
CamelKeys(filters) == {Camel[filters[i].key] : i \in DOMAIN filters}
CamelFilters(filters) ==
    [k \in CamelKeys(filters) |->
        LET last == CHOOSE i \in DOMAIN filters :
                       /\ Camel[filters[i].key] = k
                       /\ \A j \in DOMAIN filters : Camel[filters[j].key] = k => j <= i
        IN filters[last].value]

MatchPattern_NoWildcard(filters, data) ==                             \* mutant
    \A k \in CamelKeys(filters) \cap DOMAIN data : CamelFilters(filters)[k] = data[k]
\* An attribute the message does not carry is not compared.
MatchPattern(filters, data) ==
    \A k \in CamelKeys(filters) \cap DOMAIN data :
       CamelFilters(filters)[k] \in {Wildcard, data[k]}

\* match_pattern fails on null ("in" is not defined), and on text that contains
\* an attribute that is compared.  A resent event has text: CloudEvent.data is a
\* text field, and the text of a dictionary contains its keys.
MatchRaises(filters, m, resend) ==
    /\ IsEvent(m)
    /\ \/ ~HasData(m) /\ filters # <<>>
       \/ /\ resend /\ HasData(m)
          /\ \E k \in CamelKeys(filters) \cap DOMAIN Compared(m) :
                CamelFilters(filters)[k] # Wildcard

\* Text without the attributes of the filters, and null without filters, match.
Matches(filters, m, resend) ==
    \/ ~HasData(m)
    \/ IsEvent(m) /\ resend
    \/ MatchPattern(filters, Compared(m))

MatchFilterNames(names, keys) == names \subseteq keys \/ keys \subseteq names

\* The groups a message is for, whatever their filters say.
Concerns(s, g, m) ==
    /\ g.on \in Covers[Content[m].on]
    /\ IsEvent(m) => sendCE[s]

\* What the filters are for, said without dictionaries: the subscriptions that are
\* to have a message published at this moment.
Name(m, k) == IF IsEvent(m) THEN k ELSE Camel[k]
Satisfies(filters, m) ==
    HasData(m) => \A i \in DOMAIN filters, k \in DOMAIN Data(m) :
                     Name(m, k) = Camel[filters[i].key] =>
                        filters[i].value \in {Wildcard, Data(m)[k]}
Wanted(m) == {s \in Sub : /\ status[s] = "active"
                          /\ \E g \in groups[s] : Concerns(s, g, m) /\ Satisfies(g.filters, m)}
-----------------------------------------------------------------------------
(* Types.                                                                  *)

Group == [id : 0..MaxEdits, on : Topic, filters : Seq(FilterRecord)]
Read == [sub : Sub, event : BOOLEAN, group : Group]
PubRecord == [pc : {"received", "valid", "saved", "queried", "matched", "scheduled", "done"},
              msg : Message, object : Publication, read : SUBSET Read,
              always : SUBSET Sub, ever : SUBSET Sub,
              answer : {"none", "created", "unheard", "invalid", "failed", "crashed"}]
NoPub == [pc |-> "idle"]

Made(p) == pub[p] # NoPub
Ongoing(p) == Made(p) /\ pub[p].pc # "done"
Msg(p) == pub[p].msg
Object(p) == pub[p].object
Resent(p) == Object(p) # p

\* Rows refer to a stored object, or carry the message alone.
HasParent(p) == LogInDb \/ Resent(p)
Kept(p) == HasParent(p) => Object(p) \in stored

TypeOK ==
    /\ DOMAIN kanaal \subseteq Naam /\ kanaal \in [DOMAIN kanaal -> SUBSET Key]
    /\ status \in [Sub -> {"new", "active", "deleted"}] /\ sendCE \in [Sub -> BOOLEAN]
    /\ groups \in [Sub -> SUBSET Group]
    /\ \A s \in Sub : \A g \in groups[s] : g.id <= edits /\ status[s] = "active"
    /\ stored \subseteq {p \in Publication : pub[p] # NoPub}
    /\ pub \in [Publication -> PubRecord \cup {NoPub}]
    /\ \A p \in Publication : pub[p] # NoPub => pub[p].always \subseteq pub[p].ever
    /\ scheduled \in [Publication \X Sub -> Nat]
    /\ \A p \in Publication, s \in Sub :
          scheduled[<<p, s>>] > 0 => Made(p) /\ Kept(p) /\ status[s] = "active"
    /\ edits \in 0..MaxEdits

Init ==
    /\ kanaal = Channels
    /\ status \in [Sub -> {"new", "active"}]
    /\ sendCE \in [Sub -> BOOLEAN]
    /\ \E F \in [Sub -> FilterSets] :
          groups = [s \in Sub |-> IF status[s] = "active" THEN GroupsFrom(F[s], 0) ELSE {}]
    /\ stored = {}
    /\ pub = [p \in Publication |-> NoPub]
    /\ scheduled = [x \in Publication \X Sub |-> 0]
    /\ edits = 0
-----------------------------------------------------------------------------
(* The publisher.                                                          *)

Goto(p, pc) == pub' = [pub EXCEPT ![p] = [@ EXCEPT !.pc = pc]]
Answer(p, a) == pub' = [pub EXCEPT ![p] = [@ EXCEPT !.pc = "done", !.answer = a]]
Finish(p, a) == Answer(p, a) /\ UNCHANGED <<database, stored, scheduled, edits>>

Receive(p, m, object) ==
    /\ ~Made(p)
    /\ pub' = [pub EXCEPT ![p] =
                  [pc |-> "received", msg |-> m, object |-> object, read |-> {},
                   always |-> Wanted(m), ever |-> Wanted(m), answer |-> "none"]]
    /\ UNCHANGED <<database, stored, scheduled, edits>>

\* Notifications have no identity: one that is sent again is another message.
Post(p, m) ==
    /\ ~IsEvent(m) => \A q \in Publication : Made(q) => Msg(q) # m
    /\ Receive(p, m, p)

Resend(p, q) == "resend" \in Operations /\ q \in stored /\ Receive(p, Msg(q), q)

\* An event is unique by id and source, compared with the other stored events.
Valid(p) ==
    IF IsEvent(Msg(p))
      THEN \A q \in stored : Msg(q) = Msg(p) => q = Object(p)
      ELSE /\ Content[Msg(p)].on \in DOMAIN kanaal
           /\ MatchFilterNames(kanaal[Content[Msg(p)].on], DOMAIN Data(Msg(p)))

\* An invalid resend is passed over without a word.
Validate(p) ==
    /\ pub[p].pc = "received"
    /\ IF Valid(p) THEN Goto(p, "valid") /\ UNCHANGED <<database, stored, scheduled, edits>>
                   ELSE Finish(p, "invalid")

\* The channel is looked up again; the database has a unique key on events.
Storable(p) ==
    IF IsEvent(Msg(p)) THEN \A q \in stored : Msg(q) # Msg(p)
                       ELSE Content[Msg(p)].on \in DOMAIN kanaal

Logs(p) == LogInDb /\ ~Resent(p)

Store(p) ==
    /\ pub[p].pc = "valid"
    /\ IF Logs(p) /\ ~Storable(p)
         THEN Finish(p, "failed")
         ELSE /\ stored' = IF Logs(p) THEN stored \cup {p} ELSE stored
              /\ Goto(p, "saved")
              /\ UNCHANGED <<database, scheduled, edits>>

\* The first query of _get_subs: groups joined with their subscriptions.
QueryGroups(p) ==
    /\ pub[p].pc = "saved"
    /\ pub' = [pub EXCEPT ![p] = [@ EXCEPT !.pc = "queried",
                  !.read = UNION {{[sub |-> s, event |-> sendCE[s], group |-> g] :
                                     g \in {h \in groups[s] : Concerns(s, h, Msg(p))}} : s \in Sub}]]
    /\ UNCHANGED <<database, stored, scheduled, edits>>

\* The second one, prefetch_related: a group that is gone by now has no filters.
PrefetchedFilters(x) == IF x.group \in groups[x.sub] THEN x.group.filters ELSE <<>>

Matched(p) == {x \in pub[p].read : Matches(PrefetchedFilters(x), Msg(p), Resent(p))}

\* A notification without source cannot become a cloud event.
LacksSource(p) ==
    ~IsEvent(Msg(p)) /\ ~Content[Msg(p)].hasSource /\ \E x \in Matched(p) : x.event

QueryFilters(p) ==
    /\ pub[p].pc = "queried"
    /\ IF \E x \in pub[p].read : MatchRaises(PrefetchedFilters(x), Msg(p), Resent(p))
         THEN Finish(p, "failed")
       ELSE IF LacksSource(p)
         THEN Finish(p, "invalid")
         ELSE /\ pub' = [pub EXCEPT ![p] = [@ EXCEPT !.pc = "matched", !.read = Matched(p)]]
              /\ UNCHANGED <<database, stored, scheduled, edits>>

RowsFor_PerGroup(p, s) == Cardinality({x \in pub[p].read : x.sub = s})   \* mutant
\* subs is a set: however many groups match, there is one row.
RowsFor(p, s) == IF \E x \in pub[p].read : x.sub = s THEN 1 ELSE 0

Insertable_Unchecked(p) == TRUE                                       \* mutant
\* The foreign keys of the rows hold.
Insertable(p) == \A x \in pub[p].read : status[x.sub] = "active" /\ Kept(p)

Schedule_RowByRow(p) ==                                               \* mutant
    /\ pub[p].pc = "matched"
    /\ scheduled' = [x \in Publication \X Sub |->
                        IF x[1] = p /\ status[x[2]] = "active" THEN RowsFor(p, x[2])
                        ELSE scheduled[x]]
    /\ IF Insertable(p) THEN Goto(p, "scheduled") ELSE Answer(p, "failed")
    /\ UNCHANGED <<database, stored, edits>>
\* bulk_create inserts all rows or none.
Schedule(p) ==
    /\ pub[p].pc = "matched"
    /\ IF Insertable(p)
         THEN /\ scheduled' = [x \in Publication \X Sub |->
                                  IF x[1] = p THEN RowsFor(p, x[2]) ELSE scheduled[x]]
              /\ Goto(p, "scheduled")
              /\ UNCHANGED <<database, stored, edits>>
         ELSE Finish(p, "failed")

\* The rows are committed before the publisher hears of it.
Respond(p) == pub[p].pc = "scheduled" /\ Finish(p, "created")

\* The web worker dies: the publisher has no answer, and what is committed stays.
\* That the rows were there already is recorded for the properties.
Crash(p) ==
    /\ "crash" \in Operations /\ Ongoing(p)
    /\ Finish(p, IF pub[p].pc = "scheduled" THEN "unheard" ELSE "crashed")
-----------------------------------------------------------------------------
(* What goes on around it.  always and ever follow along.                  *)

Observe ==
    LET wanted == [m \in Message |-> Wanted(m)]'
    IN pub' = [p \in Publication |->
                 IF Ongoing(p) THEN [pub[p] EXCEPT !.always = @ \cap wanted[Msg(p)],
                                                   !.ever = @ \cup wanted[Msg(p)]]
                 ELSE pub[p]]

Edit(op) ==
    /\ op \in Operations /\ edits < MaxEdits
    /\ edits' = edits + 1

Subscribe(s, F) ==
    /\ Edit("subscribe") /\ status[s] = "new"
    /\ status' = [status EXCEPT ![s] = "active"]
    /\ groups' = [groups EXCEPT ![s] = GroupsFrom(F, edits')]
    /\ UNCHANGED <<kanaal, sendCE, stored, scheduled>>
    /\ Observe

Replace(s, F) ==
    /\ Edit("replace") /\ status[s] = "active"
    /\ groups' = [groups EXCEPT ![s] = GroupsFrom(F, edits')]
    /\ UNCHANGED <<kanaal, status, sendCE, stored, scheduled>>
    /\ Observe

Unsubscribe(s) ==
    /\ Edit("unsubscribe") /\ status[s] = "active"
    /\ status' = [status EXCEPT ![s] = "deleted"]
    /\ groups' = [groups EXCEPT ![s] = {}]
    /\ scheduled' = [x \in Publication \X Sub |-> IF x[2] = s THEN 0 ELSE scheduled[x]]
    /\ UNCHANGED <<kanaal, sendCE, stored>>
    /\ Observe

Switch(s) ==
    /\ Edit("switch") /\ status[s] = "active"
    /\ sendCE' = [sendCE EXCEPT ![s] = ~@]
    /\ UNCHANGED <<kanaal, status, groups, stored, scheduled>>
    /\ Observe

SetKanaal(n, keys) ==
    /\ Edit("channel")
    /\ kanaal' = [k \in DOMAIN kanaal \cup {n} |-> IF k = n THEN keys ELSE kanaal[k]]
    /\ UNCHANGED <<status, sendCE, groups, stored, pub, scheduled>>

Delete(R) ==
    /\ stored' = stored \ R
    /\ scheduled' = [x \in Publication \X Sub |->
                        IF Made(x[1]) /\ HasParent(x[1]) /\ Object(x[1]) \in R
                          THEN 0 ELSE scheduled[x]]

\* The groups and the notifications of a channel go with it, and their rows.
DeleteKanaal(n) ==
    /\ Edit("dropChannel") /\ n \in DOMAIN kanaal
    /\ kanaal' = [k \in DOMAIN kanaal \ {n} |-> kanaal[k]]
    /\ groups' = [s \in Sub |-> {g \in groups[s] : g.on # n}]
    /\ Delete({q \in stored : Content[Msg(q)].on = n})
    /\ UNCHANGED <<status, sendCE>>
    /\ Observe

\* clean_old_notifications, or an administrator.
Purge(q) ==
    /\ Edit("purge") /\ q \in stored
    /\ Delete({q})
    /\ UNCHANGED <<database, pub>>
-----------------------------------------------------------------------------
Step(p) ==
    \/ Validate(p) \/ Store(p) \/ QueryGroups(p) \/ QueryFilters(p) \/ Schedule(p)
    \/ Respond(p)

Surroundings ==
    \/ \E s \in Sub, F \in FilterSets : Subscribe(s, F) \/ Replace(s, F)
    \/ \E s \in Sub : Unsubscribe(s) \/ Switch(s)
    \/ \E n \in Naam : DeleteKanaal(n) \/ \E keys \in KeySets : SetKanaal(n, keys)
    \/ \E q \in Publication : Purge(q)

Next ==
    \/ \E p \in Publication : Step(p) \/ Crash(p)
    \/ \E p \in Publication, m \in Message : Post(p, m)
    \/ \E p, q \in Publication : Resend(p, q)
    \/ Surroundings

Spec == Init /\ [][Next]_vars
-----------------------------------------------------------------------------
(* Properties.                                                             *)

\* Its rows are committed, whether or not the publisher has heard of it.
Committed(p) ==
    Made(p) /\ (pub[p].pc = "scheduled" \/ pub[p].answer \in {"created", "unheard"})

\* A publication whose rows are committed has one for every subscription whose
\* filters wanted the message all along, although groups are replaced between the
\* two queries (_get_subs).
NoneMissed ==
    \A p \in Publication : Committed(p) /\ Kept(p) =>
       \A s \in pub[p].always : status[s] = "active" => scheduled[<<p, s>>] > 0

\* "Alleen notificaties waarvan de kenmerken voldoen aan het filter worden
\* doorgestuurd" (serializers.py:92): a row is made only for a subscription whose
\* filters wanted the message at some moment of the publication.
OnlyWanted ==
    \A p \in Publication, s \in Sub : scheduled[<<p, s>>] > 0 => s \in pub[p].ever

\* However many groups of a subscription match, it gets one row per publication; and
\* two POSTs of one event, however they overlap or die, never both have rows, as long
\* as the event is kept.
OneRowPerSub ==
    /\ \A x \in Publication \X Sub : scheduled[x] <= 1
    /\ \A p, q \in Publication :
          /\ Committed(p) /\ Kept(p) /\ ~Resent(p)
          /\ Committed(q) /\ Kept(q) /\ ~Resent(q)
          /\ IsEvent(Msg(p)) /\ Msg(p) = Msg(q)
          => p = q

\* What the publisher may conclude from the answer.  A publication has rows for all the
\* subscriptions that it matched, or for none: for all when it is told of success, for
\* none when it is refused or fails.  Without an answer - the web worker dies before
\* bulk_create, or after it and before the response - it may be either, and a
\* notification that is sent again may arrive twice.
NoRows(p) == \A s \in Sub : scheduled[<<p, s>>] = 0
AllRows(p) ==
    \A x \in pub[p].read : status[x.sub] = "active" => scheduled[<<p, x.sub>>] > 0
AllOrNothing ==
    \A p \in Publication : Made(p) =>
       /\ NoRows(p) \/ AllRows(p)
       /\ pub[p].answer \in {"invalid", "failed"} => NoRows(p)
       /\ pub[p].answer = "created" /\ Kept(p) => AllRows(p)

\* "Open Notificaties operates in at-least-once delivery mode": when an event is
\* refused as a duplicate, an earlier POST of it was or will be scheduled, so
\* that a publisher may stop trying.
DuplicateIsScheduled ==
    \A p \in Publication :
       Made(p) /\ IsEvent(Msg(p)) /\ ~Resent(p) /\ pub[p].answer = "invalid" =>
          \E q \in Publication : /\ Made(q) /\ Msg(q) = Msg(p) /\ ~Resent(q)
                                 /\ pub[q].answer \in {"none", "created", "unheard"}
=============================================================================
