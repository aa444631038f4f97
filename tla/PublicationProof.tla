--------------------------- MODULE PublicationProof ---------------------------
(***************************************************************************)
(* Theorems about Publication, for every number of publications, messages, *)
(* subscriptions and changes around them.                                  *)
(*                                                                         *)
(* PublicationInv follows a subscription whose filters want a message all  *)
(* along: its group is among those of the first query, what the second     *)
(* query sees of it matches, and so it is among the rows.                  *)
(***************************************************************************)
EXTENDS Publication, WellFoundedInduction, TLAPS

\* A publication has an answer when it is over; what it sends again has gone past the
\* table; a subscription that it is for is there, or was.
Past(p) == pub[p].pc \notin {"received", "valid"}
Fits(p) ==
    /\ pub[p].answer = "none" <=> pub[p].pc # "done"
    /\ Resent(p) => Made(Object(p)) /\ Past(Object(p))
    /\ \A s \in pub[p].always : status[s] # "new"
PublicationsFit == \A p \in Publication : Made(p) => Fits(p)

\* Only POSTs store, when they log, and an event once.
StoredOnce ==
    \A q \in stored :
       /\ LogInDb /\ ~Resent(q) /\ Past(q)
       /\ \A r \in stored : IsEvent(Msg(q)) /\ Msg(r) = Msg(q) => q = r

\* There is one row, if any, and only of a publication that has committed,
RowsOfCommitted ==
    \A p \in Publication, s \in Sub :
       scheduled[<<p, s>>] <= 1 /\ (scheduled[<<p, s>>] > 0 => Committed(p))

\* which then has one for every subscription that it matched and that is left.
HasAll(p) ==
    \A x \in pub[p].read :
       /\ status[x.sub] # "new"
       /\ Kept(p) /\ status[x.sub] = "active" => scheduled[<<p, x.sub>>] > 0
CommittedHasAll == \A p \in Publication : Committed(p) => HasAll(p)

\* Who has wanted the message all along is on its way to a row: its group is read with
\* filters that the message satisfies, and what the second query sees of it matches.
AlwaysWanted == \A p \in Publication : Ongoing(p) => pub[p].always \subseteq Wanted(Msg(p))
Carried(r) ==
    /\ r.pc = "queried" => \A s \in r.always : \E x \in r.read :
                              x.sub = s /\ Satisfies(x.group.filters, r.msg)
    /\ r.pc = "matched" => \A s \in r.always : \E x \in r.read : x.sub = s
AllCarried == \A p \in Publication : Made(p) => Carried(pub[p])

PublicationInv ==
    /\ TypeOK /\ PublicationsFit /\ StoredOnce /\ RowsOfCommitted /\ CommittedHasAll
    /\ AlwaysWanted /\ AllCarried /\ NoneMissed

\* A bounded set of numbers has a greatest one.
LEMMA Greatest ==
    ASSUME NEW n \in Nat, NEW T \in SUBSET (0..n), T # {}
    PROVE  \E x \in T : \A y \in T : y <= x
<1> DEFINE U == {n - i : i \in T}
<1>1. U \subseteq Nat /\ U # {}
  <2>1. \A i \in T : n - i \in Nat
      OBVIOUS
  <2>2. PICK i \in T : TRUE
      OBVIOUS
  <2>3. n - i \in U
      BY <2>2
  <2>. QED
      BY <2>1, <2>3
<1>2. \E u \in U : \A v \in U : <<v, u>> \notin OpToRel(<, Nat)
    <2>. HIDE DEF U
    <2>. QED
        BY <1>1, NatLessThanWellFounded, WFMin
<1>3. PICK u \in U : \A v \in U : ~(v < u)
    BY <1>1, <1>2 DEF OpToRel
<1>4. PICK x \in T : u = n - x
    OBVIOUS
<1>5. \A y \in T : y <= x
    BY <1>3, <1>4
<1>. QED
    BY <1>5

\* The last filter with a key exists.
LEMMA LastFilter ==
    ASSUME NEW filters \in Seq(FilterRecord), NEW k \in CamelKeys(filters)
    PROVE  \E i \in DOMAIN filters :
              Camel[filters[i].key] = k /\ CamelFilters(filters)[k] = filters[i].value
<1> DEFINE T == {i \in DOMAIN filters : Camel[filters[i].key] = k}
           IsLast(i) == /\ Camel[filters[i].key] = k
                        /\ \A j \in DOMAIN filters : Camel[filters[j].key] = k => j <= i
<1>1. DOMAIN filters = 1..Len(filters) /\ Len(filters) \in Nat
    OBVIOUS
<1>2. T \in SUBSET (0..Len(filters)) /\ T # {}
    BY <1>1 DEF CamelKeys
<1>3. \E i \in DOMAIN filters : IsLast(i)
    BY <1>1, <1>2, Greatest
<1>4. LET last == CHOOSE i \in DOMAIN filters : IsLast(i)
      IN  last \in DOMAIN filters /\ IsLast(last)
    BY <1>3
<1>. QED
    BY <1>4 DEF CamelFilters

\* What the filters are for is what match_pattern decides: a message that satisfies the
\* filters of a group matches it, first published or sent again.
LEMMA SatisfiedMatches ==
    ASSUME NEW filters \in Seq(FilterRecord), NEW m \in Message, NEW resend \in BOOLEAN,
           Satisfies(filters, m)
    PROVE  Matches(filters, m, resend)
<1>1. SUFFICES ASSUME HasData(m), NEW k \in CamelKeys(filters) \cap DOMAIN Compared(m)
               PROVE  CamelFilters(filters)[k] \in {Wildcard, Compared(m)[k]}
    BY DEF Matches, MatchPattern
<1>2. PICK i \in DOMAIN filters :
         Camel[filters[i].key] = k /\ CamelFilters(filters)[k] = filters[i].value
    BY LastFilter
<1>3. PICK d \in DOMAIN Data(m) : Name(m, d) = k /\ Compared(m)[k] = Data(m)[d]
  <2>1. CASE IsEvent(m)
      BY <2>1 DEF Compared, Name
  <2>2. CASE ~IsEvent(m)
    <3>1. k \in DOMAIN Camelized(Data(m)) /\ Compared(m) = Camelized(Data(m))
        BY <2>2 DEF Compared
    <3>2. \E d \in DOMAIN Data(m) : Camel[d] = k
        BY <3>1 DEF Camelized
    <3>3. LET c == CHOOSE d \in DOMAIN Data(m) : Camel[d] = k
          IN  c \in DOMAIN Data(m) /\ Camel[c] = k /\ Camelized(Data(m))[k] = Data(m)[c]
        BY <3>1, <3>2 DEF Camelized
    <3>. QED
        BY <2>2, <3>1, <3>3 DEF Name
  <2>. QED
      BY <2>1, <2>2
<1>. QED
    BY <1>1, <1>2, <1>3 DEF Satisfies

\* A group that is gone when the second query runs has no filters: it matches.
LEMMA NoFiltersMatch ==
    ASSUME NEW m \in Message, NEW resend \in BOOLEAN
    PROVE  Matches(<<>>, m, resend)
BY DEF Matches, MatchPattern, CamelKeys

-----------------------------------------------------------------------------
(* Records.                                                                  *)

Place == {"received", "valid", "saved", "queried", "matched", "scheduled", "done"}
Reply == {"none", "created", "unheard", "invalid", "failed", "crashed"}
Reads == SUBSET Read
Subs == SUBSET Sub

\* The record type, with a name for the type of every field.
LEMMA RecordShape ==
    PubRecord = [pc : Place, msg : Message, object : Publication, read : Reads,
                 always : Subs, ever : Subs, answer : Reply]
BY DEF PubRecord, Place, Reply, Reads, Subs

\* What stays of a publication when it goes on.
Same(r, t) == r.msg = t.msg /\ r.object = t.object /\ r.always = t.always /\ r.ever = t.ever

\* A publication that goes on is a publication,
LEMMA GoneOn ==
    ASSUME NEW t \in PubRecord, NEW pc \in Place
    PROVE  LET r == [t EXCEPT !.pc = pc]
           IN r \in PubRecord /\ r.pc = pc /\ Same(r, t) /\ r.read = t.read /\ r.answer = t.answer
BY RecordShape DEF Same

\* when it is answered too,
LEMMA Answered ==
    ASSUME NEW t \in PubRecord, NEW a \in Reply
    PROVE  LET r == [t EXCEPT !.pc = "done", !.answer = a]
           IN r \in PubRecord /\ r.pc = "done" /\ Same(r, t) /\ r.read = t.read /\ r.answer = a
<1>1. "done" \in Place
    BY DEF Place
<1>. QED
    BY <1>1, RecordShape DEF Same

\* when it reads,
WithRead(t, pc, R) == [t EXCEPT !.pc = pc, !.read = R]
LEMMA HasRead ==
    ASSUME NEW t \in PubRecord, NEW pc \in Place, NEW R \in Reads
    PROVE  LET r == WithRead(t, pc, R)
           IN r \in PubRecord /\ r.pc = pc /\ Same(r, t) /\ r.read = R /\ r.answer = t.answer
BY RecordShape DEF Same, WithRead

\* and when others change what is wanted.
Followed(t, W) == [t EXCEPT !.always = @ \cap W, !.ever = @ \cup W]
LEMMA Watched ==
    ASSUME NEW t \in PubRecord, NEW W \in Subs
    PROVE  LET r == Followed(t, W)
           IN /\ r \in PubRecord /\ r.pc = t.pc /\ r.msg = t.msg /\ r.object = t.object
              /\ r.read = t.read /\ r.answer = t.answer
              /\ r.always = t.always \cap W /\ r.ever = t.ever \cup W
<1>1. t.always \cap W \in Subs /\ t.ever \cup W \in Subs
    BY RecordShape DEF Subs
<1>. QED
    BY <1>1, RecordShape DEF Followed

\* A publication is at one of its places: it is not nothing.
LEMMA RecordIsMade ==
    ASSUME NEW r \in PubRecord
    PROVE  r.pc \in Place /\ r # NoPub
<1>1. r.pc \in Place
    BY RecordShape
<1>2. NoPub.pc \notin Place
    BY DEF NoPub, Place
<1>. QED
    BY <1>1, <1>2

\* Only a publication that was made is anywhere.
LEMMA PublicationTypes ==
    ASSUME TypeOK, NEW p \in Publication
    PROVE  /\ Made(p) => /\ pub[p] \in PubRecord /\ Msg(p) \in Message
                         /\ Object(p) \in Publication
                         /\ pub[p].always \subseteq pub[p].ever /\ pub[p].ever \subseteq Sub
                         /\ pub[p].pc \in Place /\ pub[p].answer \in Reply
                         /\ pub[p].read \subseteq Read
           /\ pub[p].pc # "idle" <=> Made(p)
<1>1. pub[p] \in PubRecord \cup {NoPub}
    BY DEF TypeOK
<1>2. pub[p] \in PubRecord => pub[p].pc \in Place /\ pub[p].pc # "idle"
    BY RecordShape DEF Place
<1>3. NoPub.pc = "idle"
    BY DEF NoPub
<1>4. Made(p) => pub[p].always \subseteq pub[p].ever
    BY DEF TypeOK, Made
<1>. QED
    BY <1>1, <1>2, <1>3, <1>4, RecordShape DEF Made, Msg, Object, Reads, Subs

\* Who wants a message is a subscription.
LEMMA WantedAreSubs == \A m : Wanted(m) \subseteq Sub
BY DEF Wanted
-----------------------------------------------------------------------------
(* The steps of the publisher.                                               *)

\* Committed(p), of the record of p.
WithRows(r) == r.pc = "scheduled" \/ r.answer \in {"created", "unheard"}

\* A step that moves one publication, and at most stores its message, preserves the
\* invariant, if the publication carries what it has to.
LEMMA Move ==
    ASSUME PublicationInv, UNCHANGED <<database, scheduled, edits>>,
           NEW p \in Publication, Ongoing(p),
           NEW r \in PubRecord, pub' = [pub EXCEPT ![p] = r], Same(r, pub[p]),
           r.answer = "none" <=> r.pc # "done",
           WithRows(r) <=> WithRows(pub[p]), WithRows(r) => r.read = pub[p].read,
           r.pc \in {"received", "valid"} => pub[p].pc \in {"received", "valid"},
           Carried(r),
           \/ stored' = stored
           \/ /\ stored' = stored \cup {p} /\ LogInDb /\ ~Resent(p) /\ Storable(p)
              /\ pub[p].pc = "valid" /\ r.pc \notin {"received", "valid"}
    PROVE  PublicationInv'
<1>. USE DEF PublicationInv, database
<1>1. /\ pub[p] \in PubRecord /\ pub[p].pc # "done" /\ Made(p) /\ r # NoPub
      /\ pub \in [Publication -> PubRecord \cup {NoPub}]
  <2>1. r # NoPub
      BY RecordIsMade
  <2>2. pub \in [Publication -> PubRecord \cup {NoPub}]
      BY DEF TypeOK
  <2>. QED
      BY <2>1, <2>2, PublicationTypes DEF Ongoing
<1>2. /\ pub'[p] = r /\ \A q \in Publication \ {p} : pub'[q] = pub[q]
      /\ \A q \in Publication : Made(q)' <=> Made(q)
    BY <1>1 DEF Made
<1>3. \A q \in Publication :
         Made(q) => Msg(q)' = Msg(q) /\ Object(q)' = Object(q)
    BY <1>2 DEF Same, Msg, Object
<1>4. \A q \in Publication : Past(q) => Past(q)'
    BY <1>2 DEF Past
<1>5. \A q \in Publication : Committed(q) <=> Committed(q)'
    BY <1>1, <1>2 DEF Committed, WithRows
<1>6. \A q \in Publication : Committed(q) => (Kept(q) <=> Kept(q)')
  <2> SUFFICES ASSUME NEW q \in Publication, Committed(q)
               PROVE  Kept(q) <=> Kept(q)'
      OBVIOUS
  <2>1. Made(q) /\ (pub[p].pc = "valid" => q # p)
      BY <1>1 DEF Committed, PublicationsFit, Fits
  <2>2. Object(q) = q \/ Past(Object(q))
      BY <2>1 DEF PublicationsFit, Fits, Resent
  <2>3. pub[p].pc = "valid" => Object(q) # p
      BY <2>1, <2>2 DEF Past
  <2>4. Object(q) \in stored <=> Object(q) \in stored'
      BY <2>3
  <2>5. Object(q)' = Object(q)
      BY <1>3, <2>1
  <2>. QED
      BY <2>4, <2>5 DEF Kept, HasParent, Resent
<1>7. \A q \in Publication : Made(q) /\ Kept(q) => Kept(q)'
    BY <1>3 DEF Kept, HasParent, Resent
<1>8. TypeOK'
  <2>1. stored' \subseteq {q \in Publication : pub'[q] # NoPub}
      BY <1>1, <1>2 DEF TypeOK, Made
  <2>2. pub' \in [Publication -> PubRecord \cup {NoPub}]
      BY <1>1
  <2>3. \A q \in Publication : pub'[q] # NoPub => pub'[q].always \subseteq pub'[q].ever
      BY <1>1, <1>2 DEF TypeOK, Same, Made
  <2>4. \A q \in Publication, s \in Sub :
           scheduled'[<<q, s>>] > 0 => Made(q)' /\ Kept(q)' /\ status'[s] = "active"
      BY <1>2, <1>7 DEF TypeOK
  <2>. QED
      BY <2>1, <2>2, <2>3, <2>4 DEF TypeOK
<1>9. PublicationsFit'
  <2> SUFFICES ASSUME NEW q \in Publication, Made(q)
               PROVE  Fits(q)'
      BY <1>2 DEF PublicationsFit
  <2>1. PICK o \in Publication : o = Object(q)
      BY PublicationTypes
  <2>2. Object(q)' = o /\ (Resent(q)' => Resent(q))
      BY <1>3, <2>1 DEF Resent
  <2>5. Resent(q) => Made(o) /\ Past(o)
      BY <2>1 DEF PublicationsFit, Fits
  <2>6. Resent(q)' => Made(o)' /\ Past(o)'
      BY <1>2, <1>4, <2>2, <2>5
  <2>3. pub'[q].answer = "none" <=> pub'[q].pc # "done"
      BY <1>2 DEF PublicationsFit, Fits
  <2>4. \A s \in pub'[q].always : status'[s] # "new"
      BY <1>1, <1>2 DEF PublicationsFit, Fits, Same
  <2>. QED
      BY <2>2, <2>6, <2>3, <2>4 DEF Fits, Made, Past
<1>10. StoredOnce'
  <2>1. \A q \in stored : q \in Publication /\ Made(q)
      BY DEF TypeOK, Made
  <2>2. \A q \in stored : LogInDb /\ ~Resent(q)' /\ Past(q)' /\ Msg(q)' = Msg(q)
      BY <1>3, <1>4, <2>1 DEF StoredOnce, Resent
  <2>4. p \in stored' \ stored => LogInDb /\ ~Resent(p)' /\ Past(p)' /\ Msg(p)' = Msg(p)
      BY <1>1, <1>2, <1>3 DEF Past, Resent
  <2>3. \A q, t \in stored' : IsEvent(Msg(q)) /\ Msg(t) = Msg(q) => q = t
      BY DEF StoredOnce, Storable
  <2>. QED
      BY <2>2, <2>3, <2>4 DEF StoredOnce
<1>11. RowsOfCommitted'
    BY <1>5 DEF RowsOfCommitted
<1>15. CommittedHasAll'
  <2> SUFFICES ASSUME NEW q \in Publication, Committed(q)
               PROVE  HasAll(q)'
      BY <1>5 DEF CommittedHasAll
  <2>1. pub'[q].read = pub[q].read
      BY <1>1, <1>2 DEF Committed, WithRows
  <2>. QED
      BY <1>6, <2>1 DEF CommittedHasAll, HasAll
<1>12. AlwaysWanted'
  <2>1. \A m : Wanted(m)' = Wanted(m)
      BY DEF Wanted, Concerns
  <2>. QED
      BY <1>1, <1>2, <1>3, <2>1 DEF AlwaysWanted, Ongoing, Same
<1>13. AllCarried'
    BY <1>2 DEF AllCarried, Carried
<1>14. NoneMissed'
  <2> SUFFICES ASSUME NEW q \in Publication, Committed(q)', Kept(q)',
                      NEW s \in pub'[q].always, status'[s] = "active"
               PROVE  scheduled'[<<q, s>>] > 0
      BY DEF NoneMissed
  <2>1. Committed(q) /\ Kept(q)
      BY <1>5, <1>6
  <2>2. pub'[q].always = pub[q].always
      BY <1>1, <1>2 DEF Same
  <2>. QED
      BY <2>1, <2>2 DEF NoneMissed
<1>. QED
    BY <1>8, <1>9, <1>10, <1>11, <1>12, <1>13, <1>14, <1>15

\* A publication that is answered, or dies, leaves everything as it is: with its rows when
\* they are committed, without any when it is refused, fails or dies before.
LEMMA FinishMoves ==
    ASSUME PublicationInv, NEW p \in Publication, Ongoing(p), NEW a \in Reply \ {"none"},
           a \in {"created", "unheard"} <=> pub[p].pc = "scheduled", Finish(p, a)
    PROVE  PublicationInv'
<1> DEFINE r == [pub[p] EXCEPT !.pc = "done", !.answer = a]
<1>1. /\ r \in PubRecord /\ r.pc = "done" /\ Same(r, pub[p]) /\ r.answer = a
      /\ r.read = pub[p].read
  <2>1. pub[p] \in PubRecord
      BY PublicationTypes DEF PublicationInv, Ongoing
  <2>. QED
      BY <2>1, Answered
<1>2. pub' = [pub EXCEPT ![p] = r] /\ UNCHANGED <<database, stored, scheduled, edits>>
    BY DEF Finish, Answer
<1>3. Carried(r)
    BY <1>1 DEF Carried
<1>4. WithRows(r) <=> WithRows(pub[p])
  <2>1. pub[p].answer = "none"
      BY DEF PublicationInv, PublicationsFit, Fits, Ongoing
  <2>. QED
      BY <1>1, <2>1 DEF WithRows
<1>. HIDE DEF r
<1>. QED
    BY <1>1, <1>2, <1>3, <1>4, Move

\* So does one that only goes on, to where nothing is carried yet.
LEMMA GotoMoves ==
    ASSUME PublicationInv, NEW p \in Publication, Ongoing(p),
           NEW pc \in {"valid", "saved"}, Goto(p, pc), pub[p].pc # "scheduled",
           pc = "valid" => pub[p].pc = "received",
           UNCHANGED <<database, scheduled, edits>>,
           \/ stored' = stored
           \/ /\ stored' = stored \cup {p} /\ LogInDb /\ ~Resent(p) /\ Storable(p)
              /\ pub[p].pc = "valid" /\ pc = "saved"
    PROVE  PublicationInv'
<1> DEFINE r == [pub[p] EXCEPT !.pc = pc]
<1>1. r \in PubRecord /\ r.pc = pc /\ Same(r, pub[p]) /\ r.answer = pub[p].answer
  <2>1. pub[p] \in PubRecord /\ pc \in Place
      BY PublicationTypes DEF PublicationInv, Ongoing, Place
  <2>. QED
      BY <2>1, GoneOn
<1>2. pub' = [pub EXCEPT ![p] = r]
    BY DEF Goto
<1>3. r.answer = "none"
    BY <1>1 DEF PublicationInv, PublicationsFit, Fits, Ongoing
<1>4. Carried(r)
    BY <1>1 DEF Carried
<1>5. ~WithRows(r) /\ ~WithRows(pub[p])
    BY <1>1, <1>3 DEF WithRows
<1>. HIDE DEF r
<1>. QED
    BY <1>1, <1>2, <1>3, <1>4, <1>5, Move

\* A publication reads, or drops what it has read.
LEMMA ReadMoves ==
    ASSUME PublicationInv, NEW p \in Publication, Ongoing(p), pub[p].pc # "scheduled",
           NEW pc \in {"queried", "matched"}, NEW R \in Reads,
           pub' = [pub EXCEPT ![p] = WithRead(pub[p], pc, R)],
           UNCHANGED <<database, stored, scheduled, edits>>,
           pc = "queried" => \A s \in pub[p].always : \E x \in R :
                                x.sub = s /\ Satisfies(x.group.filters, Msg(p)),
           pc = "matched" => \A s \in pub[p].always : \E x \in R : x.sub = s
    PROVE  PublicationInv'
<1> DEFINE r == WithRead(pub[p], pc, R)
<1>1. r \in PubRecord /\ r.pc = pc /\ Same(r, pub[p]) /\ r.read = R /\ r.answer = pub[p].answer
  <2>1. pub[p] \in PubRecord /\ pc \in Place
      BY PublicationTypes DEF PublicationInv, Ongoing, Place
  <2>. QED
      BY <2>1, HasRead
<1>2. r.answer = "none"
    BY <1>1 DEF PublicationInv, PublicationsFit, Fits, Ongoing
<1>3. Carried(r)
    BY <1>1 DEF Carried, Same, Msg
<1>4. ~WithRows(r) /\ ~WithRows(pub[p])
    BY <1>1, <1>2 DEF WithRows
<1>. HIDE DEF r
<1>. QED
    BY <1>1, <1>2, <1>3, <1>4, Move DEF r

\* The first query finds a group of every subscription that has wanted the message.
LEMMA QueryGroupsMoves ==
    ASSUME PublicationInv, NEW p \in Publication, QueryGroups(p)
    PROVE  PublicationInv'
<1> DEFINE Of(s) == {[sub |-> s, event |-> sendCE[s], group |-> g] :
                        g \in {h \in groups[s] : Concerns(s, h, Msg(p))}}
           R == UNION {Of(s) : s \in Sub}
<1>1. Ongoing(p) /\ pub[p].pc = "saved"
    BY PublicationTypes DEF QueryGroups, PublicationInv, Ongoing
<1>2. /\ pub' = [pub EXCEPT ![p] = WithRead(pub[p], "queried", R)]
      /\ UNCHANGED <<database, stored, scheduled, edits>>
    BY DEF QueryGroups, WithRead
<1>3. R \in Reads
  <2>1. ASSUME NEW s \in Sub, NEW g \in groups[s]
        PROVE  [sub |-> s, event |-> sendCE[s], group |-> g] \in Read
      BY DEF PublicationInv, TypeOK, Read
  <2>. QED
      BY <2>1 DEF Reads
<1>4. ASSUME NEW s \in pub[p].always
      PROVE  \E x \in R : x.sub = s /\ Satisfies(x.group.filters, Msg(p))
  <2>1. s \in Sub /\ s \in Wanted(Msg(p))
      BY <1>1, WantedAreSubs DEF PublicationInv, AlwaysWanted
  <2>2. PICK g \in groups[s] : Concerns(s, g, Msg(p)) /\ Satisfies(g.filters, Msg(p))
      BY <2>1 DEF Wanted
  <2> DEFINE x == [sub |-> s, event |-> sendCE[s], group |-> g]
  <2>3. x \in Of(s)
      BY <2>2
  <2>4. x \in R
      BY <2>1, <2>3
  <2>5. x.sub = s /\ x.group = g
      OBVIOUS
  <2>. QED
      BY <2>2, <2>4, <2>5
<1>. HIDE DEF R
<1>. QED
    BY <1>1, <1>2, <1>3, <1>4, ReadMoves
\* The second query sees filters that the message satisfies, or a group without filters.
LEMMA QueryFiltersMoves ==
    ASSUME PublicationInv, NEW p \in Publication, QueryFilters(p)
    PROVE  PublicationInv'
<1>1. Ongoing(p) /\ pub[p].pc = "queried"
    BY PublicationTypes DEF QueryFilters, PublicationInv, Ongoing
<1>2. CASE \E a \in {"failed", "invalid"} : Finish(p, a)
    BY <1>1, <1>2, FinishMoves DEF Reply
<1>3. CASE /\ pub' = [pub EXCEPT ![p] = WithRead(pub[p], "matched", Matched(p))]
           /\ UNCHANGED <<database, stored, scheduled, edits>>
  <2>1. pub[p].read \subseteq Read /\ Msg(p) \in Message
      BY <1>1, PublicationTypes DEF PublicationInv, Ongoing
  <2>2. Matched(p) \in Reads
      BY <2>1 DEF Matched, Reads
  <2>3. ASSUME NEW s \in pub[p].always
        PROVE  \E x \in Matched(p) : x.sub = s
    <3>1. PICK x \in pub[p].read : x.sub = s /\ Satisfies(x.group.filters, Msg(p))
        BY <1>1 DEF PublicationInv, AllCarried, Carried, Ongoing, Msg
    <3>2. x.group.filters \in Seq(FilterRecord) /\ Resent(p) \in BOOLEAN
        BY <2>1 DEF Read, Group, Resent
    <3>3. Matches(x.group.filters, Msg(p), Resent(p)) /\ Matches(<<>>, Msg(p), Resent(p))
        BY <2>1, <3>1, <3>2, SatisfiedMatches, NoFiltersMatch
    <3>. QED
        BY <3>1, <3>3 DEF Matched, PrefetchedFilters
  <2>. QED
      BY <1>1, <1>3, <2>2, <2>3, ReadMoves
<1>. QED
    BY <1>2, <1>3 DEF QueryFilters, WithRead

\* The rows are committed: one for each subscription that matched.
LEMMA ScheduleMoves ==
    ASSUME PublicationInv, NEW p \in Publication, Schedule(p)
    PROVE  PublicationInv'
<1>. USE DEF PublicationInv, database
<1> DEFINE r == [pub[p] EXCEPT !.pc = "scheduled"]
<1>1. Ongoing(p) /\ pub[p].pc = "matched"
    BY PublicationTypes DEF Schedule, Ongoing
<1>2. CASE ~Insertable(p)
    BY <1>1, <1>2, FinishMoves DEF Schedule, Reply
<1>3. CASE Insertable(p)
  <2>1. /\ pub' = [pub EXCEPT ![p] = r] /\ UNCHANGED <<database, stored, edits>>
        /\ scheduled' = [x \in Publication \X Sub |->
                            IF x[1] = p THEN RowsFor(p, x[2]) ELSE scheduled[x]]
      BY <1>3 DEF Schedule, Goto
  <2>2. /\ r \in PubRecord /\ r.pc = "scheduled" /\ Same(r, pub[p]) /\ r.read = pub[p].read
        /\ r.answer = "none" /\ r # NoPub /\ pub[p] \in PubRecord
    <3>1. pub[p] \in PubRecord /\ "scheduled" \in Place /\ pub[p].answer = "none"
        BY <1>1, PublicationTypes DEF Ongoing, Place, PublicationsFit, Fits
    <3>. QED
        BY <3>1, GoneOn, RecordIsMade
  <2>. HIDE DEF r
  <2>3. /\ pub'[p] = r /\ \A q \in Publication \ {p} : pub'[q] = pub[q]
        /\ \A q \in Publication : Made(q)' <=> Made(q)
        /\ pub' \in [Publication -> PubRecord \cup {NoPub}]
      BY <1>1, <2>1, <2>2 DEF Made, Ongoing, TypeOK
  <2>4. \A q \in Publication : Made(q) => Msg(q)' = Msg(q) /\ Object(q)' = Object(q)
      BY <2>2, <2>3 DEF Same, Msg, Object
  <2>5. \A q \in Publication : Past(q) => Past(q)'
      BY <2>2, <2>3 DEF Past
  <2>6. \A q \in Publication : Made(q) => (Kept(q) <=> Kept(q)')
      BY <2>1, <2>4 DEF Kept, HasParent, Resent
  <2>7. \A q \in Publication, s \in Sub :
           scheduled'[<<q, s>>] = IF q = p THEN RowsFor(p, s) ELSE scheduled[<<q, s>>]
      BY <2>1
  <2>8. \A s \in Sub : RowsFor(p, s) \in {0, 1}
      BY DEF RowsFor
  <2>9. TypeOK'
    <3>1. stored' \subseteq {q \in Publication : pub'[q] # NoPub}
        BY <2>1, <2>3 DEF TypeOK, Made
    <3>2. \A q \in Publication : pub'[q] # NoPub => pub'[q].always \subseteq pub'[q].ever
        BY <1>1, <2>2, <2>3 DEF TypeOK, Same, Made, Ongoing
    <3>3. scheduled' \in [Publication \X Sub -> Nat]
      <4>1. \A x \in Publication \X Sub : x[2] \in Sub /\ scheduled[x] \in Nat
          BY DEF TypeOK
      <4>2. \A x \in Publication \X Sub :
               (IF x[1] = p THEN RowsFor(p, x[2]) ELSE scheduled[x]) \in Nat
          BY <2>8, <4>1
      <4>. QED
          BY <2>1, <4>2
    <3>4. \A q \in Publication, s \in Sub :
             scheduled'[<<q, s>>] > 0 => Made(q)' /\ Kept(q)' /\ status'[s] = "active"
      <4> SUFFICES ASSUME NEW q \in Publication, NEW s \in Sub, scheduled'[<<q, s>>] > 0
                   PROVE  Made(q)' /\ Kept(q)' /\ status'[s] = "active"
          OBVIOUS
      <4>1. CASE q # p
          BY <2>1, <2>3, <2>6, <2>7, <4>1 DEF TypeOK
      <4>2. CASE q = p
        <5>1. \E x \in pub[p].read : x.sub = s
            BY <2>7, <4>2 DEF RowsFor
        <5>. QED
            BY <1>1, <1>3, <2>1, <2>3, <2>6, <4>2, <5>1 DEF Insertable, Ongoing
      <4>. QED
          BY <4>1, <4>2
    <3>. QED
        BY <2>1, <2>3, <3>1, <3>2, <3>3, <3>4 DEF TypeOK
  <2>10. PublicationsFit'
    <3> SUFFICES ASSUME NEW q \in Publication, Made(q)
                 PROVE  Fits(q)'
        BY <2>3 DEF PublicationsFit
    <3>1. PICK o \in Publication : o = Object(q)
        BY PublicationTypes
    <3>2. Object(q)' = o /\ (Resent(q)' => Resent(q))
        BY <2>4, <3>1 DEF Resent
    <3>3. Resent(q) => Made(o) /\ Past(o)
        BY <3>1 DEF PublicationsFit, Fits
    <3>4. Resent(q)' => Made(o)' /\ Past(o)'
        BY <2>3, <2>5, <3>2, <3>3
    <3>5. pub'[q].answer = "none" <=> pub'[q].pc # "done"
        BY <2>2, <2>3 DEF PublicationsFit, Fits
    <3>6. \A s \in pub'[q].always : status'[s] # "new"
        BY <1>1, <2>1, <2>2, <2>3 DEF PublicationsFit, Fits, Same
    <3>. QED
        BY <3>2, <3>4, <3>5, <3>6 DEF Fits, Made, Past
  <2>11. StoredOnce'
    <3>1. \A q \in stored : q \in Publication /\ Made(q)
        BY DEF TypeOK, Made
    <3>. QED
        BY <2>1, <2>4, <2>5, <3>1 DEF StoredOnce, Resent
  <2>16. Committed(p)' /\ \A q \in Publication : q # p => (Committed(q)' <=> Committed(q))
      BY <1>1, <2>2, <2>3 DEF Committed, Ongoing
  <2>12. RowsOfCommitted'
    <3> SUFFICES ASSUME NEW q \in Publication, NEW s \in Sub
                 PROVE  /\ scheduled'[<<q, s>>] <= 1
                        /\ scheduled'[<<q, s>>] > 0 => Committed(q)'
        BY DEF RowsOfCommitted
    <3>3. CASE q = p
        BY <2>7, <2>8, <2>16, <3>3
    <3>4. CASE q # p
        BY <2>7, <2>16, <3>4 DEF RowsOfCommitted
    <3>. QED
        BY <3>3, <3>4
  <2>17. CommittedHasAll'
    <3> SUFFICES ASSUME NEW q \in Publication, Committed(q)'
                 PROVE  HasAll(q)'
        BY DEF CommittedHasAll
    <3>1. \A x \in pub'[q].read : x.sub \in Sub
        BY <1>1, <2>2, <2>3, <2>16, PublicationTypes DEF Committed, Read, Ongoing
    <3>2. CASE q # p
      <4>1. Committed(q) /\ Made(q) /\ pub'[q] = pub[q] /\ HasAll(q)
          BY <2>3, <2>16, <3>2 DEF CommittedHasAll, Committed
      <4>. QED
          BY <2>1, <2>6, <2>7, <3>1, <3>2, <4>1 DEF HasAll
    <3>3. CASE q = p
      <4>1. \A x \in pub[p].read : status'[x.sub] = "active" /\ RowsFor(p, x.sub) = 1
          BY <1>3, <2>1 DEF Insertable, RowsFor
      <4>. QED
          BY <2>2, <2>3, <2>7, <3>1, <3>3, <4>1 DEF HasAll
    <3>. QED
        BY <3>2, <3>3
  <2>13. AlwaysWanted'
    <3>1. \A m : Wanted(m)' = Wanted(m)
        BY <2>1 DEF Wanted, Concerns
    <3>. QED
        BY <1>1, <2>2, <2>3, <2>4, <3>1 DEF AlwaysWanted, Ongoing, Same
  <2>14. AllCarried'
      BY <2>2, <2>3 DEF AllCarried, Carried
  <2>15. NoneMissed'
    <3> SUFFICES ASSUME NEW q \in Publication, Committed(q)', Kept(q)',
                        NEW s \in pub'[q].always, status'[s] = "active"
                 PROVE  scheduled'[<<q, s>>] > 0
        BY DEF NoneMissed
    <3>1. s \in Sub
        BY <1>1, <2>2, <2>3, <2>16, PublicationTypes DEF Committed, Same, Ongoing
    <3>2. CASE q # p
        BY <2>1, <2>3, <2>6, <2>7, <2>16, <3>1, <3>2 DEF NoneMissed, Committed
    <3>3. CASE q = p
      <4>1. \E x \in pub[p].read : x.sub = s
          BY <1>1, <2>2, <2>3, <3>3 DEF AllCarried, Carried, Same, Ongoing
      <4>. QED
          BY <2>7, <3>1, <3>3, <4>1 DEF RowsFor
    <3>. QED
        BY <3>2, <3>3
  <2>. QED
      BY <2>9, <2>10, <2>11, <2>12, <2>13, <2>14, <2>15, <2>17
<1>. QED
    BY <1>2, <1>3
\* A publication that begins is for whoever wants its message now.
LEMMA ReceiveMoves ==
    ASSUME PublicationInv, NEW p \in Publication, NEW m \in Message, NEW o \in Publication,
           Receive(p, m, o), o # p => o \in stored
    PROVE  PublicationInv'
<1>. USE DEF PublicationInv, database
<1> DEFINE r == [pc |-> "received", msg |-> m, object |-> o, read |-> {},
                 always |-> Wanted(m), ever |-> Wanted(m), answer |-> "none"]
<1>1. ~Made(p) /\ pub' = [pub EXCEPT ![p] = r] /\ UNCHANGED <<database, stored, scheduled, edits>>
    BY DEF Receive
<1>2. r \in PubRecord
    BY WantedAreSubs, RecordShape DEF Place, Reply, Reads, Subs
<1>3. /\ r.pc = "received" /\ r.msg = m /\ r.object = o /\ r.answer = "none"
      /\ r.always = Wanted(m) /\ r.ever = Wanted(m) /\ r # NoPub
    BY <1>2, RecordIsMade
<1>. HIDE DEF r
<1>4. /\ pub'[p] = r /\ \A q \in Publication \ {p} : pub'[q] = pub[q]
      /\ \A q \in Publication : Made(q)' <=> Made(q) \/ q = p
      /\ pub' \in [Publication -> PubRecord \cup {NoPub}]
    BY <1>1, <1>2, <1>3 DEF Made, TypeOK
<1>5. \A q \in Publication : Made(q) => q # p /\ pub'[q] = pub[q]
    BY <1>1, <1>4
<1>6. \A q \in Publication : Made(q) => Object(q)' = Object(q) /\ Msg(q)' = Msg(q)
    BY <1>5 DEF Object, Msg
<1>16. \A q \in Publication : Made(q) => (Kept(q) <=> Kept(q)')
    BY <1>1, <1>6 DEF Kept, HasParent, Resent
<1>7. \A q \in stored : q \in Publication /\ Made(q) /\ Made(q)'
    BY <1>4 DEF TypeOK, Made
<1>8. TypeOK'
  <2>1. stored' \subseteq {q \in Publication : pub'[q] # NoPub}
      BY <1>1, <1>7 DEF Made
  <2>2. \A q \in Publication : pub'[q] # NoPub => pub'[q].always \subseteq pub'[q].ever
      BY <1>3, <1>4 DEF TypeOK
  <2>3. \A q \in Publication, s \in Sub :
           scheduled'[<<q, s>>] > 0 => Made(q)' /\ Kept(q)' /\ status'[s] = "active"
      BY <1>1, <1>4, <1>16 DEF TypeOK
  <2>. QED
      BY <1>1, <1>4, <2>1, <2>2, <2>3 DEF TypeOK
<1>9. PublicationsFit'
  <2> SUFFICES ASSUME NEW q \in Publication, Made(q)'
               PROVE  Fits(q)'
      BY DEF PublicationsFit
  <2>1. CASE q = p
    <3>1. Object(q)' = o
        BY <1>3, <1>4, <2>1 DEF Object
    <3>2. o # p => Made(o)' /\ Past(o)'
        BY <1>5, <1>7 DEF StoredOnce, Past
    <3>3. \A s \in Wanted(m) : status'[s] # "new"
        BY <1>1 DEF Wanted
    <3>. QED
        BY <1>3, <1>4, <2>1, <3>1, <3>2, <3>3 DEF Fits, Resent, Made, Past
  <2>2. CASE q # p
    <3>1. Made(q) /\ pub'[q] = pub[q] /\ Fits(q)
        BY <1>4, <2>2 DEF PublicationsFit
    <3>2. PICK z \in Publication : z = Object(q)
        BY <3>1, PublicationTypes
    <3>3. Object(q)' = z /\ (Resent(q)' => Made(z) /\ Past(z))
        BY <1>6, <3>1, <3>2 DEF Fits, Resent
    <3>4. Made(z) => Made(z)' /\ (Past(z) => Past(z)')
        BY <1>4, <1>5 DEF Past
    <3>. QED
        BY <1>1, <3>1, <3>3, <3>4 DEF Fits, Made, Past
  <2>. QED
      BY <2>1, <2>2
<1>10. StoredOnce'
    BY <1>1, <1>5, <1>6, <1>7 DEF StoredOnce, Resent, Past
<1>11. \A q \in Publication : Committed(q)' <=> Committed(q)
    BY <1>1, <1>3, <1>4 DEF Committed
<1>12. RowsOfCommitted'
    BY <1>1, <1>11 DEF RowsOfCommitted
<1>17. CommittedHasAll'
    BY <1>1, <1>5, <1>11, <1>16 DEF CommittedHasAll, HasAll, Committed
<1>13. AlwaysWanted'
  <2>1. \A n : Wanted(n)' = Wanted(n)
      BY <1>1 DEF Wanted, Concerns
  <2>. QED
      BY <1>3, <1>4, <2>1 DEF AlwaysWanted, Ongoing, Msg
<1>14. AllCarried'
    BY <1>3, <1>4 DEF AllCarried, Carried
<1>15. NoneMissed'
    BY <1>1, <1>5, <1>11, <1>16 DEF NoneMissed, Committed
<1>. QED
    BY <1>8, <1>9, <1>10, <1>12, <1>13, <1>14, <1>15, <1>17
-----------------------------------------------------------------------------
(* What goes on around publications.                                         *)

\* Ongoing publications follow what is wanted; the others stay as they are.
LEMMA Observed ==
    ASSUME Observe, NEW p \in Publication, NEW m \in Message
    PROVE  /\ ~Ongoing(p) => pub'[p] = pub[p]
           /\ Ongoing(p) /\ Msg(p) = m => pub'[p] = Followed(pub[p], Wanted(m)')
<1> DEFINE W == [n \in Message |-> Wanted(n)]
<1>1. pub' = [q \in Publication |->
                IF Ongoing(q) THEN [pub[q] EXCEPT !.always = @ \cap W'[Msg(q)],
                                                  !.ever = @ \cup W'[Msg(q)]]
                ELSE pub[q]]
    BY DEF Observe
<1>2. W'[m] = Wanted(m)'
    OBVIOUS
<1>. HIDE DEF W
<1>. QED
    BY <1>1, <1>2 DEF Followed
\* The types of the tables that publications only read.
TablesOK ==
    /\ DOMAIN kanaal \subseteq Naam /\ kanaal \in [DOMAIN kanaal -> SUBSET Key]
    /\ status \in [Sub -> {"new", "active", "deleted"}] /\ sendCE \in [Sub -> BOOLEAN]
    /\ groups \in [Sub -> SUBSET Group]
    /\ \A s \in Sub : \A g \in groups[s] : g.id <= edits /\ status[s] = "active"
    /\ edits \in 0..MaxEdits

\* The object that the rows of a publication refer to is in S.
KeptIn(p, S) == HasParent(p) => Object(p) \in S

\* A change of the database preserves the invariant, if it deletes no more rows than those
\* of the subscriptions and objects that it deletes, and leaves none of these.
LEMMA Change ==
    ASSUME PublicationInv, TablesOK', stored' \subseteq stored,
           scheduled' \in [Publication \X Sub -> Nat],
           \A s \in Sub : /\ status'[s] = "new" => status[s] = "new"
                          /\ status'[s] = "active" => status[s] \in {"new", "active"},
           \A p \in Publication, s \in Sub :
              IF Made(p) /\ KeptIn(p, stored') /\ status'[s] = "active"
                THEN scheduled'[<<p, s>>] = scheduled[<<p, s>>]
                ELSE scheduled'[<<p, s>>] = 0,
           Observe \/ UNCHANGED <<pub, status, sendCE, groups>>
    PROVE  PublicationInv'
<1>. USE DEF PublicationInv
<1> DEFINE Kin(q, t) == /\ t.pc = pub[q].pc /\ t.msg = pub[q].msg /\ t.object = pub[q].object
                        /\ t.read = pub[q].read /\ t.answer = pub[q].answer
                        /\ t.always \subseteq pub[q].always /\ t.always \subseteq t.ever
<1>1. /\ pub' \in [Publication -> PubRecord \cup {NoPub}]
      /\ \A q \in Publication : ~Ongoing(q) => pub'[q] = pub[q]
      /\ \A q \in Publication : Ongoing(q) => pub'[q] \in PubRecord /\ Kin(q, pub'[q])
      /\ \A q \in Publication, m \in Message :
            Ongoing(q) /\ Msg(q) = m => pub'[q].always \subseteq Wanted(m)'
  <2>1. CASE Observe
    <3>1. ASSUME NEW q \in Publication, Ongoing(q)
          PROVE  /\ pub'[q] \in PubRecord /\ Kin(q, pub'[q])
                 /\ \A m \in Message : Msg(q) = m => pub'[q].always \subseteq Wanted(m)'
      <4>1. PICK m \in Message : m = Msg(q)
          BY <3>1, PublicationTypes DEF Ongoing
      <4>2. pub'[q] = Followed(pub[q], Wanted(m)')
          BY <2>1, <3>1, <4>1, Observed
      <4>3. PICK W \in Subs : W = Wanted(m)'
          BY DEF Wanted, Subs
      <4>4. pub[q] \in PubRecord /\ pub[q].always \subseteq pub[q].ever
          BY <3>1, PublicationTypes DEF Ongoing
      <4>5. LET t == Followed(pub[q], W) IN t \in PubRecord /\ Kin(q, t) /\ t.always \subseteq W
          BY <4>4, Watched
      <4>. QED
          BY <4>1, <4>2, <4>3, <4>5
    <3>2. \A q \in Publication : ~Ongoing(q) => pub'[q] = pub[q]
      <4> SUFFICES ASSUME NEW q \in Publication, ~Ongoing(q)
                   PROVE  pub'[q] = pub[q]
          OBVIOUS
      <4>. QED
          BY <2>1 DEF Observe
    <3>3. pub' = [q \in Publication |-> pub'[q]]
        BY <2>1 DEF Observe
    <3>4. \A q \in Publication : pub'[q] \in PubRecord \cup {NoPub}
        BY <3>1, <3>2 DEF TypeOK
    <3>. QED
        BY <3>1, <3>2, <3>3, <3>4
  <2>2. CASE UNCHANGED <<pub, status, sendCE, groups>>
    <3>1. \A m : Wanted(m)' = Wanted(m)
        BY <2>2 DEF Wanted, Concerns
    <3>2. \A q \in Publication : Ongoing(q) => Kin(q, pub[q]) /\ pub[q] \in PubRecord
        BY PublicationTypes DEF Ongoing
    <3>. QED
        BY <2>2, <3>1, <3>2 DEF TypeOK, AlwaysWanted
  <2>. QED
      BY <2>1, <2>2
<1>2. ASSUME NEW q \in Publication
      PROVE  /\ Made(q)' <=> Made(q)
             /\ Made(q) => Kin(q, pub'[q])
  <2>1. Ongoing(q) => Made(q) /\ Made(q)'
      BY <1>1, RecordIsMade DEF Ongoing, Made
  <2>2. ~Ongoing(q) => (Made(q)' <=> Made(q))
      BY <1>1 DEF Made
  <2>3. Made(q) => Kin(q, pub[q])
      BY PublicationTypes
  <2>. QED
      BY <1>1, <2>1, <2>2, <2>3
<1>. HIDE DEF Kin
<1>3. ASSUME NEW q \in Publication, Made(q)
      PROVE  /\ Msg(q)' = Msg(q) /\ Object(q)' = Object(q) /\ pub'[q].pc = pub[q].pc
             /\ pub'[q].answer = pub[q].answer /\ pub'[q].always \subseteq pub[q].always
             /\ pub'[q].read = pub[q].read
    BY <1>2, <1>3 DEF Kin, Msg, Object
<1>4. \A q \in Publication : Made(q) => (Kept(q)' <=> KeptIn(q, stored'))
    BY <1>3 DEF Kept, KeptIn, HasParent, Resent
<1>5. \A q \in Publication : Committed(q)' <=> Committed(q)
    BY <1>2, <1>3 DEF Committed
<1>6. TypeOK'
  <2>1. stored' \subseteq {q \in Publication : pub'[q] # NoPub}
      BY <1>2 DEF TypeOK, Made
  <2>2. \A q \in Publication : pub'[q] # NoPub => pub'[q].always \subseteq pub'[q].ever
      BY <1>2 DEF Made, Kin
  <2>3. \A q \in Publication, s \in Sub :
           scheduled'[<<q, s>>] > 0 => Made(q)' /\ Kept(q)' /\ status'[s] = "active"
      BY <1>2, <1>4
  <2>. QED
      BY <1>1, <2>1, <2>2, <2>3 DEF TypeOK, TablesOK
<1>7. PublicationsFit'
  <2> SUFFICES ASSUME NEW q \in Publication, Made(q)
               PROVE  Fits(q)'
      BY <1>2 DEF PublicationsFit
  <2>1. PICK o \in Publication : o = Object(q)
      BY PublicationTypes
  <2>2. Object(q)' = o /\ (Resent(q)' => Resent(q))
      BY <1>3, <2>1 DEF Resent
  <2>3. Resent(q) => Made(o) /\ Past(o)
      BY <2>1 DEF PublicationsFit, Fits
  <2>4. Resent(q)' => Made(o)' /\ Past(o)'
      BY <1>2, <1>3, <2>2, <2>3 DEF Past
  <2>5. pub'[q].answer = "none" <=> pub'[q].pc # "done"
      BY <1>3 DEF PublicationsFit, Fits
  <2>6. \A s \in pub'[q].always : status'[s] # "new"
      BY <1>3, PublicationTypes DEF PublicationsFit, Fits
  <2>. QED
      BY <2>2, <2>4, <2>5, <2>6 DEF Fits, Made, Past
<1>8. StoredOnce'
  <2>1. \A q \in stored : q \in Publication /\ Made(q)
      BY DEF TypeOK, Made
  <2>. QED
      BY <1>3, <2>1 DEF StoredOnce, Resent, Past
<1>9. RowsOfCommitted'
  <2> SUFFICES ASSUME NEW q \in Publication, NEW s \in Sub
               PROVE  /\ scheduled'[<<q, s>>] <= 1
                      /\ scheduled'[<<q, s>>] > 0 => Committed(q)'
      BY DEF RowsOfCommitted
  <2>1. scheduled'[<<q, s>>] \in {0, scheduled[<<q, s>>]}
      OBVIOUS
  <2>. QED
      BY <1>5, <2>1 DEF RowsOfCommitted
<1>13. CommittedHasAll'
  <2> SUFFICES ASSUME NEW q \in Publication, Committed(q)', NEW x \in pub'[q].read
               PROVE  /\ status'[x.sub] # "new"
                      /\ Kept(q)' /\ status'[x.sub] = "active" => scheduled'[<<q, x.sub>>] > 0
      BY DEF CommittedHasAll, HasAll
  <2>1. Committed(q) /\ Made(q) /\ x \in pub[q].read /\ x.sub \in Sub
      BY <1>3, <1>5, PublicationTypes DEF Committed, Read
  <2>2. /\ status[x.sub] # "new"
        /\ Kept(q) /\ status[x.sub] = "active" => scheduled[<<q, x.sub>>] > 0
      BY <2>1 DEF CommittedHasAll, HasAll
  <2>3. Kept(q)' => Kept(q) /\ KeptIn(q, stored')
      BY <1>4, <2>1 DEF Kept, KeptIn
  <2>. QED
      BY <2>1, <2>2, <2>3
<1>10. AlwaysWanted'
  <2> SUFFICES ASSUME NEW q \in Publication, Ongoing(q)'
               PROVE  pub'[q].always \subseteq Wanted(Msg(q))'
      BY DEF AlwaysWanted
  <2>1. Ongoing(q)
      BY <1>2, <1>3 DEF Ongoing
  <2>2. PICK m \in Message : m = Msg(q)
      BY <2>1, PublicationTypes DEF Ongoing
  <2>3. Msg(q)' = m /\ pub'[q].always \subseteq Wanted(m)'
      BY <1>1, <1>3, <2>1, <2>2 DEF Ongoing
  <2>. QED
      BY <2>3
<1>11. AllCarried'
    BY <1>2 DEF AllCarried, Carried, Kin
<1>12. NoneMissed'
  <2> SUFFICES ASSUME NEW q \in Publication, Committed(q)', Kept(q)',
                      NEW s \in pub'[q].always, status'[s] = "active"
               PROVE  scheduled'[<<q, s>>] > 0
      BY DEF NoneMissed
  <2>1. Committed(q) /\ Made(q) /\ s \in pub[q].always /\ s \in Sub
      BY <1>3, <1>5, PublicationTypes DEF Committed
  <2>2. status[s] = "active"
      BY <2>1 DEF PublicationsFit, Fits
  <2>3. Kept(q) /\ KeptIn(q, stored')
      BY <1>4, <2>1 DEF Kept, KeptIn
  <2>. QED
      BY <2>1, <2>2, <2>3 DEF NoneMissed
<1>. QED
    BY <1>6, <1>7, <1>8, <1>9, <1>10, <1>11, <1>12, <1>13
\* The groups of a request are groups, and have its id.
LEMMA GroupsAreNew ==
    ASSUME NEW F \in FilterSets, NEW id \in 0..MaxEdits
    PROVE  GroupsFrom(F, id) \subseteq Group /\ \A g \in GroupsFrom(F, id) : g.id = id
<1>1. F \subseteq Topic \X Seq(FilterRecord)
    BY PublicationAssumption
<1>. QED
    BY <1>1 DEF GroupsFrom, Group

\* Changes are counted, up to the bound.
LEMMA EditCounts ==
    ASSUME TypeOK, NEW op, Edit(op)
    PROVE  edits' \in 0..MaxEdits /\ edits' = edits + 1
BY PublicationAssumption DEF TypeOK, Edit

\* A subscription comes, or has its groups replaced.
LEMMA SetGroupsChanges ==
    ASSUME PublicationInv, NEW s \in Sub, NEW F \in FilterSets, Subscribe(s, F) \/ Replace(s, F)
    PROVE  PublicationInv'
<1>1. /\ edits' \in 0..MaxEdits /\ edits' = edits + 1
      /\ groups' = [groups EXCEPT ![s] = GroupsFrom(F, edits')]
      /\ status[s] \in {"new", "active"} /\ status' = [status EXCEPT ![s] = "active"]
      /\ UNCHANGED <<kanaal, sendCE, stored, scheduled>> /\ Observe
  <2>1. edits' \in 0..MaxEdits /\ edits' = edits + 1
      BY EditCounts DEF Subscribe, Replace, PublicationInv
  <2>2. status \in [Sub -> {"new", "active", "deleted"}]
      BY DEF PublicationInv, TypeOK
  <2>. QED
      BY <2>1, <2>2 DEF Subscribe, Replace
<1>2. PICK G \in SUBSET Group :
         groups' = [groups EXCEPT ![s] = G] /\ \A g \in G : g.id = edits'
    BY <1>1, GroupsAreNew
<1>3. TablesOK'
  <2>1. \A t \in Sub : \A g \in groups'[t] : g.id <= edits' /\ status'[t] = "active"
    <3> SUFFICES ASSUME NEW t \in Sub, NEW g \in groups'[t]
                 PROVE  g.id <= edits' /\ status'[t] = "active"
        OBVIOUS
    <3>1. CASE t = s
        BY <1>1, <1>2, <3>1 DEF PublicationInv, TypeOK
    <3>2. CASE t # s
      <4>1. g \in groups[t] /\ g \in Group /\ status'[t] = status[t]
          BY <1>1, <1>2, <3>2 DEF PublicationInv, TypeOK
      <4>2. g.id \in Nat /\ g.id <= edits /\ edits \in Nat
          BY <4>1 DEF PublicationInv, TypeOK, Group
      <4>. QED
          BY <1>1, <4>1, <4>2 DEF PublicationInv, TypeOK
    <3>. QED
        BY <3>1, <3>2
  <2>. QED
      BY <1>1, <1>2, <2>1 DEF PublicationInv, TypeOK, TablesOK
<1>4. \A p \in Publication, t \in Sub :
         IF Made(p) /\ KeptIn(p, stored') /\ status'[t] = "active"
           THEN scheduled'[<<p, t>>] = scheduled[<<p, t>>] ELSE scheduled'[<<p, t>>] = 0
  <2> SUFFICES ASSUME NEW p \in Publication, NEW t \in Sub, scheduled[<<p, t>>] # 0
               PROVE  Made(p) /\ KeptIn(p, stored) /\ status'[t] = "active"
      BY <1>1
  <2>1. scheduled[<<p, t>>] > 0
      BY DEF PublicationInv, TypeOK
  <2>. QED
      BY <1>1, <2>1 DEF PublicationInv, TypeOK, KeptIn, Kept
<1>5. \A t \in Sub : /\ status'[t] = "new" => status[t] = "new"
                     /\ status'[t] = "active" => status[t] \in {"new", "active"}
    BY <1>1 DEF PublicationInv, TypeOK
<1>6. scheduled' \in [Publication \X Sub -> Nat] /\ stored' \subseteq stored
    BY <1>1 DEF PublicationInv, TypeOK
<1>. QED
    BY <1>1, <1>3, <1>4, <1>5, <1>6, Change

\* A subscription is deleted, with its groups and rows.
LEMMA UnsubscribeChanges ==
    ASSUME PublicationInv, NEW s \in Sub, Unsubscribe(s)
    PROVE  PublicationInv'
<1>1. /\ edits' \in 0..MaxEdits /\ edits' = edits + 1
      /\ groups' = [groups EXCEPT ![s] = {}] /\ status' = [status EXCEPT ![s] = "deleted"]
      /\ scheduled' = [x \in Publication \X Sub |-> IF x[2] = s THEN 0 ELSE scheduled[x]]
      /\ UNCHANGED <<kanaal, sendCE, stored>> /\ Observe
    BY EditCounts DEF Unsubscribe, PublicationInv
<1>2. TablesOK'
  <2>1. \A t \in Sub : \A g \in groups'[t] : g.id <= edits' /\ status'[t] = "active"
    <3> SUFFICES ASSUME NEW t \in Sub, NEW g \in groups'[t]
                 PROVE  g.id <= edits' /\ status'[t] = "active"
        OBVIOUS
    <3>1. t # s /\ g \in groups[t] /\ g \in Group /\ status'[t] = status[t]
        BY <1>1 DEF PublicationInv, TypeOK
    <3>2. g.id \in Nat /\ g.id <= edits /\ edits \in Nat
        BY <3>1 DEF PublicationInv, TypeOK, Group
    <3>. QED
        BY <1>1, <3>1, <3>2 DEF PublicationInv, TypeOK
  <2>. QED
      BY <1>1, <2>1 DEF PublicationInv, TypeOK, TablesOK
<1>3. \A p \in Publication, t \in Sub :
         IF Made(p) /\ KeptIn(p, stored') /\ status'[t] = "active"
           THEN scheduled'[<<p, t>>] = scheduled[<<p, t>>] ELSE scheduled'[<<p, t>>] = 0
  <2> SUFFICES ASSUME NEW p \in Publication, NEW t \in Sub
               PROVE  IF Made(p) /\ KeptIn(p, stored') /\ status'[t] = "active"
                        THEN scheduled'[<<p, t>>] = scheduled[<<p, t>>]
                        ELSE scheduled'[<<p, t>>] = 0
      OBVIOUS
  <2>1. scheduled'[<<p, t>>] = IF t = s THEN 0 ELSE scheduled[<<p, t>>]
      BY <1>1
  <2>2. scheduled[<<p, t>>] # 0 => Made(p) /\ KeptIn(p, stored) /\ status[t] = "active"
      BY DEF PublicationInv, TypeOK, KeptIn, Kept
  <2>3. status'[t] = IF t = s THEN "deleted" ELSE status[t]
      BY <1>1 DEF PublicationInv, TypeOK
  <2>. QED
      BY <1>1, <2>1, <2>2, <2>3
<1>4. \A t \in Sub : /\ status'[t] = "new" => status[t] = "new"
                     /\ status'[t] = "active" => status[t] \in {"new", "active"}
    BY <1>1 DEF PublicationInv, TypeOK
<1>5. scheduled' \in [Publication \X Sub -> Nat] /\ stored' \subseteq stored
  <2>1. \A x \in Publication \X Sub : (IF x[2] = s THEN 0 ELSE scheduled[x]) \in Nat
      BY DEF PublicationInv, TypeOK
  <2>. QED
      BY <1>1, <2>1
<1>. QED
    BY <1>1, <1>2, <1>3, <1>4, <1>5, Change
\* Rows are there for subscriptions and objects that are.
LEMMA RowsRefer ==
    ASSUME TypeOK, NEW p \in Publication, NEW s \in Sub
    PROVE  /\ scheduled[<<p, s>>] \in Nat
           /\ scheduled[<<p, s>>] # 0 => Made(p) /\ KeptIn(p, stored) /\ status[s] = "active"
<1>1. scheduled[<<p, s>>] \in Nat
    BY DEF TypeOK
<1>2. scheduled[<<p, s>>] > 0 => Made(p) /\ Kept(p) /\ status[s] = "active"
    BY DEF TypeOK
<1>. QED
    BY <1>1, <1>2 DEF KeptIn, Kept

\* A subscription changes the kind of message it is sent, or a channel its filters.
LEMMA SettingChanges ==
    ASSUME PublicationInv,
           \/ \E s \in Sub : Switch(s)
           \/ \E n \in Naam, keys \in KeySets : SetKanaal(n, keys)
    PROVE  PublicationInv'
<1>1. /\ edits' \in 0..MaxEdits /\ edits' = edits + 1
      /\ UNCHANGED <<status, groups, stored, scheduled>>
      /\ Observe \/ UNCHANGED <<pub, status, sendCE, groups>>
    BY EditCounts DEF Switch, SetKanaal, PublicationInv
<1>2. /\ sendCE' \in [Sub -> BOOLEAN]
      /\ DOMAIN kanaal' \subseteq Naam /\ kanaal' \in [DOMAIN kanaal' -> SUBSET Key]
  <2>1. CASE \E s \in Sub : Switch(s)
      BY <2>1 DEF Switch, PublicationInv, TypeOK
  <2>2. ASSUME NEW n \in Naam, NEW keys \in KeySets, SetKanaal(n, keys)
        PROVE  /\ sendCE' \in [Sub -> BOOLEAN]
               /\ DOMAIN kanaal' \subseteq Naam /\ kanaal' \in [DOMAIN kanaal' -> SUBSET Key]
    <3>1. /\ kanaal' = [k \in DOMAIN kanaal \cup {n} |-> IF k = n THEN keys ELSE kanaal[k]]
          /\ sendCE' = sendCE
        BY <2>2 DEF SetKanaal
    <3>. QED
        BY <3>1, PublicationAssumption DEF PublicationInv, TypeOK
  <2>. QED
      BY <2>1, <2>2
<1>3. TablesOK'
  <2>1. \A t \in Sub : \A g \in groups[t] : g.id \in Nat /\ g.id <= edits
      BY DEF PublicationInv, TypeOK, Group
  <2>2. \A t \in Sub : \A g \in groups'[t] : g.id <= edits' /\ status'[t] = "active"
      BY <1>1, <2>1 DEF PublicationInv, TypeOK
  <2>. QED
      BY <1>1, <1>2, <2>2 DEF PublicationInv, TypeOK, TablesOK
<1>4. \A p \in Publication, t \in Sub :
         IF Made(p) /\ KeptIn(p, stored') /\ status'[t] = "active"
           THEN scheduled'[<<p, t>>] = scheduled[<<p, t>>] ELSE scheduled'[<<p, t>>] = 0
    BY <1>1, RowsRefer DEF PublicationInv
<1>. QED
    BY <1>1, <1>3, <1>4, Change DEF PublicationInv, TypeOK

\* Objects are deleted, with their rows.
LEMMA DeleteRemoves ==
    ASSUME TypeOK, NEW R, Delete(R), status' = status
    PROVE  /\ stored' \subseteq stored /\ scheduled' \in [Publication \X Sub -> Nat]
           /\ \A p \in Publication, t \in Sub :
                 IF Made(p) /\ KeptIn(p, stored') /\ status'[t] = "active"
                   THEN scheduled'[<<p, t>>] = scheduled[<<p, t>>] ELSE scheduled'[<<p, t>>] = 0
<1> DEFINE Goes(p) == Made(p) /\ HasParent(p) /\ Object(p) \in R
<1>1. /\ stored' = stored \ R
      /\ scheduled' = [x \in Publication \X Sub |-> IF Goes(x[1]) THEN 0 ELSE scheduled[x]]
    BY DEF Delete
<1>2. ASSUME NEW p \in Publication, NEW t \in Sub
      PROVE  IF Made(p) /\ KeptIn(p, stored') /\ status'[t] = "active"
               THEN scheduled'[<<p, t>>] = scheduled[<<p, t>>] ELSE scheduled'[<<p, t>>] = 0
  <2>1. scheduled'[<<p, t>>] = IF Goes(p) THEN 0 ELSE scheduled[<<p, t>>]
      BY <1>1
  <2>2. KeptIn(p, stored') <=> KeptIn(p, stored) /\ (HasParent(p) => Object(p) \notin R)
      BY <1>1 DEF KeptIn
  <2>. QED
      BY <2>1, <2>2, RowsRefer
<1>3. \A x \in Publication \X Sub : (IF Goes(x[1]) THEN 0 ELSE scheduled[x]) \in Nat
    BY DEF TypeOK
<1>4. scheduled' \in [Publication \X Sub -> Nat]
    BY <1>1, <1>3
<1>. QED
    BY <1>1, <1>2, <1>4

\* A channel is deleted with its groups and notifications, or a stored object is.
LEMMA DeletionChanges ==
    ASSUME PublicationInv,
           (\E n \in Naam : DeleteKanaal(n)) \/ (\E q \in Publication : Purge(q))
    PROVE  PublicationInv'
<1>1. /\ edits' \in 0..MaxEdits /\ edits' = edits + 1 /\ UNCHANGED <<status, sendCE>>
      /\ Observe \/ UNCHANGED <<pub, status, sendCE, groups>>
      /\ \E R : Delete(R)
    BY EditCounts DEF DeleteKanaal, Purge, PublicationInv, database
<1>2. /\ DOMAIN kanaal' \subseteq Naam /\ kanaal' \in [DOMAIN kanaal' -> SUBSET Key]
      /\ \A s \in Sub : groups'[s] \subseteq groups[s]
      /\ groups' \in [Sub -> SUBSET Group]
  <2>1. ASSUME NEW n \in Naam, DeleteKanaal(n)
        PROVE  /\ DOMAIN kanaal' \subseteq Naam /\ kanaal' \in [DOMAIN kanaal' -> SUBSET Key]
               /\ \A s \in Sub : groups'[s] \subseteq groups[s]
               /\ groups' \in [Sub -> SUBSET Group]
    <3>1. /\ kanaal' = [k \in DOMAIN kanaal \ {n} |-> kanaal[k]]
          /\ groups' = [s \in Sub |-> {g \in groups[s] : g.on # n}]
        BY <2>1 DEF DeleteKanaal
    <3>. QED
        BY <3>1 DEF PublicationInv, TypeOK
  <2>2. CASE \E q \in Publication : Purge(q)
      BY <2>2 DEF Purge, database, PublicationInv, TypeOK
  <2>. QED
      BY <2>1, <2>2
<1>3. TablesOK'
  <2>1. \A t \in Sub : \A g \in groups[t] : g.id \in Nat /\ g.id <= edits
      BY DEF PublicationInv, TypeOK, Group
  <2>2. \A t \in Sub : \A g \in groups'[t] : g.id <= edits' /\ status'[t] = "active"
      BY <1>1, <1>2, <2>1 DEF PublicationInv, TypeOK
  <2>. QED
      BY <1>1, <1>2, <2>2 DEF PublicationInv, TypeOK, TablesOK
<1>. QED
    BY <1>1, <1>3, DeleteRemoves, Change DEF PublicationInv, TypeOK
-----------------------------------------------------------------------------
(* The invariant.                                                            *)

\* It holds at first.
LEMMA InitInvariant ==
    ASSUME Init
    PROVE  PublicationInv
<1>. USE DEF Init
<1>1. \A p \in Publication : pub[p] = NoPub /\ ~Made(p)
    BY DEF Made
<1>2. \A x \in Publication \X Sub : scheduled[x] = 0
    OBVIOUS
<1>3. PICK F \in [Sub -> FilterSets] :
         groups = [s \in Sub |-> IF status[s] = "active" THEN GroupsFrom(F[s], 0) ELSE {}]
    OBVIOUS
<1>4. TypeOK
  <2>1. 0 \in 0..MaxEdits
      BY PublicationAssumption
  <2>2. /\ groups \in [Sub -> SUBSET Group]
        /\ \A s \in Sub : \A g \in groups[s] : g.id <= edits /\ status[s] = "active"
      BY <1>3, <2>1, GroupsAreNew
  <2>3. pub \in [Publication -> PubRecord \cup {NoPub}]
      OBVIOUS
  <2>4. scheduled \in [Publication \X Sub -> Nat]
      OBVIOUS
  <2>. QED
      BY <1>1, <1>2, <2>1, <2>2, <2>3, <2>4, PublicationAssumption DEF TypeOK
<1>5. PublicationsFit /\ AllCarried /\ AlwaysWanted /\ NoneMissed
    BY <1>1 DEF PublicationsFit, AllCarried, AlwaysWanted, Ongoing, NoneMissed,
       Committed
<1>6. StoredOnce /\ RowsOfCommitted /\ CommittedHasAll
    BY <1>1, <1>2 DEF StoredOnce, RowsOfCommitted, CommittedHasAll, Committed
<1>. QED
    BY <1>4, <1>5, <1>6 DEF PublicationInv

\* It is preserved by every step.
LEMMA StepInvariant ==
    ASSUME PublicationInv, [Next]_vars
    PROVE  PublicationInv'
<1>1. ASSUME NEW p \in Publication, Validate(p)
      PROVE  PublicationInv'
  <2>1. Ongoing(p) /\ pub[p].pc = "received"
      BY <1>1, PublicationTypes DEF Validate, Ongoing, PublicationInv
  <2>. QED
      BY <1>1, <2>1, GotoMoves, FinishMoves DEF Validate, Reply
<1>2. ASSUME NEW p \in Publication, Store(p)
      PROVE  PublicationInv'
  <2>1. Ongoing(p) /\ pub[p].pc = "valid"
      BY <1>2, PublicationTypes DEF Store, Ongoing, PublicationInv
  <2>2. CASE Logs(p) /\ ~Storable(p)
      BY <1>2, <2>1, <2>2, FinishMoves DEF Store, Reply
  <2>3. CASE ~(Logs(p) /\ ~Storable(p))
      BY <1>2, <2>1, <2>3, GotoMoves DEF Store, Logs
  <2>. QED
      BY <2>2, <2>3
<1>3. ASSUME NEW p \in Publication, QueryGroups(p) \/ QueryFilters(p) \/ Schedule(p)
      PROVE  PublicationInv'
    BY <1>3, QueryGroupsMoves, QueryFiltersMoves, ScheduleMoves
<1>4. ASSUME NEW p \in Publication, Respond(p) \/ Crash(p)
      PROVE  PublicationInv'
  <2>1. Ongoing(p)
      BY <1>4, PublicationTypes DEF Respond, Crash, Ongoing, PublicationInv
  <2>. QED
      BY <1>4, <2>1, FinishMoves DEF Respond, Crash, Reply
<1>5. ASSUME NEW p \in Publication, NEW m \in Message, Post(p, m)
      PROVE  PublicationInv'
    BY <1>5, ReceiveMoves DEF Post
<1>6. ASSUME NEW p \in Publication, NEW q \in Publication, Resend(p, q)
      PROVE  PublicationInv'
  <2>1. q \in stored /\ Msg(q) \in Message
      BY <1>6, PublicationTypes DEF Resend, PublicationInv, TypeOK, Made
  <2>. QED
      BY <1>6, <2>1, ReceiveMoves DEF Resend
<1>7. CASE Surroundings
    BY <1>7, SetGroupsChanges, UnsubscribeChanges, SettingChanges, DeletionChanges
       DEF Surroundings
<1>8. CASE UNCHANGED vars
  <2>1. UNCHANGED <<kanaal, status, sendCE, groups, stored, pub, scheduled, edits>>
      BY <1>8 DEF vars, database
  <2>. QED
      BY <2>1 DEF PublicationInv, TypeOK, PublicationsFit, Fits, StoredOnce, RowsOfCommitted,
         CommittedHasAll, HasAll, AlwaysWanted, AllCarried, NoneMissed, Past, Made, Ongoing,
         Resent, Object, Msg, Committed, Kept, HasParent, Wanted, Concerns
<1>. QED
    BY <1>1, <1>2, <1>3, <1>4, <1>5, <1>6, <1>7, <1>8 DEF Next, Step

LEMMA Invariant == Spec => []PublicationInv
BY InitInvariant, StepInvariant, PTL DEF Spec
-----------------------------------------------------------------------------
(* Theorems.                                                                 *)

\* Tables and publications keep their shape; rows refer to subscriptions and stored
\* objects that exist (the foreign keys of ScheduledNotification).
THEOREM TypeCorrect == Spec => []TypeOK
BY Invariant, PTL DEF PublicationInv

\* For any number of publications, subscriptions and changes around them: nobody whose
\* filters wanted a message all along is left out of a publication that succeeds,
\* although the groups and their filters are read by two queries (_get_subs).
THEOREM NobodyLeftOut == Spec => []NoneMissed
BY Invariant, PTL DEF PublicationInv

\* A publication has rows for all subscriptions that it matched, or for none: all when it
\* is answered with success, none when it is refused or fails, and either when it dies,
\* whatever was deleted meanwhile (_schedule_notification, NotificatieAPIView.post).
THEOREM AllRowsOrNone == Spec => []AllOrNothing
<1>1. PublicationInv => AllOrNothing
  <2> SUFFICES ASSUME PublicationInv, NEW p \in Publication, Made(p)
               PROVE  /\ NoRows(p) \/ AllRows(p)
                      /\ pub[p].answer \in {"invalid", "failed"} => NoRows(p)
                      /\ pub[p].answer = "created" /\ Kept(p) => AllRows(p)
      BY DEF AllOrNothing
  <2>1. \A s \in Sub : /\ scheduled[<<p, s>>] \in Nat
                       /\ scheduled[<<p, s>>] > 0 => Committed(p) /\ Kept(p)
      BY DEF PublicationInv, TypeOK, RowsOfCommitted
  <2>2. NoRows(p) \/ (Committed(p) /\ Kept(p))
      BY <2>1 DEF NoRows
  <2>3. Committed(p) /\ Kept(p) => AllRows(p)
      BY DEF AllRows, PublicationInv, CommittedHasAll, HasAll
  <2>4. pub[p].answer \in {"invalid", "failed"} => ~Committed(p)
      BY DEF PublicationInv, PublicationsFit, Fits, Committed
  <2>5. pub[p].answer = "created" => Committed(p)
      BY DEF Committed
  <2>. QED
      BY <2>2, <2>3, <2>4, <2>5
<1>. QED
    BY <1>1, Invariant, PTL

\* While messages are logged in the database, a subscription has one row at most of a
\* publication, and one POST at most of a stored event has rows, however POSTs of it
\* overlap (validate, create, the unique key of CloudEvent).
THEOREM OneRowEach == ASSUME LogInDb PROVE Spec => []OneRowPerSub
<1>1. PublicationInv => OneRowPerSub
  <2> SUFFICES ASSUME PublicationInv
               PROVE  OneRowPerSub
      OBVIOUS
  <2>1. \A x \in Publication \X Sub : scheduled[x] <= 1
    <3> SUFFICES ASSUME NEW x \in Publication \X Sub
                 PROVE  scheduled[x] <= 1
        OBVIOUS
    <3>1. x = <<x[1], x[2]>> /\ x[1] \in Publication /\ x[2] \in Sub
        OBVIOUS
    <3>2. scheduled[<<x[1], x[2]>>] <= 1
        BY <3>1 DEF PublicationInv, RowsOfCommitted
    <3>. QED
        BY <3>1, <3>2
  <2>2. \A p \in Publication : Kept(p) /\ ~Resent(p) => p \in stored
      BY DEF Kept, HasParent, Resent
  <2>. QED
      BY <2>1, <2>2 DEF OneRowPerSub, PublicationInv, StoredOnce
<1>. QED
    BY <1>1, Invariant, PTL
===============================================================================
