------------------------ MODULE DeliveryReadsProofs ------------------------
(***************************************************************************)
(* Proofs about DeliveryReads, for any number of requests, rows, clocks    *)
(* and any page size.  What EndpointApiProofs proves of Spec holds of the  *)
(* longer SpecR too.                                                       *)
(***************************************************************************)
EXTENDS DeliveryReads, EndpointApiProofs, FiniteSetTheorems

\* Rows of deliveries: the id is the primary key.
Delivery == [id : Ids, at : 0 .. MaxClock, status : {"PENDING", "DEAD"}]

DeliveryInv ==
    /\ deliveries \subseteq Delivery
    /\ \A d, e \in deliveries : d.id = e.id => d = e

\* What was shown is not after the cursor, and what is to be shown either was or
\* is still after it.
WalkInv ==
    /\ filter \in {None, "DEAD"}
    /\ cursor \in [at : Nat, id : Nat]
    /\ shown \subseteq UsedIds
    /\ \A d \in deliveries : d.id \in shown => ~AfterCursor(d, cursor)
    /\ \A i \in steady : \E d \in deliveries :
           d.id = i /\ Matches(d) /\ (i \in shown \/ AfterCursor(d, cursor))
    /\ ~twice

ReadInv == ApiInv /\ DeliveryInv /\ WalkInv /\ AttemptsOfOpenRow
USE DEF walkVars, consoleVars, readVars

-----------------------------------------------------------------------------
(* The order of rows *)

\* Rows and cursors have a time and an id that can be compared.
Position(x) == x.at \in Nat /\ x.id \in Nat

\* Listed below is a total order, and the WHERE of list agrees with its ORDER BY.
LEMMA AfterIsOrder ==
    ASSUME NEW a, NEW b, NEW c, Position(a), Position(b), Position(c)
    PROVE  /\ Below(a, b) <=> AfterCursor(a, b)
           /\ AfterCursor(a, encodeCursor(b)) <=> AfterCursor(a, b)
           /\ AfterCursor(a, b) /\ AfterCursor(b, c) => AfterCursor(a, c)
           /\ ~(AfterCursor(a, b) /\ AfterCursor(b, a))
           /\ AfterCursor(a, b) \/ AfterCursor(b, a) \/ (a.at = b.at /\ a.id = b.id)
<1>1. Below(a, b) <=> AfterCursor(a, b)
  BY DEF Below, AfterCursor
<1>2. AfterCursor(a, encodeCursor(b)) <=> AfterCursor(a, b)
  BY DEF AfterCursor, encodeCursor
<1>3. AfterCursor(a, b) /\ AfterCursor(b, c) => AfterCursor(a, c)
  BY DEF Position, AfterCursor
<1>4. ~(AfterCursor(a, b) /\ AfterCursor(b, a))
  BY DEF Position, AfterCursor
<1>5. AfterCursor(a, b) \/ AfterCursor(b, a) \/ (a.at = b.at /\ a.id = b.id)
  BY DEF Position, AfterCursor
<1> QED
  BY <1>1, <1>2, <1>3, <1>4, <1>5

LEMMA RowsHavePositions ==
    ASSUME DeliveryInv PROVE \A d \in deliveries : Position(d) /\ d.id \in Ids /\ d.at \in 0 .. MaxClock
<1> SUFFICES ASSUME NEW d \in deliveries
             PROVE  Position(d) /\ d.id \in Ids /\ d.at \in 0 .. MaxClock
  OBVIOUS
<1>1. d.id \in Ids /\ d.at \in 0 .. MaxClock
  BY DEF DeliveryInv, Delivery
<1>2. Ids \subseteq Nat /\ \A n \in 0 .. MaxClock : n \in Nat
  BY EndpointApiAssumption
<1> QED
  BY <1>1, <1>2 DEF Position

\* There are finitely many rows, since their ids differ.
LEMMA RowsFinite == ASSUME DeliveryInv PROVE IsFiniteSet(deliveries)
<1> DEFINE f == [d \in deliveries |-> d.id]
<1>1. f \in [deliveries -> Ids]
  BY RowsHavePositions
<1>2. \A a, b \in DOMAIN f : f[a] = f[b] => a = b
  BY DEF DeliveryInv
<1>3. f \in Injection(deliveries, Ids)
  BY <1>1, <1>2 DEF Injection, IsInjective
<1> HIDE DEF f
<1> QED
  BY <1>3, FS_Injection, DeliveryReadsAssumption

\* The rows that a page is cut from: those on the page are above all others, and
\* when they fit there are no others.
LEMMA PageCut ==
    ASSUME NEW rows, IsFiniteSet(rows), \A d \in rows : Position(d),
           \A d, e \in rows : d.id = e.id => d = e,
           NEW page, page = {d \in rows : Cardinality({r \in rows : Below(d, r)}) < PageSize}
    PROVE  /\ Cardinality(rows) <= PageSize => page = rows
           /\ \A d \in rows \ page : \A last \in page : AfterCursor(d, last)
<1> DEFINE Above(d) == {r \in rows : Below(d, r)}
<1>1. PageSize \in Nat /\ PageSize > 0 /\ Cardinality(rows) \in Nat
  BY FS_CardinalityType, DeliveryReadsAssumption
<1>2. ASSUME NEW d \in rows PROVE IsFiniteSet(Above(d)) /\ Cardinality(Above(d)) \in Nat
  <2>1. Above(d) \in SUBSET rows
    OBVIOUS
  <2> HIDE DEF Above
  <2> QED
    BY <2>1, FS_Subset, FS_CardinalityType
<1>3. ASSUME Cardinality(rows) <= PageSize, NEW d \in rows PROVE Cardinality(Above(d)) < PageSize
  <2>1. ~Below(d, d)
    BY AfterIsOrder
  <2>2. Above(d) \in SUBSET (rows \ {d})
    BY <2>1
  <2>3. IsFiniteSet(rows \ {d}) /\ Cardinality(rows \ {d}) = Cardinality(rows) - 1
    BY FS_RemoveElement
  <2> HIDE DEF Above
  <2>4. Cardinality(Above(d)) <= Cardinality(rows \ {d})
    BY <2>2, <2>3, FS_Subset
  <2> QED
    BY <1>1, <1>2, <1>3, <2>3, <2>4
<1>4. ASSUME NEW d \in rows \ page, NEW last \in page PROVE AfterCursor(d, last)
  <2>1. /\ last \in rows /\ Cardinality(Above(last)) < PageSize
        /\ ~(Cardinality(Above(d)) < PageSize) /\ d # last
    OBVIOUS
  <2>2. Position(d) /\ Position(last)
    BY <2>1
  <2>3. ~(d.at = last.at /\ d.id = last.id)
    BY <2>1
  <2>4. ASSUME AfterCursor(last, d) PROVE FALSE
    <3>1. Above(d) \in SUBSET Above(last)
      <4> SUFFICES ASSUME NEW r \in rows, Below(d, r) PROVE Below(last, r)
        OBVIOUS
      <4>1. Position(r)
        OBVIOUS
      <4> QED
        BY <2>2, <2>4, <4>1, AfterIsOrder
    <3> HIDE DEF Above
    <3>2. Cardinality(Above(d)) <= Cardinality(Above(last))
      BY <1>2, <2>1, <3>1, FS_Subset
    <3> QED
      BY <1>1, <1>2, <2>1, <3>2
  <2> QED
    BY <2>2, <2>3, <2>4, AfterIsOrder
<1> HIDE DEF Above
<1>5. page = {d \in rows : Cardinality(Above(d)) < PageSize}
  BY DEF Above
<1> QED
  BY <1>3, <1>4, <1>5
-----------------------------------------------------------------------------
(* The steps *)

LEMMA ReadInit == InitR => ReadInv
<1> SUFFICES ASSUME InitR PROVE ReadInv
  OBVIOUS
<1>1. ApiInv
  BY ApiInit DEF InitR
<1>2. DeliveryInv
  BY DEF InitR, Init, DeliveryInv
<1>3. WalkInv
  <2>1. cursor \in [at : Nat, id : Nat]
    BY DEF InitR, End
  <2>2. shown = {} /\ steady = {} /\ ~twice /\ filter \in {None, "DEAD"}
    BY DEF InitR
  <2> QED
    BY <2>1, <2>2 DEF WalkInv
<1>4. AttemptsOfOpenRow
  BY DEF InitR, AttemptsOfOpenRow
<1> QED
  BY <1>1, <1>2, <1>3, <1>4 DEF ReadInv

\* A publish adds rows with ids of their own.
LEMMA PublishRows ==
    ASSUME ReadInv, Next
    PROVE  /\ DeliveryInv'
           /\ deliveries \subseteq deliveries'
           /\ \A d \in deliveries' : d \in deliveries \/ d.id \notin UsedIds
<1>1. ASSUME NEW q \in Requests, CommitPublish(q)
      PROVE  /\ DeliveryInv'
             /\ deliveries \subseteq deliveries'
             /\ \A d \in deliveries' : d \in deliveries \/ d.id \notin UsedIds
  <2>1. req[q].at \in 0 .. MaxClock
    BY DEF ReadInv, ApiInv, TypeInv, Record
  <2>2. PICK ids \in Injection(req[q].targets, Ids \ UsedIds) :
            deliveries' = deliveries \cup
               {[id |-> ids[e], at |-> req[q].at, status |-> "PENDING"] : e \in req[q].targets}
    BY <1>1 DEF CommitPublish
  <2> DEFINE new == {[id |-> ids[e], at |-> req[q].at, status |-> "PENDING"] : e \in req[q].targets}
  <2>3. \A e \in req[q].targets : ids[e] \in Ids /\ ids[e] \notin UsedIds
    BY DEF Injection
  <2>4. \A d \in new : d \in Delivery /\ d.id \notin UsedIds
    BY <2>1, <2>3 DEF Delivery
  <2>5. \A d, e \in new : d.id = e.id => d = e
    OBVIOUS
  <2>6. \A d \in deliveries : d.id \in UsedIds
    BY DEF UsedIds
  <2> HIDE DEF new
  <2>7. deliveries' = deliveries \cup new
    BY <2>2 DEF new
  <2>8. deliveries' \subseteq Delivery
    BY <2>4, <2>7 DEF ReadInv, DeliveryInv
  <2>9. \A d, e \in deliveries' : d.id = e.id => d = e
    BY <2>4, <2>5, <2>6, <2>7 DEF ReadInv, DeliveryInv
  <2> QED
    BY <2>4, <2>7, <2>8, <2>9 DEF DeliveryInv
<1>2. CASE UNCHANGED deliveries
  <2>1. DeliveryInv
    BY DEF ReadInv
  <2>2. DeliveryInv'
    BY <1>2, <2>1 DEF DeliveryInv
  <2> QED BY <1>2, <2>2
<1>3. UNCHANGED deliveries \/ \E q \in Requests : CommitPublish(q)
  BY ZenonT(60) DEF Next, Request, Tick, ArriveCreate, ArriveUpdate, ArrivePut, ArrivePublish, FindScoped,
         CheckUrl, LookupUrl, InsertEndpoint, WriteEndpoint, ScanRows, DeleteRows, InsertRows,
         CommitRows, ReadTargets, StatementError
<1> QED
  BY <1>1, <1>2, <1>3

\* A request steps: rows that come with a publish, even above the cursor, are no
\* concern of the walk.
LEMMA RequestStep == ASSUME ReadInv, Next, UNCHANGED readVars PROVE ReadInv'
<1>1. ApiInv'
  BY ApiStep DEF ReadInv
<1>2. DeliveryInv'
  BY PublishRows
<1>3. WalkInv'
  <2>1. UNCHANGED <<filter, cursor, shown, twice, steady>>
    OBVIOUS
  <2>2. UsedIds \subseteq UsedIds'
    BY PublishRows DEF UsedIds
  <2>3. \A d \in deliveries' : d.id \in shown => d \in deliveries
    BY PublishRows DEF ReadInv, WalkInv
  <2>4. shown' \subseteq UsedIds' /\ \A d \in deliveries' : d.id \in shown' => ~AfterCursor(d, cursor')
    BY <2>1, <2>2, <2>3 DEF ReadInv, WalkInv
  <2>5. ASSUME NEW i \in steady'
        PROVE  \E d \in deliveries' : /\ d.id = i /\ Matches(d)'
                                      /\ i \in shown' \/ AfterCursor(d, cursor')
    <3>1. PICK d \in deliveries : d.id = i /\ Matches(d) /\ (i \in shown \/ AfterCursor(d, cursor))
      BY <2>1 DEF ReadInv, WalkInv
    <3>2. d \in deliveries'
      BY PublishRows
    <3> QED
      BY <2>1, <3>1, <3>2 DEF Matches
  <2> QED
    BY <2>1, <2>4, <2>5 DEF ReadInv, WalkInv
<1>4. AttemptsOfOpenRow'
  BY DEF ReadInv, AttemptsOfOpenRow
<1> QED
  BY <1>1, <1>2, <1>3, <1>4 DEF ReadInv

\* A row changes its status and keeps its place in the order.
LEMMA StatusStep ==
    ASSUME ReadInv, NEW d \in deliveries, NEW s \in {"PENDING", "DEAD"}, SetStatus(d, s)
    PROVE  ReadInv'
<1> DEFINE n == [d EXCEPT !.status = s]
<1>1. d \in Delivery
  BY DEF ReadInv, DeliveryInv
<1>2. n \in Delivery /\ n.id = d.id /\ n.at = d.at /\ n.status = s
  BY <1>1 DEF Delivery
<1> HIDE DEF n
<1>3. deliveries' = (deliveries \ {d}) \cup {n}
  BY DEF SetStatus, n
<1>4. /\ steady' = IF filter \in {None, s} THEN steady ELSE steady \ {d.id}
      /\ UNCHANGED <<url, subs, req, now, filter, cursor, shown, twice, opened, history, asked>>
  BY DEF SetStatus
<1>5. ApiInv'
  BY <1>4, ApiFrame DEF ReadInv, ApiInv, TypeInv
<1>6. DeliveryInv'
  <2>1. deliveries' \subseteq Delivery
    BY <1>2, <1>3 DEF ReadInv, DeliveryInv
  <2>2. \A a, b \in deliveries' : a.id = b.id => a = b
    BY <1>2, <1>3 DEF ReadInv, DeliveryInv
  <2> QED
    BY <2>1, <2>2 DEF DeliveryInv
<1>7. WalkInv'
  <2>1. UsedIds' = UsedIds
    <3>1. \A e \in deliveries' : \E a \in deliveries : a.id = e.id
      BY <1>2, <1>3
    <3>2. \A e \in deliveries : \E a \in deliveries' : a.id = e.id
      BY <1>2, <1>3
    <3> QED
      BY <3>1, <3>2 DEF UsedIds
  <2>2. AfterCursor(n, cursor) <=> AfterCursor(d, cursor)
    BY <1>2 DEF AfterCursor
  <2>3. \A e \in deliveries' : e.id \in shown' => ~AfterCursor(e, cursor')
    BY <1>2, <1>3, <1>4, <2>2 DEF ReadInv, WalkInv
  <2>4. ASSUME NEW i \in steady'
        PROVE  \E e \in deliveries' : /\ e.id = i /\ Matches(e)'
                                      /\ i \in shown' \/ AfterCursor(e, cursor')
    <3>1. i \in steady
      BY <1>4
    <3>2. PICK e \in deliveries : e.id = i /\ Matches(e) /\ (i \in shown \/ AfterCursor(e, cursor))
      BY <3>1 DEF ReadInv, WalkInv
    <3>3. CASE e = d
      <4>1. filter = None \/ filter = s
        BY <1>4, <3>2, <3>3
      <4>2. Matches(n)'
        BY <1>2, <1>4, <4>1 DEF Matches
      <4> QED
        BY <1>2, <1>3, <1>4, <2>2, <3>2, <3>3, <4>2
    <3>4. CASE e # d
      <4>1. Matches(e)' /\ e \in deliveries'
        BY <1>3, <1>4, <3>2, <3>4 DEF Matches
      <4> QED
        BY <1>4, <3>2, <4>1
    <3> QED
      BY <3>3, <3>4
  <2> QED
    BY <1>4, <2>1, <2>3, <2>4 DEF ReadInv, WalkInv
<1>8. AttemptsOfOpenRow'
  BY <1>4 DEF ReadInv, AttemptsOfOpenRow
<1> QED
  BY <1>5, <1>6, <1>7, <1>8 DEF ReadInv
\* The client asks for the first page: everything is after the cursor.
LEMMA StartStep == ASSUME ReadInv, StartWalk PROVE ReadInv'
<1>1. /\ UNCHANGED <<url, status, subs, deliveries, req, now, filter, opened, history, asked>>
      /\ cursor' = Begin /\ shown' = {} /\ twice' = FALSE
      /\ steady' = {d.id : d \in {r \in deliveries : Matches(r)}}
  BY DEF StartWalk, vars
<1>2. ApiInv' /\ DeliveryInv' /\ AttemptsOfOpenRow'
  BY <1>1, ApiFrame DEF ReadInv, ApiInv, TypeInv, DeliveryInv, AttemptsOfOpenRow
<1>3. WalkInv'
  <2>1. cursor' \in [at : Nat, id : Nat]
    BY <1>1, ApiConstants DEF Begin
  <2>2. ASSUME NEW d \in deliveries PROVE AfterCursor(d, cursor')
    <3>1. d.at \in 0 .. MaxClock
      BY RowsHavePositions DEF ReadInv
    <3> QED
      BY <1>1, <3>1, ApiConstants DEF Begin, AfterCursor
  <2>3. ASSUME NEW i \in steady'
        PROVE  \E d \in deliveries' : /\ d.id = i /\ Matches(d)'
                                      /\ i \in shown' \/ AfterCursor(d, cursor')
    <3>1. PICK d \in deliveries : Matches(d) /\ d.id = i
      BY <1>1
    <3>2. Matches(d)'
      BY <1>1, <3>1 DEF Matches
    <3> QED
      BY <1>1, <2>2, <3>1, <3>2
  <2> QED
    BY <1>1, <2>1, <2>3 DEF ReadInv, WalkInv
<1> QED
  BY <1>2, <1>3 DEF ReadInv

\* A page: its rows were not shown before, and a row that is not on it, nor on an
\* earlier one, is after the new cursor.
LEMMA PageStep == ASSUME ReadInv, NextPage PROVE ReadInv'
<1> DEFINE rows == {d \in deliveries : Matches(d) /\ AfterCursor(d, cursor)}
           page == {d \in rows : Cardinality({r \in rows : Below(d, r)}) < PageSize}
           ids  == {d.id : d \in page}
<1>1. /\ UNCHANGED <<url, status, subs, deliveries, req, now, filter, steady, opened, history, asked>>
      /\ shown' = shown \cup ids
      /\ twice' = (twice \/ shown \cap ids # {})
      /\ \/ /\ Cardinality(rows) > PageSize
            /\ \E last \in page : /\ \A d \in page \ {last} : Below(last, d)
                                  /\ cursor' = encodeCursor(last)
         \/ ~(Cardinality(rows) > PageSize) /\ cursor' = End
  BY DEF NextPage, vars
<1>2. ApiInv' /\ DeliveryInv' /\ AttemptsOfOpenRow'
  BY <1>1, ApiFrame DEF ReadInv, ApiInv, TypeInv, DeliveryInv, AttemptsOfOpenRow
<1>3. /\ \A d \in deliveries : Position(d)
      /\ Position(cursor)
      /\ \A d, e \in deliveries : d.id = e.id => d = e
  BY RowsHavePositions DEF ReadInv, DeliveryInv, WalkInv, Position
<1>4. /\ rows \subseteq deliveries /\ page \subseteq rows
      /\ \A d \in deliveries : d \in rows <=> Matches(d) /\ AfterCursor(d, cursor)
      /\ \A d \in deliveries : d.id \in ids <=> d \in page
  BY <1>3
<1>5. IsFiniteSet(rows) /\ Cardinality(rows) \in Nat
  BY <1>4, RowsFinite, FS_Subset, FS_CardinalityType DEF ReadInv
<1>6. /\ Cardinality(rows) <= PageSize => page = rows
      /\ \A d \in rows \ page : \A last \in page : AfterCursor(d, last)
  <2>1. /\ \A d \in rows : Position(d)
        /\ \A d, e \in rows : d.id = e.id => d = e
    BY <1>3, <1>4
  <2>2. page = {d \in rows : Cardinality({r \in rows : Below(d, r)}) < PageSize}
    OBVIOUS
  <2> HIDE DEF rows, page
  <2> QED
    BY <1>5, <2>1, <2>2, PageCut
<1> HIDE DEF rows, page, ids
<1>7. shown' \subseteq UsedIds'
  <2>1. ids \subseteq UsedIds
    BY <1>4 DEF UsedIds, ids
  <2> QED
    BY <1>1, <2>1 DEF ReadInv, WalkInv, UsedIds
<1>8. ~twice'
  <2>1. ASSUME NEW i \in shown, i \in ids PROVE FALSE
    <3>1. PICK d \in page : d.id = i
      BY <2>1 DEF ids
    <3>2. d \in deliveries /\ AfterCursor(d, cursor)
      BY <1>4
    <3> QED
      BY <3>1, <3>2 DEF ReadInv, WalkInv
  <2> QED
    BY <1>1, <2>1 DEF ReadInv, WalkInv
<1>9. /\ cursor' \in [at : Nat, id : Nat]
      /\ \A d \in deliveries : d.id \in shown' => ~AfterCursor(d, cursor')
      /\ \A d \in rows : d \in page \/ AfterCursor(d, cursor')
  <2>1. CASE ~(Cardinality(rows) > PageSize) /\ cursor' = End
    <3>1. page = rows
      BY <1>5, <1>6, <2>1, DeliveryReadsAssumption
    <3>2. \A d \in deliveries : ~AfterCursor(d, End)
      BY <1>3 DEF Position, AfterCursor, End
    <3> QED
      BY <2>1, <3>1, <3>2 DEF End
  <2>2. ASSUME NEW last \in page, \A d \in page \ {last} : Below(last, d),
               cursor' = encodeCursor(last)
        PROVE  /\ cursor' \in [at : Nat, id : Nat]
               /\ \A d \in deliveries : d.id \in shown' => ~AfterCursor(d, cursor')
               /\ \A d \in rows : d \in page \/ AfterCursor(d, cursor')
    <3>1. last \in deliveries /\ Position(last) /\ AfterCursor(last, cursor)
      BY <1>3, <1>4
    <3>2. cursor' \in [at : Nat, id : Nat]
      BY <2>2, <3>1 DEF encodeCursor, Position
    <3>3. \A d \in deliveries : AfterCursor(d, cursor') <=> AfterCursor(d, last)
      BY <1>3, <2>2, <3>1, AfterIsOrder
    <3>4. ASSUME NEW d \in deliveries, d.id \in shown, AfterCursor(d, last) PROVE FALSE
      <4>1. AfterCursor(d, cursor)
        BY <1>3, <3>1, <3>4, AfterIsOrder
      <4> QED
        BY <3>4, <4>1 DEF ReadInv, WalkInv
    <3>5. ASSUME NEW d \in page, AfterCursor(d, last) PROVE FALSE
      BY <1>3, <1>4, <2>2, <3>1, <3>5, AfterIsOrder
    <3>6. \A d \in deliveries : d.id \in shown' => ~AfterCursor(d, cursor')
      BY <1>1, <1>4, <3>3, <3>4, <3>5
    <3>7. \A d \in rows : d \in page \/ AfterCursor(d, cursor')
      BY <1>4, <1>6, <3>3
    <3> QED
      BY <3>2, <3>6, <3>7
  <2> QED
    BY <1>1, <2>1, <2>2
<1>10. ASSUME NEW i \in steady'
       PROVE  \E d \in deliveries' : /\ d.id = i /\ Matches(d)'
                                     /\ i \in shown' \/ AfterCursor(d, cursor')
  <2>1. PICK d \in deliveries : d.id = i /\ Matches(d) /\ (i \in shown \/ AfterCursor(d, cursor))
    BY <1>1 DEF ReadInv, WalkInv
  <2>2. Matches(d)'
    BY <1>1, <2>1 DEF Matches
  <2>3. i \in shown' \/ AfterCursor(d, cursor')
    BY <1>1, <1>4, <1>9, <2>1
  <2> QED
    BY <1>1, <2>1, <2>2, <2>3
<1>11. WalkInv'
  BY <1>1, <1>7, <1>8, <1>9, <1>10 DEF ReadInv, WalkInv
<1> QED
  BY <1>2, <1>11 DEF ReadInv

\* The console: the answer sets the row and its attempts together.
LEMMA ConsoleStep ==
    ASSUME ReadInv, NEW i \in UsedIds \cap Clicked,
           Expand(i) \/ AttemptsArrive(i) \/ AttemptsFail(i)
    PROVE  ReadInv'
<1>1. UNCHANGED <<url, status, subs, deliveries, req, now, filter, cursor, shown, twice, steady>>
  BY DEF Expand, AttemptsArrive, AttemptsFail, vars
<1>2. ApiInv' /\ DeliveryInv'
  BY <1>1, ApiFrame DEF ReadInv, ApiInv, TypeInv, DeliveryInv
<1>3. WalkInv'
  BY <1>1 DEF ReadInv, WalkInv, UsedIds, Matches
<1>4. AttemptsOfOpenRow'
  BY DEF ReadInv, Expand, AttemptsArrive, AttemptsFail, AttemptsOfOpenRow
<1> QED
  BY <1>2, <1>3, <1>4 DEF ReadInv

LEMMA ReadInvariant == SpecR => []ReadInv
<1>1. ReadInv /\ [NextR]_<<vars, readVars>> => ReadInv'
  <2> SUFFICES ASSUME ReadInv, [NextR]_<<vars, readVars>> PROVE ReadInv'
    OBVIOUS
  <2>1. CASE UNCHANGED <<vars, readVars>>
    <3>1. UNCHANGED <<url, status, subs, deliveries, req, now>> /\ UNCHANGED readVars
      BY <2>1 DEF vars
    <3>2. ApiInv' /\ DeliveryInv'
      BY <3>1, ApiFrame DEF ReadInv, ApiInv, TypeInv, DeliveryInv
    <3>3. WalkInv' /\ AttemptsOfOpenRow'
      BY <3>1 DEF ReadInv, WalkInv, UsedIds, Matches, AttemptsOfOpenRow
    <3> QED
      BY <3>2, <3>3 DEF ReadInv
  <2>2. CASE GiveUp \/ RedeliverRow
    BY <2>2, StatusStep DEF GiveUp, RedeliverRow
  <2>3. CASE \E i \in UsedIds \cap Clicked : Expand(i) \/ AttemptsArrive(i) \/ AttemptsFail(i)
    BY <2>3, ConsoleStep
  <2> QED
    BY <2>1, <2>2, <2>3, RequestStep, StartStep, PageStep DEF NextR
<1> QED
  BY <1>1, ReadInit, PTL DEF SpecR

-----------------------------------------------------------------------------
(* Results *)

\* A walk over the pages gives no row twice, and at its end it has given every row
\* that was there and matched all the time, whatever is written meanwhile.
THEOREM WalksAreExact == SpecR => []WalkExact
<1>1. ReadInv => WalkExact
  <2> SUFFICES ASSUME ReadInv, cursor = End, NEW i \in steady PROVE i \in shown
    BY DEF ReadInv, WalkInv, WalkExact
  <2>1. PICK d \in deliveries : i \in shown \/ AfterCursor(d, End)
    BY DEF ReadInv, WalkInv
  <2>2. Position(d)
    BY RowsHavePositions DEF ReadInv
  <2> QED
    BY <2>1, <2>2 DEF Position, AfterCursor, End
<1> QED
  BY <1>1, ReadInvariant, PTL

\* The console shows the attempts of the row that is open.
THEOREM AttemptsAreOfOpenRow == SpecR => []AttemptsOfOpenRow
<1>1. ReadInv => AttemptsOfOpenRow
  BY DEF ReadInv
<1> QED
  BY <1>1, ReadInvariant, PTL

\* The endpoint API keeps its promises while rows change their status and are read.
THEOREM ApiUnderReads == SpecR => [](UrlUnique /\ StoredUrlSafe /\ WholePutsSeen /\ PutsReplace)
<1>1. ReadInv => UrlUnique /\ StoredUrlSafe /\ WholePutsSeen /\ PutsReplace
  BY WholeIsSeen, ReplacedIsGone DEF ReadInv, ApiInv
<1> QED
  BY <1>1, ReadInvariant, PTL
=============================================================================
