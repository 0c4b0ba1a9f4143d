-------------------------- MODULE CallRecordsProofs --------------------------
(***************************************************************************)
(* Proofs about CallRecords, for any rooms, backends, regions and requests *)
(* and whether or not storage and backends fail.                           *)
(***************************************************************************)
EXTENDS CallRecords, TLAPS

\* Who has a record's key holds it rightly: a request that read a record still
\* finds it in the table unless its call was reported, and whatever waits to
\* be removed was reported.
Held ==
    \A p \in Requests : request[p].at \in {"join", "ask", "missing"} =>
        \/ record[request[p].room] = request[p].rec
        \/ KeyOf(request[p].room, request[p].rec) \in reported

ToBeRemoved ==
    /\ \A p \in Requests : request[p].at = "missing" =>
            KeyOf(request[p].room, request[p].rec) \in reported
    /\ \A b \in Backends : queue[b] \subseteq reported
    /\ \A x \in Removers : doomed[x] \subseteq reported /\ serial[x] \subseteq reported
    /\ \A keys \in stray : keys \subseteq reported

RecordInv == TypeOK /\ ToBeRemoved /\ Held /\ RunningCallsAreRecorded

\* What a step may do to the table of records.
RecordStep ==
    /\ reported \subseteq reported'
    /\ \A r \in Rooms : \/ record'[r] = record[r]
                        \/ record[r] = None
                        \/ record'[r] = None /\ KeyOf(r, record[r]) \in reported
------------------------------------------------------------------------------
LEMMA RecordFacts ==
    ASSUME NEW rec \in Records
    PROVE  /\ rec # None
           /\ rec = [era |-> rec.era, backend |-> rec.backend]
           /\ rec.era \in Eras /\ rec.backend \in Backends
           /\ \A r \in Rooms : KeyOf(r, rec) \in Keys
BY NoneAssumption DEF Records, Keys, KeyOf

\* Deleting the records of reported calls is a legal step of the table.
LEMMA WithoutFacts ==
    ASSUME TypeOK, NEW keys \in SUBSET Keys
    PROVE  /\ Without(keys) \in [Rooms -> Records \cup {None}]
           /\ \A r \in Rooms : Without(keys)[r] # record[r]
                 => Without(keys)[r] = None /\ record[r] # None /\ KeyOf(r, record[r]) \in keys
<1>1. Without(keys) \in [Rooms -> Records \cup {None}]
  BY DEF Without, TypeOK
<1>2. ASSUME NEW r \in Rooms, Without(keys)[r] # record[r]
      PROVE  Without(keys)[r] = None /\ record[r] # None /\ KeyOf(r, record[r]) \in keys
  <2>1. PICK k \in keys : k.room = r /\ Matches(k)
    BY <1>2 DEF Without
  <2>2. Without(keys)[r] = None
    BY <2>1 DEF Without
  <2>3. k = [room |-> k.room, era |-> k.era]
    BY DEF Keys
  <2>4. k = KeyOf(r, record[r])
    BY <2>1, <2>3 DEF Matches, KeyOf
  <2> QED BY <2>1, <2>2, <2>4 DEF Matches
<1> QED BY <1>1, <1>2

\* What a request is, by where it is.
LEMMA RequestFacts ==
    ASSUME TypeOK, NEW p \in Requests
    PROVE  /\ request[p].at \in {"join", "ask", "missing"} =>
                 request[p].room \in Rooms /\ request[p].rec \in Records
           /\ request[p].at = "create" => request[p].room \in Rooms
           /\ request[p].at \in {"update", "delete"} => request[p].room \in LinkRooms
           /\ request[p].at = "update" => request[p].update \in Updates
<1>1. request[p] \in RequestStates
  BY DEF TypeOK
<1> QED BY <1>1 DEF RequestStates, Idle, At

\* The states a handler goes to.
LEMMA StateFacts ==
    /\ Idle \in RequestStates /\ Idle.at = "idle"
    /\ \A r \in Rooms : At("create", r, None, None) \in RequestStates
    /\ \A r \in Rooms, rec \in Records :
          /\ At("join", r, rec, None) \in RequestStates
          /\ At("ask", r, rec, None) \in RequestStates
          /\ At("missing", r, rec, None) \in RequestStates
    /\ \A r \in LinkRooms :
          /\ At("delete", r, None, None) \in RequestStates
          /\ \A u \in Updates : At("update", r, None, u) \in RequestStates
BY DEF RequestStates, Idle, At

LEMMA UpdatedFacts ==
    ASSUME NEW s \in LinkStates, NEW u \in Updates
    PROVE  Updated(s, u) \in LinkStates
<1>1. /\ s = [restrictions |-> s.restrictions, revoked |-> s.revoked, expired |-> s.expired]
      /\ s.restrictions \in Restrictions /\ s.revoked \in BOOLEAN /\ s.expired \in BOOLEAN
  BY DEF LinkStates
<1>2. u.restrictions \in Restrictions \cup {None} /\ u.revoked \in BOOLEAN \cup {None}
  BY DEF Updates
<1> DEFINE x == IF u.restrictions = None THEN s.restrictions ELSE u.restrictions
           y == IF u.revoked = None THEN s.revoked ELSE u.revoked
<1>3. x \in Restrictions
  BY <1>1, <1>2
<1>4. y \in BOOLEAN
  BY <1>1, <1>2, Zenon
<1>5. Updated(s, u) = [restrictions |-> x, revoked |-> y, expired |-> s.expired]
  BY <1>1 DEF Updated
<1> HIDE DEF x, y
<1> QED BY <1>1, <1>3, <1>4, <1>5 DEF LinkStates

LEMMA RemoverFacts ==
    /\ Backends \subseteq Removers /\ Regions \subseteq Removers
    /\ \A b \in Backends : b \in Removers
    /\ \A g \in Regions : g \in Removers
BY DEF Removers

\* Every step is a legal step of the table.
LEMMA RecordSteps ==
    ASSUME TypeOK, ToBeRemoved, [Next]_vars
    PROVE  RecordStep
<1> DEFINE Same == reported \subseteq reported' /\ record' = record
<1>0. Same => RecordStep
  BY DEF RecordStep
<1>1. ASSUME NEW keys \in SUBSET Keys, keys \subseteq reported,
             record' = Without(keys), reported' = reported
      PROVE  RecordStep
  BY <1>1, WithoutFacts DEF RecordStep
<1>2. CASE UNCHANGED vars
  BY <1>0, <1>2 DEF vars, storage
<1>3. ASSUME NEW r \in Rooms, Replicate(r) PROVE RecordStep
  BY <1>0, <1>3 DEF Replicate
<1>4. ASSUME NEW p \in Requests, Handle(p) PROVE RecordStep
  <2>1. ASSUME NEW r \in Rooms, NEW can_create \in BOOLEAN, ReadForJoin(p, r, can_create)
        PROVE  Same
    BY <2>1 DEF ReadForJoin, storage
  <2>2. ASSUME NEW e \in Eras, NEW b \in Backends, NEW answered \in BOOLEAN,
               CreateRecord(p, e, b, answered)
        PROVE  RecordStep
    BY <2>2, RequestFacts DEF CreateRecord, GetOrAdd, RecordStep, TypeOK
  <2>3. CASE JoinBackend(p)
    BY <1>0, <2>3 DEF JoinBackend, storage
  <2>4. CASE FailRequest(p)
    BY <1>0, <2>4 DEF FailRequest, storage
  <2>5. ASSUME NEW r \in Rooms, ReadForPeek(p, r) PROVE Same
    BY <2>5 DEF ReadForPeek, storage
  <2>6. CASE AskBackend(p)
    BY <1>0, <2>6 DEF AskBackend, storage
  <2>7. CASE RemoveMissing(p)
    <3> DEFINE key == KeyOf(request[p].room, request[p].rec)
    <3>1. key \in Keys /\ key \in reported
      BY <2>7, RequestFacts, RecordFacts DEF RemoveMissing, ToBeRemoved
    <3> QED BY <1>1, <2>7, <3>1 DEF RemoveMissing
  <2>8. ASSUME NEW r \in LinkRooms, NEW u \in Updates,
               CreateLink(p, r, u) \/ CheckForUpdate(p, r, u)
        PROVE  Same
    BY <2>8 DEF CreateLink, CheckForUpdate, storage
  <2>9. CASE UpdateLink(p)
    BY <1>0, <2>9 DEF UpdateLink
  <2>10. ASSUME NEW r \in LinkRooms, CheckForDelete(p, r) PROVE Same
    BY <2>10 DEF CheckForDelete, storage
  <2>11. CASE DeleteLink(p)
    BY <1>0, <2>11 DEF DeleteLink
  <2> HIDE DEF Same
  <2> QED BY <1>0, <1>4, <2>1, <2>2, <2>3, <2>4, <2>5, <2>6, <2>7, <2>8, <2>9, <2>10, <2>11
          DEF Handle
<1>5. ASSUME NEW r \in LinkRooms, Expire(r) \/ ResetExpiration(r) PROVE RecordStep
  BY <1>0, <1>5 DEF Expire, ResetExpiration
<1>6. ASSUME NEW b \in Backends, Drain(b) \/ Restart(b) PROVE RecordStep
  BY <1>0, <1>6 DEF Drain, Restart, storage
<1>7. ASSUME NEW b \in Backends, NEW key \in Keys, EndCall(b, key) PROVE RecordStep
  BY <1>0, <1>7 DEF EndCall, storage
<1>8. ASSUME NEW g \in Regions, Clean(g) PROVE RecordStep
  BY <1>0, <1>8 DEF Clean, ListCalls, CheckCall, storage
<1>9. ASSUME NEW x \in Removers, NEW answered \in BOOLEAN, Remove(x, answered)
      PROVE  RecordStep
  <2>0. /\ doomed[x] \subseteq reported /\ serial[x] \subseteq reported
        /\ doomed[x] \subseteq Keys /\ serial[x] \subseteq Keys
    BY DEF ToBeRemoved, TypeOK
  <2>1. ASSUME NEW chunk \in SUBSET doomed[x], RemoveChunk(x, chunk, answered)
        PROVE  RecordStep
    BY <1>0, <1>1, <2>0, <2>1 DEF RemoveChunk
  <2>2. ASSUME NEW key \in serial[x], RemoveOne(x, key, answered)
        PROVE  RecordStep
    <3>1. {key} \in SUBSET Keys /\ {key} \subseteq reported
      BY <2>0
    <3> QED BY <1>0, <1>1, <2>2, <3>1 DEF RemoveOne
  <2> QED BY <1>9, <2>1, <2>2 DEF Remove
<1>10. ASSUME NEW keys \in stray, RemoveLate(keys) PROVE RecordStep
  <2>1. keys \in SUBSET Keys /\ keys \subseteq reported
    BY DEF TypeOK, ToBeRemoved
  <2> QED BY <1>0, <1>1, <1>10, <2>1 DEF RemoveLate
<1> HIDE DEF Same
<1> QED BY <1>2, <1>3, <1>4, <1>5, <1>6, <1>7, <1>8, <1>9, <1>10 DEF Next

\* A request keeps its locals, or takes over what it finds in the table, or a
\* call that was reported.
LEMMA RequestSteps ==
    ASSUME TypeOK, [Next]_vars, NEW q \in Requests
    PROVE  \/ request'[q] = request[q]
           \/ request'[q].at \notin {"join", "ask", "missing"}
           \/ request'[q].at # "missing" /\ record'[request'[q].room] = request'[q].rec
           \/ KeyOf(request'[q].room, request'[q].rec) \in reported'
<1> DEFINE Goal == \/ request'[q] = request[q]
                   \/ request'[q].at \notin {"join", "ask", "missing"}
                   \/ /\ request'[q].at # "missing"
                      /\ record'[request'[q].room] = request'[q].rec
                   \/ KeyOf(request'[q].room, request'[q].rec) \in reported'
<1>1. UNCHANGED request => Goal
  OBVIOUS
<1>2. ASSUME NEW p \in Requests, Handle(p) PROVE Goal
  <2>0. ASSUME NEW s, Goto(p, s)
        PROVE  request'[q] = IF q = p THEN s ELSE request[q]
    BY <2>0 DEF Goto, TypeOK
  <2>1. ASSUME Goto(p, Idle) PROVE Goal
    BY <2>0, <2>1, StateFacts
  <2>2. ASSUME NEW r \in Rooms, NEW can_create \in BOOLEAN, ReadForJoin(p, r, can_create)
        PROVE  Goal
    <3>1. CASE Goto(p, At("join", r, record[r], None))
      BY <2>0, <2>2, <3>1 DEF ReadForJoin, At, storage
    <3>2. CASE Goto(p, At("create", r, None, None))
      BY <2>0, <3>2 DEF At
    <3> QED BY <2>2, <3>1, <3>2 DEF ReadForJoin
  <2>3. ASSUME NEW e \in Eras, NEW b \in Backends, NEW answered \in BOOLEAN,
               CreateRecord(p, e, b, answered)
        PROVE  Goal
    <3> DEFINE r   == request[p].room
               rec == GetOrAdd(r, [era |-> e, backend |-> b])
    <3>1. record'[r] = rec
      BY <2>3, RequestFacts DEF CreateRecord, TypeOK
    <3>2. CASE answered
      <4>1. Goto(p, At("join", r, rec, None))
        BY <2>3, <3>2 DEF CreateRecord
      <4> HIDE DEF rec
      <4> QED BY <2>0, <3>1, <4>1 DEF At
    <3>3. CASE ~answered
      BY <2>1, <2>3, <3>3 DEF CreateRecord
    <3> QED BY <3>2, <3>3
  <2>4. CASE JoinBackend(p) \/ FailRequest(p) \/ RemoveMissing(p) \/ UpdateLink(p) \/ DeleteLink(p)
    BY <2>1, <2>4 DEF JoinBackend, FailRequest, RemoveMissing, UpdateLink, DeleteLink
  <2>5. ASSUME NEW r \in Rooms, ReadForPeek(p, r) PROVE Goal
    <3> DEFINE s == At("ask", r, record[r], None)
    <3>1. Goto(p, s) /\ record' = record
      BY <2>5 DEF ReadForPeek, storage
    <3>2. s.at = "ask" /\ s.room = r /\ s.rec = record[r]
      BY DEF At
    <3> HIDE DEF s
    <3>3. request'[q] = IF q = p THEN s ELSE request[q]
      BY <2>0, <3>1
    <3> QED BY <3>1, <3>2, <3>3
  <2>6. CASE AskBackend(p)
    <3>1. CASE /\ Goto(p, At("missing", request[p].room, request[p].rec, None))
               /\ reported' = reported \cup {KeyOf(request[p].room, request[p].rec)}
      BY <2>0, <3>1 DEF At
    <3> QED BY <2>1, <2>6, <3>1 DEF AskBackend
  <2>7. ASSUME NEW r \in LinkRooms, NEW u \in Updates, CreateLink(p, r, u) PROVE Goal
    BY <2>7 DEF CreateLink
  <2>8. ASSUME NEW r \in LinkRooms, NEW u \in Updates, CheckForUpdate(p, r, u) PROVE Goal
    BY <2>0, <2>8 DEF CheckForUpdate, At
  <2>9. ASSUME NEW r \in LinkRooms, CheckForDelete(p, r) PROVE Goal
    BY <2>0, <2>9 DEF CheckForDelete, At
  <2> HIDE DEF Goal
  <2> QED BY <1>2, <2>2, <2>3, <2>4, <2>5, <2>6, <2>7, <2>8, <2>9 DEF Handle
<1>3. ASSUME Next, \A p \in Requests : ~Handle(p) PROVE UNCHANGED request
  BY <1>3 DEF Next, Replicate, Expire, ResetExpiration, Drain, Restart, EndCall, Clean, ListCalls,
              CheckCall, Remove, RemoveChunk, RemoveOne, RemoveLate
<1> HIDE DEF Goal
<1>4. Goal
  BY <1>1, <1>2, <1>3 DEF vars
<1> QED BY <1>4 DEF Goal

\* A call starts only when a request joins it.
LEMMA CallSteps ==
    ASSUME TypeOK, [Next]_vars, NEW b \in Backends, NEW key \in calls'[b]
    PROVE  \/ key \in calls[b]
           \/ \E p \in Requests : /\ request[p].at = "join" /\ request[p].rec.backend = b
                                  /\ key = KeyOf(request[p].room, request[p].rec)
<1>1. ASSUME NEW p \in Requests, JoinBackend(p)
      PROVE  key \in calls[b] \/ /\ request[p].at = "join" /\ request[p].rec.backend = b
                                 /\ key = KeyOf(request[p].room, request[p].rec)
  BY <1>1 DEF JoinBackend, TypeOK
<1>2. ASSUME Next, \A p \in Requests : ~JoinBackend(p) PROVE key \in calls[b]
  <2>1. ASSUME NEW p \in Requests, Handle(p) PROVE UNCHANGED calls
    BY <1>2, <2>1 DEF Handle, ReadForJoin, CreateRecord, FailRequest, ReadForPeek, AskBackend,
                      RemoveMissing, CreateLink, CheckForUpdate, UpdateLink, CheckForDelete,
                      DeleteLink
  <2>2. ASSUME NEW c \in Backends, Restart(c) PROVE key \in calls[b]
    BY <2>2 DEF Restart, TypeOK
  <2>3. ASSUME NEW c \in Backends, NEW k \in Keys, EndCall(c, k) PROVE key \in calls[b]
    BY <2>3 DEF EndCall, TypeOK
  <2>4. CASE /\ \A p \in Requests : ~Handle(p)
             /\ \A c \in Backends : ~Restart(c)
             /\ \A c \in Backends, k \in Keys : ~EndCall(c, k)
    <3>1. UNCHANGED calls
      BY <1>2, <2>4 DEF Next, Replicate, Expire, ResetExpiration, Drain, Clean, ListCalls,
                        CheckCall, Remove, RemoveChunk, RemoveOne, RemoveLate
    <3> QED BY <3>1
  <2> QED BY <2>1, <2>2, <2>3, <2>4
<1> QED BY <1>1, <1>2 DEF vars

\* What waits to be removed was reported before.
LEMMA RemovalSteps ==
    ASSUME TypeOK, ToBeRemoved, [Next]_vars
    PROVE  /\ \A b \in Backends : queue'[b] \subseteq reported'
           /\ \A x \in Removers : doomed'[x] \subseteq reported' /\ serial'[x] \subseteq reported'
           /\ \A keys \in stray' : keys \subseteq reported'
<1> DEFINE Goal == /\ \A b \in Backends : queue'[b] \subseteq reported'
                   /\ \A x \in Removers : /\ doomed'[x] \subseteq reported'
                                           /\ serial'[x] \subseteq reported'
                   /\ \A keys \in stray' : keys \subseteq reported'
<1>1. ASSUME UNCHANGED <<queue, doomed, serial, stray>>, reported \subseteq reported'
      PROVE  Goal
  BY <1>1 DEF ToBeRemoved
<1>2. ASSUME NEW p \in Requests, Handle(p) PROVE Goal
  <2>1. UNCHANGED <<queue, doomed, serial, stray>> /\ reported \subseteq reported'
    BY <1>2 DEF Handle, ReadForJoin, CreateRecord, JoinBackend, FailRequest, ReadForPeek, AskBackend,
                RemoveMissing, CreateLink, CheckForUpdate, UpdateLink, CheckForDelete, DeleteLink
  <2> QED BY <1>1, <2>1
<1>3. ASSUME NEW r \in Rooms, Replicate(r) PROVE Goal
  BY <1>1, <1>3 DEF Replicate
<1>4. ASSUME NEW r \in LinkRooms, Expire(r) \/ ResetExpiration(r) PROVE Goal
  BY <1>1, <1>4 DEF Expire, ResetExpiration
<1>5. ASSUME NEW b \in Backends, Drain(b) PROVE Goal
  BY <1>5 DEF Drain, ToBeRemoved, TypeOK, Removers
<1>6. ASSUME NEW b \in Backends, Restart(b) PROVE Goal
  BY <1>6 DEF Restart, ToBeRemoved, TypeOK, Removers
<1>7. ASSUME NEW b \in Backends, NEW key \in Keys, EndCall(b, key) PROVE Goal
  BY <1>7 DEF EndCall, ToBeRemoved, TypeOK
<1>8. ASSUME NEW g \in Regions, ListCalls(g) PROVE Goal
  BY <1>1, <1>8 DEF ListCalls
<1>9. ASSUME NEW g \in Regions, NEW c \in todo[g], NEW found \in BOOLEAN, CheckCall(g, c, found)
      PROVE  Goal
  BY <1>9 DEF CheckCall, ToBeRemoved, TypeOK, Removers
<1>10. ASSUME NEW x \in Removers, NEW answered \in BOOLEAN, NEW chunk \in SUBSET doomed[x],
              RemoveChunk(x, chunk, answered)
       PROVE  Goal
  BY <1>10 DEF RemoveChunk, ToBeRemoved, TypeOK
<1>11. ASSUME NEW x \in Removers, NEW answered \in BOOLEAN, NEW key \in serial[x],
              RemoveOne(x, key, answered)
       PROVE  Goal
  BY <1>11 DEF RemoveOne, ToBeRemoved, TypeOK
<1>12. ASSUME NEW keys \in stray, RemoveLate(keys) PROVE Goal
  BY <1>12 DEF RemoveLate, ToBeRemoved
<1> HIDE DEF Goal
<1>13. Goal
  BY <1>1, <1>2, <1>3, <1>4, <1>5, <1>6, <1>7, <1>8, <1>9, <1>10, <1>11, <1>12
     DEF Next, Clean, Remove, vars
<1> QED BY <1>13 DEF Goal

\* What a step may do to a link: it is deleted only in a room without a record,
\* and only its creation brings it back.
LEMMA LinkSteps ==
    ASSUME TypeOK, [Next]_vars, NEW r \in LinkRooms
    PROVE  /\ link[r] # None /\ link'[r] = None => record[r] = None
           /\ link[r] = None /\ link'[r] # None
                 => \E p \in Requests, u \in Updates : CreateLink(p, r, u)
<1> DEFINE Kept == link[r] = None <=> link'[r] = None
           Goal == /\ link[r] # None /\ link'[r] = None => record[r] = None
                   /\ link[r] = None /\ link'[r] # None
                        => \E p \in Requests, u \in Updates : CreateLink(p, r, u)
<1>0. /\ Kept => Goal
      /\ UNCHANGED link => Kept
  OBVIOUS
<1>1. ASSUME NEW q \in LinkRooms, NEW s \in LinkStates, link[q] # None,
             link' = [link EXCEPT ![q] = s]
      PROVE  Kept
  BY <1>1, NoneAssumption DEF TypeOK
<1>2. ASSUME NEW p \in Requests, Handle(p) PROVE Goal
  <2>1. ASSUME NEW q \in LinkRooms, NEW u \in Updates, CreateLink(p, q, u) PROVE Goal
    <3>1. link' = [link EXCEPT ![q] = link'[q]] /\ link'[q] # None
      <4> DEFINE v == [u EXCEPT !.restrictions = IF @ = None THEN "adminApproval" ELSE @]
                 s == IF link[q] = None
                      THEN [restrictions |-> "none", revoked |-> FALSE, expired |-> FALSE]
                      ELSE link[q]
      <4>1. s \in LinkStates
        BY DEF TypeOK, LinkStates, Restrictions
      <4>2. v \in Updates
        BY DEF Updates, Restrictions
      <4>3. link' = [link EXCEPT ![q] = Updated(s, v)]
        BY <2>1 DEF CreateLink
      <4> HIDE DEF s, v
      <4>4. Updated(s, v) \in LinkStates
        BY <4>1, <4>2, UpdatedFacts
      <4> QED BY <4>3, <4>4, NoneAssumption DEF TypeOK
    <3>2. CASE q = r
      BY <2>1, <3>1, <3>2
    <3>3. CASE q # r
      BY <3>1, <3>3 DEF TypeOK
    <3> QED BY <3>2, <3>3
  <2>2. CASE UpdateLink(p)
    <3>1. request[p].room \in LinkRooms /\ request[p].update \in Updates
      BY <2>2, RequestFacts DEF UpdateLink
    <3> DEFINE q == request[p].room
    <3>2. CASE link[q] = None
      BY <1>0, <2>2, <3>2 DEF UpdateLink
    <3>3. CASE link[q] # None
      <4>1. Updated(link[q], request[p].update) \in LinkStates
        BY <3>1, <3>3, UpdatedFacts DEF TypeOK
      <4>2. link' = [link EXCEPT ![q] = Updated(link[q], request[p].update)]
        BY <2>2, <3>3 DEF UpdateLink
      <4> QED BY <1>0, <1>1, <3>1, <3>3, <4>1, <4>2
    <3> QED BY <3>2, <3>3
  <2>3. CASE DeleteLink(p)
    BY <2>3, RequestFacts DEF DeleteLink, TypeOK
  <2>4. CASE /\ \A q \in LinkRooms, u \in Updates : ~CreateLink(p, q, u)
             /\ ~UpdateLink(p) /\ ~DeleteLink(p)
    <3>1. UNCHANGED link
      BY <1>2, <2>4 DEF Handle, ReadForJoin, CreateRecord, JoinBackend, FailRequest, ReadForPeek,
                        AskBackend, RemoveMissing, CheckForUpdate, CheckForDelete, storage
    <3> QED BY <1>0, <3>1
  <2> QED BY <2>1, <2>2, <2>3, <2>4
<1>3. ASSUME NEW q \in LinkRooms, Expire(q) \/ ResetExpiration(q) PROVE Goal
  <2>1. ASSUME link[q] # None, NEW x \in BOOLEAN, link' = [link EXCEPT ![q].expired = x]
        PROVE  Kept
    <3>1. [link[q] EXCEPT !.expired = x] \in LinkStates
      BY <2>1 DEF TypeOK, LinkStates
    <3>2. link' = [link EXCEPT ![q] = [link[q] EXCEPT !.expired = x]]
      BY <2>1
    <3> QED BY <1>1, <2>1, <3>1, <3>2
  <2> HIDE DEF Kept, Goal
  <2>2. CASE Expire(q)
    BY <1>0, <2>1, <2>2 DEF Expire
  <2>3. CASE ResetExpiration(q)
    BY <1>0, <2>1, <2>3 DEF ResetExpiration
  <2> QED BY <1>3, <2>2, <2>3
<1>4. ASSUME Next, \A p \in Requests : ~Handle(p),
             \A q \in LinkRooms : ~(Expire(q) \/ ResetExpiration(q))
      PROVE  UNCHANGED link
  BY <1>4 DEF Next, Replicate, Drain, Restart, EndCall, Clean, ListCalls, CheckCall, Remove,
              RemoveChunk, RemoveOne, RemoveLate, storage
<1>5. ASSUME UNCHANGED vars PROVE UNCHANGED link
  BY <1>5 DEF vars, storage
<1> HIDE DEF Kept, Goal
<1>6. Goal
  BY <1>0, <1>2, <1>3, <1>4, <1>5
<1> QED BY <1>6 DEF Goal

LEMMA TypeStep ==
    ASSUME TypeOK, [Next]_vars
    PROVE  TypeOK'
<1>1. CASE UNCHANGED vars
  BY <1>1 DEF vars, storage, TypeOK
<1>2. ASSUME NEW r \in Rooms, Replicate(r) PROVE TypeOK'
  BY <1>2 DEF Replicate, TypeOK
<1>3. ASSUME NEW p \in Requests, Handle(p) PROVE TypeOK'
  <2>0. ASSUME NEW s \in RequestStates, Goto(p, s) PROVE request' \in [Requests -> RequestStates]
    BY <2>0 DEF Goto, TypeOK
  <2>1. ASSUME Goto(p, Idle) PROVE request' \in [Requests -> RequestStates]
    BY <2>0, <2>1, StateFacts
  <2>2. ASSUME NEW r \in Rooms, NEW can_create \in BOOLEAN, ReadForJoin(p, r, can_create)
        PROVE  TypeOK'
    <3>1. record[r] # None => record[r] \in Records
      BY DEF TypeOK
    <3>2. request' \in [Requests -> RequestStates]
      BY <2>0, <2>2, <3>1, StateFacts DEF ReadForJoin
    <3> QED BY <2>2, <3>2 DEF ReadForJoin, TypeOK, storage
  <2>3. ASSUME NEW e \in Eras, NEW b \in Backends, NEW answered \in BOOLEAN,
               CreateRecord(p, e, b, answered)
        PROVE  TypeOK'
    <3> DEFINE r   == request[p].room
               rec == GetOrAdd(r, [era |-> e, backend |-> b])
    <3>1. r \in Rooms
      BY <2>3, RequestFacts DEF CreateRecord
    <3>2. rec \in Records
      BY <3>1 DEF GetOrAdd, Records, TypeOK
    <3>3. /\ record' = [record EXCEPT ![r] = rec]
          /\ Goto(p, IF answered THEN At("join", r, rec, None) ELSE Idle)
          /\ resets' = IF answered /\ r \in LinkRooms THEN resets \cup {r} ELSE resets
          /\ used' = used \cup {e}
          /\ UNCHANGED <<index, link, calls, queue, todo, doomed, serial, stray, reported>>
      BY <2>3 DEF CreateRecord
    <3> HIDE DEF rec, r
    <3>4. (IF answered THEN At("join", r, rec, None) ELSE Idle) \in RequestStates
      BY <3>1, <3>2, StateFacts
    <3>5. request' \in [Requests -> RequestStates]
      BY <2>0, <3>3, <3>4
    <3>6. record' \in [Rooms -> Records \cup {None}]
      BY <3>1, <3>2, <3>3 DEF TypeOK
    <3>7. resets' \subseteq LinkRooms
      BY <3>3 DEF TypeOK
    <3> QED BY <3>3, <3>5, <3>6, <3>7 DEF TypeOK
  <2>4. CASE JoinBackend(p)
    <3>1. KeyOf(request[p].room, request[p].rec) \in Keys
      BY <2>4, RequestFacts, RecordFacts DEF JoinBackend
    <3>2. calls' \in [Backends -> SUBSET Keys]
      BY <2>4, <3>1 DEF JoinBackend, TypeOK
    <3>3. request' \in [Requests -> RequestStates]
      BY <2>1, <2>4 DEF JoinBackend
    <3> QED BY <2>4, <3>2, <3>3 DEF JoinBackend, TypeOK, storage
  <2>5. CASE FailRequest(p)
    <3>1. request' \in [Requests -> RequestStates]
      BY <2>1, <2>5 DEF FailRequest
    <3> QED BY <2>5, <3>1 DEF FailRequest, TypeOK, storage
  <2>6. ASSUME NEW r \in Rooms, ReadForPeek(p, r) PROVE TypeOK'
    <3>1. record[r] \in Records
      BY <2>6 DEF ReadForPeek, TypeOK
    <3>2. request' \in [Requests -> RequestStates]
      BY <2>0, <2>6, <3>1, StateFacts DEF ReadForPeek
    <3> QED BY <2>6, <3>2 DEF ReadForPeek, TypeOK, storage
  <2>7. CASE AskBackend(p)
    <3>1. request[p].room \in Rooms /\ request[p].rec \in Records
      BY <2>7, RequestFacts DEF AskBackend
    <3>2. request' \in [Requests -> RequestStates]
      BY <2>0, <2>1, <2>7, <3>1, StateFacts DEF AskBackend
    <3>3. reported' \subseteq Keys
      BY <2>7, <3>1, RecordFacts DEF AskBackend, TypeOK
    <3> QED BY <2>7, <3>2, <3>3 DEF AskBackend, TypeOK, storage
  <2>8. CASE RemoveMissing(p)
    <3>1. {KeyOf(request[p].room, request[p].rec)} \in SUBSET Keys
      BY <2>8, RequestFacts, RecordFacts DEF RemoveMissing
    <3>2. record' \in [Rooms -> Records \cup {None}]
      BY <2>8, <3>1, WithoutFacts DEF RemoveMissing
    <3>3. request' \in [Requests -> RequestStates]
      BY <2>1, <2>8 DEF RemoveMissing
    <3> QED BY <2>8, <3>2, <3>3 DEF RemoveMissing, TypeOK
  <2>9. ASSUME NEW r \in LinkRooms, NEW u \in Updates, CreateLink(p, r, u) PROVE TypeOK'
    <3> DEFINE v == [u EXCEPT !.restrictions = IF @ = None THEN "adminApproval" ELSE @]
               s == IF link[r] = None
                    THEN [restrictions |-> "none", revoked |-> FALSE, expired |-> FALSE]
                    ELSE link[r]
    <3>1. v \in Updates
      BY DEF Updates, Restrictions
    <3>2. s \in LinkStates
      BY DEF LinkStates, Restrictions, TypeOK
    <3>3. link' = [link EXCEPT ![r] = Updated(s, v)]
      BY <2>9 DEF CreateLink
    <3> HIDE DEF s, v
    <3>4. link' \in [LinkRooms -> LinkStates \cup {None}]
      BY <3>1, <3>2, <3>3, UpdatedFacts DEF TypeOK
    <3> QED BY <2>9, <3>4 DEF CreateLink, TypeOK
  <2>10. ASSUME NEW r \in LinkRooms, NEW u \in Updates, CheckForUpdate(p, r, u) PROVE TypeOK'
    <3>1. request' \in [Requests -> RequestStates]
      BY <2>0, <2>10, StateFacts DEF CheckForUpdate
    <3> QED BY <2>10, <3>1 DEF CheckForUpdate, TypeOK, storage
  <2>11. CASE UpdateLink(p)
    <3> DEFINE r == request[p].room
    <3>1. r \in LinkRooms /\ request[p].update \in Updates
      BY <2>11, RequestFacts DEF UpdateLink
    <3>2. link[r] # None => Updated(link[r], request[p].update) \in LinkStates
      BY <3>1, UpdatedFacts DEF TypeOK
    <3>3. link' = IF link[r] = None THEN link
                  ELSE [link EXCEPT ![r] = Updated(link[r], request[p].update)]
      BY <2>11 DEF UpdateLink
    <3>4. link' \in [LinkRooms -> LinkStates \cup {None}]
      BY <3>1, <3>2, <3>3 DEF TypeOK
    <3>5. request' \in [Requests -> RequestStates]
      BY <2>1, <2>11 DEF UpdateLink
    <3> QED BY <2>11, <3>4, <3>5 DEF UpdateLink, TypeOK
  <2>12. ASSUME NEW r \in LinkRooms, CheckForDelete(p, r) PROVE TypeOK'
    <3>1. request' \in [Requests -> RequestStates]
      BY <2>0, <2>12, StateFacts DEF CheckForDelete
    <3> QED BY <2>12, <3>1 DEF CheckForDelete, TypeOK, storage
  <2>13. CASE DeleteLink(p)
    <3>1. link' \in [LinkRooms -> LinkStates \cup {None}]
      BY <2>13 DEF DeleteLink, TypeOK
    <3>2. request' \in [Requests -> RequestStates]
      BY <2>1, <2>13 DEF DeleteLink
    <3> QED BY <2>13, <3>1, <3>2 DEF DeleteLink, TypeOK
  <2> QED BY <1>3, <2>2, <2>3, <2>4, <2>5, <2>6, <2>7, <2>8, <2>9, <2>10, <2>11, <2>12, <2>13
          DEF Handle
<1>4. ASSUME NEW r \in LinkRooms, Expire(r) \/ ResetExpiration(r) PROVE TypeOK'
  <2>1. ASSUME NEW x \in BOOLEAN, link[r] # None
        PROVE  [link EXCEPT ![r].expired = x] \in [LinkRooms -> LinkStates \cup {None}]
    <3>1. link[r] \in LinkStates
      BY <2>1 DEF TypeOK
    <3>2. [link[r] EXCEPT !.expired = x] \in LinkStates
      BY <3>1 DEF LinkStates
    <3> QED BY <3>2 DEF TypeOK
  <2>2. link' \in [LinkRooms -> LinkStates \cup {None}]
    BY <1>4, <2>1 DEF Expire, ResetExpiration, TypeOK
  <2> QED BY <1>4, <2>2 DEF Expire, ResetExpiration, TypeOK
<1>5. ASSUME NEW b \in Backends, Drain(b) \/ Restart(b) PROVE TypeOK'
  BY <1>5, RemoverFacts DEF Drain, Restart, TypeOK, storage
<1>6. ASSUME NEW b \in Backends, NEW key \in Keys, EndCall(b, key) PROVE TypeOK'
  BY <1>6 DEF EndCall, TypeOK, storage
<1>7. ASSUME NEW g \in Regions, ListCalls(g) PROVE TypeOK'
  <2> DEFINE mine == {q \in Rooms : index[q] # None /\ RegionOf[index[q].backend] = g}
             list == {[key |-> KeyOf(r, index[r]), backend |-> index[r].backend] : r \in mine}
  <2>1. ASSUME NEW r \in mine
        PROVE  [key |-> KeyOf(r, index[r]), backend |-> index[r].backend]
                   \in [key : Keys, backend : Backends]
    BY RecordFacts DEF TypeOK
  <2>2. list \subseteq [key : Keys, backend : Backends]
    BY <2>1
  <2>3. todo' = [todo EXCEPT ![g] = list]
    BY <1>7 DEF ListCalls
  <2> HIDE DEF list
  <2>4. todo' \in [Removers -> SUBSET [key : Keys, backend : Backends]]
    BY <2>2, <2>3 DEF TypeOK
  <2> QED BY <1>7, <2>4 DEF ListCalls, TypeOK, storage
<1>8. ASSUME NEW g \in Regions, NEW c \in todo[g], NEW found \in BOOLEAN, CheckCall(g, c, found)
      PROVE  TypeOK'
  <2>1. c.key \in Keys
    BY RemoverFacts DEF TypeOK
  <2> QED BY <1>8, <2>1, RemoverFacts DEF CheckCall, TypeOK, storage
<1>9. ASSUME NEW x \in Removers, NEW answered \in BOOLEAN, NEW chunk \in SUBSET doomed[x],
             RemoveChunk(x, chunk, answered)
      PROVE  TypeOK'
  <2>1. chunk \in SUBSET Keys
    BY DEF TypeOK
  <2>2. record' \in [Rooms -> Records \cup {None}]
    BY <1>9, <2>1, WithoutFacts DEF RemoveChunk, TypeOK
  <2> QED BY <1>9, <2>1, <2>2 DEF RemoveChunk, TypeOK
<1>10. ASSUME NEW x \in Removers, NEW answered \in BOOLEAN, NEW key \in serial[x],
              RemoveOne(x, key, answered)
       PROVE  TypeOK'
  <2>1. {key} \in SUBSET Keys
    BY DEF TypeOK
  <2>2. record' \in [Rooms -> Records \cup {None}]
    BY <1>10, <2>1, WithoutFacts DEF RemoveOne, TypeOK
  <2> QED BY <1>10, <2>1, <2>2 DEF RemoveOne, TypeOK
<1>11. ASSUME NEW keys \in stray, RemoveLate(keys) PROVE TypeOK'
  <2>1. record' \in [Rooms -> Records \cup {None}]
    BY <1>11, WithoutFacts DEF RemoveLate, TypeOK
  <2> QED BY <1>11, <2>1 DEF RemoveLate, TypeOK
<1> QED BY <1>1, <1>2, <1>3, <1>4, <1>5, <1>6, <1>7, <1>8, <1>9, <1>10, <1>11
        DEF Next, Clean, Remove

LEMMA InvStep ==
    ASSUME RecordInv, [Next]_vars
    PROVE  RecordInv' /\ RecordStep
<1> USE DEF RecordInv
<1>1. TypeOK' /\ RecordStep
  BY TypeStep, RecordSteps
<1>2. ASSUME NEW q \in Requests, request'[q].at \in {"join", "ask", "missing"}
      PROVE  \/ /\ record'[request'[q].room] = request'[q].rec
                /\ request'[q].at = "missing" =>
                      KeyOf(request'[q].room, request'[q].rec) \in reported'
             \/ KeyOf(request'[q].room, request'[q].rec) \in reported'
  <2>1. CASE request'[q] = request[q]
    <3>1. request[q].room \in Rooms /\ request[q].rec \in Records
      BY <1>2, <2>1, RequestFacts
    <3>2. request[q].rec # None
      BY <3>1, RecordFacts
    <3>3. request[q].at = "missing" => KeyOf(request[q].room, request[q].rec) \in reported'
      BY <1>1 DEF ToBeRemoved, RecordStep
    <3>4. \/ record'[request[q].room] = request[q].rec
          \/ KeyOf(request[q].room, request[q].rec) \in reported'
      BY <1>1, <1>2, <2>1, <3>1, <3>2 DEF Held, RecordStep
    <3> QED BY <2>1, <3>3, <3>4
  <2>2. CASE request'[q] # request[q]
    BY <1>2, <2>2, RequestSteps
  <2> QED BY <2>1, <2>2
<1>3. Held'
  BY <1>2 DEF Held
<1>4. ToBeRemoved'
  BY <1>2, RemovalSteps DEF ToBeRemoved
<1>5. ASSUME NEW b \in Backends, NEW key \in calls'[b]
      PROVE  record'[key.room] = [era |-> key.era, backend |-> b] \/ key \in reported'
  <2>1. \/ record[key.room] = [era |-> key.era, backend |-> b]
        \/ key \in reported
    <3>1. CASE key \in calls[b]
      BY <3>1 DEF RunningCallsAreRecorded
    <3>2. ASSUME NEW p \in Requests, request[p].at = "join", request[p].rec.backend = b,
                 key = KeyOf(request[p].room, request[p].rec)
          PROVE  \/ record[key.room] = [era |-> key.era, backend |-> b]
                 \/ key \in reported
      <4>1. request[p].rec = [era |-> request[p].rec.era, backend |-> b]
        BY <3>2, RequestFacts, RecordFacts
      <4> QED BY <3>2, <4>1 DEF Held, KeyOf
    <3> QED BY <3>1, <3>2, CallSteps
  <2>2. key.room \in Rooms
    BY <1>1 DEF TypeOK, Keys
  <2>3. CASE key \in reported
    BY <1>1, <2>3 DEF RecordStep
  <2>4. CASE record[key.room] = [era |-> key.era, backend |-> b]
    <3>0. key \in Keys
      BY <1>1, <1>5 DEF TypeOK
    <3>1. record[key.room] # None
      <4>1. [era |-> key.era, backend |-> b] \in Records
        BY <3>0 DEF Keys, Records
      <4> QED BY <2>4, <4>1, RecordFacts
    <3>2. KeyOf(key.room, record[key.room]) = key
      BY <2>4, <3>0 DEF KeyOf, Keys
    <3> QED BY <1>1, <2>2, <2>4, <3>1, <3>2 DEF RecordStep
  <2> QED BY <2>1, <2>3, <2>4
<1>6. RunningCallsAreRecorded'
  BY <1>5 DEF RunningCallsAreRecorded
<1> QED BY <1>1, <1>3, <1>4, <1>6

LEMMA InvInit == Init => RecordInv
<1> SUFFICES ASSUME Init PROVE RecordInv
  OBVIOUS
<1>1. TypeOK
  BY StateFacts DEF Init, TypeOK
<1>2. ToBeRemoved /\ Held /\ RunningCallsAreRecorded
  BY StateFacts DEF Init, ToBeRemoved, Held, RunningCallsAreRecorded
<1> QED BY <1>1, <1>2 DEF RecordInv

LEMMA RecordInvariance == Spec => []RecordInv
<1>1. RecordInv /\ [Next]_vars => RecordInv'
  BY InvStep
<1> QED BY InvInit, <1>1, PTL DEF Spec
------------------------------------------------------------------------------
\* The table and the locals of the handlers keep their types.
THEOREM TypeCorrect == Spec => []TypeOK
BY RecordInvariance, PTL DEF RecordInv

\* Whatever joins, peeks, cleaners and lifecycle tasks do, and however their
\* requests fail, a running call is the one its room's record names unless it
\* was itself reported missing or ended (get_or_add_call_record and
\* remove_call_record together).
THEOREM CallsRecorded == Spec => []RunningCallsAreRecorded
BY RecordInvariance, PTL DEF RecordInv

\* A record is only ever removed, never replaced, and only after its own call
\* was reported missing or ended.
THEOREM RecordsGoWhenReported == Spec => OnlyReportedRecordsGo
<1>1. RecordInv /\ [Next]_vars =>
        [\A r \in Rooms : record[r] # None /\ record'[r] # record[r]
            => record'[r] = None /\ KeyOf(r, record[r]) \in reported]_vars
  BY InvStep DEF RecordStep
<1> QED BY RecordInvariance, <1>1, PTL DEF Spec, OnlyReportedRecordsGo

\* A link is deleted only while its room has no record, however long ago the
\* handler looked (delete_call_link in storage.rs checks again in the same
\* transaction).
THEOREM LinksKept == Spec => LinksInUseAreKept
<1>1. TypeOK /\ [Next]_vars =>
        [\A r \in LinkRooms : link[r] # None /\ link'[r] = None => record[r] = None]_vars
  BY LinkSteps
<1> QED BY TypeCorrect, <1>1, PTL DEF Spec, LinksInUseAreKept

\* Only the creation of a link brings a deleted one back: an update and the
\* reset of an expiration find that the link is gone (update_call_link and
\* reset_call_link_expiration in storage.rs).
THEOREM DeletedLinksStay == Spec => DeletedLinksStayDeleted
<1>1. TypeOK /\ [Next]_vars =>
        [\A r \in LinkRooms : link[r] = None /\ link'[r] # None
            => \E p \in Requests, u \in Updates : CreateLink(p, r, u)]_vars
  BY LinkSteps
<1> QED BY TypeCorrect, <1>1, PTL DEF Spec, DeletedLinksStayDeleted
==============================================================================
