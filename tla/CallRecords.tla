------------------------------ MODULE CallRecords ------------------------------
(***************************************************************************)
(* The record that says on which backend a room's call runs, and everyone  *)
(* who reads or writes it: the handlers of the frontend                    *)
(* (frontend/src/api/v2.rs, api/call_links.rs, frontend.rs), its cleaner   *)
(* (cleaner.rs) and the backend's lifecycle task (call_lifecycle.rs).      *)
(* The frontends keep no state.  They share a DynamoDB table               *)
(* (storage.rs), whose single operations are atomic, but every handler     *)
(* makes several of them, with requests to a backend in between.           *)
(*                                                                         *)
(* A call is known by its room and its era, which is the call ID on the    *)
(* backend.  Left out: who is in the call (modules Call and Sfu), the      *)
(* approved users (module ApprovedUsers), credentials: a request that      *)
(* fails authentication, or shows the wrong admin passkey, changes         *)
(* nothing and is FailRequest.                                             *)
(***************************************************************************)
EXTENDS Naturals, FiniteSets

CONSTANTS
    Rooms, LinkRooms,   \* all rooms, and those that belong to a call link
    Eras, Backends, Regions,
    Requests,           \* the requests that can be handled at the same time
    RegionOf,           \* the region of a backend, or of a request's frontend
    Handlers,           \* the routes that are used
    QueueCapacity,      \* CALL_REMOVAL_QUEUE_CAPACITY
    BatchSize,          \* MAX_BATCH_SIZE, and the cleaner's chunks(100)
    StorageFails,       \* whether a storage operation may fail
    BackendFails,       \* whether a backend may fail to answer, or restart
    None

ASSUME RoomsAssumption    == LinkRooms \subseteq Rooms
ASSUME RegionAssumption   == RegionOf \in [Backends \cup Requests -> Regions]
ASSUME RemoverAssumption  == Backends \cap Regions = {}
ASSUME HandlerAssumption  == Handlers \subseteq {"join", "peek", "create", "update", "delete"}
ASSUME CapacityAssumption == QueueCapacity \in Nat /\ BatchSize \in Nat \ {0}
ASSUME FailureAssumption  == StorageFails \in BOOLEAN /\ BackendFails \in BOOLEAN

Records      == [era : Eras, backend : Backends]    \* CallRecord
Keys         == [room : Rooms, era : Eras]          \* CallRecordKey
Restrictions == {"none", "adminApproval"}
LinkStates   == [restrictions : Restrictions, revoked : BOOLEAN, expired : BOOLEAN]
Updates      == [restrictions : Restrictions \cup {None}, revoked : BOOLEAN \cup {None}]

ASSUME NoneAssumption == None \notin Records \cup LinkStates

\* Who removes records in batches: a backend's lifecycle task, a region's cleaner.
Removers == Backends \cup Regions

VARIABLES
    record,     \* the call record of each room
    index,      \* region-index: what an eventually consistent query may see
    link,       \* the call link state of each link room
    resets,     \* link rooms whose expiration a spawned task is to reset
    used,       \* the eras handed out
    request,    \* the locals of each request being handled
    calls,      \* the calls each backend is running
    queue,      \* the call removal queue of each backend
    todo,       \* the listed calls a cleaner has not yet asked about
    doomed,     \* delete_buffer of a lifecycle task, calls_to_remove of a cleaner
    serial,     \* the rest of a chunk that is being removed one by one
    stray,      \* removals that were given up on but may still be carried out
    reported    \* history: the calls somebody found missing or saw end

storage == <<record, index, link>>
vars    == <<storage, resets, used, request, calls, queue, todo, doomed, serial, stray, reported>>

At(where, r, rec, u) == [at |-> where, room |-> r, rec |-> rec, update |-> u]
Idle          == At("idle", None, None, None)
RequestStates ==
    {Idle} \cup [at : {"create"}, room : Rooms, rec : {None}, update : {None}]
           \cup [at : {"join", "ask", "missing"}, room : Rooms, rec : Records, update : {None}]
           \cup [at : {"update"}, room : LinkRooms, rec : {None}, update : Updates]
           \cup [at : {"delete"}, room : LinkRooms, rec : {None}, update : {None}]

KeyOf(r, rec) == [room |-> r, era |-> rec.era]

Init == /\ record = [r \in Rooms |-> None]
        /\ index = [r \in Rooms |-> None]
        /\ link \in [LinkRooms -> LinkStates \cup {None}]
        /\ resets = {}
        /\ used = {}
        /\ request = [p \in Requests |-> Idle]
        /\ calls = [b \in Backends |-> {}]
        /\ queue = [b \in Backends |-> {}]
        /\ todo = [x \in Removers |-> {}]
        /\ doomed = [x \in Removers |-> {}]
        /\ serial = [x \in Removers |-> {}]
        /\ stray = {}
        /\ reported = {}
------------------------------------------------------------------------------
(* Storage: DynamoDb.                                                      *)

Matches(key) == record[key.room] # None /\ record[key.room].era = key.era

\* Seeded fault: the deletion is not conditional on the era.
WithoutAnyEra(keys) ==
    [r \in Rooms |-> IF \E k \in keys : k.room = r THEN None ELSE record[r]]

\* The table after deleting the records of keys that have the era given.
Without(keys) ==
    [r \in Rooms |-> IF \E k \in keys : k.room = r /\ Matches(k) THEN None ELSE record[r]]

\* remove_batch_call_records: a transaction, cancelled when a condition fails;
\* that all of them failed counts as success.
BatchSucceeds(keys) == (\A k \in keys : Matches(k)) \/ (\A k \in keys : ~Matches(k))

\* Seeded fault: the new record replaces the one that is there.
PutRecord(r, rec) == rec

\* get_or_add_call_record: the record of room r after the upsert.
GetOrAdd(r, rec) == IF record[r] = None THEN rec ELSE record[r]

\* The secondary index catches up with the table.
Replicate(r) ==
    /\ index[r] # record[r]
    /\ index' = [index EXCEPT ![r] = record[r]]
    /\ UNCHANGED <<record, link, resets, used, request, calls, queue, todo, doomed, serial,
                   stray, reported>>
------------------------------------------------------------------------------
(* Joining: the handler of PUT /conference/participants.                   *)

Goto(p, state) == request' = [request EXCEPT ![p] = state]

\* The room is read: a group's record, or a link's state and record at once.
\* A group member who may not create a call needs an existing one.
ReadForJoin(p, r, can_create) ==
    /\ "join" \in Handlers
    /\ request[p] = Idle
    /\ r \in LinkRooms => /\ can_create
                          /\ link[r] # None
                          /\ ~link[r].revoked /\ ~link[r].expired
    /\ \/ /\ record[r] # None
          /\ r \in LinkRooms \/ ~can_create
          /\ Goto(p, At("join", r, record[r], None))
       \/ /\ r \in LinkRooms => record[r] = None
          /\ can_create
          /\ Goto(p, At("create", r, None, None))
    /\ UNCHANGED <<storage, resets, used, calls, queue, todo, doomed, serial, stray, reported>>

\* get_or_create_call_record, with a new era and a backend of this region.  The
\* upsert may succeed although the request to the table failed.
CreateRecord(p, e, b, answered) ==
    LET r   == request[p].room
        rec == GetOrAdd(r, [era |-> e, backend |-> b])
    IN  /\ request[p].at = "create"
        /\ answered \/ StorageFails
        /\ e \notin used
        /\ RegionOf[b] = RegionOf[p]
        /\ used' = used \cup {e}
        /\ record' = [record EXCEPT ![r] = rec]
        /\ Goto(p, IF answered THEN At("join", r, rec, None) ELSE Idle)
        /\ resets' = IF answered /\ r \in LinkRooms THEN resets \cup {r} ELSE resets
        /\ UNCHANGED <<index, link, calls, queue, todo, doomed, serial, stray, reported>>

\* join_client_to_call: the backend starts the call unless it runs already.  A
\* call of another region is the business of that region's frontend.
JoinBackend(p) ==
    LET rec == request[p].rec IN
    /\ request[p].at = "join"
    /\ calls' = IF RegionOf[rec.backend] = RegionOf[p]
                THEN [calls EXCEPT ![rec.backend] = @ \cup {KeyOf(request[p].room, rec)}]
                ELSE calls
    /\ Goto(p, Idle)
    /\ UNCHANGED <<storage, resets, used, queue, todo, doomed, serial, stray, reported>>

\* Any request may end early: it is refused, or a service does not answer.
FailRequest(p) ==
    /\ request[p].at # "idle"
    /\ Goto(p, Idle)
    /\ UNCHANGED <<storage, resets, used, calls, queue, todo, doomed, serial, stray, reported>>
------------------------------------------------------------------------------
(* Peeking: the handler of GET /conference/participants.                   *)

ReadForPeek(p, r) ==
    /\ "peek" \in Handlers
    /\ request[p] = Idle
    /\ r \in LinkRooms => link[r] # None
    /\ record[r] # None
    /\ RegionOf[record[r].backend] = RegionOf[p]
    /\ Goto(p, At("ask", r, record[r], None))
    /\ UNCHANGED <<storage, resets, used, calls, queue, todo, doomed, serial, stray, reported>>

\* get_client_ids_in_call: the backend does or does not know the call.
AskBackend(p) ==
    LET key == KeyOf(request[p].room, request[p].rec) IN
    /\ request[p].at = "ask"
    /\ IF key \in calls[request[p].rec.backend]
       THEN Goto(p, Idle) /\ UNCHANGED reported
       ELSE /\ Goto(p, At("missing", request[p].room, request[p].rec, None))
            /\ reported' = reported \cup {key}
    /\ UNCHANGED <<storage, resets, used, calls, queue, todo, doomed, serial, stray>>

\* The record of a call that the backend did not know is removed.
RemoveMissing(p) ==
    /\ request[p].at = "missing"
    /\ record' = Without({KeyOf(request[p].room, request[p].rec)})
    /\ Goto(p, Idle)
    /\ UNCHANGED <<index, link, resets, used, calls, queue, todo, doomed, serial, stray, reported>>
------------------------------------------------------------------------------
(* Call links: the handlers of PUT and DELETE /call-link.                  *)

Updated(state, u) ==
    [restrictions |-> IF u.restrictions = None THEN state.restrictions ELSE u.restrictions,
     revoked      |-> IF u.revoked = None THEN state.revoked ELSE u.revoked,
     expired      |-> state.expired]

\* With a create credential the table is written at once; restrictions default
\* to adminApproval.  A link that exists, with the same passkey, is updated.
CreateLink(p, r, u) ==
    LET v == [u EXCEPT !.restrictions = IF @ = None THEN "adminApproval" ELSE @]
        s == IF link[r] = None
             THEN [restrictions |-> "none", revoked |-> FALSE, expired |-> FALSE]
             ELSE link[r]
    IN  /\ "create" \in Handlers
        /\ request[p] = Idle
        /\ link' = [link EXCEPT ![r] = Updated(s, v)]
        /\ UNCHANGED <<record, index, resets, used, request, calls, queue, todo, doomed,
                       serial, stray, reported>>

\* Otherwise the link and the record are read first, and new restrictions are
\* refused while there is a record.
CheckForUpdate(p, r, u) ==
    /\ "update" \in Handlers
    /\ request[p] = Idle
    /\ link[r] # None
    /\ record[r] = None \/ u.restrictions = None
    /\ Goto(p, At("update", r, None, u))
    /\ UNCHANGED <<storage, resets, used, calls, queue, todo, doomed, serial, stray, reported>>

\* Seeded fault: the update is an upsert.
UpsertLink(p) ==
    LET r == request[p].room
        s == IF link[r] = None
             THEN [restrictions |-> "none", revoked |-> FALSE, expired |-> FALSE]
             ELSE link[r]
    IN  /\ request[p].at = "update"
        /\ link' = [link EXCEPT ![r] = Updated(s, request[p].update)]
        /\ Goto(p, Idle)
        /\ UNCHANGED <<record, index, resets, used, calls, queue, todo, doomed, serial, stray,
                       reported>>

\* update_call_link: the link must still exist; the record is not looked at.
UpdateLink(p) ==
    LET r == request[p].room IN
    /\ request[p].at = "update"
    /\ link' = IF link[r] = None THEN link
               ELSE [link EXCEPT ![r] = Updated(@, request[p].update)]
    /\ Goto(p, Idle)
    /\ UNCHANGED <<record, index, resets, used, calls, queue, todo, doomed, serial, stray,
                   reported>>

CheckForDelete(p, r) ==
    /\ "delete" \in Handlers
    /\ request[p] = Idle
    /\ link[r] # None
    /\ record[r] = None
    /\ Goto(p, At("delete", r, None, None))
    /\ UNCHANGED <<storage, resets, used, calls, queue, todo, doomed, serial, stray, reported>>

\* Seeded fault: the handler's own look at the record is trusted.
DeleteUnchecked(p) ==
    /\ request[p].at = "delete"
    /\ link' = [link EXCEPT ![request[p].room] = None]
    /\ Goto(p, Idle)
    /\ UNCHANGED <<record, index, resets, used, calls, queue, todo, doomed, serial, stray,
                   reported>>

\* delete_call_link: a transaction, cancelled if the room has a record by now.
DeleteLink(p) ==
    LET r == request[p].room IN
    /\ request[p].at = "delete"
    /\ link' = IF record[r] = None THEN [link EXCEPT ![r] = None] ELSE link
    /\ Goto(p, Idle)
    /\ UNCHANGED <<record, index, resets, used, calls, queue, todo, doomed, serial, stray,
                   reported>>

\* A link expires with time.
Expire(r) ==
    /\ link[r] # None
    /\ ~link[r].expired
    /\ link' = [link EXCEPT ![r].expired = TRUE]
    /\ UNCHANGED <<record, index, resets, used, request, calls, queue, todo, doomed, serial,
                   stray, reported>>

\* reset_call_link_expiration, in the task a join spawned.
ResetExpiration(r) ==
    /\ r \in resets
    /\ resets' = resets \ {r}
    /\ link' = IF link[r] = None THEN link ELSE [link EXCEPT ![r].expired = FALSE]
    /\ UNCHANGED <<record, index, used, request, calls, queue, todo, doomed, serial, stray,
                   reported>>
------------------------------------------------------------------------------
(* The end of a call on its backend.                                       *)

\* The SFU's tick ends the call, and call_ended_handler queues its key unless
\* the queue is full.
EndCall(b, key) ==
    /\ key \in calls[b]
    /\ calls' = [calls EXCEPT ![b] = @ \ {key}]
    /\ queue' = IF Cardinality(queue[b]) < QueueCapacity
                THEN [queue EXCEPT ![b] = @ \cup {key}] ELSE queue
    /\ reported' = reported \cup {key}
    /\ UNCHANGED <<storage, resets, used, request, todo, doomed, serial, stray>>

\* The lifecycle task empties the queue into its buffer.
Drain(b) ==
    /\ queue[b] # {}
    /\ doomed[b] = {} /\ serial[b] = {}
    /\ doomed' = [doomed EXCEPT ![b] = queue[b]]
    /\ queue' = [queue EXCEPT ![b] = {}]
    /\ UNCHANGED <<storage, resets, used, request, calls, todo, serial, stray, reported>>

\* A backend restarts: its calls are gone and nobody is told.
Restart(b) ==
    /\ BackendFails
    /\ calls' = [calls EXCEPT ![b] = {}]
    /\ queue' = [queue EXCEPT ![b] = {}]
    /\ doomed' = [doomed EXCEPT ![b] = {}]
    /\ serial' = [serial EXCEPT ![b] = {}]
    /\ UNCHANGED <<storage, resets, used, request, todo, stray, reported>>
------------------------------------------------------------------------------
(* The cleaner of a region.                                                *)

\* The region's records are listed, from the index.
ListCalls(g) ==
    /\ todo[g] = {} /\ doomed[g] = {} /\ serial[g] = {}
    /\ \E r \in Rooms : index[r] # None /\ RegionOf[index[r].backend] = g
    /\ todo' = [todo EXCEPT ![g] =
                   {[key |-> KeyOf(r, index[r]), backend |-> index[r].backend] :
                       r \in {q \in Rooms : index[q] # None /\ RegionOf[index[q].backend] = g}}]
    /\ UNCHANGED <<storage, resets, used, request, calls, queue, doomed, serial, stray, reported>>

\* Seeded fault: a backend that does not answer is taken to run the call.
KeepOnError(g, c, found) ==
    /\ c \in todo[g]
    /\ found => c.key \in calls[c.backend] \/ BackendFails
    /\ ~found => c.key \notin calls[c.backend]
    /\ todo' = [todo EXCEPT ![g] = @ \ {c}]
    /\ IF found THEN UNCHANGED <<doomed, reported>>
       ELSE /\ doomed' = [doomed EXCEPT ![g] = @ \cup {c.key}]
            /\ reported' = reported \cup {c.key}
    /\ UNCHANGED <<storage, resets, used, request, calls, queue, serial, stray>>

\* does_call_exist_on_backend: FALSE also when the backend fails to answer.
CheckCall(g, c, found) ==
    /\ c \in todo[g]
    /\ found => c.key \in calls[c.backend]
    /\ ~found => c.key \notin calls[c.backend] \/ BackendFails
    /\ todo' = [todo EXCEPT ![g] = @ \ {c}]
    /\ IF found THEN UNCHANGED <<doomed, reported>>
       ELSE /\ doomed' = [doomed EXCEPT ![g] = @ \cup {c.key}]
            /\ reported' = reported \cup {c.key}
    /\ UNCHANGED <<storage, resets, used, request, calls, queue, serial, stray>>
------------------------------------------------------------------------------
(* Removing records, by the lifecycle task and by the cleaner alike.       *)

\* Seeded fault: a batch that is cancelled is tried again until it succeeds.
RetryBatch(x, chunk, answered) ==
    /\ todo[x] = {} /\ serial[x] = {}
    /\ chunk # {} /\ chunk = doomed[x]
    /\ answered
    /\ doomed' = IF BatchSucceeds(chunk) THEN [doomed EXCEPT ![x] = {}] ELSE doomed
    /\ record' = IF BatchSucceeds(chunk) THEN Without(chunk) ELSE record
    /\ UNCHANGED <<index, link, resets, used, request, calls, queue, todo, serial, stray, reported>>

\* A chunk is removed in one transaction; if that fails, one by one.  A request
\* that fails may still be carried out later.
RemoveChunk(x, chunk, answered) ==
    /\ todo[x] = {} /\ serial[x] = {}
    /\ chunk # {} /\ chunk \subseteq doomed[x]
    /\ Cardinality(chunk) <= BatchSize
    /\ chunk = doomed[x] \/ Cardinality(chunk) = BatchSize
    /\ doomed' = [doomed EXCEPT ![x] = @ \ chunk]
    /\ \/ /\ answered
          /\ BatchSucceeds(chunk)
          /\ record' = Without(chunk)
          /\ UNCHANGED <<serial, stray>>
       \/ /\ answered
          /\ ~BatchSucceeds(chunk)
          /\ serial' = [serial EXCEPT ![x] = chunk]
          /\ UNCHANGED <<record, stray>>
       \/ /\ ~answered /\ StorageFails
          /\ serial' = [serial EXCEPT ![x] = chunk]
          /\ stray' = stray \cup {chunk}
          /\ UNCHANGED record
    /\ UNCHANGED <<index, link, resets, used, request, calls, queue, todo, reported>>

\* A record is removed on its own; a failure is only logged.
RemoveOne(x, key, answered) ==
    /\ key \in serial[x]
    /\ answered \/ StorageFails
    /\ serial' = [serial EXCEPT ![x] = @ \ {key}]
    /\ record' = IF answered THEN Without({key}) ELSE record
    /\ stray' = IF answered THEN stray ELSE stray \cup {{key}}
    /\ UNCHANGED <<index, link, resets, used, request, calls, queue, todo, doomed, reported>>

\* A removal that was given up on is carried out after all.
RemoveLate(keys) ==
    /\ keys \in stray
    /\ stray' = stray \ {keys}
    /\ record' = IF BatchSucceeds(keys) THEN Without(keys) ELSE record
    /\ UNCHANGED <<index, link, resets, used, request, calls, queue, todo, doomed, serial,
                   reported>>
------------------------------------------------------------------------------
Handle(p) ==
    \/ \E r \in Rooms, can_create \in BOOLEAN : ReadForJoin(p, r, can_create)
    \/ \E e \in Eras, b \in Backends, answered \in BOOLEAN : CreateRecord(p, e, b, answered)
    \/ JoinBackend(p)
    \/ FailRequest(p)
    \/ \E r \in Rooms : ReadForPeek(p, r)
    \/ AskBackend(p)
    \/ RemoveMissing(p)
    \/ \E r \in LinkRooms, u \in Updates : CreateLink(p, r, u) \/ CheckForUpdate(p, r, u)
    \/ UpdateLink(p)
    \/ \E r \in LinkRooms : CheckForDelete(p, r)
    \/ DeleteLink(p)

Remove(x, answered) ==
    \/ \E chunk \in SUBSET doomed[x] : RemoveChunk(x, chunk, answered)
    \/ \E key \in serial[x] : RemoveOne(x, key, answered)

Clean(g) ==
    \/ ListCalls(g)
    \/ \E c \in todo[g], found \in BOOLEAN : CheckCall(g, c, found)

Next ==
    \/ \E r \in Rooms : Replicate(r)
    \/ \E p \in Requests : Handle(p)
    \/ \E r \in LinkRooms : Expire(r) \/ ResetExpiration(r)
    \/ \E b \in Backends : Drain(b) \/ Restart(b)
    \/ \E b \in Backends, key \in Keys : EndCall(b, key)
    \/ \E g \in Regions : Clean(g)
    \/ \E x \in Removers, answered \in BOOLEAN : Remove(x, answered)
    \/ \E keys \in stray : RemoveLate(keys)

Spec == Init /\ [][Next]_vars

\* The index catches up, and a cleaner's loop goes on.
Fairness ==
    /\ \A r \in Rooms : WF_vars(Replicate(r))
    /\ \A g \in Regions : WF_vars(Clean(g)) /\ WF_vars(Remove(g, TRUE))

FairSpec == Spec /\ Fairness
------------------------------------------------------------------------------
(* Properties.                                                             *)

\* The locals of every request and task have the form their code gives them.
TypeOK ==
    /\ record \in [Rooms -> Records \cup {None}]
    /\ index \in [Rooms -> Records \cup {None}]
    /\ link \in [LinkRooms -> LinkStates \cup {None}]
    /\ resets \subseteq LinkRooms
    /\ used \subseteq Eras
    /\ request \in [Requests -> RequestStates]
    /\ calls \in [Backends -> SUBSET Keys]
    /\ queue \in [Backends -> SUBSET Keys]
    /\ todo \in [Removers -> SUBSET [key : Keys, backend : Backends]]
    /\ doomed \in [Removers -> SUBSET Keys]
    /\ serial \in [Removers -> SUBSET Keys]
    /\ stray \subseteq SUBSET Keys
    /\ reported \subseteq Keys

\* A running call is the one its room's record names, on the backend it names,
\* unless somebody found that call missing or saw it end.  So a room has two
\* calls only after such a report: no removal of an old call takes a new call's
\* record (remove_call_record), and no join replaces a record
\* (get_or_add_call_record).
RunningCallsAreRecorded ==
    \A b \in Backends : \A key \in calls[b] :
        record[key.room] = [era |-> key.era, backend |-> b] \/ key \in reported

\* A record goes away only if its own call was reported missing or ended, and
\* is never turned into the record of another call.
OnlyReportedRecordsGo ==
    [][\A r \in Rooms : record[r] # None /\ record'[r] # record[r]
            => record'[r] = None /\ KeyOf(r, record[r]) \in reported]_vars

\* A call link is deleted only while its room has no call record, although the
\* handler's own check (delete_call_link in call_links.rs) may be out of date.
LinksInUseAreKept ==
    [][\A r \in LinkRooms : link[r] # None /\ link'[r] = None => record[r] = None]_vars

\* A deleted link comes back only through a request with a create credential:
\* neither an update that read the link before nor the reset of its expiration
\* brings it back.
DeletedLinksStayDeleted ==
    [][\A r \in LinkRooms : link[r] = None /\ link'[r] # None
            => \E p \in Requests, u \in Updates : CreateLink(p, r, u)]_vars

\* The record of a call that is not running does not stay, even if the removal
\* queue was full, the backend restarted or does not answer: the cleaner finds it.
StaleRecordsAreRemoved ==
    \A r \in Rooms, rec \in Records :
        []<>(record[r] # rec \/ KeyOf(r, rec) \in calls[rec.backend])
================================================================================
