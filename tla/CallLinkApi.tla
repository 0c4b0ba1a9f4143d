----------------------------- MODULE CallLinkApi -----------------------------
(***************************************************************************)
(* The frontend's requests about one call link, with what they show, what  *)
(* they write and what they answer: frontend/src/api.rs (authorize),       *)
(* authenticator.rs, api/call_links.rs, the call link part of api/v2.rs,   *)
(* internal_api.rs and storage.rs.  Requests run concurrently and share    *)
(* only the table, whose operations are atomic and may fail, before or     *)
(* after they took effect.  Module CallRecords follows the call records    *)
(* further, without passkeys and answers.                                  *)
(*                                                                         *)
(* A request may have a flaw, which makes one of the checks fail; the      *)
(* first that does decides the answer.  A credential verifies against the  *)
(* parameters it was made for (zkgroup, external).  The name of a link is  *)
(* left out, it is updated like revoked.                                   *)
(***************************************************************************)
EXTENDS Naturals, Sequences, SequencesExt, FiniteSets

CONSTANTS
    Processes,          \* the requests handled at the same time
    ExpirationTimer, DeletionTimer, Horizon,
    None

VARIABLES
    link,               \* CallLinkState of the room
    record,             \* whether the room has a call record
    now,
    request,            \* of each process: where it is, with what request, since when
    answered,           \* the request that was answered last, how, and what it saw
    resets              \* the times of joins whose spawned tasks are to reset the expiration

cl_vars == <<link, record, now, request, answered, resets>>

Link(passkey, zk, restrictions, revoked, expiration, approved) ==
    [admin_passkey |-> passkey, zkparams |-> zk, restrictions |-> restrictions,
     revoked |-> revoked, expiration |-> expiration, delete_at |-> expiration + DeletionTimer,
     approved_users |-> approved]

\* A request: a route, a credential (of a group, for a link, to create a link) with the
\* parameters it is for, a passkey, new values, and what is wrong with it.
Query(route, auth, zk, passkey, restrictions, revoked, approved, flaws) ==
    [route |-> route, auth |-> auth, zk |-> zk, passkey |-> passkey,
     restrictions |-> restrictions, revoked |-> revoked, approved |-> approved, flaws |-> flaws]

Idle == [at |-> "idle", q |-> None, start |-> 0]

Init ==
    /\ link = None
    /\ record = FALSE
    /\ now = 0
    /\ request = [p \in Processes |-> Idle]
    /\ answered = None
    /\ resets = {}
------------------------------------------------------------------------------
(* Before the table is read: the metrics and authorize layers, the         *)
(* extractors, and what a handler looks at first.                          *)

\* The checks in their order, each with whether it fails and the answer it then gives.

\* metrics and authorize.  A password is not looked at beyond its form; a credential to
\* create a link is taken in a PUT only.
AuthorizeChecks(q) ==
    LET has(f) == f \in q.flaws IN
    << <<has("user agent") \/ has("colon"), 400>>,
       <<has("no authorization"), 401>>, <<has("scheme"), 400>>,
       <<has("token") /\ q.auth = "group", 401>>, <<has("token"), 400>>,
       <<q.auth = "create" /\ q.route \notin {"update", "join"}, 400>> >>

\* The handlers.  One whose required extension is missing fails; one that declared it
\* optional answers.
HandlerChecks(q) ==
    LET has(f) == f \in q.flaws IN
    << <<q.auth = "group" /\ q.route \in {"read", "reset", "forget"}, 500>>,
       <<has("room") /\ q.route \notin {"join", "peek"}, 400>>,
       <<has("body") /\ q.route \in {"update", "delete", "join"}, 400>>,
       <<has("hex") /\ q.route \in {"update", "delete", "reset", "forget"}, 400>>,
       <<has("size") /\ q.route \in {"update", "delete"}, 413>>,
       <<has("public key") /\ q.route = "join", 400>>,
       <<has("room"), 400>>,
       <<q.auth = "group" \/ (q.auth = "create" /\ q.route = "join"), 401>>,
       <<has("zkparams") /\ q.route = "update", 400>>,
       <<has("credential") /\ q.auth = "create", 401>> >>

\* The answer to a request that is refused without a look at the table, or 0.  The routes
\* of the internal API have no such layers.
Refusal(q) ==
    LET checks  == AuthorizeChecks(q) \o HandlerChecks(q)
        failing == SelectInSeq(checks, LAMBDA c : c[1])
    IN  IF q.route = "approve" \/ failing = 0 THEN 0 ELSE checks[failing][2]

\* verify_auth_credential_against_zkparams
Verifies(q) == "credential" \notin q.flaws /\ q.zk = link.zkparams

------------------------------------------------------------------------------
(* The handlers, up to their first write.                                  *)

\* What a handler finds in the table: an answer, or 0 if it goes on to write.
ReadFound(q)   == IF link = None THEN 404 ELSE IF Verifies(q) THEN 200 ELSE 403

UpdateFound(q) == IF q.auth = "create" THEN 0
                  ELSE IF link = None THEN 401
                  ELSE IF ~Verifies(q) THEN 403
                  ELSE IF record /\ q.restrictions # None THEN 409 ELSE 0

DeleteFound(q) == IF link = None THEN 200
                  ELSE IF ~Verifies(q) THEN 403
                  ELSE IF record THEN 409 ELSE 0

ResetFound(q)  == IF link = None THEN 404 ELSE IF Verifies(q) THEN 0 ELSE 403

PeekFound(q)   == IF link = None THEN 404
                  ELSE IF ~Verifies(q) THEN 403
                  ELSE IF record THEN 200 ELSE 404

JoinFound(q)   == IF link = None THEN 404
                  ELSE IF ~Verifies(q) THEN 403
                  ELSE IF link.revoked \/ link.expiration < now THEN 404
                  ELSE IF record THEN 200 ELSE 0

Found(q) ==
    CASE q.route = "read"   -> ReadFound(q)
      [] q.route = "update" -> UpdateFound(q)
      [] q.route = "delete" -> DeleteFound(q)
      [] q.route = "peek"   -> PeekFound(q)
      [] q.route = "join"   -> JoinFound(q)
      [] q.route \in {"reset", "forget"} -> ResetFound(q)
      [] q.route = "approve" -> 0

Answer(q, status, seen) == answered' = [q |-> q, status |-> status, seen |-> seen]

Begin(p, q) ==
    LET status == IF Refusal(q) # 0 THEN Refusal(q) ELSE Found(q) IN
    /\ request[p] = Idle
    /\ IF status # 0
       THEN Answer(q, status, link) /\ UNCHANGED request
       ELSE /\ request' = [request EXCEPT ![p] = [at |-> "write", q |-> q, start |-> now]]
            /\ answered' = None
    /\ UNCHANGED <<link, record, now, resets>>
------------------------------------------------------------------------------
(* The writes, in storage.rs.                                              *)

Or(new, old) == IF new = None THEN old ELSE new

\* Seeded fault: the defaults of a new link replace what is there.
UpsertedAnew(q) ==
    Link(q.passkey, q.zk, Or(q.restrictions, "adminApproval"), Or(q.revoked, FALSE),
         now + ExpirationTimer, {})

\* Seeded fault: the given attributes too are set only where there is nothing.
UpsertedIfAbsent(q) ==
    IF link # None THEN link
    ELSE Link(q.passkey, q.zk, Or(q.restrictions, "adminApproval"), Or(q.revoked, FALSE),
              now + ExpirationTimer, {})

\* UpsertableItem: the given attributes are set, the defaults only where there is nothing.
\* To create a link without restrictions is to create it with adminApproval.
Upserted(q) ==
    IF link = None
    THEN Link(q.passkey, q.zk, Or(q.restrictions, "adminApproval"), Or(q.revoked, FALSE),
              now + ExpirationTimer, {})
    ELSE [link EXCEPT !.admin_passkey = q.passkey,
                      !.restrictions = IF q.auth = "create" THEN Or(q.restrictions, "adminApproval")
                                       ELSE Or(q.restrictions, @),
                      !.revoked = Or(q.revoked, @)]

\* Seeded fault: a link with the same parameters is taken over.
MayUpdateAnyPasskey(q) ==
    IF q.auth = "create" THEN link = None \/ link.zkparams = q.zk
    ELSE link # None /\ link.admin_passkey = q.passkey

\* The condition of update_call_link.
MayUpdate(q) ==
    IF q.auth = "create"
    THEN link = None \/ (link.admin_passkey = q.passkey /\ link.zkparams = q.zk)
    ELSE link # None /\ link.admin_passkey = q.passkey

\* Seeded fault: the time of deletion stays.
ResetKeepingDeletion(t) ==
    IF link = None THEN link ELSE [link EXCEPT !.expiration = t + ExpirationTimer]

\* reset_call_link_expiration, for a time t.
Reset(t) ==
    IF link = None THEN link
    ELSE [link EXCEPT !.expiration = t + ExpirationTimer,
                      !.delete_at = t + ExpirationTimer + DeletionTimer]

\* update_call_link_approved_users: the attribute of a link that exists.
Approve(users) == IF link = None THEN link ELSE [link EXCEPT !.approved_users = users]

\* What a write does and answers; 0 where the link is looked at again to tell why its
\* condition failed.
Outcome(new, answer) == [link |-> new, record |-> record, answer |-> answer]

UpdateWritten(q) == IF MayUpdate(q) THEN Outcome(Upserted(q), 200)
                    ELSE Outcome(link, IF q.auth = "create" THEN 409 ELSE 0)

\* A transaction, in which the condition on the link is looked at before that on the record.
DeleteWritten(q) == IF link = None THEN Outcome(link, 0)
                    ELSE IF link.admin_passkey # q.passkey THEN Outcome(link, 0)
                    ELSE IF record THEN Outcome(link, 409) ELSE Outcome(None, 200)

ResetWritten   == Outcome(Reset(now), IF link = None THEN 500 ELSE 200)
ForgetWritten  == Outcome(Approve({}), IF link = None THEN 500 ELSE 200)

\* update_approval of the internal API, for the backend.
ApproveWritten(q) == Outcome(Approve(q.approved), IF link = None THEN 404 ELSE 200)

\* get_or_create_call_link_call_record: a record that is there already is as good.
JoinWritten    == [link |-> link, record |-> TRUE, answer |-> 200]

Written(q) ==
    CASE q.route = "update"  -> UpdateWritten(q)
      [] q.route = "delete"  -> DeleteWritten(q)
      [] q.route = "reset"   -> ResetWritten
      [] q.route = "forget"  -> ForgetWritten
      [] q.route = "approve" -> ApproveWritten(q)
      [] q.route = "join"    -> JoinWritten

Write(p) ==
    LET q == request[p].q
        w == Written(q)
    IN  /\ request[p].at = "write"
        /\ link' = w.link /\ record' = w.record
        /\ IF w.answer = 0
           THEN request' = [request EXCEPT ![p].at = "why"] /\ answered' = None
           ELSE request' = [request EXCEPT ![p] = Idle] /\ Answer(q, w.answer, w.link)
        /\ resets' = IF q.route = "join" THEN resets \cup {request[p].start} ELSE resets
        /\ UNCHANGED now

\* An operation of which the handler hears only an error: it was done, or it was not.
Fail(p) ==
    /\ request[p] # Idle
    /\ request' = [request EXCEPT ![p] = Idle]
    /\ Answer(request[p].q, 500, None)
    /\ \/ UNCHANGED <<link, record>>
       \/ /\ request[p].at = "write"
          /\ link' = Written(request[p].q).link /\ record' = Written(request[p].q).record
    /\ UNCHANGED <<now, resets>>

\* The second look at the link, after a condition failed.
Disambiguate(p) ==
    LET q == request[p].q IN
    /\ request[p].at = "why"
    /\ request' = [request EXCEPT ![p] = Idle]
    /\ Answer(q, IF link # None THEN 403 ELSE IF q.route = "delete" THEN 200 ELSE 500, link)
    /\ UNCHANGED <<link, record, now, resets>>

\* The task that a join spawned; it only logs a failure.
ResetLater(t) ==
    /\ t \in resets
    /\ resets' = resets \ {t}
    /\ link' \in {link, Reset(t)}
    /\ answered' = None
    /\ UNCHANGED <<record, now, request>>
------------------------------------------------------------------------------
(* The surroundings.                                                       *)

EndCall == record /\ record' = FALSE /\ answered' = None /\ UNCHANGED <<link, now, request, resets>>

Pass == /\ now < Horizon /\ now' = now + 1 /\ answered' = None
        /\ UNCHANGED <<link, record, request, resets>>

\* The table drops an item some time after its deleteAt.
DropOld == /\ link # None /\ link.delete_at <= now
           /\ link' = None /\ answered' = None
           /\ UNCHANGED <<record, now, request, resets>>
------------------------------------------------------------------------------
(* Properties.                                                             *)

\* A link keeps its creator's passkey and parameters as long as it exists, and only a
\* request that shows this passkey changes its restrictions, revokes or deletes it: two
\* creators of a room, or a request that read another link before, never mix.
LinksAreTheirCreators ==
    [][link # None =>
          /\ link' # None => /\ link'.admin_passkey = link.admin_passkey
                             /\ link'.zkparams = link.zkparams
          /\ \/ link' = None /\ link.delete_at <= now
             \/ link' # None /\ <<link'.restrictions, link'.revoked>> =
                                <<link.restrictions, link.revoked>>
             \/ \E p \in Processes : /\ request[p].at = "write" /\ request'[p] = Idle
                                     /\ request[p].q.passkey = link.admin_passkey]_cl_vars

\* The table deletes a link only DeletionTimer after it expired, however joins, resets and
\* updates interleave: "records are preserved after expiration, at least for a while".
LinksOutliveTheirExpiration ==
    link # None => link.delete_at = link.expiration + DeletionTimer

\* Approved users change only when the backend persists them or they are reset: no update,
\* repeated creation or reset of the expiration loses them.
ApprovalsSurvive ==
    [][link # None /\ link' # None /\ link'.approved_users # link.approved_users =>
          \E p \in Processes : /\ request[p].at = "write" /\ request'[p] = Idle
                               /\ request[p].q.route \in {"forget", "approve"}]_cl_vars

\* What an answer says was true when it was decided: after a 200 a deleted link was gone
\* ("Idempotent, succeeds if call link is not found") and an updated one had the new
\* values; a 409 to a creator means that the room is another's.
AnswersAreTrue ==
    answered # None =>
        LET q == answered.q  seen == answered.seen IN
        /\ q.route = "delete" /\ answered.status = 200 => seen = None
        /\ q.route = "update" /\ answered.status = 200 =>
              /\ seen.admin_passkey = q.passkey
              /\ q.restrictions # None => seen.restrictions = q.restrictions
              /\ q.revoked # None => seen.revoked
        /\ q.route = "update" /\ q.auth = "create" /\ answered.status = 409 =>
              seen.admin_passkey # q.passkey \/ seen.zkparams # q.zk
==============================================================================
