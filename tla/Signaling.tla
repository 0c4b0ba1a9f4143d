----------------------------- MODULE Signaling ------------------------------
(***************************************************************************)
(* The HTTP handlers of the backend on top of the SFU: the signaling       *)
(* server that the frontend talks to (signaling_server.rs) and the server  *)
(* that stands in for the frontend in tests (http_server.rs); main.rs      *)
(* starts one of them.  A join is checked before it waits for the Sfu's    *)
(* mutex.  Health and metrics take a snapshot of the calls, let go of the  *)
(* Sfu and then lock one call after the other.                             *)
(***************************************************************************)
EXTENDS Sfu, FiniteSets, FiniteSetsExt

CONSTANTS
    Requests,       \* the contents of join requests
    Reads           \* bound: the health and metrics requests of a behaviour

VARIABLES
    testing,        \* whether http_server runs
    request,        \* the joins that were checked and wait for the Sfu
    answer,         \* the status of each join
    in_call,        \* history: the Call object a join was added to
    admin, client_status,   \* what add_client was told, and what became of the client
    reader, reads,
    ever, always    \* history: the clients at some time, and at all times, since the snapshot

own     == <<testing, request, answer, in_call, admin, client_status, reader, reads, ever, always>>
allvars == <<vars, own>>

NoRead == [at |-> "idle"]

SignalingInit ==
    /\ Init
    /\ testing \in BOOLEAN
    /\ request = {}
    /\ answer = [j \in Joins |-> None]
    /\ in_call = [j \in Joins |-> None]
    /\ admin = {}
    /\ client_status = [j \in Joins |-> None]
    /\ reader = NoRead /\ reads = 0
    /\ ever = {} /\ always = {}
------------------------------------------------------------------------------
(* Joining.                                                                *)

\* The clients of a Call object that are in its list of the given standing.
Listed(call, standing) == {j \in Joins : /\ in_call[j] = call /\ client_status[j] = standing
                                         /\ DemuxIdOf(j) \in members[call]}
ClientsOf(call) == Listed(call, "Active")

\* get_call_signaling_info, which get_clients and get_participants answer with, or with 404.
SignalingInfo(c) ==
    LET call == call_by_call_id[c]
    IN  IF call = None THEN None
        ELSE [creator_id         |-> call,
              client_ids         |-> {DemuxIdOf(j) : j \in ClientsOf(call)},
              pending_client_ids |-> {DemuxIdOf(j) : j \in Listed(call, "Pending")}]

\* A compressed key, or an uncompressed one that begins with 4 or 5, which is compressed.
KeyIsValid(key) == /\ key.hex
                   /\ \/ key.digits = 66
                      \/ key.digits = 130 /\ key.first \in {4, 5}

\* join of signaling_server.rs, up to the lock.
IsValid(r) == r.room /\ r.call /\ r.demux /\ r.user /\ KeyIsValid(r.key) /\ r.hkdf

\* join_conference of http_server.rs, up to the lock: the user and the call are in the password.
TestingStatus(r) ==
    CASE ~(r.user /\ r.call)                    -> "401"
      [] ~(r.key.hex /\ r.key.digits = 66)      -> "406"
      [] ~r.hkdf                                -> "406"
      [] OTHER                                  -> None

StatusOf(r) == IF testing THEN TestingStatus(r) ELSE IF IsValid(r) THEN None ELSE "400"

\* The request is read and checked; one that is refused never gets to the Sfu.
Arrive(j, r) ==
    /\ answer[j] = None /\ j \notin {q.join : q \in request}
    /\ IF StatusOf(r) = None
       THEN /\ request' = request \cup {[join |-> j, first |-> call_by_call_id[CallIdOf(j)] = None]}
            /\ UNCHANGED answer
       ELSE answer' = [answer EXCEPT ![j] = StatusOf(r)] /\ UNCHANGED request
    /\ UNCHANGED <<vars, testing, in_call, admin, client_status, reader, reads>>

\* "Make the first user to join an admin": get_call_signaling_info and the join share one lock.
IsFirst(q) == SignalingInfo(CallIdOf(q.join)) = None

IsDuplicate(j) == call_by_call_id[CallIdOf(j)] # None /\ IsMember(ConnIdOf[j])

\* Seeded fault: every refusal is taken for the client's mistake.
ErrorStatusOfTheClient(j) == "400"

\* The status of a join that the Sfu refuses.
ErrorStatus(j) == IF ~testing /\ IsDuplicate(j) THEN "400" ELSE "500"

\* What the Sfu makes of the join (module Sfu), with the client's standing (module Call).  The
\* frontend says who is an admin.
HandleJoin(q, agreed, is_admin, standing) ==
    LET j == q.join IN
    /\ q \in request /\ request' = request \ {q}
    /\ testing => is_admin = IsFirst(q)
    /\ is_admin => standing = "Active"
    /\ Join(j, agreed)
    /\ answer' = [answer EXCEPT ![j] = IF ~IsDuplicate(j) /\ agreed THEN "200" ELSE ErrorStatus(j)]
    /\ IF IsDuplicate(j) THEN UNCHANGED <<in_call, admin, client_status>>
       ELSE /\ in_call' = [in_call EXCEPT ![j] = call_by_call_id'[CallIdOf(j)]]
            /\ admin' = IF is_admin THEN admin \cup {j} ELSE admin
            /\ client_status' = [i \in Joins |-> IF i = j THEN standing
                                                 ELSE IF ConnIdOf[i] = ConnIdOf[j] THEN None
                                                 ELSE client_status[i]]
    /\ UNCHANGED <<testing, reader, reads>>

\* An admin lets a pending client in.
Promote(j) ==
    /\ client_status[j] = "Pending"
    /\ client_status' = [client_status EXCEPT ![j] = "Active"]
    /\ UNCHANGED <<vars, testing, request, answer, in_call, admin, reader, reads>>
------------------------------------------------------------------------------
(* Health, metrics and statistics.                                         *)

Calls   == {call_by_call_id[c] : c \in CallIds} \ {None}
Clients == UNION {ClientsOf(call) : call \in Calls}

\* Call::size, and the length of the clients of Call::get_stats.
CallSize(call) == Cardinality(ClientsOf(call))

\* get_health and get_metrics: get_calls_snapshot.  An unhealthy backend answers 500 at once.
BeginRead ==
    /\ reader = NoRead /\ reads < Reads
    /\ reads' = reads + 1
    /\ reader' = [at |-> "counting", left |-> Calls, call_count |-> Cardinality(Calls),
                  client_count |-> 0]
    /\ UNCHANGED <<vars, testing, request, answer, in_call, admin, client_status>>

\* The next call of the snapshot is locked, whether or not it is still in the table.
ReadCall(call) ==
    /\ reader.at = "counting" /\ call \in reader.left
    /\ reader' = [reader EXCEPT !.left = @ \ {call}, !.client_count = @ + CallSize(call)]
    /\ UNCHANGED <<vars, testing, request, answer, in_call, admin, client_status, reads>>

EndRead ==
    /\ reader.at = "counting" /\ reader.left = {}
    /\ reader' = NoRead
    /\ UNCHANGED <<vars, testing, request, answer, in_call, admin, client_status, reads>>

\* Sfu::get_stats, all of it under the Sfu's lock: a connection whose call is not in the table
\* is left out with a warning.
Stats ==
    [calls       |-> Cardinality(Calls),
     clients     |-> MapThenSumSet(CallSize, Calls),
     above_one   |-> Cardinality({call \in Calls : CallSize(call) > 1}),
     connections |-> {i \in ConnIds : connection_by_id[i] # None /\ call_by_call_id[i[1]] # None},
     skipped     |-> {i \in ConnIds : connection_by_id[i] # None /\ call_by_call_id[i[1]] = None}]
------------------------------------------------------------------------------
\* The packet workers, the tick and the passing of time (module Sfu).
SfuStep ==
    /\ \/ \E w \in Workers : \/ Handle(w)
                             \/ \E j \in Joins, a \in Addrs :
                                   ReceiveRtp(w, j, a) \/ ReceiveIce(w, j, a)
       \/ \E check \in BOOLEAN, timed_out \in SUBSET CallIds : Tick(check, timed_out, {})
       \/ \E j \in Joins : FallSilent(j)
    /\ UNCHANGED <<testing, request, answer, in_call, admin, client_status, reader, reads>>

SignalingNext ==
    /\ \/ \E j \in Joins, r \in Requests : Arrive(j, r)
       \/ \E q \in request, agreed, is_admin \in BOOLEAN, s \in {"Active", "Pending", "Blocked"} :
             HandleJoin(q, agreed, is_admin, s)
       \/ \E j \in Joins : Promote(j)
       \/ BeginRead \/ EndRead \/ \E call \in Joins : ReadCall(call)
       \/ SfuStep
    /\ ever' = IF reader = NoRead THEN {} ELSE ever \cup Clients \cup Clients'
    /\ always' = CASE reader'.at # "counting" -> {}
                   [] reader = NoRead         -> Clients'
                   [] OTHER                   -> always \cap Clients'

SignalingSpec == SignalingInit /\ [][SignalingNext]_allvars
------------------------------------------------------------------------------
(* Properties.                                                             *)

\* "Make the first user to join an admin" (join_conference): however joins wait for the lock,
\* the admins of a call are its creators, whose join made the Call object.
AdminsAreCreators == testing => \A j \in admin : in_call[j] = j

\* A health or metrics answer counts, although calls come and go while it locks one after the
\* other, every client that was there all the time and none that never was.
HealthIsOfTheMoment ==
    reader.at = "counting" /\ reader.left = {} =>
        Cardinality(always) <= reader.client_count /\ reader.client_count <= Cardinality(ever)

\* The statistics leave out a connection for want of its call ("call_id not found in
\* call_size_map") only while a worker has yet to remove the connection of a client that left.
SkippedConnectionsLeave ==
    \A i \in Stats.skipped : \E w \in Workers : worker[w].at = "left" /\ ConnIdOf[worker[w].conn] = i

AnswersFit ==
    \A j \in Joins : answer'[j] # answer[j] =>
        /\ (answer'[j] = "200") = (connection_by_id'[ConnIdOf[j]] = j)
        /\ answer'[j] \in {"400", "401", "406"} => UNCHANGED tables

\* A join is answered 200 if and only if its client has a connection then, and a join that is
\* answered with 400, 401 or 406 leaves the tables of the Sfu alone.
JoinsAreAnswered == [][AnswersFit]_allvars
=============================================================================
