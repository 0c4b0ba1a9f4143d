--------------------------------- MODULE Sfu ---------------------------------
(***************************************************************************)
(* The tables of the SFU and the threads that work on them:                *)
(* backend/src/sfu.rs.  Signaling and the tick hold the Sfu's mutex from   *)
(* beginning to end.  A packet worker takes the mutex of the Sfu, of a     *)
(* connection and of a call one after the other and lets go of each, so a  *)
(* packet is handled in several steps and everything it looked up may be   *)
(* gone or replaced when it comes to use it.                               *)
(*                                                                         *)
(* A Call object and a Connection object are named by the join request     *)
(* that created them: this is the identity of the Arc, and of the random   *)
(* ICE username.  Of a call's three client lists (module Call) only their  *)
(* union matters here.  Left out: forwarding, which changes no table, and  *)
(* RTCP, which takes the same locks as RTP.                                *)
(***************************************************************************)
EXTENDS Naturals

CONSTANTS
    CallIds, DemuxIds, Addrs, Workers,
    Joins,          \* the join requests; each arrives at most once
    ConnIdOf,       \* the call and the demux ID a join request names
    CryptoFails,    \* whether the key agreement of a join may fail
    None

ConnIds == CallIds \X DemuxIds

ASSUME NoneAssumption  == None \notin Joins /\ None \notin ConnIds
ASSUME JoinsAssumption == ConnIdOf \in [Joins -> ConnIds]
ASSUME FailAssumption  == CryptoFails \in BOOLEAN

VARIABLES
    call_by_call_id,    \* the Call object of a call ID
    members,            \* the demux IDs in some list of a Call object
    connection_by_id,   \* the Connection object of a connection ID
    usernames,          \* the keys of connection_id_by_ice_request_username
    connection_id_by_address,
    quiet,              \* connections past their inactivity timeout
    gone,               \* devices that never send again
    asked,              \* join requests handled
    failed,             \* history: joins that failed after add_client
    worker              \* where each packet worker is

tables == <<call_by_call_id, members, connection_by_id, usernames, connection_id_by_address>>
vars   == <<tables, quiet, gone, asked, failed, worker>>

CallIdOf(j)  == ConnIdOf[j][1]
DemuxIdOf(j) == ConnIdOf[j][2]

\* A worker at rest, or with the locals of the handler it is in: the packet's
\* sender, which is also its connection, the Call object, the address.
Idle        == [at |-> "idle", conn |-> None, call |-> None, addr |-> None]
WorkerStates ==
    {Idle} \cup [at : {"rtp"}, conn : Joins, call : {None}, addr : {None}]
           \cup [at : {"call", "left"}, conn : Joins, call : Joins, addr : {None}]
           \cup [at : {"ice", "checked"}, conn : Joins, call : {None}, addr : Addrs]

Init == /\ call_by_call_id = [c \in CallIds |-> None]
        /\ members = [j \in Joins |-> {}]
        /\ connection_by_id = [i \in ConnIds |-> None]
        /\ usernames = {}
        /\ connection_id_by_address = [a \in Addrs |-> None]
        /\ quiet = {}
        /\ gone = {}
        /\ asked = {}
        /\ failed = {}
        /\ worker = [w \in Workers |-> Idle]
------------------------------------------------------------------------------
(* Signaling.                                                              *)

\* get_or_create_call_and_add_client.  The client is in the call before the
\* keys are agreed on; the connection comes after.
Join(j, agreed) ==
    LET id   == ConnIdOf[j]
        call == IF call_by_call_id[id[1]] = None THEN j ELSE call_by_call_id[id[1]]
    IN  /\ j \notin asked
        /\ agreed \/ CryptoFails
        /\ asked' = asked \cup {j}
        /\ call_by_call_id' = [call_by_call_id EXCEPT ![id[1]] = call]
        /\ IF id[2] \in members[call]       \* DuplicateDemuxIdDetected
           THEN UNCHANGED <<members, connection_by_id, usernames, failed>>
           ELSE /\ members' = [members EXCEPT ![call] = @ \cup {id[2]}]
                /\ IF agreed
                   THEN /\ connection_by_id' = [connection_by_id EXCEPT ![id] = j]
                        /\ usernames' = usernames \cup {j}
                        /\ UNCHANGED failed
                   ELSE /\ failed' = failed \cup {j}
                        /\ UNCHANGED <<connection_by_id, usernames>>
        /\ UNCHANGED <<connection_id_by_address, quiet, gone, worker>>
------------------------------------------------------------------------------
(* A packet worker.                                                        *)

\* RTP: the connection is found by the address, and its keys fit only packets
\* of its own device.
ReceiveRtp(w, j, a) ==
    /\ worker[w] = Idle
    /\ j \notin gone
    /\ connection_id_by_address[a] = ConnIdOf[j]
    /\ connection_by_id[ConnIdOf[j]] = j
    /\ worker' = [worker EXCEPT ![w] = [Idle EXCEPT !.at = "rtp", !.conn = j]]
    /\ UNCHANGED <<tables, quiet, gone, asked, failed>>

\* The Sfu is locked again to look up the call; MissingCall ends the handler.
FindCall(w) ==
    /\ worker[w].at = "rtp"
    /\ LET call == call_by_call_id[CallIdOf(worker[w].conn)] IN
       worker' = [worker EXCEPT ![w] = IF call = None THEN Idle
                                       ELSE [@ EXCEPT !.at = "call", !.call = call]]
    /\ UNCHANGED <<tables, quiet, gone, asked, failed>>

\* Seeded fault: the handler ends without removing the connection.
LeaveOnly(w) ==
    /\ worker[w].at = "call"
    /\ members' = [members EXCEPT ![worker[w].call] = @ \ {DemuxIdOf(worker[w].conn)}]
    /\ worker' = [worker EXCEPT ![w] = Idle]
    /\ UNCHANGED <<call_by_call_id, connection_by_id, usernames, connection_id_by_address,
                   quiet, gone, asked, failed>>

\* The call handles a "leave" message under its own lock.
HandleLeave(w) ==
    /\ worker[w].at = "call"
    /\ members' = [members EXCEPT ![worker[w].call] = @ \ {DemuxIdOf(worker[w].conn)}]
    /\ worker' = [worker EXCEPT ![w].at = "left"]
    /\ UNCHANGED <<call_by_call_id, connection_by_id, usernames, connection_id_by_address,
                   quiet, gone, asked, failed>>

\* Any other RTP packet leaves the tables alone.
HandleMedia(w) ==
    /\ worker[w].at = "call"
    /\ worker' = [worker EXCEPT ![w] = Idle]
    /\ UNCHANGED <<tables, quiet, gone, asked, failed>>

\* Seeded fault: the username stays.
RemoveOnlyConnection(w) ==
    /\ worker[w].at = "left"
    /\ connection_by_id' = [connection_by_id EXCEPT ![ConnIdOf[worker[w].conn]] = None]
    /\ worker' = [worker EXCEPT ![w] = Idle]
    /\ UNCHANGED <<call_by_call_id, members, usernames, connection_id_by_address,
                   quiet, gone, asked, failed>>

\* After a "leave" the Sfu is locked again to forget the connection.
RemoveConnection(w) ==
    LET id == ConnIdOf[worker[w].conn] IN
    /\ worker[w].at = "left"
    /\ connection_by_id' = [connection_by_id EXCEPT ![id] = None]
    /\ usernames' = usernames \ {connection_by_id[id]}
    /\ worker' = [worker EXCEPT ![w] = Idle]
    /\ UNCHANGED <<call_by_call_id, members, connection_id_by_address, quiet, gone, asked, failed>>

\* ICE: the connection is found by the username, and its password fits only
\* checks of its own device.
ReceiveIce(w, j, a) ==
    /\ worker[w] = Idle
    /\ j \notin gone
    /\ j \in usernames
    /\ connection_by_id[ConnIdOf[j]] = j
    /\ worker' = [worker EXCEPT ![w] = [at |-> "ice", conn |-> j, call |-> None, addr |-> a]]
    /\ UNCHANGED <<tables, quiet, gone, asked, failed>>

\* The connection takes note of the check under its own lock.
HandleIce(w) ==
    /\ worker[w].at = "ice"
    /\ quiet' = quiet \ {worker[w].conn}
    /\ worker' = [worker EXCEPT ![w].at = "checked"]
    /\ UNCHANGED <<tables, gone, asked, failed>>

\* The Sfu is locked again to remember the address.
InsertAddress(w) ==
    /\ worker[w].at = "checked"
    /\ connection_id_by_address' =
          [connection_id_by_address EXCEPT ![worker[w].addr] = ConnIdOf[worker[w].conn]]
    /\ worker' = [worker EXCEPT ![w] = Idle]
    /\ UNCHANGED <<call_by_call_id, members, connection_by_id, usernames, quiet, gone, asked, failed>>
------------------------------------------------------------------------------
(* The tick and the passing of time.                                       *)

\* Seeded fault: a connection that has no address is never found inactive.
ExpiredIfAddressed(check) ==
    {i \in ConnIds : /\ check /\ connection_by_id[i] \in quiet
                     /\ \E a \in Addrs : connection_id_by_address[a] = i}

\* The connections the tick drops, when the check for inactivity is due.
Expired(check) == {i \in ConnIds : check /\ connection_by_id[i] \in quiet}

\* Seeded fault: the clients of dropped connections stay in the call.
KeepAll(c, check) == members[call_by_call_id[c]]

\* The clients of a call after those of the dropped connections are dropped.
Remaining(c, check) ==
    members[call_by_call_id[c]] \ {i[2] : i \in {e \in Expired(check) : e[1] = c}}

\* Seeded fault: the timeout alone decides.
OverByTimeout(check, timed_out) == {c \in timed_out : call_by_call_id[c] # None}

\* The calls that have neither clients nor a reason to wait (ApprovedUsers).
Over(check, timed_out) ==
    {c \in timed_out : call_by_call_id[c] # None /\ Remaining(c, check) = {}}

\* Drops connections, then their clients, then calls, then the addresses not
\* seen for long.  A worker can have a connection or a call locked meanwhile,
\* but the tick does not look twice at what it changes there.
Tick(check, timed_out, old_addrs) ==
    /\ connection_by_id' = [i \in ConnIds |-> IF i \in Expired(check) THEN None
                                              ELSE connection_by_id[i]]
    /\ usernames' = usernames \ {connection_by_id[i] : i \in Expired(check)}
    /\ members' = [j \in Joins |-> IF call_by_call_id[CallIdOf(j)] = j
                                   THEN Remaining(CallIdOf(j), check) ELSE members[j]]
    /\ call_by_call_id' = [c \in CallIds |-> IF c \in Over(check, timed_out) THEN None
                                             ELSE call_by_call_id[c]]
    /\ connection_id_by_address' = [a \in Addrs |-> IF a \in old_addrs THEN None
                                                     ELSE connection_id_by_address[a]]
    /\ UNCHANGED <<quiet, gone, asked, failed, worker>>

\* The inactivity timeout passes without an ICE check of the device.
FallSilent(j) ==
    /\ j \in asked \ quiet
    /\ quiet' = quiet \cup {j}
    /\ UNCHANGED <<tables, gone, asked, failed, worker>>

\* The device crashes or loses its network for good.
Vanish(j) ==
    /\ j \in asked \ gone
    /\ gone' = gone \cup {j}
    /\ UNCHANGED <<tables, quiet, asked, failed, worker>>
------------------------------------------------------------------------------
Handle(w) == \/ FindCall(w) \/ HandleLeave(w) \/ HandleMedia(w) \/ RemoveConnection(w)
             \/ HandleIce(w) \/ InsertAddress(w)

Next == \/ \E j \in Joins, agreed \in BOOLEAN : Join(j, agreed)
        \/ \E w \in Workers, j \in Joins, a \in Addrs : ReceiveRtp(w, j, a) \/ ReceiveIce(w, j, a)
        \/ \E w \in Workers : Handle(w)
        \/ \E check \in BOOLEAN, timed_out \in SUBSET CallIds, old_addrs \in SUBSET Addrs :
              Tick(check, timed_out, old_addrs)
        \/ \E j \in Joins : FallSilent(j) \/ Vanish(j)

Spec == Init /\ [][Next]_vars

\* Workers finish what they began, the tick comes round, and the timeout of a
\* device that sends nothing passes.
Fairness == /\ \A w \in Workers : WF_vars(Handle(w))
            /\ WF_vars(Tick(TRUE, CallIds, {}))
            /\ \A j \in Joins : WF_vars(j \in gone /\ FallSilent(j))

FairSpec == Spec /\ Fairness
------------------------------------------------------------------------------
(* Properties.                                                             *)

TypeOK ==
    /\ call_by_call_id \in [CallIds -> Joins \cup {None}]
    /\ members \in [Joins -> SUBSET DemuxIds]
    /\ connection_by_id \in [ConnIds -> Joins \cup {None}]
    /\ usernames \subseteq Joins
    /\ connection_id_by_address \in [Addrs -> ConnIds \cup {None}]
    /\ quiet \subseteq Joins
    /\ gone \subseteq Joins
    /\ asked \subseteq Joins
    /\ failed \subseteq Joins
    /\ worker \in [Workers -> WorkerStates]

\* The frontend draws demux IDs at random (get_random_demux_id), so no two
\* requests name the same connection; the SFU alone does not ensure it.
FreshDemuxIds == \A j1, j2 \in Joins : ConnIdOf[j1] = ConnIdOf[j2] => j1 = j2

\* A Call object that is not in the table any more has no clients: nobody is
\* ever added to, or left behind in, a call that signaling cannot see.
OrphanCallsAreEmpty ==
    \A j \in Joins : members[j] # {} => call_by_call_id[CallIdOf(j)] = j

\* The table of ICE usernames has exactly the usernames of the connections, so
\* no device is locked out and no entry is left behind.
UsernamesMatchConnections ==
    usernames = {connection_by_id[i] : i \in ConnIds} \ {None}

Leaving(j) == \E w \in Workers : worker[w].at = "left" /\ worker[w].conn = j

IsMember(i) == call_by_call_id[i[1]] # None /\ i[2] \in members[call_by_call_id[i[1]]]

\* Every connection belongs to a client of a call, except while a worker is
\* between handling the client's "leave" and removing its connection.
ConnectionsHaveClients ==
    \A i \in ConnIds : connection_by_id[i] # None => IsMember(i) \/ Leaving(connection_by_id[i])

\* Every client of a call has a connection, which is what its inactivity is
\* measured by, unless its join failed after the call had added it.
ClientsHaveConnections ==
    \A j \in Joins : /\ j \in asked \ failed
                     /\ IsMember(ConnIdOf[j])
                     => connection_by_id[ConnIdOf[j]] = j

\* The four tables of the Sfu agree although a join, a leave, a packet and the tick each
\* change several of them, some in two steps (get_or_create_call_and_add_client,
\* remove_connection, tick).
TablesAgree ==
    /\ OrphanCallsAreEmpty /\ UsernamesMatchConnections
    /\ ConnectionsHaveClients /\ ClientsHaveConnections

\* A device that has vanished is dropped from its call, whatever the workers
\* were doing with its last packets, unless its join failed half-way.
ConnectedClientsAreDropped ==
    \A j \in Joins : (j \in gone \ failed) ~> ~IsMember(ConnIdOf[j])

\* "Amount of time to wait before dropping a call or client due to inactivity"
\* (config.rs:109): a device that has vanished is dropped from its call.
VanishedClientsAreDropped ==
    \A j \in Joins : (j \in gone) ~> ~IsMember(ConnIdOf[j])
==============================================================================
