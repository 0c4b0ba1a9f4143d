------------------------------ MODULE SfuProofs ------------------------------
(***************************************************************************)
(* Proofs about the tables of the SFU, for any number of calls, devices,   *)
(* addresses, workers and join requests.                                   *)
(***************************************************************************)
EXTENDS Sfu, TLAPS

LEMMA JoinFacts ==
    /\ \A j \in Joins : /\ CallIdOf(j) \in CallIds
                        /\ DemuxIdOf(j) \in DemuxIds
                        /\ ConnIdOf[j] \in ConnIds
                        /\ ConnIdOf[j] = <<CallIdOf(j), DemuxIdOf(j)>>
    /\ \A i \in ConnIds : i[1] \in CallIds /\ i[2] \in DemuxIds /\ i = <<i[1], i[2]>>
BY JoinsAssumption DEF ConnIds, CallIdOf, DemuxIdOf

LEMMA WorkerFacts ==
    /\ Idle \in WorkerStates
    /\ \A s \in WorkerStates :
          /\ s.at \in {"rtp", "call", "left", "ice", "checked"} => s.conn \in Joins
          /\ s.at \in {"call", "left"} => s.call \in Joins
          /\ s.at \in {"ice", "checked"} => s.addr \in Addrs
          /\ s.at = "call" => [s EXCEPT !.at = "left"] \in WorkerStates
          /\ s.at = "ice" => [s EXCEPT !.at = "checked"] \in WorkerStates
          /\ s.at = "rtp" => \A k \in Joins :
                                [s EXCEPT !.at = "call", !.call = k] \in WorkerStates
    /\ \A j \in Joins : [Idle EXCEPT !.at = "rtp", !.conn = j] \in WorkerStates
    /\ \A j \in Joins, a \in Addrs :
          [at |-> "ice", conn |-> j, call |-> None, addr |-> a] \in WorkerStates
<1>1. Idle \in WorkerStates
  BY DEF WorkerStates
<1>2. ASSUME NEW s \in WorkerStates
      PROVE  /\ s.at \in {"rtp", "call", "left", "ice", "checked"} => s.conn \in Joins
             /\ s.at \in {"call", "left"} => s.call \in Joins
             /\ s.at \in {"ice", "checked"} => s.addr \in Addrs
  BY DEF WorkerStates, Idle
<1>3. ASSUME NEW s \in WorkerStates, s.at = "call"
      PROVE  [s EXCEPT !.at = "left"] \in WorkerStates
  BY <1>3 DEF WorkerStates, Idle
<1>4. ASSUME NEW s \in WorkerStates, s.at = "ice"
      PROVE  [s EXCEPT !.at = "checked"] \in WorkerStates
  BY <1>4 DEF WorkerStates, Idle
<1>5. ASSUME NEW s \in WorkerStates, s.at = "rtp", NEW k \in Joins
      PROVE  [s EXCEPT !.at = "call", !.call = k] \in WorkerStates
  <2>1. s \in [at : {"rtp"}, conn : Joins, call : {None}, addr : {None}]
    BY <1>5 DEF WorkerStates, Idle
  <2>2. [s EXCEPT !.at = "call", !.call = k]
            \in [at : {"call", "left"}, conn : Joins, call : Joins, addr : {None}]
    BY <2>1
  <2>3. QED
    BY <2>2 DEF WorkerStates
<1>6. ASSUME NEW j \in Joins
      PROVE  [Idle EXCEPT !.at = "rtp", !.conn = j] \in WorkerStates
  BY DEF WorkerStates, Idle
<1>7. ASSUME NEW j \in Joins, NEW a \in Addrs
      PROVE  [at |-> "ice", conn |-> j, call |-> None, addr |-> a] \in WorkerStates
  BY DEF WorkerStates
<1>8. QED
  BY <1>1, <1>2, <1>3, <1>4, <1>5, <1>6, <1>7

\* What a join does, with the Call object it ends up with.
Joined(j, call) ==
    /\ j \notin asked
    /\ asked' = asked \cup {j}
    /\ call = IF call_by_call_id[CallIdOf(j)] = None THEN j ELSE call_by_call_id[CallIdOf(j)]
    /\ call_by_call_id' = [call_by_call_id EXCEPT ![CallIdOf(j)] = call]
    /\ \/ /\ DemuxIdOf(j) \in members[call]
          /\ UNCHANGED <<members, connection_by_id, usernames, failed>>
       \/ /\ DemuxIdOf(j) \notin members[call]
          /\ members' = [members EXCEPT ![call] = members[call] \cup {DemuxIdOf(j)}]
          /\ connection_by_id' = [connection_by_id EXCEPT ![ConnIdOf[j]] = j]
          /\ usernames' = usernames \cup {j}
          /\ failed' = failed
       \/ /\ DemuxIdOf(j) \notin members[call]
          /\ members' = [members EXCEPT ![call] = members[call] \cup {DemuxIdOf(j)}]
          /\ failed' = failed \cup {j}
          /\ UNCHANGED <<connection_by_id, usernames>>
    /\ UNCHANGED <<connection_id_by_address, quiet, gone, worker>>

LEMMA JoinEffect ==
    ASSUME TypeOK, NEW j \in Joins, NEW agreed \in BOOLEAN, Join(j, agreed)
    PROVE  \E call \in Joins : Joined(j, call)
<1> DEFINE call == IF call_by_call_id[CallIdOf(j)] = None THEN j ELSE call_by_call_id[CallIdOf(j)]
<1>1. call \in Joins
  BY JoinFacts DEF TypeOK
<1>2. Joined(j, call)
  BY DEF Join, Joined, CallIdOf, DemuxIdOf
<1>3. QED
  BY <1>1, <1>2

LEMMA InitTypeOK == Init => TypeOK
<1> SUFFICES ASSUME Init PROVE TypeOK
  OBVIOUS
<1>1. worker \in [Workers -> WorkerStates]
  BY WorkerFacts DEF Init
<1>2. /\ call_by_call_id \in [CallIds -> Joins \cup {None}]
      /\ members \in [Joins -> SUBSET DemuxIds]
      /\ connection_by_id \in [ConnIds -> Joins \cup {None}]
      /\ connection_id_by_address \in [Addrs -> ConnIds \cup {None}]
  BY DEF Init
<1> QED BY <1>1, <1>2 DEF Init, TypeOK

LEMMA TypeStep == TypeOK /\ [Next]_vars => TypeOK'
<1> SUFFICES ASSUME TypeOK, [Next]_vars
             PROVE  TypeOK'
  OBVIOUS
<1>1. ASSUME NEW j \in Joins, NEW agreed \in BOOLEAN, Join(j, agreed)
      PROVE  TypeOK'
  <2>1. PICK call \in Joins : Joined(j, call)
    BY <1>1, JoinEffect
  <2>2. ConnIdOf[j] \in ConnIds /\ CallIdOf(j) \in CallIds /\ DemuxIdOf(j) \in DemuxIds
    BY JoinFacts
  <2>3. /\ call_by_call_id' \in [CallIds -> Joins \cup {None}]
        /\ asked' \subseteq Joins
    BY <2>1, <2>2 DEF TypeOK, Joined
  <2>4. members' \in [Joins -> SUBSET DemuxIds]
    BY <2>1, <2>2 DEF TypeOK, Joined
  <2>5. connection_by_id' \in [ConnIds -> Joins \cup {None}]
    BY <2>1, <2>2 DEF TypeOK, Joined
  <2>6. usernames' \subseteq Joins /\ failed' \subseteq Joins
    BY <2>1 DEF TypeOK, Joined
  <2>7. QED
    BY <2>1, <2>3, <2>4, <2>5, <2>6 DEF TypeOK, Joined
<1>2. ASSUME NEW w \in Workers, NEW j \in Joins, NEW a \in Addrs,
             ReceiveRtp(w, j, a) \/ ReceiveIce(w, j, a)
      PROVE  TypeOK'
  <2>1. PICK s \in WorkerStates : worker' = [worker EXCEPT ![w] = s]
    <3>1. CASE ReceiveRtp(w, j, a)
      BY <3>1, WorkerFacts, Zenon DEF ReceiveRtp
    <3>2. CASE ReceiveIce(w, j, a)
      BY <3>2, WorkerFacts, Zenon DEF ReceiveIce
    <3> QED BY <1>2, <3>1, <3>2
  <2>2. UNCHANGED <<tables, quiet, gone, asked, failed>>
    BY <1>2 DEF ReceiveRtp, ReceiveIce
  <2>3. worker' \in [Workers -> WorkerStates]
    BY <2>1 DEF TypeOK
  <2> QED BY <2>2, <2>3 DEF TypeOK, tables
<1>3. ASSUME NEW w \in Workers, FindCall(w)
      PROVE  TypeOK'
  BY <1>3, JoinFacts, WorkerFacts DEF TypeOK, FindCall, tables
<1>4. ASSUME NEW w \in Workers, HandleLeave(w)
      PROVE  TypeOK'
  BY <1>4, JoinFacts, WorkerFacts DEF TypeOK, HandleLeave
<1>5. ASSUME NEW w \in Workers, HandleMedia(w)
      PROVE  TypeOK'
  BY <1>5, JoinFacts, WorkerFacts DEF TypeOK, HandleMedia, tables
<1>11. ASSUME NEW w \in Workers, RemoveConnection(w)
      PROVE  TypeOK'
  BY <1>11, JoinFacts, WorkerFacts DEF TypeOK, RemoveConnection
<1>6. ASSUME NEW w \in Workers, HandleIce(w)
      PROVE  TypeOK'
  BY <1>6, JoinFacts, WorkerFacts DEF TypeOK, HandleIce, tables
<1>12. ASSUME NEW w \in Workers, InsertAddress(w)
      PROVE  TypeOK'
  BY <1>12, JoinFacts, WorkerFacts DEF TypeOK, InsertAddress
<1>7. ASSUME NEW check \in BOOLEAN, NEW timed_out \in SUBSET CallIds,
             NEW old_addrs \in SUBSET Addrs, Tick(check, timed_out, old_addrs)
      PROVE  TypeOK'
  BY <1>7, JoinFacts, WorkerFacts DEF TypeOK, Tick, Remaining
<1>8. ASSUME NEW j \in Joins, FallSilent(j) \/ Vanish(j)
      PROVE  TypeOK'
  BY <1>8 DEF TypeOK, FallSilent, Vanish, tables
<1>9. CASE UNCHANGED vars
  BY <1>9 DEF TypeOK, vars, tables
<1>10. QED
  BY <1>1, <1>2, <1>3, <1>4, <1>5, <1>6, <1>7, <1>8, <1>9, <1>11, <1>12 DEF Next, Handle

\* Every table holds objects of its own kind.
THEOREM TypeCorrect == Spec => []TypeOK
BY InitTypeOK, TypeStep, PTL DEF Spec
------------------------------------------------------------------------------
(* Calls that ended have no clients.                                       *)

\* A Call object is listed under the call ID it was created for.
CallsKnowTheirIds ==
    \A c \in CallIds : call_by_call_id[c] # None => CallIdOf(call_by_call_id[c]) = c

CallInv == TypeOK /\ CallsKnowTheirIds /\ OrphanCallsAreEmpty

LEMMA CallStep == CallInv /\ [Next]_vars => CallInv'
<1> SUFFICES ASSUME CallInv, [Next]_vars
             PROVE  CallInv'
  OBVIOUS
<1>0. TypeOK /\ TypeOK'
  BY TypeStep DEF CallInv
<1> SUFFICES (CallsKnowTheirIds /\ OrphanCallsAreEmpty)'
  BY <1>0 DEF CallInv
<1>1. ASSUME NEW j \in Joins, NEW agreed \in BOOLEAN, Join(j, agreed)
      PROVE  (CallsKnowTheirIds /\ OrphanCallsAreEmpty)'
  <2>1. PICK call \in Joins : Joined(j, call)
    BY <1>0, <1>1, JoinEffect
  <2>2. CallIdOf(call) = CallIdOf(j) /\ CallIdOf(j) \in CallIds
    BY <2>1, JoinFacts DEF Joined, CallInv, CallsKnowTheirIds
  <2>3. call_by_call_id'[CallIdOf(j)] = call
        /\ \A c \in CallIds : c # CallIdOf(j) => call_by_call_id'[c] = call_by_call_id[c]
    BY <1>0, <2>1, <2>2 DEF Joined, TypeOK
  <2>4. \A k \in Joins : k # call => members'[k] = members[k]
    BY <1>0, <2>1 DEF Joined, TypeOK
  <2>5. CallsKnowTheirIds'
    BY <2>2, <2>3 DEF CallInv, CallsKnowTheirIds, CallIdOf
  <2>6. ASSUME NEW k \in Joins, members'[k] # {}
        PROVE  call_by_call_id'[CallIdOf(k)] = k
    <3>1. CASE k = call
      BY <2>2, <2>3, <3>1
    <3>2. CASE k # call
      <4>1. call_by_call_id[CallIdOf(k)] = k
        BY <2>4, <2>6, <3>2 DEF CallInv, OrphanCallsAreEmpty
      <4>2. CallIdOf(k) # CallIdOf(j)
        BY <2>1, <3>2, <4>1, NoneAssumption DEF Joined
      <4>3. QED
        BY <2>3, <4>1, <4>2, JoinFacts
    <3>3. QED
      BY <3>1, <3>2
  <2>7. QED
    BY <2>5, <2>6 DEF OrphanCallsAreEmpty, CallIdOf
<1>2. ASSUME NEW w \in Workers, HandleLeave(w)
      PROVE  (CallsKnowTheirIds /\ OrphanCallsAreEmpty)'
  <2>1. \A k \in Joins : members'[k] \subseteq members[k]
    BY <1>0, <1>2 DEF HandleLeave, TypeOK
  <2>2. QED
    BY <1>2, <2>1 DEF HandleLeave, CallInv, CallsKnowTheirIds, OrphanCallsAreEmpty, CallIdOf
<1>3. ASSUME NEW check \in BOOLEAN, NEW timed_out \in SUBSET CallIds,
             NEW old_addrs \in SUBSET Addrs, Tick(check, timed_out, old_addrs)
      PROVE  (CallsKnowTheirIds /\ OrphanCallsAreEmpty)'
  <2>1. \A c \in CallIds : call_by_call_id'[c] \in {call_by_call_id[c], None}
    BY <1>3 DEF Tick
  <2>2. CallsKnowTheirIds'
    BY <2>1 DEF CallInv, CallsKnowTheirIds, CallIdOf
  <2>3. ASSUME NEW k \in Joins, members'[k] # {}
        PROVE  call_by_call_id'[CallIdOf(k)] = k
    <3>1. call_by_call_id[CallIdOf(k)] = k
      BY <1>3, <2>3 DEF Tick, CallInv, OrphanCallsAreEmpty
    <3>2. members'[k] = Remaining(CallIdOf(k), check)
      BY <1>3, <3>1 DEF Tick
    <3>3. CallIdOf(k) \notin Over(check, timed_out)
      BY <2>3, <3>2 DEF Over
    <3>4. QED
      BY <1>3, <3>1, <3>3, JoinFacts DEF Tick
  <2>4. QED
    BY <2>2, <2>3 DEF OrphanCallsAreEmpty, CallIdOf
<1>4. ASSUME UNCHANGED <<call_by_call_id, members>>
      PROVE  (CallsKnowTheirIds /\ OrphanCallsAreEmpty)'
  BY <1>4 DEF CallInv, CallsKnowTheirIds, OrphanCallsAreEmpty, CallIdOf
<1>5. QED
  BY <1>1, <1>2, <1>3, <1>4 DEF Next, Handle, ReceiveRtp, ReceiveIce, FindCall, HandleMedia,
     RemoveConnection, HandleIce, InsertAddress, FallSilent, Vanish, vars, tables

LEMMA CallInvariant == Spec => []CallInv
<1>1. Init => CallInv
  BY InitTypeOK DEF Init, CallInv, CallsKnowTheirIds, OrphanCallsAreEmpty
<1>2. QED
  BY <1>1, CallStep, PTL DEF Spec

\* No interleaving of joins, departures and ticks leaves a client in a Call
\* object that is no longer listed, even if demux IDs collide.
THEOREM OrphansAreEmpty == Spec => []OrphanCallsAreEmpty
BY CallInvariant, PTL DEF CallInv
------------------------------------------------------------------------------
(* Clients and connections, when every join request has its own demux ID.  *)

\* How the steps that change the client lists change who is a member.

LEMMA JoinMembers ==
    ASSUME CallInv, NEW j \in Joins, NEW call \in Joins, Joined(j, call), NEW i \in ConnIds
    PROVE  IsMember(i)' <=> IsMember(i) \/ i = ConnIdOf[j]
<1>1. TypeOK
  BY DEF CallInv
<1>2. CallIdOf(call) = CallIdOf(j) /\ CallIdOf(j) \in CallIds
  BY JoinFacts DEF Joined, CallInv, CallsKnowTheirIds
<1>3. /\ i[1] \in CallIds
      /\ i = ConnIdOf[j] <=> i[1] = CallIdOf(j) /\ i[2] = DemuxIdOf(j)
  BY JoinFacts
<1>4. /\ call_by_call_id'[CallIdOf(j)] = call
      /\ \A c \in CallIds : c # CallIdOf(j) => call_by_call_id'[c] = call_by_call_id[c]
  BY <1>1, <1>2 DEF Joined, TypeOK
<1>5. /\ \A k \in Joins : k # call => members'[k] = members[k]
      /\ members'[call] = members[call] \cup {DemuxIdOf(j)}
  BY <1>1 DEF Joined, TypeOK
<1>6. CASE i[1] # CallIdOf(j)
  <2>1. call_by_call_id[i[1]] # None => /\ call_by_call_id[i[1]] \in Joins
                                        /\ call_by_call_id[i[1]] # call
    BY <1>1, <1>2, <1>3, <1>6 DEF TypeOK, CallInv, CallsKnowTheirIds
  <2>2. QED
    BY <1>3, <1>4, <1>5, <1>6, <2>1 DEF IsMember
<1>7. CASE i[1] = CallIdOf(j)
  <2>1. IsMember(i)' <=> i[2] \in members[call] \cup {DemuxIdOf(j)}
    BY <1>4, <1>5, <1>7, NoneAssumption DEF IsMember
  <2>2. i[2] \in members[call] <=> IsMember(i)
    <3>1. CASE call_by_call_id[CallIdOf(j)] = None
      BY <1>7, <3>1, NoneAssumption DEF Joined, IsMember, CallInv, OrphanCallsAreEmpty
    <3>2. CASE call_by_call_id[CallIdOf(j)] # None
      BY <1>7, <3>2 DEF Joined, IsMember
    <3>3. QED
      BY <3>1, <3>2
  <2>3. QED
    BY <1>3, <1>7, <2>1, <2>2
<1>8. QED
  BY <1>6, <1>7

LEMMA TickMembers ==
    ASSUME CallInv, NEW check, NEW timed_out, NEW old_addrs, Tick(check, timed_out, old_addrs),
           NEW i \in ConnIds
    PROVE  IsMember(i)' <=> IsMember(i) /\ i \notin Expired(check)
<1>1. i[1] \in CallIds /\ i = <<i[1], i[2]>>
  BY JoinFacts
<1>2. CASE call_by_call_id[i[1]] = None
  BY <1>1, <1>2 DEF Tick, IsMember
<1>3. CASE call_by_call_id[i[1]] # None
  <2> DEFINE k == call_by_call_id[i[1]]
  <2>1. k \in Joins /\ CallIdOf(k) = i[1]
    BY <1>1, <1>3 DEF CallInv, TypeOK, CallsKnowTheirIds
  <2>2. members'[k] = Remaining(i[1], check)
    BY <2>1 DEF Tick
  <2>3. i[2] \in Remaining(i[1], check) <=> i[2] \in members[k] /\ i \notin Expired(check)
    <3>1. \A e \in Expired(check) : e \in ConnIds /\ e = <<e[1], e[2]>>
      BY JoinFacts DEF Expired
    <3>2. QED
      BY <1>1, <3>1 DEF Remaining
  <2>4. CASE i[1] \in Over(check, timed_out)
    <3>1. Remaining(i[1], check) = {}
      BY <2>4 DEF Over
    <3>2. call_by_call_id'[i[1]] = None
      BY <1>1, <2>4 DEF Tick
    <3>3. QED
      BY <1>3, <2>3, <3>1, <3>2 DEF IsMember
  <2>5. CASE i[1] \notin Over(check, timed_out)
    <3>1. call_by_call_id'[i[1]] = k
      BY <1>1, <2>5 DEF Tick
    <3>2. QED
      BY <1>3, <2>2, <2>3, <3>1 DEF IsMember
  <2>6. QED
    BY <2>4, <2>5
<1>4. QED
  BY <1>2, <1>3

\* A Connection object is listed under the ID its join request named.
ConnectionsKnowTheirIds ==
    \A i \in ConnIds : connection_by_id[i] # None =>
        connection_by_id[i] \in asked /\ ConnIdOf[connection_by_id[i]] = i

UsernamesKnown == \A j \in Joins : j \in usernames <=> connection_by_id[ConnIdOf[j]] = j

MembersAsked == \A i \in ConnIds : IsMember(i) => \E j \in asked : ConnIdOf[j] = i

\* What a worker looked up still holds as far as it matters: while the sender
\* is a client, the Call object the worker found is the listed one, and once
\* the worker has dropped the sender, the sender stays dropped.
WorkerKnows(w) ==
    /\ worker[w].at \in {"rtp", "call", "left"} => worker[w].conn \in asked
    /\ worker[w].at = "call" =>
          /\ CallIdOf(worker[w].call) = CallIdOf(worker[w].conn)
          /\ IsMember(ConnIdOf[worker[w].conn]) =>
                call_by_call_id[CallIdOf(worker[w].conn)] = worker[w].call
    /\ worker[w].at = "left" => ~IsMember(ConnIdOf[worker[w].conn])

WorkersKnow == \A w \in Workers : WorkerKnows(w)

TableInv == /\ CallInv
            /\ ConnectionsKnowTheirIds
            /\ UsernamesKnown
            /\ MembersAsked
            /\ WorkersKnow
            /\ ConnectionsHaveClients
            /\ ClientsHaveConnections

LEMMA LeaveMembers ==
    ASSUME TableInv, NEW w \in Workers, HandleLeave(w), NEW i \in ConnIds
    PROVE  IsMember(i)' <=> IsMember(i) /\ i # ConnIdOf[worker[w].conn]
<1> DEFINE j == worker[w].conn
           k == worker[w].call
<1>1. worker[w] \in WorkerStates /\ worker[w].at = "call"
  BY DEF HandleLeave, TableInv, CallInv, TypeOK
<1>2. j \in Joins /\ k \in Joins
  BY <1>1, WorkerFacts
<1>3. /\ CallIdOf(k) = CallIdOf(j)
      /\ IsMember(ConnIdOf[j]) => call_by_call_id[CallIdOf(j)] = k
  BY <1>1 DEF TableInv, WorkersKnow, WorkerKnows
<1>4. /\ members'[k] = members[k] \ {DemuxIdOf(j)}
      /\ \A l \in Joins : l # k => members'[l] = members[l]
      /\ call_by_call_id' = call_by_call_id
  BY <1>2 DEF HandleLeave, TableInv, CallInv, TypeOK
<1>5. /\ i[1] \in CallIds
      /\ i = ConnIdOf[j] <=> i[1] = CallIdOf(j) /\ i[2] = DemuxIdOf(j)
  BY <1>2, JoinFacts
<1>6. call_by_call_id[i[1]] # None => /\ call_by_call_id[i[1]] \in Joins
                                      /\ CallIdOf(call_by_call_id[i[1]]) = i[1]
  BY <1>5 DEF TableInv, CallInv, TypeOK, CallsKnowTheirIds
<1> HIDE DEF j, k
<1>7. CASE i = ConnIdOf[j]
  <2>1. ASSUME IsMember(i) PROVE ~IsMember(i)'
    BY <1>3, <1>4, <1>5, <1>7, <2>1 DEF IsMember
  <2>2. ASSUME ~IsMember(i) PROVE ~IsMember(i)'
    BY <1>4, <1>5, <1>6, <2>2 DEF IsMember
  <2>3. QED
    BY <1>7, <2>1, <2>2 DEF j
<1>8. CASE i # ConnIdOf[j]
  <2>1. IsMember(i)' <=> IsMember(i)
    BY <1>3, <1>4, <1>5, <1>6, <1>8 DEF IsMember
  <2>2. QED
    BY <1>8, <2>1 DEF j
<1>9. QED
  BY <1>7, <1>8

Rest == /\ ConnectionsKnowTheirIds
        /\ UsernamesKnown
        /\ MembersAsked
        /\ WorkersKnow
        /\ ConnectionsHaveClients
        /\ ClientsHaveConnections

LEMMA JoinTables ==
    ASSUME FreshDemuxIds, TableInv, NEW j \in Joins, NEW agreed \in BOOLEAN, Join(j, agreed)
    PROVE  Rest'
<1>1. TypeOK /\ CallInv
  BY DEF TableInv, CallInv
<1>2. PICK call \in Joins : Joined(j, call)
  BY <1>1, JoinEffect
<1>3. \A i \in ConnIds : IsMember(i)' <=> IsMember(i) \/ i = ConnIdOf[j]
  BY <1>1, <1>2, JoinMembers
<1>4. /\ \A k \in asked : ConnIdOf[k] # ConnIdOf[j]
      /\ asked \subseteq Joins
      /\ asked' = asked \cup {j}
      /\ j \notin asked
      /\ ConnIdOf[j] \in ConnIds
      /\ worker' = worker
  BY <1>1, <1>2, JoinFacts DEF FreshDemuxIds, Joined, TypeOK
<1>5. ~IsMember(ConnIdOf[j]) /\ connection_by_id[ConnIdOf[j]] = None
  BY <1>4 DEF TableInv, MembersAsked, ConnectionsKnowTheirIds
<1>6. \/ /\ connection_by_id' = [connection_by_id EXCEPT ![ConnIdOf[j]] = j]
         /\ usernames' = usernames \cup {j}
         /\ failed' = failed
      \/ /\ failed' = failed \cup {j}
         /\ UNCHANGED <<connection_by_id, usernames>>
  <2>1. DemuxIdOf(j) \notin members[call]
    BY <1>1, <1>2, <1>5, JoinFacts, NoneAssumption
       DEF Joined, IsMember, CallInv, OrphanCallsAreEmpty
  <2>2. QED
    BY <1>2, <2>1 DEF Joined
<1>7. connection_by_id \in [ConnIds -> Joins \cup {None}]
  BY <1>1 DEF TypeOK
<1>8. ConnectionsKnowTheirIds'
  BY <1>4, <1>6, <1>7 DEF TableInv, ConnectionsKnowTheirIds
<1>9. UsernamesKnown'
  BY <1>4, <1>5, <1>6, <1>7, NoneAssumption, JoinFacts
     DEF TableInv, UsernamesKnown, FreshDemuxIds
<1>10. MembersAsked'
  BY <1>3, <1>4 DEF TableInv, MembersAsked
<1>11. WorkersKnow'
  <2> SUFFICES ASSUME NEW w \in Workers
               PROVE  WorkerKnows(w)'
    BY DEF WorkersKnow
  <2>1. WorkerKnows(w)
    BY DEF TableInv, WorkersKnow
  <2>2. worker[w] \in WorkerStates
    BY <1>1 DEF TypeOK
  <2>3. worker[w].at \in {"rtp", "call", "left"} =>
           worker[w].conn \in asked /\ worker[w].conn \in Joins
    BY <1>4, <2>1, <2>2 DEF WorkerKnows
  <2>4. worker[w].conn \in asked =>
           (IsMember(ConnIdOf[worker[w].conn])' <=> IsMember(ConnIdOf[worker[w].conn]))
    BY <1>3, <1>4, JoinFacts
  <2>5. \A k \in asked : IsMember(ConnIdOf[k]) =>
           call_by_call_id'[CallIdOf(k)] = call_by_call_id[CallIdOf(k)]
    BY <1>1, <1>2, <1>4, JoinFacts DEF Joined, IsMember, TypeOK
  <2>6. QED
    BY <1>4, <2>1, <2>3, <2>4, <2>5 DEF WorkerKnows, CallIdOf
<1>12. ConnectionsHaveClients'
  BY <1>3, <1>4, <1>6, <1>7 DEF TableInv, ConnectionsHaveClients, Leaving
<1>13. ClientsHaveConnections'
  BY <1>3, <1>4, <1>6, <1>7, JoinFacts DEF TableInv, ClientsHaveConnections
<1>14. QED
  BY <1>8, <1>9, <1>10, <1>11, <1>12, <1>13 DEF Rest

LEMMA LeaveTables ==
    ASSUME FreshDemuxIds, TableInv, NEW w \in Workers, HandleLeave(w)
    PROVE  Rest'
<1> DEFINE j == worker[w].conn
<1>1. TypeOK
  BY DEF TableInv, CallInv
<1>2. worker[w] \in WorkerStates /\ worker[w].at = "call"
  BY <1>1 DEF HandleLeave, TypeOK
<1>3. j \in asked /\ j \in Joins /\ ConnIdOf[j] \in ConnIds
  BY <1>2, WorkerFacts, JoinFacts DEF TableInv, WorkersKnow, WorkerKnows
<1>4. \A i \in ConnIds : IsMember(i)' <=> IsMember(i) /\ i # ConnIdOf[j]
  BY LeaveMembers
<1>5. UNCHANGED <<call_by_call_id, connection_by_id, usernames, asked, failed>>
  BY DEF HandleLeave
<1>6. /\ worker'[w].at = "left" /\ worker'[w].conn = j
      /\ \A v \in Workers : v # w => worker'[v] = worker[v]
  BY <1>1, <1>2 DEF HandleLeave, TypeOK
<1> HIDE DEF j
<1>7. ConnectionsKnowTheirIds' /\ UsernamesKnown'
  BY <1>5 DEF TableInv, ConnectionsKnowTheirIds, UsernamesKnown
<1>8. MembersAsked' /\ ClientsHaveConnections'
  BY <1>4, <1>5, JoinFacts DEF TableInv, MembersAsked, ClientsHaveConnections
<1>9. WorkersKnow'
  <2> SUFFICES ASSUME NEW v \in Workers
               PROVE  WorkerKnows(v)'
    BY DEF WorkersKnow
  <2>1. CASE v = w
    BY <1>3, <1>4, <1>5, <1>6, <2>1 DEF WorkerKnows
  <2>2. CASE v # w
    <3>1. WorkerKnows(v) /\ worker'[v] = worker[v] /\ worker[v] \in WorkerStates
      BY <1>1, <1>6, <2>2 DEF TableInv, WorkersKnow, TypeOK
    <3>2. worker[v].at \in {"call", "left"} => ConnIdOf[worker[v].conn] \in ConnIds
      BY <3>1, WorkerFacts, JoinFacts
    <3>3. QED
      BY <1>4, <1>5, <3>1, <3>2 DEF WorkerKnows, CallIdOf
  <2>3. QED
    BY <2>1, <2>2
<1>10. ConnectionsHaveClients'
  <2> SUFFICES ASSUME NEW i \in ConnIds, connection_by_id[i] # None
               PROVE  IsMember(i)' \/ Leaving(connection_by_id[i])'
    BY <1>5 DEF ConnectionsHaveClients, Leaving
  <2>1. CASE i = ConnIdOf[j]
    <3>1. connection_by_id[i] = j
      BY <1>1, <1>3, <2>1 DEF TableInv, ConnectionsKnowTheirIds, FreshDemuxIds, TypeOK
    <3>2. QED
      BY <1>5, <1>6, <3>1 DEF Leaving
  <2>2. CASE i # ConnIdOf[j]
    <3>1. IsMember(i) \/ Leaving(connection_by_id[i])
      BY DEF TableInv, ConnectionsHaveClients
    <3>2. Leaving(connection_by_id[i]) => Leaving(connection_by_id[i])'
      BY <1>2, <1>5, <1>6 DEF Leaving
    <3>3. QED
      BY <1>4, <2>2, <3>1, <3>2
  <2>3. QED
    BY <2>1, <2>2
<1>11. QED
  BY <1>7, <1>8, <1>9, <1>10 DEF Rest

LEMMA RemoveTables ==
    ASSUME FreshDemuxIds, TableInv, NEW w \in Workers, RemoveConnection(w)
    PROVE  Rest'
<1> DEFINE j == worker[w].conn
<1>1. TypeOK
  BY DEF TableInv, CallInv
<1>2. worker[w] \in WorkerStates /\ worker[w].at = "left"
  BY <1>1 DEF RemoveConnection, TypeOK
<1>3. j \in Joins /\ ConnIdOf[j] \in ConnIds /\ ~IsMember(ConnIdOf[j])
  BY <1>2, WorkerFacts, JoinFacts DEF TableInv, WorkersKnow, WorkerKnows
<1>4. /\ UNCHANGED <<call_by_call_id, members, asked, failed>>
      /\ \A i : IsMember(i)' <=> IsMember(i)
  BY DEF RemoveConnection, IsMember
<1>5. /\ connection_by_id' = [connection_by_id EXCEPT ![ConnIdOf[j]] = None]
      /\ usernames' = usernames \ {connection_by_id[ConnIdOf[j]]}
      /\ connection_by_id \in [ConnIds -> Joins \cup {None}]
  BY <1>1 DEF RemoveConnection, TypeOK
<1>6. /\ worker'[w] = Idle
      /\ \A v \in Workers : v # w => worker'[v] = worker[v]
  BY <1>1 DEF RemoveConnection, TypeOK
<1> HIDE DEF j
<1>7. ConnectionsKnowTheirIds'
  BY <1>3, <1>4, <1>5 DEF TableInv, ConnectionsKnowTheirIds
<1>8. UsernamesKnown'
  BY <1>3, <1>5, JoinFacts, NoneAssumption DEF TableInv, UsernamesKnown, ConnectionsKnowTheirIds
<1>9. MembersAsked'
  BY <1>4 DEF TableInv, MembersAsked
<1>10. WorkersKnow'
  BY <1>4, <1>6 DEF TableInv, WorkersKnow, WorkerKnows, Idle, CallIdOf
<1>11. ConnectionsHaveClients'
  <2> SUFFICES ASSUME NEW i \in ConnIds, connection_by_id'[i] # None
               PROVE  IsMember(i)' \/ Leaving(connection_by_id[i])'
    BY DEF ConnectionsHaveClients, Leaving
  <2>1. i # ConnIdOf[j] /\ connection_by_id'[i] = connection_by_id[i]
    BY <1>3, <1>5
  <2>2. connection_by_id[i] # j
    BY <2>1 DEF TableInv, ConnectionsKnowTheirIds
  <2>3. IsMember(i) \/ Leaving(connection_by_id[i])
    BY <2>1 DEF TableInv, ConnectionsHaveClients
  <2>4. Leaving(connection_by_id[i]) => Leaving(connection_by_id[i])'
    BY <1>6, <2>1, <2>2 DEF Leaving, j
  <2>5. QED
    BY <1>4, <2>3, <2>4
<1>12. ClientsHaveConnections'
  BY <1>3, <1>4, <1>5, JoinFacts DEF TableInv, ClientsHaveConnections
<1>13. QED
  BY <1>7, <1>8, <1>9, <1>10, <1>11, <1>12 DEF Rest

LEMMA TickTables ==
    ASSUME TableInv, NEW check, NEW timed_out, NEW old_addrs, Tick(check, timed_out, old_addrs)
    PROVE  Rest'
<1>1. TypeOK /\ CallInv
  BY DEF TableInv, CallInv
<1>2. \A i \in ConnIds : IsMember(i)' <=> IsMember(i) /\ i \notin Expired(check)
  BY <1>1, TickMembers
<1>3. \A i \in ConnIds : connection_by_id'[i] = IF i \in Expired(check) THEN None
                                                ELSE connection_by_id[i]
  BY DEF Tick
<1>4. usernames' = usernames \ {connection_by_id[i] : i \in Expired(check)}
      /\ Expired(check) \subseteq ConnIds
  BY DEF Tick, Expired
<1>5. UNCHANGED <<asked, failed, worker>>
  BY DEF Tick
<1>6. ConnectionsKnowTheirIds'
  BY <1>3, <1>5 DEF TableInv, ConnectionsKnowTheirIds
<1>7. UsernamesKnown'
  <2> SUFFICES ASSUME NEW j \in Joins
               PROVE  j \in usernames' <=> connection_by_id'[ConnIdOf[j]] = j
    BY DEF UsernamesKnown
  <2>1. ConnIdOf[j] \in ConnIds /\ (j \in usernames <=> connection_by_id[ConnIdOf[j]] = j)
    BY JoinFacts DEF TableInv, UsernamesKnown
  <2>2. CASE ConnIdOf[j] \in Expired(check)
    BY <1>3, <1>4, <2>1, <2>2, NoneAssumption
  <2>3. CASE ConnIdOf[j] \notin Expired(check)
    <3>1. j \notin {connection_by_id[i] : i \in Expired(check)}
      BY <1>4, <2>3, NoneAssumption DEF TableInv, ConnectionsKnowTheirIds
    <3>2. QED
      BY <1>3, <1>4, <2>1, <2>3, <3>1
  <2>4. QED
    BY <2>2, <2>3
<1>8. MembersAsked'
  BY <1>2, <1>5 DEF TableInv, MembersAsked
<1>9. WorkersKnow'
  <2> SUFFICES ASSUME NEW w \in Workers
               PROVE  WorkerKnows(w)'
    BY DEF WorkersKnow
  <2>1. WorkerKnows(w) /\ worker[w] \in WorkerStates
    BY <1>1 DEF TableInv, WorkersKnow, TypeOK
  <2>2. worker[w].at \in {"call", "left"} => /\ ConnIdOf[worker[w].conn] \in ConnIds
                                             /\ worker[w].conn \in Joins
    BY <2>1, WorkerFacts, JoinFacts
  <2>3. ASSUME NEW j \in Joins, IsMember(ConnIdOf[j])'
        PROVE  call_by_call_id'[CallIdOf(j)] = call_by_call_id[CallIdOf(j)]
    BY <2>3, JoinFacts DEF Tick, IsMember, CallIdOf
  <2>4. QED
    BY <1>2, <1>5, <2>1, <2>2, <2>3 DEF WorkerKnows, CallIdOf
<1>10. ConnectionsHaveClients'
  BY <1>2, <1>3, <1>5 DEF TableInv, ConnectionsHaveClients, Leaving
<1>11. ClientsHaveConnections'
  BY <1>2, <1>3, <1>5, JoinFacts DEF TableInv, ClientsHaveConnections
<1>12. QED
  BY <1>6, <1>7, <1>8, <1>9, <1>10, <1>11 DEF Rest

LEMMA OtherTables ==
    ASSUME TableInv, NEW w \in Workers, NEW s,
           worker' = [worker EXCEPT ![w] = s],
           worker[w].at # "left",
           UNCHANGED <<call_by_call_id, members, connection_by_id, usernames, asked, failed>>,
           WorkerKnows(w)'
    PROVE  Rest'
<1>1. \A i : IsMember(i)' <=> IsMember(i)
  BY DEF IsMember
<1>2. worker'[w] = s /\ \A v \in Workers : v # w => worker'[v] = worker[v]
  BY DEF TableInv, CallInv, TypeOK
<1>3. ConnectionsKnowTheirIds' /\ UsernamesKnown'
  BY DEF TableInv, ConnectionsKnowTheirIds, UsernamesKnown
<1>4. MembersAsked' /\ ClientsHaveConnections'
  BY <1>1 DEF TableInv, MembersAsked, ClientsHaveConnections
<1>5. WorkersKnow'
  <2> SUFFICES ASSUME NEW v \in Workers, v # w
               PROVE  WorkerKnows(v)'
    BY DEF WorkersKnow
  <2>0. PICK x : x = worker[v]
    OBVIOUS
  <2>1. WorkerKnows(v) /\ worker'[v] = x
    BY <1>2, <2>0 DEF TableInv, WorkersKnow
  <2>2. /\ x.at \in {"rtp", "call", "left"} => x.conn \in asked'
        /\ x.at = "left" => ~IsMember(ConnIdOf[x.conn])'
    BY <1>1, <2>0, <2>1 DEF WorkerKnows
  <2>3. x.at = "call" =>
          /\ CallIdOf(x.call) = CallIdOf(x.conn)
          /\ IsMember(ConnIdOf[x.conn])' => call_by_call_id'[CallIdOf(x.conn)] = x.call
    BY <1>1, <2>0, <2>1 DEF WorkerKnows
  <2>4. QED
    BY <2>1, <2>2, <2>3, Zenon DEF WorkerKnows, CallIdOf
<1>6. ConnectionsHaveClients'
  <2>1. \A j : Leaving(j) => Leaving(j)'
    BY <1>2 DEF Leaving
  <2>2. QED
    BY <1>1, <2>1 DEF TableInv, ConnectionsHaveClients
<1>7. QED
  BY <1>3, <1>4, <1>5, <1>6 DEF Rest

LEMMA TableStep == FreshDemuxIds /\ TableInv /\ [Next]_vars => TableInv'
<1> SUFFICES ASSUME FreshDemuxIds, TableInv, [Next]_vars
             PROVE  TableInv'
  OBVIOUS
<1>0. CallInv' /\ TypeOK
  BY CallStep DEF TableInv, CallInv
<1> SUFFICES Rest'
  BY <1>0 DEF Rest, TableInv
<1>1. ASSUME NEW j \in Joins, NEW agreed \in BOOLEAN, Join(j, agreed)
      PROVE  Rest'
  BY <1>1, JoinTables
<1>2. ASSUME NEW w \in Workers, NEW j \in Joins, NEW a \in Addrs, ReceiveRtp(w, j, a)
      PROVE  Rest'
  <2>1. j \in asked
    BY <1>2, JoinFacts, NoneAssumption DEF ReceiveRtp, TableInv, ConnectionsKnowTheirIds
  <2>2. WorkerKnows(w)'
    BY <1>0, <1>2, <2>1 DEF ReceiveRtp, WorkerKnows, Idle, TypeOK
  <2>3. worker[w].at # "left"
    BY <1>2 DEF ReceiveRtp, Idle
  <2>4. QED
    BY <1>2, <2>2, <2>3, OtherTables DEF ReceiveRtp, tables
<1>3. ASSUME NEW w \in Workers, NEW j \in Joins, NEW a \in Addrs, ReceiveIce(w, j, a)
      PROVE  Rest'
  <2>1. WorkerKnows(w)'
    <3>1. worker'[w].at = "ice"
      BY <1>0, <1>3 DEF ReceiveIce, TypeOK
    <3> QED BY <3>1 DEF WorkerKnows
  <2>2. worker[w].at # "left"
    BY <1>3 DEF ReceiveIce, Idle
  <2>3. QED
    BY <1>3, <2>1, <2>2, OtherTables DEF ReceiveIce, tables
<1>4. ASSUME NEW w \in Workers, FindCall(w)
      PROVE  Rest'
  <2> DEFINE call == call_by_call_id[CallIdOf(worker[w].conn)]
             s    == IF call = None THEN Idle
                     ELSE [worker[w] EXCEPT !.at = "call", !.call = call]
  <2>1. worker' = [worker EXCEPT ![w] = s]
    BY <1>4 DEF FindCall
  <2>2. worker[w].at = "rtp" /\ worker[w] \in WorkerStates /\ WorkerKnows(w)
    BY <1>0, <1>4 DEF FindCall, TypeOK, TableInv, WorkersKnow
  <2>3. UNCHANGED <<call_by_call_id, members, connection_by_id, usernames, asked, failed>>
    BY <1>4 DEF FindCall, tables
  <2>4. worker'[w] = s
    BY <1>0, <2>1 DEF TypeOK
  <2>5. worker[w].conn \in Joins /\ CallIdOf(worker[w].conn) \in CallIds
    BY <2>2, WorkerFacts, JoinFacts
  <2>6. worker[w] \in [at : {"rtp"}, conn : Joins, call : {None}, addr : {None}]
    BY <2>2 DEF WorkerStates, Idle
  <2>7. CASE call = None
    <3>1. WorkerKnows(w)'
      BY <2>4, <2>7 DEF WorkerKnows, Idle
    <3>2. QED
      BY <2>1, <2>2, <2>3, <3>1, OtherTables
  <2>8. CASE call # None
    <3>1. /\ worker'[w].at = "call"
          /\ worker'[w].call = call
          /\ worker'[w].conn = worker[w].conn
      BY <2>4, <2>6, <2>8
    <3>2. CallIdOf(call) = CallIdOf(worker[w].conn)
      BY <2>5, <2>8 DEF TableInv, CallInv, CallsKnowTheirIds
    <3>3. worker[w].conn \in asked
      BY <2>2 DEF WorkerKnows
    <3>4. WorkerKnows(w)'
      BY <2>3, <3>1, <3>2, <3>3 DEF WorkerKnows, CallIdOf
    <3>5. QED
      BY <2>1, <2>2, <2>3, <3>4, OtherTables
  <2>9. QED
    BY <2>7, <2>8
<1>5. ASSUME NEW w \in Workers, HandleLeave(w)
      PROVE  Rest'
  BY <1>5, LeaveTables
<1>6. ASSUME NEW w \in Workers, RemoveConnection(w)
      PROVE  Rest'
  BY <1>6, RemoveTables
<1>7. ASSUME NEW w \in Workers, HandleMedia(w) \/ InsertAddress(w)
      PROVE  Rest'
  <2>1. /\ worker' = [worker EXCEPT ![w] = Idle]
        /\ worker[w].at # "left"
        /\ UNCHANGED <<call_by_call_id, members, connection_by_id, usernames, asked, failed>>
    BY <1>7 DEF HandleMedia, InsertAddress, tables
  <2>2. WorkerKnows(w)'
    BY <1>0, <2>1 DEF WorkerKnows, Idle, TypeOK
  <2>3. QED
    BY <2>1, <2>2, OtherTables
<1>8. ASSUME NEW w \in Workers, HandleIce(w)
      PROVE  Rest'
  <2> DEFINE s == [worker[w] EXCEPT !.at = "checked"]
  <2>1. /\ worker' = [worker EXCEPT ![w] = s]
        /\ worker[w].at = "ice"
        /\ UNCHANGED <<call_by_call_id, members, connection_by_id, usernames, asked, failed>>
    BY <1>8 DEF HandleIce, tables
  <2>2. worker[w] \in [at : {"ice", "checked"}, conn : Joins, call : {None}, addr : Addrs]
    BY <1>0, <2>1 DEF TypeOK, WorkerStates, Idle
  <2>3. worker'[w].at = "checked"
    BY <1>0, <2>1, <2>2 DEF TypeOK
  <2>4. WorkerKnows(w)'
    BY <2>3 DEF WorkerKnows
  <2>5. QED
    BY <2>1, <2>4, OtherTables
<1>9. ASSUME NEW check \in BOOLEAN, NEW timed_out \in SUBSET CallIds,
             NEW old_addrs \in SUBSET Addrs, Tick(check, timed_out, old_addrs)
      PROVE  Rest'
  BY <1>9, TickTables
<1>10. ASSUME UNCHANGED <<tables, asked, failed, worker>>
      PROVE  Rest'
  BY <1>10 DEF tables, TableInv, Rest, ConnectionsKnowTheirIds, UsernamesKnown, MembersAsked,
     WorkersKnow, WorkerKnows, ConnectionsHaveClients, ClientsHaveConnections, Leaving,
     IsMember, CallIdOf
<1>11. QED
  BY <1>1, <1>2, <1>3, <1>4, <1>5, <1>6, <1>7, <1>8, <1>9, <1>10
     DEF Next, Handle, FallSilent, Vanish, vars

LEMMA TableInvariant ==
    ASSUME FreshDemuxIds
    PROVE  Spec => []TableInv
<1>1. Init => TableInv
  <2> SUFFICES ASSUME Init
               PROVE  TableInv
    OBVIOUS
  <2>1. CallInv
    BY InitTypeOK DEF Init, CallInv, CallsKnowTheirIds, OrphanCallsAreEmpty
  <2>2. \A i \in ConnIds : ~IsMember(i) /\ connection_by_id[i] = None
    BY JoinFacts DEF Init, IsMember
  <2>3. UsernamesKnown
    BY <2>2, JoinFacts, NoneAssumption DEF Init, UsernamesKnown
  <2>4. WorkersKnow
    BY DEF Init, WorkersKnow, WorkerKnows, Idle
  <2>5. QED
    BY <2>1, <2>2, <2>3, <2>4, JoinFacts DEF TableInv, ConnectionsKnowTheirIds, MembersAsked,
       ConnectionsHaveClients, ClientsHaveConnections
<1>2. TableInv /\ [Next]_vars => TableInv'
  BY TableStep
<1>3. QED
  BY <1>1, <1>2, PTL DEF Spec

\* With demux IDs that do not collide, the ICE usernames are those of the
\* connections (join, remove_connection and tick keep both tables in step).
THEOREM UsernamesMatch ==
    ASSUME FreshDemuxIds
    PROVE  Spec => []UsernamesMatchConnections
<1>1. TableInv => UsernamesMatchConnections
  <2> SUFFICES ASSUME TableInv
               PROVE  \A j : j \in usernames <=>
                               j \in {connection_by_id[i] : i \in ConnIds} \ {None}
    BY DEF UsernamesMatchConnections
  <2>1. TypeOK
    BY DEF TableInv, CallInv
  <2> TAKE j
  <2>2. CASE j \in Joins
    BY <2>2, JoinFacts, NoneAssumption DEF TableInv, UsernamesKnown, ConnectionsKnowTheirIds
  <2>3. CASE j \notin Joins
    BY <2>1, <2>3 DEF TypeOK
  <2>4. QED
    BY <2>2, <2>3
<1>2. QED
  BY <1>1, TableInvariant, PTL

\* With demux IDs that do not collide, a connection outlives its client only
\* while a worker is about to remove it.
THEOREM ConnectionsOwned ==
    ASSUME FreshDemuxIds
    PROVE  Spec => []ConnectionsHaveClients
<1>1. TableInv => ConnectionsHaveClients
  BY DEF TableInv
<1>2. QED
  BY <1>1, TableInvariant, PTL

\* With demux IDs that do not collide, a client whose join succeeded has its
\* connection, so the tick can find out that it is inactive.
THEOREM ClientsConnected ==
    ASSUME FreshDemuxIds
    PROVE  Spec => []ClientsHaveConnections
<1>1. TableInv => ClientsHaveConnections
  BY DEF TableInv
<1>2. QED
  BY <1>1, TableInvariant, PTL
------------------------------------------------------------------------------
\* The four tables of the Sfu and the client lists of its calls agree after every critical
\* section of every worker, join and tick, for any number of them.
THEOREM TablesInAgreement ==
    ASSUME FreshDemuxIds
    PROVE  Spec => []TablesAgree
BY OrphansAreEmpty, UsernamesMatch, ConnectionsOwned, ClientsConnected, PTL DEF TablesAgree
==============================================================================
