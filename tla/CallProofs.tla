----------------------------- MODULE CallProofs ------------------------------
(***************************************************************************)
(* Proofs about call membership, for any devices, users, messages and      *)
(* configuration.  Each method of Call gets a lemma per fact it keeps;     *)
(* handlers are compositions of methods, so the theorems chain the lemmas. *)
(***************************************************************************)
EXTENDS Call, TLAPS

(* Types.                                                                  *)

LEMMA Selections ==
    ASSUME NEW S \in SUBSET Clients
    PROVE  /\ UsersOf(S) \in SUBSET Users
           /\ \A d : ById(S, d) \in SUBSET Clients
           /\ \A us : OfUsers(S, us) \in SUBSET Clients
BY DEF UsersOf, ById, OfUsers, Clients

LEMMA NewCallType == NewCall \in CallType
BY ConfigAssumption DEF NewCall, CallType, HandStates

LEMMA LowerType ==
    ASSUME NEW s \in CallType, NEW d
    PROVE  LowerRaisedHand(s, d) \in CallType
BY DEF LowerRaisedHand, CallType, HandStates

LEMMA AddType ==
    ASSUME NEW s \in CallType, NEW c \in Clients
    PROVE  AddClient(s, c) \in CallType
BY ConfigAssumption DEF AddClient, CallType, Clients

LEMMA ApproveType ==
    ASSUME NEW s \in CallType, NEW d
    PROVE  ApprovePendingClient(s, d) \in CallType
<1> DEFINE user == UsersOf(ById(s.pending_clients, d))
           approved == OfUsers(s.pending_clients, user)
<1>1. s.pending_clients \in SUBSET Clients
  BY DEF CallType
<1>2. user \in SUBSET Users /\ approved \in SUBSET Clients
  BY <1>1, Selections
<1> HIDE DEF user, approved
<1>3. QED
  BY <1>2 DEF ApprovePendingClient, CallType, user, approved

LEMMA DenyType ==
    ASSUME NEW s \in CallType, NEW d
    PROVE  DenyPendingClient(s, d) \in CallType
<1> DEFINE user == UsersOf(ById(s.pending_clients, d))
           denied == OfUsers(s.pending_clients, user)
<1>1. s.pending_clients \in SUBSET Clients
  BY DEF CallType
<1>2. user \in SUBSET Users /\ denied \in SUBSET Clients
  BY <1>1, Selections
<1> HIDE DEF user, denied
<1>3. QED
  BY <1>2 DEF DenyPendingClient, CallType, user, denied

LEMMA DropType ==
    ASSUME NEW s \in CallType, NEW d
    PROVE  DropClient(s, d) \in CallType
<1>1. Unlist(s, d) \in CallType
  BY DEF Unlist, CallType, ById, DemuxIdsOf
<1>2. QED
  BY <1>1, LowerType DEF DropClient

LEMMA ForceRemoveType ==
    ASSUME NEW s \in CallType, NEW d
    PROVE  ForceRemoveClient(s, d) \in CallType
<1>1. Expel(s, d) \in CallType
  BY DEF Expel, CallType, ById, UsersOf
<1>2. QED
  BY <1>1, LowerType DEF ForceRemoveClient

LEMMA BlockType ==
    ASSUME NEW s \in CallType, NEW d
    PROVE  BlockClient(s, d) \in CallType
<1> DEFINE user == UsersOf(ById(s.clients, d))
           gone == OfUsers(s.clients, user)
<1>1. s.clients \in SUBSET Clients
  BY DEF CallType
<1>2. user \in SUBSET Users /\ gone \in SUBSET Clients
  BY <1>1, Selections
<1> HIDE DEF user, gone
<1>3. QED
  BY <1>2 DEF BlockClient, CallType, user, gone

LEMMA RaiseHandType ==
    ASSUME NEW s \in CallType, NEW d \in DemuxIds, NEW hand \in RaiseHands
    PROVE  HandleRaiseHand(s, d, hand) \in CallType
BY DEF HandleRaiseHand, CallType, RaiseHands, HandStates

LEMMA AdminActionsType ==
    ASSUME NEW s \in CallType, NEW proto \in ProtoType
    PROVE  AdminActions(s, proto) \in CallType
BY ApproveType, DenyType, ForceRemoveType, BlockType DEF AdminActions

LEMMA MessageType ==
    ASSUME NEW s \in CallType, NEW sender \in s.clients, NEW proto \in ProtoType
    PROVE  HandleDeviceToSfu(s, sender, proto) \in CallType
<1>1. sender.demux_id \in DemuxIds
  BY DEF CallType, Clients
<1>2. proto.raise_hand # None => proto.raise_hand \in RaiseHands
  BY DEF ProtoType
<1>3. QED
  BY <1>1, <1>2, AdminActionsType, RaiseHandType DEF HandleDeviceToSfu

LEMMA MembershipType ==
    ASSUME NEW s \in CallType
    PROVE  Membership(s) \in (SUBSET DemuxIds) \X (SUBSET DemuxIds)
BY DEF Membership, DemuxIdsOf, CallType, Clients

\* The state of the call and of the announcements keeps its type through every
\* handler.
THEOREM TypeCorrect == Spec => []TypeOK
<1>1. Init => TypeOK
  BY NewCallType, MembershipType DEF Init, TypeOK, HandList
<1>2. TypeOK /\ [Next]_vars => TypeOK'
  <2> SUFFICES ASSUME TypeOK, [Next]_vars
               PROVE  TypeOK'
    OBVIOUS
  <2> USE DEF TypeOK
  <2>join. CASE Join
    BY <2>join, AddType, InputAssumption DEF Join
  <2>leave. CASE Leave
    BY <2>leave, DropType DEF Leave
  <2>message. CASE Message
    BY <2>message, MessageType, InputAssumption DEF Message
  <2>tick. CASE Tick
    <3>1. call' \in CallType
      BY <2>tick DEF Tick, CallType
    <3>2. Membership(call) \in (SUBSET DemuxIds) \X (SUBSET DemuxIds)
      BY MembershipType
    <3>3. DOMAIN HandList(call) \subseteq DemuxIds
      BY DEF HandList
    <3>4. QED
      BY <2>tick, <3>1, <3>2, <3>3 DEF Tick
  <2>stutter. CASE UNCHANGED vars
    BY <2>stutter DEF vars
  <2> QED
    BY <2>stutter, <2>join, <2>leave, <2>message, <2>tick DEF Next
<1>3. QED
  BY <1>1, <1>2, PTL DEF Spec
------------------------------------------------------------------------------
(* One list per device.                                                    *)

LEMMA LowerLists ==
    ASSUME NEW s \in CallType, NEW d
    PROVE  LET l == LowerRaisedHand(s, d) IN
           /\ l.clients = s.clients
           /\ l.pending_clients = s.pending_clients
           /\ l.removed_clients = s.removed_clients
           /\ l.approved_users = s.approved_users
           /\ l.denied_users = s.denied_users
           /\ l.blocked_users = s.blocked_users
           /\ l.clients_changed = s.clients_changed
BY DEF LowerRaisedHand, CallType

LEMMA RaiseHandLists ==
    ASSUME NEW s \in CallType, NEW d \in DemuxIds, NEW hand
    PROVE  LET l == HandleRaiseHand(s, d, hand) IN
           /\ l.clients = s.clients
           /\ l.pending_clients = s.pending_clients
           /\ l.removed_clients = s.removed_clients
           /\ l.approved_users = s.approved_users
           /\ l.denied_users = s.denied_users
           /\ l.blocked_users = s.blocked_users
           /\ l.clients_changed = s.clients_changed
BY DEF HandleRaiseHand, CallType

LEMMA AddListed ==
    ASSUME NEW s \in CallType, ListedOnce(s), NEW c \in Clients, ~HasClient(s, c.demux_id)
    PROVE  ListedOnce(AddClient(s, c))
BY DEF AddClient, CallType, ListedOnce, AllClients, HasClient, DemuxIdsOf

LEMMA ApproveListed ==
    ASSUME NEW s \in CallType, ListedOnce(s), NEW d
    PROVE  ListedOnce(ApprovePendingClient(s, d))
BY DEF ApprovePendingClient, CallType, ListedOnce, AllClients, OfUsers

LEMMA DenyListed ==
    ASSUME NEW s \in CallType, ListedOnce(s), NEW d
    PROVE  ListedOnce(DenyPendingClient(s, d))
BY DEF DenyPendingClient, CallType, ListedOnce, AllClients, OfUsers

LEMMA DropListed ==
    ASSUME NEW s \in CallType, ListedOnce(s), NEW d
    PROVE  ListedOnce(DropClient(s, d))
<1>1. Unlist(s, d) \in CallType
  BY DEF Unlist, CallType, ById, DemuxIdsOf
<1>2. ListedOnce(Unlist(s, d))
  BY DEF Unlist, CallType, ListedOnce, AllClients, ById, DemuxIdsOf
<1>3. QED
  BY <1>1, <1>2, LowerLists DEF DropClient, ListedOnce, AllClients

LEMMA ForceRemoveListed ==
    ASSUME NEW s \in CallType, ListedOnce(s), NEW d
    PROVE  ListedOnce(ForceRemoveClient(s, d))
<1>1. Expel(s, d) \in CallType
  BY DEF Expel, CallType, ById, UsersOf
<1>2. ListedOnce(Expel(s, d))
  BY DEF Expel, CallType, ListedOnce, AllClients, ById
<1>3. QED
  BY <1>1, <1>2, LowerLists DEF ForceRemoveClient, ListedOnce, AllClients

LEMMA BlockListed ==
    ASSUME NEW s \in CallType, ListedOnce(s), NEW d
    PROVE  ListedOnce(BlockClient(s, d))
BY DEF BlockClient, CallType, ListedOnce, AllClients, OfUsers

LEMMA AdminActionsListed ==
    ASSUME NEW s \in CallType, ListedOnce(s), NEW proto \in ProtoType
    PROVE  ListedOnce(AdminActions(s, proto))
BY ApproveType, DenyType, ForceRemoveType, ApproveListed, DenyListed,
   ForceRemoveListed, BlockListed DEF AdminActions

LEMMA MessageListed ==
    ASSUME NEW s \in CallType, ListedOnce(s), NEW sender \in s.clients, NEW proto \in ProtoType
    PROVE  ListedOnce(HandleDeviceToSfu(s, sender, proto))
<1> DEFINE acted == IF sender.is_admin THEN AdminActions(s, proto) ELSE s
<1>1. acted \in CallType /\ ListedOnce(acted)
  BY AdminActionsType, AdminActionsListed
<1>2. sender.demux_id \in DemuxIds
  BY DEF CallType, Clients
<1> HIDE DEF acted
<1>3. ListedOnce(HandleRaiseHand(acted, sender.demux_id, proto.raise_hand))
  BY <1>1, <1>2, RaiseHandLists DEF ListedOnce, AllClients
<1>4. QED
  BY <1>1, <1>3 DEF HandleDeviceToSfu, acted

\* A device is in one client list at most, once, whatever the handlers do.
THEOREM DevicesListedOnce == Spec => []OneListPerDevice
<1>1. Init => OneListPerDevice
  BY DEF Init, NewCall, OneListPerDevice, ListedOnce, AllClients
<1>2. TypeOK /\ OneListPerDevice /\ [Next]_vars => OneListPerDevice'
  <2> SUFFICES ASSUME TypeOK, OneListPerDevice, [Next]_vars
               PROVE  OneListPerDevice'
    OBVIOUS
  <2> USE DEF TypeOK, OneListPerDevice
  <2>join. CASE Join
    BY <2>join, AddListed, InputAssumption DEF Join
  <2>leave. CASE Leave
    BY <2>leave, DropListed DEF Leave
  <2>message. CASE Message
    BY <2>message, MessageListed, InputAssumption DEF Message
  <2>tick. CASE Tick
    BY <2>tick DEF Tick, ListedOnce, AllClients, CallType
  <2>stutter. CASE UNCHANGED vars
    BY <2>stutter DEF vars
  <2> QED
    BY <2>stutter, <2>join, <2>leave, <2>message, <2>tick DEF Next
<1>3. QED
  BY <1>1, <1>2, TypeCorrect, PTL DEF Spec
------------------------------------------------------------------------------
(* Standing of users.                                                      *)

\* The inductive invariant behind the three properties about users.  That
\* nobody is both pending and active follows: a pending device is neither an
\* admin's nor an approved user's, an active one is one or the other.
Standing(s) ==
    /\ AllClients(s) \subseteq Joins
    /\ \A c \in s.pending_clients :
          /\ RequireApproval
          /\ ~c.is_admin
          /\ c.user_id \notin s.approved_users
          /\ c.user_id \notin s.blocked_users
    /\ \A c \in s.clients :
          /\ RequireApproval /\ ~c.is_admin => c.user_id \in s.approved_users
          /\ c.user_id \notin s.blocked_users
    /\ s.approved_users \cap s.blocked_users = {}

LEMMA StandingSplit ==
    ASSUME NEW s, Standing(s), AdminIsPerUser,
           NEW p \in s.pending_clients, NEW c \in s.clients
    PROVE  p.user_id # c.user_id
BY DEF Standing, AdminIsPerUser, AllClients

LEMMA AddStanding ==
    ASSUME NEW s \in CallType, Standing(s), AdminIsPerUser, NEW c \in Joins
    PROVE  Standing(AddClient(s, c))
<1>1. CASE c.user_id \in s.blocked_users
  BY <1>1 DEF AddClient, CallType, Standing, AllClients
<1>2. CASE /\ c.user_id \notin s.blocked_users
           /\ c.is_admin \/ ~RequireApproval \/ c.user_id \in s.approved_users
  <2>1. \A p \in s.pending_clients : p.user_id # c.user_id
    BY <1>2 DEF Standing, AdminIsPerUser, AllClients
  <2>2. QED
    BY <1>2, <2>1 DEF AddClient, CallType, Standing, AllClients
<1>3. CASE /\ c.user_id \notin s.blocked_users
           /\ ~(c.is_admin \/ ~RequireApproval \/ c.user_id \in s.approved_users)
  BY <1>3 DEF AddClient, CallType, Standing, AllClients
<1>4. QED
  BY <1>1, <1>2, <1>3

LEMMA ApproveStanding ==
    ASSUME NEW s \in CallType, Standing(s), NEW d
    PROVE  Standing(ApprovePendingClient(s, d))
<1> DEFINE user     == UsersOf(ById(s.pending_clients, d))
           approved == {c \in s.pending_clients : c.user_id \in user}
           r        == ApprovePendingClient(s, d)
<1>1. user # {} => /\ r.pending_clients = s.pending_clients \ approved
                   /\ r.clients = s.clients \cup approved
                   /\ r.removed_clients = s.removed_clients
                   /\ r.approved_users = s.approved_users \cup user
                   /\ r.blocked_users = s.blocked_users
  BY DEF ApprovePendingClient, CallType, OfUsers
<1>2. user = {} => r = s
  BY DEF ApprovePendingClient
<1>3. \A u \in user : u \notin s.blocked_users
  BY DEF Standing, UsersOf, ById
<1> SUFFICES Standing(r)
  OBVIOUS
<1> HIDE DEF user, r
<1>4. QED
  BY <1>1, <1>2, <1>3 DEF Standing, AllClients

LEMMA DenyStanding ==
    ASSUME NEW s \in CallType, Standing(s), AdminIsPerUser, NEW d
    PROVE  Standing(DenyPendingClient(s, d))
<1> DEFINE user   == UsersOf(ById(s.pending_clients, d))
           denied == {c \in s.pending_clients : c.user_id \in user}
           r      == DenyPendingClient(s, d)
<1>1. user # {} => /\ r.pending_clients = s.pending_clients \ denied
                   /\ r.clients = s.clients
                   /\ r.removed_clients = s.removed_clients \cup denied
                   /\ r.approved_users = s.approved_users
                   /\ r.blocked_users = s.blocked_users \cup (user \cap s.denied_users)
  BY DEF DenyPendingClient, CallType, OfUsers
<1>2. user = {} => r = s
  BY DEF DenyPendingClient
<1>3. \A u \in user : u \notin s.approved_users /\ \A c \in s.clients : c.user_id # u
  BY StandingSplit DEF Standing, UsersOf, ById
<1> SUFFICES Standing(r)
  OBVIOUS
<1> HIDE DEF user, r
<1>4. QED
  BY <1>1, <1>2, <1>3 DEF Standing, AllClients

LEMMA DropStanding ==
    ASSUME NEW s \in CallType, Standing(s), NEW d
    PROVE  Standing(DropClient(s, d))
<1>1. Unlist(s, d) \in CallType
  BY DEF Unlist, CallType, ById, DemuxIdsOf
<1>2. Standing(Unlist(s, d))
  BY DEF Unlist, CallType, Standing, AllClients, ById
<1>3. QED
  BY <1>1, <1>2, LowerLists DEF DropClient, Standing, AllClients

LEMMA ForceRemoveStanding ==
    ASSUME NEW s \in CallType, Standing(s), NEW d
    PROVE  Standing(ForceRemoveClient(s, d))
<1>1. Expel(s, d) \in CallType
  BY DEF Expel, CallType, ById, UsersOf
<1>2. Standing(Expel(s, d))
  BY DEF Expel, CallType, Standing, AllClients, ById, UsersOf
<1>3. QED
  BY <1>1, <1>2, LowerLists DEF ForceRemoveClient, Standing, AllClients

LEMMA BlockStanding ==
    ASSUME NEW s \in CallType, Standing(s), AdminIsPerUser, NEW d
    PROVE  Standing(BlockClient(s, d))
BY StandingSplit DEF BlockClient, CallType, Standing, AllClients, OfUsers, UsersOf, ById

LEMMA AdminActionsStanding ==
    ASSUME NEW s \in CallType, Standing(s), AdminIsPerUser, NEW proto \in ProtoType
    PROVE  Standing(AdminActions(s, proto))
BY ApproveType, DenyType, ForceRemoveType, ApproveStanding, DenyStanding,
   ForceRemoveStanding, BlockStanding DEF AdminActions

LEMMA MessageStanding ==
    ASSUME NEW s \in CallType, Standing(s), AdminIsPerUser,
           NEW sender \in s.clients, NEW proto \in ProtoType
    PROVE  Standing(HandleDeviceToSfu(s, sender, proto))
<1> DEFINE acted == IF sender.is_admin THEN AdminActions(s, proto) ELSE s
<1>1. acted \in CallType /\ Standing(acted)
  BY AdminActionsType, AdminActionsStanding
<1>2. sender.demux_id \in DemuxIds
  BY DEF CallType, Clients
<1> HIDE DEF acted
<1>3. Standing(HandleRaiseHand(acted, sender.demux_id, proto.raise_hand))
  BY <1>1, <1>2, RaiseHandLists DEF Standing, AllClients
<1>4. QED
  BY <1>1, <1>3 DEF HandleDeviceToSfu, acted

LEMMA StandingInvariant == ASSUME AdminIsPerUser PROVE Spec => []Standing(call)
<1>1. Init => Standing(call)
  BY DEF Init, NewCall, Standing, AllClients
<1>2. TypeOK /\ Standing(call) /\ [Next]_vars => Standing(call)'
  <2> SUFFICES ASSUME TypeOK, Standing(call), [Next]_vars
               PROVE  Standing(call')
    OBVIOUS
  <2> USE DEF TypeOK
  <2>join. CASE Join
    BY <2>join, AddStanding DEF Join
  <2>leave. CASE Leave
    BY <2>leave, DropStanding DEF Leave
  <2>message. CASE Message
    BY <2>message, MessageStanding, InputAssumption DEF Message
  <2>tick. CASE Tick
    BY <2>tick DEF Tick, Standing, AllClients, CallType
  <2>stutter. CASE UNCHANGED vars
    BY <2>stutter DEF vars
  <2> QED
    BY <2>stutter, <2>join, <2>leave, <2>message, <2>tick DEF Next
<1>3. QED
  BY <1>1, <1>2, TypeCorrect, PTL DEF Spec

\* If the devices of a user agree on being an admin's, no user ever has both a
\* pending and an active device: what force_remove_client's comment asks for.
THEOREM UsersAreOnOneSide ==
    ASSUME AdminIsPerUser PROVE Spec => []NoUserPendingAndActive
<1>1. Standing(call) => NoUserPendingAndActive
  BY StandingSplit DEF NoUserPendingAndActive, UsersOf
<1>2. QED
  BY <1>1, StandingInvariant, PTL

\* If the devices of a user agree on being an admin's, a blocked user is never
\* active, pending or approved.
THEOREM BlockingIsEffective ==
    ASSUME AdminIsPerUser PROVE Spec => []BlockedUsersStayOut
<1>1. Standing(call) => BlockedUsersStayOut
  BY DEF Standing, BlockedUsersStayOut, UsersOf
<1>2. QED
  BY <1>1, StandingInvariant, PTL

\* If the devices of a user agree on being an admin's, approval and membership
\* agree: active non-admins are approved, pending users are not.
THEOREM ApprovalIsConsistent ==
    ASSUME AdminIsPerUser PROVE Spec => []ApprovalMatchesMembership
<1>1. Standing(call) => ApprovalMatchesMembership
  BY DEF Standing, ApprovalMatchesMembership, UsersOf
<1>2. QED
  BY <1>1, StandingInvariant, PTL
------------------------------------------------------------------------------
(* Raised hands have owners.                                               *)

\* Moderation forgets no device and raises no hand.
Moderated(s, r) ==
    \A d \in DemuxIds :
       /\ HasClient(s, d) => HasClient(r, d)
       /\ r.raised_hands[d] = "raised" => s.raised_hands[d] = "raised"

LEMMA LowerHands ==
    ASSUME NEW s \in CallType, NEW d
    PROVE  /\ Moderated(s, LowerRaisedHand(s, d))
           /\ d \in DemuxIds => LowerRaisedHand(s, d).raised_hands[d] # "raised"
<1>1. \A e \in DemuxIds : HasClient(LowerRaisedHand(s, d), e) = HasClient(s, e)
  BY LowerLists DEF HasClient
<1>2. QED
  BY <1>1 DEF Moderated, LowerRaisedHand, CallType

LEMMA ApproveHands ==
    ASSUME NEW s \in CallType, NEW d
    PROVE  Moderated(s, ApprovePendingClient(s, d))
BY DEF Moderated, ApprovePendingClient, CallType, HasClient, DemuxIdsOf, OfUsers

LEMMA DenyHands ==
    ASSUME NEW s \in CallType, NEW d
    PROVE  Moderated(s, DenyPendingClient(s, d))
BY DEF Moderated, DenyPendingClient, CallType, HasClient, DemuxIdsOf, OfUsers

LEMMA BlockHands ==
    ASSUME NEW s \in CallType, NEW d
    PROVE  Moderated(s, BlockClient(s, d))
BY DEF Moderated, BlockClient, CallType, HasClient, DemuxIdsOf, OfUsers

LEMMA ForceRemoveHands ==
    ASSUME NEW s \in CallType, NEW d
    PROVE  Moderated(s, ForceRemoveClient(s, d))
<1>1. Expel(s, d) \in CallType
  BY DEF Expel, CallType, ById, UsersOf
<1>2. Moderated(s, Expel(s, d))
  BY DEF Moderated, Expel, CallType, HasClient, DemuxIdsOf, ById
<1>3. QED
  BY <1>1, <1>2, LowerHands DEF ForceRemoveClient, Moderated

LEMMA AdminActionsHands ==
    ASSUME NEW s \in CallType, NEW proto \in ProtoType
    PROVE  Moderated(s, AdminActions(s, proto))
<1> DEFINE a == ApprovePendingClient(s, proto.approve)
           b == DenyPendingClient(a, proto.deny)
           c == ForceRemoveClient(b, proto.remove)
           e == BlockClient(c, proto.block)
<1>1. a \in CallType /\ b \in CallType /\ c \in CallType
  BY ApproveType, DenyType, ForceRemoveType
<1>2. Moderated(s, a) /\ Moderated(a, b) /\ Moderated(b, c) /\ Moderated(c, e)
  BY <1>1, ApproveHands, DenyHands, ForceRemoveHands, BlockHands
<1>3. AdminActions(s, proto) = e
  BY DEF AdminActions
<1> HIDE DEF a, b, c, e
<1>4. QED
  BY <1>2, <1>3 DEF Moderated

LEMMA MessageHands ==
    ASSUME NEW s \in CallType, HandsOwned(s), NEW sender \in s.clients, NEW proto \in ProtoType
    PROVE  HandsOwned(HandleDeviceToSfu(s, sender, proto))
<1> DEFINE acted == IF sender.is_admin THEN AdminActions(s, proto) ELSE s
           id    == sender.demux_id
           r     == HandleRaiseHand(acted, id, proto.raise_hand)
<1>1. id \in DemuxIds /\ HasClient(s, id)
  BY DEF CallType, Clients, HasClient, DemuxIdsOf
<1>2. acted \in CallType /\ Moderated(s, acted)
  BY AdminActionsType, AdminActionsHands DEF Moderated
<1> HIDE DEF acted, id
<1>3. HandsOwned(acted) /\ HasClient(acted, id)
  BY <1>1, <1>2 DEF Moderated, HandsOwned
<1>4. \A e \in DemuxIds : HasClient(r, e) = HasClient(acted, e)
  BY <1>1, <1>2, RaiseHandLists DEF HasClient
<1>5. \A e \in DemuxIds : e # id => r.raised_hands[e] = acted.raised_hands[e]
  BY <1>1, <1>2 DEF HandleRaiseHand, CallType
<1> HIDE DEF r
<1>6. HandsOwned(r)
  BY <1>3, <1>4, <1>5 DEF HandsOwned
<1>7. QED
  BY <1>3, <1>6 DEF HandleDeviceToSfu, acted, id, r

LEMMA AddHands ==
    ASSUME NEW s \in CallType, HandsOwned(s), NEW c
    PROVE  HandsOwned(AddClient(s, c))
BY DEF HandsOwned, AddClient, CallType, HasClient, DemuxIdsOf

LEMMA DropHands ==
    ASSUME NEW s \in CallType, HandsOwned(s), NEW d \in DemuxIds
    PROVE  HandsOwned(DropClient(s, d))
<1> DEFINE u == Unlist(s, d)
           r == LowerRaisedHand(u, d)
<1>1. u \in CallType
  BY DEF Unlist, CallType, ById, DemuxIdsOf
<1>2. \A e \in DemuxIds : e # d /\ HasClient(s, e) => HasClient(u, e)
  BY DEF Unlist, CallType, HasClient, DemuxIdsOf, ById
<1>3. u.raised_hands = s.raised_hands
  BY DEF Unlist, CallType
<1>4. Moderated(u, r) /\ r.raised_hands[d] # "raised"
  BY <1>1, LowerHands
<1>5. DropClient(s, d) = r
  BY DEF DropClient
<1> HIDE DEF u, r
<1>6. QED
  BY <1>2, <1>3, <1>4, <1>5 DEF HandsOwned, Moderated

\* Nobody who is gone has a hand up: leaving and being dropped lowers it, and
\* moderation keeps the device listed until it leaves.
THEOREM HandsHaveOwners == Spec => []RaisedHandsHaveOwners
<1>1. Init => RaisedHandsHaveOwners
  BY DEF Init, NewCall, RaisedHandsHaveOwners, HandsOwned
<1>2. TypeOK /\ RaisedHandsHaveOwners /\ [Next]_vars => RaisedHandsHaveOwners'
  <2> SUFFICES ASSUME TypeOK, RaisedHandsHaveOwners, [Next]_vars
               PROVE  HandsOwned(call')
    BY DEF RaisedHandsHaveOwners
  <2> USE DEF TypeOK, RaisedHandsHaveOwners
  <2>join. CASE Join
    BY <2>join, AddHands DEF Join
  <2>leave. CASE Leave
    BY <2>leave, DropHands DEF Leave
  <2>message. CASE Message
    BY <2>message, MessageHands, InputAssumption DEF Message
  <2>tick. CASE Tick
    BY <2>tick DEF Tick, HandsOwned, HasClient, CallType
  <2>stutter. CASE UNCHANGED vars
    BY <2>stutter DEF vars
  <2> QED
    BY <2>stutter, <2>join, <2>leave, <2>message, <2>tick DEF Next
<1>3. QED
  BY <1>1, <1>2, TypeCorrect, PTL DEF Spec
------------------------------------------------------------------------------
(* Changes are announced.                                                  *)

\* A method that changes a list of devices or hands schedules its message.
Scheduled(s, r) ==
    /\ \/ r.clients_changed
       \/ /\ r.clients = s.clients
          /\ r.pending_clients = s.pending_clients
          /\ r.clients_changed = s.clients_changed
    /\ \/ r.hands_changed
       \/ /\ r.raised_hands = s.raised_hands
          /\ r.raised_hands_seqnums = s.raised_hands_seqnums
          /\ r.hands_changed = s.hands_changed

LEMMA ScheduledTransitive ==
    ASSUME NEW s, NEW r, NEW q, Scheduled(s, r), Scheduled(r, q)
    PROVE  Scheduled(s, q)
BY DEF Scheduled

LEMMA MethodsSchedule ==
    ASSUME NEW s \in CallType
    PROVE  /\ \A c : Scheduled(s, AddClient(s, c))
           /\ \A d : Scheduled(s, ApprovePendingClient(s, d))
           /\ \A d : Scheduled(s, DenyPendingClient(s, d))
           /\ \A d : Scheduled(s, LowerRaisedHand(s, d))
           /\ \A d : Scheduled(s, Unlist(s, d))
           /\ \A d : Scheduled(s, Expel(s, d))
           /\ \A d : Scheduled(s, BlockClient(s, d))
           /\ \A d, h : Scheduled(s, HandleRaiseHand(s, d, h))
<1> USE DEF Scheduled, CallType
<1>1. \A c : Scheduled(s, AddClient(s, c))
  BY DEF AddClient
<1>2. \A d : Scheduled(s, ApprovePendingClient(s, d))
  BY DEF ApprovePendingClient
<1>3. \A d : Scheduled(s, DenyPendingClient(s, d))
  BY DEF DenyPendingClient
<1>4. \A d : Scheduled(s, LowerRaisedHand(s, d))
  BY DEF LowerRaisedHand
<1>5. \A d : Scheduled(s, Unlist(s, d))
  BY DEF Unlist
<1>6. \A d : Scheduled(s, Expel(s, d))
  BY DEF Expel
<1>7. \A d : Scheduled(s, BlockClient(s, d))
  BY DEF BlockClient
<1>8. \A d, h : Scheduled(s, HandleRaiseHand(s, d, h))
  BY DEF HandleRaiseHand
<1>9. QED
  BY <1>1, <1>2, <1>3, <1>4, <1>5, <1>6, <1>7, <1>8

LEMMA DropSchedules ==
    ASSUME NEW s \in CallType, NEW d
    PROVE  Scheduled(s, DropClient(s, d))
<1>1. Unlist(s, d) \in CallType
  BY DEF Unlist, CallType, ById, DemuxIdsOf
<1>2. QED
  BY <1>1, MethodsSchedule, ScheduledTransitive DEF DropClient

LEMMA ForceRemoveSchedules ==
    ASSUME NEW s \in CallType, NEW d
    PROVE  Scheduled(s, ForceRemoveClient(s, d))
<1>1. Expel(s, d) \in CallType
  BY DEF Expel, CallType, ById, UsersOf
<1>2. Scheduled(s, s)
  BY DEF Scheduled
<1>3. QED
  BY <1>1, <1>2, MethodsSchedule, ScheduledTransitive DEF ForceRemoveClient

LEMMA AdminActionsSchedule ==
    ASSUME NEW s \in CallType, NEW proto \in ProtoType
    PROVE  Scheduled(s, AdminActions(s, proto))
<1> DEFINE a == ApprovePendingClient(s, proto.approve)
           b == DenyPendingClient(a, proto.deny)
           c == ForceRemoveClient(b, proto.remove)
           e == BlockClient(c, proto.block)
<1>1. a \in CallType /\ b \in CallType /\ c \in CallType
  BY ApproveType, DenyType, ForceRemoveType
<1>2. Scheduled(s, a) /\ Scheduled(a, b) /\ Scheduled(b, c) /\ Scheduled(c, e)
  BY <1>1, MethodsSchedule, ForceRemoveSchedules
<1>3. AdminActions(s, proto) = e
  BY DEF AdminActions
<1> HIDE DEF a, b, c, e
<1>4. QED
  BY <1>2, <1>3, ScheduledTransitive

LEMMA MessageSchedules ==
    ASSUME NEW s \in CallType, NEW sender \in s.clients, NEW proto \in ProtoType
    PROVE  Scheduled(s, HandleDeviceToSfu(s, sender, proto))
<1> DEFINE acted == IF sender.is_admin THEN AdminActions(s, proto) ELSE s
<1>1. acted \in CallType /\ Scheduled(s, acted)
  BY AdminActionsType, AdminActionsSchedule DEF Scheduled
<1> HIDE DEF acted
<1>2. Scheduled(acted, HandleRaiseHand(acted, sender.demux_id, proto.raise_hand))
  BY <1>1, MethodsSchedule
<1>3. QED
  BY <1>1, <1>2, ScheduledTransitive DEF HandleDeviceToSfu, acted

Announced == MembershipIsAnnounced /\ HandsAreAnnounced

LEMMA AnnouncedStep ==
    ASSUME TypeOK, Announced, Scheduled(call, call'), UNCHANGED announced
    PROVE  Announced'
BY DEF Announced, MembershipIsAnnounced, HandsAreAnnounced, Scheduled, Membership,
       HandList, TypeOK, CallType

LEMMA AnnouncedInvariant == Spec => []Announced
<1>1. Init => Announced
  BY DEF Init, Announced, MembershipIsAnnounced, HandsAreAnnounced
<1>2. TypeOK /\ Announced /\ [Next]_vars => Announced'
  <2> SUFFICES ASSUME TypeOK, Announced, [Next]_vars
               PROVE  Announced'
    OBVIOUS
  <2>0. call \in CallType
    BY DEF TypeOK
  <2>join. CASE Join
    BY <2>0, <2>join, MethodsSchedule, AnnouncedStep DEF Join
  <2>leave. CASE Leave
    BY <2>0, <2>leave, DropSchedules, AnnouncedStep DEF Leave
  <2>message. CASE Message
    BY <2>0, <2>message, MessageSchedules, AnnouncedStep, InputAssumption DEF Message
  <2>tick. CASE Tick
    <3>1. Membership(call') = Membership(call) /\ HandList(call') = HandList(call)
      BY <2>0, <2>tick DEF Tick, Membership, HandList, CallType
    <3>2. QED
      BY <2>0, <2>tick, <3>1 DEF Tick, Announced, MembershipIsAnnounced, HandsAreAnnounced
  <2>stutter. CASE UNCHANGED vars
    BY <2>stutter DEF vars, Announced, MembershipIsAnnounced, HandsAreAnnounced
  <2> QED
    BY <2>stutter, <2>join, <2>leave, <2>message, <2>tick DEF Next
<1>3. QED
  BY <1>1, <1>2, TypeCorrect, PTL DEF Spec

\* Every change of the active and pending lists is announced by the next tick.
THEOREM MembershipAnnounced == Spec => []MembershipIsAnnounced
BY AnnouncedInvariant, PTL DEF Announced

\* Every change of the raised hands is announced by the next tick.
THEOREM HandsAnnounced == Spec => []HandsAreAnnounced
BY AnnouncedInvariant, PTL DEF Announced
------------------------------------------------------------------------------
(* The call implements the admission policy.                               *)

Advanced(s, r) ==
    \A d \in DemuxIds : Policy!Forward(StatusOf(s)[d], StatusOf(r)[d])

LEMMA AdvancedTransitive ==
    ASSUME NEW s, NEW r, NEW q, Advanced(s, r), Advanced(r, q)
    PROVE  Advanced(s, q)
BY DEF Advanced, Policy!Forward

LEMMA SameListsAdvanced ==
    ASSUME NEW s, NEW r, r.clients = s.clients, r.pending_clients = s.pending_clients,
           r.removed_clients = s.removed_clients
    PROVE  StatusOf(r) = StatusOf(s) /\ Advanced(s, r)
BY DEF StatusOf, Advanced, Policy!Forward

LEMMA ApproveAdvances ==
    ASSUME NEW s \in CallType, ListedOnce(s), NEW d
    PROVE  Advanced(s, ApprovePendingClient(s, d))
BY DEF ApprovePendingClient, CallType, ListedOnce, AllClients, OfUsers, DemuxIdsOf,
       StatusOf, Advanced, Policy!Forward

LEMMA DenyAdvances ==
    ASSUME NEW s \in CallType, ListedOnce(s), NEW d
    PROVE  Advanced(s, DenyPendingClient(s, d))
BY DEF DenyPendingClient, CallType, ListedOnce, AllClients, OfUsers, DemuxIdsOf,
       StatusOf, Advanced, Policy!Forward

LEMMA BlockAdvances ==
    ASSUME NEW s \in CallType, ListedOnce(s), NEW d
    PROVE  Advanced(s, BlockClient(s, d))
BY DEF BlockClient, CallType, ListedOnce, AllClients, OfUsers, DemuxIdsOf,
       StatusOf, Advanced, Policy!Forward

LEMMA ForceRemoveAdvances ==
    ASSUME NEW s \in CallType, ListedOnce(s), NEW d
    PROVE  Advanced(s, ForceRemoveClient(s, d))
<1>1. Expel(s, d) \in CallType
  BY DEF Expel, CallType, ById, UsersOf
<1>2. Advanced(s, Expel(s, d))
  BY DEF Expel, CallType, ListedOnce, AllClients, ById, DemuxIdsOf,
         StatusOf, Advanced, Policy!Forward
<1>3. Advanced(Expel(s, d), LowerRaisedHand(Expel(s, d), d))
  BY <1>1, LowerLists, SameListsAdvanced
<1>4. Advanced(s, s)
  BY SameListsAdvanced
<1>5. QED
  BY <1>2, <1>3, <1>4, AdvancedTransitive DEF ForceRemoveClient

LEMMA AdminActionsAdvance ==
    ASSUME NEW s \in CallType, ListedOnce(s), NEW proto \in ProtoType
    PROVE  Advanced(s, AdminActions(s, proto))
<1> DEFINE a == ApprovePendingClient(s, proto.approve)
           b == DenyPendingClient(a, proto.deny)
           c == ForceRemoveClient(b, proto.remove)
           e == BlockClient(c, proto.block)
<1>1. a \in CallType /\ ListedOnce(a)
  BY ApproveType, ApproveListed
<1>2. b \in CallType /\ ListedOnce(b)
  BY <1>1, DenyType, DenyListed
<1>3. c \in CallType /\ ListedOnce(c)
  BY <1>2, ForceRemoveType, ForceRemoveListed
<1>4. Advanced(s, a) /\ Advanced(a, b) /\ Advanced(b, c) /\ Advanced(c, e)
  BY <1>1, <1>2, <1>3, ApproveAdvances, DenyAdvances, ForceRemoveAdvances, BlockAdvances
<1>5. AdminActions(s, proto) = e
  BY DEF AdminActions
<1> HIDE DEF a, b, c, e
<1>6. QED
  BY <1>4, <1>5, AdvancedTransitive

LEMMA MessageAdvances ==
    ASSUME NEW s \in CallType, ListedOnce(s), NEW sender \in s.clients, NEW proto \in ProtoType
    PROVE  LET r == HandleDeviceToSfu(s, sender, proto) IN
           IF sender.is_admin THEN Advanced(s, r)
           ELSE /\ r.clients = s.clients
                /\ r.pending_clients = s.pending_clients
                /\ r.removed_clients = s.removed_clients
<1> DEFINE acted == IF sender.is_admin THEN AdminActions(s, proto) ELSE s
           h     == HandleRaiseHand(acted, sender.demux_id, proto.raise_hand)
<1>1. acted \in CallType /\ (sender.is_admin => Advanced(s, acted))
  BY AdminActionsType, AdminActionsAdvance
<1>2. sender.demux_id \in DemuxIds
  BY DEF CallType, Clients
<1>3. ~sender.is_admin => acted = s
  OBVIOUS
<1>4. HandleDeviceToSfu(s, sender, proto) = IF proto.raise_hand = None THEN acted ELSE h
  BY DEF HandleDeviceToSfu
<1> HIDE DEF acted
<1>5. /\ h.clients = acted.clients
      /\ h.pending_clients = acted.pending_clients
      /\ h.removed_clients = acted.removed_clients
  BY <1>1, <1>2, RaiseHandLists
<1> HIDE DEF h
<1>6. Advanced(acted, h)
  BY <1>5, SameListsAdvanced
<1>7. QED
  BY <1>1, <1>3, <1>4, <1>5, <1>6, AdvancedTransitive

LEMMA AddEnters ==
    ASSUME NEW s \in CallType, NEW c \in Clients, ~HasClient(s, c.demux_id)
    PROVE  /\ StatusOf(s)[c.demux_id] = "absent"
           /\ \E place \in Policy!Statuses \ {"absent"} :
                 StatusOf(AddClient(s, c)) = [StatusOf(s) EXCEPT ![c.demux_id] = place]
<1> DEFINE d == c.demux_id
<1>1. d \in DemuxIds /\ StatusOf(s)[d] = "absent"
  BY DEF Clients, StatusOf, HasClient
<1>2. PICK place \in Policy!Statuses \ {"absent"} :
         \A e \in DemuxIds : StatusOf(AddClient(s, c))[e] = IF e = d THEN place ELSE StatusOf(s)[e]
  <2>1. CASE c.user_id \in s.blocked_users
    <3>1. \A e \in DemuxIds :
             StatusOf(AddClient(s, c))[e] = IF e = d THEN "removed" ELSE StatusOf(s)[e]
      BY <1>1, <2>1 DEF AddClient, CallType, StatusOf, DemuxIdsOf, HasClient
    <3>2. QED
      BY <3>1 DEF Policy!Statuses
  <2>2. CASE /\ c.user_id \notin s.blocked_users
             /\ c.is_admin \/ ~RequireApproval \/ c.user_id \in s.approved_users
    <3>1. \A e \in DemuxIds :
             StatusOf(AddClient(s, c))[e] = IF e = d THEN "active" ELSE StatusOf(s)[e]
      BY <1>1, <2>2 DEF AddClient, CallType, StatusOf, DemuxIdsOf, HasClient
    <3>2. QED
      BY <3>1 DEF Policy!Statuses
  <2>3. CASE /\ c.user_id \notin s.blocked_users
             /\ ~(c.is_admin \/ ~RequireApproval \/ c.user_id \in s.approved_users)
    <3>1. \A e \in DemuxIds :
             StatusOf(AddClient(s, c))[e] = IF e = d THEN "pending" ELSE StatusOf(s)[e]
      BY <1>1, <2>3 DEF AddClient, CallType, StatusOf, DemuxIdsOf, HasClient
    <3>2. QED
      BY <3>1 DEF Policy!Statuses
  <2>4. QED
    BY <2>1, <2>2, <2>3
<1>3. StatusOf(AddClient(s, c)) = [StatusOf(s) EXCEPT ![d] = place]
  <2>1. \A q : StatusOf(q) = [e \in DemuxIds |-> StatusOf(q)[e]]
    BY DEF StatusOf
  <2>2. QED
    BY <1>1, <1>2, <2>1
<1>4. QED
  BY <1>1, <1>3

LEMMA DropExits ==
    ASSUME NEW s \in CallType, ListedOnce(s), NEW d \in DemuxIds
    PROVE  StatusOf(DropClient(s, d)) = [StatusOf(s) EXCEPT ![d] = "absent"]
<1>1. Unlist(s, d) \in CallType
  BY DEF Unlist, CallType, ById, DemuxIdsOf
<1>2. StatusOf(DropClient(s, d)) = StatusOf(Unlist(s, d))
  BY <1>1, LowerLists, SameListsAdvanced DEF DropClient
<1>3. \A e \in DemuxIds : StatusOf(Unlist(s, d))[e] = IF e = d THEN "absent" ELSE StatusOf(s)[e]
  BY DEF Unlist, CallType, ListedOnce, AllClients, ById, DemuxIdsOf, StatusOf
<1>4. \A q : StatusOf(q) = [e \in DemuxIds |-> StatusOf(q)[e]]
  BY DEF StatusOf
<1>5. QED
  BY <1>2, <1>3, <1>4

\* Every behaviour of a call is one the admission policy allows: devices enter
\* and leave one by one, and only an active administrator moves them, forward.
THEOREM CallImplementsAdmission == Spec => ImplementsAdmission
<1> DEFINE pvars == <<StatusOf(call), AdminPresent(call)>>
<1>1. Init => Policy!Init
  BY DEF Init, NewCall, Policy!Init, StatusOf, AdminPresent, DemuxIdsOf
<1>2. TypeOK /\ OneListPerDevice /\ [Next]_vars => [Policy!Next]_pvars
  <2> SUFFICES ASSUME TypeOK, OneListPerDevice, [Next]_vars
               PROVE  Policy!Next \/ UNCHANGED pvars
    OBVIOUS
  <2>0. call \in CallType /\ ListedOnce(call) /\ AdminPresent(call') \in BOOLEAN
    BY DEF TypeOK, OneListPerDevice, AdminPresent
  <2>join. CASE Join
    <3>1. PICK c \in Joins : ~HasClient(call, c.demux_id) /\ call' = AddClient(call, c)
      BY <2>join DEF Join
    <3>2. c \in Clients /\ c.demux_id \in DemuxIds
      BY InputAssumption DEF Clients
    <3>3. Policy!Enter(c.demux_id)
      BY <2>0, <3>1, <3>2, AddEnters DEF Policy!Enter
    <3>4. QED
      BY <3>2, <3>3 DEF Policy!Next
  <2>leave. CASE Leave
    <3>1. PICK d \in DemuxIds : call' = DropClient(call, d)
      BY <2>leave DEF Leave
    <3>2. Policy!Exit(d)
      BY <2>0, <3>1, DropExits DEF Policy!Exit
    <3>3. QED
      BY <3>2 DEF Policy!Next
  <2>message. CASE Message
    <3>1. PICK sender \in call.clients, proto \in Protos :
                  call' = HandleDeviceToSfu(call, sender, proto)
      BY <2>message DEF Message
    <3>2. proto \in ProtoType
      BY InputAssumption
    <3>3. CASE sender.is_admin
      <4>1. Advanced(call, call')
        BY <2>0, <3>1, <3>2, <3>3, MessageAdvances
      <4>2. AdminPresent(call)
        BY <3>3 DEF AdminPresent
      <4>3. StatusOf(call') \in [DemuxIds -> Policy!Statuses]
        BY DEF StatusOf, Policy!Statuses
      <4>4. QED
        BY <2>0, <4>1, <4>2, <4>3 DEF Advanced, Policy!Moderate, Policy!Next
    <3>4. CASE ~sender.is_admin
      <4>1. /\ call'.clients = call.clients
            /\ call'.pending_clients = call.pending_clients
            /\ call'.removed_clients = call.removed_clients
        BY <2>0, <3>1, <3>2, <3>4, MessageAdvances
      <4>2. QED
        BY <4>1, SameListsAdvanced DEF AdminPresent
    <3>5. QED
      BY <3>3, <3>4
  <2>tick. CASE Tick
    <3>1. /\ call'.clients = call.clients
          /\ call'.pending_clients = call.pending_clients
          /\ call'.removed_clients = call.removed_clients
      BY <2>0, <2>tick DEF Tick, CallType
    <3>2. QED
      BY <3>1, SameListsAdvanced DEF AdminPresent
  <2>stutter. CASE UNCHANGED vars
    BY <2>stutter DEF vars, StatusOf, AdminPresent
  <2> QED
    BY <2>stutter, <2>join, <2>leave, <2>message, <2>tick DEF Next
<1>3. QED
  BY <1>1, <1>2, TypeCorrect, DevicesListedOnce, PTL DEF Spec, ImplementsAdmission, Policy!Spec
------------------------------------------------------------------------------
(* Together.                                                               *)

\* Whatever join, leave, approve, deny, remove, block and raise-hand requests come, in whatever
\* order and from however many devices, the lists of devices, the users' standing and the
\* raised hands fit together (Call of call.rs).
THEOREM MembershipConsistent ==
    ASSUME AdminIsPerUser PROVE Spec => []MembershipIsConsistent
BY DevicesListedOnce, UsersAreOnOneSide, ApprovalIsConsistent, HandsHaveOwners, PTL
   DEF MembershipIsConsistent

\* What the devices were told last is how things are, or the next tick tells them.
THEOREM ChangesAnnounced == Spec => []ChangesAreAnnounced
BY MembershipAnnounced, HandsAnnounced, PTL DEF ChangesAreAnnounced
==============================================================================
