-------------------------------- MODULE Call ---------------------------------
(***************************************************************************)
(* Membership of one group call: backend/src/call.rs.  The state of the    *)
(* struct Call is the record "call"; its methods are operators from such   *)
(* records to such records, so that a handler that calls several of them   *)
(* in a row is their composition.  Every handler runs with the call's      *)
(* mutex held, hence each is one action.                                   *)
(*                                                                         *)
(* Left to other modules: media forwarding, rates and padding, the active  *)
(* speaker, and how the approved users reach the frontend (ApprovedUsers). *)
(***************************************************************************)
EXTENDS Naturals

CONSTANTS
    DemuxIds,       \* device identifiers, unique in a call
    Users,          \* user identifiers; a user may have several devices
    None,           \* an absent optional field of a message
    Joins,          \* the join requests that may arrive
    Protos,         \* the DeviceToSfu messages that may arrive
    Initial,        \* the approved users the frontend hands to a new call
    RequireApproval, \* new_clients_require_approval
    PersistAll      \* persist_approval_for_all_users_who_join

\* NonParticipantClient and, for admission, Client.
Clients == [demux_id : DemuxIds, user_id : Users, is_admin : BOOLEAN]

RaiseHands == [raise : BOOLEAN, seqnum : Nat]

\* DeviceToSfu without "leave", with at most one target in each list.
ProtoType == [approve : DemuxIds \cup {None}, deny  : DemuxIds \cup {None},
              remove  : DemuxIds \cup {None}, block : DemuxIds \cup {None},
              raise_hand : RaiseHands \cup {None}]

ASSUME NoneAssumption  == None \notin DemuxIds /\ None \notin RaiseHands
ASSUME InputAssumption == Joins \subseteq Clients /\ Protos \subseteq ProtoType
ASSUME ConfigAssumption ==
    /\ Initial \subseteq Users
    /\ RequireApproval \in BOOLEAN
    /\ PersistAll \in BOOLEAN

VARIABLES
    call,       \* the struct Call
    announced   \* what the last messages to the devices said

vars == <<call, announced>>

HandStates == {"unlisted", "lowered", "raised"}

CallType ==
    [clients         : SUBSET Clients,
     pending_clients : SUBSET Clients,
     removed_clients : SUBSET Clients,
     approved_users  : SUBSET Users,
     denied_users    : SUBSET Users,
     blocked_users   : SUBSET Users,
     raised_hands    : [DemuxIds -> HandStates],
     raised_hands_seqnums : [DemuxIds -> Nat],
     \* client_added_or_removed > clients_update_sent
     clients_changed : BOOLEAN,
     \* raised_hands_sent was set back so that the next tick sends the list
     hands_changed   : BOOLEAN]

ById(S, d)     == {c \in S : c.demux_id = d}
OfUsers(S, us) == {c \in S : c.user_id \in us}
DemuxIdsOf(S)  == {c.demux_id : c \in S}
UsersOf(S)     == {c.user_id : c \in S}

HasClient(s, d) ==
    d \in DemuxIdsOf(s.clients) \cup DemuxIdsOf(s.pending_clients)
             \cup DemuxIdsOf(s.removed_clients)

NewCall ==
    [clients |-> {}, pending_clients |-> {}, removed_clients |-> {},
     approved_users |-> Initial, denied_users |-> {}, blocked_users |-> {},
     raised_hands |-> [d \in DemuxIds |-> "unlisted"],
     raised_hands_seqnums |-> [d \in DemuxIds |-> 0],
     clients_changed |-> FALSE, hands_changed |-> FALSE]
------------------------------------------------------------------------------
(* The methods of Call.                                                    *)

AddClient(s, c) ==
    IF c.user_id \in s.blocked_users
    THEN [s EXCEPT !.removed_clients = @ \cup {c}]
    ELSE IF c.is_admin \/ ~RequireApproval \/ c.user_id \in s.approved_users
    THEN [s EXCEPT !.approved_users = IF PersistAll THEN @ \cup {c.user_id} ELSE @,
                   !.clients = @ \cup {c},
                   !.clients_changed = TRUE]
    ELSE [s EXCEPT !.pending_clients = @ \cup {c},
                   !.clients_changed = TRUE]

\* Seeded fault: the approval is not remembered.
ApproveWithoutRemembering(s, d) ==
    LET user     == UsersOf(ById(s.pending_clients, d))
        approved == OfUsers(s.pending_clients, user)
    IN  [s EXCEPT !.pending_clients = @ \ approved, !.clients = @ \cup approved]

\* Approves every pending client of the user the device belongs to.
ApprovePendingClient(s, d) ==
    LET user     == UsersOf(ById(s.pending_clients, d))
        approved == OfUsers(s.pending_clients, user)
    IN  IF user = {} THEN s
        ELSE [s EXCEPT !.pending_clients = @ \ approved,
                       !.clients = @ \cup approved,
                       !.denied_users = @ \ user,
                       !.approved_users = @ \cup user,
                       !.clients_changed = TRUE]

\* Denies every pending client of the user; the second denial is a block.
DenyPendingClient(s, d) ==
    LET user   == UsersOf(ById(s.pending_clients, d))
        denied == OfUsers(s.pending_clients, user)
    IN  IF user = {} THEN s
        ELSE [s EXCEPT !.pending_clients = @ \ denied,
                       !.removed_clients = @ \cup denied,
                       !.blocked_users = @ \cup (user \cap s.denied_users),
                       !.denied_users = @ \cup user,
                       !.clients_changed = TRUE]

\* Seeded fault: lowering a hand does not schedule the list.
LowerSilently(s, d) ==
    IF d \in DemuxIds /\ s.raised_hands[d] = "raised"
    THEN [s EXCEPT !.raised_hands[d] = "lowered"]
    ELSE s

LowerRaisedHand(s, d) ==
    IF d \in DemuxIds /\ s.raised_hands[d] = "raised"
    THEN [s EXCEPT !.raised_hands[d] = "lowered", !.hands_changed = TRUE]
    ELSE s

\* Seeded fault: the departure of a pending client is not announced.
UnlistSilently(s, d) ==
    [s EXCEPT !.clients = @ \ ById(@, d),
              !.pending_clients = @ \ ById(@, d),
              !.removed_clients = @ \ ById(@, d),
              !.clients_changed = @ \/ d \in DemuxIdsOf(s.clients)]

Unlist(s, d) ==
    IF d \in DemuxIdsOf(s.clients)
    THEN [s EXCEPT !.clients = @ \ ById(@, d), !.clients_changed = TRUE]
    ELSE IF d \in DemuxIdsOf(s.pending_clients)
    THEN [s EXCEPT !.pending_clients = @ \ ById(@, d), !.clients_changed = TRUE]
    ELSE [s EXCEPT !.removed_clients = @ \ ById(@, d)]

\* Seeded fault: only an active client's hand is lowered.
DropLoweringIfActive(s, d) ==
    IF d \in DemuxIdsOf(s.clients) THEN LowerRaisedHand(Unlist(s, d), d) ELSE Unlist(s, d)

\* The device is gone: it left, or its connection expired.
DropClient(s, d) == LowerRaisedHand(Unlist(s, d), d)

\* Seeded fault: the approval is revoked although other devices remain.
ExpelAndRevoke(s, d) ==
    LET gone == ById(s.clients, d) IN
    [s EXCEPT !.clients = @ \ gone,
              !.approved_users = @ \ UsersOf(gone),
              !.removed_clients = @ \cup gone,
              !.clients_changed = TRUE]

\* The user's approval is revoked with the last active device.
Expel(s, d) ==
    LET gone == ById(s.clients, d)
        rest == s.clients \ gone
    IN  [s EXCEPT !.clients = rest,
                  !.approved_users = @ \ (UsersOf(gone) \ UsersOf(rest)),
                  !.removed_clients = @ \cup gone,
                  !.clients_changed = TRUE]

\* Keeps the device in removed_clients until it leaves.
ForceRemoveClient(s, d) ==
    IF d \in DemuxIdsOf(s.clients) THEN LowerRaisedHand(Expel(s, d), d) ELSE s

\* Seeded fault: only the named device of the user is removed.
BlockOneDevice(s, d) ==
    LET gone == ById(s.clients, d) IN
    [s EXCEPT !.clients = @ \ gone,
              !.removed_clients = @ \cup gone,
              !.approved_users = @ \ UsersOf(gone),
              !.blocked_users = @ \cup UsersOf(gone),
              !.clients_changed = TRUE]

\* Removes every active device of the user and keeps the user out.
BlockClient(s, d) ==
    LET user == UsersOf(ById(s.clients, d))
        gone == OfUsers(s.clients, user)
    IN  IF user = {} THEN s
        ELSE [s EXCEPT !.clients = @ \ gone,
                       !.removed_clients = @ \cup gone,
                       !.approved_users = @ \ user,
                       !.blocked_users = @ \cup user,
                       !.clients_changed = TRUE]

\* A message older than the newest one seen from the device is ignored.
HandleRaiseHand(s, d, hand) ==
    IF s.raised_hands[d] # "unlisted" /\ hand.seqnum <= s.raised_hands_seqnums[d]
    THEN s
    ELSE [s EXCEPT !.raised_hands[d] = IF hand.raise THEN "raised" ELSE "lowered",
                   !.raised_hands_seqnums[d] = hand.seqnum,
                   !.hands_changed = TRUE]

\* The admin actions of a message, in the order the handler loops over them.
AdminActions(s, proto) ==
    BlockClient(
      ForceRemoveClient(
        DenyPendingClient(
          ApprovePendingClient(s, proto.approve), proto.deny), proto.remove), proto.block)

\* Seeded fault: is_admin is not looked at.
AnyoneModerates(s, sender, proto) ==
    LET acted == AdminActions(s, proto)
    IN  IF proto.raise_hand = None THEN acted
        ELSE HandleRaiseHand(acted, sender.demux_id, proto.raise_hand)

\* One DeviceToSfu message of an active sender.  is_admin was read before the
\* admin actions, and the hand is handled even if they removed the sender.
HandleDeviceToSfu(s, sender, proto) ==
    LET acted == IF sender.is_admin THEN AdminActions(s, proto) ELSE s
    IN  IF proto.raise_hand = None THEN acted
        ELSE HandleRaiseHand(acted, sender.demux_id, proto.raise_hand)
------------------------------------------------------------------------------
(* The handlers.                                                           *)

\* The devices a peek would show, and the hands and seqnums of the hand list.
Membership(s) == <<DemuxIdsOf(s.clients), DemuxIdsOf(s.pending_clients)>>
HandList(s)   == [d \in {e \in DemuxIds : s.raised_hands[e] = "raised"}
                    |-> s.raised_hands_seqnums[d]]

Init == /\ call = NewCall
        /\ announced = [members |-> Membership(NewCall), hands |-> HandList(NewCall)]

\* The Sfu adds a client unless its demux ID is taken.
Join == \E c \in Joins :
          /\ ~HasClient(call, c.demux_id)
          /\ call' = AddClient(call, c)
          /\ UNCHANGED announced

\* A "leave" message, accepted from any device, or an expired connection.
Leave == \E d \in DemuxIds :
           /\ call' = DropClient(call, d)
           /\ UNCHANGED announced

\* Any other message; the sender must be active.
Message == \E sender \in call.clients, proto \in Protos :
             /\ call' = HandleDeviceToSfu(call, sender, proto)
             /\ UNCHANGED announced

\* The Sfu ticks a call only while it has a client in some list.
Active(s) == s.clients # {} \/ s.pending_clients # {} \/ s.removed_clients # {}

\* Sends the joined-or-left message if it is due, and the hand list, which is
\* also repeated from time to time.
Tick == /\ Active(call)
        /\ \E repeat \in BOOLEAN :
             LET send_hands == call.hands_changed \/ repeat IN
             /\ announced' =
                  [members |-> IF call.clients_changed THEN Membership(call)
                               ELSE announced.members,
                   hands   |-> IF send_hands THEN HandList(call) ELSE announced.hands]
             /\ call' = [call EXCEPT !.clients_changed = FALSE,
                                     !.hands_changed = FALSE]

Next == Join \/ Leave \/ Message \/ Tick

Spec == Init /\ [][Next]_vars
------------------------------------------------------------------------------
(* Properties.                                                             *)

TypeOK ==
    /\ call \in CallType
    /\ announced.members \in (SUBSET DemuxIds) \X (SUBSET DemuxIds)
    /\ DOMAIN announced.hands \subseteq DemuxIds

\* All devices of a user present the same admin claim when they join.  The
\* claim is made per join request, so the code does not guarantee this.
AdminIsPerUser ==
    \A j1, j2 \in Joins : j1.user_id = j2.user_id => j1.is_admin = j2.is_admin

AllClients(s) == s.clients \cup s.pending_clients \cup s.removed_clients

ListedOnce(s) ==
    /\ \A c1, c2 \in AllClients(s) : c1.demux_id = c2.demux_id => c1 = c2
    /\ s.clients \cap s.pending_clients = {}
    /\ s.clients \cap s.removed_clients = {}
    /\ s.pending_clients \cap s.removed_clients = {}

\* A device has one entry in one of the three client lists.  has_client guards
\* the join, and approve, deny, remove and block move entries between lists.
OneListPerDevice == ListedOnce(call)

\* "We don't want to get into a state where one user has both a pending and an
\* active client" (force_remove_client, call.rs:787).
NoUserPendingAndActive ==
    UsersOf(call.clients) \cap UsersOf(call.pending_clients) = {}

\* A blocked user has neither an active nor a pending device and is not
\* approved: blocked_users "takes precedent over approved_users" (call.rs:356).
BlockedUsersStayOut ==
    call.blocked_users \cap (UsersOf(call.clients) \cup UsersOf(call.pending_clients)
                               \cup call.approved_users) = {}

\* In a call that requires approval every active user who is not an admin is
\* approved, so another device of the user gets in without asking again, and
\* no user who waits for approval is approved already.
ApprovalMatchesMembership ==
    /\ \A c \in call.clients :
          RequireApproval /\ ~c.is_admin => c.user_id \in call.approved_users
    /\ UsersOf(call.pending_clients) \cap call.approved_users = {}

HandsOwned(s) == \A d \in DemuxIds : s.raised_hands[d] = "raised" => HasClient(s, d)

\* A raised hand belongs to a device the call still knows, so whoever leaves
\* takes the hand down (drop_client, force_remove_client; block_client leaves
\* it up until the removed device is gone).
RaisedHandsHaveOwners == HandsOwned(call)

\* What joining, leaving, approving, denying, removing and blocking keep of the lists of a
\* call: a device is in one list, a user on one side, approved when let in, and hands
\* belong to devices that are there.
MembershipIsConsistent ==
    /\ OneListPerDevice /\ NoUserPendingAndActive
    /\ ApprovalMatchesMembership /\ RaisedHandsHaveOwners

\* Unless the next tick is going to send the joined-or-left message, the
\* devices have been told of every change of the active and pending lists.
MembershipIsAnnounced ==
    ~call.clients_changed => announced.members = Membership(call)

\* Unless the next tick is going to send the list of raised hands, the last
\* list sent has exactly the hands that are up, with their newest seqnums.
HandsAreAnnounced ==
    ~call.hands_changed => announced.hands = HandList(call)

\* No change of the call is lost between two ticks: what the devices were last told of
\* members and hands is how it is, or is going to be told (tick, clear_changed flags).
ChangesAreAnnounced == MembershipIsAnnounced /\ HandsAreAnnounced

StatusOf(s) ==
    [d \in DemuxIds |-> CASE d \in DemuxIdsOf(s.clients) -> "active"
                          [] d \in DemuxIdsOf(s.pending_clients) -> "pending"
                          [] d \in DemuxIdsOf(s.removed_clients) -> "removed"
                          [] OTHER -> "absent"]

AdminPresent(s) == \E c \in s.clients : c.is_admin

Policy == INSTANCE Admission WITH status <- StatusOf(call), moderated <- AdminPresent(call)

\* The call implements the admission policy: devices come and go one at a time
\* by their own doing, and anything else needs an active administrator and
\* moves devices only from pending to active to removed.
ImplementsAdmission == Policy!Spec
==============================================================================
