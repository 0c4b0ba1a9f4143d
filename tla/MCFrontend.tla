----------------------------- MODULE MCFrontend -----------------------------
(***************************************************************************)
(* Small instances of what runs beside the frontend's requests: the task   *)
(* that persists the approved users of a call (ApprovedUsers), the removal *)
(* of call records (CallRecords), the choice of a backend (LoadBalancer)   *)
(* and the list of backends (InstanceLister); and the requests about call  *)
(* links (CallLinkApi).  The parts share no variable; a behaviour is one   *)
(* of one part.                                                            *)
(***************************************************************************)
EXTENDS ApprovedUsers, TLC

CONSTANTS Rooms, Eras, Backends, Regions, Requests, Handlers, QueueCapacity, BatchSize,
          Hosts, MaxWeight, MaxHosts, ChannelSize,
          Instances, Lifetimes, InitialBackoff, MaxBackoff, OldAge,
          Processes, ExpirationTimer, DeletionTimer, Horizon,
          k1, k2, z1, z2,
          None, Parts

VARIABLES part,
          record, index, link, resets, used, request, calls, queue, todo, doomed, serial, stray,
          reported,
          map, total_weight, total_weight_left, unchecked_servers, host_list_reply, inbox,
          last_weight, caller, answer,
          token, known, at, group, left, new_map, missed, published, last_token,
          state, active, now, process, answered, spawned

record_vars == <<record, index, link, resets, used, request, calls, queue, todo, doomed, serial,
                 stray, reported>>
lb_vars     == <<map, total_weight, total_weight_left, unchecked_servers, host_list_reply, inbox,
                 last_weight, caller, answer>>
lister_vars == <<token, known, at, group, left, new_map, missed, published, last_token>>
link_vars   == <<state, active, now, process, answered, spawned>>

OneRegion == [x \in Backends \cup Requests |-> CHOOSE g \in Regions : TRUE]

Removal   == INSTANCE CallRecords WITH LinkRooms <- {}, RegionOf <- OneRegion,
                                       StorageFails <- FALSE, BackendFails <- TRUE
Balancing == INSTANCE LoadBalancer
Listing   == INSTANCE InstanceLister WITH map <- known, todo <- left, used <- last_token
Api       == INSTANCE CallLinkApi WITH link <- state, record <- active, request <- process,
                                       resets <- spawned


\* Two requests of two creators on one room; the life of one link; and one request that
\* has a flaw.
Routes == {"read", "peek", "join", "update", "delete", "reset", "forget"}
Flaws  == {"user agent", "colon", "no authorization", "scheme", "token", "room", "body", "hex",
           "size", "public key", "zkparams", "credential"}
MCQueries ==
    [owners |->
        {Api!Query("update", "create", o[1], o[2], None, None, {}, {}) :
            o \in {<<z1, k1>>, <<z2, k2>>, <<z2, k1>>}}
        \cup {Api!Query("update", "link", z1, k1, "none", None, {}, {}),
              Api!Query("update", "link", z2, k2, None, TRUE, {}, {})}
        \cup {Api!Query("delete", "link", o[1], o[2], None, None, {}, {}) :
                 o \in {<<z1, k1>>, <<z2, k2>>}}
        \cup {Api!Query("join", "link", z1, k1, None, None, {}, {})},
     life |->
        {Api!Query("update", "create", z1, k1, None, None, {}, {}),
         Api!Query("approve", "link", z1, k1, None, None, Users, {}),
         Api!Query("update", "link", z1, k1, None, TRUE, {}, {})}
        \cup {Api!Query(r, "link", z1, k1, None, None, {}, {}) : r \in {"join", "reset", "forget"}},
     refusals |->
        {Api!Query("update", "create", z1, k1, None, None, {}, {})}
        \cup {Api!Query(r, a, z1, k1, None, None, {}, f) :
                 r \in Routes, a \in {"group", "link", "create"}, f \in {{}} \cup {{x} : x \in Flaws}}]

Acting == IF part = "refusals" THEN {CHOOSE p \in Processes : TRUE} ELSE Processes

\* A part that is not looked at does nothing.
MCInit ==
    /\ part \in Parts /\ Init /\ Removal!Init /\ Balancing!Init /\ Listing!Init /\ Api!Init
    /\ part # "approvals" => set = {}

MCNext ==
    /\ UNCHANGED part
    /\ \/ /\ part = "approvals" /\ Next
          /\ UNCHANGED <<record_vars, lb_vars, lister_vars, link_vars>>
       \/ /\ part = "records" /\ Removal!Next
          /\ UNCHANGED <<vars, lb_vars, lister_vars, link_vars>>
       \/ /\ part = "backends" /\ Balancing!Next
          /\ UNCHANGED <<vars, record_vars, lister_vars, link_vars>>
       \/ /\ part = "instances" /\ Listing!Next
          /\ UNCHANGED <<vars, record_vars, lb_vars, link_vars>>
       \/ /\ part \in DOMAIN MCQueries
          /\ \/ \E p \in Acting : \/ \E q \in MCQueries[part] : Api!Begin(p, q)
                                  \/ Api!Write(p) \/ Api!Fail(p) \/ Api!Disambiguate(p)
             \/ \E t \in spawned : Api!ResetLater(t)
             \/ part = "life" /\ (Api!Pass \/ Api!DropOld)
             \/ Api!EndCall
          /\ UNCHANGED <<vars, record_vars, lb_vars, lister_vars>>

\* Each part under its own fairness: ApprovedUsers' and CallRecords', and for LoadBalancer
\* that its task works off the channel and that every host is checked.
MCFairness ==
    /\ WF_vars(part = "approvals" /\ Tick)
    /\ WF_vars(part = "approvals" /\ Activity(TRUE))
    /\ WF_vars(part = "approvals" /\ Send)
    /\ WF_vars(part = "approvals" /\ (Answer \/ Fail \/ TimeOut))
    /\ \A r \in Rooms : WF_record_vars(part = "records" /\ Removal!Replicate(r))
    /\ \A g \in Regions : /\ WF_record_vars(part = "records" /\ Removal!Clean(g))
                          /\ WF_record_vars(part = "records" /\ Removal!Remove(g, TRUE))
    /\ []<>(inbox = <<>>)
    /\ \A h \in Hosts : []<>(h \in DOMAIN map => last_weight[h] # None)

MCSpec ==
    /\ MCInit
    /\ [][MCNext]_<<part, vars, record_vars, lb_vars, lister_vars, link_vars>>
    /\ MCFairness

\* Of CallRecords: the record of a call that is not running does not stay (the lifecycle
\* task of the backend, the frontend's cleaner).
StaleRecordsAreRemoved == Removal!StaleRecordsAreRemoved

\* Of LoadBalancer: joins go to healthy hosts only, and not more often than their weight
\* (choose), because the sums of weights and of unchecked hosts are those of the map
\* (update_weight, replace_map).  Of InstanceLister: the hosts follow the group of instances
\* (get_instances), and a token is used after its lifetime only between failed attempts to
\* replace it (GoogleToken::refresh).
ChosenHostsAreHealthy ==
    /\ Balancing!SumsAreOfTheMap /\ Balancing!ChosenHostsAreHealthy
    /\ Listing!HostsFollowTheGroup /\ Listing!StaleTokensAreRefetched

\* Of CallLinkApi: a link keeps its creator, who alone changes it (update_call_link,
\* delete_call_link), and nothing but the two operations on them changes the approved users
\* (update_call_link_approved_users).
LinksAreTheirCreators == Api!LinksAreTheirCreators /\ Api!ApprovalsSurvive

\* Of CallLinkApi: what the answers of the handlers in call_links.rs say was true, and a link
\* is not dropped before it is long expired (reset_call_link_expiration, CallLinkState::new).
AnswersAreTrue == Api!AnswersAreTrue /\ Api!LinksOutliveTheirExpiration
==============================================================================
