---------------------------- MODULE LoadBalancer ----------------------------
(***************************************************************************)
(* The frontend's choice of a backend: frontend/src/load_balancer.rs.  One *)
(* task owns the map of hosts and works through the messages of a channel: *)
(* host lists from the instance lister, weights from one health checker    *)
(* per host, and choices for joins.  A choice draws a ball from an urn     *)
(* that has as many balls for a host as it has weight; the urn is refilled *)
(* when it is empty.  The task keeps the sums of the weights in 16 bits,   *)
(* which wrap around in a release build.  The iteration order of the map   *)
(* and the ball drawn are arbitrary.  A checker ends with its host: the    *)
(* lists are 30 s apart, its longest wait is a second.  The last weight    *)
(* that was logged is left out.                                            *)
(***************************************************************************)
EXTENDS Naturals, Sequences, FiniteSets, FiniteSetsExt

CONSTANTS
    Hosts, MaxWeight,
    MaxHosts,           \* MAX_HOSTS: the hosts of one list
    ChannelSize,        \* messages in the channel
    None

U16 == 2^16
Minus(a, b) == ((a + U16) - b) % U16

Callers == {"lister", "drop"}

VARIABLES
    map,                    \* the hosts, with weight and weight_left
    total_weight, total_weight_left, unchecked_servers,
    host_list_reply,        \* who waits for the hosts of the list to be checked
    inbox,                  \* the channel
    last_weight,            \* what the checker of a host in the map has sent
    caller,                 \* of each caller of set_host_list: what it knows
    answer                  \* the answer to the last message, if it was a choice

lb_vars == <<map, total_weight, total_weight_left, unchecked_servers, host_list_reply, inbox,
             last_weight, caller, answer>>

Weights == 0..MaxWeight

WeightOf(h) == IF map[h].weight = None THEN 0 ELSE map[h].weight

\* new_with_instance_url: an empty map, whose first list the lister sends.
Init ==
    /\ map = <<>>
    /\ total_weight = 0 /\ total_weight_left = 0 /\ unchecked_servers = 0
    /\ host_list_reply = None
    /\ inbox = <<>>
    /\ last_weight = [h \in Hosts |-> None]
    /\ caller = [c \in Callers |-> "idle"]
    /\ answer = None
------------------------------------------------------------------------------
(* The senders.                                                            *)

\* A health check of h succeeds (its weight is 1 more than the idle percentage)
\* or fails (0), within HEALTHCHECK_INTERVAL.  A weight is sent when it is new.
Check(h, w) ==
    /\ h \in DOMAIN map
    /\ last_weight[h] # w
    /\ Len(inbox) < ChannelSize
    /\ last_weight' = [last_weight EXCEPT ![h] = w]
    /\ inbox' = Append(inbox, [type |-> "weight", ips |-> {h}, weight |-> w, from |-> "lister"])
    /\ UNCHANGED <<map, total_weight, total_weight_left, unchecked_servers, host_list_reply,
                   caller, answer>>

\* set_host_list_impl, by the lister, or with an empty list when the LoadBalancer is dropped.
SetHostList(c, ips) ==
    /\ caller[c] # "waiting"
    /\ caller["drop"] = "idle"
    /\ c = "drop" => ips = {}
    /\ Cardinality(ips) <= MaxHosts
    /\ Len(inbox) < ChannelSize
    /\ inbox' = Append(inbox, [type |-> "list", ips |-> ips, weight |-> 0, from |-> c])
    /\ caller' = [caller EXCEPT ![c] = "waiting"]
    /\ UNCHANGED <<map, total_weight, total_weight_left, unchecked_servers, host_list_reply,
                   last_weight, answer>>
------------------------------------------------------------------------------
(* The task.                                                               *)

\* maybe_send_host_list_reply, with the number of hosts not yet checked.
Replied(unchecked, reply, callers) ==
    /\ unchecked_servers' = unchecked
    /\ IF unchecked = 0 /\ reply # None
       THEN host_list_reply' = None /\ caller' = [callers EXCEPT ![reply] = "ok"]
       ELSE host_list_reply' = reply /\ caller' = callers

\* Seeded fault: a host that goes down keeps its place in the urn.
UpdateWeightLater(h, w) ==
    /\ map' = [map EXCEPT ![h].weight = w, ![h].weight_left = IF w = 0 THEN @ ELSE w]
    /\ total_weight' = Minus(total_weight, WeightOf(h)) + w
    /\ total_weight_left' = IF w = 0 THEN total_weight_left ELSE 0
    /\ Replied(IF map[h].weight = None THEN unchecked_servers - 1 ELSE unchecked_servers,
               host_list_reply, caller)
    /\ UNCHANGED last_weight

\* update_weight: a host that is down takes its balls away; any other weight
\* starts the selection again.
UpdateWeight(h, w) ==
    /\ map' = [map EXCEPT ![h] = [weight |-> w, weight_left |-> w]]
    /\ total_weight' = Minus(total_weight, WeightOf(h)) + w
    /\ total_weight_left' = IF w = 0 THEN Minus(total_weight_left, map[h].weight_left) ELSE 0
    /\ IF map[h].weight = None
       THEN Replied(unchecked_servers - 1, host_list_reply, caller)
       ELSE UNCHANGED <<unchecked_servers, host_list_reply, caller>>
    /\ UNCHANGED last_weight

\* Seeded fault: the weight of hosts that are gone still counts.
RemovedWeightKept(gone) == 0

RemovedWeight(gone) == MapThenSumSet(LAMBDA h : WeightOf(h), gone)

\* replace_map, after a caller that still waits is told of the concurrent update.
ReplaceMap(ips, from) ==
    LET gone    == DOMAIN map \ ips
        new     == ips \ DOMAIN map
        dropped == Cardinality({h \in gone : map[h].weight = None})
    IN  /\ map' = [h \in ips |-> IF h \in new THEN [weight |-> None, weight_left |-> 0]
                                 ELSE map[h]]
        /\ last_weight' = [h \in Hosts |-> IF h \in new \cup gone THEN None ELSE last_weight[h]]
        /\ total_weight' = Minus(total_weight, RemovedWeight(gone))
        /\ total_weight_left' =
               Minus(total_weight_left, MapThenSumSet(LAMBDA h : map[h].weight_left, gone))
        /\ Replied((unchecked_servers + Cardinality(new)) - dropped, from,
                   IF host_list_reply = None THEN caller
                   ELSE [caller EXCEPT ![host_list_reply] = "concurrent"])

\* recv: the next message that is not a choice.
Receive ==
    /\ inbox # <<>>
    /\ inbox' = Tail(inbox)
    /\ answer' = None
    /\ LET m == Head(inbox) IN
       \/ m.type = "list" /\ ReplaceMap(m.ips, m.from)
       \/ /\ m.type = "weight"
          /\ \E h \in m.ips :
                IF h \in DOMAIN map THEN UpdateWeight(h, m.weight)
                ELSE UNCHANGED <<map, total_weight, total_weight_left, unchecked_servers,
                                 host_list_reply, last_weight, caller>>

\* choose: the urn after it was refilled if need be.
Refilled ==
    IF total_weight > 0 /\ total_weight_left = 0
    THEN [left |-> total_weight, of |-> [h \in DOMAIN map |-> WeightOf(h)]]
    ELSE [left |-> total_weight_left, of |-> [h \in DOMAIN map |-> map[h].weight_left]]

\* A ball n < total_weight_left belongs to a host that has balls left, whichever comes
\* first in the map, or to none, if there are fewer balls than total_weight_left says.
Choose(a) ==
    LET urn   == Refilled
        balls == MapThenSumSet(LAMBDA h : urn.of[h], DOMAIN map)
    IN  /\ answer' = a
        /\ \/ a = "no hosts" /\ DOMAIN map = {} /\ UNCHANGED <<map, total_weight_left>>
           \/ /\ a = "no healthy hosts" /\ DOMAIN map # {}
              /\ total_weight = 0 \/ urn.left > balls
              /\ map' = [h \in DOMAIN map |-> [map[h] EXCEPT !.weight_left = urn.of[h]]]
              /\ total_weight_left' = urn.left
           \/ /\ a \in DOMAIN map /\ total_weight > 0
              /\ urn.of[a] > 0
              /\ map' = [h \in DOMAIN map |-> [map[h] EXCEPT
                            !.weight_left = IF h = a THEN urn.of[h] - 1 ELSE urn.of[h]]]
              /\ total_weight_left' = Minus(urn.left, 1)
        /\ UNCHANGED <<total_weight, unchecked_servers, host_list_reply, inbox, last_weight,
                       caller>>
------------------------------------------------------------------------------
Next ==
    \/ \E h \in Hosts, w \in Weights : Check(h, w)
    \/ \E c \in Callers, ips \in SUBSET Hosts : SetHostList(c, ips)
    \/ Receive
    \/ \E a \in Hosts \cup {"no hosts", "no healthy hosts"} : Choose(a)

Spec == Init /\ [][Next]_lb_vars
------------------------------------------------------------------------------
(* Properties.                                                             *)

\* The running sums that update_weight and replace_map keep are those of the map, through
\* every order of lists and late weights: a healthy host is known to be there.
SumsAreOfTheMap ==
    /\ total_weight = MapThenSumSet(LAMBDA h : WeightOf(h), DOMAIN map)
    /\ unchecked_servers = Cardinality({h \in DOMAIN map : map[h].weight = None})

\* No join is sent to a host whose last health check failed or has not been made, nor to
\* one more often than it has weight before the others had theirs.
ChosenHostsAreHealthy ==
    /\ answer \in Hosts => WeightOf(answer) > map[answer].weight_left
    /\ \A h \in DOMAIN map : map[h].weight_left <= WeightOf(h)

\* Every call of set_host_list is answered: when all its hosts were checked, or when
\* another list came.  The lister awaits it between two lists, and so does the start.
ListsAreAnswered == \A c \in Callers : []<>(caller[c] # "waiting")

\* "no healthy hosts" (load_balancer.rs:262) is the answer only when there are none.
HealthyHostsAreFound == answer = "no healthy hosts" => total_weight = 0
==============================================================================
