--------------------------- MODULE InstanceLister ---------------------------
(***************************************************************************)
(* Where the load balancer's hosts come from: frontend/src/gcp_apis.rs.  A *)
(* task asks the cloud, again and again, for the running instances of a    *)
(* group and for the address of each instance it does not know, with a     *)
(* token it fetches and keeps.  Every request may fail.  Time is counted   *)
(* in intervals between two lists; of a moment only its age is kept, up to *)
(* an age that no longer matters.  An instance stands for its address.     *)
(* Two requests never take as long as an interval (GCP_TIMEOUT), so the    *)
(* timeout of the select cannot cut a list short.                          *)
(***************************************************************************)
EXTENDS Naturals, FiniteSets

CONSTANTS
    Instances,
    Lifetimes,              \* expires_in of the tokens
    InitialBackoff, MaxBackoff,
    OldAge                  \* more than any lifetime and backoff

VARIABLES
    token,          \* GoogleToken
    map,            \* the instances whose address is known
    at,             \* where the task is
    group,          \* the running instances last listed
    todo,           \* of these, the ones not yet looked at in this round
    new_map,
    missed,         \* instances whose address could not be fetched in this round
    published,      \* the hosts last given to the load balancer
    used            \* the token, when it was last used

il_vars == <<token, map, at, group, todo, new_map, missed, published, used>>

Init ==
    /\ token = [present |-> FALSE, since_fetch |-> 0, since_attempt |-> 0,
                lifetime |-> 0, adjusted_expiration |-> 0, backoff |-> InitialBackoff]
    /\ map = {} /\ group = {} /\ todo = {} /\ new_map = {} /\ missed = {} /\ published = {}
    /\ at = "start"
    /\ used = token

SaturatingSub(a, b) == IF a > b THEN a - b ELSE 0
AtMost(a, b) == IF a < b THEN a ELSE b

\* A new token, with an expiration MaxBackoff early.
Fetched(lifetime) ==
    [present |-> TRUE, since_fetch |-> 0, since_attempt |-> 0, lifetime |-> lifetime,
     adjusted_expiration |-> SaturatingSub(lifetime, MaxBackoff), backoff |-> InitialBackoff]

\* Seeded fault: the backoff grows without limit.
DoubleBackoffUnlimited(b) == AtMost(b + b, OldAge)

DoubleBackoff(b) == AtMost(b + b, MaxBackoff)

IsDue == \/ ~token.present
         \/ /\ token.since_fetch > token.adjusted_expiration
            /\ token.since_attempt > token.backoff

\* refresh: the token, if there is one, survives a failed fetch.
Refresh(fetched, lifetime) ==
    IF ~IsDue THEN token
    ELSE IF fetched THEN Fetched(lifetime)
    ELSE [token EXCEPT !.since_attempt = 0,
                       !.backoff = IF token.present THEN DoubleBackoff(@) ELSE @]

\* A request with a token, or none if there is no token.
Request(fetched, lifetime) ==
    /\ token' = Refresh(fetched, lifetime)
    /\ used' = token'

\* get_list: the instances that are RUNNING.
GetList(fetched, lifetime, listed, ok) ==
    /\ at \in {"start", "list"}
    /\ Request(fetched, lifetime)
    /\ IF token'.present /\ ok
       THEN /\ group' = listed /\ todo' = listed /\ new_map' = {} /\ missed' = {}
            /\ at' = IF at = "start" THEN "first" ELSE "instances"
       ELSE /\ at' = IF at = "start" THEN "failed" ELSE "sleep"
            /\ UNCHANGED <<group, todo, new_map, missed>>
    /\ UNCHANGED <<map, published>>

\* get_instances, one instance: its address is known, is fetched, or cannot be.
GetInstance(i, fetched, lifetime, ok) ==
    /\ at \in {"first", "instances"}
    /\ i \in todo
    /\ todo' = todo \ {i}
    /\ IF i \in map THEN new_map' = new_map \cup {i} /\ UNCHANGED <<token, used, missed>>
       ELSE /\ Request(fetched, lifetime)
            /\ IF token'.present /\ ok THEN new_map' = new_map \cup {i} /\ UNCHANGED missed
               ELSE missed' = missed \cup {i} /\ UNCHANGED new_map
    /\ UNCHANGED <<map, at, group, published>>

\* Seeded fault: an instance that is gone changes nothing.
ChangedByNew == ~(new_map \subseteq map)

Changed == ~(new_map \subseteq map) \/ Cardinality(map) # Cardinality(new_map)

\* The end of get_instances: if no address could be had, the old map is kept; at the start
\* that is an error.
EndRound ==
    LET fails == new_map = {} /\ group # {} IN
    /\ at \in {"first", "instances"} /\ todo = {}
    /\ IF fails /\ map = {}
       THEN at' = (IF at = "first" THEN "failed" ELSE "sleep") /\ UNCHANGED <<map, published>>
       ELSE /\ at' = "sleep"
            /\ IF at = "first" \/ (Changed /\ ~fails)
               THEN map' = new_map /\ published' = new_map
               ELSE UNCHANGED <<map, published>>
    /\ UNCHANGED <<token, group, todo, new_map, missed, used>>

\* INSTANCE_LIST_INTERVAL passes.
Sleep ==
    /\ at = "sleep"
    /\ at' = "list"
    /\ token' = [token EXCEPT !.since_fetch = AtMost(@ + 1, OldAge),
                              !.since_attempt = AtMost(@ + 1, OldAge)]
    /\ UNCHANGED <<map, group, todo, new_map, missed, published, used>>

\* The frontend did not start.
GivenUp == at = "failed" /\ UNCHANGED il_vars

Next ==
    \/ \E fetched, ok \in BOOLEAN, lifetime \in Lifetimes :
          \/ \E listed \in SUBSET Instances : GetList(fetched, lifetime, listed, ok)
          \/ \E i \in Instances : GetInstance(i, fetched, lifetime, ok)
    \/ EndRound
    \/ Sleep
    \/ GivenUp
------------------------------------------------------------------------------
(* Properties.                                                             *)

\* After a round the load balancer has the instances of the group, without those whose
\* address could not be fetched, unless that leaves none: it is never left without hosts
\* because requests fail.
HostsFollowTheGroup ==
    at = "sleep" /\ todo = {} =>
        /\ missed = {} => published = group
        /\ published = {} => group = {} \/ missed = group
        /\ published # {} => group \ missed \subseteq published

\* A token is used after its lifetime only if an attempt to replace it failed, and not
\* longer ago than the largest backoff.
StaleTokensAreRefetched ==
    used.present /\ used.since_fetch > used.lifetime =>
        used.backoff > InitialBackoff /\ used.since_attempt <= MaxBackoff
==============================================================================
