------------------------------- MODULE AuthHook -------------------------------
(***************************************************************************)
(* src/project/auth_k8s.c: PostgreSQL calls the hook in the new process of *)
(* each connection, so the cached_ variables start empty and processes     *)
(* share nothing: the model is one connection.  The Kubernetes API         *)
(* (external) answers from a cache that follows the cluster's pods late,   *)
(* as resourceVersion "0" allows.  Addresses have Width bits.              *)
(***************************************************************************)
EXTENDS Integers

CONSTANTS
    Width,       \* bits of an address: 32
    And(_, _),   \* & on addresses
    PodCount,    \* pods, in the order the API lists them
    MaxChanges   \* bound: changes in the cluster

Addresses == 0..(2^Width - 1)
\* The powers of two; & with ones above k zeros clears the lowest k bits.
HookAssumption ==
    /\ Width \in Nat \ {0} /\ PodCount \in Nat /\ MaxChanges \in Nat
    /\ \A k \in 0..Width : 2^k \in 1..2^Width
    /\ \A k \in 0..Width : \A a \in Addresses : And(a, 2^Width - 2^k) = (a \div 2^k) * 2^k
NoAddress == -1     \* text that inet_aton refuses, or a pod without an address
Local == -2         \* no remote_host
\* mark: the value of the instance's annotation
Pods == [ip : Addresses \cup {NoAddress}, mark : {"true", "other", "none"}]
Refusals == {"no instance", "no cidr", "no client", "outside", "rbac", "api", "unmarked"}

VARIABLES
    env,        \* is the instance set; the CIDR's address and bits
    cluster,    \* the pods (external)
    known,      \* what the API's cache holds of them (external)
    changes,
    marked,     \* history: addresses that ever had an annotated pod
    pc, host,
    cache,      \* cached_cidr and cached_api_client
    list,       \* what the API answered
    verdict, authorized,
    nextCalled  \* prev_client_auth_hook ran

external == <<env, cluster, known, changes, marked>>
vars == <<external, pc, host, cache, list, verdict, authorized, nextCalled>>

NoPods == [p \in 1..PodCount |-> [ip |-> NoAddress, mark |-> "none"]]
NoCidr == [network |-> NoAddress, bits |-> 0]    \* unset, no slash, or a bad address
NoCache == [valid |-> FALSE, network |-> 0, mask |-> 0, client |-> FALSE]

Init ==
    /\ env \in [instance : BOOLEAN,
                cidr : [network : Addresses, bits : -1..Width + 1] \cup {NoCidr}]
    /\ cluster = NoPods /\ known = NoPods /\ changes = 0 /\ marked = {}
    /\ pc = "start" /\ host = Local /\ cache = NoCache /\ list = NoPods
    /\ verdict = "none" /\ authorized = FALSE /\ nextCalled = FALSE

-----------------------------------------------------------------------------
\* The cluster and the API's cache of it (external).

Change ==
    /\ changes < MaxChanges /\ changes' = changes + 1
    /\ \E p \in 1..PodCount, pod \in Pods :
          /\ cluster' = [cluster EXCEPT ![p] = pod]
          /\ marked' = IF pod.mark = "true" THEN marked \cup {pod.ip} ELSE marked
    /\ UNCHANGED <<env, known, pc, host, cache, list, verdict, authorized, nextCalled>>

Sync ==
    /\ known # cluster /\ known' = cluster
    /\ UNCHANGED <<env, cluster, changes, marked, pc, host, cache, list, verdict, authorized, nextCalled>>

\* A connection from an address, from a host whose name is not an address,
\* or without a remote host.
Connect ==
    /\ pc = "start" /\ pc' = "hook"
    /\ host' \in Addresses \cup {NoAddress, Local}
    /\ UNCHANGED <<external, cache, list, verdict, authorized, nextCalled>>

-----------------------------------------------------------------------------
\* The hook.

\* Mutant: a negative number of bits is taken.
ValidBelow(bits) == bits <= Width
ValidBits(bits) == bits \in 0..Width

\* Mutant: the shift for 0 bits is left to the machine, which shifts by 0.
MaskShifted(bits) == IF bits = 0 THEN 2^Width - 1 ELSE 2^Width - 2^(Width - bits)
\* network_mask_cpu: ~((1 << (Width - bits)) - 1).
Mask(bits) == IF bits = 0 THEN 0 ELSE 2^Width - 2^(Width - bits)

\* The lines under !cache_initialized; load_incluster_config may fail.
FillCache ==
    /\ pc = "hook" /\ pc' = "cached"
    /\ \E client \in BOOLEAN :
          cache' = IF ValidBits(env.cidr.bits) /\ env.cidr.network # NoAddress
                   THEN [valid |-> TRUE, network |-> env.cidr.network,
                         mask |-> Mask(env.cidr.bits), client |-> client]
                   ELSE [NoCache EXCEPT !.client = client]
    /\ UNCHANGED <<external, host, list, verdict, authorized, nextCalled>>

IsIpInCidr(ip, c) == c.valid /\ ip # NoAddress /\ And(ip, c.mask) = And(c.network, c.mask)

\* The first check that fails.
Reason ==
    IF ~env.instance THEN "no instance"
    ELSE IF ~cache.valid THEN "no cidr"
    ELSE IF host = Local THEN "none"
    ELSE IF ~cache.client THEN "no client"
    ELSE IF ~IsIpInCidr(host, cache) THEN "outside" ELSE "none"

\* ereport(FATAL): the process ends.
Refuse(reason) == pc' = "refused" /\ verdict' = reason /\ UNCHANGED authorized

Check ==
    /\ pc = "cached"
    /\ \/ Reason # "none" /\ Refuse(Reason)
       \/ /\ Reason = "none" /\ UNCHANGED verdict
          /\ pc' = IF host = Local THEN "decided" ELSE "asking"
          /\ authorized' = (host = Local)
    /\ UNCHANGED <<external, host, cache, list, nextCalled>>

\* CoreV1API_listPodForAllNamespaces: no answer, a list without items, which
\* leaves the connection as it is and not authorized, or the pods.
Ask ==
    /\ pc = "asking"
    /\ \/ (\E reason \in {"rbac", "api"} : Refuse(reason)) /\ UNCHANGED list
       \/ pc' = "decided" /\ UNCHANGED <<list, verdict, authorized>>
       \/ pc' = "listed" /\ list' = known /\ UNCHANGED <<verdict, authorized>>
    /\ UNCHANGED <<external, host, cache, nextCalled>>

\* Mutant: the annotation is looked for in all the pods.
AnyMarked(pods, ip) == \E p \in DOMAIN pods : pods[p].mark = "true"
\* The first pod with the address decides.
Marked(pods, ip) ==
    \E p \in DOMAIN pods :
       /\ pods[p] = [ip |-> ip, mark |-> "true"]
       /\ \A q \in 1..(p - 1) : pods[q].ip # ip

Decide ==
    /\ pc = "listed"
    /\ \/ Marked(list, host) /\ pc' = "decided" /\ authorized' = TRUE /\ UNCHANGED verdict
       \/ ~Marked(list, host) /\ Refuse("unmarked")
    /\ UNCHANGED <<external, host, cache, list, nextCalled>>

\* Mutant: the next hook runs whenever this one returns.
Always == TRUE
Chained == authorized
\* The hook registered before this one, if there is one; then the hook returns.
CallNext ==
    /\ pc = "decided" /\ pc' = "returned"
    /\ nextCalled' = Chained
    /\ UNCHANGED <<external, host, cache, list, verdict, authorized>>

Next == Change \/ Sync \/ Connect \/ FillCache \/ Check \/ Ask \/ Decide \/ CallNext
Spec == Init /\ [][Next]_vars

-----------------------------------------------------------------------------
\* The types; a mask and a network are addresses, whatever the bits given.
TypeOK ==
    /\ pc \in {"start", "hook", "cached", "asking", "listed", "decided", "returned", "refused"}
    /\ {cluster, known, list} \subseteq [1..PodCount -> Pods]
    /\ cache.mask \in Addresses /\ cache.network \in Addresses
    /\ verdict \in Refusals \cup {"none"}

\* The API is asked about the addresses that share the first bits of the
\* CIDR's, and only these; a client is told that it is outside only when it
\* is.  The mask arithmetic of lines 43 and 66-71, from 0 to Width bits.
Inside == host \in Addresses /\ env.cidr # NoCidr /\ env.cidr.bits \in 0..Width
          /\ LET size == 2^(Width - env.cidr.bits) IN host \div size = env.cidr.network \div size
CidrExact ==
    /\ pc \in {"asking", "listed"} => Inside
    /\ verdict = "outside" => ~Inside

\* A remote connection is authorized only if its address belonged to an
\* annotated pod at some time, however late the API's cache is and whatever
\* other pods have the address (lines 123-151).
VerifiedByPod == authorized => host = Local \/ (Inside /\ host \in marked)

\* The hook that was there before runs for the connections this one has
\* authorized; the only others that return are those the API had no list for
\* (lines 119 and 170-172).
ChainOnlyAuthorized ==
    pc = "returned" => IF nextCalled THEN host = Local \/ host \in marked
                       ELSE list = NoPods /\ Inside
=============================================================================
