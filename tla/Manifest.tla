------------------------------- MODULE Manifest -------------------------------
(***************************************************************************)
(* The desired state, as normalizeManifest (src/config.js) accepts it, and *)
(* the decisions that src/http-policy.js compiles from it.  Operators on a *)
(* manifest; there is no state.                                            *)
(*                                                                         *)
(* Listeners and upstreams must be at 127.0.0.1 and name their port, so    *)
(* that each is a port here.  Hosts, paths and methods are normalized.  A  *)
(* service claims pairs of a method and a path.  Profiles, token sets and  *)
(* limits are left out.  services is in the order of the ids, which is the *)
(* order of the normalized manifest.                                       *)
(***************************************************************************)
EXTENDS Naturals, Sequences

CONSTANTS Id, Host, Method, Path,
          Absent       \* what is undefined

Port == 1 .. 65535
Claim == Method \X Path

Service == [id : Id, exposure : {"public", "private"}, domains : SUBSET Host,
            claims : SUBSET Claim, upstream : Port, listen : Port, target : Port,
            health : Path \cup {Absent}]

RawManifest ==
    [services : Seq(Service),
     gateway : Port, http : Port, https : Port, ssh : Port,
     compat : Port \cup {Absent}, compatService : Id \cup {Absent},
     private : Seq([service : Id, port : Port]),
     sites : Seq([host : Host, port : Port])]

Distinct(seq) == \A i, j \in DOMAIN seq : seq[i] = seq[j] => i = j

(***************************************************************************)
(* What normalizeManifest accepts                                          *)
(***************************************************************************)
ServiceOk(s) ==
    /\ s.claims # {}
    /\ (s.exposure = "public") = (s.domains # {})
    /\ \A c \in s.claims : c[2] # s.health

\* No two services claim one method and path of one host.
ClaimsOk(m) ==
    \A i, j \in DOMAIN m.services :
        i # j => \/ m.services[i].domains \cap m.services[j].domains = {}
                 \/ m.services[i].claims \cap m.services[j].claims = {}

ServicesOk(m) ==
    /\ m.services # <<>>
    /\ \A i \in DOMAIN m.services : ServiceOk(m.services[i])
    /\ Distinct([i \in DOMAIN m.services |-> m.services[i].id])
    /\ Distinct([i \in DOMAIN m.services |-> m.services[i].listen])
    /\ Distinct([i \in DOMAIN m.services |-> m.services[i].upstream])
    /\ ClaimsOk(m)

\* The one service of a manifest need not be named.
Selected(m) ==
    IF m.compatService # Absent THEN m.compatService
    ELSE IF Len(m.services) = 1 THEN m.services[1].id ELSE Absent

CompatOk(m) ==
    IF m.compat = Absent THEN m.compatService = Absent
    ELSE \E i \in DOMAIN m.services :
            m.services[i].id = Selected(m) /\ m.services[i].exposure = "public"

\* Private services and private listeners correspond.
PrivateOk(m) ==
    /\ Distinct([k \in DOMAIN m.private |-> m.private[k].service])
    /\ \A k \in DOMAIN m.private : \E i \in DOMAIN m.services :
          m.services[i].id = m.private[k].service /\ m.services[i].exposure = "private"
    /\ \A i \in DOMAIN m.services : m.services[i].exposure = "private" =>
          \E k \in DOMAIN m.private : m.private[k].service = m.services[i].id

\* All that binds a port of the edge, with its number in the list it is from.
EdgeBinders(m) ==
    {<<"gateway", 0, m.gateway>>, <<"http", 0, m.http>>, <<"https", 0, m.https>>, <<"ssh", 0, m.ssh>>}
        \cup (IF m.compat = Absent THEN {} ELSE {<<"compat", 0, m.compat>>})
        \cup {<<"private", k, m.private[k].port>> : k \in DOMAIN m.private}
        \cup {<<"upstream", i, m.services[i].upstream>> : i \in DOMAIN m.services}

PortsOk(m) ==
    /\ \A b1, b2 \in EdgeBinders(m) : b1[3] = b2[3] => b1 = b2
    /\ \A k \in DOMAIN m.sites : \A b \in EdgeBinders(m) : m.sites[k].port # b[3]
    /\ \A i, j \in DOMAIN m.services : m.services[i].target # m.services[j].listen

SitesOk(m) ==
    /\ Distinct([k \in DOMAIN m.sites |-> m.sites[k].host])
    /\ \A k \in DOMAIN m.sites, i \in DOMAIN m.services : m.sites[k].host \notin m.services[i].domains

Accepted(m) ==
    ServicesOk(m) /\ CompatOk(m) /\ PrivateOk(m) /\ PortsOk(m) /\ SitesOk(m)

(***************************************************************************)
(* The policies                                                            *)
(***************************************************************************)
\* The numbers of the services that claim a request.
Claimants(m, host, method, path) ==
    {i \in DOMAIN m.services : /\ m.services[i].exposure = "public"
                               /\ host \in m.services[i].domains
                               /\ <<method, path>> \in m.services[i].claims}

\* In the map of compileHttpPolicy a later claim replaces an earlier one.
EdgeService(m, host, method, path) ==
    CHOOSE i \in Claimants(m, host, method, path) :
        \A j \in Claimants(m, host, method, path) : j <= i

EdgeReason(m, host, method, path) ==
    IF Claimants(m, host, method, path) # {} THEN "exact-claim"
    ELSE IF \E i \in DOMAIN m.services : /\ m.services[i].exposure = "public"
                                         /\ host \in m.services[i].domains
         THEN "route-not-allowed" ELSE "host-not-allowed"

WorkerReason(s, method, path) ==
    IF <<method, path>> \in s.claims THEN "exact-claim"
    ELSE IF method = "GET" /\ path = s.health THEN "private-health"
    ELSE "route-not-allowed"
=============================================================================
