----------------------------- MODULE ServiceMap -----------------------------
(***************************************************************************)
(* What one discovery reads out of a cluster (topology.go): which workload *)
(* or host an address names, and which dependencies the declarations of a  *)
(* cluster amount to.                                                      *)
(*                                                                         *)
(* A cluster is a record of sets: workloads with the values that configure *)
(* them, services, config maps, ingresses, network policies, virtual       *)
(* services, the labels of its namespaces, and the listings that succeed.  *)
(* An address found in a value is already split (extractCandidates' string *)
(* work): its host, its port and whether it had a scheme.  Protocols,      *)
(* evidence texts and the looks of a node are left out.                    *)
(***************************************************************************)
EXTENDS Naturals, FiniteSets, FiniteSetsExt

CONSTANTS
    CommonTLDs,  \* the namespaces that are also well-known top-level domains, as dev is
    MaxPeers     \* maxPeers

Node(ns, kind, name) == [ns |-> ns, kind |-> kind, name |-> name]
External(host) == Node("", "External", host)
Edge(src, dst, port, source, confidence) ==
    [src |-> src, dst |-> dst, port |-> port, source |-> source, confidence |-> confidence]
EdgeKey(e) == <<e.src, e.dst, e.port, e.source>>

(* Hosts by the shape of their name: a word; name.namespace; that with svc  *)
(* behind it; an address; a loopback name; a domain of a common TLD, or of  *)
(* none ("dotted"); a dotted text that is no name.                          *)
Host(form, name, ns) == [form |-> form, name |-> name, ns |-> ns]
HostForms == {"word", "qualified", "svc", "ip", "loopback", "domain", "dotted", "noise"}

(* What a cluster holds: workloads of the kinds that are listed; and of what *)
(* is written in their values and in ConfigMaps, a word without a namespace. *)
WorkloadKinds == {"Deployment", "StatefulSet", "DaemonSet", "CronJob"}
NoNamespace == ""
IsHost(h) == h = Host(h.form, h.name, h.ns) /\ (h.form = "word" => h.ns = NoNamespace)
WellFormed(k) ==
    /\ \A w \in k.workloads :
         /\ w.node.kind \in WorkloadKinds
         /\ \A v \in w.values : "hosts" \in DOMAIN v /\ \A c \in v.hosts : IsHost(c.host)
    /\ \A m \in k.maps : \A c \in m.hosts : IsHost(c.host)

-----------------------------------------------------------------------------
(* Selectors are sets of labels; the empty one of a Service selects nothing,*)
(* that of a policy everything.                                             *)
matchWorkloads(k, selector, ns) ==
    {w.node : w \in {w \in k.workloads : /\ selector # {} /\ w.labels # {} /\ w.node.ns = ns
                                         /\ selector \subseteq w.labels}}
matchLabelSelector(k, selector, namespaces) ==
    {w.node : w \in {w \in k.workloads : w.node.ns \in namespaces /\ selector \subseteq w.labels}}

(* What is behind a Service: the host it points to, its workloads, or the   *)
(* Service itself when it selects nothing.                                  *)
Backing(k, s) ==
    LET selected == matchWorkloads(k, s.selector, s.ns)
    IN  IF s.external # "" THEN {External(s.external)}
        ELSE IF selected # {} THEN selected
        ELSE {Node(s.ns, "Service", s.name)}

(* The names under which indexServices registers a Service for everybody;   *)
(* its bare name is registered for its own namespace alone.                 *)
FullNames(s) ==
    {Host("qualified", s.name, s.ns), Host("svc", s.name, s.ns)}
      \cup (IF s.ip # "" THEN {Host("ip", s.ip, "")} ELSE {})

byHost(k, h) == UNION {Backing(k, s) : s \in {s \in k.services : h \in FullNames(s)}}
\* As if the namespace were not part of the key.
byBareNameAnywhere(k, name, ns) ==
    UNION {Backing(k, s) : s \in {s \in k.services : s.name = name}}
byBareName(k, name, ns) ==
    UNION {Backing(k, s) : s \in {s \in k.services : s.name = name /\ s.ns = ns}}

(* Outside the cluster a name has to look like one: addressed says that it  *)
(* came with a scheme or a port.                                            *)
isPlausibleExternalHost(h) == h.form \in {"qualified", "ip", "domain", "dotted"}
LooksReal(h) ==
    \/ h.form \in {"ip", "domain"}
    \/ h.form = "qualified" /\ h.ns \in CommonTLDs

resolveHost(k, h, callerNS, addressed) ==
    LET inside == IF h.form = "word" THEN byBareName(k, h.name, callerNS) ELSE byHost(k, h)
    IN  {[to |-> n, confidence |-> "high"] : n \in inside}
          \cup {[to |-> External(h.name), confidence |-> "medium"] :
                  x \in {x \in {h} : /\ inside = {} /\ isPlausibleExternalHost(h)
                                     /\ addressed \/ LooksReal(h)}}

-----------------------------------------------------------------------------
(* The values that configure a workload; those of a ConfigMap are read from *)
(* it, if the ConfigMaps could be listed.                                   *)
Literal(v) == v.map = ""
ValuesOf(k, w) ==
    {v \in w.values : Literal(v)}
      \cup UNION {{[v EXCEPT !.hosts = m.hosts] :
                      m \in {m \in k.maps : m.ns = w.node.ns /\ m.name = v.map}} :
                   v \in {v \in w.values : ~Literal(v) /\ "configmaps" \in k.listed}}

(* A bare word is taken for a name only under a key that looks like one.    *)
Addressed(c) == c.port # "" \/ c.scheme
extractCandidates(v) == {c \in v.hosts : Addressed(c) \/ c.host.form = "svc" \/ v.hostish}

scanValue(k, src, v) ==
    UNION {{Edge(src, r.to, c.port, v.source, r.confidence) :
              r \in {r \in resolveHost(k, c.host, src.ns, Addressed(c)) : r.to # src}} :
            c \in extractCandidates(v)}

edgesFromConfig(k) ==
    UNION {UNION {scanValue(k, w.node, v) : v \in ValuesOf(k, w)} : w \in k.workloads}

(* What an Ingress lets in; its backends are named in its own namespace.    *)
IngressNode(i) == Node(i.ns, "Ingress", i.name)
edgesFromIngress(k) ==
    UNION {UNION {{Edge(IngressNode(i), n, b.port, "ingress", "high") :
                     n \in byBareName(k, b.service, i.ns)} : b \in i.backends} :
            i \in {i \in k.ingresses : "ingresses" \in k.listed}}

(* Virtual services bound to a gateway.                                     *)
edgesFromIstio(k) ==
    UNION {UNION {{Edge(IngressNode(v), r.to, d.port, "istio", r.confidence) :
                     r \in {r \in resolveHost(k, d.host, v.ns, TRUE) : r.to # IngressNode(v)}} :
                   d \in v.routes} :
            v \in {v \in k.virtualServices : v.gateways # {} /\ "istio" \in k.listed}}

(* A policy's peers: neither address blocks nor everybody.  Selecting more  *)
(* than MaxPeers, of whom two peers of a rule may each select the same, is  *)
(* a blanket and not a dependency.                                          *)
NamespacesMatching(k, p, own) ==
    IF p.ownNamespace THEN {own}
    ELSE {n.name : n \in {n \in k.namespaces : "namespaces" \in k.listed
                                               /\ p.namespaceLabels \subseteq n.labels}}
PeersOf(k, np, p) ==
    IF p.block \/ (p.ownNamespace /\ p.anyPod) THEN {}
    ELSE matchLabelSelector(k, p.podLabels, NamespacesMatching(k, p, np.ns))
Telling(n) == n \in 1..MaxPeers

edgesOfRule(k, np, rule) ==
    LET owners == matchLabelSelector(k, np.podLabels, {np.ns})
        peers == UNION {PeersOf(k, np, p) : p \in rule.peers}
        selected == MapThenSumSet(LAMBDA p : Cardinality(PeersOf(k, np, p)), rule.peers)
        pairs == IF rule.egress THEN owners \X peers ELSE peers \X owners
    IN  {Edge(e[1][1], e[1][2], e[2], "networkpolicy", "low") :
            e \in {e \in pairs \X rule.ports :
                     Telling(Cardinality(owners)) /\ Telling(selected) /\ e[1][1] # e[1][2]}}
edgesFromNetworkPolicies(k) ==
    UNION {UNION {edgesOfRule(k, np, rule) : rule \in np.rules} :
            np \in {np \in k.policies : "policies" \in k.listed}}

(* Of the declarations of one edge the strongest is kept.                   *)
confidenceRank == [low |-> 1, medium |-> 2, high |-> 3]
dedupeEdges(E) ==
    {e \in E : \A f \in E :
        EdgeKey(f) = EdgeKey(e) => confidenceRank[f.confidence] <= confidenceRank[e.confidence]}
\* Whatever is found last.
dedupeEdgesWeakest(E) ==
    {e \in E : \A f \in E :
        EdgeKey(f) = EdgeKey(e) => confidenceRank[f.confidence] >= confidenceRank[e.confidence]}

(* The map of a cluster; nothing if the workloads or the Services cannot be *)
(* listed, which fails the whole pass.                                      *)
Discoverable(k) == {"workloads", "services"} \subseteq k.listed
discoverTopology(k) ==
    LET edges == edgesFromConfig(k) \cup edgesFromIngress(k)
                   \cup edgesFromNetworkPolicies(k) \cup edgesFromIstio(k)
    IN  [nodes |-> {w.node : w \in k.workloads}
                     \cup (UNION {Backing(k, s) : s \in k.services})
                     \cup {IngressNode(i) : i \in {i \in k.ingresses : "ingresses" \in k.listed}}
                     \cup {IngressNode(v) : v \in {v \in k.virtualServices :
                                                     v.gateways # {} /\ "istio" \in k.listed}}
                     \cup {e.dst : e \in edges},
         edges |-> dedupeEdges(edges)]

-----------------------------------------------------------------------------
(* A Service as a workload can name it: by its bare name only from its own  *)
(* namespace, "exactly as the pod's DNS search path would have it".         *)
Names(w, h, s) ==
    \/ h = Host("word", s.name, NoNamespace) /\ s.ns = w.node.ns
    \/ h \in FullNames(s)
Configured == {"env", "configmap", "mount"}

(* topology.go:146, "Inventing an edge to a same-named Service elsewhere    *)
(* would be a guess": whatever was deployed and could be listed, an edge    *)
(* into the cluster that configuration declares is a Service its source can *)
(* name, and every such name is an edge, of the best confidence; edges      *)
(* differ in their keys, join nodes of the map and lead somewhere else.     *)
EdgesAreDeclared(k) ==
    LET map == discoverTopology(k)
    IN  /\ \A e \in map.edges : {e.src, e.dst} \subseteq map.nodes /\ e.src # e.dst
        /\ \A e, f \in map.edges : EdgeKey(e) = EdgeKey(f) => e = f
        /\ \A e \in map.edges : e.source \in Configured /\ e.dst.kind # "External" =>
              \E w \in k.workloads, s \in k.services :
                 /\ w.node = e.src /\ e.dst \in Backing(k, s)
                 /\ \E v \in ValuesOf(k, w) : \E c \in v.hosts : Names(w, c.host, s)
        /\ \A w \in k.workloads, s \in k.services : \A v \in ValuesOf(k, w) :
              \A c \in extractCandidates(v) : Names(w, c.host, s) =>
                 \A n \in Backing(k, s) \ {w.node} :
                    Edge(w.node, n, c.port, v.source, "high") \in map.edges
=============================================================================
