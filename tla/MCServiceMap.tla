---------------------------- MODULE MCServiceMap ----------------------------
(***************************************************************************)
(* Clusters for ServiceMap and Topology: two namespaces with a database of *)
(* the same name each, one of them named like a top-level domain.          *)
(***************************************************************************)
EXTENDS ServiceMap

Address(h, port, scheme) == [host |-> h, port |-> port, scheme |-> scheme]
Word(name) == Host("word", name, "")
Value(source, hostish, hosts) == [source |-> source, hostish |-> hostish, hosts |-> hosts, map |-> ""]
Mapped(source, hostish, map) == [source |-> source, hostish |-> hostish, hosts |-> {}, map |-> map]
Workload(ns, name, values) ==
    [node |-> Node(ns, "Deployment", name), labels |-> {name}, values |-> values]
Service(ns, name, external, ip) ==
    [ns |-> ns, name |-> name, external |-> external, ip |-> ip,
     selector |-> IF external = "" THEN {name} ELSE {}]

(* A program that names what it calls in every way there is; another that   *)
(* has the bare name alone; the databases, one of which names itself.       *)
Api == Workload("shop", "api",
    {Value("env", TRUE, {Address(Word("db"), "", FALSE), Address(Word("vendor"), "", FALSE),
                         Address(Host("domain", "vendor.io", ""), "", FALSE)}),
     Value("env", FALSE, {Address(Host("qualified", "db", "dev"), "", TRUE),
                          Address(Word("cache"), "", FALSE),
                          Address(Host("loopback", "localhost", ""), "80", TRUE)}),
     Mapped("configmap", TRUE, "conf"), Mapped("mount", FALSE, "conf")})
Job == Workload("dev", "job",
    {Value("env", TRUE, {Address(Word("vendor"), "", FALSE),
                         Address(Host("qualified", "db", "shop"), "", FALSE),
                         Address(Host("dotted", "log.level", ""), "", FALSE)}),
     Value("env", FALSE, {Address(Host("ip", "10.0.0.7", ""), "5432", FALSE)})})
ShopDb == Workload("shop", "db", {Value("env", TRUE, {Address(Word("db"), "", FALSE)})})
DevDb == Workload("dev", "db", {})
Conf == [ns |-> "shop", name |-> "conf",
         hosts |-> {Address(Word("cache"), "", FALSE), Address(Host("svc", "db", "dev"), "", FALSE)}]

Everything == {"workloads", "services", "configmaps", "ingresses", "policies", "namespaces", "istio"}
Peer(labels, own, any) ==
    [block |-> FALSE, ownNamespace |-> own, anyPod |-> any, podLabels |-> labels,
     namespaceLabels |-> {}]
Full ==
    [workloads |-> {Api, Job, ShopDb, DevDb},
     services |-> {Service("shop", "db", "", "10.0.0.7"), Service("dev", "db", "", ""),
                   Service("shop", "vendor", "vendor.io", "")},
     maps |-> {Conf},
     ingresses |-> {[ns |-> "shop", name |-> "front", backends |-> {[service |-> "db", port |-> "80"]}]},
     policies |-> {[ns |-> "shop", podLabels |-> {"db"},
                    rules |-> {[egress |-> FALSE, ports |-> {""},
                                peers |-> {Peer({"api"}, TRUE, FALSE), Peer({"job"}, FALSE, FALSE)}],
                               [egress |-> TRUE, ports |-> {""},
                                peers |-> {Peer({}, FALSE, TRUE), Peer({}, TRUE, TRUE)}]}]},
     virtualServices |-> {[ns |-> "shop", name |-> "mesh", gateways |-> {"gw"},
                           routes |-> {[host |-> Host("svc", "db", "dev"), port |-> "5432"]}]},
     namespaces |-> {[name |-> "shop", labels |-> {}], [name |-> "dev", labels |-> {}]},
     listed |-> Everything]

(* Any of the workloads, any of the Services, and listings that fail.       *)
AllClusters ==
    {[Full EXCEPT !.workloads = W, !.services = S, !.listed = L] :
        W \in SUBSET Full.workloads, S \in SUBSET Full.services,
        L \in {Everything, {"workloads", "services"}, Everything \ {"namespaces"}}}

(* Before and after the program that depends on something is removed.       *)
Small ==
    [Full EXCEPT !.workloads = {[Api EXCEPT !.values = {Value("env", TRUE,
                                    {Address(Host("domain", "vendor.io", ""), "", FALSE)})}]},
                 !.services = {}, !.ingresses = {}, !.policies = {}, !.virtualServices = {}]
Smaller == [Small EXCEPT !.workloads = {}]
=============================================================================
