---------------------------- MODULE MCRemediation ----------------------------
(***************************************************************************)
(* Objects for Remediation and PostureRules: workloads that fail most      *)
(* rules, spelled in more than one way; one that fails few; roles that     *)
(* grant in every form; a binding; a namespace.                            *)
(***************************************************************************)
EXTENDS PostureRules

NoLabel == [type |-> "", user |-> "", role |-> ""]
Pinned == [digest |-> FALSE, tag |-> "1", port |-> FALSE]
Container(name) ==
    [name |-> name, init |-> FALSE, image |-> Pinned, privileged |-> "unset", escalation |-> "unset",
     add |-> {}, drop |-> {}, uid |-> "unset", nonRoot |-> "unset", readOnly |-> "unset",
     seccomp |-> "unset", seLinux |-> NoLabel, procMount |-> "unset", apparmor |-> "unset",
     ports |-> <<>>, env |-> {}, envFrom |-> {}, limits |-> {}, requests |-> {},
     liveness |-> FALSE, readiness |-> FALSE, fetches |-> FALSE]
Workload(kind, containers) ==
    [kind |-> kind, ns |-> "shop", name |-> "api", labels |-> {}, longRunning |-> kind # "CronJob",
     hostNetwork |-> FALSE, hostPID |-> FALSE, hostIPC |-> FALSE, hostPaths |-> {},
     uid |-> "unset", nonRoot |-> "unset", seccomp |-> "unset", seLinux |-> NoLabel,
     automount |-> "unset", serviceAccount |-> "", containers |-> containers]
Path(parts) == [parts |-> parts, tidy |-> TRUE]
Port(port, host) == [port |-> port, host |-> host]

Bad ==
    [Workload("Deployment",
       {[Container("init") EXCEPT !.init = TRUE],
        [Container("app") EXCEPT !.privileged = "true", !.escalation = "true", !.uid = "0",
            !.procMount = "Unmasked", !.apparmor = "unconfined", !.ports = <<Port(80, TRUE)>>,
            !.add = {"NET_RAW", "SYS_ADMIN", "NET_BIND_SERVICE"},
            !.seLinux = [NoLabel EXCEPT !.type = "spc_t"]]})
     EXCEPT !.hostNetwork = TRUE, !.hostPID = TRUE, !.hostIPC = TRUE, !.seccomp = "Unconfined",
            !.hostPaths = {Path(<<"etc">>)}]
Odd ==
    [Workload("CronJob",
       {[Container("app") EXCEPT !.escalation = "true", !.add = {"cap_net_raw", "CAP_SYS_ADMIN"},
            !.drop = {"CAP_ALL"}, !.nonRoot = "false", !.seccomp = "Localhost", !.readOnly = "false",
            !.image = [Pinned EXCEPT !.tag = "", !.port = TRUE],
            !.ports = <<Port(53, TRUE), Port(53, TRUE), Port(80, TRUE)>>, !.env = {"db"}],
        [Container("side") EXCEPT !.uid = "0", !.image = [Pinned EXCEPT !.tag = "latest"]]})
     EXCEPT !.nonRoot = "true", !.hostPaths = {Path(<<"var", "run">>), Path(<<"data">>),
                                               [Path(<<"etc">>) EXCEPT !.tidy = FALSE]},
            !.seLinux = [NoLabel EXCEPT !.user = "root"], !.automount = "true"]
\* Fails because of the pod's own user, whatever its containers say.
Root == [Workload("StatefulSet", {[Container("app") EXCEPT !.drop = {"all"}, !.escalation = "false"]})
         EXCEPT !.uid = "0", !.serviceAccount = "api"]
Tidy == [Workload("Deployment",
           {[Container("app") EXCEPT !.escalation = "false", !.drop = {"ALL"}, !.uid = "1000",
                !.readOnly = "true", !.limits = {"cpu", "memory"}, !.requests = {"cpu", "memory"},
                !.liveness = TRUE, !.readiness = TRUE]})
         EXCEPT !.seccomp = "RuntimeDefault"]
Addon == [Bad EXCEPT !.ns = "kube-system", !.labels = {"app"}]

Rule(groups, resources, verbs) ==
    [groups |-> groups, resources |-> resources, verbs |-> verbs, names |-> {}, urls |-> {}]
URLs(urls, verbs) == [Rule({}, {}, verbs) EXCEPT !.urls = urls]
Role(rules) == [kind |-> "Role", rules |-> rules, aggregated |-> FALSE]
Reader == Role({Rule({""}, {"secrets", "configmaps"}, {"*"}), Rule({"apps"}, {"deployments"}, {"get", "create"}),
                [Rule({""}, {"secrets"}, {"get"}) EXCEPT !.names = {"token"}]})
Approver == Role({Rule({"certificates.k8s.io"}, {"certificatesigningrequests/approval", "signers"},
                       {"update", "approve"}),
                  Rule({"", "rbac.authorization.k8s.io"}, {"users", "roles"}, {"get", "impersonate", "bind"})})
Debugger == [Role({URLs({"/healthz", "/metrics"}, {"get", "post"}), URLs({"/version"}, {"post"}),
                   Rule({""}, {"nodes/proxy", "nodes"}, {"get", "list"})}) EXCEPT !.kind = "ClusterRole"]
Anything == Role({Rule({"*"}, {"*"}, {"get"}), Rule({""}, {"pods", "persistentvolumes"}, {"create", "get"}),
                  [Rule({""}, {"pods"}, {"*"}) EXCEPT !.names = {"web"}]})
Aggregated == [Reader EXCEPT !.kind = "ClusterRole", !.aggregated = TRUE]

Subject(kind, name, system) == [kind |-> kind, ns |-> "shop", name |-> name, system |-> system]
Binding == [kind |-> "RoleBinding", present |-> TRUE, role |-> "cluster-admin",
            subjects |-> {Subject("User", "ann", FALSE), Subject("Group", "system:authenticated", TRUE)}]
Policy == [name |-> "web", anyPod |-> FALSE, types |-> {}, ingress |-> {"pods"}]
Open == [kind |-> "Namespace", policies |-> {}]

\* Rules a workload has a fix of, one of each form; the namespace's; and rules of roles
\* and bindings, one of each form.
AskedRules ==
    {"WL-001", "WL-002", "WL-003", "WL-009", "WL-010", "WL-011", "WL-013", "WL-015", "WL-016",
     "WL-018", "WL-022", "WL-024", "WL-025", "WL-026", "WL-027"}
    \cup {"NET-001", "RBAC-001", "RBAC-003", "RBAC-004", "RBAC-006", "RBAC-007", "RBAC-008", "RBAC-010"}
AllObjects == {Bad, Odd, Root, Tidy, Addon, Reader, Approver, Debugger, Anything, Aggregated, Binding, Open}
Later == {[Bad EXCEPT !.containers = {c \in @ : ~c.init}], Tidy, Reader, [Open EXCEPT !.policies = {Policy}]}
=============================================================================
