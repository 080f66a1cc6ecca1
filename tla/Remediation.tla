----------------------------- MODULE Remediation -----------------------------
(***************************************************************************)
(* How to fix a failing rule (posture_remediation.go): from the object as  *)
(* it is now the backend writes the commands that fix it and checks the    *)
(* rule on a fixed copy.  Somebody runs the commands later, perhaps after  *)
(* those of another fix or after a new version of the object.              *)
(*                                                                         *)
(* One object of a cluster.  What the fixes warn of is left out, and so    *)
(* are the commands that only look: backups, the wait for a rollout.       *)
(***************************************************************************)
EXTENDS PostureRules, Naturals
CONSTANTS
    Objects,     \* what the object may be at first
    Versions,    \* what may be rolled out over it, or synced by its owner
    FirstAccounts, \* what a service account says of its token, at first
    Rules,       \* what a fix may be asked of: rules the object fails, and others
    Slots,       \* fixes somebody holds at once
    MaxFixes,    \* bound: fixes asked for
    MaxRollouts  \* bound: new versions

WorkloadKinds == {"Deployment", "StatefulSet", "DaemonSet", "CronJob", "Job", "Pod"}
RoleKinds == {"Role", "ClusterRole"}

(* What the cluster's own validation lets be stored: of a workload, each    *)
(* container under its own name; of a role, a rule about URLs about no      *)
(* resource beside them.                                                    *)
IsRecord(r, fields) == DOMAIN r = fields /\ r = [f \in fields |-> r[f]]
ContainerFields ==
    {"name", "init", "image", "privileged", "escalation", "add", "drop", "uid", "nonRoot", "readOnly",
     "seccomp", "seLinux", "procMount", "apparmor", "ports", "env", "envFrom", "limits", "requests",
     "liveness", "readiness", "fetches"}
IsContainer(c) ==
    /\ IsRecord(c, ContainerFields)
    /\ DOMAIN c.ports \subseteq Nat /\ \A i \in DOMAIN c.ports : 1..i \subseteq DOMAIN c.ports
    /\ \A i \in DOMAIN c.ports : DOMAIN c.ports[i] = {"port", "host"} /\ c.ports[i].host \in BOOLEAN
WorkloadFields ==
    {"kind", "ns", "name", "labels", "longRunning", "hostNetwork", "hostPID", "hostIPC", "hostPaths",
     "uid", "nonRoot", "seccomp", "seLinux", "automount", "serviceAccount", "containers"}
IsWorkload(w) ==
    /\ IsRecord(w, WorkloadFields)
    /\ w.name # "" /\ w.automount \in {"unset", "true", "false"}
    /\ \A c \in w.containers : IsContainer(c)
    /\ \A c, d \in w.containers : c.name = d.name => c = d
IsRule(r) ==
    /\ IsRecord(r, {"groups", "resources", "verbs", "names", "urls"})
    /\ r.urls = {} \/ r.resources = {}
IsObject(o) ==
    CASE o.kind \in WorkloadKinds -> IsWorkload(o)
      [] o.kind \in RoleKinds ->
            IsRecord(o, {"kind", "rules", "aggregated"}) /\ \A r \in o.rules : IsRule(r)
      [] o.kind = "Namespace" -> IsRecord(o, {"kind", "policies"})
      [] OTHER -> IsRecord(o, {"kind", "present", "role", "subjects"})
RemediationBounds ==
    /\ \A o \in Objects \cup Versions : IsObject(o)
    /\ MaxFixes \in Nat /\ MaxRollouts \in Nat

VARIABLES
    object,    \* the object in the cluster
    accounts,  \* the namespace's service accounts
    advice,    \* each slot: no fix, or one with the object it was made from
    asked, rollouts
vars == <<object, accounts, advice, asked, rollouts>>

FailedRules(o, as) ==
    CASE o.kind \in WorkloadKinds -> WorkloadRules(o, as)
      [] o.kind \in RoleKinds -> RoleRules(o.rules)
      [] o.kind = "Namespace" -> NamespaceRules(o.policies)
      [] OTHER -> IF o.present THEN BindingRules(o) ELSE {}

Init ==
    /\ object \in Objects
    /\ accounts \in FirstAccounts
    /\ advice = [s \in Slots |-> <<>>]
    /\ asked = 0 /\ rollouts = 0

-----------------------------------------------------------------------------
(* Workloads.  A fix is the fields it sets: those of the pod, of each of    *)
(* its containers, their AppArmor annotations among them.  The code writes   *)
(* each into a copy of the spec and, with the same value, into a merge patch. *)

NoOptions == [type |-> "", user |-> "", role |-> ""]
Set(fields, record) ==
    [f \in DOMAIN record |-> IF f \in DOMAIN fields THEN fields[f] ELSE record[f]]
Nothing == <<>>
When(needed, fields) == IF needed THEN fields ELSE Nothing

KeptCaps(c) == {a \in c.add : CapName(a) \in baselineCapabilities}
DropsRaw(c) == CapNames(c.drop) \cap {"NET_RAW", "ALL"} # {}
WithoutRaw(c) ==
    [drop |-> c.drop \cup IF DropsRaw(c) THEN {} ELSE {"NET_RAW"},
     add |-> {a \in c.add : CapName(a) \notin {"NET_RAW", "ALL"}}]
NonRootUser(c) ==
    LET changes == [uid |-> "10001", nonRoot |-> "true"]
    IN  [f \in {g \in {"uid", "nonRoot"} : c[g] = IF g = "uid" THEN "0" ELSE "false"} |-> changes[f]]
ContainerFix(rule, c) ==
    CASE rule = "WL-001" -> When(c.privileged = "true", [privileged |-> "false"])
      [] rule = "WL-003" -> When(c.escalation # "false", [escalation |-> "false"])
      [] rule = "WL-009" -> When(c.drop \cap {"ALL", "all"} = {},
                                 [drop |-> c.drop \cup {"ALL"}, add |-> c.add])
      [] rule = "WL-022" -> When(KeptCaps(c) # c.add, [drop |-> c.drop, add |-> KeptCaps(c)])
      [] rule = "WL-024" ->
            IF c.privileged = "true"
            THEN [privileged |-> "false", drop |-> WithoutRaw(c).drop, add |-> WithoutRaw(c).add]
            ELSE When(Set(WithoutRaw(c), c) # c, WithoutRaw(c))
      [] rule = "WL-010" -> NonRootUser(c)
      [] rule = "WL-011" -> When(c.readOnly # "true", [readOnly |-> "true"])
      [] rule = "WL-013" -> When(c.seccomp = "Unconfined", [seccomp |-> "RuntimeDefault"])
      [] rule = "WL-025" -> When(seLinuxViolation(c.seLinux), [seLinux |-> NoOptions])
      [] rule = "WL-026" -> When(c.apparmor \notin {"unset", "runtime/default", "localhost/custom"},
                                 [apparmor |-> "runtime/default"])
      [] rule = "WL-027" -> When(c.procMount \notin {"unset", "Default"}, [procMount |-> "unset"])
      [] OTHER -> Nothing

PodFix(rule, w) ==
    CASE rule = "WL-002" -> [hostNetwork |-> FALSE]
      [] rule = "WL-004" -> [hostPID |-> FALSE]
      [] rule = "WL-005" -> [hostIPC |-> FALSE]
      [] rule = "WL-010" -> [nonRoot |-> "true"]
      [] rule = "WL-013" -> [seccomp |-> "RuntimeDefault"]
      [] rule = "WL-016" -> [automount |-> "false"]
      [] rule = "WL-018" -> [serviceAccount |-> w.name]
      [] rule = "WL-025" -> When(seLinuxViolation(w.seLinux), [seLinux |-> NoOptions])
      [] OTHER -> Nothing

Fixable ==
    {"WL-001", "WL-002", "WL-003", "WL-004", "WL-005", "WL-009", "WL-010", "WL-011", "WL-013",
     "WL-015", "WL-016", "WL-018", "WL-022", "WL-024", "WL-025", "WL-026", "WL-027"}

\* The copy the rule is checked on.
NoHostPort(ports) == [i \in DOMAIN ports |-> [ports[i] EXCEPT !.host = FALSE]]
Fixed(rule, c) ==
    IF rule = "WL-015" THEN [c EXCEPT !.ports = NoHostPort(@)] ELSE Set(ContainerFix(rule, c), c)
FixedCopy(rule, w) ==
    [Set(PodFix(rule, w), w) EXCEPT !.containers = {Fixed(rule, c) : c \in @}]

\* The patch as it is made from w and merged into o, container by container: a
\* list of ports is merged by containerPort, into the first of that number.
Cleared(ports, of) ==
    [i \in DOMAIN ports |->
        [ports[i] EXCEPT !.host = @ /\ \/ \A j \in DOMAIN of : of[j].host => of[j].port # ports[i].port
                                       \/ \E j \in 1..(i - 1) : ports[j].port = ports[i].port]]
Touched(rule, w) ==
    {c \in w.containers : \/ ContainerFix(rule, c) # Nothing
                          \/ rule = "WL-015" /\ \E i \in DOMAIN c.ports : c.ports[i].host}
Merged(rule, w, c) ==
    LET Of == {d \in Touched(rule, w) : d.name = c.name}
        d == CHOOSE d \in Of : TRUE
    IN  IF Of = {} THEN c
        ELSE IF rule = "WL-015" THEN [c EXCEPT !.ports = Cleared(@, d.ports)]
        ELSE Set(ContainerFix(rule, d), c)
Patched(rule, w, o) ==
    [Set(PodFix(rule, w), o) EXCEPT !.containers = {Merged(rule, w, c) : c \in @}]

\* What the cluster accepts: a patch adds no container, and a container may not
\* forbid itself the escalation it has by right.
Accepted(rule, w, o) ==
    /\ rule = "WL-026" \/ \A d \in Touched(rule, w) : \E c \in o.containers : c.name = d.name
    /\ \A c \in Patched(rule, w, o).containers :
          c.escalation = "false" => c.privileged # "true" /\ "CAP_SYS_ADMIN" \notin c.add

-----------------------------------------------------------------------------
(* Roles. *)

expandableVerbs == {"get", "list", "watch", "create", "update", "patch", "delete", "deletecollection"}
passes(rule, rules) == rule \notin RoleRules(rules)

\* One rule of a role without what the catalog's rule objects to.  URLs that stay
\* with get alone, and resources that keep the same verbs, share a rule.
NarrowedURLs(rule, r) ==
    LET Kept == {u \in r.urls : passes(rule, {[r EXCEPT !.urls = {u}]})}
        Read == {u \in r.urls \ Kept : passes(rule, {[r EXCEPT !.urls = {u}, !.verbs = {"get"}]})}
    IN  {[r EXCEPT !.urls = Kept], [r EXCEPT !.urls = Read, !.verbs = {"get"}]}
Verbs(r) == IF "*" \in r.verbs THEN expandableVerbs ELSE r.verbs
KeptVerbs(rule, r, res) ==
    {v \in Verbs(r) : passes(rule, {[r EXCEPT !.resources = {res}, !.verbs = {v}]})}
\* A mutation of NarrowedVerbs: what is kept is written without the names.
NarrowedVerbsUnnamed(rule, r) ==
    {[r EXCEPT !.resources = {res}, !.verbs = KeptVerbs(rule, r, res), !.names = {}] :
        res \in r.resources}
NarrowedVerbs(rule, r) ==
    {[r EXCEPT !.resources = {other \in r.resources :
                                 KeptVerbs(rule, r, other) = KeptVerbs(rule, r, res)},
               !.verbs = KeptVerbs(rule, r, res)] : res \in r.resources}
ByHand(rule, r) ==
    ~passes(rule, {r}) /\ r.urls = {} /\ "*" \in r.groups \cup r.resources
NarrowedRule(rule, r) ==
    IF passes(rule, {r}) \/ ByHand(rule, r) THEN {r}
    ELSE IF r.urls # {} THEN {n \in NarrowedURLs(rule, r) : n.urls # {}}
    ELSE {n \in NarrowedVerbs(rule, r) : n.verbs # {}}
narrowRoleRules(rule, rules) == UNION {NarrowedRule(rule, r) : r \in rules}

-----------------------------------------------------------------------------
(* The fix of a rule for an object as it is made, and each of its commands. *)

Commands(rule, o) ==
    CASE o.kind \in WorkloadKinds \ {"Job", "Pod"} /\ rule \in Fixable ->
            IF rule = "WL-018" THEN <<"account", "patch">> ELSE <<"patch">>
      [] o.kind \in RoleKinds /\ ~o.aggregated -> <<"role">>
      [] o.kind = "RoleBinding" -> <<"unbind">>
      [] o.kind = "Namespace" /\ rule = "NET-001" -> <<"allow", "deny">>
      [] OTHER -> <<>>

Verified(rule, o) ==
    CASE o.kind \in WorkloadKinds -> rule \notin WorkloadRules(FixedCopy(rule, o), <<>>)
      [] o.kind \in RoleKinds ->
            /\ \A r \in o.rules : ~ByHand(rule, r)
            /\ passes(rule, narrowRoleRules(rule, o.rules))
      [] OTHER -> o.kind = "Namespace"

SamePods == [name |-> "allow-same-namespace", anyPod |-> TRUE, types |-> {"Ingress"}, ingress |-> {"pods"}]
DenyAll == [name |-> "default-deny-ingress", anyPod |-> TRUE, types |-> {"Ingress"}, ingress |-> {}]
Applied(policies, p) == {q \in policies : q.name # p.name} \cup {p}

\* What the object o becomes by one command of a fix made from the object `made`.
After(command, rule, made, o) ==
    CASE command = "patch" -> IF Accepted(rule, made, o) THEN Patched(rule, made, o) ELSE o
      [] command = "role" -> [o EXCEPT !.rules = narrowRoleRules(rule, made.rules)]
      [] command = "unbind" -> [o EXCEPT !.present = FALSE]
      [] command = "allow" -> [o EXCEPT !.policies = Applied(@, SamePods)]
      [] command = "deny" -> [o EXCEPT !.policies = Applied(@, DenyAll)]
      [] OTHER -> o

\* GetPostureRemediation: a fix of any rule, whether or not the object fails it.
GetPostureRemediation(s) ==
    /\ advice[s] = <<>> /\ asked < MaxFixes
    /\ \E rule \in Rules :
         /\ Commands(rule, object) # <<>>
         /\ advice' = [advice EXCEPT ![s] = <<[rule |-> rule, made |-> object, next |-> 1]>>]
    /\ asked' = asked + 1
    /\ UNCHANGED <<object, accounts, rollouts>>

\* Somebody runs the next command of a fix.
Runs(s) ==
    /\ advice[s] # <<>>
    /\ LET a == advice[s][1]
           commands == Commands(a.rule, a.made)
       IN  /\ object' = After(commands[a.next], a.rule, a.made, object)
           /\ accounts' = IF commands[a.next] = "account" /\ a.made.name \notin DOMAIN accounts
                          THEN [n \in DOMAIN accounts \cup {a.made.name} |->
                                   IF n = a.made.name THEN "unset" ELSE accounts[n]]
                          ELSE accounts
           /\ advice' = [advice EXCEPT ![s] =
                IF a.next = Len(commands) THEN <<>> ELSE <<[a EXCEPT !.next = @ + 1]>>]
    /\ UNCHANGED <<asked, rollouts>>

RollsOut(o) ==
    /\ rollouts < MaxRollouts /\ o.kind = object.kind /\ o # object
    /\ object' = o
    /\ rollouts' = rollouts + 1
    /\ UNCHANGED <<accounts, advice, asked>>

Next ==
    \/ \E s \in Slots : GetPostureRemediation(s) \/ Runs(s)
    \/ \E o \in Versions : RollsOut(o)
Spec == Init /\ [][Next]_vars

-----------------------------------------------------------------------------
(* What a role lets somebody do: a verb on a resource of a name, or on a URL. *)
OnURL(d) == d.url # ""
Allows(rules, d) ==
    \E r \in rules :
        /\ r.verbs \cap {d.verb, "*"} # {}
        /\ IF OnURL(d) THEN d.url \in r.urls
           ELSE /\ r.groups \cap {d.group, "*"} # {} /\ r.resources \cap {d.resource, "*"} # {}
                /\ r.names = {} \/ d.name \in r.names
Deeds(rules) ==
    LET Of(F(_)) == UNION {F(r) : r \in rules} \cup {"another"}
        verbs == Of(LAMBDA r : r.verbs) \cup expandableVerbs
    IN  [verb : verbs, url : {""}, group : Of(LAMBDA r : r.groups),
         resource : Of(LAMBDA r : r.resources), name : Of(LAMBDA r : r.names)]
        \cup [verb : verbs, url : Of(LAMBDA r : r.urls), group : {""}, resource : {""}, name : {""}]

\* The catalog's rule objects to the deed as one of the role's rules allows it.
ObjectsTo(rule, rules, d) ==
    \E r \in rules :
        /\ Allows({r}, d)
        /\ ~passes(rule, {IF OnURL(d) THEN [r EXCEPT !.urls = {d.url}]
                          ELSE [r EXCEPT !.resources = {d.resource}, !.verbs = {d.verb}]})

(* A narrowed role gives nothing the role did not, but for the reading of a *)
(* URL of discovery, and loses nothing the rule does not object to, but for *)
(* the verbs beyond the usual ones that a "*" stood for.                    *)
NarrowsOnly(rule, rules, narrowed) ==
    \A d \in Deeds(rules) :
        /\ Allows(narrowed, d) =>
              Allows(rules, d) \/ (d.url \in discoveryURL /\ d.verb = "get")
        /\ Allows(rules, d) /\ ~Allows(narrowed, d) =>
              ObjectsTo(rule, rules, d) \/ d.verb \notin expandableVerbs

\* One container has two host ports for one port of its own.
PortTwice(w) ==
    \E c \in w.containers : \E i, j \in DOMAIN c.ports :
        i # j /\ c.ports[i].port = c.ports[j].port
CapabilityRules == {"WL-007", "WL-009", "WL-022", "WL-024"}

AccountRules(a) ==
    IF a.rule # "WL-018" \/ a.made.kind \notin WorkloadKinds THEN {}
    ELSE {"WL-016"} \cup IF a.made.name = "default" THEN {"WL-018"} ELSE {}

(* What the fix in slot s does when its last command has run.  On the       *)
(* object it was made from: a verified fix makes its rule pass unless the   *)
(* cluster refuses it or two of its host ports are one port's, and no rule  *)
(* that passed fails, but that the new service account mounts its token     *)
(* where the default one does not, and is the default one itself where the  *)
(* workload has its name.  On an object that has changed since: beside      *)
(* these, only capabilities, which a patch gives as whole lists, and the    *)
(* rules of a role come back.                                               *)
FixHolds(s) ==
    LET a == advice[s][1]
        commands == Commands(a.rule, a.made)
        expected == IF a.next = 1 THEN a.made ELSE After(commands[1], a.rule, a.made, a.made)
        failed == FailedRules(object, accounts)
        failing == FailedRules(object', accounts')
        workload == object.kind \in WorkloadKinds
    IN  IF object = expected
        THEN /\ \/ ~Verified(a.rule, a.made) \/ a.rule \notin failing
                \/ workload /\ ~Accepted(a.rule, a.made, object)
                \/ workload /\ a.rule = "WL-015" /\ PortTwice(object)
             /\ failing \ failed \subseteq AccountRules(a)
             /\ object.kind \in RoleKinds => NarrowsOnly(a.rule, object.rules, object'.rules)
        ELSE \/ object.kind \in RoleKinds
             \/ failing \ failed \subseteq CapabilityRules \cup AccountRules(a)
FixesHold == \A s \in Slots : advice[s] # <<>> /\ advice'[s] = <<>> => FixHolds(s)
FixesStand == [][FixesHold]_vars

(* See PostureRules: the two pages that read a pod spec do not contradict   *)
(* each other about the workload, whatever was done to it.                  *)
PagesAgree == object.kind \in WorkloadKinds => PagesAgreeOn(object, accounts)

TypeOK ==
    /\ asked \in 0..MaxFixes /\ rollouts \in 0..MaxRollouts
    /\ \A s \in Slots : advice[s] # <<>> =>
          advice[s][1].made.kind = object.kind /\ advice[s][1].next \in 1..2
=============================================================================
