---------------------------- MODULE MCDelivery ----------------------------
(* Delivery on three small scenes, of which each behaviour plays one: what *)
(* is deployed and how it is judged; what is wrong with a pod of which not *)
(* everything can be seen; and two workloads of one name that fail.        *)
EXTENDS Delivery

Hash(text) == [text |-> text, len |-> 7, hex |-> TRUE, letter |-> TRUE]
Build == [text |-> "2026101", len |-> 7, hex |-> TRUE, letter |-> FALSE]
\* One image is tagged with a build number and a hash, one with a hash alone.
Tags == [i \in Images |-> IF i = "v1" THEN <<Build, Hash("abc1234")>> ELSE <<Hash("deadbee")>>]

\* Two containers that may crash, and what metrics alone show of the pod: a kind that
\* metricsDerived lists and one that it does not.
Crash == [kind |-> "crashloop", part |-> "app"]
Crashes == {Crash, [kind |-> "crashloop", part |-> "proxy"]}
Wastes == [kind |-> "overprovisioned", part |-> "pod"]
NoLimits == [kind |-> "no_limits", part |-> "pod"]
Several == Crashes \cup {Wastes, NoLimits}

\* Nothing; errors of one workload of the name or of both; and those of another service.
calm == [http |-> {}, noisy |-> {}, callers |-> {"Deployment"}, calls |-> "fine",
         blamed |-> FALSE]
own == [calm EXCEPT !.http = {"Deployment"}]
both == [own EXCEPT !.http = Namesakes]
theirs == [own EXCEPT !.calls = "many"]
MCSights == {calm, own, both, theirs}

Start(bad, sight) == [workloads |-> [image |-> "v1", desired |-> 1, ready |-> 1],
                      pods |-> [alive |-> TRUE, bad |-> bad], errors |-> sight]
Starts == {Start({}, calm), Start({Crash}, own), Start(Several, calm), Start({}, both)}

VARIABLE scene
\* What may happen in each scene: which pollers run, what may be wrong, what logs and
\* traffic may show, whether anything is deployed or scaled, and whether metrics are missing.
Scenes ==
    [deployments |-> [pollers |-> Poller, conditions |-> {Crash}, sights |-> {calm, own, theirs},
                      moves |-> TRUE, blind |-> FALSE],
     pods |-> [pollers |-> {"pods"}, conditions |-> Several, sights |-> {calm},
               moves |-> FALSE, blind |-> TRUE],
     services |-> [pollers |-> {"errors"}, conditions |-> {}, sights |-> {calm, own, both},
                   moves |-> FALSE, blind |-> FALSE]]
Plays(s) ==
    /\ cluster.pods.bad \subseteq s.conditions /\ cluster.errors \in s.sights
    /\ s.moves \/ cluster.workloads = Start({}, calm).workloads
    /\ \A p \in Poller : poll[p].busy => p \in s.pollers /\ (s.blind \/ poll[p].hidden = {})
SceneInit == Init /\ scene \in DOMAIN Scenes /\ Plays(Scenes[scene])
SceneNext == Next /\ UNCHANGED scene /\ Plays(Scenes[scene])'
SceneSpec == SceneInit /\ [][SceneNext]_<<vars, scene>> /\ Fairness
=============================================================================
