------------------------------ MODULE MCGitOps ------------------------------
\* Small instances of GitOps for TLC.
EXTENDS GitOps

\* A definition and a custom resource of its kind; commit 2 drops the resource.
CrdTree == [r \in {1, 2} |-> [o \in {"crd", "cr"} |->
               IF o = "crd" THEN "v1" ELSE IF r = 1 THEN "v1" ELSE Undeclared]]
CrdOrder == [o \in {"crd", "cr"} |-> IF o = "crd" THEN 1 ELSE 2]
CrdNs == [o \in {"crd", "cr"} |-> IF o = "crd" THEN "cluster" ELSE "shop"]

\* Prune may be switched on and off; new commits are synced.
AutoSettings == {[prune |-> p, auto |-> TRUE, heal |-> FALSE, scope |-> TRUE] : p \in BOOLEAN}

\* Two plain objects of the application's namespace, changed by commit 2.
PlainTree == [r \in {1, 2} |-> [o \in {"cm", "app"} |-> IF r = 1 THEN "v1" ELSE "v2"]]
PlainOrder == [o \in {"cm", "app"} |-> IF o = "cm" THEN 1 ELSE 2]
PlainNs == [o \in {"cm", "app"} |-> "shop"]
HealSettings == {[prune |-> TRUE, auto |-> TRUE, heal |-> TRUE, scope |-> FALSE]}

\* One Deployment, which commit 2 declares in a version that is not served.
BumpTree == [r \in {1, 2} |-> [o \in {"app"} |-> IF r = 1 THEN "v1" ELSE Unserved]]

\* One Namespace, which commit 2 no longer declares.
DroppedTree == [r \in {1, 2} |-> [o \in {"ns"} |-> IF r = 1 THEN "v1" ELSE Undeclared]]

OneOrder == [o \in Object |-> 1]
OneNs == [o \in Object |-> IF o = "ns" THEN "cluster" ELSE "shop"]
AllSettings == {[prune |-> TRUE, auto |-> TRUE, heal |-> TRUE, scope |-> TRUE]}
=============================================================================
