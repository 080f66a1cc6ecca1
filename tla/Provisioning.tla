---------------------------- MODULE Provisioning ----------------------------
(***************************************************************************)
(* How a repository comes to be and goes (repositories.go, the requests of *)
(* golden_paths.go, services/bitbucket.go, services/argocd.go): a row in   *)
(* the database, a repository with its deploy keys at the hosting service, *)
(* and an application of ArgoCD with the key it clones with.               *)
(*                                                                         *)
(* One name of a repository.  A request's statements and calls are steps   *)
(* of their own: no transaction holds them together, a call may fail, and  *)
(* the process may stop between any two.  A key generated for a request is *)
(* that request's number, and so is the row it creates; 0 is the           *)
(* workspace's key.  Statements whose error nobody looks at may fail like  *)
(* the others.  Calls whose failure is only a warning and which leave *)
(* nothing a later step looks at are left out (pipelines, variables, the   *)
(* branch, notifications, scans), and so are requests that are refused     *)
(* before they change anything.  An application of CommitKube's own is      *)
(* what GitOps is about.                                                   *)
(***************************************************************************)
EXTENDS Naturals, FiniteSets
CONSTANTS
    Users, Admins,
    MaxRequests,  \* bound: requests
    MaxOpen,      \* bound: requests under way at once
    MaxCrashes    \* bound: stops of the process

ProvisioningBounds ==
    Admins \subseteq Users /\ MaxRequests \in Nat /\ MaxOpen \in Nat
    /\ MaxCrashes \in Nat

VARIABLES
    row,      \* the row of the name: <<>>, or one
    scm,      \* the repository at the hosting service
    argo,     \* ArgoCD: the request that made the application (0: none), and the key
    job,      \* each request: what it is, where it stands, what it knows
    gone,     \* history: keys of a repository that was deleted
    crashes
vars == <<row, scm, argo, job, gone, crashes>>

Requests == 1..MaxRequests
unregistered == MaxRequests + 1
Unborn == [what |-> "-", user |-> "-", at |-> "unborn", saw |-> <<>>, key |-> 0, warned |-> {}]
Row(s, user, status, key) == <<[by |-> s, user |-> user, status |-> status, key |-> key]>>
Pending(r) == r # <<>> /\ r[1].status = "pending_approval"
Of(r, user) == r # <<>> /\ r[1].user = user

Init ==
    /\ row \in {<<>>} \cup {Row(0, user, "imported", 0) : user \in Users \ Admins}
    /\ scm = [there |-> row # <<>>, keys |-> {}]
    /\ argo = [app |-> 0, key |-> unregistered]
    /\ gone = {} /\ crashes = 0
    /\ job = [s \in Requests |-> Unborn]

-----------------------------------------------------------------------------
At(s, step) == job[s].at = step
UnderWay(s) == job[s].at \notin {"unborn", "done"}
Begins(s, what, user) ==
    /\ At(s, "unborn") /\ \A t \in 1..(s - 1) : ~At(t, "unborn")
    /\ Cardinality({t \in Requests : UnderWay(t)}) < MaxOpen
    /\ what \in {"approve", "reject", "import"} => user \in Admins
Moves(s, step) == job' = [job EXCEPT ![s].at = step]
MovesWarned(s, step, w) == job' = [job EXCEPT ![s].at = step, ![s].warned = @ \cup w]
\* An answer ends a request; what it warned of is all that is remembered.
Ends(s, warned) ==
    job' = [job EXCEPT ![s] = [Unborn EXCEPT !.at = "done", !.warned = warned]]
Answers(s) == Ends(s, job[s].warned)
Fails(s) == Ends(s, {})
Born(s, what, user, step, saw) ==
    job' = [job EXCEPT ![s] = [Unborn EXCEPT !.what = what, !.user = user, !.at = step, !.saw = saw]]

\* CreateRepository.  The golden path is asked before anything is made; where
\* somebody must approve, the user's own row makes way for a pending one, in two
\* statements either of which may fail unnoticed.
CreateRepository(s, user, manual) ==
    /\ Begins(s, "create", user)
    /\ Born(s, "create", user, IF manual THEN "ask" ELSE "create", <<>>)
    /\ row' = row \/ (manual /\ Of(row, user) /\ row' = <<>>)
    /\ UNCHANGED <<scm, argo, gone, crashes>>
CreatePending(s) ==
    /\ At(s, "ask")
    /\ row' = row \/ (row = <<>> /\ row' = Row(s, job[s].user, "pending_approval", 0))
    /\ Answers(s)
    /\ UNCHANGED <<scm, argo, gone, crashes>>

\* ApproveRepository: the pending row as it is read is provisioned for its user, as
\* if the user had asked now.  What it warns of is answered to whoever approves.
ApproveRepository(s, user) ==
    /\ Begins(s, "approve", user) /\ Pending(row)
    /\ Born(s, "create", row[1].user, "create", <<>>)
    /\ UNCHANGED <<row, scm, argo, gone, crashes>>

-----------------------------------------------------------------------------
(* What a call that succeeds does at the service.  A repository, a key or   *)
(* an application that exists already is taken for the one that was wanted, *)
(* a repository registered again has the newer key, and what is gone        *)
(* already counts as deleted.                                               *)
CreatesRepository == scm' = [scm EXCEPT !.there = TRUE]
AddsDeployKey(key) == scm.there /\ scm' = [scm EXCEPT !.keys = @ \cup {key}]
DeletesRepository == scm' = [there |-> FALSE, keys |-> {}] /\ gone' = gone \cup scm.keys
AddRepository(a, key) == [a EXCEPT !.key = key]
CreateApplication(a, s) == [a EXCEPT !.app = IF @ = 0 THEN s ELSE @]
DeleteApplication(a) == [a EXCEPT !.app = 0]

(* provisionRepository. *)

\* A repository that exists already is taken as it is.
ProvisionSCM(s) ==
    /\ At(s, "create")
    /\ \/ CreatesRepository /\ Moves(s, "key")
       \/ Fails(s) /\ UNCHANGED scm
    /\ UNCHANGED <<row, argo, gone, crashes>>

\* The key to clone with: the new one, or the workspace's if it cannot be made.
TakesKey(s, key, warned) ==
    job' = [job EXCEPT ![s].at = "commit", ![s].key = key, ![s].warned = @ \cup warned]
\* A mutation of ProvisionKey: a failure is only logged.
ProvisionKeyQuietly(s) ==
    /\ At(s, "key")
    /\ AddsDeployKey(s) \/ UNCHANGED scm
    /\ TakesKey(s, s, {})
    /\ UNCHANGED <<row, argo, gone, crashes>>
ProvisionKey(s) ==
    /\ At(s, "key")
    /\ \/ AddsDeployKey(s) /\ TakesKey(s, s, {})
       \/ \E key \in {s, 0} : TakesKey(s, key, {"key"}) /\ UNCHANGED scm
    /\ UNCHANGED <<row, argo, gone, crashes>>

\* The files are assembled again and committed.  Nothing else looks at them, so
\* all that matters is that it may fail.
ProvisionCommit(s) ==
    /\ At(s, "commit") /\ Fails(s)
    /\ UNCHANGED <<row, scm, argo, gone, crashes>>

\* If ArgoCD is to deploy them, its two calls may each fail.
ProvisionArgo(s) ==
    /\ At(s, "commit")
    /\ \/ Moves(s, "unlist") /\ UNCHANGED argo
       \/ \E added, created \in BOOLEAN :
            /\ LET registered == IF added THEN AddRepository(argo, job[s].key) ELSE argo
               IN  argo' = IF created THEN CreateApplication(registered, s) ELSE registered
            /\ MovesWarned(s, "unlist", IF added /\ created THEN {} ELSE {"argo"})
    /\ UNCHANGED <<row, scm, gone, crashes>>

\* A mutation of ProvisionUnlist: whoever's row has the name.
ProvisionUnlistAny(s) ==
    /\ At(s, "unlist")
    /\ row' = <<>>
    /\ Moves(s, "list")
    /\ UNCHANGED <<scm, argo, gone, crashes>>
ProvisionUnlist(s) ==
    /\ At(s, "unlist")
    /\ row' = row \/ (Of(row, job[s].user) /\ row' = <<>>)
    /\ Moves(s, "list")
    /\ UNCHANGED <<scm, argo, gone, crashes>>

\* The name is unique: where another row has it, the record is missing and the
\* answer says so.
ProvisionList(s) ==
    /\ At(s, "list")
    /\ \/ /\ row = <<>>
          /\ row' = Row(s, job[s].user, "created", job[s].key)
          /\ Answers(s)
       \/ Answers(s) /\ UNCHANGED row
    /\ UNCHANGED <<scm, argo, gone, crashes>>

-----------------------------------------------------------------------------
\* RejectRepository reads the pending row and deletes it by its id.
RejectRepository(s, user) ==
    /\ Begins(s, "reject", user) /\ Pending(row)
    /\ Born(s, "reject", user, "drop", row)
    /\ UNCHANGED <<row, scm, argo, gone, crashes>>
RejectDrop(s) ==
    /\ At(s, "drop")
    /\ row' = row \/ (row # <<>> /\ row[1].by = job[s].saw[1].by /\ row' = <<>>)
    /\ Answers(s)
    /\ UNCHANGED <<scm, argo, gone, crashes>>

\* DeleteRepository: an admin any, others their own.  Only an admin's reaches the
\* hosting service, which may refuse or, without credentials, not be asked, and
\* ArgoCD.  The row is deleted by its name.
DeleteRepository(s, user) ==
    /\ Begins(s, "delete", user) /\ row # <<>>
    /\ user \in Admins \/ Of(row, user)
    /\ Born(s, "delete", user, IF user \in Admins THEN "purge" ELSE "erase", row)
    /\ UNCHANGED <<row, scm, argo, gone, crashes>>
DeleteSCM(s) ==
    /\ At(s, "purge")
    /\ \/ DeletesRepository /\ Moves(s, "unargo")
       \/ Moves(s, "unargo") /\ UNCHANGED <<scm, gone>>
    /\ UNCHANGED <<row, argo, crashes>>
DeleteArgo(s) ==
    /\ At(s, "unargo")
    /\ \/ argo' = DeleteApplication(argo) /\ Moves(s, "erase")
       \/ Moves(s, "erase") /\ UNCHANGED argo
    /\ UNCHANGED <<row, scm, gone, crashes>>
DeleteRow(s) ==
    /\ At(s, "erase")
    /\ row' \in {row, <<>>}
    /\ Answers(s)
    /\ UNCHANGED <<scm, argo, gone, crashes>>

\* ImportRepository, and ImportProject for one of the names the service lists.  The
\* row is looked for before it is created, but it is the unique name that decides.
ImportRepository(s, user, listed) ==
    /\ Begins(s, "import", user)
    /\ row = <<>> /\ (listed => scm.there)
    /\ row' = Row(s, user, "imported", 0)
    /\ Ends(s, {})
    /\ UNCHANGED <<scm, argo, gone, crashes>>

\* The process stops: what was under way is neither finished nor answered.
Crash ==
    /\ crashes < MaxCrashes /\ \E s \in Requests : UnderWay(s)
    /\ job' = [s \in Requests |->
                 IF UnderWay(s) THEN [Unborn EXCEPT !.at = "done", !.warned = {"lost"}]
                 ELSE job[s]]
    /\ crashes' = crashes + 1
    /\ UNCHANGED <<row, scm, argo, gone>>

Provision(s) ==
    \/ ProvisionSCM(s) \/ ProvisionKey(s) \/ ProvisionCommit(s) \/ ProvisionArgo(s)
    \/ ProvisionUnlist(s) \/ ProvisionList(s)
Deletes(s) == DeleteSCM(s) \/ DeleteArgo(s) \/ DeleteRow(s)
Request(s, user) ==
    \/ \E manual \in BOOLEAN : CreateRepository(s, user, manual)
    \/ ApproveRepository(s, user) \/ RejectRepository(s, user) \/ DeleteRepository(s, user)
    \/ \E listed \in BOOLEAN : ImportRepository(s, user, listed)
Next ==
    \/ \E s \in Requests :
         \/ \E user \in Users : Request(s, user)
         \/ Provision(s) \/ CreatePending(s) \/ RejectDrop(s) \/ Deletes(s)
    \/ Crash
Spec == Init /\ [][Next]_vars

-----------------------------------------------------------------------------
\* Whoever made request s was told of w, or got no answer.
Told(s, w) == job[s].warned \cap {w, "lost"} # {}
\* The key of a request opens the repository, or its user was told that it does
\* not, or the repository it opened was deleted.
Opens(k) == k = 0 \/ k \in scm.keys \cup gone \/ Told(k, "key")

(* CommitKube's row and ArgoCD's application clone with a key that opens    *)
(* the repository, unless who asked for them was told otherwise or got no   *)
(* answer: however many requests made the repository, and whatever became   *)
(* of each.                                                                 *)
KeysOpen ==
    /\ row # <<>> => Opens(row[1].key)
    /\ argo.app # 0 => (argo.key # unregistered /\ Opens(argo.key)) \/ Told(argo.app, "argo")

(* A row, whatever it stands for, is lost only as somebody meant: by a      *)
(* newer request of its user or the provision of an older one, by the       *)
(* rejection of what is still a request, or by a deletion by an admin or    *)
(* its user, unless it had taken the place of the row the deletion read.    *)
LosesKnowingly(j) ==
    CASE j.what = "create" -> Of(row, j.user)
      [] j.what = "reject" -> Pending(row)
      [] j.what = "delete" -> row # j.saw \/ j.user \in Admins \/ Of(row, j.user)
      [] OTHER -> FALSE
RowsGoKnowingly ==
    row # <<>> /\ row' # row =>
        \E s \in Requests :
            job'[s] # job[s] /\ LosesKnowingly(IF At(s, "unborn") THEN job'[s] ELSE job[s])

\* Both, of every step.
RepositoryStands == [][RowsGoKnowingly /\ KeysOpen']_vars

TypeOK ==
    /\ scm \in [there : BOOLEAN, keys : SUBSET Requests]
    /\ ~scm.there => scm.keys = {}
    /\ argo \in [app : 0..MaxRequests, key : 0..unregistered]
    /\ Cardinality({s \in Requests : At(s, "unborn")}) \in 0..MaxRequests
=============================================================================
