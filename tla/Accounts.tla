------------------------------ MODULE Accounts ------------------------------
(***************************************************************************)
(* The accounts that hold root: UpdateUserRole, DeleteUser and CreateUser  *)
(* (users.go) and the cap on root accounts (iam.go, MaxRootUsers).         *)
(*                                                                         *)
(* A handler loads its caller and its target, counts the roots and then    *)
(* writes, with no transaction around the three.  A request is here from   *)
(* the count to the write, with the roots it counted.  What a session may  *)
(* do meanwhile is Sessions' business.                                     *)
(***************************************************************************)
EXTENDS Naturals, FiniteSets
CONSTANTS
    Users,        \* accounts there may be
    FirstRoot,    \* the account the bootstrap made
    MaxRootUsers,
    MaxRequests   \* bound: requests under way at once

(* What the constants may be. *)
AccountsAssumption ==
    /\ IsFiniteSet(Users) /\ FirstRoot \in Users
    /\ MaxRootUsers \in Nat \ {0} /\ MaxRequests \in Nat

VARIABLES
    role,     \* each account's role, or that there is none of that id
    requests  \* role changes and deletions between their count and their write
vars == <<role, requests>>

Roles == {"user", "admin", "root"}
NoAccount == "no account"
Deleted == "deleted"
Accounts == {u \in Users : role[u] \in Roles}
Roots == {u \in Users : role[u] = "root"}

Init ==
    /\ role = [u \in Users |-> IF u = FirstRoot THEN "root" ELSE NoAccount]
    /\ requests = {}

-----------------------------------------------------------------------------
(* CreateUser: only root makes an admin, and nobody a root. *)
CreateUser(c, u, r) ==
    /\ role[c] \in {"admin", "root"} /\ role[u] = NoAccount
    /\ r \in {"user", "admin"} /\ (r = "admin" => role[c] = "root")
    /\ role' = [role EXCEPT ![u] = r]
    /\ UNCHANGED requests

\* A request is the write it will make, and the roots counted before it; two
\* may be alike in all but that they are two.
Free == {n \in 1..MaxRequests : \A q \in requests : q.slot # n}
Asks(u, to) ==
    /\ Free # {}
    /\ requests' = requests \cup
         {[user |-> u, from |-> role[u], to |-> to, counted |-> Roots,
           slot |-> CHOOSE n \in Free : TRUE]}
    /\ UNCHANGED role

\* Without the count of the roots there are.
MayChangeUncounted(c, u, to) ==
    /\ role[c] = "root" /\ u \in Accounts /\ to # role[u]
    /\ role[u] = "root" => u # c
(* The checks of UpdateUserRole: the cap, the last root, oneself. *)
MayChange(c, u, to) ==
    /\ role[c] = "root" /\ u \in Accounts /\ to # role[u]
    /\ to = "root" => Cardinality(Roots) < MaxRootUsers
    /\ to # "root" /\ role[u] = "root" => Cardinality(Roots) > 1 /\ u # c

RoleChangeBegins(c, u, to) == MayChange(c, u, to) /\ Asks(u, to)

(* The checks of DeleteUser. *)
MayDelete(c, u) ==
    /\ role[c] \in {"admin", "root"} /\ u \in Accounts /\ u # c
    /\ role[u] = "root" => role[c] = "root" /\ Cardinality(Roots) > 1
    /\ ~(role[c] = "admin" /\ role[u] = "admin")

DeletionBegins(c, u) == MayDelete(c, u) /\ Asks(u, Deleted)

(* The write, by id: a row that is gone is not made again. *)
Write(q) ==
    /\ requests' = requests \ {q}
    /\ role' = IF q.user \in Accounts THEN [role EXCEPT ![q.user] = q.to] ELSE role

Next ==
    \/ \E c \in Users, u \in Users, r \in Roles : CreateUser(c, u, r)
    \/ \E c \in Users, u \in Users, to \in Roles : RoleChangeBegins(c, u, to)
    \/ \E c \in Users, u \in Users : DeletionBegins(c, u)
    \/ \E q \in requests : Write(q)

Spec == Init /\ [][Next]_vars

-----------------------------------------------------------------------------
(* The accounts and the requests are well formed. *)
TypeOK ==
    /\ role \in [Users -> Roles \cup {NoAccount, Deleted}]
    /\ requests \subseteq [user : Users, from : Roles, to : Roles \cup {Deleted},
                           counted : SUBSET Users, slot : 1..MaxRequests]

WithinBounds == Cardinality(Roots) \in 1..MaxRootUsers

(* users.go, UpdateUserRole: at most two roots, and never none, which is    *)
(* "an unrecoverable state, since the permission that fixes it is the one   *)
(* that just disappeared".  A write takes the number of roots out of those  *)
(* bounds only when another write has changed who is root since its count:  *)
(* two at once can do what neither may do alone.                            *)
LeavesBoundsOnlyMiscounted ==
    WithinBounds /\ ~WithinBounds' => \E q \in requests \ requests' : q.counted # Roots
RootsStayWithinBounds == [][LeavesBoundsOnlyMiscounted]_vars
=============================================================================
