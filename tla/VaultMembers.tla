---------------------------- MODULE VaultMembers ----------------------------
(***************************************************************************)
(* Who holds a sealed key of one team vault (vault.go), people added by    *)
(* name and people entitled through a group (groups.go).                   *)
(*                                                                         *)
(* A handler reads, decides and then writes, with nothing held in between. *)
(* A request is here from its reads to its last write; what it remembers   *)
(* of them travels in it.  A row that is deleted and made again is another *)
(* row: statements by primary key tell the two apart, hence the ids.       *)
(*                                                                         *)
(* Everybody has a keyring.  Handlers that only read are the door in front *)
(* of them and no more.                                                    *)
(***************************************************************************)
EXTENDS Naturals
CONSTANTS
    Users, Owner, Groups, NoGroup,
    MaxId,       \* bound: rows ever made
    MaxRequests  \* bound: requests under way at once
ASSUME MembersAssumption ==
    Owner \in Users /\ NoGroup \notin Groups /\ MaxId \in Nat \ {0} /\ MaxRequests \in Nat

VARIABLES
    vault,    \* "open", "emptied" while it is being deleted, "gone"
    rows,     \* models.VaultMember, at most one for a person
    grants,   \* models.VaultGroupAccess: the role a group has, if any
    groups,   \* the groups there are
    inGroup,  \* models.UserGroupMember
    requests, \* requests between their reads and their last write
    lastId,   \* the id of the last row made
    named,    \* people the owner has added by name and not removed since
    caught    \* people whose row a door closed that had read it before
vars == <<vault, rows, grants, groups, inGroup, requests, lastId, named, caught>>

Roles == {"writer", "reader"}
NoRole == "none"
NoRow == [id |-> 0, role |-> NoRole, via |-> NoGroup]
Has(u) == rows[u].id # 0
Direct(u) == Has(u) /\ rows[u].via = NoGroup

Init ==
    /\ vault = "open"
    /\ rows = [u \in Users |-> IF u = Owner THEN [id |-> 1, role |-> "owner", via |-> NoGroup]
                                            ELSE NoRow]
    /\ grants = [g \in Groups |-> NoRole]
    /\ groups = Groups
    /\ inGroup = {}
    /\ requests = {}
    /\ lastId = 1
    /\ named = {} /\ caught = {}

-----------------------------------------------------------------------------
(* groupMembershipHolds: by name, or in a group that still has the vault. *)
Holds(u) ==
    rows[u].via # NoGroup => grants[rows[u].via] # NoRole /\ <<u, rows[u].via>> \in inGroup
(* vaultFor. *)
Admits(u) == vault # "gone" /\ Has(u) /\ Holds(u)

\* A request is what it will write: to whom, in which role, through which
\* group, and the id of the row it read; two may be alike in all of that.
Free == {n \in 1..MaxRequests : \A q \in requests : q.slot # n}
Request(op, user, role, group, id) ==
    [op |-> op, user |-> user, role |-> role, group |-> group, id |-> id,
     slot |-> CHOOSE n \in Free : TRUE]
Asks(q) == Free # {} /\ requests' = requests \cup {q}
Ends(q) == requests' = requests \ {q}
GoesOn(q, op) == requests' = (requests \ {q}) \cup {[q EXCEPT !.op = op]}

(* The door of somebody who comes to it, or is listed, with a row through   *)
(* a group: the grants are counted, then the memberships, and if either is  *)
(* none the row is deleted by its id.                                       *)
DoorAsks(u) ==
    /\ vault # "gone" /\ Has(u) /\ rows[u].via # NoGroup
    /\ Asks(Request("grants", u, NoRole, rows[u].via, rows[u].id))
    /\ UNCHANGED <<vault, rows, grants, groups, inGroup, lastId, named, caught>>
CountGrants(q) ==
    /\ q.op = "grants"
    /\ GoesOn(q, IF grants[q.group] = NoRole THEN "evict" ELSE "members")
    /\ UNCHANGED <<vault, rows, grants, groups, inGroup, lastId, named, caught>>
CountMembers(q) ==
    /\ q.op = "members"
    /\ IF <<q.user, q.group>> \in inGroup THEN Ends(q) ELSE GoesOn(q, "evict")
    /\ UNCHANGED <<vault, rows, grants, groups, inGroup, lastId, named, caught>>

(* AddVaultMember through a group: the caller holds the key, the group has  *)
(* the vault, the person is in the group and has no row; the role is the    *)
(* grant's.                                                                 *)
DeliverBegins(c, u, g) ==
    /\ Admits(c) /\ rows[c].role \in {"owner", "writer"}
    /\ grants[g] # NoRole /\ <<u, g>> \in inGroup /\ ~Has(u)
    /\ Asks(Request("insert", u, grants[g], g, 0))
    /\ UNCHANGED <<vault, rows, grants, groups, inGroup, lastId, named, caught>>

(* AddVaultMember by name, up to FirstOrCreate having looked for the row.   *)
NameBegins(u, role) ==
    /\ Admits(Owner) /\ (Has(u) => rows[u].role # "owner")
    /\ Asks(Request(IF Has(u) THEN "assign" ELSE "insert", u, role, NoGroup, rows[u].id))
    /\ UNCHANGED <<vault, rows, grants, groups, inGroup, lastId, named, caught>>

(* Create: the index on vault and person turns a second row down. *)
Insert(q) ==
    /\ q.op = "insert" /\ Ends(q)
    /\ \/ Has(q.user) /\ UNCHANGED <<rows, lastId, named>>
       \/ /\ ~Has(q.user) /\ lastId < MaxId
          /\ rows' = [rows EXCEPT ![q.user] = [id |-> lastId + 1, role |-> q.role, via |-> q.group]]
          /\ lastId' = lastId + 1
          /\ named' = IF q.group = NoGroup THEN named \cup {q.user} ELSE named
    /\ UNCHANGED <<vault, grants, groups, inGroup, caught>>

\* The columns that are not empty: a nil via_group_id would be left out.
AssignedNonZero(row, role) == [row EXCEPT !.role = role]
(* The columns Assign writes. *)
Assigned(row, role) == [row EXCEPT !.role = role, !.via = NoGroup]

(* FirstOrCreate on the row it found; one deleted meanwhile is not missed,  *)
(* and the caller is answered that the vault is shared.                     *)
Assign(q) ==
    /\ q.op = "assign" /\ Ends(q)
    /\ \/ rows[q.user].id # q.id /\ UNCHANGED <<rows, named>>
       \/ /\ rows[q.user].id = q.id
          /\ rows' = [rows EXCEPT ![q.user] = Assigned(@, q.role)]
          /\ named' = named \cup {q.user}
    /\ UNCHANGED <<vault, grants, groups, inGroup, lastId, caught>>

(* UpdateVaultMemberRole and RemoveVaultMember are for rows given by name.  *)
RoleBegins(u, role) ==
    /\ Admits(Owner) /\ Direct(u) /\ rows[u].role # "owner"
    /\ Asks(Request("role", u, role, NoGroup, rows[u].id))
    /\ UNCHANGED <<vault, rows, grants, groups, inGroup, lastId, named, caught>>

UpdateRole(q) ==
    /\ q.op = "role" /\ Ends(q)
    /\ rows' = [u \in Users |-> IF rows[u].id = q.id THEN [rows[u] EXCEPT !.role = q.role] ELSE rows[u]]
    /\ UNCHANGED <<vault, grants, groups, inGroup, lastId, named, caught>>

RemoveBegins(u) ==
    /\ Admits(Owner) /\ Direct(u) /\ rows[u].role # "owner"
    /\ Asks(Request("remove", u, NoRole, NoGroup, rows[u].id))
    /\ UNCHANGED <<vault, rows, grants, groups, inGroup, lastId, named, caught>>

WithoutId(id) == [u \in Users |-> IF rows[u].id = id THEN NoRow ELSE rows[u]]

(* DELETE by primary key: the end of RemoveVaultMember and of the door. *)
Remove(q) ==
    /\ q.op = "remove" /\ Ends(q)
    /\ rows' = WithoutId(q.id)
    /\ named' = IF rows[q.user].id = q.id THEN named \ {q.user} ELSE named
    /\ UNCHANGED <<vault, grants, groups, inGroup, lastId, caught>>
Evict(q) ==
    /\ q.op = "evict" /\ Ends(q)
    /\ rows' = WithoutId(q.id)
    /\ caught' = IF rows[q.user].id = q.id /\ Direct(q.user) THEN caught \cup {q.user} ELSE caught
    /\ UNCHANGED <<vault, grants, groups, inGroup, lastId, named>>

-----------------------------------------------------------------------------
(* SetVaultGroupAccess: the grant, then the role of those in through it. *)
GiveGroup(g, role) ==
    /\ Admits(Owner) /\ g \in groups
    /\ grants' = [grants EXCEPT ![g] = role]
    /\ Asks(Request("regrade", Owner, role, g, 0))
    /\ UNCHANGED <<vault, rows, groups, inGroup, lastId, named, caught>>
Regrade(q) ==
    /\ q.op = "regrade" /\ Ends(q)
    /\ rows' = [u \in Users |-> IF Has(u) /\ rows[u].via = q.group
                                THEN [rows[u] EXCEPT !.role = q.role] ELSE rows[u]]
    /\ UNCHANGED <<vault, grants, groups, inGroup, lastId, named, caught>>

(* RemoveVaultGroupAccess: the grant, then the keys. *)
TakeFromGroup(g) ==
    /\ Admits(Owner) /\ grants[g] # NoRole
    /\ grants' = [grants EXCEPT ![g] = NoRole]
    /\ Asks(Request("revoke", Owner, NoRole, g, 0))
    /\ UNCHANGED <<vault, rows, groups, inGroup, lastId, named, caught>>

(* WHERE via_group_id = group: everybody's keys or one person's. *)
HandedOut(g, who) == {u \in who : Has(u) /\ rows[u].via = g}

(* The keys a group handed out: the end of RemoveVaultGroupAccess, and      *)
(* RevokeGroupVaultKeys when somebody leaves or the group goes; the grants  *)
(* of a group that goes are deleted last.                                   *)
Revoke(q) ==
    /\ q.op \in {"revoke", "revokeOne", "dissolve"}
    /\ LET out == HandedOut(q.group, IF q.op = "revokeOne" THEN {q.user} ELSE Users)
       IN  rows' = [u \in Users |-> IF u \in out THEN NoRow ELSE rows[u]]
    /\ IF q.op = "dissolve" THEN GoesOn(q, "ungrant") ELSE Ends(q)
    /\ UNCHANGED <<vault, grants, groups, inGroup, lastId, named, caught>>
Ungrant(q) ==
    /\ q.op = "ungrant" /\ Ends(q)
    /\ grants' = [grants EXCEPT ![q.group] = NoRole]
    /\ UNCHANGED <<vault, rows, groups, inGroup, lastId, named, caught>>

(* groups.go: AddGroupMember, RemoveGroupMember, DeleteGroup. *)
JoinGroup(u, g) ==
    /\ g \in groups /\ <<u, g>> \notin inGroup
    /\ inGroup' = inGroup \cup {<<u, g>>}
    /\ UNCHANGED <<vault, rows, grants, groups, requests, lastId, named, caught>>
LeaveGroup(u, g) ==
    /\ <<u, g>> \in inGroup
    /\ inGroup' = inGroup \ {<<u, g>>}
    /\ Asks(Request("revokeOne", u, NoRole, g, 0))
    /\ UNCHANGED <<vault, rows, grants, groups, lastId, named, caught>>
DeleteGroup(g) ==
    /\ g \in groups
    /\ groups' = groups \ {g}
    /\ inGroup' = {m \in inGroup : m[2] # g}
    /\ Asks(Request("dissolve", Owner, NoRole, g, 0))
    /\ UNCHANGED <<vault, rows, grants, lastId, named, caught>>

(* DeleteVault: the rows, then the grants and the vault. *)
DeleteVault ==
    /\ vault = "open" /\ Admits(Owner)
    /\ vault' = "emptied"
    /\ rows' = [u \in Users |-> NoRow]
    /\ Asks(Request("erase", Owner, NoRole, NoGroup, 0))
    /\ UNCHANGED <<grants, groups, inGroup, lastId, named, caught>>
Erase(q) ==
    /\ q.op = "erase" /\ Ends(q)
    /\ vault' = "gone"
    /\ grants' = [g \in Groups |-> NoRole]
    /\ UNCHANGED <<rows, groups, inGroup, lastId, named, caught>>

Next ==
    \/ \E u \in Users : DoorAsks(u)
    \/ \E q \in requests : CountGrants(q)
    \/ \E q \in requests : CountMembers(q)
    \/ \E c \in Users, u \in Users, g \in Groups : DeliverBegins(c, u, g)
    \/ \E u \in Users, role \in Roles : NameBegins(u, role)
    \/ \E u \in Users, role \in Roles : RoleBegins(u, role)
    \/ \E u \in Users : RemoveBegins(u)
    \/ \E g \in Groups, role \in Roles : GiveGroup(g, role)
    \/ \E g \in Groups : TakeFromGroup(g)
    \/ \E u \in Users, g \in Groups : JoinGroup(u, g)
    \/ \E u \in Users, g \in Groups : LeaveGroup(u, g)
    \/ \E g \in Groups : DeleteGroup(g)
    \/ DeleteVault
    \/ \E q \in requests : Insert(q)
    \/ \E q \in requests : Assign(q)
    \/ \E q \in requests : UpdateRole(q)
    \/ \E q \in requests : Remove(q)
    \/ \E q \in requests : Evict(q)
    \/ \E q \in requests : Regrade(q)
    \/ \E q \in requests : Revoke(q)
    \/ \E q \in requests : Ungrant(q)
    \/ \E q \in requests : Erase(q)

Spec == Init /\ [][Next]_vars

-----------------------------------------------------------------------------
Ops == {"grants", "members", "evict", "insert", "assign", "role", "remove", "regrade", "revoke", "revokeOne",
        "dissolve", "ungrant", "erase"}
(* The rows, the grants and the requests are well formed. *)
TypeOK ==
    /\ vault \in {"open", "emptied", "gone"}
    /\ rows \in [Users -> [id : 0..MaxId, role : Roles \cup {"owner", NoRole},
                           via : Groups \cup {NoGroup}]]
    /\ grants \in [Groups -> Roles \cup {NoRole}]
    /\ groups \subseteq Groups
    /\ inGroup \subseteq Users \X Groups
    /\ requests \subseteq [op : Ops, user : Users, role : Roles \cup {NoRole},
                           group : Groups \cup {NoGroup}, id : 0..MaxId,
                           slot : 1..MaxRequests]
    /\ lastId \in 1..MaxId
    /\ named \subseteq Users /\ caught \subseteq Users

(* vault.go, AddVaultMember: "Naming somebody who was already here through  *)
(* a group turns their access into a direct one, so it survives them        *)
(* leaving the group"; RemoveVaultGroupAccess: "People added by name stay". *)
(* Whoever the owner has added by name keeps a key of their own until the   *)
(* owner removes them, whatever happens to groups and grants.  One way is   *)
(* left open: a door that read the row while it still came through a group  *)
(* deletes it by its id after the owner has named the person.  The owner    *)
(* keeps the key as well.                                                   *)
NamedStay ==
    vault = "open" =>
        /\ \A u \in named : Direct(u) \/ u \in caught
        /\ Direct(Owner) /\ rows[Owner].role = "owner"
=============================================================================
