------------------------------- MODULE Access -------------------------------
(***************************************************************************)
(* Who may do what, and in which namespaces: grants, groups and namespace  *)
(* scopes (iam.go, groups.go), for one person, one cluster and the groups  *)
(* the person may be in.                                                   *)
(*                                                                         *)
(* permissionsFor and allowedNamespaces ask the database in several        *)
(* queries, and the deletion of a group is several statements, while root  *)
(* changes rows in between.  A request is here what it has read so far.    *)
(* The error of a query is looked at by nobody: it is taken for no rows.   *)
(* Workspaces and vault keys of a group (VaultMembers) are left out, and   *)
(* so is IAM itself changing hands (Accounts): the person's role is one.   *)
(***************************************************************************)
EXTENDS Naturals, FiniteSets

CONSTANTS
    Groups,       \* one that is yet to be made is one without rows
    FirstScopes,  \* the namespaces given to groups before
    Permissions,  \* that can be granted: AllPermissions
    RoleHolds,    \* those of the person's role, rolePermissions
    Namespaces,
    MaxChanges    \* bound on the requests that change something

Person == "person"
Subjects == Groups \cup {Person}

(* What the constants may be. *)
AccessAssumption ==
    /\ FirstScopes \subseteq Subjects \X Namespaces
    /\ RoleHolds \subseteq Permissions /\ MaxChanges \in Nat

ManageClusters == "cluster.manage"

VARIABLES
    groups,    \* user_groups that are not deleted
    members,   \* the groups the person has a row in
    grants,    \* permission_grants: by subject and permission, whether there is a row and which
    scopes,    \* namespace_scopes, pairs of a subject and a namespace
    adding,    \* groups that AddGroupMember has found and has not added the person to yet
    deletion,  \* how far DeleteGroup has come with each group
    request,   \* the request of the person under way, with what it failed to read
    changes,   \* requests that changed something so far
    meanwhile  \* history: what held while the request read
vars == <<groups, members, grants, scopes, adding, deletion, request, changes, meanwhile>>
tables == <<groups, members, grants, scopes>>

Unsaid == "no row"
Decisions == {"granted", "denied"}
NoRequest == [step |-> "none", in |-> {}, held |-> {}, namespaces |-> {}, lost |-> {}]

ScopesOfGroups(table, G) ==
    {x[2] : x \in {x \in table : x[1] \in IF G = {} THEN {Person} ELSE G}}
ScopesOf(table, G) == {x[2] : x \in {x \in table : x[1] \in G \cup {Person}}}

(* While a request reads: all that the person's own rows said of each       *)
(* permission; the namespaces some scope gave, whether none applied at some *)
(* moment, and whether the person left or joined a group.                   *)
Moment(own, table, in) ==
    LET given == {n \in Namespaces : \E s \in in \cup {Person} : <<s, n>> \in table}
    IN  [own |-> {<<p, own[p]>> : p \in Permissions},
         given |-> given, unscoped |-> given = {}, moved |-> FALSE]
Nothing == [own |-> {}, given |-> {}, unscoped |-> FALSE, moved |-> FALSE]
Notes ==
    meanwhile' =
      IF request.step \in {"none", "answered"} THEN meanwhile
      ELSE LET now == Moment(grants'[Person], scopes', members')
           IN  [own |-> meanwhile.own \cup now.own, given |-> meanwhile.given \cup now.given,
                unscoped |-> meanwhile.unscoped \/ now.unscoped,
                moved |-> meanwhile.moved \/ members' # members]

Init ==
    /\ groups = Groups /\ members \in SUBSET groups /\ scopes = FirstScopes
    /\ grants = [s \in Subjects |-> [p \in Permissions |-> Unsaid]]
    /\ adding = {} /\ deletion = [g \in Groups |-> "none"]
    /\ request = NoRequest /\ changes = 0 /\ meanwhile = Nothing

-----------------------------------------------------------------------------
(* The rows, decided one after another, of some subjects on one permission: *)
(* the last row read counts, and the query has no order.                    *)
Rows(S, p) == {grants[s][p] : s \in S} \ {Unsaid}
Overruled(held, S) ==
    {H \in SUBSET Permissions :
       \A p \in Permissions :
          IF Rows(S, p) = {} THEN p \in H <=> p \in held
          ELSE \E d \in Rows(S, p) : p \in H <=> d = "granted"}

(* permissionsFor: the groups, their rows, the person's own rows.           *)
ReadGroups ==
    /\ request.step = "none"
    /\ \E in \in {members, {}} : request' = [NoRequest EXCEPT !.step = "groups", !.in = in]
    /\ meanwhile' = Moment(grants[Person], scopes, members)
    /\ UNCHANGED <<tables, adding, deletion, changes>>
ReadGroupGrants ==
    /\ request.step = "groups"
    /\ \E held \in Overruled(RoleHolds, request.in) \cup {RoleHolds} :
         request' = [request EXCEPT !.step = "grants", !.held = held]
    /\ UNCHANGED <<tables, adding, deletion, meanwhile, changes>>
ReadOwnGrants ==
    /\ request.step = "grants"
    /\ \/ \E held \in Overruled(request.held, {Person}) :
            request' = [request EXCEPT !.step = "held", !.held = held]
       \/ request' = [request EXCEPT !.step = "held", !.lost = {"own"}]
    /\ UNCHANGED <<tables, adding, deletion, meanwhile, changes>>

(* allowedNamespaces: everything for who manages clusters, and for those    *)
(* that no scope applies to, or seems to.  The groups are asked for again.  *)
ReadGroupsAgain ==
    /\ request.step = "held"
    /\ \E lost \in SUBSET {"scopes"} :
         request' = [request EXCEPT !.step = "scopes", !.in = IF lost = {} THEN members ELSE {},
                                    !.lost = @ \cup lost]
    /\ UNCHANGED <<tables, adding, deletion, meanwhile, changes>>
Shown(given) == IF ManageClusters \in request.held \/ given = {} THEN Namespaces ELSE given
ReadScopes ==
    /\ request.step = "scopes"
    /\ \E lost \in SUBSET {"scopes"} :
         LET given == IF lost = {} THEN ScopesOf(scopes, request.in) ELSE {}
         IN  request' = [request EXCEPT !.step = "answered", !.in = {}, !.namespaces = Shown(given),
                                        !.lost = @ \cup lost]
    /\ UNCHANGED <<tables, adding, deletion, meanwhile, changes>>
Answered ==
    /\ request.step = "answered" /\ request' = NoRequest /\ meanwhile' = Nothing
    /\ UNCHANGED <<tables, adding, deletion, changes>>

-----------------------------------------------------------------------------
Counted == changes < MaxChanges /\ changes' = changes + 1

(* GrantPermission, either way, and RevokePermission: of any subject, the   *)
(* group need not be there any more.                                        *)
SetGrant(s, p, d) ==
    /\ Counted
    /\ grants' = [grants EXCEPT ![s][p] = d]
    /\ UNCHANGED <<groups, members, scopes, adding, deletion, request>>
    /\ Notes
GrantPermission(s, p) == \E d \in Decisions : SetGrant(s, p, d)
RevokePermission(s, p) == grants[s][p] # Unsaid /\ SetGrant(s, p, Unsaid)

AddNamespaceScope(s, n) ==
    /\ Counted
    /\ scopes' = scopes \cup {<<s, n>>}
    /\ UNCHANGED <<groups, members, grants, adding, deletion, request>>
    /\ Notes
RemoveNamespaceScope(x) ==
    /\ Counted
    /\ x \in scopes /\ scopes' = scopes \ {x}
    /\ UNCHANGED <<groups, members, grants, adding, deletion, request>>
    /\ Notes

AddGroupMember(g) ==
    /\ Counted
    /\ g \in groups \ (members \cup adding)
    /\ adding' = adding \cup {g}
    /\ UNCHANGED <<tables, deletion, request, meanwhile>>
CreateMember(g) ==
    /\ g \in adding /\ adding' = adding \ {g} /\ members' = members \cup {g}
    /\ UNCHANGED <<groups, grants, scopes, deletion, request, changes>>
    /\ Notes
RemoveGroupMember(g) ==
    /\ Counted
    /\ g \in members /\ members' = members \ {g}
    /\ UNCHANGED <<groups, grants, scopes, adding, deletion, request>>
    /\ Notes

(* DeleteGroup, a statement at a time.                                      *)
DeletionGoes(g, from, to) == deletion[g] = from /\ deletion' = [deletion EXCEPT ![g] = to]
DeleteGroup(g) ==
    /\ Counted
    /\ g \in groups /\ groups' = groups \ {g} /\ DeletionGoes(g, "none", "members")
    /\ UNCHANGED <<members, grants, scopes, adding, request, meanwhile>>
DeleteMembers(g) ==
    /\ DeletionGoes(g, "members", "grants") /\ members' = members \ {g}
    /\ UNCHANGED <<groups, grants, scopes, adding, request, changes>>
    /\ Notes
DeleteGrants(g) ==
    /\ DeletionGoes(g, "grants", "scopes")
    /\ grants' = [grants EXCEPT ![g] = [p \in Permissions |-> Unsaid]]
    /\ UNCHANGED <<groups, members, scopes, adding, request, changes>>
    /\ Notes
DeleteScopes(g) ==
    /\ DeletionGoes(g, "scopes", "done") /\ scopes' = {x \in scopes : x[1] # g}
    /\ UNCHANGED <<groups, members, grants, adding, request, changes>>
    /\ Notes

Next ==
    \/ ReadGroups \/ ReadGroupGrants \/ ReadOwnGrants \/ ReadGroupsAgain \/ ReadScopes \/ Answered
    \/ \E s \in Subjects, p \in Permissions : GrantPermission(s, p) \/ RevokePermission(s, p)
    \/ \E s \in Subjects, n \in Namespaces : AddNamespaceScope(s, n)
    \/ \E x \in scopes : RemoveNamespaceScope(x)
    \/ \E g \in Groups :
         \/ AddGroupMember(g) \/ CreateMember(g) \/ RemoveGroupMember(g)
         \/ DeleteGroup(g) \/ DeleteMembers(g) \/ DeleteGrants(g) \/ DeleteScopes(g)

Spec == Init /\ [][Next]_vars

-----------------------------------------------------------------------------
TypeOK ==
    /\ groups \subseteq Groups /\ members \subseteq Groups /\ adding \subseteq Groups
    /\ grants \in [Subjects -> [Permissions -> Decisions \cup {Unsaid}]]
    /\ scopes \subseteq Subjects \X Namespaces
    /\ deletion \in [Groups -> {"none", "members", "grants", "scopes", "done"}]

(* iam.go:146, "so a decision made about one person wins over one made      *)
(* about a team": though the answer is put together from several queries,   *)
(* what the person's own row said all along is what it says, whatever       *)
(* happens to groups meanwhile, and whatever else could not be read.        *)
OwnDecisionsRule ==
    request.step \in {"held", "scopes", "answered"} /\ "own" \notin request.lost =>
        \A p \in Permissions : \A d \in Decisions :
            {x \in meanwhile.own : x[1] = p} = {<<p, d>>} => (p \in request.held <=> d = "granted")

(* iam.go:394, "the only thing standing between one team's page and another *)
(* team's namespaces": whoever some scope applied to all along, and who does*)
(* not manage clusters, is shown nothing that no scope gave; unless groups  *)
(* of the person changed between the two queries, when the scopes of a group*)
(* left may be gone before those of the one joined are looked for, and      *)
(* unless the groups or the scopes could not be read, which takes the       *)
(* restriction away.                                                        *)
ScopedSeeTheirsOnly ==
    request.step = "answered" =>
        \/ request.namespaces \subseteq meanwhile.given
        \/ ManageClusters \in request.held
        \/ meanwhile.unscoped \/ meanwhile.moved \/ "scopes" \in request.lost

(* What a request is allowed, while others change grants, groups and scopes,*)
(* is what was decided about the person: both of the above.                 *)
AllowedAsDecided == OwnDecisionsRule /\ ScopedSeeTheirsOnly
=============================================================================
