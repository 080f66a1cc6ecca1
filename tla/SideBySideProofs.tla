--------------------------- MODULE SideBySideProofs ---------------------------
(***************************************************************************)
(* Proofs about VaultMembers, for any people, any groups and any number of *)
(* requests under way, that whoever the owner has added by name keeps a    *)
(* key; and, below, that the modules that run side by side keep their      *)
(* properties there, whatever values the constants have.                   *)
(*                                                                         *)
(* The handlers of a vault delete and update by the id of the row they     *)
(* read.  The invariant says that an id is one person's for ever: no two   *)
(* rows have one, and a request holds that of its person's row or of none. *)
(* So the only statements that reach a row given by name are those for it. *)
(***************************************************************************)
EXTENDS MCSideBySide, TLAPS

(* The rows and the requests, as far as the proof needs them. *)
RowType == [id : Nat, role : Roles \cup {"owner", NoRole}, via : Groups \cup {NoGroup}]
RequestType == [op : Ops, user : Users, role : Roles \cup {NoRole},
                group : Groups \cup {NoGroup}, id : Nat, slot : Nat]
Typed ==
    /\ rows \in [Users -> RowType]
    /\ grants \in [Groups -> Roles \cup {NoRole}]
    /\ lastId \in Nat /\ lastId # 0
    /\ requests \subseteq RequestType
    /\ named \subseteq Users

ById == {"grants", "members", "evict", "role", "remove", "assign"}
ByGroup == {"revoke", "revokeOne", "dissolve", "regrade"}

(* An id is one person's. *)
IdsApart ==
    /\ \A u \in Users : rows[u].id <= lastId
    /\ \A u, v \in Users : rows[u].id # 0 /\ rows[u].id = rows[v].id => u = v

(* What a request works on: the row of its person, or the rows of a group; *)
(* while there is a vault, never the row of its owner.                     *)
Aims(q) ==
    /\ q.op \in ById =>
         /\ q.id # 0 /\ q.id <= lastId
         /\ \A u \in Users : rows[u].id = q.id => u = q.user
         /\ vault = "open" => q.id # rows[Owner].id
    /\ q.op \in ByGroup => q.group \in Groups
RequestsAim == \A q \in requests : Aims(q)

IInv == Typed /\ IdsApart /\ RequestsAim /\ NamedStay

-----------------------------------------------------------------------------
LEMMA Start == Init => IInv
<1> SUFFICES ASSUME Init PROVE IInv OBVIOUS
<1>1. Typed BY MembersAssumption DEF Init, Typed, RowType, NoRow, Roles, NoRole
<1>2. /\ \A u \in Users \ {Owner} : rows[u].id = 0
      /\ rows[Owner] = [id |-> 1, role |-> "owner", via |-> NoGroup] /\ Owner \in Users
      /\ lastId = 1 /\ requests = {} /\ named = {}
      BY MembersAssumption DEF Init, NoRow
<1> QED BY <1>1, <1>2 DEF IInv, IdsApart, RequestsAim, NamedStay, Direct, Has

(* A request joins the others; it and they know whose row is whose. *)
LEMMA Asking ==
    ASSUME IInv, NEW q, q \in RequestType, Aims(q), Asks(q),
           UNCHANGED <<vault, rows, lastId, named, caught>>,
           grants' \in [Groups -> Roles \cup {NoRole}]
    PROVE  IInv'
<1>1. requests' = requests \cup {q} BY DEF Asks
<1>2. Typed' BY <1>1 DEF IInv, Typed
<1>3. IdsApart' BY DEF IInv, IdsApart
<1>4. RequestsAim' BY <1>1 DEF IInv, RequestsAim, Aims
<1>5. NamedStay' BY DEF IInv, NamedStay, Direct, Has
<1> QED BY <1>2, <1>3, <1>4, <1>5 DEF IInv

(* The request is of its type. *)
LEMMA Asked ==
    ASSUME NEW op \in Ops, NEW u \in Users, NEW role \in Roles \cup {NoRole},
           NEW g \in Groups \cup {NoGroup}, NEW id \in Nat, Asks(Request(op, u, role, g, id))
    PROVE  LET q == Request(op, u, role, g, id) IN
             /\ q \in RequestType
             /\ q.op = op /\ q.user = u /\ q.group = g /\ q.id = id
<1> DEFINE slot == CHOOSE n \in Free : TRUE
<1>1. slot \in Nat BY DEF Asks, Free
<1> HIDE DEF slot
<1>2. Request(op, u, role, g, id) =
        [op |-> op, user |-> u, role |-> role, group |-> g, id |-> id, slot |-> slot]
      BY DEF Request, slot
<1> QED BY <1>1, <1>2 DEF RequestType

(* A request of a row's id, for somebody other than the owner. *)
LEMMA AskedById ==
    ASSUME IInv, NEW op \in ById, NEW u \in Users, NEW role \in Roles \cup {NoRole},
           NEW g \in Groups \cup {NoGroup},
           Has(u), vault = "open" => rows[u].id # rows[Owner].id,
           Asks(Request(op, u, role, g, rows[u].id)),
           UNCHANGED <<vault, rows, grants, lastId, named, caught>>
    PROVE  IInv'
<1> DEFINE q == Request(op, u, role, g, rows[u].id)
<1>1. op \in Ops /\ op \notin ByGroup BY DEF ById, ByGroup, Ops
<1>2. rows[u].id \in Nat BY DEF IInv, Typed, RowType
<1>3. q \in RequestType /\ q.op = op /\ q.user = u /\ q.id = rows[u].id BY <1>1, <1>2, Asked
<1>4. Asks(q) OBVIOUS
<1> HIDE DEF q
<1>5. Aims(q) BY <1>1, <1>3 DEF Aims, IInv, IdsApart, Has
<1> QED BY <1>3, <1>4, <1>5, Asking DEF IInv, Typed

(* A request that aims at no row. *)
LEMMA AskedOtherwise ==
    ASSUME IInv, NEW op \in Ops \ ById, NEW u \in Users, NEW role \in Roles \cup {NoRole},
           NEW g \in Groups \cup {NoGroup}, op \in ByGroup => g \in Groups,
           Asks(Request(op, u, role, g, 0)),
           UNCHANGED <<vault, rows, lastId, named, caught>>,
           grants' \in [Groups -> Roles \cup {NoRole}]
    PROVE  IInv'
<1> DEFINE q == Request(op, u, role, g, 0)
<1>1. q \in RequestType /\ q.op = op /\ q.group = g BY Asked
<1>2. Asks(q) OBVIOUS
<1> HIDE DEF q
<1>3. Aims(q) BY <1>1 DEF Aims
<1> QED BY <1>1, <1>2, <1>3, Asking

(* While there is a vault its owner has a row of their own. *)
LEMMA OwnerApart ==
    ASSUME IInv, vault = "open", NEW u \in Users, Has(u), rows[u].via # NoGroup \/ rows[u].role # "owner"
    PROVE  rows[u].id # rows[Owner].id
BY MembersAssumption DEF IInv, NamedStay, IdsApart, Direct, Has

(* A request ends, or goes on to the grants, having changed or dropped rows. *)
LEMMA Ending ==
    ASSUME IInv, NEW q \in requests, Ends(q) \/ GoesOn(q, "ungrant"),
           rows' \in [Users -> RowType], \A u \in Users : rows'[u].id \in {0, rows[u].id},
           grants' \in [Groups -> Roles \cup {NoRole}],
           lastId' = lastId, named' \subseteq Users, vault' # "open" \/ (vault = "open" /\ NamedStay')
    PROVE  IInv'
<1>1. \A r \in requests' : r \in requests \/ (r.op = "ungrant" /\ r \in RequestType)
  <2>1. q \in RequestType BY DEF IInv, Typed
  <2>2. [q EXCEPT !.op = "ungrant"] \in RequestType /\ [q EXCEPT !.op = "ungrant"].op = "ungrant"
        BY <2>1 DEF RequestType, Ops
  <2> QED BY <2>2 DEF Ends, GoesOn
<1>2. Typed' BY <1>1 DEF IInv, Typed
<1>3. IdsApart' BY DEF IInv, IdsApart, Typed
<1>4. NamedStay' BY DEF NamedStay
<1>5. vault' = "open" => vault = "open" /\ rows'[Owner].id = rows[Owner].id
      BY <1>4, MembersAssumption DEF NamedStay, Direct, Has
<1>6. RequestsAim'
  <2> SUFFICES ASSUME NEW r \in requests' PROVE Aims(r)' BY DEF RequestsAim
  <2>1. CASE r \in requests BY <1>5, <2>1 DEF IInv, RequestsAim, Aims
  <2>2. CASE r.op = "ungrant" BY <2>2 DEF Aims, ById, ByGroup
  <2> QED BY <1>1, <2>1, <2>2
<1> QED BY <1>2, <1>3, <1>4, <1>6 DEF IInv

(* A door goes on to its next count, or to the row. *)
LEMMA Counting ==
    ASSUME IInv, NEW q \in requests, q.op \in ById, NEW op \in ById, GoesOn(q, op),
           UNCHANGED <<vault, rows, grants, lastId, named, caught>>
    PROVE  IInv'
<1> DEFINE r == [q EXCEPT !.op = op]
<1>1. q \in RequestType /\ Aims(q) BY DEF IInv, Typed, RequestsAim
<1>2. op \in Ops /\ op \notin ByGroup BY DEF ById, ByGroup, Ops
<1>3. r \in RequestType /\ r.op = op /\ r.id = q.id /\ r.user = q.user
      BY <1>1, <1>2 DEF RequestType
<1>4. requests' = (requests \ {q}) \cup {r} BY DEF GoesOn
<1> HIDE DEF r
<1>5. Aims(r) BY <1>1, <1>2, <1>3 DEF Aims
<1>6. Typed' BY <1>3, <1>4 DEF IInv, Typed
<1>7. IdsApart' BY DEF IInv, IdsApart
<1>8. RequestsAim' BY <1>4, <1>5 DEF IInv, RequestsAim, Aims
<1>9. NamedStay' BY DEF IInv, NamedStay, Direct, Has
<1> QED BY <1>6, <1>7, <1>8, <1>9 DEF IInv

(* Every step keeps the invariant. *)
LEMMA Step == IInv /\ [Next]_vars => IInv'
<1> SUFFICES ASSUME IInv, [Next]_vars PROVE IInv' OBVIOUS
<1>0. Typed /\ IdsApart /\ RequestsAim /\ NamedStay BY DEF IInv
<1>0a. Owner \in Users /\ NoGroup \notin Groups BY MembersAssumption
<1>0b. \A u \in Users : rows[u] \in RowType BY <1>0 DEF Typed
<1>0c. \A q \in requests : q \in RequestType /\ Aims(q) BY <1>0 DEF Typed, RequestsAim
<1>0d. NoRow \in RowType /\ NoRow.id = 0 BY DEF NoRow, RowType, Roles
<1>1. CASE UNCHANGED vars
  BY <1>0, <1>1 DEF vars, IInv, Typed, IdsApart, RequestsAim, Aims, NamedStay, Direct, Has
<1>2. ASSUME NEW u \in Users, DoorAsks(u) PROVE IInv'
  <2>1. rows[u].via \in Groups \cup {NoGroup} BY <1>0b DEF RowType
  <2>2. "grants" \in ById /\ NoRole \in Roles \cup {NoRole} BY DEF ById
  <2> QED BY <1>2, <2>1, <2>2, OwnerApart, AskedById DEF DoorAsks
<1>3. ASSUME NEW c \in Users, NEW u \in Users, NEW g \in Groups, DeliverBegins(c, u, g)
      PROVE IInv'
  <2>1. "insert" \in Ops \ ById /\ "insert" \notin ByGroup BY DEF Ops, ById, ByGroup
  <2>2. grants[g] \in Roles \cup {NoRole} BY <1>0 DEF Typed
  <2> QED BY <1>0, <1>3, <2>1, <2>2, AskedOtherwise DEF DeliverBegins, Typed
<1>4. ASSUME NEW u \in Users, NEW role \in Roles, NameBegins(u, role) PROVE IInv'
  <2>1. CASE Has(u)
    <3>1. "assign" \in ById BY DEF ById
    <3> QED BY <1>4, <2>1, <3>1, OwnerApart, AskedById DEF NameBegins
  <2>2. CASE ~Has(u)
    <3>1. "insert" \in Ops \ ById /\ "insert" \notin ByGroup BY DEF Ops, ById, ByGroup
    <3>2. rows[u].id = 0 BY <2>2 DEF Has
    <3> QED BY <1>0, <1>4, <2>2, <3>1, <3>2, AskedOtherwise DEF NameBegins, Typed
  <2> QED BY <2>1, <2>2
<1>5. ASSUME NEW u \in Users, NEW role \in Roles, RoleBegins(u, role) PROVE IInv'
  <2>1. "role" \in ById BY DEF ById
  <2> QED BY <1>5, <2>1, OwnerApart, AskedById DEF RoleBegins, Direct
<1>6. ASSUME NEW u \in Users, RemoveBegins(u) PROVE IInv'
  <2>1. "remove" \in ById BY DEF ById
  <2> QED BY <1>6, <2>1, OwnerApart, AskedById DEF RemoveBegins, Direct
<1>7. ASSUME NEW g \in Groups, NEW role \in Roles, GiveGroup(g, role) PROVE IInv'
  <2>1. "regrade" \in Ops \ ById BY DEF Ops, ById
  <2>2. grants' \in [Groups -> Roles \cup {NoRole}] BY <1>0, <1>7 DEF GiveGroup, Typed
  <2> QED BY <1>0a, <1>7, <2>1, <2>2, AskedOtherwise DEF GiveGroup
<1>8. ASSUME NEW g \in Groups, TakeFromGroup(g) PROVE IInv'
  <2>1. "revoke" \in Ops \ ById BY DEF Ops, ById
  <2>2. grants' \in [Groups -> Roles \cup {NoRole}] BY <1>0, <1>8 DEF TakeFromGroup, Typed
  <2> QED BY <1>0a, <1>8, <2>1, <2>2, AskedOtherwise DEF TakeFromGroup
<1>9. ASSUME NEW u \in Users, NEW g \in Groups, JoinGroup(u, g) PROVE IInv'
  BY <1>0, <1>9 DEF JoinGroup, IInv, Typed, IdsApart, RequestsAim, Aims, NamedStay, Direct, Has
<1>10. ASSUME NEW u \in Users, NEW g \in Groups, LeaveGroup(u, g) PROVE IInv'
  <2>1. "revokeOne" \in Ops \ ById BY DEF Ops, ById
  <2> QED BY <1>0, <1>10, <2>1, AskedOtherwise DEF LeaveGroup, Typed
<1>11. ASSUME NEW g \in Groups, DeleteGroup(g) PROVE IInv'
  <2>1. "dissolve" \in Ops \ ById BY DEF Ops, ById
  <2> QED BY <1>0, <1>0a, <1>11, <2>1, AskedOtherwise DEF DeleteGroup, Typed
<1>12. CASE DeleteVault
  <2> DEFINE q == Request("erase", Owner, NoRole, NoGroup, 0)
  <2>1. Asks(q) /\ vault' = "emptied" /\ rows' = [u \in Users |-> NoRow]
        /\ UNCHANGED <<grants, groups, inGroup, lastId, named, caught>>
        BY <1>12 DEF DeleteVault
  <2>2. q \in RequestType /\ q.op = "erase" BY <1>0a, <2>1, Asked DEF Ops
  <2> HIDE DEF q
  <2>3. requests' = requests \cup {q} BY <2>1 DEF Asks
  <2>4. Typed' BY <1>0, <1>0d, <2>1, <2>2, <2>3 DEF Typed
  <2>5. IdsApart' BY <1>0, <1>0d, <2>1 DEF IdsApart, Typed
  <2>6. RequestsAim' BY <1>0, <1>0d, <2>1, <2>2, <2>3 DEF RequestsAim, Aims, ById, ByGroup
  <2>7. NamedStay' BY <2>1 DEF NamedStay
  <2> QED BY <2>4, <2>5, <2>6, <2>7 DEF IInv
<1>13. ASSUME NEW q \in requests, Insert(q) PROVE IInv'
  <2>1. CASE Has(q.user)
    <3>1. UNCHANGED <<vault, rows, grants, lastId, named, caught>> /\ Ends(q)
          BY <1>13, <2>1 DEF Insert
    <3> QED BY <1>0, <1>0b, <3>1, Ending DEF Typed, NamedStay, Direct, Has
  <2>2. CASE ~Has(q.user)
    <3> DEFINE row == [id |-> lastId + 1, role |-> q.role, via |-> q.group]
    <3>1. /\ rows' = [rows EXCEPT ![q.user] = row] /\ lastId' = lastId + 1
          /\ requests' = requests \ {q} /\ UNCHANGED <<vault, grants, caught>>
          /\ named' = IF q.group = NoGroup THEN named \cup {q.user} ELSE named
          BY <1>13, <2>2 DEF Insert, Ends
    <3>2. q.user \in Users /\ rows[q.user].id = 0 BY <1>0c, <2>2 DEF RequestType, Has
    <3>3. row \in RowType /\ row.id = lastId + 1 /\ row.via = q.group /\ lastId \in Nat
          BY <1>0, <1>0c DEF RowType, RequestType, Typed
    <3> HIDE DEF row
    <3>4. Typed' BY <1>0, <3>1, <3>2, <3>3 DEF Typed
    <3>5. \A u \in Users : /\ rows'[u] = IF u = q.user THEN row ELSE rows[u]
                           /\ rows[u].id \in Nat
          BY <1>0, <1>0b, <3>1 DEF Typed, RowType
    <3>6. IdsApart' BY <1>0, <3>1, <3>2, <3>3, <3>5 DEF IdsApart
    <3>7. vault = "open" => q.user # Owner BY <1>0, <2>2 DEF NamedStay, Direct
    <3>8. RequestsAim'
      <4> SUFFICES ASSUME NEW r \in requests PROVE Aims(r)' BY <3>1 DEF RequestsAim
      <4>1. Aims(r) /\ r.id \in Nat BY <1>0c DEF RequestType
      <4> QED BY <1>0a, <3>1, <3>2, <3>3, <3>5, <3>7, <4>1 DEF Aims
    <3>9. NamedStay'
      <4> SUFFICES ASSUME vault = "open"
                   PROVE  (/\ \A u \in named : Direct(u) \/ u \in caught
                           /\ Direct(Owner) /\ rows[Owner].role = "owner")'
          BY <3>1 DEF NamedStay
      <4>1. rows'[Owner] = rows[Owner] BY <1>0a, <3>5, <3>7
      <4> QED BY <1>0, <2>2, <3>1, <3>2, <3>3, <3>5, <4>1 DEF NamedStay, Direct, Has
    <3> QED BY <3>4, <3>6, <3>8, <3>9 DEF IInv
  <2> QED BY <2>1, <2>2
<1>14. ASSUME NEW q \in requests, Assign(q) PROVE IInv'
  <2>1. Ends(q) /\ UNCHANGED <<vault, grants, lastId, caught>> /\ q.user \in Users
        BY <1>0c, <1>14 DEF Assign, RequestType
  <2>2. q.op = "assign" BY <1>14 DEF Assign
  <2>3. q.id # 0 /\ (vault = "open" => q.id # rows[Owner].id) BY <1>0c, <2>2 DEF Aims, ById
  <2>4. CASE rows[q.user].id # q.id
    <3>1. UNCHANGED <<rows, named>> BY <1>14, <2>4 DEF Assign
    <3> QED BY <1>0, <1>0b, <2>1, <3>1, Ending DEF Typed, NamedStay, Direct, Has
  <2>5. CASE rows[q.user].id = q.id
    <3> DEFINE row == Assigned(rows[q.user], q.role)
    <3>1. rows' = [rows EXCEPT ![q.user] = row] /\ named' = named \cup {q.user}
          BY <1>0, <1>14, <2>1, <2>5 DEF Assign, Typed
    <3>2. row \in RowType /\ row.id = rows[q.user].id /\ row.via = NoGroup
          BY <1>0b, <1>0c, <2>1 DEF Assigned, RowType, RequestType
    <3> HIDE DEF row
    <3>3. \A u \in Users : rows'[u] = IF u = q.user THEN row ELSE rows[u] BY <1>0, <3>1 DEF Typed
    <3>4. rows' \in [Users -> RowType] /\ named' \subseteq Users
          BY <1>0, <2>1, <3>1, <3>2 DEF Typed
    <3>5. vault' = "open" => NamedStay'
      <4> SUFFICES ASSUME vault = "open" PROVE NamedStay' BY <2>1
      <4>1. q.user # Owner BY <2>3, <2>5
      <4> QED BY <1>0, <1>0a, <2>1, <2>3, <2>5, <3>1, <3>2, <3>3, <4>1
              DEF NamedStay, Direct, Has, Typed
    <3>6. \A u \in Users : rows'[u].id \in {0, rows[u].id} BY <3>2, <3>3
    <3>7. grants' \in [Groups -> Roles \cup {NoRole}] BY <1>0, <2>1 DEF Typed
    <3> QED BY <2>1, <3>4, <3>5, <3>6, <3>7, Ending
  <2> QED BY <2>4, <2>5
<1>15. ASSUME NEW q \in requests, UpdateRole(q) PROVE IInv'
  <2>1. /\ Ends(q) /\ UNCHANGED <<vault, grants, lastId, named, caught>> /\ q.op = "role"
        /\ rows' = [u \in Users |-> IF rows[u].id = q.id THEN [rows[u] EXCEPT !.role = q.role]
                                     ELSE rows[u]]
        BY <1>15 DEF UpdateRole
  <2>2. vault = "open" => q.id # rows[Owner].id BY <1>0c, <2>1 DEF Aims, ById
  <2>3. \A u \in Users : /\ rows'[u] \in RowType
                         /\ rows'[u].id = rows[u].id /\ rows'[u].via = rows[u].via
    <3>1. \A u \in Users : [rows[u] EXCEPT !.role = q.role] \in RowType
                           /\ [rows[u] EXCEPT !.role = q.role].id = rows[u].id
                           /\ [rows[u] EXCEPT !.role = q.role].via = rows[u].via
          BY <1>0b, <1>0c DEF RowType, RequestType
    <3> QED BY <1>0b, <2>1, <3>1
  <2>4. rows' \in [Users -> RowType] BY <2>1, <2>3
  <2>5. vault = "open" => NamedStay'
        BY <1>0, <1>0a, <2>1, <2>2, <2>3 DEF NamedStay, Direct, Has, Typed
  <2> QED BY <1>0, <2>1, <2>3, <2>4, <2>5, Ending DEF Typed
<1>16. ASSUME NEW q \in requests, Remove(q) PROVE IInv'
  <2>1. /\ Ends(q) /\ UNCHANGED <<vault, grants, lastId, caught>> /\ q.op = "remove"
        /\ rows' = [u \in Users |-> IF rows[u].id = q.id THEN NoRow ELSE rows[u]]
        /\ named' = IF rows[q.user].id = q.id THEN named \ {q.user} ELSE named
        BY <1>16 DEF Remove, WithoutId
  <2>2. /\ vault = "open" => q.id # rows[Owner].id
        /\ \A u \in Users : rows[u].id = q.id => u = q.user
        BY <1>0c, <2>1 DEF Aims, ById
  <2>3. /\ rows' \in [Users -> RowType] /\ named' \subseteq Users
        /\ \A u \in Users : rows'[u].id \in {0, rows[u].id}
        BY <1>0, <1>0b, <1>0d, <2>1 DEF Typed
  <2>4. vault = "open" => NamedStay'
        BY <1>0, <1>0a, <2>1, <2>2 DEF NamedStay, Direct, Has, Typed
  <2> QED BY <1>0, <2>1, <2>3, <2>4, Ending DEF Typed
<1>17. ASSUME NEW q \in requests, Evict(q) PROVE IInv'
  <2>1. /\ Ends(q) /\ UNCHANGED <<vault, grants, lastId, named>> /\ q.op = "evict"
        /\ rows' = [u \in Users |-> IF rows[u].id = q.id THEN NoRow ELSE rows[u]]
        /\ caught' = IF rows[q.user].id = q.id /\ Direct(q.user) THEN caught \cup {q.user}
                     ELSE caught
        BY <1>17 DEF Evict, WithoutId
  <2>2. /\ vault = "open" => q.id # rows[Owner].id
        /\ \A u \in Users : rows[u].id = q.id => u = q.user
        BY <1>0c, <2>1 DEF Aims, ById
  <2>3. /\ rows' \in [Users -> RowType]
        /\ \A u \in Users : rows'[u].id \in {0, rows[u].id}
        BY <1>0b, <1>0d, <2>1
  <2>4. vault = "open" => NamedStay'
        BY <1>0, <1>0a, <2>1, <2>2 DEF NamedStay, Direct, Has, Typed
  <2> QED BY <1>0, <2>1, <2>3, <2>4, Ending DEF Typed
<1>18. ASSUME NEW q \in requests, Regrade(q) PROVE IInv'
  <2>1. /\ Ends(q) /\ UNCHANGED <<vault, grants, lastId, named, caught>> /\ q.op = "regrade"
        /\ rows' = [u \in Users |-> IF Has(u) /\ rows[u].via = q.group
                                     THEN [rows[u] EXCEPT !.role = q.role] ELSE rows[u]]
        BY <1>18 DEF Regrade
  <2>2. q.group # NoGroup BY <1>0a, <1>0c, <2>1 DEF Aims, ByGroup
  <2>3. \A u \in Users : /\ rows'[u] \in RowType
                         /\ rows'[u].id = rows[u].id /\ rows'[u].via = rows[u].via
    <3>1. \A u \in Users : [rows[u] EXCEPT !.role = q.role] \in RowType
                           /\ [rows[u] EXCEPT !.role = q.role].id = rows[u].id
                           /\ [rows[u] EXCEPT !.role = q.role].via = rows[u].via
          BY <1>0b, <1>0c DEF RowType, RequestType
    <3> QED BY <1>0b, <2>1, <3>1
  <2>4. rows' \in [Users -> RowType] BY <2>1, <2>3
  <2>5. vault = "open" => NamedStay'
        BY <1>0, <1>0a, <2>1, <2>2, <2>3 DEF NamedStay, Direct, Has, Typed
  <2> QED BY <1>0, <2>1, <2>3, <2>4, <2>5, Ending DEF Typed
<1>19. ASSUME NEW q \in requests, Revoke(q) PROVE IInv'
  <2> DEFINE out == HandedOut(q.group, IF q.op = "revokeOne" THEN {q.user} ELSE Users)
  <2>1. /\ Ends(q) \/ GoesOn(q, "ungrant")
        /\ UNCHANGED <<vault, grants, lastId, named, caught>> /\ q.op \in ByGroup
        /\ rows' = [u \in Users |-> IF u \in out THEN NoRow ELSE rows[u]]
        BY <1>19 DEF Revoke, ByGroup
  <2>2. \A u \in out : rows[u].via # NoGroup
        BY <1>0a, <1>0c, <2>1 DEF Aims, HandedOut
  <2> HIDE DEF out
  <2>3. /\ rows' \in [Users -> RowType]
        /\ \A u \in Users : rows'[u].id \in {0, rows[u].id}
        BY <1>0b, <1>0d, <2>1
  <2>4. vault = "open" => NamedStay'
        BY <1>0, <1>0a, <2>1, <2>2 DEF NamedStay, Direct, Has, Typed
  <2> QED BY <1>0, <2>1, <2>3, <2>4, Ending DEF Typed
<1>20. ASSUME NEW q \in requests, Ungrant(q) PROVE IInv'
  <2>1. Ends(q) /\ UNCHANGED <<vault, rows, lastId, named, caught>>
        /\ grants' \in [Groups -> Roles \cup {NoRole}]
        BY <1>0, <1>20 DEF Ungrant, Typed
  <2> QED BY <1>0, <1>0b, <2>1, Ending DEF Typed, NamedStay, Direct, Has
<1>21. ASSUME NEW q \in requests, Erase(q) PROVE IInv'
  <2>1. Ends(q) /\ UNCHANGED <<rows, lastId, named, caught>> /\ vault' # "open"
        /\ grants' \in [Groups -> Roles \cup {NoRole}]
        BY <1>0, <1>21 DEF Erase, Typed
  <2> QED BY <1>0, <1>0b, <2>1, Ending DEF Typed
<1>22. ASSUME NEW q \in requests, CountGrants(q) PROVE IInv'
  <2>1. q.op \in ById /\ {"members", "evict"} \subseteq ById BY <1>22 DEF CountGrants, ById
  <2> QED BY <1>22, <2>1, Counting DEF CountGrants
<1>23. ASSUME NEW q \in requests, CountMembers(q) PROVE IInv'
  <2>1. q.op \in ById /\ "evict" \in ById BY <1>23 DEF CountMembers, ById
  <2>2. CASE Ends(q)
    <3>1. UNCHANGED <<vault, rows, grants, lastId, named, caught>> BY <1>23 DEF CountMembers
    <3> QED BY <1>0, <1>0b, <2>2, <3>1, Ending DEF Typed, NamedStay, Direct, Has
  <2>3. CASE GoesOn(q, "evict")
    BY <1>23, <2>1, <2>3, Counting DEF CountMembers
  <2> QED BY <1>23, <2>2, <2>3 DEF CountMembers
<1> QED
  BY <1>1, <1>2, <1>3, <1>4, <1>5, <1>6, <1>7, <1>8, <1>9, <1>10, <1>11, <1>12, <1>13, <1>14,
     <1>15, <1>16, <1>17, <1>18, <1>19, <1>20, <1>21, <1>22, <1>23 DEF Next

-----------------------------------------------------------------------------
(* vault.go, AddVaultMember: whoever was added by name keeps a key of their *)
(* own whatever happens to groups and grants, except those whose row a door *)
(* closed that had read it before; and the owner keeps the owner's.         *)
THEOREM NamedKeepTheirKey == Spec => []NamedStay
<1>1. IInv => NamedStay BY DEF IInv
<1> QED BY <1>1, Start, Step, PTL DEF Spec

(* The types of VaultMembers: what is asked for is of a row that was made. *)
MembersKept ==
    /\ vault \in {"open", "emptied", "gone"} /\ lastId <= MaxId
    /\ groups \subseteq Groups /\ inGroup \subseteq Users \X Groups /\ caught \subseteq Users
    /\ \A q \in requests : q.id <= lastId /\ q.slot \in 1..MaxRequests

(* A request begins, of a row or of none. *)
LEMMA MembersAsk ==
    ASSUME IInv, MembersKept, NEW op, NEW u \in Users, NEW role, NEW g, NEW id \in {0, rows[u].id},
           Asks(Request(op, u, role, g, id)), vault' \in {"open", "emptied", "gone"},
           groups' \subseteq Groups, inGroup' \subseteq Users \X Groups, UNCHANGED <<lastId, caught>>
    PROVE  MembersKept'
<1> DEFINE slot == CHOOSE n \in Free : TRUE
<1>1. slot \in 1..MaxRequests BY DEF Asks, Free
<1>2. PICK q : q = Request(op, u, role, g, id) OBVIOUS
<1>3. q = [op |-> op, user |-> u, role |-> role, group |-> g, id |-> id, slot |-> slot]
      BY <1>2 DEF Request
<1> HIDE DEF slot
<1>4. id <= lastId BY DEF IInv, Typed, IdsApart
<1>5. requests' = requests \cup {q} /\ q.id = id /\ q.slot = slot BY <1>2, <1>3 DEF Asks
<1> QED BY <1>1, <1>4, <1>5 DEF MembersKept

(* A request ends, or goes on. *)
LEMMA MembersGoOn ==
    ASSUME IInv, MembersKept, NEW q \in requests, NEW op, Ends(q) \/ GoesOn(q, op),
           vault' \in {"open", "emptied", "gone"}, UNCHANGED <<groups, inGroup>>,
           caught' \subseteq Users, lastId' \in {lastId, lastId + 1}, lastId' <= MaxId
    PROVE  MembersKept'
<1>1. q \in RequestType /\ q.id \in Nat /\ lastId \in Nat
      BY DEF IInv, Typed, RequestType
<1>2. [q EXCEPT !.op = op].id = q.id /\ [q EXCEPT !.op = op].slot = q.slot
      BY <1>1 DEF RequestType
<1>3. \A r \in requests : r.id \in Nat /\ r.id <= lastId /\ r.slot \in 1..MaxRequests
      BY DEF IInv, Typed, RequestType, MembersKept
<1>4. \A r \in requests : r.id <= lastId' BY <1>1, <1>3
<1>5. ASSUME NEW r \in requests' PROVE r.id <= lastId' /\ r.slot \in 1..MaxRequests
  <2>1. r \in requests \/ r = [q EXCEPT !.op = op] BY DEF Ends, GoesOn
  <2> QED BY <1>2, <1>3, <1>4, <2>1
<1> QED BY <1>5 DEF MembersKept

LEMMA MembersStep == IInv /\ MembersKept /\ [Next]_vars => MembersKept'
<1> SUFFICES ASSUME IInv, MembersKept, [Next]_vars PROVE MembersKept' OBVIOUS
<1>0. /\ vault \in {"open", "emptied", "gone"} /\ lastId \in Nat /\ lastId <= MaxId
      /\ groups \subseteq Groups /\ inGroup \subseteq Users \X Groups /\ caught \subseteq Users
      /\ Owner \in Users
      BY MembersAssumption DEF MembersKept, IInv, Typed
<1>1. CASE UNCHANGED vars BY <1>1 DEF vars, MembersKept
<1>2. ASSUME NEW u \in Users, NEW role, DoorAsks(u) \/ RemoveBegins(u) \/ RoleBegins(u, role)
      PROVE  MembersKept'
      BY <1>0, <1>2, MembersAsk DEF DoorAsks, RemoveBegins, RoleBegins
<1>3. ASSUME NEW c \in Users, NEW u \in Users, NEW g \in Groups, DeliverBegins(c, u, g)
      PROVE  MembersKept'
      BY <1>0, <1>3, MembersAsk DEF DeliverBegins
<1>4. ASSUME NEW u \in Users, NEW role \in Roles, NameBegins(u, role) PROVE MembersKept'
      BY <1>0, <1>4, MembersAsk DEF NameBegins
<1>5. ASSUME NEW g \in Groups, NEW role, GiveGroup(g, role) \/ TakeFromGroup(g) PROVE MembersKept'
      BY <1>0, <1>5, MembersAsk DEF GiveGroup, TakeFromGroup
<1>6. ASSUME NEW u \in Users, NEW g \in Groups, JoinGroup(u, g) PROVE MembersKept'
      BY <1>0, <1>6 DEF JoinGroup, MembersKept
<1>7. ASSUME NEW u \in Users, NEW g \in Groups, LeaveGroup(u, g) PROVE MembersKept'
  <2>1. inGroup' \subseteq Users \X Groups BY <1>0, <1>7 DEF LeaveGroup
  <2> QED BY <1>0, <1>7, <2>1, MembersAsk DEF LeaveGroup
<1>8. ASSUME NEW g \in Groups, DeleteGroup(g) PROVE MembersKept'
  <2>1. inGroup' \subseteq Users \X Groups /\ groups' \subseteq Groups BY <1>0, <1>8 DEF DeleteGroup
  <2> QED BY <1>0, <1>8, <2>1, MembersAsk DEF DeleteGroup
<1>9. CASE DeleteVault BY <1>0, <1>9, MembersAsk DEF DeleteVault
<1>10. ASSUME NEW q \in requests, Insert(q) PROVE MembersKept'
  <2>1. lastId' \in {lastId, lastId + 1} /\ lastId' <= MaxId
        BY <1>0, <1>10, MembersAssumption DEF Insert
  <2> QED BY <1>0, <1>10, <2>1, MembersGoOn DEF Insert
<1>11. ASSUME NEW q \in requests, Assign(q) \/ UpdateRole(q) \/ Remove(q) \/ Regrade(q) \/ Ungrant(q)
                                  \/ Erase(q)
       PROVE  MembersKept'
       BY <1>0, <1>11, MembersGoOn DEF Assign, UpdateRole, Remove, Regrade, Ungrant, Erase
<1>12. ASSUME NEW q \in requests, Evict(q) PROVE MembersKept'
  <2>1. q.user \in Users BY DEF IInv, Typed, RequestType
  <2>2. caught' \subseteq Users BY <1>0, <1>12, <2>1 DEF Evict
  <2> QED BY <1>0, <1>12, <2>2, MembersGoOn DEF Evict
<1>13. ASSUME NEW q \in requests, Revoke(q) PROVE MembersKept'
  <2>1. (Ends(q) \/ GoesOn(q, "ungrant")) /\ UNCHANGED <<vault, groups, inGroup, lastId, caught>>
        BY <1>13 DEF Revoke
  <2> QED BY <1>0, <2>1, MembersGoOn
<1>14. ASSUME NEW q \in requests, CountGrants(q) \/ CountMembers(q) PROVE MembersKept'
  <2>1. PICK op : Ends(q) \/ GoesOn(q, op) BY <1>14 DEF CountGrants, CountMembers
  <2>2. UNCHANGED <<vault, groups, inGroup, lastId, caught>>
        BY <1>14 DEF CountGrants, CountMembers
  <2> QED BY <1>0, <2>1, <2>2, MembersGoOn
<1> QED BY <1>1, <1>2, <1>3, <1>4, <1>5, <1>6, <1>7, <1>8, <1>9, <1>10, <1>11, <1>12, <1>13, <1>14
        DEF Next

(* vault.go: the members, the grants and the requests keep their types, and *)
(* ids are of rows that were made.                                          *)
THEOREM MembersTyped == Spec => []TypeOK
<1>1. Init => MembersKept BY MembersAssumption DEF Init, MembersKept
<1>2. IInv /\ MembersKept => TypeOK
  <2> SUFFICES ASSUME IInv, MembersKept PROVE TypeOK OBVIOUS
  <2>1. lastId \in 1..MaxId /\ MaxId \in Nat BY MembersAssumption DEF IInv, Typed, MembersKept
  <2>2. rows \in [Users -> [id : 0..MaxId, role : Roles \cup {"owner", NoRole},
                            via : Groups \cup {NoGroup}]]
    <3>1. \A u \in Users : rows[u] \in RowType /\ rows[u].id <= lastId
          BY DEF IInv, Typed, IdsApart
    <3>2. ASSUME NEW n \in Nat, n <= lastId PROVE n \in 0..MaxId BY <2>1, <3>2
    <3>3. \A u \in Users : rows[u].id \in Nat BY <3>1 DEF RowType
    <3>4. \A u \in Users : rows[u].id \in 0..MaxId BY <3>1, <3>2, <3>3
    <3> QED BY <3>1, <3>4 DEF IInv, Typed, RowType
  <2>3. ASSUME NEW q \in requests
        PROVE  q \in [op : Ops, user : Users, role : Roles \cup {NoRole},
                      group : Groups \cup {NoGroup}, id : 0..MaxId, slot : 1..MaxRequests]
    <3>1. q \in RequestType /\ q.id <= lastId /\ q.slot \in 1..MaxRequests
          BY DEF IInv, Typed, MembersKept
    <3>2. q.id \in 0..MaxId BY <2>1, <3>1 DEF RequestType
    <3> QED BY <3>1, <3>2 DEF RequestType
  <2> QED BY <2>1, <2>2, <2>3 DEF IInv, Typed, MembersKept, TypeOK
<1> QED BY <1>1, <1>2, Start, Step, MembersStep, PTL DEF Spec

-----------------------------------------------------------------------------
(***************************************************************************)
(* The other modules, each proved where its name says: AccountProofs and   *)
(* WatchProofs, over the variables that the run lays theirs over.  An      *)
(* instance of one of their modules there, Known!Items for one, and the    *)
(* instance of it in MCSideBySide, Items, are two copies of the same       *)
(* definitions; so each lemma expands all those that the module's Init,    *)
(* Next and property are made of, once, and for the rest goes by name.     *)
(* VaultMembers is idle while one of them runs.                            *)
(***************************************************************************)
Known == INSTANCE AccountProofs WITH
    factor <- x1, now <- x2, requests <- x3, sessions <- x4, seeds <- x5, resets <- x6,
    landed <- x7, spent <- x8, rolledBack <- x9,
    Users <- People, role <- x1, changing <- x2,
    item <- x1, list <- x2, form <- x3, edits <- x4, written <- x5,
    user <- x1, ticket <- x3, asked <- x4, usedStep <- x6, taken <- x7, shown <- x8, crossed <- x9,
    Groups <- Teams, Namespaces <- Spaces,
    groups <- x1, members <- x2, grants <- x3, scopes <- x4, adding <- x5, deletion <- x6,
    request <- x7, changes <- x8, meanwhile <- x9,
    row <- x1, made <- x2, apps <- x3, presents <- x4, known <- x5, talks <- x6, altered <- x7,
    rekeys <- x8, served <- x9, swapped <- x10,
    scm <- x2, argo <- x3, job <- x4, gone <- x5, crashes <- x6
Watched == INSTANCE WatchProofs WITH
    clock <- x1, log <- x2, restarts <- x3, said <- x4, pass <- x5, window <- x6,
    alert <- x2, synced <- x3, filed <- x4, sync <- x5, missed <- x6,
    Ports <- {}, Names <- {}, MaxChanges <- MaxMoves,
    present <- x1, records <- x2, changes <- x3, zone <- x4, open <- x5, poll <- x6, scan <- x7,
    requests <- x8, quiet <- x9,
    cluster <- x1, deploys <- x2, postureLock <- x3, caller <- x4, src <- x5, stored <- x6,
    stage <- x1, moved <- x2, hour <- x3, nodes <- x4, edges <- x5, walks <- x6, lastError <- x7,
    lapped <- x8,
    Things <- Samples!AllObjects, Releases <- Samples!Later,
    Tokens <- {<<>>, [name \in {"default"} |-> "false"]},
    Wanted <- Samples!AskedRules, Holders <- {1, 2},
    MaxFixes <- 2, MaxRollouts <- 1,
    thing <- x1, tokens <- x2, advice <- x3, asked <- x4, rollouts <- x5
Found == INSTANCE WatchProofs WITH
    clock <- x1, log <- x2, restarts <- x3, said <- x4, pass <- x5, window <- x6,
    alert <- x2, synced <- x3, filed <- x4, sync <- x5, missed <- x6,
    SecurityRules <- <<>>, TrafficRules <- <<>>, Names <- Aliases,
    MaxChanges <- MaxMoves, MaxRequests <- MaxAsked,
    present <- x1, records <- x2, changes <- x3, zone <- x4, open <- x5, poll <- x6, scan <- x7,
    requests <- x8, quiet <- x9,
    cluster <- x1, deploys <- x2, postureLock <- x3, caller <- x4, src <- x5, stored <- x6,
    stage <- x1, moved <- x2, hour <- x3, nodes <- x4, edges <- x5, walks <- x6, lastError <- x7,
    lapped <- x8,
    Things <- Samples!AllObjects, Releases <- Samples!Later,
    Tokens <- {<<>>, [name \in {"default"} |-> "false"]},
    Wanted <- Samples!AskedRules, Holders <- {1, 2},
    MaxFixes <- 2, MaxRollouts <- 1,
    thing <- x1, tokens <- x2, advice <- x3, asked <- x4, rollouts <- x5

-----------------------------------------------------------------------------
(* While the items run, a step is one of VaultItems. *)
LEMMA ItemsRun ==
    /\ Known!Items!ItemBounds
    /\ PartsInit /\ part = "items" => Known!Items!Init
    /\ [PartsNext]_allVars /\ part = "items" => [Known!Items!Next]_(Known!Items!vars)
    /\ [PartsNext]_allVars /\ part = "items" /\ [Known!Items!EditsKept]_(Known!Items!vars) =>
         [Items!EditsKept]_allVars
<1>1. (Items!Init => Known!Items!Init) /\ (Items!Next => Known!Items!Next)
      /\ (Items!ItemBounds => Known!Items!ItemBounds)
      /\ (Known!Items!EditsKept => Items!EditsKept)
      BY Zenon DEF Items!ItemBounds, Items!vars, Items!Blank, Items!Unmade, Items!Nothing,
                  Items!Closed, Items!Live, Items!Init, Items!CreateItem, Items!LoadItems,
                  Items!OpenEditor, Items!Reveal, Items!Cancel, Items!SaveItem, Items!Updated,
                  Items!UpdateVaultItem, Items!DeleteItem, Items!Next, Items!EditsKept,
                  Items!Cardinality, Known!Items!ItemBounds, Known!Items!vars, Known!Items!Blank,
                  Known!Items!Unmade, Known!Items!Nothing, Known!Items!Closed, Known!Items!Live,
                  Known!Items!Init, Known!Items!CreateItem, Known!Items!LoadItems,
                  Known!Items!OpenEditor, Known!Items!Reveal, Known!Items!Cancel,
                  Known!Items!SaveItem, Known!Items!Updated, Known!Items!UpdateVaultItem,
                  Known!Items!DeleteItem, Known!Items!Next, Known!Items!EditsKept,
                  Known!Items!Cardinality
<1>2. Known!Items!ItemBounds BY <1>1, PartsAssumption
<1>3. PartsInit /\ part = "items" => Known!Items!Init BY <1>1 DEF PartsInit
<1>4. PartsNext /\ part = "items" => Items!Next BY DEF PartsNext
<1>5. UNCHANGED allVars => UNCHANGED Known!Items!vars BY DEF allVars, Known!Items!vars
<1>6. PartsNext /\ part = "items" /\ UNCHANGED Known!Items!vars => UNCHANGED allVars
      BY DEF PartsNext, allVars, Known!Items!vars, Keeps6, Keeps7, Keeps9
<1> QED BY <1>1, <1>2, <1>3, <1>4, <1>5, <1>6

(* While the vault's code runs, a step is one of VaultCode. *)
LEMMA CodeRun ==
    /\ Known!CodeBounds
    /\ PartsInit /\ part = "code" => Known!Init
    /\ [PartsNext]_allVars /\ part = "code" => [Known!Next]_(Known!vars)
    /\ Known!ResetEndsSessions => Code!ResetEndsSessions
    /\ [PartsNext]_allVars /\ part = "code" /\ [Known!LetsInOnce]_(Known!vars) =>
         [Code!LetsInOnce]_allVars
<1>1. (Code!Init => Known!Init) /\ (Code!Next => Known!Next)
      /\ (Code!CodeBounds => Known!CodeBounds)
      /\ (Known!LetsInOnce => Code!LetsInOnce)
      /\ (Known!ResetEndsSessions => Code!ResetEndsSessions)
      BY Zenon DEF Code!CodeBounds, Code!vars, Code!NoSeed, Code!NoFactor, Code!Init, Code!Free,
                  Code!Begins, Code!Ends, Code!Tick, Code!SetupBegins, Code!SetupRow,
                  Code!SetupSaves, Code!CodeBegins, Code!WrongCode, Code!Locked, Code!Matches,
                  Code!CodeRefused, Code!CodeFails, Code!Unspent, Code!CodeAccepted, Code!Enable,
                  Code!IssueSession, Code!ResetBegins, Code!ResetRow, Code!ResetWrites, Code!Next,
                  Code!Accepted, Code!LetsInOnce, Code!ResetEndsSessions, Known!CodeBounds,
                  Known!vars, Known!NoSeed, Known!NoFactor, Known!Init, Known!Free, Known!Begins,
                  Known!Ends, Known!Tick, Known!SetupBegins, Known!SetupRow, Known!SetupSaves,
                  Known!CodeBegins, Known!WrongCode, Known!Locked, Known!Matches,
                  Known!CodeRefused, Known!CodeFails, Known!Unspent, Known!CodeAccepted,
                  Known!Enable, Known!IssueSession, Known!ResetBegins, Known!ResetRow,
                  Known!ResetWrites, Known!Next, Known!Accepted, Known!LetsInOnce,
                  Known!ResetEndsSessions
<1>2. Known!CodeBounds BY <1>1, PartsAssumption
<1>3. PartsInit /\ part = "code" => Known!Init BY <1>1 DEF PartsInit
<1>4. PartsNext /\ part = "code" => Code!Next BY DEF PartsNext
<1>5. UNCHANGED allVars => UNCHANGED Known!vars BY DEF allVars, Known!vars
<1>6. PartsNext /\ part = "code" /\ UNCHANGED Known!vars => UNCHANGED allVars
      BY DEF PartsNext, allVars, Known!vars
<1> QED BY <1>1, <1>2, <1>3, <1>4, <1>5, <1>6

(* While the sign-in runs, a step is one of SignIn. *)
LEMMA AccountRun ==
    /\ Known!Setup!SignInBounds
    /\ PartsInit /\ part = "signin" => Known!Setup!Init
    /\ [PartsNext]_allVars /\ part = "signin" => [Known!Setup!Next]_(Known!Setup!vars)
    /\ Known!Setup!SetupIsWhole => Account!SetupIsWhole
    /\ [PartsNext]_allVars /\ part = "signin" /\ [Known!Setup!CodesUnlockOnce]_(Known!Setup!vars) =>
         [Account!CodesUnlockOnce]_allVars
<1>1. (Account!Init => Known!Setup!Init) /\ (Account!Next => Known!Setup!Next)
      /\ (Account!SignInBounds => Known!Setup!SignInBounds)
      /\ (Known!Setup!CodesUnlockOnce => Account!CodesUnlockOnce)
      /\ (Known!Setup!SetupIsWhole => Account!SetupIsWhole)
      BY Zenon DEF Account!SignInBounds, Account!vars, Account!None, Account!Given, Account!SetUp,
                  Account!Init, Account!Free, Account!Begins, Account!Ends, Account!Login,
                  Account!TicketExpires, Account!MayInit, Account!SetupInit, Account!InitWrites,
                  Account!SetupConfirm, Account!ConfirmWrites, Account!ResetUserMFA,
                  Account!ChangePassword, Account!UnlockSecrets, Account!checkSignInCode,
                  Account!Unlock, Account!Refuse, Account!Tick, Account!Restart, Account!Next,
                  Account!SetupIsWhole, Account!CodesUnlockOnce, Known!Setup!SignInBounds,
                  Known!Setup!vars, Known!Setup!None, Known!Setup!Given, Known!Setup!SetUp,
                  Known!Setup!Init, Known!Setup!Free, Known!Setup!Begins, Known!Setup!Ends,
                  Known!Setup!Login, Known!Setup!TicketExpires, Known!Setup!MayInit,
                  Known!Setup!SetupInit, Known!Setup!InitWrites, Known!Setup!SetupConfirm,
                  Known!Setup!ConfirmWrites, Known!Setup!ResetUserMFA, Known!Setup!ChangePassword,
                  Known!Setup!UnlockSecrets, Known!Setup!checkSignInCode, Known!Setup!Unlock,
                  Known!Setup!Refuse, Known!Setup!Tick, Known!Setup!Restart, Known!Setup!Next,
                  Known!Setup!SetupIsWhole, Known!Setup!CodesUnlockOnce
<1>2. Known!Setup!SignInBounds BY <1>1, PartsAssumption
<1>3. PartsInit /\ part = "signin" => Known!Setup!Init BY <1>1 DEF PartsInit
<1>4. PartsNext /\ part = "signin" => Account!Next BY DEF PartsNext
<1>5. UNCHANGED allVars => UNCHANGED Known!Setup!vars BY DEF allVars, Known!Setup!vars
<1>6. PartsNext /\ part = "signin" /\ UNCHANGED Known!Setup!vars => UNCHANGED allVars
      BY DEF PartsNext, allVars, Known!Setup!vars
<1> QED BY <1>1, <1>2, <1>3, <1>4, <1>5, <1>6

(* While the roles run, a step is one of Accounts. *)
LEMMA RootsRun ==
    /\ Known!Root!AccountsAssumption
    /\ PartsInit /\ part = "roots" => Known!Root!Init
    /\ [PartsNext]_allVars /\ part = "roots" => [Known!Root!Next]_(Known!Root!vars)
    /\ [PartsNext]_allVars /\ part = "roots" /\ [Known!Root!LeavesBoundsOnlyMiscounted]_(Known!Root!vars) =>
         [Roots!LeavesBoundsOnlyMiscounted]_allVars
<1>1. (Roots!Init => Known!Root!Init) /\ (Roots!Next => Known!Root!Next)
      /\ (Roots!AccountsAssumption => Known!Root!AccountsAssumption)
      /\ (Known!Root!LeavesBoundsOnlyMiscounted => Roots!LeavesBoundsOnlyMiscounted)
      BY Zenon DEF Roots!AccountsAssumption, Roots!vars, Roots!Roles, Roots!NoAccount,
                  Roots!Deleted, Roots!Accounts, Roots!Roots, Roots!Init, Roots!CreateUser,
                  Roots!Free, Roots!Asks, Roots!MayChange, Roots!RoleChangeBegins,
                  Roots!MayDelete, Roots!DeletionBegins, Roots!Write, Roots!Next,
                  Roots!WithinBounds, Roots!LeavesBoundsOnlyMiscounted, Roots!Cardinality,
                  Roots!IsFiniteSet, Known!Root!AccountsAssumption, Known!Root!vars,
                  Known!Root!Roles, Known!Root!NoAccount, Known!Root!Deleted, Known!Root!Accounts,
                  Known!Root!Roots, Known!Root!Init, Known!Root!CreateUser, Known!Root!Free,
                  Known!Root!Asks, Known!Root!MayChange, Known!Root!RoleChangeBegins,
                  Known!Root!MayDelete, Known!Root!DeletionBegins, Known!Root!Write,
                  Known!Root!Next, Known!Root!WithinBounds, Known!Root!LeavesBoundsOnlyMiscounted,
                  Known!Root!Cardinality, Known!Root!IsFiniteSet
<1>2. Known!Root!AccountsAssumption BY <1>1, PartsAssumption
<1>3. PartsInit /\ part = "roots" => Known!Root!Init BY <1>1 DEF PartsInit
<1>4. PartsNext /\ part = "roots" => Roots!Next BY DEF PartsNext
<1>5. UNCHANGED allVars => UNCHANGED Known!Root!vars BY DEF allVars, Known!Root!vars
<1>6. PartsNext /\ part = "roots" /\ UNCHANGED Known!Root!vars => UNCHANGED allVars
      BY DEF PartsNext, allVars, Known!Root!vars, Keeps3, Keeps6, Keeps7, Keeps9
<1> QED BY <1>1, <1>2, <1>3, <1>4, <1>5, <1>6

(* While the windows run, a step is one of ErrorWindows. *)
LEMMA WindowsRun ==
    /\ Watched!WindowBounds
    /\ PartsInit /\ part = "windows" => Watched!Init
    /\ [PartsNext]_allVars /\ part = "windows" => [Watched!Next]_(Watched!vars)
    /\ Watched!NeverInflated => Windows!NeverInflated
<1>1. (Windows!Init => Watched!Init) /\ (Windows!Next => Watched!Next)
      /\ (Windows!WindowBounds => Watched!WindowBounds)
      /\ (Watched!NeverInflated => Windows!NeverInflated)
      BY Zenon DEF Windows!WindowBounds, Windows!vars, Windows!Times, Windows!bucketOf,
                  Windows!Buckets, Windows!NoPass, Windows!NoRow, Windows!NewLog, Windows!Init,
                  Windows!Tick, Windows!Say, Windows!RestartContainer, Windows!Replace,
                  Windows!ListPods, Windows!Readable, Windows!Sums, Windows!ReadLog,
                  Windows!Overwritten, Windows!PersistErrorWindows, Windows!Abandoned,
                  Windows!Next, Windows!NeverInflated, Windows!Cardinality, Watched!WindowBounds,
                  Watched!vars, Watched!Times, Watched!bucketOf, Watched!Buckets, Watched!NoPass,
                  Watched!NoRow, Watched!NewLog, Watched!Init, Watched!Tick, Watched!Say,
                  Watched!RestartContainer, Watched!Replace, Watched!ListPods, Watched!Readable,
                  Watched!Sums, Watched!ReadLog, Watched!Overwritten, Watched!PersistErrorWindows,
                  Watched!Abandoned, Watched!Next, Watched!NeverInflated, Watched!Cardinality
<1>2. Watched!WindowBounds BY <1>1, PartsAssumption
<1>3. PartsInit /\ part = "windows" => Watched!Init BY <1>1 DEF PartsInit
<1>4. PartsNext /\ part = "windows" => Windows!Next BY DEF PartsNext
<1>5. UNCHANGED allVars => UNCHANGED Watched!vars BY DEF allVars, Watched!vars
<1> QED BY <1>1, <1>2, <1>3, <1>4, <1>5

(* While the grants run, a step is one of Access. *)
LEMMA AllowedRun ==
    /\ Known!Allowed!AccessAssumption
    /\ PartsInit /\ part = "access" => Known!Allowed!Init
    /\ [PartsNext]_allVars /\ part = "access" => [Known!Allowed!Next]_(Known!Allowed!vars)
    /\ Known!Allowed!AllowedAsDecided => Allowed!AllowedAsDecided
<1>1. (Allowed!Init => Known!Allowed!Init) /\ (Allowed!Next => Known!Allowed!Next)
      /\ (Allowed!AccessAssumption => Known!Allowed!AccessAssumption)
      /\ (Known!Allowed!AllowedAsDecided => Allowed!AllowedAsDecided)
      BY Zenon DEF Allowed!Person, Allowed!Subjects, Allowed!AccessAssumption,
                  Allowed!ManageClusters, Allowed!vars, Allowed!tables, Allowed!Unsaid,
                  Allowed!Decisions, Allowed!NoRequest, Allowed!ScopesOf, Allowed!Moment,
                  Allowed!Nothing, Allowed!Notes, Allowed!Init, Allowed!Rows, Allowed!Overruled,
                  Allowed!ReadGroups, Allowed!ReadGroupGrants, Allowed!ReadOwnGrants,
                  Allowed!ReadGroupsAgain, Allowed!Shown, Allowed!ReadScopes, Allowed!Answered, Allowed!Counted,
                  Known!Allowed!Shown,
                  Allowed!SetGrant, Allowed!GrantPermission, Allowed!RevokePermission,
                  Allowed!AddNamespaceScope, Allowed!RemoveNamespaceScope, Allowed!AddGroupMember,
                  Allowed!CreateMember, Allowed!RemoveGroupMember, Allowed!DeletionGoes,
                  Allowed!DeleteGroup, Allowed!DeleteMembers, Allowed!DeleteGrants,
                  Allowed!DeleteScopes, Allowed!Next, Allowed!OwnDecisionsRule,
                  Allowed!ScopedSeeTheirsOnly, Allowed!AllowedAsDecided, Known!Allowed!Person,
                  Known!Allowed!Subjects, Known!Allowed!AccessAssumption,
                  Known!Allowed!ManageClusters, Known!Allowed!vars, Known!Allowed!tables,
                  Known!Allowed!Unsaid, Known!Allowed!Decisions, Known!Allowed!NoRequest,
                  Known!Allowed!ScopesOf, Known!Allowed!Moment, Known!Allowed!Nothing,
                  Known!Allowed!Notes, Known!Allowed!Init, Known!Allowed!Rows,
                  Known!Allowed!Overruled, Known!Allowed!ReadGroups,
                  Known!Allowed!ReadGroupGrants, Known!Allowed!ReadOwnGrants,
                  Known!Allowed!ReadGroupsAgain, Known!Allowed!ReadScopes, Known!Allowed!Answered,
                  Known!Allowed!Counted, Known!Allowed!SetGrant, Known!Allowed!GrantPermission,
                  Known!Allowed!RevokePermission, Known!Allowed!AddNamespaceScope,
                  Known!Allowed!RemoveNamespaceScope, Known!Allowed!AddGroupMember,
                  Known!Allowed!CreateMember, Known!Allowed!RemoveGroupMember,
                  Known!Allowed!DeletionGoes, Known!Allowed!DeleteGroup,
                  Known!Allowed!DeleteMembers, Known!Allowed!DeleteGrants,
                  Known!Allowed!DeleteScopes, Known!Allowed!Next, Known!Allowed!OwnDecisionsRule,
                  Known!Allowed!ScopedSeeTheirsOnly, Known!Allowed!AllowedAsDecided
<1>2. Known!Allowed!AccessAssumption BY <1>1, PartsAssumption
<1>3. PartsInit /\ part = "access" => Known!Allowed!Init BY <1>1 DEF PartsInit
<1>4. PartsNext /\ part = "access" => Allowed!Next BY DEF PartsNext
<1>5. UNCHANGED allVars => UNCHANGED Known!Allowed!vars BY DEF allVars, Known!Allowed!vars
<1> QED BY <1>1, <1>2, <1>3, <1>4, <1>5

(* While the connection runs, a step is one of HostKeys. *)
LEMMA ConnectionRun ==
    /\ Known!Keys!HostAssumption
    /\ PartsInit /\ part = "connection" => Known!Keys!Init
    /\ [PartsNext]_allVars /\ part = "connection" => [Known!Keys!Next]_(Known!Keys!vars)
    /\ [PartsNext]_allVars /\ part = "connection" /\ [Known!Keys!PinHolds]_(Known!Keys!vars) =>
         [Connection!PinHolds]_allVars
<1>1. (Connection!Init => Known!Keys!Init) /\ (Connection!Next => Known!Keys!Next)
      /\ (Connection!HostAssumption => Known!Keys!HostAssumption)
      /\ (Known!Keys!PinHolds => Connection!PinHolds)
      BY Zenon DEF Connection!HostAssumption, Connection!NotPinned, Connection!NoRow,
                  Connection!vars, Connection!Init, Connection!Free, Connection!Request,
                  Connection!Begins, Connection!GoesOn, Connection!Ends, Connection!Counted,
                  Connection!ServerRekeys, Connection!CreateGitopsRepo, Connection!Reads,
                  Connection!TestGitopsRepoConnection, Connection!ListBranches,
                  Connection!Checkout, Connection!Accepts, Connection!ToPin, Connection!Talks,
                  Connection!RecordFailure, Connection!RecordSuccess, Connection!Forgets,
                  Connection!Changed, Connection!UpdateGitopsRepo, Connection!Save,
                  Connection!DeleteGitopsRepo, Connection!Delete, Connection!AppComesOrGoes,
                  Connection!pinnedKnownHosts, Connection!CloneBegins, Connection!Clone,
                  Connection!Remembered, Connection!rememberKnownHosts, Connection!Next,
                  Connection!Meant, Connection!Stale, Connection!OnlyAsMeant,
                  Connection!PinIsOfItsServer, Connection!PinHolds, Known!Keys!HostAssumption,
                  Known!Keys!NotPinned, Known!Keys!NoRow, Known!Keys!vars, Known!Keys!Init,
                  Known!Keys!Free, Known!Keys!Request, Known!Keys!Begins, Known!Keys!GoesOn,
                  Known!Keys!Ends, Known!Keys!Counted, Known!Keys!ServerRekeys,
                  Known!Keys!CreateGitopsRepo, Known!Keys!Reads,
                  Known!Keys!TestGitopsRepoConnection, Known!Keys!ListBranches,
                  Known!Keys!Checkout, Known!Keys!Accepts, Known!Keys!ToPin, Known!Keys!Talks,
                  Known!Keys!RecordFailure, Known!Keys!RecordSuccess, Known!Keys!Forgets,
                  Known!Keys!Changed, Known!Keys!UpdateGitopsRepo, Known!Keys!Save,
                  Known!Keys!DeleteGitopsRepo, Known!Keys!Delete, Known!Keys!AppComesOrGoes,
                  Known!Keys!pinnedKnownHosts, Known!Keys!CloneBegins, Known!Keys!Clone,
                  Known!Keys!Remembered, Known!Keys!rememberKnownHosts, Known!Keys!Next,
                  Known!Keys!Meant, Known!Keys!Stale, Known!Keys!OnlyAsMeant,
                  Known!Keys!PinIsOfItsServer, Known!Keys!PinHolds
<1>2. Known!Keys!HostAssumption BY <1>1, PartsAssumption
<1>3. PartsInit /\ part = "connection" => Known!Keys!Init BY <1>1 DEF PartsInit
<1>4. PartsNext /\ part = "connection" => Connection!Next BY DEF PartsNext
<1>5. UNCHANGED allVars => UNCHANGED Known!Keys!vars BY DEF allVars, Known!Keys!vars
<1>6. PartsNext /\ part = "connection" /\ UNCHANGED Known!Keys!vars => UNCHANGED allVars
      BY DEF PartsNext, allVars, Known!Keys!vars
<1> QED BY <1>1, <1>2, <1>3, <1>4, <1>5, <1>6

(* While the rules run, a step is one of EdgeAlerts without findings. *)
LEMMA EdgeRulesRun ==
    /\ Watched!Edge!EdgeAssumption
    /\ PartsInit /\ part = "rules" => Watched!Edge!Init
    /\ [PartsNext]_allVars /\ part = "rules" => [Watched!Edge!Next]_(Watched!Edge!vars)
    /\ [PartsNext]_allVars /\ part = "rules" /\ [Watched!Edge!ClosesOnlyQuiet]_(Watched!Edge!vars) =>
         [EdgeRules!ClosesOnlyQuiet]_allVars
<1>1. (EdgeRules!Init => Watched!Edge!Init) /\ (EdgeRules!Next => Watched!Edge!Next)
      /\ (EdgeRules!EdgeAssumption => Watched!Edge!EdgeAssumption)
      /\ (Watched!Edge!ClosesOnlyQuiet => EdgeRules!ClosesOnlyQuiet)
      BY Zenon DEF EdgeRules!Rules, EdgeRules!Findings, EdgeRules!Things, EdgeRules!Requests,
                  EdgeRules!EdgeAssumption, EdgeRules!vars, EdgeRules!NoPoll, EdgeRules!NoScan,
                  EdgeRules!Unborn, EdgeRules!Init, EdgeRules!Reads, EdgeRules!PollBegins,
                  EdgeRules!PollCloudflare, EdgeRules!Judged, EdgeRules!measureCloudflareWindow,
                  EdgeRules!JudgeLooks, EdgeRules!JudgeWrites, EdgeRules!ScanBegins,
                  EdgeRules!PollCloudflareExposure, EdgeRules!ListRecords,
                  EdgeRules!LookUpAddresses, EdgeRules!Exposed, EdgeRules!probeExposedPorts,
                  EdgeRules!LookUpNames, EdgeRules!ReconcileLooks, EdgeRules!Gone,
                  EdgeRules!Reconciles, EdgeRules!ScanEnds, EdgeRules!Loads, EdgeRules!Moves,
                  EdgeRules!Ends, EdgeRules!UpdateCloudflareZone, EdgeRules!DeleteAlerts,
                  EdgeRules!DeleteZone, EdgeRules!NowPolls, EdgeRules!NowScans, EdgeRules!Changes,
                  EdgeRules!Passes, EdgeRules!Handles, EdgeRules!Next, EdgeRules!ClosesOnlyQuiet,
                  EdgeRules!ToSet, Watched!Edge!Rules, Watched!Edge!Findings, Watched!Edge!Things,
                  Watched!Edge!Requests, Watched!Edge!EdgeAssumption, Watched!Edge!vars,
                  Watched!Edge!NoPoll, Watched!Edge!NoScan, Watched!Edge!Unborn,
                  Watched!Edge!Init, Watched!Edge!Reads, Watched!Edge!PollBegins,
                  Watched!Edge!PollCloudflare, Watched!Edge!Judged,
                  Watched!Edge!measureCloudflareWindow, Watched!Edge!JudgeLooks,
                  Watched!Edge!JudgeWrites, Watched!Edge!ScanBegins,
                  Watched!Edge!PollCloudflareExposure, Watched!Edge!ListRecords,
                  Watched!Edge!LookUpAddresses, Watched!Edge!Exposed,
                  Watched!Edge!probeExposedPorts, Watched!Edge!LookUpNames,
                  Watched!Edge!ReconcileLooks, Watched!Edge!Gone, Watched!Edge!Reconciles,
                  Watched!Edge!ScanEnds, Watched!Edge!Loads, Watched!Edge!Moves,
                  Watched!Edge!Ends, Watched!Edge!UpdateCloudflareZone, Watched!Edge!DeleteAlerts,
                  Watched!Edge!DeleteZone, Watched!Edge!NowPolls, Watched!Edge!NowScans,
                  Watched!Edge!Changes, Watched!Edge!Passes, Watched!Edge!Handles,
                  Watched!Edge!Next, Watched!Edge!ClosesOnlyQuiet, Watched!Edge!ToSet
<1>2. Watched!Edge!EdgeAssumption BY <1>1, PartsAssumption
<1>3. PartsInit /\ part = "rules" => Watched!Edge!Init BY <1>1 DEF PartsInit
<1>4. PartsNext /\ part = "rules" => EdgeRules!Next BY DEF PartsNext
<1>5. UNCHANGED allVars => UNCHANGED Watched!Edge!vars BY DEF allVars, Watched!Edge!vars
<1>6. PartsNext /\ part = "rules" /\ UNCHANGED Watched!Edge!vars => UNCHANGED allVars
      BY DEF PartsNext, allVars, Watched!Edge!vars
<1> QED BY <1>1, <1>2, <1>3, <1>4, <1>5, <1>6

(* While the findings run, a step is one of EdgeAlerts without rules. *)
LEMMA EdgeFindingsRun ==
    /\ Found!Edge!EdgeAssumption
    /\ PartsInit /\ part = "findings" => Found!Edge!Init
    /\ [PartsNext]_allVars /\ part = "findings" => [Found!Edge!Next]_(Found!Edge!vars)
    /\ [PartsNext]_allVars /\ part = "findings" /\ [Found!Edge!ClosesOnlyQuiet]_(Found!Edge!vars) =>
         [EdgeFindings!ClosesOnlyQuiet]_allVars
<1>1. (EdgeFindings!Init => Found!Edge!Init) /\ (EdgeFindings!Next => Found!Edge!Next)
      /\ (EdgeFindings!EdgeAssumption => Found!Edge!EdgeAssumption)
      /\ (Found!Edge!ClosesOnlyQuiet => EdgeFindings!ClosesOnlyQuiet)
      BY Zenon DEF EdgeFindings!Rules, EdgeFindings!Findings, EdgeFindings!Things,
                  EdgeFindings!Requests, EdgeFindings!EdgeAssumption, EdgeFindings!vars,
                  EdgeFindings!NoPoll, EdgeFindings!NoScan, EdgeFindings!Unborn,
                  EdgeFindings!Init, EdgeFindings!Reads, EdgeFindings!PollBegins,
                  EdgeFindings!PollCloudflare, EdgeFindings!Judged,
                  EdgeFindings!measureCloudflareWindow, EdgeFindings!JudgeLooks,
                  EdgeFindings!JudgeWrites, EdgeFindings!ScanBegins,
                  EdgeFindings!PollCloudflareExposure, EdgeFindings!ListRecords,
                  EdgeFindings!LookUpAddresses, EdgeFindings!Exposed,
                  EdgeFindings!probeExposedPorts, EdgeFindings!LookUpNames,
                  EdgeFindings!ReconcileLooks, EdgeFindings!Gone, EdgeFindings!Reconciles,
                  EdgeFindings!ScanEnds, EdgeFindings!Loads, EdgeFindings!Moves,
                  EdgeFindings!Ends, EdgeFindings!UpdateCloudflareZone, EdgeFindings!DeleteAlerts,
                  EdgeFindings!DeleteZone, EdgeFindings!NowPolls, EdgeFindings!NowScans,
                  EdgeFindings!Changes, EdgeFindings!Passes, EdgeFindings!Handles,
                  EdgeFindings!Next, EdgeFindings!ClosesOnlyQuiet, EdgeFindings!ToSet,
                  Found!Edge!Rules, Found!Edge!Findings, Found!Edge!Things, Found!Edge!Requests,
                  Found!Edge!EdgeAssumption, Found!Edge!vars, Found!Edge!NoPoll,
                  Found!Edge!NoScan, Found!Edge!Unborn, Found!Edge!Init, Found!Edge!Reads,
                  Found!Edge!PollBegins, Found!Edge!PollCloudflare, Found!Edge!Judged,
                  Found!Edge!measureCloudflareWindow, Found!Edge!JudgeLooks,
                  Found!Edge!JudgeWrites, Found!Edge!ScanBegins,
                  Found!Edge!PollCloudflareExposure, Found!Edge!ListRecords,
                  Found!Edge!LookUpAddresses, Found!Edge!Exposed, Found!Edge!probeExposedPorts,
                  Found!Edge!LookUpNames, Found!Edge!ReconcileLooks, Found!Edge!Gone,
                  Found!Edge!Reconciles, Found!Edge!ScanEnds, Found!Edge!Loads, Found!Edge!Moves,
                  Found!Edge!Ends, Found!Edge!UpdateCloudflareZone, Found!Edge!DeleteAlerts,
                  Found!Edge!DeleteZone, Found!Edge!NowPolls, Found!Edge!NowScans,
                  Found!Edge!Changes, Found!Edge!Passes, Found!Edge!Handles, Found!Edge!Next,
                  Found!Edge!ClosesOnlyQuiet, Found!Edge!ToSet
<1>2. Found!Edge!EdgeAssumption BY <1>1, PartsAssumption
<1>3. PartsInit /\ part = "findings" => Found!Edge!Init BY <1>1 DEF PartsInit
<1>4. PartsNext /\ part = "findings" => EdgeFindings!Next BY DEF PartsNext
<1>5. UNCHANGED allVars => UNCHANGED Found!Edge!vars BY DEF allVars, Found!Edge!vars
<1>6. PartsNext /\ part = "findings" /\ UNCHANGED Found!Edge!vars => UNCHANGED allVars
      BY DEF PartsNext, allVars, Found!Edge!vars
<1> QED BY <1>1, <1>2, <1>3, <1>4, <1>5, <1>6

(* While the history runs, a step is one of EdgeHistory. *)
LEMMA HistoryRun ==
    /\ Watched!Hist!HistoryBounds
    /\ PartsInit /\ part = "history" => Watched!Hist!Init
    /\ [PartsNext]_allVars /\ part = "history" => [Watched!Hist!Next]_(Watched!Hist!vars)
    /\ Watched!Hist!HistoryIsFiled => History!HistoryIsFiled
<1>1. (History!Init => Watched!Hist!Init) /\ (History!Next => Watched!Hist!Next)
      /\ (History!HistoryBounds => Watched!Hist!HistoryBounds)
      /\ (Watched!Hist!HistoryIsFiled => History!HistoryIsFiled)
      BY Zenon DEF History!HistoryBounds, History!Never, History!Overlap, History!vars,
                  History!Registered, History!Unsent, History!NoPass, History!Init, History!Since,
                  History!Begins, History!PollCloudflare, History!pollCloudflareZone,
                  History!cloudflareAlertTargets, History!AskedFor, History!MovedOn,
                  History!Fetch, History!Stamp, History!File,
                  History!Filed, History!CreateCloudflareZone, History!UpdateCloudflareZone,
                  History!Crash, History!Send, History!List, History!Tick, History!Next,
                  History!Belongs, History!OutOfReach, History!HistoryIsFiled, History!Max,
                  Watched!Hist!HistoryBounds, Watched!Hist!Never, Watched!Hist!Overlap,
                  Watched!Hist!vars, Watched!Hist!Registered, Watched!Hist!Unsent,
                  Watched!Hist!NoPass, Watched!Hist!Init, Watched!Hist!Since, Watched!Hist!Begins,
                  Watched!Hist!PollCloudflare, Watched!Hist!pollCloudflareZone,
                  Watched!Hist!cloudflareAlertTargets, Watched!Hist!AskedFor,
                  Watched!Hist!MovedOn, Watched!Hist!Fetch, Watched!Hist!Stamp,
                  Watched!Hist!File, Watched!Hist!Filed, Watched!Hist!CreateCloudflareZone,
                  Watched!Hist!UpdateCloudflareZone, Watched!Hist!Crash, Watched!Hist!Send,
                  Watched!Hist!List, Watched!Hist!Tick, Watched!Hist!Next, Watched!Hist!Belongs,
                  Watched!Hist!OutOfReach, Watched!Hist!HistoryIsFiled, Watched!Hist!Max
<1>2. Watched!Hist!HistoryBounds BY <1>1, PartsAssumption
<1>3. PartsInit /\ part = "history" => Watched!Hist!Init BY <1>1 DEF PartsInit
<1>4. PartsNext /\ part = "history" => History!Next BY DEF PartsNext
<1>5. UNCHANGED allVars => UNCHANGED Watched!Hist!vars BY DEF allVars, Watched!Hist!vars
<1> QED BY <1>1, <1>2, <1>3, <1>4, <1>5

(* While the repositories run, a step is one of Provisioning. *)
LEMMA RepositoriesRun ==
    /\ Known!Repo!ProvisioningBounds
    /\ PartsInit /\ part = "provisioning" => Known!Repo!Init
    /\ [PartsNext]_allVars /\ part = "provisioning" => [Known!Repo!Next]_(Known!Repo!vars)
    /\ [PartsNext]_allVars /\ part = "provisioning"
         /\ [Known!Repo!RowsGoKnowingly /\ Known!Repo!KeysOpen']_(Known!Repo!vars) =>
         [Repositories!RowsGoKnowingly /\ Repositories!KeysOpen']_allVars
<1>1. (Repositories!Init => Known!Repo!Init) /\ (Repositories!Next => Known!Repo!Next)
      /\ (Repositories!ProvisioningBounds => Known!Repo!ProvisioningBounds)
      /\ (Known!Repo!RowsGoKnowingly => Repositories!RowsGoKnowingly)
      BY Zenon DEF Repositories!ProvisioningBounds, Repositories!vars, Repositories!Requests,
                  Repositories!unregistered, Repositories!Unborn, Repositories!Row,
                  Repositories!Pending, Repositories!Of, Repositories!Init, Repositories!At,
                  Repositories!UnderWay, Repositories!Begins, Repositories!Moves,
                  Repositories!MovesWarned, Repositories!Ends, Repositories!Answers,
                  Repositories!Fails, Repositories!Born, Repositories!CreateRepository,
                  Repositories!CreatePending, Repositories!ApproveRepository,
                  Repositories!CreatesRepository, Repositories!AddsDeployKey,
                  Repositories!DeletesRepository, Repositories!AddRepository,
                  Repositories!CreateApplication, Repositories!DeleteApplication,
                  Repositories!ProvisionSCM, Repositories!TakesKey, Repositories!ProvisionKeyQuietly,
                  Known!Repo!TakesKey,
                  Repositories!ProvisionKey, Repositories!ProvisionCommit,
                  Repositories!ProvisionArgo, Repositories!ProvisionUnlistAny,
                  Repositories!ProvisionUnlist, Repositories!ProvisionList,
                  Repositories!RejectRepository, Repositories!RejectDrop,
                  Repositories!DeleteRepository, Repositories!DeleteSCM, Repositories!DeleteArgo,
                  Repositories!DeleteRow, Repositories!ImportRepository, Repositories!Crash,
                  Repositories!Provision, Repositories!Deletes, Repositories!Request,
                  Repositories!Next, Repositories!Told, Repositories!Opens, Repositories!KeysOpen,
                  Repositories!LosesKnowingly, Repositories!RowsGoKnowingly,
                  Repositories!Cardinality, Known!Repo!ProvisioningBounds, Known!Repo!vars,
                  Known!Repo!Requests, Known!Repo!unregistered, Known!Repo!Unborn, Known!Repo!Row,
                  Known!Repo!Pending, Known!Repo!Of, Known!Repo!Init, Known!Repo!At,
                  Known!Repo!UnderWay, Known!Repo!Begins, Known!Repo!Moves,
                  Known!Repo!MovesWarned, Known!Repo!Ends, Known!Repo!Answers, Known!Repo!Fails,
                  Known!Repo!Born, Known!Repo!CreateRepository, Known!Repo!CreatePending,
                  Known!Repo!ApproveRepository, Known!Repo!CreatesRepository,
                  Known!Repo!AddsDeployKey, Known!Repo!DeletesRepository,
                  Known!Repo!AddRepository, Known!Repo!CreateApplication,
                  Known!Repo!DeleteApplication, Known!Repo!ProvisionSCM,
                  Known!Repo!ProvisionKeyQuietly, Known!Repo!ProvisionKey,
                  Known!Repo!ProvisionCommit, Known!Repo!ProvisionArgo,
                  Known!Repo!ProvisionUnlistAny, Known!Repo!ProvisionUnlist,
                  Known!Repo!ProvisionList, Known!Repo!RejectRepository, Known!Repo!RejectDrop,
                  Known!Repo!DeleteRepository, Known!Repo!DeleteSCM, Known!Repo!DeleteArgo,
                  Known!Repo!DeleteRow, Known!Repo!ImportRepository, Known!Repo!Crash,
                  Known!Repo!Provision, Known!Repo!Deletes, Known!Repo!Request, Known!Repo!Next,
                  Known!Repo!Told, Known!Repo!Opens, Known!Repo!KeysOpen,
                  Known!Repo!LosesKnowingly, Known!Repo!RowsGoKnowingly, Known!Repo!Cardinality
<1>2. Known!Repo!ProvisioningBounds BY <1>1, PartsAssumption
<1>3. PartsInit /\ part = "provisioning" => Known!Repo!Init BY <1>1 DEF PartsInit
<1>4. PartsNext /\ part = "provisioning" => Repositories!Next BY DEF PartsNext
<1>5. UNCHANGED allVars => UNCHANGED Known!Repo!vars BY DEF allVars, Known!Repo!vars
<1>6. PartsNext /\ part = "provisioning" /\ UNCHANGED Known!Repo!vars => UNCHANGED allVars
      BY DEF PartsNext, allVars, Known!Repo!vars, Keeps7, Keeps9
<1>7. Known!Repo!KeysOpen' => Repositories!KeysOpen'
      BY Zenon DEF Repositories!KeysOpen, Repositories!Opens, Repositories!Told,
                   Repositories!unregistered, Known!Repo!KeysOpen, Known!Repo!Opens,
                   Known!Repo!Told, Known!Repo!unregistered
<1> QED BY <1>1, <1>2, <1>3, <1>4, <1>5, <1>6, <1>7

(* While the posture is assessed, a step is one of Posture. *)
LEMMA AssessmentRun ==
    /\ Watched!Board!PostureBounds
    /\ PartsInit /\ part = "posture" => Watched!Board!Init
    /\ [PartsNext]_allVars /\ part = "posture" => [Watched!Board!Next]_(Watched!Board!vars)
    /\ Watched!Board!ScopedIsExact => Assessment!ScopedIsExact
<1>1. (Assessment!Init => Watched!Board!Init) /\ (Assessment!Next => Watched!Board!Next)
      /\ (Assessment!PostureBounds => Watched!Board!PostureBounds)
      /\ (Watched!Board!ScopedIsExact => Assessment!ScopedIsExact)
      BY Zenon DEF Assessment!PostureBounds, Assessment!vars, Assessment!Rules,
                  Assessment!Kinds, Assessment!Namespaces, Assessment!Absent, Assessment!Free,
                  Assessment!Inventories, Assessment!Init, Assessment!Assessed,
                  Assessment!FailedBy, Assessment!postureResultOf, Assessment!Total,
                  Assessment!ResultOf, Assessment!NamespaceCounts, Assessment!SeenBy,
                  Assessment!ResourcesSeen, Assessment!evaluatePosture,
                  Assessment!summarizePosture, Assessment!InScope, Assessment!scopePosture,
                  Assessment!ClusterChanges, Assessment!PollPosture, Assessment!Asks,
                  Assessment!TakesLock, Assessment!FindsOneStored, Assessment!ListKind,
                  Assessment!Releases, Assessment!AssessmentFails,
                  Assessment!buildPostureInventory, Assessment!persistPosture, Assessment!Next,
                  Assessment!Alone, Assessment!ScopedIsExact, Assessment!Cardinality,
                  Assessment!ToSet, Assessment!MapThenSumSet, Assessment!MapThenFoldSet,
                  Watched!Board!PostureBounds, Watched!Board!vars, Watched!Board!Rules,
                  Watched!Board!Kinds, Watched!Board!Namespaces, Watched!Board!Absent,
                  Watched!Board!Free, Watched!Board!Inventories, Watched!Board!Init,
                  Watched!Board!Assessed, Watched!Board!FailedBy, Watched!Board!postureResultOf,
                  Watched!Board!Total, Watched!Board!ResultOf, Watched!Board!NamespaceCounts,
                  Watched!Board!SeenBy, Watched!Board!ResourcesSeen,
                  Watched!Board!evaluatePosture, Watched!Board!summarizePosture,
                  Watched!Board!InScope, Watched!Board!scopePosture,
                  Watched!Board!ClusterChanges, Watched!Board!PollPosture, Watched!Board!Asks,
                  Watched!Board!TakesLock, Watched!Board!FindsOneStored, Watched!Board!ListKind,
                  Watched!Board!Releases, Watched!Board!AssessmentFails,
                  Watched!Board!buildPostureInventory, Watched!Board!persistPosture,
                  Watched!Board!Next, Watched!Board!Alone, Watched!Board!ScopedIsExact,
                  Watched!Board!Cardinality, Watched!Board!ToSet, Watched!Board!MapThenSumSet,
                  Watched!Board!MapThenFoldSet
<1>2. PartsInit /\ part = "posture" => Watched!Board!Init BY <1>1 DEF PartsInit
<1>3. PartsNext /\ part = "posture" => Assessment!Next BY DEF PartsNext
<1>4. UNCHANGED allVars => UNCHANGED Watched!Board!vars BY DEF allVars, Watched!Board!vars
<1>5. Watched!Board!PostureBounds BY <1>1, PartsAssumption
<1> QED BY <1>1, <1>2, <1>3, <1>4, <1>5

(* While the map is kept, a step is one of Topology. *)
LEMMA MapRun ==
    /\ Watched!Chart!TopologyBounds
    /\ PartsInit /\ part = "map" => Watched!Chart!Init
    /\ [PartsNext]_allVars /\ part = "map" => [Watched!Chart!Next]_(Watched!Chart!vars)
    /\ [PartsNext]_allVars /\ part = "map" /\ [Watched!Chart!MapHolds]_(Watched!Chart!vars) =>
         [Map!MapHolds]_allVars
<1>1. (Map!Init => Watched!Chart!Init) /\ (Map!Next => Watched!Chart!Next)
      /\ (Map!TopologyBounds => Watched!Chart!TopologyBounds)
      /\ (Watched!Chart!MapHolds => Map!MapHolds)
      BY Zenon DEF Map!TopologyBounds, Map!vars, Map!Empty, Map!IdlePass, Map!Init,
                  Map!ClusterChanges, Map!Tick, Map!Step, Map!Ends, Map!Discover, Map!Row,
                  Map!SeenAgain, Map!NodeUpsert, Map!EdgeUpsert, Map!Overtakes, Map!StoreNodes,
                  Map!StoreEdges, Map!StoreFails, Map!SeenSince, Map!Deletes, Map!Overdue, Map!Cutoff, Map!PruneEdges,
                  Map!PruneNodes, Map!Crash, Map!EndsOf, Map!Next, Map!Remembers,
                  Map!StoredMapIsClosed, Map!MapHolds, Map!Restrict, Map!Node, Map!External,
                  Map!Edge, Map!EdgeKey, Map!Host, Map!matchWorkloads, Map!matchLabelSelector,
                  Map!Backing, Map!FullNames, Map!byHost, Map!byBareName,
                  Map!isPlausibleExternalHost, Map!LooksReal, Map!resolveHost, Map!ValuesOf,
                  Map!Literal, Map!Addressed, Map!extractCandidates, Map!scanValue,
                  Map!edgesFromConfig, Map!IngressNode,
                  Map!edgesFromIngress, Map!edgesFromIstio, Map!NamespacesMatching, Map!PeersOf,
                  Map!Telling, Map!edgesOfRule, Map!edgesFromNetworkPolicies, Map!confidenceRank,
                  Map!dedupeEdges, Map!Discoverable, Map!discoverTopology, Map!Cardinality,
                  Map!MapThenSumSet, Map!MapThenFoldSet, Watched!Chart!TopologyBounds,
                  Watched!Chart!vars, Watched!Chart!Empty, Watched!Chart!IdlePass,
                  Watched!Chart!Init, Watched!Chart!ClusterChanges, Watched!Chart!Tick,
                  Watched!Chart!Step, Watched!Chart!Ends, Watched!Chart!Discover,
                  Watched!Chart!Row, Watched!Chart!SeenAgain, Watched!Chart!NodeUpsert,
                  Watched!Chart!EdgeUpsert, Watched!Chart!Overtakes, Watched!Chart!StoreNodes,
                  Watched!Chart!StoreEdges, Watched!Chart!StoreFails, Watched!Chart!SeenSince,
                  Watched!Chart!Deletes, Watched!Chart!Overdue, Watched!Chart!Cutoff,
                  Watched!Chart!PruneEdges, Watched!Chart!PruneNodes,
                  Watched!Chart!Crash, Watched!Chart!EndsOf, Watched!Chart!Next,
                  Watched!Chart!Remembers, Watched!Chart!StoredMapIsClosed,
                  Watched!Chart!MapHolds, Watched!Chart!Restrict, Watched!Chart!Node,
                  Watched!Chart!External, Watched!Chart!Edge, Watched!Chart!EdgeKey,
                  Watched!Chart!Host, Watched!Chart!matchWorkloads,
                  Watched!Chart!matchLabelSelector, Watched!Chart!Backing,
                  Watched!Chart!FullNames, Watched!Chart!byHost, Watched!Chart!byBareName,
                  Watched!Chart!isPlausibleExternalHost, Watched!Chart!LooksReal,
                  Watched!Chart!resolveHost, Watched!Chart!ValuesOf,
                  Watched!Chart!Literal, Watched!Chart!Addressed,
                  Watched!Chart!extractCandidates, Watched!Chart!scanValue,
                  Watched!Chart!edgesFromConfig, Watched!Chart!IngressNode,
                  Watched!Chart!edgesFromIngress, Watched!Chart!edgesFromIstio,
                  Watched!Chart!NamespacesMatching, Watched!Chart!PeersOf, Watched!Chart!Telling,
                  Watched!Chart!edgesOfRule, Watched!Chart!edgesFromNetworkPolicies,
                  Watched!Chart!confidenceRank, Watched!Chart!dedupeEdges,
                  Watched!Chart!Discoverable, Watched!Chart!discoverTopology,
                  Watched!Chart!Cardinality, Watched!Chart!MapThenSumSet,
                  Watched!Chart!MapThenFoldSet
<1>2. Watched!Chart!TopologyBounds BY <1>1, PartsAssumption
<1>3. PartsInit /\ part = "map" => Watched!Chart!Init BY <1>1 DEF PartsInit
<1>4. PartsNext /\ part = "map" => Map!Next BY DEF PartsNext
<1>5. UNCHANGED allVars => UNCHANGED Watched!Chart!vars BY DEF allVars, Watched!Chart!vars
<1>6. PartsNext /\ part = "map" /\ UNCHANGED Watched!Chart!vars => UNCHANGED allVars
      BY DEF PartsNext, allVars, Watched!Chart!vars, Keeps9
<1> QED BY <1>1, <1>2, <1>3, <1>4, <1>5, <1>6

(* How a failing rule is fixed is read alike in both instances of it: what an *)
(* object fails, what a fix makes of it, and what a role allows.               *)
LEMMA SameFailures ==
    ASSUME NEW o, NEW as
    PROVE  /\ Fixes!FailedRules(o, as) = Watched!Mend!FailedRules(o, as)
           /\ Fixes!PagesAgreeOn(o, as) <=> Watched!Mend!PagesAgreeOn(o, as)
<1>1. Fixes!WorkloadRules(o, as) = Watched!Mend!WorkloadRules(o, as)
      BY Zenon DEF Fixes!IsPrefix, Fixes!eachContainer, Fixes!CapName, Fixes!CapNames,
          Fixes!baselineCapabilities, Fixes!dangerousCapabilities, Fixes!sensitiveHostPaths,
          Fixes!sensitiveHostPath, Fixes!imageUnpinned, Fixes!seLinuxViolation, Fixes!Fail,
          Fixes!Or, Fixes!Uid, Fixes!NonRoot, Fixes!effectiveSeccomp, Fixes!automountsToken,
          Fixes!Privileged, Fixes!Escalates, Fixes!SensitivePath, Fixes!DangerousCaps,
          Fixes!SecretsInEnv, Fixes!KeepsSomeCaps, Fixes!RunsAsRoot, Fixes!WritableRoot,
          Fixes!Unlimited, Fixes!Unfiltered, Fixes!MovingTag, Fixes!HostPorts, Fixes!Unrequested,
          Fixes!AddsCaps, Fixes!RawSockets, Fixes!DefaultAccount, Fixes!Unwatched, Fixes!Unready,
          Fixes!Relabelled, Fixes!Unconfined, Fixes!ProcUnmasked, Fixes!postureNamespaceExcluded,
          Fixes!distributionComponent, Fixes!PodRules, Fixes!ContextRules, Fixes!ContainerRules,
          Fixes!WorkloadRules, Watched!Mend!IsPrefix, Watched!Mend!eachContainer,
          Watched!Mend!CapName, Watched!Mend!CapNames, Watched!Mend!baselineCapabilities,
          Watched!Mend!dangerousCapabilities, Watched!Mend!sensitiveHostPaths,
          Watched!Mend!sensitiveHostPath, Watched!Mend!imageUnpinned, Watched!Mend!seLinuxViolation,
          Watched!Mend!Fail, Watched!Mend!Or, Watched!Mend!Uid, Watched!Mend!NonRoot,
          Watched!Mend!effectiveSeccomp, Watched!Mend!automountsToken, Watched!Mend!Privileged,
          Watched!Mend!Escalates, Watched!Mend!SensitivePath, Watched!Mend!DangerousCaps,
          Watched!Mend!SecretsInEnv, Watched!Mend!KeepsSomeCaps, Watched!Mend!RunsAsRoot,
          Watched!Mend!WritableRoot, Watched!Mend!Unlimited, Watched!Mend!Unfiltered,
          Watched!Mend!MovingTag, Watched!Mend!HostPorts, Watched!Mend!Unrequested,
          Watched!Mend!AddsCaps, Watched!Mend!RawSockets, Watched!Mend!DefaultAccount,
          Watched!Mend!Unwatched, Watched!Mend!Unready, Watched!Mend!Relabelled,
          Watched!Mend!Unconfined, Watched!Mend!ProcUnmasked, Watched!Mend!postureNamespaceExcluded,
          Watched!Mend!distributionComponent, Watched!Mend!PodRules, Watched!Mend!ContextRules,
          Watched!Mend!ContainerRules, Watched!Mend!WorkloadRules
<1>2. Fixes!FailedRules(o, as) = Watched!Mend!FailedRules(o, as)
      BY Zenon DEF Fixes!IsPrefix, Fixes!eachContainer, Fixes!CapName, Fixes!CapNames,
          Fixes!baselineCapabilities, Fixes!dangerousCapabilities, Fixes!sensitiveHostPaths,
          Fixes!sensitiveHostPath, Fixes!imageUnpinned, Fixes!seLinuxViolation, Fixes!Fail,
          Fixes!Or, Fixes!Uid, Fixes!NonRoot, Fixes!effectiveSeccomp, Fixes!automountsToken,
          Fixes!Privileged, Fixes!Escalates, Fixes!SensitivePath, Fixes!DangerousCaps,
          Fixes!SecretsInEnv, Fixes!KeepsSomeCaps, Fixes!RunsAsRoot, Fixes!WritableRoot,
          Fixes!Unlimited, Fixes!Unfiltered, Fixes!MovingTag, Fixes!HostPorts, Fixes!Unrequested,
          Fixes!AddsCaps, Fixes!RawSockets, Fixes!DefaultAccount, Fixes!Unwatched, Fixes!Unready,
          Fixes!Relabelled, Fixes!Unconfined, Fixes!ProcUnmasked, Fixes!postureNamespaceExcluded,
          Fixes!distributionComponent, Fixes!PodRules, Fixes!ContextRules, Fixes!ContainerRules,
          Fixes!WorkloadRules, Fixes!policyRuleGrants, Fixes!roleGrants, Fixes!writeVerbs,
          Fixes!readSecretVerb, Fixes!ReadsSecrets, Fixes!Impersonates, Fixes!ProxiesNodes,
          Fixes!ApprovesCertificates, Fixes!EditsWebhooks, Fixes!CreatesPods, Fixes!Wildcards,
          Fixes!discoveryURL, Fixes!OpensURLs, Fixes!CreatesVolumes, Fixes!MintsTokens,
          Fixes!RoleRules, Fixes!postureSubjectExcluded, Fixes!BindingRules,
          Fixes!isDefaultDenyIngress, Fixes!NamespaceRules, Fixes!WorkloadKinds, Fixes!RoleKinds,
          Fixes!FailedRules, Watched!Mend!IsPrefix, Watched!Mend!eachContainer,
          Watched!Mend!CapName, Watched!Mend!CapNames, Watched!Mend!baselineCapabilities,
          Watched!Mend!dangerousCapabilities, Watched!Mend!sensitiveHostPaths,
          Watched!Mend!sensitiveHostPath, Watched!Mend!imageUnpinned, Watched!Mend!seLinuxViolation,
          Watched!Mend!Fail, Watched!Mend!Or, Watched!Mend!Uid, Watched!Mend!NonRoot,
          Watched!Mend!effectiveSeccomp, Watched!Mend!automountsToken, Watched!Mend!Privileged,
          Watched!Mend!Escalates, Watched!Mend!SensitivePath, Watched!Mend!DangerousCaps,
          Watched!Mend!SecretsInEnv, Watched!Mend!KeepsSomeCaps, Watched!Mend!RunsAsRoot,
          Watched!Mend!WritableRoot, Watched!Mend!Unlimited, Watched!Mend!Unfiltered,
          Watched!Mend!MovingTag, Watched!Mend!HostPorts, Watched!Mend!Unrequested,
          Watched!Mend!AddsCaps, Watched!Mend!RawSockets, Watched!Mend!DefaultAccount,
          Watched!Mend!Unwatched, Watched!Mend!Unready, Watched!Mend!Relabelled,
          Watched!Mend!Unconfined, Watched!Mend!ProcUnmasked, Watched!Mend!postureNamespaceExcluded,
          Watched!Mend!distributionComponent, Watched!Mend!PodRules, Watched!Mend!ContextRules,
          Watched!Mend!ContainerRules, Watched!Mend!WorkloadRules, Watched!Mend!policyRuleGrants,
          Watched!Mend!roleGrants, Watched!Mend!writeVerbs, Watched!Mend!readSecretVerb,
          Watched!Mend!ReadsSecrets, Watched!Mend!Impersonates, Watched!Mend!ProxiesNodes,
          Watched!Mend!ApprovesCertificates, Watched!Mend!EditsWebhooks, Watched!Mend!CreatesPods,
          Watched!Mend!Wildcards, Watched!Mend!discoveryURL, Watched!Mend!OpensURLs,
          Watched!Mend!CreatesVolumes, Watched!Mend!MintsTokens, Watched!Mend!RoleRules,
          Watched!Mend!postureSubjectExcluded, Watched!Mend!BindingRules,
          Watched!Mend!isDefaultDenyIngress, Watched!Mend!NamespaceRules,
          Watched!Mend!WorkloadKinds, Watched!Mend!RoleKinds, Watched!Mend!FailedRules
<1>3. Fixes!inspectPodSecurity(o) = Watched!Mend!inspectPodSecurity(o)
      BY Zenon DEF Fixes!dangerousCapabilities, Fixes!sensitiveHostPaths, Fixes!PodFindings,
          Fixes!mutableTag, Fixes!MayBeRoot, Fixes!ContainerFindings, Fixes!inspectPodSecurity,
          Watched!Mend!dangerousCapabilities, Watched!Mend!sensitiveHostPaths,
          Watched!Mend!PodFindings, Watched!Mend!mutableTag, Watched!Mend!MayBeRoot,
          Watched!Mend!ContainerFindings, Watched!Mend!inspectPodSecurity
<1>4. \A f : Fixes!RuleOf(f) = Watched!Mend!RuleOf(f)
      BY Zenon DEF Fixes!RuleOf, Watched!Mend!RuleOf
<1>5. Fixes!PagesAgreeOn(o, as) <=> Watched!Mend!PagesAgreeOn(o, as)
      BY <1>1, <1>3, <1>4, Zenon DEF Fixes!postureNamespaceExcluded, Fixes!PagesAgreeOn,
          Watched!Mend!postureNamespaceExcluded, Watched!Mend!PagesAgreeOn
<1> QED BY <1>2, <1>5

LEMMA SamePatches ==
    ASSUME NEW rule, NEW w, NEW o
    PROVE  /\ Fixes!Patched(rule, w, o) = Watched!Mend!Patched(rule, w, o)
           /\ Fixes!Accepted(rule, w, o) <=> Watched!Mend!Accepted(rule, w, o)
<1>1. Fixes!Patched(rule, w, o) = Watched!Mend!Patched(rule, w, o)
      BY Zenon DEF Fixes!eachContainer, Fixes!CapName, Fixes!CapNames, Fixes!baselineCapabilities,
          Fixes!seLinuxViolation, Fixes!Unconfined, Fixes!NoOptions, Fixes!Set, Fixes!Nothing,
          Fixes!When, Fixes!KeptCaps, Fixes!DropsRaw, Fixes!WithoutRaw, Fixes!NonRootUser,
          Fixes!ContainerFix, Fixes!PodFix, Fixes!Cleared, Fixes!Touched, Fixes!Merged,
          Fixes!Patched, Watched!Mend!eachContainer, Watched!Mend!CapName, Watched!Mend!CapNames,
          Watched!Mend!baselineCapabilities, Watched!Mend!seLinuxViolation, Watched!Mend!Unconfined,
          Watched!Mend!NoOptions, Watched!Mend!Set, Watched!Mend!Nothing, Watched!Mend!When,
          Watched!Mend!KeptCaps, Watched!Mend!DropsRaw, Watched!Mend!WithoutRaw,
          Watched!Mend!NonRootUser, Watched!Mend!ContainerFix, Watched!Mend!PodFix,
          Watched!Mend!Cleared, Watched!Mend!Touched, Watched!Mend!Merged, Watched!Mend!Patched
<1>2. Fixes!Touched(rule, w) = Watched!Mend!Touched(rule, w)
      BY Zenon DEF Fixes!eachContainer, Fixes!CapName, Fixes!CapNames, Fixes!baselineCapabilities,
          Fixes!seLinuxViolation, Fixes!Unconfined, Fixes!NoOptions, Fixes!Set, Fixes!Nothing,
          Fixes!When, Fixes!KeptCaps, Fixes!DropsRaw, Fixes!WithoutRaw, Fixes!NonRootUser,
          Fixes!ContainerFix, Fixes!Touched, Watched!Mend!eachContainer, Watched!Mend!CapName,
          Watched!Mend!CapNames, Watched!Mend!baselineCapabilities, Watched!Mend!seLinuxViolation,
          Watched!Mend!Unconfined, Watched!Mend!NoOptions, Watched!Mend!Set, Watched!Mend!Nothing,
          Watched!Mend!When, Watched!Mend!KeptCaps, Watched!Mend!DropsRaw, Watched!Mend!WithoutRaw,
          Watched!Mend!NonRootUser, Watched!Mend!ContainerFix, Watched!Mend!Touched
<1> QED
      BY <1>1, <1>2, Zenon DEF Fixes!Accepted, Watched!Mend!Accepted

LEMMA SameRoles ==
    ASSUME NEW rule, NEW rules, NEW narrowed
    PROVE  /\ Fixes!narrowRoleRules(rule, rules) = Watched!Mend!narrowRoleRules(rule, rules)
           /\ Fixes!NarrowsOnly(rule, rules, narrowed) <=> Watched!Mend!NarrowsOnly(rule, rules, narrowed)
<1>1. Fixes!narrowRoleRules(rule, rules) = Watched!Mend!narrowRoleRules(rule, rules)
      BY Zenon DEF Fixes!Fail, Fixes!policyRuleGrants, Fixes!roleGrants, Fixes!writeVerbs,
          Fixes!readSecretVerb, Fixes!ReadsSecrets, Fixes!Impersonates, Fixes!ProxiesNodes,
          Fixes!ApprovesCertificates, Fixes!EditsWebhooks, Fixes!CreatesPods, Fixes!Wildcards,
          Fixes!discoveryURL, Fixes!OpensURLs, Fixes!CreatesVolumes, Fixes!MintsTokens,
          Fixes!RoleRules, Fixes!expandableVerbs, Fixes!passes, Fixes!NarrowedURLs, Fixes!Verbs,
          Fixes!KeptVerbs, Fixes!NarrowedVerbs, Fixes!ByHand, Fixes!NarrowedRule,
          Fixes!narrowRoleRules, Watched!Mend!Fail, Watched!Mend!policyRuleGrants,
          Watched!Mend!roleGrants, Watched!Mend!writeVerbs, Watched!Mend!readSecretVerb,
          Watched!Mend!ReadsSecrets, Watched!Mend!Impersonates, Watched!Mend!ProxiesNodes,
          Watched!Mend!ApprovesCertificates, Watched!Mend!EditsWebhooks, Watched!Mend!CreatesPods,
          Watched!Mend!Wildcards, Watched!Mend!discoveryURL, Watched!Mend!OpensURLs,
          Watched!Mend!CreatesVolumes, Watched!Mend!MintsTokens, Watched!Mend!RoleRules,
          Watched!Mend!expandableVerbs, Watched!Mend!passes, Watched!Mend!NarrowedURLs,
          Watched!Mend!Verbs, Watched!Mend!KeptVerbs, Watched!Mend!NarrowedVerbs,
          Watched!Mend!ByHand, Watched!Mend!NarrowedRule, Watched!Mend!narrowRoleRules
<1>2. \A rs : Fixes!Deeds(rs) = Watched!Mend!Deeds(rs)
      BY Zenon DEF Fixes!expandableVerbs, Fixes!Deeds, Watched!Mend!expandableVerbs,
          Watched!Mend!Deeds
<1>3. \A rs, d : Fixes!Allows(rs, d) <=> Watched!Mend!Allows(rs, d)
      BY Zenon DEF Fixes!OnURL, Fixes!Allows, Watched!Mend!OnURL, Watched!Mend!Allows
<1>4. \A d : Fixes!ObjectsTo(rule, rules, d) <=> Watched!Mend!ObjectsTo(rule, rules, d)
      BY Zenon DEF Fixes!Fail, Fixes!policyRuleGrants, Fixes!roleGrants, Fixes!writeVerbs,
          Fixes!readSecretVerb, Fixes!ReadsSecrets, Fixes!Impersonates, Fixes!ProxiesNodes,
          Fixes!ApprovesCertificates, Fixes!EditsWebhooks, Fixes!CreatesPods, Fixes!Wildcards,
          Fixes!discoveryURL, Fixes!OpensURLs, Fixes!CreatesVolumes, Fixes!MintsTokens,
          Fixes!RoleRules, Fixes!passes, Fixes!OnURL, Fixes!Allows, Fixes!ObjectsTo,
          Watched!Mend!Fail, Watched!Mend!policyRuleGrants, Watched!Mend!roleGrants,
          Watched!Mend!writeVerbs, Watched!Mend!readSecretVerb, Watched!Mend!ReadsSecrets,
          Watched!Mend!Impersonates, Watched!Mend!ProxiesNodes, Watched!Mend!ApprovesCertificates,
          Watched!Mend!EditsWebhooks, Watched!Mend!CreatesPods, Watched!Mend!Wildcards,
          Watched!Mend!discoveryURL, Watched!Mend!OpensURLs, Watched!Mend!CreatesVolumes,
          Watched!Mend!MintsTokens, Watched!Mend!RoleRules, Watched!Mend!passes, Watched!Mend!OnURL,
          Watched!Mend!Allows, Watched!Mend!ObjectsTo
<1> QED
      BY <1>1, <1>2, <1>3, <1>4, Zenon DEF Fixes!discoveryURL, Fixes!expandableVerbs,
          Fixes!NarrowsOnly, Watched!Mend!discoveryURL, Watched!Mend!expandableVerbs,
          Watched!Mend!NarrowsOnly

LEMMA SameCommands ==
    ASSUME NEW command, NEW rule, NEW made, NEW o
    PROVE  /\ Fixes!Commands(rule, made) = Watched!Mend!Commands(rule, made)
           /\ Fixes!Verified(rule, made) <=> Watched!Mend!Verified(rule, made)
           /\ Fixes!After(command, rule, made, o) = Watched!Mend!After(command, rule, made, o)
<1>1. Fixes!Commands(rule, made) = Watched!Mend!Commands(rule, made)
      BY Zenon DEF Fixes!WorkloadKinds, Fixes!RoleKinds, Fixes!Fixable, Fixes!Commands,
          Watched!Mend!WorkloadKinds, Watched!Mend!RoleKinds, Watched!Mend!Fixable,
          Watched!Mend!Commands
<1>2. Fixes!Verified(rule, made) <=> Watched!Mend!Verified(rule, made)
      BY Zenon DEF Fixes!IsPrefix, Fixes!eachContainer, Fixes!CapName, Fixes!CapNames,
          Fixes!baselineCapabilities, Fixes!dangerousCapabilities, Fixes!sensitiveHostPaths,
          Fixes!sensitiveHostPath, Fixes!imageUnpinned, Fixes!seLinuxViolation, Fixes!Fail,
          Fixes!Or, Fixes!Uid, Fixes!NonRoot, Fixes!effectiveSeccomp, Fixes!automountsToken,
          Fixes!Privileged, Fixes!Escalates, Fixes!SensitivePath, Fixes!DangerousCaps,
          Fixes!SecretsInEnv, Fixes!KeepsSomeCaps, Fixes!RunsAsRoot, Fixes!WritableRoot,
          Fixes!Unlimited, Fixes!Unfiltered, Fixes!MovingTag, Fixes!HostPorts, Fixes!Unrequested,
          Fixes!AddsCaps, Fixes!RawSockets, Fixes!DefaultAccount, Fixes!Unwatched, Fixes!Unready,
          Fixes!Relabelled, Fixes!Unconfined, Fixes!ProcUnmasked, Fixes!postureNamespaceExcluded,
          Fixes!distributionComponent, Fixes!PodRules, Fixes!ContextRules, Fixes!ContainerRules,
          Fixes!WorkloadRules, Fixes!policyRuleGrants, Fixes!roleGrants, Fixes!writeVerbs,
          Fixes!readSecretVerb, Fixes!ReadsSecrets, Fixes!Impersonates, Fixes!ProxiesNodes,
          Fixes!ApprovesCertificates, Fixes!EditsWebhooks, Fixes!CreatesPods, Fixes!Wildcards,
          Fixes!discoveryURL, Fixes!OpensURLs, Fixes!CreatesVolumes, Fixes!MintsTokens,
          Fixes!RoleRules, Fixes!WorkloadKinds, Fixes!RoleKinds, Fixes!NoOptions, Fixes!Set,
          Fixes!Nothing, Fixes!When, Fixes!KeptCaps, Fixes!DropsRaw, Fixes!WithoutRaw,
          Fixes!NonRootUser, Fixes!ContainerFix, Fixes!PodFix, Fixes!NoHostPort, Fixes!Fixed,
          Fixes!FixedCopy, Fixes!expandableVerbs, Fixes!passes, Fixes!NarrowedURLs, Fixes!Verbs,
          Fixes!KeptVerbs, Fixes!NarrowedVerbs, Fixes!ByHand, Fixes!NarrowedRule,
          Fixes!narrowRoleRules, Fixes!Verified, Watched!Mend!IsPrefix, Watched!Mend!eachContainer,
          Watched!Mend!CapName, Watched!Mend!CapNames, Watched!Mend!baselineCapabilities,
          Watched!Mend!dangerousCapabilities, Watched!Mend!sensitiveHostPaths,
          Watched!Mend!sensitiveHostPath, Watched!Mend!imageUnpinned, Watched!Mend!seLinuxViolation,
          Watched!Mend!Fail, Watched!Mend!Or, Watched!Mend!Uid, Watched!Mend!NonRoot,
          Watched!Mend!effectiveSeccomp, Watched!Mend!automountsToken, Watched!Mend!Privileged,
          Watched!Mend!Escalates, Watched!Mend!SensitivePath, Watched!Mend!DangerousCaps,
          Watched!Mend!SecretsInEnv, Watched!Mend!KeepsSomeCaps, Watched!Mend!RunsAsRoot,
          Watched!Mend!WritableRoot, Watched!Mend!Unlimited, Watched!Mend!Unfiltered,
          Watched!Mend!MovingTag, Watched!Mend!HostPorts, Watched!Mend!Unrequested,
          Watched!Mend!AddsCaps, Watched!Mend!RawSockets, Watched!Mend!DefaultAccount,
          Watched!Mend!Unwatched, Watched!Mend!Unready, Watched!Mend!Relabelled,
          Watched!Mend!Unconfined, Watched!Mend!ProcUnmasked, Watched!Mend!postureNamespaceExcluded,
          Watched!Mend!distributionComponent, Watched!Mend!PodRules, Watched!Mend!ContextRules,
          Watched!Mend!ContainerRules, Watched!Mend!WorkloadRules, Watched!Mend!policyRuleGrants,
          Watched!Mend!roleGrants, Watched!Mend!writeVerbs, Watched!Mend!readSecretVerb,
          Watched!Mend!ReadsSecrets, Watched!Mend!Impersonates, Watched!Mend!ProxiesNodes,
          Watched!Mend!ApprovesCertificates, Watched!Mend!EditsWebhooks, Watched!Mend!CreatesPods,
          Watched!Mend!Wildcards, Watched!Mend!discoveryURL, Watched!Mend!OpensURLs,
          Watched!Mend!CreatesVolumes, Watched!Mend!MintsTokens, Watched!Mend!RoleRules,
          Watched!Mend!WorkloadKinds, Watched!Mend!RoleKinds, Watched!Mend!NoOptions,
          Watched!Mend!Set, Watched!Mend!Nothing, Watched!Mend!When, Watched!Mend!KeptCaps,
          Watched!Mend!DropsRaw, Watched!Mend!WithoutRaw, Watched!Mend!NonRootUser,
          Watched!Mend!ContainerFix, Watched!Mend!PodFix, Watched!Mend!NoHostPort,
          Watched!Mend!Fixed, Watched!Mend!FixedCopy, Watched!Mend!expandableVerbs,
          Watched!Mend!passes, Watched!Mend!NarrowedURLs, Watched!Mend!Verbs,
          Watched!Mend!KeptVerbs, Watched!Mend!NarrowedVerbs, Watched!Mend!ByHand,
          Watched!Mend!NarrowedRule, Watched!Mend!narrowRoleRules, Watched!Mend!Verified
<1>3. Fixes!After(command, rule, made, o) = Watched!Mend!After(command, rule, made, o)
      BY SamePatches, SameRoles, Zenon DEF Fixes!SamePods, Fixes!DenyAll, Fixes!Applied,
          Fixes!After, Watched!Mend!SamePods, Watched!Mend!DenyAll, Watched!Mend!Applied,
          Watched!Mend!After
<1> QED BY <1>1, <1>2, <1>3

LEMMA SameFixes ==
    ASSUME NEW s
    PROVE  /\ Fixes!GetPostureRemediation(s) <=> Watched!Mend!GetPostureRemediation(s)
           /\ Fixes!Runs(s) <=> Watched!Mend!Runs(s)
           /\ Fixes!FixHolds(s) <=> Watched!Mend!FixHolds(s)
<1>1. \A o, as : Fixes!FailedRules(o, as) = Watched!Mend!FailedRules(o, as)
      BY SameFailures
<1>2. \A rule, made : Fixes!Commands(rule, made) = Watched!Mend!Commands(rule, made)
      BY SameCommands
<1>3. \A command, rule, made, o :
         Fixes!After(command, rule, made, o) = Watched!Mend!After(command, rule, made, o)
      BY SameCommands
<1>4. Fixes!GetPostureRemediation(s) <=> Watched!Mend!GetPostureRemediation(s)
      BY <1>1, <1>2 DEF Fixes!GetPostureRemediation, Watched!Mend!GetPostureRemediation
<1>5. Fixes!Runs(s) <=> Watched!Mend!Runs(s)
      BY <1>2, <1>3 DEF Fixes!Runs, Watched!Mend!Runs
<1>6. Fixes!FixHolds(s) <=> Watched!Mend!FixHolds(s)
      BY <1>1, <1>2, <1>3, SameCommands, SamePatches, SameRoles, SMT DEF Fixes!WorkloadKinds,
          Fixes!RoleKinds, Fixes!PortTwice, Fixes!CapabilityRules, Fixes!AccountRules,
          Fixes!FixHolds, Watched!Mend!WorkloadKinds, Watched!Mend!RoleKinds,
          Watched!Mend!PortTwice, Watched!Mend!CapabilityRules, Watched!Mend!AccountRules,
          Watched!Mend!FixHolds
<1> QED BY <1>4, <1>5, <1>6

(* While an object is fixed, a step is one of Remediation. *)
LEMMA FixesRun ==
    /\ Watched!Mend!RemediationBounds
    /\ PartsInit /\ part = "fixes" => Watched!Mend!Init
    /\ [PartsNext]_allVars /\ part = "fixes" => [Watched!Mend!Next]_(Watched!Mend!vars)
    /\ [PartsNext]_allVars /\ part = "fixes" /\ [Watched!Mend!FixesHold]_(Watched!Mend!vars) =>
         [Fixes!FixesHold]_allVars
    /\ Watched!Mend!PagesAgree => Fixes!PagesAgree
<1>1. Fixes!RemediationBounds => Watched!Mend!RemediationBounds
      BY Zenon DEF Fixes!WorkloadKinds, Fixes!RoleKinds, Fixes!IsRecord, Fixes!ContainerFields,
          Fixes!IsContainer, Fixes!WorkloadFields, Fixes!IsWorkload, Fixes!IsRule, Fixes!IsObject,
          Fixes!RemediationBounds, Watched!Mend!WorkloadKinds, Watched!Mend!RoleKinds,
          Watched!Mend!IsRecord, Watched!Mend!ContainerFields, Watched!Mend!IsContainer,
          Watched!Mend!WorkloadFields, Watched!Mend!IsWorkload, Watched!Mend!IsRule,
          Watched!Mend!IsObject, Watched!Mend!RemediationBounds
<1>2. Fixes!Init => Watched!Mend!Init
      BY Zenon DEF Fixes!Init, Watched!Mend!Init
<1>3. Fixes!Next => Watched!Mend!Next
      BY SameFixes, Zenon DEF Fixes!RollsOut, Fixes!Next, Watched!Mend!RollsOut, Watched!Mend!Next
<1>4. Watched!Mend!FixesHold => Fixes!FixesHold
      BY SameFixes, Zenon DEF Fixes!FixesHold, Watched!Mend!FixesHold
<1>5. Watched!Mend!PagesAgree => Fixes!PagesAgree
      BY SameFailures, Zenon DEF Fixes!WorkloadKinds, Fixes!PagesAgree, Watched!Mend!WorkloadKinds,
          Watched!Mend!PagesAgree
<1>6. Watched!Mend!RemediationBounds BY <1>1, PartsAssumption
<1>7. PartsInit /\ part = "fixes" => Watched!Mend!Init BY <1>2 DEF PartsInit
<1>8. PartsNext /\ part = "fixes" => Fixes!Next BY DEF PartsNext
<1>9. UNCHANGED allVars => UNCHANGED Watched!Mend!vars BY DEF allVars, Watched!Mend!vars
<1>10. PartsNext /\ part = "fixes" /\ UNCHANGED Watched!Mend!vars => UNCHANGED allVars
      BY DEF PartsNext, allVars, Watched!Mend!vars, Keeps6, Keeps7, Keeps9
<1> QED BY <1>3, <1>4, <1>5, <1>6, <1>7, <1>8, <1>9, <1>10

(* A cluster is read alike in both instances of ServiceMap. *)
LEMMA SameEdges ==
    ASSUME NEW c
    PROVE  /\ Discovery!WellFormed(c) => Watched!Chart!WellFormed(c)
           /\ Watched!Chart!EdgesAreDeclared(c) => Discovery!EdgesAreDeclared(c)
<1>1. Discovery!WellFormed(c) => Watched!Chart!WellFormed(c)
      BY Zenon DEF Discovery!Host, Discovery!WorkloadKinds, Discovery!NoNamespace, Discovery!IsHost,
          Discovery!WellFormed, Watched!Chart!Host, Watched!Chart!WorkloadKinds,
          Watched!Chart!NoNamespace, Watched!Chart!IsHost, Watched!Chart!WellFormed
<1>2. Discovery!discoverTopology(c) = Watched!Chart!discoverTopology(c)
      BY Zenon DEF Discovery!Cardinality, Discovery!MapThenSumSet, Discovery!MapThenFoldSet,
          Discovery!Node, Discovery!External, Discovery!Edge, Discovery!EdgeKey, Discovery!Host,
          Discovery!matchWorkloads, Discovery!matchLabelSelector, Discovery!Backing,
          Discovery!FullNames, Discovery!byHost, Discovery!byBareName,
          Discovery!isPlausibleExternalHost, Discovery!LooksReal, Discovery!resolveHost,
          Discovery!Literal, Discovery!ValuesOf, Discovery!Addressed, Discovery!extractCandidates,
          Discovery!scanValue, Discovery!edgesFromConfig, Discovery!IngressNode,
          Discovery!edgesFromIngress, Discovery!edgesFromIstio, Discovery!NamespacesMatching,
          Discovery!PeersOf, Discovery!Telling, Discovery!edgesOfRule,
          Discovery!edgesFromNetworkPolicies, Discovery!confidenceRank, Discovery!dedupeEdges,
          Discovery!discoverTopology, Watched!Chart!Cardinality, Watched!Chart!MapThenSumSet,
          Watched!Chart!MapThenFoldSet, Watched!Chart!Node, Watched!Chart!External,
          Watched!Chart!Edge, Watched!Chart!EdgeKey, Watched!Chart!Host,
          Watched!Chart!matchWorkloads, Watched!Chart!matchLabelSelector, Watched!Chart!Backing,
          Watched!Chart!FullNames, Watched!Chart!byHost, Watched!Chart!byBareName,
          Watched!Chart!isPlausibleExternalHost, Watched!Chart!LooksReal, Watched!Chart!resolveHost,
          Watched!Chart!Literal, Watched!Chart!ValuesOf, Watched!Chart!Addressed,
          Watched!Chart!extractCandidates, Watched!Chart!scanValue, Watched!Chart!edgesFromConfig,
          Watched!Chart!IngressNode, Watched!Chart!edgesFromIngress, Watched!Chart!edgesFromIstio,
          Watched!Chart!NamespacesMatching, Watched!Chart!PeersOf, Watched!Chart!Telling,
          Watched!Chart!edgesOfRule, Watched!Chart!edgesFromNetworkPolicies,
          Watched!Chart!confidenceRank, Watched!Chart!dedupeEdges, Watched!Chart!discoverTopology
<1>3. \A s : Discovery!Backing(c, s) = Watched!Chart!Backing(c, s)
      BY Zenon DEF Discovery!Node, Discovery!External, Discovery!matchWorkloads, Discovery!Backing,
          Watched!Chart!Node, Watched!Chart!External, Watched!Chart!matchWorkloads,
          Watched!Chart!Backing
<1>4. \A w : Discovery!ValuesOf(c, w) = Watched!Chart!ValuesOf(c, w)
      BY Zenon DEF Discovery!Literal, Discovery!ValuesOf, Watched!Chart!Literal,
          Watched!Chart!ValuesOf
<1>5. \A v : Discovery!extractCandidates(v) = Watched!Chart!extractCandidates(v)
      BY Zenon DEF Discovery!Addressed, Discovery!extractCandidates, Watched!Chart!Addressed,
          Watched!Chart!extractCandidates
<1>6. \A w, h, s : Discovery!Names(w, h, s) <=> Watched!Chart!Names(w, h, s)
      BY Zenon DEF Discovery!Host, Discovery!NoNamespace, Discovery!FullNames, Discovery!Names,
          Watched!Chart!Host, Watched!Chart!NoNamespace, Watched!Chart!FullNames,
          Watched!Chart!Names
<1>7. Watched!Chart!EdgesAreDeclared(c) => Discovery!EdgesAreDeclared(c)
      BY <1>2, <1>3, <1>4, <1>5, <1>6, SMT DEF Discovery!Node, Discovery!External, Discovery!Edge,
          Discovery!EdgeKey, Discovery!Configured, Discovery!EdgesAreDeclared, Watched!Chart!Node,
          Watched!Chart!External, Watched!Chart!Edge, Watched!Chart!EdgeKey,
          Watched!Chart!Configured, Watched!Chart!EdgesAreDeclared
<1> QED BY <1>1, <1>7

-----------------------------------------------------------------------------
(* vault.go, UpdateVaultItem: an edit that lands has replaced what its      *)
(* author was looking at, in the run and for any values of its constants.   *)
THEOREM EditsStay == PartsSpec => NoEditIsLost
<1>1. Known!Items!Spec => [][Known!Items!EditsKept]_(Known!Items!vars)
      BY Known!NoneLost, ItemsRun DEF Known!Items!NoEditIsLost
<1>2. [PartsNext]_allVars => ((part = "items")' <=> part = "items") BY DEF PartsNext, allVars
<1> QED BY <1>1, <1>2, ItemsRun, PTL DEF PartsSpec, Known!Items!Spec, NoEditIsLost

(* Of the vault's code, what SecondFactorStands says; and of the sign-in. *)
LEMMA CodeStands ==
    PartsSpec => [][part = "code" => Code!LetsInOnce /\ Code!ResetEndsSessions']_allVars
<1>1. Known!Spec => [][Known!LetsInOnce]_(Known!vars)
      BY Known!OpensOnce, CodeRun DEF Known!CodeOpensOnce
<1>2. Known!Spec => []Known!ResetEndsSessions
      BY Known!ResetsEnd, CodeRun
<1>3. [PartsNext]_allVars => ((part = "code")' <=> part = "code") BY DEF PartsNext, allVars
<1> QED BY <1>1, <1>2, <1>3, CodeRun, PTL DEF PartsSpec, Known!Spec

LEMMA SignInStands ==
    PartsSpec => [][part = "signin" => Account!CodesUnlockOnce /\ Account!SetupIsWhole']_allVars
<1>1. Known!Setup!Spec => [][Known!Setup!CodesUnlockOnce]_(Known!Setup!vars)
      BY Known!CodesAreSpent, AccountRun
<1>2. Known!Setup!Spec => []Known!Setup!SetupIsWhole
      BY Known!SetupsAreWhole, AccountRun
<1>3. [PartsNext]_allVars => ((part = "signin")' <=> part = "signin") BY DEF PartsNext, allVars
<1> QED BY <1>1, <1>2, <1>3, AccountRun, PTL DEF PartsSpec, Known!Setup!Spec

(* vault_mfa.go and secrets_unlock.go: codes let in once, no session outlives *)
(* a reset and setups are whole, each with the exceptions its property names, *)
(* in the run and for any values of its constants.                            *)
THEOREM FactorStands == PartsSpec => SecondFactorStands
BY CodeStands, SignInStands, PTL DEF SecondFactorStands

(* users.go: the roots leave their bounds only by a write whose count       *)
(* another has overtaken, in the run and for any values of its constants.   *)
THEOREM RootsStay == PartsSpec => RootsStayWithinBounds
<1>1. Known!Root!Spec => [][Known!Root!LeavesBoundsOnlyMiscounted]_(Known!Root!vars)
      BY Known!OnlyRacesBreakTheBounds, RootsRun DEF Known!Root!RootsStayWithinBounds
<1>2. [PartsNext]_allVars => ((part = "roots")' <=> part = "roots") BY DEF PartsNext, allVars
<1> QED BY <1>1, <1>2, RootsRun, PTL DEF PartsSpec, Known!Root!Spec, RootsStayWithinBounds

(* apperrors.go: no re-read inflates a count, in the run and for any values *)
(* of its constants.                                                        *)
THEOREM WindowsCount == PartsSpec => []NeverInflated
<1>1. Watched!Spec => []Watched!NeverInflated
      BY Watched!CountsAreLines, WindowsRun
<1>2. [PartsNext]_allVars => ((part = "windows")' <=> part = "windows") BY DEF PartsNext, allVars
<1> QED BY <1>1, <1>2, WindowsRun, PTL DEF PartsSpec, Watched!Spec, NeverInflated

(* iam.go: what is allowed was decided about the person, in the run and for *)
(* any values of its constants.                                             *)
THEOREM DecisionsStand == PartsSpec => []AllowedAsDecided
<1>1. Known!Allowed!Spec => []Known!Allowed!AllowedAsDecided
      BY Known!DecisionsRule, AllowedRun
<1>2. [PartsNext]_allVars => ((part = "access")' <=> part = "access") BY DEF PartsNext, allVars
<1> QED BY <1>1, <1>2, AllowedRun, PTL DEF PartsSpec, Known!Allowed!Spec, AllowedAsDecided

(* gitops_repos.go and ssh_known_hosts.go: pins are kept, in the run and for *)
(* any values of its constants.                                              *)
THEOREM PinsStay == PartsSpec => PinsStand
<1>1. Known!Keys!Spec => [][Known!Keys!PinHolds]_(Known!Keys!vars)
      BY Known!PinsAreKept, ConnectionRun DEF Known!Keys!PinsStand
<1>2. [PartsNext]_allVars => ((part = "connection")' <=> part = "connection")
      BY DEF PartsNext, allVars
<1> QED BY <1>1, <1>2, ConnectionRun, PTL DEF PartsSpec, Known!Keys!Spec, PinsStand

(* Of the rules alone and of the findings alone, what AlertsStand says. *)
LEMMA RulesCloseQuiet == PartsSpec => [][part = "rules" => EdgeRules!ClosesOnlyQuiet]_allVars
<1>1. Watched!Edge!Spec => [][Watched!Edge!ClosesOnlyQuiet]_(Watched!Edge!vars)
      BY Watched!AlertsCloseQuiet, EdgeRulesRun DEF Watched!Edge!AlertsStand
<1>2. [PartsNext]_allVars => ((part = "rules")' <=> part = "rules") BY DEF PartsNext, allVars
<1> QED BY <1>1, <1>2, EdgeRulesRun, PTL DEF PartsSpec, Watched!Edge!Spec

LEMMA FindingsCloseQuiet ==
    PartsSpec => [][part = "findings" => EdgeFindings!ClosesOnlyQuiet]_allVars
<1>1. Found!Edge!Spec => [][Found!Edge!ClosesOnlyQuiet]_(Found!Edge!vars)
      BY Found!AlertsCloseQuiet, EdgeFindingsRun DEF Found!Edge!AlertsStand
<1>2. [PartsNext]_allVars => ((part = "findings")' <=> part = "findings")
      BY DEF PartsNext, allVars
<1> QED BY <1>1, <1>2, EdgeFindingsRun, PTL DEF PartsSpec, Found!Edge!Spec

(* cloudflare_poller.go: an alert is closed only when what it is about was   *)
(* quiet, or as its property names, in the run and for any values of its     *)
(* constants.                                                                *)
THEOREM AlertsStay == PartsSpec => AlertsStand
BY RulesCloseQuiet, FindingsCloseQuiet, PTL DEF AlertsStand

(* syncCloudflareHistory: an alert that belongs to a zone is filed there, in *)
(* the run and for any values of its constants.                              *)
THEOREM HistoryIsKept == PartsSpec => []HistoryIsFiled
<1>1. Watched!Hist!Spec => []Watched!Hist!HistoryIsFiled
      BY Watched!AlertsAreFiled, HistoryRun
<1>2. [PartsNext]_allVars => ((part = "history")' <=> part = "history") BY DEF PartsNext, allVars
<1> QED BY <1>1, <1>2, HistoryRun, PTL DEF PartsSpec, Watched!Hist!Spec, HistoryIsFiled

(* repositories.go, golden_paths.go: rows go only by a request that knows,   *)
(* and keys open the repository, each with the exceptions its property       *)
(* names, in the run and for any values of its constants.                    *)
THEOREM RepositoriesStay == PartsSpec => RepositoryStands
<1>1. Known!Repo!Spec => [][Known!Repo!RowsGoKnowingly /\ Known!Repo!KeysOpen']_(Known!Repo!vars)
      BY Known!RepositoriesStand, RepositoriesRun DEF Known!Repo!RepositoryStands
<1>2. [PartsNext]_allVars => ((part = "provisioning")' <=> part = "provisioning")
      BY DEF PartsNext, allVars
<1> QED BY <1>1, <1>2, RepositoriesRun, PTL DEF PartsSpec, Known!Repo!Spec, RepositoryStands

(* posture.go, scopePosture: what a scoped caller gets is the assessment of  *)
(* their namespaces alone, in the run and for any values of its constants.   *)
THEOREM ScopesStay == PartsSpec => []ScopedIsExact
<1>1. Watched!Board!Spec => []Watched!Board!ScopedIsExact
      BY Watched!ScopesAreExact
<1>2. [PartsNext]_allVars => ((part = "posture")' <=> part = "posture") BY DEF PartsNext, allVars
<1> QED BY <1>1, <1>2, AssessmentRun, PTL DEF PartsSpec, Watched!Board!Spec, ScopedIsExact

(* topology.go, "the map has a memory": what MapRemembers says of rows and   *)
(* of the ends of edges, in the run and for any values of its constants.     *)
THEOREM MapStays == PartsSpec => MapRemembers
<1>1. Watched!Chart!Spec => [][Watched!Chart!MapHolds]_(Watched!Chart!vars)
      BY Watched!MapIsRemembered, MapRun DEF Watched!Chart!MapRemembers
<1>2. [PartsNext]_allVars => ((part = "map")' <=> part = "map") BY DEF PartsNext, allVars
<1> QED BY <1>1, <1>2, MapRun, PTL DEF PartsSpec, Watched!Chart!Spec, MapRemembers

(* pod_security.go and posture.go: the two pages that read a pod spec do not *)
(* contradict each other, in the run and for any values of its constants.    *)
THEOREM PagesStay == PartsSpec => []PagesAgree
<1>1. Watched!Mend!Spec => []Watched!Mend!PagesAgree
      BY Watched!PagesOfAPodAgree, FixesRun
<1>2. [PartsNext]_allVars => ((part = "fixes")' <=> part = "fixes") BY DEF PartsNext, allVars
<1> QED BY <1>1, <1>2, FixesRun, PTL DEF PartsSpec, Watched!Mend!Spec, PagesAgree

(* posture_remediation.go: a fix somebody runs does what FixHolds says, in   *)
(* the run and for any values of its constants.                              *)
THEOREM FixesStay == PartsSpec => FixesStand
<1>1. Watched!Mend!Spec => [][Watched!Mend!FixesHold]_(Watched!Mend!vars)
      BY Watched!FixesAreFixes, FixesRun DEF Watched!Mend!FixesStand
<1>2. [PartsNext]_allVars => ((part = "fixes")' <=> part = "fixes") BY DEF PartsNext, allVars
<1> QED BY <1>1, <1>2, FixesRun, PTL DEF PartsSpec, Watched!Mend!Spec, FixesStand

(* topology.go:146: an edge that configuration declares is a Service its     *)
(* source can name, and every such name is an edge, in the run and for any   *)
(* values of its constants.                                                  *)
THEOREM EdgesStay == PartsSpec => []EdgesAreDeclared
<1> DEFINE Looked == part = "clusters" => x1 \in Discovery!AllClusters
<1>1. PartsInit => Looked BY DEF PartsInit
<1>2. Looked /\ [PartsNext]_allVars => Looked' BY DEF PartsNext, allVars
<1>3. Looked => EdgesAreDeclared
  <2> SUFFICES ASSUME x1 \in Discovery!AllClusters PROVE Discovery!EdgesAreDeclared(x1)
      BY DEF EdgesAreDeclared
  <2>1. Discovery!WellFormed(x1) BY PartsAssumption
  <2>2. Watched!Chart!WellFormed(x1) BY <2>1, SameEdges
  <2>3. Watched!Chart!EdgesAreDeclared(x1) BY <2>2, Watched!EdgesOfAnyCluster
  <2> QED BY <2>3, SameEdges
<1> QED BY <1>1, <1>2, <1>3, PTL DEF PartsSpec

(* The state of every module is well formed, in the run and for any values of *)
(* its constants: each part's theorem, in the instance its proof is about.    *)
THEOREM TypesStay == PartsSpec => []PartsTypeOK
<1>1. PartsSpec => [](part = "members" => TypeOK)
  <2>1. [PartsNext]_allVars => [Next]_vars BY DEF PartsNext, allVars, vars
  <2>2. PartsInit => Init BY DEF PartsInit
  <2> QED BY <2>1, <2>2, MembersTyped, PTL DEF PartsSpec, Spec
<1>2. PartsSpec => [](part = "items" => Items!TypeOK)
  <2>1. Known!Items!Spec => []Known!Items!TypeOK BY Known!ItemsTyped, ItemsRun
  <2>2. [PartsNext]_allVars => ((part = "items")' <=> part = "items") BY DEF PartsNext, allVars
  <2>3. Known!Items!TypeOK => Items!TypeOK
        BY Zenon DEF Items!TypeOK, Known!Items!TypeOK
  <2> QED BY <2>1, <2>2, <2>3, ItemsRun, PTL DEF PartsSpec, Known!Items!Spec
<1>3. PartsSpec => [](part = "code" => Code!TypeOK)
  <2>1. Known!Spec => []Known!TypeOK BY Known!CodesTyped, CodeRun
  <2>2. [PartsNext]_allVars => ((part = "code")' <=> part = "code") BY DEF PartsNext, allVars
  <2>3. Known!TypeOK => Code!TypeOK
        BY Zenon DEF Code!TypeOK, Code!Factor, Known!TypeOK, Known!Factor
  <2> QED BY <2>1, <2>2, <2>3, CodeRun, PTL DEF PartsSpec, Known!Spec
<1>4. PartsSpec => [](part = "signin" => Account!TypeOK)
  <2>1. Known!Setup!Spec => []Known!Setup!TypeOK BY Known!SignInsTyped, AccountRun
  <2>2. [PartsNext]_allVars => ((part = "signin")' <=> part = "signin") BY DEF PartsNext, allVars
  <2>3. Known!Setup!TypeOK => Account!TypeOK
        BY Zenon DEF Account!TypeOK, Account!Row, Account!Passwords, Account!Given,
            Known!Setup!TypeOK, Known!Setup!Row, Known!Setup!Passwords, Known!Setup!Given
  <2> QED BY <2>1, <2>2, <2>3, AccountRun, PTL DEF PartsSpec, Known!Setup!Spec
<1>5. PartsSpec => [](part = "roots" => Roots!TypeOK)
  <2>1. Known!Root!Spec => []Known!Root!TypeOK BY Known!AccountsTyped, RootsRun
  <2>2. [PartsNext]_allVars => ((part = "roots")' <=> part = "roots") BY DEF PartsNext, allVars
  <2>3. Known!Root!TypeOK => Roots!TypeOK
        BY Zenon DEF Roots!TypeOK, Roots!Roles, Roots!NoAccount, Roots!Deleted,
            Known!Root!TypeOK, Known!Root!Roles, Known!Root!NoAccount, Known!Root!Deleted
  <2> QED BY <2>1, <2>2, <2>3, RootsRun, PTL DEF PartsSpec, Known!Root!Spec
<1>6. PartsSpec => [](part = "windows" => Windows!TypeOK)
  <2>1. Watched!Spec => []Watched!TypeOK BY Watched!WindowsTyped, WindowsRun
  <2>2. [PartsNext]_allVars => ((part = "windows")' <=> part = "windows") BY DEF PartsNext, allVars
  <2>3. Watched!TypeOK => Windows!TypeOK
        BY Zenon DEF Windows!TypeOK, Windows!Buckets, Windows!Times, Windows!bucketOf,
            Watched!TypeOK, Watched!Buckets, Watched!Times, Watched!bucketOf
  <2> QED BY <2>1, <2>2, <2>3, WindowsRun, PTL DEF PartsSpec, Watched!Spec
<1>7. PartsSpec => [](part = "posture" => Assessment!TypeOK)
  <2>1. Watched!Board!Spec => []Watched!Board!TypeOK BY Watched!PostureTyped, AssessmentRun
  <2>2. [PartsNext]_allVars => ((part = "posture")' <=> part = "posture") BY DEF PartsNext, allVars
  <2>3. Watched!Board!TypeOK => Assessment!TypeOK
        BY Zenon DEF Assessment!TypeOK, Assessment!Inventories, Assessment!Absent,
            Assessment!Rules, Assessment!ToSet, Assessment!Free, Assessment!Cardinality,
            Watched!Board!TypeOK, Watched!Board!Inventories, Watched!Board!Absent,
            Watched!Board!Rules, Watched!Board!ToSet, Watched!Board!Free,
            Watched!Board!Cardinality
  <2> QED BY <2>1, <2>2, <2>3, AssessmentRun, PTL DEF PartsSpec, Watched!Board!Spec
<1>8. PartsSpec => [](part = "map" => Map!TypeOK)
  <2>1. Watched!Chart!Spec => []Watched!Chart!TypeOK BY Watched!MapTyped, MapRun
  <2>2. [PartsNext]_allVars => ((part = "map")' <=> part = "map") BY DEF PartsNext, allVars
  <2>3. Watched!Chart!TypeOK => Map!TypeOK
        BY Zenon DEF Map!TypeOK, Watched!Chart!TypeOK
  <2> QED BY <2>1, <2>2, <2>3, MapRun, PTL DEF PartsSpec, Watched!Chart!Spec
<1>9. PartsSpec => [](part = "access" => Allowed!TypeOK)
  <2>1. Known!Allowed!Spec => []Known!Allowed!TypeOK BY Known!AccessTyped, AllowedRun
  <2>2. [PartsNext]_allVars => ((part = "access")' <=> part = "access") BY DEF PartsNext, allVars
  <2>3. Known!Allowed!TypeOK => Allowed!TypeOK
        BY Zenon DEF Allowed!TypeOK, Allowed!Subjects, Allowed!Person, Allowed!Unsaid,
            Allowed!Decisions, Known!Allowed!TypeOK, Known!Allowed!Subjects,
            Known!Allowed!Person, Known!Allowed!Unsaid, Known!Allowed!Decisions
  <2> QED BY <2>1, <2>2, <2>3, AllowedRun, PTL DEF PartsSpec, Known!Allowed!Spec
<1>10. PartsSpec => [](part = "connection" => Connection!TypeOK)
  <2>1. Known!Keys!Spec => []Known!Keys!TypeOK BY Known!ConnectionTyped, ConnectionRun
  <2>2. [PartsNext]_allVars => ((part = "connection")' <=> part = "connection") BY DEF PartsNext, allVars
  <2>3. Known!Keys!TypeOK => Connection!TypeOK
        BY Zenon DEF Connection!TypeOK, Connection!Pins, Connection!NotPinned, Connection!NoRow,
            Known!Keys!TypeOK, Known!Keys!Pins, Known!Keys!NotPinned, Known!Keys!NoRow
  <2> QED BY <2>1, <2>2, <2>3, ConnectionRun, PTL DEF PartsSpec, Known!Keys!Spec
<1>11. PartsSpec => [](part = "fixes" => Fixes!TypeOK)
  <2>1. Watched!Mend!Spec => []Watched!Mend!TypeOK BY Watched!FixesTyped, FixesRun
  <2>2. [PartsNext]_allVars => ((part = "fixes")' <=> part = "fixes") BY DEF PartsNext, allVars
  <2>3. Watched!Mend!TypeOK => Fixes!TypeOK
        BY Zenon DEF Fixes!TypeOK, Watched!Mend!TypeOK
  <2> QED BY <2>1, <2>2, <2>3, FixesRun, PTL DEF PartsSpec, Watched!Mend!Spec
<1>12. PartsSpec => [](part = "provisioning" => Repositories!TypeOK)
  <2>1. Known!Repo!Spec => []Known!Repo!TypeOK BY Known!RepositoryTyped, RepositoriesRun
  <2>2. [PartsNext]_allVars => ((part = "provisioning")' <=> part = "provisioning") BY DEF PartsNext, allVars
  <2>3. Known!Repo!TypeOK => Repositories!TypeOK
        BY Zenon DEF Repositories!TypeOK, Repositories!At, Repositories!Requests,
            Repositories!unregistered, Repositories!Cardinality, Known!Repo!TypeOK,
            Known!Repo!At, Known!Repo!Requests, Known!Repo!unregistered, Known!Repo!Cardinality
  <2> QED BY <2>1, <2>2, <2>3, RepositoriesRun, PTL DEF PartsSpec, Known!Repo!Spec
<1>13. PartsSpec => [](part = "rules" => EdgeRules!TypeOK)
  <2>1. Watched!Edge!Spec => []Watched!Edge!TypeOK BY Watched!EdgeAlertsTyped, EdgeRulesRun
  <2>2. [PartsNext]_allVars => ((part = "rules")' <=> part = "rules") BY DEF PartsNext, allVars
  <2>3. Watched!Edge!TypeOK => EdgeRules!TypeOK
        BY Zenon DEF EdgeRules!TypeOK, EdgeRules!Things, EdgeRules!Findings, EdgeRules!Rules,
            EdgeRules!ToSet, Watched!Edge!TypeOK, Watched!Edge!Things, Watched!Edge!Findings,
            Watched!Edge!Rules, Watched!Edge!ToSet
  <2> QED BY <2>1, <2>2, <2>3, EdgeRulesRun, PTL DEF PartsSpec, Watched!Edge!Spec
<1>14. PartsSpec => [](part = "findings" => EdgeFindings!TypeOK)
  <2>1. Found!Edge!Spec => []Found!Edge!TypeOK BY Found!EdgeAlertsTyped, EdgeFindingsRun
  <2>2. [PartsNext]_allVars => ((part = "findings")' <=> part = "findings") BY DEF PartsNext, allVars
  <2>3. Found!Edge!TypeOK => EdgeFindings!TypeOK
        BY Zenon DEF EdgeFindings!TypeOK, EdgeFindings!Things, EdgeFindings!Findings,
            EdgeFindings!Rules, EdgeFindings!ToSet, Found!Edge!TypeOK, Found!Edge!Things,
            Found!Edge!Findings, Found!Edge!Rules, Found!Edge!ToSet
  <2> QED BY <2>1, <2>2, <2>3, EdgeFindingsRun, PTL DEF PartsSpec, Found!Edge!Spec
<1>15. PartsSpec => [](part = "history" => History!TypeOK)
  <2>1. Watched!Hist!Spec => []Watched!Hist!TypeOK BY Watched!SyncsTyped, HistoryRun
  <2>2. [PartsNext]_allVars => ((part = "history")' <=> part = "history") BY DEF PartsNext, allVars
  <2>3. Watched!Hist!TypeOK => History!TypeOK
        BY Zenon DEF History!TypeOK, History!Registered, History!Never, Watched!Hist!TypeOK,
            Watched!Hist!Registered, Watched!Hist!Never
  <2> QED BY <2>1, <2>2, <2>3, HistoryRun, PTL DEF PartsSpec, Watched!Hist!Spec
<1> DEFINE Vaults == /\ part = "members" => TypeOK
                     /\ part = "items" => Items!TypeOK
                     /\ part = "code" => Code!TypeOK
           Persons == /\ part = "signin" => Account!TypeOK
                      /\ part = "roots" => Roots!TypeOK
                      /\ part = "access" => Allowed!TypeOK
           Clusters == /\ part = "windows" => Windows!TypeOK
                       /\ part = "posture" => Assessment!TypeOK
                       /\ part = "map" => Map!TypeOK
                       /\ part = "fixes" => Fixes!TypeOK
           Remotes == /\ part = "connection" => Connection!TypeOK
                      /\ part = "provisioning" => Repositories!TypeOK
           Edges == /\ part = "rules" => EdgeRules!TypeOK
                    /\ part = "findings" => EdgeFindings!TypeOK
                    /\ part = "history" => History!TypeOK
<1>16. PartsSpec => []Vaults BY <1>1, <1>2, <1>3, PTL
<1>17. PartsSpec => []Persons BY <1>4, <1>5, <1>9, PTL
<1>18. PartsSpec => []Clusters BY <1>6, <1>7, <1>8, <1>11, PTL
<1>19. PartsSpec => []Remotes BY <1>10, <1>12, PTL
<1>20. PartsSpec => []Edges BY <1>13, <1>14, <1>15, PTL
<1>21. Vaults /\ Persons /\ Clusters /\ Remotes /\ Edges => PartsTypeOK BY DEF PartsTypeOK
<1> HIDE DEF Vaults, Persons, Clusters, Remotes, Edges
<1> QED BY <1>16, <1>17, <1>18, <1>19, <1>20, <1>21, PTL
=============================================================================
