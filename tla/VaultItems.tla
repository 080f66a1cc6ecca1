----------------------------- MODULE VaultItems -----------------------------
(***************************************************************************)
(* One item of a vault and the browsers editing it: the version check of   *)
(* UpdateVaultItem (vault.go) together with the editor that supplies the   *)
(* version (frontend, app/vault/items.tsx).                                *)
(*                                                                         *)
(* The list carries the version and the overview; the secret is fetched    *)
(* on its own when the editor opens, so a form is put together from two    *)
(* reads.  What is sealed is one number: an edit writes a text nobody      *)
(* wrote before, overview and secret together.  The membership check in    *)
(* front of every handler is the business of VaultMembers.                 *)
(***************************************************************************)
EXTENDS Naturals, FiniteSets
CONSTANTS
    Editor,      \* browsers whose user is an owner or a writer of the vault
    MaxText,     \* bound: how many texts are ever written
    MaxRequests  \* bound: edits the server works on at once

(* What the constants may be. *)
ItemBounds == MaxText \in Nat /\ MaxRequests \in Nat

VARIABLES
    item,      \* the row: models.VaultItem
    list,      \* what each browser's list shows of the item
    form,      \* each browser's open editor
    requests,  \* edits between the handler's read and its UPDATE
    written    \* texts written so far
vars == <<item, list, form, requests, written>>

\* The secret of a form whose fetch failed: its fields are empty.
Blank == 0
\* Rows are deleted softly and keep their uuid, so none is ever made again.
Unmade == [state |-> "unmade", version |-> 0, text |-> 0]
Nothing == [shown |-> FALSE, version |-> 0, overview |-> 0]
Closed == [open |-> FALSE, loaded |-> FALSE, secret |-> Blank]
Live == item.state = "live"

Init ==
    /\ item = Unmade
    /\ list = [e \in Editor |-> Nothing]
    /\ form = [e \in Editor |-> Closed]
    /\ requests = {}
    /\ written = 0

-----------------------------------------------------------------------------
(* CreateVaultItem: a second item with the uuid, deleted or not, is refused. *)
CreateItem ==
    /\ item.state = "unmade" /\ written < MaxText
    /\ item' = [state |-> "live", version |-> 1, text |-> written + 1]
    /\ written' = written + 1
    /\ UNCHANGED <<list, form, requests>>

(* ListVaultItems, on opening the vault and after any change made in it.    *)
(* The cards make way for a notice while it runs, and a form on one of them *)
(* goes with its card.                                                      *)
LoadItems(e) ==
    /\ item.state # "unmade"
    /\ list' = [list EXCEPT ![e] =
                  IF Live THEN [shown |-> TRUE, version |-> item.version, overview |-> item.text]
                  ELSE Nothing]
    /\ form' = [form EXCEPT ![e] = Closed]
    /\ UNCHANGED <<item, requests, written>>

OpenEditor(e) ==
    /\ list[e].shown /\ ~form[e].open
    /\ form' = [form EXCEPT ![e] = [Closed EXCEPT !.open = TRUE]]
    /\ UNCHANGED <<item, list, requests, written>>

(* RevealVaultItem for the editor.  When it fails the form is shown all the *)
(* same, an error above its empty fields.                                   *)
Reveal(e) ==
    /\ form[e].open /\ ~form[e].loaded
    /\ \E answer \in {Blank} \cup (IF Live THEN {item.text} ELSE {}) :
         form' = [form EXCEPT ![e].loaded = TRUE, ![e].secret = answer]
    /\ UNCHANGED <<item, list, requests, written>>

Cancel(e) ==
    /\ form[e].open
    /\ form' = [form EXCEPT ![e] = Closed]
    /\ UNCHANGED <<item, list, requests, written>>

(* Save in the browser, and UpdateVaultItem up to its read of the row.  The *)
(* form sends the overview and the version of the list it was opened from.  *)
SaveItem(e) ==
    /\ form[e].open /\ form[e].loaded
    /\ Live /\ written < MaxText /\ Cardinality(requests) < MaxRequests
    /\ requests' = requests \cup
         {[base |-> list[e].version, read |-> item.version,
           overview |-> list[e].overview, secret |-> form[e].secret, text |-> written + 1]}
    /\ written' = written + 1
    /\ UNCHANGED <<item, list, form>>

\* The comparison made on the row read before, and not in the statement.
UpdatedAfterReading(q) ==
    IF Live /\ q.read = q.base
    THEN [item EXCEPT !.version = q.read + 1, !.text = q.text]
    ELSE item
\* The row keeps the version it had.
UpdatedUnbumped(q) ==
    IF Live /\ item.version = q.base THEN [item EXCEPT !.text = q.text] ELSE item

(* UPDATE ... WHERE id = ? AND version = base; a deleted row matches none. *)
Updated(q) ==
    IF Live /\ item.version = q.base
    THEN [item EXCEPT !.version = q.read + 1, !.text = q.text]
    ELSE item

(* The rest of UpdateVaultItem.  The editor of a save that landed closes    *)
(* (and its list is loaded again: LoadItems); a refused one stays open.     *)
UpdateVaultItem(q) ==
    /\ item' = Updated(q)
    /\ requests' = requests \ {q}
    /\ UNCHANGED <<list, form, written>>

(* DeleteVaultItem. *)
DeleteItem ==
    /\ Live
    /\ item' = [item EXCEPT !.state = "deleted"]
    /\ UNCHANGED <<list, form, requests, written>>

Next ==
    \/ CreateItem
    \/ DeleteItem
    \/ \E e \in Editor : LoadItems(e)
    \/ \E e \in Editor : OpenEditor(e)
    \/ \E e \in Editor : Reveal(e)
    \/ \E e \in Editor : Cancel(e)
    \/ \E e \in Editor : SaveItem(e)
    \/ \E q \in requests : UpdateVaultItem(q)

Spec == Init /\ [][Next]_vars

-----------------------------------------------------------------------------
(* The item, the lists, the forms and the edits under way are well formed. *)
TypeOK ==
    /\ item \in [state : {"unmade", "live", "deleted"}, version : Nat, text : 0..MaxText]
    /\ list \in [Editor -> [shown : BOOLEAN, version : Nat, overview : 0..MaxText]]
    /\ form \in [Editor -> [open : BOOLEAN, loaded : BOOLEAN, secret : 0..MaxText]]
    /\ requests \subseteq [base : Nat, read : Nat, overview : 0..MaxText,
                           secret : 0..MaxText, text : 1..MaxText]
    /\ written \in 0..MaxText

(* vault.go, UpdateVaultItem: "refuses a write whose base version is not    *)
(* the one on disk", or one of two editors "silently restores a password    *)
(* the other just rotated".  An edit that lands has replaced the overview   *)
(* and the secret its author was looking at, however the two reads of the   *)
(* form, the read of the handler, other edits and a deletion fell.  A form  *)
(* whose secret never arrived is the exception: the server cannot tell, and *)
(* saving it empties the secret.                                            *)
EditsKept ==
    \A q \in requests \ requests' :
       item'.text # item.text => q.overview = item.text /\ q.secret \in {item.text, Blank}
NoEditIsLost == [][EditsKept]_vars
=============================================================================
