------------------------------ MODULE HostKeys ------------------------------
(***************************************************************************)
(* The row of one repository connected for GitOps (gitops_repos.go): its   *)
(* URL, its key, the host key pinned for it, its webhook secret; and the   *)
(* host keys pinned for everything else that is cloned (ssh_known_hosts.go)*)
(*                                                                         *)
(* A handler works on the copy of the row it read.  Talking with a server  *)
(* takes as long as it takes; then a test writes the columns it found, and *)
(* an edit writes the whole copy back.  A request is here its copy and     *)
(* what it was told.  Servers may change their host keys.                  *)
(***************************************************************************)
EXTENDS Naturals

CONSTANTS
    Hosts,        \* the servers, which stand for the URLs on them
    Published,    \* those whose keys come with the program, scmKnownHosts
    HostKeys,     \* host keys
    FirstKey,     \* the key a server has at first
    Edits,        \* what an edit may change: sets of "url", "key", "pin" and "secret"
    MaxRequests,  \* bound on requests under way
    MaxEdits,     \* bound on edits and deletions
    MaxRekeys     \* bound on changes of host keys
HostAssumption ==
    Published \subseteq Hosts /\ FirstKey \in [Hosts -> HostKeys] /\ MaxEdits \in Nat

NotPinned == "none"
NoRow == [status |-> "none"]

VARIABLES
    row,        \* models.GitOpsRepo, or NoRow
    made,       \* whether it has been created: no other row gets its id
    apps,       \* whether an application reads from it
    presents,   \* the host key of each server
    known,      \* ssh_known_hosts: the pins for everybody, by server
    requests,   \* requests under way
    edits, rekeys,
    served,     \* history: servers and the keys they have had
    crossed     \* history: keys that a test pinned for a URL it did not test
vars == <<row, made, apps, presents, known, requests, edits, rekeys, served, crossed>>

Init ==
    /\ row = NoRow /\ made = FALSE /\ apps = FALSE
    /\ presents = FirstKey /\ known = [h \in Hosts |-> NotPinned]
    /\ requests = {} /\ edits = 0 /\ rekeys = 0
    /\ served = {<<h, FirstKey[h]>> : h \in Hosts} /\ crossed = {}

Free == {n \in 1..MaxRequests : \A q \in requests : q.slot # n}
Request(op, copy) == [slot |-> CHOOSE n \in Free : TRUE, op |-> op, read |-> copy,
                      copy |-> copy, names |-> {}, heard |-> NotPinned]
Begins(q) == Free # {} /\ requests' = requests \cup {q}
GoesOn(q, next) == requests' = (requests \ {q}) \cup {next}
Ends(q) == requests' = requests \ {q}
Counted == edits < MaxEdits /\ edits' = edits + 1

ServerRekeys(h) ==
    /\ rekeys < MaxRekeys /\ rekeys' = rekeys + 1
    /\ \E key \in HostKeys \ {presents[h]} :
         presents' = [presents EXCEPT ![h] = key] /\ served' = served \cup {<<h, key>>}
    /\ UNCHANGED <<row, made, apps, known, requests, edits, crossed>>

-----------------------------------------------------------------------------
(* CreateGitopsRepo: a pair of its own waits for its public half to be      *)
(* added; a key that was pasted is tried at once.                           *)
CreateGitopsRepo(h, imported) ==
    LET new == [url |-> h, key |-> 1, pin |-> NotPinned, secret |-> 1, status |-> "pending"]
    IN  /\ ~made /\ made' = TRUE /\ row' = new
        /\ IF imported THEN Begins(Request("test", new)) ELSE UNCHANGED requests
        /\ UNCHANGED <<apps, presents, known, edits, rekeys, served, crossed>>

(* Handlers that read the row first.  The lists of branches and files refuse*)
(* a connection without a pin; the checkout of an application does not, and *)
(* pins nothing.  All three only read; they are here for the keys they hear.*)
Reads(op) ==
    /\ row # NoRow /\ Begins(Request(op, row))
    /\ UNCHANGED <<row, made, apps, presents, known, edits, rekeys, served, crossed>>
TestGitopsRepoConnection == Reads("test")
ListBranches == row # NoRow /\ row.pin # NotPinned /\ Reads("look")
Checkout == apps /\ Reads("look")

(* connectionAccess and gitopsLsRemote: with a pin ssh talks with nobody    *)
(* else, without one with whoever answers.  What is heard is the key to pin,*)
(* if it is to be pinned.                                                   *)
Accepts(pin, key) == pin \in {NotPinned, key}
ToPin(pin, key) == IF pin = NotPinned THEN key ELSE NotPinned
Talks(q) ==
    LET key == presents[q.copy.url]
    IN  /\ q.op \in {"test", "look"}
        /\ \/ /\ Accepts(q.copy.pin, key)
              /\ IF q.op = "test"
                 THEN GoesOn(q, [q EXCEPT !.op = "tested", !.heard = ToPin(q.copy.pin, key)])
                 ELSE Ends(q)
           \/ IF q.op = "test" THEN GoesOn(q, [q EXCEPT !.op = "failed"]) ELSE Ends(q)
        /\ UNCHANGED <<row, made, apps, presents, known, edits, rekeys, served, crossed>>

(* testGitopsRepo: Updates of some columns of the row with that id.         *)
RecordFailure(q) ==
    /\ q.op = "failed" /\ Ends(q)
    /\ row' = IF row = NoRow THEN row ELSE [row EXCEPT !.status = "failed"]
    /\ UNCHANGED <<made, apps, presents, known, edits, rekeys, served, crossed>>
RecordSuccess(q) ==
    /\ q.op = "tested" /\ Ends(q)
    /\ row' = IF row = NoRow THEN row
              ELSE [row EXCEPT !.status = "connected",
                               !.pin = IF q.heard = NotPinned THEN @ ELSE q.heard]
    /\ crossed' = IF row = NoRow \/ q.heard = NotPinned \/ row.url = q.copy.url THEN crossed
                  ELSE crossed \cup {<<row.url, q.heard>>}
    /\ UNCHANGED <<made, apps, presents, known, edits, rekeys, served>>

-----------------------------------------------------------------------------
(* UpdateGitopsRepo.  A new URL may point at another server, so it forgets  *)
(* the host key too; the webhook secret does not change how the repository  *)
(* is reached.                                                              *)
ForgetsAsAsked(names) == "pin" \in names
Forgets(names) == "pin" \in names \/ "url" \in names
Changed(copy, names, h) ==
    LET edited == [copy EXCEPT !.url = IF "url" \in names THEN h ELSE @,
                               !.key = IF "key" \in names THEN @ + 1 ELSE @,
                               !.secret = IF "secret" \in names THEN @ + 1 ELSE @,
                               !.pin = IF Forgets(names) THEN NotPinned ELSE @]
    IN  IF names = {"secret"} THEN edited ELSE [edited EXCEPT !.status = "pending"]
UpdateGitopsRepo(names, h) ==
    /\ Counted
    /\ row # NoRow /\ ("url" \in names <=> h # row.url)
    /\ Begins([Request("save", row)
                 EXCEPT !.copy = Changed(row, names, h),
                        !.names = names \cup IF "url" \in names THEN {"pin"} ELSE {}])
    /\ UNCHANGED <<row, made, apps, presents, known, rekeys, served, crossed>>
(* Save writes every column, and inserts the row again if it is gone.       *)
Save(q) ==
    /\ q.op = "save" /\ Ends(q) /\ row' = q.copy
    /\ UNCHANGED <<made, apps, presents, known, edits, rekeys, served, crossed>>

(* DeleteGitopsRepo looks for applications that read from it and then       *)
(* deletes; applications come while the connection is there, and go.        *)
DeleteGitopsRepo ==
    /\ Counted
    /\ row # NoRow /\ ~apps /\ Begins(Request("delete", row))
    /\ UNCHANGED <<row, made, apps, presents, known, rekeys, served, crossed>>
Delete(q) ==
    /\ q.op = "delete" /\ Ends(q) /\ row' = NoRow
    /\ UNCHANGED <<made, apps, presents, known, edits, rekeys, served, crossed>>
AppComesOrGoes ==
    /\ Counted
    /\ apps \/ row # NoRow
    /\ apps' = ~apps
    /\ UNCHANGED <<row, made, presents, known, requests, rekeys, served, crossed>>

-----------------------------------------------------------------------------
(* A clone of anything else: newSCMAccess, the clone, pinIfNew.  The copy is*)
(* the host and what was pinned for it when the clone began.                *)
pinnedKnownHosts(h) == IF h \in Published THEN FirstKey[h] ELSE known[h]
CloneBegins(h) ==
    /\ Begins(Request("clone", [url |-> h, pin |-> pinnedKnownHosts(h)]))
    /\ UNCHANGED <<row, made, apps, presents, known, edits, rekeys, served, crossed>>
Clone(q) ==
    LET key == presents[q.copy.url]
    IN  /\ q.op = "clone"
        /\ \/ /\ Accepts(q.copy.pin, key) /\ ToPin(q.copy.pin, key) # NotPinned
              /\ GoesOn(q, [q EXCEPT !.op = "cloned", !.heard = key])
           \/ Ends(q)
        /\ UNCHANGED <<row, made, apps, presents, known, edits, rekeys, served, crossed>>
(* rememberKnownHosts: a look, and a row that is unique for its host.       *)
Remembered(h, key) == [known EXCEPT ![h] = IF @ = NotPinned THEN key ELSE @]
rememberKnownHosts(q) ==
    /\ q.op = "cloned" /\ Ends(q)
    /\ known' = Remembered(q.copy.url, q.heard)
    /\ UNCHANGED <<row, made, apps, presents, edits, rekeys, served, crossed>>

Next ==
    \/ \E h \in Hosts, imported \in BOOLEAN : CreateGitopsRepo(h, imported)
    \/ \E h \in Hosts : ServerRekeys(h) \/ CloneBegins(h)
    \/ TestGitopsRepoConnection \/ ListBranches \/ Checkout
    \/ \E names \in Edits, h \in Hosts :
         UpdateGitopsRepo(names, h)
    \/ DeleteGitopsRepo \/ AppComesOrGoes
    \/ \E q \in requests :
         \/ Talks(q) \/ RecordFailure(q) \/ RecordSuccess(q) \/ Save(q) \/ Delete(q)
         \/ Clone(q) \/ rememberKnownHosts(q)

Spec == Init /\ [][Next]_vars

-----------------------------------------------------------------------------
Pins == HostKeys \cup {NotPinned}
(* The row, the requests and the pins are well formed.                      *)
TypeOK ==
    /\ row # NoRow => /\ row.url \in Hosts /\ row.pin \in Pins
                      /\ row.status \in {"pending", "connected", "failed"}
                      /\ {row.key, row.secret} \subseteq 1..MaxEdits + 1
    /\ known \in [Hosts -> Pins]
    /\ \A q \in requests : q.slot \in 1..MaxRequests /\ q.heard \in Pins

(* gitops_repos.go:22, "The first successful connection pins the server's  *)
(* host key; from then on a different key is refused, not accepted          *)
(* silently".  The code does not keep this: of two tests that begin before  *)
(* there is a pin, the second puts the key it heard in the place of the     *)
(* first's.  What it does keep: the pin, the URL, the key and the webhook   *)
(* secret change by a request that means to change them, which a test does  *)
(* only where there is no pin; but for two races, of a request that writes  *)
(* over what somebody changed since it read the row: an edit whatever it    *)
(* read, and a test that began without a pin the pin that another set       *)
(* meanwhile.  ssh_known_hosts.go:84, "It never replaces a pin".            *)
Meant(q, f) == f \in q.names \/ (f = "pin" /\ q.op = "tested" /\ row.pin = NotPinned)
Stale(q, f) == q.read[f] # row[f] /\ (q.op = "save" \/ (q.op = "tested" /\ f = "pin"))
OnlyAsMeant ==
    /\ row # NoRow /\ row' # NoRow =>
         \A f \in {"url", "key", "pin", "secret"} :
            row'[f] # row[f] => \E q \in requests \ requests' : Meant(q, f) \/ Stale(q, f)
    /\ \A h \in Hosts : known[h] # NotPinned => known'[h] = known[h]
(* gitops_repos.go:174, "A new URL may point at another server, so it       *)
(* forgets the host key too": what is pinned is a key that the server at the*)
(* URL has had, or the very key that a test that was under way when the URL *)
(* changed heard from the server at the old one and pinned for the new.     *)
PinIsOfItsServer ==
    row # NoRow => row.pin = NotPinned \/ <<row.url, row.pin>> \in served \cup crossed

(* A pin is of the server the connection reaches, and stays: both of the    *)
(* above.                                                                   *)
PinHolds == OnlyAsMeant /\ PinIsOfItsServer'
PinsStand == [][PinHolds]_vars
=============================================================================
