------------------------------ MODULE Inventory ------------------------------
(* The server inventory: rows in SQLite, secrets in the OS keychain, and what *)
(* hangs on a row (notes, snapshots, ledger entries). No transaction spans    *)
(* the database and the keychain: add_server stores the secret and then the   *)
(* row, delete_server removes the secret and then the row, and either half    *)
(* may fail or the process may exit in between.                               *)
EXTENDS Integers, Sequences, FiniteSets, Functions

CONSTANTS
    Ids,        \* server ids; add_server draws each once (UUID v4)
    Aliases,    \* display names; unique by idx_servers_alias
    NoteIds, SnapshotIds, EventIds,
    Documents,  \* snapshot documents, see Document
    NoServer    \* SQL NULL, in the ledger

VARIABLES
    rows,       \* table servers: a map from ids to profiles
    vault,      \* the keychain: <<id, kind>> of every stored secret
    adding,     \* add_server commands between the keychain and the upsert
    deleting,   \* ids whose delete_server is between keychain and row
    drawnIds,   \* ids drawn so far
    strays,     \* ids whose secret outlived a failed or interrupted command
    halves,     \* ids whose row outlived a failed or interrupted deletion
    notes,      \* table notes
    snapshots,  \* table snapshots
    ledger      \* table audit_events: which server an entry names

commandVars == <<adding, deleting, drawnIds, strays, halves>>
childVars == <<notes, snapshots, ledger>>
inventoryVars == <<rows, vault, commandVars, childVars>>

SecretKind == {"password", "key-passphrase"}
AuthMethod == {"password", "encrypted_key", "plain_key", "agent"}

(* ServerProfile as validate accepts it, less what nothing here looks at.    *)
Profile == [alias : Aliases, auth : AuthMethod, facts : BOOLEAN]

(* notes.rs SECTIONS.                                                        *)
SECTIONS == {"architecture", "deployment", "backup", "maintenance",
             "known-issues", "commands", "operational", "incidents"}

(* SnapshotDocument: five lists whose items are a subject and what is said   *)
(* of it, and the kernel ("" when it could not be read).                     *)
Kinds == {"service", "port", "package", "container", "user"}
Document == [lists : [Kinds -> Seq(STRING \X STRING)], kernel : STRING]

ASSUME DocumentsAssumption == Documents \subseteq Document

InventoryInit ==
    /\ rows = [i \in {} |-> 0]
    /\ vault = {}
    /\ adding = [i \in {} |-> 0]
    /\ deleting = {}
    /\ drawnIds = {}
    /\ strays = {}
    /\ halves = {}
    /\ notes = [n \in {} |-> 0]
    /\ snapshots = [n \in {} |-> 0]
    /\ ledger = [e \in {} |-> 0]

Put(map, key, v) == [x \in DOMAIN map \cup {key} |-> IF x = key THEN v ELSE map[x]]
Drop(map, keys) == [x \in DOMAIN map \ keys |-> map[x]]

-----------------------------------------------------------------------------
(* Which secret add_server stores for a method: a password is required, a    *)
(* passphrase is stored when one was given, anything else takes none and is  *)
(* refused when one was given.                                               *)
KindOf(auth) ==
    CASE auth = "password" -> {"password"}
      [] auth = "encrypted_key" -> {"key-passphrase"}
      [] OTHER -> {}

(* A server may be added without the password it logs in with.              *)
MayCarry_Optional(auth, given) == given => KindOf(auth) # {}

MayCarry(auth, given) ==
    /\ auth = "password" => given
    /\ given => KindOf(auth) # {}

(* ServerProfile::validate, for the one field that is kept: an alias is not  *)
(* blank. add_server calls it before the secret, upsert again.               *)
Valid(profile) == profile \in Profile

(* add_server up to its only await: validation, a fresh id, the secret. A    *)
(* profile that does not validate, a secret that is missing or unwanted and  *)
(* a keychain that refuses to store all return here and leave nothing.       *)
AddServer(i, alias, auth, given) ==
    /\ i \notin drawnIds
    /\ Valid([alias |-> alias, auth |-> auth, facts |-> FALSE])
    /\ MayCarry(auth, given)
    /\ drawnIds' = drawnIds \cup {i}
    /\ vault' = vault \cup (IF given THEN {i} \X KindOf(auth) ELSE {})
    /\ adding' = Put(adding, i, [alias |-> alias, auth |-> auth, facts |-> FALSE])
    /\ UNCHANGED <<rows, deleting, strays, halves, childVars>>

(* The unique index on the alias.                                            *)
AliasFree(i, alias) == \A j \in DOMAIN rows \ {i} : rows[j].alias # alias

(* The upsert, for an id that is new by construction.                        *)
UpsertRow(i) ==
    /\ i \in DOMAIN adding
    /\ Valid(adding[i]) /\ AliasFree(i, adding[i].alias)
    /\ rows' = Put(rows, i, adding[i])
    /\ adding' = Drop(adding, {i})
    /\ UNCHANGED <<vault, deleting, drawnIds, strays, halves, childVars>>

(* The name is taken, or SQLite refuses: the error goes to the caller and    *)
(* the secret that was stored stays behind, under an id nobody is told.      *)
UpsertFails(i) ==
    /\ i \in DOMAIN adding
    /\ adding' = Drop(adding, {i})
    /\ strays' = strays \cup {i}
    /\ UNCHANGED <<rows, vault, deleting, drawnIds, halves, childVars>>

(* What Vault::delete_all leaves behind: it stops at the first error, which  *)
(* delete_server only logs.                                                  *)
LeftBehind(i, failsAt) ==
    {v \in vault : v[1] = i /\
        \/ failsAt = "password"
        \/ failsAt = "key-passphrase" /\ v[2] = "key-passphrase"}

(* delete_server up to its last await: the secrets.                          *)
DeleteSecrets(i, failsAt) ==
    /\ i \in drawnIds \ DOMAIN adding
    /\ vault' = {v \in vault : v[1] # i} \cup LeftBehind(i, failsAt)
    /\ deleting' = deleting \cup {i}
    /\ strays' = IF LeftBehind(i, failsAt) = {} THEN strays ELSE strays \cup {i}
    /\ UNCHANGED <<rows, adding, drawnIds, halves, childVars>>

(* A schema without the reference from snapshots.                            *)
Cascade_NotesOnly(i) ==
    /\ notes' = Drop(notes, {n \in DOMAIN notes : notes[n].server = i})
    /\ ledger' = [e \in DOMAIN ledger |-> IF ledger[e] = i THEN NoServer ELSE ledger[e]]
    /\ UNCHANGED snapshots

(* ON DELETE CASCADE for notes and snapshots, SET NULL for the ledger.       *)
Cascade(i) ==
    /\ notes' = Drop(notes, {n \in DOMAIN notes : notes[n].server = i})
    /\ snapshots' = Drop(snapshots, {n \in DOMAIN snapshots : snapshots[n].server = i})
    /\ ledger' = [e \in DOMAIN ledger |-> IF ledger[e] = i THEN NoServer ELSE ledger[e]]

(* ServerRepo::delete; deleting what is not there succeeds.                  *)
DeleteRow(i) ==
    /\ i \in deleting
    /\ rows' = Drop(rows, {i})
    /\ deleting' = deleting \ {i}
    /\ Cascade(i)
    /\ UNCHANGED <<vault, adding, drawnIds, strays, halves>>

(* SQLite refuses: the server stays, without the secret it needs.            *)
DeleteRowFails(i) ==
    /\ i \in deleting
    /\ deleting' = deleting \ {i}
    /\ halves' = halves \cup {i}
    /\ UNCHANGED <<rows, vault, adding, drawnIds, strays, childVars>>

(* The process exits: what was committed stays, the commands are gone.       *)
Exit ==
    /\ strays' = strays \cup DOMAIN adding
    /\ halves' = halves \cup deleting
    /\ adding' = [i \in {} |-> 0]
    /\ deleting' = {}
    /\ UNCHANGED <<rows, vault, drawnIds, childVars>>

(* set_facts: an update of no row is UnknownServer.                          *)
SetFacts(i) ==
    /\ i \in DOMAIN rows
    /\ rows' = [rows EXCEPT ![i].facts = TRUE]
    /\ UNCHANGED <<vault, commandVars, childVars>>

(* probe_capabilities, when the script has come back: whatever it says is    *)
(* saved. A server that was deleted while it ran keeps no facts.             *)
ProbeCapabilities(i) == SetFacts(i)

-----------------------------------------------------------------------------
(* NoteRepo::upsert: a title, a known section and, for a new note, an        *)
(* existing server; a note that exists keeps the server it was written for.  *)
UpsertNote(n, i, section, titled) ==
    /\ titled /\ section \in SECTIONS
    /\ n \in DOMAIN notes \/ i \in DOMAIN rows
    /\ notes' = Put(notes, n,
          [server |-> IF n \in DOMAIN notes THEN notes[n].server ELSE i,
           section |-> section])
    /\ UNCHANGED <<rows, vault, commandVars, snapshots, ledger>>

(* NoteRepo::delete *)
DeleteNote(n) ==
    /\ n \in DOMAIN notes
    /\ notes' = Drop(notes, {n})
    /\ UNCHANGED <<rows, vault, commandVars, snapshots, ledger>>

(* AuditRepo::record, for an entry that names a server or none.              *)
Record(e, i) ==
    /\ e \notin DOMAIN ledger
    /\ i = NoServer \/ i \in DOMAIN rows
    /\ ledger' = Put(ledger, e, i)
    /\ UNCHANGED <<rows, vault, commandVars, notes, snapshots>>

(* SnapshotRepo::create: a plain insert, so neither a used id nor an unknown *)
(* server is accepted.                                                       *)
CreateSnapshot(n, i, doc) ==
    /\ n \notin DOMAIN snapshots
    /\ i \in DOMAIN rows
    /\ snapshots' = Put(snapshots, n, [server |-> i, document |-> doc])
    /\ UNCHANGED <<rows, vault, commandVars, notes, ledger>>

(* SnapshotRepo::delete *)
DeleteSnapshot(n) ==
    /\ n \in DOMAIN snapshots
    /\ snapshots' = Drop(snapshots, {n})
    /\ UNCHANGED <<rows, vault, commandVars, notes, ledger>>

-----------------------------------------------------------------------------
(* Collecting a list into a BTreeMap: the last item of a subject wins.       *)
MapOf(list) ==
    LET last(x) == CHOOSE k \in DOMAIN list :
                      list[k][1] = x /\ \A l \in DOMAIN list : l > k => list[l][1] # x
    IN [x \in {item[1] : item \in Range(list)} |-> list[last(x)][2]]

At(map, x) == IF x \in DOMAIN map THEN {map[x]} ELSE {}

Change(kind, x, previous, current) ==
    [kind |-> kind, subject |-> x, previous |-> previous, current |-> current]

(* Additions are not looked for.                                             *)
Compare_NoAdditions(kind, a, b) ==
    {Change(kind, x, At(a, x), At(b, x)) : x \in {y \in DOMAIN a : At(a, y) # At(b, y)}}

(* The closure compare of diff: changed and removed subjects, then new ones. *)
Compare(kind, a, b) ==
    {Change(kind, x, At(a, x), At(b, x)) :
        x \in {y \in DOMAIN a \cup DOMAIN b : At(a, y) # At(b, y)}}

(* diff: list by list, and the kernel when the older document knows one.     *)
Diff(before, after) ==
    (UNION {Compare(k, MapOf(before.lists[k]), MapOf(after.lists[k])) : k \in Kinds})
    \cup (IF before.kernel # after.kernel /\ before.kernel # ""
          THEN {Change("kernel", "running kernel", {before.kernel}, {after.kernel})}
          ELSE {})

-----------------------------------------------------------------------------
RowNext ==
    \/ \E i \in Ids, alias \in Aliases \cup {""}, auth \in AuthMethod, given \in BOOLEAN :
          AddServer(i, alias, auth, given)
    \/ \E i \in Ids : UpsertRow(i) \/ UpsertFails(i)
    \/ \E i \in Ids, failsAt \in {"none"} \cup SecretKind : DeleteSecrets(i, failsAt)
    \/ \E i \in Ids : DeleteRow(i) \/ DeleteRowFails(i)
    \/ Exit
    \/ \E i \in Ids : ProbeCapabilities(i)

NoteNext ==
    \/ \E n \in NoteIds, i \in Ids, section \in {"backup", "incidents", "misc"},
          titled \in BOOLEAN : UpsertNote(n, i, section, titled)
    \/ \E n \in NoteIds : DeleteNote(n)
    \/ \E e \in EventIds, i \in Ids \cup {NoServer} : Record(e, i)

(* Servers that need no secret, for what hangs on a row.                     *)
PlainRowNext ==
    \/ \E i \in Ids, alias \in Aliases : AddServer(i, alias, "agent", FALSE)
    \/ \E i \in Ids : UpsertRow(i) \/ DeleteSecrets(i, "none") \/ DeleteRow(i)

SnapshotNext ==
    \/ \E n \in SnapshotIds, i \in Ids, doc \in Documents : CreateSnapshot(n, i, doc)
    \/ \E n \in SnapshotIds : DeleteSnapshot(n)

InventorySpec == InventoryInit /\ [][RowNext \/ NoteNext \/ SnapshotNext]_inventoryVars

-----------------------------------------------------------------------------
(* Types, and the schema's constraints: unique names, and no note, snapshot  *)
(* or ledger entry of a server that has no row.                              *)
InventoryTypeOK ==
    /\ DOMAIN rows \subseteq drawnIds
    /\ \A i \in DOMAIN rows : rows[i] \in Profile /\ AliasFree(i, rows[i].alias)
    /\ vault \subseteq drawnIds \X SecretKind
    /\ DOMAIN adding \subseteq drawnIds \ DOMAIN rows
    /\ \A i \in DOMAIN adding : adding[i] \in Profile
    /\ deleting \cup drawnIds \cup strays \cup halves \subseteq Ids
    /\ \A n \in DOMAIN notes :
          n \in NoteIds /\ notes[n] \in [server : DOMAIN rows, section : SECTIONS]
    /\ \A n \in DOMAIN snapshots :
          n \in SnapshotIds /\ snapshots[n] \in [server : DOMAIN rows, document : Documents]
    /\ \A e \in DOMAIN ledger : e \in EventIds /\ ledger[e] \in DOMAIN rows \cup {NoServer}

(* Rows and secrets match: a secret belongs to a server of that method or to *)
(* one being added, and a server that logs in with a password has it unless  *)
(* it is being deleted. Only a command that failed or was cut short between  *)
(* its two stores makes an exception, and only for its own id                *)
(* (commands/servers.rs add_server, delete_server).                          *)
SecretsMatchRows ==
    /\ \A v \in vault :
          \/ v[1] \in DOMAIN rows /\ v[2] \in KindOf(rows[v[1]].auth)
          \/ v[1] \in DOMAIN adding
          \/ v[1] \in strays
    /\ \A i \in DOMAIN rows :
          rows[i].auth = "password" =>
             <<i, "password">> \in vault \/ i \in deleting \cup halves

Items(doc) == UNION {{<<k, item[1], item[2]>> : item \in Range(doc.lists[k])} : k \in Kinds}
OncePerSubject(doc) == \A p, q \in Items(doc) : p[1] = q[1] /\ p[2] = q[2] => p = q

(* The change list is exact for documents that name a subject once: what it  *)
(* says was there was, what it says is there is, nothing unchanged is in it, *)
(* and nothing that changed is missing (snapshots.rs diff).                  *)
DiffIsExact ==
    \A m, n \in DOMAIN snapshots :
        LET a == snapshots[m].document
            b == snapshots[n].document
            d == {c \in Diff(a, b) : c.kind # "kernel"}
        IN OncePerSubject(a) /\ OncePerSubject(b) =>
              /\ UNION {{<<c.kind, c.subject, v>> : v \in c.previous} : c \in d} = Items(a) \ Items(b)
              /\ UNION {{<<c.kind, c.subject, v>> : v \in c.current} : c \in d} = Items(b) \ Items(a)
=============================================================================
