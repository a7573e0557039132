-------------------------- MODULE InventoryProofs --------------------------
(* Proofs about the inventory, for any number of servers, notes, snapshots   *)
(* and ledger entries and for every interleaving of the commands.            *)
EXTENDS Inventory, TLAPS, WellFoundedInduction

(* What the two halves of a command rely on. The secret of a server that is  *)
(* being added is of its method and, for a password, already there; the      *)
(* secrets of one that is being deleted are gone, unless the keychain failed.*)
SecretInv ==
    /\ SecretsMatchRows
    /\ \A v \in vault : v[1] \in DOMAIN adding => v[2] \in KindOf(adding[v[1]].auth)
    /\ \A i \in DOMAIN adding : adding[i].auth = "password" => <<i, "password">> \in vault
    /\ deleting \subseteq drawnIds \ DOMAIN adding
    /\ \A v \in vault : v[1] \in deleting => v[1] \in strays

InventoryInv == InventoryTypeOK /\ SecretInv

InventoryNext == RowNext \/ NoteNext \/ SnapshotNext

(* The parts of InventoryTypeOK that concern rows and those that concern     *)
(* what hangs on them.                                                       *)
RowsOK ==
    /\ DOMAIN rows \subseteq drawnIds
    /\ \A i \in DOMAIN rows : rows[i] \in Profile /\ AliasFree(i, rows[i].alias)
    /\ vault \subseteq drawnIds \X SecretKind
    /\ DOMAIN adding \subseteq drawnIds \ DOMAIN rows
    /\ \A i \in DOMAIN adding : adding[i] \in Profile
    /\ deleting \cup drawnIds \cup strays \cup halves \subseteq Ids

ChildrenOK ==
    /\ \A n \in DOMAIN notes :
          n \in NoteIds /\ notes[n] \in [server : DOMAIN rows, section : SECTIONS]
    /\ \A n \in DOMAIN snapshots :
          n \in SnapshotIds /\ snapshots[n] \in [server : DOMAIN rows, document : Documents]
    /\ \A e \in DOMAIN ledger : e \in EventIds /\ ledger[e] \in DOMAIN rows \cup {NoServer}

LEMMA TypeSplit == InventoryTypeOK <=> RowsOK /\ ChildrenOK
  BY DEF InventoryTypeOK, RowsOK, ChildrenOK

(* Nothing below a row is touched when rows only grow.                       *)
LEMMA ChildrenStay ==
    ASSUME ChildrenOK, UNCHANGED childVars, DOMAIN rows \subseteq DOMAIN rows'
    PROVE  ChildrenOK'
  BY DEF ChildrenOK, childVars

-----------------------------------------------------------------------------
LEMMA InventoryInitInv == InventoryInit => InventoryInv
  BY DEF InventoryInit, InventoryInv, InventoryTypeOK, SecretInv, SecretsMatchRows

(* A new id: no row, no secret and no command knows it yet.                  *)
LEMMA AddServerInv ==
    ASSUME InventoryInv, NEW i \in Ids, NEW alias \in Aliases \cup {""},
           NEW auth \in AuthMethod, NEW given \in BOOLEAN, AddServer(i, alias, auth, given)
    PROVE  InventoryInv'
  <1> DEFINE p == [alias |-> alias, auth |-> auth, facts |-> FALSE]
             new == IF given THEN {i} \X KindOf(auth) ELSE {}
  <1>1. /\ i \notin drawnIds /\ p \in Profile /\ MayCarry(auth, given)
        /\ drawnIds' = drawnIds \cup {i}
        /\ vault' = vault \cup new
        /\ DOMAIN adding' = DOMAIN adding \cup {i}
        /\ adding'[i] = p
        /\ \A x \in DOMAIN adding : x # i => adding'[x] = adding[x]
        /\ UNCHANGED <<rows, deleting, strays, halves, childVars>>
    BY DEF AddServer, Valid, Put
  <1>2. /\ p.auth = auth
        /\ \A v \in new : v[1] = i /\ v[2] \in KindOf(auth) /\ v \in {i} \X SecretKind
        /\ auth = "password" => <<i, "password">> \in new
    BY <1>1 DEF KindOf, SecretKind, MayCarry
  <1>3. RowsOK /\ ChildrenOK /\ SecretInv
    BY TypeSplit DEF InventoryInv
  <1> HIDE DEF p, new
  <1>4. RowsOK'
    BY <1>1, <1>2, <1>3 DEF RowsOK, AliasFree
  <1>5. ChildrenOK'
    BY <1>1, <1>3, ChildrenStay
  <1>6. SecretInv'
    <2>1. \A v \in vault : v[1] # i
      BY <1>1, <1>3 DEF RowsOK
    <2>2. SecretsMatchRows'
      BY <1>1, <1>2, <1>3, <2>1 DEF SecretInv, SecretsMatchRows
    <2>3. \A v \in vault' : v[1] \in DOMAIN adding' => v[2] \in KindOf(adding'[v[1]].auth)
      BY <1>1, <1>2, <1>3, <2>1 DEF SecretInv
    <2>4. \A x \in DOMAIN adding' : adding'[x].auth = "password" => <<x, "password">> \in vault'
      BY <1>1, <1>2, <1>3 DEF SecretInv
    <2>5. /\ deleting' \subseteq drawnIds' \ DOMAIN adding'
          /\ \A v \in vault' : v[1] \in deleting' => v[1] \in strays'
      BY <1>1, <1>2, <1>3 DEF SecretInv, RowsOK
    <2> QED BY <2>2, <2>3, <2>4, <2>5 DEF SecretInv
  <1> QED BY <1>4, <1>5, <1>6, TypeSplit DEF InventoryInv, RowsOK, ChildrenOK, InventoryTypeOK

(* The row of a server that was being added.                                 *)
LEMMA UpsertRowInv ==
    ASSUME InventoryInv, NEW i \in Ids, UpsertRow(i)
    PROVE  InventoryInv'
  <1>1. /\ i \in DOMAIN adding /\ AliasFree(i, adding[i].alias)
        /\ DOMAIN rows' = DOMAIN rows \cup {i}
        /\ rows'[i] = adding[i]
        /\ \A x \in DOMAIN rows : x # i => rows'[x] = rows[x]
        /\ DOMAIN adding' = DOMAIN adding \ {i}
        /\ \A x \in DOMAIN adding' : adding'[x] = adding[x]
        /\ UNCHANGED <<vault, deleting, drawnIds, strays, halves, childVars>>
    BY DEF UpsertRow, Put, Drop
  <1>2. RowsOK /\ ChildrenOK /\ SecretInv
    BY TypeSplit DEF InventoryInv
  <1>3. RowsOK'
    BY <1>1, <1>2 DEF RowsOK, AliasFree
  <1>4. ChildrenOK'
    BY <1>1, <1>2, ChildrenStay
  <1>5. SecretInv'
    BY <1>1, <1>2 DEF SecretInv, SecretsMatchRows, RowsOK
  <1> QED BY <1>3, <1>4, <1>5 DEF InventoryInv, RowsOK, ChildrenOK, InventoryTypeOK

LEMMA UpsertFailsInv ==
    ASSUME InventoryInv, NEW i \in Ids, UpsertFails(i)
    PROVE  InventoryInv'
  <1>1. /\ i \in DOMAIN adding
        /\ DOMAIN adding' = DOMAIN adding \ {i}
        /\ \A x \in DOMAIN adding' : adding'[x] = adding[x]
        /\ strays' = strays \cup {i}
        /\ UNCHANGED <<rows, vault, deleting, drawnIds, halves, childVars>>
    BY DEF UpsertFails, Drop
  <1>2. RowsOK /\ ChildrenOK /\ SecretInv
    BY TypeSplit DEF InventoryInv
  <1>3. RowsOK'
    BY <1>1, <1>2 DEF RowsOK, AliasFree
  <1>4. ChildrenOK'
    BY <1>1, <1>2, ChildrenStay
  <1>5. SecretInv'
    BY <1>1, <1>2 DEF SecretInv, SecretsMatchRows
  <1> QED BY <1>3, <1>4, <1>5 DEF InventoryInv, RowsOK, ChildrenOK, InventoryTypeOK

(* A server that loses its secrets is marked as being deleted.               *)
LEMMA DeleteSecretsInv ==
    ASSUME InventoryInv, NEW i \in Ids, NEW failsAt \in {"none"} \cup SecretKind,
           DeleteSecrets(i, failsAt)
    PROVE  InventoryInv'
  <1> DEFINE left == LeftBehind(i, failsAt)
  <1>1. /\ i \in drawnIds \ DOMAIN adding
        /\ vault' = {v \in vault : v[1] # i} \cup left
        /\ deleting' = deleting \cup {i}
        /\ strays' = IF left = {} THEN strays ELSE strays \cup {i}
        /\ UNCHANGED <<rows, adding, drawnIds, halves, childVars>>
    BY DEF DeleteSecrets
  <1>2. left \subseteq {v \in vault : v[1] = i}
    BY DEF LeftBehind
  <1> HIDE DEF left
  <1>3. RowsOK /\ ChildrenOK /\ SecretInv
    BY TypeSplit DEF InventoryInv
  <1>4. vault' \subseteq vault /\ \A v \in vault' : v[1] = i => i \in strays'
    BY <1>1, <1>2
  <1>5. \A x \in Ids : x # i => \A kind : <<x, kind>> \in vault => <<x, kind>> \in vault'
    BY <1>1
  <1>6. RowsOK'
    BY <1>1, <1>3, <1>4 DEF RowsOK, AliasFree
  <1>7. ChildrenOK'
    BY <1>1, <1>3, ChildrenStay
  <1>8. SecretInv'
    <2>1. SecretsMatchRows'
      BY <1>1, <1>3, <1>4, <1>5 DEF SecretInv, SecretsMatchRows, RowsOK
    <2>2. /\ \A v \in vault' : v[1] \in DOMAIN adding' => v[2] \in KindOf(adding'[v[1]].auth)
          /\ \A x \in DOMAIN adding' : adding'[x].auth = "password" => <<x, "password">> \in vault'
      BY <1>1, <1>3, <1>4, <1>5 DEF SecretInv, RowsOK
    <2>3. /\ deleting' \subseteq drawnIds' \ DOMAIN adding'
          /\ \A v \in vault' : v[1] \in deleting' => v[1] \in strays'
      BY <1>1, <1>3, <1>4 DEF SecretInv
    <2> QED BY <2>1, <2>2, <2>3 DEF SecretInv
  <1> QED BY <1>6, <1>7, <1>8 DEF InventoryInv, RowsOK, ChildrenOK, InventoryTypeOK

(* The row goes, and everything that refers to it with it.                   *)
LEMMA DeleteRowInv ==
    ASSUME InventoryInv, NEW i \in Ids, DeleteRow(i)
    PROVE  InventoryInv'
  <1>1. /\ i \in deleting
        /\ DOMAIN rows' = DOMAIN rows \ {i}
        /\ \A x \in DOMAIN rows' : rows'[x] = rows[x]
        /\ deleting' = deleting \ {i}
        /\ Cascade(i)
        /\ UNCHANGED <<vault, adding, drawnIds, strays, halves>>
    BY DEF DeleteRow, Drop
  <1>2. RowsOK /\ ChildrenOK /\ SecretInv
    BY TypeSplit DEF InventoryInv
  <1>3. RowsOK'
    BY <1>1, <1>2 DEF RowsOK, AliasFree
  <1>4. ChildrenOK'
    <2>1. /\ \A n \in DOMAIN notes' :
                n \in DOMAIN notes /\ notes[n].server # i /\ notes'[n] = notes[n]
          /\ \A n \in DOMAIN snapshots' :
                n \in DOMAIN snapshots /\ snapshots[n].server # i /\ snapshots'[n] = snapshots[n]
          /\ DOMAIN ledger' = DOMAIN ledger
          /\ \A e \in DOMAIN ledger :
                ledger'[e] = IF ledger[e] = i THEN NoServer ELSE ledger[e]
      BY <1>1 DEF Cascade, Drop
    <2>2. \A n \in DOMAIN notes' :
             n \in NoteIds /\ notes'[n] \in [server : DOMAIN rows', section : SECTIONS]
      BY <1>1, <1>2, <2>1 DEF ChildrenOK
    <2>3. \A n \in DOMAIN snapshots' :
             n \in SnapshotIds /\ snapshots'[n] \in [server : DOMAIN rows', document : Documents]
      BY <1>1, <1>2, <2>1 DEF ChildrenOK
    <2>4. \A e \in DOMAIN ledger' : e \in EventIds /\ ledger'[e] \in DOMAIN rows' \cup {NoServer}
      BY <1>1, <1>2, <2>1 DEF ChildrenOK
    <2> QED BY <2>2, <2>3, <2>4 DEF ChildrenOK
  <1>5. SecretInv'
    BY <1>1, <1>2 DEF SecretInv, SecretsMatchRows, RowsOK
  <1> QED BY <1>3, <1>4, <1>5 DEF InventoryInv, RowsOK, ChildrenOK, InventoryTypeOK

LEMMA DeleteRowFailsInv ==
    ASSUME InventoryInv, NEW i \in Ids, DeleteRowFails(i)
    PROVE  InventoryInv'
  <1>1. /\ i \in deleting
        /\ deleting' = deleting \ {i}
        /\ halves' = halves \cup {i}
        /\ UNCHANGED <<rows, vault, adding, drawnIds, strays, childVars>>
    BY DEF DeleteRowFails
  <1>2. RowsOK /\ ChildrenOK /\ SecretInv
    BY TypeSplit DEF InventoryInv
  <1>3. RowsOK'
    BY <1>1, <1>2 DEF RowsOK, AliasFree
  <1>4. ChildrenOK'
    BY <1>1, <1>2, ChildrenStay
  <1>5. SecretInv'
    BY <1>1, <1>2 DEF SecretInv, SecretsMatchRows
  <1> QED BY <1>3, <1>4, <1>5 DEF InventoryInv, RowsOK, ChildrenOK, InventoryTypeOK

(* Commands cut short leave their ids among the strays and the halves.       *)
LEMMA ExitInv == InventoryInv /\ Exit => InventoryInv'
  <1> SUFFICES ASSUME InventoryInv, Exit PROVE InventoryInv'
    OBVIOUS
  <1>1. /\ strays' = strays \cup DOMAIN adding
        /\ halves' = halves \cup deleting
        /\ DOMAIN adding' = {}
        /\ deleting' = {}
        /\ UNCHANGED <<rows, vault, drawnIds, childVars>>
    BY DEF Exit
  <1>2. RowsOK /\ ChildrenOK /\ SecretInv
    BY TypeSplit DEF InventoryInv
  <1>3. RowsOK'
    BY <1>1, <1>2 DEF RowsOK, AliasFree
  <1>4. ChildrenOK'
    BY <1>1, <1>2, ChildrenStay
  <1>5. SecretInv'
    BY <1>1, <1>2 DEF SecretInv, SecretsMatchRows
  <1> QED BY <1>3, <1>4, <1>5 DEF InventoryInv, RowsOK, ChildrenOK, InventoryTypeOK

LEMMA ProbeInv ==
    ASSUME InventoryInv, NEW i \in Ids, ProbeCapabilities(i)
    PROVE  InventoryInv'
  <1>1. RowsOK /\ ChildrenOK /\ SecretInv
    BY TypeSplit DEF InventoryInv
  <1>2. /\ i \in DOMAIN rows
        /\ rows' = [rows EXCEPT ![i].facts = TRUE]
        /\ UNCHANGED <<vault, adding, deleting, drawnIds, strays, halves, childVars>>
    BY DEF ProbeCapabilities, SetFacts, commandVars
  <1>3. /\ DOMAIN rows' = DOMAIN rows
        /\ \A x \in DOMAIN rows : /\ rows'[x] \in Profile
                                  /\ rows'[x].auth = rows[x].auth
                                  /\ rows'[x].alias = rows[x].alias
    BY <1>1, <1>2 DEF RowsOK, Profile
  <1>4. RowsOK'
    <2>1. \A x \in DOMAIN rows' : AliasFree(x, rows[x].alias)'
      BY <1>1, <1>3 DEF RowsOK, AliasFree
    <2> QED BY <1>1, <1>2, <1>3, <2>1 DEF RowsOK
  <1>5. ChildrenOK'
    BY <1>1, <1>2, <1>3, ChildrenStay
  <1>6. SecretInv'
    BY <1>1, <1>2, <1>3 DEF SecretInv, SecretsMatchRows
  <1> QED BY <1>4, <1>5, <1>6 DEF InventoryInv, RowsOK, ChildrenOK, InventoryTypeOK

(* Notes, snapshots and ledger entries are only written for rows that exist. *)
LEMMA ChildStepInv ==
    ASSUME InventoryInv, NoteNext \/ SnapshotNext
    PROVE  InventoryInv'
  <1>1. RowsOK /\ ChildrenOK /\ SecretInv
    BY TypeSplit DEF InventoryInv
  <1>2. UNCHANGED <<rows, vault, adding, deleting, drawnIds, strays, halves>>
    BY DEF NoteNext, SnapshotNext, UpsertNote, DeleteNote, Record, CreateSnapshot,
           DeleteSnapshot, commandVars
  <1>3. RowsOK'
    BY <1>1, <1>2 DEF RowsOK, AliasFree
  <1>4. SecretInv'
    BY <1>1, <1>2 DEF SecretInv, SecretsMatchRows
  <1>5. ChildrenOK'
    <2>1. ASSUME NEW n \in NoteIds, NEW i \in Ids, NEW section, NEW titled,
                 UpsertNote(n, i, section, titled)
          PROVE  ChildrenOK'
      BY <1>1, <1>2, <2>1 DEF UpsertNote, Put, ChildrenOK
    <2>2. ASSUME NEW n \in NoteIds, DeleteNote(n)
          PROVE  ChildrenOK'
      BY <1>1, <1>2, <2>2 DEF DeleteNote, Drop, ChildrenOK
    <2>3. ASSUME NEW e \in EventIds, NEW i \in Ids \cup {NoServer}, Record(e, i)
          PROVE  ChildrenOK'
      BY <1>1, <1>2, <2>3 DEF Record, Put, ChildrenOK
    <2>4. ASSUME NEW n \in SnapshotIds, NEW i \in Ids, NEW doc \in Documents,
                 CreateSnapshot(n, i, doc)
          PROVE  ChildrenOK'
      BY <1>1, <1>2, <2>4 DEF CreateSnapshot, Put, ChildrenOK
    <2>5. ASSUME NEW n \in SnapshotIds, DeleteSnapshot(n)
          PROVE  ChildrenOK'
      BY <1>1, <1>2, <2>5 DEF DeleteSnapshot, Drop, ChildrenOK
    <2> QED BY <2>1, <2>2, <2>3, <2>4, <2>5 DEF NoteNext, SnapshotNext
  <1> QED BY <1>3, <1>4, <1>5 DEF InventoryInv, RowsOK, ChildrenOK, InventoryTypeOK

LEMMA InventoryStepInv == InventoryInv /\ [InventoryNext]_inventoryVars => InventoryInv'
  <1> SUFFICES ASSUME InventoryInv, [InventoryNext]_inventoryVars PROVE InventoryInv'
    OBVIOUS
  <1>1. CASE RowNext
    BY <1>1, AddServerInv, UpsertRowInv, UpsertFailsInv, DeleteSecretsInv, DeleteRowInv,
       DeleteRowFailsInv, ExitInv, ProbeInv DEF RowNext
  <1>2. CASE NoteNext \/ SnapshotNext
    BY <1>2, ChildStepInv
  <1>3. CASE UNCHANGED inventoryVars
    BY <1>3 DEF InventoryInv, InventoryTypeOK, SecretInv, SecretsMatchRows, AliasFree,
                inventoryVars, commandVars, childVars
  <1> QED BY <1>1, <1>2, <1>3 DEF InventoryNext

(* Every sequence of vault commands, the failing ones included, keeps the     *)
(* inductive invariant of the rows and their secrets.                         *)
THEOREM InventoryInvariant == InventorySpec => []InventoryInv
  <1>1. InventoryInit => InventoryInv
    BY InventoryInitInv
  <1>2. InventoryInv /\ [RowNext \/ NoteNext \/ SnapshotNext]_inventoryVars => InventoryInv'
    BY InventoryStepInv DEF InventoryNext
  <1> QED BY <1>1, <1>2, PTL DEF InventorySpec

(* Names stay unique, and no note, snapshot or ledger entry outlives its row *)
(* (the constraints and cascades of 0001_initial.sql).                       *)
THEOREM SchemaHolds == InventorySpec => []InventoryTypeOK
  <1>1. InventoryInv => InventoryTypeOK
    BY DEF InventoryInv
  <1> QED BY <1>1, InventoryInvariant, PTL

(* Rows and keychain entries match, except for the ids of commands that      *)
(* failed or were cut short (add_server, delete_server).                     *)
THEOREM SecretsMatch == InventorySpec => []SecretsMatchRows
  <1>1. InventoryInv => SecretsMatchRows
    BY DEF InventoryInv, SecretInv
  <1> QED BY <1>1, InventoryInvariant, PTL

-----------------------------------------------------------------------------
(* The change list of two snapshots.                                         *)

(* Among the indices of a list that have a property there is a last one.     *)
LEMMA LastIndex ==
    ASSUME NEW n \in Nat, NEW S \in SUBSET (1..n), S # {}
    PROVE  \E k \in S : \A l \in S : l <= k
  <1> DEFINE T == {n - k : k \in S}
  <1>1. T \subseteq Nat /\ T # {}
    <2>1. \A k \in S : k \in Int /\ 1 <= k /\ k <= n
      OBVIOUS
    <2>2. \A k \in S : n - k \in Nat
      BY <2>1
    <2> QED BY <2>2
  <1>2. PICK x \in T : \A y \in T : ~ (<<y, x>> \in OpToRel(<, Nat))
    BY <1>1, WFMin, NatLessThanWellFounded
  <1>3. \A y \in T : ~(y < x)
    BY <1>1, <1>2 DEF OpToRel
  <1>4. PICK k \in S : x = n - k
    BY <1>2
  <1>5. ASSUME NEW l \in S
        PROVE  l <= k
    <2>1. n - l \in T
      OBVIOUS
    <2>2. ~(n - l < n - k)
      BY <1>3, <1>4, <2>1
    <2> QED BY <2>2
  <1> QED BY <1>5

(* A list that says one thing of each subject is the map collected from it.  *)
LEMMA MapOfList ==
    ASSUME NEW list \in Seq(STRING \X STRING),
           \A p, q \in Range(list) : p[1] = q[1] => p[2] = q[2]
    PROVE  /\ DOMAIN MapOf(list) = {item[1] : item \in Range(list)}
           /\ \A item \in Range(list) : MapOf(list)[item[1]] = item[2]
  <1> DEFINE last(x) == CHOOSE k \in DOMAIN list :
                      list[k][1] = x /\ \A l \in DOMAIN list : l > k => list[l][1] # x
  <1>1. MapOf(list) = [x \in {item[1] : item \in Range(list)} |-> list[last(x)][2]]
    BY DEF MapOf
  <1>2. ASSUME NEW item \in Range(list)
        PROVE  list[last(item[1])] \in Range(list) /\ list[last(item[1])][1] = item[1]
    <2> DEFINE S == {k \in DOMAIN list : list[k][1] = item[1]}
    <2>1. DOMAIN list = 1..Len(list) /\ Len(list) \in Nat
      OBVIOUS
    <2>2. S \in SUBSET (1..Len(list)) /\ S # {}
      BY <2>1 DEF Range
    <2>3. PICK k \in S : \A l \in S : l <= k
      BY <2>1, <2>2, LastIndex
    <2>4. \A l \in DOMAIN list : l > k => list[l][1] # item[1]
      <3> SUFFICES ASSUME NEW l \in DOMAIN list, l > k, list[l][1] = item[1] PROVE FALSE
        OBVIOUS
      <3>1. l \in S /\ l \in Nat /\ k \in Nat
        BY <2>1
      <3> QED BY <2>3, <3>1
    <2>5. \E j \in DOMAIN list :
             list[j][1] = item[1] /\ \A l \in DOMAIN list : l > j => list[l][1] # item[1]
      BY <2>3, <2>4
    <2>6. last(item[1]) \in DOMAIN list /\ list[last(item[1])][1] = item[1]
      BY <2>5
    <2> QED BY <2>6 DEF Range
  <1> HIDE DEF last
  <1>3. ASSUME NEW item \in Range(list)
        PROVE  MapOf(list)[item[1]] = item[2]
    BY <1>1, <1>2
  <1> QED BY <1>1, <1>3

(* What a document says of a subject is what its map holds for it, and one   *)
(* thing at most.                                                            *)
LEMMA MapOfDocument ==
    ASSUME NEW doc \in Document, OncePerSubject(doc), NEW k \in Kinds, NEW x
    PROVE  /\ \A v : v \in At(MapOf(doc.lists[k]), x) <=> <<k, x, v>> \in Items(doc)
           /\ \A v, w \in At(MapOf(doc.lists[k]), x) : v = w
           /\ At(MapOf(doc.lists[k]), x) # {} => x \in DOMAIN MapOf(doc.lists[k])
  <1> DEFINE list == doc.lists[k]
  <1>1. list \in Seq(STRING \X STRING)
    BY DEF Document
  <1>2. ASSUME NEW item \in Range(list)
        PROVE  <<k, item[1], item[2]>> \in Items(doc)
    BY DEF Items
  <1>3. \A p, q \in Range(list) : p[1] = q[1] => p[2] = q[2]
    <2> SUFFICES ASSUME NEW p \in Range(list), NEW q \in Range(list), p[1] = q[1]
                 PROVE  p[2] = q[2]
      OBVIOUS
    <2>1. <<k, p[1], p[2]>> \in Items(doc) /\ <<k, q[1], q[2]>> \in Items(doc)
      BY <1>2
    <2>2. <<k, p[1], p[2]>> = <<k, q[1], q[2]>>
      BY <2>1 DEF OncePerSubject
    <2> QED BY <2>2
  <1>4. /\ DOMAIN MapOf(list) = {item[1] : item \in Range(list)}
        /\ \A item \in Range(list) : MapOf(list)[item[1]] = item[2]
    BY <1>1, <1>3, MapOfList
  <1>5. ASSUME NEW v, <<k, x, v>> \in Items(doc)
        PROVE  v \in At(MapOf(list), x)
    <2>1. PICK j \in Kinds :
             \E item \in Range(doc.lists[j]) : <<k, x, v>> = <<j, item[1], item[2]>>
      BY <1>5 DEF Items
    <2>2. PICK item \in Range(list) : x = item[1] /\ v = item[2]
      BY <2>1
    <2> QED BY <1>4, <2>2 DEF At
  <1>6. ASSUME NEW v \in At(MapOf(list), x)
        PROVE  <<k, x, v>> \in Items(doc)
    <2>1. x \in DOMAIN MapOf(list) /\ v = MapOf(list)[x]
      BY <1>6 DEF At
    <2>2. PICK item \in Range(list) : x = item[1]
      BY <1>4, <2>1
    <2>3. v = item[2]
      BY <1>4, <2>1, <2>2
    <2> QED BY <1>2, <2>2, <2>3
  <1> QED BY <1>5, <1>6 DEF At

LEMMA ChangeFields ==
    ASSUME NEW kind, NEW x, NEW p, NEW q
    PROVE  LET c == Change(kind, x, p, q)
           IN c.kind = kind /\ c.subject = x /\ c.previous = p /\ c.current = q
  BY DEF Change

(* The changes but the kernel's are the ones the lists were compared for.    *)
LEMMA ListChanges ==
    ASSUME NEW a, NEW b
    PROVE  {c \in Diff(a, b) : c.kind # "kernel"}
             = UNION {Compare(k, MapOf(a.lists[k]), MapOf(b.lists[k])) : k \in Kinds}
  <1> DEFINE kernels == IF a.kernel # b.kernel /\ a.kernel # ""
                        THEN {Change("kernel", "running kernel", {a.kernel}, {b.kernel})}
                        ELSE {}
             lists == UNION {Compare(k, MapOf(a.lists[k]), MapOf(b.lists[k])) : k \in Kinds}
  <1>1. Diff(a, b) = lists \cup kernels
    BY Zenon DEF Diff
  <1>2. ASSUME NEW c \in kernels
        PROVE  c.kind = "kernel"
    <2>1. c = Change("kernel", "running kernel", {a.kernel}, {b.kernel})
      BY <1>2, Zenon
    <2>2. PICK x : x = "running kernel"
      BY Zenon
    <2>3. c = Change("kernel", x, {a.kernel}, {b.kernel})
      BY <2>1, <2>2, Zenon
    <2> HIDE DEF kernels
    <2> QED BY <2>3, ChangeFields
  <1>3. ASSUME NEW c \in lists
        PROVE  c.kind # "kernel"
    <2>1. PICK k \in Kinds : c \in Compare(k, MapOf(a.lists[k]), MapOf(b.lists[k]))
      BY <1>3
    <2>2. c.kind = k
      BY <2>1, ChangeFields DEF Compare
    <2> QED BY <2>2 DEF Kinds
  <1> HIDE DEF kernels, lists
  <1>4. {c \in Diff(a, b) : c.kind # "kernel"} = lists
    BY <1>1, <1>2, <1>3, Zenon
  <1> QED BY <1>4 DEF lists

(* Both columns of the list: what it gives as previous is what the older     *)
(* document has and the newer has not, and the other way round.              *)
LEMMA DiffColumns ==
    ASSUME NEW a \in Document, NEW b \in Document, OncePerSubject(a), OncePerSubject(b)
    PROVE  LET d == {c \in Diff(a, b) : c.kind # "kernel"}
           IN /\ UNION {{<<c.kind, c.subject, v>> : v \in c.previous} : c \in d}
                   = Items(a) \ Items(b)
              /\ UNION {{<<c.kind, c.subject, v>> : v \in c.current} : c \in d}
                   = Items(b) \ Items(a)
  <1> DEFINE d == {c \in Diff(a, b) : c.kind # "kernel"}
             A(k) == MapOf(a.lists[k])
             B(k) == MapOf(b.lists[k])
  <1>1. d = UNION {Compare(k, A(k), B(k)) : k \in Kinds}
    BY ListChanges
  <1> HIDE DEF d
  <1>2. ASSUME NEW c \in d
        PROVE  \E k \in Kinds : \E x : /\ c.kind = k /\ c.subject = x
                                       /\ c.previous = At(A(k), x) /\ c.current = At(B(k), x)
                                       /\ At(A(k), x) # At(B(k), x)
    <2>1. PICK k \in Kinds : c \in Compare(k, A(k), B(k))
      BY <1>1, <1>2
    <2>2. PICK x \in DOMAIN A(k) \cup DOMAIN B(k) :
             c = Change(k, x, At(A(k), x), At(B(k), x)) /\ At(A(k), x) # At(B(k), x)
      BY <2>1 DEF Compare
    <2> HIDE DEF A, B
    <2> QED BY <2>2, ChangeFields
  <1>3. ASSUME NEW k \in Kinds, NEW x, At(A(k), x) # At(B(k), x)
        PROVE  \E c \in d : /\ c.kind = k /\ c.subject = x
                            /\ c.previous = At(A(k), x) /\ c.current = At(B(k), x)
    <2>1. x \in DOMAIN A(k) \cup DOMAIN B(k)
      BY <1>3 DEF At
    <2>2. Change(k, x, At(A(k), x), At(B(k), x)) \in Compare(k, A(k), B(k))
      BY <1>3, <2>1 DEF Compare
    <2>3. Change(k, x, At(A(k), x), At(B(k), x)) \in d
      BY <1>1, <2>2
    <2> HIDE DEF A, B
    <2> QED BY <2>3, ChangeFields
  <1>4. \A k \in Kinds : \A x :
          /\ \A v : v \in At(A(k), x) <=> <<k, x, v>> \in Items(a)
          /\ \A v : v \in At(B(k), x) <=> <<k, x, v>> \in Items(b)
          /\ \A v, w \in At(A(k), x) : v = w
          /\ \A v, w \in At(B(k), x) : v = w
    BY MapOfDocument
  <1> HIDE DEF A, B
  <1>5. \A k \in Kinds : \A x : At(A(k), x) # At(B(k), x) =>
          ~ \E v : v \in At(A(k), x) /\ v \in At(B(k), x)
    <2> SUFFICES ASSUME NEW k \in Kinds, NEW x, NEW v, v \in At(A(k), x), v \in At(B(k), x)
                 PROVE  At(A(k), x) = At(B(k), x)
      OBVIOUS
    <2>1. At(A(k), x) = {v} /\ At(B(k), x) = {v}
      BY <1>4
    <2> QED BY <2>1
  <1>6. \A doc : \A p \in Items(doc) : \E k \in Kinds : \E x, v : p = <<k, x, v>>
    BY DEF Items
  <1>7. UNION {{<<c.kind, c.subject, v>> : v \in c.previous} : c \in d} = Items(a) \ Items(b)
    <2>1. ASSUME NEW c \in d, NEW v \in c.previous
          PROVE  <<c.kind, c.subject, v>> \in Items(a) \ Items(b)
      BY <1>2, <1>4, <1>5, <2>1
    <2>2. ASSUME NEW p \in Items(a) \ Items(b)
          PROVE  \E c \in d : \E v \in c.previous : p = <<c.kind, c.subject, v>>
      <3>1. PICK k \in Kinds : \E x, v : p = <<k, x, v>>
        BY <1>6
      <3>2. PICK x, v : p = <<k, x, v>>
        BY <3>1
      <3>3. v \in At(A(k), x) /\ v \notin At(B(k), x)
        BY <1>4, <3>2
      <3>4. PICK c \in d : c.kind = k /\ c.subject = x /\ c.previous = At(A(k), x)
        BY <1>3, <3>3
      <3> QED BY <3>2, <3>3, <3>4
    <2> QED BY <2>1, <2>2
  <1>8. UNION {{<<c.kind, c.subject, v>> : v \in c.current} : c \in d} = Items(b) \ Items(a)
    <2>1. ASSUME NEW c \in d, NEW v \in c.current
          PROVE  <<c.kind, c.subject, v>> \in Items(b) \ Items(a)
      BY <1>2, <1>4, <1>5, <2>1
    <2>2. ASSUME NEW p \in Items(b) \ Items(a)
          PROVE  \E c \in d : \E v \in c.current : p = <<c.kind, c.subject, v>>
      <3>1. PICK k \in Kinds : \E x, v : p = <<k, x, v>>
        BY <1>6
      <3>2. PICK x, v : p = <<k, x, v>>
        BY <3>1
      <3>3. v \in At(B(k), x) /\ v \notin At(A(k), x)
        BY <1>4, <3>2
      <3>4. PICK c \in d : c.kind = k /\ c.subject = x /\ c.current = At(B(k), x)
        BY <1>3, <3>3
      <3> QED BY <3>2, <3>3, <3>4
    <2> QED BY <2>1, <2>2
  <1> QED BY <1>7, <1>8 DEF d

(* DiffIsExact for snapshots of any length: between two documents that name  *)
(* a subject once, diff lists every difference and nothing else              *)
(* (snapshots.rs diff).                                                      *)
THEOREM ChangesAreExact == InventorySpec => []DiffIsExact
  <1>1. InventoryInv => DiffIsExact
    <2> SUFFICES ASSUME InventoryInv, NEW m \in DOMAIN snapshots, NEW n \in DOMAIN snapshots,
                        OncePerSubject(snapshots[m].document),
                        OncePerSubject(snapshots[n].document)
                 PROVE  LET a == snapshots[m].document
                            b == snapshots[n].document
                            d == {c \in Diff(a, b) : c.kind # "kernel"}
                        IN /\ UNION {{<<c.kind, c.subject, v>> : v \in c.previous} : c \in d}
                                = Items(a) \ Items(b)
                           /\ UNION {{<<c.kind, c.subject, v>> : v \in c.current} : c \in d}
                                = Items(b) \ Items(a)
      BY DEF DiffIsExact
    <2>1. snapshots[m].document \in Document /\ snapshots[n].document \in Document
      BY DocumentsAssumption DEF InventoryInv, InventoryTypeOK
    <2> QED BY <2>1, DiffColumns
  <1> QED BY <1>1, InventoryInvariant, PTL

=============================================================================
