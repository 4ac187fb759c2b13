---------------------------- MODULE BackofficeProofs ----------------------------
(***************************************************************************)
(* What the documents, the inbox and, with DeskProofs, the desk as a whole *)
(* keep, for any number of requests in flight.                             *)
(***************************************************************************)
EXTENDS DeskProofs
-----------------------------------------------------------------------------
(***************************************************************************)
(* Documents and their objects.  The two live in different stores and no   *)
(* transaction spans them; what keeps them together is the lock on the     *)
(* table, held from the allocation of a code over the upload to the commit,*)
(* and that a row is deleted before its object and by its uuid, which no   *)
(* later upload repeats.                                                   *)
(***************************************************************************)
StoredRow == [file : Files, id : Nat \ {0}]

DocumentsRemember(q) ==
    /\ q.pc = "ownerFound" => q.file \in Files
    /\ q.pc \in {"codeAllocated", "objectStored"} =>
          q.n \in Codes /\ q.file \in Files /\ ~Exists(q.n)
    /\ q.pc = "objectStored" =>
          /\ q.id \in Nat \ {0} /\ q.id <= uploads
          /\ object[<<q.n, q.file>>] \in {0, q.id}
          /\ \A k \in Codes : document[k].id # q.id
    /\ q.pc = "documentRead" =>
          /\ q.n \in Codes /\ q.row \in StoredRow /\ q.row.id <= uploads
          /\ document[q.n].id = q.row.id => document[q.n] = q.row
    /\ q.pc = "rowRemoved" => q.n \in Codes /\ q.row \in StoredRow

\* No row that was read for removal is one that is still to be committed.
ReadsAreOlder ==
    \A r, s \in Requests :
       At(r, "objectStored") /\ At(s, "documentRead") => req[r].id # req[s].row.id

StoresTyped ==
    /\ document \in [Codes -> StoredRow \cup {NoDocument}]
    /\ object \in [Keys -> Nat]
    /\ uploads \in Nat
    /\ \A n \in Codes : document[n].id <= uploads
    /\ \A key \in Keys : object[key] <= uploads
    /\ abandoned \subseteq Keys

DocumentsInv ==
    /\ StoresTyped
    /\ \A r \in Requests : DocumentsRemember(req[r])
    /\ ReadsAreOlder
    /\ ObjectIsOwn
    /\ OrphansWereAbandoned

Holders == {"objectStored", "rowRemoved"}

LEMMA OnlyHoldersHold ==
    ASSUME NEW r \in Requests, req[r].pc \notin Holders
    PROVE  HeldKeys(r) = {}
  BY DEF HeldKeys, At, Holders

\* A step of a request that held no key, and leaves the stores alone.
LEMMA DocumentsMoveOn ==
    ASSUME DocumentsInv, NEW r \in Requests, UNCHANGED documents,
           \A s \in Requests \ {r} : req'[s] = req[s],
           req[r].pc \notin Holders,
           DocumentsRemember(req'[r]),
           req'[r].pc # "objectStored",
           req'[r].pc = "documentRead" =>
              \A s \in Requests : At(s, "objectStored") => req[s].id # req'[r].row.id
    PROVE  DocumentsInv'
  <1>1. ASSUME NEW s \in Requests PROVE DocumentsRemember(req[s])'
    <2>1. CASE s = r
      BY <2>1 DEF documents, DocumentsRemember, Exists
    <2>2. CASE s # r
      BY <2>2 DEF documents, DocumentsInv, DocumentsRemember, Exists
    <2> QED BY <2>1, <2>2
  <1>2. ReadsAreOlder'
    <2> SUFFICES ASSUME NEW s \in Requests, NEW t \in Requests,
                        req'[s].pc = "objectStored", req'[t].pc = "documentRead"
                 PROVE  req'[s].id # req'[t].row.id
      BY DEF ReadsAreOlder, At
    <2>1. s # r /\ req'[s] = req[s]
      OBVIOUS
    <2>2. CASE t = r
      BY <2>1, <2>2 DEF At
    <2>3. CASE t # r
      BY <2>1, <2>3 DEF DocumentsInv, ReadsAreOlder, At
    <2> QED BY <2>2, <2>3
  <1>3. OrphansWereAbandoned'
    <2> SUFFICES ASSUME NEW key \in Keys, object'[key] # 0
                 PROVE  \/ Exists(key[1])' /\ document'[key[1]].file = key[2]
                        \/ \E s \in Requests : key \in HeldKeys(s)'
                        \/ key \in abandoned'
      BY DEF OrphansWereAbandoned
    <2>1. ASSUME NEW s \in Requests, key \in HeldKeys(s) PROVE key \in HeldKeys(s)'
      <3>1. s # r
        BY <2>1, OnlyHoldersHold
      <3>2. req'[s] = req[s]
        BY <3>1
      <3> QED BY <2>1, <3>2 DEF HeldKeys, At, KeyOf
    <2> QED BY <2>1 DEF documents, DocumentsInv, OrphansWereAbandoned, Exists
  <1> QED BY <1>1, <1>2, <1>3 DEF documents, DocumentsInv, StoresTyped, ObjectIsOwn, Exists, KeyOf
-----------------------------------------------------------------------------
LEMMA ArrivalsKeepDocuments ==
    ASSUME LockInv, DocumentsInv, NEW r \in Requests, DocumentsArrive(r)
    PROVE  DocumentsInv'
  <1>1. \A s \in Requests \ {r} : req'[s] = req[s]
    BY DocumentsMove DEF Moves
  <1>2. /\ UNCHANGED documents
        /\ req[r] = Idle
        /\ \/ \E f \in Files : req'[r] = [pc |-> "ownerFound", file |-> f]
           \/ \E n \in Codes : /\ Exists(n)
                               /\ req'[r] = [pc |-> "documentRead", n |-> n, row |-> document[n]]
    BY DocumentsAssumption DEF DocumentsArrive, FindOwner, GenerateAgreement, ReadForRemove, Begin,
                               LockInv
  <1>3. req[r].pc \notin Holders
    BY <1>2 DEF Idle, Holders
  <1>4. CASE \E f \in Files : req'[r] = [pc |-> "ownerFound", file |-> f]
    <2>1. DocumentsRemember(req'[r])
      BY <1>4 DEF DocumentsRemember
    <2> QED BY <1>1, <1>2, <1>3, <1>4, <2>1, DocumentsMoveOn
  <1>5. CASE \E n \in Codes : /\ Exists(n)
                              /\ req'[r] = [pc |-> "documentRead", n |-> n, row |-> document[n]]
    <2>1. PICK n \in Codes : /\ Exists(n)
                             /\ req'[r] = [pc |-> "documentRead", n |-> n, row |-> document[n]]
      BY <1>5
    <2>2. document[n] \in StoredRow /\ document[n].id <= uploads
      BY <2>1 DEF DocumentsInv, StoresTyped, Exists
    <2>3. DocumentsRemember(req'[r])
      BY <2>1, <2>2 DEF DocumentsRemember
    <2>4. ASSUME NEW s \in Requests, At(s, "objectStored") PROVE req[s].id # document[n].id
      BY <2>4 DEF DocumentsInv, DocumentsRemember, At
    <2> QED BY <1>1, <1>2, <1>3, <2>1, <2>3, <2>4, DocumentsMoveOn
  <1> QED BY <1>2, <1>4, <1>5

LEMMA AllocateKeepsDocuments ==
    ASSUME LockInv, DocumentsInv, NEW r \in Requests, AllocateCode(r)
    PROVE  DocumentsInv'
  <1> DEFINE existing == {k \in Codes : Exists(k)}
             n == NextNumber(existing)
  <1>1. n \notin existing
    BY NextIsFree, DocumentsAssumption DEF Codes
  <1>2. n \in Codes /\ req[r].pc = "ownerFound" /\ UNCHANGED documents
    BY DEF AllocateCode, At
  <1>3. ~Exists(n)
    BY <1>1, <1>2
  <1>4. /\ req'[r] = [pc |-> "codeAllocated", n |-> n, file |-> req[r].file]
        /\ \A s \in Requests \ {r} : req'[s] = req[s]
    BY DEF AllocateCode, Number, LockInv
  <1> HIDE DEF n
  <1>5. req[r].file \in Files
    BY <1>2 DEF DocumentsInv, DocumentsRemember
  <1>6. DocumentsRemember(req'[r])
    BY <1>2, <1>3, <1>4, <1>5 DEF DocumentsRemember
  <1> QED BY <1>2, <1>4, <1>6, DocumentsMoveOn DEF Holders

\* The upload is newer than everything anybody has read, and nobody else is
\* beyond the lock to whom the key could belong.
LEMMA StoreKeepsDocuments ==
    ASSUME LockInv, DocumentsInv, NEW r \in Requests, StoreObject(r)
    PROVE  DocumentsInv'
  <1> DEFINE q == req[r]
             key == <<q.n, q.file>>
  <1>1. q.pc = "codeAllocated" /\ q.n \in Codes /\ q.file \in Files /\ ~Exists(q.n)
    BY DEF StoreObject, At, DocumentsInv, DocumentsRemember
  <1>2. /\ uploads' = uploads + 1
        /\ object' = [object EXCEPT ![key] = uploads + 1]
        /\ document' = document /\ abandoned' = abandoned
        /\ req'[r] = [pc |-> "objectStored", n |-> q.n, file |-> q.file, id |-> uploads + 1]
        /\ \A s \in Requests \ {r} : req'[s] = req[s]
    BY DEF StoreObject, LockInv
  <1>3. key \in Keys /\ object \in [Keys -> Nat] /\ uploads \in Nat
    BY <1>1 DEF Keys, DocumentsInv, StoresTyped
  <1> HIDE DEF q
  <1>4. object'[key] = uploads + 1 /\ \A k \in Keys \ {key} : object'[k] = object[k]
    BY <1>2, <1>3
  <1>5. StoresTyped'
    BY <1>2, <1>3 DEF DocumentsInv, StoresTyped, StoredRow, NoDocument
  <1>6. ASSUME NEW s \in Requests PROVE DocumentsRemember(req[s])'
    <2>1. CASE s = r
      <3>1. ASSUME NEW k \in Codes PROVE document[k].id # uploads + 1
        BY <1>3 DEF DocumentsInv, StoresTyped, StoredRow, NoDocument
      <3> QED BY <1>1, <1>2, <1>3, <1>4, <2>1, <3>1 DEF DocumentsRemember, Exists
    <2>2. CASE s # r
      <3>1. req'[s] = req[s] /\ DocumentsRemember(req[s])
        BY <1>2, <2>2 DEF DocumentsInv
      <3>2. req[s].pc # "objectStored"
        BY <1>1, <2>2, OneNumbering DEF Numbering, TableOf, q
      <3>3. req[s].pc = "documentRead" => req[s].row.id <= uploads'
        BY <1>2, <1>3, <3>1 DEF DocumentsRemember, StoredRow
      <3> QED BY <1>2, <3>1, <3>2, <3>3 DEF DocumentsRemember, Exists
    <2> QED BY <2>1, <2>2
  <1>7. ReadsAreOlder'
    <2> SUFFICES ASSUME NEW s \in Requests, NEW t \in Requests,
                        req'[s].pc = "objectStored", req'[t].pc = "documentRead"
                 PROVE  req'[s].id # req'[t].row.id
      BY DEF ReadsAreOlder, At
    <2>1. t # r /\ req'[t] = req[t]
      BY <1>2
    <2>2. req[t].row.id <= uploads /\ req[t].row.id \in Nat
      BY <2>1 DEF DocumentsInv, DocumentsRemember, StoredRow
    <2>3. CASE s = r
      BY <1>2, <1>3, <2>1, <2>2, <2>3
    <2>4. CASE s # r
      BY <1>2, <2>1, <2>4 DEF DocumentsInv, ReadsAreOlder, At
    <2> QED BY <2>3, <2>4
  <1>8. ObjectIsOwn'
    <2> SUFFICES ASSUME NEW n \in Codes, Exists(n)
                 PROVE  object'[<<n, document[n].file>>] \in {0, document[n].id}
      BY <1>2 DEF ObjectIsOwn, Exists, KeyOf
    <2>1. n # q.n /\ document[n].file \in Files
      BY <1>1 DEF DocumentsInv, StoresTyped, StoredRow, Exists
    <2>2. <<n, document[n].file>> \in Keys \ {key}
      BY <2>1 DEF Keys
    <2> QED BY <1>4, <2>2 DEF DocumentsInv, ObjectIsOwn, KeyOf
  <1>9. OrphansWereAbandoned'
    <2> SUFFICES ASSUME NEW k \in Keys, object'[k] # 0
                 PROVE  \/ Exists(k[1])' /\ document'[k[1]].file = k[2]
                        \/ \E s \in Requests : k \in HeldKeys(s)'
                        \/ k \in abandoned'
      BY DEF OrphansWereAbandoned
    <2>1. CASE k = key
      BY <1>2, <2>1 DEF HeldKeys, At
    <2>2. CASE k # key
      <3>1. \/ Exists(k[1]) /\ document[k[1]].file = k[2]
            \/ \E s \in Requests : k \in HeldKeys(s)
            \/ k \in abandoned
        BY <1>4, <2>2 DEF DocumentsInv, OrphansWereAbandoned
      <3>2. ASSUME NEW s \in Requests, k \in HeldKeys(s) PROVE k \in HeldKeys(s)'
        <4>1. s # r
          BY <1>1, <3>2, OnlyHoldersHold DEF Holders, q
        <4> QED BY <1>2, <3>2, <4>1 DEF HeldKeys, At, KeyOf
      <3> QED BY <1>2, <3>1, <3>2 DEF Exists
    <2> QED BY <2>1, <2>2
  <1> QED BY <1>5, <1>6, <1>7, <1>8, <1>9 DEF DocumentsInv
-----------------------------------------------------------------------------
\* The committed row takes over the key its request held.
LEMMA CommitKeepsDocuments ==
    ASSUME LockInv, DocumentsInv, NEW r \in Requests, CommitDocument(r)
    PROVE  DocumentsInv'
  <1> DEFINE q == req[r]
             row == [file |-> q.file, id |-> q.id]
  <1>1. /\ q.pc = "objectStored" /\ q.n \in Codes /\ q.file \in Files /\ ~Exists(q.n)
        /\ q.id \in Nat \ {0} /\ q.id <= uploads
        /\ object[<<q.n, q.file>>] \in {0, q.id}
    BY DEF CommitDocument, At, DocumentsInv, DocumentsRemember
  <1>2. /\ document' = [document EXCEPT ![q.n] = row]
        /\ UNCHANGED <<object, uploads, abandoned>>
        /\ req'[r] = Idle
        /\ \A s \in Requests \ {r} : req'[s] = req[s]
    BY DEF CommitDocument, Answer, LockInv
  <1>3. HeldKeys(r) = {<<q.n, q.file>>}
    BY <1>1 DEF HeldKeys, At
  <1>4. ReadsAreOlder /\ ObjectIsOwn /\ OrphansWereAbandoned /\ StoresTyped
    BY DEF DocumentsInv
  <1>5. \A s \in Requests : /\ DocumentsRemember(req[s])
                            /\ req[s].pc = "documentRead" => req[s].row.id # q.id
    BY <1>1, <1>4 DEF DocumentsInv, ReadsAreOlder, At
  <1>6. ASSUME NEW s \in Requests, s # r PROVE req[s].pc \notin {"codeAllocated", "objectStored"}
    BY <1>1, <1>6, OneNumbering DEF Numbering, TableOf
  <1> HIDE DEF q
  <1>7. /\ row \in StoredRow /\ row # NoDocument
        /\ document'[q.n] = row
        /\ \A n \in Codes \ {q.n} : document'[n] = document[n]
    <2>1. row \in StoredRow /\ row.id # 0
      BY <1>1 DEF StoredRow
    <2> QED BY <1>1, <1>2, <1>4, <2>1 DEF StoresTyped, NoDocument
  <1>8. StoresTyped'
    BY <1>1, <1>2, <1>4, <1>7 DEF StoresTyped
  <1>9. ASSUME NEW s \in Requests PROVE DocumentsRemember(req[s])'
    <2>1. CASE s = r
      BY <1>2, <2>1 DEF DocumentsRemember, Idle
    <2>2. CASE s # r
      <3>1. req'[s] = req[s] /\ req[s].pc \notin {"codeAllocated", "objectStored"}
        BY <1>2, <1>6, <2>2
      <3>2. CASE req[s].pc = "documentRead" /\ req[s].n = q.n
        <4>1. document'[req[s].n].id # req[s].row.id
          <5>1. document'[q.n].id = q.id
            BY <1>7
          <5> QED BY <1>5, <3>2, <5>1
        <4> HIDE DEF row
        <4> QED BY <1>2, <1>5, <3>1, <3>2, <4>1 DEF DocumentsRemember
      <3>3. CASE ~(req[s].pc = "documentRead" /\ req[s].n = q.n)
        BY <1>2, <1>5, <1>7, <3>1, <3>3 DEF DocumentsRemember
      <3> QED BY <3>2, <3>3
    <2> QED BY <2>1, <2>2
  <1>10. ReadsAreOlder'
    BY <1>2, <1>4 DEF ReadsAreOlder, At, Idle
  <1>11. ObjectIsOwn'
    <2> SUFFICES ASSUME NEW n \in Codes, Exists(n)'
                 PROVE  object[<<n, document'[n].file>>] \in {0, document'[n].id}
      BY <1>2 DEF ObjectIsOwn, KeyOf
    <2> QED BY <1>1, <1>4, <1>7 DEF ObjectIsOwn, Exists, KeyOf
  <1>12. OrphansWereAbandoned'
    <2> SUFFICES ASSUME NEW k \in Keys, object'[k] # 0
                 PROVE  \/ Exists(k[1])' /\ document'[k[1]].file = k[2]
                        \/ \E s \in Requests : k \in HeldKeys(s)'
                        \/ k \in abandoned'
      BY DEF OrphansWereAbandoned
    <2>1. k[1] \in Codes
      BY DEF Keys
    <2>2. CASE k = <<q.n, q.file>>
      BY <1>7, <2>2 DEF Exists
    <2>3. CASE k # <<q.n, q.file>>
      <3>1. ASSUME Exists(k[1]) PROVE k[1] # q.n
        BY <1>1, <3>1
      <3>2. ASSUME NEW s \in Requests, k \in HeldKeys(s) PROVE k \in HeldKeys(s)'
        <4>1. s # r
          BY <1>3, <2>3, <3>2
        <4> QED BY <1>2, <3>2, <4>1 DEF HeldKeys, At, KeyOf
      <3> QED BY <1>2, <1>4, <1>7, <2>1, <3>1, <3>2 DEF OrphansWereAbandoned, Exists
    <2> QED BY <2>2, <2>3
  <1> QED BY <1>8, <1>9, <1>10, <1>11, <1>12 DEF DocumentsInv

\* The row that goes, if any, is the one that was read, so the key the request
\* now holds is that row's.
LEMMA RemoveRowKeepsDocuments ==
    ASSUME LockInv, DocumentsInv, NEW r \in Requests, RemoveRow(r)
    PROVE  DocumentsInv'
  <1> DEFINE q == req[r]
  <1>1. /\ q.pc = "documentRead" /\ q.n \in Codes /\ q.row \in StoredRow
        /\ document[q.n].id = q.row.id => document[q.n] = q.row
    BY DEF RemoveRow, At, DocumentsInv, DocumentsRemember
  <1>2. /\ document' = document \/ /\ document[q.n].id = q.row.id
                                   /\ document' = [document EXCEPT ![q.n] = NoDocument]
        /\ UNCHANGED <<object, uploads, abandoned>>
        /\ req'[r] = [pc |-> "rowRemoved", n |-> q.n, row |-> q.row]
        /\ \A s \in Requests \ {r} : req'[s] = req[s]
    BY DEF RemoveRow, LockInv
  <1>3. ReadsAreOlder /\ ObjectIsOwn /\ OrphansWereAbandoned /\ StoresTyped
        /\ \A s \in Requests : DocumentsRemember(req[s])
    BY DEF DocumentsInv
  <1>4. req[r].pc \notin Holders /\ HeldKeys(r)' = {<<q.n, q.row.file>>}
    BY <1>1, <1>2 DEF Holders, HeldKeys, At, KeyOf
  <1> HIDE DEF q
  <1>5. \A n \in Codes : \/ document'[n] = document[n]
                         \/ n = q.n /\ document[n] = q.row /\ document'[n] = NoDocument
    BY <1>1, <1>2, <1>3 DEF StoresTyped
  <1>6. StoresTyped'
    BY <1>1, <1>2, <1>3 DEF StoresTyped, NoDocument
  <1>7. ASSUME NEW s \in Requests PROVE DocumentsRemember(req[s])'
    <2>1. CASE s = r
      BY <1>1, <1>2, <2>1 DEF DocumentsRemember
    <2>2. CASE s # r
      <3>1. req'[s] = req[s] /\ DocumentsRemember(req[s])
        BY <1>2, <1>3, <2>2
      <3>2. ASSUME NEW n \in Codes, ~Exists(n) PROVE ~Exists(n)'
        BY <1>5, <3>2 DEF Exists
      <3>3. ASSUME NEW n \in Codes, NEW id \in Nat \ {0}, document[n].id # id
            PROVE  document'[n].id # id
        BY <1>5, <3>3 DEF NoDocument
      <3>4. ASSUME NEW n \in Codes, NEW row \in StoredRow,
                   document[n].id = row.id => document[n] = row
            PROVE  document'[n].id = row.id => document'[n] = row
        BY <1>5, <3>4 DEF NoDocument, StoredRow
      <3> QED BY <1>2, <3>1, <3>2, <3>3, <3>4 DEF DocumentsRemember
    <2> QED BY <2>1, <2>2
  <1>8. ReadsAreOlder'
    BY <1>2, <1>3 DEF ReadsAreOlder, At
  <1>9. ObjectIsOwn'
    BY <1>2, <1>3, <1>5 DEF ObjectIsOwn, Exists, KeyOf
  <1>10. OrphansWereAbandoned'
    <2> SUFFICES ASSUME NEW k \in Keys, object'[k] # 0
                 PROVE  \/ Exists(k[1])' /\ document'[k[1]].file = k[2]
                        \/ \E s \in Requests : k \in HeldKeys(s)'
                        \/ k \in abandoned'
      BY DEF OrphansWereAbandoned
    <2>1. k[1] \in Codes /\ k = <<k[1], k[2]>>
      BY DEF Keys
    <2>2. CASE k \in HeldKeys(r)'
      BY <2>2
    <2>3. CASE k \notin HeldKeys(r)'
      <3>1. ASSUME Exists(k[1]), document[k[1]].file = k[2]
            PROVE  Exists(k[1])' /\ document'[k[1]].file = k[2]
        BY <1>4, <1>5, <2>1, <2>3, <3>1 DEF Exists
      <3>2. ASSUME NEW s \in Requests, k \in HeldKeys(s) PROVE k \in HeldKeys(s)'
        <4>1. s # r
          BY <1>4, <3>2, OnlyHoldersHold
        <4> QED BY <1>2, <3>2, <4>1 DEF HeldKeys, At, KeyOf
      <3> QED BY <1>2, <1>3, <3>1, <3>2 DEF OrphansWereAbandoned
    <2> QED BY <2>2, <2>3
  <1> QED BY <1>6, <1>7, <1>8, <1>9, <1>10 DEF DocumentsInv

LEMMA DeleteKeepsDocuments ==
    ASSUME LockInv, DocumentsInv, NEW r \in Requests, DeleteObject(r)
    PROVE  DocumentsInv'
  <1> DEFINE key == KeyOf(req[r].n, req[r].row)
  <1>1. HeldKeys(r) = {key}
    BY DEF DeleteObject, HeldKeys, At
  <1>2. /\ object' = [object EXCEPT ![key] = 0]
        /\ UNCHANGED <<document, uploads, abandoned>>
        /\ req'[r] = Idle
        /\ \A s \in Requests \ {r} : req'[s] = req[s]
    BY DEF DeleteObject, Answer, LockInv
  <1> HIDE DEF key
  <1>3. ReadsAreOlder /\ ObjectIsOwn /\ OrphansWereAbandoned /\ StoresTyped
        /\ \A s \in Requests : DocumentsRemember(req[s])
    BY DEF DocumentsInv
  <1>4. /\ object' \in [Keys -> Nat]
        /\ \A k \in Keys : object'[k] \in {0, object[k]}
        /\ key \in Keys => object'[key] = 0
    BY <1>2, <1>3 DEF StoresTyped
  <1>5. StoresTyped'
    BY <1>2, <1>3, <1>4 DEF StoresTyped
  <1>6. ASSUME NEW s \in Requests PROVE DocumentsRemember(req[s])'
    <2>1. CASE s = r
      BY <1>2, <2>1 DEF DocumentsRemember, Idle
    <2>2. CASE s # r
      <3>1. req'[s] = req[s] /\ DocumentsRemember(req[s])
        BY <1>2, <1>3, <2>2
      <3>2. ASSUME req[s].pc = "objectStored"
            PROVE  object'[<<req[s].n, req[s].file>>] \in {0, req[s].id}
        <4>1. <<req[s].n, req[s].file>> \in Keys
          BY <3>1, <3>2 DEF DocumentsRemember, Keys
        <4> QED BY <1>4, <3>1, <3>2, <4>1 DEF DocumentsRemember
      <3> QED BY <1>2, <3>1, <3>2 DEF DocumentsRemember, Exists
    <2> QED BY <2>1, <2>2
  <1>7. ReadsAreOlder'
    BY <1>2, <1>3 DEF ReadsAreOlder, At, Idle
  <1>8. ObjectIsOwn'
    <2> SUFFICES ASSUME NEW n \in Codes, Exists(n)
                 PROVE  object'[<<n, document[n].file>>] \in {0, document[n].id}
      BY <1>2 DEF ObjectIsOwn, Exists, KeyOf
    <2>1. <<n, document[n].file>> \in Keys
      BY <1>3 DEF StoresTyped, StoredRow, Exists, Keys
    <2> QED BY <1>3, <1>4, <2>1 DEF ObjectIsOwn, KeyOf
  <1>9. OrphansWereAbandoned'
    <2> SUFFICES ASSUME NEW k \in Keys, object'[k] # 0
                 PROVE  \/ Exists(k[1])' /\ document'[k[1]].file = k[2]
                        \/ \E s \in Requests : k \in HeldKeys(s)'
                        \/ k \in abandoned'
      BY DEF OrphansWereAbandoned
    <2>1. k # key /\ object[k] # 0
      BY <1>4
    <2>2. ASSUME NEW s \in Requests, k \in HeldKeys(s) PROVE k \in HeldKeys(s)'
      <3>1. s # r
        BY <1>1, <2>1, <2>2
      <3> QED BY <1>2, <2>2, <3>1 DEF HeldKeys, At, KeyOf
    <2> QED BY <1>2, <1>3, <2>1, <2>2 DEF OrphansWereAbandoned, Exists
  <1> QED BY <1>5, <1>6, <1>7, <1>8, <1>9 DEF DocumentsInv

\* A handler that fails leaves its key behind.
LEMMA FailKeepsDocuments ==
    ASSUME LockInv, DocumentsInv, NEW r \in Requests, Fail(r)
    PROVE  DocumentsInv'
  <1>1. /\ UNCHANGED <<document, object, uploads>>
        /\ abandoned' = abandoned \cup HeldKeys(r)
        /\ req'[r] = Idle
        /\ \A s \in Requests \ {r} : req'[s] = req[s]
    BY DEF Fail, DocumentsFail, Answer, LockInv
  <1>2. ASSUME NEW s \in Requests PROVE DocumentsRemember(req[s])'
    <2>1. CASE s = r
      BY <1>1, <2>1 DEF DocumentsRemember, Idle
    <2>2. CASE s # r
      BY <1>1, <2>2 DEF DocumentsInv, DocumentsRemember, Exists
    <2> QED BY <2>1, <2>2
  <1>3. ReadsAreOlder'
    BY <1>1 DEF DocumentsInv, ReadsAreOlder, At, Idle
  <1>4. OrphansWereAbandoned'
    <2> SUFFICES ASSUME NEW k \in Keys, object'[k] # 0
                 PROVE  \/ Exists(k[1])' /\ document'[k[1]].file = k[2]
                        \/ \E s \in Requests : k \in HeldKeys(s)'
                        \/ k \in abandoned'
      BY DEF OrphansWereAbandoned
    <2>1. ASSUME NEW s \in Requests, s # r, k \in HeldKeys(s) PROVE k \in HeldKeys(s)'
      BY <1>1, <2>1 DEF HeldKeys, At, KeyOf
    <2> QED BY <1>1, <2>1 DEF DocumentsInv, OrphansWereAbandoned, Exists
  <1>5. HeldKeys(r) \subseteq Keys
    <2>1. DocumentsRemember(req[r])
      BY DEF DocumentsInv
    <2>2. CASE req[r].pc = "objectStored"
      BY <2>1, <2>2 DEF HeldKeys, At, DocumentsRemember, Keys
    <2>3. CASE req[r].pc = "rowRemoved"
      BY <2>1, <2>3 DEF HeldKeys, At, DocumentsRemember, Keys, KeyOf, StoredRow
    <2> QED BY <2>2, <2>3, OnlyHoldersHold DEF Holders
  <1> QED BY <1>1, <1>2, <1>3, <1>4, <1>5
          DEF DocumentsInv, StoresTyped, ObjectIsOwn, Exists, KeyOf
-----------------------------------------------------------------------------
LEMMA DocumentsStart == Init => DocumentsInv
  <1> SUFFICES ASSUME Init PROVE DocumentsInv
    OBVIOUS
  <1>1. \A r \in Requests : req[r] = Idle
    BY DEF Init, DeskInit
  <1>2. (\A r \in Requests : DocumentsRemember(req[r])) /\ ReadsAreOlder
    BY <1>1 DEF Idle, DocumentsRemember, ReadsAreOlder, At
  <1>3. CASE DocumentsInit
    <2>1. PICK seeded \in 0..1, f \in Files :
             /\ document = [n \in Codes |-> IF n <= seeded THEN [file |-> f, id |-> n]
                                            ELSE NoDocument]
             /\ object = [key \in Keys |-> IF key[1] <= seeded /\ key[2] = f THEN key[1] ELSE 0]
             /\ uploads = seeded /\ abandoned = {}
      BY <1>3 DEF DocumentsInit
    <2>2. Codes \subseteq Nat \ {0}
      BY DocumentsAssumption DEF Codes
    <2>3. ASSUME NEW n \in Codes
          PROVE  /\ document[n] \in StoredRow \cup {NoDocument}
                 /\ document[n].id <= uploads
                 /\ Exists(n) => document[n] = [file |-> f, id |-> n] /\ n <= seeded
      BY <2>1, <2>2 DEF StoredRow, NoDocument, Exists
    <2>4. ASSUME NEW k \in Keys
          PROVE  /\ object[k] \in Nat
                 /\ object[k] # 0 => k[1] <= seeded /\ k[2] = f /\ object[k] = k[1]
      <3>1. k[1] \in Nat
        BY <2>2 DEF Keys
      <3>2. object[k] = IF k[1] <= seeded /\ k[2] = f THEN k[1] ELSE 0
        BY <2>1
      <3> QED BY <3>1, <3>2
    <2>5. StoresTyped
      <3>1. document \in [Codes -> StoredRow \cup {NoDocument}]
        BY <2>1, <2>3
      <3>2. object \in [Keys -> Nat]
        BY <2>1, <2>4
      <3>3. uploads \in Nat
        BY <2>1
      <3>4. \A key \in Keys : object[key] <= uploads
        BY <2>1, <2>4
      <3>5. abandoned \subseteq Keys
        BY <2>1
      <3> QED BY <2>3, <3>1, <3>2, <3>3, <3>4, <3>5 DEF StoresTyped
    <2>6. ObjectIsOwn
      <3> SUFFICES ASSUME NEW n \in Codes, Exists(n)
                   PROVE  object[<<n, document[n].file>>] \in {0, document[n].id}
        BY DEF ObjectIsOwn, KeyOf
      <3>1. <<n, f>> \in Keys /\ document[n] = [file |-> f, id |-> n]
        BY <2>3 DEF Keys
      <3> QED BY <2>4, <3>1
    <2>7. OrphansWereAbandoned
      <3> SUFFICES ASSUME NEW k \in Keys, object[k] # 0
                   PROVE  Exists(k[1]) /\ document[k[1]].file = k[2]
        BY DEF OrphansWereAbandoned
      <3>1. k[1] \in Codes /\ k[1] <= seeded /\ k[2] = f
        BY <2>4 DEF Keys
      <3>2. document[k[1]] = [file |-> f, id |-> k[1]] /\ k[1] # 0
        BY <2>1, <2>2, <3>1
      <3> QED BY <3>1, <3>2 DEF Exists, NoDocument
    <2> QED BY <1>2, <2>5, <2>6, <2>7 DEF DocumentsInv
  <1>4. CASE /\ document = [n \in Codes |-> NoDocument] /\ object = [key \in Keys |-> 0]
             /\ uploads = 0 /\ abandoned = {}
    BY <1>2, <1>4 DEF DocumentsInv, StoresTyped, ObjectIsOwn, OrphansWereAbandoned, Exists,
                      NoDocument
  <1> QED BY <1>3, <1>4 DEF Init

\* The handlers of the other components hold no key, before a step or after.
LEMMA OthersHoldNothing ==
    ASSUME LockInv, NEW r \in Requests,
           \/ MaintenanceArrive(r) \/ MaintenanceAdvance(r)
           \/ PortfolioArrive(r) \/ PortfolioAdvance(r)
           \/ InboxArrive(r) \/ InboxAdvance(r)
    PROVE  req[r].pc \notin Holders
  <1>1. CASE MaintenanceArrive(r) \/ MaintenanceAdvance(r)
    <2>1. \/ req[r] = Idle
          \/ req[r].pc \in {"submitting", "ticketNumbered", "transition", "technicianNumbered"}
      <3>1. CASE MaintenanceArrive(r)
        BY <3>1 DEF MaintenanceArrive, Submit, ReadForAssign, ReadForStart, ReadForComplete,
                    ReadForClose, NumberTechnician, Begin
      <3>2. CASE MaintenanceAdvance(r)
        BY <3>2 DEF MaintenanceAdvance, NumberTicket, CommitTicket, UpdateTicket,
                    CommitTechnician, At
      <3> QED BY <1>1, <3>1, <3>2
    <2> QED BY <2>1 DEF Idle, Holders
  <1>2. CASE PortfolioArrive(r) \/ PortfolioAdvance(r)
    BY <1>2 DEF PortfolioArrive, PortfolioAdvance, NumberProperty, CommitProperty, LoadProperty,
                LoadForArchive, SaveProperty, FindProperty, NumberUnit, CommitUnit, LoadUnit,
                SaveUnit, Begin, At, Idle, Holders
  <1>3. CASE InboxArrive(r) \/ InboxAdvance(r)
    BY <1>3 DEF InboxArrive, InboxAdvance, NumberNotification, CommitNotification, ReadForMark,
                SaveMark, MarkAllRead, NumberTemplate, CommitTemplates, FindSettings, Found,
                GetSettings, PutSettings, StampSettings, InsertSettings, AnswerSettings,
                SaveSettings, Begin, At, Idle, Holders
  <1> QED BY <1>1, <1>2, <1>3

LEMMA DocumentsNext == LockInv /\ DocumentsInv /\ [Next]_vars => DocumentsInv'
  <1> SUFFICES ASSUME LockInv, DocumentsInv, [Next]_vars PROVE DocumentsInv'
    OBVIOUS
  <1>1. ASSUME NEW r \in Requests, UNCHANGED documents, req[r].pc \notin Holders,
               Moves(r, MaintenancePcs) \/ Moves(r, PortfolioPcs) \/ Moves(r, InboxPcs)
        PROVE  DocumentsInv'
    <2>1. /\ \A s \in Requests \ {r} : req'[s] = req[s]
          /\ req'[r].pc \notin DocumentPcs \ {"idle"}
      BY <1>1 DEF Moves, DocumentPcs, MaintenancePcs, PortfolioPcs, InboxPcs
    <2>2. DocumentsRemember(req'[r]) /\ req'[r].pc # "objectStored" /\ req'[r].pc # "documentRead"
      BY <2>1 DEF DocumentPcs, DocumentsRemember
    <2> QED BY <1>1, <2>1, <2>2, DocumentsMoveOn
  <1>2. ASSUME NEW r \in Requests, Arrive(r) PROVE DocumentsInv'
    BY <1>1, <1>2, ArrivalsKeepDocuments, OthersHoldNothing, MaintenanceMoves, PortfolioMoves,
       InboxMoves DEF Arrive
  <1>3. ASSUME NEW r \in Requests, DocumentsAdvance(r) PROVE DocumentsInv'
    BY <1>3, AllocateKeepsDocuments, StoreKeepsDocuments, CommitKeepsDocuments,
       RemoveRowKeepsDocuments, DeleteKeepsDocuments DEF DocumentsAdvance
  <1>4. ASSUME NEW r \in Requests, Advance(r) PROVE DocumentsInv'
    BY <1>1, <1>3, <1>4, OthersHoldNothing, MaintenanceMoves, PortfolioMoves, InboxMoves
       DEF Advance
  <1>5. CASE UNCHANGED vars
    <2>1. \A r \in Requests : HeldKeys(r)' = HeldKeys(r)
      BY <1>5 DEF vars, desk, HeldKeys, At, KeyOf
    <2> QED BY <1>5, <2>1 DEF vars, desk, documents, DocumentsInv, StoresTyped, DocumentsRemember,
                              ReadsAreOlder, ObjectIsOwn, OrphansWereAbandoned, Exists, At, KeyOf
  <1> QED BY <1>2, <1>4, <1>5, FailKeepsDocuments DEF Next
-----------------------------------------------------------------------------
LEMMA DocumentsAlways == Spec => [](LockInv /\ DocumentsInv)
  BY LocksInit, LocksNext, DocumentsStart, DocumentsNext, PTL DEF Spec

\* A download never gets the bytes of another upload: for any number of
\* documents, files and requests in flight, with codes given out again.
THEOREM DownloadsAreOwn == Spec => []ObjectIsOwn
  <1>1. DocumentsInv => ObjectIsOwn
    BY DEF DocumentsInv
  <1> QED BY <1>1, DocumentsAlways, PTL

\* Every object in the bucket is accounted for by a row, by a request in
\* flight, or by a handler that failed between the two stores.
THEOREM ObjectsAreAccountedFor == Spec => []OrphansWereAbandoned
  <1>1. DocumentsInv => OrphansWereAbandoned
    BY DEF DocumentsInv
  <1> QED BY <1>1, DocumentsAlways, PTL
-----------------------------------------------------------------------------
(***************************************************************************)
(* The inbox, and what then holds of the whole desk: that the numbers      *)
(* handed out stay free until they are used, in every table.  The row of   *)
(* settings has no lock.  What orders its rows is the time their inserts   *)
(* began, no two of which are the same.                                    *)
(***************************************************************************)
InboxRemember(q) ==
    /\ q.pc = "notificationNumbered" => q.n \in Notifications /\ ~Sent(q.n)
    /\ q.pc = "marking" => q.n \in Notifications /\ Sent(q.n)
    /\ q.pc = "templateNumbered" => q.n \in TemplatePairs /\ q.n \notin template

InboxInv ==
    /\ notification \in [Notifications -> {"none", "unread", "read"}]
    /\ template \subseteq TemplatePairs
    /\ \A r \in Requests : InboxRemember(req[r])

LEMMA InboxMovesOn ==
    ASSUME InboxInv, NEW r \in Requests, UNCHANGED <<notification, template>>,
           \A s \in Requests \ {r} : req'[s] = req[s],
           InboxRemember(req'[r])
    PROVE  InboxInv'
  <1>1. ASSUME NEW s \in Requests PROVE InboxRemember(req[s])'
    <2>1. CASE s = r
      BY <2>1 DEF InboxRemember, Sent
    <2>2. CASE s # r
      BY <2>2 DEF InboxInv, InboxRemember, Sent
    <2> QED BY <2>1, <2>2
  <1> QED BY <1>1 DEF InboxInv

LEMMA NumberingKeepsInbox ==
    ASSUME LockInv, InboxInv, NEW r \in Requests, NumberNotification(r) \/ NumberTemplate(r)
    PROVE  InboxInv'
  <1>0. \A s \in Requests \ {r} : req'[s] = req[s]
    BY InboxMoves DEF Moves, InboxArrive
  <1>1. CASE NumberNotification(r)
    <2> DEFINE sent == {k \in Notifications : Sent(k)}
               n == NextNumber(sent)
    <2>1. n \notin sent
      BY NextIsFree, InboxAssumption DEF Notifications
    <2>2. n \in Notifications /\ UNCHANGED <<notification, template>>
      BY <1>1 DEF NumberNotification, inbox
    <2>3. req'[r] = [pc |-> "notificationNumbered", n |-> n]
      BY <1>1 DEF NumberNotification, Number, LockInv
    <2>4. ~Sent(n)
      BY <2>1, <2>2
    <2> HIDE DEF n
    <2>5. InboxRemember(req'[r])
      BY <2>2, <2>3, <2>4 DEF InboxRemember
    <2> QED BY <1>0, <2>2, <2>5, InboxMovesOn
  <1>2. CASE NumberTemplate(r)
    <2> DEFINE n == NextNumber(template)
    <2>1. n \notin template
      BY NextIsFree, InboxAssumption DEF TemplatePairs, InboxInv
    <2>2. n \in TemplatePairs /\ UNCHANGED <<notification, template>>
      BY <1>2 DEF NumberTemplate, inbox
    <2>3. req'[r] = [pc |-> "templateNumbered", n |-> n]
      BY <1>2 DEF NumberTemplate, Number, LockInv
    <2> HIDE DEF n
    <2>5. InboxRemember(req'[r])
      BY <2>1, <2>2, <2>3 DEF InboxRemember
    <2> QED BY <1>0, <2>2, <2>5, InboxMovesOn
  <1> QED BY <1>1, <1>2

LEMMA WritesKeepInbox ==
    ASSUME LockInv, InboxInv, NEW r \in Requests,
           \/ CommitNotification(r) \/ SaveMark(r) \/ MarkAllRead(r) \/ CommitTemplates(r)
    PROVE  InboxInv'
  <1>1. CASE CommitNotification(r)
    <2>1. /\ req'[r] = Idle
          /\ \A s \in Requests \ {r} : req'[s] = req[s]
          /\ req[r].pc = "notificationNumbered" /\ req[r].n \in Notifications
          /\ notification' = [notification EXCEPT ![req[r].n] = "unread"]
          /\ template' = template
      BY <1>1 DEF CommitNotification, At, Answer, LockInv, InboxInv, InboxRemember
    <2>2. notification \in [Notifications -> {"none", "unread", "read"}]
      BY DEF InboxInv
    <2>3. ASSUME NEW s \in Requests, s # r PROVE InboxRemember(req[s])'
      <3>1. req[s].pc # "notificationNumbered"
        BY <2>1, <2>3, OneNumbering DEF Numbering, TableOf
      <3> QED BY <2>1, <2>2, <2>3, <3>1 DEF InboxInv, InboxRemember, Sent
    <2> QED BY <2>1, <2>2, <2>3 DEF InboxInv, InboxRemember, Idle
  <1>2. CASE SaveMark(r)
    <2>1. /\ req'[r] = Idle
          /\ \A s \in Requests \ {r} : req'[s] = req[s]
          /\ req[r].pc = "marking" /\ req[r].n \in Notifications
          /\ notification' = [notification EXCEPT ![req[r].n] = "read"]
          /\ template' = template
      BY <1>2 DEF SaveMark, At, Answer, LockInv, InboxInv, InboxRemember
    <2>2. notification \in [Notifications -> {"none", "unread", "read"}]
      BY DEF InboxInv
    <2>3. ASSUME NEW s \in Requests, s # r PROVE InboxRemember(req[s])'
      BY <2>1, <2>2, <2>3 DEF InboxInv, InboxRemember, Sent
    <2> QED BY <2>1, <2>2, <2>3 DEF InboxInv, InboxRemember, Idle
  <1>3. CASE MarkAllRead(r)
    <2>1. /\ req' = req
          /\ notification' = [n \in Notifications |-> IF Sent(n) THEN "read" ELSE "none"]
          /\ template' = template
      BY <1>3 DEF MarkAllRead, desk
    <2>2. ASSUME NEW s \in Requests PROVE InboxRemember(req[s])'
      BY <2>1 DEF InboxInv, InboxRemember, Sent
    <2> QED BY <2>1, <2>2 DEF InboxInv
  <1>4. CASE CommitTemplates(r)
    <2>1. /\ req'[r] = Idle
          /\ \A s \in Requests \ {r} : req'[s] = req[s]
          /\ req[r].pc = "templateNumbered" /\ req[r].n \in TemplatePairs
          /\ template' = template \cup {req[r].n}
          /\ notification' = notification
      BY <1>4 DEF CommitTemplates, At, Answer, LockInv, InboxInv, InboxRemember
    <2>2. ASSUME NEW s \in Requests, s # r PROVE InboxRemember(req[s])'
      <3>1. req[s].pc # "templateNumbered"
        BY <2>1, <2>2, OneNumbering DEF Numbering, TableOf
      <3> QED BY <2>1, <2>2, <3>1 DEF InboxInv, InboxRemember, Sent
    <2> QED BY <2>1, <2>2 DEF InboxInv, InboxRemember, Idle
  <1> QED BY <1>1, <1>2, <1>3, <1>4

LEMMA InboxStepsKeepInbox ==
    ASSUME LockInv, InboxInv, NEW r \in Requests, InboxArrive(r) \/ InboxAdvance(r)
    PROVE  InboxInv'
  <1>0. \A s \in Requests \ {r} : req'[s] = req[s]
    BY InboxMoves DEF Moves
  <1>1. ASSUME NEW n \in Notifications, ReadForMark(r, n) PROVE InboxInv'
    <2>1. UNCHANGED <<notification, template>> /\ InboxRemember(req'[r])
      BY <1>1 DEF ReadForMark, Begin, inbox, LockInv, InboxRemember
    <2> QED BY <1>0, <2>1, InboxMovesOn
  <1>2. ASSUME NEW op, NEW next, FindSettings(r, op, next) PROVE InboxInv'
    <2>1. UNCHANGED <<notification, template>> /\ req'[r].pc \in {"settingsMissing", "settingsFound"}
      BY <1>2 DEF FindSettings, Found, Begin, inbox, LockInv
    <2>2. InboxRemember(req'[r])
      BY <2>1 DEF InboxRemember
    <2> QED BY <1>0, <2>1, <2>2, InboxMovesOn
  <1>3. ASSUME StampSettings(r) \/ InsertSettings(r) \/ AnswerSettings(r) \/ SaveSettings(r)
        PROVE  InboxInv'
    <2>1. /\ UNCHANGED <<notification, template>>
          /\ req'[r].pc \in {"settingsStamped", "settingsFound", "idle"}
      BY <1>3 DEF StampSettings, InsertSettings, AnswerSettings, SaveSettings, Answer, Idle,
                  inbox, LockInv
    <2>2. InboxRemember(req'[r])
      BY <2>1 DEF InboxRemember
    <2> QED BY <1>0, <2>1, <2>2, InboxMovesOn
  <1> QED BY <1>1, <1>2, <1>3, NumberingKeepsInbox, WritesKeepInbox
          DEF InboxArrive, InboxAdvance, GetSettings, PutSettings

LEMMA InboxStarts == Init => InboxInv
  BY DEF Init, DeskInit, InboxInit, InboxInv, InboxRemember, Idle

LEMMA InboxNext == LockInv /\ InboxInv /\ [Next]_vars => InboxInv'
  <1> SUFFICES ASSUME LockInv, InboxInv, [Next]_vars PROVE InboxInv'
    OBVIOUS
  <1>1. ASSUME NEW r \in Requests, UNCHANGED inbox,
               Moves(r, DocumentPcs) \/ Moves(r, MaintenancePcs) \/ Moves(r, PortfolioPcs)
        PROVE  InboxInv'
    <2>1. InboxRemember(req'[r])
      BY <1>1 DEF Moves, DocumentPcs, MaintenancePcs, PortfolioPcs, InboxRemember
    <2> QED BY <1>1, <2>1, InboxMovesOn DEF Moves, inbox
  <1>2. ASSUME NEW r \in Requests, Arrive(r) PROVE InboxInv'
    BY <1>1, <1>2, InboxStepsKeepInbox, DocumentsMove, MaintenanceMoves, PortfolioMoves DEF Arrive
  <1>3. ASSUME NEW r \in Requests, Advance(r) PROVE InboxInv'
    BY <1>1, <1>3, InboxStepsKeepInbox, DocumentsMove, MaintenanceMoves, PortfolioMoves DEF Advance
  <1>4. ASSUME NEW r \in Requests, Fail(r) PROVE InboxInv'
    <2>1. Moves(r, DocumentPcs) /\ UNCHANGED inbox
      BY <1>4, FailMoves DEF Fail, Moves, DocumentPcs
    <2> QED BY <1>1, <2>1
  <1>5. CASE UNCHANGED vars
    BY <1>5 DEF vars, desk, inbox, InboxInv, InboxRemember, Sent
  <1> QED BY <1>2, <1>3, <1>4, <1>5 DEF Next

LEMMA InboxAlways == Spec => []InboxInv
  BY LocksInit, LocksNext, InboxStarts, InboxNext, PTL DEF Spec
-----------------------------------------------------------------------------
\* MAX(code) + 1 under the table's lock is still free at the insert, in each
\* of the six numbered tables, whatever else is in flight.
THEOREM NumbersStayFree == Spec => []NumbersAreFree
  <1>1. MaintenanceInv /\ DocumentsInv /\ PortfolioInv /\ InboxInv => NumbersAreFree
    BY DEF MaintenanceInv, MaintenanceRemembers, DocumentsInv, DocumentsRemember, PortfolioInv,
           PortfolioRemembers, InboxInv, InboxRemember, NumbersAreFree, At
  <1> QED BY <1>1, MaintenanceAlways, DocumentsAlways, PortfolioAlways, InboxAlways, PTL
-----------------------------------------------------------------------------
Stamped(s) == req[s].pc = "settingsStamped"

SettingsRemember(q) ==
    /\ q.pc \in {"settingsMissing", "settingsStamped", "settingsFound"} =>
          q.next \in Settings \cup {DefaultPrefs}
    /\ q.pc = "settingsStamped" =>
          q.at \in 1..MaxStamps /\ \A k \in DOMAIN settings : settings[k].at # q.at
    /\ q.pc = "settingsFound" => q.k \in DOMAIN settings

\* k is the row the next request will find, and no older one is on its way.
Foremost(k) ==
    /\ k \in DOMAIN settings
    /\ \A j \in DOMAIN settings : settings[k].at <= settings[j].at
    /\ Creators = {}

RowsTyped(rows) ==
    /\ rows \in Seq(SettingsRow)
    /\ \A j, k \in DOMAIN rows : rows[j].at = rows[k].at => j = k

OldestOf(rows) == CHOOSE k \in DOMAIN rows : \A j \in DOMAIN rows : rows[k].at <= rows[j].at

SettingsInv ==
    /\ RowsTyped(settings)
    /\ \A r \in Requests : SettingsRemember(req[r])
    /\ \A r, s \in Requests : r # s /\ Stamped(r) /\ Stamped(s) => req[r].at # req[s].at
    /\ \A r \in Requests : At(r, "settingsFound") /\ req[r].sure => Foremost(req[r].k)

LEMMA RowsAreTyped ==
    ASSUME NEW rows, RowsTyped(rows), NEW k \in DOMAIN rows
    PROVE  rows[k] \in SettingsRow /\ rows[k].at \in 1..MaxStamps
  <1>1. rows[k] \in SettingsRow
    BY DEF RowsTyped
  <1> QED BY <1>1 DEF SettingsRow

LEMMA OldestExists ==
    ASSUME NEW rows, RowsTyped(rows), rows # <<>>
    PROVE  /\ OldestOf(rows) \in DOMAIN rows
           /\ \A j \in DOMAIN rows : rows[OldestOf(rows)].at <= rows[j].at
  <1> DEFINE ages == {MaxStamps + 1 - rows[k].at : k \in DOMAIN rows}
  <1>1. MaxStamps \in Nat
    BY InboxAssumption
  <1>2. \A k \in DOMAIN rows : rows[k].at \in 1..MaxStamps
    BY RowsAreTyped
  <1>3. ages \in SUBSET (1..MaxStamps)
    <2>1. ASSUME NEW k \in DOMAIN rows PROVE MaxStamps + 1 - rows[k].at \in 1..MaxStamps
      <3>1. rows[k].at \in 1..MaxStamps
        BY <1>2
      <3> QED BY <1>1, <3>1
    <2> QED BY <2>1
  <1>4. ages # {}
    <2>1. 1 \in DOMAIN rows
      BY DEF RowsTyped
    <2> QED BY <2>1
  <1>5. Max(ages) \in ages /\ \A a \in ages : a <= Max(ages)
    <2> HIDE DEF ages
    <2> QED BY <1>1, <1>3, <1>4, MaxExists
  <1>6. PICK k \in DOMAIN rows : Max(ages) = MaxStamps + 1 - rows[k].at
    BY <1>5
  <1>7. ASSUME NEW j \in DOMAIN rows PROVE rows[k].at <= rows[j].at
    <2>1. MaxStamps + 1 - rows[j].at <= MaxStamps + 1 - rows[k].at
      BY <1>5, <1>6
    <2> QED BY <1>1, <1>2, <2>1
  <1> QED BY <1>7 DEF OldestOf

\* Only one row is the oldest.
LEMMA OldestIs ==
    ASSUME NEW rows, RowsTyped(rows), NEW k \in DOMAIN rows,
           \A j \in DOMAIN rows : rows[k].at <= rows[j].at
    PROVE  OldestOf(rows) = k
  <1>1. rows # <<>>
    BY DEF RowsTyped
  <1>2. OldestOf(rows) \in DOMAIN rows /\ rows[OldestOf(rows)].at <= rows[k].at
    BY <1>1, OldestExists
  <1>3. rows[OldestOf(rows)].at \in Nat /\ rows[k].at \in Nat
    BY <1>2, RowsAreTyped, InboxAssumption
  <1>4. rows[k].at = rows[OldestOf(rows)].at
    BY <1>2, <1>3
  <1> QED BY <1>2, <1>4 DEF RowsTyped

\* A step of a request that neither stamps nor stores a row.
LEMMA SettingsMoveOn ==
    ASSUME SettingsInv, NEW r \in Requests, UNCHANGED settings,
           \A s \in Requests \ {r} : req'[s] = req[s],
           SettingsRemember(req'[r]),
           req'[r].pc # "settingsStamped",
           req'[r].pc = "settingsMissing" => settings = <<>>,
           req'[r].pc = "settingsFound" /\ req'[r].sure => Foremost(req'[r].k)
    PROVE  SettingsInv'
  <1>1. ASSUME NEW s \in Requests PROVE SettingsRemember(req[s])'
    <2>1. CASE s = r
      BY <2>1 DEF SettingsRemember
    <2>2. CASE s # r
      BY <2>2 DEF SettingsInv, SettingsRemember
    <2> QED BY <2>1, <2>2
  <1>2. ASSUME NEW s \in Requests, NEW t \in Requests, s # t, Stamped(s)', Stamped(t)'
        PROVE  req'[s].at # req'[t].at
    BY <1>2 DEF SettingsInv, Stamped
  <1>3. ASSUME NEW k, Foremost(k) PROVE Foremost(k)'
    <2>1. req'[r].pc # "settingsMissing"
      BY <1>3 DEF Foremost
    <2> QED BY <1>3, <2>1 DEF Foremost, Creators
  <1>4. ASSUME NEW s \in Requests, At(s, "settingsFound")', req'[s].sure
        PROVE  Foremost(req[s].k)'
    <2>1. Foremost(req'[s].k)
      <3>1. CASE s = r
        BY <1>4, <3>1 DEF At
      <3>2. CASE s # r
        BY <1>4, <3>2 DEF SettingsInv, At
      <3> QED BY <3>1, <3>2
    <2> QED BY <1>3, <2>1
  <1> QED BY <1>1, <1>2, <1>4 DEF SettingsInv, RowsTyped

LEMMA FindKeepsSettings ==
    ASSUME LockInv, SettingsInv, NEW r \in Requests, NEW op,
           NEW next \in Settings \cup {DefaultPrefs}, FindSettings(r, op, next)
    PROVE  SettingsInv'
  <1>1. UNCHANGED settings /\ \A s \in Requests \ {r} : req'[s] = req[s]
    BY DEF FindSettings, Found, Begin, inbox, LockInv
  <1>2. CASE settings = <<>>
    <2>1. req'[r] = [pc |-> "settingsMissing", next |-> next]
      BY <1>2 DEF FindSettings, Begin, LockInv
    <2>2. SettingsRemember(req'[r])
      BY <2>1 DEF SettingsRemember
    <2> QED BY <1>1, <1>2, <2>1, <2>2, SettingsMoveOn
  <1>3. CASE settings # <<>>
    <2>1. req'[r] = [pc |-> "settingsFound", k |-> Oldest, next |-> next, sure |-> Creators = {}]
      BY <1>3 DEF FindSettings, Found, Begin, LockInv
    <2>2. /\ Oldest \in DOMAIN settings
          /\ \A j \in DOMAIN settings : settings[Oldest].at <= settings[j].at
      BY <1>3, OldestExists DEF SettingsInv, Oldest, OldestOf
    <2>3. SettingsRemember(req'[r])
      BY <2>1, <2>2 DEF SettingsRemember
    <2>4. ASSUME req'[r].sure PROVE Foremost(req'[r].k)
      <3> DEFINE alone == Creators = {}
      <3>1. req'[r].sure = alone /\ req'[r].k = Oldest
        <4>1. req'[r] = [pc |-> "settingsFound", k |-> Oldest, next |-> next, sure |-> alone]
          BY <2>1
        <4> HIDE DEF alone
        <4> QED BY <4>1
      <3>2. alone
        BY <2>4, <3>1, Zenon
      <3> QED BY <2>2, <3>1, <3>2 DEF Foremost
    <2>5. req'[r].pc = "settingsFound"
      BY <2>1
    <2> QED BY <1>1, <2>3, <2>4, <2>5, SettingsMoveOn
  <1> QED BY <1>2, <1>3

\* While a row is being created nobody is sure of one.
LEMMA CreatorsUnsettle ==
    ASSUME SettingsInv, NEW r \in Requests, req[r].pc \in {"settingsMissing", "settingsStamped"},
           NEW s \in Requests, At(s, "settingsFound")
    PROVE  ~req[s].sure
  BY DEF SettingsInv, Foremost, Creators

LEMMA StampKeepsSettings ==
    ASSUME LockInv, SettingsInv, NEW r \in Requests, StampSettings(r)
    PROVE  SettingsInv'
  <1> DEFINE used == {settings[k].at : k \in DOMAIN settings}
                       \cup {req[q].at : q \in {p \in Requests : At(p, "settingsStamped")}}
             at == NextNumber(used)
  <1>1. used \in SUBSET (1..MaxStamps)
    <2>1. \A k \in DOMAIN settings : settings[k].at \in 1..MaxStamps
      BY RowsAreTyped DEF SettingsInv
    <2>2. \A q \in Requests : At(q, "settingsStamped") => req[q].at \in 1..MaxStamps
      BY DEF SettingsInv, SettingsRemember, At
    <2> QED BY <2>1, <2>2
  <1>2. at \notin used /\ at \in 1..MaxStamps
    <2>1. MaxStamps \in Nat /\ at <= MaxStamps
      BY InboxAssumption DEF StampSettings
    <2> HIDE DEF used
    <2>2. at \notin used
      BY <1>1, <2>1, NextIsFree
    <2>3. at \in 1..MaxStamps
      <3>1. CASE used = {}
        BY <2>1, <3>1 DEF NextNumber
      <3>2. CASE used # {}
        <4>1. Max(used) \in 1..MaxStamps
          BY <1>1, <2>1, <3>2, MaxExists
        <4>2. at = Max(used) + 1
          BY <3>2 DEF NextNumber
        <4> DEFINE m == Max(used)
        <4>3. m \in 1..MaxStamps /\ at = m + 1
          BY <4>1, <4>2
        <4> HIDE DEF m
        <4> QED BY <2>1, <4>3
      <3> QED BY <3>1, <3>2
    <2> QED BY <2>2, <2>3
  <1>3. /\ req[r].pc = "settingsMissing"
        /\ req'[r] = [pc |-> "settingsStamped", next |-> req[r].next, at |-> at]
        /\ \A s \in Requests \ {r} : req'[s] = req[s]
        /\ settings' = settings
    BY DEF StampSettings, At, inbox, LockInv
  <1>4. /\ \A k \in DOMAIN settings : settings[k].at # at
        /\ \A s \in Requests : Stamped(s) => req[s].at # at
    BY <1>2 DEF Stamped, At
  <1> HIDE DEF at
  <1>5. ASSUME NEW s \in Requests PROVE SettingsRemember(req[s])'
    <2>1. CASE s = r
      BY <1>2, <1>3, <1>4, <2>1 DEF SettingsInv, SettingsRemember
    <2>2. CASE s # r
      BY <1>3, <2>2 DEF SettingsInv, SettingsRemember
    <2> QED BY <2>1, <2>2
  <1>6. ASSUME NEW s \in Requests, NEW t \in Requests, s # t, Stamped(s)', Stamped(t)'
        PROVE  req'[s].at # req'[t].at
    BY <1>3, <1>4, <1>6 DEF SettingsInv, Stamped
  <1>7. ASSUME NEW s \in Requests, At(s, "settingsFound")' PROVE ~req'[s].sure
    <2>1. s # r /\ req'[s] = req[s]
      BY <1>3, <1>7 DEF At
    <2> QED BY <1>3, <1>7, <2>1, CreatorsUnsettle DEF At
  <1> QED BY <1>3, <1>5, <1>6, <1>7 DEF SettingsInv, RowsTyped

LEMMA InsertKeepsSettings ==
    ASSUME LockInv, SettingsInv, NEW r \in Requests, InsertSettings(r)
    PROVE  SettingsInv'
  <1> DEFINE row == [at |-> req[r].at, prefs |-> DefaultPrefs]
             last == Len(settings) + 1
  <1>1. /\ req[r].pc = "settingsStamped"
        /\ settings' = Append(settings, row)
        /\ req'[r] = [pc |-> "settingsFound", k |-> Len(settings'), next |-> req[r].next,
                      sure |-> FALSE]
        /\ \A s \in Requests \ {r} : req'[s] = req[s]
    BY DEF InsertSettings, At, LockInv
  <1>2. /\ req[r].at \in 1..MaxStamps
        /\ \A k \in DOMAIN settings : settings[k].at # req[r].at
        /\ req[r].next \in Settings \cup {DefaultPrefs}
    BY <1>1 DEF SettingsInv, SettingsRemember
  <1>3. row \in SettingsRow /\ row.at = req[r].at
    BY <1>2 DEF SettingsRow
  <1>4. settings \in Seq(SettingsRow)
    BY DEF SettingsInv, RowsTyped
  <1> HIDE DEF row
  <1>5. /\ settings' \in Seq(SettingsRow)
        /\ Len(settings') = last /\ last \in DOMAIN settings'
        /\ DOMAIN settings' = DOMAIN settings \cup {last}
        /\ \A k \in DOMAIN settings : settings'[k] = settings[k]
        /\ settings'[last] = row
    BY <1>1, <1>3, <1>4
  <1> HIDE DEF last
  <1>6. RowsTyped(settings')
    <2> SUFFICES ASSUME NEW j \in DOMAIN settings', NEW k \in DOMAIN settings',
                        settings'[j].at = settings'[k].at
                 PROVE  j = k
      BY <1>5 DEF RowsTyped
    <2>1. \A i \in DOMAIN settings : settings'[i].at # settings'[last].at
      BY <1>2, <1>3, <1>5
    <2> QED BY <1>5, <2>1 DEF SettingsInv, RowsTyped
  <1>7. ASSUME NEW s \in Requests PROVE SettingsRemember(req[s])'
    <2>1. CASE s = r
      BY <1>1, <1>2, <1>5, <2>1 DEF SettingsRemember
    <2>2. CASE s # r
      <3>1. req'[s] = req[s] /\ SettingsRemember(req[s])
        BY <1>1, <2>2 DEF SettingsInv
      <3>2. req[s].pc = "settingsStamped" => req[s].at # req[r].at
        BY <1>1, <2>2 DEF SettingsInv, Stamped
      <3> QED BY <1>3, <1>5, <3>1, <3>2 DEF SettingsRemember
    <2> QED BY <2>1, <2>2
  <1>8. ASSUME NEW s \in Requests, NEW t \in Requests, s # t, Stamped(s)', Stamped(t)'
        PROVE  req'[s].at # req'[t].at
    BY <1>1, <1>8 DEF SettingsInv, Stamped
  <1>9. ASSUME NEW s \in Requests, At(s, "settingsFound")' PROVE ~req'[s].sure
    <2>1. CASE s = r
      BY <1>1, <2>1
    <2>2. CASE s # r
      BY <1>1, <1>9, <2>2, CreatorsUnsettle DEF At
    <2> QED BY <2>1, <2>2
  <1> QED BY <1>6, <1>7, <1>8, <1>9 DEF SettingsInv

\* A PUT changes what a row says and not its age.
LEMMA SaveKeepsSettings ==
    ASSUME LockInv, SettingsInv, NEW r \in Requests, SaveSettings(r)
    PROVE  /\ SettingsInv'
           /\ req[r].sure => settings'[Oldest'].prefs = req[r].next
  <1> DEFINE k == req[r].k
             row == [settings[k] EXCEPT !.prefs = req[r].next]
  <1>1. /\ req[r].pc = "settingsFound" /\ k \in DOMAIN settings
        /\ req[r].next \in Settings \cup {DefaultPrefs}
        /\ settings' = [settings EXCEPT ![k] = row]
        /\ req'[r] = Idle
        /\ \A s \in Requests \ {r} : req'[s] = req[s]
    BY DEF SaveSettings, At, Answer, LockInv, SettingsInv, SettingsRemember
  <1>2. settings[k] \in SettingsRow
    BY <1>1, RowsAreTyped DEF SettingsInv
  <1>3. row \in SettingsRow /\ row.at = settings[k].at /\ row.prefs = req[r].next
    BY <1>1, <1>2 DEF SettingsRow
  <1>4. settings \in Seq(SettingsRow)
    BY DEF SettingsInv, RowsTyped
  <1> HIDE DEF row, k
  <1>5. /\ settings' \in Seq(SettingsRow)
        /\ DOMAIN settings' = DOMAIN settings
        /\ settings'[k] = row
        /\ \A j \in DOMAIN settings \ {k} : settings'[j] = settings[j]
    BY <1>1, <1>3, <1>4
  <1>6. \A j \in DOMAIN settings : settings'[j].at = settings[j].at
    BY <1>3, <1>5
  <1>7. RowsTyped(settings')
    BY <1>5, <1>6 DEF SettingsInv, RowsTyped
  <1>8. ASSUME NEW j, Foremost(j) PROVE Foremost(j)'
    BY <1>1, <1>5, <1>6, <1>8 DEF Foremost, Creators, Idle
  <1>9. ASSUME NEW s \in Requests PROVE SettingsRemember(req[s])'
    <2>1. CASE s = r
      BY <1>1, <2>1 DEF SettingsRemember, Idle
    <2>2. CASE s # r
      BY <1>1, <1>5, <1>6, <2>2 DEF SettingsInv, SettingsRemember
    <2> QED BY <2>1, <2>2
  <1>10. ASSUME NEW s \in Requests, NEW t \in Requests, s # t, Stamped(s)', Stamped(t)'
         PROVE  req'[s].at # req'[t].at
    BY <1>1, <1>10 DEF SettingsInv, Stamped, Idle
  <1>11. ASSUME NEW s \in Requests, At(s, "settingsFound")', req'[s].sure
         PROVE  Foremost(req[s].k)'
    <2>1. s # r /\ req'[s] = req[s]
      BY <1>1, <1>11 DEF At, Idle
    <2>2. Foremost(req[s].k)
      BY <1>11, <2>1 DEF SettingsInv, At
    <2>3. Foremost(req'[s].k)
      BY <2>1, <2>2
    <2> QED BY <1>8, <2>3
  <1>12. ASSUME req[r].sure PROVE settings'[Oldest'].prefs = req[r].next
    <2>1. Foremost(k)
      BY <1>1, <1>12 DEF SettingsInv, At, k
    <2>2. /\ k \in DOMAIN settings'
          /\ \A j \in DOMAIN settings' : settings'[k].at <= settings'[j].at
      BY <1>5, <1>6, <2>1 DEF Foremost
    <2>3. Oldest' = k
      BY <1>7, <2>2, OldestIs DEF Oldest, OldestOf
    <2> QED BY <1>3, <1>5, <2>3
  <1> QED BY <1>7, <1>9, <1>10, <1>11, <1>12 DEF SettingsInv

\* A step that is none of the settings' handlers.
LEMMA OthersKeepSettings ==
    ASSUME SettingsInv, NEW r \in Requests, UNCHANGED settings,
           \A s \in Requests \ {r} : req'[s] = req[s],
           req'[r].pc \notin {"settingsMissing", "settingsStamped", "settingsFound"}
    PROVE  SettingsInv'
  <1>1. SettingsRemember(req'[r])
    BY DEF SettingsRemember
  <1> QED BY <1>1, SettingsMoveOn

LEMMA InboxStepsKeepSettings ==
    ASSUME LockInv, SettingsInv, NEW r \in Requests, InboxArrive(r) \/ InboxAdvance(r)
    PROVE  SettingsInv'
  <1>0. \A s \in Requests \ {r} : req'[s] = req[s]
    BY InboxMoves DEF Moves
  <1>1. ASSUME NumberNotification(r) \/ NumberTemplate(r) \/ \E n \in Notifications : ReadForMark(r, n)
        PROVE  SettingsInv'
    <2>1. /\ UNCHANGED settings
          /\ req'[r].pc \in {"notificationNumbered", "templateNumbered", "marking"}
      BY <1>1 DEF NumberNotification, NumberTemplate, ReadForMark, Number, Begin, inbox, LockInv
    <2> QED BY <1>0, <2>1, OthersKeepSettings
  <1>2. ASSUME CommitNotification(r) \/ SaveMark(r) \/ CommitTemplates(r) \/ AnswerSettings(r)
        PROVE  SettingsInv'
    <2>1. UNCHANGED settings /\ req'[r].pc = "idle"
      BY <1>2 DEF CommitNotification, SaveMark, CommitTemplates, AnswerSettings, Answer, Idle,
                  inbox, LockInv
    <2> QED BY <1>0, <2>1, OthersKeepSettings
  <1>3. ASSUME MarkAllRead(r) PROVE SettingsInv'
    <2>1. UNCHANGED settings /\ req'[r].pc = "idle"
      BY <1>3 DEF MarkAllRead, Idle, desk
    <2> QED BY <1>0, <2>1, OthersKeepSettings
  <1>4. ASSUME GetSettings(r) \/ \E next \in Settings : PutSettings(r, next) PROVE SettingsInv'
    BY <1>4, FindKeepsSettings DEF GetSettings, PutSettings
  <1> QED BY <1>1, <1>2, <1>3, <1>4, StampKeepsSettings, InsertKeepsSettings, SaveKeepsSettings
          DEF InboxArrive, InboxAdvance

LEMMA SettingsStart == Init => SettingsInv
  <1> SUFFICES ASSUME Init PROVE SettingsInv
    OBVIOUS
  <1>1. settings = <<>> /\ \A r \in Requests : req[r] = Idle
    BY DEF Init, DeskInit, InboxInit
  <1>2. RowsTyped(settings)
    BY <1>1 DEF RowsTyped
  <1> QED BY <1>1, <1>2 DEF SettingsInv, SettingsRemember, Stamped, At, Idle

LEMMA SettingsNext == LockInv /\ SettingsInv /\ [Next]_vars => SettingsInv'
  <1> SUFFICES ASSUME LockInv, SettingsInv, [Next]_vars PROVE SettingsInv'
    OBVIOUS
  <1>1. ASSUME NEW r \in Requests, UNCHANGED inbox,
               Moves(r, DocumentPcs) \/ Moves(r, MaintenancePcs) \/ Moves(r, PortfolioPcs)
        PROVE  SettingsInv'
    <2>1. /\ req'[r].pc \notin {"settingsMissing", "settingsStamped", "settingsFound"}
          /\ \A s \in Requests \ {r} : req'[s] = req[s]
      BY <1>1 DEF Moves, DocumentPcs, MaintenancePcs, PortfolioPcs
    <2> QED BY <1>1, <2>1, OthersKeepSettings DEF inbox
  <1>2. ASSUME NEW r \in Requests, Arrive(r) PROVE SettingsInv'
    BY <1>1, <1>2, InboxStepsKeepSettings, DocumentsMove, MaintenanceMoves, PortfolioMoves
       DEF Arrive
  <1>3. ASSUME NEW r \in Requests, Advance(r) PROVE SettingsInv'
    BY <1>1, <1>3, InboxStepsKeepSettings, DocumentsMove, MaintenanceMoves, PortfolioMoves
       DEF Advance
  <1>4. ASSUME NEW r \in Requests, Fail(r) PROVE SettingsInv'
    <2>1. Moves(r, DocumentPcs) /\ UNCHANGED inbox
      BY <1>4, FailMoves DEF Fail, Moves, DocumentPcs
    <2> QED BY <1>1, <2>1
  <1>5. CASE UNCHANGED vars
    <2>1. UNCHANGED <<req, settings>>
      BY <1>5 DEF vars, desk, inbox
    <2> QED BY <2>1 DEF SettingsInv, SettingsRemember, Stamped, At, Foremost, Creators
  <1> QED BY <1>2, <1>3, <1>4, <1>5 DEF Next

LEMMA SettingsAlways == Spec => [](LockInv /\ SettingsInv)
  BY LocksInit, LocksNext, SettingsStart, SettingsNext, PTL DEF Spec

\* A PUT of the settings that found its row when nobody was creating another
\* is not lost, however many first requests had raced before it.
THEOREM SettingsAreKept == Spec => PutSettingsStand
  <1>1. LockInv /\ SettingsInv =>
           [\A r \in Requests :
              SaveSettings(r) /\ req[r].sure => settings'[Oldest'].prefs = req[r].next]_vars
    BY SaveKeepsSettings
  <1> QED BY <1>1, SettingsAlways, PTL DEF PutSettingsStand
-----------------------------------------------------------------------------
(***************************************************************************)
(* The desk as a whole: a slot without a request holds no lock, and the    *)
(* uploads done and the uploads under way fit the bound.                   *)
(***************************************************************************)
IdleHandsAreEmpty == \A r \in Requests : At(r, "idle") => req[r] = Idle /\ held[r] = NoLocks

UploadsFit == uploads + Cardinality(Uploading) <= MaxUploads

\* One request's step: it goes on, it ends, or nobody notices.
Turns(r) ==
    /\ \A s \in Requests \ {r} : req'[s] = req[s] /\ held'[s] = held[s]
    /\ \/ req'[r].pc # "idle"
       \/ req'[r] = Idle /\ held'[r] = NoLocks
       \/ UNCHANGED desk

LEMMA BeginTurns ==
    ASSUME LockInv, NEW r \in Requests, NEW op, NEW q, Begin(r, op, q), q.pc # "idle"
    PROVE  Turns(r)
  BY DEF LockInv, Begin, Turns

LEMMA NumberTurns ==
    ASSUME LockInv, NEW r \in Requests, NEW table, NEW q, Number(r, table, q), q.pc # "idle"
    PROVE  Turns(r)
  BY DEF LockInv, LocksTypeOK, Number, Acquire, Turns

LEMMA AnswerTurns ==
    ASSUME LockInv, NEW r \in Requests, Answer(r)
    PROVE  Turns(r)
  BY DEF LockInv, LocksTypeOK, Answer, Release, Turns

LEMMA TurnsKeepHandsEmpty ==
    ASSUME IdleHandsAreEmpty, NEW r \in Requests, Turns(r)
    PROVE  IdleHandsAreEmpty'
  <1> SUFFICES ASSUME NEW s \in Requests, req'[s].pc = "idle"
               PROVE  req'[s] = Idle /\ held'[s] = NoLocks
    BY DEF IdleHandsAreEmpty, At
  <1>1. CASE s = r
    BY <1>1 DEF Turns, desk, IdleHandsAreEmpty, At
  <1>2. CASE s # r
    BY <1>2 DEF Turns, IdleHandsAreEmpty, At
  <1> QED BY <1>1, <1>2

LEMMA MaintenanceTurns ==
    ASSUME LockInv, NEW r \in Requests, MaintenanceArrive(r) \/ MaintenanceAdvance(r)
    PROVE  Turns(r)
  <1>1. ASSUME NEW c \in Categories, Submit(r, c) PROVE Turns(r)
    BY <1>1, BeginTurns DEF Submit
  <1>2. ASSUME NEW n \in Tickets, NEW m \in Technicians, ReadForAssign(r, n, m) PROVE Turns(r)
    BY <1>2, BeginTurns DEF ReadForAssign
  <1>3. ASSUME NEW n \in Tickets, ReadForStart(r, n) \/ ReadForComplete(r, n) \/ ReadForClose(r, n)
        PROVE  Turns(r)
    BY <1>3, BeginTurns DEF ReadForStart, ReadForComplete, ReadForClose
  <1>4. ASSUME NEW skills, NumberTechnician(r, skills) PROVE Turns(r)
    BY <1>4, NumberTurns DEF NumberTechnician
  <1>5. ASSUME NumberTicket(r) PROVE Turns(r)
    BY <1>5, NumberTurns DEF NumberTicket
  <1>6. ASSUME CommitTicket(r) \/ UpdateTicket(r) \/ CommitTechnician(r) PROVE Turns(r)
    BY <1>6, AnswerTurns DEF CommitTicket, UpdateTicket, CommitTechnician
  <1> QED BY <1>1, <1>2, <1>3, <1>4, <1>5, <1>6 DEF MaintenanceArrive, MaintenanceAdvance

LEMMA DocumentsTurn ==
    ASSUME LockInv, NEW r \in Requests, DocumentsArrive(r) \/ DocumentsAdvance(r)
    PROVE  Turns(r)
  <1>1. ASSUME NEW f, FindOwner(r, f) PROVE Turns(r)
    BY <1>1, BeginTurns DEF FindOwner
  <1>2. ASSUME GenerateAgreement(r) PROVE Turns(r)
    BY <1>2, BeginTurns DEF GenerateAgreement
  <1>3. ASSUME NEW n, ReadForRemove(r, n) PROVE Turns(r)
    BY <1>3, BeginTurns DEF ReadForRemove
  <1>4. ASSUME AllocateCode(r) PROVE Turns(r)
    BY <1>4, NumberTurns DEF AllocateCode
  <1>5. ASSUME StoreObject(r) PROVE Turns(r)
    BY <1>5, DocumentsMove DEF StoreObject, DocumentsAdvance, Moves, Turns, LockInv
  <1>6. ASSUME RemoveRow(r) PROVE Turns(r)
    BY <1>6, DocumentsMove DEF RemoveRow, DocumentsAdvance, Moves, Turns, LockInv
  <1>7. ASSUME CommitDocument(r) \/ DeleteObject(r) PROVE Turns(r)
    BY <1>7, AnswerTurns DEF CommitDocument, DeleteObject
  <1> QED BY <1>1, <1>2, <1>3, <1>4, <1>5, <1>6, <1>7 DEF DocumentsArrive, DocumentsAdvance

LEMMA PortfolioTurns ==
    ASSUME LockInv, NEW r \in Requests, PortfolioArrive(r) \/ PortfolioAdvance(r)
    PROVE  Turns(r)
  <1>1. ASSUME NumberProperty(r) \/ NumberUnit(r) PROVE Turns(r)
    BY <1>1, NumberTurns DEF NumberProperty, NumberUnit
  <1>2. ASSUME NEW p, NEW s, LoadProperty(r, p, s) PROVE Turns(r)
    BY <1>2, BeginTurns DEF LoadProperty
  <1>3. ASSUME NEW p, LoadForArchive(r, p) PROVE Turns(r)
    BY <1>3, BeginTurns DEF LoadForArchive
  <1>4. ASSUME NEW p, NEW no, FindProperty(r, p, no) PROVE Turns(r)
    BY <1>4, BeginTurns DEF FindProperty
  <1>5. ASSUME NEW p, NEW k, NEW no, LoadUnit(r, p, k, no) PROVE Turns(r)
    BY <1>5, BeginTurns DEF LoadUnit
  <1>6. ASSUME CommitProperty(r) \/ SaveProperty(r) \/ CommitUnit(r) \/ SaveUnit(r)
        PROVE  Turns(r)
    BY <1>6, AnswerTurns DEF CommitProperty, SaveProperty, CommitUnit, SaveUnit
  <1> QED BY <1>1, <1>2, <1>3, <1>4, <1>5, <1>6 DEF PortfolioArrive, PortfolioAdvance

LEMMA InboxTurns ==
    ASSUME LockInv, NEW r \in Requests, InboxArrive(r) \/ InboxAdvance(r)
    PROVE  Turns(r)
  <1>1. ASSUME NumberNotification(r) \/ NumberTemplate(r) PROVE Turns(r)
    BY <1>1, NumberTurns DEF NumberNotification, NumberTemplate
  <1>2. ASSUME MarkAllRead(r) PROVE Turns(r)
    BY <1>2 DEF MarkAllRead, desk, Turns
  <1>3. ASSUME NEW n, ReadForMark(r, n) PROVE Turns(r)
    BY <1>3, BeginTurns DEF ReadForMark
  <1>4. ASSUME NEW op, NEW next, FindSettings(r, op, next) PROVE Turns(r)
    BY <1>4, BeginTurns DEF FindSettings, Found
  <1>5. ASSUME StampSettings(r) PROVE Turns(r)
    BY <1>5, InboxMoves DEF StampSettings, InboxAdvance, Moves, Turns, LockInv
  <1>6. ASSUME InsertSettings(r) PROVE Turns(r)
    BY <1>6, InboxMoves DEF InsertSettings, InboxAdvance, Moves, Turns, LockInv
  <1>7. ASSUME \/ CommitNotification(r) \/ SaveMark(r) \/ CommitTemplates(r)
               \/ AnswerSettings(r) \/ SaveSettings(r)
        PROVE  Turns(r)
    BY <1>7, AnswerTurns
       DEF CommitNotification, SaveMark, CommitTemplates, AnswerSettings, SaveSettings
  <1> QED BY <1>1, <1>2, <1>3, <1>4, <1>5, <1>6, <1>7
          DEF InboxArrive, InboxAdvance, GetSettings, PutSettings

LEMMA HandsStayEmpty == LockInv /\ IdleHandsAreEmpty /\ [Next]_vars => IdleHandsAreEmpty'
  <1> SUFFICES ASSUME LockInv, IdleHandsAreEmpty, [Next]_vars PROVE IdleHandsAreEmpty'
    OBVIOUS
  <1>1. ASSUME NEW r \in Requests, Arrive(r) \/ Advance(r) PROVE Turns(r)
    BY <1>1, MaintenanceTurns, DocumentsTurn, PortfolioTurns, InboxTurns DEF Arrive, Advance
  <1>2. ASSUME NEW r \in Requests, Fail(r) PROVE Turns(r)
    BY <1>2, AnswerTurns DEF Fail
  <1>3. CASE UNCHANGED vars
    BY <1>3 DEF vars, desk, IdleHandsAreEmpty, At
  <1> QED BY <1>1, <1>2, <1>3, TurnsKeepHandsEmpty DEF Next
-----------------------------------------------------------------------------
LEMMA UploadingCount ==
    /\ IsFiniteSet(Uploading) /\ Cardinality(Uploading) \in Nat
    /\ \A X : X \subseteq Uploading =>
          IsFiniteSet(X) /\ Cardinality(X) \in Nat /\ Cardinality(X) <= Cardinality(Uploading)
  <1>1. IsFiniteSet(Uploading)
    BY DocumentsAssumption, FS_Subset DEF Uploading
  <1> QED BY <1>1, FS_Subset, FS_CardinalityType

\* A step that starts no upload and finishes none.
LEMMA UploadsFitStill ==
    ASSUME DocumentsInv, UploadsFit, uploads' = uploads, Uploading' \subseteq Uploading
    PROVE  UploadsFit'
  <1>1. uploads \in Nat
    BY DEF DocumentsInv, StoresTyped
  <1> QED BY <1>1, UploadingCount, DocumentsAssumption DEF UploadsFit

\* An upload is started only where there is room for it.
LEMMA StartedUploadsFit ==
    ASSUME DocumentsInv, NEW r \in Requests, RoomForUpload, req[r] = Idle, uploads' = uploads,
           \A s \in Requests \ {r} : req'[s] = req[s]
    PROVE  UploadsFit'
  <1>1. r \notin Uploading /\ Uploading' \subseteq Uploading \cup {r}
    BY DEF Uploading, Idle
  <1>2. /\ IsFiniteSet(Uploading \cup {r})
        /\ Cardinality(Uploading \cup {r}) = Cardinality(Uploading) + 1
    BY <1>1, UploadingCount, FS_AddElement
  <1>3. Cardinality(Uploading') \in Nat /\ Cardinality(Uploading') <= Cardinality(Uploading) + 1
    BY <1>1, <1>2, FS_Subset, FS_CardinalityType
  <1>4. uploads \in Nat
    BY DEF DocumentsInv, StoresTyped
  <1> QED BY <1>3, <1>4, UploadingCount, DocumentsAssumption DEF UploadsFit, RoomForUpload

\* A stored object is an upload that is no longer under way.
LEMMA StoredUploadsFit ==
    ASSUME LockInv, DocumentsInv, UploadsFit, NEW r \in Requests, StoreObject(r)
    PROVE  UploadsFit'
  <1>1. /\ req[r].pc = "codeAllocated" /\ req'[r].pc = "objectStored" /\ uploads' = uploads + 1
        /\ \A s \in Requests \ {r} : req'[s] = req[s]
    BY DEF StoreObject, At, LockInv
  <1>2. r \in Uploading /\ Uploading' \subseteq Uploading \ {r}
    BY <1>1 DEF Uploading
  <1>3. /\ IsFiniteSet(Uploading \ {r})
        /\ Cardinality(Uploading \ {r}) = Cardinality(Uploading) - 1
    BY <1>2, UploadingCount, FS_RemoveElement
  <1>4. Cardinality(Uploading') \in Nat /\ Cardinality(Uploading') <= Cardinality(Uploading) - 1
    BY <1>2, <1>3, FS_Subset, FS_CardinalityType
  <1>5. uploads \in Nat
    BY DEF DocumentsInv, StoresTyped
  <1> QED BY <1>1, <1>4, <1>5, UploadingCount, DocumentsAssumption DEF UploadsFit

LEMMA UploadsKeepFitting == LockInv /\ DocumentsInv /\ UploadsFit /\ [Next]_vars => UploadsFit'
  <1> SUFFICES ASSUME LockInv, DocumentsInv, UploadsFit, [Next]_vars PROVE UploadsFit'
    OBVIOUS
  <1>1. ASSUME NEW r \in Requests, uploads' = uploads,
               \A s \in Requests \ {r} : req'[s] = req[s],
               req'[r].pc \notin {"ownerFound", "codeAllocated"} \/ req[r].pc = "ownerFound"
        PROVE  UploadsFit'
    <2>1. Uploading' \subseteq Uploading
      BY <1>1 DEF Uploading
    <2> QED BY <1>1, <2>1, UploadsFitStill
  <1>2. ASSUME NEW r \in Requests, UNCHANGED documents,
               Moves(r, MaintenancePcs) \/ Moves(r, PortfolioPcs) \/ Moves(r, InboxPcs)
        PROVE  UploadsFit'
    BY <1>1, <1>2 DEF documents, Moves, MaintenancePcs, PortfolioPcs, InboxPcs
  <1>3. ASSUME NEW r \in Requests, DocumentsArrive(r) PROVE UploadsFit'
    <2>0. \A s \in Requests \ {r} : req'[s] = req[s]
      BY <1>3, DocumentsMove DEF Moves
    <2>1. CASE (\E f \in Files : FindOwner(r, f)) \/ GenerateAgreement(r)
      BY <2>0, <2>1, StartedUploadsFit DEF FindOwner, GenerateAgreement, Begin, documents
    <2>2. ASSUME NEW n \in Codes, ReadForRemove(r, n) PROVE UploadsFit'
      BY <1>1, <2>0, <2>2 DEF ReadForRemove, Begin, documents, LockInv
    <2> QED BY <1>3, <2>1, <2>2 DEF DocumentsArrive
  <1>4. ASSUME NEW r \in Requests, DocumentsAdvance(r) PROVE UploadsFit'
    <2>0. \A s \in Requests \ {r} : req'[s] = req[s]
      BY <1>4, DocumentsMove DEF Moves
    <2>1. CASE AllocateCode(r)
      BY <1>1, <2>0, <2>1 DEF AllocateCode, At, documents
    <2>2. CASE CommitDocument(r) \/ DeleteObject(r)
      BY <1>1, <2>0, <2>2 DEF CommitDocument, DeleteObject, Answer, Idle, LockInv
    <2>3. CASE RemoveRow(r)
      BY <1>1, <2>0, <2>3 DEF RemoveRow, LockInv
    <2> QED BY <1>4, <2>1, <2>2, <2>3, StoredUploadsFit DEF DocumentsAdvance
  <1>5. ASSUME NEW r \in Requests, Fail(r) PROVE UploadsFit'
    BY <1>1, <1>5, FailMoves DEF Fail, Moves
  <1>6. CASE UNCHANGED vars
    <2>1. Uploading' = Uploading /\ uploads' = uploads
      BY <1>6 DEF vars, desk, documents, Uploading
    <2> QED BY <2>1, UploadsFitStill
  <1>7. ASSUME NEW r \in Requests, Arrive(r) PROVE UploadsFit'
    BY <1>2, <1>3, <1>7, MaintenanceMoves, PortfolioMoves, InboxMoves DEF Arrive
  <1>8. ASSUME NEW r \in Requests, Advance(r) PROVE UploadsFit'
    BY <1>2, <1>4, <1>8, MaintenanceMoves, PortfolioMoves, InboxMoves DEF Advance
  <1> QED BY <1>5, <1>6, <1>7, <1>8 DEF Next

LEMMA DeskStarts == Init => IdleHandsAreEmpty /\ UploadsFit
  <1> SUFFICES ASSUME Init PROVE IdleHandsAreEmpty /\ UploadsFit
    OBVIOUS
  <1>1. \A r \in Requests : req[r] = Idle /\ held[r] = NoLocks
    BY DEF Init, DeskInit
  <1>2. Uploading = {}
    BY <1>1 DEF Uploading, Idle
  <1>3. Cardinality(Uploading) = 0
    BY <1>2, FS_EmptySet
  <1>4. uploads \in 0..1
    BY DEF Init, DocumentsInit
  <1>5. UploadsFit
    BY <1>3, <1>4, DocumentsAssumption DEF UploadsFit
  <1> QED BY <1>1, <1>5 DEF IdleHandsAreEmpty
-----------------------------------------------------------------------------
LEMMA DeskIsTyped ==
    ASSUME LockInv, IdleHandsAreEmpty, UploadsFit, MaintenanceInv, DocumentsInv, PortfolioInv,
           InboxInv, SettingsInv
    PROVE  TypeOK
  <1>1. DocumentsTypeOK
    <2>1. uploads \in Nat /\ uploads <= MaxUploads /\ MaxUploads \in Nat
      BY UploadingCount, DocumentsAssumption DEF UploadsFit, DocumentsInv, StoresTyped
    <2>2. ASSUME NEW n \in Codes PROVE document[n] \in DocumentRow \cup {NoDocument}
      BY <2>1 DEF DocumentsInv, StoresTyped, StoredRow, DocumentRow
    <2>3. ASSUME NEW key \in Keys PROVE object[key] \in 0..MaxUploads
      BY <2>1 DEF DocumentsInv, StoresTyped
    <2> QED BY <2>1, <2>2, <2>3 DEF DocumentsInv, StoresTyped, DocumentsTypeOK
  <1>2. PortfolioTypeOK
    <2>1. ASSUME NEW p \in Properties
          PROVE  /\ DOMAIN unit[p] = 1..Len(unit[p])
                 /\ \A k \in DOMAIN unit[p] : unit[p][k] \in UnitRow
      <3>1. unit[p] \in Seq(UnitRow)
        BY DEF PortfolioInv
      <3> QED BY <3>1
    <2> QED BY <2>1 DEF PortfolioInv, UnitsFit, PortfolioTypeOK
  <1>3. InboxTypeOK
    BY DEF InboxInv, SettingsInv, RowsTyped, InboxTypeOK
  <1> QED BY <1>1, <1>2, <1>3 DEF TypeOK, LockInv, IdleHandsAreEmpty, MaintenanceInv

\* The tables, the bucket and the requests at the desk hold what they should,
\* for any number of requests in flight: a slot that has answered holds no
\* lock, no two rows of settings are of the same time, and what is counted
\* before an upload or a unit is begun is enough to keep their bounds.
THEOREM DeskTypes == Spec => []TypeOK
  <1>1. Spec => []IdleHandsAreEmpty
    BY LocksInit, LocksNext, DeskStarts, HandsStayEmpty, PTL DEF Spec
  <1>2. Spec => []UploadsFit
    <2>1. Init => UploadsFit
      BY DeskStarts
    <2> QED BY <2>1, DocumentsAlways, UploadsKeepFitting, PTL DEF Spec
  <1> QED BY <1>1, <1>2, DeskIsTyped, MaintenanceAlways, DocumentsAlways, PortfolioAlways,
             InboxAlways, SettingsAlways, PTL
=============================================================================
