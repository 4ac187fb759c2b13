------------------------------ MODULE Documents ------------------------------
(***************************************************************************)
(* Documents: a row in the documents table and an object in the bucket,    *)
(* under a key made of the row's code and the file's name.  The object is  *)
(* stored before the row is committed and deleted after the row is gone,   *)
(* and the code of a removed document may be given out again.              *)
(*                                                                         *)
(* A document's bytes, and its row's uuid, are told apart by the number of *)
(* the upload that made them.  The owner a document is attached to exists, *)
(* for nothing that can own one is ever deleted, and is left out.          *)
(***************************************************************************)
EXTENDS Desk

CONSTANTS
    Files,           \* names of the files being uploaded
    Agreement,       \* lease-agreement.pdf
    MaxDocuments, MaxUploads    \* bounds on codes and on uploads

ASSUME DocumentsAssumption ==
    Agreement \in Files /\ MaxDocuments \in Nat /\ MaxUploads \in Nat \ {0} /\ IsFiniteSet(Requests)

VARIABLES
    document,     \* documents table: number in the code -> row
    object,       \* bucket: key -> the upload whose bytes it holds, or 0
    uploads,      \* how many uploads have reached the bucket
    abandoned     \* keys that failed handlers stored and did not clean up

documents == <<document, object, uploads, abandoned>>

DocumentEndpoints == {"upload", "createLease", "remove"}

Codes == 1..MaxDocuments

Keys == Codes \X Files

NoDocument == [id |-> 0]

DocumentRow == [file : Files, id : 1..MaxUploads]

KeyOf(n, row) == <<n, row.file>>

Exists(n) == document[n] # NoDocument

DocumentsTypeOK ==
    /\ document \in [Codes -> DocumentRow \cup {NoDocument}]
    /\ object \in [Keys -> 0..MaxUploads]
    /\ uploads \in 0..MaxUploads
    /\ abandoned \subseteq Keys

\* The seeded documents, each with its object.
DocumentsInit ==
    \E seeded \in 0..1, f \in Files :
       /\ document = [n \in Codes |-> IF n <= seeded THEN [file |-> f, id |-> n] ELSE NoDocument]
       /\ object = [key \in Keys |-> IF key[1] <= seeded /\ key[2] = f THEN key[1] ELSE 0]
       /\ uploads = seeded
       /\ abandoned = {}
-----------------------------------------------------------------------------
(***************************************************************************)
(* POST /documents: DocumentsService.upload; and generateLeaseAgreement,   *)
(* the same steps inside the transaction that creates the lease, which may *)
(* still roll back.                                                        *)
(***************************************************************************)
Uploading == {r \in Requests : req[r].pc \in {"ownerFound", "codeAllocated"}}

\* The bound MaxUploads, kept by starting no upload that would pass it.
RoomForUpload == uploads + Cardinality(Uploading) < MaxUploads

FindOwner(r, f) ==
    /\ RoomForUpload
    /\ Begin(r, "upload", [pc |-> "ownerFound", file |-> f])
    /\ UNCHANGED documents

GenerateAgreement(r) ==
    /\ RoomForUpload
    /\ Begin(r, "createLease", [pc |-> "ownerFound", file |-> Agreement])
    /\ UNCHANGED documents

\* nextCode.
AllocateCode(r) ==
    LET n == NextNumber({k \in Codes : Exists(k)}) IN
    /\ At(r, "ownerFound")
    /\ n \in Codes
    /\ Number(r, "documents", [pc |-> "codeAllocated", n |-> n, file |-> req[r].file])
    /\ UNCHANGED documents

\* StorageService.upload: replaces whatever the key held.
StoreObject(r) ==
    /\ At(r, "codeAllocated")
    /\ uploads' = uploads + 1
    /\ object' = [object EXCEPT ![<<req[r].n, req[r].file>>] = uploads']
    /\ req' = [req EXCEPT ![r] = [pc |-> "objectStored", n |-> @.n, file |-> @.file,
                                  id |-> uploads']]
    /\ UNCHANGED <<calls, held, document, abandoned>>

CommitDocument(r) ==
    LET q == req[r] IN
    /\ At(r, "objectStored")
    /\ ~Exists(q.n)        \* the unique index on the code
    /\ document' = [document EXCEPT ![q.n] = [file |-> q.file, id |-> q.id]]
    /\ Answer(r)
    /\ UNCHANGED <<object, uploads, abandoned>>
-----------------------------------------------------------------------------
(***************************************************************************)
(* DELETE /documents/:code: DocumentsService.remove.                       *)
(***************************************************************************)
ReadForRemove(r, n) ==
    /\ Exists(n)
    /\ Begin(r, "remove", [pc |-> "documentRead", n |-> n, row |-> document[n]])
    /\ UNCHANGED documents

\* documents.remove(document): deletes by uuid, and is content when the row
\* is gone already, even when its code is another document's by now.
RemoveRow(r) ==
    LET q == req[r] IN
    /\ At(r, "documentRead")
    /\ MayWrite(r, "documents")
    /\ document' = IF document[q.n].id = q.row.id THEN [document EXCEPT ![q.n] = NoDocument]
                   ELSE document
    /\ req' = [req EXCEPT ![r] = [pc |-> "rowRemoved", n |-> q.n, row |-> q.row]]
    /\ UNCHANGED <<calls, held, object, uploads, abandoned>>

\* MUTANT of DeleteObject: the stored file is left behind.
DeleteNothing(r) ==
    /\ At(r, "rowRemoved")
    /\ Answer(r)
    /\ UNCHANGED documents

DeleteObject(r) ==
    /\ At(r, "rowRemoved")
    /\ object' = [object EXCEPT ![KeyOf(req[r].n, req[r].row)] = 0]
    /\ Answer(r)
    /\ UNCHANGED <<document, uploads, abandoned>>
-----------------------------------------------------------------------------
\* The key a request is between storing or deleting an object and its row.
HeldKeys(r) ==
    CASE At(r, "objectStored") -> {<<req[r].n, req[r].file>>}
      [] At(r, "rowRemoved")   -> {KeyOf(req[r].n, req[r].row)}
      [] OTHER                 -> {}

DocumentsFail(r) == abandoned' = abandoned \cup HeldKeys(r)

DocumentsArrive(r) ==
    \/ \E f \in Files : FindOwner(r, f)
    \/ GenerateAgreement(r)
    \/ \E n \in Codes : ReadForRemove(r, n)

DocumentsAdvance(r) ==
    \/ AllocateCode(r) \/ StoreObject(r) \/ CommitDocument(r)
    \/ RemoveRow(r) \/ DeleteObject(r)
-----------------------------------------------------------------------------
\* What is downloaded for a document are its own bytes or nothing: whatever
\* uploads of the same name, rolled back or not, removals and reuses of its
\* code went on, its key never holds another upload.
ObjectIsOwn ==
    \A n \in Codes : Exists(n) => object[KeyOf(n, document[n])] \in {0, document[n].id}

\* No file outlives its document, unless a handler failed between the row and
\* the object: an object nobody's row names is about to get one, is about to
\* be deleted, or was abandoned.
OrphansWereAbandoned ==
    \A key \in Keys : object[key] # 0 =>
       \/ Exists(key[1]) /\ document[key[1]].file = key[2]
       \/ \E r \in Requests : key \in HeldKeys(r)
       \/ key \in abandoned
=============================================================================
