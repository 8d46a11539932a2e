------------------------------- MODULE RagVault -------------------------------
(***************************************************************************)
(* The vault of packages/rag-vault/src (rag-vault.ts): documents in        *)
(* partitions, changed and retrieved by calls of one process that overlap  *)
(* where they wait for an embedding, and the audit log of what they did.   *)
(***************************************************************************)
EXTENDS Retrieval

CONSTANTS
    Calls,          \* the calls, each made once
    Inputs,         \* what they may be
    Ids,            \* the ids of documents
    Tags            \* the sectors a document may be tagged with

Operations == {"add", "remove", "updatePartition", "retrieve"}

\* A document of the vault.
Document == [partition : { p.id : p \in Partitions }, level : ToSet(ComplianceOrder), tags : SUBSET Tags]

\* What a caller can pass; whether there is such a partition is for the vault to check.
ASSUME VaultAssumption ==
    /\ None \notin Ids /\ None \notin Document
    /\ \A p \in Partitions : p.sectors \subseteq Tags
    /\ \A i \in Inputs :
          /\ i.op \in Operations
          /\ i.op = "add" => /\ i.doc.id \in Ids /\ i.doc.tags \subseteq Tags
                             /\ i.doc.level \in ToSet(ComplianceOrder) \cup {None}
          /\ i.op \in {"remove", "updatePartition"} => i.id \in Ids
          /\ i.op = "retrieve" => i.query.maxResults \in Nat \cup {None}

VARIABLES
    documents,      \* id -> the document, or None
    auditLog,
    embedded,       \* the documents of callers that have got an embedding
    provider,       \* the embedding provider: the mock, or the stub, which rejects
    pc, input,      \* the calls
    result          \* what a retrieval returned

vars == <<documents, auditLog, embedded, provider, pc, input, result>>

Init ==
    /\ documents = [id \in Ids |-> None]
    /\ auditLog = <<>>
    /\ embedded = {}
    /\ provider \in {"mock", "openai"}
    /\ pc = [c \in Calls |-> "idle"]
    /\ input = [c \in Calls |-> None]
    /\ result = [c \in Calls |-> None]

At(c, label) == pc[c] = label

Goto(c, label) == pc' = [pc EXCEPT ![c] = label]

Begin(c, i, op) == At(c, "idle") /\ i.op = op /\ input' = [input EXCEPT ![c] = i]

Log(action, id, partition) ==
    auditLog' = Append(auditLog, [action |-> action, id |-> id, partition |-> partition])

IsIn(id, partition) == documents[id] # None /\ documents[id].partition = partition

\* What throws before anything is changed.
Throws(i) ==
    \/ i.op = "add" /\ ~ Known(i.partition)
    \/ i.op \in {"remove", "updatePartition"} /\ ~ IsIn(i.id, i.partition)
    \/ i.op = "updatePartition" /\ ~ Known(i.newPartition)
    \/ i.op = "retrieve" /\ i.query.partition # None /\ ~ Known(i.query.partition)

Rejected(c, i) ==
    /\ Begin(c, i, i.op)
    /\ Throws(i)
    /\ Goto(c, "failed")
    /\ UNCHANGED <<documents, auditLog, embedded, provider, result>>

-------------------------------------------------------------------------------
(* addDocument().                                                          *)

\* The partition gives what the document does not say.
Enriched(doc, partition) ==
    [partition |-> partition.id,
     level     |-> OrElse(doc.level, partition.level),
     tags      |-> IF doc.tags # {} THEN doc.tags ELSE partition.sectors]

Store(c, i) ==
    /\ documents' = [documents EXCEPT ![i.doc.id] = Enriched(i.doc, GetPartition(i.partition))]
    /\ Log("add", i.doc.id, i.partition)
    /\ Goto(c, "done")
    /\ UNCHANGED result

AddEmbedded(c, i) ==
    /\ Begin(c, i, "add")
    /\ ~ Throws(i)
    /\ i.doc \in embedded
    /\ Store(c, i)
    /\ UNCHANGED <<embedded, provider>>

\* Mutant: the entry is made before the embedding.
AddLogged(c, i) ==
    /\ Begin(c, i, "add")
    /\ ~ Throws(i)
    /\ i.doc \notin embedded
    /\ Log("add", i.doc.id, i.partition)
    /\ Goto(c, "embedding")
    /\ UNCHANGED <<documents, embedded, provider, result>>

AddDocument(c, i) ==
    /\ Begin(c, i, "add")
    /\ ~ Throws(i)
    /\ i.doc \notin embedded
    /\ Goto(c, "embedding")
    /\ UNCHANGED <<documents, auditLog, embedded, provider, result>>

-------------------------------------------------------------------------------
(* removeDocument(), updatePartition(): they do not wait.                  *)

RemoveDocument(c, i) ==
    /\ Begin(c, i, "remove")
    /\ ~ Throws(i)
    /\ documents' = [documents EXCEPT ![i.id] = None]
    /\ Log("remove", i.id, i.partition)
    /\ Goto(c, "done")
    /\ UNCHANGED <<embedded, provider, result>>

\* Mutant: the level of the document stays, as in addDocument().
Moved(document, partition) ==
    [document EXCEPT !.partition = partition.id,
                     !.tags = IF @ # {} THEN @ ELSE partition.sectors]

Updated(document, partition) ==
    [document EXCEPT !.partition = partition.id,
                     !.level = partition.level,
                     !.tags = IF @ # {} THEN @ ELSE partition.sectors]

UpdatePartition(c, i) ==
    /\ Begin(c, i, "updatePartition")
    /\ ~ Throws(i)
    /\ documents' = [documents EXCEPT ![i.id] = Updated(@, GetPartition(i.newPartition))]
    /\ Log("update_partition", i.id, i.newPartition)
    /\ Goto(c, "done")
    /\ UNCHANGED <<embedded, provider, result>>

-------------------------------------------------------------------------------
(* retrieve().  An actor is given access to the partition before the check *)
(* of his access, so that it never refuses.                                *)

Answer(c, query) ==
    /\ result' = [result EXCEPT ![c] = Retrieve(query)]
    /\ Log("retrieve", None, GetPartitionForQuery(query).id)
    /\ Goto(c, "done")
    /\ UNCHANGED documents

RetrieveEmbedded(c, i) ==
    /\ Begin(c, i, "retrieve")
    /\ ~ Throws(i)
    /\ i.query.embedded
    /\ Answer(c, i.query)
    /\ UNCHANGED <<embedded, provider>>

RetrieveText(c, i) ==
    /\ Begin(c, i, "retrieve")
    /\ ~ Throws(i)
    /\ ~ i.query.embedded
    /\ Goto(c, "embedding")
    /\ UNCHANGED <<documents, auditLog, embedded, provider, result>>

-------------------------------------------------------------------------------
(* embed().                                                                *)

\* addDocument() keeps the embedding in the object its caller gave it.
DocumentEmbedded(c) ==
    /\ At(c, "embedding") /\ provider = "mock"
    /\ input[c].op = "add"
    /\ embedded' = embedded \cup {input[c].doc}
    /\ Store(c, input[c])
    /\ UNCHANGED <<provider, input>>

QueryEmbedded(c) ==
    /\ At(c, "embedding") /\ provider = "mock"
    /\ input[c].op = "retrieve"
    /\ Answer(c, input[c].query)
    /\ UNCHANGED <<embedded, provider, input>>

EmbedFails(c) ==
    /\ At(c, "embedding") /\ provider = "openai"
    /\ Goto(c, "failed")
    /\ UNCHANGED <<documents, auditLog, embedded, provider, input, result>>

-------------------------------------------------------------------------------

Next ==
    \E c \in Calls :
        \/ \E i \in Inputs :
              \/ Rejected(c, i) \/ AddEmbedded(c, i) \/ AddDocument(c, i)
              \/ RemoveDocument(c, i) \/ UpdatePartition(c, i)
              \/ RetrieveEmbedded(c, i) \/ RetrieveText(c, i)
        \/ DocumentEmbedded(c) \/ QueryEmbedded(c) \/ EmbedFails(c)

Spec == Init /\ [][Next]_vars

================================================================================
