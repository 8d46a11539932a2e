--------------------------- MODULE RagVaultProperties ---------------------------
(***************************************************************************)
(* What makes the vault trustworthy, over the specification RagVault.      *)
(***************************************************************************)
EXTENDS RagVault

\* Entry n of the log is the last one about a document.
LastAbout(id, n) ==
    /\ n \in DOMAIN auditLog /\ auditLog[n].id = id
    /\ \A m \in DOMAIN auditLog : auditLog[m].id = id => m <= n

(***************************************************************************)
(* addDocument(), removeDocument(), updatePartition(): however calls       *)
(* overtake each other at their embeddings, the audit log is the history   *)
(* of the vault: a document is there exactly if its last entry did not     *)
(* remove it, in the partition that entry names.                           *)
(***************************************************************************)
LogReplays ==
    \A id \in Ids :
        \/ documents[id] = None /\ \A n \in DOMAIN auditLog : auditLog[n].id # id
        \/ \E n \in DOMAIN auditLog :
              /\ LastAbout(id, n)
              /\ IF auditLog[n].action = "remove" THEN documents[id] = None
                 ELSE IsIn(id, auditLog[n].partition)

(***************************************************************************)
(* A document has the compliance level of the partition it is in, unless   *)
(* its author gave it one and nobody has moved it since, also when it is   *)
(* added again, in another partition, while a call moves it.               *)
(***************************************************************************)
LevelFits ==
    \A id \in Ids : documents[id] # None =>
        \/ documents[id].level = GetPartition(documents[id].partition).level
        \/ /\ \E n \in DOMAIN auditLog : LastAbout(id, n) /\ auditLog[n].action = "add"
           /\ \E c \in Calls : /\ At(c, "done") /\ input[c].op = "add"
                               /\ input[c].doc.id = id
                               /\ input[c].doc.level = documents[id].level

Distinct(found) == \A i, j \in DOMAIN found : i # j => found[i].id # found[j].id

\* A document that may be among the results of a query.
Suits(document, query) ==
    /\ query.level # None => IndexOf(document.level) <= IndexOf(query.level)
    /\ (query.sector # None /\ document.tags # {}) =>
          {query.sector, "general"} \cap document.tags # {}
    /\ query.maxDepth \notin {None, 0} => document.depth <= query.maxDepth

(***************************************************************************)
(* retrieve(): whatever filters the caller adds, and they replace those of *)
(* the search, no document is above the compliance level that was asked    *)
(* for or below the depth, none is of other sectors only, none comes twice *)
(* and none too many.                                                      *)
(***************************************************************************)
ResultsFit ==
    \A c \in Calls : result[c] # None =>
        LET query == input[c].query IN
        /\ Len(result[c]) <= OrElse(query.maxResults, MaxResults)
        /\ Distinct(result[c])
        /\ \A i \in DOMAIN result[c] : Suits(result[c][i], query)

================================================================================
