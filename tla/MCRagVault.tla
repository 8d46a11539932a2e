------------------------------ MODULE MCRagVault ------------------------------
(***************************************************************************)
(* Small instances of the vault for TLC.                                   *)
(***************************************************************************)
EXTENDS RagVaultProperties, TLC

CONSTANTS c1, c2, c3, c4, d1, d2

FourCalls == {c1, c2, c3, c4}
Documents == {d1, d2}
Sectors == {"general", "healthcare", "finance", "education", "government", "energy"}

Symmetry == Permutations(FourCalls)

Doc(id, level, tags) == [id |-> id, level |-> level, tags |-> tags]

Addition(doc, partition)  == [op |-> "add", doc |-> doc, partition |-> partition]
Removal(id, partition)    == [op |-> "remove", id |-> id, partition |-> partition]
Move(id, partition, other) ==
    [op |-> "updatePartition", id |-> id, partition |-> partition, newPartition |-> other]

\* A document with a level of its own, one without, and a partition that is none.
Changes ==
    { Addition(Doc(d1, "internal", {}), "general"), Addition(Doc(d1, "internal", {}), "healthcare_phi"),
      Addition(Doc(d2, None, {"finance"}), "financial_pii"), Addition(Doc(d1, None, {}), "archive"),
      Removal(d1, "general"), Move(d1, "general", "healthcare_phi"),
      Move(d1, "healthcare_phi", "general"), Move(d2, "financial_pii", "archive") }

Query(partition, sector, level, filters) ==
    [partition |-> partition, sector |-> sector, level |-> level, filters |-> filters,
     maxResults |-> 2, maxDepth |-> 1, embedded |-> partition = None]

NoFilter == [key \in {} |-> None]

Retrievals ==
    { [op |-> "retrieve", query |-> query] : query \in
        { Query(None, "government", "internal", NoFilter),
          Query("general", None, "internal", [complianceLevel |-> "restricted"]),
          Query("archive", None, None, NoFilter),
          [Query(None, "unknown", None, [depth |-> 2]) EXCEPT !.maxResults = None, !.embedded = FALSE],
          Query(None, "energy", "regulated", [sectors |-> {"finance"}, partition |-> "financial_pii"]) } }

AllInputs == Changes \cup Retrievals

================================================================================
