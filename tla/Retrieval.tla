------------------------------- MODULE Retrieval -------------------------------
(***************************************************************************)
(* The retrieval pipeline of packages/rag-vault/src: the partition of a    *)
(* query (partition.ts), the search that stands in for the vector table    *)
(* and the steps after it (retrieval.ts, sector.ts, rag-vault.ts).         *)
(* Similarities and scores are in hundredths.                              *)
(***************************************************************************)
EXTENDS SequencesExt, Integers

CONSTANTS
    MaxResults,     \* maxResults of the configuration
    Threshold,      \* similarityThreshold of the configuration
    None

ASSUME RetrievalAssumption == MaxResults \in Nat /\ Threshold \in 0 .. 100

Partition(id, sectors, level) == [id |-> id, sectors |-> sectors, level |-> level]

DefaultPartitions ==
    << Partition("general", {"general"}, "public"),
       Partition("healthcare_phi", {"healthcare"}, "regulated"),
       Partition("financial_pii", {"finance"}, "regulated"),
       Partition("education_records", {"education"}, "confidential"),
       Partition("regulatory_compliance", {"government", "general"}, "restricted"),
       Partition("operational_security", {"government", "energy"}, "confidential") >>

Partitions == ToSet(DefaultPartitions)

Known(id) == \E p \in Partitions : p.id = id

GetPartition(id) == CHOOSE p \in Partitions : p.id = id

ComplianceOrder == <<"public", "internal", "restricted", "confidential", "regulated">>

\* Array.indexOf: -1 for a level that is none.
IndexOf(level) ==
    IF level \in ToSet(ComplianceOrder)
    THEN (CHOOSE i \in DOMAIN ComplianceOrder : ComplianceOrder[i] = level) - 1
    ELSE -1

\* The partition of the sector with the highest level; the sort is stable.
MostSpecific(sector) ==
    LET serving == SelectSeq(DefaultPartitions, LAMBDA p : sector \in p.sectors)
    IN  serving[CHOOSE i \in DOMAIN serving :
                    \A j \in DOMAIN serving :
                        /\ IndexOf(serving[j].level) <= IndexOf(serving[i].level)
                        /\ j < i => IndexOf(serving[j].level) < IndexOf(serving[i].level)]

GetPartitionForQuery(query) ==
    IF query.partition # None THEN GetPartition(query.partition)
    ELSE IF \E p \in Partitions : query.sector \in p.sectors THEN MostSpecific(query.sector)
    ELSE GetPartition("general")

-------------------------------------------------------------------------------
(* search().                                                               *)

\* The filters of the query come last and replace those of retrieve().
Filters(query, key) ==
    IF key \in DOMAIN query.filters THEN query.filters[key]
    ELSE IF key = "partition" THEN GetPartitionForQuery(query).id
    ELSE IF key = "complianceLevel" THEN query.level
    ELSE None

OrElse(value, default) == IF value = None THEN default ELSE value

\* simulatedSearch() makes a document of what was asked for.
ToRankedDocument(query, i) ==
    [id        |-> <<OrElse(Filters(query, "partition"), "general"), i>>,
     partition |-> OrElse(Filters(query, "partition"), "general"),
     tags      |-> OrElse(Filters(query, "sectors"), {"general"}),
     level     |-> OrElse(Filters(query, "complianceLevel"), "public"),
     depth     |-> OrElse(Filters(query, "depth"), 0),
     score     |-> 90 - 2 * i]

\* Array.prototype.filter: the documents of a set, in their order.
Keep(documents, kept) ==
    FoldLeft(LAMBDA acc, document : IF document \in kept THEN Append(acc, document) ELSE acc,
             <<>>, documents)

Search(query, limit) ==
    LET simulated == [i \in 1 .. limit |-> ToRankedDocument(query, i - 1)]
    IN  Keep(simulated, { document \in ToSet(simulated) : document.score >= Threshold })

-------------------------------------------------------------------------------
(* What retrieve() does with the results.                                  *)

SectorFilter(documents, sector) ==
    Keep(documents, { document \in ToSet(documents) :
                          document.tags = {} \/ {sector, "general"} \cap document.tags # {} })

\* Mutant: off by one.
FilterBelow(documents, level) ==
    Keep(documents, { document \in ToSet(documents) :
                          IndexOf(document.level) <= IndexOf(level) + 1 })

FilterByCompliance(documents, level) ==
    Keep(documents, { document \in ToSet(documents) : IndexOf(document.level) <= IndexOf(level) })

\* The composite score grows with the similarity; the sort is stable.
Rank(documents) ==
    FoldLeft(LAMBDA acc, x :
                 InsertAt(acc, 1 + Cardinality({ i \in DOMAIN acc : acc[i].score >= x.score }), x),
             <<>>, documents)

Deduplicate(documents) ==
    FoldLeft(LAMBDA unique, document :
                 IF \E i \in DOMAIN unique : unique[i].id = document.id
                 THEN unique ELSE Append(unique, document),
             <<>>, documents)

Limit(documents, max) == SubSeq(documents, 1, IF max < Len(documents) THEN max ELSE Len(documents))

LimitByDepth(documents, maxDepth) ==
    Keep(documents, { document \in ToSet(documents) : document.depth <= maxDepth })

\* A sector, a level and a maxDepth (0 among them) that is not given is not looked at.
Retrieve(query) ==
    LET max      == OrElse(query.maxResults, MaxResults)
        found    == Search(query, max * 2)
        inSector == IF query.sector = None THEN found ELSE SectorFilter(found, query.sector)
        allowed  == IF query.level = None THEN inSector
                    ELSE FilterByCompliance(inSector, query.level)
        limited  == Limit(Deduplicate(Rank(allowed)), max)
    IN  IF query.maxDepth \in {None, 0} THEN limited ELSE LimitByDepth(limited, query.maxDepth)

================================================================================
