------------------------- MODULE UcoResolverProperties -------------------------
(***************************************************************************)
(* What makes the resolver correct, over the specification UcoResolver.    *)
(***************************************************************************)
EXTENDS UcoResolver

Ranked(l) == answer[l] # NoAnswer

\* Reference definitions: what the files and the database relate.
Files(crosswalk) == IF crosswalk \in Configured THEN ToSet(world.files[crosswalk]) ELSE {}

Related(crosswalk, from) == { row.to : row \in { x \in Files(crosswalk) : x.from = from } }

NaicsOfCip == ToSet(world.db.cipToNaics) \cup Related("cipToNaics", Cip)
SocOfCip   == ToSet(world.db.cipToSoc) \cup Related("cipToSoc", Cip)
NaicsOfSoc == UNION { ToSet(world.db.socToNaics[soc]) \cup Related("socToNaics", soc) : soc \in SocOfCip }

(***************************************************************************)
(* lookupLicensure(): however many lookups loaded the files, in part or    *)
(* more than once, and whichever of them failed, an answer has each NAICS  *)
(* code the database and the files relate to the program exactly once.     *)
(***************************************************************************)
AnswersComplete ==
    \A l \in Lookups : Ranked(l) =>
        /\ { answer[l][i].naics : i \in DOMAIN answer[l] } = NaicsOfCip \cup NaicsOfSoc
        /\ Len(answer[l]) = Cardinality(NaicsOfCip \cup NaicsOfSoc)

(***************************************************************************)
(* docs/COS_UDM_Review_Expansion_Report.md:22, rankPaths(): a code that is *)
(* mapped from the program itself ranks before one reached by occupations  *)
(* only, although isDirectMatch() knows nothing of the database, because   *)
(* the Map keeps the order of its keys and the sort is stable.             *)
(***************************************************************************)
DirectFirst ==
    \A l \in Lookups : Ranked(l) =>
        \A i, j \in DOMAIN answer[l] :
            answer[l][i].naics \in NaicsOfCip /\ answer[l][j].naics \notin NaicsOfCip => i < j

================================================================================
