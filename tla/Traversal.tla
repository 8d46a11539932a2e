------------------------------- MODULE Traversal -------------------------------
(***************************************************************************)
(* The traversal CIP -> SOC -> NAICS of packages/uco-resolver/src          *)
(* (traversal.ts), as functions of the rows of the database and of the     *)
(* crosswalk index.                                                        *)
(*                                                                         *)
(* A confidence is an integer number of units of 10^-8, exactly; a weight  *)
(* and the confidence of a crosswalk row are percentages.                  *)
(***************************************************************************)
EXTENDS Integers, SequencesExt

CONSTANTS
    Cip,                \* the program that is looked up
    CrosswalkWeight,    \* config.crosswalkWeight
    InferredWeight      \* config.inferredWeight; directMatchWeight is 1

\* The crosswalk files, and the three maps of CrosswalkIndex.
Crosswalks == {"cipToNaics", "cipToSoc", "socToNaics"}

Direct == 10 ^ 8

Code(code, confidence) == [code |-> code, confidence |-> confidence]

\* getNaicsForCip and its like of CrosswalkIndex.
Rows(index, crosswalk, from) ==
    FoldLeft(LAMBDA acc, row : IF row.from = from THEN Append(acc, row) ELSE acc, <<>>, index[crosswalk])

Apply(Op(_), s) == [i \in DOMAIN s |-> Op(s[i])]

Has(codes, code) == \E i \in DOMAIN codes : codes[i].code = code

\* Append what is not there: the first mapping of a code stands.
Extend(codes, more) ==
    FoldLeft(LAMBDA acc, x : IF Has(acc, x.code) THEN acc ELSE Append(acc, x), codes, more)

FromCip(direct, rows) ==
    Extend(Apply(LAMBDA code : Code(code, Direct), direct),
           Apply(LAMBDA row : Code(row.to, row.confidence * CrosswalkWeight * 10 ^ 4), rows))

TraverseCipToNaics(db, index) == FromCip(db.cipToNaics, Rows(index, "cipToNaics", Cip))

TraverseCipToSoc(db, index) == FromCip(db.cipToSoc, Rows(index, "cipToSoc", Cip))

\* What the database and the index make of an occupation.
OfTable(db, soc) ==
    Apply(LAMBDA code : Code(code, (soc.confidence \div 100) * CrosswalkWeight), db.socToNaics[soc.code])

OfIndex(index, soc) ==
    Apply(LAMBDA row : Code(row.to, (soc.confidence \div 10 ^ 4) * row.confidence * InferredWeight),
          Rows(index, "socToNaics", soc.code))

\* Mutant: the index is asked only about what the table does not know.
FromSocTable(db, index, naics, soc) ==
    Extend(naics, IF db.socToNaics[soc.code] # <<>> THEN OfTable(db, soc) ELSE OfIndex(index, soc))

FromSoc(db, index, naics, soc) == Extend(Extend(naics, OfTable(db, soc)), OfIndex(index, soc))

TraverseSocToNaics(db, index) ==
    FoldLeft(LAMBDA acc, soc : FromSoc(db, index, acc, soc), <<>>, TraverseCipToSoc(db, index))

\* Mutant: a better mapping moves to the end.
BestOfEachMoving(codes) ==
    FoldLeft(LAMBDA acc, x :
                 IF ~ Has(acc, x.code) THEN Append(acc, x)
                 ELSE LET rest == SelectSeq(acc, LAMBDA y : y.code # x.code)
                          old  == SelectSeq(acc, LAMBDA y : y.code = x.code)[1]
                      IN  Append(rest, IF x.confidence > old.confidence THEN x ELSE old),
             <<>>, codes)

\* The Map of traverseToLicensure(): the better mapping stands in the place of the first.
BestOfEach(codes) ==
    FoldLeft(LAMBDA acc, x :
                 IF ~ Has(acc, x.code) THEN Append(acc, x)
                 ELSE Apply(LAMBDA y : IF y.code = x.code /\ x.confidence > y.confidence
                                       THEN x ELSE y, acc),
             <<>>, codes)

\* Percentages; a path has one NAICS code.
CalculateConfidence(socs, licensed) ==
    50 + 20 + (IF socs # <<>> THEN 10 ELSE 0) + (IF licensed THEN 20 ELSE 0)

CalculateRisk(socs, licensed) ==
    50 + (IF licensed THEN 0 ELSE 30) + (IF socs = <<>> THEN 10 ELSE 0)

IsDirectMatch(index, code) ==
    \E i \in DOMAIN Rows(index, "cipToNaics", Cip) :
        LET row == Rows(index, "cipToNaics", Cip)[i]
        IN  row.to = code /\ row.matchType = "direct"

\* The comparator of rankPaths().
RanksBefore(a, b) ==
    \/ a.direct /\ ~ b.direct
    \/ a.direct = b.direct /\ a.confidence > b.confidence
    \/ a.direct = b.direct /\ a.confidence = b.confidence /\ a.risk < b.risk

\* Array.prototype.sort is stable.
RankPaths(paths) ==
    FoldLeft(LAMBDA acc, x :
                 InsertAt(acc, 1 + Cardinality({ i \in DOMAIN acc : ~ RanksBefore(x, acc[i]) }), x),
             <<>>, paths)

TraverseToLicensure(db, index) ==
    LET socs == TraverseCipToSoc(db, index)
        PathOf(naics) == [naics |-> naics.code, mapping |-> naics.confidence,
                          direct |-> IsDirectMatch(index, naics.code),
                          confidence |-> CalculateConfidence(socs, db.licensed),
                          risk |-> CalculateRisk(socs, db.licensed)]
    IN  RankPaths(Apply(PathOf, BestOfEach(TraverseCipToNaics(db, index)
                                            \o TraverseSocToNaics(db, index))))

================================================================================
