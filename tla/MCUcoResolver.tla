----------------------------- MODULE MCUcoResolver -----------------------------
(***************************************************************************)
(* Small instances of the resolver for TLC.                                *)
(***************************************************************************)
EXTENDS UcoResolverProperties, TLC

CONSTANTS n1, n2, n3, s1, s2, l1, l2

Row(from, to, matchType, confidence) ==
    [from |-> from, to |-> to, matchType |-> matchType, confidence |-> confidence]

Base(cipToNaics, cipToSoc, ofS1, licensed) ==
    [cipToNaics |-> cipToNaics, cipToSoc |-> cipToSoc,
     socToNaics |-> s1 :> ofS1 @@ s2 :> <<>>, licensed |-> licensed]

CipToNaics == {<<>>, <<Row(Cip, n1, "direct", 100)>>,
               <<Row(Cip, n1, "crosswalk", 50), Row(Cip, n3, "direct", 80)>>}
CipToSoc   == {<<>>, <<Row(Cip, s2, "crosswalk", 70)>>}
SocToNaics == {<<>>, <<Row(s1, n1, "inferred", 90), Row(s1, n3, "crosswalk", 40)>>}

\* Every combination of what the database and the three files relate.
RankWorlds ==
    { [db |-> Base(naics, soc, ofS1, licensed),
       files |-> [cipToNaics |-> a, cipToSoc |-> b, socToNaics |-> c]] :
          naics \in {<<>>, <<n1>>, <<n2, n2>>}, soc \in {<<>>, <<s1>>},
          ofS1 \in {<<>>, <<n2>>, <<n2, n1>>}, licensed \in BOOLEAN,
          a \in CipToNaics, b \in CipToSoc, c \in SocToNaics }

\* All three files, two of them, one that is empty.
LoadWorlds ==
    { [db |-> Base(<<n1>>, <<s1>>, <<n2>>, TRUE), files |-> files] :
          files \in {[cipToNaics |-> <<Row(Cip, n3, "direct", 80)>>,
                      cipToSoc   |-> <<Row(Cip, s2, "crosswalk", 70)>>,
                      socToNaics |-> <<Row(s2, n1, "inferred", 90)>>],
                     [cipToNaics |-> <<Row(Cip, n3, "direct", 80)>>, cipToSoc |-> <<>>]} }

AllWorlds == RankWorlds \cup LoadWorlds

Industries == {n1, n2, n3}
Occupations == {s1, s2}

TwoLookups == {l1, l2}

Symmetry == Permutations(TwoLookups)

================================================================================
