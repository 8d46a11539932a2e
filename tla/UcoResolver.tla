------------------------------ MODULE UcoResolver ------------------------------
(***************************************************************************)
(* The resolver of packages/uco-resolver/src (resolver.ts): the first      *)
(* lookups load the crosswalk files into an index, each on its own if they *)
(* come together, and the index is frozen by the first of them that is     *)
(* done; then a lookup asks the database and the index.                    *)
(***************************************************************************)
EXTENDS Traversal

CONSTANTS
    Naics, Soc,     \* the codes of industries and of occupations
    Lookups,        \* the calls of lookupLicensure, each made once
    Worlds,         \* what the database and the files may hold
    Faults,         \* whether files and queries may fail
    NoAnswer

\* A row of a crosswalk leads to a code of its kind.
IsRow(row, codes) ==
    /\ row.to \in codes /\ row.confidence \in 0 .. 100
    /\ row.matchType \in {"direct", "crosswalk", "inferred"}

ASSUME UcoResolverAssumption ==
    /\ Faults \in BOOLEAN
    /\ {CrosswalkWeight, InferredWeight} \subseteq 1 .. 100
    /\ \A w \in Worlds :
          /\ w.db.cipToNaics \in Seq(Naics) /\ w.db.cipToSoc \in Seq(Soc)
          /\ w.db.socToNaics \in [Soc -> Seq(Naics)]
          /\ DOMAIN w.files \subseteq Crosswalks
          /\ \A crosswalk \in DOMAIN w.files :
                LET rows == w.files[crosswalk] IN
                /\ rows \in Seq(ToSet(rows))
                /\ \A row \in ToSet(rows) : IsRow(row, IF crosswalk = "cipToSoc" THEN Soc ELSE Naics)

VARIABLES
    world,          \* the database, and the rows of the files by crosswalk
    initialized,
    frozen, index,  \* CrosswalkIndex
    stage,          \* the lookups
    loading,        \* lookup -> the files it is still reading
    rejected,       \* lookup -> the Promise.all of its initialize() has rejected
    answer,         \* lookup -> its ranked paths: resolveLicensurePath() returns the first
    faults          \* history: a file could not be read

resolverVars == <<world, initialized, frozen, index, stage, loading, rejected, answer, faults>>

ResolverInit ==
    /\ world \in Worlds
    /\ initialized = FALSE
    /\ frozen = FALSE
    /\ index = [crosswalk \in Crosswalks |-> <<>>]
    /\ stage = [l \in Lookups |-> "idle"]
    /\ loading = [l \in Lookups |-> {}]
    /\ rejected = [l \in Lookups |-> FALSE]
    /\ answer = [l \in Lookups |-> NoAnswer]
    /\ faults = FALSE

Enter(l, label) == stage' = [stage EXCEPT ![l] = label]

Configured == DOMAIN world.files

-------------------------------------------------------------------------------
(* initialize().                                                           *)

\* Nothing marks a load that is under way: the next lookup loads once more.
Start(l) ==
    /\ stage[l] = "idle"
    /\ IF initialized
       THEN Enter(l, "ready") /\ UNCHANGED loading
       ELSE Enter(l, "loading") /\ loading' = [loading EXCEPT ![l] = Configured]
    /\ UNCHANGED <<world, initialized, frozen, index, rejected, answer, faults>>

\* A file of l has been read, or could not be.
Ends(l, crosswalk) ==
    /\ crosswalk \in loading[l]
    /\ loading' = [loading EXCEPT ![l] = @ \ {crosswalk}]
    /\ UNCHANGED <<world, initialized, frozen, stage, answer>>

(***************************************************************************)
(* The rows are added, or the first of them throws because the index is    *)
(* frozen.  A load goes on after another file of the same call failed.     *)
(***************************************************************************)
Loaded(l, crosswalk) ==
    /\ Ends(l, crosswalk)
    /\ IF frozen /\ world.files[crosswalk] # <<>>
       THEN rejected' = [rejected EXCEPT ![l] = TRUE] /\ UNCHANGED index
       ELSE index' = [index EXCEPT ![crosswalk] = @ \o world.files[crosswalk]] /\ UNCHANGED rejected
    /\ UNCHANGED faults

\* The file cannot be read, or validateCrosswalk() finds an error.
LoadFails(l, crosswalk) ==
    /\ Faults
    /\ Ends(l, crosswalk)
    /\ rejected' = [rejected EXCEPT ![l] = TRUE]
    /\ faults' = TRUE
    /\ UNCHANGED index

\* Promise.all rejects with the first error, whatever else is being read.
Reject(l) ==
    /\ stage[l] = "loading"
    /\ rejected[l]
    /\ Enter(l, "failed")
    /\ UNCHANGED <<world, initialized, frozen, index, loading, rejected, answer, faults>>

\* Mutant: it does not wait for the slowest file.
InitializedEarly(l) ==
    /\ stage[l] = "loading"
    /\ loading[l] # Configured /\ ~ rejected[l]
    /\ frozen' = TRUE
    /\ initialized' = TRUE
    /\ Enter(l, "ready")
    /\ UNCHANGED <<world, index, loading, rejected, answer, faults>>

Initialized(l) ==
    /\ stage[l] = "loading"
    /\ loading[l] = {} /\ ~ rejected[l]
    /\ frozen' = TRUE
    /\ initialized' = TRUE
    /\ Enter(l, "ready")
    /\ UNCHANGED <<world, index, loading, rejected, answer, faults>>

-------------------------------------------------------------------------------
(* lookupLicensure() after that: the database answers, or _safe() puts the *)
(* error into the result.  Its queries are one step: the rows it reads do  *)
(* not change, and the index is frozen.                                    *)

AnswerLookup(l) ==
    /\ stage[l] = "ready"
    /\ answer' = [answer EXCEPT ![l] = TraverseToLicensure(world.db, index)]
    /\ Enter(l, "done")
    /\ UNCHANGED <<world, initialized, frozen, index, loading, rejected, faults>>

AnswerWithErrors(l) ==
    /\ Faults
    /\ stage[l] = "ready"
    /\ Enter(l, "done")
    /\ UNCHANGED <<world, initialized, frozen, index, loading, rejected, answer, faults>>

Read(l) == \E crosswalk \in Configured : Loaded(l, crosswalk) \/ LoadFails(l, crosswalk)

Continue(l) == Reject(l) \/ Initialized(l) \/ AnswerLookup(l) \/ AnswerWithErrors(l)

ResolverNext == \E l \in Lookups : Start(l) \/ Read(l) \/ Continue(l)

ResolverSpec == ResolverInit /\ [][ResolverNext]_resolverVars

================================================================================
