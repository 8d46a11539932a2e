---------------------------- MODULE EvidenceBuilder ----------------------------
(***************************************************************************)
(* An EvidenceBuilder of packages/evidence-fabric/src (evidence.ts) with   *)
(* the signer that createSigner() (factory.ts) gives it: one that asks     *)
(* Vault (vault-transit.ts), or LocalSigner.  createEvidenceAsync() writes *)
(* the fields of the builder, has the payload made of them signed, and     *)
(* makes the record of the fields that are there after the await.          *)
(*                                                                         *)
(* Vault is external: a key with versions, each signature under the latest *)
(* of its time.                                                            *)
(***************************************************************************)
EXTENDS LocalSigner, FiniteSets

CONSTANTS
    Calls,          \* the calls of createEvidence and createEvidenceAsync, each for a request of its own
    MaxVersion,     \* versions of the key in Vault at most
    MaxSettings     \* calls of setTimestamp, and of setMetadata, of one builder at most

ASSUME EvidenceBuilderAssumption ==
    /\ MaxVersion \in Nat \ {0}
    /\ MaxSettings \in Nat
    /\ None \notin Calls
    /\ None \notin [requestId : Calls, timestamp : Nat, metadata : Nat]
    /\ None \notin [signed : [requestId : Calls, timestamp : Nat], key : Nat]

VARIABLES
    mode,           \* config.mode
    builder,        \* its fields; decision and context go with requestId
    pc, payload,    \* the calls, and what each has sent
    signature,      \* call -> the bytes that were signed and the key
    published,      \* call -> the public key that goes out with the signature
    records,        \* the evidence that was returned
    version,        \* Vault's latest version of the key
    disturbed       \* history: the calls that cannot count on their evidence

calls == <<pc, payload, signature, published>>
builderVars == <<builder, calls, records, disturbed>>
vars == <<mode, builderVars, version, signerVars>>

NewFields == [requestId |-> None, timestamp |-> 0, metadata |-> 0, built |-> FALSE]

Init ==
    /\ SignerInit
    /\ mode \in {"vault", "local"}
    /\ builder = NewFields
    /\ pc = [c \in Calls |-> "idle"]
    /\ payload = [c \in Calls |-> None]
    /\ signature = [c \in Calls |-> None]
    /\ published = [c \in Calls |-> None]
    /\ records = {}
    /\ version = 1
    /\ disturbed = {}

At(c, label) == pc[c] = label
Goto(c, label) == pc' = [pc EXCEPT ![c] = label]

Pending == { c \in Calls : pc[c] \in {"signing", "reading", "assembling"} }

\* Neither the constructor nor rotateKeys() ever yields to the calls of its process.
Running == mode = "vault" \/ phase = "up"

BuildPayload(b) == [requestId |-> b.requestId, timestamp |-> b.timestamp, metadata |-> b.metadata]

\* JSON.stringify() with the keys of the payload as its filter leaves out every
\* key below the first level: all that context and metadata hold.
Canonical(p) == [requestId |-> p.requestId, timestamp |-> p.timestamp]

-------------------------------------------------------------------------------
(* The builder.                                                            *)

SetTimestamp ==
    /\ Running
    /\ builder.timestamp < MaxSettings
    /\ builder' = [builder EXCEPT !.timestamp = @ + 1]
    /\ disturbed' = disturbed \cup Pending
    /\ UNCHANGED <<mode, calls, records, version, signerVars>>

SetMetadata ==
    /\ Running
    /\ builder.metadata < MaxSettings
    /\ builder' = [builder EXCEPT !.metadata = @ + 1]
    /\ UNCHANGED <<mode, calls, records, disturbed, version, signerVars>>

NewBuilder ==
    /\ Running /\ Pending = {} /\ builder # NewFields
    /\ builder' = NewFields
    /\ UNCHANGED <<mode, calls, records, disturbed, version, signerVars>>

\* The fields are written before build() and buildAsync() look at built.
Refused(c) ==
    /\ Running
    /\ At(c, "idle") /\ builder.built
    /\ builder' = [builder EXCEPT !.requestId = c]
    /\ Goto(c, "failed")
    /\ disturbed' = disturbed \cup Pending
    /\ UNCHANGED <<mode, payload, signature, published, records, version, signerVars>>

\* sign() of LocalSigner returns at once: the signature of one key and the other key.
SignsLocally(c, p) ==
    /\ signature' = [signature EXCEPT ![c] = [signed |-> Canonical(p), key |-> secretKey]]
    /\ published' = [published EXCEPT ![c] = publicKey]

Doubtful(c) == IF mode = "local" /\ interrupted THEN {c} ELSE {}

\* Mutant: the payload is made before the fields are written.
CreateStale(c) ==
    /\ Running
    /\ At(c, "idle") /\ ~ builder.built
    /\ builder' = [builder EXCEPT !.requestId = c]
    /\ payload' = [payload EXCEPT ![c] = BuildPayload(builder)]
    /\ IF mode = "local"
       THEN SignsLocally(c, BuildPayload(builder)) /\ Goto(c, "assembling")
       ELSE Goto(c, "signing") /\ UNCHANGED <<signature, published>>
    /\ disturbed' = disturbed \cup Pending \cup Doubtful(c) \cup (IF Pending = {} THEN {} ELSE {c})
    /\ UNCHANGED <<mode, records, version, signerVars>>

CreateEvidenceAsync(c) ==
    /\ Running
    /\ At(c, "idle") /\ ~ builder.built
    /\ builder' = [builder EXCEPT !.requestId = c]
    /\ payload' = [payload EXCEPT ![c] = BuildPayload(builder')]
    /\ IF mode = "local"
       THEN SignsLocally(c, BuildPayload(builder')) /\ Goto(c, "assembling")
       ELSE Goto(c, "signing") /\ UNCHANGED <<signature, published>>
    /\ disturbed' = disturbed \cup Pending \cup Doubtful(c) \cup (IF Pending = {} THEN {} ELSE {c})
    /\ UNCHANGED <<mode, records, version, signerVars>>

\* createEvidenceHash(): of every field, the hash itself among them.
CreateEvidenceHash(evidence) == <<"sha256", evidence>>

Evidence(b, signed, key) ==
    [requestId |-> b.requestId, timestamp |-> b.timestamp, metadata |-> b.metadata,
     signature |-> signed, signerPublicKey |-> key, hash |-> None]

AssembleEvidence(b, signed, key) ==
    [Evidence(b, signed, key) EXCEPT !.hash = CreateEvidenceHash(Evidence(b, signed, key))]

\* The record, and what the reader should know of it.
Returns(c, evidence) ==
    records' = records \cup {[call |-> c, evidence |-> evidence, latest |-> version]}

\* buildAsync() after the await; it does not look at built again.
Assemble(c) ==
    /\ Running
    /\ At(c, "assembling")
    /\ Returns(c, AssembleEvidence(builder, signature[c], published[c]))
    /\ builder' = [builder EXCEPT !.built = TRUE]
    /\ Goto(c, "done")
    /\ UNCHANGED <<mode, payload, signature, published, disturbed, version, signerVars>>

\* createEvidence(), which only LocalSigner serves, in one go.
CreateEvidence(c) ==
    /\ mode = "local" /\ Running
    /\ At(c, "idle") /\ ~ builder.built
    /\ builder' = [builder EXCEPT !.requestId = c, !.built = TRUE]
    /\ payload' = [payload EXCEPT ![c] = BuildPayload(builder')]
    /\ SignsLocally(c, BuildPayload(builder'))
    /\ Returns(c, AssembleEvidence(builder', signature'[c], published'[c]))
    /\ Goto(c, "done")
    /\ disturbed' = disturbed \cup Pending \cup Doubtful(c)
    /\ UNCHANGED <<mode, version, signerVars>>

-------------------------------------------------------------------------------
(* VaultTransitSigner.sign(): the signature, and then the latest key.      *)

VaultSigns(c) ==
    /\ At(c, "signing")
    /\ signature' = [signature EXCEPT ![c] = [signed |-> Canonical(payload[c]), key |-> version]]
    /\ Goto(c, "reading")
    /\ UNCHANGED <<mode, builder, payload, published, records, disturbed, version, signerVars>>

\* Mutant: getPublicKey() takes the first key it finds.
ReadFirstKey(c) ==
    /\ At(c, "reading")
    /\ published' = [published EXCEPT ![c] = 1]
    /\ Goto(c, "assembling")
    /\ UNCHANGED <<mode, builder, payload, signature, records, disturbed, version, signerVars>>

GetPublicKey(c) ==
    /\ At(c, "reading")
    /\ published' = [published EXCEPT ![c] = version]
    /\ Goto(c, "assembling")
    /\ UNCHANGED <<mode, builder, payload, signature, records, disturbed, version, signerVars>>

\* Vault does not answer, or not with what was asked: the builder stays as it is.
VaultFails(c) ==
    /\ pc[c] \in {"signing", "reading"}
    /\ Goto(c, "failed")
    /\ UNCHANGED <<mode, builder, payload, signature, published, records, disturbed, version, signerVars>>

\* rotateKey(), by this process or another.
RotateKey ==
    /\ mode = "vault"
    /\ version < MaxVersion
    /\ version' = version + 1
    /\ UNCHANGED <<mode, builderVars, signerVars>>

-------------------------------------------------------------------------------
(* What a reader of the evidence has: verify() of the two signers.         *)

\* Under the key in the record, all that a reader without Vault has.
UnderPublished(evidence) ==
    /\ evidence.signature.signed = Canonical(BuildPayload(evidence))
    /\ evidence.signature.key = evidence.signerPublicKey

\* By the version the signature names; the published key is not asked for.
VaultVerifies(evidence) ==
    /\ evidence.signature.signed = Canonical(BuildPayload(evidence))
    /\ evidence.signature.key \in 1 .. version

Verifies(evidence) == IF mode = "vault" THEN VaultVerifies(evidence) ELSE UnderPublished(evidence)

-------------------------------------------------------------------------------

\* The process ends, and its calls with it; the next one has a new builder.
Crash ==
    /\ IF mode = "local" THEN SignerCrash ELSE UNCHANGED signerVars
    /\ builder' = NewFields
    /\ pc' = [c \in Calls |-> IF c \in Pending THEN "failed" ELSE pc[c]]
    /\ UNCHANGED <<mode, payload, signature, published, records, disturbed, version>>

SignerStep == mode = "local" /\ SignerNext /\ UNCHANGED <<mode, builderVars, version>>

Next ==
    \/ SetTimestamp \/ SetMetadata \/ NewBuilder
    \/ RotateKey \/ SignerStep \/ Crash
    \/ \E c \in Calls :
          \/ CreateEvidenceAsync(c) \/ Refused(c) \/ Assemble(c) \/ CreateEvidence(c)
          \/ VaultSigns(c) \/ GetPublicKey(c) \/ VaultFails(c)

Spec == Init /\ [][Next]_vars

================================================================================
