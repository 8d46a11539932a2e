-------------------------- MODULE EvidenceBuilderProofs --------------------------
(***************************************************************************)
(* Proofs about EvidenceBuilder and the LocalSigner it extends, for every  *)
(* number of calls, keys, versions and settings, with and without faults.  *)
(***************************************************************************)
EXTENDS EvidenceBuilderProperties, TLAPS

Phases == {"down", "loading", "up", "archivePublic", "rotate",
           "savePrivate", "writePrivate", "savePublic", "writePublic"}

Labels == {"idle", "signing", "reading", "assembling", "done", "failed"}

Payload == [requestId : Calls, timestamp : Nat, metadata : Nat]

Signature == [signed : [requestId : Calls, timestamp : Nat], key : Nat]

\* Every variable that the proofs read keeps its type.
SignerTypeOK ==
    /\ privateFile \in Nat \cup {None} /\ publicFile \in Nat \cup {None}
    /\ secretKey \in Nat \cup {None} /\ publicKey \in Nat \cup {None}
    /\ phase \in Phases
    /\ started \in BOOLEAN /\ interrupted \in BOOLEAN
    /\ generated \in Nat

TypeOK ==
    /\ SignerTypeOK
    /\ mode \in {"vault", "local"}
    /\ version \in Nat \ {0}
    /\ builder \in [requestId : Calls \cup {None}, timestamp : Nat, metadata : Nat, built : BOOLEAN]
    /\ pc \in [Calls -> Labels]
    /\ payload \in [Calls -> Payload \cup {None}]
    /\ signature \in [Calls -> Signature \cup {None}]
    /\ published \in [Calls -> Nat \cup {None}]

-------------------------------------------------------------------------------
(* The key files.                                                          *)

Signed == { signature[c].key : c \in { k \in Calls : signature[k] # None } }

Kept == archivedPrivate \cup unsaved

HalfSaved == phase \in {"writePrivate", "savePublic", "writePublic"}

(***************************************************************************)
(* A pair stays a pair: both keys of a process that generated them are     *)
(* equal, the files are equal unless a save of both is under way or was    *)
(* interrupted, and a process that loads them takes over what they hold.   *)
(***************************************************************************)
PairsMatch ==
    /\ Saving => secretKey = publicKey /\ secretKey \in Nat
    /\ phase \in {"savePublic", "writePublic"} => privateFile = secretKey
    /\ phase = "loading" => secretKey = privateFile /\ BothExist
    /\ phase \in {"up", "archivePublic", "rotate"} =>
          secretKey \in Nat /\ publicKey \in Nat /\ (~ interrupted => secretKey = publicKey)
    /\ ~ interrupted /\ ~ HalfSaved => privateFile = publicFile

\* What is up has started, and what has started finds its files.
FilesExist ==
    /\ privateFile = None => publicFile = None
    /\ phase \in {"writePrivate", "savePublic", "writePublic"} => privateFile # None
    /\ started => publicFile # None
    /\ phase \in {"up", "archivePublic", "rotate"} => started
    /\ phase \in {"down", "loading"} => ~ started

(***************************************************************************)
(* Where a key that signed is: before it is replaced in memory it is in    *)
(* the file, in the archive, or known to be unsaved; before the file is    *)
(* truncated it is not only there.                                         *)
(***************************************************************************)
KeysKept ==
    mode = "local" =>
        /\ publicFile = None => Signed = {}
        /\ phase \in {"down", "loading"} => Signed \subseteq Kept \cup {privateFile}
        /\ phase \in {"up", "archivePublic"} =>
              Signed \subseteq Kept \cup {secretKey} /\ secretKey \in Kept \cup {privateFile}
        /\ phase \in {"archivePublic", "rotate"} => secretKey \in archivedPrivate
        /\ phase = "rotate" \/ Saving => Signed \subseteq Kept

-------------------------------------------------------------------------------
(* The calls.                                                              *)

(***************************************************************************)
(* A call that nobody disturbed has the builder for itself: the fields are *)
(* those it wrote, and what was signed is made of them.                    *)
(***************************************************************************)
Undisturbed(c) ==
    /\ Pending = {c}
    /\ builder.requestId = c /\ builder.timestamp = payload[c].timestamp
    /\ payload[c] # None /\ payload[c].requestId = c
    /\ signature[c] # None => signature[c].signed = Canonical(payload[c])
    /\ pc[c] = "assembling" /\ mode = "local" => signature[c].key = published[c]

CallsFit ==
    \A c \in Pending :
        /\ payload[c] # None
        /\ pc[c] \in {"reading", "assembling"} => signature[c] # None
        /\ mode = "local" => pc[c] = "assembling"
        /\ mode = "vault" /\ pc[c] \in {"reading", "assembling"} => signature[c].key \in 1 .. version
        /\ mode = "vault" /\ pc[c] = "assembling" => published[c] \in signature[c].key .. version
        /\ pc[c] = "signing" => signature[c] = None
        /\ c \notin disturbed => Undisturbed(c)

\* Before a call there is no signature of it.
IdleCalls == \A c \in Calls : pc[c] = "idle" => signature[c] = None

RecordsFit ==
    \A r \in records :
        /\ r.call \notin disturbed =>
              /\ r.evidence.requestId = r.call
              /\ r.evidence.signature.signed = Canonical(BuildPayload(r.evidence))
              /\ mode = "local" => r.evidence.signature.key = r.evidence.signerPublicKey
        /\ mode = "vault" =>
              /\ r.evidence.signature.key \in 1 .. version
              /\ r.evidence.signerPublicKey \in r.evidence.signature.key .. r.latest

IndInv == TypeOK /\ PairsMatch /\ FilesExist /\ KeysKept /\ CallsFit /\ IdleCalls /\ RecordsFit

-------------------------------------------------------------------------------
(* Types.                                                                  *)

LEMMA SignerTypeStep == SignerTypeOK /\ (SignerNext \/ SignerCrash) => SignerTypeOK'
<1> SUFFICES ASSUME SignerTypeOK, SignerNext \/ SignerCrash PROVE SignerTypeOK'
  OBVIOUS
<1> USE DEF SignerTypeOK, Phases, files, memory, history
<1>1. CASE Load \/ Generate
  BY <1>1 DEF Load, Generate, GenerateKeyPair
<1>2. CASE Loaded
  <2>1. started' \in BOOLEAN /\ phase' \in {"down", "up"}
    BY <1>2 DEF Loaded, Starts
  <2>2. QED
    BY <1>2, <2>1 DEF Loaded
<1>3. CASE TruncatePrivate \/ WritePrivate \/ TruncatePublic
  BY <1>3 DEF TruncatePrivate, WritePrivate, TruncatePublic, Empty
<1>4. CASE WritePublic
  BY <1>4 DEF WritePublic, Starts
<1>5. CASE ArchivePrivate \/ ArchivePublic \/ Rotate
  BY <1>5 DEF ArchivePrivate, ArchivePublic, Rotate, GenerateKeyPair
<1>6. CASE WriteFails \/ SignerCrash
  <2>1. interrupted' \in BOOLEAN /\ started' \in BOOLEAN
    BY <1>6 DEF WriteFails, SignerCrash, Interrupts
  <2>2. QED
    BY <1>6, <2>1 DEF WriteFails, SignerCrash
<1>9. QED
  BY <1>1, <1>2, <1>3, <1>4, <1>5, <1>6 DEF SignerNext, Save

Fields == [requestId : Calls \cup {None}, timestamp : Nat, metadata : Nat, built : BOOLEAN]

LEMMA BuilderTypeStep ==
    ASSUME TypeOK, PairsMatch, CallsFit, NEW c \in Calls,
           \/ CreateEvidenceAsync(c) \/ Refused(c) \/ Assemble(c) \/ CreateEvidence(c)
           \/ VaultSigns(c) \/ GetPublicKey(c) \/ VaultFails(c)
    PROVE  TypeOK'
<1> USE DEF TypeOK, Labels, Goto, At
<1>1. UNCHANGED <<signerVars, mode, version>> /\ SignerTypeOK'
  BY DEF CreateEvidenceAsync, Refused, Assemble, CreateEvidence, VaultSigns, GetPublicKey, VaultFails,
         signerVars, files, memory, history, SignerTypeOK
<1>2. CASE Refused(c)
  BY <1>1, <1>2 DEF Refused
<1>3. CASE Assemble(c)
  BY <1>1, <1>3 DEF Assemble
<1>4. CASE VaultSigns(c)
  <2>1. Canonical(payload[c]) \in [requestId : Calls, timestamp : Nat]
    BY <1>4 DEF VaultSigns, CallsFit, Pending, Canonical, Payload
  <2>2. QED
    BY <1>1, <1>4, <2>1 DEF VaultSigns, Signature
<1>5. CASE GetPublicKey(c) \/ VaultFails(c)
  BY <1>1, <1>5 DEF GetPublicKey, VaultFails
<1>6. ASSUME Running, mode = "local", builder' \in Fields, builder'.requestId = c, SignsLocally(c, BuildPayload(builder'))
      PROVE  /\ signature' \in [Calls -> Signature \cup {None}]
             /\ published' \in [Calls -> Nat \cup {None}]
  BY <1>6 DEF Fields, Running, PairsMatch, SignsLocally, Signature, Canonical, BuildPayload
<1>7. CASE CreateEvidenceAsync(c)
  <2>1. builder' \in Fields /\ builder'.requestId = c
    BY <1>7 DEF CreateEvidenceAsync, Fields
  <2>2. BuildPayload(builder') \in Payload
    BY <2>1 DEF BuildPayload, Fields, Payload
  <2>3. /\ signature' \in [Calls -> Signature \cup {None}]
        /\ published' \in [Calls -> Nat \cup {None}]
    BY <2>1, <1>6, <1>7 DEF CreateEvidenceAsync
  <2>4. QED
    BY <1>1, <1>7, <2>1, <2>2, <2>3, ZenonT(30) DEF CreateEvidenceAsync, Fields
<1>8. CASE CreateEvidence(c)
  <2>1. builder' \in Fields /\ builder'.requestId = c
    BY <1>8 DEF CreateEvidence, Fields
  <2>2. BuildPayload(builder') \in Payload
    BY <2>1 DEF BuildPayload, Fields, Payload
  <2>3. /\ signature' \in [Calls -> Signature \cup {None}]
        /\ published' \in [Calls -> Nat \cup {None}]
    BY <2>1, <1>6, <1>8 DEF CreateEvidence
  <2>4. QED
    BY <1>1, <1>8, <2>1, <2>2, <2>3 DEF CreateEvidence, Fields
<1>9. QED
  BY <1>2, <1>3, <1>4, <1>5, <1>7, <1>8

LEMMA TypeStep == TypeOK /\ PairsMatch /\ CallsFit /\ [Next]_vars => TypeOK'
<1> SUFFICES ASSUME TypeOK, PairsMatch, CallsFit, [Next]_vars PROVE TypeOK'
  OBVIOUS
<1> USE DEF TypeOK, calls, builderVars
<1>1. ASSUME UNCHANGED signerVars PROVE SignerTypeOK'
  BY <1>1 DEF signerVars, files, memory, history, SignerTypeOK
<1>2. CASE SetTimestamp \/ SetMetadata
  BY <1>1, <1>2 DEF SetTimestamp, SetMetadata
<1>3. CASE NewBuilder
  BY <1>1, <1>3 DEF NewBuilder, NewFields
<1>4. CASE RotateKey
  BY <1>1, <1>4 DEF RotateKey
<1>5. CASE SignerStep
  BY <1>5, SignerTypeStep DEF SignerStep
<1>6. CASE Crash
  <2>1. SignerTypeOK'
    BY <1>1, <1>6, SignerTypeStep DEF Crash
  <2>2. QED
    BY <2>1, <1>6 DEF Crash, NewFields, Labels
<1>7. CASE UNCHANGED vars
  BY <1>1, <1>7 DEF vars
<1>8. QED
  BY <1>2, <1>3, <1>4, <1>5, <1>6, <1>7, BuilderTypeStep DEF Next

-------------------------------------------------------------------------------
(* The signer: its steps, whatever the builder does.                       *)

LEMMA PairsStep ==
    ASSUME SignerTypeOK, PairsMatch, FilesExist, SignerNext \/ SignerCrash
    PROVE  PairsMatch'
<1> USE DEF SignerTypeOK, PairsMatch, Saving, HalfSaved, FilesExist, BothExist, files, memory, history
<1>1. CASE Load
  BY <1>1 DEF Load, BothExist
<1>2. CASE Loaded
  BY <1>2 DEF Loaded, Starts, BothExist, Empty
<1>3. CASE Generate
  BY <1>3 DEF Generate, GenerateKeyPair, BothExist
<1>4. CASE TruncatePrivate
  BY <1>4 DEF TruncatePrivate, Empty
<1>5. CASE WritePrivate
  BY <1>5 DEF WritePrivate
<1>6. CASE TruncatePublic
  BY <1>6 DEF TruncatePublic, Empty
<1>7. CASE WritePublic
  BY <1>7 DEF WritePublic, Starts
<1>8. CASE ArchivePrivate
  BY <1>8 DEF ArchivePrivate
<1>9. CASE ArchivePublic
  BY <1>9 DEF ArchivePublic
<1>10. CASE Rotate
  BY <1>10 DEF Rotate, GenerateKeyPair
<1>11. CASE WriteFails
  BY <1>11 DEF WriteFails, Interrupts
<1>12. CASE SignerCrash
  BY <1>12 DEF SignerCrash, Interrupts
<1>13. QED
  BY <1>1, <1>2, <1>3, <1>4, <1>5, <1>6, <1>7, <1>8, <1>9, <1>10, <1>11, <1>12 DEF SignerNext, Save

LEMMA FilesStep ==
    ASSUME SignerTypeOK, PairsMatch, FilesExist, SignerNext \/ SignerCrash
    PROVE  FilesExist'
<1> USE LocalSignerAssumption DEF SignerTypeOK, PairsMatch, Saving, HalfSaved, FilesExist, files, memory, history
<1>1. CASE Load
  BY <1>1 DEF Load, BothExist
<1>2. CASE Loaded
  BY <1>2 DEF Loaded, Starts, BothExist, Empty
<1>3. CASE Generate
  BY <1>3 DEF Generate, GenerateKeyPair, BothExist
<1>4. CASE TruncatePrivate
  BY <1>4 DEF TruncatePrivate, Empty
<1>5. CASE WritePrivate
  BY <1>5 DEF WritePrivate
<1>6. CASE TruncatePublic
  BY <1>6 DEF TruncatePublic, Empty
<1>7. CASE WritePublic
  BY <1>7 DEF WritePublic, Starts
<1>8. CASE ArchivePrivate
  BY <1>8 DEF ArchivePrivate
<1>9. CASE ArchivePublic
  BY <1>9 DEF ArchivePublic
<1>10. CASE Rotate
  BY <1>10 DEF Rotate, GenerateKeyPair
<1>11. CASE WriteFails
  BY <1>11 DEF WriteFails, Interrupts
<1>12. CASE SignerCrash
  BY <1>12 DEF SignerCrash, Interrupts
<1>13. QED
  BY <1>1, <1>2, <1>3, <1>4, <1>5, <1>6, <1>7, <1>8, <1>9, <1>10, <1>11, <1>12 DEF SignerNext, Save

LEMMA KeysStep ==
    ASSUME SignerTypeOK, PairsMatch, FilesExist, KeysKept, SignerNext \/ SignerCrash,
           UNCHANGED <<mode, signature>>
    PROVE  KeysKept'
<1> Signed' = Signed
  BY DEF Signed
<1> USE DEF SignerTypeOK, PairsMatch, Saving, HalfSaved, FilesExist, KeysKept, Kept, files, memory, history
<1>1. CASE Load
  BY <1>1 DEF Load, BothExist
<1>2. CASE Loaded
  BY <1>2 DEF Loaded, Starts, BothExist, Empty
<1>3. CASE Generate
  BY <1>3 DEF Generate, GenerateKeyPair, BothExist
<1>4. CASE TruncatePrivate
  BY <1>4 DEF TruncatePrivate, Empty
<1>5. CASE WritePrivate
  BY <1>5 DEF WritePrivate
<1>6. CASE TruncatePublic
  BY <1>6, LocalSignerAssumption DEF TruncatePublic, Empty
<1>7. CASE WritePublic
  BY <1>7 DEF WritePublic, Starts
<1>8. CASE ArchivePrivate
  BY <1>8 DEF ArchivePrivate
<1>9. CASE ArchivePublic
  BY <1>9 DEF ArchivePublic
<1>10. CASE Rotate
  BY <1>10 DEF Rotate, GenerateKeyPair
<1>11. CASE WriteFails
  BY <1>11 DEF WriteFails, Interrupts
<1>12. CASE SignerCrash
  BY <1>12 DEF Phases, SignerCrash, Interrupts
<1>13. QED
  BY <1>1, <1>2, <1>3, <1>4, <1>5, <1>6, <1>7, <1>8, <1>9, <1>10, <1>11, <1>12 DEF SignerNext, Save

-------------------------------------------------------------------------------
(* The builder.                                                            *)

\* A record holds what it was assembled of.
LEMMA AssembledFields ==
    ASSUME NEW b, NEW signed, NEW key, NEW e, e = AssembleEvidence(b, signed, key)
    PROVE  /\ e.requestId = b.requestId /\ e.signature = signed /\ e.signerPublicKey = key
           /\ Canonical(BuildPayload(e)) = [requestId |-> b.requestId, timestamp |-> b.timestamp]
BY DEF AssembleEvidence, Evidence, Canonical, BuildPayload

\* A local process that signs adds the key it has to those that signed.
LEMMA SigningKeepsKeys ==
    ASSUME TypeOK, FilesExist, KeysKept, UNCHANGED <<mode, signerVars>>, NEW c \in Calls, NEW b,
           mode = "local" => signature' = signature \/ (phase = "up" /\ SignsLocally(c, b))
    PROVE  KeysKept'
<1>1. UNCHANGED <<privateFile, publicFile, archivedPrivate, phase, secretKey, started, unsaved>>
  BY DEF signerVars, files, memory, history
<1>2. CASE mode # "local"
  BY <1>2 DEF KeysKept
<1>3. CASE signature' = signature
  <2>1. Signed' = Signed
    BY <1>3 DEF Signed
  <2>2. QED
    BY <1>1, <2>1 DEF KeysKept, Kept, Saving
<1>4. CASE phase = "up" /\ SignsLocally(c, b)
  <2>1. Signed' \subseteq Signed \cup {secretKey}
    BY <1>4 DEF SignsLocally, Signed, TypeOK
  <2>2. QED
    BY <1>1, <1>4, <2>1 DEF KeysKept, Kept, Saving, FilesExist
<1>5. QED
  BY <1>2, <1>3, <1>4

LEMMA BuilderKeysStep ==
    ASSUME TypeOK, FilesExist, KeysKept, CallsFit, NEW c \in Calls,
           \/ CreateEvidenceAsync(c) \/ Refused(c) \/ Assemble(c) \/ CreateEvidence(c)
           \/ VaultSigns(c) \/ GetPublicKey(c) \/ VaultFails(c)
    PROVE  KeysKept'
<1>1. UNCHANGED <<mode, signerVars>>
  BY DEF CreateEvidenceAsync, Refused, Assemble, CreateEvidence, VaultSigns, GetPublicKey, VaultFails
<1>2. CASE Refused(c) \/ Assemble(c) \/ GetPublicKey(c) \/ VaultFails(c)
  BY <1>1, <1>2, SigningKeepsKeys DEF Refused, Assemble, GetPublicKey, VaultFails
<1>3. CASE VaultSigns(c)
  BY <1>1, <1>3, SigningKeepsKeys DEF VaultSigns, CallsFit, Pending, At
<1>4. CASE CreateEvidenceAsync(c) \/ CreateEvidence(c)
  BY <1>1, <1>4, SigningKeepsKeys DEF CreateEvidenceAsync, CreateEvidence, Running
<1>5. QED
  BY <1>2, <1>3, <1>4

\* Whose call is pending after a step of call c.
LEMMA PendingStep ==
    ASSUME TypeOK, NEW c \in Calls, NEW label \in Labels, Goto(c, label)
    PROVE  Pending' = IF label \in {"signing", "reading", "assembling"}
                      THEN Pending \cup {c} ELSE Pending \ {c}
BY DEF TypeOK, Pending, Goto, Labels

\* What CallsFit says of one call.
CallFits(c) ==
    /\ payload[c] # None
    /\ pc[c] \in {"reading", "assembling"} => signature[c] # None
    /\ mode = "local" => pc[c] = "assembling"
    /\ mode = "vault" /\ pc[c] \in {"reading", "assembling"} => signature[c].key \in 1 .. version
    /\ mode = "vault" /\ pc[c] = "assembling" => published[c] \in signature[c].key .. version
    /\ pc[c] = "signing" => signature[c] = None
    /\ c \notin disturbed => Undisturbed(c)

LEMMA CallsFitEach == CallsFit <=> \A c \in Pending : CallFits(c)
BY DEF CallsFit, CallFits

\* A step of one call leaves the others as they are, if it disturbs them or the builder does not change.
LEMMA OtherCalls ==
    ASSUME TypeOK, TypeOK', CallsFit, NEW c \in Calls, NEW p \in Pending' \ {c},
           pc'[p] = pc[p], payload'[p] = payload[p], signature'[p] = signature[p], published'[p] = published[p],
           UNCHANGED <<mode, version>>,
           disturbed \subseteq disturbed',
           p \in disturbed' \/ c \in Pending
    PROVE  CallFits(p)'
<1>1. p \in Pending /\ p # c
  BY DEF Pending
<1>2. CallFits(p)
  BY <1>1 DEF CallsFit, CallFits
<1>3. p \in disturbed'
  BY <1>1, <1>2 DEF CallFits, Undisturbed
<1>4. QED
  BY <1>2, <1>3 DEF CallFits

LEMMA CallsStep ==
    ASSUME TypeOK, TypeOK', PairsMatch, CallsFit, IdleCalls, NEW c \in Calls,
           \/ CreateEvidenceAsync(c) \/ Refused(c) \/ Assemble(c) \/ CreateEvidence(c)
           \/ VaultSigns(c) \/ GetPublicKey(c) \/ VaultFails(c)
    PROVE  CallsFit' /\ IdleCalls'
<1> USE DEF At, Goto
<1>1. UNCHANGED <<mode, version>> /\ disturbed \subseteq disturbed'
  BY DEF CreateEvidenceAsync, Refused, Assemble, CreateEvidence, VaultSigns, GetPublicKey, VaultFails
<1>2. \A p \in Calls \ {c} : /\ pc'[p] = pc[p] /\ payload'[p] = payload[p]
                             /\ signature'[p] = signature[p] /\ published'[p] = published[p]
  BY DEF CreateEvidenceAsync, Refused, Assemble, CreateEvidence, VaultSigns, GetPublicKey, VaultFails,
         SignsLocally, TypeOK
<1>3. c \in Pending \/ Pending \subseteq disturbed'
  BY DEF CreateEvidenceAsync, Refused, Assemble, CreateEvidence, VaultSigns, GetPublicKey, VaultFails, Pending
<1>4. Pending' \subseteq Pending \cup {c}
  BY <1>2 DEF Pending
<1>5. \A p \in Pending' \ {c} : CallFits(p)'
  BY <1>1, <1>2, <1>3, <1>4, OtherCalls DEF Pending
<1>6. c \in Pending' => CallFits(c)'
  <2>1. CASE Refused(c) \/ Assemble(c) \/ CreateEvidence(c) \/ VaultFails(c)
    <3>1. pc'[c] \in {"done", "failed"}
      BY <2>1 DEF Refused, Assemble, CreateEvidence, VaultFails, TypeOK
    <3>2. QED
      BY <3>1 DEF Pending
  <2>2. CASE VaultSigns(c)
    <3>1. c \in Pending /\ CallFits(c)
      BY <2>2 DEF VaultSigns, Pending, CallsFit, CallFits
    <3>2. /\ pc'[c] = "reading" /\ Pending' = Pending
          /\ signature'[c] = [signed |-> Canonical(payload[c]), key |-> version]
          /\ mode = "vault"
      BY <2>2, <3>1 DEF VaultSigns, TypeOK, Pending, CallFits
    <3>3. version \in 1 .. version
      BY DEF TypeOK
    <3>4. signature'[c] # None
      BY <3>1, <3>2, EvidenceBuilderAssumption DEF CallFits, TypeOK, Payload, Canonical
    <3>5. Undisturbed(c) => Undisturbed(c)'
      BY <2>2, <3>2 DEF VaultSigns, Undisturbed
    <3>6. QED
      BY <2>2, <3>1, <3>2, <3>3, <3>4, <3>5 DEF VaultSigns, CallFits
  <2>3. CASE GetPublicKey(c)
    <3>1. c \in Pending /\ CallFits(c)
      BY <2>3 DEF GetPublicKey, Pending, CallsFit, CallFits
    <3>2. /\ pc[c] = "reading" /\ pc'[c] = "assembling" /\ Pending' = Pending
          /\ published'[c] = version
          /\ mode = "vault"
      BY <2>3, <3>1 DEF GetPublicKey, TypeOK, Pending, CallFits
    <3>3. signature[c].key \in 1 .. version /\ version \in signature[c].key .. version
      BY <3>1, <3>2 DEF CallFits, TypeOK
    <3>4. Undisturbed(c) => Undisturbed(c)'
      BY <2>3, <3>2 DEF GetPublicKey, Undisturbed
    <3>5. QED
      BY <2>3, <3>1, <3>2, <3>3, <3>4 DEF GetPublicKey, CallFits
  <2>4. CASE CreateEvidenceAsync(c) /\ mode = "vault"
    <3>1. /\ payload'[c] = BuildPayload(builder') /\ builder'.requestId = c
          /\ pc[c] = "idle" /\ pc'[c] = "signing" /\ signature' = signature
      BY <2>4 DEF CreateEvidenceAsync, TypeOK
    <3>2. payload'[c] # None
      BY <2>4, <3>1, EvidenceBuilderAssumption DEF CreateEvidenceAsync, TypeOK, BuildPayload
    <3>3. signature[c] = None
      BY <3>1 DEF IdleCalls
    <3>4. c \notin disturbed' => Undisturbed(c)'
      <4>1. SUFFICES ASSUME c \notin disturbed' PROVE Undisturbed(c)'
        OBVIOUS
      <4>2. Pending' = {c}
        BY <2>4, <1>4, <4>1, <3>1 DEF CreateEvidenceAsync, Pending
      <4>3. QED
        BY <1>1, <2>4, <3>1, <3>2, <3>3, <4>2 DEF Undisturbed, BuildPayload
    <3>5. QED
      BY <1>1, <2>4, <3>1, <3>2, <3>3, <3>4 DEF CallFits
  <2>5. CASE CreateEvidenceAsync(c) /\ mode = "local"
    <3>1. /\ payload'[c] = BuildPayload(builder') /\ builder'.requestId = c
          /\ pc[c] = "idle" /\ pc'[c] = "assembling"
          /\ signature'[c] = [signed |-> Canonical(payload'[c]), key |-> secretKey]
          /\ published'[c] = publicKey
          /\ phase = "up" /\ secretKey \in Nat
      BY <2>5 DEF CreateEvidenceAsync, TypeOK, SignsLocally, Running, PairsMatch
    <3>2. payload'[c] \in Payload
      BY <2>5, <3>1 DEF CreateEvidenceAsync, TypeOK, BuildPayload, Payload
    <3>3. payload'[c] # None /\ signature'[c] # None
      BY <3>1, <3>2, EvidenceBuilderAssumption DEF Canonical, Payload
    <3>4. c \notin disturbed' => Undisturbed(c)'
      <4>1. SUFFICES ASSUME c \notin disturbed' PROVE Undisturbed(c)'
        OBVIOUS
      <4>2. Pending' = {c}
        BY <2>5, <1>4, <4>1, <3>1 DEF CreateEvidenceAsync, Pending
      <4>3. secretKey = publicKey
        BY <2>5, <3>1, <4>1 DEF CreateEvidenceAsync, Doubtful, PairsMatch
      <4>4. QED
        BY <3>1, <3>3, <4>2, <4>3 DEF Undisturbed, BuildPayload
    <3>5. QED
      BY <1>1, <2>5, <3>1, <3>3, <3>4 DEF CallFits
  <2>6. QED
    BY <2>1, <2>2, <2>3, <2>4, <2>5 DEF TypeOK
<1>7. IdleCalls'
  <2>1. pc'[c] # "idle"
    BY DEF CreateEvidenceAsync, Refused, Assemble, CreateEvidence, VaultSigns, GetPublicKey, VaultFails, TypeOK
  <2>2. QED
    BY <1>2, <2>1 DEF IdleCalls
<1>8. CallsFit'
  BY <1>5, <1>6 DEF CallsFit, CallFits
<1>9. QED
  BY <1>7, <1>8

-------------------------------------------------------------------------------
(* The records.                                                            *)

RecordFits(r) ==
    /\ r.call \notin disturbed =>
          /\ r.evidence.requestId = r.call
          /\ r.evidence.signature.signed = Canonical(BuildPayload(r.evidence))
          /\ mode = "local" => r.evidence.signature.key = r.evidence.signerPublicKey
    /\ mode = "vault" =>
          /\ r.evidence.signature.key \in 1 .. version
          /\ r.evidence.signerPublicKey \in r.evidence.signature.key .. r.latest

LEMMA RecordsFitEach == RecordsFit <=> \A r \in records : RecordFits(r)
BY DEF RecordsFit, RecordFits

\* What is on record stays right: versions grow, and nobody is undisturbed again.
LEMMA OldRecords ==
    ASSUME RecordsFit, version \in Nat, version' \in Nat, version <= version',
           mode' = mode, disturbed \subseteq disturbed', NEW r \in records
    PROVE  RecordFits(r)'
<1>1. RecordFits(r)
  BY DEF RecordsFit, RecordFits
<1>2. QED
  BY <1>1 DEF RecordFits, Canonical, BuildPayload

LEMMA RecordsStep ==
    ASSUME TypeOK, PairsMatch, CallsFit, RecordsFit, NEW c \in Calls,
           \/ CreateEvidenceAsync(c) \/ Refused(c) \/ Assemble(c) \/ CreateEvidence(c)
           \/ VaultSigns(c) \/ GetPublicKey(c) \/ VaultFails(c)
    PROVE  RecordsFit'
<1>1. version \in Nat /\ version' = version /\ mode' = mode /\ disturbed \subseteq disturbed'
  BY DEF CreateEvidenceAsync, Refused, Assemble, CreateEvidence, VaultSigns, GetPublicKey, VaultFails, TypeOK
<1>2. \A r \in records : RecordFits(r)'
  BY <1>1, OldRecords
<1>3. CASE CreateEvidenceAsync(c) \/ Refused(c) \/ VaultSigns(c) \/ GetPublicKey(c) \/ VaultFails(c)
  <2>1. records' = records
    BY <1>3 DEF CreateEvidenceAsync, Refused, VaultSigns, GetPublicKey, VaultFails
  <2>2. QED
    BY <1>2, <2>1 DEF RecordsFit, RecordFits
<1>4. ASSUME NEW e, Returns(c, e),
             c \notin disturbed' => /\ e.requestId = c
                                    /\ e.signature.signed = Canonical(BuildPayload(e))
                                    /\ mode = "local" => e.signature.key = e.signerPublicKey,
             mode = "vault" => /\ e.signature.key \in 1 .. version
                               /\ e.signerPublicKey \in e.signature.key .. version
      PROVE  RecordsFit'
  <2>1. PICK r : r = [call |-> c, evidence |-> e, latest |-> version]
    OBVIOUS
  <2>2. RecordFits(r)'
    BY <1>1, <1>4, <2>1 DEF RecordFits, Canonical, BuildPayload
  <2>3. QED
    BY <1>2, <1>4, <2>1, <2>2 DEF Returns, RecordsFit, RecordFits
<1>5. CASE Assemble(c)
  <2>0. PICK e : e = AssembleEvidence(builder, signature[c], published[c])
    OBVIOUS
  <2>1. c \in Pending /\ CallFits(c) /\ pc[c] = "assembling" /\ Returns(c, e)
    BY <1>5, <2>0 DEF Assemble, At, Pending, CallsFit, CallFits
  <2>2. /\ e.requestId = builder.requestId /\ e.signature = signature[c] /\ e.signerPublicKey = published[c]
        /\ Canonical(BuildPayload(e)) = [requestId |-> builder.requestId, timestamp |-> builder.timestamp]
    BY <2>0, AssembledFields
  <2>3. Undisturbed(c) => e.requestId = c /\ signature[c].signed = Canonical(BuildPayload(e))
    BY <2>1, <2>2 DEF Undisturbed, CallFits, Canonical
  <2>4. disturbed' = disturbed
    BY <1>5 DEF Assemble
  <2>5. QED
    BY <1>4, <2>1, <2>2, <2>3, <2>4 DEF CallFits, Undisturbed
<1>6. CASE CreateEvidence(c)
  <2>0. PICK e : e = AssembleEvidence(builder', signature'[c], published'[c])
    OBVIOUS
  <2>1. /\ Returns(c, e) /\ mode = "local" /\ phase = "up"
        /\ builder'.requestId = c
        /\ signature'[c] = [signed |-> Canonical(BuildPayload(builder')), key |-> secretKey]
        /\ published'[c] = publicKey
    BY <1>6, <2>0 DEF CreateEvidence, Running, SignsLocally, TypeOK
  <2>2. /\ e.requestId = builder'.requestId /\ e.signature = signature'[c] /\ e.signerPublicKey = published'[c]
        /\ Canonical(BuildPayload(e)) = [requestId |-> builder'.requestId, timestamp |-> builder'.timestamp]
    BY <2>0, AssembledFields
  <2>3. Canonical(BuildPayload(builder')) = [requestId |-> builder'.requestId, timestamp |-> builder'.timestamp]
    BY DEF Canonical, BuildPayload
  <2>4. c \notin disturbed' => secretKey = publicKey
    BY <1>6, <2>1 DEF CreateEvidence, Doubtful, PairsMatch
  <2>5. QED
    BY <1>4, <2>1, <2>2, <2>3, <2>4
<1>7. QED
  BY <1>3, <1>5, <1>6

-------------------------------------------------------------------------------
(* The steps that are not of one call.                                     *)

LEMMA CallStep ==
    ASSUME IndInv, NEW c \in Calls,
           \/ CreateEvidenceAsync(c) \/ Refused(c) \/ Assemble(c) \/ CreateEvidence(c)
           \/ VaultSigns(c) \/ GetPublicKey(c) \/ VaultFails(c)
    PROVE  IndInv'
<1>1. UNCHANGED signerVars
  BY DEF CreateEvidenceAsync, Refused, Assemble, CreateEvidence, VaultSigns, GetPublicKey, VaultFails
<1>2. PairsMatch' /\ FilesExist'
  BY <1>1 DEF IndInv, PairsMatch, FilesExist, Saving, HalfSaved, BothExist, signerVars, files, memory, history
<1>3. TypeOK'
  BY BuilderTypeStep DEF IndInv
<1>4. KeysKept' /\ CallsFit' /\ IdleCalls' /\ RecordsFit'
  BY <1>3, BuilderKeysStep, CallsStep, RecordsStep DEF IndInv
<1>5. QED
  BY <1>2, <1>3, <1>4 DEF IndInv

LEMMA SignerNextStep ==
    ASSUME IndInv, SignerStep
    PROVE  IndInv'
<1>1. TypeOK'
  BY TypeStep DEF IndInv, Next
<1>2. PairsMatch' /\ FilesExist' /\ KeysKept'
  BY PairsStep, FilesStep, KeysStep DEF IndInv, TypeOK, SignerStep, builderVars, calls
<1>3. UNCHANGED <<builder, pc, payload, signature, published, mode, version, disturbed, records>>
  BY DEF SignerStep, builderVars, calls
<1>4. CallsFit' /\ IdleCalls' /\ RecordsFit'
  BY <1>3 DEF IndInv, CallsFit, IdleCalls, RecordsFit, Undisturbed, Pending, Canonical, BuildPayload
<1>5. QED
  BY <1>1, <1>2, <1>4 DEF IndInv

LEMMA CrashStep ==
    ASSUME IndInv, Crash
    PROVE  IndInv'
<1>1. TypeOK'
  BY TypeStep DEF IndInv, Next
<1>2. UNCHANGED <<mode, payload, signature, published, records, disturbed, version>>
  BY DEF Crash
<1>3. PairsMatch' /\ FilesExist' /\ KeysKept'
  <2>1. CASE SignerCrash
    BY <2>1, <1>2, PairsStep, FilesStep, KeysStep DEF IndInv, TypeOK
  <2>2. CASE UNCHANGED signerVars
    <3>1. Signed' = Signed
      BY <1>2 DEF Signed
    <3>2. QED
      BY <2>2, <3>1, <1>2 DEF IndInv, PairsMatch, FilesExist, KeysKept, Kept, Saving, HalfSaved, BothExist,
                       signerVars, files, memory, history
  <2>3. QED
    BY <2>1, <2>2 DEF Crash
<1>4. Pending' = {} /\ \A c \in Calls : pc'[c] = "idle" => pc[c] = "idle"
  BY DEF Crash, Pending
<1>5. CallsFit' /\ IdleCalls'
  BY <1>2, <1>4 DEF IndInv, CallsFit, IdleCalls
<1>6. RecordsFit'
  BY <1>2 DEF IndInv, RecordsFit, Canonical, BuildPayload
<1>7. QED
  BY <1>1, <1>3, <1>5, <1>6 DEF IndInv

LEMMA OtherStep ==
    ASSUME IndInv, SetTimestamp \/ SetMetadata \/ NewBuilder \/ RotateKey \/ UNCHANGED vars
    PROVE  IndInv'
<1> USE DEF builderVars, calls
<1>1. TypeOK'
  BY TypeStep DEF IndInv, Next
<1>2. UNCHANGED <<mode, pc, payload, signature, published, records, signerVars>> /\ disturbed \subseteq disturbed'
  BY DEF SetTimestamp, SetMetadata, NewBuilder, RotateKey, vars
<1>3. PairsMatch' /\ FilesExist' /\ KeysKept' /\ IdleCalls'
  <2>1. Signed' = Signed
    BY <1>2 DEF Signed
  <2>2. QED
    BY <1>2, <2>1 DEF IndInv, PairsMatch, FilesExist, KeysKept, IdleCalls, Kept, Saving, HalfSaved, BothExist,
                    signerVars, files, memory, history
<1>4. version \in Nat /\ version' \in Nat /\ version <= version'
  BY <1>1 DEF IndInv, TypeOK, SetTimestamp, SetMetadata, NewBuilder, RotateKey, vars
<1>5. RecordsFit'
  BY <1>2, <1>4, OldRecords DEF IndInv, RecordsFit, RecordFits
<1>6. Pending' = Pending
  BY <1>2 DEF Pending
<1>7. \A c \in Pending : c \notin disturbed' => Undisturbed(c)'
  <2>1. CASE SetTimestamp \/ NewBuilder
    BY <2>1 DEF SetTimestamp, NewBuilder
  <2>2. CASE SetMetadata \/ RotateKey \/ UNCHANGED vars
    <3>1. builder'.requestId = builder.requestId /\ builder'.timestamp = builder.timestamp
      BY <2>2 DEF SetMetadata, RotateKey, vars, IndInv, TypeOK
    <3>2. QED
      BY <1>2, <1>6, <3>1 DEF IndInv, CallsFit, Undisturbed, Canonical
  <2>3. QED
    BY <2>1, <2>2
<1>8. CallsFit'
  BY <1>2, <1>4, <1>6, <1>7 DEF IndInv, CallsFit, Pending
<1>9. QED
  BY <1>1, <1>3, <1>5, <1>8 DEF IndInv

-------------------------------------------------------------------------------
(* The theorems.                                                           *)

(***************************************************************************)
(* The fields of the builder, the calls under way, the key files and the   *)
(* keys in memory fit together in every reachable state, through failed    *)
(* writes, crashes and rotations.                                          *)
(***************************************************************************)
THEOREM BuilderInvariant == Spec => []IndInv
<1>1. Init => IndInv
  <2>1. SUFFICES ASSUME Init PROVE IndInv
    OBVIOUS
  <2>2. TypeOK
    <3>1. SignerTypeOK
      BY <2>1 DEF Init, SignerInit, SignerTypeOK, Phases
    <3>2. QED
      BY <2>1, <3>1 DEF Init, NewFields, TypeOK, Labels
  <2>3. PairsMatch /\ FilesExist
    BY <2>1 DEF Init, SignerInit, PairsMatch, FilesExist, Saving, HalfSaved
  <2>4. Signed = {}
    BY <2>1 DEF Init, Signed
  <2>5. KeysKept
    BY <2>1, <2>4 DEF Init, SignerInit, KeysKept, Saving
  <2>6. CallsFit /\ IdleCalls /\ RecordsFit
    BY <2>1 DEF Init, CallsFit, IdleCalls, RecordsFit, Pending
  <2>7. QED
    BY <2>2, <2>3, <2>5, <2>6 DEF IndInv
<1>2. IndInv /\ [Next]_vars => IndInv'
  BY CallStep, SignerNextStep, CrashStep, OtherStep DEF Next
<1>3. QED
  BY <1>1, <1>2, PTL DEF Spec

(***************************************************************************)
(* buildAsync(), verify(): evidence of a call that had its builder to      *)
(* itself names its own request and is accepted by verify() of its signer, *)
(* whatever the other calls, the rotations, the crashes and the failed     *)
(* writes; under the key it publishes with a local signer, and with Vault  *)
(* when the key was not rotated between the signature and the record.      *)
(***************************************************************************)
THEOREM EvidenceAlwaysVerifies == Spec => []EvidenceVerifies
<1>1. IndInv => EvidenceVerifies
  BY DEF IndInv, TypeOK, RecordsFit, EvidenceVerifies, Verifies, VaultVerifies, UnderPublished
<1>2. QED
  BY <1>1, BuilderInvariant, PTL

(***************************************************************************)
(* sign() of VaultTransitSigner reads the public key after the signature,  *)
(* so the key that goes out is never older than the one that signed.       *)
(***************************************************************************)
THEOREM PublishedNeverOlder == Spec => []PublishedNotOlder
<1>1. IndInv => PublishedNotOlder
  BY DEF IndInv, RecordsFit, PublishedNotOlder
<1>2. QED
  BY <1>1, BuilderInvariant, PTL

(***************************************************************************)
(* rotateKeys() archives before it replaces: a key that signed is never    *)
(* lost, through crashes at any point, unless saving it failed.            *)
(***************************************************************************)
THEOREM SignedKeysNeverLost == Spec => []SignedKeysKept
<1>1. IndInv => SignedKeysKept
  <2>1. SUFFICES ASSUME IndInv, mode = "local", NEW c \in Calls, signature[c] # None
                 PROVE  signature[c].key \in archivedPrivate \cup {privateFile} \cup unsaved
                                                \cup (IF started THEN {secretKey} ELSE {})
    BY DEF SignedKeysKept
  <2>2. signature[c].key \in Signed
    BY <2>1 DEF Signed
  <2>3. QED
    BY <2>1, <2>2 DEF IndInv, KeysKept, Kept, Saving, FilesExist, TypeOK, SignerTypeOK, Phases
<1>2. QED
  BY <1>1, BuilderInvariant, PTL

================================================================================
