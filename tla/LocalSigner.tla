------------------------------ MODULE LocalSigner ------------------------------
(***************************************************************************)
(* The signer of packages/evidence-fabric/src/signer.ts in one process,    *)
(* and its two key files, which outlive the process.  writeFileSync()      *)
(* truncates a file and then writes it, so a crash or a failure leaves it  *)
(* absent, empty, or whole.                                                *)
(*                                                                         *)
(* A key pair is its number: a secret and a public key match if they are   *)
(* equal.                                                                  *)
(***************************************************************************)
EXTENDS Naturals

CONSTANTS
    MaxKeys,        \* key pairs that are generated at most
    Faults,         \* whether a write may fail
    None

ASSUME LocalSignerAssumption ==
    /\ MaxKeys \in Nat
    /\ Faults \in BOOLEAN
    /\ None \notin Nat

Empty == 0

VARIABLES
    privateFile, publicFile,    \* privateKeyPath and publicKeyPath
    archivedPrivate, archivedPublic,    \* what .key-archive holds
    phase,          \* where the constructor or rotateKeys() is; "up" between two calls
    secretKey, publicKey,
    started,        \* the constructor has returned
    generated,      \* bounded: key pairs so far
    unsaved,        \* history: the keys whose saving failed
    interrupted     \* history: the last save of both files began and did not end

files == <<privateFile, publicFile, archivedPrivate, archivedPublic>>
memory == <<secretKey, publicKey>>
history == <<unsaved, interrupted>>
signerVars == <<files, phase, memory, started, generated, history>>

SignerInit ==
    /\ privateFile = None /\ publicFile = None
    /\ archivedPrivate = {} /\ archivedPublic = {}
    /\ phase = "down"
    /\ secretKey = None /\ publicKey = None
    /\ started = FALSE
    /\ generated = 0
    /\ unsaved = {}
    /\ interrupted = FALSE

Starts == phase' = "up" /\ started' = TRUE

GenerateKeyPair ==
    /\ generated < MaxKeys
    /\ generated' = generated + 1
    /\ secretKey' = generated + 1
    /\ publicKey' = generated + 1

-------------------------------------------------------------------------------
(* The constructor: two existsSync(), then loadKeys() or                   *)
(* generateAndSaveKeys().  A file never goes away, so the two tests are    *)
(* one step.                                                               *)

BothExist == privateFile # None /\ publicFile # None

Load ==
    /\ phase = "down"
    /\ BothExist
    /\ secretKey' = privateFile
    /\ phase' = "loading"
    /\ UNCHANGED <<files, publicKey, started, generated, history>>

Generate ==
    /\ phase = "down"
    /\ ~ BothExist
    /\ GenerateKeyPair
    /\ phase' = "savePrivate"
    /\ UNCHANGED <<files, started, history>>

\* An empty file fails the test of its length, and the constructor throws.
Loaded ==
    /\ phase = "loading"
    /\ publicKey' = publicFile
    /\ IF Empty \in {secretKey, publicFile}
       THEN phase' = "down" /\ UNCHANGED started
       ELSE Starts
    /\ UNCHANGED <<files, secretKey, generated, history>>

-------------------------------------------------------------------------------
(* The two writes that end generateAndSaveKeys() and rotateKeys().         *)

TruncatePrivate ==
    /\ phase = "savePrivate"
    /\ privateFile' = Empty
    /\ phase' = "writePrivate"
    /\ UNCHANGED <<publicFile, archivedPrivate, archivedPublic, memory, started, generated, history>>

WritePrivate ==
    /\ phase = "writePrivate"
    /\ privateFile' = secretKey
    /\ phase' = "savePublic"
    /\ UNCHANGED <<publicFile, archivedPrivate, archivedPublic, memory, started, generated, history>>

TruncatePublic ==
    /\ phase = "savePublic"
    /\ publicFile' = Empty
    /\ phase' = "writePublic"
    /\ UNCHANGED <<privateFile, archivedPrivate, archivedPublic, memory, started, generated, history>>

WritePublic ==
    /\ phase = "writePublic"
    /\ publicFile' = publicKey
    /\ Starts
    /\ interrupted' = FALSE
    /\ UNCHANGED <<privateFile, archivedPrivate, archivedPublic, memory, generated, unsaved>>

Save == TruncatePrivate \/ WritePrivate \/ TruncatePublic \/ WritePublic

-------------------------------------------------------------------------------
(* rotateKeys().                                                           *)

\* Mutant: nothing is archived.
ArchiveNothing ==
    /\ phase = "up"
    /\ GenerateKeyPair
    /\ phase' = "savePrivate"
    /\ UNCHANGED <<files, started, history>>

ArchivePrivate ==
    /\ phase = "up"
    /\ generated < MaxKeys
    /\ archivedPrivate' = archivedPrivate \cup {secretKey}
    /\ phase' = "archivePublic"
    /\ UNCHANGED <<privateFile, publicFile, archivedPublic, memory, started, generated, history>>

ArchivePublic ==
    /\ phase = "archivePublic"
    /\ archivedPublic' = archivedPublic \cup {publicKey}
    /\ phase' = "rotate"
    /\ UNCHANGED <<privateFile, publicFile, archivedPrivate, memory, started, generated, history>>

\* From here on the process signs with the new key, whether it is saved or not.
Rotate ==
    /\ phase = "rotate"
    /\ GenerateKeyPair
    /\ phase' = "savePrivate"
    /\ UNCHANGED <<files, started, history>>

-------------------------------------------------------------------------------
(* Failures.                                                               *)

Saving == phase \in {"savePrivate", "writePrivate", "savePublic", "writePublic"}

Interrupts == interrupted' = (interrupted \/ phase \in {"writePrivate", "savePublic", "writePublic"})

\* A write throws: rotateKeys() leaves the process with the fields it has.
WriteFails ==
    /\ Faults
    /\ Saving \/ phase = "archivePublic"
    /\ phase' = (IF started THEN "up" ELSE "down")
    /\ unsaved' = IF Saving THEN unsaved \cup {secretKey} ELSE unsaved
    /\ Interrupts
    /\ UNCHANGED <<files, memory, started, generated>>

SignerCrash ==
    /\ phase # "down"
    /\ phase' = "down"
    /\ secretKey' = None
    /\ publicKey' = None
    /\ started' = FALSE
    /\ Interrupts
    /\ UNCHANGED <<files, generated, unsaved>>

-------------------------------------------------------------------------------

SignerNext ==
    \/ Load \/ Loaded \/ Generate \/ Save
    \/ ArchivePrivate \/ ArchivePublic \/ Rotate
    \/ WriteFails

================================================================================
