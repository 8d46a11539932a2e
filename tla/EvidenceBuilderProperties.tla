----------------------- MODULE EvidenceBuilderProperties -----------------------
(***************************************************************************)
(* What makes evidence sound, over the specification EvidenceBuilder.      *)
(***************************************************************************)
EXTENDS EvidenceBuilder

(***************************************************************************)
(* assembleEvidence(), verify(): the record of a call that shared its      *)
(* builder with no other call and no setTimestamp() names its own request, *)
(* and verify() of its signer accepts it, before a rotation and after it.  *)
(* LocalSigner verifies under the key the record publishes.  With key      *)
(* files this may fail for a signature made while the last save of the     *)
(* files is known to have stopped halfway, and for no other: a process     *)
(* that starts from the files has one pair.  Vault verifies under the      *)
(* version that signed, and does not look at the published key: a reader   *)
(* who has only that key can verify what was signed and returned under one *)
(* version, and PublishedNotOlder says what he has otherwise.              *)
(***************************************************************************)
EvidenceVerifies ==
    \A r \in records : r.call \notin disturbed =>
        /\ r.evidence.requestId = r.call /\ Verifies(r.evidence)
        /\ r.latest = r.evidence.signature.key => UnderPublished(r.evidence)

(***************************************************************************)
(* sign() of VaultTransitSigner: the public key in a record is of the      *)
(* version that signed or, if the key was rotated in between, of a later   *)
(* one; never of an earlier one, nor of one that came after the record.    *)
(***************************************************************************)
PublishedNotOlder ==
    mode = "vault" =>
        \A r \in records :
            r.evidence.signerPublicKey \in r.evidence.signature.key .. r.latest

(***************************************************************************)
(* rotateKeys(): the secret key of every signature is in use, on disk or   *)
(* in the archive, through all crashes, unless saving it has failed.       *)
(***************************************************************************)
SignedKeysKept ==
    mode = "local" =>
        \A c \in Calls : signature[c] # None =>
            signature[c].key \in archivedPrivate \cup {privateFile} \cup unsaved
                                    \cup (IF started THEN {secretKey} ELSE {})

================================================================================
