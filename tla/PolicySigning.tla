---------------------------- MODULE PolicySigning ----------------------------
(***************************************************************************)
(* The signature of core/policies.yaml: the operator's sign_policy         *)
(* (admin_signer.py) writes keys and signature into files, which the       *)
(* server's verify_policy_integrity (core/trust.py) reads one after the    *)
(* other.  Opening a file for writing empties it; the content is there     *)
(* when it is closed.  Nothing makes policy and signature change together, *)
(* and the signer may die at any file.                                     *)
(***************************************************************************)

CONSTANTS
    Text,      \* contents of core/policies.yaml
    Shipped,   \* the one in the repository
    Key,       \* RSA key pairs
    None,      \* no file, no value
    Empty      \* a file that has been opened for writing

ASSUME SigningAssumption ==
    /\ Shipped \in Text
    /\ None \notin Text /\ None \notin Key
    /\ Empty \notin Text /\ Empty \notin Key
    /\ None \notin Key \X Text /\ Empty \notin Key \X Text
    /\ None # Empty

VARIABLES
    policyFile, sigFile,
    privateFile, publicFile,  \* private.pem and core/public.pem
    signer,    \* sign_policy: where it is, its key, the payload it has read
    verifier,  \* verify_policy_integrity: where it is, what it has read
    outcome,   \* how the last verification ended
    signed,    \* history: the signatures made
    sealed,    \* history: policy and signature are of one run, nobody wrote since
    unpaired   \* history: a run died between the two key files

files       == <<policyFile, sigFile, privateFile, publicFile>>
signingVars == <<files, signer, verifier, outcome, signed, sealed, unpaired>>

Signature == Key \X Text

SignerAt == {"idle", "private", "public", "writePublic", "loadKey", "readPolicy",
             "openSig", "writeSig"}

VerifierAt == {"idle", "publicKey", "policy", "signature"}

IdleSigner   == [at |-> "idle", key |-> None, text |-> None]
IdleVerifier == [at |-> "idle", key |-> None, text |-> None, calm |-> FALSE]

\* calm is history: nobody has written since the verification began.
Outcome == [is : {"none", "missing", "raised", "refused", "accepted"},
            text : Text \cup {None}, calm : BOOLEAN]

SigningTypeOK ==
    /\ policyFile \in Text \cup {None}
    /\ sigFile \in Signature \cup {None, Empty}
    /\ privateFile \in Key \cup {None, Empty}
    /\ publicFile \in Key \cup {None, Empty}
    /\ signer \in [at : SignerAt, key : Key \cup {None}, text : Text \cup {None}]
    /\ verifier \in [at : VerifierAt, key : Key \cup {None}, text : Text \cup {None},
                     calm : BOOLEAN]
    /\ outcome \in Outcome
    /\ signed \subseteq Signature
    /\ sealed \in BOOLEAN
    /\ unpaired \in BOOLEAN

\* The repository has a policy file, a pair of keys and the policy's signature;
\* a checkout without them has the policy file alone.
SigningInit ==
    /\ policyFile = Shipped
    /\ \/ /\ sigFile = None /\ privateFile = None /\ publicFile = None
          /\ signed = {} /\ sealed = FALSE
       \/ \E k \in Key :
             /\ sigFile = <<k, Shipped>> /\ privateFile = k /\ publicFile = k
             /\ signed = {<<k, Shipped>>} /\ sealed = TRUE
    /\ signer = IdleSigner
    /\ verifier = IdleVerifier
    /\ outcome = [is |-> "none", text |-> None, calm |-> FALSE]
    /\ unpaired = FALSE

----------------------------------------------------------------------------
(* generate_keys and sign_policy.                                          *)

\* Whoever writes a file disturbs the verification that is under way.
Disturb == verifier' = [verifier EXCEPT !.calm = FALSE]

GoTo(at) == signer' = [signer EXCEPT !.at = at]

\* Somebody edits the policies.
Edit(text) ==
    /\ policyFile' = text
    /\ sealed' = FALSE
    /\ Disturb
    /\ UNCHANGED <<sigFile, privateFile, publicFile, signer, outcome, signed, unpaired>>

\* sign_policy starts; without private.pem it generates a pair and opens it.
SignStarts ==
    /\ signer.at = "idle"
    /\ \/ /\ privateFile # None
          /\ GoTo("loadKey")
          /\ UNCHANGED privateFile
       \/ /\ privateFile = None
          /\ \E k \in Key : signer' = [signer EXCEPT !.at = "private", !.key = k]
          /\ privateFile' = Empty
    /\ UNCHANGED <<policyFile, sigFile, publicFile, verifier, outcome, signed, sealed, unpaired>>

WritePrivate ==
    /\ signer.at = "private"
    /\ privateFile' = signer.key
    /\ GoTo("public")
    /\ UNCHANGED <<policyFile, sigFile, publicFile, verifier, outcome, signed, sealed, unpaired>>

OpenPublic ==
    /\ signer.at = "public"
    /\ publicFile' = Empty
    /\ GoTo("writePublic")
    /\ Disturb
    /\ UNCHANGED <<policyFile, sigFile, privateFile, outcome, signed, sealed, unpaired>>

\* (mutant) the public half is taken from a pair of its own
WritePublic_OtherPair ==
    /\ signer.at = "writePublic"
    /\ \E k \in Key : publicFile' = k
    /\ GoTo("loadKey")
    /\ Disturb
    /\ UNCHANGED <<policyFile, sigFile, privateFile, outcome, signed, sealed, unpaired>>

WritePublic ==
    /\ signer.at = "writePublic"
    /\ publicFile' = signer.key
    /\ GoTo("loadKey")
    /\ Disturb
    /\ UNCHANGED <<policyFile, sigFile, privateFile, outcome, signed, sealed, unpaired>>

\* load_pem_private_key raises for an empty file.
LoadKey ==
    /\ signer.at = "loadKey"
    /\ signer' = IF privateFile = Empty THEN IdleSigner
                 ELSE [signer EXCEPT !.at = "readPolicy", !.key = privateFile]
    /\ UNCHANGED <<files, verifier, outcome, signed, sealed, unpaired>>

ReadPolicy ==
    /\ signer.at = "readPolicy"
    /\ signer' = [signer EXCEPT !.at = "openSig", !.text = policyFile]
    /\ UNCHANGED <<files, verifier, outcome, signed, sealed, unpaired>>

\* The signature is made, and its file is opened.
OpenSig ==
    /\ signer.at = "openSig"
    /\ sigFile' = Empty
    /\ signed' = signed \cup {<<signer.key, signer.text>>}
    /\ sealed' = FALSE
    /\ GoTo("writeSig")
    /\ Disturb
    /\ UNCHANGED <<policyFile, privateFile, publicFile, outcome, unpaired>>

WriteSig ==
    /\ signer.at = "writeSig"
    /\ sigFile' = <<signer.key, signer.text>>
    /\ sealed' = (policyFile = signer.text)
    /\ signer' = IdleSigner
    /\ Disturb
    /\ UNCHANGED <<policyFile, privateFile, publicFile, outcome, signed, unpaired>>

SignerDies ==
    /\ signer.at # "idle"
    /\ signer' = IdleSigner
    /\ unpaired' = (unpaired \/ signer.at \in {"public", "writePublic"})
    /\ UNCHANGED <<files, verifier, outcome, signed, sealed>>

SignOn ==
    \/ WritePrivate \/ OpenPublic \/ WritePublic \/ LoadKey
    \/ ReadPolicy \/ OpenSig \/ WriteSig \/ SignerDies

----------------------------------------------------------------------------
(* verify_policy_integrity.                                                *)

Ends(how, text) ==
    /\ outcome' = [is |-> how, text |-> text, calm |-> verifier.calm]
    /\ verifier' = IdleVerifier

\* All three files have to be there.
VerifyStarts ==
    /\ verifier.at = "idle"
    /\ \/ /\ None \in {policyFile, sigFile, publicFile}
          /\ Ends("missing", None)
       \/ /\ None \notin {policyFile, sigFile, publicFile}
          /\ verifier' = [verifier EXCEPT !.at = "publicKey",
                                          !.calm = sealed /\ signer.at = "idle"]
          /\ UNCHANGED outcome
    /\ UNCHANGED <<files, signer, signed, sealed, unpaired>>

\* (mutant) an empty key file is not noticed
ReadPublic_Unchecked ==
    /\ verifier.at = "publicKey"
    /\ verifier' = [verifier EXCEPT !.at = "policy", !.key = publicFile]
    /\ UNCHANGED <<files, signer, outcome, signed, sealed, unpaired>>

\* load_pem_public_key raises for an empty file.
ReadPublic ==
    /\ verifier.at = "publicKey"
    /\ \/ publicFile = Empty /\ Ends("raised", None)
       \/ /\ publicFile # Empty
          /\ verifier' = [verifier EXCEPT !.at = "policy", !.key = publicFile]
          /\ UNCHANGED outcome
    /\ UNCHANGED <<files, signer, signed, sealed, unpaired>>

ReadPayload ==
    /\ verifier.at = "policy"
    /\ verifier' = [verifier EXCEPT !.at = "signature", !.text = policyFile]
    /\ UNCHANGED <<files, signer, outcome, signed, sealed, unpaired>>

\* (mutant) the hash is taken of the file as it is now
Verify_HashesFile ==
    /\ verifier.at = "signature"
    /\ \/ sigFile = <<verifier.key, verifier.text>> /\ Ends("accepted", policyFile)
       \/ sigFile # <<verifier.key, verifier.text>> /\ Ends("refused", None)
    /\ UNCHANGED <<files, signer, signed, sealed, unpaired>>

\* public_key.verify; the hash of the payload is returned.
Verify ==
    /\ verifier.at = "signature"
    /\ \/ sigFile = <<verifier.key, verifier.text>> /\ Ends("accepted", verifier.text)
       \/ sigFile # <<verifier.key, verifier.text>> /\ Ends("refused", None)
    /\ UNCHANGED <<files, signer, signed, sealed, unpaired>>

VerifyOn == ReadPublic \/ ReadPayload \/ Verify

\* Signing and verifying by themselves.
SigningNext ==
    \/ \E t \in Text : Edit(t)
    \/ SignStarts \/ SignOn
    \/ VerifyStarts \/ VerifyOn

SigningSpec == SigningInit /\ [][SigningNext]_signingVars

----------------------------------------------------------------------------
(* Properties.                                                             *)

\* What the server accepts, and hashes for the audit, is a text that was
\* signed, however its three reads fall between edits, signer runs and deaths.
AcceptedWasSigned ==
    outcome.is = "accepted" => \E k \in Key : <<k, outcome.text>> \in signed

\* A policy that was signed after its last edit is accepted, when nobody
\* writes meanwhile: also after runs of the signer that died, unless one
\* died between the two key files.
HonestPolicyVerifies ==
    outcome.calm /\ ~unpaired => outcome.is = "accepted"
=============================================================================
