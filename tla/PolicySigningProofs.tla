------------------------- MODULE PolicySigningProofs -------------------------
(***************************************************************************)
(* Proofs about PolicySigning, for any texts and keys and any number of    *)
(* edits, runs and deaths of the signer and verifications.                 *)
(***************************************************************************)
EXTENDS PolicySigning, TLAPS

Generating == {"private", "public", "writePublic"}

Holding == {"readPolicy", "openSig", "writeSig"}

\* Where the signer is tells what it and the files hold.
SignerInv ==
    /\ policyFile \in Text
    /\ signer.at = "private" => signer.key \in Key /\ privateFile = Empty
    /\ signer.at \in {"public", "writePublic"} =>
          signer.key \in Key /\ privateFile = signer.key
    /\ signer.at = "loadKey" => privateFile # None
    /\ signer.at \in Holding => signer.key \in Key /\ privateFile = signer.key
    /\ signer.at \in {"openSig", "writeSig"} => signer.text \in Text

\* Every signature in the file, or on its way there, was made.
SignaturesMade ==
    /\ sigFile \in signed \cup {None, Empty}
    /\ signer.at = "writeSig" => <<signer.key, signer.text>> \in signed

\* Once the verifier has begun there is a public key file, and what it has
\* read of the files is a key and a text.
VerifierInv ==
    /\ verifier.at # "idle" => publicFile # None
    /\ verifier.at \in {"policy", "signature"} => verifier.key \in Key
    /\ verifier.at = "signature" => verifier.text \in Text

\* Unless a run died between them the key files are one pair.
KeysPaired ==
    privateFile \in Key /\ signer.at \notin {"public", "writePublic"} /\ ~unpaired
        => publicFile = privateFile

\* What is sealed is policy, signature and key of one run.
SealHolds ==
    sealed =>
        /\ privateFile \in Key
        /\ signer.at \notin Generating
        /\ sigFile = <<privateFile, policyFile>>

\* While nobody writes, what the verifier has read is what the files hold.
CalmHolds ==
    /\ verifier.at = "idle" => ~verifier.calm
    /\ verifier.calm =>
          /\ sealed
          /\ verifier.at \in {"policy", "signature"} => verifier.key = publicFile
          /\ verifier.at = "signature" => verifier.text = policyFile

SigningInv ==
    /\ SigningTypeOK
    /\ SignerInv
    /\ VerifierInv
    /\ SignaturesMade
    /\ KeysPaired
    /\ SealHolds
    /\ CalmHolds
    /\ AcceptedWasSigned
    /\ HonestPolicyVerifies

----------------------------------------------------------------------------

LEMMA SigningInitInv == SigningInit => SigningInv
<1> SUFFICES ASSUME SigningInit PROVE SigningInv
  OBVIOUS
<1> USE SigningAssumption DEF IdleSigner, IdleVerifier
<1>1. /\ policyFile \in Text
      /\ signer = IdleSigner /\ verifier = IdleVerifier
      /\ outcome = [is |-> "none", text |-> None, calm |-> FALSE]
      /\ unpaired = FALSE /\ sealed \in BOOLEAN
  BY DEF SigningInit
<1>2. \/ sigFile = None /\ privateFile = None /\ publicFile = None /\ signed = {} /\ ~sealed
      \/ \E k \in Key : /\ sigFile = <<k, policyFile>> /\ privateFile = k /\ publicFile = k
                       /\ signed = {<<k, policyFile>>}
  BY DEF SigningInit
<1>3. SigningTypeOK
  <2>1. outcome \in Outcome
    BY <1>1 DEF Outcome
  <2>2. signer \in [at : SignerAt, key : Key \cup {None}, text : Text \cup {None}]
    BY <1>1 DEF SignerAt
  <2>3. verifier \in [at : VerifierAt, key : Key \cup {None}, text : Text \cup {None},
                      calm : BOOLEAN]
    BY <1>1 DEF VerifierAt
  <2>4. /\ sigFile \in Signature \cup {None, Empty} /\ signed \subseteq Signature
        /\ privateFile \in Key \cup {None, Empty} /\ publicFile \in Key \cup {None, Empty}
    BY <1>1, <1>2 DEF Signature
  <2> QED BY <1>1, <2>1, <2>2, <2>3, <2>4 DEF SigningTypeOK
<1>4. SignerInv /\ VerifierInv
  BY <1>1 DEF SignerInv, VerifierInv, Holding
<1>5. SignaturesMade /\ KeysPaired /\ SealHolds
  BY <1>1, <1>2 DEF SignaturesMade, KeysPaired, SealHolds, Generating
<1>6. CalmHolds /\ AcceptedWasSigned /\ HonestPolicyVerifies
  BY <1>1 DEF CalmHolds, AcceptedWasSigned, HonestPolicyVerifies
<1> QED BY <1>3, <1>4, <1>5, <1>6 DEF SigningInv

\* A step of those who write: an edit, or the signer.
WriterStep == (\E t \in Text : Edit(t)) \/ SignStarts \/ SignOn

ReaderStep == VerifyStarts \/ VerifyOn

SignerType == [at : SignerAt, key : Key \cup {None}, text : Text \cup {None}]

VerifierType ==
    [at : VerifierAt, key : Key \cup {None}, text : Text \cup {None}, calm : BOOLEAN]

\* SigningTypeOK with names for the two records.
Typed ==
    /\ policyFile \in Text \cup {None}
    /\ sigFile \in Signature \cup {None, Empty}
    /\ privateFile \in Key \cup {None, Empty}
    /\ publicFile \in Key \cup {None, Empty}
    /\ signer \in SignerType
    /\ verifier \in VerifierType
    /\ outcome \in Outcome
    /\ signed \subseteq Signature
    /\ sealed \in BOOLEAN
    /\ unpaired \in BOOLEAN

\* To go on changes the place alone.
LEMMA GoToType ==
    ASSUME signer \in SignerType, NEW at \in SignerAt, GoTo(at)
    PROVE  /\ signer' \in SignerType
           /\ signer'.at = at /\ signer'.key = signer.key /\ signer'.text = signer.text
BY DEF GoTo, SignerType

\* A signer that takes a key, or reads a text.
LEMMA TakeKeyType ==
    ASSUME signer \in SignerType, NEW at \in SignerAt, NEW k \in Key,
           signer' = [signer EXCEPT !.at = at, !.key = k]
    PROVE  signer' \in SignerType /\ signer'.at = at /\ signer'.key = k
BY DEF SignerType

LEMMA TakeTextType ==
    ASSUME signer \in SignerType, NEW at \in SignerAt, NEW t \in Text,
           signer' = [signer EXCEPT !.at = at, !.text = t]
    PROVE  /\ signer' \in SignerType
           /\ signer'.at = at /\ signer'.key = signer.key /\ signer'.text = t
BY DEF SignerType

LEMMA IdleType == IdleSigner \in SignerType /\ IdleSigner.at = "idle"
BY DEF IdleSigner, SignerType, SignerAt

\* A disturbed verification still has the type of one.
LEMMA DisturbType ==
    ASSUME verifier \in VerifierType, Disturb
    PROVE  verifier' \in VerifierType
BY DEF Disturb, VerifierType

\* Where the signer goes its key and its text stay what they were.
LEMMA WriterType ==
    ASSUME SigningInv, WriterStep
    PROVE  SigningTypeOK' /\ SignerInv'
<1>1. Typed /\ SignerInv
  BY DEF SigningInv, SigningTypeOK, Typed, SignerType, VerifierType
<1>2. SUFFICES Typed' /\ SignerInv'
  BY <1>2 DEF SigningTypeOK, Typed, SignerType, VerifierType
<1>3. signer \in SignerType /\ verifier \in VerifierType
  BY <1>1 DEF Typed
<1>4. {"private", "public", "writePublic", "loadKey", "readPolicy", "openSig", "writeSig"}
          \subseteq SignerAt
  BY DEF SignerAt
<1> USE SigningAssumption, <1>1, <1>3, <1>4 DEF Typed, SignerInv, Holding, files
<1>5. ASSUME NEW t \in Text, Edit(t) PROVE Typed' /\ SignerInv'
  BY <1>5, DisturbType DEF Edit
<1>6. CASE SignStarts
  <2>1. CASE privateFile # None
    BY <1>6, <2>1, GoToType DEF SignStarts
  <2>2. CASE privateFile = None
    <3>1. PICK k \in Key : signer' = [signer EXCEPT !.at = "private", !.key = k]
      BY <1>6, <2>2 DEF SignStarts
    <3>2. signer' \in SignerType /\ signer'.at = "private" /\ signer'.key = k
      BY <3>1, TakeKeyType
    <3> QED BY <1>6, <2>2, <3>2 DEF SignStarts
  <2> QED BY <2>1, <2>2
<1>7. CASE WritePrivate
  BY <1>7, GoToType DEF WritePrivate
<1>8. CASE OpenPublic
  BY <1>8, GoToType, DisturbType DEF OpenPublic
<1>9. CASE WritePublic
  BY <1>9, GoToType, DisturbType DEF WritePublic
<1>10. CASE LoadKey
  <2>1. CASE privateFile = Empty
    BY <1>10, <2>1, IdleType DEF LoadKey
  <2>2. CASE privateFile # Empty
    <3>1. privateFile \in Key
      BY <1>10, <2>2 DEF LoadKey
    <3>2. signer' = [signer EXCEPT !.at = "readPolicy", !.key = privateFile]
      BY <1>10, <2>2 DEF LoadKey
    <3>3. signer' \in SignerType /\ signer'.at = "readPolicy" /\ signer'.key = privateFile
      BY <3>1, <3>2, TakeKeyType
    <3> QED BY <1>10, <3>1, <3>3 DEF LoadKey
  <2> QED BY <2>1, <2>2
<1>11. CASE ReadPolicy
  <2>1. /\ signer' \in SignerType
        /\ signer'.at = "openSig" /\ signer'.key = signer.key /\ signer'.text = policyFile
    BY <1>11, TakeTextType DEF ReadPolicy
  <2> QED BY <1>11, <2>1 DEF ReadPolicy
<1>12. CASE OpenSig
  <2>1. <<signer.key, signer.text>> \in Signature
    BY <1>12 DEF OpenSig, Signature
  <2> QED BY <1>12, <2>1, GoToType, DisturbType DEF OpenSig
<1>13. CASE WriteSig
  <2>1. <<signer.key, signer.text>> \in Signature
    BY <1>13 DEF WriteSig, Signature
  <2> QED BY <1>13, <2>1, IdleType, DisturbType DEF WriteSig
<1>14. CASE SignerDies
  BY <1>14, IdleType DEF SignerDies
<1> QED
  BY <1>5, <1>6, <1>7, <1>8, <1>9, <1>10, <1>11, <1>12, <1>13, <1>14 DEF WriterStep, SignOn

\* The verification only reads.
LEMMA ReaderType ==
    ASSUME SigningInv, ReaderStep
    PROVE  SigningTypeOK' /\ SignerInv' /\ VerifierInv'
<1>1. UNCHANGED <<files, signer, signed, sealed, unpaired>>
  BY DEF ReaderStep, VerifyOn, VerifyStarts, ReadPublic, ReadPayload, Verify
<1>2. verifier \in VerifierType /\ outcome \in Outcome /\ publicFile \in Key \cup {None, Empty}
      /\ policyFile \in Text
  BY DEF SigningInv, SigningTypeOK, SignerInv, VerifierType
<1>3. verifier' \in VerifierType /\ outcome' \in Outcome /\ VerifierInv'
  <2> USE SigningAssumption, <1>2 DEF VerifierInv, VerifierAt, VerifierType
  <2>0. VerifierInv /\ publicFile' = publicFile
    BY <1>1 DEF SigningInv, files
  <2>1. ASSUME NEW how \in {"missing", "raised", "refused", "accepted"},
               NEW text \in Text \cup {None}, Ends(how, text)
        PROVE  verifier' \in VerifierType /\ outcome' \in Outcome /\ VerifierInv'
    <3>1. verifier.calm \in BOOLEAN
      OBVIOUS
    <3>2. outcome' \in Outcome
      BY <2>1, <3>1 DEF Ends, Outcome
    <3> QED BY <2>1, <3>2 DEF Ends, IdleVerifier
  <2>2. CASE VerifyStarts
    <3>1. CASE None \in {policyFile, sigFile, publicFile}
      BY <2>1, <2>2, <3>1 DEF VerifyStarts
    <3>2. CASE None \notin {policyFile, sigFile, publicFile}
      <4> DEFINE calm == sealed /\ signer.at = "idle"
      <4>1. calm \in BOOLEAN
        OBVIOUS
      <4>2. verifier' = [verifier EXCEPT !.at = "publicKey", !.calm = calm]
            /\ outcome' = outcome
        BY <2>2, <3>2 DEF VerifyStarts
      <4> HIDE DEF calm
      <4> QED BY <2>0, <3>2, <4>1, <4>2
    <3> QED BY <3>1, <3>2
  <2>3. CASE ReadPublic
    <3>1. CASE publicFile = Empty
      BY <2>1, <2>3, <3>1 DEF ReadPublic
    <3>2. CASE publicFile # Empty
      <4>1. verifier' = [verifier EXCEPT !.at = "policy", !.key = publicFile]
            /\ outcome' = outcome /\ verifier.at = "publicKey"
        BY <2>3, <3>2 DEF ReadPublic
      <4> QED BY <2>0, <3>2, <4>1
    <3> QED BY <3>1, <3>2
  <2>4. CASE ReadPayload
    BY <2>0, <2>4 DEF ReadPayload
  <2>5. CASE Verify
    BY <2>1, <2>5 DEF Verify
  <2> QED BY <2>2, <2>3, <2>4, <2>5 DEF ReaderStep, VerifyOn
<1>4. SigningTypeOK' /\ SignerInv'
  BY <1>1, <1>3 DEF SigningInv, SigningTypeOK, SignerInv, VerifierType, files
<1> QED BY <1>3, <1>4

\* Writers neither take the public key file away nor touch what was read.
LEMMA WriterVerifier ==
    ASSUME SigningInv, WriterStep
    PROVE  /\ verifier'.at = verifier.at
           /\ verifier'.key = verifier.key
           /\ verifier'.text = verifier.text
           /\ verifier'.calm \in {verifier.calm, FALSE}
           /\ outcome' = outcome
           /\ publicFile # None => publicFile' # None
           /\ signed \subseteq signed'
           /\ ~unpaired' => ~unpaired
<1> USE SigningAssumption DEF SigningInv, SigningTypeOK, SignerInv, Disturb, files
<1>1. /\ verifier' \in {verifier, [verifier EXCEPT !.calm = FALSE]}
      /\ outcome' = outcome
      /\ signed \subseteq signed'
      /\ ~unpaired' => ~unpaired
  BY DEF WriterStep, SignOn, Edit, SignStarts, WritePrivate, OpenPublic, WritePublic,
         LoadKey, ReadPolicy, OpenSig, WriteSig, SignerDies
<1>2. publicFile # None => publicFile' # None
  BY DEF WriterStep, SignOn, Edit, SignStarts, WritePrivate, OpenPublic, WritePublic,
         LoadKey, ReadPolicy, OpenSig, WriteSig, SignerDies
<1> QED BY <1>1, <1>2

\* No signature is in the file that was not made first.
LEMMA SignaturesMadeStep ==
    ASSUME SigningInv, WriterStep
    PROVE  SignaturesMade'
<1> USE DEF SigningInv, SigningTypeOK, SignerInv, SignaturesMade, SignerAt, IdleSigner,
            GoTo, files
<1>1. ASSUME NEW t \in Text, Edit(t) PROVE SignaturesMade'
  BY <1>1 DEF Edit
<1>2. CASE SignStarts
  BY <1>2 DEF SignStarts
<1>3. CASE WritePrivate \/ OpenPublic \/ WritePublic
  BY <1>3 DEF WritePrivate, OpenPublic, WritePublic
<1>4. CASE LoadKey \/ ReadPolicy \/ SignerDies
  <2>1. signer'.at # "writeSig"
    <3>1. CASE LoadKey /\ privateFile # Empty
      BY <3>1 DEF LoadKey
    <3>2. CASE ReadPolicy
      BY <3>2 DEF ReadPolicy
    <3>3. CASE signer' = IdleSigner
      BY <3>3
    <3> QED BY <1>4, <3>1, <3>2, <3>3 DEF LoadKey, SignerDies
  <2>2. UNCHANGED <<files, signed>>
    BY <1>4 DEF LoadKey, ReadPolicy, SignerDies
  <2> QED BY <2>1, <2>2
<1>5. CASE OpenSig
  BY <1>5 DEF OpenSig
<1>6. CASE WriteSig
  <2>1. signer'.at = "idle" /\ sigFile' \in signed /\ signed' = signed
    BY <1>6 DEF WriteSig
  <2> QED BY <2>1
<1> QED BY <1>1, <1>2, <1>3, <1>4, <1>5, <1>6 DEF WriterStep, SignOn

\* The key files part only while they are written, or by a death in between.
LEMMA KeysPairedStep ==
    ASSUME SigningInv, WriterStep
    PROVE  KeysPaired'
<1> USE SigningAssumption
    DEF SigningInv, SigningTypeOK, SignerInv, KeysPaired, SignerAt, IdleSigner, GoTo, files
<1>1. ASSUME NEW t \in Text, Edit(t) PROVE KeysPaired'
  BY <1>1 DEF Edit
<1>2. CASE SignStarts
  BY <1>2 DEF SignStarts
<1>3. CASE WritePrivate \/ OpenPublic
  BY <1>3 DEF WritePrivate, OpenPublic
<1>4. CASE WritePublic
  BY <1>4 DEF WritePublic
<1>5. CASE LoadKey \/ ReadPolicy
  BY <1>5 DEF LoadKey, ReadPolicy
<1>6. CASE OpenSig \/ WriteSig
  BY <1>6 DEF OpenSig, WriteSig
<1>7. CASE SignerDies
  BY <1>7 DEF SignerDies
<1> QED BY <1>1, <1>2, <1>3, <1>4, <1>5, <1>6, <1>7 DEF WriterStep, SignOn

\* Only WriteSig seals; an edit and the opening of the file break the seal,
\* and with a private key in place nobody generates another.
LEMMA SealStep ==
    ASSUME SigningInv, WriterStep
    PROVE  SealHolds'
<1> USE SigningAssumption
    DEF SigningInv, SigningTypeOK, SignerInv, SealHolds, SignerAt, Generating, Holding,
        IdleSigner, GoTo, files
<1>1. ASSUME NEW t \in Text, Edit(t) PROVE SealHolds'
  BY <1>1 DEF Edit
<1>2. CASE SignStarts
  BY <1>2 DEF SignStarts
<1>3. CASE WritePrivate \/ OpenPublic \/ WritePublic
  BY <1>3 DEF WritePrivate, OpenPublic, WritePublic
<1>4. CASE LoadKey \/ ReadPolicy \/ SignerDies
  <2>1. signer'.at \notin Generating
    <3>1. CASE LoadKey /\ privateFile # Empty
      BY <3>1 DEF LoadKey
    <3>2. CASE ReadPolicy
      BY <3>2 DEF ReadPolicy
    <3>3. CASE signer' = IdleSigner
      BY <3>3
    <3> QED BY <1>4, <3>1, <3>2, <3>3 DEF LoadKey, SignerDies
  <2>2. UNCHANGED <<files, sealed>>
    BY <1>4 DEF LoadKey, ReadPolicy, SignerDies
  <2> QED BY <2>1, <2>2
<1>5. CASE OpenSig
  BY <1>5 DEF OpenSig
<1>6. CASE WriteSig
  <2>1. /\ sigFile' = <<signer.key, signer.text>> /\ sealed' = (policyFile = signer.text)
        /\ signer'.at = "idle" /\ UNCHANGED <<policyFile, privateFile>>
    BY <1>6 DEF WriteSig
  <2>2. signer.key \in Key /\ privateFile = signer.key
    BY <1>6 DEF WriteSig
  <2> QED BY <2>1, <2>2
<1> QED BY <1>1, <1>2, <1>3, <1>4, <1>5, <1>6 DEF WriterStep, SignOn

\* Whoever changes what the verifier reads disturbs it.
LEMMA CalmWriterStep ==
    ASSUME SigningInv, WriterStep
    PROVE  CalmHolds'
<1>1. verifier'.calm => UNCHANGED <<verifier, sealed, publicFile, policyFile>>
  <2>1. verifier' \in {verifier, [verifier EXCEPT !.calm = FALSE]}
        /\ (~UNCHANGED <<sealed, publicFile, policyFile>>
               => verifier' = [verifier EXCEPT !.calm = FALSE])
    BY DEF Disturb, files, WriterStep, SignOn, Edit, SignStarts, WritePrivate, OpenPublic,
           WritePublic, LoadKey, ReadPolicy, OpenSig, WriteSig, SignerDies
  <2>2. [verifier EXCEPT !.calm = FALSE].calm = FALSE
    BY DEF SigningInv, SigningTypeOK
  <2> QED BY <2>1, <2>2
<1>2. CASE verifier'.calm
  BY <1>1, <1>2 DEF SigningInv, CalmHolds
<1>3. CASE ~verifier'.calm
  BY <1>3 DEF CalmHolds
<1> QED BY <1>2, <1>3

\* What the verifier reads calmly is the key and the text that are sealed.
LEMMA CalmReaderStep ==
    ASSUME SigningInv, ReaderStep
    PROVE  CalmHolds'
<1>1. UNCHANGED <<files, sealed>> /\ CalmHolds /\ verifier \in VerifierType
  BY DEF ReaderStep, VerifyOn, VerifyStarts, ReadPublic, ReadPayload, Verify, SigningInv,
         SigningTypeOK, VerifierType
<1>2. CASE verifier' = IdleVerifier
  BY <1>2 DEF IdleVerifier, CalmHolds
<1>3. CASE VerifyStarts /\ verifier' # IdleVerifier
  <2> DEFINE calm == sealed /\ signer.at = "idle"
  <2>1. verifier' = [verifier EXCEPT !.at = "publicKey", !.calm = calm]
    BY <1>3 DEF VerifyStarts, Ends
  <2>2. calm => sealed
    OBVIOUS
  <2>3. verifier'.at = "publicKey" /\ verifier'.calm = calm
    BY <1>1, <2>1 DEF VerifierType
  <2> HIDE DEF calm
  <2> QED BY <1>1, <2>2, <2>3 DEF CalmHolds
<1>4. CASE ReadPublic /\ verifier' # IdleVerifier
  <2>1. verifier' = [verifier EXCEPT !.at = "policy", !.key = publicFile]
    BY <1>4 DEF ReadPublic, Ends
  <2>2. verifier'.at = "policy" /\ verifier'.key = publicFile
        /\ verifier'.calm = verifier.calm
    BY <1>1, <2>1 DEF VerifierType
  <2> QED BY <1>1, <2>2 DEF CalmHolds, files
<1>5. CASE ReadPayload
  <2>1. verifier'.at = "signature" /\ verifier'.key = verifier.key
        /\ verifier'.text = policyFile /\ verifier'.calm = verifier.calm
        /\ verifier.at = "policy"
    BY <1>1, <1>5 DEF ReadPayload, VerifierType
  <2> QED BY <1>1, <2>1 DEF CalmHolds, files
<1> QED BY <1>2, <1>3, <1>4, <1>5 DEF ReaderStep, VerifyOn, Verify, Ends

\* How a verification ends.
LEMMA OutcomeReaderStep ==
    ASSUME SigningInv, ReaderStep
    PROVE  AcceptedWasSigned' /\ HonestPolicyVerifies'
<1> USE SigningAssumption
    DEF SigningInv, SigningTypeOK, AcceptedWasSigned, HonestPolicyVerifies, Ends, files
<1>1. CASE UNCHANGED <<outcome, signed, unpaired>>
  BY <1>1
<1>2. CASE VerifyStarts /\ None \in {policyFile, sigFile, publicFile}
  BY <1>2 DEF VerifyStarts, CalmHolds
<1>3. CASE ReadPublic /\ publicFile = Empty
  <2>1. ~(verifier.calm /\ ~unpaired)
    BY <1>3 DEF CalmHolds, SealHolds, KeysPaired, Generating
  <2> QED BY <1>3, <2>1 DEF ReadPublic
<1>4. CASE Verify
  <2>1. CASE sigFile = <<verifier.key, verifier.text>>
    <3>1. verifier.key \in Key /\ verifier.text \in Text
      BY <1>4 DEF Verify, VerifierInv
    <3>2. <<verifier.key, verifier.text>> \in signed
      <4>1. sigFile \in Key \X Text
        BY <2>1, <3>1
      <4> QED BY <2>1, <4>1 DEF SignaturesMade
    <3>3. outcome' = [is |-> "accepted", text |-> verifier.text, calm |-> verifier.calm]
          /\ signed' = signed
      BY <1>4, <2>1 DEF Verify
    <3> QED BY <3>1, <3>2, <3>3
  <2>2. CASE sigFile # <<verifier.key, verifier.text>>
    <3>1. ~(verifier.calm /\ ~unpaired)
      BY <1>4, <2>2 DEF Verify, CalmHolds, SealHolds, KeysPaired, Generating
    <3> QED BY <1>4, <2>2, <3>1 DEF Verify
  <2> QED BY <2>1, <2>2
<1> QED
  BY <1>1, <1>2, <1>3, <1>4 DEF ReaderStep, VerifyOn, VerifyStarts, ReadPublic, ReadPayload

\* Every step of the signer, the editors and the verification keeps all of
\* it; an outcome stays true when a writer goes on.
LEMMA SigningInvStep == SigningInv /\ [SigningNext]_signingVars => SigningInv'
<1> SUFFICES ASSUME SigningInv, [SigningNext]_signingVars PROVE SigningInv'
  OBVIOUS
<1>1. CASE WriterStep
  <2>1. VerifierInv'
    BY <1>1, WriterVerifier DEF SigningInv, VerifierInv
  <2>2. AcceptedWasSigned' /\ HonestPolicyVerifies'
    BY <1>1, WriterVerifier DEF SigningInv, AcceptedWasSigned, HonestPolicyVerifies
  <2> QED
    BY <1>1, <2>1, <2>2, WriterType, SignaturesMadeStep, KeysPairedStep, SealStep,
       CalmWriterStep
    DEF SigningInv
<1>2. CASE ReaderStep
  <2>1. UNCHANGED <<files, signer, signed, sealed, unpaired>>
    BY <1>2 DEF ReaderStep, VerifyOn, VerifyStarts, ReadPublic, ReadPayload, Verify
  <2>2. SignaturesMade' /\ KeysPaired' /\ SealHolds'
    BY <2>1 DEF SigningInv, SignaturesMade, KeysPaired, SealHolds, files
  <2> QED
    BY <1>2, <2>2, ReaderType, CalmReaderStep, OutcomeReaderStep DEF SigningInv
<1>3. CASE UNCHANGED signingVars
  BY <1>3
  DEF signingVars, files, SigningInv, SigningTypeOK, SignerInv, VerifierInv, SignaturesMade,
      KeysPaired, SealHolds, CalmHolds, AcceptedWasSigned, HonestPolicyVerifies
<1> QED BY <1>1, <1>2, <1>3 DEF SigningNext, WriterStep, ReaderStep

----------------------------------------------------------------------------

\* What verify_policy_integrity accepts is a text that sign_policy signed,
\* however its reads fall between edits, signer runs and deaths.
THEOREM SigningAccepts == SigningSpec => []AcceptedWasSigned
<1>1. SigningInv => AcceptedWasSigned
  BY DEF SigningInv
<1> QED BY <1>1, SigningInitInv, SigningInvStep, PTL DEF SigningSpec

\* A policy signed after its last edit is accepted while nobody writes,
\* unless a signer died between the two key files.
THEOREM SigningHonest == SigningSpec => []HonestPolicyVerifies
<1>1. SigningInv => HonestPolicyVerifies
  BY DEF SigningInv
<1> QED BY <1>1, SigningInitInv, SigningInvStep, PTL DEF SigningSpec
=============================================================================
