----------------------------- MODULE Validation -----------------------------
(***************************************************************************)
(* A verdict as an ERC-8004 validation (erc8004Validator.ts): a validator    *)
(* scores a verdict, publishes the evidence and records score and hash in    *)
(* the validation registry, and a consumer reads the record back             *)
(* (erc8004Validation.ts) and rehashes the evidence it fetched.              *)
(*                                                                           *)
(* A hash is ideal: the evidence stands for it.  An optional score is a set  *)
(* of at most one.                                                           *)
(***************************************************************************)
EXTENDS Integers, FiniteSets

CONSTANTS
  RequestHash,      \* requests validators were asked to answer
  ScoredVerdict,    \* the verdicts they answer with: [decision, disclosureId]
  ScoreOverride,    \* opts.score
  Consumer,         \* checks of an attestation in flight
  MaxAttestations,  \* bound of the model on the attestations made
  MaxResponses      \* bound of the model on the registry's transactions

ASSUME ValidationAssumption ==
  MaxAttestations \in Nat /\ MaxResponses \in Nat /\ \A s \in ScoreOverride : s \subseteq Int

VARIABLES
  made,       \* attestations made, each with its evidence
  recorded,   \* recorded[h]: {} or the last response the registry has for h
  responses,  \* transactions so far
  published,  \* the evidence last published at the validator's URI
  check,      \* check[c]: {} or the attestation and what was found of it so far
  during      \* history: during[c]: the records of its request while c ran

validation == <<made, recorded, responses, published, check, during>>

EvidenceOf(verdict, tokenId) ==
  [disclosureId |-> verdict.disclosureId, erc8004AgentId |-> tokenId, decision |-> verdict.decision]

DefaultResponse(decision) == IF decision = "transact" THEN 100 ELSE 0

(* {} when it throws. *)
VerdictToResponse(verdict, override) ==
  IF override = {} THEN {DefaultResponse(verdict.decision)} ELSE override \cap 0..100

VerdictToValidationAttestation(verdict, requestHash, tokenId, override) ==
  {[requestHash |-> requestHash, response |-> score, evidence |-> EvidenceOf(verdict, tokenId),
    responseHash |-> EvidenceOf(verdict, tokenId)] : score \in VerdictToResponse(verdict, override)}

(* A slip: the hash binds the verdict, and the score is taken as it comes. *)
VerifyEvidenceHash(att, evidence) == evidence = att.responseHash

VerifyValidationEvidence(att, evidence) ==
  /\ evidence = att.responseHash
  /\ att.response # DefaultResponse(evidence.decision) => att.response \notin {0, 100}

ConfirmAttestationOnchain(att, statuses) ==
  \E s \in statuses : s.response = att.response /\ s.responseHash = att.responseHash

---------------------------------------------------------------------------
ValidationInit ==
  /\ made = {} /\ responses = 0 /\ published = {}
  /\ recorded = [h \in RequestHash |-> {}]
  /\ check = [c \in Consumer |-> {}]
  /\ during = [c \in Consumer |-> {}]

AttestVerdict ==
  /\ Cardinality(made) < MaxAttestations
  /\ \E verdict \in ScoredVerdict, h \in RequestHash, override \in ScoreOverride :
       made' = made \cup VerdictToValidationAttestation(verdict, h, h, override)
  /\ UNCHANGED <<recorded, responses, published, check, during>>

PublishEvidence ==
  /\ \E att \in made : published' = {att.evidence}
  /\ UNCHANGED <<made, recorded, responses, check, during>>

(* A validator may answer a request again: the last response is on record. *)
ValidationResponse ==
  /\ responses < MaxResponses
  /\ responses' = responses + 1
  /\ \E att \in made :
       /\ recorded' = [recorded EXCEPT ![att.requestHash] =
                         {[response |-> att.response, responseHash |-> att.responseHash]}]
       /\ during' = [c \in Consumer |->
            IF \E k \in check[c] : k.att.requestHash = att.requestHash /\ k.onchain = "asked"
            THEN during[c] \cup recorded'[att.requestHash] ELSE during[c]]
  /\ UNCHANGED <<made, published, check>>

(* The attestation a consumer was given may have the score of another. *)
BeginCheck(c) ==
  /\ check[c] = {}
  /\ \E a, b \in made :
       LET att == [a EXCEPT !.response = b.response] IN
       /\ check' = [check EXCEPT ![c] = {[att |-> att, onchain |-> "asked", evidence |-> "asked",
                                          got |-> {}]}]
       /\ during' = [during EXCEPT ![c] = recorded[att.requestHash]]
  /\ UNCHANGED <<made, recorded, responses, published>>

GetValidationStatus(c) ==
  /\ \E k \in check[c] :
       /\ k.onchain = "asked"
       /\ \E onchain \in {IF ConfirmAttestationOnchain(k.att, recorded[k.att.requestHash])
                          THEN "confirmed" ELSE "refused", "thrown"} :
            check' = [check EXCEPT ![c] = {[k EXCEPT !.onchain = onchain]}]
  /\ UNCHANGED <<made, recorded, responses, published, during>>

FetchEvidence(c) ==
  /\ \E k \in check[c], got \in published :
       /\ k.evidence = "asked"
       /\ check' = [check EXCEPT ![c] =
            {[att |-> k.att, onchain |-> k.onchain, got |-> {got},
              evidence |-> IF VerifyValidationEvidence(k.att, got) THEN "backed" ELSE "refused"]}]
  /\ UNCHANGED <<made, recorded, responses, published, during>>

ValidationNext ==
  \/ AttestVerdict \/ PublishEvidence \/ ValidationResponse
  \/ \E c \in Consumer : BeginCheck(c) \/ GetValidationStatus(c) \/ FetchEvidence(c)

---------------------------------------------------------------------------
(* A score that was confirmed and backed says what the verdict said: the registry *)
(* had it for that request at some moment of the check, a validator made it with  *)
(* the evidence that was fetched, and 100 is a transact and 0 a refuse whatever   *)
(* score the validator chose.  That the same validator recorded it, and for that  *)
(* token, is not checked (erc8004Validator.ts:189-252).                           *)
ScoreIsBacked ==
  \A c \in Consumer : \A k \in check[c] :
    k.onchain = "confirmed" /\ k.evidence = "backed" =>
      /\ [response |-> k.att.response, responseHash |-> k.att.responseHash] \in during[c]
      /\ \E m \in made : m.requestHash = k.att.requestHash /\ m.response = k.att.response
                         /\ {m.evidence} = k.got
      /\ \A e \in k.got : k.att.response \in {0, 100} =>
           (k.att.response = 100 <=> e.decision = "transact")
=============================================================================
