----------------------------- MODULE Negotiation -----------------------------
(***************************************************************************)
(* Salted-commitment redaction (redaction.ts) and the fields a policy asks   *)
(* an agent to reveal (negotiate.ts), against the predicates of verify.ts.   *)
(*                                                                           *)
(* A document is its meta data and a function from the fields it has to      *)
(* their values.  A commitment is ideal: the pair of value and salt, and a   *)
(* salt is named by the preparation it was drawn for and its field.          *)
(***************************************************************************)
EXTENDS Policy

CONSTANTS
  Prepared,     \* the documents the agent prepares
  AskedPolicy,  \* the policies verifiers ask it with
  MaxPrepared   \* bound of the model on preparations, and on views

ASSUME NegotiationAssumption == MaxPrepared \in Nat

VARIABLES
  holders,    \* what the agent retains of each preparation
  views,      \* the views it has sent
  judged,     \* {} or the answer satisfiesPolicy just gave
  opened      \* {} or the answer of the equality backend to a proof just presented

negotiation == <<holders, views, judged, opened>>

RedactableFields ==
  {"systemPrompt", "constitution", "tools", "capital", "operator", "history", "redTeam",
   "model", "provenance"}

Commit(value, salt) == [value |-> value, salt |-> salt]

PrepareRedactable(d, key, n) ==
  LET present == DOMAIN d.fields \cap RedactableFields
      salts == [f \in present |-> <<n, f>>]
      commitments == [f \in present |-> Commit(d.fields[f], salts[f])]
  IN  [meta |-> d.meta, commitments |-> commitments, publicKey |-> key,
       signature |-> SignMessage([meta |-> d.meta, commitments |-> commitments], key),
       fields |-> [f \in present |-> d.fields[f]], salts |-> salts]

(* Only a field that was committed to is revealed. *)
Reveal(h, fields) ==
  [meta |-> h.meta, commitments |-> h.commitments, publicKey |-> h.publicKey,
   signature |-> h.signature,
   revealed |-> [f \in fields \cap DOMAIN h.commitments |->
                   [value |-> h.fields[f], salt |-> h.salts[f]]]]

(* A slip: that a revealed field has some commitment is enough. *)
VerifyCommitted(view) ==
  /\ view.meta.agentId = view.publicKey
  /\ VerifyMessage([meta |-> view.meta, commitments |-> view.commitments],
                   view.publicKey, view.signature)
  /\ DOMAIN view.revealed \subseteq DOMAIN view.commitments

VerifyRedacted(view) ==
  /\ view.meta.agentId = view.publicKey
  /\ VerifyMessage([meta |-> view.meta, commitments |-> view.commitments],
                   view.publicKey, view.signature)
  /\ \A f \in DOMAIN view.revealed :
       /\ f \in DOMAIN view.commitments
       /\ view.commitments[f] = Commit(view.revealed[f].value, view.revealed[f].salt)

(* A slip: the model a policy allows is forgotten. *)
RequiredFieldsButModel(policy) ==
  LET asked == [constitution |-> policy.requireEnforcedConstitution
                                 \/ policy.requiredHardConstraints # {},
                redTeam      |-> policy.requireRedTeam \/ policy.minRedTeamGrade # {},
                capital      |-> policy.requireNonCustodial,
                operator     |-> policy.minAttestationLevel # {},
                history      |-> policy.requireDeploymentHistory \/ policy.requireAuditAnchor,
                model        |-> policy.requireModelFingerprint,
                provenance   |-> policy.requireProvenanceFor # {}]
  IN  {f \in DOMAIN asked : asked[f]}

(* The limit on hard fails counts here only when the policy states one; the      *)
(* operator's reputation does not count.                                         *)
RequiredFields(policy) ==
  LET asked == [constitution |-> policy.requireEnforcedConstitution
                                 \/ policy.requiredHardConstraints # {},
                redTeam      |-> \/ policy.requireRedTeam \/ policy.minRedTeamGrade # {}
                                 \/ policy.statesHardFails,
                capital      |-> policy.requireNonCustodial,
                operator     |-> policy.minAttestationLevel # {},
                history      |-> policy.requireDeploymentHistory \/ policy.requireAuditAnchor,
                model        |-> \/ policy.requireModelFingerprint
                                 \/ policy.allowedModelDigests # {},
                provenance   |-> policy.requireProvenanceFor # {}]
  IN  {f \in DOMAIN asked : asked[f]}

DiscloseFor(h, policy) == Reveal(h, RequiredFields(policy))

SatisfiesPolicy(view, policy) ==
  VerifyRedacted(view) /\ RequiredFields(policy) \subseteq DOMAIN view.revealed

(* The equality backend of zk.ts: the value is opened.  {} when it throws.         *)
ProveEquals(h, field, asserted) ==
  IF Commit(h.fields[field], h.salts[field]) = h.commitments[field] /\ h.fields[field] = asserted
  THEN {[kind |-> "equals", asserted |-> asserted, commitment |-> h.commitments[field],
         value |-> h.fields[field], salt |-> h.salts[field]]}
  ELSE {}

VerifyEquals(proof) ==
  /\ proof.kind = "equals"
  /\ Commit(proof.value, proof.salt) = proof.commitment
  /\ proof.value = proof.asserted

---------------------------------------------------------------------------
NegotiationInit == holders = {} /\ views = {} /\ judged = {} /\ opened = {}

Prepare ==
  /\ Cardinality(holders) < MaxPrepared
  /\ \E d \in Prepared :
       holders' = holders \cup {PrepareRedactable(d, d.meta.agentId, Cardinality(holders))}
  /\ judged' = {} /\ opened' = {}
  /\ UNCHANGED views

Disclose ==
  /\ Cardinality(views) < MaxPrepared
  /\ \E h \in holders, policy \in AskedPolicy : views' = views \cup {DiscloseFor(h, policy)}
  /\ judged' = {} /\ opened' = {}
  /\ UNCHANGED holders

(* A view may arrive late, at a verifier with another policy, or with the fields  *)
(* revealed of another view.                                                      *)
Judge ==
  /\ judged = {} /\ opened = {}
  /\ \E v, w \in views, policy \in AskedPolicy :
       LET got == [v EXCEPT !.revealed = w.revealed] IN
       judged' = {[view |-> got, policy |-> policy, ok |-> SatisfiesPolicy(got, policy)]}
  /\ UNCHANGED <<holders, views, opened>>

(* A proof may be presented for the value another document has of that field. *)
OpenField ==
  /\ opened = {}
  /\ \E h, other \in holders : \E f \in DOMAIN h.fields \cap DOMAIN other.fields :
       \E proof \in ProveEquals(h, f, h.fields[f]) :
         LET got == [proof EXCEPT !.asserted = other.fields[f]] IN
         opened' = {[proof |-> got, ok |-> VerifyEquals(got)]}
  /\ judged' = {}
  /\ UNCHANGED <<holders, views>>

NegotiationNext == Prepare \/ Disclose \/ Judge \/ OpenField

---------------------------------------------------------------------------
(* The claims verify.ts reads, of the fields that are there. *)
ClaimsOf(meta, fields) ==
  LET has(f) == f \in DOMAIN fields IN
  [enforced        |-> has("constitution") /\ fields["constitution"].enforced,
   hardConstraints |-> IF has("constitution") THEN fields["constitution"].hardConstraints ELSE {},
   redTeam         |-> IF has("redTeam") THEN fields["redTeam"] ELSE {},
   custody         |-> IF has("capital") THEN fields["capital"] ELSE "undisclosed",
   level           |-> IF has("operator") THEN fields["operator"].level ELSE "none",
   operatorId      |-> IF has("operator") THEN fields["operator"].operatorId ELSE "undisclosed",
   totalDecisions  |-> IF has("history") THEN fields["history"] ELSE 0,
   model           |-> IF has("model") THEN fields["model"] ELSE {},
   provenance      |-> IF has("provenance") THEN fields["provenance"] ELSE {},
   anchored        |-> meta.anchored]

Refusals(claims, policy) ==
  {check \in ChecksRun(claims, policy) \ EnvelopeCheck : ~ClaimPasses(check, claims, policy)}

Revealed(view) == [f \in DOMAIN view.revealed |-> view.revealed[f].value]

Source(view) == {h \in holders : h.meta = view.meta /\ h.commitments = view.commitments}

(* A sufficient view shows the fields of one document its agent prepared: what    *)
(* was revealed of another document, or with another salt, does not pass; and a   *)
(* commitment is shown equal to no value but the one it was made for               *)
(* (redaction.ts:154-177, zk.ts:97-140).                                          *)
RevealedWasCommitted ==
  /\ \A o \in opened : o.ok =>
       \E h \in holders : \E f \in DOMAIN h.fields :
         h.salts[f] = o.proof.commitment.salt /\ h.fields[f] = o.proof.asserted
  /\ \A j \in judged : j.ok =>
       \E h \in Source(j.view) : \A f \in DOMAIN j.view.revealed :
         f \in DOMAIN h.fields /\ Revealed(j.view)[f] = h.fields[f]

(* The checks that run without the policy asking for what they read: the          *)
(* reputation of the operator, and the limit of 0 hard fails that a policy which    *)
(* states none gets (verify.ts:136, 193).                                           *)
NotAsked(policy) ==
  {"operatorReputation"} \cup (IF policy.statesHardFails THEN {} ELSE {"redTeamHardFails"})

(* A predicate whose field the policy asks for fails on a sufficient view exactly   *)
(* where it fails on the whole document, though views are late, put together or     *)
(* made for another policy.  Of the two checks of NotAsked this is not so: a red    *)
(* team withheld may turn a refuse into a transact, see SufficientViewReachesVerdict *)
(* (negotiate.ts:17-57 against verify.ts:83-208).                                   *)
SufficientViewDecides ==
  \A j \in judged : j.ok => \A h \in Source(j.view) :
    Refusals(ClaimsOf(j.view.meta, Revealed(j.view)), j.policy) \ NotAsked(j.policy)
      = Refusals(ClaimsOf(h.meta, h.fields), j.policy) \ NotAsked(j.policy)

(* What the header says of the fields a policy implies, that a verifier needs no    *)
(* other to reach a verdict (negotiate.ts:3-4): the verdict on a sufficient view is  *)
(* the one on the whole document.                                                   *)
SufficientViewReachesVerdict ==
  \A j \in judged : j.ok => \A h \in Source(j.view) :
    Refusals(ClaimsOf(j.view.meta, Revealed(j.view)), j.policy) = {}
      <=> Refusals(ClaimsOf(h.meta, h.fields), j.policy) = {}
=============================================================================
