----------------------------- MODULE AgentCard -----------------------------
(***************************************************************************)
(* A2A Agent Cards that carry a disclosure (a2a.ts).  A card's extensions    *)
(* are a function from their uri to their params; the optional members of    *)
(* params are sets of at most one element.  JCS is injective, so the card    *)
(* without its signatures stands for the bytes that are signed.  The key a   *)
(* signature carries in its unprotected header is "jwk", {} if none.         *)
(***************************************************************************)
EXTENDS Attestation, TLC

AdpExtensionUri == "adp"

(* {} where the code throws: nothing to carry. *)
DisclosureExtension(signed, embed, url) ==
  IF ~embed /\ url = {} THEN {}
  ELSE {[agentId |-> signed.disclosure.agentId,
         disclosure |-> IF embed THEN {signed} ELSE {}, url |-> url]}

(* An entry with the same uri is replaced. *)
WithDisclosureExtension(card, params) ==
  [card EXCEPT !.extensions = (AdpExtensionUri :> params) @@ card.extensions]

ExtractDisclosure(card) ==
  IF AdpExtensionUri \in DOMAIN card.extensions
  THEN card.extensions[AdpExtensionUri].disclosure ELSE {}

CanonicalCardPayload(card) == [name |-> card.name, extensions |-> card.extensions]

CardSigningInput(header, card) == [header |-> header, payload |-> CanonicalCardPayload(card)]

(* Only EdDSA is produced; kid is {} when not given. *)
SignAgentCard(card, key, kid) ==
  LET header == [alg |-> "EdDSA", kid |-> kid]
  IN  [card EXCEPT !.signatures = @ \cup
         {[header |-> header, jwk |-> {},
           value |-> SignMessage(CardSigningInput(header, card), key)]}]

---------------------------------------------------------------------------
(* resolve: the caller's resolver, a function of the kids it knows.  It wins    *)
(* over the key a signature brings along.                                       *)
Resolved(sig, resolve) == {resolve[kid] : kid \in sig.header.kid \cap DOMAIN resolve}

ResolveEdDsaKey(sig, resolve) ==
  IF Resolved(sig, resolve) # {} THEN Resolved(sig, resolve) ELSE sig.jwk

SignatureHolds(card, sig, key) ==
  VerifyMessage(CardSigningInput(sig.header, card), key, sig.value)

(* The signer, when it is recoverable; the other algorithms name none. *)
CardSigners(card, sig, resolve) ==
  {key \in ResolveEdDsaKey(sig, resolve) :
     sig.header.alg = "EdDSA" /\ SignatureHolds(card, sig, key)}

VerifyAgentCardSignature(card, sig, resolve) ==
  \/ CardSigners(card, sig, resolve) # {}
  \/ /\ sig.header.alg \in {"ES256", "RS256"}
     /\ \E key \in Resolved(sig, resolve) : SignatureHolds(card, sig, key)

SignerBindsToAgentId(key, agentId) == key = agentId \/ AgentIdToDidKey(key) = agentId

(* A slip: any signer of the card will do. *)
BoundToAnySigner(card, signed, resolve) ==
  \E sig \in card.signatures : VerifyAgentCardSignature(card, sig, resolve)

BoundToCardSigner(card, signed, resolve) ==
  \E sig \in card.signatures : \E key \in CardSigners(card, sig, resolve) :
    SignerBindsToAgentId(key, signed.disclosure.agentId)

(* fetched: a disclosure the caller has from elsewhere, {} if none; it takes     *)
(* precedence.  A card signature that fails does not fail the disclosure.        *)
CardDisclosure(card, fetched) == IF fetched # {} THEN fetched ELSE ExtractDisclosure(card)

VerifyCardDisclosure(card, fetched, resolve) ==
  \E signed \in CardDisclosure(card, fetched) : VerifyAnyDisclosureSignature(signed)

CardSignatureChecked(card, resolve) ==
  \E sig \in card.signatures : VerifyAgentCardSignature(card, sig, resolve)
=============================================================================
