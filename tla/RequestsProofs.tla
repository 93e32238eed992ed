--------------------------- MODULE RequestsProofs ---------------------------
(***************************************************************************)
(* Theorems about Requests, for any parties, agents, options and clock.  The  *)
(* signed part of whatever the network delivers is that of a request an       *)
(* agent signed; a call that gets past its checks pins the rest to it.  What  *)
(* an agent signed reads back as it was written, so that an honest request is *)
(* not refused.                                                               *)
(***************************************************************************)
EXTENDS Requests, NumberLemmas, SequenceTheorems

Kind == {"siwa", "tap", "sdjwt", "card"}

AtMostOne(S) == \A a, b \in S : a = b

---------------------------------------------------------------------------
(* What the agents sign. *)
WireOfKind(r) ==
  /\ r.kind \in Kind
  /\ r.kind = "siwa" => /\ DOMAIN r.wire = {"text", "walletSignature"}
                        /\ r.wire.walletSignature.over = r.wire.text
  /\ r.kind = "tap" =>
       /\ DOMAIN r.wire = {"signatureAgent", "signatureInput", "tapSignature", "adpDisclosure"}
       /\ r.wire.tapSignature.value.over.params = r.wire.signatureInput.params
       /\ AtMostOne(r.wire.adpDisclosure)
  /\ r.kind = "sdjwt" =>
       /\ DOMAIN r.wire = {"jwt", "disclosures", "kb", "terminated"}
       /\ \A kb \in r.wire.kb : kb.payload.sdHash = Presented(r.wire.jwt, r.wire.disclosures)
  /\ r.kind = "card" => DOMAIN r.wire = {"name", "extensions", "signatures"}

SentHolds == \A r \in sent : WireOfKind(r)

(* The signed part of a request is that of one that was sent. *)
SignedPart(r, s) ==
  /\ r.kind = "siwa" => s.wire.walletSignature = r.wire.walletSignature
  /\ r.kind = "tap" => /\ s.wire.tapSignature = r.wire.tapSignature
                       /\ AtMostOne(r.wire.adpDisclosure)
  /\ r.kind = "sdjwt" => r.wire.kb = {} \/ r.wire.kb = s.wire.kb
  /\ r.kind = "card" => s.wire.signatures = r.wire.signatures

SignedPartSent(r) == \E s \in sent : s.kind = r.kind /\ SignedPart(r, s)

LEMMA OriginalIsSigned ==
  ASSUME NEW q, WireOfKind(q)
  PROVE  SignedPart(q, q)
BY DEF WireOfKind, SignedPart

LEMMA EditedIsSigned ==
  ASSUME NEW q, WireOfKind(q), NEW r \in Edited(q)
  PROVE  r.kind = q.kind /\ SignedPart(r, q)
<1>1. CASE q.kind = "siwa"
  <2>1. PICK text : r = Instead(q, [q.wire EXCEPT !.text = text])
    BY <1>1 DEF Edited
  <2>2. QED
    BY <1>1, <2>1 DEF Instead, WireOfKind, SignedPart
<1>2. CASE q.kind = "tap"
  <2>1. r = Instead(q, [q.wire EXCEPT !.signatureInput = Postponed(@)])
    BY <1>2 DEF Edited
  <2>2. QED
    BY <1>2, <2>1 DEF Instead, WireOfKind, SignedPart
<1>3. CASE q.kind = "sdjwt"
  <2>1. r = Instead(q, [jwt |-> q.wire.jwt, disclosures |-> q.wire.disclosures,
                        kb |-> {}, terminated |-> TRUE])
    BY <1>3 DEF Edited
  <2>2. QED
    BY <1>3, <2>1 DEF Instead, SignedPart
<1>4. CASE q.kind = "card"
  BY <1>4 DEF Edited
<1>5. QED
  BY <1>1, <1>2, <1>3, <1>4 DEF WireOfKind, Kind

LEMMA RecombinedIsSigned ==
  ASSUME NEW q, NEW s, WireOfKind(q), WireOfKind(s), q.kind = s.kind
  PROVE  LET r == Recombined(q, s)
         IN  r.kind = q.kind /\ (SignedPart(r, q) \/ SignedPart(r, s))
<1>1. CASE q.kind = "siwa"
  BY <1>1 DEF Recombined, Instead, WireOfKind, SignedPart
<1>2. CASE q.kind = "tap"
  BY <1>2 DEF Recombined, Instead, WireOfKind, SignedPart
<1>3. CASE q.kind = "sdjwt"
  BY <1>3 DEF Recombined, Instead, WireOfKind, SignedPart
<1>4. CASE q.kind = "card"
  BY <1>4 DEF Recombined, Instead, WireOfKind, SignedPart
<1>5. QED
  BY <1>1, <1>2, <1>3, <1>4 DEF WireOfKind, Kind

LEMMA ArrivingIsSigned ==
  ASSUME SentHolds, NEW kind \in Kind, NEW r \in Arriving(kind)
  PROVE  r.kind = kind /\ SignedPartSent(r)
<1> DEFINE those == {q \in sent : q.kind = kind}
<1>0. \A q \in those : WireOfKind(q) /\ q \in sent /\ q.kind = kind
  BY DEF SentHolds
<1>1. CASE r \in those
  BY <1>0, <1>1, OriginalIsSigned DEF SignedPartSent
<1>2. CASE \E q \in those : r \in Edited(q)
  BY <1>0, <1>2, EditedIsSigned DEF SignedPartSent
<1>3. CASE \E q, s \in those : r = Recombined(q, s)
  <2>1. PICK q \in those, s \in those : r = Recombined(q, s)
    BY <1>3
  <2>2. r.kind = q.kind /\ (SignedPart(r, q) \/ SignedPart(r, s))
    BY <1>0, <2>1, RecombinedIsSigned
  <2>3. QED
    BY <1>0, <2>2 DEF SignedPartSent
<1>4. QED
  <2>1. Arriving(kind) = those \cup (UNION {Edited(q) : q \in those})
                               \cup {Recombined(q, s) : q, s \in those}
    BY DEF Arriving
  <2>2. QED
    BY <1>1, <1>2, <1>3, <2>1

---------------------------------------------------------------------------
(* What the checks find, kind by kind. *)
LEMMA ParsedOnce ==
  ASSUME NEW text, NEW m \in ParseSiwaMessage(text), NEW n \in ParseSiwaMessage(text)
  PROVE  m = n
BY DEF ParseSiwaMessage

LEMMA TapSigned ==
  ASSUME NEW wire, NEW authority, NEW path, NEW key, AtMostOne(wire.adpDisclosure),
         VerifyTapRequest(wire, authority, path, key, TRUE)
  PROVE  /\ wire.tapSignature.value.over =
              [authority |-> authority, path |-> path, params |-> wire.signatureInput.params]
         /\ \A signed \in wire.adpDisclosure :
              signed.disclosure.agentId = wire.tapSignature.value.by
<1> DEFINE header == wire.signatureInput
           material == TapMaterial(header, authority, path)
<1>1. header = TapSignatureInput(material)
  BY DEF VerifyTapRequest, TapSignatureHolds
<1>2. wire.tapSignature.value = SignMessage(TapSignatureBase(material), key)
  BY DEF VerifyTapRequest, TapSignatureHolds, ParseTapSignatureValue, VerifyMessage
<1>3. header.params = SignatureParams(material)
  BY <1>1 DEF TapSignatureInput
<1>4. TapSignatureBase(material) =
        [authority |-> authority, path |-> path, params |-> header.params]
  BY <1>3 DEF TapSignatureBase, TapMaterial
<1>5. wire.tapSignature.value.by = key
  BY <1>2 DEF SignMessage
<1>6. ASSUME NEW signed \in wire.adpDisclosure
      PROVE  signed.disclosure.agentId = key
  <2>1. BoundToDisclosure(wire, key)
    BY <1>6 DEF VerifyTapRequest, ExtractTapDisclosure
  <2>2. QED
    BY <1>6, <2>1 DEF BoundToDisclosure, ExtractTapDisclosure, AtMostOne
<1>7. wire.tapSignature.value.over = TapSignatureBase(material)
  BY <1>2 DEF SignMessage
<1>8. QED
  BY <1>4, <1>5, <1>6, <1>7

PresentationHolds(wire, opts) ==
  VerifySdJwtVc(wire, opts) \/ VerifySdJwtVcWithLib(wire, opts)

LEMMA PresentationBound ==
  ASSUME NEW wire, NEW p, NEW challenge, NEW now,
         PresentationHolds(wire, PresentationOptions(p, challenge, now))
  PROVE  \E kb \in wire.kb :
           /\ kb.payload.sdHash = Presented(wire.jwt, wire.disclosures)
           /\ kb.payload.aud = Rules[p].domain
           /\ \A n \in challenge : kb.payload.nonce = n
<1> DEFINE opts == PresentationOptions(p, challenge, now)
<1>1. opts.aud = {Rules[p].domain} /\ opts.nonce = challenge
  BY DEF PresentationOptions
<1>2. KbRequired(opts)
  BY <1>1 DEF KbRequired
<1>3. CASE VerifySdJwtVc(wire, opts)
  BY <1>1, <1>2, <1>3 DEF VerifySdJwtVc, KeyBindingHolds
<1>4. CASE VerifySdJwtVcWithLib(wire, opts)
  BY <1>1, <1>2, <1>4 DEF VerifySdJwtVcWithLib, SdJwtLibraryAccepts
<1>5. QED
  BY <1>3, <1>4 DEF PresentationHolds

---------------------------------------------------------------------------
(* The inductive invariant.  CallSound is what the label of a call says of the   *)
(* call; no step changes the call afterwards.                                    *)
MessageOf(k) == CHOOSE m \in k.message : TRUE

SignInStages == {"recover", "registry", "accepted"}

CallSound(label, k) ==
  /\ k.party \in Party
  /\ label \in {"recover", "registry"} => k.request.kind = "siwa"
  /\ label = "key" => k.request.kind = "tap"
  /\ label = "library" => k.request.kind = "sdjwt"
  /\ k.request.kind = "siwa" /\ label \in SignInStages =>
       /\ MessageOf(k).domain = Rules[k.party].domain
       /\ InSiwaWindow(MessageOf(k), k.at)
  /\ k.request.kind = "siwa" /\ label \in {"registry", "accepted"} =>
       SignedByAddress(MessageOf(k), k.request.wire.walletSignature)
  /\ k.request.kind = "tap" /\ label \in {"key", "accepted"} =>
       InTapWindow(k.request.wire.signatureInput.params, k.at)
  /\ k.request.kind = "tap" /\ label = "accepted" =>
       \E key : VerifyTapRequest(k.request.wire, Rules[k.party].domain, Rules[k.party].path,
                                 key, TRUE)
  /\ k.request.kind = "sdjwt" /\ label \in {"library", "accepted"} =>
       \E n : k.challenge = {n}
  /\ k.request.kind = "sdjwt" /\ label = "accepted" =>
       PresentationHolds(k.request.wire, PresentationOptions(k.party, k.challenge, k.at))
  /\ k.request.kind = "card" /\ label = "accepted" => CardBound(k.request.wire, CardResolver)

Shapes ==
  /\ pc = [c \in Call |-> pc[c]]
  /\ call = [c \in Call |-> call[c]]

CallsHold ==
  \A c \in Call : pc[c] # "idle" =>
    CallSound(pc[c], call[c]) /\ SignedPartSent(call[c].request)

RequestsInv == Shapes /\ SentHolds /\ CallsHold

(* What a call that begins sees to, whatever its kind. *)
Begun(c, p, r, label, k) ==
  /\ pc[c] = "idle"
  /\ sent' = sent
  /\ pc' = [pc EXCEPT ![c] = label]
  /\ call' = [call EXCEPT ![c] = k]
  /\ k.party = p /\ k.request = r
  /\ CallSound(label, k)

LEMMA BegunKeeps ==
  ASSUME RequestsInv, NEW c \in Call, NEW p \in Party, NEW r, SignedPartSent(r),
         NEW label, NEW k, Begun(c, p, r, label, k)
  PROVE  RequestsInv'
<1>1. pc'[c] = label /\ call'[c] = k
  BY DEF RequestsInv, Shapes, Begun
<1>2. \A d \in Call \ {c} : pc'[d] = pc[d] /\ call'[d] = call[d]
  BY DEF RequestsInv, Shapes, Begun
<1>4. Shapes'
  BY DEF RequestsInv, Shapes, Begun
<1>5. SentHolds'
  BY DEF RequestsInv, SentHolds, Begun
<1>6. CallsHold'
  <2>1. SignedPartSent(k.request)'
    BY DEF Begun, SignedPartSent
  <2>2. \A d \in Call \ {c} : pc[d] # "idle" => SignedPartSent(call[d].request)'
    BY <1>2 DEF RequestsInv, CallsHold, Begun, SignedPartSent
  <2>3. CallSound(pc'[c], call'[c])
    BY <1>1 DEF Begun
  <2>4. \A d \in Call \ {c} : pc'[d] # "idle" => CallSound(pc'[d], call'[d])
    BY <1>2 DEF RequestsInv, CallsHold
  <2>5. QED
    BY <1>1, <1>2, <2>1, <2>2, <2>3, <2>4 DEF CallsHold
<1>7. QED
  BY <1>4, <1>5, <1>6 DEF RequestsInv

---------------------------------------------------------------------------
LEMMA SiwaBegins ==
  ASSUME RequestsInv, NEW c \in Call, NEW p \in Party, NEW r, r.kind = "siwa", VerifySiwa(c, p, r)
  PROVE  \E label, k : Begun(c, p, r, label, k)
<1> DEFINE parsed == ParseSiwaMessage(r.wire.text)
           asked == {m \in parsed : /\ \A e \in Rules[p].expected : AgreesWithBinding(m, e)
                                    /\ SiwaAsksNonce(m, Rules[p].domain)}
           opens == {m \in asked : SiwaOpens(m, Rules[p].domain, open[p], clock)}
           k == [party |-> p, request |-> r, at |-> clock, message |-> parsed, challenge |-> {}]
           label == IF opens = {} THEN "refused" ELSE "recover"
<1>1. /\ pc[c] = "idle" /\ sent' = sent
      /\ pc' = [pc EXCEPT ![c] = label]
      /\ call' = [call EXCEPT ![c] = k]
  BY DEF VerifySiwa, Start, Goto
<1>2. label = "recover" =>
        /\ MessageOf(k).domain = Rules[p].domain
        /\ InSiwaWindow(MessageOf(k), clock)
  <2>1. SUFFICES ASSUME opens # {}
                 PROVE  /\ MessageOf(k).domain = Rules[p].domain
                        /\ InSiwaWindow(MessageOf(k), clock)
    OBVIOUS
  <2>2. PICK m \in opens : TRUE
    BY <2>1
  <2>3. m \in parsed /\ m \in asked
    OBVIOUS
  <2>4. MessageOf(k) \in parsed
    BY <2>3 DEF MessageOf
  <2>5. MessageOf(k) = m
    BY <2>3, <2>4, ParsedOnce
  <2>6. SiwaOpens(m, Rules[p].domain, open[p], clock)
    OBVIOUS
  <2>7. QED
    BY <2>3, <2>5, <2>6 DEF SiwaOpens, SiwaAsksNonce
<1>3. CallSound(label, k)
  <2>1. k.party = p /\ k.request = r /\ k.at = clock /\ label \in {"refused", "recover"}
    OBVIOUS
  <2> HIDE DEF k, label
  <2>2. QED
    BY <1>2, <2>1 DEF CallSound, SignInStages
<1>4. Begun(c, p, r, label, k)
  BY <1>1, <1>3 DEF Begun
<1>5. QED
  BY <1>4

LEMMA TapBegins ==
  ASSUME RequestsInv, NEW c \in Call, NEW p \in Party, NEW r, r.kind = "tap", VerifyTap(c, p, r)
  PROVE  \E label, k : Begun(c, p, r, label, k)
<1> DEFINE k == [party |-> p, request |-> r, at |-> clock, message |-> {}, challenge |-> {}]
           label == IF TapOpens(r.wire, Rules[p].tags, {clock}) THEN "key" ELSE "refused"
<1>1. /\ pc[c] = "idle" /\ sent' = sent
      /\ pc' = [pc EXCEPT ![c] = label]
      /\ call' = [call EXCEPT ![c] = k]
  BY DEF VerifyTap, Start, Goto
<1>3. label = "key" => InTapWindow(r.wire.signatureInput.params, clock)
  BY DEF TapOpens, ParseTapSignatureInput
<1>4. CallSound(label, k)
  BY <1>3 DEF CallSound
<1>5. Begun(c, p, r, label, k)
  BY <1>1, <1>4 DEF Begun
<1>6. QED
  BY <1>5

LEMMA PresentationBegins ==
  ASSUME RequestsInv, NEW c \in Call, NEW p \in Party, NEW r, r.kind = "sdjwt",
         VerifyPresentation(c, p, r)
  PROVE  \E label, k : Begun(c, p, r, label, k)
<1>1. PICK n \in open[p] :
        /\ Start(c, p, r, {}, {n})
        /\ \/ Goto(c, "library")
           \/ Goto(c, IF VerifySdJwtVc(r.wire, PresentationOptions(p, {n}, clock))
                      THEN "accepted" ELSE "refused")
  BY DEF VerifyPresentation
<1> DEFINE k == [party |-> p, request |-> r, at |-> clock, message |-> {}, challenge |-> {n}]
<1>2. PICK label :
        /\ Goto(c, label)
        /\ \/ label \in {"library", "refused"}
           \/ label = "accepted" /\ VerifySdJwtVc(r.wire, PresentationOptions(p, {n}, clock))
  BY <1>1
<1>3. CallSound(label, k)
  BY <1>2 DEF CallSound, PresentationHolds
<1>4. Begun(c, p, r, label, k)
  BY <1>1, <1>2, <1>3 DEF Begun, Start, Goto
<1>5. QED
  BY <1>4

LEMMA CardBegins ==
  ASSUME RequestsInv, NEW c \in Call, NEW p \in Party, NEW r, r.kind = "card", VerifyCard(c, p, r)
  PROVE  \E label, k : Begun(c, p, r, label, k)
<1> DEFINE k == [party |-> p, request |-> r, at |-> clock, message |-> {}, challenge |-> {}]
           label == IF CardBound(r.wire, CardResolver) THEN "accepted" ELSE "refused"
<1>1. /\ pc[c] = "idle" /\ sent' = sent
      /\ pc' = [pc EXCEPT ![c] = label]
      /\ call' = [call EXCEPT ![c] = k]
  BY DEF VerifyCard, Start, Goto
<1>3. CallSound(label, k)
  BY DEF CallSound
<1>4. Begun(c, p, r, label, k)
  BY <1>1, <1>3 DEF Begun
<1>5. QED
  BY <1>4

LEMMA BeginKeeps ==
  ASSUME RequestsInv, NEW c \in Call, Begin(c)
  PROVE  RequestsInv'
<1>1. PICK p \in Party, kind \in Kind :
        \E r \in Arriving(kind) : \E label, k : Begun(c, p, r, label, k)
  <2>1. PICK p \in Party :
          \/ \E r \in Arriving("siwa") : VerifySiwa(c, p, r)
          \/ \E r \in Arriving("tap") : VerifyTap(c, p, r)
          \/ \E r \in Arriving("sdjwt") : VerifyPresentation(c, p, r)
          \/ \E r \in Arriving("card") : VerifyCard(c, p, r)
    BY DEF Begin
  <2>2. SentHolds /\ {"siwa", "tap", "sdjwt", "card"} = Kind
    BY DEF RequestsInv, Kind
  <2>3. \A kind \in Kind : \A r \in Arriving(kind) : r.kind = kind
    BY <2>2, ArrivingIsSigned
  <2>4. QED
    BY <2>1, <2>2, <2>3, SiwaBegins, TapBegins, PresentationBegins, CardBegins
<1>2. PICK r \in Arriving(kind) : \E label, k : Begun(c, p, r, label, k)
  BY <1>1
<1>3. SignedPartSent(r)
  BY ArrivingIsSigned DEF RequestsInv
<1>4. QED
  BY <1>2, <1>3, BegunKeeps

---------------------------------------------------------------------------
(* What a call that goes on sees to. *)
Moved(c, label) ==
  /\ pc[c] # "idle"
  /\ pc' = [pc EXCEPT ![c] = label] /\ UNCHANGED <<sent, call>>
  /\ CallSound(label, call[c])

LEMMA MovedKeeps ==
  ASSUME RequestsInv, NEW c \in Call, NEW label, Moved(c, label)
  PROVE  RequestsInv'
<1>1. pc'[c] = label /\ \A d \in Call \ {c} : pc'[d] = pc[d]
  BY DEF RequestsInv, Shapes, Moved
<1>2. Shapes' /\ SentHolds'
  BY DEF RequestsInv, Shapes, SentHolds, Moved
<1>4. CallsHold'
  <2>1. \A d \in Call : pc'[d] # "idle" =>
          pc[d] # "idle" /\ CallSound(pc'[d], call[d]) /\ SignedPartSent(call[d].request)
    BY <1>1 DEF RequestsInv, CallsHold, Moved
  <2>2. \A r : SignedPartSent(r) => SignedPartSent(r)'
    BY DEF SignedPartSent, Moved
  <2>3. call' = call
    BY DEF Moved
  <2>4. \A d \in Call : call'[d] = call[d]
    BY <2>3
  <2>5. QED
    BY <2>1, <2>2, <2>4 DEF CallsHold
<1>5. QED
  BY <1>2, <1>4 DEF RequestsInv

LEMMA SettleKeeps ==
  ASSUME RequestsInv, NEW c \in Call, Settle(c)
  PROVE  RequestsInv'
<1>0. pc[c] # "idle" => CallSound(pc[c], call[c])
  BY DEF RequestsInv, CallsHold
<1>1. CASE Recovered(c)
  <2>1. PICK label :
          /\ Goto(c, label) /\ label \in {"registry", "accepted", "refused"}
          /\ label # "refused" => SignedByAddress(SignIn(c), call[c].request.wire.walletSignature)
    BY <1>1 DEF Recovered
  <2>2. Await(c, "recover")
    BY <1>1 DEF Recovered
  <2>3. CallSound(label, call[c])
    BY <1>0, <2>1, <2>2 DEF Await, CallSound, SignIn, MessageOf, SignInStages
  <2>4. Moved(c, label)
    BY <2>1, <2>2, <2>3 DEF Moved, Await, Goto, SignInStages
  <2>5. QED
    BY <2>4, MovedKeeps
<1>2. CASE RecoveryFails(c)
  <2>1. CallSound("unrecovered", call[c])
    BY <1>0, <1>2 DEF RecoveryFails, Await, CallSound, SignInStages
  <2>2. Moved(c, "unrecovered")
    BY <1>2, <2>1 DEF RecoveryFails, Moved, Await, Goto, SignInStages
  <2>3. QED
    BY <2>2, MovedKeeps
<1>3. CASE RegistryAnswers(c)
  <2>1. PICK label : Goto(c, label) /\ label \in {"refused", "accepted"}
    BY <1>3 DEF RegistryAnswers
  <2>2. Await(c, "registry")
    BY <1>3 DEF RegistryAnswers
  <2>3. CallSound(label, call[c])
    BY <1>0, <2>1, <2>2 DEF Await, CallSound, SignInStages
  <2>4. Moved(c, label)
    BY <2>1, <2>2, <2>3 DEF Moved, Await, Goto, SignInStages
  <2>5. QED
    BY <2>4, MovedKeeps
<1>4. CASE KeyResolved(c)
  <2> DEFINE wire == call[c].request.wire
             rules == Rules[call[c].party]
  <2>1. PICK label :
          /\ Goto(c, label) /\ label \in {"refused", "accepted"}
          /\ label = "accepted" =>
               \E key : VerifyTapRequest(wire, rules.domain, rules.path, key, TRUE)
    <3>1. PICK known :
            Goto(c, IF \E key \in known :
                         VerifyTapRequest(wire, rules.domain, rules.path, key, TRUE)
                    THEN "accepted" ELSE "refused")
      BY <1>4 DEF KeyResolved
    <3> DEFINE found == \E key \in known :
                          VerifyTapRequest(wire, rules.domain, rules.path, key, TRUE)
               label == IF found THEN "accepted" ELSE "refused"
    <3>2. label = "accepted" => found
      OBVIOUS
    <3>3. label \in {"refused", "accepted"}
      OBVIOUS
    <3>4. Goto(c, label)
      BY <3>1
    <3> HIDE DEF label
    <3>5. QED
      BY <3>2, <3>3, <3>4
  <2>2. Await(c, "key")
    BY <1>4 DEF KeyResolved
  <2>3. CallSound(label, call[c])
    BY <1>0, <2>1, <2>2 DEF Await, CallSound, SignInStages
  <2>4. Moved(c, label)
    BY <1>0, <2>1, <2>2, <2>3 DEF Moved, Await, Goto, CallSound
  <2>5. QED
    BY <2>4, MovedKeeps
<1>5. CASE LibraryAnswers(c)
  <2> DEFINE opts == PresentationOptions(call[c].party, call[c].challenge, call[c].at)
  <2>1. PICK label :
          /\ Goto(c, label) /\ label \in {"refused", "accepted"}
          /\ label = "accepted" => VerifySdJwtVcWithLib(call[c].request.wire, opts)
    BY <1>5 DEF LibraryAnswers
  <2>2. Await(c, "library")
    BY <1>5 DEF LibraryAnswers
  <2>3. CallSound(label, call[c])
    BY <1>0, <2>1, <2>2 DEF Await, CallSound, SignInStages, PresentationHolds
  <2>4. Moved(c, label)
    BY <1>0, <2>1, <2>2, <2>3 DEF Moved, Await, Goto, CallSound
  <2>5. QED
    BY <2>4, MovedKeeps
<1>6. CASE CallRejects(c)
  <2>1. PICK label \in {"registry", "key", "library"} : Await(c, label)
    BY <1>6 DEF CallRejects
  <2>2. Goto(c, "thrown")
    BY <1>6 DEF CallRejects
  <2>3. CallSound("thrown", call[c])
    BY <1>0, <2>1 DEF Await, CallSound, SignInStages
  <2>4. Moved(c, "thrown")
    BY <2>1, <2>2, <2>3 DEF Moved, Await, Goto, SignInStages
  <2>5. QED
    BY <2>4, MovedKeeps
<1>7. QED
  BY <1>1, <1>2, <1>3, <1>4, <1>5, <1>6 DEF Settle

LEMMA SignedAreOfKind ==
  ASSUME SendSignIn \/ SendTap \/ SendPresentation \/ SendCard
  PROVE  \E r : /\ WireOfKind(r) /\ sent' = sent \cup {r}
                /\ \A c \in Call : pc[c] = "idle"
                /\ UNCHANGED <<pc, call>>
<1> DEFINE Goal == \E r : /\ WireOfKind(r) /\ sent' = sent \cup {r}
                          /\ \A c \in Call : pc[c] = "idle"
                          /\ UNCHANGED <<pc, call>>
<1>0. ASSUME NEW kind, NEW wire, Send(kind, wire), WireOfKind([kind |-> kind, wire |-> wire])
      PROVE  Goal
  BY <1>0 DEF Send
<1>1. CASE SendSignIn
  <2>1. PICK o \in SignInOptions :
          Send("siwa", SignSiwa(DisclosureToSiwaMessage(o), o.walletAddress))
    BY <1>1 DEF SendSignIn
  <2>2. \A m, k : WireOfKind([kind |-> "siwa", wire |-> SignSiwa(m, k)])
    BY DEF WireOfKind, Kind, SignSiwa, SignMessage
  <2>3. QED
    BY <1>0, <2>1, <2>2
<1>2. CASE SendTap
  <2>1. PICK o \in TapOptions :
          Send("tap", SignTapRequest(o.signed, o.signatureAgent, o.material, o.key, o.embed))
    BY <1>2 DEF SendTap
  <2>2. \A signed, agent, material, key, embed :
          WireOfKind([kind |-> "tap",
                      wire |-> SignTapRequest(signed, agent, material, key, embed)])
    BY DEF WireOfKind, Kind, AtMostOne, SignTapRequest, SignMessage, TapSignatureBase,
           TapSignatureInput
  <2>3. QED
    BY <1>0, <2>1, <2>2
<1>3. CASE SendPresentation
  <2>1. PICK o \in PresentOptions :
          LET issued == ToSdJwtVc(o.document, o.key, o.holderKey, AdpVct, o.salt, o.decoys)
          IN  Send("sdjwt", PresentSdJwtVc(issued, o.reveal, o.holderKey, o.aud, o.nonce))
    BY <1>3 DEF SendPresentation
  <2>2. ASSUME NEW issued, NEW reveal, NEW key, NEW aud, NEW nonce
        PROVE  WireOfKind([kind |-> "sdjwt",
                           wire |-> PresentSdJwtVc(issued, reveal, key, aud, nonce)])
    <3> DEFINE wire == PresentSdJwtVc(issued, reveal, key, aud, nonce)
    <3>1. PICK kept : wire =
            [jwt |-> issued.jwt, disclosures |-> kept, terminated |-> FALSE,
             kb |-> {Jws("kb+jwt", [aud |-> aud, nonce |-> nonce,
                                    sdHash |-> Presented(issued.jwt, kept)], key)}]
      BY DEF PresentSdJwtVc
    <3> HIDE DEF wire
    <3>2. DOMAIN wire = {"jwt", "disclosures", "kb", "terminated"}
      BY <3>1
    <3>3. \A kb \in wire.kb : kb.payload.sdHash = Presented(wire.jwt, wire.disclosures)
      BY <3>1 DEF Jws
    <3>4. QED
      BY <3>2, <3>3 DEF WireOfKind, Kind, wire
  <2>3. QED
    BY <1>0, <2>1, <2>2
<1>4. CASE SendCard
  <2>1. PICK o \in CardOptions : \E params \in DisclosureExtension(o.signed, o.embed, o.url) :
          \/ Send("card", SignAgentCard(WithDisclosureExtension(o.card, params), o.key, o.kid))
          \/ Send("card", WithDisclosureExtension(SignAgentCard(o.card, o.key, o.kid), params))
    BY <1>4 DEF SendCard
  <2>2. DOMAIN o.card = {"name", "extensions", "signatures"}
    BY RequestsAssumption
  <2>3. \A card, params : DOMAIN WithDisclosureExtension(card, params) = DOMAIN card
    BY DEF WithDisclosureExtension
  <2>4. \A card, key, kid : DOMAIN SignAgentCard(card, key, kid) = DOMAIN card
    BY DEF SignAgentCard
  <2>5. PICK wire : Send("card", wire) /\ DOMAIN wire = DOMAIN o.card
    <3>1. PICK params :
            \/ Send("card", SignAgentCard(WithDisclosureExtension(o.card, params), o.key, o.kid))
            \/ Send("card", WithDisclosureExtension(SignAgentCard(o.card, o.key, o.kid), params))
      BY <2>1
    <3>2. QED
      BY <3>1, <2>3, <2>4
  <2>6. WireOfKind([kind |-> "card", wire |-> wire])
    BY <2>2, <2>5 DEF WireOfKind, Kind
  <2>7. QED
    BY <1>0, <2>5, <2>6
<1>5. QED
  BY <1>1, <1>2, <1>3, <1>4

LEMMA SendKeeps ==
  ASSUME RequestsInv, SendSignIn \/ SendTap \/ SendPresentation \/ SendCard
  PROVE  RequestsInv'
<1>1. PICK r : /\ WireOfKind(r) /\ sent' = sent \cup {r}
               /\ \A c \in Call : pc[c] = "idle"
               /\ UNCHANGED <<pc, call>>
  BY SignedAreOfKind
<1>2. \A c \in Call : pc'[c] = "idle"
  BY <1>1
<1>3. Shapes' /\ SentHolds'
  BY <1>1 DEF RequestsInv, Shapes, SentHolds
<1>4. CallsHold'
  BY <1>2 DEF CallsHold
<1>5. QED
  BY <1>3, <1>4 DEF RequestsInv

LEMMA RequestsStep == RequestsInv /\ [Next]_vars => RequestsInv'
<1> SUFFICES ASSUME RequestsInv, [Next]_vars
             PROVE  RequestsInv'
  OBVIOUS
<1>1. CASE SendSignIn \/ SendTap \/ SendPresentation \/ SendCard
  BY <1>1, SendKeeps
<1>2. CASE \E c \in Call : Begin(c) \/ Settle(c)
  BY <1>2, BeginKeeps, SettleKeeps
<1>3. CASE (\E t \in Token : Transfer(t)) \/ Tick \/ UNCHANGED vars
  <2>1. UNCHANGED <<sent, pc, call>>
    BY <1>3 DEF Transfer, Tick, vars
  <2>2. QED
    BY <2>1 DEF RequestsInv, Shapes, SentHolds, CallsHold, SignedPartSent
<1>4. QED
  BY <1>1, <1>2, <1>3 DEF Next

LEMMA RequestsInvariant == Spec => []RequestsInv
<1>1. Init => RequestsInv
  BY DEF Init, RequestsInv, Shapes, SentHolds, CallsHold
<1>2. QED
  BY <1>1, RequestsStep, PTL DEF Spec

---------------------------------------------------------------------------
(* A sign-in is accepted only on a text its wallet signed, line for line, for   *)
(* this party and within its window.                                            *)
THEOREM SignInsAreMeant == Spec => []SignInWasMeant
<1>1. RequestsInv => SignInWasMeant
  <2> SUFFICES ASSUME RequestsInv, NEW c \in Call, Accepted(c, "siwa")
               PROVE  \E w \in SentOf("siwa") :
                        /\ w.text = FormatSiwaMessage(SignIn(c))
                        /\ w.walletSignature.by = SignIn(c).address
                        /\ SignIn(c).domain = Rules[call[c].party].domain
                        /\ "ExpirationTime" \in DOMAIN SignIn(c).fields =>
                             \A t \in SignIn(c).fields["ExpirationTime"] : t > call[c].at
                        /\ "NotBefore" \in DOMAIN SignIn(c).fields =>
                             \A t \in SignIn(c).fields["NotBefore"] : t <= call[c].at
    BY DEF SignInWasMeant
  <2> DEFINE k == call[c]
  <2>1. pc[c] = "accepted" /\ k.request.kind = "siwa"
    BY DEF Accepted
  <2>2. CallSound("accepted", k) /\ SignedPartSent(k.request)
    BY <2>1 DEF RequestsInv, CallsHold
  <2>3. SignIn(c) = MessageOf(k)
    BY DEF SignIn, MessageOf
  <2>4. PICK s \in sent : s.kind = "siwa" /\ s.wire.walletSignature = k.request.wire.walletSignature
    BY <2>1, <2>2 DEF SignedPartSent, SignedPart
  <2>5. s.wire.walletSignature.over = s.wire.text /\ s.wire \in SentOf("siwa")
    BY <2>4 DEF RequestsInv, SentHolds, WireOfKind, SentOf
  <2>6. SignedByAddress(SignIn(c), s.wire.walletSignature)
    BY <2>1, <2>2, <2>3, <2>4 DEF CallSound
  <2>7. /\ s.wire.text = FormatSiwaMessage(SignIn(c))
        /\ s.wire.walletSignature.by = SignIn(c).address
    BY <2>5, <2>6 DEF SignedByAddress, RecoverWalletAddress
  <2>8. SignIn(c).domain = Rules[k.party].domain /\ InSiwaWindow(SignIn(c), k.at)
    BY <2>1, <2>2, <2>3 DEF CallSound, SignInStages
  <2>9. /\ "ExpirationTime" \in DOMAIN SignIn(c).fields =>
             \A t \in SignIn(c).fields["ExpirationTime"] : t > k.at
        /\ "NotBefore" \in DOMAIN SignIn(c).fields =>
             \A t \in SignIn(c).fields["NotBefore"] : t <= k.at
    BY <2>8 DEF InSiwaWindow
  <2>10. QED
    BY <2>5, <2>7, <2>8, <2>9
<1>2. QED
  BY <1>1, RequestsInvariant, PTL

(* An HTTP request is accepted only if the agent whose disclosure it carries     *)
(* signed its parameters for this party, within their window.                    *)
THEOREM TapRequestsAreMeant == Spec => []TapRequestWasMeant
<1>1. RequestsInv => TapRequestWasMeant
  <2> SUFFICES ASSUME RequestsInv, NEW c \in Call, Accepted(c, "tap")
               PROVE  LET got == call[c].request.wire
                          rules == Rules[call[c].party]
                      IN  \E w \in SentOf("tap") :
                            /\ w.tapSignature.value.over =
                                 [authority |-> rules.domain, path |-> rules.path,
                                  params |-> got.signatureInput.params]
                            /\ InTapWindow(w.signatureInput.params, call[c].at)
                            /\ \A signed \in got.adpDisclosure :
                                 signed.disclosure.agentId = w.tapSignature.value.by
    BY DEF TapRequestWasMeant
  <2> DEFINE k == call[c]
             got == k.request.wire
             rules == Rules[k.party]
  <2>1. pc[c] = "accepted" /\ k.request.kind = "tap"
    BY DEF Accepted
  <2>2. CallSound("accepted", k) /\ SignedPartSent(k.request)
    BY <2>1 DEF RequestsInv, CallsHold
  <2>3. PICK s \in sent : /\ s.kind = "tap" /\ s.wire.tapSignature = got.tapSignature
                          /\ AtMostOne(got.adpDisclosure)
    BY <2>1, <2>2 DEF SignedPartSent, SignedPart
  <2>4. /\ s.wire \in SentOf("tap")
        /\ s.wire.tapSignature.value.over.params = s.wire.signatureInput.params
    BY <2>3 DEF RequestsInv, SentHolds, WireOfKind, SentOf
  <2>5. PICK key : VerifyTapRequest(got, rules.domain, rules.path, key, TRUE)
    BY <2>1, <2>2 DEF CallSound
  <2>6. /\ got.tapSignature.value.over =
             [authority |-> rules.domain, path |-> rules.path,
              params |-> got.signatureInput.params]
        /\ \A signed \in got.adpDisclosure :
             signed.disclosure.agentId = got.tapSignature.value.by
    BY <2>3, <2>5, TapSigned
  <2>7. got.signatureInput.params = s.wire.signatureInput.params
    BY <2>3, <2>4, <2>6
  <2>8. InTapWindow(got.signatureInput.params, k.at)
    BY <2>1, <2>2 DEF CallSound
  <2>9. QED
    BY <2>3, <2>4, <2>6, <2>7, <2>8
<1>2. QED
  BY <1>1, RequestsInvariant, PTL

(* A presentation is accepted only if its holder made it: these Disclosures of   *)
(* this credential, for this party, against this challenge.                      *)
THEOREM PresentationsAreMeant == Spec => []PresentationWasMeant
<1>1. RequestsInv => PresentationWasMeant
  <2> SUFFICES ASSUME RequestsInv, NEW c \in Call, Accepted(c, "sdjwt")
               PROVE  LET got == call[c].request.wire
                      IN  \E w \in SentOf("sdjwt") : \E kb \in w.kb :
                            /\ w.jwt = got.jwt /\ w.disclosures = got.disclosures
                            /\ kb.payload.aud = Rules[call[c].party].domain
                            /\ {kb.payload.nonce} = call[c].challenge
    BY DEF PresentationWasMeant
  <2> DEFINE k == call[c]
             got == k.request.wire
  <2>1. pc[c] = "accepted" /\ k.request.kind = "sdjwt"
    BY DEF Accepted
  <2>2. CallSound("accepted", k) /\ SignedPartSent(k.request)
    BY <2>1 DEF RequestsInv, CallsHold
  <2>3. PICK s \in sent : s.kind = "sdjwt" /\ (got.kb = {} \/ got.kb = s.wire.kb)
    BY <2>1, <2>2 DEF SignedPartSent, SignedPart
  <2>4. /\ s.wire \in SentOf("sdjwt")
        /\ \A kb \in s.wire.kb :
             kb.payload.sdHash = Presented(s.wire.jwt, s.wire.disclosures)
    BY <2>3 DEF RequestsInv, SentHolds, WireOfKind, SentOf
  <2>5. PICK n : k.challenge = {n}
    BY <2>1, <2>2 DEF CallSound
  <2>6. PresentationHolds(got, PresentationOptions(k.party, k.challenge, k.at))
    BY <2>1, <2>2 DEF CallSound
  <2>7. PICK kb \in got.kb : /\ kb.payload.sdHash = Presented(got.jwt, got.disclosures)
                             /\ kb.payload.aud = Rules[k.party].domain
                             /\ \A m \in k.challenge : kb.payload.nonce = m
    BY <2>6, PresentationBound
  <2>8. kb \in s.wire.kb /\ Presented(got.jwt, got.disclosures)
                              = Presented(s.wire.jwt, s.wire.disclosures)
    BY <2>3, <2>4, <2>7
  <2>9. s.wire.jwt = got.jwt /\ s.wire.disclosures = got.disclosures
    BY <2>8 DEF Presented
  <2>10. QED
    BY <2>4, <2>5, <2>7, <2>8, <2>9
<1>2. QED
  BY <1>1, RequestsInvariant, PTL

(* A card is taken for its agent's own only if that agent signed it with its     *)
(* disclosure on it.                                                             *)
THEOREM BoundCardsAreSigned == Spec => []BoundCardWasSigned
<1>1. RequestsInv => BoundCardWasSigned
  <2> SUFFICES ASSUME RequestsInv, NEW c \in Call, Accepted(c, "card")
               PROVE  LET got == call[c].request.wire
                      IN  \E w \in SentOf("card") :
                            \E sig \in w.signatures, signed \in ExtractDisclosure(got) :
                              /\ sig.value.over.payload = CanonicalCardPayload(got)
                              /\ SignerBindsToAgentId(sig.value.by, signed.disclosure.agentId)
    BY DEF BoundCardWasSigned
  <2> DEFINE k == call[c]
             got == k.request.wire
  <2>1. pc[c] = "accepted" /\ k.request.kind = "card"
    BY DEF Accepted
  <2>2. CallSound("accepted", k) /\ SignedPartSent(k.request)
    BY <2>1 DEF RequestsInv, CallsHold
  <2>3. PICK s \in sent : s.kind = "card" /\ s.wire.signatures = got.signatures
    BY <2>1, <2>2 DEF SignedPartSent, SignedPart
  <2>4. PICK signed \in ExtractDisclosure(got) : BoundToCardSigner(got, signed, CardResolver)
    BY <2>1, <2>2 DEF CallSound, CardBound, CardDisclosure
  <2>5. PICK sig \in got.signatures : \E key \in CardSigners(got, sig, CardResolver) :
          SignerBindsToAgentId(key, signed.disclosure.agentId)
    BY <2>4 DEF BoundToCardSigner
  <2>6. PICK key : /\ SignatureHolds(got, sig, key)
                   /\ SignerBindsToAgentId(key, signed.disclosure.agentId)
    BY <2>5 DEF CardSigners
  <2>7. sig.value.by = key /\ sig.value.over.payload = CanonicalCardPayload(got)
    BY <2>6 DEF SignatureHolds, VerifyMessage, SignMessage, CardSigningInput
  <2>8. s.wire \in SentOf("card")
    BY <2>3 DEF SentOf
  <2>9. QED
    BY <2>3, <2>6, <2>7, <2>8
<1>2. QED
  BY <1>1, RequestsInvariant, PTL

---------------------------------------------------------------------------
(* t is what is kept of the first n elements of s. *)
KeptOf(t, n, s, S) ==
  /\ \A i \in 1..Len(t) : \E j \in 1..n : t[i] = s[j] /\ s[j] \in S
  /\ \A j \in 1..n : s[j] \in S => \E i \in 1..Len(t) : t[i] = s[j]
  /\ IsInjective(s) => IsInjective(t)
  /\ n # 0 /\ s[1] \in S => Len(t) # 0 /\ t[1] = s[1]

LEMMA AppendKeepsOrder ==
  ASSUME NEW A, NEW t \in Seq(A), NEW e \in A
  PROVE  /\ Append(t, e) \in Seq(A) /\ Len(Append(t, e)) = Len(t) + 1 /\ Len(t) \in Nat
         /\ \A i \in 1..Len(t) : Append(t, e)[i] = t[i]
         /\ Append(t, e)[Len(t) + 1] = e
BY AppendProperties

LEMMA OneMoreKept ==
  ASSUME NEW A, NEW s \in Seq(A), NEW S, NEW n \in Nat, n < Len(s),
         NEW t \in Seq(A), KeptOf(t, n, s, S), s[n + 1] \in S
  PROVE  KeptOf(Append(t, s[n + 1]), n + 1, s, S)
<1> DEFINE u == Append(t, s[n + 1])
<1>0. n + 1 \in 1..Len(s) /\ s[n + 1] \in A
  OBVIOUS
<1>1. /\ u \in Seq(A) /\ Len(u) = Len(t) + 1 /\ Len(t) \in Nat
      /\ \A i \in 1..Len(t) : u[i] = t[i]
      /\ u[Len(t) + 1] = s[n + 1]
  BY <1>0, AppendKeepsOrder
<1> HIDE DEF u
<1>2. ASSUME NEW i \in 1..Len(u) PROVE \E j \in 1..(n + 1) : u[i] = s[j] /\ s[j] \in S
  <2>1. CASE i \in 1..Len(t)
    <3>1. PICK j \in 1..n : t[i] = s[j] /\ s[j] \in S
      BY <2>1 DEF KeptOf
    <3>2. j \in 1..(n + 1) /\ u[i] = s[j]
      BY <3>1, <2>1, <1>1
    <3>3. QED
      BY <3>1, <3>2
  <2>2. CASE i = Len(t) + 1
    BY <2>2, <1>1
  <2>3. QED
    BY <2>1, <2>2, <1>1
<1>3. ASSUME NEW j \in 1..(n + 1), s[j] \in S PROVE \E i \in 1..Len(u) : u[i] = s[j]
  <2>1. CASE j \in 1..n
    <3>1. PICK i \in 1..Len(t) : t[i] = s[j]
      BY <1>3, <2>1 DEF KeptOf
    <3>2. i \in 1..Len(u) /\ u[i] = s[j]
      BY <3>1, <1>1
    <3>3. QED
      BY <3>2
  <2>2. CASE j = n + 1
    <3>1. Len(t) + 1 \in 1..Len(u)
      BY <1>1
    <3>2. QED
      BY <2>2, <3>1, <1>1
  <2>3. QED
    BY <2>1, <2>2
<1>4. ASSUME IsInjective(s) PROVE IsInjective(u)
  <2>1. DOMAIN u = 1..(Len(t) + 1) /\ DOMAIN t = 1..Len(t) /\ DOMAIN s = 1..Len(s)
    BY <1>1
  <2>2. ASSUME NEW i \in 1..Len(t) PROVE u[i] # u[Len(t) + 1]
    <3>1. PICK j \in 1..n : t[i] = s[j]
      BY DEF KeptOf
    <3>2. j # n + 1 /\ j \in 1..Len(s)
      BY <3>1
    <3>3. s[j] # s[n + 1]
      BY <3>2, <1>0, <1>4, <2>1 DEF IsInjective
    <3>4. QED
      BY <3>1, <3>3, <1>1
  <2>3. ASSUME NEW i \in 1..Len(t), NEW k \in 1..Len(t), u[i] = u[k] PROVE i = k
    BY <2>1, <2>3, <1>1, <1>4 DEF KeptOf, IsInjective
  <2>4. \A i \in 1..(Len(t) + 1) : i \in 1..Len(t) \/ i = Len(t) + 1
    BY <1>1
  <2>5. QED
    BY <2>1, <2>2, <2>3, <2>4 DEF IsInjective
<1>5. ASSUME s[1] \in S PROVE Len(u) # 0 /\ u[1] = s[1]
  <2>1. CASE n = 0
    <3>1. Len(t) = 0
      BY <2>1, <1>1 DEF KeptOf
    <3>2. QED
      BY <2>1, <3>1, <1>1
  <2>2. CASE n # 0
    <3>1. Len(t) # 0 /\ t[1] = s[1]
      BY <1>5, <2>2 DEF KeptOf
    <3>2. QED
      BY <3>1, <1>1
  <2>3. QED
    BY <2>1, <2>2
<1>6. KeptOf(u, n + 1, s, S)
  BY <1>2, <1>3, <1>4, <1>5 DEF KeptOf
<1>7. QED
  BY <1>6 DEF u

LEMMA OneMoreLeft ==
  ASSUME NEW A, NEW s \in Seq(A), NEW S, NEW n \in Nat, n < Len(s),
         NEW t \in Seq(A), KeptOf(t, n, s, S), s[n + 1] \notin S
  PROVE  KeptOf(t, n + 1, s, S)
<1>1. ASSUME NEW i \in 1..Len(t) PROVE \E j \in 1..(n + 1) : t[i] = s[j] /\ s[j] \in S
  <2>1. PICK j \in 1..n : t[i] = s[j] /\ s[j] \in S
    BY DEF KeptOf
  <2>2. j \in 1..(n + 1)
    OBVIOUS
  <2>3. QED
    BY <2>1, <2>2
<1>2. ASSUME NEW j \in 1..(n + 1), s[j] \in S PROVE \E i \in 1..Len(t) : t[i] = s[j]
  <2>1. j \in 1..n
    BY <1>2
  <2>2. QED
    BY <1>2, <2>1 DEF KeptOf
<1>3. ASSUME s[1] \in S PROVE Len(t) # 0 /\ t[1] = s[1]
  <2>1. n # 0
    BY <1>3
  <2>2. QED
    BY <1>3, <2>1 DEF KeptOf
<1>4. IsInjective(s) => IsInjective(t)
  BY DEF KeptOf
<1>5. QED
  BY <1>1, <1>2, <1>3, <1>4 DEF KeptOf

LEMMA SelectedKeeps ==
  ASSUME NEW A, NEW s \in Seq(A), NEW S
  PROVE  Selected(s, S) \in Seq(A) /\ KeptOf(Selected(s, S), Len(s), s, S)
<1> DEFINE last == Len(s)
           Is(g) == g = [n \in 0..last |->
                           IF n = 0 THEN <<>>
                           ELSE IF s[n] \in S THEN Append(g[n - 1], s[n]) ELSE g[n - 1]]
           g == CHOOSE h : Is(h)
           step == [p \in Nat \X Seq(A) |->
                      IF p[1] < last /\ s[p[1] + 1] \in S
                      THEN Append(p[2], s[p[1] + 1]) ELSE p[2]]
<1>1. Selected(s, S) = g[last]
  BY DEF Selected
<1>2. last \in Nat /\ \A n \in 1..last : s[n] \in A
  OBVIOUS
<1>3. step \in [Nat \X Seq(A) -> Seq(A)]
  <2>1. ASSUME NEW p \in Nat \X Seq(A), p[1] < last
        PROVE  Append(p[2], s[p[1] + 1]) \in Seq(A)
    <3>1. p[2] \in Seq(A) /\ p[1] + 1 \in 1..last
      BY <2>1, <1>2
    <3>2. s[p[1] + 1] \in A
      BY <3>1, <1>2
    <3>3. QED
      BY <3>1, <3>2, AppendKeepsOrder
  <2>2. QED
    BY <2>1
<1>4. ASSUME NEW n \in 1..last, NEW t \in Seq(A)
      PROVE  step[<<n - 1, t>>] = IF s[n] \in S THEN Append(t, s[n]) ELSE t
  <2>1. n - 1 \in Nat /\ n - 1 < last /\ (n - 1) + 1 = n /\ <<n - 1, t>> \in Nat \X Seq(A)
    BY <1>2
  <2>2. QED
    BY <2>1
<1>5. << >> \in Seq(A)
  OBVIOUS
<1> HIDE DEF step
<1>6. PICK f : Computes(f, last, Seq(A), <<>>, step)
  BY <1>2, <1>3, <1>5, ComputesExists
<1>7. Is(f)
  <2>1. f \in [0..last -> Seq(A)] /\ f[0] = <<>>
    BY <1>6 DEF Computes
  <2>2. ASSUME NEW n \in 0..last, n # 0
        PROVE  f[n] = IF s[n] \in S THEN Append(f[n - 1], s[n]) ELSE f[n - 1]
    <3>1. n - 1 \in 0..(last - 1) /\ (n - 1) + 1 = n /\ n \in 1..last /\ n - 1 \in 0..last
      BY <2>2, <1>2
    <3>2. f[(n - 1) + 1] = step[<<n - 1, f[n - 1]>>]
      BY <3>1, <1>6 DEF Computes
    <3>3. f[n - 1] \in Seq(A)
      BY <3>1, <2>1
    <3>4. QED
      BY <3>1, <3>2, <3>3, <1>4
  <2>3. f = [n \in 0..last |-> f[n]]
    BY <2>1
  <2>4. QED
    BY <2>1, <2>2, <2>3
<1> HIDE DEF Is
<1>8. Is(g)
  BY <1>7
<1>9. g = [n \in 0..last |-> IF n = 0 THEN <<>>
                             ELSE IF s[n] \in S THEN Append(g[n - 1], s[n]) ELSE g[n - 1]]
  BY <1>8 DEF Is
<1> HIDE DEF g
<1> DEFINE T == {n \in Nat : n <= last => g[n] \in Seq(A) /\ KeptOf(g[n], n, s, S)}
<1>10. 0 \in T
  <2>1. g[0] = <<>>
    BY <1>9, <1>2
  <2>2. KeptOf(<<>>, 0, s, S)
    BY DEF KeptOf, IsInjective
  <2>3. QED
    BY <2>1, <2>2, <1>5
<1>11. ASSUME NEW n \in Nat, n \in T PROVE n + 1 \in T
  <2>1. CASE n + 1 <= last
    <3>1. n < last /\ n + 1 \in 0..last /\ n + 1 # 0 /\ (n + 1) - 1 = n
      BY <2>1, <1>2
    <3>2. g[n] \in Seq(A) /\ KeptOf(g[n], n, s, S)
      BY <1>11, <3>1, <1>2
    <3>3. CASE s[n + 1] \in S
      <4> DEFINE u == Append(g[n], s[n + 1])
      <4>1. g[n + 1] = u
        BY <3>1, <3>3, <1>9
      <4>2. s[n + 1] \in A
        BY <3>1, <1>2
      <4>3. KeptOf(u, n + 1, s, S)
        BY <3>1, <3>2, <3>3, OneMoreKept
      <4>4. u \in Seq(A)
        BY <4>2, <3>2, AppendKeepsOrder
      <4> HIDE DEF u
      <4>5. QED
        BY <4>1, <4>3, <4>4
    <3>4. CASE s[n + 1] \notin S
      <4>1. g[n + 1] = g[n]
        BY <3>1, <3>4, <1>9
      <4>2. KeptOf(g[n], n + 1, s, S)
        BY <3>1, <3>2, <3>4, OneMoreLeft
      <4>3. QED
        BY <4>1, <4>2, <3>2
    <3>5. QED
      BY <3>3, <3>4
  <2>2. QED
    BY <2>1
<1>12. Nat \subseteq T
  <2> HIDE DEF T
  <2>1. QED
    BY <1>10, <1>11, NatSetInduction
<1>13. QED
  BY <1>1, <1>2, <1>12

---------------------------------------------------------------------------
(* A text is four parts, one after the other. *)
InFourParts(t, L, a, b, d) ==
  /\ t \in Seq(L) /\ Len(t) = 4 + Len(b) + Len(d)
  /\ Len(b) \in Nat /\ Len(d) \in Nat
  /\ \A i \in 1..3 : t[i] = a[i]
  /\ \A i \in 1..Len(b) : t[3 + i] = b[i]
  /\ \A i \in 1..Len(d) : t[4 + Len(b) + i] = d[i]

LEMMA FourParts ==
  ASSUME NEW L, NEW a \in Seq(L), NEW b \in Seq(L), NEW z \in Seq(L), NEW d \in Seq(L),
         Len(a) = 3, Len(z) = 1
  PROVE  InFourParts(a \o b \o z \o d, L, a, b, d)
<1> DEFINE u == a \o b
           v == u \o z
           t == v \o d
<1>0. \A p, q \in Seq(L) :
        /\ p \o q \in Seq(L) /\ Len(p \o q) = Len(p) + Len(q)
        /\ \A i \in 1..(Len(p) + Len(q)) :
             (p \o q)[i] = IF i <= Len(p) THEN p[i] ELSE q[i - Len(p)]
  BY ConcatProperties
<1>1. /\ u \in Seq(L) /\ Len(u) = Len(a) + Len(b)
      /\ \A i \in 1..(Len(a) + Len(b)) : u[i] = IF i <= Len(a) THEN a[i] ELSE b[i - Len(a)]
  BY <1>0, Zenon
<1> HIDE DEF u
<1>3. /\ v \in Seq(L) /\ Len(v) = Len(u) + Len(z)
      /\ \A i \in 1..(Len(u) + Len(z)) : v[i] = IF i <= Len(u) THEN u[i] ELSE z[i - Len(u)]
  BY <1>0, <1>1, Zenon
<1> HIDE DEF v
<1>4. /\ t \in Seq(L) /\ Len(t) = Len(v) + Len(d)
      /\ \A i \in 1..(Len(v) + Len(d)) : t[i] = IF i <= Len(v) THEN v[i] ELSE d[i - Len(v)]
  BY <1>0, <1>3, Zenon
<1> HIDE DEF t
<1>5. Len(b) \in Nat /\ Len(d) \in Nat
  OBVIOUS
<1>6. Len(v) = 4 + Len(b) /\ Len(t) = 4 + Len(b) + Len(d)
  BY <1>1, <1>3, <1>4, <1>5
<1>7. ASSUME NEW i \in 1..(3 + Len(b)) PROVE t[i] = IF i <= 3 THEN a[i] ELSE b[i - 3]
  <2>1. i <= Len(u) /\ i <= Len(v) /\ i \in 1..(Len(u) + Len(z)) /\ i \in 1..(Len(v) + Len(d))
    BY <1>1, <1>5, <1>6
  <2>2. t[i] = v[i] /\ v[i] = u[i]
    BY <2>1, <1>3, <1>4
  <2>3. QED
    BY <2>2, <1>1
<1>8. ASSUME NEW i \in 1..3 PROVE t[i] = a[i]
  <2>1. i \in 1..(3 + Len(b)) /\ i <= 3
    BY <1>5
  <2>2. QED
    BY <2>1, <1>7
<1>9. ASSUME NEW i \in 1..Len(b) PROVE t[3 + i] = b[i]
  <2>1. 3 + i \in 1..(3 + Len(b)) /\ ~(3 + i <= 3) /\ (3 + i) - 3 = i
    BY <1>5
  <2>2. QED
    BY <2>1, <1>7
<1>10. ASSUME NEW i \in 1..Len(d) PROVE t[4 + Len(b) + i] = d[i]
  <2> DEFINE j == 4 + Len(b) + i
  <2>1. j \in 1..(Len(v) + Len(d)) /\ ~(j <= Len(v)) /\ j - Len(v) = i
    BY <1>5, <1>6
  <2> HIDE DEF j
  <2>2. t[j] = d[i]
    BY <2>1, <1>4
  <2>3. QED
    BY <2>2 DEF j
<1>11. InFourParts(t, L, a, b, d)
  BY <1>4, <1>5, <1>6, <1>8, <1>9, <1>10 DEF InFourParts
<1>12. QED
  BY <1>11 DEF t, u, v

LEMMA SamePart ==
  ASSUME NEW L, NEW t \in Seq(L), NEW m \in Nat \ {0}, NEW d \in Seq(L), m - 1 + Len(d) <= Len(t),
         \A i \in 1..Len(d) : t[m - 1 + i] = d[i]
  PROVE  SubSeq(t, m, m - 1 + Len(d)) = d
<1> DEFINE n == m - 1 + Len(d)
           s == SubSeq(t, m, n)
<1>0. Len(d) \in Nat /\ Len(t) \in Nat /\ n \in Nat
  OBVIOUS
<1>1. \A i \in m..n : t[i] \in L
  BY <1>0
<1>2. /\ s \in Seq(L) /\ Len(s) = (IF m <= n THEN n - m + 1 ELSE 0)
      /\ \A i \in 1..(n - m + 1) : s[i] = t[m + i - 1]
  BY <1>0, <1>1, SubSeqProperties
<1>3. Len(s) = Len(d) /\ n - m + 1 = Len(d)
  BY <1>0, <1>2
<1> HIDE DEF s
<1>4. ASSUME NEW i \in 1..Len(s) PROVE s[i] = d[i]
  <2>1. i \in 1..Len(d) /\ m + i - 1 = m - 1 + i /\ i \in 1..(n - m + 1)
    BY <1>0, <1>3
  <2>2. QED
    BY <2>1, <1>2
<1>5. s = d
  BY <1>2, <1>3, <1>4, SeqEqual
<1>6. QED
  BY <1>5 DEF s

---------------------------------------------------------------------------
(* The labels. *)
LEMMA LabelsAre ==
  /\ SiwaLabels \in Seq(ToSet(SiwaLabels)) /\ Len(SiwaLabels) = 10 /\ SiwaLabels[1] = "URI"
  /\ IsInjective(SiwaLabels)
  /\ ToSet(SiwaLabels) = {"URI", "Version", "AgentId", "AgentRegistry", "ChainId", "Nonce",
                          "IssuedAt", "ExpirationTime", "NotBefore", "RequestId"}
  /\ RequiredLabels = {"URI", "Version", "AgentId", "AgentRegistry", "ChainId", "Nonce",
                       "IssuedAt"}
<1>1. DOMAIN SiwaLabels = 1..10 /\ Len(SiwaLabels) = 10
  BY DEF SiwaLabels
<1>2. /\ SiwaLabels[1] = "URI" /\ SiwaLabels[2] = "Version" /\ SiwaLabels[3] = "AgentId"
      /\ SiwaLabels[4] = "AgentRegistry" /\ SiwaLabels[5] = "ChainId"
      /\ SiwaLabels[6] = "Nonce" /\ SiwaLabels[7] = "IssuedAt"
      /\ SiwaLabels[8] = "ExpirationTime" /\ SiwaLabels[9] = "NotBefore"
      /\ SiwaLabels[10] = "RequestId"
  BY DEF SiwaLabels
<1>3. SiwaLabels = [i \in 1..10 |-> SiwaLabels[i]]
  BY DEF SiwaLabels
<1>4. 1..10 = {1, 2, 3, 4, 5, 6, 7, 8, 9, 10} /\ 1..7 = {1, 2, 3, 4, 5, 6, 7}
  OBVIOUS
<1>5. SiwaLabels \in Seq(ToSet(SiwaLabels))
  <2>1. \A i \in 1..10 : SiwaLabels[i] \in ToSet(SiwaLabels)
    BY <1>1 DEF ToSet
  <2>2. QED
    BY <1>3, <2>1
<1>6. IsInjective(SiwaLabels)
  <2>1. \A i, j \in {1, 2, 3, 4, 5, 6, 7, 8, 9, 10} : SiwaLabels[i] = SiwaLabels[j] => i = j
    BY <1>2
  <2>2. QED
    BY <2>1, <1>1, <1>4 DEF IsInjective
<1>7. ToSet(SiwaLabels) = {"URI", "Version", "AgentId", "AgentRegistry", "ChainId", "Nonce",
                           "IssuedAt", "ExpirationTime", "NotBefore", "RequestId"}
  <2>1. ToSet(SiwaLabels) = {SiwaLabels[i] : i \in {1, 2, 3, 4, 5, 6, 7, 8, 9, 10}}
    BY <1>1, <1>4 DEF ToSet
  <2>2. QED
    BY <2>1, <1>2
<1>8. RequiredLabels = {"URI", "Version", "AgentId", "AgentRegistry", "ChainId", "Nonce",
                        "IssuedAt"}
  <2> DEFINE s == SubSeq(SiwaLabels, 1, 7)
  <2>1. DOMAIN s = 1..7 /\ \A i \in 1..7 : s[i] = SiwaLabels[i]
    BY <1>5, <1>1
  <2>2. ToSet(s) = {SiwaLabels[i] : i \in {1, 2, 3, 4, 5, 6, 7}}
    BY <2>1, <1>4 DEF ToSet
  <2>3. ToSet(s) = {"URI", "Version", "AgentId", "AgentRegistry", "ChainId", "Nonce",
                    "IssuedAt"}
    BY <2>2, <1>2
  <2>4. QED
    BY <2>3 DEF RequiredLabels
<1>9. QED
  BY <1>1, <1>2, <1>5, <1>6, <1>7, <1>8

---------------------------------------------------------------------------
(* A sign-in text of one URI line reads back as the message it was written for,  *)
(* up to an empty statement.                                                      *)
Body(m) == IF m.statement = <<>> THEN <<BlankLine>> ELSE m.statement

Written(m) == Selected(SiwaLabels, DOMAIN m.fields)

FieldsPart(m) == [i \in DOMAIN Written(m) |-> <<Written(m)[i], m.fields[Written(m)[i]]>>]

Labelled(m) == {<<label, m.fields[label]>> : label \in DOMAIN m.fields}

(* d is the labelled lines of F, one of each, the URI first. *)
LinesOf(d, F) ==
  /\ Len(d) # 0 /\ d[1][1] = "URI"
  /\ \A i \in 1..Len(d) : d[i][1] \in DOMAIN F /\ d[i][2] = F[d[i][1]]
  /\ \A label \in DOMAIN F : \E i \in 1..Len(d) : d[i][1] = label
  /\ \A i, j \in 1..Len(d) : d[i][1] = d[j][1] => i = j

LEMMA FieldsWritten ==
  ASSUME NEW m, DOMAIN m.fields \subseteq ToSet(SiwaLabels), "URI" \in DOMAIN m.fields
  PROVE  FieldsPart(m) \in Seq(Labelled(m)) /\ LinesOf(FieldsPart(m), m.fields)
<1> DEFINE w == Written(m)
           d == FieldsPart(m)
           A == ToSet(SiwaLabels)
           S == DOMAIN m.fields
<1>1. SiwaLabels \in Seq(A) /\ SiwaLabels[1] = "URI" /\ IsInjective(SiwaLabels)
      /\ Len(SiwaLabels) = 10 /\ DOMAIN SiwaLabels = 1..Len(SiwaLabels)
  BY LabelsAre
<1> DEFINE N == Len(SiwaLabels)
<1>2. A = {SiwaLabels[i] : i \in 1..N} /\ N = 10
  BY <1>1 DEF ToSet
<1>3. w \in Seq(A) /\ KeptOf(w, N, SiwaLabels, S)
  <2> HIDE DEF A, S
  <2>1. /\ Selected(SiwaLabels, S) \in Seq(A)
        /\ KeptOf(Selected(SiwaLabels, S), Len(SiwaLabels), SiwaLabels, S)
    BY <1>1, SelectedKeeps
  <2>2. QED
    BY <2>1 DEF Written, S
<1>4. d = [i \in DOMAIN w |-> <<w[i], m.fields[w[i]]>>]
  BY DEF FieldsPart
<1> HIDE DEF w, d, A, N
<1>5. DOMAIN w = 1..Len(w) /\ Len(w) \in Nat
  BY <1>3
<1>6. \A i \in 1..Len(w) : w[i] \in S
  BY <1>3 DEF KeptOf
<1>7. d = [i \in 1..Len(w) |-> <<w[i], m.fields[w[i]]>>]
  BY <1>4, <1>5
<1>8. \A i \in 1..Len(w) : <<w[i], m.fields[w[i]]>> \in Labelled(m)
  BY <1>6 DEF Labelled
<1>9. d \in Seq(Labelled(m)) /\ Len(d) = Len(w)
  BY <1>5, <1>7, <1>8
<1>10. \A i \in 1..Len(w) : d[i][1] = w[i] /\ d[i][2] = m.fields[w[i]]
  BY <1>7
<1>11. Len(w) # 0 /\ w[1] = "URI"
  BY <1>1, <1>2, <1>3 DEF KeptOf
<1>12. 1 \in 1..Len(w)
  BY <1>5, <1>11
<1>13. ASSUME NEW label \in S PROVE \E i \in 1..Len(w) : w[i] = label
  <2>1. PICK j \in 1..N : SiwaLabels[j] = label
    BY <1>2 DEF A
  <2>2. QED
    BY <2>1, <1>3 DEF KeptOf
<1>14. \A i, j \in 1..Len(w) : w[i] = w[j] => i = j
  BY <1>1, <1>3, <1>5 DEF KeptOf, IsInjective
<1>15. LinesOf(d, m.fields)
  BY <1>6, <1>9, <1>10, <1>11, <1>12, <1>13, <1>14 DEF LinesOf
<1>16. QED
  BY <1>9, <1>15 DEF d

LEMMA FieldsRead ==
  ASSUME NEW L, NEW d \in Seq(L), NEW F, F = [label \in DOMAIN F |-> F[label]],
         DOMAIN F \subseteq ToSet(SiwaLabels), LinesOf(d, F)
  PROVE  LET labels == {d[i][1] : i \in DOMAIN d} \cap ToSet(SiwaLabels)
         IN  [label \in labels |-> d[LastLine(d, label)][2]] = F
<1> DEFINE labels == {d[i][1] : i \in DOMAIN d} \cap ToSet(SiwaLabels)
<1>1. DOMAIN d = 1..Len(d) /\ Len(d) \in Nat
  OBVIOUS
<1>2. labels = DOMAIN F
  <2>1. \A i \in DOMAIN d : d[i][1] \in DOMAIN F
    BY <1>1 DEF LinesOf
  <2>2. \A label \in DOMAIN F : \E i \in DOMAIN d : d[i][1] = label
    BY <1>1 DEF LinesOf
  <2>3. QED
    BY <2>1, <2>2
<1>3. ASSUME NEW label \in DOMAIN F PROVE d[LastLine(d, label)][2] = F[label]
  <2>1. PICK i \in 1..Len(d) : d[i][1] = label
    BY DEF LinesOf
  <2>2. \A j \in (i + 1)..Len(d) : d[j][1] # label
    <3>1. \A j \in (i + 1)..Len(d) : j \in 1..Len(d) /\ j # i
      BY <1>1
    <3>2. QED
      BY <3>1, <2>1 DEF LinesOf
  <2>3. LastLine(d, label) \in DOMAIN d /\ d[LastLine(d, label)][1] = label
    BY <1>1, <2>1, <2>2 DEF LastLine
  <2>4. QED
    BY <1>1, <2>3 DEF LinesOf
<1> HIDE DEF labels
<1>4. [label \in labels |-> d[LastLine(d, label)][2]] = F
  BY <1>2, <1>3
<1>5. QED
  BY <1>4 DEF labels

WellFormed(m) ==
  /\ m.statement \in Seq(STRING \X STRING)
  /\ m.fields = [label \in DOMAIN m.fields |-> m.fields[label]]
  /\ RequiredLabels \subseteq DOMAIN m.fields /\ DOMAIN m.fields \subseteq ToSet(SiwaLabels)
  /\ m.fields["Version"] = "1"

ReadBack(m, statement) ==
  [domain |-> m.domain, address |-> m.address, fields |-> m.fields, statement |-> statement]

LEMMA TextParts ==
  ASSUME NEW m, WellFormed(m), NEW text, text = FormatSiwaMessage(m),
         NEW b, b = Body(m), NEW d, d = FieldsPart(m)
  PROVE  /\ Len(text) = 4 + Len(b) + Len(d) /\ Len(b) \in Nat \ {0} /\ Len(d) \in Nat
         /\ DOMAIN text = 1..Len(text)
         /\ text[1] = <<"domain", m.domain>> /\ text[2] = <<"", m.address>>
         /\ \A i \in 1..Len(d) : text[4 + Len(b) + i] = d[i]
         /\ SubSeq(text, 4, 3 + Len(b)) = b
         /\ SubSeq(text, 5 + Len(b), Len(text)) = d
         /\ LinesOf(d, m.fields)
<1> DEFINE a == << <<"domain", m.domain>>, <<"", m.address>>, BlankLine >>
           z == <<BlankLine>>
           heads == {<<"domain", m.domain>>, <<"", m.address>>, BlankLine}
           L == heads \cup (STRING \X STRING) \cup Labelled(m)
<1>1. "URI" \in DOMAIN m.fields
  BY LabelsAre DEF WellFormed
<1>2. d \in Seq(Labelled(m)) /\ LinesOf(d, m.fields)
  BY <1>1, FieldsWritten DEF WellFormed
<1>3. text = a \o b \o z \o d
  BY DEF FormatSiwaMessage, Body, FieldsPart, Written
<1>4. a \in Seq(heads) /\ Len(a) = 3 /\ z \in Seq(heads) /\ Len(z) = 1
  OBVIOUS
<1>5. a[1] = <<"domain", m.domain>> /\ a[2] = <<"", m.address>>
  OBVIOUS
<1>6. (b \in Seq(heads) \/ b \in Seq(STRING \X STRING)) /\ Len(b) \in Nat \ {0}
  <2>1. CASE m.statement = <<>>
    BY <2>1, <1>4 DEF Body
  <2>2. CASE m.statement # <<>>
    <3>1. b = m.statement /\ b \in Seq(STRING \X STRING) /\ b # <<>>
      BY <2>2 DEF Body, WellFormed
    <3> DEFINE S == STRING \X STRING
    <3> HIDE DEF S
    <3>2. b \in Seq(S)
      BY <3>1 DEF S
    <3>3. Len(b) \in Nat /\ Len(b) # 0
      BY <3>1, <3>2, EmptySeq
    <3>4. QED
      BY <3>1, <3>3
  <2>3. QED
    BY <2>1, <2>2
<1> HIDE DEF a, z, heads
<1>7. \A X \in SUBSET L : \A s \in Seq(X) : s \in Seq(L)
  <2> HIDE DEF L
  <2>1. QED
    OBVIOUS
<1>8. a \in Seq(L) /\ z \in Seq(L) /\ b \in Seq(L) /\ d \in Seq(L)
  <2>1. heads \in SUBSET L /\ STRING \X STRING \in SUBSET L /\ Labelled(m) \in SUBSET L
    OBVIOUS
  <2>2. QED
    BY <2>1, <1>2, <1>4, <1>6, <1>7, Zenon
<1> HIDE DEF L
<1>9. /\ text \in Seq(L) /\ Len(text) = 4 + Len(b) + Len(d)
      /\ Len(b) \in Nat /\ Len(d) \in Nat
      /\ \A i \in 1..3 : text[i] = a[i]
      /\ \A i \in 1..Len(b) : text[3 + i] = b[i]
      /\ \A i \in 1..Len(d) : text[4 + Len(b) + i] = d[i]
  <2>1. \A p, q, r, u \in Seq(L) :
          Len(p) = 3 /\ Len(r) = 1 => InFourParts(p \o q \o r \o u, L, p, q, u)
    BY FourParts
  <2>2. InFourParts(a \o b \o z \o d, L, a, b, d)
    BY <2>1, <1>4, <1>8, Zenon
  <2>3. InFourParts(text, L, a, b, d)
    BY <2>2, <1>3
  <2>4. QED
    BY <2>3 DEF InFourParts
<1>10. text[1] = <<"domain", m.domain>> /\ text[2] = <<"", m.address>>
  <2>1. 1 \in 1..3 /\ 2 \in 1..3
    OBVIOUS
  <2>2. QED
    BY <2>1, <1>5, <1>9
<1>11. SubSeq(text, 4, 3 + Len(b)) = b
  <2> DEFINE k == 4
  <2>1. k \in Nat \ {0} /\ k - 1 + Len(b) <= Len(text) /\ k - 1 = 3
    BY <1>9
  <2>2. \A i \in 1..Len(b) : text[k - 1 + i] = b[i]
    BY <1>9
  <2> HIDE DEF k
  <2>3. SubSeq(text, k, k - 1 + Len(b)) = b
    BY <2>1, <2>2, <1>8, <1>9, SamePart
  <2>4. QED
    BY <2>1, <2>3 DEF k
<1>12. SubSeq(text, 5 + Len(b), Len(text)) = d
  <2> DEFINE k == 5 + Len(b)
  <2>1. k \in Nat \ {0} /\ k - 1 + Len(d) = Len(text) /\ k - 1 = 4 + Len(b)
        /\ k - 1 + Len(d) <= Len(text)
    BY <1>9
  <2>2. \A i \in 1..Len(d) : text[k - 1 + i] = d[i]
    BY <1>9, <2>1
  <2> HIDE DEF k
  <2>3. SubSeq(text, k, k - 1 + Len(d)) = d
    BY <2>1, <2>2, <1>8, <1>9, SamePart
  <2>4. QED
    BY <2>1, <2>3 DEF k
<1>13. DOMAIN text = 1..Len(text)
  BY <1>9
<1>14. QED
  BY <1>2, <1>6, <1>9, <1>10, <1>11, <1>12, <1>13

LEMMA ReadsBack ==
  ASSUME NEW m, WellFormed(m), PlainStatement(FormatSiwaMessage(m))
  PROVE  \E s : /\ ParseSiwaMessage(FormatSiwaMessage(m)) = {ReadBack(m, s)}
                /\ FormatSiwaMessage(ReadBack(m, s)) = FormatSiwaMessage(m)
<1> DEFINE text == FormatSiwaMessage(m)
           b == Body(m)
           d == FieldsPart(m)
           start == 5 + Len(b)
           uris == {i \in DOMAIN text : text[i][1] = "URI"}
           s == IF b = <<BlankLine>> THEN <<>> ELSE b
<1>1. /\ Len(text) = 4 + Len(b) + Len(d) /\ Len(b) \in Nat \ {0} /\ Len(d) \in Nat
      /\ DOMAIN text = 1..Len(text)
      /\ text[1] = <<"domain", m.domain>> /\ text[2] = <<"", m.address>>
      /\ \A i \in 1..Len(d) : text[4 + Len(b) + i] = d[i]
      /\ SubSeq(text, 4, 3 + Len(b)) = b
      /\ SubSeq(text, 5 + Len(b), Len(text)) = d
      /\ LinesOf(d, m.fields)
  BY TextParts
<1>n. /\ Len(text) = 4 + Len(b) + Len(d) /\ Len(b) \in Nat \ {0} /\ Len(d) \in Nat
      /\ DOMAIN text = 1..Len(text)
  BY <1>1
<1>d. \A i \in 1..Len(d) : text[4 + Len(b) + i] = d[i]
  BY <1>1
<1>l. LinesOf(d, m.fields)
  BY <1>1
<1>2. Cardinality(uris) = 1
  BY DEF PlainStatement
<1>3. \E st : /\ (IF b = <<BlankLine>> THEN <<>> ELSE b) = st
              /\ (IF st = <<>> THEN <<BlankLine>> ELSE st) = b
  <2>1. b # <<>>
    BY <1>n
  <2>2. QED
    BY <2>1
<1>4. FormatSiwaMessage(ReadBack(m, s)) = text
  <2>1. (IF s = <<>> THEN <<BlankLine>> ELSE s) = b
    BY <1>3
  <2> HIDE DEF s
  <2>2. (IF s = <<>> THEN <<BlankLine>> ELSE s)
          = (IF m.statement = <<>> THEN <<BlankLine>> ELSE m.statement)
    BY <2>1 DEF Body
  <2> DEFINE t == ReadBack(m, s)
  <2>3. t.domain = m.domain /\ t.address = m.address /\ t.fields = m.fields /\ t.statement = s
    BY DEF ReadBack
  <2> HIDE DEF t
  <2>4. FormatSiwaMessage(t) = FormatSiwaMessage(m)
    BY <2>2, <2>3 DEF FormatSiwaMessage
  <2>5. QED
    BY <2>4 DEF t
<1> HIDE DEF text, b, d, s
<1>5. start \in uris /\ start \in DOMAIN text
  <2>1. 1 \in 1..Len(d) /\ 4 + Len(b) + 1 = start /\ start \in 1..Len(text)
    <3>1. Len(d) # 0
      BY <1>l DEF LinesOf
    <3>2. QED
      BY <3>1, <1>n
  <2>2. text[start] = d[1]
    BY <2>1, <1>d
  <2>3. d[1][1] = "URI"
    BY <1>l DEF LinesOf
  <2>4. QED
    BY <2>1, <2>2, <2>3, <1>n
<1>6. PICK x : uris = {x}
  <2>1. IsFiniteSet(1..Len(text))
    <3> DEFINE k == 1
    <3>1. k \in Int /\ Len(text) \in Int
      BY <1>n
    <3> HIDE DEF k
    <3>2. IsFiniteSet(k..Len(text))
      BY <3>1, FS_Interval
    <3>3. QED
      BY <3>2 DEF k
  <2>2. uris \in SUBSET (1..Len(text))
    BY <1>n
  <2> HIDE DEF uris
  <2>3. IsFiniteSet(uris)
    BY <2>1, <2>2, FS_Subset
  <2>4. QED
    BY <2>3, <1>2, FS_Singleton
<1>7. FieldsStart(text) = start
  <2>1. \A j \in 1..(start - 1) : text[j][1] # "URI"
    <3>1. \A j \in 1..(start - 1) : j # start /\ j \in 1..Len(text)
      BY <1>n, <1>5
    <3>2. QED
      BY <3>1, <1>n, <1>5, <1>6
  <2>2. text[start][1] = "URI"
    BY <1>5
  <2> HIDE DEF start
  <2>3. FieldsStart(text) \in DOMAIN text /\ text[FieldsStart(text)][1] = "URI"
    BY <2>1, <2>2, <1>5 DEF FieldsStart
  <2>4. QED
    BY <2>3, <1>5, <1>6
<1>8. FieldLines(text) = d
  BY <1>7, <1>1 DEF FieldLines
<1>9. Fields(text) = m.fields
  <2>1. d \in Seq(Labelled(m))
    <3>1. "URI" \in DOMAIN m.fields
      BY LabelsAre DEF WellFormed
    <3>2. QED
      BY <3>1, FieldsWritten DEF d, WellFormed
  <2>2. LET labels == {d[i][1] : i \in DOMAIN d} \cap ToSet(SiwaLabels)
        IN  [label \in labels |-> d[LastLine(d, label)][2]] = m.fields
    <3>1. /\ m.fields = [label \in DOMAIN m.fields |-> m.fields[label]]
          /\ DOMAIN m.fields \subseteq ToSet(SiwaLabels)
      BY DEF WellFormed
    <3> DEFINE F == m.fields
               L == Labelled(m)
    <3>2. F = [label \in DOMAIN F |-> F[label]] /\ DOMAIN F \subseteq ToSet(SiwaLabels)
          /\ LinesOf(d, F) /\ d \in Seq(L)
      BY <3>1, <1>l, <2>1
    <3> HIDE DEF F, L
    <3>3. LET labels == {d[i][1] : i \in DOMAIN d} \cap ToSet(SiwaLabels)
          IN  [label \in labels |-> d[LastLine(d, label)][2]] = F
      BY <3>2, FieldsRead
    <3>4. QED
      BY <3>3 DEF F
  <2>3. QED
    BY <2>2, <1>8 DEF Fields
<1>10. Statement(text) = s
  <2>1. start - 2 = 3 + Len(b)
    BY <1>n
  <2>2. StatementLines(text, start) = b
    BY <2>1, <1>1 DEF StatementLines
  <2>3. QED
    BY <2>2, <1>7 DEF Statement, s
<1>t. text[1][1] = "domain" /\ text[1][2] = m.domain /\ text[2][2] = m.address
  <2>1. text[1] = <<"domain", m.domain>> /\ text[2] = <<"", m.address>>
    BY <1>1
  <2> DEFINE first == text[1]
             second == text[2]
             label == "domain"
             none == ""
  <2> HIDE DEF first, second, label, none
  <2>2. first = <<label, m.domain>> /\ second = <<none, m.address>>
    BY <2>1 DEF first, second, label, none
  <2>3. first[1] = label /\ first[2] = m.domain /\ second[2] = m.address
    BY <2>2
  <2>4. QED
    BY <2>3 DEF first, second, label
<1>11. SiwaFormed(text)
  <2>1. \E i \in DOMAIN text : text[i][1] = "URI"
    BY <1>5
  <2>2. RequiredLabels \subseteq DOMAIN m.fields /\ m.fields["Version"] = "1"
    BY DEF WellFormed
  <2>3. QED
    BY <2>1, <2>2, <1>t, <1>9 DEF SiwaFormed
<1>12. ParseSiwaMessage(text) = {ReadBack(m, s)}
  BY <1>t, <1>9, <1>10, <1>11 DEF ParseSiwaMessage, ReadBack
<1>13. QED
  BY <1>4, <1>12 DEF text

LEMMA SignInsAreWellFormed ==
  ASSUME NEW o \in SignInOptions
  PROVE  LET m == DisclosureToSiwaMessage(o) IN
         /\ WellFormed(m) /\ m.address = o.walletAddress
         /\ m.fields["AgentId"] \in Token
         /\ DOMAIN m.fields["AgentRegistry"] = {"chain", "registry"}
<1> DEFINE m == DisclosureToSiwaMessage(o)
           labels == RequiredLabels \cup DOMAIN o.optional
           value(label) ==
             CASE label = "URI" -> o.uri
               [] label = "Version" -> "1"
               [] label = "AgentId" -> o.agentTokenId
               [] label = "AgentRegistry" -> AgentRegistryCaip10(o.chainId, o.registry)
               [] label = "ChainId" -> o.chainId
               [] label = "Nonce" -> o.nonce
               [] label = "IssuedAt" -> o.issuedAt
               [] OTHER -> o.optional[label]
<1>1. /\ m.statement = o.statement /\ m.address = o.walletAddress
      /\ m.fields = [label \in labels |-> value(label)]
  BY DEF DisclosureToSiwaMessage
<1>2. /\ value("Version") = "1" /\ value("AgentId") = o.agentTokenId
      /\ value("AgentRegistry") = AgentRegistryCaip10(o.chainId, o.registry)
  OBVIOUS
<1>3. /\ "Version" \in labels /\ "AgentId" \in labels /\ "AgentRegistry" \in labels
      /\ labels \subseteq ToSet(SiwaLabels)
  BY LabelsAre, OptionsAssumption
<1> HIDE DEF m, value
<1>4. DOMAIN m.fields = labels /\ m.fields = [label \in DOMAIN m.fields |-> m.fields[label]]
  BY <1>1
<1>5. /\ m.fields["Version"] = "1" /\ m.fields["AgentId"] = o.agentTokenId
      /\ m.fields["AgentRegistry"] = AgentRegistryCaip10(o.chainId, o.registry)
  BY <1>1, <1>2, <1>3
<1>6. WellFormed(m)
  BY <1>1, <1>3, <1>4, <1>5, OptionsAssumption DEF WellFormed
<1>7. DOMAIN m.fields["AgentRegistry"] = {"chain", "registry"}
  BY <1>5 DEF AgentRegistryCaip10
<1>8. QED
  BY <1>1, <1>5, <1>6, <1>7, OptionsAssumption DEF m

---------------------------------------------------------------------------
(* What an agent signed holds, kind by kind. *)
SignInOf(o) == SignSiwa(DisclosureToSiwaMessage(o), o.walletAddress)

TapOf(o) == SignTapRequest(o.signed, o.signatureAgent, o.material, o.key, o.embed)

PresentationOf(o) ==
  PresentSdJwtVc(ToSdJwtVc(o.document, o.key, o.holderKey, AdpVct, o.salt, o.decoys),
                 o.reveal, o.holderKey, o.aud, o.nonce)

Origin(r) ==
  /\ r.kind = "siwa" => \E o \in SignInOptions : r.wire = SignInOf(o)
  /\ r.kind = "tap" => \E o \in TapOptions : r.wire = TapOf(o)
  /\ r.kind = "sdjwt" => \E o \in PresentOptions : r.wire = PresentationOf(o)

GoodSignIn(m, signature) ==
  /\ m.fields["Version"] = "1" /\ m.fields["AgentId"] \in Token
  /\ DOMAIN m.fields["AgentRegistry"] = {"chain", "registry"}
  /\ SignedByAddress(m, signature)

LEMMA SignInHolds ==
  ASSUME NEW o \in SignInOptions, PlainStatement(SignInOf(o).text)
  PROVE  \E m : /\ ParseSiwaMessage(SignInOf(o).text) = {m}
                /\ GoodSignIn(m, SignInOf(o).walletSignature)
<1> DEFINE m == DisclosureToSiwaMessage(o)
<1>1. /\ SignInOf(o).text = FormatSiwaMessage(m)
      /\ SignInOf(o).walletSignature = SignMessage(FormatSiwaMessage(m), o.walletAddress)
  BY DEF SignInOf, SignSiwa
<1>2. /\ WellFormed(m) /\ m.address = o.walletAddress
      /\ m.fields["AgentId"] \in Token
      /\ DOMAIN m.fields["AgentRegistry"] = {"chain", "registry"}
  BY SignInsAreWellFormed
<1> HIDE DEF m
<1>3. PICK s : /\ ParseSiwaMessage(FormatSiwaMessage(m)) = {ReadBack(m, s)}
               /\ FormatSiwaMessage(ReadBack(m, s)) = FormatSiwaMessage(m)
  BY <1>1, <1>2, ReadsBack
<1> DEFINE t == ReadBack(m, s)
<1>4. t.fields = m.fields /\ t.address = m.address
  BY DEF ReadBack
<1> HIDE DEF t
<1>5. FormatSiwaMessage(t) = FormatSiwaMessage(m)
  BY <1>3 DEF t
<1>6. SignedByAddress(t, SignInOf(o).walletSignature)
  BY <1>1, <1>2, <1>4, <1>5 DEF SignedByAddress, RecoverWalletAddress, SignMessage
<1>7. m.fields["Version"] = "1"
  BY <1>2 DEF WellFormed
<1>8. GoodSignIn(t, SignInOf(o).walletSignature)
  BY <1>2, <1>4, <1>6, <1>7 DEF GoodSignIn
<1>9. ParseSiwaMessage(SignInOf(o).text) = {t}
  BY <1>1, <1>3 DEF t
<1>10. QED
  BY <1>8, <1>9

GoodTap(w, rules, now) ==
  /\ w.tapSignature.value.over.authority = rules.domain
  /\ w.tapSignature.value.over.path = rules.path
  /\ w.signatureInput.params.tag \in rules.tags
  /\ w.signatureInput.params.keyId = w.tapSignature.value.by
  /\ InTapWindow(w.signatureInput.params, now)
  /\ \A signed \in w.adpDisclosure : signed.disclosure.agentId = w.tapSignature.value.by

LEMMA TapHolds ==
  ASSUME NEW o \in TapOptions, NEW rules, NEW now, GoodTap(TapOf(o), rules, now)
  PROVE  /\ TapOpens(TapOf(o), rules.tags, {now})
         /\ TapOf(o).signatureInput.params.keyId \in Wallet
         /\ VerifyTapRequest(TapOf(o), rules.domain, rules.path,
                             TapOf(o).signatureInput.params.keyId, TRUE)
<1> DEFINE w == TapOf(o)
           material == o.material
           header == w.signatureInput
           params == header.params
           value == w.tapSignature.value
<1>1. /\ header = TapSignatureInput(material) /\ w.tapSignature.label = material.label
      /\ value = SignMessage(TapSignatureBase(material), o.key)
  BY DEF TapOf, SignTapRequest
<1>2. GoodTap(w, rules, now)
  OBVIOUS
<1> HIDE DEF w, material
<1>3. header.label = material.label /\ params = SignatureParams(material)
  BY <1>1 DEF TapSignatureInput
<1>4. value.over = TapSignatureBase(material) /\ value.by = o.key
  BY <1>1 DEF SignMessage
<1>5. /\ DOMAIN params = {"components", "created", "expires", "keyId", "alg", "nonce", "tag"}
      /\ params.alg = "ed25519" /\ params.keyId = material.keyId /\ params.nonce = material.nonce
      /\ params.created = material.created /\ params.expires = material.expires
      /\ params.tag = material.tag
  BY <1>3 DEF SignatureParams
<1>6. /\ rules.domain = material.authority /\ rules.path = material.path
      /\ params.keyId = o.key /\ o.key \in Wallet
  BY <1>2, <1>4, OptionsAssumption DEF GoodTap, TapSignatureBase
<1>7. TapOpens(w, rules.tags, {now})
  <2>1. header \in ParseTapSignatureInput(header)
    BY <1>5 DEF ParseTapSignatureInput
  <2>2. ParseTapSignatureValue(w.tapSignature, header.label) # {}
    BY <1>1, <1>3 DEF ParseTapSignatureValue
  <2>3. params.tag \in rules.tags /\ InTapWindow(params, now)
    BY <1>2 DEF GoodTap
  <2>4. QED
    BY <2>1, <2>2, <2>3, <1>5 DEF TapOpens
<1>8. TapSignatureHolds(w, rules.domain, rules.path, o.key)
  <2> DEFINE rebuilt == TapMaterial(header, rules.domain, rules.path)
  <2>1. /\ rebuilt.authority = material.authority /\ rebuilt.path = material.path
        /\ rebuilt.keyId = material.keyId /\ rebuilt.nonce = material.nonce
        /\ rebuilt.created = material.created /\ rebuilt.expires = material.expires
        /\ rebuilt.tag = material.tag /\ rebuilt.label = material.label
    BY <1>3, <1>5, <1>6 DEF TapMaterial
  <2> HIDE DEF rebuilt
  <2>2. SignatureParams(rebuilt) = SignatureParams(material)
    BY <2>1 DEF SignatureParams
  <2>3. /\ TapSignatureInput(rebuilt) = header
        /\ TapSignatureBase(rebuilt) = TapSignatureBase(material)
    BY <1>1, <2>1, <2>2 DEF TapSignatureInput, TapSignatureBase
  <2>4. ParseTapSignatureValue(w.tapSignature, header.label) = {value}
    BY <1>1, <1>3 DEF ParseTapSignatureValue
  <2>5. VerifyMessage(TapSignatureBase(rebuilt), o.key, value)
    BY <1>1, <2>3 DEF VerifyMessage
  <2>6. QED
    BY <2>3, <2>4, <2>5 DEF TapSignatureHolds, rebuilt
<1>9. VerifyTapRequest(w, rules.domain, rules.path, o.key, TRUE)
  <2>1. ExtractTapDisclosure(w) # {} => BoundToDisclosure(w, o.key)
    BY <1>2, <1>4 DEF GoodTap, ExtractTapDisclosure, BoundToDisclosure
  <2>2. QED
    BY <2>1, <1>8 DEF VerifyTapRequest
<1>10. QED
  BY <1>6, <1>7, <1>9 DEF w

---------------------------------------------------------------------------
LEMMA ListOfSet ==
  ASSUME NEW S, IsFiniteSet(S)
  PROVE  /\ SetToSeq(S) \in Seq(S) /\ IsInjective(SetToSeq(S))
<1>1. Cardinality(S) \in Nat /\ ExistsBijection(1..Cardinality(S), S)
  BY FS_CardinalityType
<1>2. PICK f \in [1..Cardinality(S) -> S] : IsInjective(f)
  BY <1>1 DEF ExistsBijection, Bijection, Injection
<1>3. SetToSeq(S) \in [1..Cardinality(S) -> S] /\ IsInjective(SetToSeq(S))
  BY <1>2 DEF SetToSeq
<1> DEFINE s == SetToSeq(S)
<1> HIDE DEF s
<1>4. s \in [1..Cardinality(S) -> S]
  BY <1>3 DEF s
<1>5. s \in Seq(S)
  BY <1>1, <1>4
<1>6. QED
  BY <1>3, <1>5 DEF s

LEMMA HonestPresentationHolds ==
  ASSUME NEW o \in PresentOptions, NEW opts, NEW now, NEW aud, NEW challenge,
         opts = [vct |-> {AdpVct}, now |-> {now}, aud |-> {aud}, nonce |-> challenge],
         PresentationOf(o).jwt.payload.iss = AgentIdToDidKey(PresentationOf(o).jwt.signature.by),
         PresentationOf(o).jwt.payload.exp >= now,
         \E kb \in PresentationOf(o).kb : kb.payload.aud = aud /\ {kb.payload.nonce} = challenge
  PROVE  /\ VerifySdJwtVc(PresentationOf(o), opts)
         /\ VerifySdJwtVcWithLib(PresentationOf(o), opts)
<1> DEFINE w == PresentationOf(o)
           D == Disclosures(o.document, o.salt)
           issued == ToSdJwtVc(o.document, o.key, o.holderKey, AdpVct, o.salt, o.decoys)
           jwt == issued.jwt
           reveals == {d \in ToSet(issued.disclosures) : d.name \in o.reveal}
           kept == Selected(issued.disclosures, reveals)
           kb == Jws("kb+jwt", [aud |-> o.aud, nonce |-> o.nonce, sdHash |-> Presented(jwt, kept)],
                     o.holderKey)
<1>1. w = [jwt |-> jwt, disclosures |-> kept, kb |-> {kb}, terminated |-> FALSE]
  BY DEF PresentationOf, PresentSdJwtVc
<1>2. /\ issued.disclosures = SetToSeq(D)
      /\ \E payload : /\ jwt = Jws("dc+sd-jwt", payload, o.key) /\ payload.vct = AdpVct
                      /\ payload.cnf = o.holderKey /\ D \subseteq payload.sd
  BY DEF ToSdJwtVc
<1>3. IsFiniteSet(D)
  <2> DEFINE T == DOMAIN o.document \cap RedactableField
  <2>1. IsFiniteSet(T)
    BY OptionsAssumption, FS_Subset
  <2>2. D = {[salt |-> o.salt, name |-> f, value |-> o.document[f]] : f \in T}
    BY DEF Disclosures
  <2> DEFINE g == [f \in T |-> [salt |-> o.salt, name |-> f, value |-> o.document[f]]]
  <2>3. g \in Surjection(T, D)
    BY <2>2 DEF Surjection
  <2>4. QED
    BY <2>1, <2>3, FS_Surjection
<1>4. SetToSeq(D) \in Seq(D) /\ IsInjective(SetToSeq(D))
  BY <1>3, ListOfSet
<1> HIDE DEF D, issued
<1>5. kept \in Seq(D) /\ IsInjective(kept)
  <2> DEFINE s == issued.disclosures
  <2> HIDE DEF reveals
  <2>1. s \in Seq(D) /\ IsInjective(s)
    BY <1>2, <1>4
  <2> HIDE DEF s
  <2>2. Selected(s, reveals) \in Seq(D) /\ KeptOf(Selected(s, reveals), Len(s), s, reveals)
    BY <2>1, SelectedKeeps
  <2>3. QED
    BY <2>1, <2>2 DEF KeptOf, s
<1>6. PICK payload : /\ jwt = Jws("dc+sd-jwt", payload, o.key) /\ payload.vct = AdpVct
                     /\ payload.cnf = o.holderKey /\ D \subseteq payload.sd
  BY <1>2
<1> HIDE DEF kept, jwt
<1>7. /\ jwt.payload = payload /\ jwt.signature.by = o.key /\ JwsVerify(jwt, o.key)
  BY <1>6 DEF Jws, JwsVerify, VerifyMessage, SignMessage
<1>8. /\ kb.typ = "kb+jwt" /\ JwsVerify(kb, o.holderKey)
      /\ kb.payload.aud = o.aud /\ kb.payload.nonce = o.nonce
      /\ kb.payload.sdHash = Presented(jwt, kept)
  BY DEF Jws, JwsVerify, VerifyMessage, SignMessage
<1> HIDE DEF kb
<1>9. w.jwt = jwt /\ w.disclosures = kept /\ w.kb = {kb}
  BY <1>1
<1> HIDE DEF w
<1>10. /\ jwt.payload.iss = AgentIdToDidKey(o.key) /\ jwt.payload.exp >= now
       /\ kb.payload.aud = aud /\ {kb.payload.nonce} = challenge
  BY <1>7, <1>9 DEF w
<1>11. opts.vct = {AdpVct} /\ opts.now = {now} /\ opts.aud = {aud} /\ opts.nonce = challenge
  OBVIOUS
<1>12. IssuerJwtHolds(w.jwt, opts) /\ IssuerJwtHolds(w.jwt, [vct |-> {}, now |-> {}])
  BY <1>6, <1>7, <1>9, <1>10, <1>11 DEF IssuerJwtHolds
<1>13. DisclosuresHold(w)
  <2>1. ToSet(kept) \subseteq D
    BY <1>5 DEF ToSet
  <2>2. QED
    BY <2>1, <1>5, <1>6, <1>7, <1>9 DEF DisclosuresHold
<1>14. \A nonce \in opts.nonce : kb.payload.nonce = nonce
  BY <1>10, <1>11
<1>15. JwsVerify(kb, w.jwt.payload.cnf) /\ kb.payload.sdHash = Presented(w.jwt, w.disclosures)
  BY <1>6, <1>7, <1>8, <1>9
<1>16. KeyBindingHolds(w, kb, opts)
  BY <1>8, <1>10, <1>11, <1>14, <1>15 DEF KeyBindingHolds
<1>17. VerifySdJwtVc(w, opts)
  BY <1>9, <1>12, <1>13, <1>16 DEF VerifySdJwtVc
<1>18. SdJwtLibraryAccepts(w, KbRequired(opts))
  BY <1>9, <1>12, <1>13, <1>15 DEF SdJwtLibraryAccepts
<1>19. VerifySdJwtVcWithLib(w, opts)
  BY <1>9, <1>10, <1>11, <1>12, <1>14, <1>18 DEF VerifySdJwtVcWithLib
<1>20. QED
  BY <1>17, <1>19 DEF w

---------------------------------------------------------------------------
(* The second invariant: what a refused call may be, and what the calls that may *)
(* still be refused know.                                                         *)
HonestSignInCall(k, isFresh, isDisowned) ==
  /\ PlainStatement(k.request.wire.text)
  /\ \A e \in Rules[k.party].expected : AgreesWithBinding(MessageOf(k), e)
  /\ MessageOf(k).domain = Rules[k.party].domain
  /\ InSiwaWindow(MessageOf(k), k.at)
  /\ MessageOf(k).fields["Nonce"] \in Nonce
  /\ isFresh /\ ~isDisowned

HonestTapCall(k) ==
  ~Rules[k.party].asksDirectory /\ GoodTap(k.request.wire, Rules[k.party], k.at)

HonestPresentationCall(k) ==
  LET jwt == k.request.wire.jwt IN
  /\ jwt.payload.iss = AgentIdToDidKey(jwt.signature.by)
  /\ jwt.payload.exp >= k.at
  /\ \E kb \in k.request.wire.kb :
       kb.payload.aud = Rules[k.party].domain /\ {kb.payload.nonce} = k.challenge

(* A refused call of a request as it was sent was not an honest one. *)
RefusedFairly(label, k, isFresh, isDisowned) ==
  label = "refused" /\ k.request \in sent =>
    /\ k.request.kind = "siwa" => ~HonestSignInCall(k, isFresh, isDisowned)
    /\ k.request.kind = "tap" => ~HonestTapCall(k)
    /\ k.request.kind = "sdjwt" => ~HonestPresentationCall(k)

(* A sign-in keeps the message its text reads back as. *)
ReadFromText(label, k) ==
  label # "idle" /\ k.request.kind = "siwa" =>
    k.message = ParseSiwaMessage(k.request.wire.text)

(* A sign-in under way has noticed every other owner the registry had for its token. *)
OwnerNoticed(label, k, isDisowned) ==
  label \in {"recover", "registry"} =>
    \A m \in k.message :
      m.fields["AgentId"] \in Token =>
        owner[m.fields["AgentId"]] \in {{}, {m.address}} \/ isDisowned

CallHonest(label, k, isFresh, isDisowned) ==
  /\ RefusedFairly(label, k, isFresh, isDisowned)
  /\ ReadFromText(label, k)
  /\ OwnerNoticed(label, k, isDisowned)

Histories ==
  /\ fresh = [c \in Call |-> fresh[c]]
  /\ disowned = [c \in Call |-> disowned[c]]
  /\ owner = [t \in Token |-> owner[t]]

HonestInv ==
  /\ Histories
  /\ \A r \in sent : Origin(r)
  /\ \A c \in Call : CallHonest(pc[c], call[c], fresh[c], disowned[c])

LEMMA HonestInvImplies == HonestInv => HonestRequestAccepted
<1> SUFFICES ASSUME HonestInv, NEW c \in Call, pc[c] = "refused", call[c].request \in sent
             PROVE  LET kind == call[c].request.kind IN
                    /\ kind = "siwa" => ~HonestSignIn(c)
                    /\ kind = "tap" => ~HonestTap(c)
                    /\ kind = "sdjwt" => ~HonestPresentation(c)
  BY DEF HonestRequestAccepted
<1> DEFINE k == call[c]
<1>1. RefusedFairly(pc[c], k, fresh[c], disowned[c])
  BY DEF HonestInv, CallHonest
<1>2. SignIn(c) = MessageOf(k)
  BY DEF SignIn, MessageOf
<1>3. HonestSignIn(c) => HonestSignInCall(k, fresh[c], disowned[c])
  BY <1>2 DEF HonestSignIn, HonestSignInCall
<1>4. HonestTap(c) => HonestTapCall(k)
  BY DEF HonestTap, HonestTapCall, GoodTap
<1>5. HonestPresentation(c) => HonestPresentationCall(k)
  BY DEF HonestPresentation, HonestPresentationCall
<1>6. QED
  BY <1>1, <1>3, <1>4, <1>5 DEF RefusedFairly

(* A step of one call. *)
OneMoves(c, label, k, isFresh, isDisowned) ==
  /\ pc' = [pc EXCEPT ![c] = label] /\ call' = [call EXCEPT ![c] = k]
  /\ fresh' = [fresh EXCEPT ![c] = isFresh]
  /\ disowned' = [disowned EXCEPT ![c] = isDisowned]
  /\ sent' = sent /\ owner' = owner

LEMMA OneMovesHonest ==
  ASSUME Shapes, HonestInv, NEW c \in Call, NEW label, NEW k, NEW isFresh, NEW isDisowned,
         OneMoves(c, label, k, isFresh, isDisowned), CallHonest(label, k, isFresh, isDisowned)
  PROVE  HonestInv'
<1>1. Histories' /\ \A r \in sent' : Origin(r)'
  BY DEF HonestInv, Histories, OneMoves, Origin
<1>2. \A l, q, f, e : CallHonest(l, q, f, e) => CallHonest(l, q, f, e)'
  <2> TAKE l, q, f, e
  <2>1. sent' = sent /\ owner' = owner
    BY DEF OneMoves
  <2>2. RefusedFairly(l, q, f, e) => RefusedFairly(l, q, f, e)'
    BY <2>1 DEF RefusedFairly
  <2>3. ReadFromText(l, q) => ReadFromText(l, q)'
    BY <2>1 DEF ReadFromText
  <2>4. OwnerNoticed(l, q, e) => OwnerNoticed(l, q, e)'
    BY <2>1 DEF OwnerNoticed
  <2>5. QED
    BY <2>2, <2>3, <2>4 DEF CallHonest
<1>3. ASSUME NEW d \in Call
      PROVE  CallHonest(pc'[d], call'[d], fresh'[d], disowned'[d])
  <2>1. CASE d = c
    <3>1. pc'[d] = label /\ call'[d] = k /\ fresh'[d] = isFresh /\ disowned'[d] = isDisowned
      BY <2>1 DEF OneMoves, Shapes, HonestInv, Histories
    <3>2. QED
      BY <3>1
  <2>2. CASE d # c
    <3>1. pc'[d] = pc[d] /\ call'[d] = call[d] /\ fresh'[d] = fresh[d] /\ disowned'[d] = disowned[d]
      BY <2>2 DEF OneMoves, Shapes, HonestInv, Histories
    <3>2. QED
      BY <3>1 DEF HonestInv
  <2>3. QED
    BY <2>1, <2>2
<1>4. \A d \in Call : CallHonest(pc[d], call[d], fresh[d], disowned[d])'
  BY <1>2, <1>3
<1>5. QED
  BY <1>1, <1>4 DEF HonestInv

---------------------------------------------------------------------------
(* Calls begin. *)
LEMMA SignInRefusedFairly ==
  ASSUME HonestInv, NEW p \in Party, NEW r, r.kind = "siwa", NEW k, NEW f, NEW e,
         k.party = p, k.request = r, k.at = clock,
         k.message = ParseSiwaMessage(r.wire.text),
         NEW asked,
         asked = {m \in k.message : /\ \A x \in Rules[p].expected : AgreesWithBinding(m, x)
                                    /\ SiwaAsksNonce(m, Rules[p].domain)},
         f = ({m.fields["Nonce"] : m \in asked} \subseteq open[p]),
         r \in sent, HonestSignInCall(k, f, e)
  PROVE  {m \in asked : SiwaOpens(m, Rules[p].domain, open[p], clock)} # {}
<1>1. PICK o \in SignInOptions : r.wire = SignInOf(o)
  BY DEF HonestInv, Origin
<1>2. PlainStatement(SignInOf(o).text)
  BY <1>1 DEF HonestSignInCall
<1>3. PICK m : k.message = {m} /\ GoodSignIn(m, r.wire.walletSignature)
  BY <1>1, <1>2, SignInHolds
<1>4. MessageOf(k) = m
  BY <1>3 DEF MessageOf
<1>5. /\ \A x \in Rules[p].expected : AgreesWithBinding(m, x)
      /\ m.domain = Rules[p].domain /\ InSiwaWindow(m, clock)
      /\ m.fields["Nonce"] \in Nonce /\ f
  BY <1>4 DEF HonestSignInCall
<1>6. SiwaAsksNonce(m, Rules[p].domain)
  BY <1>3, <1>5, OptionsAssumption DEF SiwaAsksNonce, GoodSignIn
<1>7. m \in asked
  BY <1>3, <1>5, <1>6
<1>8. m.fields["Nonce"] \in open[p]
  BY <1>5, <1>7
<1>9. SiwaOpens(m, Rules[p].domain, open[p], clock)
  BY <1>3, <1>5, <1>6, <1>8 DEF SiwaOpens, GoodSignIn
<1>10. QED
  BY <1>7, <1>9

LEMMA SignInBeginsHonest ==
  ASSUME Shapes, HonestInv, NEW c \in Call, NEW p \in Party, NEW r, r.kind = "siwa",
         VerifySiwa(c, p, r)
  PROVE  HonestInv'
<1> DEFINE parsed == ParseSiwaMessage(r.wire.text)
           asked == {m \in parsed : /\ \A e \in Rules[p].expected : AgreesWithBinding(m, e)
                                    /\ SiwaAsksNonce(m, Rules[p].domain)}
           opens == {m \in asked : SiwaOpens(m, Rules[p].domain, open[p], clock)}
           who == {t \in Token : \E m \in parsed : m.fields["AgentId"] = t}
           k == [party |-> p, request |-> r, at |-> clock, message |-> parsed, challenge |-> {}]
           label == IF opens = {} THEN "refused" ELSE "recover"
           f == {m.fields["Nonce"] : m \in asked} \subseteq open[p]
           e == \E t \in who, m \in parsed : owner[t] # {} /\ owner[t] # {m.address}
<1>1. OneMoves(c, label, k, f, e)
  BY DEF VerifySiwa, Start, NonceValid, Goto, OneMoves
<1>2. k.party = p /\ k.request = r /\ k.at = clock /\ k.message = parsed
  OBVIOUS
<1>3. OwnerNoticed(label, k, e)
  <2> SUFFICES ASSUME NEW m \in parsed, m.fields["AgentId"] \in Token, ~e
               PROVE  owner[m.fields["AgentId"]] \in {{}, {m.address}}
    BY <1>2 DEF OwnerNoticed
  <2>1. m.fields["AgentId"] \in who
    OBVIOUS
  <2>2. QED
    BY <2>1
<1>4. ReadFromText(label, k)
  BY <1>2 DEF ReadFromText
<1> HIDE DEF k, f, e
<1>5. RefusedFairly(label, k, f, e)
  <2> SUFFICES ASSUME label = "refused", r \in sent, HonestSignInCall(k, f, e)
               PROVE  FALSE
    BY <1>2 DEF RefusedFairly
  <2>1. f = ({m.fields["Nonce"] : m \in asked} \subseteq open[p])
    BY DEF f
  <2> HIDE DEF asked, label
  <2>2. asked = {m \in k.message : /\ \A x \in Rules[p].expected : AgreesWithBinding(m, x)
                                   /\ SiwaAsksNonce(m, Rules[p].domain)}
    BY <1>2 DEF asked
  <2>3. opens # {}
    BY <1>2, <2>1, <2>2, SignInRefusedFairly
  <2>4. QED
    BY <2>3 DEF label
<1>6. CallHonest(label, k, f, e)
  BY <1>3, <1>4, <1>5 DEF CallHonest
<1> HIDE DEF label
<1>7. QED
  BY <1>1, <1>6, OneMovesHonest

LEMMA TapBeginsHonest ==
  ASSUME Shapes, HonestInv, NEW c \in Call, NEW p \in Party, NEW r, r.kind = "tap",
         VerifyTap(c, p, r)
  PROVE  HonestInv'
<1> DEFINE k == [party |-> p, request |-> r, at |-> clock, message |-> {}, challenge |-> {}]
           label == IF TapOpens(r.wire, Rules[p].tags, {clock}) THEN "key" ELSE "refused"
<1>1. OneMoves(c, label, k, fresh[c], disowned[c])
  BY DEF VerifyTap, Start, Goto, OneMoves, HonestInv, Histories
<1>2. k.party = p /\ k.request = r /\ k.at = clock
  OBVIOUS
<1> HIDE DEF k
<1>3. RefusedFairly(label, k, fresh[c], disowned[c])
  <2> SUFFICES ASSUME label = "refused", r \in sent, HonestTapCall(k) PROVE FALSE
    BY <1>2 DEF RefusedFairly
  <2>1. PICK o \in TapOptions : r.wire = TapOf(o)
    BY DEF HonestInv, Origin
  <2>2. GoodTap(TapOf(o), Rules[p], clock)
    BY <1>2, <2>1 DEF HonestTapCall
  <2>3. TapOpens(r.wire, Rules[p].tags, {clock})
    BY <2>1, <2>2, TapHolds
  <2>4. QED
    BY <2>3
<1>4. CallHonest(label, k, fresh[c], disowned[c])
  BY <1>2, <1>3 DEF CallHonest, ReadFromText, OwnerNoticed
<1> HIDE DEF label
<1>5. QED
  BY <1>1, <1>4, OneMovesHonest

LEMMA PresentationAccepted ==
  ASSUME HonestInv, NEW k, k.request \in sent, k.request.kind = "sdjwt", HonestPresentationCall(k)
  PROVE  LET opts == PresentationOptions(k.party, k.challenge, k.at)
         IN  /\ VerifySdJwtVc(k.request.wire, opts)
             /\ VerifySdJwtVcWithLib(k.request.wire, opts)
<1> DEFINE opts == PresentationOptions(k.party, k.challenge, k.at)
           aud == Rules[k.party].domain
<1>1. PICK o \in PresentOptions : k.request.wire = PresentationOf(o)
  BY DEF HonestInv, Origin
<1>2. opts = [vct |-> {AdpVct}, now |-> {k.at}, aud |-> {aud}, nonce |-> k.challenge]
  BY DEF PresentationOptions
<1>3. /\ PresentationOf(o).jwt.payload.iss
           = AgentIdToDidKey(PresentationOf(o).jwt.signature.by)
      /\ PresentationOf(o).jwt.payload.exp >= k.at
      /\ \E kb \in PresentationOf(o).kb :
           kb.payload.aud = aud /\ {kb.payload.nonce} = k.challenge
  BY <1>1 DEF HonestPresentationCall
<1> HIDE DEF opts, aud
<1>4. VerifySdJwtVc(PresentationOf(o), opts) /\ VerifySdJwtVcWithLib(PresentationOf(o), opts)
  BY <1>2, <1>3, HonestPresentationHolds
<1>5. QED
  BY <1>1, <1>4 DEF opts

LEMMA PresentationBeginsHonest ==
  ASSUME Shapes, HonestInv, NEW c \in Call, NEW p \in Party, NEW r, r.kind = "sdjwt",
         VerifyPresentation(c, p, r)
  PROVE  HonestInv'
<1>1. PICK n \in open[p] :
        /\ Start(c, p, r, {}, {n}) /\ NonceValid(c, p, {n}) /\ UNCHANGED disowned
        /\ \/ Goto(c, "library")
           \/ Goto(c, IF VerifySdJwtVc(r.wire, PresentationOptions(p, {n}, clock))
                      THEN "accepted" ELSE "refused")
  BY DEF VerifyPresentation
<1> DEFINE k == [party |-> p, request |-> r, at |-> clock, message |-> {}, challenge |-> {n}]
           f == {n} \subseteq open[p]
<1>2. PICK label :
        /\ Goto(c, label) /\ label \notin {"recover", "registry"}
        /\ label = "refused" => ~VerifySdJwtVc(r.wire, PresentationOptions(p, {n}, clock))
  BY <1>1
<1>3. OneMoves(c, label, k, f, disowned[c])
  BY <1>1, <1>2 DEF Start, NonceValid, Goto, OneMoves, HonestInv, Histories
<1>4. k.party = p /\ k.request = r /\ k.at = clock /\ k.challenge = {n}
  OBVIOUS
<1> HIDE DEF k, f
<1>5. RefusedFairly(label, k, f, disowned[c])
  <2> SUFFICES ASSUME label = "refused", r \in sent, HonestPresentationCall(k) PROVE FALSE
    BY <1>4 DEF RefusedFairly
  <2>1. VerifySdJwtVc(k.request.wire, PresentationOptions(k.party, k.challenge, k.at))
    BY <1>4, PresentationAccepted
  <2>2. QED
    BY <2>1, <1>2, <1>4
<1>6. CallHonest(label, k, f, disowned[c])
  BY <1>2, <1>4, <1>5 DEF CallHonest, ReadFromText, OwnerNoticed
<1>7. QED
  BY <1>3, <1>6, OneMovesHonest

LEMMA CardBeginsHonest ==
  ASSUME Shapes, HonestInv, NEW c \in Call, NEW p \in Party, NEW r, r.kind = "card",
         VerifyCard(c, p, r)
  PROVE  HonestInv'
<1> DEFINE k == [party |-> p, request |-> r, at |-> clock, message |-> {}, challenge |-> {}]
           label == IF CardBound(r.wire, CardResolver) THEN "accepted" ELSE "refused"
<1>1. OneMoves(c, label, k, fresh[c], disowned[c])
  BY DEF VerifyCard, Start, Goto, OneMoves, HonestInv, Histories
<1>2. k.request.kind = "card" /\ label \notin {"recover", "registry"}
  OBVIOUS
<1> HIDE DEF k, label
<1>3. CallHonest(label, k, fresh[c], disowned[c])
  BY <1>2 DEF CallHonest, RefusedFairly, ReadFromText, OwnerNoticed
<1>4. QED
  BY <1>1, <1>3, OneMovesHonest

LEMMA BeginHonest ==
  ASSUME RequestsInv, HonestInv, NEW c \in Call, Begin(c)
  PROVE  HonestInv'
<1>1. PICK p \in Party :
        \/ \E r \in Arriving("siwa") : VerifySiwa(c, p, r)
        \/ \E r \in Arriving("tap") : VerifyTap(c, p, r)
        \/ \E r \in Arriving("sdjwt") : VerifyPresentation(c, p, r)
        \/ \E r \in Arriving("card") : VerifyCard(c, p, r)
  BY DEF Begin
<1>2. SentHolds /\ Shapes /\ {"siwa", "tap", "sdjwt", "card"} = Kind
  BY DEF RequestsInv, Kind
<1>3. \A kind \in Kind : \A r \in Arriving(kind) : r.kind = kind
  BY <1>2, ArrivingIsSigned
<1>4. QED
  BY <1>1, <1>2, <1>3, SignInBeginsHonest, TapBeginsHonest, PresentationBeginsHonest,
     CardBeginsHonest

---------------------------------------------------------------------------
(* Calls go on. *)
LEMMA GoesOnHonest ==
  ASSUME RequestsInv, HonestInv, NEW c \in Call, NEW label, Goto(c, label), label # "idle",
         UNCHANGED <<sent, owner, call, fresh, disowned>>, pc[c] # "idle",
         label \in {"recover", "registry"} => pc[c] \in {"recover", "registry"},
         RefusedFairly(label, call[c], fresh[c], disowned[c])
  PROVE  HonestInv'
<1>1. OneMoves(c, label, call[c], fresh[c], disowned[c])
  BY DEF OneMoves, Goto, RequestsInv, Shapes, HonestInv, Histories
<1>2. CallHonest(pc[c], call[c], fresh[c], disowned[c])
  BY DEF HonestInv
<1>3. CallHonest(label, call[c], fresh[c], disowned[c])
  BY <1>2 DEF CallHonest, ReadFromText, OwnerNoticed
<1>4. QED
  BY <1>1, <1>3, OneMovesHonest DEF RequestsInv

(* The message of an honest sign-in. *)
LEMMA HonestMessage ==
  ASSUME HonestInv, NEW c \in Call, pc[c] # "idle", call[c].request \in sent,
         call[c].request.kind = "siwa", PlainStatement(call[c].request.wire.text)
  PROVE  /\ call[c].message = {SignIn(c)} /\ SignIn(c) = MessageOf(call[c])
         /\ GoodSignIn(SignIn(c), call[c].request.wire.walletSignature)
<1> DEFINE r == call[c].request
<1>1. PICK o \in SignInOptions : r.wire = SignInOf(o)
  BY DEF HonestInv, Origin
<1>2. call[c].message = ParseSiwaMessage(r.wire.text)
  BY DEF HonestInv, CallHonest, ReadFromText
<1>3. PICK m : /\ ParseSiwaMessage(SignInOf(o).text) = {m}
               /\ GoodSignIn(m, SignInOf(o).walletSignature)
  BY <1>1, SignInHolds
<1>4. call[c].message = {m}
  BY <1>1, <1>2, <1>3
<1>5. SignIn(c) = m /\ MessageOf(call[c]) = m
  BY <1>4 DEF SignIn, MessageOf
<1>6. QED
  BY <1>1, <1>3, <1>4, <1>5

LEMMA SettleHonest ==
  ASSUME RequestsInv, HonestInv, NEW c \in Call, Settle(c)
  PROVE  HonestInv'
<1> DEFINE k == call[c]
<1>0. pc[c] # "idle" => CallSound(pc[c], k)
  BY DEF RequestsInv, CallsHold
<1>1. CASE Recovered(c)
  <2>1. PICK label :
          /\ Goto(c, label) /\ label \in {"registry", "accepted", "refused"}
          /\ label = "refused" => ~SignedByAddress(SignIn(c), k.request.wire.walletSignature)
    BY <1>1 DEF Recovered
  <2>2. Await(c, "recover")
    BY <1>1 DEF Recovered
  <2>3. k.request.kind = "siwa"
    BY <1>0, <2>2 DEF Await, CallSound
  <2>4. RefusedFairly(label, k, fresh[c], disowned[c])
    <3> SUFFICES ASSUME label = "refused", k.request \in sent,
                        HonestSignInCall(k, fresh[c], disowned[c])
                 PROVE  FALSE
      BY <2>3 DEF RefusedFairly
    <3>1. GoodSignIn(SignIn(c), k.request.wire.walletSignature)
      BY <2>2, <2>3, HonestMessage DEF Await, HonestSignInCall
    <3>2. QED
      BY <2>1, <3>1 DEF GoodSignIn
  <2>5. QED
    BY <2>1, <2>2, <2>4, GoesOnHonest DEF Await
<1>2. CASE RecoveryFails(c)
  <2> DEFINE label == "unrecovered"
  <2>1. /\ Goto(c, label) /\ Await(c, "recover") /\ label # "idle"
        /\ label \notin {"recover", "registry", "refused"}
    BY <1>2 DEF RecoveryFails
  <2> HIDE DEF label
  <2>2. RefusedFairly(label, k, fresh[c], disowned[c])
    BY <2>1 DEF RefusedFairly
  <2>3. QED
    BY <2>1, <2>2, GoesOnHonest DEF Await
<1>3. CASE RegistryAnswers(c)
  <2>1. PICK label :
          /\ Goto(c, label) /\ label \in {"refused", "accepted"}
          /\ label = "refused" =>
               SiwaAttestation(SignIn(c), owner[SignIn(c).fields["AgentId"]]) = "none"
    BY <1>3 DEF RegistryAnswers
  <2>2. Await(c, "registry")
    BY <1>3 DEF RegistryAnswers
  <2>3. k.request.kind = "siwa"
    BY <1>0, <2>2 DEF Await, CallSound
  <2>4. RefusedFairly(label, k, fresh[c], disowned[c])
    <3> SUFFICES ASSUME label = "refused", k.request \in sent,
                        HonestSignInCall(k, fresh[c], disowned[c])
                 PROVE  FALSE
      BY <2>3 DEF RefusedFairly
    <3>1. /\ k.message = {SignIn(c)}
          /\ GoodSignIn(SignIn(c), k.request.wire.walletSignature)
      BY <2>2, <2>3, HonestMessage DEF Await, HonestSignInCall
    <3>2. OwnerNoticed("registry", k, disowned[c]) /\ ~disowned[c]
      BY <2>2 DEF Await, HonestInv, CallHonest, HonestSignInCall
    <3>3. owner[SignIn(c).fields["AgentId"]] \in {{}, {SignIn(c).address}}
      BY <3>1, <3>2 DEF OwnerNoticed, GoodSignIn
    <3>4. SiwaAttestation(SignIn(c), owner[SignIn(c).fields["AgentId"]]) # "none"
      BY <3>3 DEF SiwaAttestation
    <3>5. QED
      BY <2>1, <3>4
  <2>5. QED
    BY <2>1, <2>2, <2>4, GoesOnHonest DEF Await
<1>4. CASE KeyResolved(c)
  <2> DEFINE rules == Rules[k.party]
             wire == k.request.wire
             keys == DefaultTapKeyResolver(wire.signatureInput.params.keyId, Wallet)
  <2>2. Await(c, "key")
    BY <1>4 DEF KeyResolved
  <2>3. k.request.kind = "tap"
    BY <1>0, <2>2 DEF Await, CallSound
  <2>1. PICK known \in (IF rules.asksDirectory THEN {keys, {}} ELSE {keys}) :
          Goto(c, IF \E key \in known : VerifyTapRequest(wire, rules.domain, rules.path, key, TRUE)
                  THEN "accepted" ELSE "refused")
    BY <1>4 DEF KeyResolved
  <2> DEFINE found == \E key \in known :
                        VerifyTapRequest(wire, rules.domain, rules.path, key, TRUE)
             label == IF found THEN "accepted" ELSE "refused"
  <2>4. /\ Goto(c, label) /\ label \in {"refused", "accepted"}
        /\ label = "refused" => ~found
    BY <2>1
  <2> HIDE DEF label
  <2>5. RefusedFairly(label, k, fresh[c], disowned[c])
    <3> SUFFICES ASSUME label = "refused", k.request \in sent, HonestTapCall(k)
                 PROVE  FALSE
      BY <2>3 DEF RefusedFairly
    <3>1. PICK o \in TapOptions : wire = TapOf(o)
      BY <2>3 DEF HonestInv, Origin
    <3>2. GoodTap(TapOf(o), rules, k.at) /\ ~rules.asksDirectory
      BY <3>1 DEF HonestTapCall
    <3> DEFINE key == wire.signatureInput.params.keyId
    <3>3. key \in Wallet /\ VerifyTapRequest(wire, rules.domain, rules.path, key, TRUE)
      BY <3>1, <3>2, TapHolds
    <3>4. key \in known
      BY <3>2, <3>3, <2>1 DEF DefaultTapKeyResolver
    <3>5. QED
      BY <2>4, <3>3, <3>4
  <2>6. QED
    BY <2>2, <2>4, <2>5, GoesOnHonest DEF Await
<1>5. CASE LibraryAnswers(c)
  <2> DEFINE opts == PresentationOptions(k.party, k.challenge, k.at)
  <2>1. PICK label :
          /\ Goto(c, label) /\ label \in {"refused", "accepted"}
          /\ label = "refused" => ~VerifySdJwtVcWithLib(k.request.wire, opts)
    BY <1>5 DEF LibraryAnswers
  <2>2. Await(c, "library")
    BY <1>5 DEF LibraryAnswers
  <2>3. k.request.kind = "sdjwt"
    BY <1>0, <2>2 DEF Await, CallSound
  <2>4. RefusedFairly(label, k, fresh[c], disowned[c])
    <3> SUFFICES ASSUME label = "refused", k.request \in sent, HonestPresentationCall(k)
                 PROVE  FALSE
      BY <2>3 DEF RefusedFairly
    <3>1. VerifySdJwtVcWithLib(k.request.wire, opts)
      BY <2>3, PresentationAccepted
    <3>2. QED
      BY <2>1, <3>1
  <2>5. QED
    BY <2>1, <2>2, <2>4, GoesOnHonest DEF Await
<1>6. CASE CallRejects(c)
  <2> DEFINE label == "thrown"
  <2>1. PICK await \in {"registry", "key", "library"} : Await(c, await)
    BY <1>6 DEF CallRejects
  <2>2. /\ Goto(c, label) /\ label # "idle"
        /\ label \notin {"recover", "registry", "refused"}
    BY <1>6 DEF CallRejects
  <2> HIDE DEF label
  <2>3. RefusedFairly(label, k, fresh[c], disowned[c])
    BY <2>2 DEF RefusedFairly
  <2>4. QED
    BY <2>1, <2>2, <2>3, GoesOnHonest DEF Await
<1>7. QED
  BY <1>1, <1>2, <1>3, <1>4, <1>5, <1>6 DEF Settle

---------------------------------------------------------------------------
LEMMA SendHonest ==
  ASSUME RequestsInv, HonestInv, SendSignIn \/ SendTap \/ SendPresentation \/ SendCard
  PROVE  HonestInv'
<1>1. PICK kind, wire : Send(kind, wire) /\ Origin([kind |-> kind, wire |-> wire])
  <2>1. CASE SendSignIn
    BY <2>1 DEF SendSignIn, Origin, SignInOf
  <2>2. CASE SendTap
    BY <2>2 DEF SendTap, Origin, TapOf
  <2>3. CASE SendPresentation
    BY <2>3 DEF SendPresentation, Origin, PresentationOf
  <2>4. CASE SendCard
    BY <2>4 DEF SendCard, Origin
  <2>5. QED
    BY <2>1, <2>2, <2>3, <2>4
<1>2. /\ \A c \in Call : pc'[c] = "idle"
      /\ sent' = sent \cup {[kind |-> kind, wire |-> wire]}
      /\ UNCHANGED <<owner, fresh, disowned>>
  BY <1>1 DEF Send, results
<1>3. Histories'
  BY <1>2 DEF HonestInv, Histories
<1>4. \A r \in sent' : Origin(r)'
  BY <1>1, <1>2 DEF HonestInv, Origin
<1>5. \A c \in Call : CallHonest(pc[c], call[c], fresh[c], disowned[c])'
  BY <1>2 DEF CallHonest, RefusedFairly, ReadFromText, OwnerNoticed
<1>6. QED
  BY <1>3, <1>4, <1>5 DEF HonestInv

LEMMA TransferHonest ==
  ASSUME RequestsInv, HonestInv, NEW t \in Token, Transfer(t)
  PROVE  HonestInv'
<1>1. PICK w : owner' = [owner EXCEPT ![t] = w]
  BY DEF Transfer
<1>2. /\ disowned' = [c \in Call |->
           \/ disowned[c]
           \/ /\ pc[c] \in {"recover", "registry"}
              /\ SignIn(c).fields["AgentId"] = t
              /\ owner'[t] # {} /\ owner'[t] # {SignIn(c).address}]
      /\ UNCHANGED <<sent, pc, call, fresh>>
  BY DEF Transfer
<1>3. Histories' /\ \A r \in sent' : Origin(r)'
  BY <1>1, <1>2 DEF HonestInv, Histories, Origin
<1>4. ASSUME NEW c \in Call
      PROVE  CallHonest(pc[c], call[c], fresh[c], disowned[c])'
  <2> DEFINE k == call[c]
  <2>1. CallHonest(pc[c], k, fresh[c], disowned[c])
    BY DEF HonestInv
  <2>2. disowned[c] => disowned'[c]
    BY <1>2
  <2>3. RefusedFairly(pc[c], k, fresh[c], disowned[c])'
    BY <2>1, <2>2, <1>2 DEF CallHonest, RefusedFairly, HonestSignInCall
  <2>4. ReadFromText(pc[c], k)'
    BY <2>1, <1>2 DEF CallHonest, ReadFromText
  <2>5. OwnerNoticed(pc[c], k, disowned[c])'
    <3> SUFFICES ASSUME pc[c] \in {"recover", "registry"}, NEW m \in k.message,
                        m.fields["AgentId"] \in Token, ~disowned'[c]
                 PROVE  owner'[m.fields["AgentId"]] \in {{}, {m.address}}
      BY <1>2 DEF OwnerNoticed
    <3>1. owner[m.fields["AgentId"]] \in {{}, {m.address}}
      BY <2>1, <2>2 DEF CallHonest, OwnerNoticed
    <3>2. m = SignIn(c)
      <4>1. k.request.kind = "siwa"
        BY DEF RequestsInv, CallsHold, CallSound
      <4>2. k.message = ParseSiwaMessage(k.request.wire.text)
        BY <2>1, <4>1 DEF CallHonest, ReadFromText
      <4>3. SignIn(c) \in k.message
        BY DEF SignIn
      <4>4. QED
        BY <4>2, <4>3, ParsedOnce
    <3>3. CASE m.fields["AgentId"] = t
      BY <1>2, <3>2, <3>3
    <3>4. CASE m.fields["AgentId"] # t
      BY <1>1, <3>1, <3>4 DEF HonestInv, Histories
    <3>5. QED
      BY <3>3, <3>4
  <2>6. QED
    BY <2>3, <2>4, <2>5 DEF CallHonest
<1>5. QED
  BY <1>3, <1>4 DEF HonestInv

LEMMA HonestStep == RequestsInv /\ HonestInv /\ [Next]_vars => HonestInv'
<1> SUFFICES ASSUME RequestsInv, HonestInv, [Next]_vars
             PROVE  HonestInv'
  OBVIOUS
<1>1. CASE SendSignIn \/ SendTap \/ SendPresentation \/ SendCard
  BY <1>1, SendHonest
<1>2. CASE \E c \in Call : Begin(c) \/ Settle(c)
  BY <1>2, BeginHonest, SettleHonest
<1>3. CASE \E t \in Token : Transfer(t)
  BY <1>3, TransferHonest
<1>4. CASE Tick \/ UNCHANGED vars
  <2>1. UNCHANGED <<sent, owner, pc, call, fresh, disowned>>
    BY <1>4 DEF Tick, vars, results
  <2>2. QED
    BY <2>1 DEF HonestInv, Histories, Origin, CallHonest, RefusedFairly, ReadFromText, OwnerNoticed
<1>5. QED
  BY <1>1, <1>2, <1>3, <1>4 DEF Next

(* What an agent signed for a party is not refused by it when it arrives         *)
(* unaltered, in time, on an open nonce and with no other owner in the registry: *)
(* a plain sign-in text reads back as its message, whatever its length.          *)
THEOREM HonestRequestsAreAccepted == Spec => []HonestRequestAccepted
<1>1. Init => HonestInv
  BY DEF Init, HonestInv, Histories, CallHonest, RefusedFairly, ReadFromText, OwnerNoticed
<1>2. QED
  BY <1>1, RequestsInvariant, HonestStep, HonestInvImplies, PTL DEF Spec
=============================================================================
