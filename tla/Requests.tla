------------------------------ MODULE Requests ------------------------------
(***************************************************************************)
(* Relying parties that check signed requests of four kinds: sign-in texts   *)
(* (Siwa), trusted-agent HTTP requests (VisaTap), credential presentations   *)
(* (SdJwtVc) and agent cards (AgentCard).                                    *)
(*                                                                           *)
(* Agents sign; the network delivers what was signed to any party, late,     *)
(* more than once, altered or recombined.  A call is one check of one         *)
(* request; it reads the clock and asks about its nonce before its first      *)
(* await and reads the registry, the directory or the library after it, so calls overlap.         *)
(***************************************************************************)
EXTENDS Siwa, VisaTap, SdJwtVc, AgentCard

CONSTANTS
  Party,      \* relying parties
  Rules,      \* Rules[p]: domain, path, tags, expected, asksRegistry, asksDirectory
  Call,       \* checks, each of one request
  Nonce,      \* the one-time nonces of a party, and its challenges
  Wallet,     \* wallets, named by address; the agents' keys are the same model values
  Token,      \* the agents' tokens in the registry
  SignInOptions, TapOptions, PresentOptions, CardOptions,  \* what the agents sign
  MaxClock,   \* bound of the model on the clock
  MaxSent,    \* bound of the model on requests signed
  MaxKinds    \* bound of the model on the kinds of request in flight together

ASSUME RequestsAssumption ==
  /\ MaxClock \in Nat /\ MaxSent \in Nat /\ MaxKinds \in Nat
  /\ \A o \in CardOptions : DOMAIN o.card = {"name", "extensions", "signatures"}

(* What an agent is asked to sign with: its token, its wallet's key, lines of text; *)
(* no party issues a nonce that the checks take for too short.                      *)
ASSUME OptionsAssumption ==
  /\ "short" \notin Nonce
  /\ \A o \in SignInOptions :
       /\ o.agentTokenId \in Token
       /\ o.statement \in Seq(STRING \X STRING)
       /\ DOMAIN o.optional \subseteq {"ExpirationTime", "NotBefore", "RequestId"}
  /\ \A o \in TapOptions : o.key \in Wallet
  /\ IsFiniteSet(RedactableField)

VARIABLES
  clock,
  sent,       \* the requests the agents have signed
  open,       \* open[p]: nonces that p still takes
  owner,      \* owner[t]: {} or the wallet the registry has for token t
  pc,         \* pc[c]: what call c awaits, or how it ended
  call,       \* call[c]: its party, request and the clock it read
  attested,   \* attested[c]: the SIWA tier
  fresh,      \* history: the nonce of c was open when c began
  disowned    \* history: while c ran the registry named another owner

results == <<attested, fresh, disowned>>
vars == <<clock, sent, open, owner, pc, call, results>>

Awaiting == {"recover", "registry", "key", "library"}
Ended == {"accepted", "refused", "unrecovered", "thrown"}

NoCall == [none |-> TRUE]

Init ==
  /\ clock = 0 /\ sent = {}
  /\ open = [p \in Party |-> Nonce]
  /\ owner = [t \in Token |-> {}]
  /\ pc = [c \in Call |-> "idle"]
  /\ call = [c \in Call |-> NoCall]
  /\ attested = [c \in Call |-> "none"]
  /\ fresh = [c \in Call |-> FALSE]
  /\ disowned = [c \in Call |-> FALSE]

---------------------------------------------------------------------------
(* Agents sign, before the first call begins: signing reads no clock and asks    *)
(* nobody, and the network may keep what was signed for as long as it likes.    *)
Send(kind, wire) ==
  /\ \A c \in Call : pc[c] = "idle"
  /\ Cardinality(sent) < MaxSent
  /\ Cardinality({r.kind : r \in sent} \cup {kind}) <= MaxKinds
  /\ sent' = sent \cup {[kind |-> kind, wire |-> wire]}
  /\ UNCHANGED <<clock, open, owner, pc, call, results>>

SendSignIn ==
  \E o \in SignInOptions : Send("siwa", SignSiwa(DisclosureToSiwaMessage(o), o.walletAddress))

SendTap ==
  \E o \in TapOptions :
    Send("tap", SignTapRequest(o.signed, o.signatureAgent, o.material, o.key, o.embed))

SendPresentation ==
  \E o \in PresentOptions :
    LET issued == ToSdJwtVc(o.document, o.key, o.holderKey, AdpVct, o.salt, o.decoys)
    IN  Send("sdjwt", PresentSdJwtVc(issued, o.reveal, o.holderKey, o.aud, o.nonce))

(* A card is signed with its extension on it, or before it is put on. *)
SendCard ==
  \E o \in CardOptions : \E params \in DisclosureExtension(o.signed, o.embed, o.url) :
    \/ Send("card", SignAgentCard(WithDisclosureExtension(o.card, params), o.key, o.kid))
    \/ Send("card", WithDisclosureExtension(SignAgentCard(o.card, o.key, o.kid), params))

---------------------------------------------------------------------------
(* The network. *)
Instead(r, wire) == [kind |-> r.kind, wire |-> wire]

WithLine(text, i, value) == [text EXCEPT ![i] = <<text[i][1], value>>]

Postponed(header) == [header EXCEPT !.params.expires = MaxClock + 1]

Edited(r) ==
  CASE r.kind = "siwa" ->
         {Instead(r, [r.wire EXCEPT !.text = WithLine(@, i, {MaxClock + 1})]) :
            i \in {j \in DOMAIN r.wire.text : r.wire.text[j][1] = "ExpirationTime"}}
         \cup {Instead(r, [r.wire EXCEPT !.text = WithLine(@, 1, Rules[p].domain)]) : p \in Party}
    [] r.kind = "tap" ->
         {Instead(r, [r.wire EXCEPT !.signatureInput = Postponed(@)])}
    [] r.kind = "sdjwt" -> {Instead(r, [jwt |-> r.wire.jwt, disclosures |-> r.wire.disclosures,
                                        kb |-> {}, terminated |-> TRUE])}
    [] r.kind = "card" -> {}

(* The unsigned part of one request with the signed part of another. *)
Recombined(r, s) ==
  CASE r.kind = "tap" -> Instead(r, [r.wire EXCEPT !.adpDisclosure = s.wire.adpDisclosure])
    [] r.kind = "sdjwt" -> Instead(r, [r.wire EXCEPT !.kb = s.wire.kb])
    [] r.kind = "card" -> Instead(r, [r.wire EXCEPT !.extensions = s.wire.extensions])
    [] r.kind = "siwa" -> Instead(r, [r.wire EXCEPT !.walletSignature = s.wire.walletSignature])

Arriving(kind) ==
  LET those == {r \in sent : r.kind = kind}
  IN  those \cup (UNION {Edited(r) : r \in those}) \cup {Recombined(r, s) : r, s \in those}

---------------------------------------------------------------------------
(* Calls. *)
Goto(c, label) == pc' = [pc EXCEPT ![c] = label]

(* parsed: the message of a sign-in text; challenge: the nonce a presentation     *)
(* must answer.                                                                   *)
Start(c, p, r, parsed, challenge) ==
  /\ pc[c] = "idle"
  /\ call' = [call EXCEPT ![c] = [party |-> p, request |-> r, at |-> clock,
                                  message |-> parsed, challenge |-> challenge]]
  /\ UNCHANGED <<clock, sent, owner, attested>>

(* nonceValid is the relying party's own: it may take a nonce once, spending it *)
(* when it is asked, whatever the call makes of the request afterwards, or go   *)
(* on taking it.                                                                *)
NonceValid(c, p, nonces) ==
  /\ \E spent \in {{}, nonces} : open' = [open EXCEPT ![p] = @ \ spent]
  /\ fresh' = [fresh EXCEPT ![c] = nonces \subseteq open[p]]

VerifySiwa(c, p, r) ==
  LET parsed == ParseSiwaMessage(r.wire.text)
      asked == {m \in parsed : /\ \A e \in Rules[p].expected : AgreesWithBinding(m, e)
                               /\ SiwaAsksNonce(m, Rules[p].domain)}
      opens == {m \in asked : SiwaOpens(m, Rules[p].domain, open[p], clock)}
      who == {t \in Token : \E m \in parsed : m.fields["AgentId"] = t}
  IN  /\ Start(c, p, r, parsed, {})
      /\ NonceValid(c, p, {m.fields["Nonce"] : m \in asked})
      /\ Goto(c, IF opens = {} THEN "refused" ELSE "recover")
      /\ disowned' = [disowned EXCEPT ![c] =
           \E t \in who, m \in parsed : owner[t] # {} /\ owner[t] # {m.address}]

VerifyTap(c, p, r) ==
  /\ Start(c, p, r, {}, {})
  /\ Goto(c, IF TapOpens(r.wire, Rules[p].tags, {clock}) THEN "key" ELSE "refused")
  /\ UNCHANGED <<open, fresh, disowned>>

PresentationOptions(p, challenge, now) ==
  [vct |-> {AdpVct}, now |-> {now}, aud |-> {Rules[p].domain}, nonce |-> challenge]

(* With a challenge of the party's, through ADP's own code or the library. *)
VerifyPresentation(c, p, r) ==
  \E n \in open[p] :
    /\ Start(c, p, r, {}, {n})
    /\ NonceValid(c, p, {n})
    /\ \/ Goto(c, "library")
       \/ Goto(c, IF VerifySdJwtVc(r.wire, PresentationOptions(p, {n}, clock))
                  THEN "accepted" ELSE "refused")
    /\ UNCHANGED disowned

(* accepted: the disclosure verifies and the card is its agent's own. *)
CardBound(card, resolve) ==
  /\ VerifyCardDisclosure(card, {}, resolve)
  /\ \E signed \in CardDisclosure(card, {}) : BoundToCardSigner(card, signed, resolve)

CardResolver == [w \in Wallet |-> w]

VerifyCard(c, p, r) ==
  /\ Start(c, p, r, {}, {})
  /\ Goto(c, IF CardBound(r.wire, CardResolver) THEN "accepted" ELSE "refused")
  /\ UNCHANGED <<open, fresh, disowned>>

Begin(c) ==
  \E p \in Party :
    \/ \E r \in Arriving("siwa") : VerifySiwa(c, p, r)
    \/ \E r \in Arriving("tap") : VerifyTap(c, p, r)
    \/ \E r \in Arriving("sdjwt") : VerifyPresentation(c, p, r)
    \/ \E r \in Arriving("card") : VerifyCard(c, p, r)

---------------------------------------------------------------------------
Await(c, label) ==
  /\ pc[c] = label
  /\ UNCHANGED <<clock, sent, open, owner, call, fresh, disowned>>

SignIn(c) == CHOOSE m \in call[c].message : TRUE

Recovered(c) ==
  /\ Await(c, "recover")
  /\ LET holds == SignedByAddress(SignIn(c), call[c].request.wire.walletSignature)
         asks == holds /\ Rules[call[c].party].asksRegistry
     IN  /\ Goto(c, IF asks THEN "registry" ELSE IF holds THEN "accepted" ELSE "refused")
         /\ attested' = [attested EXCEPT ![c] = IF holds /\ ~asks THEN "signed" ELSE "none"]

(* Recovery throws, its optional package not being installed: a refusal whose    *)
(* reason only the text tells.                                                   *)
RecoveryFails(c) ==
  /\ Await(c, "recover")
  /\ Goto(c, "unrecovered")
  /\ UNCHANGED attested

RegistryAnswers(c) ==
  /\ Await(c, "registry")
  /\ LET tier == SiwaAttestation(SignIn(c), owner[SignIn(c).fields["AgentId"]])
     IN  /\ attested' = [attested EXCEPT ![c] = IF tier = "none" THEN "signed" ELSE tier]
         /\ Goto(c, IF tier = "none" THEN "refused" ELSE "accepted")

(* A directory of the party's own may trust the key or not know it. *)
KeyResolved(c) ==
  /\ Await(c, "key")
  /\ LET p == call[c].party
         wire == call[c].request.wire
         keys == DefaultTapKeyResolver(wire.signatureInput.params.keyId, Wallet)
     IN  \E known \in (IF Rules[p].asksDirectory THEN {keys, {}} ELSE {keys}) :
           Goto(c, IF \E key \in known :
                        VerifyTapRequest(wire, Rules[p].domain, Rules[p].path, key, TRUE)
                   THEN "accepted" ELSE "refused")
  /\ UNCHANGED attested

LibraryAnswers(c) ==
  /\ Await(c, "library")
  /\ Goto(c, IF VerifySdJwtVcWithLib(call[c].request.wire,
                  PresentationOptions(call[c].party, call[c].challenge, call[c].at))
             THEN "accepted" ELSE "refused")
  /\ UNCHANGED attested

(* The registry or the directory rejects, the library is not installed: the     *)
(* rejection is the caller's.                                                    *)
CallRejects(c) ==
  /\ \E label \in {"registry", "key", "library"} : Await(c, label)
  /\ Goto(c, "thrown")
  /\ UNCHANGED attested

Settle(c) ==
  \/ Recovered(c) \/ RecoveryFails(c) \/ RegistryAnswers(c)
  \/ KeyResolved(c) \/ LibraryAnswers(c) \/ CallRejects(c)

Tick ==
  /\ clock < MaxClock
  /\ clock' = clock + 1
  /\ UNCHANGED <<sent, open, owner, pc, call, results>>

(* The token is sold, or its entry cleared; only a sign-in reads it. *)
Transfer(t) ==
  /\ \E r \in sent : r.kind = "siwa"
  /\ \E w \in {{}} \cup {{x} : x \in Wallet} : owner' = [owner EXCEPT ![t] = w]
  /\ disowned' = [c \in Call |->
       \/ disowned[c]
       \/ /\ pc[c] \in {"recover", "registry"}
          /\ SignIn(c).fields["AgentId"] = t
          /\ owner'[t] # {} /\ owner'[t] # {SignIn(c).address}]
  /\ UNCHANGED <<clock, sent, open, pc, call, attested, fresh>>

Next ==
  \/ SendSignIn \/ SendTap \/ SendPresentation \/ SendCard
  \/ \E c \in Call : Begin(c) \/ Settle(c)
  \/ \E t \in Token : Transfer(t)
  \/ Tick

Spec == Init /\ [][Next]_vars

---------------------------------------------------------------------------
TypeOK ==
  /\ clock \in 0..MaxClock
  /\ open \in [Party -> SUBSET Nonce]
  /\ pc \in [Call -> {"idle"} \cup Awaiting \cup Ended]
  /\ attested \in [Call -> {"none", "signed", "registry_attested"}]

Accepted(c, kind) == pc[c] = "accepted" /\ call[c].request.kind = kind

SentOf(kind) == {s.wire : s \in {r \in sent : r.kind = kind}}

(* A sign-in is accepted only if the wallet it names signed, line for line, the *)
(* text of the message that was accepted, for this party's domain and, as far as  *)
(* its dates can be read, a window that was open when the call began: no edited   *)
(* line, other domain's text or other text's signature gets one through           *)
(* (siwa.ts:238-310).                                                             *)
SignInWasMeant ==
  \A c \in Call : Accepted(c, "siwa") =>
    \E w \in SentOf("siwa") :
      /\ w.text = FormatSiwaMessage(SignIn(c))
      /\ w.walletSignature.by = SignIn(c).address
      /\ SignIn(c).domain = Rules[call[c].party].domain
      /\ "ExpirationTime" \in DOMAIN SignIn(c).fields =>
           \A t \in SignIn(c).fields["ExpirationTime"] : t > call[c].at
      /\ "NotBefore" \in DOMAIN SignIn(c).fields =>
           \A t \in SignIn(c).fields["NotBefore"] : t <= call[c].at

(* An HTTP request is accepted only if the agent whose disclosure it carries     *)
(* signed those parameters for this party's authority and path, within their     *)
(* window, and declared nothing but the components it signed                     *)
(* (visatap.ts:324-423).                                                         *)
TapRequestWasMeant ==
  \A c \in Call : Accepted(c, "tap") =>
    LET got == call[c].request.wire
        rules == Rules[call[c].party]
    IN  \E w \in SentOf("tap") :
          /\ w.tapSignature.value.over =
               [authority |-> rules.domain, path |-> rules.path, params |-> got.signatureInput.params]
          /\ InTapWindow(w.signatureInput.params, call[c].at)
          /\ \A signed \in got.adpDisclosure :
               signed.disclosure.agentId = w.tapSignature.value.by

(* A presentation is accepted, by ADP's code or through the library, only if its *)
(* holder presented exactly these Disclosures of this credential to this party   *)
(* against the challenge of this call: fields chosen for another presentation    *)
(* are not added, left out or replayed (sdjwtvc.ts:290-416, 489-564).            *)
PresentationWasMeant ==
  \A c \in Call : Accepted(c, "sdjwt") =>
    LET got == call[c].request.wire IN
    \E w \in SentOf("sdjwt") : \E kb \in w.kb :
      /\ w.jwt = got.jwt /\ w.disclosures = got.disclosures
      /\ kb.payload.aud = Rules[call[c].party].domain
      /\ {kb.payload.nonce} = call[c].challenge

(* A card is taken for its agent's own only if the agent whose disclosure it     *)
(* carries signed the card with everything on it, that disclosure included       *)
(* (a2a.ts:330-368).                                                             *)
BoundCardWasSigned ==
  \A c \in Call : Accepted(c, "card") =>
    LET got == call[c].request.wire IN
    \E w \in SentOf("card") : \E sig \in w.signatures, signed \in ExtractDisclosure(got) :
      /\ sig.value.over.payload = CanonicalCardPayload(got)
      /\ SignerBindsToAgentId(sig.value.by, signed.disclosure.agentId)

(* A statement with a line of its own labelled URI does not survive parsing. *)
PlainStatement(text) == Cardinality({i \in DOMAIN text : text[i][1] = "URI"}) = 1

HonestSignIn(c) ==
  /\ PlainStatement(call[c].request.wire.text)
  /\ \A e \in Rules[call[c].party].expected : AgreesWithBinding(SignIn(c), e)
  /\ SignIn(c).domain = Rules[call[c].party].domain
  /\ InSiwaWindow(SignIn(c), call[c].at)
  /\ SignIn(c).fields["Nonce"] \in Nonce
  /\ fresh[c] /\ ~disowned[c]

HonestTap(c) ==
  LET w == call[c].request.wire
      rules == Rules[call[c].party]
  IN  /\ w.tapSignature.value.over.authority = rules.domain
      /\ w.tapSignature.value.over.path = rules.path
      /\ w.signatureInput.params.tag \in rules.tags /\ ~rules.asksDirectory
      /\ w.signatureInput.params.keyId = w.tapSignature.value.by
      /\ InTapWindow(w.signatureInput.params, call[c].at)
      /\ \A signed \in w.adpDisclosure : signed.disclosure.agentId = w.tapSignature.value.by

(* The credential was issued by the key that its agentId names. *)
HonestPresentation(c) ==
  LET jwt == call[c].request.wire.jwt IN
  /\ jwt.payload.iss = AgentIdToDidKey(jwt.signature.by)
  /\ jwt.payload.exp >= call[c].at
  /\ \E kb \in call[c].request.wire.kb :
       kb.payload.aud = Rules[call[c].party].domain /\ {kb.payload.nonce} = call[c].challenge

(* What an agent signed for a party is not refused by it when it arrives         *)
(* unaltered within its window, on a nonce the party still takes, while the      *)
(* registry does not name another owner: whatever other calls, altered copies    *)
(* and transfers the call overlaps with.                                         *)
HonestRequestAccepted ==
  \A c \in Call :
    pc[c] = "refused" /\ call[c].request \in sent =>
      LET kind == call[c].request.kind IN
      /\ kind = "siwa" => ~HonestSignIn(c)
      /\ kind = "tap" => ~HonestTap(c)
      /\ kind = "sdjwt" => ~HonestPresentation(c)
=============================================================================
