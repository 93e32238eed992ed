---------------------------- MODULE Counterparty ----------------------------
(***************************************************************************)
(* Verify-before-pay: calls of guardSettlement / verifyCounterparty        *)
(* (guard.ts, client.ts) by an agent's /pay handler, against payee agents  *)
(* that serve a disclosure and answer challenges (reference-agent).        *)
(*                                                                         *)
(* A call runs to its next await in one step: there is no other             *)
(* interleaving inside one Node process.  Between the steps of a call the   *)
(* payee's process may stop, restart or rotate its key, time passes, a      *)
(* revocation is published.  The transport is a growing set of replies per  *)
(* URL: a reply may be delayed, lost, or be a stale copy of an earlier one. *)
(***************************************************************************)
EXTENDS Policy, Handshake

CONSTANTS
  Agent,          \* payees, named by the base URL they are reached at
  Key,            \* key pairs
  Session,        \* calls of /pay, also the names of their random nonces
  Payee,          \* Payee[s]: the payeeBaseUrl of call s
  OwnKey,         \* OwnKey[a]: {opts.key}, or {} when each boot makes a new key
  Profile,        \* Profile[a]: what a may disclose, and in which envelope
  Drift,          \* Drift[a]: a's clock minus the payer's
  PayPolicy,      \* the payer's policy
  LiveHandshake,  \* opts.liveHandshake
  Skew,           \* handshakeSkewMs
  Window,         \* disclosureWindowMs
  MaxTime,        \* bound of the model on the clock,
  MaxAnswers,     \* on the answers sent to one challenge,
  MaxRevoked      \* and on the published revocations

ASSUME CounterpartyAssumption ==
  /\ Payee \in [Session -> Agent]
  /\ OwnKey \in [Agent -> SUBSET Key]
  /\ Drift \in [Agent -> Nat]
  /\ LiveHandshake \in BOOLEAN
  /\ {Skew, Window, MaxTime, MaxAnswers, MaxRevoked} \subseteq Nat

(* The defaults of VerificationPolicy, which no policy of the repository turns off. *)
ASSUME PolicyAssumption == PayPolicy.requireValidSignature /\ PayPolicy.requireFresh

VARIABLES
  now,        \* the payer's clock
  minted,     \* keys that exist
  hosts,      \* hosts[a]: {} when a is down, else its key and signed disclosure
  served,     \* disclosures sent by some host: the replies to GETs
  asked,      \* challenges posted to a URL
  answered,   \* challenge responses sent by some host
  revoked,    \* ids on the published revocation list
  oracle,     \* the payer's snapshot of that list
  pc,         \* pc[s]: where call s stands
  startedAt,  \* startedAt[s]: the payer's clock when the call began
  signed,     \* signed[s]: the disclosure under evaluation, if any
  reasons,    \* reasons[s]: why the verdict is a refuse
  known,      \* history: the payer's snapshot when call s began
  disturbed   \* history: calls whose fetches failed, got a stale copy, or
              \* saw the payee stop

environment == <<now, minted, hosts, revoked, oracle>>
transport == <<served, asked, answered>>
call == <<pc, startedAt, signed, reasons, known>>
vars == <<environment, transport, call, disturbed>>

Clock(a) == now + Drift[a]

Open == {"fetching", "awaiting"}
Ended == {"settled", "refused", "thrown"}

---------------------------------------------------------------------------
(* The payee agents *)

MintDisclosure(a, profile, agentId, at) ==
  [disclosureId |-> [of |-> a, at |-> at], agentId |-> agentId,
   issuedAt |-> at, validUntil |-> at + Window,
   auditAnchor |-> [head |-> a, at |-> at],
   version |-> profile.version, claims |-> profile.claims]

Host(a, profile, agentId, key, at, chain) ==
  [key |-> key, profile |-> profile,
   signed |-> SignDisclosure(profile.form, MintDisclosure(a, profile, agentId, at), key, chain)]

Init ==
  /\ now = 0
  /\ minted = UNION {OwnKey[a] : a \in Agent}
  /\ hosts = [a \in Agent |-> {}]
  /\ served = {} /\ asked = {} /\ answered = {}
  /\ revoked = {} /\ oracle = {}
  /\ pc = [s \in Session |-> "idle"]
  /\ startedAt = [s \in Session |-> 0]
  /\ signed = [s \in Session |-> {}]
  /\ reasons = [s \in Session |-> {}]
  /\ known = [s \in Session |-> {}]
  /\ disturbed = {}

(* Calls in progress at a notice, unknowingly, that a is not what it was. *)
Disturb(a) == disturbed' = disturbed \cup {s \in Session : Payee[s] = a /\ pc[s] \in Open}

(* The process boots, perhaps as a new release, and mints the one disclosure *)
(* it serves until it stops.                                                 *)
StartReferenceAgent(a) ==
  /\ hosts[a] = {}
  /\ \E profile \in Profile[a], key \in IF OwnKey[a] = {} THEN Key \ minted ELSE OwnKey[a] :
       /\ hosts' = [hosts EXCEPT ![a] = {Host(a, profile, key, key, Clock(a), <<>>)}]
       /\ minted' = minted \cup {key}
  /\ UNCHANGED <<now, revoked, oracle, transport, call, disturbed>>

Stop(a) ==
  /\ hosts[a] # {}
  /\ hosts' = [hosts EXCEPT ![a] = {}]
  /\ Disturb(a)
  /\ UNCHANGED <<now, minted, revoked, oracle, transport, call>>

(* The old key signs the move, the agentId stays, the new key signs anew. *)
Rotate(a) ==
  /\ \E h \in hosts[a], key \in Key \ minted :
       LET chain == Append(h.signed.rotationChain, RotateKey(h.key, key, Clock(a)))
       IN  /\ hosts' = [hosts EXCEPT ![a] =
                          {Host(a, h.profile, h.signed.disclosure.agentId, key, Clock(a), chain)}]
           /\ minted' = minted \cup {key}
  /\ Disturb(a)
  /\ UNCHANGED <<now, revoked, oracle, transport, call>>

ServeDisclosure(a) ==
  /\ \E s \in Session : Payee[s] = a /\ pc[s] = "fetching"
  /\ \E h \in hosts[a] : served' = served \cup {[url |-> a, signed |-> h.signed]}
  /\ UNCHANGED <<environment, asked, answered, call, disturbed>>

(* POST /agent-disclosure/respond; the head it binds is the one of its boot. *)
Respond(a) ==
  /\ \E h \in hosts[a], m \in asked :
       /\ m.url = a
       /\ Cardinality({x \in answered : x.response.nonce = m.challenge.nonce}) < MaxAnswers
       /\ answered' = answered \cup
            {[url |-> a,
              response |-> RespondToChallenge(m.challenge, h.key,
                             h.signed.disclosure.auditAnchor, Clock(a), {})]}
  /\ UNCHANGED <<environment, served, asked, call, disturbed>>

---------------------------------------------------------------------------
(* Revocation and time *)

Ids(disclosure) == {disclosure.disclosureId, disclosure.agentId}

Revoke(a) ==
  /\ Cardinality(revoked) < MaxRevoked
  /\ \E h \in hosts[a] : \E id \in Ids(h.signed.disclosure) : revoked' = revoked \cup {id}
  /\ UNCHANGED <<now, minted, hosts, oracle, transport, call, disturbed>>

(* loadRevocationOracle succeeds; when it throws the caller keeps what it has. *)
LoadRevocationOracle ==
  /\ oracle' = revoked
  /\ UNCHANGED <<now, minted, hosts, revoked, transport, call, disturbed>>

Tick ==
  /\ now < MaxTime
  /\ now' = now + 1
  /\ UNCHANGED <<minted, hosts, revoked, oracle, transport, call, disturbed>>

---------------------------------------------------------------------------
(* One call of guardSettlement -> verifyCounterparty *)

RandomNonce(s) == s                  \* unguessable and never drawn twice

(* Slips: the tolerance is left out; it is taken off instead of added. *)
PolicyNowUnskewed(at) == at

PolicyNowBehind(at) == at - Skew

PolicyNow(at) == at + Skew           \* policy.now, fixed for the whole call

Challenge(s) == CreateChallenge(PolicyNow(startedAt[s]), RandomNonce(s), "payer")

Decision(failed) == IF failed = {} THEN "settled" ELSE "refused"

(* The calls of S start: no fetch has been answered yet. *)
Begin(S) ==
  LET begun(f, value) == [s \in Session |-> IF s \in S THEN value ELSE f[s]] IN
  /\ \A s \in S : pc[s] = "idle"
  /\ pc' = begun(pc, "fetching")
  /\ startedAt' = begun(startedAt, now)
  /\ known' = begun(known, oracle)
  /\ UNCHANGED <<environment, transport, signed, reasons, disturbed>>

Pay(s) == Begin({s})

(* A slip: only the first fetch is inside a try. *)
FetchFailsOnGetOnly(s) ==
  /\ pc[s] = "fetching"
  /\ pc' = [pc EXCEPT ![s] = "refused"]
  /\ reasons' = [reasons EXCEPT ![s] = @ \cup {"unreachable"}]
  /\ disturbed' = disturbed \cup {s}
  /\ UNCHANGED <<environment, transport, startedAt, signed, known>>

(* Either fetch rejects, is not ok, or its body is not JSON: a refuse. *)
FetchFails(s) ==
  /\ pc[s] \in Open
  /\ pc' = [pc EXCEPT ![s] = "refused"]
  /\ reasons' = [reasons EXCEPT ![s] = @ \cup {"unreachable"}]
  /\ disturbed' = disturbed \cup {s}
  /\ UNCHANGED <<environment, transport, startedAt, signed, known>>

(* Replies s may get: any sent from its URL.  One that is not what the host  *)
(* says now is a stale copy.                                                 *)
Disclosures(s) == {m.signed : m \in {x \in served : x.url = Payee[s]}}
Responses(s) == {m.response : m \in {x \in answered : x.url = Payee[s]}}

DisturbIf(s, stale) == disturbed' = IF stale THEN disturbed \cup {s} ELSE disturbed

StaleDisclosure(s, d) == d \notin {h.signed : h \in hosts[Payee[s]]}
StaleResponse(s, r) ==
  <<r.nonce, r.agentId>> \notin {<<RandomNonce(s), h.key>> : h \in hosts[Payee[s]]}

(* The schema validates a v1 envelope to the leaves, of a JWS the wrapping    *)
(* only: its payload is validated by getDisclosure, outside any try.          *)
Parses(d) == d.form = "v1" => d.disclosure.version = 1
GetDisclosureThrows(d) == d.form = "jws" /\ d.disclosure.version # 1

FailToParse(s) ==
  /\ pc[s] = "fetching"
  /\ \E d \in Disclosures(s) : ~Parses(d) /\ DisturbIf(s, StaleDisclosure(s, d))
  /\ pc' = [pc EXCEPT ![s] = "refused"]
  /\ reasons' = [reasons EXCEPT ![s] = {"unreachable"}]
  /\ UNCHANGED <<environment, transport, startedAt, signed, known>>

(* verifyCounterparty rejects; /pay answers 500. *)
ThrowOnPayload(s) ==
  /\ pc[s] = "fetching"
  /\ \E d \in Disclosures(s) :
       Parses(d) /\ GetDisclosureThrows(d) /\ DisturbIf(s, StaleDisclosure(s, d))
  /\ pc' = [pc EXCEPT ![s] = "thrown"]
  /\ UNCHANGED <<environment, transport, startedAt, signed, reasons, known>>

(* Parse, evaluate and post the challenge, with no await between them.  A     *)
(* refused disclosure is challenged all the same.                             *)
Evaluate(s) ==
  /\ pc[s] = "fetching"
  /\ \E d \in Disclosures(s) :
       LET failed == EvaluateDisclosure(d, PayPolicy, PolicyNow(startedAt[s]), oracle)
       IN  /\ Parses(d) /\ ~GetDisclosureThrows(d)
           /\ signed' = [signed EXCEPT ![s] = {d}]
           /\ reasons' = [reasons EXCEPT ![s] = failed]
           /\ pc' = [pc EXCEPT ![s] = IF LiveHandshake THEN "awaiting" ELSE Decision(failed)]
           /\ DisturbIf(s, StaleDisclosure(s, d))
  /\ asked' = IF LiveHandshake THEN asked \cup {[url |-> Payee[s], challenge |-> Challenge(s)]}
                               ELSE asked
  /\ UNCHANGED <<environment, served, answered, startedAt, known>>

(* The response decides: back in /pay the payment is made or a 402 is sent. *)
Conclude(s) ==
  /\ pc[s] = "awaiting"
  /\ \E r \in Responses(s), d \in signed[s] :
       LET ok == VerifyChallengeResponse(r, Challenge(s), d.disclosure.agentId,
                                         PolicyNow(startedAt[s]), {})
           failed == reasons[s] \cup (IF ok THEN {} ELSE {"handshake"})
       IN  /\ reasons' = [reasons EXCEPT ![s] = failed]
           /\ pc' = [pc EXCEPT ![s] = Decision(failed)]
           /\ DisturbIf(s, StaleResponse(s, r))
  /\ UNCHANGED <<environment, transport, startedAt, signed, known>>

---------------------------------------------------------------------------
AgentNext(a) ==
  StartReferenceAgent(a) \/ Stop(a) \/ Rotate(a) \/ ServeDisclosure(a) \/ Respond(a) \/ Revoke(a)

FetchSettles(s) == FailToParse(s) \/ ThrowOnPayload(s) \/ Evaluate(s) \/ Conclude(s) \/ FetchFails(s)

Next ==
  \/ \E a \in Agent : AgentNext(a)
  \/ \E s \in Session : Pay(s) \/ FetchSettles(s)
  \/ LoadRevocationOracle
  \/ Tick

Spec == Init /\ [][Next]_vars

(* A pending fetch resolves or rejects in the end: node's HTTP client gives   *)
(* up on a silent peer.  Nothing else is fair, hosts least of all.            *)
FairSpec == Spec /\ \A s \in Session : WF_vars(FetchSettles(s))

---------------------------------------------------------------------------
(* Type invariant.  Times are never negative, a challenge was posted by the   *)
(* call whose nonce it bears, and keys in use exist.                          *)
EnvelopeOK(d) ==
  /\ d.publicKey \in minted
  /\ d.disclosure.issuedAt \in Nat
  /\ d.disclosure.validUntil \in Nat

ChallengeType == [nonce : Session, issuedAt : Nat, verifierId : {"payer"}]

TypeOK ==
  /\ now \in Nat
  /\ minted \subseteq Key
  /\ DOMAIN hosts = Agent
  /\ \A a \in Agent : \A h \in hosts[a] : h.key \in minted /\ EnvelopeOK(h.signed)
  /\ \A m \in served : m.url \in Agent /\ EnvelopeOK(m.signed)
  /\ asked \subseteq [url : Agent, challenge : ChallengeType]
  /\ \A m \in answered :
       /\ m.url \in Agent /\ m.response.nonce \in Session
       /\ m.response.agentId \in minted /\ m.response.signedAt \in Nat
  /\ oracle \subseteq revoked
  /\ pc \in [Session -> {"idle"} \cup Open \cup Ended]
  /\ startedAt \in [Session -> Nat]
  /\ DOMAIN signed = Session /\ DOMAIN reasons = Session /\ DOMAIN known = Session
  /\ \A s \in Session : \A d \in signed[s] : EnvelopeOK(d)
  /\ disturbed \subseteq Session

(* A call pays only a payee that was live during the call: under the agentId  *)
(* of the disclosure that cleared the policy, it answered this call's own     *)
(* challenge, after the call began, within the skew tolerance of that, and    *)
(* inside the validity window of that disclosure.  No replayed, stale or      *)
(* crossed reply and no restart between the two fetches gets past             *)
(* (client.ts:76-96, handshake.ts:162-207).                                   *)
AnsweredLive(s, d, r) ==
  /\ r.nonce = RandomNonce(s)
  /\ r.agentId = d.disclosure.agentId
  /\ startedAt[s] + Drift[Payee[s]] <= r.signedAt
  /\ r.signedAt <= startedAt[s] + Skew
  /\ d.disclosure.issuedAt <= r.signedAt
  /\ r.signedAt <= d.disclosure.validUntil

PaidOnlyIfLive ==
  LiveHandshake =>
    \A s \in Session : pc[s] = "settled" =>
      \E d \in signed[s], r \in Responses(s) : AnsweredLive(s, d, r)

(* A revocation the payer had loaded before the call began stops the payment, *)
(* whichever of the document and the agent it names, however the payee        *)
(* restarts or re-issues in between (verify.ts:187-191).                      *)
KnownRevocationHolds ==
  \A s \in Session : pc[s] = "settled" =>
    \A d \in signed[s] : Ids(d.disclosure) \cap known[s] = {}

(* The strengthening that makes the two inductive.  What a host, a reply or a *)
(* call holds was issued in its host's past; a challenge is out only once its *)
(* call awaits the answer; an answer is younger than the call it answers and  *)
(* than the disclosure that call evaluated.                                   *)
IssuedInPast(d, a) == d.disclosure.issuedAt <= Clock(a)

Causal ==
  /\ \A a \in Agent : \A h \in hosts[a] : IssuedInPast(h.signed, a)
  /\ \A m \in served : IssuedInPast(m.signed, m.url)
  /\ \A s \in Session : \A d \in signed[s] : IssuedInPast(d, Payee[s])
  /\ \A s \in Session : startedAt[s] <= now /\ known[s] \subseteq oracle

Challenged(s) == pc[s] \notin {"idle", "fetching"}

AskedByItsCall ==
  \A m \in asked : Challenged(m.challenge.nonce) /\ m.url = Payee[m.challenge.nonce]

AnswerAfterCall(r, s) ==
  /\ startedAt[s] + Drift[Payee[s]] <= r.signedAt
  /\ \A d \in signed[s] : d.disclosure.issuedAt <= r.signedAt

AnswersItsCall ==
  \A m \in answered :
    /\ Challenged(m.response.nonce) /\ m.url = Payee[m.response.nonce]
    /\ AnswerAfterCall(m.response, m.response.nonce)

Cleared(s) ==
  \E d \in signed[s] :
    /\ signed[s] = {d}
    /\ IsFresh(d.disclosure, startedAt[s] + Skew)
    /\ Ids(d.disclosure) \cap known[s] = {}

ClearedByEvaluation ==
  \A s \in Session :
    /\ pc[s] = "awaiting" /\ reasons[s] = {} => Cleared(s)
    /\ pc[s] = "settled" => Cleared(s)

IInv ==
  TypeOK /\ Causal /\ AskedByItsCall /\ AnswersItsCall /\ ClearedByEvaluation /\ PaidOnlyIfLive

(* A payee is not refused for nothing: a call that ran undisturbed against a  *)
(* payee whose disclosure meets the policy, is in its window, is not revoked  *)
(* and is signed by the agentId's own key does not end in a refuse or a throw *)
(* while the payee's clock is inside the skew tolerance (server.ts:57-62).    *)
Acceptable(s, d) ==
  /\ d.disclosure.version = 1
  /\ VerifyAnyDisclosureSignature(d)
  /\ \A check \in ChecksRun(d.disclosure.claims, PayPolicy) \ EnvelopeCheck :
       ClaimPasses(check, d.disclosure.claims, PayPolicy)
  /\ IsFresh(d.disclosure, startedAt[s] + Skew)
  /\ Ids(d.disclosure) \cap oracle = {}

InTime(s) ==
  /\ Clock(Payee[s]) <= startedAt[s] + Skew
  /\ Skew - Drift[Payee[s]] <= MaxAge

RefusedThoughFit(s) ==
  /\ pc[s] \in Open /\ pc'[s] \in {"refused", "thrown"} /\ s \notin disturbed'
  /\ \E h \in hosts[Payee[s]] : Acceptable(s, h.signed)
  /\ InTime(s)

HonestPayeeNotRefused ==
  [][\A s \in Session : RefusedThoughFit(s) =>
       \E h \in hosts[Payee[s]] : h.key # h.signed.disclosure.agentId]_vars

(* "This is what lets an identity survive key rotation: agentId stays fixed   *)
(* while the signing key advances" (attestation.ts:131-132): the same, for a  *)
(* payee that has rotated its key and carries the chain.                      *)
IdentitySurvivesRotation == [][\A s \in Session : ~RefusedThoughFit(s)]_vars

(* "Any transport/parse failure is a refuse - fail closed" (client.ts:46):    *)
(* verifyCounterparty answers every call with a verdict and never throws.     *)
EveryFailureIsARefuse == \A s \in Session : pc[s] # "thrown"

(* The guard implements the abstract promise: the payee's answers are its     *)
(* vouchers, and a payment is made to the agentId of the disclosure.          *)
Stage(s) ==
  IF pc[s] \in Open THEN "pending"
  ELSE IF pc[s] \in {"refused", "thrown"} THEN "declined" ELSE pc[s]

Vouchers == {<<m.response.nonce, m.response.agentId>> : m \in answered}

Payments ==
  {p \in Session \X Key :
     pc[p[1]] = "settled" /\ \E d \in signed[p[1]] : d.disclosure.agentId = p[2]}

VBP == INSTANCE VerifyBeforePay WITH
  Payment <- Session, Identity <- Key,
  status <- [s \in Session |-> Stage(s)], vouched <- Vouchers, paid <- Payments

ImplementsVerifyBeforePay == VBP!Spec

(* Every call of /pay is answered: paid, refused, or failed with a 500.       *)
EveryCallEnds == \A s \in Session : pc[s] \in Open ~> pc[s] \in Ended
=============================================================================
