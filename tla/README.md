# A TLA+ verification project for the Agent Disclosure Protocol

Beside the TypeScript reference implementation (`src/src/*.ts`, and the reference agent in
`src/examples/reference-agent/server.ts`) this directory keeps TLA+ modules of its stateful parts, the
TLC configurations that check them on small instances, and TLAPS proofs of the properties that matter
most. Paths below are relative to the repository, whose code is under `src/`. The language ports
(`src/c`, `src/go`, `src/python`, `src/rust`) re-implement the TypeScript core and are not modelled.

1. [The system](#1-the-system) - 2. [Modules](#2-modules) - 3. [Conventions](#3-modelling-conventions) -
4. [Runs and bounds](#4-what-each-run-checks) - 5. [Fairness](#5-fairness) -
6. [Proofs](#6-what-is-proved) - 7. [Where code and comments disagree](#7-where-the-code-and-its-comments-disagree) -
8. [Not modelled](#8-what-is-not-modelled-and-why) - 9. [Plan](#9-plan)

## 1. The system

An agent publishes a signed *disclosure* (its constitution, model, custody, red-team results, audit
anchor) at a well-known URL. A counterparty that is about to pay it fetches the disclosure, evaluates
it against its own *policy*, makes the agent prove that it is present and still holds its key (a
*live handshake*), and only then pays. Around that core stand a revocation list, a cache of verdicts, a
transparency log with witnesses, an on-chain registry and several bridges to other identity systems.

| Component (`src/src/`) | State it keeps | Operations | Interacts through | Hard behaviours | Correct when |
|---|---|---|---|---|---|
| Keys, signatures, identity (`attestation`, `keys`) | none; a rotation chain travels in the envelope | sign, verify, rotate, verify a chain, bind agentId to key | called by policy and handshake | cycles and length of chains, unsigned chain in a signed envelope | only the agentId's key, or one it moved to, signs for it |
| Schema and envelopes (`schema`, `versioning`) | none | parse v1 or JWS, get the payload | first thing done with a reply | two-stage validation: the payload of a JWS is read later | every malformed reply is a refuse |
| Policy (`verify`) | none | `evaluateDisclosure` | injected clock and oracles | inclusive window ends, absent options | it transacts exactly when every predicate asked for holds |
| Handshake (`handshake`) | a challenge per call | create, respond, verify | two messages | replayed, crossed and late responses, clock drift | an accepted response was made for this challenge, now, by this identity |
| Counterparty client and guard (`client`, `guard`) | one activation record per call | `verifyCounterparty`, `guardSettlement` | two HTTP fetches, policy, handshake, payer's oracle | awaits between evaluation and payment, concurrent calls, payee restarts, fetches that fail | pays only the live; never refuses the honest for nothing; always ends |
| Reference agent (`server.ts`) | key and disclosure, fixed at boot | serve, respond, `/pay` | HTTP | restart with a new key, a tolerance for clock drift | see above: it is both payer and payee |
| Revocation (`revocation`, `revocationTransport`) | set of ids; a verifier's snapshot | revoke, load | HTTP snapshot | stale snapshot | a revocation that is known is honoured |
| Cache (`cache`) | map agentId+nonce -> verdict, until | get, put, clear, `verifyTiered` | policy | entries that outlive what they were computed from | a hit is what an evaluation would say |
| Transparency log and witness (`transparency`, `transparencyTransport`, `witness`) | hash-chained entries in memory; a pin per subject | append, prove, submit, fetch; check, observe | HTTP, operator's store | lost replies and retries, restart, edits in place with the public hash computed anew, several views | a receipt stays good; a witness never accepts a history that is not an extension |
| Mutual verification (`mutual`, `guard`) | none | two legs at once, combine | client | crossed replies, a leg that throws while the other runs on | both or neither |
| Discovery (`discovery`) | a directory | register, look up, verify | client | an entry or a host replaced between lookup and fetch | the verdict is about the URL looked up |
| Status list (`statusList`) | a bitstring | set, grow, encode, decode, ask | encoded list over HTTP | int32 shifts, a bit in the last byte | an index reads as it was set |
| Redaction and negotiation (`redaction`, `negotiate`, `zk`) | what the holder retained | prepare, reveal, ask, open | a view sent over a channel | views put together from several, fields not asked for | a view shows only what was committed, and a predicate whose field was asked for decides as on the whole |
| Monitor (`monitor`) | the last snapshot, kept by the caller | diff, detect | client | a fall by small steps | no fall below what was cleared goes unreported |
| Enforcement (`enforcement`) | the gate's decisions | hash a policy, attest, verify, replay | attestation over HTTP | the same policy written in another order, edits between disclosing and attesting | a replay that passes shows the disclosed policy was enforced; an honest gate passes |
| Zero-knowledge disclosure (`zkDisclosure`, `zkRange`) | none | commit, prove a range, require | proofs on the document | bits derived twice, bounds at their edge, relabelled proofs, agents that commit to what they like | behind each bound taken for proved stands a committed value that keeps it, and the true is proved |
| Operator and humanity attestations (`humanpassport`, `referenceVerifiers`, `self`, `worldagent`, `worldid`) | none | verify over an injected provider, map to a level | portal, backend, contract | an answer that changes, refuses or throws | a level is no higher than what its scheme asked for and was told |
| Credential, JOSE and model wrappings (`vc`, `joseEnvelope`, `modelAttestation`), builder (`builder`) | none | build, sign, wrap, unwrap, verify | library | a rotated agent's document in another form | the wrapping changes no verdict |
| ERC-8004 registry (`erc8004`, `erc8004Registry`) | memoised client | sign a binding, confirm it on chain | an index, then reads of a chain that moves between them | reads of different moments, a client that failed to load | a binding is confirmed on the word of both sides |
| ERC-8004 validation (`erc8004Onchain`, `erc8004Validation`, `erc8004Validator`) | the registry's last response per request | score a verdict, record it, check record and evidence | chain, a document over HTTP | a second response between the two reads | a score says what the verdict said |
| Signed-request bridges (`siwa`, `visatap`, `sdjwtvc`, `a2a`) | none; nonces are the caller's | sign, present, verify | texts, HTTP headers, compact serialisations, cards | awaits between the checks, replays, edited and recombined parts | what is accepted was meant for this party, and what was meant is accepted |
| Verifier service (`verifierService`) | a process | handle POST /verify | HTTP | a throw in an event callback, requests in flight together | an answer holds when it is sent; only what cannot be read ends the process |
| Command line (`cli`) | files | keygen, sign, verify-file, verify-url | arguments, exit codes | a value flag that takes a policy flag for its value | exit code 0 means every flag on the line was asked |
| Identifiers (`did`) | none | did:key and did:web names | - | - | - |
| Adapters, economics, ports, scripts | - | - | - | see section 8 | - |

The concurrency is that of Node: a call runs without interruption to its next `await`, and between two
awaits anything may have happened to the other processes, to the network and to the clock.

## 2. Modules

```
Attestation     <- Policy, Handshake, Registry, Bridges, VisaTap, AgentCard
Policy          <- Counterparty, Cache, Negotiation, Monitoring, VerifierService, Cli
Handshake       <- Counterparty
Counterparty    <- Mutual, MCCounterparty, CounterpartyProofs      (INSTANCE VerifyBeforePay)
Mutual          <- MCMutual, MutualProofs                          (INSTANCE MutualConsent)
Registry        <- MCRegistry, RegistryProofs
Cache           <- MCCache, Documents
TransparencyLog <- Transparency <- MCTransparency, TransparencyProofs
Selection       <- Siwa, SdJwtVc
Siwa, VisaTap, SdJwtVc, AgentCard <- Requests <- MCRequests, RequestsProofs
Cache, Negotiation, Monitoring, Enforcement, StatusList, ZkRange, OperatorLevels,
  Bridges, Validation, VerifierService, Cli <- Documents <- MCDocuments, DocumentsProofs,
                                                             SelectiveDisclosureProofs
NumberLemmas    <- TransparencyProofs, RequestsProofs, DocumentsProofs, SelectiveDisclosureProofs
```
An arrow reads "is extended by"; MutualProofs extends CounterpartyProofs as well. NumberLemmas holds no model:
induction and recursion over the naturals, division, and congruence modulo a number, as lemmas.

**Paying, and what a payment rests on.**

* **Attestation** - signatures, rotation statements and chains, the binding of an agentId to the
  signing key, the two envelopes, freshness. Pure operators.
* **Policy** - `evaluateDisclosure`. `ChecksRun` is the set of predicates the policy and document bring
  into play, `CheckPasses` says which hold, and `EvaluateDisclosure` is the set that fail: the code's
  `decision` is "transact" iff it is empty.
* **Handshake** - `createChallenge`, `respondToChallenge`, `verifyChallengeResponse`.
* **VerifyBeforePay** - the abstract specification of the settlement guard, without keys, clocks,
  messages or policies: a payment is made to an identity only after it vouched for itself to that very
  payment, and a payment is decided once.
* **Counterparty** - the core. Any number of concurrent calls of `/pay` -> `guardSettlement` ->
  `verifyCounterparty`, against payees that boot, stop, reboot with another key or as another release,
  and rotate.

  | Code | Action |
  |---|---|
  | `startReferenceAgent` (mints the disclosure it serves until it stops), `close` | `StartReferenceAgent`, `Stop` |
  | `rotateKey` and a re-issue under the old agentId, by an agent built on the library (the reference agent itself only changes key by rebooting) | `Rotate` |
  | GET `/.well-known/agent-disclosure`, POST `/agent-disclosure/respond` | `ServeDisclosure`, `Respond` |
  | POST `/pay` up to its first await | `Pay` |
  | the first reply: unparsable; a JWS whose payload is invalid; else evaluate and post the challenge | `FailToParse`, `ThrowOnPayload`, `Evaluate` |
  | the second reply: `verifyChallengeResponse`, the verdict, and what `/pay` does with it | `Conclude` |
  | either fetch rejects or is not ok | `FetchFails` |
  | `RevocationList.revoke`, `loadRevocationOracle` | `Revoke`, `LoadRevocationOracle` |

* **MutualConsent** - the abstract specification of mutual verification: an exchange is decided once, and
  is a deal only with the consent of both sides.
* **Mutual** - `mutualVerify`. An exchange starts two sessions of Counterparty in one step, as the two
  calls in `Promise.all([...])` run to their first awaits before anything else (`MutualVerify`). The legs
  then take Counterparty's steps (`LegStep`); both fulfilled, `combineMutual` decides (`BothFulfilled`,
  `Combine`); the first to throw rejects the exchange while the other runs on (`OneRejected`). A leg that
  settles is a "transact". The two policies of the options are the same one here.
* **Registry** - `verifyBindingOnchain` over `createRegistryResolver`. Owners write to the registry at any
  moment (`SetAgentWallet`, `SetMetadata`); a check verifies the signature, then awaits the index
  (`IndexAnswers`, which may name any token or none), `getAgentWallet` (`ReadWallet`) and `getMetadata`
  (`ReadPublishedAgentId`); each may reject (`ReadFails`). The client is a promise kept whether it
  resolves or rejects (`LoadClient`). Chain id and address of a registry are one value.
* **Cache** - one verifier that keeps asking `verifyTiered` about its documents while time passes, ids
  are revoked, the oracle is reloaded and the cache cleared.
* **TransparencyLog** - the hash chain and the checks on it as functions of a sequence of entries.
* **Transparency** - the process around it: submissions with their retries, replies that are lost or
  late, an operator with several views that restart; a holder of `entries()`, which is the live array, who changes any
  field of an entry and leaves its hash or computes it anew; verifiers that fetch proofs; a witness that may be
  shown any view, its check and its `observe` one step.

**Signed requests.** Requests has the parties, the network, the clock and the calls; the other four are the
pure checks of one format each.

* **Siwa** - the sign-in text as a sequence of labelled lines, its parser (the fields begin at the
  first line labelled URI, the last of two lines with one label counts, and what stands before is the
  statement), and the checks of `verifySiwa` before and after its awaits, in order. A label is named as the line
  begins, without its blanks. **Selection** has the filter that keeps the optional lines there are, in order.
* **VisaTap** - covered components, signature base, header, window, key and the binding to the disclosure.
* **SdJwtVc** - issuing with salted digests and decoys, selecting fields, the issuer's signature, the
  Disclosures, the key binding; the library's check from the callbacks given to it (`SdJwtLibraryAccepts`).
* **AgentCard** - the extension on a card, the signature over the card without its signatures, the signer.
* **Requests**

  | Code | Action |
  |---|---|
  | `disclosureToSiwaMessage` and the wallet; `signTapRequest`; `presentSdJwtVc`; `withDisclosureExtension`, `signAgentCard` in either order | `SendSignIn`, `SendTap`, `SendPresentation`, `SendCard` |
  | `verifySiwaAgainstDisclosure` -> `verifySiwa` to its first await; `verifyTapRequest` to its; `verifySdJwtVc`, or `verifySdJwtVcWithLib` to its await; `verifyCardDisclosure` | `VerifySiwa`, `VerifyTap`, `VerifyPresentation`, `VerifyCard` |
  | recovery of the wallet answers, or throws | `Recovered`, `RecoveryFails` |
  | the registry, the key resolver, the library answers; or rejects | `RegistryAnswers`, `KeyResolved`, `LibraryAnswers`; `CallRejects` |
  | a token changes hands | `Transfer` |

  What a party may be handed is `Arriving`: a request as it was signed, one with a line or a parameter edited,
  or the unsigned part of one with the signed part of another. Signing comes first (`Send` requires that no
  call has begun): it reads no clock and the network keeps what was signed, so nothing is lost by it.
  `NonceValid` is the caller's predicate, external: no code of the repository spends a nonce. It is asked once,
  before the first await, and may take the nonce back from that moment on or go on taking it.

**What is done with a disclosure outside a payment.** Documents puts eleven modules side by side. They share
operators (signatures, `EvaluateDisclosure`), not state; a behaviour is on one `duty`, and the other parts
rest in their first state, so that the states of the parts add up and do not multiply. VerifierService has
two duties, the HTTP service and discovery.

| Module | State and actions |
|---|---|
| **Negotiation** | `PrepareRedactable`, `DiscloseFor`, `SatisfiesPolicy`, the equality backend: `Prepare`, `Disclose`, `Judge` (a view with the revealed fields of another), `OpenField` |
| **Monitoring** | an agent republishes, a counterparty verifies once and then polls: `Publish`, `Verify`, `Poll` |
| **Enforcement** | `ChangePolicy`, `DiscloseBinding`, `Decide` (perhaps by another policy), `Attest`, `VerifyPoE`. The sort of the mandates is stable (`SortById`: two of one id keep their order), the list of denied rules is a bag (rule to count). The gate and the replay are external: the caller injects them |
| **StatusList** | `SetStatus`, `PublishStatus`, `FetchStatus` (any list published); a list is its length and its 1 bits; `ToInt` is the int32 conversion of a shift |
| **ZkRange** | `ProveDisclosureAttribute` by the library; `CommitAtWill`, an agent of another make with any value behind each part and any number of bits; `Relabel` (another predicate, parts of two proofs, a scalar that is no number); `Require`, which may throw. No value belongs to the attribute. Commitments are pairs in a group of order `GroupOrder`, so the sums and the last blinding are computed, and wrap. `Pow2` and `PartialSum` are recursive functions: the loop over the bits |
| **OperatorLevels** | `Present`, `ProviderAnswers`, `ProviderRefuses`, `ProviderThrows`, and `ProviderChanges` at any moment |
| **Bridges** | `BuildAndSign`, `WrapAsCredential`, `ClaimModel`; `PresentEnvelope`, `PresentCredential`, `PresentClaim` with parts exchanged |
| **Validation** | `AttestVerdict`, `PublishEvidence`, `ValidationResponse`; a consumer's `BeginCheck`, `GetValidationStatus`, `FetchEvidence`, in either order |
| **VerifierService** | `CreateVerifierService`, `Post`, `End`, `EndThrows`; `Register`, `HostServes`, `DiscoverAndVerify`, `Fetched` |
| **Cli** | `RunCli` parses a line token by token (`ParseArgs`) and runs the command over `files` and `host`, which a run's record keeps as it met them (`Taken`: which tokens the parser took for values); `Edit`, `HostChanges`, `Prompt` |
| **Cache** | as above |

The variables that hold only "the answer just given" (`judged`, `opened`, `verified`, `required`, `checked`,
`ran`) carry an outcome from the step that computes it to the invariant; the next step clears it, and no
guard but "not while one is shown" reads it.

* **MC...** - the instances; MCWithheldField.cfg is a second configuration of MCDocuments, MCRewrite.cfg
  of MCTransparency, and so on. MCCache serves the run `cached_verdict`. **...Proofs** - the theorems.

Definitions introduced by "A slip:" are plausible mistakes in the definition that follows them. No
specification uses them: substituting one for what it mis-states breaks the property it is listed
with, which shows that the property depends on the code it is about.

## 3. Modelling conventions

* **Signatures and hashes are ideal.** A signature is the pair of key and message; a hash is the content
  hashed. `canonicalize` is injective on what is signed. An unguessable nonce is the name of its call.
* **Optional fields** are sets of at most one element; an optional list is the set of its members.
* **Time** is a natural number and `Tick` advances it; each agent's clock is the payer's plus a constant
  `Drift`. `Skew` is `handshakeSkewMs`, `Window` is `disclosureWindowMs`, `MaxAge` is `maxAgeMs`.
* **The network** is the set of all replies ever sent from a URL. A fetch may yield any of them, or
  fail: loss, delay, duplication, reordering and stale copies are all included.
* **History variables** record and never guide: `known` (the oracle when a call began), `disturbed`
  (calls whose fetches failed, got a stale copy, or saw the payee stop), `answers` in Cache, `shown` in
  Transparency, `worn`, `confirmed` and `steady` in Registry; `fresh` (the nonce was open when the
  call began) and `disowned` (the registry named another owner while it ran) in Requests; `alarmed` in
  Monitoring, `of` beside the hashes of Enforcement, `set` and `atEncode` in StatusList, `built` in ZkRange (which
  values were put into which part), `stood` in
  OperatorLevels, `during` in Validation, `seen` in VerifierService. No guard of the modelled code reads them.
* **Bounds** are constants in the guards: `MaxTime`, `MaxAnswers`, `MaxRevoked`, `MaxCalls`, `MaxFaults`,
  `MaxWrites`; `MaxClock`, `MaxSent`, `MaxKinds` (Requests); `MaxPrepared`, `MaxDecisions`, `MaxPublished`,
  `MaxAttached`, `MaxProviderWrites`, `MaxIssued`, `MaxAttestations`, `MaxResponses`, `MaxServiceTime`,
  `MaxMoves` (Documents). The proofs hold for every value of them.
* **Numbers of the code that are constants here**: `MaxRotationChain` (32), `IntHalf` (2^31),
  `DefaultRangeBits` (32), `GroupOrder` (the order of the curve's group), `HumanThreshold` (20),
  `MaxCanonicalizeDepth` (256). The
  instances take small ones, so that an index beyond the shifts, a value beyond the bits and a sum that wraps
  are in reach.
* **Deadlock** is not checked: a bounded instance stops when its calls are decided and its clock is out.

## 4. What each run checks

| Run | Instance and bounds | Shows |
|---|---|---|
| `settle` | one payee with a fresh key per boot (two keys), two concurrent calls, two answers per challenge, clock to 2, payee one tick ahead, `Skew` 2, `MaxAge` 1, `Window` 1 | `TypeOK`; `PaidOnlyIfLive`; `HonestPayeeNotRefused`; `ImplementsVerifyBeforePay` |
| `settle_live` | one payee with a fixed key that may return as a release signing schema version 2, in either envelope; one call, one revocation, `FairSpec` | `KnownRevocationHolds`; `EveryCallEnds` |
| `mutual` | one exchange between two agents that keep their keys, one of which may return as a release that throws; one answer per challenge, clock to 1, `MutualFairSpec` | `NeverOneSided`; `ImplementsMutualConsent`; `EveryExchangeEnds` |
| `registry` | two tokens, one wallet, two keys, three writes; two checks, of a genuine binding and of a copy with another registry in it, `FairSpec` | `ConfirmedByBothSides`; `StandingBindingNotRefused`; `EveryCheckEnds` |
| `transparency` | two disclosures, three submissions, two views, one restart or (on one of them) edit each, one subject | `AnchoredProofWasWitnessed`, `HonestGrowthAccepted`, `ReceiptHolds`, `WitnessedHistoryExtends` |
| `requests` | two parties (one expects a certain agent and asks the registry, the other takes any agent and has a directory of its own), two overlapping calls, two wallets, one token, one nonce; two requests signed of one kind, clock to 1 | `SignInWasMeant`, `TapRequestWasMeant`, `PresentationWasMeant`, `BoundCardWasSigned`, `HonestRequestAccepted` |
| `documents` | the twelve duties, one at a time; the bounds of each below | `TransactIsFit`, `RevealedWasCommitted`, `SufficientViewDecides`, `NoSilentDowngrade`, `ReplayShowsEnforcement`, `HonestGatePasses`, `StatusReadAsSet`, `RequirementHolds`, `TrueStatementIsProved`, `LevelWasEarned`, `WrappingKeepsTheVerdict`, `ScoreIsBacked`, `ServedVerdictIsCurrent`, `OnlyTheUnreadableLosesRequests`, `DiscoveredWhereRegistered`, `FlagsAreAsked` |
| `rotated_identity`, `thrown_call`, `cached_verdict`, `rewritten_log`, `withheld_field` | those of `settle_live`, MCCache, `transparency` and `documents` | a counterexample to a sentence of the code's comments or tests, see section 7 |

**Why these bounds reach the cases.** Two calls and two answers are what it takes to cross or replay a
response; two keys are what it takes to reboot or rotate between the two fetches of a call. `MaxTime` 2
with `Window` 1 lets a disclosure be young, in its window and expired within one call, and lets an answer
be early, on time and stale: with `Skew` 2, `Drift` 1 and `MaxAge` 1 the comparisons of
`now - signedAt` with 0 and with `maxAgeMs` both take each of their outcomes. In `settle_live` the key
stays so that a revocation of the agent can outlive a restart, and that of a document cannot; the
releases give one good document, one that throws and one that does not parse. In `transparency` three
submissions of two disclosures force a duplicate, and two views with one fault each allow a fork, a log regrown
past the pin and an edited one: every field of an entry changes, `prevHash` to any hash there is, with the stored hash
left or recomputed, so that an edited log may verify and grow on. In `mutual` each leg may clear, be
refused or throw, on its own, in either order, and the rejected exchange's other leg runs to its end. In
`registry` three writes are what it takes to move a wallet to one token and an agentId to another while a
check stands between its two reads.

In `requests` two requests of one kind are what it takes to recombine: the unsigned part of one with the
signed part of the other, and either of them edited. `MaxKinds` 1 keeps the four kinds apart, which share no
state but the nonces. The sign-ins differ in wallet, domain, window (one not yet open, one that closes at the
last tick, one beyond it, one with an expiry that is no date) and statement (one with a line of its own labelled URI); the TAP requests in authority, signer,
disclosure and expiry; the presentations in the fields chosen and the audience; the cards in who signed. Two
calls, with the registry moving between, overlap at every await.

In `documents`, per duty: *cache* - windows [0,1] and [1,2] over a clock of 0..3 give hits, misses, entries at
their last instant and refused before their window. *negotiation* - a document with every field and one
without model and red team, four policies that ask for each predicate, two preparations and two views, so that
views and openings can be crossed. *monitoring* - five postures, no two of which are ordered in every field,
published and polled without a bound. *enforcement* - a policy, the same one in another order and dated
otherwise, one with a mandate revoked, and two mandates of one id beside a rule listed twice; two decisions. *status* - `IntHalf` 16 and the indices 0, 7, 8
(the edges of a byte), 16 and 32 (beyond the shifts, one of them onto another's bit), a list that grows from
one byte. *zk* - values below, at and above the bounds (1, 5, 7, 9, two of them one on either side of a range),
`DefaultRangeBits` 2 so that a value does not fit, bounds of 2, 3 and 4 bits, proofs of as many bits or three more,
and a group of 31 elements in which the sums wrap; two proofs attached. *levels* - one
call, ten credentials of four schemes (on a chain and off it, sanctioned and not, signed by the wallet or not), two changes at the providers during it. *bridges* - two agents, a next key, two envelopes and two
wrappings or claims to take apart. *validation* - two requests, two attestations with every score of interest, two
transactions and a consumer between them. *service* - two requests in flight, clock to 2, `MaxCanonicalizeDepth` 1 and six bodies: no JSON, no
envelope, a JWS that is no disclosure, a deep one that is, a v1 document at the limit and one past it.
*discovery* - one call, two URLs, three envelopes, two changes. *cli* - every pair of flags in every order, three in a row, each value flag
with and without its value, files that hold a document, a key or nothing.

Symmetry (keys and calls; disclosures) is used only where no liveness property is checked.

**The properties.**

* `PaidOnlyIfLive` - whoever is paid answered this call's own challenge after the call began, under the
  agentId that cleared the policy, within the tolerance, inside the window of that disclosure.
* `KnownRevocationHolds` - a revocation loaded before the call stops it, whichever of the two ids it names.
* `HonestPayeeNotRefused` - a call that nothing disturbed, to a payee that meets the policy, is not
  refused, except when the payee's key is no longer its agentId (section 7). `InTime` says which clocks the
  tolerance serves: the payee's at most `Skew` ahead, and `Skew - Drift` at most `MaxAge`. A tolerance
  larger than `maxAgeMs` makes even an instant answer stale.
* `ImplementsVerifyBeforePay` - refinement: a payee's answers are its vouchers.
* `EveryCallEnds` - liveness.
* `NeverOneSided` - an exchange that goes through had both its legs answered live, each its own challenge.
* `ImplementsMutualConsent` - refinement: a side consents by the verdict of its leg.
* `ConfirmedByBothSides` - the agentId signed, and during the check some one token had the wallet and, then
  or later, the agentId. That the token had both at one moment is *not* so: between the two reads the wallet
  may be given up. Neither is it promised.
* `StandingBindingNotRefused` - the converse, for a token that had both all along: a failed read is an
  error, never a "no entry".
* `TransactIsFit` - a cached transact is what an evaluation would say now, revocation apart.
* `WitnessedHistoryExtends` - of two verifying logs a witness accepted in turn, the later extends the
  earlier, whatever was restarted, edited or swapped. `HonestGrowthAccepted` is its converse.
* `ReceiptHolds` - the entry a submitter got back stays at its index, retries around it or not.
* `AnchoredProofWasWitnessed` - the standalone check of a proof shows nothing of the log, as its comment says
  (`transparencyTransport.ts:46-49`): an entry edited and hashed anew passes it. With the head a witness pinned it does:
  the entry at that head, and the one it links to, are the last two the witness was shown.
* `SignInWasMeant`, `TapRequestWasMeant`, `PresentationWasMeant`, `BoundCardWasSigned` - what is accepted was
  signed by the right key, over exactly what was accepted, for this party and (where there is one) this window,
  both its ends, or challenge. A date of a sign-in that cannot be read bounds nothing, in the code as here.
* `HonestRequestAccepted` - the converse: what an agent signed for a party, delivered as it was in its window
  on an open nonce, is not refused. The calls the code makes throw or that cannot recover are not refusals
  on the merits and end elsewhere.
* `RevealedWasCommitted` - a view put together from two documents does not verify. `SufficientViewDecides` -
  a predicate whose field the policy asks for fails on a sufficient view exactly where it fails on the whole document:
  `requiredFields` against every predicate of `verify.ts` but the two of `NotAsked`. Withholding what *those* read may
  change the verdict, and for the red team it does (`withheld_field`, section 7).
* `NoSilentDowngrade` - if the first snapshot cleared a policy and the last does not, some comparison on the
  way reported a downgrade: no path of small steps gets round pairwise comparison.
* `ReplayShowsEnforcement`, `HonestGatePasses` - the hash distinguishes policies that decide differently, and
  does not distinguish those that only are written differently.
* `StatusReadAsSet` - for the indices the shifts address.
* `RequirementHolds` - what a requirement that was met gives: behind each bound of the very statement asked stands
  a committed value that keeps it, whatever values the agent committed to, relabelled and recombined proofs included,
  and a weaker bound never stands for a stronger one. It gives no more: nothing links a commitment to the disclosed
  figure (`zkDisclosure.ts:15-22`), nor the two bounds of a range to one value (section 7).
  `TrueStatementIsProved` - completeness up to what the bits hold.
* `LevelWasEarned` - scheme by scheme: a provider's word of a moment during the call, for this very credential; for
  a wallet its own signature as well, at either level; for a proof result valid claims of nobody sanctioned. An on-chain
  reference of Self is taken on its contract's word alone, and the code looks at no sanctions there.
* `WrappingKeepsTheVerdict` - equivalence of the checks on two forms of one thing.
* `ScoreIsBacked` - what the two reads of a consumer, at different moments, together establish.
* `ServedVerdictIsCurrent` - by the clock at the answer. `OnlyTheUnreadableLosesRequests` - what is thrown in the
  callback ends the process: the payload of a JWS that is no disclosure, and a valid v1 document (no schema bounds the
  depth of an extension) nested past what `canonicalize` writes. Nothing else does.
* `DiscoveredWhereRegistered` - what transacts was served at the URL looked up, during the call.
* `FlagsAreAsked` - exit code 0 means that the document named passes every policy flag on the line, wherever it
  stands, also where `--now` or `--min-grade` took it for its value (then the run fails, unless that flag is
  stated again). A flag that `--out`, `--in` or `--key` took is lost and nobody is told: it is left out by name.

## 5. Fairness

Only the fair specifications have any. In Counterparty it is weak fairness of `FetchSettles(s)` for each
call. A pending `fetch` of Node
resolves or rejects in the end (undici gives up on a silent peer after its header and body timeouts;
the repository sets none of its own), and the continuation then runs. Neither hosts, nor the clock, nor
the delivery of a reply is assumed fair, so `EveryCallEnds` rests on `FetchFails` being available at both
awaits: with the second `try` left out the call hangs.

`MutualFairSpec` asks the same of the legs, and that the continuation of a settled `Promise.all` runs.
Registry's `FairSpec` asks that a pending index query or read resolves or rejects, and that a load of the
client that was started ends, in success or not (a module import does one or the other). Owners are never
assumed to write.

## 6. What is proved

For every value of the constants - any number of payees, calls and keys, any drift, tolerance,
window, policy and bound - TLAPS checks:

| Theorem | Statement |
|---|---|
| `TypeCorrect` | `Spec => []TypeOK` |
| `PaysOnlyTheLive` | `Spec => []PaidOnlyIfLive` |
| `FitPayeeNotRefused` | `Spec => HonestPayeeNotRefused` |
| `HonoursKnownRevocations` | `Spec => []KnownRevocationHolds` |
| `GuardImplementsVerifyBeforePay` | with the live handshake on, `Spec => ImplementsVerifyBeforePay` |
| `BothSidesLive` | `MutualSpec => []NeverOneSided` |
| `MutualImplementsConsent` | `MutualSpec => ImplementsMutualConsent` |
| `BothSidesConfirm`, `StandingBindingHolds` | `Spec => []ConfirmedByBothSides`, `Spec => []StandingBindingNotRefused` |
| `CacheServesTheFit`, `CachedTransactsAreFit` | `Spec => []TransactIsFit`, and of Documents, `DocumentsSpec => []TransactIsFit` |
| `ReceiptsStand`, `AnchoredProofsWereWitnessed`, `GrowthIsAccepted` | `Spec => []ReceiptHolds`, `[]AnchoredProofWasWitnessed`, `[]HonestGrowthAccepted` of Transparency |
| `WitnessedHistoriesExtend` | `Spec => WitnessedHistoryExtends` of Transparency |
| `SignInsAreMeant`, `TapRequestsAreMeant`, `PresentationsAreMeant`, `BoundCardsAreSigned` | `Spec => []SignInWasMeant`, `[]TapRequestWasMeant`, `[]PresentationWasMeant`, `[]BoundCardWasSigned` of Requests |
| `HonestRequestsAreAccepted` | `Spec => []HonestRequestAccepted` of Requests |
| `ServiceAnswersAreCurrent`, `OnlyTheUnreadableEndsTheService`, `DiscoveryStaysAtItsUrl` | `DocumentsSpec => []ServedVerdictIsCurrent`, `[]OnlyTheUnreadableLosesRequests`, `[]DiscoveredWhereRegistered` |
| `ValidationScoresAreBacked`, `LevelsAreEarned`, `WrappingsAgree`, `StatusListHolds` | `DocumentsSpec => []ScoreIsBacked`, `[]LevelWasEarned`, `[]WrappingKeepsTheVerdict`, `[]StatusReadAsSet` |
| `OnlyTheCommittedIsRevealed`, `SufficientViewsDecide` | `DocumentsSpec => []RevealedWasCommitted`, `[]SufficientViewDecides` |
| `FallsAreReported` | `DocumentsSpec => []NoSilentDowngrade` |
| `ReplaysShowEnforcement`, `HonestGatesPass` | `DocumentsSpec => []ReplayShowsEnforcement`, `[]HonestGatePasses` |
| `RequiredStatementsHold`, `TrueStatementsAreProved` | `DocumentsSpec => []RequirementHolds`, `[]TrueStatementIsProved` |
| `FlagsReachThePolicy` | `DocumentsSpec => []FlagsAreAsked` |

Assumptions, each named where the constant is declared: `CounterpartyAssumption` (types; drifts are not
negative, the payer's clock being the earliest), `PolicyAssumption` (`requireValidSignature` and
`requireFresh` are on: both are defaults of `VerificationPolicy` and no policy of the repository turns
one off), `MaxAgeAssumption`, `MaxRotationChainAssumption`, `DocumentAssumption` (the nonce pins the
issuance, as `cache.ts:28` says), `MutualAssumption` (no session is a leg twice), `RegistryAssumption`
(types), `TransparencyAssumption` (digests are injective on the disclosures logged), `RequestsAssumption` (a
card starts with its name, extensions and signatures), `LevelsAssumption` (the four schemes),
`StatusAssumption`, `NegotiationAssumption`, `BridgesAssumption`, `ValidationAssumption` (types);
`OptionsAssumption` (an agent signs with a token and a wallet there are, a statement is a finite sequence of lines,
no party issues a nonce its own check takes for too short), `MonitoringAssumption` (postures are of the schema; a
held policy that bounds the grade requires a red team, see section 7), `EnforcementAssumption` (mandates form a finite
sequence of the schema's records), `ZkAssumption` (the order of the group is odd and above 2, values are not negative),
`GroupAssumption` (no shifted value wraps around the group back into the bits: in the code 2^32 against 2^252),
`CliAssumption` (a line is a finite sequence of tokens, a flag sorts outside all timestamps, documents carry dates, the default
policy checks signature and freshness).

**The invariant.** `PaidOnlyIfLive` is not inductive: it speaks of settled calls, and what makes the
last step right was established by earlier steps of several actors. `IInv` adds

* `Causal` - whatever a host, a reply or a call holds was issued in its host's past;
* `AskedByItsCall` - a challenge is out only once its call awaits the answer (so no answer can be made
  before the call: the nonce does not exist yet);
* `AnswersItsCall` - an answer was signed after its call began and after the disclosure that call
  evaluated was issued. This is where the order GET, evaluate, POST matters;
* `ClearedByEvaluation` - a call that may still pay evaluated exactly one disclosure, fresh at its
  `policy.now`, with no id the payer knew to be revoked.

`Conclude` then combines them: `verifyChallengeResponse` bounds the answer's time from above by
`policy.now`, `AnswersItsCall` from below by the start of the call, and freshness at `policy.now` covers
every instant before it. One lemma per action shows that `IInv` is preserved.

**The fit are not refused.** `FitPayeeNotRefused` is about refusals, which `IInv` does not constrain. `FairInv` adds
that a payee is one process, that every challenge and every answer is made as the code makes it, for the one call
whose nonce it bears, and `Steady`: while a call that awaits its answer is undisturbed, its payee still serves the
document under evaluation, and the oracle knows at least what that evaluation held against it (it only grows, hence
`EvaluateGrows`). A refusal then has no reason left: fetches that fail and stale copies disturb, a fit document
parses and fails no check (`AcceptablePasses`), and the host's own answer is accepted (`FairAnswer`): from above its
age is at most `Skew - Drift`, from below it was not signed after `policy.now`.

**The refinement.** `Respond` maps to `Vouch`, `Pay` to `Request`, `Conclude` to `Settle` or `Decline`,
the failures to `Decline`, all else to stuttering. `Settle` needs a voucher of the identity paid for this
call; the handshake provides it, because the response is among the answers sent, names the agentId
expected and carries the call's nonce. Without the live handshake the guard does not implement
`VerifyBeforePay`, hence the theorem's assumption.

**Mutual verification.** The proof builds on Counterparty's: a step of a leg is a step of Counterparty, and
starting both legs preserves `IInv` because `Begin` does for any set of calls (`BeginStep`). To `IInv` it adds
that the legs of an exchange that is idle are idle, and that those of one that went through are settled for
good. In the refinement a leg that settles is an `Agree`; as legs are distinct, one step is the agreement
of one side to one exchange.

**The registry.** `RegistryInv` adds `ReadsRemembered`: a check that waits for the agentId read a wallet
that its token wore while the check ran. The history variables see every state of a check's run, so an answer
read at a step is remembered by that step.

**The cache.** `CacheInv`: the entry under a document's key is a verdict on that document, reached no later
than now, and dies with its window. A transact reached at t and served at t' <= validUntil is fit at t',
since only freshness depends on time and both ends of the window have been checked.

**The transparency log.** `TransparencyInv`: every entry of every log, edited or not, is a record of the fields that are
hashed and a hash (`EntriesHold`); a reply or receipt names a place that holds
its entry until its log has another fault (`Stands`), where `AppendAtIndex` says that appending moves nothing; and a
pending call is awaited by one submission. `GrowthIsAccepted` adds `PinHolds`: the pin is the length
and head of the log that was observed. `WitnessedHistoriesExtend` is the step from one observed log to the next:
`checkAppendOnly` compares one hash, that of the boundary entry; both logs verify, so an entry is fixed by its hash and
names the hash before it, and by induction down the chain (`SameBelow`) every entry under the boundary is the same.
`AnchoredProofsWereWitnessed`: an entry that passes the standalone check and has the hash of an entry of a log that
verified when it was shown is that entry (`SameHashSameEntry`), at the head and at the link below it.

**Signed requests.** The network makes its deliveries out of what was sent, so the *signed part* of whatever
arrives is that of a request an agent signed (`ArrivingIsSigned`, from `EditedIsSigned` and
`RecombinedIsSigned`). `RequestsInv` carries this through a call: `CallsHold` says, for each stage a call can
be awaiting, what the checks before that await have established of request, message and clock, and the theorems read the
rest off the last step.

`HonestRequestsAreAccepted` goes the other way. A sign-in text is read back as what it was written from
(`ReadsBack`): its lines are the statement, the URI line, the required and then the optional ones (`InFourParts`); a
statement without a line labelled URI ends where the fields begin; no label of the fields is written twice, so the
last line with it is the one; and a selection keeps exactly the lines that are there, each once (`SelectedKeeps`).
Each check of a format then holds of an honest request (`SignInHolds`, `TapHolds`, `HonestPresentationHolds`), before
its await and after. `HonestInv` carries that through a call: a refusal was never of an honest request, a
sign-in keeps the message its text reads back as, and one under way has noticed every other owner the registry had.

**Documents.** A step of Documents is a step of one part; each part has an invariant its own steps keep.
`ServiceInv` needs only that what a URL serves is among what was seen there. `ValidationInv`: what the registry
has for a request was made for it, and each check has, for each of its two reads, what that read established.
`LevelsInv`: the history of a call holds the provider's present word, so an answer is among what it said, and a longer
history earns no less (`EarnedMonotone`).
`BridgesInv`: a credential is the wrapping of an envelope that was signed. `StatusInv`: as long as every
index set is addressable, the bits of a list are those of the indices set, in it, in what was encoded and in what was decoded; the
arithmetic is that i -> (i div 8, i mod 8) is one to one. `NegotiationInv`: a holder commits to exactly the
fields it retains, and a view's commitments are some holder's. From it a view that verifies shows fields of
that holder, and `SufficientViewsDecide` goes through the predicates one by one: each but the two of `NotAsked` reads only a
field that `RequiredFields` asks for.

`MonitoringInv`: the last snapshot of a monitor that has not been alarmed is in no dimension below the first
(`NoWeaker`); each comparison is with the snapshot before, and "not below" is transitive.
`EnforcementInv`: what is disclosed and attested is the hash of the policy kept beside it; a sorted policy has the
mandates it was sorted from (`Place` is one to one), so equal hashes govern alike, and mandates with ids of their own
have one sorted form. `ZkInv`: every part of every proof attached was built for a bound of some statement, its commitment is to the value put
in, shifted, modulo the order of the group, and its first bit is bound to that statement and bound (`StandsFor`).
Soundness: `VerifyRange` admits only parts built for the statement the proof names, whose sums, taken over bits, give
the commitment. So the shifted value has a rest below the power of two; it does not wrap there, so it is not negative and
keeps the bound; and `Satisfies` goes from the proven statement to the one asked. Completeness: the weighted
sum of the bits of a value is the value, and with the last blinding, a quotient by a power of two modulo the odd order
of the group, the sum of the blindings is the blinding of the commitment. `CliInv`: a run that ended
in 0 had a document that cleared the policy of its parse. The theorem follows the parser token by token: after n
tokens, what is wanted, the flags, their values and the operands are those of the first n tokens of the line (`Taken`
says which are values).

**Induction over data.** The library states induction with an operator parameter, which no installed prover can
instantiate. NumberLemmas derives from the library's theorem on least elements, which is about a set, the form
`0 \in S`, `n \in S => n + 1 \in S`, hence `Nat \subseteq S`, and that a recursive function exists and has the values its
definition says. With these the definitions that run along a list (`Selected`, `ParseArgs`, `PartialSum`, `Pow2`,
the hash chain) are proved about for inputs of every length.

Only model-checked: liveness (`EveryCallEnds`, `EveryExchangeEnds`, `EveryCheckEnds`), which is beyond TLAPS. Every
other property of a passing run is the statement of a theorem above.

## 7. Where the code and its comments disagree

* `rotated_identity`: `attestation.ts:131-132` and `SPEC.md:466-468` say a rotation chain lets an identity
  survive rotation. `verifyCounterparty` expects the handshake to be answered under the disclosure's
  agentId, and `respondToChallenge` answers under the current key: a rotated payee clears the policy and
  is refused by the handshake.
* `thrown_call`: `client.ts:46` promises a refuse on any parse failure. The payload of a JWS is validated
  by `getDisclosure`, outside any `try`: on another schema version `verifyCounterparty` rejects and `/pay`
  answers 500. No payment is made either way.
* `cached_verdict`: `cache.ts:11-12` calls a cached verdict sound. The revocation oracle is not consulted on
  a hit: a transact cached before a revocation is served after it.
* `rewritten_log`: `witness.ts:5-6` says any entry that differs at a pinned index is an alarm.
  `checkAppendOnly` compares the stored hash at the boundary and recomputes only what follows, so an
  entry edited below the boundary passes. Such a log no longer verifies, and `WitnessedHistoryExtends`
  therefore speaks of logs that do.
* `withheld_field`: `negotiate.ts:3-4` says that the fields a policy implies are those needed to reach a verdict. A
  policy that is silent on red teams implies no `redTeam`, and `evaluateDisclosure` still refuses a hard fail
  (`verify.ts:136`): the view without it is cleared, the document is not.

Smaller differences, met while modelling; the properties are stated so as to leave them out, by name:

* `verifierService.ts:19-20` says that a schema-invalid envelope is a refuse. A JWS whose payload is invalid throws in
  the event callback, as in `thrown_call`: the process ends, and every request in flight with it. The same holds of a
  *valid* v1 document nested past `MAX_CANONICALIZE_DEPTH` (`attestation.ts:88`, called outside the `try` at
  `attestation.ts:177`), which no comment speaks of (`OnlyTheUnreadableLosesRequests`).
* `zkDisclosure.ts:17-19` says of an accepted proof that some committed value satisfies the predicate. A range is proved
  by two commitments, one per bound, and `verifyRange` (`zkRange.ts:611-628`) relates neither to the other: one
  value above `min` and another below `max` will do (`RequirementHolds` speaks of each bound).
* `zkDisclosure.ts:76-78` says that a bad proof does not throw. The scalars of a bit's proof are read by `BigInt` after
  the `try` (`zkRange.ts:294-297`): one that is no hex number makes `requireAttributeProofs` reject
  (`VerifyRangeThrows`; the properties are about the two other answers).
* `test/cli.test.ts:73` says that `keygen --out` writes a usable key file, and the usage at `cli.ts:50` that `sign` takes
  `--key <hex|file>`. keygen writes JSON (`cli.ts:146`), `resolveKeyHex` takes the whole text of the file for hex:
  sign exits with 1.
* `negotiate.ts:15` says that `requiredFields` has the field each predicate reads. The operator's reputation
  (`verify.ts:193`, an oracle on the operatorId) and the default limit on hard fails read fields that it does not
  list (`NotAsked`); `withheld_field` is what the second comes to.
* `siwa.ts:92-93` calls `parseSiwaMessage` the inverse of `formatSiwaMessage`. A statement with a line that
  begins with "URI: " ends the statement there: such a message, honestly signed, is refused (`PlainStatement`).
* `zkRange.ts:455-456` calls a sub-statement's bound the largest value that satisfies the predicate. Of "at
  least" it is 2^32 - 1: a larger difference is true and cannot be proved (`Reached`).
* `statusList.ts:41,48` shifts indices as int32: one of 2^31 or more grows the list and sets nothing, or
  another's bit (`Addressable`).
* `monitor.ts:2-3` speaks of any weaker posture. A grade that appears is a rise even if it is the worst
  (`monitor.ts:22`): a policy that bounds the grade without requiring a red team is cleared before and not
  after, unreported. `HeldPolicy` has the two together.
* `enforcement.ts:126-128` says that without an extension the attestation's own hash is used. The code
  falls back to the evidence string, and without it the binding fails.
* A credential (`vc.ts`) has no place for a rotation chain, so that of a rotated agent never verifies.
* `confirmAttestationOnchain` compares score and hash, not the validator, tag or token of the record.
* `enforcement.ts:78-80` pins the order of the mandates by sorting them by id, so that unrelated differences do not
  shift the hash. Two of one id keep the order they were written in, and the hash tells (`HasOwnIds`).
* `cli.ts:76-112`: `--out`, `--in` and `--key` of a verification take the policy flag that follows for their value,
  never read it, and the run exits with 0 without asking it (`SaidFlag`).
* Nonces are remembered by no code of the repository. `siwa.ts:252-257` asks the caller's `nonceValid` before the first
  await: a caller that spends there spends on texts that fail later, one that spends afterwards takes a nonce twice.
  That of a TAP request is signed and asked of nobody.
* `siwa.ts:267-275`: an expiry or a not-before that is no date compares as NaN and bounds nothing (modelled: such a
  field has no instant). `handshake.ts` likewise takes a `signedAt` that is no date for fresh; there it is modelled as
  a date, and `PaidOnlyIfLive` says nothing of a payee that signs such an answer.
* The throw of `canonicalize` on a deep v1 document leaves `verifyCounterparty` and `verify-file` too. Counterparty has
  the throw of a JWS payload only: either is the end of the call without a payment.
* `zkRange.ts:470`: a bound that is no integer throws as an unreadable scalar does, and is not told apart from one.

## 8. What is not modelled, and why

* **Cryptography.** Signatures, hashes, commitments and the proof of a bit are ideal; the Fiat-Shamir proof over a
  curve in `zkRange.ts` is the record that exists only when the statement does. What a hash-collision or a
  forged proof would do is not asked.
* **Parts of a format no property tells apart.** Header fields `crit` and `b64` of a JWS (a library may refuse them, the
  code's own check ignores them); `nbf` of a presentation (`sdjwtvc.ts:326`); the key of an agent card as a JWK;
  agent cards in `HonestRequestAccepted`; list indices of 2^31 and more in `StatusReadAsSet`; policy flags that `--out`,
  `--in` or `--key` took, and freshness, in `FlagsAreAsked`. A check of the registry compares agentIds as values: that a
  published id is lowercased (`erc8004Registry.ts:131`) and one in a binding is not is left out.
* **Validators of ERC-8004 that lie.** Their responses are made by `attestVerdict`, honestly, at any moment.
* **Data.** HTTP parsing, JSON, encodings (base64, gzip, multibase), logging, wording of reasons, and the
  shapes the schema accepts beyond the fields a policy reads; the setters of `builder` that fill a section.
* **`KeyRing`** (a map), **did:web** (names of URLs; for the path "/" `didWeb` leaves a trailing colon),
  **signed revocations** (`signRevocation`, `verifyRevocation`: made and checked in isolation, no oracle of the
  code reads them),
  the registry getters that no check uses, `/health`.
* **`economics`**: floating-point estimates without state. **`adapters`**: copy fields of other frameworks'
  configurations. **Ports, scripts, fixtures, schemas**: re-implementations, generators and generated data.
* **The composition of everything.** Documents puts its parts beside each other, not together: they share no state in the
  code either, apart from what a caller passes from one to the next. The handshake inside
  `discoverAndVerify` and `verify-url` is that of Counterparty and not repeated.

## 9. Plan
The order was: first what decides whether money moves, then what that decision rests on, then what else
is done with a disclosure. Done: the settlement guard with handshake, policy and keys; mutual verification;
the registry; the cache; the transparency log and witness; the signed-request bridges; and the eleven parts of
Documents.

Left, in order of worth:

1. Liveness of the calls in Requests and of the service, under the fairness of section 5: every check that
   was begun ends, thrown or decided; every request to a service that stays up is answered.
2. Discovery over Counterparty, with its handshake, once an instance of both is small enough.
