------------------------------- MODULE Cache -------------------------------
(***************************************************************************)
(* Tiered verification (cache.ts): one verifier, its fixed policy, its     *)
(* revocation oracle and its VerificationCache, asked again and again about *)
(* signed disclosures while time passes and revocations are published.     *)
(***************************************************************************)
EXTENDS Policy

CONSTANTS
  Document,        \* the signed disclosures presented to the verifier
  VerifierPolicy,  \* its policy, but for the clock and the oracle
  MaxTime          \* bound of the model on the clock

CacheKey(signed) == <<signed.disclosure.agentId, signed.disclosure.nonce>>

CacheKeys == {CacheKey(d) : d \in Document}

(* "agentId pins the signer, nonce pins the issuance" (cache.ts:28): an agent *)
(* draws a new nonce for each disclosure it signs.                            *)
ASSUME DocumentAssumption ==
  /\ \A d, e \in Document : CacheKey(d) = CacheKey(e) => d = e
  /\ \A d \in Document : d.disclosure.issuedAt \in Nat /\ d.disclosure.validUntil \in Nat
  /\ MaxTime \in Nat

VARIABLES
  now,       \* the verifier's clock, policy.now of a call made now
  revoked,   \* ids on the published revocation list
  oracle,    \* the verifier's snapshot of it, policy.isRevoked of a call made now
  entries,   \* entries[k]: {} or {[verdict, cachedUntil]}; a verdict is the failed checks
  answers    \* history: the last answer given, with the oracle it could have asked

vars == <<now, revoked, oracle, entries, answers>>

Init ==
  /\ now = 0
  /\ revoked = {} /\ oracle = {}
  /\ entries = [k \in CacheKeys |-> {}]
  /\ answers = {}

(* A slip: an entry past its window is still a hit. *)
GetUnexpired(signed, at) == entries[CacheKey(signed)]

(* VerificationCache.get; the entry it deletes is put again by the same call. *)
Get(signed, at) == {e \in entries[CacheKey(signed)] : at <= e.cachedUntil}

Answer(signed, tier, verdict) ==
  answers' = {[signed |-> signed, tier |-> tier, verdict |-> verdict,
               at |-> now, isRevoked |-> oracle]}

ServeCached(signed) ==
  /\ \E e \in Get(signed, now) : Answer(signed, "cached", e.verdict)
  /\ UNCHANGED entries

EvaluateAndPut(signed) ==
  /\ Get(signed, now) = {}
  /\ LET verdict == EvaluateDisclosure(signed, VerifierPolicy, now, oracle)
     IN  /\ Answer(signed, "fresh", verdict)
         /\ entries' = [entries EXCEPT ![CacheKey(signed)] =
              {[verdict |-> verdict, cachedUntil |-> signed.disclosure.validUntil]}]

VerifyTiered(signed) ==
  /\ ServeCached(signed) \/ EvaluateAndPut(signed)
  /\ UNCHANGED <<now, revoked, oracle>>

Clear ==
  /\ entries' = [k \in CacheKeys |-> {}]
  /\ UNCHANGED <<now, revoked, oracle, answers>>

Revoke(signed) ==
  /\ \E id \in {signed.disclosure.disclosureId, signed.disclosure.agentId} :
       revoked' = revoked \cup {id}
  /\ UNCHANGED <<now, oracle, entries, answers>>

LoadRevocationOracle ==
  /\ oracle' = revoked
  /\ UNCHANGED <<now, revoked, entries, answers>>

Tick ==
  /\ now < MaxTime
  /\ now' = now + 1
  /\ UNCHANGED <<revoked, oracle, entries, answers>>

Next ==
  \/ \E d \in Document : VerifyTiered(d) \/ Revoke(d)
  \/ Clear
  \/ LoadRevocationOracle
  \/ Tick

Spec == Init /\ [][Next]_vars

---------------------------------------------------------------------------
EntryOK(e) == e.cachedUntil \in Nat

TypeOK ==
  /\ now \in Nat
  /\ oracle \subseteq revoked
  /\ DOMAIN entries = CacheKeys
  /\ \A k \in CacheKeys : \A e \in entries[k] : EntryOK(e)
  /\ \A x \in answers : x.signed \in Document /\ x.at \in Nat /\ x.at <= now

(* "Reuses the verdict at ~zero cost" (cache.ts:7): a transact, cached or not, *)
(* is what an evaluation at the moment of the answer would say of everything   *)
(* but revocation: never too early, never past validUntil, never the verdict   *)
(* of another disclosure (cache.ts:37-51).                                     *)
FitAt(signed, at) == EvaluateDisclosure(signed, VerifierPolicy, at, {}) = {}

TransactIsFit == \A x \in answers : x.verdict = {} => FitAt(x.signed, x.at)

(* What makes it inductive: the entry under a document's key is a verdict on   *)
(* that document, reached no later than now, and dies with its window.         *)
EntryIsVerdict(d, e) ==
  /\ e.cachedUntil = d.disclosure.validUntil
  /\ e.verdict = {} => \E t \in 0..now : FitAt(d, t)

EntriesAreVerdicts ==
  \A d \in Document : \A e \in entries[CacheKey(d)] : EntryIsVerdict(d, e)

CacheInv == TypeOK /\ EntriesAreVerdicts /\ TransactIsFit

(* "A cached verdict keyed by the disclosure instance is sound" (cache.ts:12): *)
(* every answer is the verdict an evaluation would give at that moment.        *)
CachedVerdictIsSound ==
  \A x \in answers : x.verdict = EvaluateDisclosure(x.signed, VerifierPolicy, x.at, x.isRevoked)
=============================================================================
