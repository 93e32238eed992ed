-------------------------- MODULE DocumentsProofs --------------------------
(***************************************************************************)
(* Theorems about the parts of Documents.  A step of Documents is a step of   *)
(* the part that is on duty and leaves the others as they are, so an         *)
(* invariant that a part's own steps keep holds of every behaviour: each     *)
(* section has the part's inductive invariant, a lemma for its first state    *)
(* and one for its steps, and the theorem.                                   *)
(***************************************************************************)
EXTENDS Documents, NumberLemmas, SequenceTheorems

---------------------------------------------------------------------------
(* The cache. *)

(* Only the freshness check reads the clock and only the revocation check the *)
(* oracle: a document that passed at t with any oracle, and is still in its   *)
(* window, passes now but for revocations.                                    *)
LEMMA VerdictCarriesOver ==
  ASSUME NEW d \in Document, NEW t \in Nat, NEW at \in Nat, t <= at,
         at <= d.disclosure.validUntil, FitAt(d, t)
  PROVE  FitAt(d, at)
<1> DEFINE run == ChecksRun(d.disclosure.claims, VerifierPolicy)
<1>1. \A predicate \in run : CheckPasses(predicate, d, VerifierPolicy, t, {})
  BY DEF FitAt, EvaluateDisclosure
<1>2. ASSUME NEW predicate \in run PROVE CheckPasses(predicate, d, VerifierPolicy, at, {})
  <2>1. CheckPasses(predicate, d, VerifierPolicy, t, {})
    BY <1>1
  <2>2. predicate = "freshness" => IsFresh(d.disclosure, at)
    BY <2>1, DocumentAssumption DEF CheckPasses, IsFresh
  <2>3. QED
    BY <2>1, <2>2 DEF CheckPasses
<1>3. QED
  BY <1>2 DEF FitAt, EvaluateDisclosure

LEMMA RevocationOnlyAdds ==
  ASSUME NEW d, NEW at, NEW isRevoked,
         EvaluateDisclosure(d, VerifierPolicy, at, isRevoked) = {}
  PROVE  FitAt(d, at)
<1> DEFINE run == ChecksRun(d.disclosure.claims, VerifierPolicy)
<1>1. \A predicate \in run : CheckPasses(predicate, d, VerifierPolicy, at, isRevoked)
  BY DEF EvaluateDisclosure
<1>2. \A predicate \in run : CheckPasses(predicate, d, VerifierPolicy, at, {})
  BY <1>1 DEF CheckPasses
<1>3. QED
  BY <1>2 DEF FitAt, EvaluateDisclosure

LEMMA CacheInitSound == Init => CacheInv
BY DocumentAssumption
   DEF Init, CacheInv, TypeOK, EntriesAreVerdicts, TransactIsFit, CacheKeys

LEMMA CachedStep ==
  ASSUME CacheInv, NEW d \in Document, ServeCached(d), UNCHANGED <<now, revoked, oracle>>
  PROVE  CacheInv'
<1> USE DEF CacheInv
<1>1. PICK e \in Get(d, now) : Answer(d, "cached", e.verdict)
  BY DEF ServeCached
<1>2. UNCHANGED entries
  BY DEF ServeCached
<1>3. EntryIsVerdict(d, e) /\ now <= e.cachedUntil
  BY DEF Get, EntriesAreVerdicts
<1>4. e.verdict = {} => FitAt(d, now)
  BY <1>3, VerdictCarriesOver DEF EntryIsVerdict, TypeOK
<1>5. TypeOK'
  BY <1>1, <1>2 DEF TypeOK, Answer, EntryOK
<1>6. EntriesAreVerdicts'
  BY <1>2 DEF EntriesAreVerdicts, EntryIsVerdict
<1>7. TransactIsFit'
  BY <1>1, <1>4 DEF TransactIsFit, Answer
<1>8. QED
  BY <1>5, <1>6, <1>7

LEMMA FreshStep ==
  ASSUME CacheInv, NEW d \in Document, EvaluateAndPut(d), UNCHANGED <<now, revoked, oracle>>
  PROVE  CacheInv'
<1> USE DEF CacheInv
<1> DEFINE verdict == EvaluateDisclosure(d, VerifierPolicy, now, oracle)
           entry == [verdict |-> verdict, cachedUntil |-> d.disclosure.validUntil]
<1>1. Answer(d, "fresh", verdict) /\ entries' = [entries EXCEPT ![CacheKey(d)] = {entry}]
  BY DEF EvaluateAndPut
<1>2. verdict = {} => FitAt(d, now)
  BY RevocationOnlyAdds
<1>3. EntryIsVerdict(d, entry) /\ EntryOK(entry)
  BY <1>2, DocumentAssumption DEF EntryIsVerdict, EntryOK, TypeOK
<1>4. CacheKey(d) \in CacheKeys
  BY DEF CacheKeys
<1> HIDE DEF verdict, entry
<1>5. TypeOK'
  BY <1>1, <1>3, <1>4 DEF TypeOK, Answer, EntryOK
<1>6. EntriesAreVerdicts'
  <2>1. ASSUME NEW c \in Document, NEW e \in entries'[CacheKey(c)] PROVE EntryIsVerdict(c, e)
    <3>1. CASE CacheKey(c) = CacheKey(d)
      BY <1>1, <1>3, <1>4, <3>1, DocumentAssumption DEF TypeOK
    <3>2. CASE CacheKey(c) # CacheKey(d)
      BY <1>1, <3>2 DEF EntriesAreVerdicts, TypeOK, CacheKeys
    <3>3. QED
      BY <3>1, <3>2
  <2>2. QED
    BY <2>1 DEF EntriesAreVerdicts, EntryIsVerdict
<1>7. TransactIsFit'
  BY <1>1, <1>2 DEF TransactIsFit, Answer
<1>8. QED
  BY <1>5, <1>6, <1>7

LEMMA CacheStepSound == CacheInv /\ [Next]_vars => CacheInv'
<1> SUFFICES ASSUME CacheInv, [Next]_vars PROVE CacheInv'
  OBVIOUS
<1> USE DEF CacheInv
<1>1. CASE \E d \in Document : VerifyTiered(d)
  BY <1>1, CachedStep, FreshStep DEF VerifyTiered
<1>2. CASE (\E d \in Document : Revoke(d)) \/ LoadRevocationOracle \/ UNCHANGED vars
  BY <1>2 DEF Revoke, LoadRevocationOracle, vars, TypeOK, EntryOK,
              EntriesAreVerdicts, EntryIsVerdict, TransactIsFit
<1>3. CASE Clear
  BY <1>3 DEF Clear, TypeOK, EntriesAreVerdicts, TransactIsFit, CacheKeys
<1>4. CASE Tick
  <2>1. now \in Nat /\ now' = now + 1 /\ UNCHANGED <<revoked, oracle, entries, answers>>
    BY <1>4 DEF Tick, TypeOK
  <2>2. TypeOK'
    BY <2>1 DEF TypeOK, EntryOK
  <2>3. \A e : \A d \in Document : EntryIsVerdict(d, e) => EntryIsVerdict(d, e)'
    BY <2>1 DEF EntryIsVerdict
  <2>4. EntriesAreVerdicts' /\ TransactIsFit'
    BY <2>1, <2>3 DEF EntriesAreVerdicts, TransactIsFit
  <2>5. QED
    BY <2>2, <2>4
<1>5. QED
  BY <1>1, <1>2, <1>3, <1>4 DEF Next

(* A verdict "transact" that verifyTiered returns, from the cache or not, is   *)
(* the one a fresh evaluation would give at that moment, revocations apart -   *)
(* for every policy, every set of documents and every order of calls.          *)
THEOREM CacheServesTheFit == Spec => []TransactIsFit
<1>1. Init => CacheInv
  BY CacheInitSound
<1>2. CacheInv /\ [Next]_vars => CacheInv'
  BY CacheStepSound
<1>3. CacheInv => TransactIsFit
  BY DEF CacheInv
<1>4. QED
  BY <1>1, <1>2, <1>3, PTL DEF Spec

(* The same in the composition, whatever else the library is used for. *)
THEOREM CachedTransactsAreFit == DocumentsSpec => []TransactIsFit
<1>1. DocumentsInit => CacheInv
  BY CacheInitSound DEF DocumentsInit
<1>2. CacheInv /\ [DocumentsNext]_<<duty, Parts>> => CacheInv'
  BY CacheStepSound DEF DocumentsNext, Parts
<1>3. CacheInv => TransactIsFit
  BY DEF CacheInv
<1>4. QED
  BY <1>1, <1>2, <1>3, PTL DEF DocumentsSpec

---------------------------------------------------------------------------
(* The verifier service and discovery. *)
ServiceShape ==
  /\ request = [r \in Request |-> request[r]]
  /\ search = [c \in Search |-> search[c]]
  /\ seen = [c \in Search |-> seen[c]]
  /\ served = [u \in Url |-> served[u]]
  /\ \A a \in DOMAIN directory : directory[a] \in Url

(* While a call of discovery runs, what its URL serves now is among what that *)
(* URL served while it ran.                                                   *)
ServedIsSeen ==
  \A c \in Search : search[c].state = "running" =>
    search[c].at \in Url /\ served[search[c].at] \in seen[c]

ServiceInv ==
  /\ ServiceShape
  /\ ServedIsSeen
  /\ ServedVerdictIsCurrent
  /\ OnlyTheUnreadableLosesRequests
  /\ DiscoveredWhereRegistered

LEMMA ServiceInitSound == ServiceInit => ServiceInv
BY DEF ServiceInit, ServiceInv, ServiceShape, ServedIsSeen, ServedVerdictIsCurrent,
       OnlyTheUnreadableLosesRequests, DiscoveredWhereRegistered

LEMMA EndStep ==
  ASSUME ServiceInv, NEW r \in Request, End(r)
  PROVE  ServiceInv'
<1> USE DEF ServiceInv
<1>1. PICK a \in HandleVerify(request[r].posted, ServiceClock) :
        request' = [request EXCEPT ![r] = [a EXCEPT !.at = clock]]
  BY DEF End
<1>2. UNCHANGED <<up, startedAt, clock, directory, served, moves, search, seen>>
  BY DEF End
<1> DEFINE reply == [a EXCEPT !.at = clock]
<1>3. /\ reply.state = "answered"
      /\ reply.decision = "transact" =>
           EvaluateDisclosure(reply.posted.signed, ServicePolicy, reply.at, {}) = {}
  BY <1>1 DEF HandleVerify, Answered, ServiceDecision, ServiceClock
<1> HIDE DEF reply
<1>4. request' = [request EXCEPT ![r] = reply]
  BY <1>1 DEF reply
<1>5. ServiceShape' /\ ServedIsSeen' /\ DiscoveredWhereRegistered'
  BY <1>2, <1>4 DEF ServiceShape, ServedIsSeen, DiscoveredWhereRegistered
<1>6. ServedVerdictIsCurrent'
  BY <1>3, <1>4 DEF ServedVerdictIsCurrent, ServiceShape
<1>7. OnlyTheUnreadableLosesRequests'
  BY <1>3, <1>4 DEF OnlyTheUnreadableLosesRequests, ServiceShape
<1>8. QED
  BY <1>5, <1>6, <1>7

LEMMA EndThrowsStep ==
  ASSUME ServiceInv, NEW r \in Request, EndThrows(r)
  PROVE  ServiceInv'
<1> USE DEF ServiceInv
<1> DEFINE thrown == request[r].posted
<1>1. /\ thrown.json /\ thrown.envelope
      /\ thrown.signed.form = "jws" => ~thrown.payload
      /\ thrown.signed.form # "jws" =>
           thrown.depth > MaxCanonicalizeDepth /\ ServicePolicy.requireValidSignature
  BY DEF EndThrows, HandleVerify, EvaluationThrows
<1>2. /\ request' = [q \in Request |->
           IF request[q].state = "sent"
           THEN [state |-> "lost", posted |-> request[q].posted, by |-> thrown]
           ELSE request[q]]
      /\ UNCHANGED <<startedAt, clock, directory, served, moves, search, seen>>
  BY DEF EndThrows
<1> HIDE DEF thrown
<1>3. ServiceShape' /\ ServedIsSeen' /\ DiscoveredWhereRegistered'
  BY <1>2 DEF ServiceShape, ServedIsSeen, DiscoveredWhereRegistered
<1>4. ServedVerdictIsCurrent'
  BY <1>2 DEF ServedVerdictIsCurrent
<1>5. OnlyTheUnreadableLosesRequests'
  BY <1>1, <1>2 DEF OnlyTheUnreadableLosesRequests
<1>6. QED
  BY <1>3, <1>4, <1>5

LEMMA PostStep ==
  ASSUME ServiceInv, NEW r \in Request, Post(r)
  PROVE  ServiceInv'
<1> USE DEF ServiceInv
<1>1. PICK p \in Posted : request' = [request EXCEPT ![r] = [state |-> "sent", posted |-> p]]
  BY DEF Post
<1>2. UNCHANGED <<up, startedAt, clock, directory, served, moves, search, seen>>
  BY DEF Post
<1>3. QED
  BY <1>1, <1>2 DEF ServiceShape, ServedIsSeen, ServedVerdictIsCurrent,
     OnlyTheUnreadableLosesRequests, DiscoveredWhereRegistered

LEMMA HostServesStep ==
  ASSUME ServiceInv, NEW u \in Url, HostServes(u)
  PROVE  ServiceInv'
<1> USE DEF ServiceInv
<1>1. PICK s \in Served : served' = [served EXCEPT ![u] = s]
  BY DEF HostServes
<1>2. seen' = [c \in Search |->
        IF search[c].state = "running" /\ search[c].at = u THEN seen[c] \cup {served'[u]}
        ELSE seen[c]]
  BY DEF HostServes
<1>3. UNCHANGED <<up, startedAt, clock, request, directory, search>>
  BY DEF HostServes
<1>4. ServiceShape'
  BY <1>1, <1>2, <1>3 DEF ServiceShape
<1>5. ServedIsSeen'
  BY <1>1, <1>2, <1>3 DEF ServedIsSeen, ServiceShape
<1>6. DiscoveredWhereRegistered'
  BY <1>2, <1>3 DEF DiscoveredWhereRegistered
<1>7. QED
  BY <1>3, <1>4, <1>5, <1>6 DEF ServedVerdictIsCurrent, OnlyTheUnreadableLosesRequests

LEMMA DiscoverStep ==
  ASSUME ServiceInv, NEW c \in Search, NEW agentId, DiscoverAndVerify(c, agentId)
  PROVE  ServiceInv'
<1> USE DEF ServiceInv
<1>1. UNCHANGED <<up, startedAt, clock, request, directory, served, moves>>
  BY DEF DiscoverAndVerify
<1>2. CASE agentId \in DOMAIN directory
  <2>1. /\ search' = [search EXCEPT ![c] =
             [state |-> "running", want |-> agentId, at |-> directory[agentId]]]
        /\ seen' = [seen EXCEPT ![c] = {served[directory[agentId]]}]
    BY <1>2 DEF DiscoverAndVerify
  <2>2. ServiceShape' /\ directory[agentId] \in Url
    BY <1>1, <1>2, <2>1 DEF ServiceShape
  <2>3. ServedIsSeen'
    BY <1>1, <2>1, <2>2 DEF ServedIsSeen, ServiceShape
  <2>4. DiscoveredWhereRegistered'
    BY <2>1 DEF DiscoveredWhereRegistered, ServiceShape
  <2>5. QED
    BY <1>1, <2>2, <2>3, <2>4 DEF ServedVerdictIsCurrent, OnlyTheUnreadableLosesRequests
<1>3. CASE agentId \notin DOMAIN directory
  <2>1. /\ search' = [search EXCEPT ![c] =
             [state |-> "ended", want |-> agentId, at |-> "none", got |-> {},
              decision |-> "refuse"]]
        /\ UNCHANGED seen
    BY <1>3 DEF DiscoverAndVerify
  <2>2. ServiceShape' /\ ServedIsSeen' /\ DiscoveredWhereRegistered'
    BY <1>1, <2>1 DEF ServiceShape, ServedIsSeen, DiscoveredWhereRegistered
  <2>3. QED
    BY <1>1, <2>2 DEF ServedVerdictIsCurrent, OnlyTheUnreadableLosesRequests
<1>4. QED
  BY <1>2, <1>3

LEMMA FetchedStep ==
  ASSUME ServiceInv, NEW c \in Search, Fetched(c)
  PROVE  ServiceInv'
<1> USE DEF ServiceInv
<1>1. UNCHANGED <<up, startedAt, clock, request, directory, served, moves, seen>>
      /\ search[c].state = "running"
  BY DEF Fetched
<1>2. PICK got, decision :
        /\ search' = [search EXCEPT ![c] =
             [state |-> "ended", want |-> @.want, at |-> @.at, got |-> got, decision |-> decision]]
        /\ decision = "transact" => got = {ServedAt(c)}
  <2> DEFINE Ends(got, decision) ==
        search' = [search EXCEPT ![c] =
          [state |-> "ended", want |-> @.want, at |-> @.at, got |-> got, decision |-> decision]]
      verdict == IF EvaluateDisclosure(ServedAt(c), ServicePolicy, clock, {}) = {}
                 THEN "transact" ELSE "refuse"
  <2>1. Ends({ServedAt(c)}, verdict) \/ Ends({}, "refuse")
    BY DEF Fetched
  <2> HIDE DEF verdict
  <2>2. QED
    BY <2>1
<1>3. ServedAt(c) \in seen[c]
  BY <1>1 DEF ServedIsSeen, ServedAt
<1>4. ServiceShape' /\ ServedIsSeen' /\ DiscoveredWhereRegistered'
  BY <1>1, <1>2, <1>3 DEF ServiceShape, ServedIsSeen, DiscoveredWhereRegistered
<1>5. QED
  BY <1>1, <1>4 DEF ServedVerdictIsCurrent, OnlyTheUnreadableLosesRequests

LEMMA ServiceStepSound ==
  ServiceInv /\ (ServiceNext \/ DiscoveryNext \/ UNCHANGED service) => ServiceInv'
<1> SUFFICES ASSUME ServiceInv, ServiceNext \/ DiscoveryNext \/ UNCHANGED service
             PROVE  ServiceInv'
  OBVIOUS
<1> USE DEF ServiceInv
<1>1. CASE \E r \in Request : Post(r) \/ End(r) \/ EndThrows(r)
  BY <1>1, PostStep, EndStep, EndThrowsStep
<1>2. CASE \E u \in Url : HostServes(u)
  BY <1>2, HostServesStep
<1>3. CASE \E c \in Search : Fetched(c) \/ \E agentId \in AgentIds : DiscoverAndVerify(c, agentId)
  BY <1>3, FetchedStep, DiscoverStep
<1>4. CASE \E agentId \in AgentIds, u \in Url : Register(agentId, u)
  <2>1. PICK agentId \in AgentIds, u \in Url : Register(agentId, u)
    BY <1>4
  <2>2. \A a \in DOMAIN directory' : directory'[a] \in Url
    BY <2>1 DEF Register, ServiceShape
  <2>3. QED
    BY <2>1, <2>2 DEF Register, ServiceShape, ServedIsSeen, ServedVerdictIsCurrent,
       OnlyTheUnreadableLosesRequests, DiscoveredWhereRegistered
<1>5. CASE CreateVerifierService \/ ServiceTick \/ UNCHANGED service
  BY <1>5 DEF CreateVerifierService, ServiceTick, service, ServiceShape, ServedIsSeen,
     ServedVerdictIsCurrent, OnlyTheUnreadableLosesRequests, DiscoveredWhereRegistered
<1>6. QED
  BY <1>1, <1>2, <1>3, <1>4, <1>5 DEF ServiceNext, DiscoveryNext

LEMMA ServiceInvariant == DocumentsSpec => []ServiceInv
<1>1. DocumentsInit => ServiceInv
  BY ServiceInitSound DEF DocumentsInit
<1>2. ServiceInv /\ [DocumentsNext]_<<duty, Parts>> => ServiceInv'
  BY ServiceStepSound DEF DocumentsNext, Parts
<1>3. QED
  BY <1>1, <1>2, PTL DEF DocumentsSpec

(* A transact of the HTTP service holds at the moment it is sent, for every     *)
(* policy, every body and every interleaving of requests, deaths and restarts   *)
(* of the process.                                                              *)
THEOREM ServiceAnswersAreCurrent == DocumentsSpec => []ServedVerdictIsCurrent
<1>1. ServiceInv => ServedVerdictIsCurrent
  BY DEF ServiceInv
<1>2. QED
  BY <1>1, ServiceInvariant, PTL

(* Whatever is posted and however many requests are in flight, one is lost only   *)
(* to a JWS whose payload is no disclosure or to a v1 document nested past what     *)
(* canonicalize writes, for every limit and every policy.                           *)
THEOREM OnlyTheUnreadableEndsTheService == DocumentsSpec => []OnlyTheUnreadableLosesRequests
<1>1. ServiceInv => OnlyTheUnreadableLosesRequests
  BY DEF ServiceInv
<1>2. QED
  BY <1>1, ServiceInvariant, PTL

(* However directory and hosts change while a call of discovery runs, it         *)
(* transacts only on what its first URL served meanwhile.                        *)
THEOREM DiscoveryStaysAtItsUrl == DocumentsSpec => []DiscoveredWhereRegistered
<1>1. ServiceInv => DiscoveredWhereRegistered
  BY DEF ServiceInv
<1>2. QED
  BY <1>1, ServiceInvariant, PTL

---------------------------------------------------------------------------
(* Validation. *)
AttestationOf(m) ==
  m = [requestHash |-> m.requestHash, response |-> m.response, evidence |-> m.evidence,
       responseHash |-> m.evidence]

ValidationShape ==
  /\ recorded = [h \in RequestHash |-> recorded[h]]
  /\ check = [c \in Consumer |-> check[c]]
  /\ during = [c \in Consumer |-> during[c]]
  /\ \A m \in made : m.requestHash \in RequestHash /\ AttestationOf(m)

(* A record, and what the attestation of a check says, was made for its request. *)
MadeFor(h, response, hash) ==
  \E m \in made : m.requestHash = h /\ m.response = response /\ m.responseHash = hash

Statement(att) == [response |-> att.response, responseHash |-> att.responseHash]

RecordedWasMade ==
  \A h \in RequestHash : \A s \in recorded[h] :
    s = Statement(s) /\ MadeFor(h, s.response, s.responseHash)

ACheck(k) ==
  k = [att |-> k.att, onchain |-> k.onchain, evidence |-> k.evidence, got |-> k.got]

CheckHolds(c, k) ==
  /\ k.att.requestHash \in RequestHash
  /\ k.onchain = "asked" => recorded[k.att.requestHash] \subseteq during[c]
  /\ k.onchain = "confirmed" =>
       /\ Statement(k.att) \in during[c]
       /\ MadeFor(k.att.requestHash, k.att.response, k.att.responseHash)
  /\ k.evidence = "backed" =>
       /\ k.got = {k.att.responseHash}
       /\ \A e \in k.got : VerifyValidationEvidence(k.att, e)

ValidationInv ==
  /\ ValidationShape
  /\ RecordedWasMade
  /\ \A c \in Consumer : \A k \in check[c] : ACheck(k) /\ CheckHolds(c, k)

LEMMA ValidationInitSound == ValidationInit => ValidationInv
BY DEF ValidationInit, ValidationInv, ValidationShape, RecordedWasMade

LEMMA AttestStep == ValidationInv /\ AttestVerdict => ValidationInv'
<1> SUFFICES ASSUME ValidationInv, AttestVerdict PROVE ValidationInv'
  OBVIOUS
<1>1. PICK verdict \in ScoredVerdict, h \in RequestHash, override \in ScoreOverride :
        made' = made \cup VerdictToValidationAttestation(verdict, h, h, override)
  BY DEF AttestVerdict
<1>2. UNCHANGED <<recorded, responses, published, check, during>>
  BY DEF AttestVerdict
<1>3. ValidationShape'
  BY <1>1, <1>2 DEF ValidationInv, ValidationShape, VerdictToValidationAttestation, AttestationOf
<1>4. \A g, response, hash : MadeFor(g, response, hash) => MadeFor(g, response, hash)'
  BY <1>1 DEF MadeFor
<1>5. RecordedWasMade'
  BY <1>2, <1>4 DEF ValidationInv, RecordedWasMade
<1>6. \A c \in Consumer : \A k \in check[c] : ACheck(k) /\ CheckHolds(c, k)'
  BY <1>2, <1>4 DEF ValidationInv, CheckHolds
<1>7. QED
  BY <1>2, <1>3, <1>5, <1>6 DEF ValidationInv

LEMMA ResponseStep == ValidationInv /\ ValidationResponse => ValidationInv'
<1> SUFFICES ASSUME ValidationInv, ValidationResponse PROVE ValidationInv'
  OBVIOUS
<1>1. PICK att \in made :
        /\ recorded' = [recorded EXCEPT ![att.requestHash] = {Statement(att)}]
        /\ during' = [c \in Consumer |->
             IF \E k \in check[c] : k.att.requestHash = att.requestHash /\ k.onchain = "asked"
             THEN during[c] \cup recorded'[att.requestHash] ELSE during[c]]
  BY DEF ValidationResponse, Statement
<1>2. UNCHANGED <<made, published, check>>
  BY DEF ValidationResponse
<1>3. ValidationShape'
  BY <1>1, <1>2 DEF ValidationInv, ValidationShape
<1>4. RecordedWasMade'
  <2>1. MadeFor(att.requestHash, att.response, att.responseHash)
    BY DEF MadeFor
  <2>2. QED
    BY <1>1, <1>2, <2>1 DEF ValidationInv, ValidationShape, RecordedWasMade, MadeFor, Statement
<1>5. ASSUME NEW c \in Consumer, NEW k \in check[c]
      PROVE  ACheck(k) /\ CheckHolds(c, k)'
  <2>1. ACheck(k) /\ CheckHolds(c, k) /\ during[c] \subseteq during'[c]
    BY <1>1 DEF ValidationInv
  <2>2. k.onchain = "asked" => recorded'[k.att.requestHash] \subseteq during'[c]
    BY <1>1, <2>1 DEF ValidationInv, ValidationShape, CheckHolds
  <2>3. QED
    BY <1>2, <2>1, <2>2 DEF CheckHolds, MadeFor
<1>6. QED
  BY <1>2, <1>3, <1>4, <1>5 DEF ValidationInv

LEMMA BeginCheckStep ==
  ASSUME ValidationInv, NEW c \in Consumer, BeginCheck(c)
  PROVE  ValidationInv'
<1>1. PICK a \in made, b \in made :
        LET att == [a EXCEPT !.response = b.response] IN
        /\ check' = [check EXCEPT ![c] = {[att |-> att, onchain |-> "asked",
                                           evidence |-> "asked", got |-> {}]}]
        /\ during' = [during EXCEPT ![c] = recorded[att.requestHash]]
  BY DEF BeginCheck
<1> DEFINE att == [a EXCEPT !.response = b.response]
           begun == [att |-> att, onchain |-> "asked", evidence |-> "asked", got |-> {}]
<1>2. UNCHANGED <<made, recorded, responses, published>>
  BY DEF BeginCheck
<1>3. att.requestHash \in RequestHash
  BY DEF ValidationInv, ValidationShape, AttestationOf
<1> HIDE DEF att
<1>4. check' = [check EXCEPT ![c] = {begun}] /\ during' = [during EXCEPT ![c] = recorded[att.requestHash]]
  BY <1>1 DEF att
<1>5. ValidationShape'
  BY <1>2, <1>4 DEF ValidationInv, ValidationShape
<1>6. RecordedWasMade'
  BY <1>2 DEF ValidationInv, RecordedWasMade, MadeFor
<1>7. CheckHolds(c, begun)'
  BY <1>2, <1>3, <1>4 DEF ValidationInv, ValidationShape, CheckHolds
<1>8. \A d \in Consumer : \A k \in check'[d] : ACheck(k) /\ CheckHolds(d, k)'
  BY <1>2, <1>4, <1>7 DEF ValidationInv, ValidationShape, CheckHolds, MadeFor, ACheck
<1>9. QED
  BY <1>5, <1>6, <1>8 DEF ValidationInv

LEMMA StatusStep ==
  ASSUME ValidationInv, NEW c \in Consumer, GetValidationStatus(c)
  PROVE  ValidationInv'
<1>1. UNCHANGED <<made, recorded, responses, published, during>>
  BY DEF GetValidationStatus
<1>2. PICK k \in check[c], onchain \in {"confirmed", "refused", "thrown"} :
        /\ k.onchain = "asked"
        /\ onchain = "confirmed" => ConfirmAttestationOnchain(k.att, recorded[k.att.requestHash])
        /\ check' = [check EXCEPT ![c] = {[k EXCEPT !.onchain = onchain]}]
  BY DEF GetValidationStatus
<1>3. ACheck(k) /\ CheckHolds(c, k)
  BY DEF ValidationInv
<1> DEFINE told == [k EXCEPT !.onchain = onchain]
<1>4. /\ told.att = k.att /\ told.evidence = k.evidence /\ told.got = k.got
      /\ told.onchain = onchain /\ ACheck(told)
  BY <1>3 DEF ACheck
<1> HIDE DEF told
<1>5. ASSUME onchain = "confirmed"
      PROVE  /\ Statement(k.att) \in during[c]
             /\ MadeFor(k.att.requestHash, k.att.response, k.att.responseHash)
  <2>1. PICK s \in recorded[k.att.requestHash] :
          s.response = k.att.response /\ s.responseHash = k.att.responseHash
    BY <1>2, <1>5 DEF ConfirmAttestationOnchain
  <2>2. MadeFor(k.att.requestHash, s.response, s.responseHash) /\ s = Statement(s)
    BY <1>3, <2>1 DEF ValidationInv, RecordedWasMade, CheckHolds
  <2>3. s \in during[c] /\ s = Statement(k.att)
    BY <1>2, <1>3, <2>1, <2>2 DEF CheckHolds, Statement
  <2>4. QED
    BY <2>1, <2>2, <2>3
<1>6. CheckHolds(c, told)'
  BY <1>1, <1>3, <1>4, <1>5 DEF CheckHolds, MadeFor, Statement
<1>7. check' = [check EXCEPT ![c] = {told}]
  BY <1>2 DEF told
<1>8. \A d \in Consumer : \A q \in check'[d] : ACheck(q) /\ CheckHolds(d, q)'
  BY <1>1, <1>4, <1>6, <1>7 DEF ValidationInv, ValidationShape, CheckHolds, MadeFor
<1>9. QED
  BY <1>1, <1>7, <1>8 DEF ValidationInv, ValidationShape, RecordedWasMade, MadeFor

LEMMA FetchStep ==
  ASSUME ValidationInv, NEW c \in Consumer, FetchEvidence(c)
  PROVE  ValidationInv'
<1>1. UNCHANGED <<made, recorded, responses, published, during>>
  BY DEF FetchEvidence
<1>2. PICK k \in check[c], e \in published, found \in {"backed", "refused"} :
        /\ found = "backed" => VerifyValidationEvidence(k.att, e)
        /\ check' = [check EXCEPT ![c] = {[att |-> k.att, onchain |-> k.onchain, got |-> {e},
                                           evidence |-> found]}]
  BY DEF FetchEvidence
<1>3. ACheck(k) /\ CheckHolds(c, k)
  BY DEF ValidationInv
<1> DEFINE told == [att |-> k.att, onchain |-> k.onchain, evidence |-> found, got |-> {e}]
<1>4. CheckHolds(c, told)' /\ ACheck(told)
  BY <1>1, <1>2, <1>3 DEF CheckHolds, MadeFor, Statement, VerifyValidationEvidence, ACheck
<1>5. check' = [check EXCEPT ![c] = {told}]
  BY <1>2
<1> HIDE DEF told
<1>6. \A d \in Consumer : \A q \in check'[d] : ACheck(q) /\ CheckHolds(d, q)'
  BY <1>1, <1>4, <1>5 DEF ValidationInv, ValidationShape, CheckHolds, MadeFor
<1>7. QED
  BY <1>1, <1>5, <1>6 DEF ValidationInv, ValidationShape, RecordedWasMade, MadeFor

LEMMA ValidationStepSound ==
  ValidationInv /\ (ValidationNext \/ UNCHANGED validation) => ValidationInv'
<1> SUFFICES ASSUME ValidationInv, ValidationNext \/ UNCHANGED validation PROVE ValidationInv'
  OBVIOUS
<1>1. CASE AttestVerdict \/ ValidationResponse
  BY <1>1, AttestStep, ResponseStep
<1>2. CASE \E c \in Consumer : BeginCheck(c) \/ GetValidationStatus(c) \/ FetchEvidence(c)
  BY <1>2, BeginCheckStep, StatusStep, FetchStep
<1>3. CASE PublishEvidence \/ UNCHANGED validation
  BY <1>3 DEF PublishEvidence, validation, ValidationInv, ValidationShape, RecordedWasMade,
     CheckHolds, MadeFor
<1>4. QED
  BY <1>1, <1>2, <1>3 DEF ValidationNext

(* However responses, checks and publications overlap, a score that a consumer     *)
(* found confirmed and backed is one a validator made for that request, with the    *)
(* evidence fetched, and says what the verdict said.                                *)
THEOREM ValidationScoresAreBacked == DocumentsSpec => []ScoreIsBacked
<1>1. DocumentsInit => ValidationInv
  BY ValidationInitSound DEF DocumentsInit
<1>2. ValidationInv /\ [DocumentsNext]_<<duty, Parts>> => ValidationInv'
  BY ValidationStepSound DEF DocumentsNext, Parts
<1>3. ValidationInv => ScoreIsBacked
  <2> SUFFICES ASSUME ValidationInv, NEW c \in Consumer, NEW k \in check[c],
                      k.onchain = "confirmed", k.evidence = "backed"
               PROVE  /\ Statement(k.att) \in during[c]
                      /\ \E m \in made : m.requestHash = k.att.requestHash /\ m.response = k.att.response
                                         /\ {m.evidence} = k.got
                      /\ \A e \in k.got : k.att.response \in {0, 100} =>
                           (k.att.response = 100 <=> e.decision = "transact")
    BY DEF ScoreIsBacked, Statement
  <2>1. CheckHolds(c, k)
    BY DEF ValidationInv
  <2>2. \E m \in made : m.requestHash = k.att.requestHash /\ m.response = k.att.response
                         /\ {m.evidence} = k.got
    BY <2>1 DEF CheckHolds, MadeFor, ValidationInv, ValidationShape, AttestationOf
  <2>3. ASSUME NEW e \in k.got, k.att.response \in {0, 100}
        PROVE  k.att.response = 100 <=> e.decision = "transact"
    BY <2>1, <2>3 DEF CheckHolds, VerifyValidationEvidence, DefaultResponse
  <2>4. QED
    BY <2>1, <2>2, <2>3 DEF CheckHolds
<1>4. QED
  BY <1>1, <1>2, <1>3, PTL DEF DocumentsSpec

---------------------------------------------------------------------------
(* Operator levels. *)
SaidNow(q) == [confirmed |-> q.att \in registered, score |-> score]

(* A call has one credential; while it is unanswered, what the provider says of   *)
(* it now is part of its history.                                                  *)
CallWatched(c) ==
  /\ \A q \in asked[c] : q.att \in Credential /\ \A r \in asked[c] : r = q
  /\ asked[c] = {} => earned[c] = {}
  /\ earned[c] = {} => \A q \in asked[c] : SaidNow(q) \in stood[c]

EarnedBy(q, level, history) ==
  LET confirmed == \E s \in history : s.confirmed IN
  level \in {"registry_attested", "signed"} =>
    CASE q.att.scheme = "WorldID" ->
           /\ q.injected /\ confirmed
           /\ level = "registry_attested" => q.att.verificationLevel = "orb"
      [] q.att.scheme = "Self" ->
           /\ q.injected => confirmed
           /\ level = "registry_attested" => q.att.onchain /\ q.injected
           /\ level = "signed" => ~q.att.onchain /\ q.att.claimsValid /\ ~q.att.sanctioned
      [] q.att.scheme = "HumanPassport" ->
           /\ level = "signed"
           /\ q.injected => \E s \in history : PassportScorer(q.att, s.score)
      [] q.att.scheme = "WorldAgent" ->
           /\ q.att.signer = q.att.address
           /\ level = "registry_attested" => q.injected /\ confirmed

LevelsShape ==
  /\ asked = [c \in LevelCall |-> asked[c]]
  /\ earned = [c \in LevelCall |-> earned[c]]
  /\ stood = [c \in LevelCall |-> stood[c]]

LevelsInv ==
  /\ LevelsShape
  /\ \A c \in LevelCall : CallWatched(c)
  /\ \A c \in LevelCall : \A q \in asked[c], level \in earned[c] : EarnedBy(q, level, stood[c])

LEMMA LevelsInitSound == LevelsInit => LevelsInv
BY DEF LevelsInit, LevelsInv, LevelsShape, CallWatched

(* A longer history earns no less. *)
LEMMA EarnedMonotone ==
  ASSUME NEW q, q.att \in Credential, NEW level, NEW before, NEW after,
         before \subseteq after, EarnedBy(q, level, before)
  PROVE  EarnedBy(q, level, after)
<1>1. q.att.scheme \in {"WorldID", "Self", "HumanPassport", "WorldAgent"}
  BY LevelsAssumption
<1>2. CASE level \in {"registry_attested", "signed"}
  BY <1>1, <1>2 DEF EarnedBy
<1>3. CASE level \notin {"registry_attested", "signed"}
  BY <1>3 DEF EarnedBy
<1>4. QED
  BY <1>2, <1>3

(* What the mapping gives is earned by what the provider says at that moment. *)
LEMMA LevelForIsEarned ==
  ASSUME NEW q, q.att \in Credential, NEW history, SaidNow(q) \in history
  PROVE  EarnedBy(q, LevelFor(q.att, q.injected), history)
<1> DEFINE level == LevelFor(q.att, q.injected)
<1>1. q.att \in registered => \E s \in history : s.confirmed
  BY DEF SaidNow
<1>2. PassportScorer(q.att, score) => \E s \in history : PassportScorer(q.att, s.score)
  BY DEF SaidNow
<1>3. CASE q.att.scheme = "WorldID"
  BY <1>1, <1>3 DEF LevelFor, EarnedBy, VerifyWorldId, WorldIdPortal
<1>4. CASE q.att.scheme = "Self"
  BY <1>1, <1>4 DEF LevelFor, EarnedBy, VerifySelfAttestation, SelfBackend
<1>5. CASE q.att.scheme = "HumanPassport"
  BY <1>2, <1>5 DEF LevelFor, EarnedBy, VerifyPassportAttestation
<1>6. CASE q.att.scheme = "WorldAgent"
  BY <1>1, <1>6 DEF LevelFor, EarnedBy, VerifyWorldAgent, AgentBook
<1>7. QED
  BY <1>3, <1>4, <1>5, <1>6, LevelsAssumption

(* A step that answers no call. *)
LEMMA WatchingStep ==
  ASSUME LevelsInv, Watching, UNCHANGED earned,
         asked' = [c \in LevelCall |-> asked'[c]],
         \A c \in LevelCall : asked'[c] # asked[c] => asked[c] = {} /\ earned[c] = {},
         \A c \in LevelCall : \A q, r \in asked'[c] : q.att \in Credential /\ r = q
  PROVE  LevelsInv'
<1>1. LevelsShape'
  BY DEF LevelsInv, LevelsShape, Watching
<1>2. ASSUME NEW c \in LevelCall PROVE CallWatched(c)'
  <2>1. earned[c] = {} => \A q \in asked'[c] : SaidNow(q)' \in stood'[c]
    BY DEF Watching, SaidNow
  <2>2. asked'[c] = {} => earned[c] = {}
    BY DEF LevelsInv, CallWatched
  <2>3. QED
    BY <2>1, <2>2 DEF CallWatched
<1>3. ASSUME NEW c \in LevelCall, NEW q \in asked'[c], NEW level \in earned'[c]
      PROVE  EarnedBy(q, level, stood[c])
  BY DEF LevelsInv
<1>4. \A c \in LevelCall : stood[c] \subseteq stood'[c]
  BY DEF Watching
<1>5. \A c \in LevelCall : \A q \in asked'[c], level \in earned'[c] : EarnedBy(q, level, stood'[c])
  BY <1>3, <1>4, EarnedMonotone
<1>6. QED
  BY <1>1, <1>2, <1>5 DEF LevelsInv, EarnedBy, PassportScorer

(* A step that answers one. *)
LEMMA AnswerStep ==
  ASSUME LevelsInv, NEW c \in LevelCall, NEW level, Watching, asked[c] # {},
         UNCHANGED <<registered, score, asked>>, earned' = [earned EXCEPT ![c] = {level}],
         \A q \in asked[c] : EarnedBy(q, level, stood'[c])
  PROVE  LevelsInv'
<1>1. LevelsShape'
  BY DEF LevelsInv, LevelsShape, Watching
<1>2. ASSUME NEW d \in LevelCall PROVE CallWatched(d)'
  <2>1. CallWatched(d) /\ earned = [e \in LevelCall |-> earned[e]]
    BY DEF LevelsInv, LevelsShape
  <2>2. IF d = c THEN earned'[d] # {} ELSE earned'[d] = earned[d]
    BY <2>1
  <2>3. earned[d] = {} => \A q \in asked[d] : SaidNow(q)' \in stood'[d]
    BY DEF Watching, SaidNow
  <2>4. QED
    BY <2>1, <2>2, <2>3 DEF CallWatched
<1>3. \A d \in LevelCall : stood[d] \subseteq stood'[d]
  BY DEF Watching
<1>4. ASSUME NEW d \in LevelCall, NEW q \in asked'[d], NEW l \in earned'[d]
      PROVE  EarnedBy(q, l, stood'[d])
  <2>1. CASE d = c
    BY <2>1 DEF LevelsInv, LevelsShape
  <2>2. CASE d # c
    <3>1. q.att \in Credential /\ EarnedBy(q, l, stood[d])
      BY <2>2 DEF LevelsInv, LevelsShape, CallWatched
    <3>2. QED
      BY <1>3, <3>1, EarnedMonotone
  <2>3. QED
    BY <2>1, <2>2
<1>5. QED
  BY <1>1, <1>2, <1>4 DEF LevelsInv, EarnedBy, PassportScorer

LEMMA LevelsStepSound ==
  LevelsInv /\ (LevelsNext \/ UNCHANGED levels) => LevelsInv'
<1> SUFFICES ASSUME LevelsInv, LevelsNext \/ UNCHANGED levels PROVE LevelsInv'
  OBVIOUS
<1>1. CASE ProviderChanges
  BY <1>1, WatchingStep DEF ProviderChanges, LevelsInv, LevelsShape, CallWatched
<1>2. ASSUME NEW c \in LevelCall, Present(c) PROVE LevelsInv'
  <2>1. PICK att \in Credential, injected \in BOOLEAN :
          asked' = [asked EXCEPT ![c] = {[att |-> att, injected |-> injected]}]
    BY <1>2 DEF Present
  <2>2. asked[c] = {} /\ earned[c] = {} /\ UNCHANGED earned /\ Watching
    BY <1>2 DEF Present, LevelsInv, CallWatched
  <2>3. asked' = [d \in LevelCall |-> asked'[d]]
    BY <2>1 DEF LevelsInv, LevelsShape
  <2>4. \A d \in LevelCall : \A q, r \in asked'[d] : q.att \in Credential /\ r = q
    BY <2>1 DEF LevelsInv, LevelsShape, CallWatched
  <2>5. \A d \in LevelCall : asked'[d] # asked[d] => asked[d] = {} /\ earned[d] = {}
    BY <2>1, <2>2 DEF LevelsInv, LevelsShape
  <2>6. QED
    BY <2>2, <2>3, <2>4, <2>5, WatchingStep
<1>3. ASSUME NEW c \in LevelCall, ProviderAnswers(c) PROVE LevelsInv'
  <2>1. PICK q \in asked[c] : earned' = [earned EXCEPT ![c] = {LevelFor(q.att, q.injected)}]
    BY <1>3 DEF ProviderAnswers
  <2>2. earned[c] = {} /\ UNCHANGED <<registered, score, asked>> /\ Watching
    BY <1>3 DEF ProviderAnswers
  <2>3. q.att \in Credential /\ SaidNow(q) \in stood'[c]
    BY <2>2 DEF LevelsInv, CallWatched, Watching
  <2>4. EarnedBy(q, LevelFor(q.att, q.injected), stood'[c])
    BY <2>3, LevelForIsEarned
  <2>5. \A r \in asked[c] : r = q
    BY DEF LevelsInv, CallWatched
  <2>6. QED
    BY <2>1, <2>2, <2>4, <2>5, AnswerStep, asked[c] # {}
<1>4. ASSUME NEW c \in LevelCall, ProviderRefuses(c) PROVE LevelsInv'
  <2>1. \A q : EarnedBy(q, "none", stood'[c])
    BY DEF EarnedBy
  <2>2. QED
    BY <1>4, <2>1, AnswerStep DEF ProviderRefuses
<1>5. ASSUME NEW c \in LevelCall, ProviderThrows(c) PROVE LevelsInv'
  <2>1. \A q : EarnedBy(q, "thrown", stood'[c])
    BY DEF EarnedBy
  <2>2. QED
    BY <1>5, <2>1, AnswerStep DEF ProviderThrows
<1>6. CASE UNCHANGED levels
  BY <1>6 DEF levels, LevelsInv, LevelsShape, CallWatched, SaidNow
<1>7. QED
  BY <1>1, <1>2, <1>3, <1>4, <1>5, <1>6 DEF LevelsNext

(* However the providers change their mind during a call, a level is earned by    *)
(* what they said while it ran.                                                     *)
THEOREM LevelsAreEarned == DocumentsSpec => []LevelWasEarned
<1>1. DocumentsInit => LevelsInv
  BY LevelsInitSound DEF DocumentsInit
<1>2. LevelsInv /\ [DocumentsNext]_<<duty, Parts>> => LevelsInv'
  BY LevelsStepSound DEF DocumentsNext, Parts
<1>3. LevelsInv => LevelWasEarned
  BY DEF LevelsInv, LevelWasEarned, EarnedBy, ConfirmedDuring
<1>4. QED
  BY <1>1, <1>2, <1>3, PTL DEF DocumentsSpec

---------------------------------------------------------------------------
(* Wrappings. *)
BridgesInv ==
  /\ \A s \in issued : s.signature = SignMessage(SigningInput(s.form, s.disclosure), s.publicKey)
  /\ \A vc \in credentials : \E s \in issued, until \in {1, 2} :
       s.form = "v1" /\ vc = ToVerifiableCredential(s, until)
  /\ \A a \in claims : a = AttestModel(a.agentId, a.model, a.attestedAt)
  /\ WrappingKeepsTheVerdict

(* The two checks of a flattened JWS agree whatever they are given. *)
LEMMA JoseAgrees ==
  ASSUME NEW got, got.form = "jws"
  PROVE  VerifyDisclosureJwsWithJose(got) <=> VerifyAnyDisclosureSignature(got)
BY DEF VerifyDisclosureJwsWithJose, VerifyAnyDisclosureSignature, VerifyMessage

(* A signature says who made it over what. *)
LEMMA SignatureIsItsKeyAndMessage ==
  ASSUME NEW m, NEW n, NEW k, NEW l, SignMessage(m, k) = SignMessage(n, l)
  PROVE  m = n /\ k = l
BY DEF SignMessage

LEMMA CredentialStep ==
  ASSUME BridgesInv, NEW vc \in credentials, NEW other \in credentials, NEW got,
         got \in {vc, [vc EXCEPT !.subject = other.subject], [vc EXCEPT !.subjectId = other.subjectId],
                 [vc EXCEPT !.proofValue = other.proofValue]}
  PROVE  VerifyVerifiableCredential(got) <=>
           /\ got.subjectId = AgentIdToDidKey(got.subject.agentId)
           /\ \E s \in issued :
                /\ s.form = "v1" /\ s.disclosure = got.subject
                /\ s.publicKey = got.subject.agentId /\ s.signature = got.proofValue
<1> DEFINE key == got.subject.agentId
<1>1. \A c \in credentials : \E s \in issued : \E until : s.form = "v1" /\ c = ToVerifiableCredential(s, until)
  BY DEF BridgesInv
<1>2. \E s \in issued : s.form = "v1" /\ got.proofValue = s.signature
  BY <1>1 DEF ToVerifiableCredential
<1>3. VerifyVerifiableCredential(got) <=>
        /\ got.subjectId = AgentIdToDidKey(key)
        /\ got.proofValue = SignMessage(got.subject, key)
  BY DEF VerifyVerifiableCredential, FromVerifiableCredential, VerifyAnyDisclosureSignature,
         VerifyMessage, VerifyKeyBinding, SigningInput
<1>4. \A s \in issued : s.form = "v1" => s.signature = SignMessage(s.disclosure, s.publicKey)
  BY DEF BridgesInv, SigningInput
<1>5. ASSUME got.proofValue = SignMessage(got.subject, key)
      PROVE  \E s \in issued :
               /\ s.form = "v1" /\ s.disclosure = got.subject
               /\ s.publicKey = key /\ s.signature = got.proofValue
  <2>1. PICK s \in issued : s.form = "v1" /\ got.proofValue = s.signature
    BY <1>2
  <2>2. s.disclosure = got.subject /\ s.publicKey = key
    <3>1. SignMessage(s.disclosure, s.publicKey) = SignMessage(got.subject, key)
      BY <1>4, <1>5, <2>1
    <3>2. QED
      BY <3>1, SignatureIsItsKeyAndMessage
  <2>3. QED
    BY <2>1, <2>2
<1>6. QED
  BY <1>3, <1>4, <1>5

LEMMA ClaimStep ==
  ASSUME BridgesInv, NEW a \in claims, NEW other \in claims, NEW got,
         got \in {a, [a EXCEPT !.model = other.model], [a EXCEPT !.agentId = other.agentId]},
         VerifyModelAttestation(got)
  PROVE  got \in claims
<1> DEFINE whole(c) == [agentId |-> c.agentId, model |-> c.model, attestedAt |-> c.attestedAt,
                       signature |-> SignMessage(ModelClaim(c.agentId, c.model, c.attestedAt), c.agentId)]
<1>1. a = whole(a)
  BY DEF BridgesInv, AttestModel
<1>2. got.signature = a.signature /\ got.attestedAt = a.attestedAt
  BY <1>1
<1>3. SignMessage(ModelClaim(got.agentId, got.model, got.attestedAt), got.agentId)
        = SignMessage(ModelClaim(a.agentId, a.model, a.attestedAt), a.agentId)
  BY <1>1, <1>2 DEF VerifyModelAttestation, VerifyMessage
<1>4. got.agentId = a.agentId /\ got.model = a.model
  BY <1>3, SignatureIsItsKeyAndMessage DEF ModelClaim
<1>5. [a EXCEPT !.model = got.model] = a /\ [a EXCEPT !.agentId = got.agentId] = a
  BY <1>1, <1>4
<1>6. QED
  BY <1>1, <1>4, <1>5

LEMMA BridgesStepSound ==
  BridgesInv /\ (BridgesNext \/ UNCHANGED bridges) => BridgesInv'
<1> SUFFICES ASSUME BridgesInv, BridgesNext \/ UNCHANGED bridges PROVE BridgesInv'
  OBVIOUS
<1>1. CASE BuildAndSign
  <2>1. PICK form, d, key, chain :
          issued' = issued \cup {SignDisclosure(form, d, key, chain)}
    BY <1>1 DEF BuildAndSign
  <2>2. checked' = {} /\ UNCHANGED <<credentials, claims>>
    BY <1>1 DEF BuildAndSign
  <2>3. QED
    BY <2>1, <2>2 DEF BridgesInv, WrappingKeepsTheVerdict, SignDisclosure
<1>2. CASE WrapAsCredential
  BY <1>2 DEF WrapAsCredential, BridgesInv, WrappingKeepsTheVerdict
<1>3. CASE ClaimModel
  BY <1>3 DEF ClaimModel, BridgesInv, WrappingKeepsTheVerdict, AttestModel
<1>4. CASE PresentEnvelope
  <2>1. PICK got : checked' = {[kind |-> "envelope", got |-> got,
                                ok |-> VerifyAnyDisclosureSignature(got),
                                jose |-> VerifyDisclosureJwsWithJose(got)]}
    BY <1>4 DEF PresentEnvelope
  <2>2. UNCHANGED <<issued, credentials, claims>>
    BY <1>4 DEF PresentEnvelope
  <2>3. QED
    BY <2>1, <2>2, JoseAgrees DEF BridgesInv, WrappingKeepsTheVerdict
<1>5. CASE PresentCredential
  <2>1. PICK vc \in credentials, other \in credentials :
          \E got \in {vc, [vc EXCEPT !.subject = other.subject],
                      [vc EXCEPT !.subjectId = other.subjectId],
                      [vc EXCEPT !.proofValue = other.proofValue]} :
            checked' = {[kind |-> "credential", got |-> got, ok |-> VerifyVerifiableCredential(got)]}
    BY <1>5 DEF PresentCredential
  <2>2. UNCHANGED <<issued, credentials, claims>>
    BY <1>5 DEF PresentCredential
  <2>3. QED
    <3>1. PICK got \in {vc, [vc EXCEPT !.subject = other.subject],
                      [vc EXCEPT !.subjectId = other.subjectId],
                      [vc EXCEPT !.proofValue = other.proofValue]} :
            checked' = {[kind |-> "credential", got |-> got, ok |-> VerifyVerifiableCredential(got)]}
      BY <2>1
    <3>2. VerifyVerifiableCredential(got) <=>
            /\ got.subjectId = AgentIdToDidKey(got.subject.agentId)
            /\ \E s \in issued :
                 /\ s.form = "v1" /\ s.disclosure = got.subject
                 /\ s.publicKey = got.subject.agentId /\ s.signature = got.proofValue
      BY CredentialStep
    <3>3. QED
      BY <2>2, <3>1, <3>2 DEF BridgesInv, WrappingKeepsTheVerdict
<1>6. CASE PresentClaim
  <2>1. PICK a \in claims, other \in claims :
          \E got \in {a, [a EXCEPT !.model = other.model], [a EXCEPT !.agentId = other.agentId]} :
            checked' = {[kind |-> "model", got |-> got, ok |-> VerifyModelAttestation(got)]}
    BY <1>6 DEF PresentClaim
  <2>2. UNCHANGED <<issued, credentials, claims>>
    BY <1>6 DEF PresentClaim
  <2>3. QED
    <3>1. PICK got \in {a, [a EXCEPT !.model = other.model], [a EXCEPT !.agentId = other.agentId]} :
            checked' = {[kind |-> "model", got |-> got, ok |-> VerifyModelAttestation(got)]}
      BY <2>1
    <3>2. VerifyModelAttestation(got) => got \in claims
      BY ClaimStep
    <3>3. QED
      BY <2>2, <3>1, <3>2 DEF BridgesInv, WrappingKeepsTheVerdict
<1>7. CASE UNCHANGED bridges
  BY <1>7 DEF bridges, BridgesInv, WrappingKeepsTheVerdict
<1>8. QED
  BY <1>1, <1>2, <1>3, <1>4, <1>5, <1>6, <1>7 DEF BridgesNext

(* Whatever parts of envelopes, credentials and claims are put together, each      *)
(* wrapping gives the verdict of the envelope it carries.                          *)
THEOREM WrappingsAgree == DocumentsSpec => []WrappingKeepsTheVerdict
<1>1. DocumentsInit => BridgesInv
  BY DEF DocumentsInit, BridgesInit, BridgesInv, WrappingKeepsTheVerdict
<1>2. BridgesInv /\ [DocumentsNext]_<<duty, Parts>> => BridgesInv'
  BY BridgesStepSound DEF DocumentsNext, Parts
<1>3. BridgesInv => WrappingKeepsTheVerdict
  BY DEF BridgesInv
<1>4. QED
  BY <1>1, <1>2, <1>3, PTL DEF DocumentsSpec

---------------------------------------------------------------------------
(* The status list. *)
Bits(S) == {<<i \div 8, i % 8>> : i \in S}

(* As long as every index set is addressable, the list has its bit, and no other. *)
ListHolds(l, S) ==
  /\ l = [bytes |-> l.bytes, bits |-> l.bits] /\ l.bytes \in Nat /\ S \subseteq StatusIndex
  /\ S \subseteq Addressable => l.bits = Bits(S) /\ \A i \in S : i \div 8 < l.bytes

StatusInv ==
  /\ ListHolds(list, set)
  /\ \A e \in encoded : ListHolds(e.list, e.set)
  /\ \A l \in fetched : ListHolds(l, atEncode)

LEMMA ByteOfAddressable ==
  ASSUME NEW i \in Addressable
  PROVE  i \in Nat /\ ByteOf(i) = i \div 8 /\ i \div 8 \in Nat
<1>1. i \in Nat /\ i < IntHalf /\ IntHalf \in Nat
  BY StatusAssumption DEF Addressable
<1>2. i % (2 * IntHalf) = i
  BY <1>1
<1>3. QED
  BY <1>1, <1>2 DEF ByteOf, ToInt

LEMMA SetRevokedHolds ==
  ASSUME NEW l, NEW S, NEW i \in StatusIndex, ListHolds(l, S)
  PROVE  ListHolds(SetRevoked(l, i), S \cup {i})
<1>1. i \in Nat /\ i \div 8 \in Nat /\ l.bytes \in Nat
  BY StatusAssumption DEF ListHolds
<1> DEFINE bytes == IF i \div 8 + 1 <= l.bytes THEN l.bytes ELSE i \div 8 + 1
           grown == Grow(l, i)
<1>2. grown = [bytes |-> bytes, bits |-> l.bits]
  BY DEF Grow, ListHolds
<1>3. SetRevoked(l, i) = [bytes |-> bytes, bits |-> l.bits \cup BitOf(grown, i)]
  <2>1. SetRevoked(l, i) = [grown EXCEPT !.bits = @ \cup BitOf(grown, i)]
    BY DEF SetRevoked
  <2> HIDE DEF bytes, grown
  <2>2. QED
    BY <1>2, <2>1
<1>4. bytes \in Nat /\ l.bytes <= bytes /\ i \div 8 < bytes
  BY <1>1
<1>5. ASSUME S \cup {i} \subseteq Addressable
      PROVE  BitOf(grown, i) = {<<i \div 8, i % 8>>}
  BY <1>1, <1>2, <1>4, <1>5, ByteOfAddressable DEF BitOf
<1> HIDE DEF bytes
<1>6. ASSUME S \cup {i} \subseteq Addressable
      PROVE  /\ l.bits \cup BitOf(grown, i) = Bits(S \cup {i})
             /\ \A j \in S \cup {i} : j \div 8 < bytes
  <2>1. l.bits = Bits(S) /\ \A j \in S : j \div 8 < l.bytes
    BY <1>6 DEF ListHolds
  <2>2. \A j \in S : j \div 8 \in Int
    BY <1>6, ByteOfAddressable
  <2>3. QED
    BY <1>1, <1>4, <1>5, <1>6, <2>1, <2>2 DEF Bits
<1> HIDE DEF grown
<1>7. SetRevoked(l, i).bytes = bytes /\ SetRevoked(l, i).bits = l.bits \cup BitOf(grown, i)
  BY <1>3
<1>8. S \cup {i} \subseteq StatusIndex
  BY DEF ListHolds
<1>9. QED
  BY <1>3, <1>4, <1>6, <1>7, <1>8 DEF ListHolds

LEMMA DecodeGivesBack ==
  ASSUME NEW l, NEW S, ListHolds(l, S)
  PROVE  Decode(Encode(l)) = l
<1>1. (l.bytes * 8 + 7) \div 8 = l.bytes
  BY DEF ListHolds
<1>2. QED
  BY <1>1 DEF ListHolds, Decode, Encode, NewList

LEMMA StatusStepSound == StatusInv /\ (StatusNext \/ UNCHANGED statusList) => StatusInv'
<1> SUFFICES ASSUME StatusInv, StatusNext \/ UNCHANGED statusList PROVE StatusInv'
  OBVIOUS
<1>1. CASE SetStatus
  BY <1>1, SetRevokedHolds DEF SetStatus, StatusInv
<1>2. CASE PublishStatus
  <2>1. Encode(list) = list
    BY DEF Encode, StatusInv, ListHolds
  <2>2. QED
    BY <1>2, <2>1 DEF PublishStatus, StatusInv
<1>3. CASE FetchStatus
  <2>1. PICK e \in encoded : fetched' = {Decode(e.list)} /\ atEncode' = e.set
    BY <1>3 DEF FetchStatus
  <2>2. Encode(e.list) = e.list
    BY DEF Encode, StatusInv, ListHolds
  <2>3. Decode(e.list) = e.list
    BY <2>2, DecodeGivesBack DEF StatusInv
  <2>4. QED
    BY <1>3, <2>1, <2>3 DEF FetchStatus, StatusInv
<1>4. CASE UNCHANGED statusList
  BY <1>4 DEF statusList, StatusInv
<1>5. QED
  BY <1>1, <1>2, <1>3, <1>4 DEF StatusNext

(* For lists of any size and any order of sets, publications and fetches, a        *)
(* verifier reads the indices that were set when its list was encoded, as long as   *)
(* none of them was beyond the shifts.                                              *)
THEOREM StatusListHolds == DocumentsSpec => []StatusReadAsSet
<1>1. DocumentsInit => StatusInv
  <2>1. (FirstSize + 7) \div 8 \in Nat
    BY StatusAssumption
  <2>2. QED
    BY <2>1 DEF DocumentsInit, StatusInit, StatusInv, ListHolds, NewList, Bits
<1>2. StatusInv /\ [DocumentsNext]_<<duty, Parts>> => StatusInv'
  BY StatusStepSound DEF DocumentsNext, Parts
<1>3. StatusInv => StatusReadAsSet
  <2> SUFFICES ASSUME StatusInv, NEW l \in fetched, atEncode \subseteq Addressable,
                      NEW i \in StatusIndex \cap Addressable
               PROVE  CheckStatus([statusListIndex |-> i], l) <=> i \in atEncode
    BY DEF StatusReadAsSet
  <2>1. l.bits = Bits(atEncode) /\ l.bytes \in Nat /\ \A j \in atEncode : j \div 8 < l.bytes
    BY DEF StatusInv, ListHolds
  <2>2. i \in Nat /\ ByteOf(i) = i \div 8 /\ i \div 8 \in Nat
    BY ByteOfAddressable
  <2>3. <<i \div 8, i % 8>> \in Bits(atEncode) <=> i \in atEncode
    <3>1. \A j \in atEncode : j \in Nat
      BY StatusAssumption DEF Addressable
    <3>2. \A j \in atEncode : i \div 8 = j \div 8 /\ i % 8 = j % 8 => i = j
      BY <2>2, <3>1
    <3>3. QED
      BY <3>2 DEF Bits
  <2>4. i \div 8 < l.bytes <=> i < l.bytes * 8
    BY <2>1, <2>2
  <2>5. CheckStatus([statusListIndex |-> i], l) <=>
          i < l.bytes * 8 /\ BitOf(l, i) \cap l.bits # {}
    BY DEF CheckStatus, IsRevoked, SizeOf
  <2>6. i < l.bytes * 8 => BitOf(l, i) = {<<i \div 8, i % 8>>}
    BY <2>1, <2>2, <2>4 DEF BitOf
  <2>7. QED
    BY <2>1, <2>3, <2>4, <2>5, <2>6
<1>4. QED
  BY <1>1, <1>2, <1>3, PTL DEF DocumentsSpec

---------------------------------------------------------------------------
(* The monitor: until it alarms, no snapshot is weaker than the first. *)
(* next is in no dimension below prev. *)
NoWeaker(prev, next) ==
  /\ prev.enforced => next.enforced
  /\ MonitorGradeRank(next.redTeam) <= MonitorGradeRank(prev.redTeam)
  /\ prev.custody = "non_custodial" => next.custody = "non_custodial"
  /\ prev.hardConstraints \subseteq next.hardConstraints
  /\ AttestationRank[next.level] >= AttestationRank[prev.level]

MonitoringInv ==
  /\ posture \in Posture
  /\ \A s \in snapshots :
       /\ s = [first |-> s.first, last |-> s.last]
       /\ s.first \in Posture /\ s.last \in Posture
       /\ alarmed \/ NoWeaker(s.first, s.last)

LEMMA MonitorRank ==
  ASSUME NEW p \in Posture
  PROVE  /\ p.redTeam = {} => MonitorGradeRank(p.redTeam) = 5
         /\ \A r \in p.redTeam : /\ GradeRank[r.grade] \in 0..4
                                 /\ MonitorGradeRank(p.redTeam) = 4 - GradeRank[r.grade]
         /\ MonitorGradeRank(p.redTeam) \in 0..5
         /\ AttestationRank[p.level] \in 0..2
<1>1. p.redTeam = {} \/ \E r \in p.redTeam : p.redTeam = {r} /\ r.grade \in DOMAIN GradeRank
  BY MonitoringAssumption
<1>2. AttestationRank[p.level] \in 0..2
  BY MonitoringAssumption DEF AttestationRank
<1>3. CASE p.redTeam = {}
  BY <1>2, <1>3 DEF MonitorGradeRank
<1>4. ASSUME NEW r \in p.redTeam, p.redTeam = {r}, r.grade \in DOMAIN GradeRank
      PROVE  /\ GradeRank[r.grade] \in 0..4
             /\ MonitorGradeRank({r}) = 4 - GradeRank[r.grade]
  <2>1. GradeRank[r.grade] \in 0..4
    BY <1>4 DEF GradeRank
  <2>2. MonitorGradeRank({r}) = CHOOSE n \in 0..4 : n = 4 - GradeRank[r.grade]
    BY DEF MonitorGradeRank
  <2>3. 4 - GradeRank[r.grade] \in 0..4
    BY <2>1
  <2>4. QED
    BY <2>1, <2>2, <2>3
<1>5. QED
  BY <1>1, <1>2, <1>3, <1>4

(* Without a reason for alarm nothing is weaker. *)
LEMMA NoReasonNoWeaker ==
  ASSUME NEW p \in Posture, NEW q \in Posture, DetectDowngrade(p, q) = {}
  PROVE  NoWeaker(p, q)
<1> DEFINE fell ==
      [enforced        |-> p.enforced /\ ~q.enforced,
       redTeam         |-> MonitorGradeRank(q.redTeam) > MonitorGradeRank(p.redTeam),
       custody         |-> p.custody = "non_custodial" /\ q.custody = "custodial",
       hardConstraints |-> p.hardConstraints \ q.hardConstraints # {},
       level           |-> AttestationRank[q.level] < AttestationRank[p.level]]
<1>1. \A f \in DOMAIN fell : ~fell[f]
  BY DEF DetectDowngrade
<1>2. /\ ~(p.enforced /\ ~q.enforced)
      /\ ~(MonitorGradeRank(q.redTeam) > MonitorGradeRank(p.redTeam))
      /\ ~(p.custody = "non_custodial" /\ q.custody = "custodial")
      /\ p.hardConstraints \ q.hardConstraints = {}
      /\ ~(AttestationRank[q.level] < AttestationRank[p.level])
  <2>1. DOMAIN fell = {"enforced", "redTeam", "custody", "hardConstraints", "level"}
    OBVIOUS
  <2>2. ~fell.enforced /\ ~fell.redTeam /\ ~fell.custody /\ ~fell.hardConstraints /\ ~fell.level
    BY <1>1, <2>1, Zenon
  <2>3. QED
    BY <2>2
<1>3. q.custody \in {"custodial", "non_custodial"}
  BY MonitoringAssumption
<1>4. QED
  BY <1>2, <1>3, MonitorRank DEF NoWeaker

(* Every reason for alarm is a change that diffDisclosures reports. *)
LEMMA ReasonsAreChanges ==
  ASSUME NEW p \in Posture, NEW q \in Posture
  PROVE  DetectDowngrade(p, q) \subseteq DiffDisclosures(p, q)
<1> DEFINE fell ==
      [enforced        |-> p.enforced /\ ~q.enforced,
       redTeam         |-> MonitorGradeRank(q.redTeam) > MonitorGradeRank(p.redTeam),
       custody         |-> p.custody = "non_custodial" /\ q.custody = "custodial",
       hardConstraints |-> p.hardConstraints \ q.hardConstraints # {},
       level           |-> AttestationRank[q.level] < AttestationRank[p.level]]
    differs ==
      [enforced        |-> p.enforced # q.enforced,
       redTeam         |-> MonitorGradeRank(p.redTeam) # MonitorGradeRank(q.redTeam),
       custody         |-> p.custody # q.custody,
       hardConstraints |-> p.hardConstraints # q.hardConstraints,
       level           |-> p.level # q.level,
       systemPrompt    |-> p.systemPrompt # q.systemPrompt]
<1>1. DetectDowngrade(p, q) = {f \in DOMAIN fell : fell[f]}
  BY DEF DetectDowngrade
<1>2. DiffDisclosures(p, q) = {f \in DOMAIN differs : differs[f]}
  BY DEF DiffDisclosures
<1>3. fell.enforced => differs.enforced
  OBVIOUS
<1>4. fell.redTeam => differs.redTeam
  <2>1. MonitorGradeRank(q.redTeam) > MonitorGradeRank(p.redTeam)
          => MonitorGradeRank(p.redTeam) # MonitorGradeRank(q.redTeam)
    BY MonitorRank
  <2>2. QED
    BY <2>1
<1>5. fell.custody => differs.custody
  OBVIOUS
<1>6. fell.hardConstraints => differs.hardConstraints
  OBVIOUS
<1>7. fell.level => differs.level
  <2>1. AttestationRank[q.level] < AttestationRank[p.level] => p.level # q.level
    BY MonitorRank
  <2>2. QED
    BY <2>1
<1>8. /\ DOMAIN fell = {"enforced", "redTeam", "custody", "hardConstraints", "level"}
      /\ DOMAIN fell \subseteq DOMAIN differs
  OBVIOUS
<1> HIDE DEF fell, differs
<1>9. QED
  BY <1>1, <1>2, <1>3, <1>4, <1>5, <1>6, <1>7, <1>8

LEMMA NoWeakerTransitive ==
  ASSUME NEW p \in Posture, NEW q \in Posture, NEW r \in Posture,
         NoWeaker(p, q), NoWeaker(q, r)
  PROVE  NoWeaker(p, r)
BY MonitorRank DEF NoWeaker

(* A posture no weaker clears what the other cleared. *)
LEMMA NoWeakerClears ==
  ASSUME NEW p \in Posture, NEW q \in Posture, NEW policy \in HeldPolicy,
         NoWeaker(p, q), Clears(p, policy)
  PROVE  Clears(q, policy)
<1>1. SUFFICES ASSUME NEW c \in ChecksRun(q, policy) \cap MonitoredChecks
               PROVE  ClaimPasses(c, q, policy)
  BY DEF Clears
<1>2. \A k \in ChecksRun(p, policy) \cap MonitoredChecks : ClaimPasses(k, p, policy)
  BY DEF Clears
<1>3. policy.requireRedTeam => p.redTeam # {}
  <2>1. SUFFICES ASSUME policy.requireRedTeam, p.redTeam = {} PROVE FALSE
    OBVIOUS
  <2>2. "redTeamPresent" \in ChecksRun(p, policy) \cap MonitoredChecks
    BY <2>1 DEF ChecksRun, MonitoredChecks
  <2>3. QED
    BY <1>2, <2>2 DEF ClaimPasses
<1>4. p.redTeam # {} => q.redTeam # {}
  BY MonitorRank DEF NoWeaker
<1>5. CASE c = "enforcedConstitution"
  <2>1. c \in ChecksRun(p, policy) \cap MonitoredChecks
    BY <1>1, <1>5 DEF ChecksRun, MonitoredChecks
  <2>2. QED
    BY <1>2, <1>5, <2>1 DEF ClaimPasses, NoWeaker
<1>6. CASE c = "requiredHardConstraints"
  <2>1. c \in ChecksRun(p, policy) \cap MonitoredChecks
    BY <1>1, <1>6 DEF ChecksRun, MonitoredChecks
  <2>2. QED
    BY <1>2, <1>6, <2>1 DEF ClaimPasses, NoWeaker
<1>7. CASE c = "redTeamPresent"
  <2>1. policy.requireRedTeam /\ q.redTeam = {}
    BY <1>1, <1>7 DEF ChecksRun
  <2>2. QED
    BY <1>3, <1>4, <2>1
<1>8. CASE c = "redTeamGrade"
  <2>1. policy.minRedTeamGrade # {} /\ p.redTeam # {}
    <3>1. policy.minRedTeamGrade # {}
      BY <1>1, <1>8 DEF ChecksRun
    <3>2. QED
      BY <1>3, <3>1, MonitoringAssumption
  <2>2. c \in ChecksRun(p, policy) \cap MonitoredChecks
    BY <1>8, <2>1 DEF ChecksRun, MonitoredChecks
  <2>3. \A r \in p.redTeam, min \in policy.minRedTeamGrade : GradeRank[r.grade] >= GradeRank[min]
    BY <1>2, <1>8, <2>2 DEF ClaimPasses
  <2>4. PICK r \in p.redTeam : TRUE
    BY <2>1
  <2>5. \A t \in q.redTeam : GradeRank[t.grade] >= GradeRank[r.grade]
    BY MonitorRank DEF NoWeaker
  <2>6. \A min \in policy.minRedTeamGrade : GradeRank[min] \in Int
    BY MonitoringAssumption DEF GradeRank
  <2>7. \A t \in q.redTeam, min \in policy.minRedTeamGrade : GradeRank[t.grade] >= GradeRank[min]
    BY <2>3, <2>5, <2>6, MonitorRank
  <2>8. QED
    BY <1>8, <2>7 DEF ClaimPasses
<1>9. CASE c = "nonCustodial"
  <2>1. c \in ChecksRun(p, policy) \cap MonitoredChecks
    BY <1>1, <1>9 DEF ChecksRun, MonitoredChecks
  <2>2. QED
    BY <1>2, <1>9, <2>1 DEF ClaimPasses, NoWeaker
<1>10. CASE c = "attestationLevel"
  <2>1. c \in ChecksRun(p, policy) \cap MonitoredChecks
    BY <1>1, <1>10 DEF ChecksRun, MonitoredChecks
  <2>2. \A min \in policy.minAttestationLevel : AttestationRank[p.level] >= AttestationRank[min]
    BY <1>2, <1>10, <2>1 DEF ClaimPasses
  <2>3. \A min \in policy.minAttestationLevel : AttestationRank[min] \in Int
    BY MonitoringAssumption DEF AttestationRank
  <2>4. \A min \in policy.minAttestationLevel : AttestationRank[q.level] >= AttestationRank[min]
    BY <2>2, <2>3, MonitorRank DEF NoWeaker
  <2>5. QED
    BY <1>10, <2>4 DEF ClaimPasses
<1>11. QED
  BY <1>1, <1>5, <1>6, <1>7, <1>8, <1>9, <1>10 DEF MonitoredChecks

LEMMA MonitoringStepSound ==
  MonitoringInv /\ (MonitoringNext \/ UNCHANGED monitoring) => MonitoringInv'
<1> SUFFICES ASSUME MonitoringInv, MonitoringNext \/ UNCHANGED monitoring PROVE MonitoringInv'
  OBVIOUS
<1>1. CASE Publish
  BY <1>1 DEF Publish, MonitoringInv
<1>2. CASE Verify
  <2>1. NoWeaker(posture, posture)
    BY MonitorRank DEF MonitoringInv, NoWeaker
  <2>2. QED
    BY <1>2, <2>1 DEF Verify, MonitoringInv
<1>3. CASE Poll
  <2>1. PICK s \in snapshots :
          /\ snapshots' = {[s EXCEPT !.last = posture]}
          /\ alarmed' = (alarmed \/ /\ DetectDowngrade(s.last, posture) # {}
                                    /\ DetectDowngrade(s.last, posture)
                                         \subseteq DiffDisclosures(s.last, posture))
    BY <1>3 DEF Poll
  <2>2. /\ s = [first |-> s.first, last |-> s.last]
        /\ s.first \in Posture /\ s.last \in Posture /\ posture \in Posture
        /\ posture' = posture
        /\ alarmed \/ NoWeaker(s.first, s.last)
    BY <1>3 DEF Poll, MonitoringInv
  <2>3. snapshots' = {[first |-> s.first, last |-> posture]}
    BY <2>1, <2>2
  <2>4. alarmed' \/ NoWeaker(s.first, posture)
    <3>1. CASE DetectDowngrade(s.last, posture) = {}
      BY <2>1, <2>2, <3>1, NoReasonNoWeaker, NoWeakerTransitive
    <3>2. CASE DetectDowngrade(s.last, posture) # {}
      BY <2>1, <2>2, <3>2, ReasonsAreChanges
    <3>3. QED
      BY <3>1, <3>2
  <2>5. QED
    BY <2>2, <2>3, <2>4 DEF MonitoringInv
<1>4. CASE UNCHANGED monitoring
  BY <1>4 DEF monitoring, MonitoringInv
<1>5. QED
  BY <1>1, <1>2, <1>3, <1>4 DEF MonitoringNext

(* However many polls there are and however small the steps between them, a       *)
(* posture that the policies clear no longer, when they cleared the first, has     *)
(* raised an alarm.                                                                *)
THEOREM FallsAreReported == DocumentsSpec => []NoSilentDowngrade
<1>1. DocumentsInit => MonitoringInv
  BY DEF DocumentsInit, MonitoringInit, MonitoringInv
<1>2. MonitoringInv /\ [DocumentsNext]_<<duty, Parts>> => MonitoringInv'
  BY MonitoringStepSound DEF DocumentsNext, Parts
<1>3. MonitoringInv => NoSilentDowngrade
  BY NoWeakerClears DEF MonitoringInv, NoSilentDowngrade
<1>4. QED
  BY <1>1, <1>2, <1>3, PTL DEF DocumentsSpec

---------------------------------------------------------------------------
(* Proof of enforcement.  The sort puts the mandates in an order of their ids,     *)
(* each at a place of its own, so the hash of a policy tells what it says.         *)

(* Mandates as the code has them. *)
Mandates == Seq([id : Int, cap : Int, status : STRING, grantedAt : Int])

LEMMA MandatesTyped ==
  ASSUME NEW m \in Mandates
  PROVE  /\ DOMAIN m = 1..Len(m) /\ Len(m) \in Nat
         /\ IsFiniteSet(DOMAIN m) /\ Cardinality(DOMAIN m) = Len(m)
         /\ \A i \in DOMAIN m : m[i].id \in Int
<1>1. DOMAIN m = 1..Len(m) /\ Len(m) \in Nat
  BY DEF Mandates
<1>2. IsFiniteSet(1..Len(m)) /\ Cardinality(1..Len(m)) = Len(m)
  <2> DEFINE one == 1
  <2>1. one \in Int /\ Len(m) \in Int
    BY <1>1
  <2> HIDE DEF one
  <2>2. /\ IsFiniteSet(one..Len(m))
        /\ Cardinality(one..Len(m)) = IF one > Len(m) THEN 0 ELSE Len(m) - one + 1
    BY <2>1, FS_Interval
  <2>3. QED
    BY <1>1, <2>2 DEF one
<1>3. \A i \in DOMAIN m : m[i].id \in Int
  <2> DEFINE R == [id : Int, cap : Int, status : STRING, grantedAt : Int]
  <2>1. m \in Seq(R)
    BY DEF Mandates
  <2> HIDE DEF R
  <2>2. \A i \in DOMAIN m : m[i] \in R
    BY <2>1
  <2>3. QED
    BY <2>2 DEF R
<1>4. QED
  BY <1>1, <1>2, <1>3

Before(m, i) == {j \in DOMAIN m : Precedes(m, j, i)}

(* Of two mandates the later is preceded by all that precede the earlier, and by it. *)
LEMMA PlacesGrow ==
  ASSUME NEW m \in Mandates, NEW i \in DOMAIN m, NEW j \in DOMAIN m, Precedes(m, i, j)
  PROVE  Place(m, i) < Place(m, j)
<1>1. IsFiniteSet(Before(m, j)) /\ IsFiniteSet(Before(m, i))
  BY MandatesTyped, FS_Subset DEF Before
<1>2. i \in Int /\ j \in Int /\ \A k \in DOMAIN m : k \in Int /\ m[k].id \in Int
  BY MandatesTyped
<1>3. Before(m, i) \subseteq Before(m, j) /\ i \in Before(m, j) /\ i \notin Before(m, i)
  BY <1>2 DEF Before, Precedes
<1>4. Cardinality(Before(m, i)) <= Cardinality(Before(m, j))
      /\ Cardinality(Before(m, i)) # Cardinality(Before(m, j))
  BY <1>1, <1>3, FS_Subset
<1>5. Cardinality(Before(m, i)) \in Nat /\ Cardinality(Before(m, j)) \in Nat
  BY <1>1, FS_CardinalityType
<1>6. QED
  BY <1>4, <1>5 DEF Place, Before

LEMMA PlacesAreIndices ==
  ASSUME NEW m \in Mandates
  PROVE  /\ \A i \in DOMAIN m : Place(m, i) \in DOMAIN m
         /\ \A i, j \in DOMAIN m : Place(m, i) = Place(m, j) => i = j
         /\ \A k \in DOMAIN m : \E i \in DOMAIN m : Place(m, i) = k
<1>1. \A k \in DOMAIN m : k \in Int /\ m[k].id \in Int
  BY MandatesTyped
<1>2. ASSUME NEW i \in DOMAIN m PROVE Place(m, i) \in DOMAIN m
  <2>1. Before(m, i) \in SUBSET (DOMAIN m \ {i})
    BY <1>1 DEF Before, Precedes
  <2>2. IsFiniteSet(DOMAIN m \ {i}) /\ Cardinality(DOMAIN m \ {i}) = Len(m) - 1
    BY MandatesTyped, FS_RemoveElement
  <2>3. Cardinality(Before(m, i)) <= Len(m) - 1 /\ IsFiniteSet(Before(m, i))
    BY <2>1, <2>2, FS_Subset
  <2>4. Cardinality(Before(m, i)) \in Nat
    BY <2>3, FS_CardinalityType
  <2>5. Place(m, i) \in 1..Len(m)
    BY <2>3, <2>4, MandatesTyped DEF Place, Before
  <2>6. QED
    BY <2>5, MandatesTyped
<1>3. ASSUME NEW i \in DOMAIN m, NEW j \in DOMAIN m, Place(m, i) = Place(m, j)
      PROVE  i = j
  <2>1. Place(m, i) \in Int
    BY <1>2, MandatesTyped
  <2>2. ~(Place(m, i) < Place(m, j)) /\ ~(Place(m, j) < Place(m, i))
    BY <1>3, <2>1
  <2>3. ~Precedes(m, i, j) /\ ~Precedes(m, j, i)
    BY <2>2, PlacesGrow
  <2>4. QED
    BY <1>1, <2>3 DEF Precedes
<1> DEFINE f == [i \in DOMAIN m |-> Place(m, i)]
<1>4. f \in Injection(DOMAIN m, DOMAIN m)
  BY <1>2, <1>3 DEF Injection, IsInjective
<1>5. f \in Surjection(DOMAIN m, DOMAIN m)
  <2> HIDE DEF f
  <2>1. QED
    BY <1>4, MandatesTyped, FS_Injection
<1>6. \A k \in DOMAIN m : \E i \in DOMAIN m : Place(m, i) = k
  BY <1>5 DEF Surjection
<1>7. QED
  BY <1>2, <1>3, <1>6

(* Sorting puts each mandate at its place, and has no others. *)
LEMMA SortedAtPlace ==
  ASSUME NEW m \in Mandates
  PROVE  /\ DOMAIN SortById(m) = DOMAIN m
         /\ \A i \in DOMAIN m : SortById(m)[Place(m, i)] = m[i]
         /\ \A k \in DOMAIN m : \E i \in DOMAIN m : Place(m, i) = k /\ SortById(m)[k] = m[i]
<1> DEFINE at(k) == CHOOSE i \in DOMAIN m : Place(m, i) = k
<1>1. \A k \in DOMAIN m : at(k) \in DOMAIN m /\ Place(m, at(k)) = k
  BY PlacesAreIndices
<1>2. SortById(m) = [k \in DOMAIN m |-> m[at(k)]]
  BY DEF SortById
<1> HIDE DEF at
<1>3. \A i \in DOMAIN m : at(Place(m, i)) = i
  BY <1>1, PlacesAreIndices
<1>4. QED
  BY <1>1, <1>2, <1>3, PlacesAreIndices

Stated(mandate) == [id |-> mandate.id, cap |-> mandate.cap, status |-> mandate.status]

LEMMA NormalizedIs ==
  ASSUME NEW p, p.mandates \in Mandates
  PROVE  /\ NormalizePolicy(p) = [mandates |-> NormalizePolicy(p).mandates,
                                  denyRuleIds |-> p.denyRuleIds]
         /\ NormalizePolicy(p).denyRuleIds = p.denyRuleIds
         /\ DOMAIN NormalizePolicy(p).mandates = DOMAIN p.mandates
         /\ NormalizePolicy(p).mandates
              = [k \in DOMAIN p.mandates |-> Stated(SortById(p.mandates)[k])]
         /\ \A k \in DOMAIN p.mandates :
              NormalizePolicy(p).mandates[k] = Stated(SortById(p.mandates)[k])
<1> DEFINE s == [k \in DOMAIN p.mandates |-> Stated(SortById(p.mandates)[k])]
<1>1. NormalizePolicy(p) = [mandates |-> s, denyRuleIds |-> p.denyRuleIds]
  BY SortedAtPlace DEF NormalizePolicy, Stated
<1>2. DOMAIN s = DOMAIN p.mandates /\ \A k \in DOMAIN p.mandates : s[k] = Stated(SortById(p.mandates)[k])
  OBVIOUS
<1> HIDE DEF s
<1>3. QED
  BY <1>1, <1>2 DEF s

(* Policies of one hash decide every intent alike. *)
LEMMA SameHashSameDecision ==
  ASSUME NEW p, NEW q, p.mandates \in Mandates, q.mandates \in Mandates, NEW intent,
         ComputePolicyHash(p) = ComputePolicyHash(q), GateDecision(p, intent)
  PROVE  GateDecision(q, intent)
<1> DEFINE pm == p.mandates
           qm == q.mandates
<1>1. PICK i \in DOMAIN pm : pm[i].status = "active" /\ intent.amount <= pm[i].cap
  BY DEF GateDecision
<1> DEFINE k == Place(pm, i)
<1>2. k \in DOMAIN pm /\ SortById(pm)[k] = pm[i]
  BY PlacesAreIndices, SortedAtPlace
<1> HIDE DEF k
<1>3. NormalizePolicy(p).mandates[k] = Stated(pm[i])
  <2>1. NormalizePolicy(p).mandates[k] = Stated(SortById(pm)[k])
    BY <1>2, NormalizedIs
  <2>2. QED
    BY <1>2, <2>1
<1>4. /\ NormalizePolicy(p).mandates = NormalizePolicy(q).mandates
      /\ NormalizePolicy(p).denyRuleIds = NormalizePolicy(q).denyRuleIds
  BY DEF ComputePolicyHash
<1>5. k \in DOMAIN qm
  BY <1>2, <1>4, NormalizedIs
<1>6. PICK j \in DOMAIN qm : SortById(qm)[k] = qm[j]
  BY <1>5, SortedAtPlace
<1>7. NormalizePolicy(q).mandates[k] = Stated(qm[j])
  <2>1. NormalizePolicy(q).mandates[k] = Stated(SortById(qm)[k])
    BY <1>5, NormalizedIs
  <2>2. QED
    BY <1>6, <2>1
<1>8. Stated(pm[i]) = Stated(qm[j])
  BY <1>3, <1>4, <1>7
<1>9. pm[i].status = qm[j].status /\ pm[i].cap = qm[j].cap
  BY <1>8 DEF Stated
<1>10. p.denyRuleIds = q.denyRuleIds
  BY <1>4, NormalizedIs
<1>11. QED
  BY <1>1, <1>9, <1>10 DEF GateDecision

---------------------------------------------------------------------------
LEMMA SameNumberOfIds ==
  ASSUME NEW m \in Mandates, \A i, j \in DOMAIN m : m[i].id = m[j].id => i = j,
         NEW T \in SUBSET DOMAIN m
  PROVE  Cardinality({m[j].id : j \in T}) = Cardinality(T)
<1> DEFINE U == {m[j].id : j \in T}
           f == [j \in T |-> m[j].id]
<1>1. IsFiniteSet(T)
  BY MandatesTyped, FS_Subset
<1>2. f \in [T -> U] /\ (\A i, j \in T : f[i] = f[j] => i = j) /\ (\A u \in U : \E j \in T : f[j] = u)
  OBVIOUS
<1>3. f \in Bijection(T, U)
  <2> HIDE DEF f, U
  <2>1. QED
    BY <1>2 DEF Bijection, Injection, Surjection, IsInjective
<1>4. ExistsBijection(T, U)
  BY <1>3 DEF ExistsBijection
<1>5. QED
  BY <1>1, <1>4, FS_Bijection

Ids(m) == {m[j].id : j \in DOMAIN m}

(* With ids of their own, a mandate's place is told by the ids alone. *)
LEMMA PlaceById ==
  ASSUME NEW m \in Mandates, \A i, j \in DOMAIN m : m[i].id = m[j].id => i = j,
         NEW i \in DOMAIN m
  PROVE  Place(m, i) = Cardinality({y \in Ids(m) : y < m[i].id}) + 1
<1> DEFINE T == Before(m, i)
<1>1. \A j \in DOMAIN m : m[j].id \in Int /\ j \in Int
  BY MandatesTyped
<1>2. T = {j \in DOMAIN m : m[j].id < m[i].id}
  BY <1>1 DEF Before, Precedes
<1>3. {m[j].id : j \in T} = {y \in Ids(m) : y < m[i].id}
  BY <1>2 DEF Ids
<1>4. Cardinality({m[j].id : j \in T}) = Cardinality(T)
  <2>1. T \in SUBSET DOMAIN m
    BY <1>2
  <2> HIDE DEF T
  <2>2. QED
    BY <2>1, SameNumberOfIds
<1>5. QED
  BY <1>3, <1>4 DEF Place, Before

(* Policies that say the same, each mandate under an id of its own, have one hash. *)
LEMMA SameGovernsSameHash ==
  ASSUME NEW p, NEW q, p.mandates \in Mandates, q.mandates \in Mandates,
         Governs(p) = Governs(q), HasOwnIds(p), HasOwnIds(q)
  PROVE  ComputePolicyHash(p) = ComputePolicyHash(q)
<1> DEFINE pm == p.mandates
           qm == q.mandates
           said(m) == {Stated(m[i]) : i \in DOMAIN m}
<1>1. Governs(p).mandates = said(pm) /\ Governs(q).mandates = said(qm)
      /\ Governs(p).denyRuleIds = p.denyRuleIds /\ Governs(q).denyRuleIds = q.denyRuleIds
  BY DEF Governs, Stated
<1>2. said(pm) = said(qm) /\ p.denyRuleIds = q.denyRuleIds
  BY <1>1
<1>3. \A i \in DOMAIN pm : \E j \in DOMAIN qm : Stated(pm[i]) = Stated(qm[j])
  BY <1>2
<1>4. \A j \in DOMAIN qm : \E i \in DOMAIN pm : Stated(pm[i]) = Stated(qm[j])
  BY <1>2
<1>5. \A i \in DOMAIN pm, j \in DOMAIN qm : Stated(pm[i]) = Stated(qm[j]) => pm[i].id = qm[j].id
  BY DEF Stated
<1>6. Ids(pm) = Ids(qm)
  BY <1>3, <1>4, <1>5 DEF Ids
<1>7. Len(pm) = Len(qm) /\ DOMAIN pm = DOMAIN qm
  <2>1. Cardinality(Ids(pm)) = Cardinality(DOMAIN pm) /\ Cardinality(Ids(qm)) = Cardinality(DOMAIN qm)
    BY SameNumberOfIds DEF HasOwnIds, Ids
  <2>2. QED
    BY <1>6, <2>1, MandatesTyped
<1>8. ASSUME NEW k \in DOMAIN pm
      PROVE  Stated(SortById(pm)[k]) = Stated(SortById(qm)[k])
  <2>1. PICK i \in DOMAIN pm : Place(pm, i) = k /\ SortById(pm)[k] = pm[i]
    BY SortedAtPlace
  <2>2. PICK j \in DOMAIN qm : Stated(pm[i]) = Stated(qm[j])
    BY <1>3
  <2>3. pm[i].id = qm[j].id
    BY <1>5, <2>2
  <2>4. Place(qm, j) = k
    <3>1. Place(pm, i) = Cardinality({y \in Ids(pm) : y < pm[i].id}) + 1
      BY PlaceById DEF HasOwnIds
    <3>2. Place(qm, j) = Cardinality({y \in Ids(qm) : y < qm[j].id}) + 1
      BY PlaceById DEF HasOwnIds
    <3>3. QED
      BY <1>6, <2>1, <2>3, <3>1, <3>2
  <2>5. SortById(qm)[k] = qm[j]
    BY <2>4, SortedAtPlace
  <2>6. QED
    BY <2>1, <2>2, <2>5
<1>9. NormalizePolicy(p).mandates = NormalizePolicy(q).mandates
  <2>1. /\ NormalizePolicy(p).mandates = [k \in DOMAIN pm |-> Stated(SortById(pm)[k])]
        /\ NormalizePolicy(q).mandates = [k \in DOMAIN qm |-> Stated(SortById(qm)[k])]
    BY NormalizedIs
  <2>2. QED
    BY <1>7, <1>8, <2>1
<1>10. QED
  BY <1>2, <1>9, NormalizedIs DEF ComputePolicyHash

---------------------------------------------------------------------------
(* What is disclosed and attested is the hash of a policy the gate had. *)
EnforcementInv ==
  /\ gate \in GatePolicy
  /\ \A d \in binding : d.of \in GatePolicy /\ d.hash = ComputePolicyHash(d.of)
  /\ \A a \in attestation : a.of \in GatePolicy /\ a.policyHash = ComputePolicyHash(a.of)
  /\ \A v \in verified :
       /\ v.disclosure \in binding /\ v.attestation \in attestation
       /\ v.opts \subseteq GatePolicy
       /\ v.result = VerifyEnforcement(v.disclosure, v.attestation, v.opts)

LEMMA EnforcementInitSound == EnforcementInit => EnforcementInv
BY DEF EnforcementInit, EnforcementInv

LEMMA EnforcementStepSound ==
  EnforcementInv /\ (EnforcementNext \/ UNCHANGED enforcement) => EnforcementInv'
<1> SUFFICES ASSUME EnforcementInv, EnforcementNext \/ UNCHANGED enforcement PROVE EnforcementInv'
  OBVIOUS
<1>1. CASE ChangePolicy
  BY <1>1 DEF ChangePolicy, EnforcementInv
<1>2. CASE DiscloseBinding
  BY <1>2 DEF DiscloseBinding, EnforcementInv
<1>3. CASE Decide
  BY <1>3 DEF Decide, EnforcementInv
<1>4. CASE Attest
  BY <1>4 DEF Attest, EnforcementInv
<1>5. CASE VerifyPoE
  BY <1>5 DEF VerifyPoE, EnforcementInv
<1>6. CASE UNCHANGED enforcement
  BY <1>6 DEF enforcement, EnforcementInv
<1>7. QED
  BY <1>1, <1>2, <1>3, <1>4, <1>5, <1>6 DEF EnforcementNext

LEMMA VerificationOk ==
  ASSUME NEW d, NEW a, NEW opts
  PROVE  VerifyEnforcement(d, a, opts).ok <=>
           /\ a.policyHash \in DisclosedPolicyHash(d) /\ a.auditHead > 0
           /\ \A r \in a.recentDecisions, p \in opts : Replay(r, p)
<1> DEFINE replayed == IF opts = {} THEN "skipped"
                       ELSE IF \A r \in a.recentDecisions, p \in opts : Replay(r, p)
                            THEN "passed" ELSE "FAILED"
<1>1. replayed # "FAILED" <=> \A r \in a.recentDecisions, p \in opts : Replay(r, p)
  OBVIOUS
<1>2. VerifyEnforcement(d, a, opts).ok =
        (a.policyHash \in DisclosedPolicyHash(d) /\ a.auditHead > 0 /\ replayed # "FAILED")
  BY Zenon DEF VerifyEnforcement
<1> HIDE DEF replayed
<1>3. QED
  BY <1>1, <1>2

LEMMA GateMandates ==
  ASSUME NEW p \in GatePolicy
  PROVE  p.mandates \in Mandates
BY EnforcementAssumption DEF Mandates

LEMMA ReplayIsOfTheDisclosed == EnforcementInv => ReplayShowsEnforcement
<1> SUFFICES ASSUME EnforcementInv, NEW v \in verified, v.result.ok, NEW p \in v.opts,
                    ComputePolicyHash(p) = v.disclosure.hash,
                    NEW r \in v.attestation.recentDecisions
             PROVE  Replay(r, v.disclosure.of)
  BY DEF ReplayShowsEnforcement
<1>1. v.result = VerifyEnforcement(v.disclosure, v.attestation, v.opts)
  BY DEF EnforcementInv
<1>2. Replay(r, p)
  BY <1>1, VerificationOk
<1>3. /\ p.mandates \in Mandates /\ v.disclosure.of.mandates \in Mandates
      /\ ComputePolicyHash(p) = ComputePolicyHash(v.disclosure.of)
  BY GateMandates DEF EnforcementInv
<1>4. GateDecision(p, r.intent) <=> GateDecision(v.disclosure.of, r.intent)
  BY <1>3, SameHashSameDecision
<1>5. GateDecision(p, r.intent) \in BOOLEAN /\ GateDecision(v.disclosure.of, r.intent) \in BOOLEAN
  BY DEF GateDecision
<1>6. GateDecision(p, r.intent) = GateDecision(v.disclosure.of, r.intent)
  BY <1>4, <1>5
<1>7. QED
  BY <1>2, <1>6 DEF Replay

LEMMA HonestPasses == EnforcementInv => HonestGatePasses
<1> SUFFICES ASSUME EnforcementInv, NEW v \in verified,
                    Governs(v.attestation.of) = Governs(v.disclosure.of),
                    HasOwnIds(v.attestation.of), HasOwnIds(v.disclosure.of),
                    v.disclosure.extension = "policyHash" \/ v.disclosure.evidence = "poe",
                    v.attestation.auditHead > 0,
                    \A r \in v.attestation.recentDecisions, p \in v.opts : Replay(r, p)
             PROVE  v.result.ok
  BY DEF HonestGatePasses
<1>1. v.attestation.policyHash = v.disclosure.hash
  BY GateMandates, SameGovernsSameHash DEF EnforcementInv
<1>2. v.attestation.policyHash \in DisclosedPolicyHash(v.disclosure)
  BY <1>1 DEF DisclosedPolicyHash
<1>3. v.result = VerifyEnforcement(v.disclosure, v.attestation, v.opts)
  BY DEF EnforcementInv
<1>4. QED
  BY <1>2, <1>3, VerificationOk

(* Whatever policies there are, in whatever order their mandates were written,     *)
(* a replay that passed under a policy of the disclosed hash agrees with the        *)
(* policy that was disclosed on every decision sampled.                             *)
THEOREM ReplaysShowEnforcement == DocumentsSpec => []ReplayShowsEnforcement
<1>1. DocumentsInit => EnforcementInv
  BY EnforcementInitSound DEF DocumentsInit
<1>2. EnforcementInv /\ [DocumentsNext]_<<duty, Parts>> => EnforcementInv'
  BY EnforcementStepSound DEF DocumentsNext, Parts
<1>3. QED
  BY <1>1, <1>2, ReplayIsOfTheDisclosed, PTL DEF DocumentsSpec

(* A gate that attests to what was disclosed passes, in whatever order the         *)
(* operator wrote its mandates down, each under an id of its own.                   *)
THEOREM HonestGatesPass == DocumentsSpec => []HonestGatePasses
<1>1. DocumentsInit => EnforcementInv
  BY EnforcementInitSound DEF DocumentsInit
<1>2. EnforcementInv /\ [DocumentsNext]_<<duty, Parts>> => EnforcementInv'
  BY EnforcementStepSound DEF DocumentsNext, Parts
<1>3. QED
  BY <1>1, <1>2, HonestPasses, PTL DEF DocumentsSpec

---------------------------------------------------------------------------
(* The command line. *)

(* The fields of a parse. *)
ArgsType ==
  [want : ValueFlags \cup {""}, positionals : Seq(STRING),
   flags : [ValueFlags -> SUBSET STRING], bools : SUBSET STRING]

LEMMA AppendIn ==
  ASSUME NEW S, NEW s \in Seq(S), NEW e \in S
  PROVE  /\ Append(s, e) \in Seq(S) /\ Append(s, e) # <<>>
         /\ Append(s, e)[1] = (IF s = <<>> THEN e ELSE s[1])
<1>1. /\ Append(s, e) \in Seq(S) /\ Len(Append(s, e)) = Len(s) + 1 /\ Len(s) \in Nat
      /\ \A i \in 1..Len(s) : Append(s, e)[i] = s[i]
      /\ Append(s, e)[Len(s) + 1] = e
  BY AppendProperties
<1>2. Append(s, e) # <<>>
  BY <1>1
<1>3. CASE s = <<>>
  BY <1>1, <1>2, <1>3
<1>4. CASE s # <<>>
  <2>1. Len(s) # 0
    BY <1>4, EmptySeq
  <2>2. 1 \in 1..Len(s)
    BY <1>1, <2>1
  <2>3. QED
    BY <1>1, <1>2, <1>4, <2>2
<1>5. QED
  BY <1>3, <1>4

LEMMA AppendToken ==
  ASSUME NEW s \in Seq(STRING), NEW e \in STRING
  PROVE  /\ Append(s, e) \in Seq(STRING) /\ Append(s, e) # <<>>
         /\ Append(s, e)[1] = (IF s = <<>> THEN e ELSE s[1])
<1> DEFINE S == STRING
<1>1. s \in Seq(S) /\ e \in S
  OBVIOUS
<1> HIDE DEF S
<1>2. /\ Append(s, e) \in Seq(S) /\ Append(s, e) # <<>>
      /\ Append(s, e)[1] = (IF s = <<>> THEN e ELSE s[1])
  <2>1. \A u \in Seq(S), x \in S :
          /\ Append(u, x) \in Seq(S) /\ Append(u, x) # <<>>
          /\ Append(u, x)[1] = (IF u = <<>> THEN x ELSE u[1])
    BY AppendIn
  <2>2. QED
    BY <1>1, <2>1, Zenon
<1>3. QED
  BY <1>2 DEF S

LEMMA ValueFlagsAreFlags ==
  /\ "" \notin ValueFlags
  /\ \A f \in ValueFlags : IsFlag(f)
  /\ {"--now", "--min-grade"} \subseteq ValueFlags
  /\ \A f \in {"--require-enforced", "--non-custodial", "--require-history"} :
       IsFlag(f) /\ f \notin ValueFlags
BY DEF ValueFlags, IsFlag

(* What a token does to each field, by what it is. *)
LEMMA TokenIsValue ==
  ASSUME NEW args \in ArgsType, NEW token \in STRING, args.want # ""
  PROVE  LET next == ParseToken(args, token) IN
         /\ next \in ArgsType
         /\ next.want = ""
         /\ next.flags = [args.flags EXCEPT ![args.want] = {token}]
         /\ next.positionals = args.positionals /\ next.bools = args.bools
<1> DEFINE next == ParseToken(args, token)
           taken == [args EXCEPT !.flags = [args.flags EXCEPT ![args.want] = {token}]]
<1>1. next = [taken EXCEPT !.want = ""]
  BY DEF ParseToken, ArgsType
<1>2. taken \in ArgsType /\ taken.flags = [args.flags EXCEPT ![args.want] = {token}]
      /\ taken.positionals = args.positionals /\ taken.bools = args.bools
  BY DEF ArgsType
<1> HIDE DEF taken
<1>3. next \in ArgsType /\ next.want = "" /\ next.flags = taken.flags
      /\ next.positionals = taken.positionals /\ next.bools = taken.bools
  BY <1>1, <1>2 DEF ArgsType
<1>4. QED
  BY <1>2, <1>3

LEMMA TokenIsNoValue ==
  ASSUME NEW args \in ArgsType, NEW token \in STRING, args.want = ""
  PROVE  LET next == ParseToken(args, token) IN
         /\ next \in ArgsType
         /\ next.flags = args.flags
         /\ next.want = (IF token \in ValueFlags THEN token ELSE "")
         /\ next.bools = (IF token \in ValueFlags \/ ~IsFlag(token) THEN args.bools
                          ELSE args.bools \cup {token})
         /\ next.positionals = (IF IsFlag(token) THEN args.positionals
                                ELSE Append(args.positionals, token))
<1>1. CASE token \in ValueFlags
  BY <1>1, ValueFlagsAreFlags DEF ParseToken, ArgsType
<1>2. CASE token \notin ValueFlags /\ IsFlag(token)
  BY <1>2 DEF ParseToken, ArgsType
<1>3. CASE ~IsFlag(token)
  <2>1. token \notin ValueFlags
    BY <1>3, ValueFlagsAreFlags
  <2>2. args.positionals \in Seq(STRING)
    BY DEF ArgsType
  <2>3. Append(args.positionals, token) \in Seq(STRING)
    BY <2>2, AppendToken
  <2>4. QED
    BY <1>3, <2>1, <2>3 DEF ParseToken, ArgsType
<1>4. QED
  BY <1>1, <1>2, <1>3

(* f is the parse of the first tokens of the line after the command. *)
ParseOf(f, line) ==
  /\ f \in [0..(Len(line) - 1) -> ArgsType]
  /\ f[0] = NoArgs
  /\ \A n \in 0..(Len(line) - 2) : f[n + 1] = ParseToken(f[n], line[n + 2])

LEMMA ParseOfExists ==
  ASSUME NEW line \in Seq(STRING) \ {<<>>}
  PROVE  \E f : ParseOf(f, line)
<1> DEFINE last == Len(line) - 1
           step == [p \in Nat \X ArgsType |->
                      IF p[1] < last THEN ParseToken(p[2], line[p[1] + 2]) ELSE p[2]]
<1>1. last \in Nat
  OBVIOUS
<1>2. ASSUME NEW args \in ArgsType, NEW token \in STRING PROVE ParseToken(args, token) \in ArgsType
  BY TokenIsValue, TokenIsNoValue
<1>3. step \in [Nat \X ArgsType -> ArgsType]
  <2>1. ASSUME NEW p \in Nat \X ArgsType, p[1] < last
        PROVE  ParseToken(p[2], line[p[1] + 2]) \in ArgsType
    <3>1. p[2] \in ArgsType /\ p[1] + 2 \in 1..Len(line)
      BY <2>1
    <3>2. line[p[1] + 2] \in STRING
      BY <3>1
    <3>3. QED
      BY <1>2, <3>1, <3>2
  <2>2. QED
    BY <2>1
<1>4. ASSUME NEW n \in 0..(last - 1), NEW args \in ArgsType
      PROVE  step[<<n, args>>] = ParseToken(args, line[n + 2])
  BY <1>1
<1>5. NoArgs \in ArgsType
  BY DEF NoArgs, ArgsType
<1> HIDE DEF step
<1>6. PICK f : Computes(f, last, ArgsType, NoArgs, step)
  BY <1>1, <1>3, <1>5, ComputesExists
<1>7. f \in [0..last -> ArgsType] /\ f[0] = NoArgs
  BY <1>6 DEF Computes
<1>8. ASSUME NEW n \in 0..(last - 1) PROVE f[n + 1] = ParseToken(f[n], line[n + 2])
  <2>1. f[n + 1] = step[<<n, f[n]>>]
    BY <1>6 DEF Computes
  <2>2. f[n] \in ArgsType
    BY <1>7
  <2>3. QED
    BY <2>1, <2>2, <1>4
<1>9. last - 1 = Len(line) - 2
  OBVIOUS
<1>10. QED
  BY <1>7, <1>8, <1>9 DEF ParseOf

LEMMA ParseArgsIs ==
  ASSUME NEW line \in Seq(STRING) \ {<<>>}, NEW f, ParseOf(f, line)
  PROVE  ParseArgs(Tail(line)) = f[Len(line) - 1]
<1> DEFINE argv == Tail(line)
           last == Len(line) - 1
           Is(g) == g = [n \in 0..Len(argv) |->
                           IF n = 0 THEN NoArgs ELSE ParseToken(g[n - 1], argv[n])]
           g == CHOOSE h : Is(h)
<1>1. Len(argv) = last /\ last \in Nat /\ \A n \in 1..last : argv[n] = line[n + 1]
  OBVIOUS
<1>2. ParseArgs(argv) = g[Len(argv)]
  BY DEF ParseArgs
<1> HIDE DEF argv
<1>3. Is(f)
  <2>1. ASSUME NEW n \in 0..last, n # 0 PROVE f[n] = ParseToken(f[n - 1], argv[n])
    <3>1. n - 1 \in 0..(Len(line) - 2) /\ (n - 1) + 1 = n /\ (n - 1) + 2 = n + 1 /\ n \in 1..last
      BY <2>1, <1>1
    <3>2. f[(n - 1) + 1] = ParseToken(f[n - 1], line[(n - 1) + 2])
      BY <3>1 DEF ParseOf
    <3>3. QED
      BY <3>1, <3>2, <1>1
  <2>2. f = [n \in 0..last |-> f[n]] /\ f[0] = NoArgs
    BY DEF ParseOf
  <2>3. QED
    BY <2>1, <2>2, <1>1
<1> HIDE DEF Is
<1>4. Is(g)
  BY <1>3
<1>5. g = [n \in 0..last |-> IF n = 0 THEN NoArgs ELSE ParseToken(g[n - 1], argv[n])]
  BY <1>4, <1>1 DEF Is
<1> HIDE DEF g
<1> DEFINE T == {n \in Nat : n <= last => g[n] = f[n]}
<1>6. 0 \in T
  BY <1>5, <1>1 DEF ParseOf
<1>7. ASSUME NEW n \in Nat, n \in T PROVE n + 1 \in T
  <2>1. CASE n + 1 <= last
    <3>1. n + 1 \in 0..last /\ n + 1 \in 1..last /\ n \in 0..(Len(line) - 2) /\ (n + 1) - 1 = n
      BY <2>1, <1>1
    <3>2. g[n + 1] = ParseToken(g[n], line[n + 2])
      BY <3>1, <1>5, <1>1
    <3>3. f[n + 1] = ParseToken(f[n], line[n + 2])
      BY <3>1 DEF ParseOf
    <3>4. QED
      BY <2>1, <3>2, <3>3, <1>7
  <2>2. QED
    BY <2>1
<1>8. Nat \subseteq T
  <2> HIDE DEF T
  <2>1. QED
    BY <1>6, <1>7, NatSetInduction
<1>9. g[last] = f[last]
  BY <1>8, <1>1
<1>10. QED
  BY <1>1, <1>2, <1>9 DEF argv

(* Which tokens are taken for a value. *)
LEMMA TakenIs ==
  ASSUME NEW line \in Seq(STRING) \ {<<>>}
  PROVE  /\ Taken(line) \in [1..Len(line) -> BOOLEAN]
         /\ ~Taken(line)[1]
         /\ \A i \in 1..(Len(line) - 1) :
              Taken(line)[i + 1] <=> line[i] \in ValueFlags /\ ~Taken(line)[i]
<1> DEFINE B == BOOLEAN
           none == FALSE
           step == [p \in Nat \X B |-> p[1] >= 1 /\ line[p[1]] \in ValueFlags /\ ~p[2]]
           Is(t) == t = [i \in DOMAIN line |->
                           i > 1 /\ line[i - 1] \in ValueFlags /\ ~t[i - 1]]
           t == CHOOSE u : Is(u)
<1>1. none \in B /\ step \in [Nat \X B -> B]
  OBVIOUS
<1>2. Taken(line) = t
  BY DEF Taken
<1>3. ASSUME NEW i \in Nat, NEW b \in B
      PROVE  step[<<i, b>>] <=> i >= 1 /\ line[i] \in ValueFlags /\ ~b
  OBVIOUS
<1> HIDE DEF step, B, none
<1>4. PICK g : Computes(g, Len(line), B, none, step)
  <2>1. Len(line) \in Nat
    OBVIOUS
  <2>2. QED
    BY <1>1, <2>1, ComputesExists
<1> DEFINE u == [i \in 1..Len(line) |-> g[i]]
<1>5. DOMAIN line = 1..Len(line)
  OBVIOUS
<1>6. ASSUME NEW i \in 0..(Len(line) - 1)
      PROVE  g[i + 1] \in BOOLEAN /\ (g[i + 1] <=> i >= 1 /\ line[i] \in ValueFlags /\ ~g[i])
  <2>1. g[i + 1] = step[<<i, g[i]>>] /\ g[i] \in B /\ i \in Nat
    BY <1>4 DEF Computes
  <2>2. step[<<i, g[i]>>] \in B
    BY <2>1, <1>1
  <2>3. QED
    BY <2>1, <2>2, <1>3 DEF B
<1>7. Is(u)
  <2>1. ASSUME NEW i \in 1..Len(line)
        PROVE  u[i] = (i > 1 /\ line[i - 1] \in ValueFlags /\ ~u[i - 1])
    <3>1. i - 1 \in 0..(Len(line) - 1) /\ (i - 1) + 1 = i
      OBVIOUS
    <3>2. g[i] \in BOOLEAN /\ (g[i] <=> i - 1 >= 1 /\ line[i - 1] \in ValueFlags /\ ~g[i - 1])
      BY <3>1, <1>6
    <3>3. i > 1 => i - 1 \in 1..Len(line)
      OBVIOUS
    <3>4. u[i] = g[i] /\ (i > 1 => u[i - 1] = g[i - 1])
      BY <3>3
    <3>5. QED
      BY <3>2, <3>4
  <2>2. u = [i \in 1..Len(line) |-> u[i]]
    OBVIOUS
  <2> HIDE DEF u
  <2>3. QED
    BY <2>1, <2>2, <1>5
<1> HIDE DEF Is, u
<1>8. Is(t)
  BY <1>7
<1>9. t = [i \in 1..Len(line) |-> i > 1 /\ line[i - 1] \in ValueFlags /\ ~t[i - 1]]
  BY <1>8, <1>5 DEF Is
<1> HIDE DEF t
<1>10. t \in [1..Len(line) -> BOOLEAN]
  BY <1>9
<1>11. ~t[1]
  <2>1. 1 \in 1..Len(line) /\ ~(1 > 1)
    OBVIOUS
  <2>2. t[1] = (1 > 1 /\ line[1 - 1] \in ValueFlags /\ ~t[1 - 1])
    BY <2>1, <1>9
  <2>3. QED
    BY <2>1, <2>2
<1>12. ASSUME NEW i \in 1..(Len(line) - 1) PROVE t[i + 1] <=> line[i] \in ValueFlags /\ ~t[i]
  <2>1. i + 1 \in 1..Len(line) /\ i + 1 > 1 /\ (i + 1) - 1 = i
    OBVIOUS
  <2>2. t[i + 1] = (i + 1 > 1 /\ line[(i + 1) - 1] \in ValueFlags /\ ~t[(i + 1) - 1])
    BY <2>1, <1>9
  <2>3. QED
    BY <2>1, <2>2
<1>13. QED
  BY <1>2, <1>10, <1>11, <1>12

(* What a parse of the line up to position m holds. *)
WantIs(args, line, m) ==
  args.want = IF line[m] \in ValueFlags /\ ~Taken(line)[m] THEN line[m] ELSE ""

ToggledUpTo(args, line, m) ==
  \A i \in 2..m : ~Taken(line)[i] /\ IsFlag(line[i]) /\ line[i] \notin ValueFlags
                   => line[i] \in args.bools

StandsAt(line, i, flag) == line[i] = flag /\ ~Taken(line)[i]

ValuesUpTo(args, line, m) ==
  \A i \in 2..m :
    Taken(line)[i] /\ (\A k \in (i + 1)..m : ~StandsAt(line, k, line[i - 1]))
      => args.flags[line[i - 1]] = {line[i]}

FirstOperandUpTo(args, line, m) ==
  \/ args.positionals = <<>> /\ \A i \in 2..m : ~Operand(line, i)
  \/ /\ args.positionals # <<>>
     /\ \E i \in 2..m : /\ Operand(line, i) /\ line[i] = args.positionals[1]
                        /\ \A k \in 2..(i - 1) : ~Operand(line, k)

LastStatedUpTo(line, m) ==
  (\E i \in 2..m : StandsAt(line, i, "--min-grade")) =>
    \E j \in 2..m : /\ StandsAt(line, j, "--min-grade")
                     /\ \A k \in (j + 1)..m : ~StandsAt(line, k, "--min-grade")

ReadUpTo(args, line, m) ==
  /\ args \in ArgsType
  /\ WantIs(args, line, m)
  /\ ToggledUpTo(args, line, m)
  /\ ValuesUpTo(args, line, m)
  /\ FirstOperandUpTo(args, line, m)
  /\ LastStatedUpTo(line, m)

LEMMA NothingRead ==
  ASSUME NEW line \in Seq(STRING) \ {<<>>}, line[1] \notin ValueFlags
  PROVE  ReadUpTo(NoArgs, line, 1)
<1>1. NoArgs \in ArgsType
  BY DEF NoArgs, ArgsType
<1>2. NoArgs.want = "" /\ NoArgs.positionals = <<>>
  BY DEF NoArgs
<1>3. \A i \in 2..1 : FALSE
  OBVIOUS
<1>4. WantIs(NoArgs, line, 1)
  BY <1>2 DEF WantIs
<1>5. QED
  BY <1>1, <1>2, <1>3, <1>4
     DEF ReadUpTo, ToggledUpTo, ValuesUpTo, FirstOperandUpTo, LastStatedUpTo

LEMMA OneMoreRead ==
  ASSUME NEW line \in Seq(STRING) \ {<<>>}, NEW m \in 1..(Len(line) - 1), NEW args,
         ReadUpTo(args, line, m)
  PROVE  ReadUpTo(ParseToken(args, line[m + 1]), line, m + 1)
<1> DEFINE next == ParseToken(args, line[m + 1])
           token == line[m + 1]
           T == Taken(line)
<1> USE DEF ReadUpTo
<1>1. token \in STRING /\ args \in ArgsType /\ m \in Nat /\ m + 1 \in 2..Len(line)
  OBVIOUS
<1>2. T[m + 1] <=> line[m] \in ValueFlags /\ ~T[m]
  BY TakenIs
<1>3. T[m + 1] <=> args.want # ""
  BY <1>2, ValueFlagsAreFlags DEF WantIs
<1>4. LastStatedUpTo(line, m + 1)
  <2>1. CASE StandsAt(line, m + 1, "--min-grade")
    <3>1. \A k \in ((m + 1) + 1)..(m + 1) : FALSE
      BY <1>1
    <3>2. QED
      BY <2>1, <3>1, <1>1 DEF LastStatedUpTo
  <2>2. CASE ~StandsAt(line, m + 1, "--min-grade")
    <3>1. SUFFICES ASSUME NEW i \in 2..(m + 1), StandsAt(line, i, "--min-grade")
                   PROVE  \E j \in 2..(m + 1) :
                            /\ StandsAt(line, j, "--min-grade")
                            /\ \A k \in (j + 1)..(m + 1) : ~StandsAt(line, k, "--min-grade")
      BY DEF LastStatedUpTo
    <3>2. i \in 2..m
      BY <2>2, <3>1, <1>1
    <3>3. PICK j \in 2..m : /\ StandsAt(line, j, "--min-grade")
                            /\ \A k \in (j + 1)..m : ~StandsAt(line, k, "--min-grade")
      BY <3>1, <3>2 DEF LastStatedUpTo
    <3>4. \A k \in (j + 1)..(m + 1) : k \in (j + 1)..m \/ k = m + 1
      BY <1>1
    <3>5. j \in 2..(m + 1)
      BY <1>1
    <3>6. QED
      BY <3>3, <3>4, <3>5, <2>2
  <2>3. QED
    BY <2>1, <2>2
<1>5. \A i \in 2..(m + 1) : i \in 2..m \/ i = m + 1
  BY <1>1
<1>6. CASE args.want # ""
  <2>1. T[m + 1] /\ line[m] = args.want /\ ~T[m] /\ args.want \in ValueFlags
    BY <1>3, <1>6 DEF WantIs
  <2>2. /\ next \in ArgsType /\ next.want = ""
        /\ next.flags = [args.flags EXCEPT ![args.want] = {token}]
        /\ next.positionals = args.positionals /\ next.bools = args.bools
    BY <1>1, <1>6, TokenIsValue
  <2> HIDE DEF next
  <2>3. WantIs(next, line, m + 1)
    BY <2>1, <2>2 DEF WantIs
  <2>4. ToggledUpTo(next, line, m + 1)
    BY <2>1, <2>2, <1>5 DEF ToggledUpTo
  <2>5. ValuesUpTo(next, line, m + 1)
    <3>1. SUFFICES ASSUME NEW i \in 2..(m + 1), T[i],
                          \A k \in (i + 1)..(m + 1) : ~StandsAt(line, k, line[i - 1])
                   PROVE  next.flags[line[i - 1]] = {line[i]}
      BY DEF ValuesUpTo
    <3>2. args.flags \in [ValueFlags -> SUBSET STRING]
      BY <1>1 DEF ArgsType
    <3>3. CASE i = m + 1
      <4>1. i - 1 = m
        BY <3>3, <1>1
      <4>2. QED
        BY <3>3, <4>1, <2>1, <2>2, <3>2
    <3>4. CASE i \in 2..m
      <4>1. i # m
        BY <2>1, <3>1
      <4>2. m \in (i + 1)..(m + 1)
        BY <4>1, <3>4, <1>1
      <4>3. line[i - 1] # args.want
        BY <4>2, <3>1, <2>1 DEF StandsAt
      <4>4. \A k \in (i + 1)..m : k \in (i + 1)..(m + 1)
        BY <1>1
      <4>5. args.flags[line[i - 1]] = {line[i]}
        BY <3>1, <3>4, <4>4 DEF ValuesUpTo
      <4>6. next.flags[line[i - 1]] = args.flags[line[i - 1]]
        <5>1. i - 1 \in 1..(Len(line) - 1) /\ (i - 1) + 1 = i
          BY <3>4, <1>1
        <5>2. line[i - 1] \in ValueFlags
          BY <5>1, <3>1, TakenIs
        <5>3. QED
          BY <5>2, <4>3, <2>2, <3>2
      <4>7. QED
        BY <4>5, <4>6
    <3>5. QED
      BY <3>3, <3>4, <1>5
  <2>6. FirstOperandUpTo(next, line, m + 1)
    <3>1. ~Operand(line, m + 1)
      BY <2>1 DEF Operand
    <3>2. CASE args.positionals = <<>>
      BY <3>1, <3>2, <2>2, <1>5 DEF FirstOperandUpTo
    <3>3. CASE args.positionals # <<>>
      <4>1. next.positionals = args.positionals
        BY <2>2
      <4>2. PICK i \in 2..m : /\ Operand(line, i) /\ line[i] = args.positionals[1]
                              /\ \A k \in 2..(i - 1) : ~Operand(line, k)
        BY <3>3 DEF FirstOperandUpTo
      <4>3. i \in 2..(m + 1)
        BY <1>1
      <4>4. QED
        BY <3>3, <4>1, <4>2, <4>3 DEF FirstOperandUpTo
    <3>4. QED
      BY <3>2, <3>3
  <2>7. ReadUpTo(next, line, m + 1)
    BY <2>2, <2>3, <2>4, <2>5, <2>6, <1>4
  <2>8. QED
    BY <2>7 DEF next
<1>7. CASE args.want = ""
  <2>1. ~T[m + 1]
    BY <1>3, <1>7
  <2>2. /\ next \in ArgsType
        /\ next.flags = args.flags
        /\ next.want = (IF token \in ValueFlags THEN token ELSE "")
        /\ next.bools = (IF token \in ValueFlags \/ ~IsFlag(token) THEN args.bools
                         ELSE args.bools \cup {token})
        /\ next.positionals = (IF IsFlag(token) THEN args.positionals
                               ELSE Append(args.positionals, token))
    BY <1>1, <1>7, TokenIsNoValue
  <2> HIDE DEF next
  <2>3. WantIs(next, line, m + 1)
    BY <2>1, <2>2 DEF WantIs
  <2>4. ToggledUpTo(next, line, m + 1)
    <3>1. args.bools \subseteq next.bools
      BY <2>2
    <3>2. IsFlag(token) /\ token \notin ValueFlags => token \in next.bools
      BY <2>2
    <3>3. QED
      BY <3>1, <3>2, <1>5 DEF ToggledUpTo
  <2>5. ValuesUpTo(next, line, m + 1)
    <3>1. SUFFICES ASSUME NEW i \in 2..(m + 1), T[i],
                          \A k \in (i + 1)..(m + 1) : ~StandsAt(line, k, line[i - 1])
                   PROVE  next.flags[line[i - 1]] = {line[i]}
      BY DEF ValuesUpTo
    <3>2. i \in 2..m
      BY <3>1, <2>1, <1>5
    <3>3. \A k \in (i + 1)..m : k \in (i + 1)..(m + 1)
      BY <1>1
    <3>4. QED
      BY <3>1, <3>2, <3>3, <2>2 DEF ValuesUpTo
  <2>6. FirstOperandUpTo(next, line, m + 1)
    <3>1. Operand(line, m + 1) <=> ~IsFlag(token)
      BY <2>1, <1>1 DEF Operand
    <3>2. args.positionals \in Seq(STRING)
      BY <1>1 DEF ArgsType
    <3>3. CASE IsFlag(token)
      <4>1. next.positionals = args.positionals
        BY <2>2, <3>3
      <4>2. CASE args.positionals = <<>>
        BY <4>1, <4>2, <3>1, <3>3, <1>5 DEF FirstOperandUpTo
      <4>3. CASE args.positionals # <<>>
        BY <4>1, <4>3, <1>1 DEF FirstOperandUpTo
      <4>4. QED
        BY <4>2, <4>3
    <3>4. CASE ~IsFlag(token)
      <4>1. /\ next.positionals # <<>>
            /\ next.positionals[1] = (IF args.positionals = <<>> THEN token
                                      ELSE args.positionals[1])
        <5>1. next.positionals = Append(args.positionals, token)
          BY <2>2, <3>4
        <5> HIDE DEF token
        <5>2. QED
          BY <5>1, <3>2, <1>1, AppendToken
      <4>2. CASE args.positionals = <<>>
        <5>1. \A k \in 2..m : ~Operand(line, k)
          BY <4>2 DEF FirstOperandUpTo
        <5>2. \A k \in 2..((m + 1) - 1) : k \in 2..m
          BY <1>1
        <5>3. QED
          BY <4>1, <4>2, <5>1, <5>2, <3>1, <3>4, <1>1 DEF FirstOperandUpTo
      <4>3. CASE args.positionals # <<>>
        BY <4>1, <4>3, <1>1 DEF FirstOperandUpTo
      <4>4. QED
        BY <4>2, <4>3
    <3>5. QED
      BY <3>3, <3>4
  <2>7. ReadUpTo(next, line, m + 1)
    BY <2>2, <2>3, <2>4, <2>5, <2>6, <1>4
  <2>8. QED
    BY <2>7 DEF next
<1>8. QED
  BY <1>6, <1>7

(* What a parse of the whole line holds. *)
LEMMA AllRead ==
  ASSUME NEW line \in Seq(STRING) \ {<<>>}, line[1] \notin ValueFlags
  PROVE  ReadUpTo(ParseArgs(Tail(line)), line, Len(line))
<1>1. PICK f : ParseOf(f, line)
  BY ParseOfExists
<1> DEFINE U == {n \in Nat : n <= Len(line) - 1 => ReadUpTo(f[n], line, n + 1)}
<1>2. Len(line) \in Nat /\ Len(line) >= 1
  OBVIOUS
<1>3. 0 \in U
  BY <1>1, NothingRead DEF ParseOf
<1>4. ASSUME NEW n \in Nat, n \in U PROVE n + 1 \in U
  <2>1. CASE n + 1 <= Len(line) - 1
    <3>1. n + 1 \in 1..(Len(line) - 1) /\ n \in 0..(Len(line) - 2) /\ (n + 1) + 1 = n + 2
      BY <2>1, <1>2
    <3>2. ReadUpTo(f[n], line, n + 1)
      BY <1>4, <3>1, <1>2
    <3>3. f[n + 1] = ParseToken(f[n], line[n + 2])
      BY <1>1, <3>1 DEF ParseOf
    <3>4. ReadUpTo(ParseToken(f[n], line[(n + 1) + 1]), line, (n + 1) + 1)
      BY <3>1, <3>2, OneMoreRead
    <3>5. ReadUpTo(f[n + 1], line, (n + 1) + 1)
      BY <3>1, <3>3, <3>4
    <3>6. QED
      BY <3>5
  <2>2. QED
    BY <2>1
<1>5. Nat \subseteq U
  <2> HIDE DEF U
  <2>1. QED
    BY <1>3, <1>4, NatSetInduction
<1>6. Len(line) - 1 \in Nat /\ (Len(line) - 1) + 1 = Len(line)
  BY <1>2
<1>7. ReadUpTo(f[Len(line) - 1], line, Len(line))
  BY <1>5, <1>6
<1>8. QED
  BY <1>1, <1>7, ParseArgsIs

(* The policy that the flags make, field by field. *)
LEMMA PolicyOfFlags ==
  ASSUME NEW args, NEW policy \in BuildPolicy(args)
  PROVE  /\ args.flags["--min-grade"] \subseteq Grades
         /\ policy.requireValidSignature /\ policy.requireFresh
         /\ "--require-enforced" \in args.bools => policy.requireEnforcedConstitution
         /\ "--non-custodial" \in args.bools => policy.requireNonCustodial
         /\ "--require-history" \in args.bools => policy.requireDeploymentHistory
         /\ policy.minRedTeamGrade = args.flags["--min-grade"]
<1> DEFINE p0 == DefaultPolicy
           p1 == [p0 EXCEPT !.requireEnforcedConstitution = "--require-enforced" \in args.bools]
           p2 == [p1 EXCEPT !.requireNonCustodial = "--non-custodial" \in args.bools]
           p3 == [p2 EXCEPT !.requireDeploymentHistory = "--require-history" \in args.bools]
           p4 == [p3 EXCEPT !.minRedTeamGrade = args.flags["--min-grade"]]
           fields == {"requireValidSignature", "requireFresh", "requireEnforcedConstitution",
                      "requireNonCustodial", "requireDeploymentHistory", "minRedTeamGrade"}
<1>1. policy = p4 /\ args.flags["--min-grade"] \subseteq Grades
  BY DEF BuildPolicy
<1>2. fields \subseteq DOMAIN p0 /\ p0.requireValidSignature /\ p0.requireFresh
  BY CliAssumption
<1> HIDE DEF p0
<1>3. /\ fields \subseteq DOMAIN p1 /\ p1.requireValidSignature /\ p1.requireFresh
      /\ p1.requireEnforcedConstitution <=> "--require-enforced" \in args.bools
  BY <1>2
<1> HIDE DEF p1
<1>4. /\ fields \subseteq DOMAIN p2 /\ p2.requireValidSignature /\ p2.requireFresh
      /\ p2.requireEnforcedConstitution <=> "--require-enforced" \in args.bools
      /\ p2.requireNonCustodial <=> "--non-custodial" \in args.bools
  BY <1>3
<1> HIDE DEF p2
<1>5. /\ fields \subseteq DOMAIN p3 /\ p3.requireValidSignature /\ p3.requireFresh
      /\ p3.requireEnforcedConstitution <=> "--require-enforced" \in args.bools
      /\ p3.requireNonCustodial <=> "--non-custodial" \in args.bools
      /\ p3.requireDeploymentHistory <=> "--require-history" \in args.bools
  BY <1>4
<1> HIDE DEF p3
<1>6. /\ p4.requireValidSignature /\ p4.requireFresh
      /\ p4.requireEnforcedConstitution <=> "--require-enforced" \in args.bools
      /\ p4.requireNonCustodial <=> "--non-custodial" \in args.bools
      /\ p4.requireDeploymentHistory <=> "--require-history" \in args.bools
      /\ p4.minRedTeamGrade = args.flags["--min-grade"]
  BY <1>5
<1> HIDE DEF p4
<1>7. QED
  BY <1>1, <1>6

LEMMA WhatIsAskedRuns ==
  ASSUME NEW stated, NEW policy
  PROVE  LET run == ChecksRun(stated, policy) IN
         /\ policy.requireValidSignature => "signature" \in run
         /\ policy.requireFresh => "freshness" \in run
         /\ policy.requireEnforcedConstitution => "enforcedConstitution" \in run
         /\ policy.requireNonCustodial => "nonCustodial" \in run
         /\ policy.requireDeploymentHistory => "deploymentHistory" \in run
         /\ policy.minRedTeamGrade # {} /\ stated.redTeam # {} => "redTeamGrade" \in run
BY DEF ChecksRun

(* A verdict of 0 is a document that passes what the parse holds. *)
LEMMA ClearedPasses ==
  ASSUME NEW envelope, NEW args, Verdict(envelope, args) = 0
  PROVE  LET stated == envelope.disclosure.claims IN
         /\ args.flags["--min-grade"] \subseteq Grades
         /\ VerifyAnyDisclosureSignature(envelope)
         /\ IsFresh(envelope.disclosure, NowOf(args))
         /\ "--require-enforced" \in args.bools => stated.enforced
         /\ "--non-custodial" \in args.bools => stated.custody = "non_custodial"
         /\ "--require-history" \in args.bools => stated.totalDecisions > 0
         /\ \A grade \in args.flags["--min-grade"], red \in stated.redTeam :
              GradeRank[red.grade] >= GradeRank[grade]
<1> DEFINE at == NowOf(args)
           stated == envelope.disclosure.claims
<1>1. PICK policy \in BuildPolicy(args) : EvaluateDisclosure(envelope, policy, at, {}) = {}
  BY DEF Verdict
<1> DEFINE run == ChecksRun(stated, policy)
<1>2. \A predicate \in run : CheckPasses(predicate, envelope, policy, at, {})
  BY <1>1 DEF EvaluateDisclosure
<1> HIDE DEF at
<1>3. /\ args.flags["--min-grade"] \subseteq Grades
      /\ policy.requireValidSignature /\ policy.requireFresh
      /\ "--require-enforced" \in args.bools => policy.requireEnforcedConstitution
      /\ "--non-custodial" \in args.bools => policy.requireNonCustodial
      /\ "--require-history" \in args.bools => policy.requireDeploymentHistory
      /\ policy.minRedTeamGrade = args.flags["--min-grade"]
  BY PolicyOfFlags
<1>4. /\ policy.requireValidSignature => "signature" \in run
      /\ policy.requireFresh => "freshness" \in run
      /\ policy.requireEnforcedConstitution => "enforcedConstitution" \in run
      /\ policy.requireNonCustodial => "nonCustodial" \in run
      /\ policy.requireDeploymentHistory => "deploymentHistory" \in run
      /\ policy.minRedTeamGrade # {} /\ stated.redTeam # {} => "redTeamGrade" \in run
  BY WhatIsAskedRuns
<1> HIDE DEF run
<1>5. VerifyAnyDisclosureSignature(envelope) /\ IsFresh(envelope.disclosure, at)
  BY <1>2, <1>3, <1>4 DEF CheckPasses
<1>6. \A predicate \in run \ EnvelopeCheck : ClaimPasses(predicate, stated, policy)
  BY <1>2 DEF CheckPasses
<1>7. "--require-enforced" \in args.bools => stated.enforced
  BY <1>3, <1>4, <1>6 DEF EnvelopeCheck, ClaimPasses
<1>8. "--non-custodial" \in args.bools => stated.custody = "non_custodial"
  BY <1>3, <1>4, <1>6 DEF EnvelopeCheck, ClaimPasses
<1>9. "--require-history" \in args.bools => stated.totalDecisions > 0
  BY <1>3, <1>4, <1>6 DEF EnvelopeCheck, ClaimPasses
<1>10. ASSUME NEW grade \in args.flags["--min-grade"], NEW red \in stated.redTeam
       PROVE  GradeRank[red.grade] >= GradeRank[grade]
  <2>1. "redTeamGrade" \in run \ EnvelopeCheck
    BY <1>3, <1>4 DEF EnvelopeCheck
  <2>2. ClaimPasses("redTeamGrade", stated, policy)
    BY <2>1, <1>6
  <2>3. \A r \in stated.redTeam, min \in policy.minRedTeamGrade :
          GradeRank[r.grade] >= GradeRank[min]
    BY <2>2 DEF ClaimPasses
  <2>4. QED
    BY <2>3, <1>3
<1>11. QED
  BY <1>3, <1>5, <1>7, <1>8, <1>9, <1>10 DEF at

(* What an ended run shows of the line it was. *)
Cleared(r, s) ==
  LET args == ParseArgs(Tail(r.line)) IN
  /\ s.disclosure.issuedAt \in Nat
  /\ Verdict(s, args) = 0
  /\ args.want = ""
  /\ Head(r.line) = "verify-url" => s = r.host
  /\ Head(r.line) = "verify-file" =>
       /\ args.positionals # <<>> /\ args.positionals[1] \in Path
       /\ r.files[args.positionals[1]].kind = "signed"
       /\ s = r.files[args.positionals[1]].envelope

Dated(content) ==
  /\ content.kind = "document" => content.document.issuedAt \in Nat
  /\ content.kind = "signed" => content.envelope.disclosure.issuedAt \in Nat

CliInv ==
  /\ DOMAIN files = Path /\ \A p \in Path : Dated(files[p])
  /\ host \in Hosted
  /\ \A r \in ran :
       /\ r.line \in CommandLine
       /\ r.code = 0 /\ Head(r.line) \in {"verify-file", "verify-url"} => \E s : Cleared(r, s)

(* A flag that is said is in the parse, or the run cannot have ended in 0. *)
LEMMA SaidIsToggled ==
  ASSUME CliInv, NEW r \in ran, NEW s, Cleared(r, s),
         Head(r.line) \in {"verify-file", "verify-url"},
         NEW flag \in {"--require-enforced", "--non-custodial", "--require-history"},
         SaidFlag(r.line, flag)
  PROVE  flag \in ParseArgs(Tail(r.line)).bools
<1> DEFINE line == r.line
           args == ParseArgs(Tail(line))
           T == Taken(line)
<1>1. line \in Seq(STRING) \ {<<>>}
  BY CliAssumption DEF CliInv
<1>2. line[1] \notin ValueFlags /\ line[1] # flag
  BY <1>1 DEF ValueFlags
<1>3. ReadUpTo(args, line, Len(line))
  BY <1>1, <1>2, AllRead
<1>4. PICK i \in DOMAIN line :
        line[i] = flag /\ (T[i] => line[i - 1] \in PolicyValue /\ LastValue(line, i))
  BY DEF SaidFlag
<1>5. i \in 2..Len(line)
  BY <1>1, <1>2, <1>4
<1>6. CASE ~T[i]
  BY <1>3, <1>4, <1>5, <1>6, ValueFlagsAreFlags DEF ReadUpTo, ToggledUpTo
<1>7. CASE T[i]
  <2>1. args.flags[line[i - 1]] = {flag}
    BY <1>3, <1>4, <1>5, <1>7 DEF ReadUpTo, ValuesUpTo, LastValue, StandsAt
  <2>2. Verdict(s, args) = 0 /\ s.disclosure.issuedAt \in Nat
    BY DEF Cleared
  <2>3. args.flags["--min-grade"] \subseteq Grades /\ IsFresh(s.disclosure, NowOf(args))
    BY <2>2, ClearedPasses
  <2>4. CASE line[i - 1] = "--min-grade"
    BY <2>1, <2>3, <2>4 DEF Grades
  <2>5. CASE line[i - 1] = "--now"
    <3>1. flag \notin DOMAIN TokenTime
      BY CliAssumption, ValueFlagsAreFlags
    <3>2. args.flags["--now"] = {flag}
      BY <2>1, <2>5
    <3>3. NowOf(args) = -1
      BY <3>1, <3>2 DEF NowOf
    <3>4. QED
      BY <2>2, <2>3, <3>3 DEF IsFresh
  <2>6. QED
    BY <1>4, <1>7, <2>4, <2>5 DEF PolicyValue
<1>8. QED
  BY <1>6, <1>7

LEMMA SaidGradeIsRead ==
  ASSUME CliInv, NEW r \in ran, NEW s, Cleared(r, s),
         Head(r.line) \in {"verify-file", "verify-url"}
  PROVE  /\ \A grade \in SaidGrade(r.line) : grade \in ParseArgs(Tail(r.line)).flags["--min-grade"]
         /\ SaidFlag(r.line, "--min-grade") => SaidGrade(r.line) # {}
<1> DEFINE line == r.line
           args == ParseArgs(Tail(line))
           T == Taken(line)
           grade == "--min-grade"
<1>1. line \in Seq(STRING) \ {<<>>}
  BY CliAssumption DEF CliInv
<1>2. line[1] \notin ValueFlags /\ line[1] # grade
  BY <1>1 DEF ValueFlags
<1>3. ReadUpTo(args, line, Len(line))
  BY <1>1, <1>2, AllRead
<1>4. ASSUME NEW j \in 2..Len(line), line[j - 1] = grade, LastValue(line, j)
      PROVE  args.flags[grade] = {line[j]}
  BY <1>3, <1>4 DEF ReadUpTo, ValuesUpTo, LastValue, StandsAt
<1>5. \A g \in SaidGrade(line) : g \in args.flags[grade]
  BY <1>4 DEF SaidGrade
<1>6. ASSUME SaidFlag(line, grade) PROVE SaidGrade(line) # {}
  <2>1. PICK i \in DOMAIN line :
          line[i] = grade /\ (T[i] => line[i - 1] \in PolicyValue /\ LastValue(line, i))
    BY <1>6 DEF SaidFlag
  <2>2. i \in 2..Len(line)
    BY <1>1, <1>2, <2>1
  <2>3. CASE T[i]
    <3>1. args.flags[line[i - 1]] = {grade}
      BY <1>3, <2>1, <2>2, <2>3 DEF ReadUpTo, ValuesUpTo, LastValue, StandsAt
    <3>2. Verdict(s, args) = 0 /\ s.disclosure.issuedAt \in Nat
      BY DEF Cleared
    <3>3. args.flags["--min-grade"] \subseteq Grades /\ IsFresh(s.disclosure, NowOf(args))
      BY <3>2, ClearedPasses
    <3>4. CASE line[i - 1] = "--min-grade"
      BY <3>1, <3>3, <3>4 DEF Grades
    <3>5. CASE line[i - 1] = "--now"
      <4>1. grade \notin DOMAIN TokenTime
        BY CliAssumption, ValueFlagsAreFlags
      <4>2. NowOf(args) = -1
        BY <4>1, <3>1, <3>5 DEF NowOf
      <4>3. QED
        BY <3>2, <3>3, <4>2 DEF IsFresh
    <3>6. QED
      BY <2>1, <2>3, <3>4, <3>5 DEF PolicyValue
  <2>4. CASE ~T[i]
    <3>1. PICK j \in 2..Len(line) : /\ StandsAt(line, j, grade)
                                    /\ \A k \in (j + 1)..Len(line) : ~StandsAt(line, k, grade)
      BY <1>3, <2>1, <2>2, <2>4 DEF ReadUpTo, LastStatedUpTo, StandsAt
    <3>2. j # Len(line)
      <4>1. args.want = ""
        BY DEF Cleared
      <4>2. j = Len(line) => args.want = grade
        BY <1>3, <3>1, ValueFlagsAreFlags DEF ReadUpTo, WantIs, StandsAt
      <4>3. QED
        BY <4>1, <4>2
    <3>3. j + 1 \in 2..Len(line) /\ (j + 1) - 1 = j /\ j \in 1..(Len(line) - 1)
      BY <3>2, <1>1
    <3>4. T[j + 1]
      <4>1. T[j + 1] <=> line[j] \in ValueFlags /\ ~T[j]
        BY <3>3, <1>1, TakenIs
      <4>2. QED
        BY <4>1, <3>1, ValueFlagsAreFlags DEF StandsAt
    <3>5. \A k \in ((j + 1) + 1)..Len(line) : k \in (j + 1)..Len(line)
      BY <3>3
    <3>6. LastValue(line, j + 1)
      BY <3>1, <3>3, <3>4, <3>5 DEF LastValue, StandsAt
    <3>7. line[j + 1] \in SaidGrade(line)
      BY <3>1, <3>3, <3>6 DEF SaidGrade, StandsAt
    <3>8. QED
      BY <3>7
  <2>5. QED
    BY <2>3, <2>4
<1>7. QED
  BY <1>5, <1>6

LEMMA ClearedIsTheNamed ==
  ASSUME CliInv, NEW r \in ran, NEW s, Cleared(r, s),
         Head(r.line) \in {"verify-file", "verify-url"}
  PROVE  s \in Verified(r)
<1> DEFINE line == r.line
           args == ParseArgs(Tail(line))
<1>1. line \in Seq(STRING) \ {<<>>}
  BY CliAssumption DEF CliInv
<1>2. CASE Head(line) = "verify-url"
  BY <1>2 DEF Cleared, Verified
<1>3. CASE Head(line) = "verify-file"
  <2>1. line[1] \notin ValueFlags
    BY <1>1, <1>3 DEF ValueFlags
  <2>2. ReadUpTo(args, line, Len(line))
    BY <1>1, <2>1, AllRead
  <2>3. /\ args.positionals # <<>> /\ args.positionals[1] \in Path
        /\ r.files[args.positionals[1]].kind = "signed"
        /\ s = r.files[args.positionals[1]].envelope
    BY <1>3 DEF Cleared
  <2>4. PICK i \in 2..Len(line) : /\ Operand(line, i) /\ line[i] = args.positionals[1]
                                  /\ \A k \in 2..(i - 1) : ~Operand(line, k)
    BY <2>2, <2>3 DEF ReadUpTo, FirstOperandUpTo
  <2>5. i \in DOMAIN line
    BY <1>1
  <2>6. Head(line) # "verify-url"
    BY <1>3
  <2>7. QED
    BY <2>3, <2>4, <2>5, <2>6 DEF Verified
<1>4. QED
  BY <1>2, <1>3

LEMMA ClearedAsAsked == CliInv => FlagsAreAsked
<1> SUFFICES ASSUME CliInv, NEW r \in ran, r.code = 0,
                    Head(r.line) \in {"verify-file", "verify-url"}
             PROVE  \E s \in Verified(r) :
                      LET stated == s.disclosure.claims IN
                      /\ VerifyAnyDisclosureSignature(s)
                      /\ SaidFlag(r.line, "--require-enforced") => stated.enforced
                      /\ SaidFlag(r.line, "--non-custodial") => stated.custody = "non_custodial"
                      /\ SaidFlag(r.line, "--require-history") => stated.totalDecisions > 0
                      /\ SaidFlag(r.line, "--min-grade") => SaidGrade(r.line) # {}
                      /\ \A grade \in SaidGrade(r.line) :
                           /\ grade \in Grades
                           /\ \A red \in stated.redTeam : GradeRank[red.grade] >= GradeRank[grade]
  BY DEF FlagsAreAsked
<1>1. PICK s : Cleared(r, s)
  BY DEF CliInv
<1> DEFINE args == ParseArgs(Tail(r.line))
           stated == s.disclosure.claims
<1>2. Verdict(s, args) = 0
  BY <1>1 DEF Cleared
<1> HIDE DEF args
<1>3. /\ args.flags["--min-grade"] \subseteq Grades
      /\ VerifyAnyDisclosureSignature(s)
      /\ "--require-enforced" \in args.bools => stated.enforced
      /\ "--non-custodial" \in args.bools => stated.custody = "non_custodial"
      /\ "--require-history" \in args.bools => stated.totalDecisions > 0
      /\ \A grade \in args.flags["--min-grade"], red \in stated.redTeam :
           GradeRank[red.grade] >= GradeRank[grade]
  BY <1>2, ClearedPasses
<1>4. \A flag \in {"--require-enforced", "--non-custodial", "--require-history"} :
        SaidFlag(r.line, flag) => flag \in args.bools
  BY <1>1, SaidIsToggled DEF args
<1>5. /\ \A grade \in SaidGrade(r.line) : grade \in args.flags["--min-grade"]
      /\ SaidFlag(r.line, "--min-grade") => SaidGrade(r.line) # {}
  BY <1>1, SaidGradeIsRead DEF args
<1>6. s \in Verified(r)
  BY <1>1, ClearedIsTheNamed
<1>7. QED
  BY <1>3, <1>4, <1>5, <1>6

LEMMA CliInitSound == CliInit => CliInv
BY CliAssumption DEF CliInit, CliInv, Dated

LEMMA NextFilesDated ==
  ASSUME CliInv, NEW S, NEW content, Dated(content),
         files' = [p \in Path |-> IF p \in S THEN content ELSE files[p]]
  PROVE  DOMAIN files' = Path /\ \A p \in Path : Dated(files'[p])
BY DEF CliInv

LEMMA RunStep ==
  ASSUME CliInv, NEW line \in CommandLine, RunCli(line)
  PROVE  CliInv'
<1> DEFINE args == ParseArgs(Tail(line))
           verifies == Head(line) \in {"verify-file", "verify-url"}
           record(code) == [line |-> line, code |-> code, files |-> files, host |-> host]
<1>1. UNCHANGED host
  BY DEF RunCli
<1>2. ASSUME NEW code, Exit(line, code),
             DOMAIN files' = Path /\ \A p \in Path : Dated(files'[p]),
             code = 0 /\ verifies => \E s : Cleared(record(code), s)
      PROVE  CliInv'
  <2>1. ran' = {record(code)}
    BY <1>2 DEF Exit
  <2>2. record(code).line = line /\ record(code).code = code
    OBVIOUS
  <2> HIDE DEF record
  <2>3. \A r, s : Cleared(r, s) => Cleared(r, s)'
    BY DEF Cleared, Verdict
  <2>4. ASSUME NEW r \in ran'
        PROVE  /\ r.line \in CommandLine
               /\ r.code = 0 /\ Head(r.line) \in {"verify-file", "verify-url"}
                    => \E s : Cleared(r, s)'
    <3>1. r = record(code)
      BY <2>1, <2>4
    <3>2. r.line = line /\ r.code = code
      BY <3>1, <2>2
    <3>3. QED
      BY <3>1, <3>2, <1>2, <2>3
  <2>5. host' \in Hosted
    BY <1>1 DEF CliInv
  <2>6. DOMAIN files' = Path /\ \A p \in Path : Dated(files'[p])
    BY <1>2
  <2>7. \A p \in Path : Dated(files'[p]) = Dated(files[p])'
    BY DEF Dated
  <2> HIDE DEF args, verifies
  <2>8. QED
    BY <2>4, <2>5, <2>6, <2>7 DEF CliInv
<1>3. UNCHANGED files => DOMAIN files' = Path /\ \A p \in Path : Dated(files'[p])
  BY DEF CliInv
<1>4. ASSUME UNCHANGED files, NEW code \in {1, 2}, Exit(line, code)
      PROVE  CliInv'
  <2>1. DOMAIN files' = Path /\ \A p \in Path : Dated(files'[p])
    BY <1>3, <1>4
  <2>2. code # 0
    BY <1>4
  <2> HIDE DEF record
  <2>3. QED
    BY <2>1, <2>2, <1>2, <1>4
<1>5. CASE args.want # ""
  BY <1>5, <1>4 DEF RunCli
<1>6. CASE args.want = "" /\ Head(line) = "keygen" /\ Keygen(line, args)
  <2>1. PICK key \in CliKey :
          /\ files' = [p \in Path |-> IF p \in args.flags["--out"]
                                      THEN [kind |-> "keyJson", key |-> key] ELSE files[p]]
          /\ Exit(line, 0)
    BY <1>6 DEF Keygen
  <2>2. Dated([kind |-> "keyJson", key |-> key])
    BY DEF Dated
  <2>3. DOMAIN files' = Path /\ \A p \in Path : Dated(files'[p])
    BY <2>1, <2>2, NextFilesDated
  <2>4. ~verifies
    BY <1>6
  <2>5. QED
    BY <2>1, <2>3, <2>4, <1>2
<1>7. CASE args.want = "" /\ Head(line) = "sign" /\ Sign(line, args)
  <2>1. ~verifies
    BY <1>7
  <2>2. CASE UNCHANGED files /\ \E code \in {1, 2} : Exit(line, code)
    BY <2>2, <1>4
  <2>3. ASSUME NEW in \in args.flags["--in"], in \in Path, files[in].kind = "document",
               NEW key,
               files' = [p \in Path |->
                 IF p \in args.flags["--out"]
                 THEN [kind |-> "signed",
                       envelope |-> SignDisclosure("v1", files[in].document, key, <<>>)]
                 ELSE files[p]],
               Exit(line, 0)
        PROVE  CliInv'
    <3>1. files[in].document.issuedAt \in Nat
      BY <2>3 DEF CliInv, Dated
    <3>2. Dated([kind |-> "signed",
                 envelope |-> SignDisclosure("v1", files[in].document, key, <<>>)])
      BY <3>1 DEF Dated, SignDisclosure
    <3>3. DOMAIN files' = Path /\ \A p \in Path : Dated(files'[p])
      BY <2>3, <3>2, NextFilesDated
    <3>4. QED
      BY <2>1, <2>3, <3>3, <1>2
  <2>4. QED
    BY <1>7, <2>2, <2>3 DEF Sign
<1>8. CASE args.want = "" /\ Head(line) = "verify-file" /\ VerifyFile(line, args)
  <2> DEFINE p == args.positionals[1]
  <2>1. UNCHANGED files
    BY <1>8 DEF VerifyFile
  <2>2. CASE \E code \in {1, 2} : Exit(line, code)
    BY <2>1, <2>2, <1>4
  <2>3. CASE /\ args.positionals # <<>> /\ p \in Path /\ files[p].kind = "signed"
             /\ Exit(line, Verdict(files[p].envelope, args))
    <3>1. files[p].envelope.disclosure.issuedAt \in Nat
      BY <2>3 DEF CliInv, Dated
    <3> PICK code : code = Verdict(files[p].envelope, args)
      OBVIOUS
    <3>2. code = 0 => Cleared(record(0), files[p].envelope)
      BY <1>8, <2>3, <3>1 DEF Cleared
    <3>3. Exit(line, code)
      BY <2>3
    <3> HIDE DEF record
    <3>4. code = 0 => \E s : Cleared(record(code), s)
      BY <3>2
    <3>5. DOMAIN files' = Path /\ \A q \in Path : Dated(files'[q])
      BY <2>1, <1>3
    <3> HIDE DEF args, verifies
    <3>6. QED
      BY <3>3, <3>4, <3>5, <1>2
  <2>4. QED
    BY <1>8, <2>2, <2>3 DEF VerifyFile
<1>9. CASE args.want = "" /\ Head(line) = "verify-url" /\ VerifyUrl(line, args)
  <2>1. UNCHANGED files
    BY <1>9 DEF VerifyUrl
  <2>2. CASE \E code \in {1, 2} : Exit(line, code)
    BY <2>1, <2>2, <1>4
  <2>3. CASE Exit(line, Verdict(host, args))
    <3>1. host.disclosure.issuedAt \in Nat
      BY CliAssumption DEF CliInv
    <3> PICK code : code = Verdict(host, args)
      OBVIOUS
    <3>2. code = 0 => Cleared(record(0), host)
      BY <1>9, <3>1 DEF Cleared
    <3>3. Exit(line, code)
      BY <2>3
    <3> HIDE DEF record
    <3>4. code = 0 => \E s : Cleared(record(code), s)
      BY <3>2
    <3>5. DOMAIN files' = Path /\ \A q \in Path : Dated(files'[q])
      BY <2>1, <1>3
    <3> HIDE DEF args, verifies
    <3>6. QED
      BY <3>3, <3>4, <3>5, <1>2
  <2>4. QED
    BY <1>9, <2>2, <2>3 DEF VerifyUrl
<1>10. QED
  BY <1>5, <1>6, <1>7, <1>8, <1>9 DEF RunCli

LEMMA CliStepSound == CliInv /\ (CliNext \/ UNCHANGED cli) => CliInv'
<1> SUFFICES ASSUME CliInv, CliNext \/ UNCHANGED cli PROVE CliInv'
  OBVIOUS
<1>1. CASE Prompt
  BY <1>1 DEF Prompt, CliInv
<1>2. CASE Edit
  <2>1. PICK p \in Path : \E content \in Edits[p] : files' = [files EXCEPT ![p] = content]
    BY <1>2 DEF Edit
  <2> PICK content \in Edits[p] : files' = [files EXCEPT ![p] = content]
    BY <2>1
  <2>2. Dated(content)
    BY CliAssumption DEF Dated
  <2>3. QED
    BY <1>2, <2>1, <2>2 DEF Edit, CliInv
<1>3. CASE HostChanges
  BY <1>3 DEF HostChanges, CliInv
<1>4. CASE UNCHANGED cli
  BY <1>4 DEF cli, CliInv, Cleared, Verdict
<1>5. CASE \E line \in CommandLine : RunCli(line)
  BY <1>5, RunStep
<1>6. QED
  BY <1>1, <1>2, <1>3, <1>4, <1>5 DEF CliNext

(* Exit code 0 of verify-file and verify-url: the document named passes every   *)
(* policy flag the line says - for every command line, whatever files and host    *)
(* hold, and every order of commands and edits.                                   *)
THEOREM FlagsReachThePolicy == DocumentsSpec => []FlagsAreAsked
<1>1. DocumentsInit => CliInv
  BY CliInitSound DEF DocumentsInit
<1>2. CliInv /\ [DocumentsNext]_<<duty, Parts>> => CliInv'
  BY CliStepSound DEF DocumentsNext, Parts, cli
<1>3. CliInv => FlagsAreAsked
  BY ClearedAsAsked
<1>4. QED
  BY <1>1, <1>2, <1>3, PTL DEF DocumentsSpec
=============================================================================
