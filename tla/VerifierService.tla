--------------------------- MODULE VerifierService ---------------------------
(***************************************************************************)
(* The front ends of the verifier that run beside its callers: the HTTP      *)
(* service (verifierService.ts), whose handler runs in an event callback,    *)
(* and discovery (discovery.ts), which resolves an agentId through a         *)
(* directory before it verifies what is served there.                        *)
(***************************************************************************)
EXTENDS Policy

CONSTANTS
  Request,        \* POST /verify requests
  Posted,         \* what they post: an envelope, or text that is none
  ServicePolicy,  \* policyBase
  MaxCanonicalizeDepth, \* MAX_CANONICALIZE_DEPTH, 256 in the code
  Search,         \* calls of discoverAndVerify
  Url,            \* base URLs
  Served,         \* the envelopes a host may serve
  MaxServiceTime, \* bound of the model on the clock
  MaxMoves        \* bound of the model on changes of the directory and the hosts

VARIABLES
  up,          \* the service's process runs
  startedAt,   \* the clock when it was created
  clock,
  request,     \* request[r]: "none", what it sent so far, its answer, or "lost"
  directory,   \* agentId -> base URL
  served,      \* served[u]: what the host at u serves
  moves,       \* changes of the two so far
  search,      \* search[c]: [want, at, verdict] of the call
  seen         \* history: seen[c]: what its URL served while it ran

service == <<up, startedAt, clock, request, directory, served, moves, search, seen>>

---------------------------------------------------------------------------
(* The service. *)

Answered(status, decision, posted, at) ==
  [state |-> "answered", status |-> status, decision |-> decision, posted |-> posted, at |-> at]

ServiceDecision(posted, now) ==
  IF EvaluateDisclosure(posted.signed, ServicePolicy, now, {}) = {} THEN "transact" ELSE "refuse"

(* A slip: only what parses is answered. *)
HandleParsed(posted, now) ==
  IF posted.json /\ posted.envelope /\ posted.payload /\ posted.depth <= MaxCanonicalizeDepth
  THEN {Answered(200, ServiceDecision(posted, now), posted, now)} ELSE {}

(* What is thrown out of evaluateDisclosure: the payload of a JWS is decoded outside *)
(* any try, and so is a v1 document written canonically for its signature check,      *)
(* which refuses to go deeper than its limit.  No schema bounds the depth of an        *)
(* extension.                                                                          *)
EvaluationThrows(posted) ==
  IF posted.signed.form = "jws" THEN ~posted.payload
  ELSE ServicePolicy.requireValidSignature /\ posted.depth > MaxCanonicalizeDepth

(* Malformed JSON is a 400, what is no envelope a refuse; {} is a throw. *)
HandleVerify(posted, now) ==
  IF ~posted.json THEN {Answered(400, "none", posted, now)}
  ELSE IF ~posted.envelope THEN {Answered(200, "refuse", posted, now)}
  ELSE IF EvaluationThrows(posted) THEN {}
  ELSE {Answered(200, ServiceDecision(posted, now), posted, now)}

(* A slip: the clock is read when the service starts. *)
ClockAtStart == startedAt

ServiceClock == clock

CreateVerifierService ==
  /\ ~up
  /\ up' = TRUE /\ startedAt' = clock
  /\ UNCHANGED <<clock, request, directory, served, moves, search, seen>>

(* The body arrives in chunks; the answer waits for its end. *)
Post(r) ==
  /\ up /\ request[r].state = "none"
  /\ \E p \in Posted : request' = [request EXCEPT ![r] = [state |-> "sent", posted |-> p]]
  /\ UNCHANGED <<up, startedAt, clock, directory, served, moves, search, seen>>

End(r) ==
  /\ up /\ request[r].state = "sent"
  /\ HandleVerify(request[r].posted, ServiceClock) # {}
  /\ \E a \in HandleVerify(request[r].posted, ServiceClock) :
       request' = [request EXCEPT ![r] = [a EXCEPT !.at = clock]]
  /\ UNCHANGED <<up, startedAt, clock, directory, served, moves, search, seen>>

(* What the callback throws ends the process, with every request in flight. *)
EndThrows(r) ==
  /\ up /\ request[r].state = "sent"
  /\ HandleVerify(request[r].posted, ServiceClock) = {}
  /\ up' = FALSE
  /\ request' = [q \in Request |->
       IF request[q].state = "sent"
       THEN [state |-> "lost", posted |-> request[q].posted, by |-> request[r].posted]
       ELSE request[q]]
  /\ UNCHANGED <<startedAt, clock, directory, served, moves, search, seen>>

ServiceTick ==
  /\ clock < MaxServiceTime
  /\ clock' = clock + 1
  /\ UNCHANGED <<up, startedAt, request, directory, served, moves, search, seen>>

---------------------------------------------------------------------------
(* Discovery. *)
Register(agentId, url) ==
  /\ moves < MaxMoves
  /\ moves' = moves + 1
  /\ directory' = [a \in DOMAIN directory \cup {agentId} |->
                     IF a = agentId THEN url ELSE directory[a]]
  /\ UNCHANGED <<up, startedAt, clock, request, served, search, seen>>

HostServes(u) ==
  /\ moves < MaxMoves
  /\ moves' = moves + 1
  /\ \E s \in Served : served' = [served EXCEPT ![u] = s]
  /\ seen' = [c \in Search |->
       IF search[c].state = "running" /\ search[c].at = u THEN seen[c] \cup {served'[u]}
       ELSE seen[c]]
  /\ UNCHANGED <<up, startedAt, clock, request, directory, search>>

DiscoverAndVerify(c, agentId) ==
  /\ search[c].state = "none"
  /\ IF agentId \in DOMAIN directory
     THEN /\ search' = [search EXCEPT ![c] =
                         [state |-> "running", want |-> agentId, at |-> directory[agentId]]]
          /\ seen' = [seen EXCEPT ![c] = {served[directory[agentId]]}]
     ELSE /\ search' = [search EXCEPT ![c] =
                         [state |-> "ended", want |-> agentId, at |-> "none", got |-> {},
                          decision |-> "refuse"]]
          /\ UNCHANGED seen
  /\ UNCHANGED <<up, startedAt, clock, request, directory, served, moves>>

(* A slip: the URL is looked up again for the fetch. *)
ServedNow(c) == served[directory[search[c].want]]

ServedAt(c) == served[search[c].at]

(* verifyCounterparty at that URL, without its handshake; the fetch may fail. *)
Fetched(c) ==
  /\ search[c].state = "running"
  /\ \/ LET s == ServedAt(c) IN
        search' = [search EXCEPT ![c] =
          [state |-> "ended", want |-> @.want, at |-> @.at, got |-> {s},
           decision |-> IF EvaluateDisclosure(s, ServicePolicy, clock, {}) = {}
                        THEN "transact" ELSE "refuse"]]
     \/ search' = [search EXCEPT ![c] =
          [state |-> "ended", want |-> @.want, at |-> @.at, got |-> {}, decision |-> "refuse"]]
  /\ UNCHANGED <<up, startedAt, clock, request, directory, served, moves, seen>>

---------------------------------------------------------------------------
ServiceInit ==
  /\ up = FALSE /\ startedAt = 0 /\ clock = 0 /\ moves = 0
  /\ request = [r \in Request |-> [state |-> "none"]]
  /\ directory = <<>>
  /\ served \in [Url -> Served]
  /\ search = [c \in Search |-> [state |-> "none"]]
  /\ seen = [c \in Search |-> {}]

AgentIds == {s.disclosure.agentId : s \in Served}

ServiceNext ==
  \/ CreateVerifierService
  \/ \E r \in Request : Post(r) \/ End(r) \/ EndThrows(r)
  \/ ServiceTick

DiscoveryNext ==
  \/ \E agentId \in AgentIds, u \in Url : Register(agentId, u)
  \/ \E u \in Url : HostServes(u)
  \/ \E c \in Search, agentId \in AgentIds : DiscoverAndVerify(c, agentId)
  \/ \E c \in Search : Fetched(c)
  \/ ServiceTick

---------------------------------------------------------------------------
(* A transact of the service holds at the moment it is sent, however long ago the *)
(* service was created or the request began (verifierService.ts:45, 69).           *)
ServedVerdictIsCurrent ==
  \A r \in Request : request[r].state = "answered" /\ request[r].decision = "transact" =>
    EvaluateDisclosure(request[r].posted.signed, ServicePolicy, request[r].at, {}) = {}

(* A request is lost, with the process, only to an envelope of the right shape: a  *)
(* JWS whose payload is no disclosure, or a v1 document nested past what            *)
(* canonicalize writes, under a policy that checks signatures.  No other body ends   *)
(* the process: not malformed JSON, not what is no envelope, not a deep document in   *)
(* a JWS, whose bytes are signed as they are (verifierService.ts:22-36, 68-71).       *)
OnlyTheUnreadableLosesRequests ==
  \A r \in Request : request[r].state = "lost" =>
    LET posted == request[r].by IN
    /\ posted.json /\ posted.envelope
    /\ posted.signed.form = "jws" => ~posted.payload
    /\ posted.signed.form # "jws" =>
         posted.depth > MaxCanonicalizeDepth /\ ServicePolicy.requireValidSignature

(* Discovery transacts with a host that cleared the policy with what it served at  *)
(* the URL the directory held when the call began, whatever is registered or        *)
(* served since; the agent there may be another than the one asked for             *)
(* (discovery.ts:68-85).                                                            *)
DiscoveredWhereRegistered ==
  \A c \in Search : search[c].state = "ended" /\ search[c].decision = "transact" =>
    search[c].got # {} /\ search[c].got \subseteq seen[c]
=============================================================================
