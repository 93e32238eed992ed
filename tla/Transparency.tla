---------------------------- MODULE Transparency ----------------------------
(***************************************************************************)
(* An operator's transparency logs, the agents that submit disclosures to   *)
(* them over HTTP, the verifiers that fetch proofs, and a witness.          *)
(*                                                                          *)
(* A log lives in the memory of the process that serves it and nothing       *)
(* persists it.  An operator may run several, one per view it presents.      *)
(* entries() hands out the array itself, so an entry can be edited in place. *)
(***************************************************************************)
EXTENDS TransparencyLog, FiniteSets

CONSTANTS
  Disclosure,   \* disclosures to log
  Forgery,      \* what the fields of a disclosure may be edited to
  View,         \* logs of the operator
  Edited,       \* the views of which some caller edits the entries
  Subject,      \* agentIds the witness watches the operator's log for
  MaxCalls,     \* bounds of the model: on the calls of submitToLog,
  MaxFaults     \* and on the edits and restarts of each log

ASSUME TransparencyAssumption ==
  /\ Edited \subseteq View /\ MaxCalls \in Nat /\ MaxFaults \in Nat
  /\ \A d, e \in Disclosure : d.digest = e.digest => d = e   \* the digest is a hash

VARIABLES
  log,        \* log[v]: the entries of v
  posts,      \* submissions in flight
  replies,    \* entries on their way back to a submitter
  calls,      \* calls of submitToLog so far, named by their number
  waiting,    \* waiting[d]: {} or the pending call that submits d
  receipts,   \* receipts[d]: {} or the reply submitToLog returned
  proofs,     \* proofs[d]: {} or the entry a verifier last got for d's digest
  pin,        \* pin[a]: {} or {[head, size]}, the witness's memory
  shown,      \* history: the log behind pin[a]
  faults      \* faults[v]: edits and restarts of v

server == <<log, faults>>
submitter == <<posts, replies, calls, waiting, receipts>>
witness == <<pin, shown>>
vars == <<server, submitter, proofs, witness>>

Init ==
  /\ log = [v \in View |-> <<>>]
  /\ posts = {} /\ replies = {}
  /\ proofs = [d \in Disclosure |-> {}]
  /\ calls = 0
  /\ waiting = [d \in Disclosure |-> {}]
  /\ receipts = [d \in Disclosure |-> {}]
  /\ pin = [a \in Subject |-> {}]
  /\ shown = [a \in Subject |-> <<>>]
  /\ faults = [v \in View |-> 0]

---------------------------------------------------------------------------
(* submitToLog: a submitter that saw its call throw may call again. *)
SubmitToLog(d) ==
  /\ waiting[d] = {} /\ receipts[d] = {} /\ calls < MaxCalls
  /\ calls' = calls + 1
  /\ posts' = posts \cup {[call |-> calls', of |-> d]}
  /\ waiting' = [waiting EXCEPT ![d] = {calls'}]
  /\ UNCHANGED <<server, replies, receipts, proofs, witness>>

(* The endpoint appends what it is sent, late and repeated submissions too;   *)
(* its reply finds nobody when the call has thrown.                           *)
ServeSubmit(v) ==
  /\ \E p \in posts :
       LET longer == AppendToLog(log[v], p.of)
           entry == longer[Len(longer)]
       IN  /\ posts' = posts \ {p}
           /\ log' = [log EXCEPT ![v] = longer]
           /\ replies' = replies \cup
                {[call |-> c, view |-> v, at |-> faults[v], entry |-> entry] :
                   c \in {p.call} \cap waiting[p.of]}
  /\ UNCHANGED <<faults, calls, waiting, receipts, proofs, witness>>

SubmitReturns(d) ==
  /\ \E r \in replies :
       /\ r.call \in waiting[d]
       /\ receipts' = [receipts EXCEPT ![d] = {r}]
       /\ replies' = replies \ {r}
  /\ waiting' = [waiting EXCEPT ![d] = {}]
  /\ UNCHANGED <<server, posts, calls, proofs, witness>>

(* The request or its reply is lost, the reply is not ok or not JSON. *)
SubmitThrows(d) ==
  /\ waiting[d] # {}
  /\ waiting' = [waiting EXCEPT ![d] = {}]
  /\ replies' = {r \in replies : r.call \notin waiting[d]}
  /\ UNCHANGED <<server, posts, calls, receipts, proofs, witness>>

(* The endpoint answers with the first entry of that digest; null on a miss. *)
EntriesFor(v, d) ==
  {i \in 1..Len(log[v]) : log[v][i].content.disclosure.digest = d.digest}

FetchInclusionProof(d, v) ==
  /\ \E i \in EntriesFor(v, d) :
       /\ \A j \in EntriesFor(v, d) : i <= j
       /\ proofs' = [proofs EXCEPT ![d] = {log[v][i]}]
  /\ UNCHANGED <<server, submitter, witness>>

---------------------------------------------------------------------------
(* The process that holds the log restarts; an entry is edited in place. *)
Fault(v) ==
  /\ faults[v] < MaxFaults
  /\ faults' = [faults EXCEPT ![v] = @ + 1]
  /\ UNCHANGED <<submitter, proofs, witness>>

Restart(v) ==
  /\ log[v] # <<>>
  /\ log' = [log EXCEPT ![v] = <<>>]
  /\ Fault(v)

(* entries() is the live array: a caller may change any field of an entry, and *)
(* leave its hash or compute it anew, as anybody can.                          *)
EditedTexts(content) ==
  LET hashes == {Genesis} \cup UNION {{log[v][i].hash : i \in 1..Len(log[v])} : v \in View}
  IN  {[content EXCEPT !.index = n] : n \in 0..MaxCalls}
        \cup {[content EXCEPT !.disclosure = f] : f \in Forgery}
        \cup {[content EXCEPT !.prevHash = h] : h \in hashes}

EditedEntries(entry) ==
  {[content |-> c, hash |-> entry.hash] : c \in EditedTexts(entry.content)}
    \cup {[content |-> c, hash |-> c] : c \in EditedTexts(entry.content)}

EditEntry(v) ==
  /\ v \in Edited
  /\ \E i \in 1..Len(log[v]) : \E e \in EditedEntries(log[v][i]) :
       log' = [log EXCEPT ![v] = [log[v] EXCEPT ![i] = e]]
  /\ Fault(v)

(* checkAppendOnly, then observe if it is ok, with no await between. *)
CheckAndObserve(a, v) ==
  /\ CheckAppendOnly(pin[a], log[v])
  /\ pin' = [pin EXCEPT ![a] = {[head |-> LogHead(log[v]), size |-> Len(log[v])]}]
  /\ shown' = [shown EXCEPT ![a] = log[v]]
  /\ UNCHANGED <<server, submitter, proofs>>

Next ==
  \/ \E d \in Disclosure : SubmitToLog(d) \/ SubmitReturns(d) \/ SubmitThrows(d)
  \/ \E d \in Disclosure, v \in View : FetchInclusionProof(d, v)
  \/ \E v \in View : ServeSubmit(v) \/ Restart(v) \/ EditEntry(v)
  \/ \E a \in Subject, v \in View : CheckAndObserve(a, v)

Spec == Init /\ [][Next]_vars

---------------------------------------------------------------------------
IsPrefixOf(s, t) == Len(s) <= Len(t) /\ SubSeq(t, 1, Len(s)) = s

(* However logs are restarted, regrown, edited and swapped for one another,   *)
(* of two logs that verify() the witness accepts the later only if it extends *)
(* the earlier: no entry it pinned is ever gone or different                  *)
(* (witness.ts:87-104, transparency.ts:65-74).                                *)
WitnessedHistoryExtends ==
  [][\A a \in Subject :
       pin'[a] # pin[a] /\ VerifyLog(shown[a]) /\ VerifyLog(shown'[a])
         => IsPrefixOf(shown[a], shown'[a])]_vars

(* The witness raises no false alarm: a log that verifies and extends what it *)
(* last saw passes, the unchanged log included.                               *)
HonestGrowthAccepted ==
  \A a \in Subject, v \in View :
    VerifyLog(log[v]) /\ IsPrefixOf(shown[a], log[v]) => CheckAppendOnly(pin[a], log[v])

(* A receipt stays good: the entry that submitToLog returned is at its index  *)
(* for as long as the log was neither restarted nor edited, with retries and  *)
(* late submissions of the same disclosure appended around it.                *)
ReceiptHolds ==
  \A d \in Disclosure : \A r \in receipts[d] :
    faults[r.view] = r.at =>
      /\ r.entry.content.disclosure = d
      /\ r.entry.content.index < Len(log[r.view])
      /\ log[r.view][r.entry.content.index + 1] = r.entry

(* The standalone check does not show that an entry is in the live chain, "that *)
(* needs the head + the link to prevHash, which a witness network would anchor" *)
(* (transparencyTransport.ts:46-49); with them it does: of the entries that pass *)
(* it, the one at a pinned head and the one it links to are the last two the     *)
(* witness was shown, though logs were edited, their hashes computed anew, and   *)
(* restarted before or since.                                                    *)
Accepted == {p \in UNION {proofs[d] : d \in Disclosure} : VerifyInclusionProof(p)}

AnchoredProofWasWitnessed ==
  \A a \in Subject : \A h \in pin[a] : \A p \in Accepted :
    VerifyLog(shown[a]) /\ p.hash = h.head =>
      /\ h.size # 0 /\ p = shown[a][h.size]
      /\ \A q \in Accepted :
           q.hash = p.content.prevHash => h.size # 1 /\ q = shown[a][h.size - 1]

(* "Any entry that differs at an index the witness has already pinned is a    *)
(* history-rewrite alarm" (witness.ts:5-6): such a log does not pass.         *)
RewriteIsAlarmed ==
  \A a \in Subject, v \in View :
    (\E i \in 1..Len(shown[a]) : i <= Len(log[v]) /\ log[v][i] # shown[a][i])
      => ~CheckAppendOnly(pin[a], log[v])
=============================================================================
