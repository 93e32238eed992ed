------------------------- MODULE TransparencyProofs -------------------------
(***************************************************************************)
(* Theorems about Transparency, for any disclosures, views, submissions,     *)
(* edits and restarts.  Until its log is restarted or edited, nothing moves   *)
(* an entry from its index.  A hash is of the whole entry and an entry names  *)
(* the hash before it, so a pinned head fixes every entry under it, and the   *)
(* entries that hash to it, whatever the log has become since.                *)
(***************************************************************************)
EXTENDS Transparency, NumberLemmas, SequenceTheorems

ContentFields == {"index", "disclosure", "prevHash"}

EntryHolds(e) ==
  /\ e = [content |-> e.content, hash |-> e.hash]
  /\ DOMAIN e.content = ContentFields

Shapes ==
  /\ log = [v \in View |-> log[v]]
  /\ \A v \in View : \E S : log[v] \in Seq(S)
  /\ waiting = [d \in Disclosure |-> waiting[d]]
  /\ receipts = [d \in Disclosure |-> receipts[d]]
  /\ proofs = [d \in Disclosure |-> proofs[d]]
  /\ faults \in [View -> Nat]
  /\ calls \in Nat

EntriesHold == \A v \in View : \A i \in 1..Len(log[v]) : EntryHolds(log[v][i])

ProofsHold == \A d \in Disclosure : \A p \in proofs[d] : EntryHolds(p)

(* A call is waited for by one submission; a number not yet given, by none. *)
CallsHold ==
  /\ \A d \in Disclosure : \A c \in waiting[d] : c \in 1..calls
  /\ \A d, e \in Disclosure : d # e => waiting[d] \cap waiting[e] = {}
  /\ \A p \in posts : p.call \in 1..calls /\ p.of \in Disclosure

(* The entry is at its index as long as its log has had no further fault. *)
Stands(r) ==
  /\ r.view \in View /\ r.at \in Nat /\ r.at <= faults[r.view]
  /\ faults[r.view] = r.at =>
       /\ r.entry.content.index \in Nat /\ r.entry.content.index < Len(log[r.view])
       /\ log[r.view][r.entry.content.index + 1] = r.entry

RepliesHold ==
  \A r \in replies :
    /\ r.call \in 1..calls /\ Stands(r)
    /\ \A d \in Disclosure : r.call \in waiting[d] => r.entry.content.disclosure = d

ReceiptsHold ==
  \A d \in Disclosure : \A r \in receipts[d] : r.entry.content.disclosure = d /\ Stands(r)

LogInv == Shapes /\ EntriesHold /\ ProofsHold
SubmitInv == CallsHold /\ RepliesHold /\ ReceiptsHold
TransparencyInv == LogInv /\ SubmitInv

---------------------------------------------------------------------------
(* Appending leaves every entry where it was and puts the new one at its index. *)
LEMMA AppendAtIndex ==
  ASSUME NEW S, NEW s \in Seq(S), NEW d
  PROVE  LET longer == AppendToLog(s, d)
             entry == LogEntry(Len(s), d, LogHead(s))
         IN  /\ \E T : longer \in Seq(T)
             /\ Len(s) \in Nat /\ Len(longer) = Len(s) + 1
             /\ \A i \in 1..Len(s) : longer[i] = s[i]
             /\ longer[Len(longer)] = entry
<1> DEFINE entry == LogEntry(Len(s), d, LogHead(s))
           T == S \cup {entry}
<1>1. s \in Seq(T) /\ entry \in T
  BY SeqMonotonic
<1> HIDE DEF entry, T
<1>2. /\ Append(s, entry) \in Seq(T) /\ Len(s) \in Nat
      /\ Len(Append(s, entry)) = Len(s) + 1
      /\ \A i \in 1..Len(s) : Append(s, entry)[i] = s[i]
      /\ Append(s, entry)[Len(s) + 1] = entry
  BY <1>1
<1>3. AppendToLog(s, d) = Append(s, entry)
  BY DEF AppendToLog, entry
<1>4. QED
  BY <1>2, <1>3 DEF entry

(* An edit may change what an entry says and its hash, not that it is an entry. *)
LEMMA EditKeepsShape ==
  ASSUME NEW old, EntryHolds(old), NEW e \in EditedEntries(old)
  PROVE  EntryHolds(e)
<1>1. PICK c \in EditedTexts(old.content) :
        e = [content |-> c, hash |-> old.hash] \/ e = [content |-> c, hash |-> c]
  BY DEF EditedEntries
<1>2. DOMAIN c = DOMAIN old.content
  BY DEF EditedTexts
<1>3. QED
  BY <1>1, <1>2 DEF EntryHolds

---------------------------------------------------------------------------
(* What a served submission does. *)
Served(v, p, entry) ==
  /\ entry = LogEntry(Len(log[v]), p.of, LogHead(log[v]))
  /\ posts' = posts \ {p}
  /\ replies' = replies \cup
       {[call |-> c, view |-> v, at |-> faults[v], entry |-> entry] :
          c \in {p.call} \cap waiting[p.of]}
  /\ log' = [log EXCEPT ![v] = log'[v]] /\ \E S : log'[v] \in Seq(S)
  /\ Len(log[v]) \in Nat /\ Len(log'[v]) = Len(log[v]) + 1
  /\ \A i \in 1..Len(log[v]) : log'[v][i] = log[v][i]
  /\ log'[v][Len(log'[v])] = entry
  /\ UNCHANGED <<faults, calls, waiting, receipts, proofs>>

LEMMA ServeShape ==
  ASSUME TransparencyInv, NEW v \in View, ServeSubmit(v)
  PROVE  \E p \in posts : \E entry : Served(v, p, entry)
<1>1. PICK p \in posts :
        LET longer == AppendToLog(log[v], p.of)
            entry == longer[Len(longer)]
        IN  /\ posts' = posts \ {p}
            /\ log' = [log EXCEPT ![v] = longer]
            /\ replies' = replies \cup
                 {[call |-> c, view |-> v, at |-> faults[v], entry |-> entry] :
                    c \in {p.call} \cap waiting[p.of]}
  BY DEF ServeSubmit
<1> DEFINE longer == AppendToLog(log[v], p.of)
           entry == LogEntry(Len(log[v]), p.of, LogHead(log[v]))
<1>2. PICK S : log[v] \in Seq(S)
  BY DEF TransparencyInv, LogInv, Shapes
<1>3. /\ \E T : longer \in Seq(T)
      /\ Len(log[v]) \in Nat /\ Len(longer) = Len(log[v]) + 1
      /\ \A i \in 1..Len(log[v]) : longer[i] = log[v][i]
      /\ longer[Len(longer)] = entry
  BY <1>2, AppendAtIndex
<1>4. /\ posts' = posts \ {p}
      /\ replies' = replies \cup
           {[call |-> c, view |-> v, at |-> faults[v], entry |-> entry] :
              c \in {p.call} \cap waiting[p.of]}
  BY <1>1, <1>3
<1>5. log' = [log EXCEPT ![v] = longer] /\ log'[v] = longer
  BY <1>1 DEF TransparencyInv, LogInv, Shapes
<1>6. UNCHANGED <<faults, calls, waiting, receipts, proofs>>
  BY DEF ServeSubmit
<1> HIDE DEF longer, entry
<1>7. QED
  BY <1>3, <1>4, <1>5, <1>6 DEF Served, entry

LEMMA ServeKeeps ==
  ASSUME TransparencyInv, NEW v \in View, ServeSubmit(v)
  PROVE  TransparencyInv'
<1> USE DEF TransparencyInv, LogInv, SubmitInv
<1>0. PICK p \in posts : \E entry : Served(v, p, entry)
  BY ServeShape
<1>1. PICK entry : Served(v, p, entry)
  BY <1>0
<1> USE DEF Served
<1>2. \A w \in View \ {v} : log'[w] = log[w]
  BY <1>1 DEF Shapes
<1>3. /\ entry = [content |-> entry.content, hash |-> entry.hash]
      /\ entry.hash = entry.content /\ DOMAIN entry.content = ContentFields
      /\ entry.content.index = Len(log[v]) /\ entry.content.disclosure = p.of
  BY <1>1 DEF LogEntry, ContentFields
<1>4. p.of \in Disclosure
  BY DEF CallsHold
<1>5. Shapes'
  BY <1>1, <1>2 DEF Shapes
<1>6. EntriesHold'
  <2>1. \A i \in 1..Len(log'[v]) : i \in 1..Len(log[v]) \/ i = Len(log'[v])
    BY <1>1
  <2>2. EntryHolds(entry)
    BY <1>3 DEF EntryHolds
  <2>3. \A i \in 1..Len(log'[v]) : EntryHolds(log'[v][i])
    BY <1>1, <2>1, <2>2 DEF EntriesHold
  <2>4. QED
    BY <1>2, <2>3 DEF EntriesHold
<1>8. ProofsHold'
  BY <1>1 DEF ProofsHold
<1>9. CallsHold'
  BY <1>1 DEF CallsHold
<1>10. ASSUME NEW r, Stands(r)
       PROVE  Stands(r)'
  <2>1. CASE r.view = v
    <3>1. faults' = faults /\ r.view \in View /\ r.at \in Nat /\ r.at <= faults[r.view]
      BY <1>1, <1>10 DEF Stands
    <3>2. ASSUME faults[v] = r.at
          PROVE  /\ r.entry.content.index \in Nat /\ r.entry.content.index < Len(log'[v])
                 /\ log'[v][r.entry.content.index + 1] = r.entry
      <4>1. /\ r.entry.content.index \in Nat /\ r.entry.content.index < Len(log[v])
            /\ log[v][r.entry.content.index + 1] = r.entry
        BY <1>10, <2>1, <3>2 DEF Stands
      <4>2. r.entry.content.index + 1 \in 1..Len(log[v])
        BY <1>1, <4>1
      <4>3. QED
        BY <1>1, <4>1, <4>2
    <3>3. QED
      BY <2>1, <3>1, <3>2 DEF Stands
  <2>2. CASE r.view # v
    BY <1>1, <1>2, <1>10, <2>2 DEF Stands
  <2>3. QED
    BY <2>1, <2>2
<1>11. RepliesHold'
  <2>1. ASSUME NEW c \in {p.call} \cap waiting[p.of], NEW r,
               r = [call |-> c, view |-> v, at |-> faults[v], entry |-> entry]
        PROVE  /\ r.call \in 1..calls /\ Stands(r)'
               /\ \A d \in Disclosure : r.call \in waiting[d] => r.entry.content.disclosure = d
    <3>1. r.call = c /\ r.view = v /\ r.at = faults[v] /\ r.entry = entry
      BY <2>1
    <3>2. Stands(r)'
      BY <1>1, <1>3, <3>1 DEF Stands, Shapes
    <3>3. QED
      BY <1>3, <1>4, <3>1, <3>2 DEF CallsHold
  <2>2. \A r \in replies' :
          /\ r.call \in 1..calls /\ Stands(r)'
          /\ \A d \in Disclosure : r.call \in waiting[d] => r.entry.content.disclosure = d
    BY <1>1, <1>10, <2>1 DEF RepliesHold
  <2>3. QED
    BY <1>1, <2>2 DEF RepliesHold
<1>12. ReceiptsHold'
  BY <1>1, <1>10 DEF ReceiptsHold
<1>13. QED
  BY <1>5, <1>6, <1>8, <1>9, <1>11, <1>12

LEMMA FaultKeeps ==
  ASSUME TransparencyInv, NEW v \in View, Restart(v) \/ EditEntry(v)
  PROVE  TransparencyInv'
<1> USE DEF TransparencyInv, LogInv, SubmitInv
<1>1. UNCHANGED <<posts, replies, calls, waiting, receipts, proofs>>
  BY DEF Restart, EditEntry, Fault, submitter
<1>2. faults' = [faults EXCEPT ![v] = faults[v] + 1]
  BY DEF Restart, EditEntry, Fault
<1>3. /\ log' = [log EXCEPT ![v] = log'[v]]
      /\ \E S : log'[v] \in Seq(S)
      /\ \A i \in 1..Len(log'[v]) : EntryHolds(log'[v][i])
  <2>1. CASE Restart(v)
    <3>1. log' = [log EXCEPT ![v] = <<>>] /\ log'[v] = <<>>
      BY <2>1 DEF Restart, Shapes
    <3>2. log'[v] \in Seq({}) /\ Len(log'[v]) = 0
      BY <3>1, EmptySeq
    <3>3. \E S : log'[v] \in Seq(S)
      BY <3>2
    <3>4. 1..Len(log'[v]) = {}
      BY <3>2
    <3>5. log' = [log EXCEPT ![v] = log'[v]]
      BY <3>1
    <3>6. QED
      BY <3>3, <3>4, <3>5
  <2>2. CASE EditEntry(v)
    <3>1. PICK i \in 1..Len(log[v]) : \E e \in EditedEntries(log[v][i]) :
            log' = [log EXCEPT ![v] = [log[v] EXCEPT ![i] = e]]
      BY <2>2 DEF EditEntry
    <3>0. PICK e \in EditedEntries(log[v][i]) :
            log' = [log EXCEPT ![v] = [log[v] EXCEPT ![i] = e]]
      BY <3>1
    <3> DEFINE edited == [log[v] EXCEPT ![i] = e]
    <3>2. EntryHolds(e)
      BY EditKeepsShape DEF EntriesHold
    <3>3. PICK S : log[v] \in Seq(S)
      BY DEF Shapes
    <3>4. log[v] \in Seq(S \cup {e})
      BY <3>3, SeqMonotonic
    <3>5. /\ edited \in Seq(S \cup {e}) /\ Len(edited) = Len(log[v])
          /\ \A j \in 1..Len(log[v]) : edited[j] = IF j = i THEN e ELSE log[v][j]
      BY <3>4, ExceptSeq
    <3>6. log'[v] = edited
      BY <3>0 DEF Shapes
    <3>7. log' = [log EXCEPT ![v] = edited]
      BY <3>0
    <3> HIDE DEF edited
    <3>8. QED
      BY <3>2, <3>5, <3>6, <3>7 DEF EntriesHold
  <2>3. QED
    BY <2>1, <2>2
<1>4. \A w \in View \ {v} : log'[w] = log[w] /\ faults'[w] = faults[w]
  BY <1>2, <1>3 DEF Shapes
<1>5. faults'[v] = faults[v] + 1 /\ faults' \in [View -> Nat]
  BY <1>2 DEF Shapes
<1>6. Shapes'
  BY <1>1, <1>3, <1>4, <1>5 DEF Shapes
<1>7. EntriesHold'
  BY <1>1, <1>3, <1>4 DEF EntriesHold
<1>8. ProofsHold' /\ CallsHold'
  BY <1>1 DEF ProofsHold, CallsHold
<1>9. ASSUME NEW r, Stands(r)
      PROVE  Stands(r)'
  <2>1. CASE r.view = v
    BY <1>5, <1>9, <2>1 DEF Stands, Shapes
  <2>2. CASE r.view # v
    BY <1>4, <1>9, <2>2 DEF Stands
  <2>3. QED
    BY <2>1, <2>2
<1>10. RepliesHold' /\ ReceiptsHold'
  BY <1>1, <1>9 DEF RepliesHold, ReceiptsHold
<1>11. QED
  BY <1>6, <1>7, <1>8, <1>10

LEMMA SubmitKeeps ==
  ASSUME TransparencyInv, NEW d \in Disclosure,
         SubmitToLog(d) \/ SubmitReturns(d) \/ SubmitThrows(d)
  PROVE  TransparencyInv'
<1> USE DEF TransparencyInv, LogInv, SubmitInv
<1>1. UNCHANGED <<log, faults, proofs>>
  BY DEF SubmitToLog, SubmitReturns, SubmitThrows, server
<1>2. EntriesHold' /\ ProofsHold'
  BY <1>1 DEF EntriesHold, ProofsHold
<1>3. \A r : Stands(r) => Stands(r)'
  BY <1>1 DEF Stands
<1>4. CASE SubmitToLog(d)
  <2>1. /\ calls' = calls + 1 /\ posts' = posts \cup {[call |-> calls', of |-> d]}
        /\ waiting' = [waiting EXCEPT ![d] = {calls'}]
        /\ UNCHANGED <<replies, receipts>>
    BY <1>4 DEF SubmitToLog
  <2>2. /\ waiting'[d] = {calls'} /\ \A e \in Disclosure \ {d} : waiting'[e] = waiting[e]
        /\ calls \in Nat
    BY <2>1 DEF Shapes
  <2>3. Shapes'
    <3>1. waiting' = [e \in Disclosure |-> waiting'[e]]
      BY <2>1 DEF Shapes
    <3>2. calls' \in Nat
      BY <2>1, <2>2
    <3>3. QED
      BY <1>1, <2>1, <3>1, <3>2 DEF Shapes
  <2>4. CallsHold'
    <3>1. \A p \in posts' : p.call \in 1..calls' /\ p.of \in Disclosure
      BY <2>1, <2>2 DEF CallsHold
    <3>2. \A e \in Disclosure : \A c \in waiting'[e] : c \in 1..calls'
      BY <2>1, <2>2 DEF CallsHold
    <3>3. \A e \in Disclosure \ {d} : calls' \notin waiting'[e]
      BY <2>1, <2>2 DEF CallsHold
    <3>4. \A e, f \in Disclosure : e # f => waiting'[e] \cap waiting'[f] = {}
      BY <2>2, <3>3 DEF CallsHold
    <3>5. QED
      BY <3>1, <3>2, <3>4 DEF CallsHold
  <2>5. RepliesHold'
    BY <1>3, <2>1, <2>2 DEF RepliesHold
  <2>6. ReceiptsHold'
    BY <1>3, <2>1 DEF ReceiptsHold
  <2>7. QED
    BY <1>2, <2>3, <2>4, <2>5, <2>6
<1>5. CASE SubmitReturns(d)
  <2>1. PICK r \in replies :
          /\ r.call \in waiting[d] /\ receipts' = [receipts EXCEPT ![d] = {r}]
          /\ replies' = replies \ {r}
    BY <1>5 DEF SubmitReturns
  <2>2. waiting' = [waiting EXCEPT ![d] = {}] /\ UNCHANGED <<posts, calls>>
    BY <1>5 DEF SubmitReturns
  <2>3. /\ waiting'[d] = {} /\ \A e \in Disclosure \ {d} : waiting'[e] = waiting[e]
        /\ receipts'[d] = {r} /\ \A e \in Disclosure \ {d} : receipts'[e] = receipts[e]
    BY <2>1, <2>2 DEF Shapes
  <2>4. Shapes'
    <3>1. waiting' = [e \in Disclosure |-> waiting'[e]]
      BY <2>2 DEF Shapes
    <3>2. receipts' = [e \in Disclosure |-> receipts'[e]]
      BY <2>1 DEF Shapes
    <3>3. QED
      BY <1>1, <2>2, <3>1, <3>2 DEF Shapes
  <2>5. CallsHold'
    BY <2>2, <2>3 DEF CallsHold
  <2>6. RepliesHold'
    BY <1>3, <2>1, <2>2, <2>3 DEF RepliesHold
  <2>7. r.entry.content.disclosure = d /\ Stands(r)'
    BY <1>3, <2>1 DEF RepliesHold
  <2>8. ReceiptsHold'
    BY <1>3, <2>3, <2>7 DEF ReceiptsHold
  <2>9. QED
    BY <1>2, <2>4, <2>5, <2>6, <2>8
<1>6. CASE SubmitThrows(d)
  <2>1. /\ waiting' = [waiting EXCEPT ![d] = {}] /\ UNCHANGED <<posts, calls, receipts>>
        /\ replies' \subseteq replies
    BY <1>6 DEF SubmitThrows
  <2>2. waiting'[d] = {} /\ \A e \in Disclosure \ {d} : waiting'[e] = waiting[e]
    BY <2>1 DEF Shapes
  <2>3. Shapes'
    BY <1>1, <2>1, <2>2 DEF Shapes
  <2>4. CallsHold'
    BY <2>1, <2>2 DEF CallsHold
  <2>5. RepliesHold'
    BY <1>3, <2>1, <2>2 DEF RepliesHold
  <2>6. ReceiptsHold'
    BY <1>3, <2>1 DEF ReceiptsHold
  <2>7. QED
    BY <1>2, <2>3, <2>4, <2>5, <2>6
<1>7. QED
  BY <1>4, <1>5, <1>6

LEMMA UnchangedKeeps ==
  ASSUME TransparencyInv, UNCHANGED <<server, submitter>>,
         proofs' = [d \in Disclosure |-> proofs'[d]], ProofsHold'
  PROVE  TransparencyInv'
<1>1. UNCHANGED <<log, faults, posts, replies, calls, waiting, receipts>>
  BY DEF server, submitter
<1>2. \A r : Stands(r)' <=> Stands(r)
  BY <1>1 DEF Stands
<1>3. QED
  BY <1>1, <1>2 DEF TransparencyInv, LogInv, SubmitInv, Shapes, EntriesHold,
    CallsHold, RepliesHold, ReceiptsHold

LEMMA FetchKeeps ==
  ASSUME TransparencyInv, NEW d \in Disclosure, NEW v \in View, FetchInclusionProof(d, v)
  PROVE  TransparencyInv'
<1>1. PICK i \in EntriesFor(v, d) : proofs' = [proofs EXCEPT ![d] = {log[v][i]}]
  BY DEF FetchInclusionProof
<1>2. UNCHANGED <<server, submitter>>
  BY DEF FetchInclusionProof
<1>3. EntryHolds(log[v][i])
  BY DEF TransparencyInv, LogInv, EntriesHold, EntriesFor
<1>4. proofs' = [e \in Disclosure |-> proofs'[e]] /\ ProofsHold'
  BY <1>1, <1>3 DEF TransparencyInv, LogInv, Shapes, ProofsHold
<1>5. QED
  BY <1>2, <1>4, UnchangedKeeps

LEMMA TransparencyStep == TransparencyInv /\ [Next]_vars => TransparencyInv'
<1> SUFFICES ASSUME TransparencyInv, [Next]_vars
             PROVE  TransparencyInv'
  OBVIOUS
<1>1. CASE \E d \in Disclosure : SubmitToLog(d) \/ SubmitReturns(d) \/ SubmitThrows(d)
  BY <1>1, SubmitKeeps
<1>2. CASE \E d \in Disclosure, v \in View : FetchInclusionProof(d, v)
  BY <1>2, FetchKeeps
<1>3. CASE \E v \in View : ServeSubmit(v) \/ Restart(v) \/ EditEntry(v)
  BY <1>3, ServeKeeps, FaultKeeps
<1>4. CASE (\E a \in Subject, v \in View : CheckAndObserve(a, v)) \/ UNCHANGED vars
  <2>1. UNCHANGED <<server, submitter>> /\ proofs' = proofs
    BY <1>4 DEF CheckAndObserve, vars
  <2>2. proofs' = [d \in Disclosure |-> proofs'[d]] /\ ProofsHold'
    BY <2>1 DEF TransparencyInv, LogInv, Shapes, ProofsHold
  <2>3. QED
    BY <2>1, <2>2, UnchangedKeeps
<1>5. QED
  BY <1>1, <1>2, <1>3, <1>4 DEF Next

LEMMA TransparencyInvariant == Spec => []TransparencyInv
<1>1. Init => TransparencyInv
  <2> SUFFICES ASSUME Init
               PROVE  TransparencyInv
    OBVIOUS
  <2>1. \A v \in View : log[v] \in Seq({}) /\ Len(log[v]) = 0
    BY EmptySeq DEF Init
  <2>2. Shapes
    BY <2>1 DEF Init, Shapes
  <2>3. EntriesHold
    BY <2>1 DEF EntriesHold
  <2>4. ProofsHold /\ CallsHold /\ RepliesHold /\ ReceiptsHold
    BY DEF Init, ProofsHold, CallsHold, RepliesHold, ReceiptsHold
  <2>5. QED
    BY <2>2, <2>3, <2>4 DEF TransparencyInv, LogInv, SubmitInv
<1>2. QED
  BY <1>1, TransparencyStep, PTL DEF Spec

---------------------------------------------------------------------------
(* The receipt of a submission stays good until its log is restarted or edited,  *)
(* with any number of retries and late submissions appended around it.           *)
THEOREM ReceiptsStand == Spec => []ReceiptHolds
<1>1. TransparencyInv => ReceiptHolds
  BY DEF TransparencyInv, SubmitInv, ReceiptsHold, Stands, ReceiptHolds
<1>2. QED
  BY <1>1, TransparencyInvariant, PTL

---------------------------------------------------------------------------
(* A log that verifies and extends the one whose head was pinned passes the      *)
(* witness, at an empty pin, at exactly the pinned size and past it.             *)
LEMMA GrowthPasses ==
  ASSUME NEW S, NEW s \in Seq(S), NEW t \in Seq(S), VerifyLog(t), IsPrefixOf(s, t)
  PROVE  CheckAppendOnly({[head |-> LogHead(s), size |-> Len(s)]}, t)
<1> DEFINE n == Len(s)
           m == Len(t)
           head == LogHead(s)
           rest == SubSeq(t, n + 1, m)
           proof == ConsistencyProof(t, n)
<1>1. n \in Nat /\ m \in Nat /\ n <= m /\ SubSeq(t, 1, n) = s
  BY LenProperties DEF IsPrefixOf
<1>2. \A i \in 1..n : s[i] = t[i]
  BY <1>1, SubSeqProperties, ElementOfSeq
<1>3. /\ n = 0 => s = <<>> /\ head = Genesis
      /\ n # 0 => s # <<>> /\ head = t[n].hash
  <2>1. n = 0 <=> s = <<>>
    BY EmptySeq
  <2>2. QED
    BY <1>1, <1>2, <2>1 DEF LogHead
<1>4. /\ rest \in Seq(S) /\ Len(rest) = m - n
      /\ \A i \in 1..(m - n) : rest[i] = t[n + i]
  <2>1. \A i \in (n + 1)..m : t[i] \in S
    BY <1>1, ElementOfSeq
  <2>2. QED
    BY <1>1, <2>1, SubSeqProperties
<1>5. ChainsFrom(head, rest)
  <2>1. SUFFICES ASSUME NEW i \in 1..(m - n)
                 PROVE  /\ rest[i].content.prevHash = IF i = 1 THEN head ELSE rest[i - 1].hash
                        /\ HashEntry(rest[i]) = rest[i].hash
    BY <1>4 DEF ChainsFrom
  <2>2. n + i \in 1..m /\ rest[i] = t[n + i]
    BY <1>1, <1>4
  <2>3. /\ t[n + i].content.prevHash = IF n + i = 1 THEN Genesis ELSE t[(n + i) - 1].hash
        /\ HashEntry(t[n + i]) = t[n + i].hash
    BY <2>2 DEF VerifyLog, ChainsFrom
  <2>4. CASE i = 1
    BY <1>1, <1>3, <2>2, <2>3, <2>4
  <2>5. CASE i # 1
    <3>1. i - 1 \in 1..(m - n) /\ (n + i) - 1 = n + (i - 1) /\ n + i # 1
      BY <1>1, <2>5
    <3>2. rest[i - 1] = t[(n + i) - 1]
      BY <1>4, <3>1
    <3>3. QED
      BY <2>2, <2>3, <2>5, <3>1, <3>2
  <2>6. QED
    BY <2>4, <2>5
<1>6. LogHead(t) = IF rest = <<>> THEN head ELSE rest[Len(rest)].hash
  <2> HIDE DEF rest, head
  <2>1. rest = <<>> <=> m - n = 0
    BY <1>4, EmptySeq
  <2>2. t = <<>> <=> m = 0
    BY EmptySeq
  <2>3. CASE m = n
    <3>1. rest = <<>>
      BY <1>1, <2>1, <2>3
    <3>2. LogHead(t) = head
      BY <1>1, <1>3, <2>2, <2>3 DEF LogHead
    <3>3. QED
      BY <3>1, <3>2
  <2>4. CASE m # n
    <3>1. m - n \in 1..(m - n) /\ n + (m - n) = m /\ m # 0 /\ m - n # 0
      BY <1>1, <2>4
    <3>2. rest[Len(rest)] = t[m]
      BY <1>4, <3>1
    <3>3. LogHead(t) = t[m].hash
      BY <2>2, <3>1 DEF LogHead
    <3>4. QED
      BY <2>1, <3>1, <3>2, <3>3
  <2>5. QED
    BY <2>3, <2>4
<1>7. proof.oldHead = head /\ proof.newHead = LogHead(t) /\ proof.entries = rest
  <2>1. proof.newHead = LogHead(t) /\ proof.entries = rest
    BY DEF ConsistencyProof
  <2>2. proof.oldHead = IF n <= 0 THEN Genesis
                        ELSE IF n > m THEN LogHead(t) ELSE t[n].hash
    BY DEF ConsistencyProof
  <2> HIDE DEF proof, head
  <2>3. proof.oldHead = head
    BY <1>1, <1>3, <2>2
  <2>4. QED
    BY <2>1, <2>3
<1>8. VerifyConsistency(head, proof)
  <2> HIDE DEF head, rest, proof
  <2>1. QED
    BY <1>5, <1>6, <1>7 DEF VerifyConsistency
<1>9. LogHead(SubSeq(t, 1, n)) = head
  BY <1>1
<1>10. ASSUME NEW p \in {[head |-> head, size |-> n]}
       PROVE  /\ m >= p.size /\ p.head = LogHead(SubSeq(t, 1, p.size))
              /\ VerifyConsistency(p.head, ConsistencyProof(t, p.size))
  <2>1. p.head = head /\ p.size = n
    OBVIOUS
  <2> HIDE DEF head, n
  <2>2. QED
    BY <1>1, <1>8, <1>9, <2>1
<1>11. QED
  BY <1>10 DEF CheckAppendOnly

PinHolds ==
  /\ pin = [a \in Subject |-> pin[a]] /\ shown = [a \in Subject |-> shown[a]]
  /\ \A a \in Subject :
       /\ \E S : shown[a] \in Seq(S)
       /\ \A i \in 1..Len(shown[a]) : EntryHolds(shown[a][i])
       /\ \/ pin[a] = {} /\ shown[a] = <<>>
          \/ pin[a] = {[head |-> LogHead(shown[a]), size |-> Len(shown[a])]}

LEMMA PinStep == TransparencyInv /\ PinHolds /\ [Next]_vars => PinHolds'
<1> SUFFICES ASSUME TransparencyInv, PinHolds, [Next]_vars
             PROVE  PinHolds'
  OBVIOUS
<1>1. CASE UNCHANGED witness
  BY <1>1 DEF witness, PinHolds
<1>2. CASE \E a \in Subject, v \in View : CheckAndObserve(a, v)
  <2>1. PICK a \in Subject, v \in View : CheckAndObserve(a, v)
    BY <1>2
  <2>2. /\ pin' = [pin EXCEPT ![a] = {[head |-> LogHead(log[v]), size |-> Len(log[v])]}]
        /\ shown' = [shown EXCEPT ![a] = log[v]]
    BY <2>1 DEF CheckAndObserve
  <2>3. /\ \E S : log[v] \in Seq(S)
        /\ \A i \in 1..Len(log[v]) : EntryHolds(log[v][i])
    BY DEF TransparencyInv, LogInv, Shapes, EntriesHold
  <2>4. /\ shown'[a] = log[v]
        /\ pin'[a] = {[head |-> LogHead(log[v]), size |-> Len(log[v])]}
        /\ \A b \in Subject \ {a} : pin'[b] = pin[b] /\ shown'[b] = shown[b]
    BY <2>2 DEF PinHolds
  <2>5. pin' = [b \in Subject |-> pin'[b]] /\ shown' = [b \in Subject |-> shown'[b]]
    BY <2>2 DEF PinHolds
  <2>6. \A b \in Subject :
          /\ \E S : shown'[b] \in Seq(S)
          /\ \A i \in 1..Len(shown'[b]) : EntryHolds(shown'[b][i])
          /\ \/ pin'[b] = {} /\ shown'[b] = <<>>
             \/ pin'[b] = {[head |-> LogHead(shown'[b]), size |-> Len(shown'[b])]}
    BY <2>3, <2>4 DEF PinHolds
  <2>7. QED
    BY <2>5, <2>6 DEF PinHolds
<1>3. QED
  <2>1. (\E a \in Subject, v \in View : CheckAndObserve(a, v)) \/ UNCHANGED witness
    BY DEF Next, vars, SubmitToLog, SubmitReturns, SubmitThrows, FetchInclusionProof,
           ServeSubmit, Restart, EditEntry, Fault
  <2>2. QED
    BY <1>1, <1>2, <2>1

LEMMA PinInvariant == Spec => []PinHolds
<1>1. Init => PinHolds
  <2> SUFFICES ASSUME Init
               PROVE  PinHolds
    OBVIOUS
  <2>1. <<>> \in Seq({}) /\ Len(<<>>) = 0
    BY EmptySeq
  <2>2. QED
    BY <2>1 DEF Init, PinHolds
<1>2. QED
  BY <1>1, PinStep, TransparencyInvariant, PTL DEF Spec

(* The witness raises no false alarm, whatever views the operator switches       *)
(* between, restarts and edits, as long as the log it shows extends the pinned. *)
THEOREM GrowthIsAccepted == Spec => []HonestGrowthAccepted
<1>1. TransparencyInv /\ PinHolds => HonestGrowthAccepted
  <2> SUFFICES ASSUME TransparencyInv, PinHolds, NEW a \in Subject, NEW v \in View,
                      VerifyLog(log[v]), IsPrefixOf(shown[a], log[v])
               PROVE  CheckAppendOnly(pin[a], log[v])
    BY DEF HonestGrowthAccepted
  <2>1. CASE pin[a] = {}
    BY <2>1 DEF CheckAppendOnly
  <2>2. CASE pin[a] = {[head |-> LogHead(shown[a]), size |-> Len(shown[a])]}
    <3>1. PICK S : shown[a] \in Seq(S)
      BY DEF PinHolds
    <3>2. PICK T : log[v] \in Seq(T)
      BY DEF TransparencyInv, LogInv, Shapes
    <3>3. shown[a] \in Seq(S \cup T) /\ log[v] \in Seq(S \cup T)
      BY <3>1, <3>2, SeqMonotonic
    <3>4. QED
      BY <2>2, <3>3, GrowthPasses
  <2>3. QED
    BY <2>1, <2>2 DEF PinHolds
<1>2. QED
  BY <1>1, PinInvariant, TransparencyInvariant, PTL

---------------------------------------------------------------------------
Linked(s, n) ==
  \A i \in 1..n :
    /\ EntryHolds(s[i]) /\ s[i].content = s[i].hash
    /\ i # 1 => s[i].content.prevHash = s[i - 1].hash

(* Two logs that verify and store the same hash at one index are the same up     *)
(* to it: the hash is of the whole entry, and the entry names the hash before it. *)
LEMMA SameBelow ==
  ASSUME NEW s, NEW t, NEW n \in Nat, Linked(s, n), Linked(t, n),
         n # 0 => s[n].hash = t[n].hash
  PROVE  \A i \in 1..n : s[i] = t[i]
<1> DEFINE Below == {k \in Nat : k < n => s[n - k].hash = t[n - k].hash}
<1>1. 0 \in Below
  OBVIOUS
<1>2. ASSUME NEW k \in Nat, k \in Below
      PROVE  k + 1 \in Below
  <2>1. CASE k + 1 < n
    <3>1. n - k \in 1..n /\ n - k # 1 /\ (n - k) - 1 = n - (k + 1) /\ k < n
      BY <2>1
    <3>2. s[n - k].content = t[n - k].content
      BY <1>2, <3>1 DEF Linked
    <3>3. s[n - (k + 1)].hash = t[n - (k + 1)].hash
      BY <3>1, <3>2 DEF Linked
    <3>4. QED
      BY <3>3
  <2>2. QED
    BY <2>1
<1>3. Nat \subseteq Below
  <2> HIDE DEF Below
  <2>1. QED
    BY <1>1, <1>2, NatSetInduction
<1>4. ASSUME NEW i \in 1..n
      PROVE  s[i] = t[i]
  <2>1. n - i \in Nat /\ n - i < n /\ n - (n - i) = i
    OBVIOUS
  <2>2. s[i].hash = t[i].hash
    BY <1>3, <2>1
  <2>3. s[i].content = t[i].content
    BY <2>2 DEF Linked
  <2>4. QED
    BY <2>2, <2>3 DEF Linked, EntryHolds
<1>5. QED
  BY <1>4

(* A log that verifies and passes the witness extends the one it pinned, if that *)
(* one did verify: the pinned head fixes every entry under it.                   *)
LEMMA PassingExtends ==
  ASSUME NEW S, NEW s \in Seq(S), NEW t \in Seq(S),
         \A i \in 1..Len(s) : EntryHolds(s[i]), \A i \in 1..Len(t) : EntryHolds(t[i]),
         VerifyLog(s), VerifyLog(t),
         CheckAppendOnly({[head |-> LogHead(s), size |-> Len(s)]}, t)
  PROVE  IsPrefixOf(s, t)
<1> DEFINE n == Len(s)
           start == SubSeq(t, 1, n)
<1>1. /\ n \in Nat /\ Len(t) \in Nat /\ n <= Len(t)
      /\ LogHead(s) = LogHead(start)
  BY LenProperties DEF CheckAppendOnly
<1>2. start \in Seq(S) /\ Len(start) = n /\ \A i \in 1..n : start[i] = t[i]
  <2>1. \A i \in 1..n : t[i] \in S
    BY <1>1, ElementOfSeq
  <2>2. QED
    BY <1>1, <2>1, SubSeqProperties
<1>3. n # 0 => s[n].hash = t[n].hash
  <2> HIDE DEF start
  <2>1. n # 0 => s # <<>> /\ start # <<>> /\ n \in 1..n
    BY <1>1, <1>2, EmptySeq
  <2>2. QED
    BY <1>1, <1>2, <2>1 DEF LogHead
<1>4. Linked(s, n) /\ Linked(t, n)
  BY <1>1 DEF VerifyLog, ChainsFrom, HashEntry, Linked
<1>5. \A i \in 1..n : s[i] = t[i]
  <2>1. n \in Nat
    BY <1>1
  <2> HIDE DEF n
  <2>2. QED
    BY <1>3, <1>4, <2>1, SameBelow
<1>6. start = s
  <2> HIDE DEF start
  <2>1. QED
    BY <1>2, <1>5, SeqEqual
<1>7. QED
  BY <1>1, <1>6 DEF IsPrefixOf

LEMMA NothingIsPrefix ==
  ASSUME NEW S, NEW t \in Seq(S)
  PROVE  IsPrefixOf(<<>>, t)
<1>1. <<>> \in Seq(S) /\ Len(<<>>) = 0
  BY EmptySeq
<1>2. SubSeq(t, 1, 0) \in Seq(S) /\ Len(SubSeq(t, 1, 0)) = 0
  BY SubSeqProperties
<1>3. QED
  BY <1>1, <1>2, EmptySeq, LenProperties DEF IsPrefixOf

(* However logs are restarted, regrown, edited and swapped for one another, of    *)
(* two logs that verify the witness accepts the later only if it extends the      *)
(* earlier.                                                                       *)
THEOREM WitnessedHistoriesExtend == Spec => WitnessedHistoryExtends
<1>1. ASSUME TransparencyInv, PinHolds, Next, NEW a \in Subject, pin'[a] # pin[a],
             VerifyLog(shown[a]), VerifyLog(shown'[a])
      PROVE  IsPrefixOf(shown[a], shown'[a])
  <2>1. PICK b \in Subject, v \in View : CheckAndObserve(b, v)
    BY <1>1 DEF Next, SubmitToLog, SubmitReturns, SubmitThrows, FetchInclusionProof,
                ServeSubmit, Restart, EditEntry, Fault, witness
  <2>2. b = a /\ shown'[a] = log[v] /\ CheckAppendOnly(pin[a], log[v])
    BY <1>1, <2>1 DEF CheckAndObserve, PinHolds
  <2>3. PICK T : log[v] \in Seq(T)
    BY <1>1 DEF TransparencyInv, LogInv, Shapes
  <2>4. \A i \in 1..Len(log[v]) : EntryHolds(log[v][i])
    BY <1>1 DEF TransparencyInv, LogInv, EntriesHold
  <2>5. PICK S : shown[a] \in Seq(S)
    BY <1>1 DEF PinHolds
  <2>6. shown[a] \in Seq(S \cup T) /\ log[v] \in Seq(S \cup T)
    BY <2>3, <2>5, SeqMonotonic
  <2>7. CASE shown[a] = <<>>
    BY <2>2, <2>3, <2>7, NothingIsPrefix
  <2>8. CASE pin[a] = {[head |-> LogHead(shown[a]), size |-> Len(shown[a])]}
    <3>1. \A i \in 1..Len(shown[a]) : EntryHolds(shown[a][i])
      BY <1>1 DEF PinHolds
    <3>2. QED
      BY <1>1, <2>2, <2>4, <2>6, <2>8, <3>1, PassingExtends
  <2>9. QED
    BY <1>1, <2>7, <2>8 DEF PinHolds
<1>2. TransparencyInv /\ PinHolds /\ [Next]_vars =>
        [\A a \in Subject :
           pin'[a] # pin[a] /\ VerifyLog(shown[a]) /\ VerifyLog(shown'[a])
             => IsPrefixOf(shown[a], shown'[a])]_vars
  BY <1>1
<1>3. QED
  BY <1>2, PinInvariant, TransparencyInvariant, PTL DEF Spec, WitnessedHistoryExtends

---------------------------------------------------------------------------
(* An entry that the standalone check accepts and that stores the same hash as   *)
(* an entry of a log that verifies is that entry.                                *)
LEMMA SameHashSameEntry ==
  ASSUME NEW p, EntryHolds(p), VerifyInclusionProof(p),
         NEW e, EntryHolds(e), HashEntry(e) = e.hash, p.hash = e.hash
  PROVE  p = e
BY DEF EntryHolds, VerifyInclusionProof, HashEntry

(* Of the entries that pass the standalone check, the one at a pinned head and   *)
(* the one it links to are the last two entries the witness was shown, however   *)
(* logs were edited, their hashes computed anew, and restarted.                  *)
THEOREM AnchoredProofsWereWitnessed == Spec => []AnchoredProofWasWitnessed
<1>1. ASSUME TransparencyInv, PinHolds, NEW a \in Subject, NEW h \in pin[a],
             NEW p \in Accepted, VerifyLog(shown[a]), p.hash = h.head
      PROVE  /\ h.size # 0 /\ p = shown[a][h.size]
             /\ \A q \in Accepted :
                  q.hash = p.content.prevHash => h.size # 1 /\ q = shown[a][h.size - 1]
  <2> DEFINE n == Len(shown[a])
  <2>1. h.head = LogHead(shown[a]) /\ h.size = n /\ \E S : shown[a] \in Seq(S)
    BY <1>1 DEF PinHolds
  <2>2. n \in Nat
    BY <2>1, LenProperties
  <2>3. \A q \in Accepted : EntryHolds(q) /\ VerifyInclusionProof(q) /\ q.hash # Genesis
    <3>1. \A q \in Accepted : EntryHolds(q) /\ VerifyInclusionProof(q)
      BY <1>1 DEF Accepted, TransparencyInv, LogInv, ProofsHold
    <3>2. DOMAIN Genesis = {"genesis"}
      BY DEF Genesis
    <3>3. QED
      BY <3>1, <3>2 DEF EntryHolds, VerifyInclusionProof, HashEntry, ContentFields
  <2>4. n # 0
    BY <1>1, <2>1, <2>3 DEF LogHead
  <2>5. \A i \in 1..n :
          /\ EntryHolds(shown[a][i]) /\ HashEntry(shown[a][i]) = shown[a][i].hash
          /\ shown[a][i].content.prevHash = IF i = 1 THEN Genesis ELSE shown[a][i - 1].hash
    BY <1>1 DEF VerifyLog, ChainsFrom, PinHolds
  <2>6. shown[a] # <<>>
    BY <2>4, EmptySeq
  <2>7. p.hash = shown[a][n].hash
    BY <1>1, <2>1, <2>6 DEF LogHead
  <2>8. p = shown[a][n]
    BY <2>2, <2>3, <2>4, <2>5, <2>7, SameHashSameEntry
  <2>9. ASSUME NEW q \in Accepted, q.hash = p.content.prevHash
        PROVE  n # 1 /\ q = shown[a][n - 1]
    <3> HIDE DEF n
    <3>0. n \in 1..n
      BY <2>2, <2>4
    <3>1. n # 1
      <4>1. n = 1 => p.content.prevHash = Genesis
        BY <2>5, <2>8, <3>0
      <4>2. QED
        BY <2>3, <2>9, <4>1
    <3>2. n - 1 \in 1..n
      BY <2>2, <2>4, <3>1
    <3>3. q.hash = shown[a][n - 1].hash
      BY <2>5, <2>8, <2>9, <3>0, <3>1
    <3>4. QED
      BY <2>3, <2>5, <3>1, <3>2, <3>3, SameHashSameEntry
  <2>10. QED
    BY <2>1, <2>4, <2>8, <2>9
<1>2. TransparencyInv /\ PinHolds => AnchoredProofWasWitnessed
  BY <1>1 DEF AnchoredProofWasWitnessed
<1>3. QED
  BY <1>2, PinInvariant, TransparencyInvariant, PTL
=============================================================================
