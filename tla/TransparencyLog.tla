-------------------------- MODULE TransparencyLog --------------------------
(***************************************************************************)
(* The log and the checks on it as functions of its sequence of entries    *)
(* (transparency.ts, transparencyTransport.ts, witness.ts).  A hash is      *)
(* ideal: it is the content that was hashed.  An entry is its content and   *)
(* its stored hash, which the content need not match once it was edited.    *)
(* A disclosure is the record [digest, agentId, issuedAt] it is logged as.  *)
(***************************************************************************)
EXTENDS Integers, Sequences

Genesis == [genesis |-> TRUE]

HashEntry(e) == e.content

LogHead(log) == IF log = <<>> THEN Genesis ELSE log[Len(log)].hash

LogEntry(index, disclosure, prevHash) ==
  LET content == [index |-> index, disclosure |-> disclosure, prevHash |-> prevHash]
  IN  [content |-> content, hash |-> content]

(* A slip: the index is taken after the push. *)
AppendThenIndex(log, disclosure) ==
  Append(log, LogEntry(Len(log) + 1, disclosure, LogHead(log)))

AppendToLog(log, disclosure) == Append(log, LogEntry(Len(log), disclosure, LogHead(log)))

(* The entries link to one another from prevHash on, each with its own hash. *)
ChainsFrom(prevHash, entries) ==
  \A i \in 1..Len(entries) :
    /\ entries[i].content.prevHash = IF i = 1 THEN prevHash ELSE entries[i - 1].hash
    /\ HashEntry(entries[i]) = entries[i].hash

VerifyLog(log) == ChainsFrom(Genesis, log)

(* A slip: the recomputation is left out. *)
VerifyNothing(entry) == TRUE

VerifyInclusionProof(entry) == HashEntry(entry) = entry.hash

---------------------------------------------------------------------------
ConsistencyProof(log, oldSize) ==
  [oldHead |-> IF oldSize <= 0 THEN Genesis
               ELSE IF oldSize > Len(log) THEN LogHead(log) ELSE log[oldSize].hash,
   newHead |-> LogHead(log),
   entries |-> SubSeq(log, oldSize + 1, Len(log))]

(* With no entries the last hash of the chain is the old head. *)
VerifyConsistency(oldHead, proof) ==
  /\ proof.oldHead = oldHead
  /\ ChainsFrom(oldHead, proof.entries)
  /\ proof.newHead = IF proof.entries = <<>> THEN oldHead
                     ELSE proof.entries[Len(proof.entries)].hash

(* Slips: the boundary entry is not compared; the boundary is one entry late. *)
CheckLengthOnly(pin, log) == \A p \in pin : Len(log) >= p.size

CheckPastBoundary(pin, log) ==
  \A p \in pin :
    /\ Len(log) > p.size
    /\ p.head = LogHead(SubSeq(log, 1, p.size))
    /\ VerifyConsistency(p.head, ConsistencyProof(log, p.size))

(* Witness.checkAppendOnly: no pin, or the pinned head is still there and the *)
(* rest of the log extends it.                                                *)
CheckAppendOnly(pin, log) ==
  \A p \in pin :
    /\ Len(log) >= p.size
    /\ p.head = LogHead(SubSeq(log, 1, p.size))
    /\ VerifyConsistency(p.head, ConsistencyProof(log, p.size))
=============================================================================
