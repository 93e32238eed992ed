------------------------------ MODULE ZkRange ------------------------------
(***************************************************************************)
(* Range proofs over a hidden attribute (zkRange.ts) and a verifier's        *)
(* requirements on the proofs an agent attached (zkDisclosure.ts).           *)
(*                                                                           *)
(* A commitment is ideal: the pair of the value and the blinding modulo the  *)
(* order of the group, added and scaled component by component, and equal    *)
(* only to itself.  The proof that a commitment opens to a bit is a record   *)
(* of the commitment and the transcript it is bound to, which exists only    *)
(* when it does.  A number of the code is an integer here; the tag of a       *)
(* statement is the predicate, and all of them are about one attribute.  No   *)
(* value belongs to the attribute: an agent proves of the values it likes.    *)
(***************************************************************************)
EXTENDS Integers, Sequences, FiniteSets

CONSTANTS
  GroupOrder,         \* q, a prime
  DefaultRangeBits,   \* DEFAULT_RANGE_BITS, 32 in the code
  HiddenValue,        \* the values an agent may put into a commitment
  Predicate,          \* the statements: [kind, bounds]
  WiderBits,          \* bits an agent may take beyond those of the statement
  MaxAttached         \* bound of the model on the proofs attached

ASSUME ZkAssumption ==
  /\ GroupOrder \in Nat \ {0, 1, 2} /\ GroupOrder % 2 = 1
  /\ DefaultRangeBits \in Nat \ {0} /\ HiddenValue \subseteq Nat /\ WiderBits \subseteq Nat
  /\ Predicate \subseteq [kind : {"gte", "lte", "range"}, min : Int, max : Int]

VARIABLES
  attached,    \* the proofs the agent attached to its disclosure
  built,       \* history: the parts that were built, with the value put into each
  failed,      \* {} or the statement and value proveRange just threw on
  required     \* {} or the answer requireAttributeProofs just gave

zk == <<attached, built, failed, required>>

PedersenCommit(v, r) == [g |-> v % GroupOrder, h |-> r % GroupOrder]

ModInverse(a) == CHOOSE x \in 0..(GroupOrder - 1) : (a * x) % GroupOrder = 1

Pow2[n \in Nat] == IF n = 0 THEN 1 ELSE 2 * Pow2[n - 1]

BitLength(x) == IF x <= 0 THEN 1 ELSE CHOOSE n \in 1..x : Pow2[n - 1] <= x /\ x < Pow2[n]

(* A slip: the default serves every bound. *)
BitsByDefault(bound) == DefaultRangeBits

BitsForBound(bound) ==
  IF BitLength(bound) < DefaultRangeBits THEN DefaultRangeBits ELSE BitLength(bound)

SubStatements(pred) ==
  CASE pred.kind = "gte" -> << [label |-> "gte", bound |-> Pow2[DefaultRangeBits] - 1] >>
    [] pred.kind = "lte" -> << [label |-> "lte", bound |-> pred.max] >>
    [] pred.kind = "range" ->
         LET span == IF pred.max < pred.min THEN 0 ELSE pred.max - pred.min
         IN  << [label |-> "rlo", bound |-> span], [label |-> "rhi", bound |-> span] >>

Shift(label, pred, v) == IF label \in {"gte", "rlo"} THEN v - pred.min ELSE pred.max - v

(* No shifted value comes back into the bits by wrapping around the group.  *)
ASSUME GroupAssumption ==
  \A pred \in Predicate, v \in HiddenValue : \A s \in DOMAIN SubStatements(pred) :
    Pow2[BitsForBound(SubStatements(pred)[s].bound)]
      <= GroupOrder + Shift(SubStatements(pred)[s].label, pred, v)

---------------------------------------------------------------------------
ProveBit(point, transcript) == [of |-> point, bound |-> transcript]

VerifyBit(point, proof, transcript) == proof = ProveBit(point, transcript) /\ point.g \in {0, 1}

(* The blindings, drawn from a stream; any one will do. *)
Blinding(i) == i + 1

(* The weighted sum of the bits below n, f[i] weighing 2^i: the loop of verifyRangeProof. *)
PartialSum(n, f) ==
  LET sum[i \in 0..n] == IF i = 0 THEN 0 ELSE sum[i - 1] + Pow2[i - 1] * f[i - 1]
  IN  sum[n]

WeightedSum(n, f) == PartialSum(n, f) % GroupOrder

BuildRangeProof(v, n, tag) ==
  LET r == Blinding(n)
      before == WeightedSum(n - 1, [i \in 0..(n - 2) |-> Blinding(i)])
      last == ((r - before) * ModInverse(Pow2[n - 1] % GroupOrder)) % GroupOrder
      points == [i \in 0..(n - 1) |->
        PedersenCommit((v \div Pow2[i]) % 2, IF i = n - 1 THEN last ELSE Blinding(i))]
      commitment == PedersenCommit(v, r)
  IN  [commitment |-> commitment, bitCommitments |-> points,
       bitProofs |-> [i \in 0..(n - 1) |->
         ProveBit(points[i], [tag |-> tag, commitment |-> commitment, all |-> points, bit |-> i])]]

VerifyRangeProof(part, n, tag) ==
  /\ DOMAIN part.bitCommitments = 0..(n - 1)
  /\ \A i \in 0..(n - 1) :
       VerifyBit(part.bitCommitments[i], part.bitProofs[i],
                 [tag |-> tag, commitment |-> part.commitment, all |-> part.bitCommitments,
                  bit |-> i])
  /\ part.commitment =
       [g |-> WeightedSum(n, [i \in 0..(n - 1) |-> part.bitCommitments[i].g]),
        h |-> WeightedSum(n, [i \in 0..(n - 1) |-> part.bitCommitments[i].h])]

Packed(pred, shifted, bits) ==
  [predicate |-> pred, bits |-> bits, readable |-> TRUE,
   parts |-> [s \in DOMAIN shifted |->
     BuildRangeProof(shifted[s], bits[s], <<pred, SubStatements(pred)[s].label>>)]]

BitsOf(pred) == [s \in DOMAIN SubStatements(pred) |-> BitsForBound(SubStatements(pred)[s].bound)]

ShiftedBy(pred, values) ==
  [s \in DOMAIN SubStatements(pred) |-> Shift(SubStatements(pred)[s].label, pred, values[s])]

(* {} when it throws: the shifted value is negative, or beyond the bits. *)
ProveRange(pred, v) ==
  LET shifted == ShiftedBy(pred, [s \in DOMAIN SubStatements(pred) |-> v]) IN
  IF \E s \in DOMAIN shifted : shifted[s] \notin 0..(Pow2[BitsOf(pred)[s]] - 1)
  THEN {}
  ELSE {Packed(pred, shifted, BitsOf(pred))}

(* A slip: the number of bits is the one the proof states. *)
VerifyRangeOwnBits(proof) ==
  /\ proof.readable
  /\ DOMAIN proof.parts = DOMAIN SubStatements(proof.predicate)
  /\ \A s \in DOMAIN proof.parts :
       VerifyRangeProof(proof.parts[s], proof.bits[s],
                        <<proof.predicate, SubStatements(proof.predicate)[s].label>>)

VerifyRange(proof) ==
  /\ proof.readable
  /\ DOMAIN proof.parts = DOMAIN SubStatements(proof.predicate)
  /\ \A s \in DOMAIN proof.parts :
       /\ proof.bits[s] = BitsOf(proof.predicate)[s]
       /\ VerifyRangeProof(proof.parts[s], proof.bits[s],
                           <<proof.predicate, SubStatements(proof.predicate)[s].label>>)

(* The scalars of the first bit are read as hex outside any try. *)
VerifyRangeThrows(proof) ==
  /\ ~proof.readable
  /\ DOMAIN proof.parts = DOMAIN SubStatements(proof.predicate)
  /\ proof.bits[1] = BitsOf(proof.predicate)[1]
  /\ DOMAIN proof.parts[1].bitCommitments = 0..(proof.bits[1] - 1)

Satisfies(asked, proven) ==
  /\ asked.kind = proven.kind
  /\ asked.kind = "gte" => proven.min >= asked.min
  /\ asked.kind = "lte" => proven.max <= asked.max
  /\ asked.kind = "range" => proven.min >= asked.min /\ proven.max <= asked.max

Candidates(proofs, pred) == {p \in proofs : Satisfies(pred, p.predicate)}

(* The answers: proofs and requirements are lists, tried in an order of the        *)
(* agent's and the verifier's, and a proof that verifies ends its requirement.     *)
RequireAttributeProofs(proofs, asked) ==
  LET bad(pred) == \E p \in Candidates(proofs, pred) : VerifyRangeThrows(p)
      good(pred) == \E p \in Candidates(proofs, pred) : VerifyRange(p)
  IN  {answer \in {"thrown", "ok", "missing"} :
         IF answer = "thrown" THEN \E pred \in asked : bad(pred)
         ELSE /\ \A pred \in asked : bad(pred) => good(pred)
              /\ (answer = "ok") <=> \A pred \in asked : good(pred)}

---------------------------------------------------------------------------
ZkInit == attached = {} /\ built = {} /\ failed = {} /\ required = {}

Attach(proof, values) ==
  /\ attached' = attached \cup {proof}
  /\ built' = built \cup {[part |-> proof.parts[s], value |-> values[s]] : s \in DOMAIN proof.parts}

ProveDisclosureAttribute ==
  /\ Cardinality(attached) < MaxAttached
  /\ \E pred \in Predicate, v \in HiddenValue :
       \/ /\ \E proof \in ProveRange(pred, v) : Attach(proof, [s \in DOMAIN proof.parts |-> v])
          /\ failed' = {}
       \/ /\ ProveRange(pred, v) = {}
          /\ failed' = {[predicate |-> pred, value |-> v]}
          /\ UNCHANGED <<attached, built>>
  /\ required' = {}

(* An agent of another make: a value of its own behind each part, more bits, and   *)
(* no look at whether the statement holds.  A number is its rest in the group.     *)
CommitAtWill ==
  /\ Cardinality(attached) < MaxAttached
  /\ \E pred \in Predicate, wider \in WiderBits :
       \E values \in [DOMAIN SubStatements(pred) -> HiddenValue] :
         Attach(Packed(pred, [s \in DOMAIN values |-> ShiftedBy(pred, values)[s] % GroupOrder],
                       [s \in DOMAIN values |-> BitsOf(pred)[s] + wider]), values)
  /\ failed' = {}
  /\ required' = {}

(* What the verifier holds may carry another predicate, parts of two proofs, or a  *)
(* scalar that is no number.                                                        *)
Relabel ==
  /\ Cardinality(attached) < MaxAttached
  /\ \E p, r \in attached, pred \in Predicate, readable \in BOOLEAN :
       attached' = attached \cup
         {[p EXCEPT !.predicate = pred, !.parts = r.parts, !.readable = readable]}
  /\ required' = {} /\ failed' = {}
  /\ UNCHANGED built

Require ==
  /\ required = {}
  /\ \E asked \in SUBSET Predicate : \E answer \in RequireAttributeProofs(attached, asked) :
       required' = {[asked |-> asked, proofs |-> attached, answer |-> answer]}
  /\ failed' = {}
  /\ UNCHANGED <<attached, built>>

ZkNext == ProveDisclosureAttribute \/ CommitAtWill \/ Relabel \/ Require

---------------------------------------------------------------------------
BoundHolds(label, pred, v) == IF label \in {"gte", "rlo"} THEN v >= pred.min ELSE v <= pred.max

Holds(pred, v) ==
  \A s \in DOMAIN SubStatements(pred) : BoundHolds(SubStatements(pred)[s].label, pred, v)

CommittedIn(part) == {m.value : m \in {x \in built : x.part = part}}

(* What a verifier takes for proved: for each statement it asked there is a proof  *)
(* behind every bound of which stands a value that keeps this bound of the very     *)
(* statement asked, though another was proved, whatever values and however many     *)
(* bits the agent took, and whatever was relabelled or recombined.  It is not the   *)
(* disclosed figure, which nothing links to the commitment, and the two bounds of   *)
(* a range may have two values (zkDisclosure.ts:15-22, 109-166, zkRange.ts:578-631). *)
RequirementHolds ==
  \A r \in required : r.answer = "ok" => \A pred \in r.asked :
    \E p \in Candidates(r.proofs, pred) : VerifyRange(p) /\
      \A s \in DOMAIN SubStatements(pred) :
        /\ CommittedIn(p.parts[s]) # {}
        /\ \A v \in CommittedIn(p.parts[s]) : BoundHolds(SubStatements(pred)[s].label, pred, v)

(* A true statement is proved and its own proof accepted, up to what the bits     *)
(* hold: the default number of them is enough for no lower bound                   *)
(* (zkRange.ts:449-497, 530-576).                                                  *)
Reached(pred, v) == pred.kind = "gte" => v - pred.min < Pow2[DefaultRangeBits]

OwnProofs(proofs) == {p \in proofs : \E v \in HiddenValue : p \in ProveRange(p.predicate, v)}

TrueStatementIsProved ==
  /\ \A f \in failed : Holds(f.predicate, f.value) => ~Reached(f.predicate, f.value)
  /\ \A r \in required :
       r.asked \subseteq {p.predicate : p \in OwnProofs(r.proofs)} => r.answer # "missing"
=============================================================================
