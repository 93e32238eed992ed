----------------------------- MODULE StatusList -----------------------------
(***************************************************************************)
(* The bitstring status list (statusList.ts): an issuer sets one bit per     *)
(* revoked index in a list that grows, publishes it encoded, and a verifier  *)
(* decodes what it fetched and asks it about indices.                        *)
(*                                                                           *)
(* A list is its length in bytes and the set of its bits that are 1.  The    *)
(* shifts of the code are of signed 32 bit integers: of integers below       *)
(* IntHalf here, so that an index beyond them is in reach.                   *)
(***************************************************************************)
EXTENDS Integers, FiniteSets

CONSTANTS
  MaxPublished,  \* bound of the model on the lists published
  IntHalf,       \* 2^31 in the code
  StatusIndex,   \* indices of the disclosures
  FirstSize      \* the length in bits the issuer asks for

ASSUME StatusAssumption ==
  IntHalf \in Nat \ {0} /\ StatusIndex \subseteq Nat /\ FirstSize \in Nat /\ MaxPublished \in Nat

VARIABLES
  list,       \* the issuer's list
  encoded,    \* encoded lists published so far
  fetched,    \* {} or the verifier's list, decoded
  set,        \* history: indices the issuer set
  atEncode    \* history: what was set when the fetched list was encoded

statusList == <<list, encoded, fetched, set, atEncode>>

(* x >> 3 of a number: its low bits as a signed integer, divided by 8. *)
ToInt(x) ==
  LET low == x % (2 * IntHalf) IN IF low < IntHalf THEN low ELSE low - 2 * IntHalf

ByteOf(index) == ToInt(index) \div 8

NewList(sizeBits) == [bytes |-> (sizeBits + 7) \div 8, bits |-> {}]

SizeOf(l) == l.bytes * 8

Grow(l, minIndex) ==
  LET needBytes == minIndex \div 8 + 1 IN
  IF needBytes <= l.bytes THEN l ELSE [l EXCEPT !.bytes = needBytes]

(* A byte that is not there is neither written nor read: no error, no bit. *)
BitOf(l, index) ==
  IF ByteOf(index) \in 0..(l.bytes - 1) THEN {<<ByteOf(index), index % 8>>} ELSE {}

(* A slip: the list grows when the index is beyond its last byte, not in it. *)
SetInPlace(l, index) ==
  LET grown == Grow(l, index - 8) IN [grown EXCEPT !.bits = @ \cup BitOf(grown, index)]

SetRevoked(l, index) ==
  LET grown == Grow(l, index) IN [grown EXCEPT !.bits = @ \cup BitOf(grown, index)]

IsRevoked(l, index) ==
  index < SizeOf(l) /\ BitOf(l, index) \cap l.bits # {}

(* gzip and base64 keep the bytes. *)
Encode(l) == [bytes |-> l.bytes, bits |-> l.bits]

Decode(e) == [NewList(e.bytes * 8) EXCEPT !.bits = e.bits]

CheckStatus(entry, l) == IsRevoked(l, entry.statusListIndex)

---------------------------------------------------------------------------
StatusInit ==
  /\ list = NewList(FirstSize)
  /\ encoded = {} /\ fetched = {} /\ set = {} /\ atEncode = {}

SetStatus ==
  \E i \in StatusIndex :
    /\ list' = SetRevoked(list, i)
    /\ set' = set \cup {i}
    /\ UNCHANGED <<encoded, fetched, atEncode>>

PublishStatus ==
  /\ Cardinality(encoded) < MaxPublished
  /\ encoded' = encoded \cup {[list |-> Encode(list), set |-> set]}
  /\ UNCHANGED <<list, fetched, set, atEncode>>

(* Any list that was published may be what a cache or a mirror serves. *)
FetchStatus ==
  /\ \E e \in encoded : fetched' = {Decode(e.list)} /\ atEncode' = e.set
  /\ UNCHANGED <<list, encoded, set>>

StatusNext == SetStatus \/ PublishStatus \/ FetchStatus

---------------------------------------------------------------------------
(* The indices the shifts can address. *)
Addressable == 0..(IntHalf - 1)

(* As long as no index beyond the shifts was set, the verifier reads exactly the  *)
(* indices that were set when its list was encoded: growing, encoding and          *)
(* decoding lose none and invent none, and an index past the end is not revoked    *)
(* (statusList.ts:29-62).  Beyond, a set is lost, or is another index's.           *)
StatusReadAsSet ==
  \A l \in fetched : atEncode \subseteq Addressable =>
    \A i \in StatusIndex \cap Addressable :
      CheckStatus([statusListIndex |-> i], l) <=> i \in atEncode
=============================================================================
