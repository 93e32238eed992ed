-------------------------------- MODULE Siwa --------------------------------
(***************************************************************************)
(* Sign-In With Agent (siwa.ts): the text a wallet signs and the checks a   *)
(* relying party makes of it.                                                *)
(*                                                                           *)
(* A line of text is the pair of its label and its value; a line that has    *)
(* no "label: value" form has the label "".  A message keeps its labelled    *)
(* lines as a function, as the code's Map does, and its statement as the     *)
(* sequence of its lines (<<>> when there is none).  The two dates of the     *)
(* window are the set of the instant they name, {} when they name none and   *)
(* Date.parse gives NaN.  The EIP-191 signature is ideal, as in Attestation, *)
(* a wallet being named by its address.                                      *)
(***************************************************************************)
EXTENDS Attestation, Selection, SequencesExt

(* The order in which the labelled lines are written. *)
SiwaLabels == <<"URI", "Version", "AgentId", "AgentRegistry", "ChainId", "Nonce",
                "IssuedAt", "ExpirationTime", "NotBefore", "RequestId">>

RequiredLabels == ToSet(SubSeq(SiwaLabels, 1, 7))

BlankLine == <<"", "">>

(* Only a registry named by an eip155 chain and an address has this form. *)
AgentRegistryCaip10(chainId, registry) == [chain |-> chainId, registry |-> registry]

FormatSiwaMessage(m) ==
  LET written == Selected(SiwaLabels, DOMAIN m.fields)
  IN  << <<"domain", m.domain>>, <<"", m.address>>, BlankLine >>
      \o (IF m.statement = <<>> THEN <<BlankLine>> ELSE m.statement)
      \o <<BlankLine>>
      \o [i \in DOMAIN written |-> <<written[i], m.fields[written[i]]>>]

(* The fields begin at the first line labelled URI; of two lines with a label *)
(* the later counts.                                                          *)
FieldsStart(text) == CHOOSE i \in DOMAIN text :
  text[i][1] = "URI" /\ \A j \in 1..(i - 1) : text[j][1] # "URI"

LastLine(text, label) == CHOOSE i \in DOMAIN text :
  text[i][1] = label /\ \A j \in (i + 1)..Len(text) : text[j][1] # label

(* A slip: the blank line before the fields is read as the statement's last. *)
StatementToFields(text, start) == SubSeq(text, 4, start - 1)

(* The statement stands between two blank lines, above the fields. *)
StatementLines(text, start) == SubSeq(text, 4, start - 2)

FieldLines(text) == SubSeq(text, FieldsStart(text), Len(text))

Fields(text) ==
  LET lines == FieldLines(text)
      labels == {lines[i][1] : i \in DOMAIN lines} \cap ToSet(SiwaLabels)
  IN  [label \in labels |-> lines[LastLine(lines, label)][2]]

Statement(text) ==
  LET lines == StatementLines(text, FieldsStart(text))
  IN  IF lines = <<BlankLine>> THEN <<>> ELSE lines

SiwaFormed(text) ==
  /\ text[1][1] = "domain" /\ \E i \in DOMAIN text : text[i][1] = "URI"
  /\ RequiredLabels \subseteq DOMAIN Fields(text)
  /\ Fields(text)["Version"] = "1"

(* {} for a text that does not parse; the message otherwise. *)
ParseSiwaMessage(text) ==
  IF ~SiwaFormed(text) THEN {}
  ELSE {[domain |-> text[1][2], address |-> text[2][2], fields |-> Fields(text),
         statement |-> Statement(text)]}

(* opts: the relying party's request and the agent's ERC-8004 binding, its      *)
(* optional lines in opts.optional.  The disclosure itself is not read.         *)
DisclosureToSiwaMessage(opts) ==
  [domain    |-> opts.domain,
   address   |-> opts.walletAddress,
   statement |-> opts.statement,
   fields    |-> [label \in RequiredLabels \cup DOMAIN opts.optional |->
     CASE label = "URI" -> opts.uri
       [] label = "Version" -> "1"
       [] label = "AgentId" -> opts.agentTokenId
       [] label = "AgentRegistry" -> AgentRegistryCaip10(opts.chainId, opts.registry)
       [] label = "ChainId" -> opts.chainId
       [] label = "Nonce" -> opts.nonce
       [] label = "IssuedAt" -> opts.issuedAt
       [] OTHER -> opts.optional[label]]]

SignSiwa(m, walletKey) ==
  [text |-> FormatSiwaMessage(m), walletSignature |-> SignMessage(FormatSiwaMessage(m), walletKey)]

---------------------------------------------------------------------------
(* Over any other text the recovered address is some unrelated one. *)
RecoverWalletAddress(text, signature) ==
  IF signature.over = text THEN {signature.by} ELSE {}

(* The checks made before the relying party is asked for the nonce. *)
SiwaAsksNonce(m, domain) ==
  /\ m.fields["Version"] = "1"
  /\ m.domain = domain
  /\ m.fields["Nonce"] # "short"

(* A slip: the end of the window is not looked at. *)
InSiwaWindowFrom(m, now) ==
  "NotBefore" \in DOMAIN m.fields => \A t \in m.fields["NotBefore"] : now >= t

(* The end is exclusive; issuedAt bounds nothing, nor does a date that cannot *)
(* be read.                                                                   *)
InSiwaWindow(m, now) ==
  /\ "ExpirationTime" \in DOMAIN m.fields => \A t \in m.fields["ExpirationTime"] : now < t
  /\ "NotBefore" \in DOMAIN m.fields => \A t \in m.fields["NotBefore"] : now >= t

(* All of verifySiwa that runs before its first await; nonces: those the        *)
(* relying party still takes.                                                   *)
SiwaOpens(m, domain, nonces, now) ==
  /\ SiwaAsksNonce(m, domain)
  /\ m.fields["Nonce"] \in nonces
  /\ DOMAIN m.fields["AgentRegistry"] = {"chain", "registry"}
  /\ InSiwaWindow(m, now)

(* The bytes that must be signed are those of the parsed message. *)
SignedByAddress(m, signature) ==
  RecoverWalletAddress(FormatSiwaMessage(m), signature) = {m.address}

(* owner: the registry's answer, {} when it has no entry. *)
SiwaAttestation(m, owner) ==
  CASE owner = {m.address} -> "registry_attested"
    [] owner = {} -> "signed"
    [] OTHER -> "none"

(* verifySiwaAgainstDisclosure, before it calls verifySiwa; expected: the        *)
(* wallet and token of the disclosure's binding, wallet {} when neither given.   *)
AgreesWithBinding(m, expected) ==
  expected.wallet = {m.address} /\ m.fields["AgentId"] = expected.token
=============================================================================
