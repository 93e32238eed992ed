------------------------------ MODULE Registry ------------------------------
(***************************************************************************)
(* Binding checks against an ERC-8004 identity registry: verifyBindingOnchain *)
(* (erc8004.ts) over createRegistryResolver (erc8004Registry.ts).            *)
(*                                                                           *)
(* A check asks an off-chain index for a token, reads the token's wallet and *)
(* then the agentId it publishes, with an await before each: three answers   *)
(* of three moments, while owners keep writing to the registry.  The client  *)
(* that reads is loaded once, by whichever check needs it first.             *)
(***************************************************************************)
EXTENDS Attestation

CONSTANTS
  Token,      \* agents of the registry: ERC-721 token ids
  Wallet,
  Key,        \* ed25519 keys: the agentIds
  Check,      \* calls of verifyBindingOnchain over one resolver
  Binding,    \* Binding[c]: the signed agentId -> wallet claim of check c
  MaxWrites   \* bound of the model on writes to the registry

ASSUME RegistryAssumption ==
  /\ \A c \in Check : Binding[c].wallet \in Wallet /\ Binding[c].agentId \in Key
  /\ MaxWrites \in Nat

VARIABLES
  wallet,     \* wallet[t]: {} or the declared wallet of t
  published,  \* published[t]: {} or the agentId in t's metadata
  writes,     \* writes to the registry so far
  client,     \* the memoised client of the resolver
  pc,         \* pc[c]: what check c awaits, or its verdict
  token,      \* token[c]: {} or the token the index answered
  worn,       \* history: tokens that had c's wallet at some moment of c,
  confirmed,  \* history: and at that or a later moment of c its agentId,
  steady      \* history: and that had both from its beginning

registry == <<wallet, published, writes>>
check == <<pc, token>>
history == <<worn, confirmed, steady>>
vars == <<registry, client, check, history>>

Awaiting == {"index", "wallet", "key"}
Ended == {"ok", "refused", "thrown"}

---------------------------------------------------------------------------
(* The registry is named by its chain and its address. *)
BindingPayload(b) == [agentId |-> b.agentId, wallet |-> b.wallet, registry |-> b.registry]

BindWallet(key, w, reg) ==
  LET core == [agentId |-> key, wallet |-> w, registry |-> reg]
  IN  [agentId |-> key, wallet |-> w, registry |-> reg,
       signature |-> SignMessage(BindingPayload(core), key)]

VerifyWalletBinding(b) == VerifyMessage(BindingPayload(b), b.agentId, b.signature)

Init ==
  /\ wallet \in [Token -> {{}} \cup {{w} : w \in Wallet}]
  /\ published \in [Token -> {{}} \cup {{k} : k \in Key}]
  /\ writes = 0
  /\ client = "none"
  /\ pc = [c \in Check |-> "idle"]
  /\ token = [c \in Check |-> {}]
  /\ worn = [c \in Check |-> {}]
  /\ confirmed = [c \in Check |-> {}]
  /\ steady = [c \in Check |-> Token]

---------------------------------------------------------------------------
(* The registry's owners: setAgentWallet and setMetadata, to a value or to none. *)
Write ==
  /\ writes < MaxWrites
  /\ writes' = writes + 1
  /\ UNCHANGED <<client, check>>

SetAgentWallet(t) ==
  /\ \E w \in {{}} \cup {{x} : x \in Wallet} : wallet' = [wallet EXCEPT ![t] = w]
  /\ UNCHANGED published
  /\ Write

SetMetadata(t) ==
  /\ \E k \in {{}} \cup {{x} : x \in Key} : published' = [published EXCEPT ![t] = k]
  /\ UNCHANGED wallet
  /\ Write

---------------------------------------------------------------------------
Goto(c, label) == pc' = [pc EXCEPT ![c] = label]

(* The agent's half is checked offline, before the first await. *)
VerifyBindingOnchain(c) ==
  /\ pc[c] = "idle"
  /\ Goto(c, IF VerifyWalletBinding(Binding[c]) THEN "index" ELSE "refused")
  /\ UNCHANGED <<registry, client, token>>

(* The index is a scan of past events: it may be behind, or wrong. *)
IndexAnswers(c) ==
  /\ pc[c] = "index"
  /\ \E t \in {{}} \cup {{x} : x \in Token} :
       /\ token' = [token EXCEPT ![c] = t]
       /\ Goto(c, IF t = {} THEN "refused" ELSE "wallet")
  /\ UNCHANGED <<registry, client>>

(* The promise of the client is kept whether it resolves or rejects. *)
LoadClient ==
  /\ client = "none" /\ \E c \in Check : pc[c] = "wallet"
  /\ client' \in {"ready", "failed"}
  /\ UNCHANGED <<registry, check>>

(* A slip: the index is believed. *)
IndexBelieved(t, b) == TRUE

WalletConfirmed(t, b) == wallet[t] = {b.wallet}

(* No published agentId and another one are both a refuse. *)
AgentIdConfirmed(t, b) == published[t] = {b.agentId}

ReadWallet(c) ==
  /\ pc[c] = "wallet" /\ client = "ready"
  /\ \E t \in token[c] : Goto(c, IF WalletConfirmed(t, Binding[c]) THEN "key" ELSE "refused")
  /\ UNCHANGED <<registry, client, token>>

ReadPublishedAgentId(c) ==
  /\ pc[c] = "key"
  /\ \E t \in token[c] : Goto(c, IF AgentIdConfirmed(t, Binding[c]) THEN "ok" ELSE "refused")
  /\ UNCHANGED <<registry, client, token>>

(* Slips: a failed read is taken for no entry; a client that failed to load is   *)
(* waited for.                                                                  *)
ReadFailsAsNoEntry(c) ==
  /\ pc[c] \in Awaiting /\ (pc[c] = "wallet" => client # "none")
  /\ Goto(c, "refused")
  /\ UNCHANGED <<registry, client, token>>

ReadFailsOnceLoaded(c) ==
  /\ pc[c] \in Awaiting /\ (pc[c] = "wallet" => client = "ready")
  /\ Goto(c, "thrown")
  /\ UNCHANGED <<registry, client, token>>

(* The index or a read rejects; the client could not be loaded. *)
ReadFails(c) ==
  /\ pc[c] \in Awaiting /\ (pc[c] = "wallet" => client # "none")
  /\ Goto(c, "thrown")
  /\ UNCHANGED <<registry, client, token>>

ReadSettles(c) ==
  IndexAnswers(c) \/ ReadWallet(c) \/ ReadPublishedAgentId(c) \/ ReadFails(c)

---------------------------------------------------------------------------
(* What the registry said while c was running, whatever c has read of it. *)
Running(c) == pc'[c] \in Awaiting \/ pc[c] \in Awaiting

Wears(c) == {t \in Token : wallet'[t] = {Binding[c].wallet}}
Publishes(c) == {t \in Token : published'[t] = {Binding[c].agentId}}

Watch ==
  LET seen(c) == IF Running(c) THEN worn[c] \cup Wears(c) ELSE worn[c] IN
  /\ worn' = [c \in Check |-> seen(c)]
  /\ confirmed' = [c \in Check |->
       IF Running(c) THEN confirmed[c] \cup (seen(c) \cap Publishes(c)) ELSE confirmed[c]]
  /\ steady' = [c \in Check |->
       IF Running(c) THEN steady[c] \cap Wears(c) \cap Publishes(c) ELSE steady[c]]

Step ==
  \/ \E t \in Token : SetAgentWallet(t) \/ SetMetadata(t)
  \/ \E c \in Check : VerifyBindingOnchain(c) \/ ReadSettles(c)
  \/ LoadClient

Next == Step /\ Watch

Spec == Init /\ [][Next]_vars

FairSpec ==
  /\ Spec
  /\ WF_vars(LoadClient /\ Watch)
  /\ \A c \in Check : WF_vars(ReadSettles(c) /\ Watch)

---------------------------------------------------------------------------
TypeOK ==
  /\ DOMAIN wallet = Token /\ DOMAIN published = Token
  /\ pc \in [Check -> {"idle"} \cup Awaiting \cup Ended]
  /\ token \in [Check -> {{}} \cup {{t} : t \in Token}]
  /\ DOMAIN worn = Check /\ DOMAIN confirmed = Check /\ DOMAIN steady = Check

(* A binding is confirmed only on the word of both sides: its agentId signed   *)
(* it, and while the check ran some one token declared its wallet and, then or *)
(* later, published its agentId.  No index entry, no wallet given up before    *)
(* the check began and no mixture of two tokens confirms it                    *)
(* (erc8004.ts:84-101, erc8004Registry.ts:228-240).                            *)
ConfirmedByBothSides ==
  \A c \in Check : pc[c] = "ok" => VerifyWalletBinding(Binding[c]) /\ confirmed[c] # {}

(* A binding the registry agreed with from the start of its check to the end   *)
(* is not refused when the index named that token, whatever is written to      *)
(* other tokens and whichever other checks run.                                *)
StandingBindingNotRefused ==
  \A c \in Check :
    pc[c] = "refused" /\ VerifyWalletBinding(Binding[c]) => token[c] \cap steady[c] = {}

(* Every check ends, the client loading or not. *)
EveryCheckEnds == \A c \in Check : pc[c] \in Awaiting ~> pc[c] \in Ended

(* Each answer a check has used was true when it was read. *)
ReadsRemembered ==
  \A c \in Check :
    /\ pc[c] \in Awaiting => VerifyWalletBinding(Binding[c])
    /\ pc[c] = "key" => token[c] \subseteq worn[c] /\ token[c] # {}

RegistryInv == TypeOK /\ ReadsRemembered /\ ConfirmedByBothSides /\ StandingBindingNotRefused
=============================================================================
