--------------------------- MODULE RegistryProofs ---------------------------
(***************************************************************************)
(* Theorems about Registry, for any number of tokens, wallets, keys and     *)
(* checks, and any number of writes to the registry.                        *)
(***************************************************************************)
EXTENDS Registry, TLAPS

LEMMA InitSound == Init => RegistryInv
BY DEF Init, RegistryInv, TypeOK, ReadsRemembered, ConfirmedByBothSides,
       StandingBindingNotRefused, Awaiting, Ended

(* What a step of any kind does to the history of a check. *)
LEMMA HistoryOf ==
  ASSUME Watch, NEW c \in Check
  PROVE  /\ worn[c] \subseteq worn'[c]
         /\ confirmed[c] \subseteq confirmed'[c]
         /\ steady'[c] \subseteq steady[c]
         /\ Running(c) => /\ Wears(c) \subseteq worn'[c]
                          /\ worn'[c] \cap Publishes(c) \subseteq confirmed'[c]
                          /\ steady'[c] \subseteq Wears(c) \cap Publishes(c)
BY DEF Watch

(* A step that moves no check keeps the invariant. *)
LEMMA CheckFrame ==
  ASSUME RegistryInv, Watch, UNCHANGED check,
         DOMAIN wallet' = Token, DOMAIN published' = Token
  PROVE  RegistryInv'
<1> USE DEF RegistryInv, check
<1>1. TypeOK'
  BY DEF TypeOK, Watch
<1>2. ReadsRemembered'
  BY HistoryOf DEF ReadsRemembered
<1>3. ConfirmedByBothSides'
  BY HistoryOf DEF ConfirmedByBothSides
<1>4. StandingBindingNotRefused'
  BY HistoryOf DEF StandingBindingNotRefused
<1>5. QED
  BY <1>1, <1>2, <1>3, <1>4

(* A step of one check keeps the invariant if it does so for that check. *)
LEMMA CheckStep ==
  ASSUME RegistryInv, Watch, UNCHANGED registry, NEW c \in Check,
         NEW label \in Awaiting \cup Ended, pc' = [pc EXCEPT ![c] = label],
         token' \in [Check -> {{}} \cup {{t} : t \in Token}],
         \A x \in Check \ {c} : token'[x] = token[x],
         label \in Awaiting => VerifyWalletBinding(Binding[c]),
         label = "key" => token'[c] \subseteq worn'[c] /\ token'[c] # {},
         label = "ok" => VerifyWalletBinding(Binding[c]) /\ confirmed'[c] # {},
         label = "refused" /\ VerifyWalletBinding(Binding[c]) => token'[c] \cap steady'[c] = {}
  PROVE  RegistryInv'
<1> USE DEF RegistryInv
<1>1. pc' \in [Check -> {"idle"} \cup Awaiting \cup Ended] /\ pc'[c] = label
      /\ \A x \in Check \ {c} : pc'[x] = pc[x]
  BY DEF TypeOK
<1>2. TypeOK'
  BY <1>1 DEF TypeOK, Watch, registry
<1>3. ReadsRemembered'
  BY <1>1, HistoryOf DEF ReadsRemembered
<1>4. ConfirmedByBothSides'
  BY <1>1, HistoryOf DEF ConfirmedByBothSides
<1>5. StandingBindingNotRefused'
  BY <1>1, HistoryOf DEF StandingBindingNotRefused
<1>6. QED
  BY <1>2, <1>3, <1>4, <1>5

LEMMA StepSound == RegistryInv /\ [Next]_vars => RegistryInv'
<1> SUFFICES ASSUME RegistryInv, [Next]_vars PROVE RegistryInv'
  OBVIOUS
<1> USE DEF RegistryInv
<1>1. CASE UNCHANGED vars
  BY <1>1 DEF vars, registry, check, history, TypeOK, ReadsRemembered, ConfirmedByBothSides,
              StandingBindingNotRefused
<1>2. ASSUME NEW t \in Token, SetAgentWallet(t) \/ SetMetadata(t), Watch PROVE RegistryInv'
  BY <1>2, CheckFrame DEF SetAgentWallet, SetMetadata, Write, TypeOK
<1>3. ASSUME LoadClient, Watch PROVE RegistryInv'
  BY <1>3, CheckFrame DEF LoadClient, registry, TypeOK
<1>4. ASSUME NEW c \in Check, VerifyBindingOnchain(c), Watch PROVE RegistryInv'
  <2> DEFINE label == IF VerifyWalletBinding(Binding[c]) THEN "index" ELSE "refused"
  <2>1. pc' = [pc EXCEPT ![c] = label] /\ token' = token /\ UNCHANGED registry
    BY <1>4 DEF VerifyBindingOnchain, Goto
  <2>2. label \in Awaiting \cup Ended /\ label \notin {"key", "ok"}
    BY DEF Awaiting, Ended
  <2>3. /\ label \in Awaiting => VerifyWalletBinding(Binding[c])
        /\ label = "refused" => ~VerifyWalletBinding(Binding[c])
    BY DEF Awaiting
  <2>4. QED
    BY <1>4, <2>1, <2>2, <2>3, CheckStep DEF TypeOK
<1>5. ASSUME NEW c \in Check, IndexAnswers(c), Watch PROVE RegistryInv'
  <2>1. PICK t \in {{}} \cup {{x} : x \in Token} :
          /\ token' = [token EXCEPT ![c] = t]
          /\ Goto(c, IF t = {} THEN "refused" ELSE "wallet")
    BY <1>5 DEF IndexAnswers
  <2> DEFINE label == IF t = {} THEN "refused" ELSE "wallet"
  <2>2. pc' = [pc EXCEPT ![c] = label] /\ UNCHANGED registry /\ label \in Awaiting \cup Ended
    BY <1>5, <2>1 DEF IndexAnswers, Goto, Awaiting, Ended
  <2>3. VerifyWalletBinding(Binding[c])
    BY <1>5 DEF IndexAnswers, ReadsRemembered, Awaiting
  <2>4. /\ token' \in [Check -> {{}} \cup {{x} : x \in Token}]
        /\ token'[c] = t /\ \A x \in Check \ {c} : token'[x] = token[x]
    BY <2>1 DEF TypeOK
  <2>5. label # "key" /\ label # "ok" /\ (label = "refused" => t = {})
    OBVIOUS
  <2>6. QED
    BY <1>5, <2>2, <2>3, <2>4, <2>5, CheckStep
<1>6. ASSUME NEW c \in Check, ReadWallet(c), Watch PROVE RegistryInv'
  <2>1. PICK t \in token[c] :
          Goto(c, IF WalletConfirmed(t, Binding[c]) THEN "key" ELSE "refused")
    BY <1>6 DEF ReadWallet
  <2> DEFINE label == IF WalletConfirmed(t, Binding[c]) THEN "key" ELSE "refused"
  <2>2. /\ pc' = [pc EXCEPT ![c] = label] /\ UNCHANGED registry /\ token' = token
        /\ label \in Awaiting \cup Ended /\ label # "ok"
    BY <1>6, <2>1 DEF ReadWallet, Goto, Awaiting, Ended
  <2>3. VerifyWalletBinding(Binding[c]) /\ Running(c)
    BY <1>6 DEF ReadWallet, ReadsRemembered, Awaiting, Running
  <2>4. token[c] = {t} /\ t \in Token
    BY <2>1 DEF TypeOK
  <2>5. t \in Wears(c) <=> WalletConfirmed(t, Binding[c])
    BY <2>2, <2>4 DEF Wears, WalletConfirmed, registry
  <2>6. /\ label = "key" => token'[c] \subseteq worn'[c] /\ token'[c] # {}
        /\ label = "refused" => token'[c] \cap steady'[c] = {}
    BY <1>6, <2>2, <2>3, <2>4, <2>5, HistoryOf
  <2>7. QED
    BY <1>6, <2>2, <2>3, <2>6, CheckStep DEF TypeOK
<1>7. ASSUME NEW c \in Check, ReadPublishedAgentId(c), Watch PROVE RegistryInv'
  <2>1. PICK t \in token[c] :
          Goto(c, IF AgentIdConfirmed(t, Binding[c]) THEN "ok" ELSE "refused")
    BY <1>7 DEF ReadPublishedAgentId
  <2> DEFINE label == IF AgentIdConfirmed(t, Binding[c]) THEN "ok" ELSE "refused"
  <2>2. /\ pc' = [pc EXCEPT ![c] = label] /\ UNCHANGED registry /\ token' = token
        /\ label \in Awaiting \cup Ended /\ label \notin Awaiting
    BY <1>7, <2>1 DEF ReadPublishedAgentId, Goto, Awaiting, Ended
  <2>3. VerifyWalletBinding(Binding[c]) /\ Running(c) /\ token[c] \subseteq worn[c]
    BY <1>7 DEF ReadPublishedAgentId, ReadsRemembered, Awaiting, Running
  <2>4. token[c] = {t} /\ t \in Token
    BY <2>1 DEF TypeOK
  <2>5. t \in Publishes(c) <=> AgentIdConfirmed(t, Binding[c])
    BY <2>2, <2>4 DEF Publishes, AgentIdConfirmed, registry
  <2>6. /\ label = "ok" => confirmed'[c] # {}
        /\ label = "refused" => token'[c] \cap steady'[c] = {}
    BY <1>7, <2>2, <2>3, <2>4, <2>5, HistoryOf
  <2>7. QED
    BY <1>7, <2>2, <2>3, <2>6, CheckStep DEF TypeOK, Awaiting
<1>8. ASSUME NEW c \in Check, ReadFails(c), Watch PROVE RegistryInv'
  <2>1. pc' = [pc EXCEPT ![c] = "thrown"] /\ token' = token /\ UNCHANGED registry
    BY <1>8 DEF ReadFails, Goto
  <2>2. "thrown" \in Awaiting \cup Ended /\ "thrown" \notin Awaiting
    BY DEF Awaiting, Ended
  <2>3. QED
    BY <1>8, <2>1, <2>2, CheckStep DEF TypeOK
<1>9. QED
  BY <1>1, <1>2, <1>3, <1>4, <1>5, <1>6, <1>7, <1>8 DEF Next, Step, ReadSettles

(* RegistryInv, the invariant both safety properties are part of, always holds. *)
THEOREM InvariantHolds == Spec => []RegistryInv
BY InitSound, StepSound, PTL DEF Spec

(* A binding is confirmed only on the word of its agentId and of the registry. *)
THEOREM BothSidesConfirm == Spec => []ConfirmedByBothSides
<1>1. RegistryInv => ConfirmedByBothSides
  BY DEF RegistryInv
<1>2. QED
  BY InvariantHolds, <1>1, PTL

(* A binding the registry agreed with throughout its check is not refused.     *)
THEOREM StandingBindingHolds == Spec => []StandingBindingNotRefused
<1>1. RegistryInv => StandingBindingNotRefused
  BY DEF RegistryInv
<1>2. QED
  BY InvariantHolds, <1>1, PTL
=============================================================================
