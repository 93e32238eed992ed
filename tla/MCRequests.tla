----------------------------- MODULE MCRequests -----------------------------
(* A small instance of Requests for TLC.  Two relying parties: the first knows   *)
(* the binding of the agent it expects and asks the registry; the second takes   *)
(* any agent and asks a directory of its own for keys.                           *)
EXTENDS Requests

CONSTANTS p1, p2, w1, w2, t1, n1, c1, c2

MCRules ==
  p1 :> [domain |-> "shop", path |-> "/pay", tags |-> {"payer"},
         expected |-> {[wallet |-> {w1}, token |-> t1]},
         asksRegistry |-> TRUE, asksDirectory |-> FALSE]
  @@ p2 :> [domain |-> "bank", path |-> "/pay", tags |-> {"payer"}, expected |-> {},
            asksRegistry |-> FALSE, asksDirectory |-> TRUE]

Document(w) == [agentId |-> w, disclosureId |-> w, validUntil |-> 0,
                constitution |-> w, capital |-> w]

Signed(w) == SignDisclosure("v1", Document(w), w, <<>>)

SignInOf(w, domain, statement, optional) ==
  [domain |-> domain, uri |-> domain, nonce |-> n1, issuedAt |-> 0, chainId |-> 1,
   registry |-> "registry", walletAddress |-> w, agentTokenId |-> t1,
   statement |-> statement, optional |-> optional]

Until(t) == [label \in {"ExpirationTime"} |-> {t}]

Never == [label \in {"ExpirationTime"} |-> {}]

MCSignInOptions ==
  {SignInOf(w1, "shop", <<>>, Until(1)),
   SignInOf(w2, "bank", << <<"", "welcome">> >>, Never @@ [label \in {"NotBefore"} |-> {1}]),
   SignInOf(w1, "shop", << <<"URI", "elsewhere">> >>, Until(2))}

Material(domain, w, expires) ==
  [authority |-> domain, path |-> "/pay", keyId |-> w, nonce |-> n1, created |-> 0,
   expires |-> expires, tag |-> "payer", label |-> "sig2"]

TapOf(domain, w, disclosed, expires) ==
  [signed |-> Signed(disclosed), signatureAgent |-> "directory",
   material |-> Material(domain, w, expires), key |-> w, embed |-> TRUE]

MCTapOptions ==
  {TapOf("shop", w1, w1, 1), TapOf("bank", w1, w1, 0), TapOf("shop", w2, w2, 1),
   TapOf("shop", w2, w1, 1)}

MCCardOptions ==
  {[card |-> [name |-> "agent", extensions |-> <<>>, signatures |-> {}],
    signed |-> Signed(w), embed |-> TRUE, url |-> {}, key |-> k, kid |-> {k}] :
      w \in {w1}, k \in {w1, w2}}

Presentation(key, reveal, domain) ==
  [document |-> Document(w1), key |-> key, salt |-> "salt", decoys |-> 1, holderKey |-> w2,
   reveal |-> reveal, aud |-> domain, nonce |-> n1]

(* The last is issued by a key its agentId does not name. *)
MCPresentOptions ==
  {Presentation(w1, reveal, domain) :
     reveal \in {{"constitution"}, {"constitution", "capital"}}, domain \in {"shop", "bank"}}
  \cup {Presentation(w2, {"capital"}, "shop")}
=============================================================================
