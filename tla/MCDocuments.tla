---------------------------- MODULE MCDocuments ----------------------------
(* A small instance of Documents for TLC.  The cache's documents are an agent's  *)
(* disclosure and its re-issue dated ahead of the verifier's clock.              *)
EXTENDS Documents, TLC

CONSTANTS k1, k2, m1, m2, r1, r2, s1, v1, u1, u2

Claims ==
  [enforced |-> TRUE, hardConstraints |-> {}, redTeam |-> {}, custody |-> "non_custodial",
   level |-> "none", totalDecisions |-> 1, anchored |-> TRUE, model |-> {},
   provenance |-> {}, operatorId |-> "op"]

Issue(nonce, from) ==
  SignDisclosure("v1",
    [disclosureId |-> nonce, agentId |-> k1, nonce |-> nonce, issuedAt |-> from,
     validUntil |-> from + 1, version |-> 1, claims |-> Claims], k1, <<>>)

MCDocument == {Issue("n1", 0), Issue("n2", 1)}

---------------------------------------------------------------------------
(* Negotiation: one document with every field a policy can ask for, and its       *)
(* weaker sibling with no model and no red team.                                   *)
Rated(grade, hardFails) == {[grade |-> grade, hardFails |-> hardFails]}

Meta(key, anchored) == [agentId |-> key, disclosureId |-> key, anchored |-> anchored]

MCPrepared ==
  {[meta |-> Meta(k1, TRUE), fields |->
      [systemPrompt |-> "prompt", constitution |-> [enforced |-> TRUE, hardConstraints |-> {"cap"}],
       capital |-> "non_custodial", operator |-> [level |-> "signed", operatorId |-> "op"],
       history |-> 1, redTeam |-> Rated("B", 1), model |-> {m1}, provenance |-> {"capital"}]],
   [meta |-> Meta(k1, TRUE), fields |->
      [systemPrompt |-> "prompt", constitution |-> [enforced |-> FALSE, hardConstraints |-> {}],
       capital |-> "custodial", operator |-> [level |-> "none", operatorId |-> "op"],
       history |-> 0]]}

Asks == [statesHardFails |-> FALSE, requireValidSignature |-> TRUE, requireFresh |-> FALSE,
   requireEnforcedConstitution |-> FALSE, requiredHardConstraints |-> {},
   requireRedTeam |-> FALSE, minRedTeamGrade |-> {}, maxRedTeamHardFails |-> 0,
   requireNonCustodial |-> FALSE, minAttestationLevel |-> {},
   requireDeploymentHistory |-> FALSE, requireAuditAnchor |-> FALSE,
   requireModelFingerprint |-> FALSE, allowedModelDigests |-> {},
   requireProvenanceFor |-> {}, disreputable |-> {}]

MCPolicy ==
  [Asks EXCEPT !.requireFresh = TRUE, !.requireEnforcedConstitution = TRUE,
               !.requireNonCustodial = TRUE]

MCAskedPolicy ==
  {[Asks EXCEPT !.requireEnforcedConstitution = TRUE, !.requireNonCustodial = TRUE],
   [Asks EXCEPT !.requiredHardConstraints = {"cap"}, !.requireDeploymentHistory = TRUE,
                !.requireAuditAnchor = TRUE],
   [Asks EXCEPT !.minRedTeamGrade = {"A"}, !.statesHardFails = TRUE, !.requireRedTeam = TRUE],
   [Asks EXCEPT !.allowedModelDigests = {m1}, !.minAttestationLevel = {"registry_attested"},
                !.requireProvenanceFor = {"capital"}, !.disreputable = {"op"}]}

---------------------------------------------------------------------------
PostureOf(enforced, constraints, grades, custody, level) ==
  [Claims EXCEPT !.enforced = enforced, !.hardConstraints = constraints,
                 !.redTeam = {[grade |-> g, hardFails |-> 0] : g \in grades},
                 !.custody = custody, !.level = level] @@ [systemPrompt |-> custody]

MCPosture ==
  {PostureOf(TRUE, {"cap", "halt"}, {"A"}, "non_custodial", "registry_attested"),
   PostureOf(TRUE, {"cap", "log"}, {"C"}, "non_custodial", "registry_attested"),
   PostureOf(TRUE, {"halt", "log"}, {}, "custodial", "signed"),
   PostureOf(FALSE, {"cap", "halt"}, {"B"}, "non_custodial", "none"),
   PostureOf(TRUE, {"log"}, {"F"}, "custodial", "registry_attested")}

MCHeldPolicy ==
  {[Asks EXCEPT !.requireEnforcedConstitution = TRUE], [Asks EXCEPT !.requireNonCustodial = TRUE],
   [Asks EXCEPT !.minAttestationLevel = {"signed"}],
   [Asks EXCEPT !.requireRedTeam = TRUE, !.minRedTeamGrade = {"B"}]}
  \cup {[Asks EXCEPT !.requiredHardConstraints = {c}] : c \in {"cap", "halt", "log"}}

---------------------------------------------------------------------------
Mandate(id, cap, status, at) == [id |-> id, cap |-> cap, status |-> status, grantedAt |-> at]

PolicyWith(mandates, rules) ==
  [mandates |-> mandates, denyRuleIds |-> rules]

Deny(times) == [rule |-> times]

MCGatePolicy ==
  {PolicyWith(<<Mandate(1, 1, "active", 0), Mandate(2, 3, "active", 0)>>, Deny(1)),
   PolicyWith(<<Mandate(2, 3, "active", 1), Mandate(1, 1, "active", 0)>>, Deny(1)),
   PolicyWith(<<Mandate(1, 1, "active", 0), Mandate(2, 3, "revoked", 0)>>, Deny(1)),
   PolicyWith(<<Mandate(1, 1, "active", 0), Mandate(1, 3, "active", 0)>>, Deny(1)),
   PolicyWith(<<Mandate(1, 3, "active", 0), Mandate(1, 1, "active", 0)>>, Deny(2))}

MCIntent == {[amount |-> 2, rule |-> "none"], [amount |-> 1, rule |-> "rule"]}

---------------------------------------------------------------------------
Statement(kind, min, max) == [kind |-> kind, min |-> min, max |-> max]

MCPredicate ==
  {Statement("gte", 3, 0), Statement("gte", 5, 0), Statement("lte", 0, 5), Statement("lte", 0, 9),
   Statement("range", 2, 8)}

---------------------------------------------------------------------------
World(level) == [scheme |-> "WorldID", verificationLevel |-> level]

SelfOf(onchain, valid, sanctioned) ==
  [scheme |-> "Self", onchain |-> onchain, claimsValid |-> valid, sanctioned |-> sanctioned]

Passport(carried, threshold, passing) ==
  [scheme |-> "HumanPassport", score |-> carried, threshold |-> threshold, passing |-> passing]

Wallet(signer) == [scheme |-> "WorldAgent", address |-> "w1", signer |-> signer]

MCCredential ==
  {World("orb"), World("device"), SelfOf(TRUE, FALSE, FALSE), SelfOf(TRUE, FALSE, TRUE),
   SelfOf(FALSE, TRUE, FALSE), SelfOf(FALSE, TRUE, TRUE), Passport({2}, {}, {}),
   Passport({}, {1}, {TRUE}), Wallet("w1"), Wallet("w2")}

MCLiveScore ==
  {[score |-> 0, passing |-> {}, threshold |-> {}], [score |-> 1, passing |-> {}, threshold |-> {}],
   [score |-> 2, passing |-> {FALSE}, threshold |-> {}],
   [score |-> 2, passing |-> {}, threshold |-> {3}]}

---------------------------------------------------------------------------
MCScoredVerdict == {[decision |-> "transact", disclosureId |-> "d"], [decision |-> "refuse", disclosureId |-> "d"]}

MCScoreOverride == {{}, {0}, {50}, {101}}

---------------------------------------------------------------------------
Envelope(key, until) ==
  SignDisclosure("v1",
    [disclosureId |-> key, agentId |-> key, nonce |-> key, issuedAt |-> 0, validUntil |-> until,
     version |-> 1, claims |-> Claims], key, <<>>)

Body(json, envelope, payload, form, depth) ==
  [json |-> json, envelope |-> envelope, payload |-> payload, depth |-> depth,
   signed |-> SignDisclosure(form, Envelope(k1, 1).disclosure, k1, <<>>)]

MCPosted ==
  {Body(FALSE, FALSE, FALSE, "v1", 0), Body(TRUE, FALSE, FALSE, "v1", 0),
   Body(TRUE, TRUE, FALSE, "jws", 0), Body(TRUE, TRUE, TRUE, "jws", 2),
   Body(TRUE, TRUE, TRUE, "v1", 1), Body(TRUE, TRUE, TRUE, "v1", 2)}

MCServed == {Envelope(k1, 1), Envelope(k2, 1), [Envelope(k1, 1) EXCEPT !.publicKey = k2]}

---------------------------------------------------------------------------
Graded(key, grades, custody) ==
  [disclosureId |-> "d", agentId |-> key, nonce |-> "n", issuedAt |-> 0, validUntil |-> 1,
   version |-> 1,
   claims |-> [Claims EXCEPT !.custody = custody, !.enforced = custody = "non_custodial",
                             !.totalDecisions = IF custody = "custodial" THEN 0 ELSE 1,
                             !.redTeam = {[grade |-> g, hardFails |-> 0] : g \in grades}]]

MCEdits ==
  "doc" :> {[kind |-> "document", document |-> Graded("k1", {"B"}, "non_custodial")],
            [kind |-> "document", document |-> Graded("k1", {}, "custodial")]}
  @@ "key" :> {[kind |-> "hex", key |-> "k1"]}
  @@ "signed" :> {[kind |-> "signed", envelope |->
       [SignDisclosure("v1", Graded("k1", {}, "custodial"), "k1", <<>>)
          EXCEPT !.disclosure = Graded("k1", {"A"}, "non_custodial")]]}

MCHosted == {SignDisclosure("v1", Graded("k1", {"B"}, "non_custodial"), "k1", <<>>)}

Flags == {<<"--require-enforced">>, <<"--non-custodial">>, <<"--require-history">>,
          <<"--min-grade", "A">>, <<"--min-grade", "C">>, <<"--min-grade">>, <<"--now", "t0">>,
          <<"--now">>, <<"--unknown">>}

MCCommandLine ==
  {<<"keygen">>, <<"keygen", "--out", "key">>, <<"sign", "--in", "doc", "--key", "k2">>,
   <<"sign", "--in", "doc", "--key", "key", "--out", "signed">>,
   <<"sign", "--key", "key", "--in">>, <<"sign", "--in", "doc">>, <<"verify-file">>,
   <<"verify-url">>}
  \cup {<<command, "signed">> \o f : command \in {"verify-file", "verify-url"}, f \in Flags}
  \cup {<<"verify-file">> \o f \o g \o <<"signed">> : f, g \in Flags}
  \cup {<<"verify-file", "signed">> \o f \o g \o h : f, g \in Flags,
                                                     h \in {<<"--non-custodial">>, <<"--min-grade", "A">>}}
  \cup {<<"verify-file">> \o f \o <<"signed">> \o g \o h :
           f \in {<<"--out", "--out">>, <<"--key", "doc">>}, g \in {<<"--out">>, <<"--now", "--now">>},
           h \in Flags}

MCTokenTime == [t0 |-> 0]

MCPath == {"doc", "key", "signed"}

MCCliKey == {"k1", "k2"}

MCDefaultPolicy == [Asks EXCEPT !.requireFresh = TRUE]
=============================================================================
