-------------------------------- MODULE Cli --------------------------------
(***************************************************************************)
(* The command line (cli.ts): keygen, sign, verify-file and verify-url over  *)
(* the files of one directory and one host.                                  *)
(*                                                                           *)
(* An argument is a token: a flag, a path, a time, a grade or a key in hex.  *)
(* A private key in hex is named by the key.  An exit code is what the user  *)
(* sees of a run.                                                            *)
(***************************************************************************)
EXTENDS Policy

CONSTANTS
  CommandLine,   \* the command lines run
  CliKey,        \* keys keygen may mint
  Path,          \* files
  Edits,         \* Edits[p]: what the user may put in file p by hand
  TokenTime,     \* TokenTime[t]: where a token falls among the timestamps
  DefaultPolicy, \* the policy without flags, the clock apart
  Hosted,        \* the envelopes the host may serve
  CliNow         \* the clock of the machine

VARIABLES
  files,     \* files[p]: what the file holds
  host,      \* the envelope verify-url is served
  ran        \* {} or the run that just ended: its line, its exit code, the files and host it met

cli == <<files, host, ran>>

ValueFlags == {"--out", "--in", "--key", "--min-grade", "--now"}

(* Whatever starts with two dashes; one the policy does not know is not an error. *)
IsFlag(token) == token \in ValueFlags \cup
  {"--require-enforced", "--non-custodial", "--require-history", "--unknown"}

Grades == {"A", "B", "C", "D", "F"}

(* A verification never reads the value of the others: --out, --in and --key. *)
PolicyValue == {"--now", "--min-grade"}

(* What the user types, and what a file or a host may hold by then: dates are dates, *)
(* and the policy checks signature and freshness as it does when nothing is said of  *)
(* them.  A time is compared as a string, date or not: a token outside TokenTime is   *)
(* one that sorts before every timestamp, as a flag does, or after, as a grade does.   *)
ASSUME CliAssumption ==
  /\ CommandLine \subseteq Seq(STRING) \ {<<>>}
  /\ \A t \in DOMAIN TokenTime : ~IsFlag(t)
  /\ \A p \in Path : \A content \in Edits[p] :
       /\ content.kind = "document" => content.document.issuedAt \in Nat
       /\ content.kind = "signed" => content.envelope.disclosure.issuedAt \in Nat
  /\ Hosted # {} /\ \A envelope \in Hosted : envelope.disclosure.issuedAt \in Nat
  /\ DefaultPolicy.requireValidSignature /\ DefaultPolicy.requireFresh
  /\ {"requireValidSignature", "requireFresh", "requireEnforcedConstitution",
      "requireNonCustodial", "requireDeploymentHistory", "minRedTeamGrade"}
       \subseteq DOMAIN DefaultPolicy

(* A value flag takes the next token for its value, whatever it is; the last of    *)
(* two wins.                                                                        *)
ParseToken(args, token) ==
  IF args.want # "" THEN [args EXCEPT !.flags[args.want] = {token}, !.want = ""]
  ELSE IF token \in ValueFlags THEN [args EXCEPT !.want = token]
  ELSE IF IsFlag(token) THEN [args EXCEPT !.bools = @ \cup {token}]
  ELSE [args EXCEPT !.positionals = Append(@, token)]

NoArgs ==
  [want |-> "", positionals |-> <<>>, flags |-> [f \in ValueFlags |-> {}], bools |-> {}]

ParseArgs(argv) ==
  LET parsed[n \in 0..Len(argv)] ==
        IF n = 0 THEN NoArgs ELSE ParseToken(parsed[n - 1], argv[n])
  IN parsed[Len(argv)]

(* A slip: a grade that is none asks nothing. *)
BuildPolicyLoosely(args) ==
  {[DefaultPolicy EXCEPT
      !.requireEnforcedConstitution = "--require-enforced" \in args.bools,
      !.requireNonCustodial = "--non-custodial" \in args.bools,
      !.requireDeploymentHistory = "--require-history" \in args.bools,
      !.minRedTeamGrade = args.flags["--min-grade"] \cap Grades]}

(* {} when it throws. *)
BuildPolicy(args) ==
  IF args.flags["--min-grade"] \subseteq Grades
  THEN {[DefaultPolicy EXCEPT
           !.requireEnforcedConstitution = "--require-enforced" \in args.bools,
           !.requireNonCustodial = "--non-custodial" \in args.bools,
           !.requireDeploymentHistory = "--require-history" \in args.bools,
           !.minRedTeamGrade = args.flags["--min-grade"]]}
  ELSE {}

(* A token that sorts outside all timestamps makes no document fresh. *)
NowOf(args) ==
  IF args.flags["--now"] = {} THEN CliNow
  ELSE LET token == CHOOSE x \in args.flags["--now"] : TRUE IN
       IF token \in DOMAIN TokenTime THEN TokenTime[token] ELSE -1

(* A key given inline, or the whole text of the file. *)
ResolveKeyHex(token) ==
  IF token \in CliKey THEN {token}
  ELSE IF token \in Path /\ files[token].kind = "hex" THEN {files[token].key}
  ELSE {}

---------------------------------------------------------------------------
Exit(line, code) ==
  ran' = {[line |-> line, code |-> code, files |-> files, host |-> host]}

Keygen(line, args) ==
  \E key \in CliKey :
    /\ files' = [p \in Path |->
         IF p \in args.flags["--out"] THEN [kind |-> "keyJson", key |-> key] ELSE files[p]]
    /\ Exit(line, 0)

(* The document is read and parsed first, then the key; agentId and key may differ. *)
Sign(line, args) ==
  IF args.flags["--in"] = {} \/ args.flags["--key"] = {}
  THEN UNCHANGED files /\ Exit(line, 2)
  ELSE \E in \in args.flags["--in"], token \in args.flags["--key"] :
    IF in \in Path /\ files[in].kind = "document" /\ ResolveKeyHex(token) # {}
    THEN \E key \in ResolveKeyHex(token) :
           /\ files' = [p \in Path |->
                IF p \in args.flags["--out"]
                THEN [kind |-> "signed",
                      envelope |-> SignDisclosure("v1", files[in].document, key, <<>>)]
                ELSE files[p]]
           /\ Exit(line, 0)
    ELSE UNCHANGED files /\ Exit(line, 1)

Verdict(envelope, args) ==
  IF \E policy \in BuildPolicy(args) : EvaluateDisclosure(envelope, policy, NowOf(args), {}) = {}
  THEN 0 ELSE 1

VerifyFile(line, args) ==
  /\ UNCHANGED files
  /\ IF args.positionals = <<>> THEN Exit(line, 2)
     ELSE IF args.positionals[1] \in Path /\ files[args.positionals[1]].kind = "signed"
     THEN Exit(line, Verdict(files[args.positionals[1]].envelope, args))
     ELSE Exit(line, 1)

(* verifyCounterparty, without its handshake, which may fail. *)
VerifyUrl(line, args) ==
  /\ UNCHANGED files
  /\ IF args.positionals = <<>> THEN Exit(line, 2)
     ELSE \E code \in {1, Verdict(host, args)} : Exit(line, code)

RunCli(line) ==
  LET args == ParseArgs(Tail(line)) IN
  /\ ran = {}
  /\ UNCHANGED host
  /\ IF args.want # "" THEN UNCHANGED files /\ Exit(line, 2)
     ELSE \/ Head(line) = "keygen" /\ Keygen(line, args)
          \/ Head(line) = "sign" /\ Sign(line, args)
          \/ Head(line) = "verify-file" /\ VerifyFile(line, args)
          \/ Head(line) = "verify-url" /\ VerifyUrl(line, args)

CliInit ==
  /\ files = [p \in Path |-> [kind |-> "absent"]]
  /\ host \in Hosted
  /\ ran = {}

Edit ==
  /\ \E p \in Path : \E content \in Edits[p] : files' = [files EXCEPT ![p] = content]
  /\ ran' = {}
  /\ UNCHANGED host

HostChanges ==
  /\ host' \in Hosted /\ ran' = {}
  /\ UNCHANGED files

(* The shell is ready for the next line. *)
Prompt ==
  /\ ran # {} /\ ran' = {}
  /\ UNCHANGED <<files, host>>

CliNext == Prompt \/ Edit \/ HostChanges \/ \E line \in CommandLine : RunCli(line)

---------------------------------------------------------------------------
(* A token is taken for a value when the one before it is a value flag that is not *)
(* itself taken.                                                                      *)
Taken(line) ==
  LET taken[i \in DOMAIN line] == i > 1 /\ line[i - 1] \in ValueFlags /\ ~taken[i - 1]
  IN taken

(* Taken at i, and the flag before it is not stated again. *)
LastValue(line, i) ==
  /\ Taken(line)[i]
  /\ ~\E k \in (i + 1)..Len(line) : line[k] = line[i - 1] /\ ~Taken(line)[k]

(* The line says it, even where --now or --min-grade takes it for a value. *)
SaidFlag(line, flag) ==
  \E i \in DOMAIN line :
    /\ line[i] = flag
    /\ Taken(line)[i] => line[i - 1] \in PolicyValue /\ LastValue(line, i)

(* The grade after the last --min-grade. *)
SaidGrade(line) ==
  {line[i] : i \in {j \in 2..Len(line) : line[j - 1] = "--min-grade" /\ LastValue(line, j)}}

(* A token that is neither a flag, nor the value of one, nor the command. *)
Operand(line, i) == i \in 2..Len(line) /\ ~Taken(line)[i] /\ ~IsFlag(line[i])

(* The file named by the first operand, or what the host served. *)
Verified(r) ==
  IF Head(r.line) = "verify-url" THEN {r.host}
  ELSE {r.files[p].envelope : p \in {q \in Path :
          /\ r.files[q].kind = "signed"
          /\ \E i \in DOMAIN r.line :
               /\ r.line[i] = q /\ Operand(r.line, i)
               /\ \A k \in 2..(i - 1) : ~Operand(r.line, k)}}

(* Exit code 0 of a verification means that the document named passes every policy *)
(* flag on the line, in whatever order and wherever, and that a grade was read       *)
(* where one was asked for.  One that --now or --min-grade has taken for its value    *)
(* makes the run fail, unless that flag is stated again; one that --out, --in or      *)
(* --key has taken is lost and nobody is told (cli.ts:76-112, 181-215).               *)
FlagsAreAsked ==
  \A r \in ran : r.code = 0 /\ Head(r.line) \in {"verify-file", "verify-url"} =>
    \E s \in Verified(r) :
      LET claims == s.disclosure.claims IN
      /\ VerifyAnyDisclosureSignature(s)
      /\ SaidFlag(r.line, "--require-enforced") => claims.enforced
      /\ SaidFlag(r.line, "--non-custodial") => claims.custody = "non_custodial"
      /\ SaidFlag(r.line, "--require-history") => claims.totalDecisions > 0
      /\ SaidFlag(r.line, "--min-grade") => SaidGrade(r.line) # {}
      /\ \A grade \in SaidGrade(r.line) :
           /\ grade \in Grades
           /\ \A red \in claims.redTeam : GradeRank[red.grade] >= GradeRank[grade]
=============================================================================
