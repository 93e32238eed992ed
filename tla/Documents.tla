----------------------------- MODULE Documents -----------------------------
(***************************************************************************)
(* What is done with a disclosure outside a payment.  The parts share keys,  *)
(* signatures, documents and the evaluation of a policy, but no state: each  *)
(* run of the system is on one duty and takes the steps of that part, while  *)
(* the others rest in their first state.                                     *)
(***************************************************************************)
EXTENDS Cache, Negotiation, Monitoring, Enforcement, StatusList, ZkRange,
        OperatorLevels, Bridges, Validation, VerifierService, Cli

VARIABLE duty

Parts ==
  <<vars, negotiation, monitoring, enforcement, statusList, zk, levels, bridges, validation, service,
    cli>>

First(S) == CHOOSE x \in S : TRUE

DocumentsInit ==
  /\ duty \in {"cache", "negotiation", "monitoring", "enforcement", "status", "zk", "levels",
               "bridges", "validation", "service", "discovery", "cli"}
  /\ Init /\ NegotiationInit /\ StatusInit /\ ZkInit /\ BridgesInit /\ ValidationInit
  /\ MonitoringInit /\ (duty # "monitoring" => posture = First(Posture))
  /\ EnforcementInit /\ (duty # "enforcement" => gate = First(GatePolicy))
  /\ LevelsInit /\ (duty # "levels" => score = First(LiveScore))
  /\ ServiceInit /\ (duty # "discovery" => served = First([Url -> Served]))
  /\ CliInit /\ (duty # "cli" => host = First(Hosted))

DocumentsNext ==
  /\ UNCHANGED duty
  /\ \/ /\ duty = "cache" /\ Next
        /\ UNCHANGED <<negotiation, monitoring, enforcement, statusList, zk, levels,
                       bridges, validation, service, cli>>
     \/ /\ duty = "negotiation" /\ NegotiationNext
        /\ UNCHANGED <<vars, monitoring, enforcement, statusList, zk, levels, bridges,
                       validation, service, cli>>
     \/ /\ duty = "monitoring" /\ MonitoringNext
        /\ UNCHANGED <<vars, negotiation, enforcement, statusList, zk, levels, bridges,
                       validation, service, cli>>
     \/ /\ duty = "enforcement" /\ EnforcementNext
        /\ UNCHANGED <<vars, negotiation, monitoring, statusList, zk, levels, bridges,
                       validation, service, cli>>
     \/ /\ duty = "status" /\ StatusNext
        /\ UNCHANGED <<vars, negotiation, monitoring, enforcement, zk, levels, bridges,
                       validation, service, cli>>
     \/ /\ duty = "zk" /\ ZkNext
        /\ UNCHANGED <<vars, negotiation, monitoring, enforcement, statusList, levels,
                       bridges, validation, service, cli>>
     \/ /\ duty = "levels" /\ LevelsNext
        /\ UNCHANGED <<vars, negotiation, monitoring, enforcement, statusList, zk,
                       bridges, validation, service, cli>>
     \/ /\ duty = "bridges" /\ BridgesNext
        /\ UNCHANGED <<vars, negotiation, monitoring, enforcement, statusList, zk, levels,
                       validation, service, cli>>
     \/ /\ duty = "validation" /\ ValidationNext
        /\ UNCHANGED <<vars, negotiation, monitoring, enforcement, statusList, zk, levels,
                       bridges, service, cli>>
     \/ /\ duty = "service" /\ ServiceNext
        /\ UNCHANGED <<vars, negotiation, monitoring, enforcement, statusList, zk, levels,
                       bridges, validation, cli>>
     \/ /\ duty = "discovery" /\ DiscoveryNext
        /\ UNCHANGED <<vars, negotiation, monitoring, enforcement, statusList, zk, levels,
                       bridges, validation, cli>>
     \/ /\ duty = "cli" /\ CliNext
        /\ UNCHANGED <<vars, negotiation, monitoring, enforcement, statusList, zk, levels,
                       bridges, validation, service>>

DocumentsSpec == DocumentsInit /\ [][DocumentsNext]_<<duty, Parts>>
=============================================================================
