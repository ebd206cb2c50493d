-------------------------- MODULE MCTurboScenarios --------------------------
(***************************************************************************)
(* Two bounded instances of TurboTransfer that one run of TLC checks, so   *)
(* that every property is asked of both.  The first is the one the         *)
(* configuration names: one transfer, several faults, replies later than   *)
(* their deadline.  In the second a transfer follows another, on either    *)
(* machine, with one fault of any kind, a repeated reply among them.       *)
(***************************************************************************)
EXTENDS MCTurboTransfer

VARIABLE scenario

Again == INSTANCE TurboTransfer WITH
             Models <- {"Machinedrum", "Monomachine"}, Payloads <- FilesOfBoth,
             LateReplies <- FALSE, Faults <- Faults \cup {"duplicate"}, MaxFaults <- 1,
             MaxTransfers <- 2, MaxCancels <- 2

InFaults == scenario = "faults"
InAgain == scenario = "again"

ScenariosInit ==
    \/ scenario = "faults" /\ Init
    \/ scenario = "again" /\ Again!Init

ScenariosNext ==
    /\ \/ InFaults /\ Next
       \/ InAgain /\ Again!Next
    /\ UNCHANGED scenario

\* The fairness of either instance, as TurboTransfer states it.
ScenariosFairness ==
    /\ WF_vars(\E ticks \in {0, 1} : \/ InFaults /\ Service(ticks, TRUE)
                                     \/ InAgain /\ Again!Service(ticks, TRUE))
    /\ WF_vars(\/ InFaults /\ (DeviceByte \/ DeviceMessage)
               \/ InAgain /\ (Again!DeviceByte \/ Again!DeviceMessage))
    /\ WF_vars(\/ InFaults /\ DeviceReply
               \/ InAgain /\ Again!DeviceReply)
    /\ WF_vars(\/ InFaults /\ (ShowReceiveStep \/ ResumeReceiveMode)
               \/ InAgain /\ (Again!ShowReceiveStep \/ Again!ResumeReceiveMode))

ScenariosSpec == ScenariosInit /\ [][ScenariosNext]_<<vars, scenario>> /\ ScenariosFairness
=============================================================================
