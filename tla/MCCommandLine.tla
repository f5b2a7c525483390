---------------------------- MODULE MCCommandLine ----------------------------
(***************************************************************************)
(* Small instances of what the command line runs, side by side in one      *)
(* model: a beta campaign two processes enter, the live and the demo       *)
(* volume runners, the recovery of a beta plan and the campaign console.   *)
(* They share no state: the initial state picks the one that runs, and the *)
(* others rest.                                                            *)
(***************************************************************************)
EXTENDS BetaCampaign, LiveVolume, DemoVolume, PlanRecovery, CampaignConsole

VARIABLE command

allVars == <<command, vars, liveVars, demoVars, planVars, consoleVars>>

\* The states the others rest in.
LiveRests == LiveInit /\ \A side \in Sides : lots[side] = 0
DemoRests == DemoInit /\ runner = "single" /\ demoLots = 0
PlanRests == RecoveryInit /\ \A r \in Recoverers : recoverer[r].symbol = "BTC"

CommandInit ==
    \/ /\ command = "campaign" /\ Init
       /\ LiveRests /\ DemoRests /\ PlanRests /\ ConsoleInit /\ atRest
    \/ /\ command = "live" /\ LiveInit
       /\ Init /\ ~exposed /\ DemoRests /\ PlanRests /\ ConsoleInit /\ atRest
    \/ /\ command = "demo" /\ DemoInit
       /\ Init /\ ~exposed /\ LiveRests /\ PlanRests /\ ConsoleInit /\ atRest
    \/ /\ command = "recovery" /\ RecoveryInit
       /\ Init /\ ~exposed /\ LiveRests /\ DemoRests /\ ConsoleInit /\ atRest
    \/ /\ command = "console" /\ ConsoleInit
       /\ Init /\ ~exposed /\ LiveRests /\ DemoRests /\ PlanRests

CommandNext ==
    /\ command' = command
    /\ \/ /\ command = "campaign" /\ Next
          /\ UNCHANGED <<liveVars, demoVars, planVars, consoleVars>>
       \/ /\ command = "live" /\ LiveNext
          /\ UNCHANGED <<vars, demoVars, planVars, consoleVars>>
       \/ /\ command = "demo" /\ DemoNext
          /\ UNCHANGED <<vars, liveVars, planVars, consoleVars>>
       \/ /\ command = "recovery" /\ RecoveryNext
          /\ UNCHANGED <<vars, liveVars, demoVars, consoleVars>>
       \/ /\ command = "console" /\ ConsoleNext
          /\ UNCHANGED <<vars, liveVars, demoVars, planVars>>

volumeVars == <<liveVars, demoVars>>
VolumeStep == \/ command = "live" /\ SessionStep /\ UNCHANGED demoVars
              \/ command = "demo" /\ DemoStep /\ UNCHANGED liveVars

\* The fairness of each command, for the one that runs.
CommandFairness ==
    /\ \A p \in Runners : WF_vars(command = "campaign" /\ RunnerStep(p))
    /\ WF_volumeVars(VolumeStep)

CommandSpec == CommandInit /\ [][CommandNext]_allVars /\ CommandFairness

\* The states have their types.
CommandsTyped == LiveTypeOK /\ DemoTypeOK /\ RecoveryTypeOK /\ ConsoleTypeOK

\* What a campaign, a live run and a demo run save or report at their end is
\* true of the account and of the volume that traded.
VerdictsAreTrue == OutcomeIsTrue /\ LiveVerdictIsTrue /\ DemoVerdictIsTrue

\* Nothing starts over something unresolved: a live round over an open
\* position, a recovery over a session or over another recovery of its symbol,
\* a campaign over one that ended uncertain.
StartsAreSafe == CommandsTyped /\ RoundsOpenAtRest /\ RecoveryIsAlone /\ UncertainBlocks

\* Every process of a campaign ends, and so does a live and a demo run.
CommandsEnd == RunnersEnd /\ LiveRunEnds /\ DemoRunEnds
=============================================================================
