---------------------------- MODULE SetupProofs -----------------------------
(***************************************************************************)
(* What holds of the setup for any number of AppImages: theorems about     *)
(* module Setup.                                                           *)
(***************************************************************************)
EXTENDS Setup, TLAPS

\* The commands of the privileged script, each with those that follow it.
AfterReload == {"enable", "start"}
AfterUnit == {"look", "default", "reload"} \cup AfterReload
AfterDaemon == {"unit"} \cup AfterUnit

\* What the script has done by the time it is at a command.  Nothing but a
\* launch changes the version, and nothing but the script the files, so what
\* has been done stays done until the script ends.
ScriptInv ==
  /\ version \in Versions
  /\ step \in AfterDaemon => daemon = version
  /\ step \in AfterUnit => unit = version
  /\ step \in AfterReload => loaded = version
  /\ step = "start" => enabled = "yes"

\* ... and after it: a crash or a reset starts the same daemon again.
DoneInv ==
  step = "idle" /\ outcome = "done" =>
    /\ daemon = version /\ unit = version /\ loaded = version
    /\ enabled = "yes"
    /\ process = [binary |-> version, unit |-> version]

SetupInv == ScriptInv /\ DoneInv

LEMMA ProcessOfVersion ==
  ASSUME NEW v \in Versions
  PROVE  /\ Process(v, v) = [binary |-> v, unit |-> v]
         /\ v # Nobody
BY VersionsAssumption DEF Process

LEMMA SetupInvInit == SetupInit => SetupInv
BY DEF SetupInit, SetupInv, ScriptInv, DoneInv, AfterReload, AfterUnit, AfterDaemon

LEMMA SetupInvNext == SetupInv /\ [SetupNext]_setupVars => SetupInv'
<1> SUFFICES ASSUME SetupInv, [SetupNext]_setupVars PROVE SetupInv'
  OBVIOUS
<1> USE DEF SetupInv, ScriptInv, DoneInv, AfterReload, AfterUnit, AfterDaemon,
            fileVars, systemdVars, End
<1>1. CASE \E v \in Versions : Launch(v)
  BY <1>1 DEF Launch, Elevate
<1>2. CASE InstallDaemon
  BY <1>2 DEF InstallDaemon, Install
<1>3. CASE InstallUnit
  BY <1>3 DEF InstallUnit, Install
<1>4. CASE LookForPreferences
  BY <1>4 DEF LookForPreferences
<1>5. CASE InstallPreferences
  BY <1>5 DEF InstallPreferences, Install
<1>6. CASE Reload
  BY <1>6 DEF Reload
<1>7. CASE Enable
  BY <1>7 DEF Enable
<1>8. CASE StartService
  BY <1>8, ProcessOfVersion DEF StartService, Restarted, UnitToStart
<1>9. CASE CommandFails
  BY <1>9 DEF CommandFails
<1>10. CASE SaveAndRestart
  BY <1>10 DEF SaveAndRestart, Elevate
<1>11. CASE SaveRestarts
  BY <1>11 DEF SaveRestarts, Restarted
<1>12. CASE DaemonDies
  BY <1>12, ProcessOfVersion DEF DaemonDies
<1>13. CASE Reboot
  BY <1>13, ProcessOfVersion DEF Reboot
<1>14. CASE UNCHANGED setupVars
  BY <1>14 DEF setupVars
<1> QED BY <1>1, <1>2, <1>3, <1>4, <1>5, <1>6, <1>7, <1>8, <1>9, <1>10, <1>11,
           <1>12, <1>13, <1>14 DEF SetupNext

(***************************************************************************)
(* A setup that ends well leaves its own version running and enabled,      *)
(* whatever any number of other AppImages left behind.                     *)
(***************************************************************************)
THEOREM DoneMeansRunningHolds == SetupSpec => []DoneMeansRunning
<1>1. SetupInv => DoneMeansRunning
  BY DEF SetupInv, DoneInv, DoneMeansRunning
<1> QED BY <1>1, SetupInvInit, SetupInvNext, PTL DEF SetupSpec

----------------------------------------------------------------------------
\* The test of the script's "if" still holds at its copy: only a save could
\* make it false, and the window it would be made in is not open yet.
LookedFor == step = "default" => preferences = Nobody

LEMMA LookedForInvariant == SetupSpec => []LookedFor
<1>1. SetupInit => LookedFor
  BY DEF SetupInit, LookedFor
<1>2. LookedFor /\ [SetupNext]_setupVars => LookedFor'
  <2> SUFFICES ASSUME LookedFor, [SetupNext]_setupVars PROVE LookedFor'
    OBVIOUS
  <2>1. CASE LookForPreferences
    BY <2>1 DEF LookForPreferences, LookedFor, fileVars
  <2>2. CASE DaemonDies \/ UNCHANGED setupVars
    BY <2>2 DEF DaemonDies, setupVars, fileVars, LookedFor
  <2>3. CASE \/ \E v \in Versions : Launch(v)
             \/ InstallDaemon \/ InstallUnit \/ InstallPreferences \/ Reload
             \/ Enable \/ StartService \/ CommandFails
             \/ SaveAndRestart \/ SaveRestarts \/ Reboot
    <3>1. step' # "default"
      BY <2>3 DEF Launch, Elevate, End, InstallDaemon, InstallUnit,
                  InstallPreferences, Install, Reload, Enable, StartService,
                  CommandFails, SaveAndRestart, SaveRestarts, Reboot
    <3> QED BY <3>1 DEF LookedFor
  <2> QED BY <2>1, <2>2, <2>3 DEF SetupNext
<1> QED BY <1>1, <1>2, PTL DEF SetupSpec

(***************************************************************************)
(* No setup replaces preferences the user has saved.                       *)
(***************************************************************************)
THEOREM PreferencesKeptHolds == SetupSpec => PreferencesKept
<1>1. LookedFor /\ [SetupNext]_setupVars
        => (preferences = "mine" => preferences' = "mine")
  <2> SUFFICES ASSUME LookedFor, [SetupNext]_setupVars, preferences = "mine"
               PROVE  preferences' = "mine"
    OBVIOUS
  <2>1. ~InstallPreferences
    BY VersionsAssumption DEF InstallPreferences, Install, LookedFor
  <2> QED BY <2>1 DEF SetupNext, setupVars, fileVars, Launch, InstallDaemon,
                      InstallUnit, Install, LookForPreferences, Reload, Enable,
                      StartService, Restarted, CommandFails, SaveAndRestart,
                      SaveRestarts, DaemonDies, Reboot
<1> QED BY <1>1, LookedForInvariant, PTL DEF SetupSpec, PreferencesKept
============================================================================
