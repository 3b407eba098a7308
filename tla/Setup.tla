------------------------------- MODULE Setup --------------------------------
(***************************************************************************)
(* How the frequency service gets onto the system: AppRun and the two      *)
(* scripts it leads to (packaging/appimage), and the repair the GUI tries  *)
(* when the user asks to save and restart (ensure_frequency_service in     *)
(* src/main.c).  The privileged script runs under "set -eu": the first     *)
(* command that fails ends it, with everything before it done.             *)
(*                                                                         *)
(* systemd and install(1) are external.  systemd keeps the unit as it was  *)
(* when it last read the file; install may leave no file, or part of one,  *)
(* when it is interrupted.                                                 *)
(***************************************************************************)
EXTENDS Naturals

CONSTANTS
  Versions,   \* the AppImages of this program on the machine
  Nobody,     \* no file, no unit, no process
  Part,       \* a file that is not complete
  World       \* which of "failure", "crash" occur

ASSUME VersionsAssumption ==
  /\ Nobody \notin Versions /\ Part \notin Versions /\ Nobody # Part
  /\ "mine" \notin {Nobody, Part}

VARIABLES
  daemon,       \* /usr/local/bin/cpu-clock-switch-daemon
  unit,         \* /etc/systemd/system/cpu-clock-switch.service
  preferences,  \* /etc/cpu-clock-switch.json: Nobody, "default" or "mine"
  loaded,       \* the unit as systemd knows it
  enabled,      \* "yes" when it is wanted at boot
  process,      \* the running daemon: which binary, under which unit
  version,      \* the AppImage that was opened last
  caller,       \* who runs the setup: "AppRun" or "Save"
  step,         \* the command that comes next
  outcome       \* what the last launch or save ended with

fileVars == <<daemon, unit, preferences>>
systemdVars == <<loaded, enabled, process>>
setupVars == <<daemon, unit, preferences, loaded, enabled, process,
               version, caller, step, outcome>>

----------------------------------------------------------------------------
\* What systemd runs when it starts the service: a whole binary.
Process(binary, with) ==
  IF binary \in Versions /\ with \in Versions
    THEN [binary |-> binary, unit |-> with] ELSE Nobody

End(result) == step' = "idle" /\ outcome' = result

\* The part of ensure-system-components.sh after its comparison: it gets to
\* run the privileged script, or does not (no pkexec, not authorized).
Elevate(who) ==
  /\ caller' = who
  /\ \/ step' = "daemon" /\ UNCHANGED outcome
     \/ "failure" \in World /\ End("failed")

\* ensure-system-components.sh compares the two files, and nothing else.
Installed(v) == daemon = v /\ unit = v

\* An AppImage is opened.  AppRun goes on to the GUI whatever happens.
Launch(v) ==
  /\ step = "idle"
  /\ version' = v
  /\ IF Installed(v) THEN End("skipped") /\ UNCHANGED caller
     ELSE Elevate("AppRun")
  /\ UNCHANGED <<fileVars, systemdVars>>

\* install -Dm of one of the files; interrupted, it leaves what it may.
Install(file, content, name, next) ==
  /\ step = name
  /\ \/ file' = content /\ step' = next /\ UNCHANGED outcome
     \/ "failure" \in World /\ file' \in {file, Nobody, Part} /\ End("failed")
  /\ UNCHANGED <<systemdVars, version, caller>>

InstallDaemon ==
  Install(daemon, version, "daemon", "unit") /\ UNCHANGED <<unit, preferences>>

InstallUnit ==
  Install(unit, version, "unit", "look") /\ UNCHANGED <<daemon, preferences>>

\* Mutant: the preferences are copied without looking.
LookForNothing ==
  /\ step = "look"
  /\ step' = "default"
  /\ UNCHANGED <<fileVars, systemdVars, version, caller, outcome>>

\* "[ ! -e /etc/cpu-clock-switch.json ]", and the copy it guards.
LookForPreferences ==
  /\ step = "look"
  /\ step' = IF preferences = Nobody THEN "default" ELSE "reload"
  /\ UNCHANGED <<fileVars, systemdVars, version, caller, outcome>>

InstallPreferences ==
  Install(preferences, "default", "default", "reload") /\ UNCHANGED <<daemon, unit>>

\* Mutant: daemon-reload forgotten.
ReloadForgotten ==
  /\ step = "reload"
  /\ step' = "enable"
  /\ UNCHANGED <<fileVars, systemdVars, version, caller, outcome>>

Reload ==
  /\ step = "reload"
  /\ loaded' = unit
  /\ step' = "enable"
  /\ UNCHANGED <<fileVars, enabled, process, version, caller, outcome>>

Enable ==
  /\ step = "enable"
  /\ enabled' = "yes"
  /\ step' = "start"
  /\ UNCHANGED <<fileVars, loaded, process, version, caller, outcome>>

\* EXTERNAL.  The unit systemctl would start: one systemd has never read is
\* read now.
UnitToStart == IF loaded = Nobody THEN unit ELSE loaded

\* EXTERNAL.  systemctl restart.  It is refused without a unit, with an empty
\* one (which is masked) and with one cut short of its ExecStart; of the daemon
\* it does not wait to see what becomes (Type=simple).
Restarted ==
  /\ UnitToStart \in Versions
  /\ loaded' = UnitToStart
  /\ process' = Process(daemon, loaded')
  /\ UNCHANGED <<fileVars, enabled, version, caller>>

\* The script's last command.  AppRun execs the GUI; a save goes on.
StartService ==
  /\ step = "start"
  /\ Restarted
  /\ IF caller = "AppRun" THEN End("done")
     ELSE step' = "restart" /\ UNCHANGED outcome

\* A command of systemctl, or a command of a save, fails or is refused.
CommandFails ==
  /\ step \in {"reload", "enable", "start", "restart"}
  /\ \/ "failure" \in World
     \/ step \in {"start", "restart"} /\ UnitToStart \notin Versions
  /\ End("failed")
  /\ UNCHANGED <<fileVars, systemdVars, version, caller>>

----------------------------------------------------------------------------
\* "Salvar e reiniciar serviço", once the configuration is installed
\* (module FrequencyPanel): systemctl cat looks for the unit's file, and only
\* if there is none does the setup run.
SaveAndRestart ==
  /\ step = "idle"
  /\ preferences' = "mine"
  /\ IF unit # Nobody
       THEN step' = "restart" /\ UNCHANGED <<caller, outcome>>
       ELSE Elevate("Save")
  /\ UNCHANGED <<daemon, unit, systemdVars, version>>

SaveRestarts ==
  /\ step = "restart"
  /\ Restarted
  /\ End("restarted")

----------------------------------------------------------------------------
\* EXTERNAL.  The daemon dies and is started again; the machine is reset.
DaemonDies ==
  /\ "crash" \in World
  /\ process # Nobody
  /\ process' = Process(daemon, loaded)
  /\ UNCHANGED <<fileVars, loaded, enabled, version, caller, step, outcome>>

Reboot ==
  /\ "crash" \in World
  /\ loaded' = unit
  /\ process' = IF enabled = "yes" THEN Process(daemon, unit) ELSE Nobody
  /\ step' = "idle"
  /\ outcome' = IF step = "idle" THEN outcome ELSE "failed"
  /\ UNCHANGED <<fileVars, enabled, version, caller>>

----------------------------------------------------------------------------
\* A machine the program has never been on.
SetupInit ==
  /\ daemon = Nobody /\ unit = Nobody /\ preferences = Nobody
  /\ loaded = Nobody /\ enabled = "no" /\ process = Nobody
  /\ version \in Versions
  /\ caller = "AppRun" /\ step = "idle" /\ outcome = "none"

SetupNext ==
  \/ \E v \in Versions : Launch(v)
  \/ InstallDaemon \/ InstallUnit
  \/ LookForPreferences \/ InstallPreferences
  \/ Reload \/ Enable \/ StartService \/ CommandFails
  \/ SaveAndRestart \/ SaveRestarts
  \/ DaemonDies \/ Reboot

SetupSpec == SetupInit /\ [][SetupNext]_setupVars

----------------------------------------------------------------------------
\* Properties.

(***************************************************************************)
(* A setup that ran to its end leaves this AppImage's daemon running under *)
(* this AppImage's unit, wanted at boot, however many setups of this or of *)
(* another version were cut short before it; it stays so across crashes of *)
(* the daemon and of the machine.                                          *)
(***************************************************************************)
DoneMeansRunning ==
  step = "idle" /\ outcome = "done" =>
    /\ process = [binary |-> version, unit |-> version]
    /\ loaded = version
    /\ enabled = "yes"

(***************************************************************************)
(* install-system-components.sh:29, Makefile ("A instalação não            *)
(* sobrescreve"): setups, upgrades and downgrades, cut short or not, never *)
(* put the defaults in the place of preferences the user has saved.        *)
(***************************************************************************)
PreferencesKept == [][preferences = "mine" => preferences' = "mine"]_setupVars

(***************************************************************************)
(* AppRun:49-50, main.c:437-439: what a failed setup left undone is        *)
(* repaired when the user asks to save and restart, so a save that reports *)
(* success leaves a service that also comes back at the next boot --       *)
(* whichever command of the setup was the one that failed.                 *)
(***************************************************************************)
RepairedOnRequest ==
  step = "idle" /\ outcome = "restarted" => enabled = "yes"
============================================================================
