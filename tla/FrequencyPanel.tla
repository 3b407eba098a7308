--------------------------- MODULE FrequencyPanel ---------------------------
(***************************************************************************)
(* The frequency page of the GUI (src/main.c) with the configuration file  *)
(* and the daemon process it is about.  The GUI is one thread: its handlers *)
(* run one at a time, but each pkexec of a save is a step of its own,      *)
(* between which systemd may restart the daemon and the administrator may  *)
(* edit the file.                                                          *)
(*                                                                         *)
(* pkexec, install and systemctl are external: each may fail, and install  *)
(* replaces its destination in two steps (it removes the old file first),  *)
(* so that a process starting in between finds none.                       *)
(***************************************************************************)
EXTENDS CpuConfig

CONSTANTS
  HandMade,    \* contents the administrator may give the file
  Forms,       \* what the user may fill the form with
  Ranges,      \* the hardware ranges detection may find
  NoRange,     \* detection failed
  NoDaemon,    \* no daemon has started
  World        \* which of "crash", "edit", "uninstalled" occur

ASSUME RangesAssumption ==
  /\ \A range \in Ranges : /\ range.min \in Nat /\ range.max \in Nat
                           /\ range.min <= range.max
  /\ NoRange \notin Ranges

\* What a file may give for a field is what the loader's two parsers take.
ASSUME HandMadeAssumption ==
  \A contents \in HandMade \ {Missing, Unreadable} :
    /\ contents \in [Fields -> Int \cup {NaN, Absent, Garbage}]
    /\ \A field \in Fields \ Percentages : contents[field] # NaN

ASSUME FormsAssumption == \A form \in Forms : form \in [Fields -> Int]

VARIABLES
  disk,       \* contents of /etc/cpu-clock-switch.json
  runtime,    \* the configuration the running daemon started with
  author,     \* history: who wrote the file last, "panel" or "other"
  installed,  \* "yes" when systemd knows the unit
  config,     \* state->config
  range,      \* state->min_khz and max_khz, or NoRange
  shown,      \* the values of the five spin buttons
  edited,     \* the user has typed since the form was last filled in ("yes")
  step,       \* how far save_frequency_config is
  temporary,  \* the temporary file being installed
  restart,    \* restart_service, the handler's argument ("yes" or "no")
  status      \* the last message: "none", "error", "saved", "restarted", "info"

pageVars == <<config, range, shown, edited>>
saveVars == <<step, temporary, restart>>
panelVars == <<disk, runtime, author, installed, config, range, shown, edited,
               step, temporary, restart, status>>

----------------------------------------------------------------------------
\* Mutant: each clock by itself.
NormalizedEach(c, r) ==
  LET Known(field, default) ==
        IF c[field] \in r.min..r.max THEN c[field] ELSE default
  IN  [c EXCEPT !["low_frequency_khz"] = Known("low_frequency_khz", r.min),
                !["high_frequency_khz"] = Known("high_frequency_khz", r.max)]

\* normalize_config_to_hardware.
Normalized(c, r) ==
  LET Known(field, default) ==
        IF c[field] \in r.min..r.max THEN c[field] ELSE default
      low == Known("low_frequency_khz", r.min)
      high == Known("high_frequency_khz", r.max)
  IN  [c EXCEPT !["low_frequency_khz"] = IF low > high THEN r.min ELSE low,
                !["high_frequency_khz"] = IF low > high THEN r.max ELSE high]

\* gtk_spin_button_set_value keeps the value inside the button's range, and
\* leaves the button as it is when the value is NaN.
Clamp(value, lo, hi, before) ==
  IF value = NaN THEN before
  ELSE IF value < lo THEN lo ELSE IF value > hi THEN hi ELSE value

\* frequency_config_to_widgets on a form that showed "before": the frequency
\* buttons follow only when there is a range, which becomes theirs.
Widgets(c, r, before) ==
  LET Frequency(field) ==
        IF r = NoRange THEN before[field]
        ELSE Clamp(c[field], r.min, r.max, before[field])
  IN  Config(Clamp(c.low_threshold_pct, 0, 9900, before.low_threshold_pct),
             Clamp(c.high_threshold_pct, 100, 10000, before.high_threshold_pct),
             Frequency("low_frequency_khz"),
             Frequency("high_frequency_khz"),
             Clamp(c.interval_ms, 100, 5000, before.interval_ms))

\* The buttons as they are created, at the lower end of their ranges.
FreshForm == Config(0, 100, 100000, 100000, 100)

\* What activate makes of the file: state->config, on a range just detected.
Opened(contents, r) ==
  LET c == IF LoadSucceeds(contents) THEN Loaded(contents) ELSE Defaults
  IN  IF r = NoRange THEN c ELSE Normalized(c, r)

\* What a handler leaves when it fills the form with c.
Present(c) ==
  /\ config' = c
  /\ shown' = Widgets(c, range', shown)
  /\ edited' = "no"

----------------------------------------------------------------------------
\* Handlers that only change the page.

\* refresh_hardware_detection.
HardwareRefresh ==
  /\ step = "idle"
  /\ range' \in Ranges \cup {NoRange}
  /\ Present(IF range' = NoRange THEN config ELSE Normalized(config, range'))
  /\ status' = IF range' = NoRange THEN "error" ELSE "info"
  /\ UNCHANGED <<disk, runtime, author, installed, saveVars>>

\* on_frequency_defaults.
RestoreDefaults ==
  /\ step = "idle"
  /\ UNCHANGED range
  /\ Present(IF range = NoRange THEN Defaults
             ELSE [Defaults EXCEPT !["low_frequency_khz"] = range.min,
                                   !["high_frequency_khz"] = range.max])
  /\ status' = "info"
  /\ UNCHANGED <<disk, runtime, author, installed, saveVars>>

\* The user fills in the form; the buttons are insensitive without a range.
Fill(form) ==
  /\ step = "idle"
  /\ range # NoRange
  /\ shown' = Widgets(form, range, shown)
  /\ edited' = "yes"
  /\ UNCHANGED <<disk, runtime, author, installed, config, range, saveVars, status>>

----------------------------------------------------------------------------
\* save_frequency_config.

\* Mutant: the file is written before the form is read.
SaveWritesFirst(restart_service) ==
  /\ step = "idle" /\ range # NoRange
  /\ Valid(config) /\ InRange(config, range)
  /\ temporary' = FileOf(config)
  /\ config' = shown
  /\ restart' = restart_service
  /\ step' = "install"
  /\ UNCHANGED <<disk, runtime, author, installed, range, shown, edited, status>>

\* Up to the temporary file: form to state->config, validation, writing.
Save(restart_service) ==
  /\ step = "idle"
  /\ UNCHANGED <<disk, runtime, author, installed, range, shown, edited>>
  /\ IF range = NoRange
       THEN status' = "error" /\ UNCHANGED <<config, saveVars>>
       ELSE /\ config' = shown
            /\ \/ /\ Valid(shown) /\ InRange(shown, range)
                  /\ temporary' = FileOf(shown)
                  /\ restart' = restart_service
                  /\ step' = "install"
                  /\ UNCHANGED status
               \/ /\ status' = "error"   \* not valid, or no temporary file
                  /\ UNCHANGED saveVars

\* A command of the save was refused or failed, or there is no AppImage to
\* install the service from: report it and give up.  An install that gets to
\* create the file and no further leaves it empty, which loads like Missing.
StepFails ==
  /\ step \in {"install", "copy", "ensure", "restart"}
  /\ step' = "idle"
  /\ status' = "error"
  /\ UNCHANGED <<disk, runtime, author, installed, pageVars, temporary, restart>>

\* EXTERNAL.  install removes the old file ...
InstallRemoves ==
  /\ step = "install"
  /\ disk' = Missing
  /\ step' = "copy"
  /\ UNCHANGED <<runtime, author, installed, pageVars, temporary, restart, status>>

\* ... and writes the new one.  The handler goes on to the service, or is done.
InstallCopies ==
  /\ step = "copy"
  /\ disk' = temporary
  /\ author' = "panel"
  /\ IF restart = "yes"
       THEN step' = "ensure" /\ UNCHANGED status
       ELSE step' = "idle" /\ status' = "saved"
  /\ UNCHANGED <<runtime, installed, pageVars, temporary, restart>>

\* ensure_frequency_service: a unit systemd does not know is installed, and
\* the daemon started, by the AppImage's script, if there is one.
EnsureService ==
  /\ step = "ensure"
  /\ installed' = "yes"
  /\ runtime' = IF installed = "yes" THEN runtime ELSE RuntimeConfig(disk)
  /\ step' = "restart"
  /\ UNCHANGED <<disk, author, pageVars, temporary, restart, status>>

\* Mutant: the daemon is signalled instead of restarted.
RestartIsReload ==
  /\ step = "restart"
  /\ step' = "idle"
  /\ status' = "restarted"
  /\ UNCHANGED <<disk, runtime, author, installed, pageVars, temporary, restart>>

RestartService ==
  /\ step = "restart"
  /\ runtime' = RuntimeConfig(disk)
  /\ step' = "idle"
  /\ status' = "restarted"
  /\ UNCHANGED <<disk, author, installed, pageVars, temporary, restart>>

SaveStep == StepFails \/ InstallRemoves \/ InstallCopies
            \/ EnsureService \/ RestartService

----------------------------------------------------------------------------
\* EXTERNAL, but for what a starting daemon reads.

\* The daemon dies and systemd starts it again.
DaemonRestarts ==
  /\ "crash" \in World
  /\ installed = "yes"
  /\ runtime' = RuntimeConfig(disk)
  /\ UNCHANGED <<disk, author, installed, pageVars, saveVars, status>>

AdministratorEdits ==
  /\ "edit" \in World
  /\ disk' \in HandMade
  /\ author' = "other"
  /\ UNCHANGED <<runtime, installed, pageVars, saveVars, status>>

----------------------------------------------------------------------------
\* activate: load, show, detect; the message is the loader's or none.
PanelInit ==
  /\ disk \in HandMade /\ author = "other"
  /\ installed \in IF "uninstalled" \in World THEN {"yes", "no"} ELSE {"yes"}
  /\ runtime = IF installed = "yes" THEN RuntimeConfig(disk) ELSE NoDaemon
  /\ range \in Ranges \cup {NoRange}
  /\ config = Opened(disk, range)
  /\ shown = Widgets(config, range, FreshForm)
  /\ edited = "no"
  /\ step = "idle" /\ temporary = Missing /\ restart = "no"
  /\ status = IF LoadSucceeds(disk) THEN "none" ELSE "error"

PanelNext ==
  \/ HardwareRefresh \/ RestoreDefaults
  \/ \E form \in Forms : Fill(form)
  \/ \E answer \in {"yes", "no"} : Save(answer)
  \/ SaveStep
  \/ DaemonRestarts \/ AdministratorEdits

PanelSpec == PanelInit /\ [][PanelNext]_panelVars

----------------------------------------------------------------------------
\* Properties.

PanelTypeOK ==
  /\ disk \in {Missing, Unreadable} \/ DOMAIN disk = Fields
  /\ runtime = NoDaemon \/ DOMAIN runtime = Fields
  /\ author \in {"panel", "other"}
  /\ installed \in {"yes", "no"} /\ restart \in {"yes", "no"}
  /\ edited \in {"yes", "no"}
  /\ DOMAIN config = Fields /\ DOMAIN shown = Fields
  /\ range \in Ranges \cup {NoRange}
  /\ step \in {"idle", "install", "copy", "ensure", "restart"}
  /\ step # "idle" => DOMAIN temporary = Fields
  /\ status \in {"none", "error", "info", "saved", "restarted"}

\* The thresholds of a configuration are one and the same with one decimal.
Collapsed(c) == Printed(c.low_threshold_pct) = Printed(c.high_threshold_pct)

\* Two configurations are the same but for the second decimal of a threshold.
Nearly(running, c) ==
  /\ \A field \in Fields \ Percentages : running[field] = c[field]
  /\ \A field \in Percentages : running[field] - c[field] \in -5..5

(***************************************************************************)
(* "Configuração salva e serviço reiniciado." (main.c:464) is the truth:   *)
(* whatever failed before, and even if systemd started the daemon in the   *)
(* middle of the save, the process running now has the configuration the   *)
(* handler read from the form, and an ordered band of thresholds, nobody   *)
(* else having written the file since.  The one exception is the rounding  *)
(* of cpu_config_write (config.c:231): thresholds it writes as equal are   *)
(* refused by the daemon, which then runs with the defaults.               *)
(***************************************************************************)
ReportedMeansRunning ==
  step = "idle" /\ status = "restarted" /\ author = "panel" =>
    /\ Below(runtime.low_threshold_pct, runtime.high_threshold_pct)
    /\ IF Collapsed(config) THEN runtime = Defaults ELSE Nearly(runtime, config)

(***************************************************************************)
(* "Configuração salva." (main.c:466), with or without the restart, means  *)
(* that the file outlives the program: whichever process reads it next     *)
(* finds what the handler read from the form -- a daemon started by        *)
(* systemd, again but for thresholds that the rounding makes equal, and a  *)
(* window opened on the same hardware, even for those -- although the two  *)
(* readers check the file differently, systemd may have started the daemon *)
(* half way, and the user may have gone on typing.                         *)
(***************************************************************************)
SavedMeansRead ==
  step = "idle" /\ status \in {"saved", "restarted"} /\ author = "panel" =>
    /\ IF Collapsed(config) THEN RuntimeConfig(disk) = Defaults
                            ELSE Nearly(RuntimeConfig(disk), config)
    /\ Nearly(Widgets(Opened(disk, range), range, FreshForm), config)

(***************************************************************************)
(* Whatever the file was when the daemon started -- missing, cut short,    *)
(* edited by hand, half replaced -- its clocks are in order and it neither *)
(* spins nor sleeps for hours.  Module CpuFreq assumes the first of these  *)
(* of every configuration.                                                 *)
(***************************************************************************)
RunningConfigSafe ==
  runtime # NoDaemon =>
    /\ runtime.low_frequency_khz <= runtime.high_frequency_khz
    /\ runtime.interval_ms \in 100..5000

(***************************************************************************)
(* "The limits of another CPU": as long as the user has typed nothing, the *)
(* clocks in the form are ones the validation will let through, on every   *)
(* hardware range found so far (the comment in                             *)
(* normalize_config_to_hardware, main.c:173-177).                          *)
(***************************************************************************)
PresentedIsSaveable ==
  range # NoRange /\ edited = "no" =>
    /\ InRange(shown, range)
    /\ shown.low_frequency_khz <= shown.high_frequency_khz

(***************************************************************************)
(* tests/test_config.c:56: a hysteresis whose lower limit is not below the *)
(* upper one has to be rejected, so none is ever in force.                 *)
(***************************************************************************)
RunningThresholdsOrdered ==
  runtime # NoDaemon =>
    Below(runtime.low_threshold_pct, runtime.high_threshold_pct)
============================================================================
