--------------------------- MODULE UndervoltPanel ---------------------------
(***************************************************************************)
(* The undervolt page of the GUI (src/main.c) with the file, the hardware  *)
(* and the boot service it is about.  A handler keeps the GUI's one thread *)
(* to itself; the commands it runs with pkexec are steps of their own,     *)
(* between which the administrator may edit the file, systemd may run the  *)
(* boot service, the backend may be uninstalled and the machine may be     *)
(* reset.                                                                  *)
(*                                                                         *)
(* pkexec, install, systemctl and intel-undervolt are external.  A command *)
(* that fails may have done its work in part (command_run reports success  *)
(* for a process that ran and exited with 0, and for nothing else); a      *)
(* voltage domain the hardware lacks stays at 0 whatever the file says.    *)
(***************************************************************************)
EXTENDS Undervolt

CONSTANTS
  HardwareDomains,  \* the domains this processor has
  HandMade,         \* contents the administrator may give the file
  Forms,            \* what the user may fill the form with
  NoReport,         \* the GUI has told nothing that still counts
  World             \* which of "failure", "edit", "reset", "packages" occur

ASSUME HardwareAssumption == HardwareDomains \subseteq Domains
ASSUME HandMadeAssumption ==
  \A contents \in HandMade \ {Missing, Unreadable} :
    contents \in Text /\ \A i \in DOMAIN contents : contents[i].text = "mine"
ASSUME FormsAssumption == \A form \in Forms : form \in [Domains -> Int]

VARIABLES
  file,       \* contents of /etc/intel-undervolt.conf
  hardware,   \* the offset each domain runs with
  unit,       \* intel-undervolt.service is enabled ("yes" or "no")
  booting,    \* the boot service has still to run ("yes" or "no")
  backend,    \* intel-undervolt is on the path of an Intel machine
  usable,     \* undervolt_controls is sensitive
  present,    \* state->undervolt_present
  detected,   \* state->undervolt_domains_detected ("yes" or "no")
  shown,      \* the values of the spin buttons
  boot,       \* the check box
  step,       \* "closed", "idle", or how far write_and_apply_undervolt is
  temporary,  \* the temporary file being installed
  source,     \* history: the file it was made from
  written,    \* history: the domains the page wrote in the file, or {} when
              \* another hand wrote it last
  filled,     \* history: the form was filled since it was created ("yes" or
              \* "no"); "blind" for good once one was saved that was not
  report      \* history: what the GUI has told is in force, or NoReport

machineVars == <<file, hardware, unit, booting, backend>>
pageVars == <<usable, present, detected, shown, boot, filled>>
saveVars == <<step, temporary, source>>
uvVars == <<file, hardware, unit, booting, backend, usable, present, detected,
            shown, boot, step, temporary, source, written, filled, report>>

----------------------------------------------------------------------------
\* EXTERNAL: gtk_spin_button_set_value.
Clamp(offset) == IF offset < MinMv THEN MinMv
                 ELSE IF offset > MaxMv THEN MaxMv ELSE offset

\* undervolt_values_to_widgets.
Widgets(offsets) == [d \in Domains |-> Clamp(offsets[d])]

\* new_spin: GTK starts a spin button at the lower end of its range.
FreshForm == [d \in Domains |-> MinMv]

\* update_undervolt_domain_visibility.
Visible(d) == detected = "no" \/ d \in present

\* The mask write_and_apply_undervolt gives to the copy, and domain_selected.
Selected == IF detected = "yes" THEN present ELSE Domains

\* EXTERNAL: "intel-undervolt apply" with the file as it is now, on some of
\* the domains the hardware has.
Applied(domains) ==
  [d \in Domains |->
     IF /\ d \in domains \cap HardwareDomains
        /\ file \notin {Missing, Unreadable}
       THEN IF LinesOf(file, d) = {} THEN hardware[d]
            ELSE IF LastOffset(file, d) = Garbage THEN hardware[d]
            ELSE LastOffset(file, d)
       ELSE hardware[d]]

----------------------------------------------------------------------------
\* Handlers that only change the page.

Filled == IF filled = "blind" THEN "blind" ELSE "yes"

\* refresh_undervolt_backend once the backend has been found: the form
\* follows the file, if the file can be loaded, and else stays as it was.
FillForm ==
  IF backend = "no" THEN UNCHANGED <<shown, boot, filled>>
  ELSE /\ boot' = unit
       /\ IF LoadSucceeds(file)
            THEN shown' = Widgets(Loaded(file)) /\ filled' = Filled
            ELSE UNCHANGED <<shown, filled>>

RefreshBackend ==
  /\ detected' = "no"
  /\ present' = {}
  /\ usable' = backend
  /\ FillForm
  /\ UNCHANGED <<machineVars, temporary, source, written, report>>

\* on_undervolt_refresh.  Its button is one of the controls it may disable.
Refresh ==
  /\ step = "idle" /\ usable = "yes"
  /\ RefreshBackend
  /\ UNCHANGED step

\* activate: new widgets, then the same.
Open ==
  /\ step = "closed"
  /\ RefreshBackend
  /\ step' = "idle"

\* The widgets of a window go with it.
Gone ==
  /\ usable' = "no" /\ present' = {} /\ detected' = "no"
  /\ shown' = FreshForm /\ boot' = "no"
  /\ filled' = IF filled = "blind" THEN "blind" ELSE "no"
  /\ step' = "closed" /\ temporary' = Missing /\ source' = Missing

Close ==
  /\ step = "idle"
  /\ Gone
  /\ UNCHANGED <<machineVars, written, report>>

\* on_undervolt_read, when the backend answers: its output names the domains
\* of the hardware, and may give no number for some.
Read ==
  /\ step = "idle" /\ usable = "yes" /\ backend = "yes"
  /\ \E understood \in SUBSET HardwareDomains :
       LET output == [d \in HardwareDomains |->
                        IF d \in understood THEN hardware[d] ELSE Garbage]
       IN  /\ Found(output) # {}
           /\ present' = Found(output)
           /\ shown' = Widgets(Parsed(output, Zero))
  /\ detected' = "yes"
  /\ filled' = Filled
  /\ UNCHANGED <<machineVars, usable, boot, saveVars, written, report>>

\* on_undervolt_zero.
ZeroForm ==
  /\ step = "idle" /\ usable = "yes"
  /\ shown' = Widgets(Zero)
  /\ filled' = Filled
  /\ UNCHANGED <<machineVars, usable, present, detected, boot, saveVars, written, report>>

\* The user types into the buttons that are visible.
Fill(form) ==
  /\ step = "idle" /\ usable = "yes"
  /\ shown' = [d \in Domains |-> IF Visible(d) THEN Clamp(form[d]) ELSE shown[d]]
  /\ filled' = IF \A d \in Domains : Visible(d) THEN Filled ELSE filled
  /\ UNCHANGED <<machineVars, usable, present, detected, boot, saveVars, written, report>>

ToggleBoot ==
  /\ step = "idle" /\ usable = "yes"
  /\ boot' = IF boot = "yes" THEN "no" ELSE "yes"
  /\ UNCHANGED <<machineVars, usable, present, detected, shown, filled, saveVars,
                 written, report>>

----------------------------------------------------------------------------
\* write_and_apply_undervolt.

\* Up to the temporary file.  Only a form that does not validate, a file that
\* cannot be read or a full disk end the save here, with nothing changed.
Save ==
  /\ step = "idle" /\ usable = "yes"
  /\ Valid(shown) /\ file # Unreadable
  /\ temporary' = Rewritten(file, shown, Selected)
  /\ source' = file
  /\ filled' = IF filled = "no" THEN "blind" ELSE filled
  /\ step' = "install"
  /\ UNCHANGED <<machineVars, usable, present, detected, shown, boot, written, report>>

GiveUp == step' = "idle" /\ temporary' = Missing /\ source' = Missing

\* pkexec install fails: before it has removed the old file, after that, or
\* with the new one created and empty (a file of this size is one write).
InstallFails ==
  /\ "failure" \in World
  /\ step \in {"install", "copy"}
  /\ GiveUp
  /\ \/ UNCHANGED <<file, written>>
     \/ step = "copy" /\ file' = <<>> /\ written' = {}
  /\ UNCHANGED <<hardware, unit, booting, backend, pageVars, report>>

\* EXTERNAL.  install removes the old file ...
InstallRemoves ==
  /\ step = "install"
  /\ file' = Missing
  /\ report' = NoReport
  /\ step' = "copy" /\ source' = Missing
  /\ UNCHANGED <<hardware, unit, booting, backend, pageVars, temporary, written>>

\* ... and writes the new one.  The handler unlinks the temporary file.
InstallCopies ==
  /\ step = "copy"
  /\ file' = temporary
  /\ written' = Selected
  /\ step' = "apply"
  /\ temporary' = Missing
  /\ UNCHANGED <<hardware, unit, booting, backend, pageVars, source, report>>

\* "intel-undervolt apply" is refused, or fails on some of the domains.
ApplyFails ==
  /\ ("failure" \in World \/ backend = "no")
  /\ step = "apply"
  /\ \E done \in IF backend = "yes" THEN SUBSET HardwareDomains ELSE {{}} :
       hardware' = Applied(done)
  /\ GiveUp
  /\ UNCHANGED <<file, unit, booting, backend, pageVars, written, report>>

Apply ==
  /\ step = "apply" /\ backend = "yes"
  /\ hardware' = Applied(HardwareDomains)
  /\ step' = "service"
  /\ UNCHANGED <<file, unit, booting, backend, pageVars, temporary, source, written,
                 report>>

\* What a save that has applied the offsets tells, given what it can say of
\* the boot service.
Tell(at_boot) ==
  report' = [offsets |-> [d \in Selected |-> Printed(shown[d])], boot |-> at_boot]

\* Mutant: systemctl enable without looking at the check box.
ServiceEnabled ==
  /\ step = "service"
  /\ unit' = "yes"
  /\ hardware' = Applied(HardwareDomains)
  /\ Tell(boot)
  /\ GiveUp
  /\ UNCHANGED <<file, booting, backend, pageVars, written>>

\* systemctl enable --now, which may run the boot service again, or disable.
ServiceFollows ==
  /\ step = "service" /\ backend = "yes"
  /\ unit' = boot
  /\ hardware' \in {hardware, IF boot = "yes" THEN Applied(HardwareDomains) ELSE hardware}
  /\ Tell(boot)
  /\ GiveUp
  /\ UNCHANGED <<file, booting, backend, pageVars, written>>

\* It fails, having perhaps done its work or some of it: the offsets are
\* reported as applied and nothing is said of the next boot.
ServiceFails ==
  /\ ("failure" \in World \/ backend = "no")
  /\ step = "service"
  /\ unit' \in {unit, boot}
  /\ \E done \in IF backend = "yes" /\ boot = "yes" THEN SUBSET HardwareDomains
                 ELSE {{}} :
       hardware' = Applied(done)
  /\ Tell("unknown")
  /\ GiveUp
  /\ UNCHANGED <<file, booting, backend, pageVars, written>>

SaveStep ==
  \/ InstallFails \/ InstallRemoves \/ InstallCopies
  \/ ApplyFails \/ Apply \/ ServiceFollows \/ ServiceFails

----------------------------------------------------------------------------
\* EXTERNAL.

\* What was reported before the file was written by hand no longer counts.
AdministratorEdits ==
  /\ "edit" \in World
  /\ file' \in HandMade
  /\ written' = {}
  /\ report' = NoReport
  /\ UNCHANGED <<hardware, unit, booting, backend, pageVars, saveVars>>

\* The backend's package is installed or removed.
PackageChanges ==
  /\ "packages" \in World
  /\ backend' = IF backend = "yes" THEN "no" ELSE "yes"
  /\ UNCHANGED <<file, hardware, unit, booting, pageVars, saveVars, written, report>>

\* The machine is reset: offsets are gone until the boot service runs, and a
\* report that did not speak of the next boot no longer counts.
Reset ==
  /\ "reset" \in World
  /\ hardware' = Zero
  /\ booting' = unit
  /\ Gone
  /\ report' = IF report = NoReport THEN NoReport
               ELSE IF report.boot = "yes" THEN report ELSE NoReport
  /\ UNCHANGED <<file, unit, backend, written>>

\* The unit is the backend's: without it there is nothing to run, and what was
\* reported of the boot no longer counts.  That "intel-undervolt apply" works
\* at boot as it did in the save is assumed.
BootService ==
  /\ booting = "yes"
  /\ booting' = "no"
  /\ IF backend = "yes"
       THEN hardware' = Applied(HardwareDomains) /\ UNCHANGED report
       ELSE report' = NoReport /\ UNCHANGED hardware
  /\ UNCHANGED <<file, unit, backend, pageVars, saveVars, written>>

----------------------------------------------------------------------------
UVInit ==
  /\ file \in HandMade /\ written = {}
  /\ hardware = Zero
  /\ unit \in {"yes", "no"} /\ booting = unit
  /\ backend \in IF "packages" \in World THEN {"yes", "no"} ELSE {"yes"}
  /\ usable = "no" /\ present = {} /\ detected = "no"
  /\ shown = FreshForm /\ boot = "no" /\ filled = "no"
  /\ step = "closed" /\ temporary = Missing /\ source = Missing
  /\ report = NoReport

UVNext ==
  \/ Open \/ Close \/ Refresh \/ Read \/ ZeroForm \/ ToggleBoot
  \/ \E form \in Forms : Fill(form)
  \/ Save \/ SaveStep
  \/ AdministratorEdits \/ PackageChanges \/ Reset \/ BootService

UVSpec == UVInit /\ [][UVNext]_uvVars

----------------------------------------------------------------------------
\* Properties.

Installing == step \in {"install", "copy"}

NothingFused(lines) == \A i \in DOMAIN lines : lines[i].text # "fused"

\* A file whose last line has no newline gets a domain's line appended to it.
Fuses(contents) ==
  /\ Unwritten(Source(contents), Selected) # {}
  /\ Source(contents) # <<>>
  /\ ~Source(contents)[Len(Source(contents))].ended

UVTypeOK ==
  /\ {file, temporary, source} \subseteq {Missing, Unreadable} \cup Text
  /\ Installing => temporary \in Text
  /\ hardware \in [Domains -> Int]
  /\ shown \in [Domains -> MinMv..MaxMv]
  /\ present \subseteq HardwareDomains
  /\ {unit, booting, backend, usable, detected, boot} \subseteq {"yes", "no"}
  /\ filled \in {"yes", "no", "blind"} /\ written \subseteq Domains
  /\ step \in {"closed", "idle", "install", "copy", "apply", "service"}
  /\ \/ report = NoReport
     \/ /\ report.offsets \in [DOMAIN report.offsets -> Int]
        /\ DOMAIN report.offsets \subseteq Domains
        /\ report.boot \in {"yes", "no", "unknown"}

(***************************************************************************)
(* README.md:82 and main.c:689: what a save installs has every line that   *)
(* is no domain's, and every line of a domain the user does not see, just  *)
(* as they were and where they were -- and no line for such a domain that  *)
(* was not there -- whatever sequence of reads and redetections decided    *)
(* what is seen.  (A last line without its newline excepted: see           *)
(* HiddenByteForByte.)                                                     *)
(***************************************************************************)
OthersPreserved ==
  step = "install" /\ ~Fuses(source) =>
    LET Other(line) == line.domain = NoDomain \/ ~Visible(line.domain)
        before == Source(source)
    IN  /\ \A i \in DOMAIN before :
             Other(before[i]) => i \in DOMAIN temporary /\ temporary[i] = before[i]
        /\ \A i \in DOMAIN temporary :
             Other(temporary[i]) => i \in DOMAIN before /\ temporary[i] = before[i]

(***************************************************************************)
(* What a save writes is what the next window shows (undervolt_write_      *)
(* config_copy_masked against undervolt_load_config): the copy loads       *)
(* whenever the file did, and gives the form, rounded, for what the user   *)
(* sees and what the file gave for the rest -- also when a domain has      *)
(* several lines or none, and when there was no file.                      *)
(***************************************************************************)
SavedIsLoaded ==
  step = "install" /\ ~Fuses(source) /\ LoadSucceeds(source) =>
    /\ LoadSucceeds(temporary)
    /\ Loaded(temporary) =
         [d \in Domains |-> IF Visible(d) THEN Printed(shown[d]) ELSE Loaded(source)[d]]

(***************************************************************************)
(* "Undervolt aplicado ..." (main.c:789-802) is the truth and stays so:    *)
(* the file, the hardware and the boot service have what was in the form,  *)
(* rounded, for every domain of the save -- after failed saves, after a    *)
(* backend that came and went, and, when the message spoke of the boot,    *)
(* after any number of resets -- until the file is written again.  The     *)
(* exception are files with a fused line: there the line of a domain of    *)
(* the save is no line of its own (HiddenByteForByte).                     *)
(***************************************************************************)
ReportedIsInForce ==
  /\ report # NoReport /\ written # {} /\ NothingFused(file)
  => /\ \A d \in DOMAIN report.offsets :
          /\ LinesOf(file, d) # {} /\ LastOffset(file, d) = report.offsets[d]
          /\ booting = "no" /\ d \in HardwareDomains => hardware[d] = report.offsets[d]
     /\ report.boot # "unknown" => unit = report.boot

(***************************************************************************)
(* What the page adds to the voltages is between -150 and 0 mV             *)
(* (undervolt_validate, and the range of the buttons), whatever the file   *)
(* or the hardware had before, wherever a save stops and whoever applies   *)
(* the file then: "apply", the boot service of a later start, fused lines  *)
(* or not.  An offset outside that reaches a domain only from a line the   *)
(* administrator wrote, as it was written, and of a domain that the save   *)
(* that wrote the file was not for: "apply" takes every domain of the      *)
(* file, the copy keeps the lines of those the user does not see, and      *)
(* what the file has for them the page neither checks nor changes.         *)
(***************************************************************************)
NeverOvervolts ==
  [][\A d \in Domains :
       hardware'[d] # hardware[d] /\ hardware'[d] \notin MinMv..MaxMv
         => /\ d \notin written
            /\ \E i \in LinesOf(file, d) :
                 file[i].text = "mine" /\ file[i].offset = hardware'[d]]_uvVars

\* What the administrator gave a domain, what was given it at all, and what the
\* form and the copy make of that.
HandWritten(d) ==
  ({0} \cup UNION {{contents[i].offset : i \in LinesOf(contents, d)} :
                     contents \in HandMade \ {Missing, Unreadable}}) \ {Garbage}

Given(d) == HandWritten(d) \cup {form[d] : form \in Forms}

Asked == [d \in Domains |-> HandWritten(d) \cup {Printed(Clamp(v)) : v \in Given(d)}]

(***************************************************************************)
(* The hardware never runs with an offset nobody asked for: not with what  *)
(* a failed load, a partial answer of the backend or a redetection leaves  *)
(* in the form.  One exception is the form of a window whose first load    *)
(* failed (filled): GTK starts its buttons at -150 mV, activate hides the  *)
(* error of the load (main.c:1337-1343), and a save goes through.  The     *)
(* other are files in which two domains' lines are fused                   *)
(* (HiddenByteForByte): there one has the offset of the other, and this is *)
(* false.                                                                  *)
(***************************************************************************)
NothingInvented ==
  filled # "blind" => \A d \in Domains : hardware[d] \in Asked[d]

(***************************************************************************)
(* undervolt.h:44: "Unmarked domains already present in SOURCE are         *)
(* preserved byte-for-byte."                                               *)
(***************************************************************************)
HiddenByteForByte ==
  step = "install" =>
    \A i \in DOMAIN Source(source) :
      LET line == Source(source)[i]
      IN  line.domain # NoDomain /\ ~Visible(line.domain) => temporary[i] = line
============================================================================
