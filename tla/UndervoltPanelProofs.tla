------------------------ MODULE UndervoltPanelProofs ------------------------
(***************************************************************************)
(* Theorems about module UndervoltPanel: any number of domains, any        *)
(* hardware, any file, any form, everything the world may do.              *)
(***************************************************************************)
EXTENDS UndervoltPanel, UndervoltProofs

LEMMA Limits == MinMv \in Int /\ MaxMv \in Int /\ MinMv <= 0 /\ 0 <= MaxMv
BY DEF MinMv, MaxMv

LEMMA WidgetsType ==
  ASSUME NEW offsets \in [Domains -> Int]
  PROVE  Widgets(offsets) \in [Domains -> MinMv..MaxMv]
<1>1. \A v \in Int : Clamp(v) \in MinMv..MaxMv
  <2> TAKE v \in Int
  <2>1. /\ MinMv \in MinMv..MaxMv /\ MaxMv \in MinMv..MaxMv
        /\ ~(v < MinMv) /\ ~(v > MaxMv) => v \in MinMv..MaxMv
    BY Limits
  <2> QED BY <2>1 DEF Clamp
<1> QED BY <1>1 DEF Widgets

LEMMA ZeroType == Zero \in [Domains -> Int]
BY DEF Zero

LEMMA AppliedType ==
  ASSUME UVTypeOK, NEW done
  PROVE  Applied(done) \in [Domains -> Int]
<1> SUFFICES ASSUME NEW d \in Domains, file \notin {Missing, Unreadable},
                    LinesOf(file, d) # {}, LastOffset(file, d) # Garbage
             PROVE  LastOffset(file, d) \in Int
  BY DEF Applied, UVTypeOK
<1> QED BY LastOffsetType DEF UVTypeOK

LEMMA SelectedType ==
  UVTypeOK => /\ Selected \in SUBSET Domains
              /\ \A d \in Domains : Visible(d) <=> d \in Selected
BY HardwareAssumption DEF UVTypeOK, Selected, Visible

----------------------------------------------------------------------------
LEMMA TypeOpen ==
  ASSUME UVTypeOK, Refresh \/ Open PROVE UVTypeOK'
<1> USE DEF UVTypeOK, RefreshBackend, machineVars, Refresh, Open
<1>1. shown' \in [Domains -> MinMv..MaxMv]
  BY LoadedType, WidgetsType DEF FillForm
<1>2. boot' \in {"yes", "no"} /\ filled' \in {"yes", "no", "blind"}
  BY DEF FillForm, Filled
<1> QED BY <1>1, <1>2 DEF Installing

LEMMA TypePage ==
  ASSUME UVTypeOK, Read \/ ZeroForm \/ (\E form \in Forms : Fill(form)) \/ ToggleBoot
  PROVE  UVTypeOK'
<1> USE DEF UVTypeOK, machineVars, saveVars
<1>1. CASE Read
  <2>1. PICK understood \in SUBSET HardwareDomains :
          LET output == [d \in HardwareDomains |->
                           IF d \in understood THEN hardware[d] ELSE Garbage]
          IN  present' = Found(output) /\ shown' = Widgets(Parsed(output, Zero))
    BY <1>1 DEF Read
  <2> DEFINE output == [d \in HardwareDomains |->
                          IF d \in understood THEN hardware[d] ELSE Garbage]
  <2>2. present' \subseteq HardwareDomains
    BY <2>1 DEF Found
  <2>3. Parsed(output, Zero) \in [Domains -> Int]
    BY HardwareAssumption DEF Parsed, Found, Zero
  <2>4. shown' \in [Domains -> MinMv..MaxMv]
    BY <2>1, <2>3, WidgetsType
  <2> QED BY <1>1, <2>2, <2>4 DEF Read, Filled, Installing
<1>2. CASE ZeroForm
  BY <1>2, ZeroType, WidgetsType DEF ZeroForm, Filled, Installing
<1>3. CASE \E form \in Forms : Fill(form)
  <2>1. PICK form \in Forms : Fill(form)
    BY <1>3
  <2>2. Widgets(form) \in [Domains -> MinMv..MaxMv]
    BY FormsAssumption, WidgetsType
  <2>3. shown' \in [Domains -> MinMv..MaxMv]
    BY <2>1, <2>2 DEF Fill, Widgets
  <2> QED BY <2>1, <2>3 DEF Fill, Filled, Installing
<1>4. CASE ToggleBoot
  BY <1>4 DEF ToggleBoot, Installing
<1> QED BY <1>1, <1>2, <1>3, <1>4

LEMMA TypeTell ==
  ASSUME UVTypeOK, NEW at_boot \in {"yes", "no", "unknown"}, Tell(at_boot)
  PROVE  /\ report'.offsets \in [DOMAIN report'.offsets -> Int]
         /\ DOMAIN report'.offsets \subseteq Domains
         /\ report'.boot \in {"yes", "no", "unknown"}
<1>1. Selected \in SUBSET Domains
  BY SelectedType
<1>2. \A d \in Selected : Printed(shown[d]) \in Int
  BY <1>1, Limits, PrintedWithin DEF UVTypeOK
<1> QED BY <1>1, <1>2 DEF Tell

LEMMA TypeSave ==
  ASSUME UVTypeOK, Save \/ SaveStep PROVE UVTypeOK'
<1> USE DEF UVTypeOK, machineVars, pageVars, GiveUp, Installing
<1>1. CASE Save
  <2>1. shown \in [Domains -> Int]
    BY Limits
  <2>2. Rewritten(file, shown, Selected) \in Text
    BY <1>1, <2>1, SelectedType, RewrittenIsText DEF Save
  <2> QED BY <1>1, <2>2 DEF Save
<1>2. CASE InstallFails
  <2>1. <<>> \in Text
    BY DEF Text
  <2>2. {file', temporary', source'} \subseteq {Missing, Unreadable} \cup Text
    BY <1>2, <2>1 DEF InstallFails
  <2>3. written' \subseteq Domains /\ step' = "idle"
    BY <1>2 DEF InstallFails
  <2> QED BY <1>2, <2>2, <2>3 DEF InstallFails
<1>3. CASE InstallRemoves
  BY <1>3 DEF InstallRemoves
<1>4. CASE InstallCopies
  BY <1>4, SelectedType DEF InstallCopies
<1>5. CASE ApplyFails
  BY <1>5, AppliedType DEF ApplyFails
<1>6. CASE Apply
  BY <1>6, AppliedType DEF Apply
<1>7. CASE ServiceFollows
  <2>1. hardware' \in [Domains -> Int]
    BY <1>7, AppliedType DEF ServiceFollows
  <2> QED BY <1>7, <2>1, TypeTell DEF ServiceFollows
<1>8. CASE ServiceFails
  <2>1. hardware' \in [Domains -> Int]
    BY <1>8, AppliedType DEF ServiceFails
  <2> QED BY <1>8, <2>1, TypeTell DEF ServiceFails
<1> QED BY <1>1, <1>2, <1>3, <1>4, <1>5, <1>6, <1>7, <1>8 DEF SaveStep

LEMMA FreshFormType == FreshForm \in [Domains -> MinMv..MaxMv]
BY Limits DEF FreshForm

LEMMA TypeWorld ==
  ASSUME UVTypeOK, Close \/ AdministratorEdits \/ PackageChanges \/ Reset \/ BootService
  PROVE  UVTypeOK'
<1> USE DEF UVTypeOK, machineVars, pageVars, saveVars, Installing
<1>1. CASE Close
  BY <1>1, FreshFormType DEF Close, Gone
<1>2. CASE AdministratorEdits
  BY <1>2, HandMadeAssumption DEF AdministratorEdits
<1>3. CASE PackageChanges
  BY <1>3 DEF PackageChanges
<1>4. CASE Reset
  BY <1>4, FreshFormType, ZeroType DEF Reset, Gone
<1>5. CASE BootService
  BY <1>5, AppliedType DEF BootService
<1> QED BY <1>1, <1>2, <1>3, <1>4, <1>5

LEMMA TypeStep == UVTypeOK /\ [UVNext]_uvVars => UVTypeOK'
<1> SUFFICES ASSUME UVTypeOK, [UVNext]_uvVars PROVE UVTypeOK'
  OBVIOUS
<1>1. CASE UNCHANGED uvVars
  BY <1>1 DEF UVTypeOK, uvVars, Installing
<1>2. CASE UVNext
  BY <1>2, TypeOpen, TypePage, TypeSave, TypeWorld DEF UVNext
<1> QED BY <1>1, <1>2

LEMMA TypeInit == UVInit => UVTypeOK
BY HandMadeAssumption, FreshFormType, ZeroType DEF UVInit, UVTypeOK, Installing

\* Every variable keeps its type: the form stays within the limits whatever
\* the file, the hardware and the user give it, and what is installed is a
\* file whose lines all end, but perhaps the last.
THEOREM UndervoltTypeCorrect == UVSpec => []UVTypeOK
BY TypeInit, TypeStep, PTL DEF UVSpec

----------------------------------------------------------------------------
\* The strengthening.  From the copy to the report, what is on its way, and
\* then the file and the hardware, are what the form asks for: the form and
\* the mask do not change while a save runs.

WrittenFor(lines) ==
  NothingFused(lines) =>
    \A d \in Selected :
      LinesOf(lines, d) # {} /\ LastOffset(lines, d) = Printed(shown[d])

CopyInv ==
  step = "install" =>
    /\ source \in Text \cup {Missing}
    /\ temporary = Rewritten(source, shown, Selected)

InstallInv == Installing => WrittenFor(temporary)

FileInv ==
  step \in {"apply", "service"} /\ written # {} => file \in Text /\ WrittenFor(file)

HardwareInv ==
  step = "service" /\ written # {} /\ NothingFused(file) =>
    \A d \in Selected \cap HardwareDomains : hardware[d] = Printed(shown[d])

ReportInv ==
  /\ step \in {"copy", "apply", "service"} => report = NoReport
  /\ report # NoReport /\ written # {} => file \in Text
  /\ ReportedIsInForce

SaveInv == CopyInv /\ InstallInv /\ FileInv /\ HardwareInv

----------------------------------------------------------------------------
\* The copy is written for the form it was made with.
LEMMA CopyWritten ==
  ASSUME UVTypeOK, NEW contents \in Text \cup {Missing}
  PROVE  WrittenFor(Rewritten(contents, shown, Selected))
<1> DEFINE r == Rewritten(contents, shown, Selected)
           lines == Source(contents)
<1>1. shown \in [Domains -> Int] /\ Selected \in SUBSET Domains /\ lines \in Text
  BY Limits, SelectedType, SourceIsText DEF UVTypeOK
<1>2. r \in Text
  BY <1>1, RewrittenIsText
<1> SUFFICES ASSUME NothingFused(r), NEW d \in Selected
             PROVE  LinesOf(r, d) # {} /\ LastOffset(r, d) = Printed(shown[d])
  BY DEF WrittenFor
<1>3. r = TwoLoops(lines, shown, Selected)
  BY <1>1, RewrittenApart DEF NothingFused
<1> HIDE DEF r, lines
<1>4. /\ LinesOf(r, d) # {}
      /\ \A i \in LinesOf(r, d) : r[i].offset = Printed(shown[d])
  <2> DEFINE selected == Selected
  <2>1. /\ lines \in Text /\ shown \in [Domains -> Int]
        /\ selected \in SUBSET Domains /\ d \in selected
        /\ r = TwoLoops(lines, shown, selected)
    BY <1>1, <1>3
  <2> HIDE DEF selected
  <2> QED BY ONLY <2>1, SelectedWritten
<1>5. \E i \in LinesOf(r, d) : LastOffset(r, d) = r[i].offset
  BY <1>2, <1>4, LastOffsetOfLine DEF Text
<1> QED BY <1>4, <1>5

\* What "intel-undervolt apply" does with a file that is written for the form.
LEMMA AppliedWritten ==
  ASSUME UVTypeOK, file \in Text, WrittenFor(file), NothingFused(file),
         NEW done, NEW d \in Selected
  PROVE  /\ d \in done \cap HardwareDomains => Applied(done)[d] = Printed(shown[d])
         /\ d \notin done \cap HardwareDomains => Applied(done)[d] = hardware[d]
<1>1. d \in Domains
  BY SelectedType
<1>2. Printed(shown[d]) # Garbage
  BY <1>1, Limits, PrintedWithin, NoNumbersAssumption DEF UVTypeOK
<1>3. LinesOf(file, d) # {} /\ LastOffset(file, d) = Printed(shown[d])
  BY DEF WrittenFor
<1>4. file \notin {Missing, Unreadable}
  BY FilesAssumption
<1> QED BY <1>1, <1>2, <1>3, <1>4 DEF Applied

----------------------------------------------------------------------------
\* Nothing of a save is left in a page that is idle or gone.
LEMMA SaveInvAtRest ==
  ASSUME step' \in {"closed", "idle"} PROVE SaveInv'
BY DEF SaveInv, CopyInv, InstallInv, FileInv, HardwareInv, Installing

\* What a save has so far does not move when the page, the file and the
\* hardware do not.
LEMMA SaveInvUnmoved ==
  ASSUME SaveInv, UNCHANGED <<pageVars, saveVars, file, hardware, written>>
  PROVE  SaveInv'
BY DEF SaveInv, CopyInv, InstallInv, FileInv, HardwareInv, Installing, WrittenFor,
       Selected, pageVars, saveVars

LEMMA SaveInvStep ==
  UVTypeOK /\ SaveInv /\ [UVNext]_uvVars => SaveInv'
<1> SUFFICES ASSUME UVTypeOK, SaveInv, [UVNext]_uvVars PROVE SaveInv'
  OBVIOUS
<1>1. CASE UNCHANGED uvVars
  BY <1>1, SaveInvUnmoved DEF uvVars, pageVars, saveVars
<1>2. CASE Open \/ Close \/ Refresh \/ Read \/ ZeroForm \/ ToggleBoot
  <2>1. step' \in {"closed", "idle"}
    BY <1>2 DEF Open, Close, Gone, Refresh, Read, ZeroForm, ToggleBoot, saveVars
  <2> QED BY <2>1, SaveInvAtRest
<1>3. CASE \E form \in Forms : Fill(form)
  <2>1. step' \in {"closed", "idle"}
    BY <1>3 DEF Fill, saveVars
  <2> QED BY <2>1, SaveInvAtRest
<1>4. CASE Save
  <2>1. /\ file \in Text \cup {Missing}
        /\ temporary' = Rewritten(file, shown, Selected)
        /\ source' = file /\ step' = "install"
        /\ shown' = shown /\ Selected' = Selected
    BY <1>4 DEF Save, UVTypeOK, Selected
  <2>2. WrittenFor(Rewritten(file, shown, Selected))
    BY <2>1, CopyWritten
  <2>3. WrittenFor(temporary)'
    BY <2>1, <2>2 DEF WrittenFor
  <2> QED BY <2>1, <2>3 DEF SaveInv, CopyInv, InstallInv, FileInv, HardwareInv
<1>5. CASE InstallFails \/ ApplyFails \/ ServiceFollows \/ ServiceFails
  <2>1. step' \in {"closed", "idle"}
    BY <1>5 DEF InstallFails, ApplyFails, ServiceFollows, ServiceFails, GiveUp
  <2> QED BY <2>1, SaveInvAtRest
<1>6. CASE InstallRemoves
  <2>1. /\ step = "install" /\ step' = "copy"
        /\ temporary' = temporary /\ shown' = shown /\ Selected' = Selected
    BY <1>6 DEF InstallRemoves, pageVars, Selected
  <2> QED BY <2>1 DEF SaveInv, CopyInv, InstallInv, FileInv, HardwareInv, Installing,
                      WrittenFor
<1>7. CASE InstallCopies
  <2>1. /\ step = "copy" /\ step' = "apply"
        /\ file' = temporary /\ temporary \in Text
        /\ shown' = shown /\ Selected' = Selected
    BY <1>7 DEF InstallCopies, pageVars, Selected, UVTypeOK, Installing
  <2>2. file' \in Text /\ WrittenFor(file)'
    BY <2>1 DEF SaveInv, InstallInv, Installing, WrittenFor
  <2> QED BY <2>1, <2>2 DEF SaveInv, CopyInv, InstallInv, FileInv, HardwareInv,
                            Installing
<1>8. CASE Apply
  <2>1. /\ step = "apply" /\ step' = "service"
        /\ file' = file /\ written' = written
        /\ shown' = shown /\ Selected' = Selected
        /\ hardware' = Applied(HardwareDomains)
    BY <1>8 DEF Apply, pageVars, Selected
  <2>2. FileInv'
    BY <2>1 DEF SaveInv, FileInv, WrittenFor
  <2>3. HardwareInv'
    <3> SUFFICES ASSUME written # {}, NothingFused(file),
                        NEW d \in Selected \cap HardwareDomains
                 PROVE  hardware'[d] = Printed(shown[d])
      BY <2>1 DEF HardwareInv
    <3> QED BY <2>1, AppliedWritten DEF SaveInv, FileInv
  <2> QED BY <2>1, <2>2, <2>3 DEF SaveInv, CopyInv, InstallInv, Installing
<1>9. CASE AdministratorEdits
  <2>1. UNCHANGED <<pageVars, saveVars>> /\ written' = {}
    BY <1>9 DEF AdministratorEdits
  <2> QED BY <2>1 DEF SaveInv, CopyInv, InstallInv, FileInv, HardwareInv, Installing,
                      WrittenFor, Selected, pageVars, saveVars
<1>10. CASE PackageChanges
  BY <1>10, SaveInvUnmoved DEF PackageChanges
<1>11. CASE Reset
  <2>1. step' \in {"closed", "idle"}
    BY <1>11 DEF Reset, Gone
  <2> QED BY <2>1, SaveInvAtRest
<1>12. CASE BootService
  <2>1. /\ UNCHANGED <<pageVars, saveVars, file, written>>
        /\ hardware' \in {hardware, Applied(HardwareDomains)}
    BY <1>12 DEF BootService
  <2>2. CopyInv' /\ InstallInv' /\ FileInv'
    BY <2>1 DEF SaveInv, CopyInv, InstallInv, FileInv, Installing, WrittenFor,
                Selected, pageVars, saveVars
  <2>3. HardwareInv'
    <3>1. step' = step /\ shown' = shown /\ Selected' = Selected
          /\ file' = file /\ written' = written
      BY <2>1 DEF pageVars, saveVars, Selected
    <3> SUFFICES ASSUME step = "service", written # {}, NothingFused(file),
                        NEW d \in Selected \cap HardwareDomains
                 PROVE  hardware'[d] = Printed(shown[d])
      BY <3>1 DEF HardwareInv
    <3>2. hardware[d] = Printed(shown[d])
      BY DEF SaveInv, HardwareInv
    <3> QED BY <2>1, <3>2, AppliedWritten DEF SaveInv, FileInv
  <2> QED BY <2>2, <2>3 DEF SaveInv
<1> QED BY <1>1, <1>2, <1>3, <1>4, <1>5, <1>6, <1>7, <1>8, <1>9, <1>10, <1>11, <1>12
        DEF UVNext, SaveStep

LEMMA SaveInvInit == UVInit => SaveInv
BY DEF UVInit, SaveInv, CopyInv, InstallInv, FileInv, HardwareInv, Installing

\* What the theorems below rest on.
THEOREM SaveOnItsWay == UVSpec => []SaveInv
<1>1. UVTypeOK /\ SaveInv /\ UVTypeOK' /\ [UVNext]_uvVars => SaveInv'
  BY SaveInvStep
<1> QED BY <1>1, SaveInvInit, UndervoltTypeCorrect, PTL DEF UVSpec

----------------------------------------------------------------------------
\* What a save installs has every line that is no domain's and every line of
\* a hidden domain as they were, where they were, and no others of theirs
\* (undervolt_write_config_copy_masked), when no line is fused.
THEOREM OthersPreservedHolds == UVSpec => []OthersPreserved
<1>1. UVTypeOK /\ SaveInv => OthersPreserved
  <2> SUFFICES ASSUME UVTypeOK, SaveInv, step = "install", ~Fuses(source)
               PROVE  LET Other(line) == line.domain = NoDomain \/ ~Visible(line.domain)
                          before == Source(source)
                      IN  /\ \A i \in DOMAIN before :
                               Other(before[i]) => i \in DOMAIN temporary /\ temporary[i] = before[i]
                          /\ \A i \in DOMAIN temporary :
                               Other(temporary[i]) => i \in DOMAIN before /\ temporary[i] = before[i]
    BY DEF OthersPreserved
  <2> DEFINE Other(line) == line.domain = NoDomain \/ ~Visible(line.domain)
             before == Source(source)
             selected == Selected
  <2>1. /\ source \in Text \cup {Missing}
        /\ temporary = Rewritten(source, shown, selected)
        /\ shown \in [Domains -> Int] /\ selected \in SUBSET Domains
        /\ before \in Text /\ temporary \in Text
    BY Limits, SelectedType, SourceIsText DEF SaveInv, CopyInv, UVTypeOK, Installing
  <2>2. \/ Unwritten(before, selected) = {}
        \/ before = <<>>
        \/ before[Len(before)].ended
    BY DEF Fuses
  <2> HIDE DEF before, selected
  <2>3. temporary = TwoLoops(before, shown, selected)
    BY <2>1, <2>2, RewrittenApart DEF before
  <2>4. /\ \A i \in DOMAIN before :
             before[i].domain \notin selected => i \in DOMAIN temporary /\ temporary[i] = before[i]
        /\ \A i \in DOMAIN temporary :
             temporary[i].domain \notin selected => i \in DOMAIN before /\ temporary[i] = before[i]
    BY ONLY <2>1, <2>3, OthersCopied
  <2>5. ASSUME NEW lines \in Text, NEW i \in DOMAIN lines, Other(lines[i])
        PROVE  lines[i].domain \notin selected
    <3>1. lines[i] \in Line
      BY ElementOfSeq, LenProperties DEF Text
    <3>2. lines[i].domain \in Domains \cup {NoDomain}
      BY <3>1 DEF Line
    <3>3. NoDomain \notin selected
      BY <2>1, DomainsFinite, NoNumbersAssumption
    <3> QED BY <2>5, <3>2, <3>3, SelectedType DEF selected
  <2> HIDE DEF Other
  <2> QED BY <2>1, <2>4, <2>5 DEF before, Other
<1> QED BY <1>1, UndervoltTypeCorrect, SaveOnItsWay, PTL

\* What a save writes loads as the form and the rest of the file
\* (undervolt_write_config_copy_masked, undervolt_load_config), when no line is
\* fused.
THEOREM SavedIsLoadedHolds == UVSpec => []SavedIsLoaded
<1>1. UVTypeOK /\ SaveInv => SavedIsLoaded
  <2> SUFFICES ASSUME UVTypeOK, SaveInv, step = "install", ~Fuses(source),
                      LoadSucceeds(source)
               PROVE  /\ LoadSucceeds(temporary)
                      /\ Loaded(temporary) =
                           [d \in Domains |-> IF Visible(d) THEN Printed(shown[d])
                                              ELSE Loaded(source)[d]]
    BY DEF SavedIsLoaded
  <2> DEFINE selected == Selected
  <2>1. /\ source \in Text \cup {Missing}
        /\ temporary = Rewritten(source, shown, selected)
        /\ shown \in [Domains -> Int] /\ selected \in SUBSET Domains
    BY Limits, SelectedType DEF SaveInv, CopyInv, UVTypeOK
  <2>2. Unfused(source, selected)
    BY DEF Fuses, Unfused
  <2>3. \A d \in Domains : d \in selected <=> Visible(d)
    BY SelectedType
  <2> HIDE DEF selected
  <2>4. /\ LoadSucceeds(source) => LoadSucceeds(temporary)
        /\ Loaded(temporary) = [d \in Domains |-> IF d \in selected
                                                    THEN Printed(shown[d])
                                                    ELSE Loaded(source)[d]]
    BY ONLY <2>1, <2>2, CopyLoads
  <2> QED BY <2>3, <2>4
<1> QED BY <1>1, UndervoltTypeCorrect, SaveOnItsWay, PTL

----------------------------------------------------------------------------
\* The limits of the page.

\* Every offset in the file that is not as the administrator wrote it.
OthersWithin(lines) ==
  \A i \in DOMAIN lines :
    lines[i].domain # NoDomain /\ lines[i].text # "mine" => lines[i].offset \in MinMv..MaxMv

\* Every offset in the file for some domains.
AllWithin(lines, domains) ==
  \A i \in DOMAIN lines : lines[i].domain \in domains => lines[i].offset \in MinMv..MaxMv

\* Both hold of the copy that is on its way, for the domains of the save, and of the
\* file, for the domains of the save that wrote it.
WithinInv ==
  /\ \A lines \in {file, temporary} : lines \in Text => OthersWithin(lines)
  /\ file \in Text => AllWithin(file, written)
  /\ Installing => AllWithin(temporary, Selected)

LEMMA CopyWithin ==
  ASSUME NEW contents \in Text \cup {Missing}, NEW offsets \in [Domains -> MinMv..MaxMv],
         NEW selected \in SUBSET Domains,
         contents # Missing => OthersWithin(contents)
  PROVE  LET r == Rewritten(contents, offsets, selected)
         IN  OthersWithin(r) /\ AllWithin(r, selected)
<1> DEFINE lines == Source(contents)
           r == Rewritten(contents, offsets, selected)
<1>1. /\ Len(lines) \in Nat /\ DOMAIN lines = 1..Len(lines)
      /\ Len(r) \in Nat /\ DOMAIN r = 1..Len(r)
      /\ offsets \in [Domains -> Int]
  <2>1. offsets \in [Domains -> Int]
    BY Limits
  <2>2. lines \in Text /\ r \in Text
    BY <2>1, SourceIsText, RewrittenIsText
  <2> QED BY <2>1, <2>2, LenProperties DEF Text
<1>2. \A i \in 1..Len(r) : Origin(lines, offsets, selected, i, r[i])
  BY <1>1, RewrittenLines
<1>3. OthersWithin(lines)
  <2>1. CASE contents = Missing
    BY <2>1 DEF Source, Header, OthersWithin
  <2>2. CASE contents # Missing
    BY <2>2 DEF Source
  <2> QED BY <2>1, <2>2
<1>4. \A d \in Domains : Printed(offsets[d]) \in MinMv..MaxMv
  BY PrintedWithin
<1>5. \A d : OwnLine(d, offsets[d]).offset = Printed(offsets[d])
  BY DEF OwnLine
<1>6. Unwritten(lines, selected) \subseteq Domains
  BY DEF Unwritten
<1> HIDE DEF lines, r
<1>7. ASSUME NEW i \in 1..Len(r)
      PROVE  /\ r[i].domain # NoDomain /\ r[i].text # "mine" => r[i].offset \in MinMv..MaxMv
             /\ r[i].domain \in selected => r[i].offset \in MinMv..MaxMv
  <2>1. Origin(lines, offsets, selected, i, r[i])
    BY <1>2
  <2>2. CASE i <= Len(lines) /\ lines[i].domain \notin selected /\ r[i] = lines[i]
    <3>1. i \in DOMAIN lines
      BY <1>1, <2>2
    <3> QED BY <1>3, <2>2, <3>1 DEF OthersWithin
  <2>3. CASE /\ i <= Len(lines) /\ lines[i].domain \in selected
             /\ r[i] = OwnLine(lines[i].domain, offsets[lines[i].domain])
    BY <1>4, <1>5, <2>3
  <2>4. CASE /\ lines[i].domain \notin selected /\ r[i].domain = lines[i].domain
             /\ r[i].domain # NoDomain =>
                  r[i].offset \in {Printed(offsets[d]) : d \in Unwritten(lines, selected)}
    BY <1>4, <1>6, <2>4
  <2>5. CASE /\ r[i].domain \in Unwritten(lines, selected)
             /\ r[i] = OwnLine(r[i].domain, offsets[r[i].domain])
    BY <1>4, <1>5, <1>6, <2>5
  <2> QED BY <2>1, <2>2, <2>3, <2>4, <2>5 DEF Origin
<1> QED BY <1>1, <1>7 DEF OthersWithin, AllWithin, r

LEMMA WithinUnmoved ==
  ASSUME WithinInv, file' = file, written' = written, temporary' \in {temporary, Missing},
         Installing' => Installing /\ temporary' = temporary /\ Selected' = Selected
  PROVE  WithinInv'
BY FilesAssumption DEF WithinInv, OthersWithin, AllWithin

LEMMA WithinStep == UVTypeOK /\ WithinInv /\ [UVNext]_uvVars => WithinInv'
<1> SUFFICES ASSUME UVTypeOK, WithinInv, [UVNext]_uvVars PROVE WithinInv'
  OBVIOUS
<1>1. CASE Save
  <2>1. /\ file \in Text \cup {Missing} /\ file' = file /\ written' = written
        /\ temporary' = Rewritten(file, shown, Selected) /\ Selected' = Selected
    BY <1>1 DEF Save, UVTypeOK, machineVars, Selected
  <2>2. shown \in [Domains -> MinMv..MaxMv] /\ Selected \in SUBSET Domains
    BY SelectedType DEF UVTypeOK
  <2>3. file # Missing => OthersWithin(file)
    BY <2>1 DEF WithinInv
  <2>4. OthersWithin(temporary') /\ AllWithin(temporary', Selected)
    BY <2>1, <2>2, <2>3, CopyWithin
  <2> QED BY <2>1, <2>4 DEF WithinInv, OthersWithin, AllWithin
<1>2. CASE InstallRemoves
  <2>1. /\ file' = Missing /\ temporary' = temporary /\ Selected' = Selected
        /\ Installing
    BY <1>2 DEF InstallRemoves, pageVars, Selected, Installing
  <2> QED BY <2>1, FilesAssumption DEF WithinInv, OthersWithin, AllWithin
<1>3. CASE InstallCopies
  <2>1. /\ file' = temporary /\ temporary' = Missing /\ written' = Selected
        /\ temporary \in Text /\ Installing /\ ~Installing'
    BY <1>3 DEF InstallCopies, Installing, UVTypeOK
  <2> QED BY <2>1, FilesAssumption DEF WithinInv, OthersWithin, AllWithin
<1>4. CASE InstallFails
  <2>1. /\ (file' = file /\ written' = written) \/ file' = <<>>
        /\ temporary' = Missing /\ ~Installing'
    BY <1>4 DEF InstallFails, GiveUp, Installing
  <2> QED BY <2>1, FilesAssumption DEF WithinInv, OthersWithin, AllWithin
<1>5. CASE AdministratorEdits
  <2>1. /\ file' \in HandMade /\ written' = {} /\ temporary' = temporary
        /\ Selected' = Selected /\ Installing' = Installing
    BY <1>5 DEF AdministratorEdits, pageVars, saveVars, Selected, Installing
  <2>2. file' \in Text => OthersWithin(file')
    BY <2>1, FilesAssumption, HandMadeAssumption DEF OthersWithin
  <2> QED BY <2>1, <2>2 DEF WithinInv, OthersWithin, AllWithin
<1>6. CASE \/ Open \/ Close \/ Refresh \/ Read \/ ZeroForm \/ ToggleBoot
           \/ \E form \in Forms : Fill(form)
           \/ ApplyFails \/ Apply \/ ServiceFollows \/ ServiceFails \/ Reset
  <2>1. /\ file' = file /\ written' = written /\ temporary' \in {temporary, Missing}
        /\ ~Installing'
    BY <1>6 DEF Open, Close, Gone, Refresh, RefreshBackend, Read, ZeroForm, ToggleBoot, Fill,
                ApplyFails, Apply, ServiceFollows, ServiceFails, Reset, GiveUp, Installing,
                machineVars, saveVars
  <2> QED BY <2>1, WithinUnmoved
<1>7. CASE PackageChanges \/ BootService \/ UNCHANGED uvVars
  <2>1. /\ file' = file /\ written' = written /\ temporary' = temporary
        /\ step' = step /\ present' = present /\ detected' = detected
    BY <1>7 DEF PackageChanges, BootService, uvVars, pageVars, saveVars
  <2> QED BY <2>1, WithinUnmoved DEF Installing, Selected
<1> QED BY <1>1, <1>2, <1>3, <1>4, <1>5, <1>6, <1>7 DEF UVNext, SaveStep

\* What the page puts into the file is within -150..0 mV (undervolt_validate), and so is
\* what becomes of it in the hardware, whenever and by whomever it is applied; what is
\* not is a line of the administrator's, for a domain the last save was not for.
THEOREM NeverOvervoltsHolds == UVSpec => NeverOvervolts
<1> DEFINE Within == \A d \in Domains :
                       hardware'[d] # hardware[d] /\ hardware'[d] \notin MinMv..MaxMv
                         => /\ d \notin written
                            /\ \E i \in LinesOf(file, d) :
                                 file[i].text = "mine" /\ file[i].offset = hardware'[d]
<1>1. UVInit => WithinInv
  <2> SUFFICES ASSUME UVInit PROVE WithinInv
    OBVIOUS
  <2>1. file \in HandMade /\ written = {} /\ temporary = Missing /\ ~Installing
    BY DEF UVInit, Installing
  <2>2. file \in Text => OthersWithin(file)
    BY <2>1, FilesAssumption, HandMadeAssumption DEF OthersWithin
  <2> QED BY <2>1, <2>2, FilesAssumption DEF WithinInv, AllWithin
<1>2. UVTypeOK /\ WithinInv /\ [UVNext]_uvVars => [Within]_uvVars
  <2> SUFFICES ASSUME UVTypeOK, WithinInv, UVNext, NEW d \in Domains,
                      hardware'[d] # hardware[d], hardware'[d] \notin MinMv..MaxMv
               PROVE  /\ d \notin written
                      /\ \E i \in LinesOf(file, d) :
                           file[i].text = "mine" /\ file[i].offset = hardware'[d]
    OBVIOUS
  <2>1. hardware' = hardware \/ hardware' = Zero \/ \E done : hardware' = Applied(done)
    BY DEF UVNext, SaveStep, Open, Close, Gone, Refresh, RefreshBackend, Read, ZeroForm,
           ToggleBoot, Fill, Save, InstallFails, InstallRemoves, InstallCopies, ApplyFails,
           Apply, ServiceFollows, ServiceFails, AdministratorEdits, PackageChanges, Reset,
           BootService, machineVars
  <2>2. hardware' # Zero
    BY Limits DEF Zero
  <2>3. PICK done : hardware' = Applied(done)
    BY <2>1, <2>2
  <2>4. /\ file \in Text /\ LinesOf(file, d) # {}
        /\ hardware'[d] = LastOffset(file, d)
    BY <2>3 DEF Applied, UVTypeOK
  <2>5. PICK i \in LinesOf(file, d) : LastOffset(file, d) = file[i].offset
    BY <2>4, LastOffsetOfLine DEF Text
  <2>6. /\ i \in DOMAIN file /\ file[i].domain = d /\ d # NoDomain
        /\ file[i].offset = hardware'[d]
    BY <2>4, <2>5, NoNumbersAssumption, DomainsFinite DEF LinesOf
  <2>7. file[i].text = "mine" /\ d \notin written
    BY <2>4, <2>6 DEF WithinInv, OthersWithin, AllWithin
  <2> QED BY <2>5, <2>6, <2>7
<1> QED BY <1>1, <1>2, WithinStep, UndervoltTypeCorrect, PTL DEF UVSpec, NeverOvervolts

----------------------------------------------------------------------------
\* The report.

LEMMA ReportInvSilent == ASSUME report' = NoReport PROVE ReportInv'
BY DEF ReportInv, ReportedIsInForce

LEMMA ReportInvUnmoved ==
  ASSUME ReportInv, UNCHANGED <<file, hardware, unit, booting, written, report>>,
         step' = step \/ step' \notin {"copy", "apply", "service"}
  PROVE  ReportInv'
BY DEF ReportInv, ReportedIsInForce, NothingFused

\* What a save that has applied the offsets tells is so.
LEMMA ReportInvTold ==
  ASSUME UVTypeOK, SaveInv, step = "service", NEW at_boot, Tell(at_boot), GiveUp,
         UNCHANGED <<file, booting, written>>,
         NEW done, hardware' \in {hardware, Applied(done)},
         at_boot # "unknown" => unit' = at_boot
  PROVE  ReportInv'
<1>1. report' = [offsets |-> [d \in Selected |-> Printed(shown[d])], boot |-> at_boot]
  BY DEF Tell
<1>2. written # {} => file \in Text /\ WrittenFor(file)
  BY DEF SaveInv, FileInv
<1>3. ASSUME written # {}, NothingFused(file), NEW d \in Selected
      PROVE  /\ LinesOf(file, d) # {} /\ LastOffset(file, d) = Printed(shown[d])
             /\ d \in HardwareDomains => hardware'[d] = Printed(shown[d])
  <2>1. LinesOf(file, d) # {} /\ LastOffset(file, d) = Printed(shown[d])
    BY <1>2, <1>3 DEF WrittenFor
  <2>2. d \in HardwareDomains => hardware[d] = Printed(shown[d])
    BY <1>3 DEF SaveInv, HardwareInv
  <2>3. d \in HardwareDomains => hardware'[d] = Printed(shown[d])
    BY <1>2, <1>3, <2>2, AppliedWritten
  <2> QED BY <2>1, <2>3
<1>4. step' = "idle"
  BY DEF GiveUp
<1>5. /\ DOMAIN report'.offsets = Selected /\ report'.boot = at_boot
      /\ \A d \in Selected : report'.offsets[d] = Printed(shown[d])
  BY <1>1
<1>6. ReportedIsInForce'
  BY <1>3, <1>5 DEF ReportedIsInForce, NothingFused
<1> QED BY <1>2, <1>4, <1>6 DEF ReportInv

\* A reset takes the offsets with it, and leaves the boot service to run.
LEMMA ReportInvReset == ASSUME UVTypeOK, ReportInv, Reset PROVE ReportInv'
<1> SUFFICES ASSUME report' # NoReport PROVE ReportInv'
  BY ReportInvSilent
<1>1. /\ report # NoReport /\ report.boot = "yes" /\ report' = report
      /\ file' = file /\ written' = written /\ unit' = unit /\ booting' = unit
      /\ step' = "closed"
  BY DEF Reset, Gone
<1>2. SUFFICES ASSUME written # {}, NothingFused(file)
               PROVE  /\ \A d \in DOMAIN report.offsets :
                           LinesOf(file, d) # {} /\ LastOffset(file, d) = report.offsets[d]
                      /\ unit = "yes"
  BY <1>1 DEF ReportInv, ReportedIsInForce, NothingFused
<1> QED BY <1>1, <1>2 DEF ReportInv, ReportedIsInForce

\* The boot service makes of the hardware what the file says.
LEMMA ReportInvBoot == ASSUME UVTypeOK, ReportInv, BootService PROVE ReportInv'
<1> SUFFICES ASSUME report' # NoReport PROVE ReportInv'
  BY ReportInvSilent
<1>1. /\ report' = report /\ hardware' = Applied(HardwareDomains)
      /\ file' = file /\ written' = written /\ unit' = unit /\ step' = step
  BY DEF BootService, saveVars
<1> SUFFICES ASSUME written # {}, NothingFused(file), NEW d \in DOMAIN report.offsets,
                    d \in HardwareDomains
             PROVE  hardware'[d] = report.offsets[d]
  BY <1>1 DEF ReportInv, ReportedIsInForce, NothingFused
<1>2. /\ file \in Text /\ LinesOf(file, d) # {}
      /\ LastOffset(file, d) = report.offsets[d]
  BY <1>1 DEF ReportInv, ReportedIsInForce
<1>3. d \in Domains /\ report.offsets[d] # Garbage
  BY <1>1, NoNumbersAssumption DEF UVTypeOK
<1>4. file \notin {Missing, Unreadable}
  BY <1>2, FilesAssumption
<1> QED BY <1>1, <1>2, <1>3, <1>4 DEF Applied

LEMMA ReportInvStep ==
  UVTypeOK /\ SaveInv /\ ReportInv /\ [UVNext]_uvVars => ReportInv'
<1> SUFFICES ASSUME UVTypeOK, SaveInv, ReportInv, [UVNext]_uvVars PROVE ReportInv'
  OBVIOUS
<1>1. CASE UNCHANGED uvVars
  BY <1>1, ReportInvUnmoved DEF uvVars
<1>2. CASE \/ Open \/ Close \/ Refresh \/ Read \/ ZeroForm \/ ToggleBoot
           \/ \E form \in Forms : Fill(form)
           \/ Save \/ PackageChanges
  <2>1. /\ UNCHANGED <<file, hardware, unit, booting, written, report>>
        /\ step' = step \/ step' \notin {"copy", "apply", "service"}
    BY <1>2 DEF Open, Close, Gone, Refresh, RefreshBackend, Read, ZeroForm, ToggleBoot, Fill,
                Save, PackageChanges, machineVars, saveVars
  <2> QED BY <2>1, ReportInvUnmoved
<1>3. CASE \/ InstallRemoves \/ InstallCopies \/ ApplyFails \/ Apply
           \/ AdministratorEdits
  <2>1. report' = NoReport
    BY <1>3 DEF InstallRemoves, InstallCopies, ApplyFails, Apply, AdministratorEdits,
                ReportInv
  <2> QED BY <2>1, ReportInvSilent
<1>4. CASE ServiceFollows
  <2>1. /\ step = "service" /\ Tell(boot) /\ GiveUp /\ unit' = boot
        /\ UNCHANGED <<file, booting, written>>
        /\ hardware' \in {hardware, Applied(HardwareDomains)}
    BY <1>4 DEF ServiceFollows
  <2> QED BY <2>1, ReportInvTold
<1>5. CASE ServiceFails
  <2>1. /\ step = "service" /\ Tell("unknown") /\ GiveUp
        /\ UNCHANGED <<file, booting, written>>
    BY <1>5 DEF ServiceFails
  <2>2. PICK done : hardware' = Applied(done)
    BY <1>5 DEF ServiceFails
  <2> QED BY <2>1, <2>2, ReportInvTold
<1>6. CASE Reset
  BY <1>6, ReportInvReset
<1>7. CASE BootService
  BY <1>7, ReportInvBoot
<1>8. CASE InstallFails
  <2>1. CASE report = NoReport
    BY <1>8, <2>1, ReportInvSilent DEF InstallFails
  <2>2. CASE report # NoReport
    <3>1. /\ UNCHANGED <<file, hardware, unit, booting, written, report>>
          /\ step' = "idle"
      BY <1>8, <2>2 DEF InstallFails, GiveUp, ReportInv
    <3> QED BY <3>1, ReportInvUnmoved
  <2> QED BY <2>1, <2>2
<1> QED BY <1>1, <1>2, <1>3, <1>4, <1>5, <1>6, <1>7, <1>8 DEF UVNext, SaveStep

\* "Undervolt aplicado ..." is true when it is said and stays true, of the
\* file, the hardware and the boot service, until the file is written again
\* (write_and_apply_undervolt).
THEOREM ReportedIsInForceHolds == UVSpec => []ReportedIsInForce
<1>1. UVInit => ReportInv
  BY DEF UVInit, ReportInv, ReportedIsInForce
<1>2. ReportInv => ReportedIsInForce
  BY DEF ReportInv
<1> QED BY <1>1, <1>2, ReportInvStep, UndervoltTypeCorrect, SaveOnItsWay, PTL DEF UVSpec

----------------------------------------------------------------------------
\* Where offsets come from.

\* What the buttons of a domain can show once the form was filled.
Typed(d) == {Clamp(v) : v \in Given(d)} \cup {Printed(Clamp(v)) : v \in Given(d)}

\* No line of a domain runs into another's.
DomainsApart(lines) ==
  \A i \in DOMAIN lines : lines[i].text = "fused" => lines[i].domain = NoDomain

LinesAsked(lines) ==
  \A i \in DOMAIN lines :
    lines[i].domain # NoDomain => lines[i].offset \in Asked[lines[i].domain] \cup {Garbage}

LEMMA ClampedAndPrinted ==
  ASSUME NEW v \in Int
  PROVE  /\ Clamp(v) \in MinMv..MaxMv
         /\ v \in MinMv..MaxMv => Clamp(v) = v
         /\ Printed(v) \in Int /\ Printed(Printed(v)) = Printed(v)
<1>1. Clamp(v) \in MinMv..MaxMv
  <2>1. /\ MinMv \in MinMv..MaxMv /\ MaxMv \in MinMv..MaxMv
        /\ ~(v < MinMv) /\ ~(v > MaxMv) => v \in MinMv..MaxMv
    BY Limits
  <2> QED BY <2>1 DEF Clamp
<1>2. v \in MinMv..MaxMv => ~(v < MinMv) /\ ~(v > MaxMv)
  BY Limits
<1>3. Printed(v) \in Int /\ Printed(Printed(v)) = Printed(v)
  BY Z3 DEF Printed
<1> QED BY <1>1, <1>2, <1>3 DEF Clamp

LEMMA GivenType == ASSUME NEW d PROVE HandWritten(d) \subseteq Int
<1> SUFFICES ASSUME NEW contents \in HandMade \ {Missing, Unreadable},
                    NEW i \in LinesOf(contents, d), contents[i].offset # Garbage
             PROVE  contents[i].offset \in Int
  BY DEF HandWritten
<1>1. contents \in Seq(Line) /\ i \in 1..Len(contents)
  BY HandMadeAssumption, LenProperties DEF Text, LinesOf
<1>2. contents[i] \in Line
  BY <1>1, ElementOfSeq
<1> QED BY <1>2 DEF Line

\* What was asked stays within what was asked, through the buttons and the copy.
LEMMA AskedClosed ==
  ASSUME NEW d \in Domains
  PROVE  /\ 0 \in Asked[d] /\ Asked[d] \subseteq Int
         /\ \A v \in Asked[d] : Clamp(v) \in Typed(d)
         /\ \A form \in Forms : Clamp(form[d]) \in Typed(d)
         /\ \A v \in Typed(d) : Printed(v) \in Asked[d]
<1>1. Given(d) \subseteq Int /\ HandWritten(d) \subseteq Int
  BY GivenType, FormsAssumption DEF Given
<1>2. Asked[d] = HandWritten(d) \cup {Printed(Clamp(v)) : v \in Given(d)}
  BY DEF Asked
<1>3. \A v \in Given(d) : /\ Clamp(v) \in Int
                          /\ Printed(Clamp(v)) \in Int
                          /\ Clamp(Printed(Clamp(v))) = Printed(Clamp(v))
                          /\ Printed(Printed(Clamp(v))) = Printed(Clamp(v))
  <2> TAKE v \in Given(d)
  <2>1. Clamp(v) \in MinMv..MaxMv /\ Clamp(v) \in Int
    BY <1>1, Limits, ClampedAndPrinted
  <2>2. Printed(Clamp(v)) \in MinMv..MaxMv /\ Printed(Clamp(v)) \in Int
    BY <2>1, Limits, PrintedWithin
  <2> QED BY <2>1, <2>2, ClampedAndPrinted
<1>4. 0 \in Asked[d]
  BY <1>2, NoNumbersAssumption DEF HandWritten
<1>5. \A v \in Asked[d] : Clamp(v) \in Typed(d)
  BY <1>2, <1>3 DEF Typed, Given
<1>6. \A form \in Forms : Clamp(form[d]) \in Typed(d)
  BY DEF Typed, Given
<1>7. \A v \in Typed(d) : Printed(v) \in Asked[d]
  BY <1>2, <1>3 DEF Typed
<1> QED BY <1>1, <1>2, <1>3, <1>4, <1>5, <1>6, <1>7

LEMMA HandMadeAsked ==
  ASSUME NEW contents \in HandMade \ {Missing, Unreadable} PROVE LinesAsked(contents)
<1> SUFFICES ASSUME NEW i \in DOMAIN contents, contents[i].domain # NoDomain,
                    contents[i].offset # Garbage
             PROVE  contents[i].offset \in Asked[contents[i].domain]
  BY DEF LinesAsked
<1> DEFINE d == contents[i].domain
<1>1. contents \in Seq(Line) /\ i \in 1..Len(contents)
  BY HandMadeAssumption, LenProperties DEF Text
<1>2. d \in Domains
  <2>1. contents[i] \in Line
    BY <1>1, ElementOfSeq
  <2> QED BY <2>1 DEF Line
<1>3. contents[i].offset \in HandWritten(d)
  BY DEF HandWritten, LinesOf
<1> QED BY <1>2, <1>3 DEF Asked

LEMMA CopyAsked ==
  ASSUME UVTypeOK, NEW contents \in Text \cup {Missing},
         contents # Missing => LinesAsked(contents),
         \A d \in Domains : shown[d] \in Typed(d),
         DomainsApart(Rewritten(contents, shown, Selected))
  PROVE  LinesAsked(Rewritten(contents, shown, Selected))
<1> DEFINE lines == Source(contents)
           selected == Selected
           r == Rewritten(contents, shown, selected)
<1>1. /\ shown \in [Domains -> Int] /\ selected \in SUBSET Domains
      /\ lines \in Seq(Line) /\ Len(lines) \in Nat /\ DOMAIN lines = 1..Len(lines)
      /\ r \in Text
  <2>1. shown \in [Domains -> Int] /\ selected \in SUBSET Domains
    BY Limits, SelectedType DEF UVTypeOK
  <2>2. lines \in Text
    BY SourceIsText
  <2>3. r \in Text
    BY <2>1, RewrittenIsText
  <2> QED BY <2>1, <2>2, <2>3, LenProperties DEF Text
<1>2. LinesAsked(lines)
  BY DEF LinesAsked, Source, Header
<1>3. DOMAIN r = 1..Len(r) /\ \A i \in 1..Len(r) : Origin(lines, shown, selected, i, r[i])
  BY <1>1, RewrittenLines, LenProperties DEF Text
<1>4. DomainsApart(r)
  OBVIOUS
<1> HIDE DEF lines, selected, r
<1>5. ASSUME NEW d \in selected PROVE OwnLine(d, shown[d]).offset \in Asked[d]
  BY <1>1, <1>5, AskedClosed DEF OwnLine
<1>6. ASSUME NEW i \in DOMAIN r, r[i].domain # NoDomain
      PROVE  r[i].offset \in Asked[r[i].domain] \cup {Garbage}
  <2>1. CASE i <= Len(lines) /\ r[i] = lines[i]
    BY <1>1, <1>2, <1>3, <1>6, <2>1 DEF LinesAsked
  <2>2. CASE \E d \in selected : r[i] = OwnLine(d, shown[d])
    BY <1>5, <2>2 DEF OwnLine
  <2>3. CASE r[i].text = "fused" /\ r[i].domain = lines[i].domain
    BY <1>4, <1>6, <2>3 DEF DomainsApart
  <2>4. Unwritten(lines, selected) \subseteq selected
    BY DEF Unwritten
  <2>5. Origin(lines, shown, selected, i, r[i])
    BY <1>3
  <2> QED BY <2>1, <2>2, <2>3, <2>4, <2>5 DEF Origin
<1> QED BY <1>6 DEF LinesAsked, r, selected

LEMMA OffsetAsked ==
  ASSUME NEW lines \in Text, LinesAsked(lines), NEW d \in Domains,
         LinesOf(lines, d) # {}, LastOffset(lines, d) # Garbage
  PROVE  LastOffset(lines, d) \in Asked[d]
<1>1. PICK i \in LinesOf(lines, d) : LastOffset(lines, d) = lines[i].offset
  BY LastOffsetOfLine DEF Text
<1>2. d # NoDomain
  BY DomainsFinite, NoNumbersAssumption
<1> QED BY <1>1, <1>2 DEF LinesAsked, LinesOf

LEMMA AppliedAsked ==
  ASSUME UVTypeOK, file \in Text => LinesAsked(file), NEW done, NEW d \in Domains,
         hardware[d] \in Asked[d]
  PROVE  Applied(done)[d] \in Asked[d]
<1> SUFFICES ASSUME file \notin {Missing, Unreadable}, LinesOf(file, d) # {},
                    LastOffset(file, d) # Garbage
             PROVE  LastOffset(file, d) \in Asked[d]
  BY DEF Applied
<1> QED BY OffsetAsked DEF UVTypeOK

LEMMA LoadedAsked ==
  ASSUME UVTypeOK, file \in Text => LinesAsked(file), LoadSucceeds(file), NEW d \in Domains
  PROVE  Loaded(file)[d] \in Asked[d]
<1>1. CASE file = Missing \/ LinesOf(file, d) = {}
  BY <1>1, AskedClosed DEF Loaded
<1>2. CASE file # Missing /\ LinesOf(file, d) # {}
  <2>1. file \in Text /\ Loaded(file)[d] = LastOffset(file, d)
    BY <1>2 DEF UVTypeOK, LoadSucceeds, Loaded
  <2>2. Loaded(file)[d] \in Int
    BY LoadedType DEF UVTypeOK
  <2> QED BY <1>2, <2>1, <2>2, OffsetAsked, NoNumbersAssumption
<1> QED BY <1>1, <1>2

\* The strengthening: what the file, the copy being installed, the hardware and
\* a form that was filled hold was asked for, until a form that never was is saved.
AskedInv ==
  filled # "blind" =>
    /\ file \in Text => LinesAsked(file)
    /\ temporary \in Text /\ DomainsApart(temporary) => LinesAsked(temporary)
    /\ NothingInvented
    /\ filled = "yes" => \A d \in Domains : shown[d] \in Typed(d)

FileApart == file \in Text => DomainsApart(file)

LEMMA WidgetsTyped ==
  ASSUME NEW offsets, NEW d \in Domains, offsets[d] \in Asked[d]
  PROVE  Widgets(offsets)[d] \in Typed(d)
BY AskedClosed DEF Widgets

LEMMA AskedPage ==
  ASSUME UVTypeOK, AskedInv,
         \/ Refresh \/ Open \/ Close \/ Read \/ ZeroForm \/ ToggleBoot
         \/ \E form \in Forms : Fill(form)
  PROVE  AskedInv'
<1> USE DEF machineVars, saveVars, Filled
<1>1. /\ file' = file /\ hardware' = hardware /\ temporary' \in {temporary, Missing}
      /\ filled' = "blind" <=> filled = "blind"
  BY DEF UVTypeOK, Refresh, Open, RefreshBackend, FillForm, Close, Gone, Read, ZeroForm,
         ToggleBoot, Fill
<1> SUFFICES ASSUME filled # "blind", filled' = "yes"
             PROVE  \A d \in Domains : shown'[d] \in Typed(d)
  BY <1>1, FilesAssumption DEF AskedInv, NothingInvented, LinesAsked, DomainsApart
<1>2. /\ file \in Text => LinesAsked(file)
      /\ \A d \in Domains : hardware[d] \in Asked[d]
      /\ filled = "yes" => \A d \in Domains : shown[d] \in Typed(d)
  BY DEF AskedInv, NothingInvented
<1>3. CASE UNCHANGED <<shown, filled>>
  BY <1>2, <1>3
<1>4. CASE shown' = Widgets(Loaded(file)) /\ LoadSucceeds(file)
  BY <1>2, <1>4, LoadedAsked, WidgetsTyped
<1>5. CASE Read
  <2>1. PICK understood \in SUBSET HardwareDomains :
          shown' = Widgets(Parsed([d \in HardwareDomains |->
                                     IF d \in understood THEN hardware[d] ELSE Garbage], Zero))
    BY <1>5 DEF Read
  <2> DEFINE output == [d \in HardwareDomains |->
                          IF d \in understood THEN hardware[d] ELSE Garbage]
  <2>2. \A d \in Domains : Parsed(output, Zero)[d] \in {hardware[d], 0}
    BY DEF Parsed, Found, Zero
  <2>3. \A d \in Domains : Parsed(output, Zero)[d] \in Asked[d]
    BY <1>2, <2>2, AskedClosed
  <2> HIDE DEF output
  <2> QED BY <2>1, <2>3, WidgetsTyped DEF output
<1>6. CASE ZeroForm
  <2>1. \A d \in Domains : Zero[d] \in Asked[d]
    BY AskedClosed DEF Zero
  <2> QED BY <1>6, <2>1, WidgetsTyped DEF ZeroForm
<1>7. CASE \E form \in Forms : Fill(form)
  <2>1. PICK form \in Forms : Fill(form)
    BY <1>7
  <2>2. (\A d \in Domains : Visible(d)) \/ filled = "yes"
    BY <2>1 DEF Fill
  <2>3. \A d \in Domains : Clamp(form[d]) \in Typed(d)
    BY AskedClosed
  <2>4. \A d \in Domains : shown'[d] = IF Visible(d) THEN Clamp(form[d]) ELSE shown[d]
    BY <2>1 DEF Fill
  <2> QED BY <1>2, <2>2, <2>3, <2>4
<1>8. CASE Close
  BY <1>8 DEF Close, Gone
<1> QED BY <1>3, <1>4, <1>5, <1>6, <1>7, <1>8
        DEF Refresh, Open, RefreshBackend, FillForm, ToggleBoot

\* A step that leaves the file, the copy and the page where they are.
LEMMA AskedApplied ==
  ASSUME UVTypeOK, AskedInv, UNCHANGED <<file, pageVars>>,
         temporary' \in {temporary, Missing},
         \/ hardware' = hardware
         \/ hardware' = Zero
         \/ \E done : hardware' = Applied(done)
  PROVE  AskedInv'
<1> SUFFICES ASSUME filled # "blind", NEW d \in Domains PROVE hardware'[d] \in Asked[d]
  BY FilesAssumption DEF AskedInv, NothingInvented, LinesAsked, DomainsApart, pageVars
<1>1. hardware[d] \in Asked[d] /\ (file \in Text => LinesAsked(file))
  BY DEF AskedInv, NothingInvented
<1>2. Zero[d] \in Asked[d]
  BY AskedClosed DEF Zero
<1> QED BY <1>1, <1>2, AppliedAsked

LEMMA AskedSave ==
  ASSUME UVTypeOK, AskedInv, FileApart', Save \/ SaveStep
  PROVE  AskedInv'
<1>1. CASE Save
  <2>1. /\ file \in Text \cup {Missing} /\ file' = file /\ hardware' = hardware
        /\ shown' = shown /\ temporary' = Rewritten(file, shown, Selected)
        /\ filled' = IF filled = "no" THEN "blind" ELSE filled
    BY <1>1 DEF Save, UVTypeOK, machineVars
  <2> SUFFICES ASSUME filled = "yes", DomainsApart(temporary') PROVE LinesAsked(temporary')
    BY <2>1 DEF AskedInv, NothingInvented, LinesAsked, DomainsApart, UVTypeOK
  <2>2. /\ file # Missing => LinesAsked(file)
        /\ \A d \in Domains : shown[d] \in Typed(d)
    BY <2>1 DEF AskedInv
  <2> QED BY <2>1, <2>2, CopyAsked
<1>2. CASE ApplyFails \/ Apply \/ ServiceFails \/ ServiceFollows
  <2>1. /\ UNCHANGED <<file, pageVars>> /\ temporary' \in {temporary, Missing}
        /\ hardware' = hardware \/ \E done : hardware' = Applied(done)
    BY <1>2 DEF ApplyFails, Apply, ServiceFails, ServiceFollows, GiveUp,
                machineVars
  <2> QED BY <2>1, AskedApplied
<1>3. CASE InstallRemoves
  <2>1. file' = Missing /\ UNCHANGED <<hardware, temporary, shown, filled>>
    BY <1>3 DEF InstallRemoves, pageVars
  <2> QED BY <2>1, FilesAssumption DEF AskedInv, NothingInvented, LinesAsked, DomainsApart
<1>4. CASE InstallCopies
  <2>1. /\ temporary \in Text /\ file' = temporary /\ temporary' = Missing
        /\ UNCHANGED <<hardware, shown, filled>>
    BY <1>4 DEF InstallCopies, pageVars, UVTypeOK, Installing
  <2>2. DomainsApart(temporary)
    BY <2>1 DEF FileApart, DomainsApart
  <2> QED BY <2>1, <2>2, FilesAssumption
          DEF AskedInv, NothingInvented, LinesAsked, DomainsApart
<1>5. CASE InstallFails
  <2>1. /\ file' \in {file, <<>>} /\ temporary' = Missing
        /\ UNCHANGED <<hardware, shown, filled>>
    BY <1>5 DEF InstallFails, GiveUp, pageVars
  <2> QED BY <2>1, FilesAssumption DEF AskedInv, NothingInvented, LinesAsked, DomainsApart
<1> QED BY <1>1, <1>2, <1>3, <1>4, <1>5 DEF SaveStep

LEMMA AskedWorld ==
  ASSUME UVTypeOK, AskedInv, AdministratorEdits \/ PackageChanges \/ Reset \/ BootService
  PROVE  AskedInv'
<1>1. CASE AdministratorEdits
  <2>1. file' \in HandMade /\ UNCHANGED <<hardware, temporary, shown, filled>>
    BY <1>1 DEF AdministratorEdits, pageVars, saveVars
  <2>2. file' \in Text => LinesAsked(file')
    BY <2>1, FilesAssumption, HandMadeAsked
  <2> QED BY <2>1, <2>2 DEF AskedInv, NothingInvented, LinesAsked, DomainsApart
<1>2. CASE PackageChanges \/ BootService
  <2>1. /\ UNCHANGED <<file, pageVars>> /\ temporary' \in {temporary, Missing}
        /\ hardware' = hardware \/ \E done : hardware' = Applied(done)
    BY <1>2 DEF PackageChanges, BootService, saveVars
  <2> QED BY <2>1, AskedApplied
<1>3. CASE Reset
  <2>1. /\ file' = file /\ temporary' = Missing /\ hardware' = Zero
        /\ filled' = IF filled = "blind" THEN "blind" ELSE "no"
    BY <1>3 DEF Reset, Gone
  <2>2. \A d \in Domains : Zero[d] \in Asked[d]
    BY AskedClosed DEF Zero
  <2> QED BY <2>1, <2>2, FilesAssumption
          DEF AskedInv, NothingInvented, LinesAsked, DomainsApart
<1> QED BY <1>1, <1>2, <1>3

LEMMA AskedStep ==
  UVTypeOK /\ AskedInv /\ FileApart' /\ [UVNext]_uvVars => AskedInv'
<1> SUFFICES ASSUME UVTypeOK, AskedInv, FileApart', [UVNext]_uvVars PROVE AskedInv'
  OBVIOUS
<1>1. CASE UNCHANGED uvVars
  <2>1. UNCHANGED <<file, pageVars>> /\ temporary' = temporary /\ hardware' = hardware
    BY <1>1 DEF uvVars, pageVars
  <2> QED BY <2>1, AskedApplied
<1> QED BY <1>1, AskedPage, AskedSave, AskedWorld DEF UVNext

LEMMA AskedInit == UVInit => AskedInv
<1> SUFFICES ASSUME UVInit PROVE AskedInv
  OBVIOUS
<1>1. file \in HandMade /\ hardware = Zero /\ temporary = Missing /\ filled = "no"
  BY DEF UVInit
<1>2. file \in Text => LinesAsked(file)
  BY <1>1, FilesAssumption, HandMadeAsked
<1>3. \A d \in Domains : Zero[d] \in Asked[d]
  BY AskedClosed DEF Zero
<1> QED BY <1>1, <1>2, <1>3, FilesAssumption DEF AskedInv, NothingInvented

\* Whatever happens, the hardware runs with what was asked of each domain, as long
\* as no line of a domain runs into another's (undervolt_write_config_copy_masked
\* appends to a last line without a newline) and no unfilled form is saved.
THEOREM NothingInventedWhileApart == UVSpec /\ []FileApart => []NothingInvented
<1>1. UVTypeOK /\ AskedInv /\ FileApart' /\ [UVNext]_uvVars => AskedInv'
  BY AskedStep
<1>2. UVTypeOK /\ AskedInv => NothingInvented
  BY DEF AskedInv, NothingInvented
<1> QED BY <1>1, <1>2, AskedInit, UndervoltTypeCorrect, PTL DEF UVSpec

\* A file that nothing can be appended to a domain's line of: such a line has its
\* newline, or is not the last, or no domain is left to append.
Appendable(lines) ==
  \/ lines = <<>>
  \/ lines[Len(lines)].ended
  \/ lines[Len(lines)].domain = NoDomain
  \/ \A d \in Domains : LinesOf(lines, d) # {}

\* The copy of such a file is one.
LEMMA CopyApart ==
  ASSUME NEW contents \in Text \cup {Missing}, NEW offsets \in [Domains -> Int],
         NEW selected \in SUBSET Domains,
         contents # Missing => DomainsApart(contents) /\ Appendable(contents)
  PROVE  LET r == Rewritten(contents, offsets, selected)
         IN  DomainsApart(r) /\ Appendable(r)
<1> DEFINE lines == Source(contents)
           r == Rewritten(contents, offsets, selected)
<1>1. /\ lines \in Seq(Line) /\ Len(lines) \in Nat /\ DOMAIN lines = 1..Len(lines)
      /\ r \in Seq(Line) /\ Len(r) \in Nat /\ DOMAIN r = 1..Len(r)
  <2>1. lines \in Text /\ r \in Text
    BY SourceIsText, RewrittenIsText
  <2> QED BY <2>1, LenProperties DEF Text
<1>2. Len(lines) <= Len(r) /\ \A i \in 1..Len(r) : Origin(lines, offsets, selected, i, r[i])
  BY RewrittenLines
<1>3. DomainsApart(lines) /\ Appendable(lines)
  <2>1. CASE contents = Missing
    <3>1. Len(Header) = 1 /\ DOMAIN Header = {1} /\ Header[1].ended /\ Header[1].text = "header"
      BY DEF Header
    <3> QED BY <2>1, <3>1 DEF Source, DomainsApart, Appendable
  <2>2. CASE contents # Missing
    BY <2>2 DEF Source
  <2> QED BY <2>1, <2>2
<1> HIDE DEF lines, r
<1>4. ASSUME NEW i \in 1..Len(r), r[i].text = "fused", r[i].domain # NoDomain
      PROVE  FALSE
  <2>1. Origin(lines, offsets, selected, i, r[i])
    BY <1>2
  <2>2. CASE i <= Len(lines) /\ r[i] = lines[i]
    BY <1>1, <1>3, <1>4, <2>2 DEF DomainsApart
  <2>3. CASE /\ i = Len(lines) /\ ~lines[i].ended /\ Unwritten(lines, selected) # {}
             /\ r[i].domain = lines[i].domain
    <3>1. ~(\A d \in Domains : LinesOf(lines, d) # {})
      BY <2>3 DEF Unwritten
    <3>2. lines # <<>>
      BY <1>1, <2>3, EmptySeq
    <3> QED BY <1>3, <1>4, <2>3, <3>1, <3>2 DEF Appendable
  <2>4. CASE \E d : r[i] = OwnLine(d, offsets[d])
    BY <1>4, <2>4 DEF OwnLine
  <2> QED BY <2>1, <2>2, <2>3, <2>4 DEF Origin
<1>5. DomainsApart(r)
  BY <1>1, <1>4 DEF DomainsApart
<1>6. \A d \in Domains : LinesOf(lines, d) # {} => LinesOf(r, d) # {}
  <2> SUFFICES ASSUME NEW d \in Domains, NEW i \in 1..Len(lines), lines[i].domain = d
               PROVE  i \in 1..Len(r) /\ r[i].domain = d
    BY <1>1 DEF LinesOf
  <2>1. i \in 1..Len(r) /\ ~(i > Len(lines))
    BY <1>1, <1>2
  <2>2. Origin(lines, offsets, selected, i, r[i])
    BY <1>2, <2>1
  <2> QED BY <2>1, <2>2 DEF Origin, OwnLine
<1>7. Appendable(r)
  <2> SUFFICES ASSUME r # <<>>, ~r[Len(r)].ended PROVE Appendable(r)
    BY DEF Appendable
  <2> DEFINE last == Len(r)
  <2>1. last \in 1..Len(r)
    BY <1>1, EmptySeq
  <2>2. Origin(lines, offsets, selected, last, r[last])
    BY <1>2, <2>1
  <2>3. CASE last <= Len(lines) /\ r[last] = lines[last]
    <3>1. last = Len(lines) /\ lines # <<>>
      <4>1. Len(lines) \in Nat /\ last \in Nat /\ Len(lines) <= last
        BY <1>1, <1>2
      <4>2. last = Len(lines) /\ Len(lines) # 0
        BY <2>1, <2>3, <4>1
      <4> HIDE DEF last
      <4> QED BY <4>2, EmptySeq
    <3>2. lines[last].domain = NoDomain \/ \A d \in Domains : LinesOf(lines, d) # {}
      BY <1>3, <2>3, <3>1 DEF Appendable
    <3> QED BY <1>6, <2>3, <3>2 DEF Appendable
  <2>4. CASE \E d : r[last] = OwnLine(d, offsets[d])
    BY <2>4, OwnLineEnded
  <2>5. CASE r[last].ended
    BY <2>5
  <2> QED BY <2>2, <2>3, <2>4, <2>5 DEF Origin
<1> QED BY <1>5, <1>7 DEF r

ApartInv ==
  \A lines \in {file, temporary} : lines \in Text => DomainsApart(lines) /\ Appendable(lines)

\* Files that a domain's line cannot be appended to stay like that.
LEMMA FilesStayApart ==
  ASSUME \A contents \in HandMade \ {Missing, Unreadable} : Appendable(contents)
  PROVE  UVSpec => []FileApart
<1>1. \A contents \in HandMade \ {Missing, Unreadable} :
        DomainsApart(contents) /\ Appendable(contents)
  BY HandMadeAssumption DEF DomainsApart
<1>2. UVInit => ApartInv
  BY <1>1, FilesAssumption DEF UVInit, ApartInv
<1>3. UVTypeOK /\ ApartInv /\ [UVNext]_uvVars => ApartInv'
  <2> SUFFICES ASSUME UVTypeOK, ApartInv, [UVNext]_uvVars PROVE ApartInv'
    OBVIOUS
  <2>1. CASE Save
    <3>1. /\ file \in Text \cup {Missing} /\ file' = file
          /\ temporary' = Rewritten(file, shown, Selected)
          /\ shown \in [Domains -> Int] /\ Selected \in SUBSET Domains
      BY <2>1, Limits, SelectedType DEF Save, UVTypeOK, machineVars
    <3>2. file # Missing => DomainsApart(file) /\ Appendable(file)
      BY <3>1 DEF ApartInv
    <3>3. DomainsApart(temporary') /\ Appendable(temporary')
      BY <3>1, <3>2, CopyApart
    <3>4. \A lines \in {file', temporary'} :
            lines \in Text => DomainsApart(lines) /\ Appendable(lines)
      BY <3>1, <3>3 DEF ApartInv
    <3> QED BY ONLY <3>4 DEF ApartInv, DomainsApart, Appendable
  <2>2. CASE AdministratorEdits
    BY <1>1, <2>2, FilesAssumption DEF AdministratorEdits, saveVars, ApartInv
  <2>3. CASE ~Save /\ ~AdministratorEdits
    <3>1. /\ file' \in {file, temporary, Missing, <<>>}
          /\ temporary' \in {temporary, Missing}
      BY <2>3 DEF uvVars, UVNext, SaveStep, Open, Close, Gone, Refresh, RefreshBackend, Read,
                  ZeroForm, ToggleBoot, Fill, InstallFails, InstallRemoves, InstallCopies,
                  ApplyFails, Apply, ServiceFollows, ServiceFails, PackageChanges, Reset,
                  BootService, GiveUp, machineVars, saveVars
    <3> QED BY <3>1, FilesAssumption DEF ApartInv, DomainsApart, Appendable
  <2> QED BY <2>1, <2>2, <2>3
<1>4. ApartInv => FileApart
  BY DEF ApartInv, FileApart
<1> QED BY <1>2, <1>3, <1>4, UndervoltTypeCorrect, PTL DEF UVSpec

\* In particular with files the administrator ends in a way that leaves nothing to
\* append to a domain's line: any number of domains, any such files, any forms.
THEOREM NothingInventedHolds ==
  ASSUME \A contents \in HandMade \ {Missing, Unreadable} : Appendable(contents)
  PROVE  UVSpec => []NothingInvented
BY FilesStayApart, NothingInventedWhileApart, PTL
=============================================================================
