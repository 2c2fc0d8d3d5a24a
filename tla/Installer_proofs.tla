---- MODULE Installer_proofs ----
(* Machine-checked facts about the firmware update, for every number of
   versions, tries, rounds and losses. *)
EXTENDS Installer, TLAPS

(* What each slot may be given, whole or in parts. *)
Contents(s) == (IF s = 0 THEN {"boot", "main"} ELSE {"ota"}) \X Versions

Placed == \A s \in Slots, k \in Sectors : slot[s].body[k] \in Contents(s) \cup {Blank}

Loading == {"sign", "get", "erase", "write", "verify"}
Updating == Loading \cup {"final", "done", "end", "record", "leave"}
Installing == {"wifi", "ready", "normal", "round", "askInstaller", "askMain"} \cup Updating
Fresh == {"off", "dead", "start", "page", "main", "leaving", "wifi", "ready", "normal"}

(* Which program is at which step, and what it is after. *)
ProgramFits ==
    /\ Runs => Bootable(at)
    /\ pc \in {"main", "leaving"} => Program = "main"
    /\ pc \in Installing => Program \in {"boot", "ota"}
    /\ pc \in Loading \cup {"final"} =>
           job.want \in IF Program = "boot" THEN {"ota"} ELSE {"boot", "main"}
    /\ pc = "done" => Program = "boot"
    /\ pc \in {"askInstaller", "askMain"} => Program = "ota"

(* How far the download has come; once a sector is there the head is not. *)
JobFits ==
    /\ pc \in Fresh => job = NoJob
    /\ pc = "round" => job.rounds < MaxGlobal
    /\ pc \in {"askInstaller", "askMain"} => job.tries = 0 /\ job.got = 0
    /\ pc = "sign" => job.tries < MaxPartial
    /\ pc \in {"sign", "get", "erase", "write"} => job.got \in {0, 1}
    /\ pc \in Loading /\ job.got > 0 => ~slot[Target].head
    /\ pc \in {"write", "final"} => ~slot[Target].head
    /\ pc = "final" => \A k \in Sectors : slot[Target].body[k] = job.sig

(* Slot 1 is selected only when it starts, unless the flash lost its head. *)
ChoiceFits ==
    /\ temp => board.chip = "esp8266" /\ pc \in {"off", "main", "leaving"}
    /\ board.flash = "sound" => (temp \/ pc = "done" => Bootable(1))

Inv ==
    /\ TypeOK /\ BootableIsWhole /\ NeverBricked
    /\ Placed /\ ProgramFits /\ JobFits /\ ChoiceFits

----
(* What runs from where. *)

(* The running program, and that an installer never writes its own slot. *)
LEMMA RunningProgram ==
    ASSUME Inv, Runs
    PROVE  /\ at \in Slots /\ Bootable(at)
           /\ at = 0 => Program \in {"boot", "main"}
           /\ at = 1 => Program = "ota"
           /\ pc \in Loading \cup {"final"} => Target = 1 - at
<1>1. at \in Slots /\ Bootable(at)
  BY DEF Inv, TypeOK, ProgramFits
<1>2. PICK i \in Images : slot[at].body = [k \in Sectors |-> i]
  BY <1>1 DEF Inv, BootableIsWhole
<1>3. slot[at].body[1] \in Contents(at)
  BY <1>1, <1>2 DEF Inv, Placed, Sectors, Images, Versions, Blank
<1>4. (at = 0 => Program \in {"boot", "main"}) /\ (at = 1 => Program = "ota")
  BY <1>1, <1>3 DEF Contents, Program, Slots
<1>5. pc \in Loading \cup {"final"} => Target = 1 - at
  BY <1>1, <1>4 DEF Inv, ProgramFits, Target, Installing, Updating, Loading, Slots
<1> QED BY <1>1, <1>4, <1>5

(* A step that leaves the slots alone. *)
LEMMA SlotsStay ==
    ASSUME Inv, UNCHANGED <<slot, board>>,
           TypeOK', ProgramFits', JobFits', ChoiceFits',
           pc' = "dead" => board.flash = "failing"
    PROVE  Inv'
<1>1. BootableIsWhole' /\ Placed'
  BY DEF Inv, BootableIsWhole, Placed, Bootable
<1>2. NeverBricked'
  BY DEF Inv, NeverBricked, Bootable, ProgramFits, Runs
<1> QED BY <1>1, <1>2 DEF Inv

(* The locals before ota_task has begun. *)
LEMMA NoJobFits == NoJob \in Jobs
<1>1. 0 \in 0 .. MaxVersion /\ 0 \in 0 .. MaxPartial /\ 0 \in 0 .. MaxGlobal
  BY InstallerAssumption
<1>2. NoSign \in Images \cup {NoSign} /\ 0 \in 0 .. 2
  OBVIOUS
<1> HIDE DEF NoSign, Images
<1> QED BY <1>1, <1>2 DEF NoJob, Jobs

(* A new round or a new target leaves the locals of ota_task in their types. *)
LEMMA JobUpdates ==
    ASSUME NEW j \in Jobs, NEW r \in 0 .. MaxGlobal, NEW w \in {"none", "boot", "ota", "main"}
    PROVE  [j EXCEPT !.rounds = r, !.want = w] \in Jobs
BY DEF Jobs

(* The device goes off, with a choice of the next slot. *)
LEMMA OffPreserves ==
    ASSUME Inv, Off, UNCHANGED <<slot, board, repo, net, misled>>,
           rom' \in Slots, temp' \in BOOLEAN, recorded' = recorded,
           setup' \in 0 .. 1, losses' \in 0 .. MaxLosses,
           temp' => board.chip = "esp8266" /\ (board.flash = "sound" => Bootable(1))
    PROVE  Inv'
<1>1. TypeOK'
  BY NoJobFits DEF Off, Inv, TypeOK
<1>2. ProgramFits' /\ JobFits' /\ ChoiceFits'
  BY DEF Off, ProgramFits, JobFits, ChoiceFits, Runs, Loading, Updating, Installing, Fresh, Bootable
<1> QED BY <1>1, <1>2, SlotsStay DEF Off

(* Selecting a slot changes the choice of rboot, or that of the ESP32. *)
LEMMA SelectFits ==
    ASSUME TypeOK, ChoiceFits, NEW s \in Slots, Select(s)
    PROVE  /\ rom' \in Slots /\ temp' \in BOOLEAN
           /\ temp' => board.chip = "esp8266" /\ (temp \/ s = 1)
<1>1. rom \in Slots /\ temp \in BOOLEAN
  BY DEF TypeOK
<1>2. CASE board.chip = "esp8266"
  <2>1. temp' = (temp \/ s = 1) /\ rom' = rom
    BY <1>2 DEF Select
  <2> QED BY <1>1, <1>2, <2>1
<1>3. CASE board.chip # "esp8266"
  <2>1. rom' \in {rom, s} /\ temp' = temp
    BY <1>3 DEF Select
  <2> QED BY <1>1, <1>3, <2>1 DEF ChoiceFits
<1> QED BY <1>2, <1>3

(* A new device, and one in use, fit the invariant. *)
THEOREM InitInv == Init => Inv
<1> SUFFICES ASSUME Init PROVE Inv
  OBVIOUS
<1> DEFINE new == [s \in Slots |-> IF s = 0 THEN Whole(<<"boot", 1>>)
                                  ELSE [head |-> FALSE, body |-> [k \in Sectors |-> Blank]]]
           used == [s \in Slots |-> Whole(<<IF s = 0 THEN "main" ELSE "ota", 1>>)]
<1>1. 1 \in Versions /\ 0 \in 0 .. MaxVersion /\ 1 \in 0 .. MaxVersion /\ MaxLosses \in 0 .. MaxLosses
  BY InstallerAssumption DEF Versions
<1>2. ASSUME NEW i \in Images \cup {Blank}, NEW b \in BOOLEAN
      PROVE  [head |-> b, body |-> [k \in Sectors |-> i]] \in SlotContents
  BY DEF SlotContents
<1>3. <<"boot", 1>> \in Images /\ <<"main", 1>> \in Images /\ <<"ota", 1>> \in Images
  BY <1>1 DEF Images
<1>4. /\ <<"boot", 1>> \in Contents(0) /\ <<"main", 1>> \in Contents(0)
      /\ <<"ota", 1>> \in Contents(1)
  BY <1>1 DEF Contents
<1>5. SUFFICES /\ slot \in [Slots -> SlotContents]
               /\ Placed /\ BootableIsWhole
               /\ \/ Bootable(0) /\ slot[0].body[1][1] = "boot"
                  \/ Bootable(1) /\ slot[1].body[1][1] = "ota"
  <2>1. TypeOK
    <3>1. repo \in [installer : Versions, main : Versions]
      BY <1>1 DEF Init
    <3>2. recorded \in 0 .. MaxVersion /\ losses \in 0 .. MaxLosses /\ setup \in 0 .. 1
      BY <1>1 DEF Init
    <3>3. rom \in Slots /\ at \in Slots /\ temp \in BOOLEAN /\ armed \in BOOLEAN
      BY DEF Init, Slots
    <3> QED BY <1>5, <3>1, <3>2, <3>3, NoJobFits DEF Init, TypeOK
  <2>2. NeverBricked
    BY <1>5 DEF Init, NeverBricked, Runs
  <2>3. ProgramFits /\ JobFits /\ ChoiceFits
    BY DEF Init, ProgramFits, JobFits, ChoiceFits, Runs, Loading, Updating, Installing, Fresh
  <2> QED BY <1>5, <2>1, <2>2, <2>3 DEF Inv
<1>6. CASE slot = new
  <2>1. /\ slot[0] = [head |-> TRUE, body |-> [k \in Sectors |-> <<"boot", 1>>]]
        /\ slot[1] = [head |-> FALSE, body |-> [k \in Sectors |-> Blank]]
        /\ DOMAIN slot = Slots /\ slot = [s \in Slots |-> slot[s]]
    BY <1>6 DEF Slots, Whole
  <2> HIDE DEF new
  <2>2. slot \in [Slots -> SlotContents]
    <3>1. \A s \in Slots : slot[s] \in SlotContents
      <4>1. slot[0] \in SlotContents
        BY <1>2, <1>3, <2>1
      <4>2. slot[1] \in SlotContents
        BY <1>2, <1>3, <2>1
      <4> QED BY <4>1, <4>2 DEF Slots
    <3> QED BY <2>1, <3>1
  <2>3. Placed
    BY <1>4, <2>1 DEF Placed, Slots
  <2>4. BootableIsWhole
    <3>1. \A s \in Slots : slot[s].head => \E i \in Images : slot[s].body = [k \in Sectors |-> i]
      <4>1. slot[0].head => \E i \in Images : slot[0].body = [k \in Sectors |-> i]
        BY <1>3, <2>1
      <4>2. slot[1].head => \E i \in Images : slot[1].body = [k \in Sectors |-> i]
        BY <1>3, <2>1
      <4> QED BY <4>1, <4>2 DEF Slots
    <3> QED BY <3>1 DEF BootableIsWhole, Bootable
  <2> QED BY <2>1, <2>2, <2>3, <2>4 DEF Bootable, Sectors
<1>7. CASE slot = used
  <2>1. /\ slot[0] = [head |-> TRUE, body |-> [k \in Sectors |-> <<"main", 1>>]]
        /\ slot[1] = [head |-> TRUE, body |-> [k \in Sectors |-> <<"ota", 1>>]]
        /\ DOMAIN slot = Slots /\ slot = [s \in Slots |-> slot[s]]
    BY <1>7 DEF Slots, Whole
  <2> HIDE DEF used
  <2>2. slot \in [Slots -> SlotContents]
    <3>1. \A s \in Slots : slot[s] \in SlotContents
      <4>1. slot[0] \in SlotContents
        BY <1>2, <1>3, <2>1
      <4>2. slot[1] \in SlotContents
        BY <1>2, <1>3, <2>1
      <4> QED BY <4>1, <4>2 DEF Slots
    <3> QED BY <2>1, <3>1
  <2>3. Placed
    BY <1>4, <2>1 DEF Placed, Slots
  <2>4. BootableIsWhole
    <3>1. \A s \in Slots : slot[s].head => \E i \in Images : slot[s].body = [k \in Sectors |-> i]
      <4>1. slot[0].head => \E i \in Images : slot[0].body = [k \in Sectors |-> i]
        BY <1>3, <2>1
      <4>2. slot[1].head => \E i \in Images : slot[1].body = [k \in Sectors |-> i]
        BY <1>3, <2>1
      <4> QED BY <4>1, <4>2 DEF Slots
    <3> QED BY <3>1 DEF BootableIsWhole, Bootable
  <2> QED BY <2>1, <2>2, <2>3, <2>4 DEF Bootable, Sectors
<1> QED BY <1>6, <1>7 DEF Init

----
(* The boot loaders, HAAMAIN, and an installer before its task. *)

(* The boot loaders keep the invariant: rboot's one-shot choice has no fallback,
   the others find what is there. *)
LEMMA BootPreserves == ASSUME Inv, Boot PROVE Inv'
<1> USE DEF Inv
<1>1. Bootable(0) \/ Bootable(1)
  BY DEF NeverBricked
<1>2. UNCHANGED <<slot, recorded, setup, armed, job, misled, env>> /\ pc = "off"
  BY DEF Boot
<1>3. rom \in {0, 1} /\ temp \in BOOLEAN
  BY DEF TypeOK, Slots
<1>4. /\ rom' \in {0, 1} /\ temp' = FALSE
      /\ \/ pc' = "start" /\ at' \in {0, 1} /\ Bootable(at')
         \/ pc' = "dead" /\ at' = at /\ temp /\ ~Bootable(1)
  <2>1. CASE temp
    <3>1. Rboot
      BY <2>1 DEF Boot, ChoiceFits
    <3>2. rom' = rom /\ temp' = FALSE /\ IF Bootable(1) THEN Starts(1) ELSE Dead
      BY <2>1, <3>1 DEF Rboot
    <3>3. Bootable(1) => pc' = "start" /\ at' = 1
      BY <3>2 DEF Starts
    <3>4. ~Bootable(1) => pc' = "dead" /\ at' = at
      BY <3>2 DEF Dead
    <3> QED BY <1>3, <2>1, <3>2, <3>3, <3>4
  <2>2. CASE ~temp /\ Bootable(rom)
    <3>1. rom' = rom /\ temp' = FALSE /\ Starts(rom)
      BY <1>3, <2>2 DEF Boot, Rboot, IdfLoader
    <3> QED BY <1>3, <2>2, <3>1 DEF Starts
  <2>3. CASE ~temp /\ ~Bootable(rom)
    <3>1. 1 - rom \in {0, 1} /\ Bootable(1 - rom)
      BY <1>1, <1>3, <2>3
    <3>2. rom' \in {rom, 1 - rom} /\ temp' = FALSE /\ Starts(1 - rom)
      BY <1>3, <2>3, <3>1 DEF Boot, Rboot, IdfLoader
    <3> QED BY <1>3, <3>1, <3>2 DEF Starts
  <2> QED BY <2>1, <2>2, <2>3
<1>5. TypeOK'
  BY <1>2, <1>4 DEF TypeOK, Slots, env
<1>6. ProgramFits' /\ JobFits' /\ ChoiceFits'
  BY <1>2, <1>4 DEF ProgramFits, JobFits, ChoiceFits, Runs, Loading, Updating, Installing, Fresh,
     Bootable, env
<1>7. pc' = "dead" => board.flash = "failing"
  BY <1>4, InstallerAssumption DEF ChoiceFits, TypeOK
<1> QED BY <1>2, <1>5, <1>6, <1>7, SlotsStay DEF env

(* HAAMAIN runs from slot 0 and has OTAMAIN in slot 1. *)
LEMMA MainPreserves ==
    ASSUME Inv, StartMain \/ DisarmSetup \/ UserCommand \/ LeaveMain PROVE Inv'
<1> USE DEF Inv
<1>0. Runs /\ Program = "main" => Bootable(1)
  <2> SUFFICES ASSUME Runs, Program = "main" PROVE Bootable(1)
    OBVIOUS
  <2>1. at = 0
    BY RunningProgram DEF Slots
  <2> QED BY <2>1 DEF NeverBricked, Program
<1>1. CASE StartMain
  <2>1. TypeOK'
    <3>1. setup' \in 0 .. 1
      BY <1>1 DEF StartMain
    <3>3. armed' \in BOOLEAN
      BY <1>1 DEF StartMain
    <3>4. pc' \in {"page", "main"}
      BY <1>1 DEF StartMain
    <3>2. UNCHANGED <<slot, rom, temp, recorded, at, job, misled, env>>
      BY <1>1 DEF StartMain
    <3> QED BY <3>1, <3>2, <3>3, <3>4 DEF TypeOK, env
  <2>2. ProgramFits' /\ JobFits' /\ ChoiceFits'
    BY <1>1 DEF StartMain, flashVars, env, ProgramFits, JobFits, ChoiceFits, Runs, Loading,
       Updating, Installing, Fresh, Program, Bootable, Target
  <2> QED BY <1>1, <2>1, <2>2, SlotsStay DEF StartMain, flashVars, env
<1>2. CASE DisarmSetup
  <2>1. TypeOK'
    <3>1. setup' = 0 /\ armed' = FALSE /\ UNCHANGED <<slot, rom, temp, recorded, pc, at, job, misled, env>>
      BY <1>2 DEF DisarmSetup
    <3>2. setup' \in 0 .. 1
      BY <3>1
    <3> QED BY <3>1, <3>2 DEF TypeOK, env
  <2>2. ProgramFits' /\ JobFits' /\ ChoiceFits'
    BY <1>2 DEF DisarmSetup, flashVars, env, ProgramFits, JobFits, ChoiceFits, Runs, Loading,
       Updating, Installing, Fresh, Program, Bootable, Target
  <2> QED BY <1>2, <2>1, <2>2, SlotsStay DEF DisarmSetup, flashVars, env
<1>3. CASE UserCommand
  <2>1. /\ UNCHANGED <<slot, recorded, at, armed, job, misled, env>>
        /\ pc = "main" /\ pc' \in {"main", "leaving"}
    BY <1>3 DEF UserCommand
  <2>5. setup' \in 0 .. 1
    BY <1>3 DEF UserCommand, TypeOK
  <2>6. UNCHANGED <<rom, temp>> \/ Select(1)
    BY <1>3 DEF UserCommand
  <2>7. rom' \in Slots /\ temp' \in BOOLEAN /\ (temp' => board.chip = "esp8266")
    BY <2>6, SelectFits DEF TypeOK, ChoiceFits, Slots
  <2>2. Bootable(1)
    BY <1>0, <2>1 DEF ProgramFits, Runs
  <2>3. TypeOK'
    BY <2>1, <2>5, <2>7 DEF TypeOK, env
  <2>4. ProgramFits' /\ JobFits' /\ ChoiceFits'
    BY <2>1, <2>2, <2>7 DEF ProgramFits, JobFits, ChoiceFits, Runs, Loading, Updating, Installing,
       Fresh, Program, Bootable, env
  <2> QED BY <2>1, <2>3, <2>4, SlotsStay DEF env
<1>4. CASE LeaveMain
  <2>1. temp' => board.chip = "esp8266" /\ (board.flash = "sound" => Bootable(1))
    BY <1>4 DEF LeaveMain, ChoiceFits
  <2> QED BY <1>4, <2>1, OffPreserves DEF LeaveMain, TypeOK, env
<1> QED BY <1>1, <1>2, <1>3, <1>4

(* The setup pages and the first steps of an installer keep the invariant. *)
LEMMA SetupPreserves ==
    ASSUME Inv, StartInstaller \/ AutoReboot \/ SaveSettings \/ GotIp \/ NoWifi PROVE Inv'
<1> USE DEF Inv
<1>1. CASE StartInstaller
  <2>1. TypeOK'
    BY <1>1, NoJobFits DEF StartInstaller, TypeOK, flashVars, env
  <2>2. ProgramFits' /\ JobFits' /\ ChoiceFits'
    BY <1>1 DEF StartInstaller, flashVars, env, ProgramFits, JobFits, ChoiceFits, Runs, Loading,
       Updating, Installing, Fresh, Program, Bootable, Target
  <2> QED BY <1>1, <2>1, <2>2, SlotsStay DEF StartInstaller, flashVars, env
<1>2. CASE AutoReboot \/ NoWifi
  <2>1. Off /\ UNCHANGED <<slot, rom, temp, recorded, setup, misled, env>>
    BY <1>2 DEF AutoReboot, NoWifi, flashVars
  <2> QED BY <2>1, OffPreserves DEF TypeOK, ChoiceFits, env
<1>3. CASE SaveSettings
  <2>1. Off /\ UNCHANGED <<slot, recorded, misled, env>> /\ pc = "page"
    BY <1>3 DEF SaveSettings
  <2>2. rom' \in Slots /\ temp' \in BOOLEAN /\ setup' \in 0 .. 1
        /\ (temp' => board.chip = "esp8266" /\ Program \in {"main", "ota"})
    <3>1. rom \in Slots /\ temp = FALSE /\ setup \in 0 .. 1
      BY <2>1 DEF TypeOK, ChoiceFits
    <3>2. CASE Program = "main"
      <4>1. UNCHANGED <<rom, temp, setup>> \/ (Select(1) /\ setup' \in {setup, 1})
        BY <1>3, <3>2 DEF SaveSettings
      <4>2. CASE Select(1)
        BY <3>1, <3>2, <4>1, <4>2, SelectFits DEF Slots
      <4> QED BY <3>1, <4>1, <4>2
    <3>3. CASE Program = "ota"
      <4>1. setup' = 0 /\ rom' = rom /\ temp' = (board.chip = "esp8266")
        BY <1>3, <3>1, <3>3 DEF SaveSettings
      <4>2. temp' \in BOOLEAN /\ (temp' => board.chip = "esp8266")
        BY <4>1
      <4> QED BY <3>1, <3>3, <4>1, <4>2
    <3>4. CASE Program \notin {"main", "ota"}
      <4>1. setup' = 0 /\ rom' = rom /\ temp' = FALSE
        BY <1>3, <3>1, <3>4 DEF SaveSettings
      <4>2. setup' \in 0 .. 1
        BY <4>1
      <4> QED BY <3>1, <4>1, <4>2
    <3> QED BY <3>2, <3>3, <3>4
  <2>3. Program \in {"main", "ota"} => Bootable(1)
    <3>1. Runs
      BY <2>1 DEF Runs
    <3> QED BY <3>1, RunningProgram DEF NeverBricked, Program, Slots
  <2>4. temp' => board.chip = "esp8266" /\ (board.flash = "sound" => Bootable(1))
    BY <2>2, <2>3
  <2> QED BY <2>1, <2>2, <2>4, OffPreserves DEF TypeOK, env
<1>4. CASE GotIp
  <2>1. TypeOK'
    BY <1>4, NoJobFits DEF GotIp, TypeOK, flashVars, env
  <2>2. ProgramFits' /\ JobFits' /\ ChoiceFits'
    BY <1>4 DEF GotIp, flashVars, env, ProgramFits, JobFits, ChoiceFits, Runs, Loading, Updating,
       Installing, Fresh, Program, Bootable, Target
  <2> QED BY <1>4, <2>1, <2>2, SlotsStay DEF GotIp, flashVars, env
<1> QED BY <1>1, <1>2, <1>3, <1>4

----
(* ota_task. *)

(* Before the download. *)
LEMMA RoundPreserves ==
    ASSUME Inv, ResumeTask \/ LeaveSetup \/ BeginRound \/ AskInstaller \/ AskMain
    PROVE  Inv'
<1> USE DEF Inv
<1>1. CASE ResumeTask
  <2>1. TypeOK'
    BY <1>1, NoJobFits, InstallerAssumption DEF ResumeTask, TypeOK, flashVars, env, Slots, NoJob
  <2>2. ProgramFits' /\ JobFits' /\ ChoiceFits'
    BY <1>1, InstallerAssumption DEF ResumeTask, flashVars, env, ProgramFits, JobFits, ChoiceFits,
       Runs, Loading, Updating, Installing, Fresh, Program, Bootable, Target, Slots, NoJob
  <2> QED BY <1>1, <2>1, <2>2, SlotsStay DEF ResumeTask, flashVars, env, Slots, NoJob
<1>2. CASE LeaveSetup
  <2>1. TypeOK'
    BY <1>2, NoJobFits, InstallerAssumption DEF LeaveSetup, TypeOK, flashVars, env, NoJob
  <2>2. ProgramFits' /\ JobFits' /\ ChoiceFits'
    BY <1>2, InstallerAssumption DEF LeaveSetup, flashVars, env, ProgramFits, JobFits, ChoiceFits,
       Runs, Loading, Updating, Installing, Fresh, Program, Bootable, Target, NoJob
  <2> QED BY <1>2, <2>1, <2>2, SlotsStay DEF LeaveSetup, flashVars, env, NoJob
<1>3. CASE BeginRound
  <2>1. /\ pc = "round" /\ UNCHANGED <<slot, rom, recorded, setup, temp, at, armed, misled, env>>
        /\ pc' = IF Program = "boot" THEN "sign" ELSE "askInstaller"
    BY <1>3 DEF BeginRound, flashVars
  <2>2. /\ job'.want = (IF Program = "boot" THEN "ota" ELSE "none")
        /\ job'.tries = 0 /\ job'.got = 0 /\ job' \in Jobs
    <3>1. job.rounds + 1 \in 0 .. MaxGlobal
      BY <2>1, InstallerAssumption DEF TypeOK, JobFits, Jobs
    <3>2. job' = [NoJob EXCEPT !.rounds = job.rounds + 1,
                               !.want = IF Program = "boot" THEN "ota" ELSE "none"]
      BY <1>3 DEF BeginRound
    <3>3. job' \in Jobs
      BY <3>1, <3>2, NoJobFits, JobUpdates
    <3> QED BY <3>2, <3>3 DEF NoJob
  <2>3. Program' = Program /\ Program \in {"boot", "ota"}
    BY <2>1 DEF Program, ProgramFits, Installing
  <2>4. TypeOK'
    BY <2>1, <2>2 DEF TypeOK, env
  <2>5. ProgramFits'
    BY <2>1, <2>2, <2>3 DEF ProgramFits, Runs, Loading, Updating, Installing, Bootable
  <2>6. JobFits' /\ ChoiceFits'
    BY <2>1, <2>2, InstallerAssumption DEF JobFits, ChoiceFits, Loading, Fresh, Bootable, env
  <2> QED BY <2>1, <2>4, <2>5, <2>6, SlotsStay DEF env
<1>4. CASE AskInstaller \/ AskMain
  <2>1. /\ pc \in {"askInstaller", "askMain"}
        /\ UNCHANGED <<slot, rom, recorded, setup, temp, at, armed, env>>
    BY <1>4 DEF AskInstaller, AskMain, flashVars
  <2>2. /\ misled' \in BOOLEAN
        /\ \/ job' = job /\ pc' \in {"askMain", "leave"}
           \/ pc' = "sign" /\ \E w \in {"boot", "main"}, v \in 0 .. MaxVersion :
                                 job' = [job EXCEPT !.want = w, !.ver = v]
    <3>1. \A v \in Answers(repo.installer) \cup Answers(repo.main) : v # -1 => v \in 0 .. MaxVersion
      BY InstallerAssumption DEF TypeOK, Answers, Versions
    <3>2. CASE AskInstaller
      BY <3>1, <3>2 DEF AskInstaller, NewInstaller, TypeOK
    <3>3. CASE AskMain
      BY <3>1, <3>3 DEF AskMain, NewMain, TypeOK
    <3> QED BY <1>4, <3>2, <3>3
  <2>3. Program' = Program /\ Program = "ota"
    BY <2>1 DEF Program, ProgramFits
  <2>4. job.tries = 0 /\ job.got = 0 /\ job \in Jobs
    BY <2>1 DEF JobFits, TypeOK
  <2>5. /\ job' \in Jobs /\ job'.tries = 0 /\ job'.got = 0
        /\ pc' = "sign" => job'.want \in {"boot", "main"}
    <3>1. CASE job' = job /\ pc' \in {"askMain", "leave"}
      BY <2>4, <3>1
    <3>2. ASSUME NEW w \in {"boot", "main"}, NEW v \in 0 .. MaxVersion,
                 job' = [job EXCEPT !.want = w, !.ver = v]
          PROVE  job' \in Jobs /\ job'.tries = 0 /\ job'.got = 0 /\ job'.want = w
      BY <2>4, <3>2 DEF Jobs
    <3> QED BY <2>2, <3>1, <3>2
  <2>6. TypeOK'
    BY <2>1, <2>2, <2>5 DEF TypeOK, env
  <2>7. ProgramFits'
    BY <2>1, <2>2, <2>3, <2>5 DEF ProgramFits, Runs, Loading, Updating, Installing, Bootable
  <2>8. JobFits'
    <3>1. pc' \in {"askMain", "leave", "sign"}
      BY <2>2
    <3>2. pc' \notin Fresh
      BY <3>1 DEF Fresh
    <3>3. job'.tries < MaxPartial /\ ~(job'.got > 0)
      BY <2>5, InstallerAssumption
    <3> QED BY <2>5, <3>1, <3>2, <3>3 DEF JobFits
  <2>9. ChoiceFits'
    BY <2>1, <2>2 DEF ChoiceFits, Bootable, env
  <2> QED BY <2>1, <2>2, <2>6, <2>7, <2>8, <2>9, SlotsStay DEF env
<1> QED BY <1>1, <1>2, <1>3, <1>4

(* The download, but for what it writes. *)
LEMMA LoadPreserves ==
    ASSUME Inv, GetSign \/ GetFilePart \/ GetPartial \/ GetFails \/ VerifySign
    PROVE  Inv'
<1> USE DEF Inv
<1>1. CASE GetSign
  <2>1. pc = "sign" /\ UNCHANGED <<slot, rom, recorded, temp, at, armed, misled, env>>
    BY <1>1 DEF GetSign
  <2>2. setup' \in 0 .. 1 /\ pc' \in {"get", "leave"}
    <3>1. setup \in 0 .. 1 /\ setup' \in {setup, 1}
      BY <1>1 DEF GetSign, GiveUp, TypeOK
    <3>2. pc' \in {"get", "leave"}
      BY <1>1 DEF GetSign, GiveUp
    <3> QED BY <3>1, <3>2
  <2>3. /\ job \in Jobs /\ job.tries + 1 \in 0 .. MaxPartial
        /\ Offered \in Images \cup {NoSign}
    <3>1. job \in Jobs /\ job.tries + 1 \in 0 .. MaxPartial
      BY <2>1, InstallerAssumption DEF TypeOK, JobFits, Jobs
    <3>2. job.want \in {"boot", "ota", "main"}
      BY <2>1 DEF ProgramFits, Loading, Updating, Installing
    <3> QED BY <3>1, <3>2 DEF TypeOK, Offered, Images
  <2>4. \/ \E s \in Images \cup {NoSign} : job' = [job EXCEPT !.sig = s, !.tries = job.tries + 1]
        \/ job' = [job EXCEPT !.tries = job.tries + 1]
    BY <1>1, <2>3 DEF GetSign
  <2>5. job' \in Jobs /\ job'.want = job.want /\ job'.got = job.got
    BY <2>3, <2>4 DEF Jobs
  <2>6. Program' = Program /\ Target' = Target
    BY <2>1, <2>5 DEF Program, Target
  <2>7. TypeOK'
    BY <2>1, <2>2, <2>5 DEF TypeOK, env
  <2>8. ProgramFits'
    BY <2>1, <2>2, <2>5, <2>6 DEF ProgramFits, Runs, Loading, Updating, Installing, Bootable
  <2>9. JobFits' /\ ChoiceFits'
    BY <2>1, <2>2, <2>5, <2>6 DEF JobFits, ChoiceFits, Loading, Fresh, Bootable, env
  <2> QED BY <2>1, <2>2, <2>7, <2>8, <2>9, SlotsStay DEF env
<1>2. CASE GetFilePart
  <2>1. TypeOK'
    BY <1>2, NoJobFits DEF GetFilePart, TypeOK, flashVars, env
  <2>2. ProgramFits' /\ JobFits' /\ ChoiceFits'
    BY <1>2 DEF GetFilePart, flashVars, env, ProgramFits, JobFits, ChoiceFits, Runs, Loading,
       Updating, Installing, Fresh, Program, Bootable, Target
  <2> QED BY <1>2, <2>1, <2>2, SlotsStay DEF GetFilePart, flashVars, env
<1>3. CASE GetPartial
  <2>1. TypeOK'
    BY <1>3, NoJobFits DEF GetPartial, TypeOK, flashVars, env
  <2>2. ProgramFits' /\ JobFits' /\ ChoiceFits'
    BY <1>3 DEF GetPartial, flashVars, env, ProgramFits, JobFits, ChoiceFits, Runs, Loading,
       Updating, Installing, Fresh, Program, Bootable, Target
  <2> QED BY <1>3, <2>1, <2>2, SlotsStay DEF GetPartial, flashVars, env
<1>4. CASE GetFails
  <2>1. TypeOK'
    BY <1>4, NoJobFits DEF GetFails, TypeOK, flashVars, env, GiveUp
  <2>2. ProgramFits' /\ JobFits' /\ ChoiceFits'
    BY <1>4 DEF GetFails, flashVars, env, ProgramFits, JobFits, ChoiceFits, Runs, Loading, Updating,
       Installing, Fresh, Program, Bootable, Target, GiveUp
  <2> QED BY <1>4, <2>1, <2>2, SlotsStay DEF GetFails, flashVars, env, GiveUp
<1>5. CASE VerifySign
  <2>1. TypeOK'
    BY <1>5, NoJobFits DEF VerifySign, TypeOK, flashVars, env, GiveUp, Verified
  <2>2. ProgramFits' /\ JobFits' /\ ChoiceFits'
    BY <1>5 DEF VerifySign, flashVars, env, ProgramFits, JobFits, ChoiceFits, Runs, Loading,
       Updating, Installing, Fresh, Program, Bootable, Target, GiveUp, Verified
  <2> QED BY <1>5, <2>1, <2>2, SlotsStay DEF VerifySign, flashVars, env, GiveUp, Verified
<1> QED BY <1>1, <1>2, <1>3, <1>4, <1>5

(* The ends of ota_task. *)
LEMMA EndPreserves ==
    ASSUME Inv, HandOver \/ RecordVersion \/ EndRound \/ Leave PROVE Inv'
<1> USE DEF Inv
<1>1. CASE HandOver \/ Leave
  <2>1. Off /\ UNCHANGED <<slot, recorded, misled, env>>
    BY <1>1 DEF HandOver, Leave, Reboot
  <2>3. setup' \in 0 .. 1
    <3>1. setup \in 0 .. 1 /\ (setup' = 0 \/ setup' = setup)
      BY <1>1 DEF HandOver, Leave, TypeOK
    <3> QED BY <3>1
  <2>4. Select(0) \/ (Select(1) /\ pc = "done")
    <3>1. HandOver => Select(1) /\ pc = "done"
      BY DEF HandOver, Reboot
    <3>2. Leave => Select(0)
      BY DEF Leave, Reboot
    <3> QED BY <1>1, <3>1, <3>2
  <2>5. /\ rom' \in Slots /\ temp' \in BOOLEAN
        /\ temp' => board.chip = "esp8266" /\ (temp \/ pc = "done")
    <3>0. 0 \in Slots /\ 1 \in Slots /\ 0 # 1
      BY DEF Slots
    <3>1. CASE Select(0)
      BY <3>0, <3>1, SelectFits
    <3>2. CASE Select(1) /\ pc = "done"
      BY <3>0, <3>2, SelectFits
    <3> QED BY <2>4, <3>1, <3>2
  <2>2. temp' => board.chip = "esp8266" /\ (board.flash = "sound" => Bootable(1))
    BY <2>5 DEF ChoiceFits
  <2> QED BY <2>1, <2>2, <2>3, <2>5, OffPreserves DEF TypeOK, env
<1>2. CASE RecordVersion \/ EndRound
  <2>1. /\ UNCHANGED <<slot, rom, temp, setup, at, armed, job, misled, env>>
        /\ pc \in {"record", "end"} /\ pc' \in {"leave", "round"}
    BY <1>2 DEF RecordVersion, EndRound, flashVars
  <2>2. job \in Jobs /\ recorded' \in 0 .. MaxVersion
    <3>1. job \in Jobs /\ recorded \in 0 .. MaxVersion /\ job.ver \in 0 .. MaxVersion
      BY DEF TypeOK, Jobs
    <3>2. recorded' \in {recorded, job.ver}
      BY <1>2 DEF RecordVersion, EndRound, flashVars
    <3> QED BY <3>1, <3>2
  <2>3. pc' = "round" => job.rounds < MaxGlobal
    <3>1. pc' = "round" => job.rounds # MaxGlobal
      BY <1>2 DEF RecordVersion, EndRound
    <3> QED BY <2>2, <3>1, InstallerAssumption DEF Jobs
  <2>4. TypeOK'
    BY <2>1, <2>2 DEF TypeOK, env
  <2>5. ProgramFits'
    BY <2>1 DEF ProgramFits, Runs, Loading, Updating, Installing, Bootable, Program
  <2>6. JobFits'
    BY <2>1, <2>3 DEF JobFits, Loading, Fresh
  <2>7. ChoiceFits'
    BY <2>1 DEF ChoiceFits, Bootable, env
  <2> QED BY <2>1, <2>4, <2>5, <2>6, <2>7, SlotsStay DEF env
<1> QED BY <1>1, <1>2

(* The device writes slot t, which it does not run from: the other slot is as
   it was, and t holds a part of an image, or a whole one. *)
LEMMA SlotWritten ==
    ASSUME Inv, pc \in Installing, NEW t \in Slots, t = 1 - at,
           slot' \in [Slots -> SlotContents], slot'[at] = slot[at],
           UNCHANGED <<rom, temp, recorded, setup, at, armed, misled, env>>,
           temp = FALSE, job' \in Jobs, pc' \in Installing,
           \A k \in Sectors : slot'[t].body[k] \in Contents(t) \cup {Blank},
           slot'[t].head => \E i \in Images : slot'[t].body = [k \in Sectors |-> i],
           ProgramFits', JobFits', ChoiceFits'
    PROVE  Inv'
<1>1. at \in {0, 1} /\ t \in {0, 1} /\ Slots = {0, 1} /\ Runs
  BY DEF Inv, TypeOK, Slots, Runs, Installing, Updating, Loading
<1>2. TypeOK'
  BY DEF Inv, TypeOK, env, Installing, Updating, Loading
<1>3. \A k \in Sectors : slot'[at].body[k] \in Contents(at) \cup {Blank}
  BY <1>1 DEF Inv, Placed
<1>4. Placed'
  BY <1>1, <1>3 DEF Placed
<1>5. \E i \in Images : slot[at].body = [k \in Sectors |-> i]
  BY <1>1, RunningProgram DEF Inv, BootableIsWhole
<1>6. BootableIsWhole'
  <2>1. \E i \in Images : slot'[at].body = [k \in Sectors |-> i]
    BY <1>5
  <2>2. at' = at
    OBVIOUS
  <2>3. \A s \in Slots : slot'[s].head => \E i \in Images : slot'[s].body = [k \in Sectors |-> i]
    <3>1. \A s \in Slots : s = at \/ s = t
      BY <1>1
    <3> QED BY <2>1, <3>1
  <2> QED BY <2>3 DEF BootableIsWhole, Bootable
<1>7. NeverBricked'
  <2>1. \/ Bootable(0)' /\ slot'[0].body[1][1] = "boot"
        \/ Bootable(1)' /\ slot'[1].body[1][1] = "ota"
    <3>1. Program \in {"boot", "ota"}
      BY DEF Inv, ProgramFits
    <3>2. at = 1 => slot[1].body[1][1] = "ota" /\ slot[1].head
      BY <1>1, RunningProgram DEF Program, Bootable
    <3>3. at = 0 => slot[0].body[1][1] = "boot" /\ slot[0].head
      BY <1>1, <3>1, RunningProgram DEF Program, Bootable
    <3> QED BY <1>1, <3>2, <3>3 DEF Bootable
  <2>2. (Runs => Bootable(at))'
    BY DEF ProgramFits
  <2>3. pc' # "dead"
    BY DEF Installing, Updating, Loading
  <2> QED BY <2>1, <2>2, <2>3 DEF NeverBricked, Runs
<1> QED BY <1>2, <1>4, <1>6, <1>7 DEF Inv

(* What an erased, a written and a completed slot holds. *)
LEMMA WritePreserves ==
    ASSUME Inv, EraseSector \/ WriteSector \/ FinalizeFile PROVE Inv'
<1> USE DEF Inv
<1>1. /\ pc \in {"erase", "write", "final"} /\ Runs /\ pc \in Installing
      /\ pc \in Loading \cup {"final"}
      /\ UNCHANGED <<rom, temp, recorded, setup, at, armed, misled, env>>
  BY DEF EraseSector, WriteSector, FinalizeFile, Runs, Installing, Updating, Loading
<1>2. /\ at \in {0, 1} /\ Target \in {0, 1} /\ Target = 1 - at /\ Target # at /\ Slots = {0, 1}
      /\ job \in Jobs /\ temp = FALSE
  BY <1>1, RunningProgram DEF Slots, TypeOK, ChoiceFits
<1>3. slot \in [Slots -> SlotContents] /\ slot[Target] \in SlotContents
  BY <1>2 DEF TypeOK
<1>4. slot[Target].head \in BOOLEAN /\ slot[Target].body \in [Sectors -> Images \cup {Blank}]
  BY <1>3 DEF SlotContents
<1>5. \A k \in Sectors : slot[Target].body[k] \in Contents(Target) \cup {Blank}
  BY <1>2 DEF Placed
<1>6. /\ Program \in {"boot", "ota"}
      /\ job.want \in IF Program = "boot" THEN {"ota"} ELSE {"boot", "main"}
  BY <1>1 DEF ProgramFits
<1>7. Program \in {"boot", "ota"} /\ (Program = "boot" <=> at = 0)
  BY <1>1, <1>2, <1>6, RunningProgram
<1>8. ASSUME NEW new \in SlotContents, slot' = [slot EXCEPT ![Target] = new]
      PROVE  /\ slot' \in [Slots -> SlotContents] /\ slot'[Target] = new /\ slot'[at] = slot[at]
             /\ Program' = Program /\ Bootable(at)'
  <2>1. slot' \in [Slots -> SlotContents] /\ slot'[Target] = new /\ slot'[at] = slot[at]
    BY <1>2, <1>3, <1>8
  <2>2. at' = at /\ Bootable(at)
    BY <1>1, RunningProgram
  <2> QED BY <2>1, <2>2 DEF Program, Bootable
<1>9. CASE EraseSector
  <2>1. Sector \in Sectors
    BY <1>9 DEF EraseSector, JobFits, Sector, Sectors
  <2>2. pc' = "write" /\ job' = job /\ Target' = Target /\ job.got \in {0, 1}
    BY <1>9 DEF EraseSector, Target, JobFits
  <2> DEFINE new == [slot[Target] EXCEPT !.body = [slot[Target].body EXCEPT ![Sector] = Blank],
                                         !.head = FALSE]
  <2>3. slot' = [slot EXCEPT ![Target] = new]
    <3>1. Sector # 1 => slot[Target].head = FALSE
      BY <1>4, <1>9, <2>2 DEF EraseSector, JobFits, Loading, Sector
    <3> QED BY <1>9, <1>3, <3>1 DEF EraseSector, SlotContents
  <2>4. new.body = [slot[Target].body EXCEPT ![Sector] = Blank] /\ new.head = FALSE /\ new \in SlotContents
    BY <1>3, <1>4 DEF SlotContents
  <2>5. \A k \in Sectors : new.body[k] \in Contents(Target) \cup {Blank}
    BY <1>4, <1>5, <2>4
  <2> HIDE DEF new
  <2>6. slot' \in [Slots -> SlotContents] /\ slot'[Target] = new /\ slot'[at] = slot[at]
        /\ Program' = Program /\ Bootable(at)'
    BY <1>8, <2>3, <2>4
  <2>7. ProgramFits'
    BY <1>1, <1>6, <2>2, <2>6 DEF ProgramFits, Loading, Updating, Installing
  <2>8. JobFits'
    BY <2>2, <2>4, <2>6 DEF JobFits, Loading, Fresh
  <2>9. ChoiceFits'
    BY <1>1, <1>2, <2>2 DEF ChoiceFits
  <2> QED
    BY <1>1, <1>2, <2>2, <2>4, <2>5, <2>6, <2>7, <2>8, <2>9, SlotWritten DEF Installing, Updating,
       Loading
<1>10. CASE WriteSector
  <2>1. /\ pc = "write" /\ pc' \in {"verify", "erase"} /\ Sector \in Sectors
        /\ ~slot[Target].head /\ job.got \in {0, 1} /\ Sector = job.got + 1
    BY <1>10 DEF WriteSector, JobFits, Sector, Sectors
  <2>2. job' = [job EXCEPT !.got = job.got + 1]
    BY <1>10 DEF WriteSector
  <2>3. job' \in Jobs /\ Target' = Target /\ job'.want = job.want
    BY <1>2, <2>1, <2>2 DEF Jobs, Target
  <2>4. pc' = "erase" => job'.got = 1
    BY <1>2, <1>10, <2>1, <2>2 DEF WriteSector, Jobs
  <2>5. Offered \in Contents(Target)
    <3>1. repo.installer \in Versions /\ repo.main \in Versions
      BY DEF TypeOK
    <3>2. job.want \in {"boot", "ota", "main"}
      BY <1>6
    <3> QED BY <3>1, <3>2 DEF Offered, Contents, Target
  <2> DEFINE new == [slot[Target] EXCEPT !.body = [slot[Target].body EXCEPT ![Sector] = Offered]]
  <2>6. slot' = [slot EXCEPT ![Target] = new]
    BY <1>10, <1>3 DEF WriteSector, SlotContents
  <2>7. new.body = [slot[Target].body EXCEPT ![Sector] = Offered] /\ new.head = FALSE /\ new \in SlotContents
    BY <1>3, <1>4, <2>1, <2>5 DEF SlotContents, Contents, Images
  <2>8. \A k \in Sectors : new.body[k] \in Contents(Target) \cup {Blank}
    BY <1>4, <1>5, <2>5, <2>7
  <2> HIDE DEF new
  <2>9. slot' \in [Slots -> SlotContents] /\ slot'[Target] = new /\ slot'[at] = slot[at]
        /\ Program' = Program /\ Bootable(at)'
    BY <1>8, <2>6, <2>7
  <2>10. ProgramFits'
    BY <1>1, <1>6, <2>1, <2>3, <2>9 DEF ProgramFits, Loading, Updating, Installing
  <2>11. JobFits'
    BY <2>1, <2>3, <2>4, <2>7, <2>9 DEF JobFits, Loading, Fresh
  <2>12. ChoiceFits'
    BY <1>1, <1>2, <2>1 DEF ChoiceFits
  <2> QED
    BY <1>1, <1>2, <2>1, <2>3, <2>7, <2>8, <2>9, <2>10, <2>11, <2>12, SlotWritten DEF Installing,
       Updating, Loading
<1>11. CASE FinalizeFile
  <2>1. pc = "final" /\ pc' \in {"done", "record", "leave"} /\ job' = job /\ Target' = Target
    BY <1>11 DEF FinalizeFile, Target
  <2>2. pc' = "done" => job.want = "ota"
    BY <1>11 DEF FinalizeFile
  <2>3. PICK written \in {TRUE} \cup IF board.flash = "failing" THEN {FALSE} ELSE {} :
            slot' = [slot EXCEPT ![Target].head = written]
    BY <1>11 DEF FinalizeFile
  <2> DEFINE new == [slot[Target] EXCEPT !.head = written]
  <2>4. written \in BOOLEAN /\ (board.flash = "sound" => written)
    BY <2>3
  <2>5. slot' = [slot EXCEPT ![Target] = new]
    BY <1>3, <2>3 DEF SlotContents
  <2>6. new.body = slot[Target].body /\ new.head = written /\ new \in SlotContents
    BY <1>3, <1>4, <2>4 DEF SlotContents
  <2> HIDE DEF new
  <2>7. slot' \in [Slots -> SlotContents] /\ slot'[Target] = new /\ slot'[at] = slot[at]
        /\ Program' = Program /\ Bootable(at)'
    BY <1>8, <2>5, <2>6
  <2>8. \E i \in Images : new.body = [k \in Sectors |-> i]
    <3>1. \A k \in Sectors : slot[Target].body[k] = job.sig
      BY <2>1 DEF JobFits
    <3>2. job.sig \in Contents(Target)
      BY <1>2, <1>5, <3>1 DEF Jobs, Images, Sectors, NoSign, Blank
    <3>3. job.sig \in Images
      BY <3>2 DEF Contents, Images
    <3> QED BY <1>4, <2>6, <3>1, <3>3
  <2>9. ProgramFits'
    BY <1>1, <1>6, <1>7, <2>1, <2>2, <2>7 DEF ProgramFits, Loading, Updating, Installing
  <2>10. JobFits'
    BY <2>1 DEF JobFits, Loading, Fresh
  <2>11. ChoiceFits'
    <3>1. pc' = "done" => Target = 1
      BY <2>2 DEF Target
    <3>2. temp' = FALSE /\ board' = board
      BY <1>1, <1>2 DEF env
    <3>3. pc' = "done" => (board.flash = "sound" => slot'[1].head)
      BY <2>4, <2>6, <2>7, <3>1
    <3> QED BY <3>2, <3>3 DEF ChoiceFits, Bootable
  <2> QED
    BY <1>1, <1>2, <1>5, <2>1, <2>6, <2>7, <2>8, <2>9, <2>10, <2>11, SlotWritten DEF Installing,
       Updating, Loading
<1> QED BY <1>9, <1>10, <1>11

(* The world around the device. *)
LEMMA WorldPreserves == ASSUME Inv, World PROVE Inv'
<1> USE DEF Inv
<1>1. CASE \E k \in {"installer", "main"} : Publish(k)
  <2>1. /\ UNCHANGED <<board, slot, rom, recorded, setup, temp, pc, at, armed, job, net, losses, misled>>
        /\ repo' \in [installer : Versions, main : Versions]
    <3>1. PICK k \in {"installer", "main"} : Publish(k)
      BY <1>1
    <3>2. repo[k] \in Versions /\ repo[k] < MaxVersion /\ repo' = [repo EXCEPT ![k] = @ + 1]
      BY <3>1 DEF Publish, TypeOK
    <3>3. repo[k] + 1 \in Versions
      BY <3>2, InstallerAssumption DEF Versions
    <3>4. repo' \in [installer : Versions, main : Versions]
      BY <3>2, <3>3 DEF TypeOK
    <3>5. UNCHANGED <<board, slot, rom, recorded, setup, temp, pc, at, armed, job, net, losses, misled>>
      BY <3>1 DEF Publish, flashVars
    <3> QED BY <3>4, <3>5
  <2>2. TypeOK'
    BY <2>1 DEF TypeOK
  <2>3. ProgramFits' /\ JobFits' /\ ChoiceFits'
    BY <2>1 DEF ProgramFits, JobFits, ChoiceFits, Runs, Bootable, Program, Target
  <2> QED BY <2>1, <2>2, <2>3, SlotsStay DEF NeverBricked
<1>2. CASE NetworkSettles
  <2>1. /\ UNCHANGED <<board, slot, rom, recorded, setup, temp, pc, at, armed, job, repo, losses, misled>>
        /\ net' = "good"
    BY <1>2 DEF NetworkSettles, flashVars
  <2>2. TypeOK'
    BY <2>1 DEF TypeOK
  <2>3. ProgramFits' /\ JobFits' /\ ChoiceFits'
    BY <2>1 DEF ProgramFits, JobFits, ChoiceFits, Runs, Bootable, Program, Target
  <2> QED BY <2>1, <2>2, <2>3, SlotsStay DEF NeverBricked
<1>3. CASE PowerLoss \/ HangReboot
  <2>1. Off /\ UNCHANGED <<board, slot, rom, recorded, setup, repo, net, misled>>
    BY <1>3 DEF PowerLoss, HangReboot, flashVars
  <2>2. losses' \in 0 .. MaxLosses
    <3>1. losses' = losses - 1 /\ losses > 0
      BY <1>3 DEF PowerLoss, HangReboot
    <3> QED BY <3>1, InstallerAssumption DEF TypeOK
  <2>3. temp' \in {FALSE, temp} /\ temp \in BOOLEAN
    BY <1>3 DEF PowerLoss, HangReboot, TypeOK
  <2>4. temp' \in BOOLEAN /\ (temp' => board.chip = "esp8266" /\ (board.flash = "sound" => Bootable(1)))
    <3>1. CASE temp' = FALSE
      BY <3>1
    <3>2. CASE temp' = temp
      <4>1. temp => board.chip = "esp8266" /\ (board.flash = "sound" => Bootable(1))
        BY DEF ChoiceFits
      <4> QED BY <2>3, <3>2, <4>1
    <3> QED BY <2>3, <3>1, <3>2
  <2>5. rom \in Slots /\ setup \in 0 .. 1
    BY DEF TypeOK
  <2> QED BY <2>1, <2>2, <2>4, <2>5, OffPreserves
<1> QED BY <1>1, <1>2, <1>3 DEF World

(* Every step of the device, of its user and of the world keeps the invariant. *)
LEMMA NextInv == ASSUME Inv, [Next]_vars PROVE Inv'
<1>1. CASE UNCHANGED vars
  BY <1>1 DEF vars, Inv, TypeOK, BootableIsWhole, NeverBricked, Placed, ProgramFits, JobFits,
     ChoiceFits, Runs, Bootable, Program, Target
<1>2. CASE World
  BY <1>2, WorldPreserves
<1>3. CASE User
  BY <1>3, MainPreserves, SetupPreserves DEF User
<1>4. CASE Device
  <2>1. CASE Task
    BY <2>1, RoundPreserves, LoadPreserves, WritePreserves, EndPreserves DEF Task
  <2>2. CASE Device /\ ~Task
    BY <2>2, BootPreserves, MainPreserves, SetupPreserves DEF Device
  <2> QED BY <1>4, <2>1, <2>2
<1> QED BY <1>1, <1>2, <1>3, <1>4 DEF Next

(* The invariant holds in every state of every behaviour. *)
LEMMA InvAlways == Spec => []Inv
<1>1. Inv /\ [Next]_vars => Inv'
  BY NextInv
<1> QED BY InitInv, <1>1, PTL DEF Spec

----
(* Theorems. *)

(* Every variable keeps its type, and the tries and rounds their bounds. *)
THEOREM TypeCorrect == Spec => []TypeOK
<1>1. Inv => TypeOK
  BY DEF Inv
<1> QED BY InvAlways, <1>1, PTL

(* Whatever is lost and whenever the power goes, what the boot loader accepts
   is a whole image of one version. *)
THEOREM BootableAlwaysWhole == Spec => []BootableIsWhole
<1>1. Inv => BootableIsWhole
  BY DEF Inv
<1> QED BY InvAlways, <1>1, PTL

(* There is always an installer that starts, the running program is never
   overwritten, and only a failing flash stops the boot loader. *)
THEOREM AlwaysRepairable == Spec => []NeverBricked
<1>1. Inv => NeverBricked
  BY DEF Inv
<1> QED BY InvAlways, <1>1, PTL

----
(* The refinement of BootSlots. *)

Holds(s) == IF Bootable(s) THEN slot[s].body[1][1] ELSE "none"
RunsFrom == IF Runs THEN at ELSE -1

(* What the boot loader accepts begins with the name of a program. *)
LEMMA BootableHolds ==
    ASSUME Inv, NEW s \in Slots, Bootable(s)
    PROVE  slot[s].body[1][1] \in {"boot", "ota", "main"}
<1>1. PICK i \in Images : slot[s].body = [k \in Sectors |-> i]
  BY DEF Inv, BootableIsWhole
<1>2. slot[s].body[1] = i
  BY <1>1 DEF Sectors
<1> QED BY <1>2 DEF Images

(* A step that leaves alone what the slots can start and who runs. *)
LEMMA StutterMaps ==
    ASSUME \A s \in Slots : Holds(s)' = Holds(s), RunsFrom' = RunsFrom
    PROVE  UNCHANGED Promise!vars
BY DEF Promise!vars, Holds, RunsFrom

(* The running program ends. *)
LEMMA StopMaps ==
    ASSUME at \in {0, 1}, Runs, ~Runs', slot' = slot
    PROVE  Promise!Stop
BY DEF Promise!Stop, Bootable

(* The boot loader starts a program. *)
LEMMA StartMaps ==
    ASSUME Inv, ~Runs, Runs', at' \in Slots, Bootable(at'), slot' = slot
    PROVE  \E s \in Slots : Promise!Start(s)
<1>1. slot[at'].body[1][1] # "none"
  BY BootableHolds
<1> QED BY <1>1 DEF Promise!Start, Bootable

(* The installer that runs takes away or completes the program of the other slot. *)
LEMMA ReplaceMaps ==
    ASSUME Inv, pc \in Installing, Runs', at' = at, NEW t \in Slots, t = 1 - at,
           slot'[at] = slot[at],
           IF Bootable(t) THEN ~Bootable(t)'
           ELSE Bootable(t)' /\ slot'[t].body[1][1] \in IF t = 0 THEN {"main", "boot"} ELSE {"ota"}
    PROVE  Promise!Replace(t)
<1> DEFINE H == [s \in Slots |-> IF Bootable(s) THEN slot[s].body[1][1] ELSE "none"]
<1>1. Runs /\ at \in {0, 1} /\ t \in {0, 1} /\ at = 1 - t /\ Slots = {0, 1}
  BY DEF Runs, Installing, Updating, Loading, Inv, TypeOK, Slots
<1>2. Program = IF t = 0 THEN "ota" ELSE "boot"
  BY <1>1, RunningProgram DEF Inv, ProgramFits
<1>3. H[at] = IF t = 0 THEN "ota" ELSE "boot"
  BY <1>1, <1>2, RunningProgram DEF Program
<1>4. H'[at] = H[at]
  BY <1>1 DEF Bootable
<1>5. CASE Bootable(t)
  <2>1. H'[t] = "none" /\ H[t] # "none"
    <3>1. slot[t].body[1][1] # "none"
      BY <1>5, BootableHolds
    <3> QED BY <1>1, <1>5, <3>1 DEF Bootable
  <2>2. H' = [H EXCEPT ![t] = "none"]
    BY <1>1, <1>4, <2>1
  <2> QED BY <1>1, <1>3, <2>1, <2>2 DEF Promise!Replace, Promise!Writer, Promise!Payload,
             Promise!Slots
<1>6. CASE ~Bootable(t)
  <2>1. H'[t] \in (IF t = 0 THEN {"main", "boot"} ELSE {"ota"}) /\ H[t] = "none"
    BY <1>1, <1>6 DEF Bootable
  <2>2. H' = [H EXCEPT ![t] = H'[t]]
    BY <1>1, <1>4
  <2> QED BY <1>1, <1>3, <2>1, <2>2 DEF Promise!Replace, Promise!Writer, Promise!Payload,
             Promise!Slots
<1> QED BY <1>5, <1>6

(* The devices that Init describes are those of the abstract specification. *)
LEMMA InitMaps == Init => Promise!Init
<1> DEFINE new == [s \in Slots |-> IF s = 0 THEN Whole(<<"boot", 1>>)
                                  ELSE [head |-> FALSE, body |-> [k \in Sectors |-> Blank]]]
           used == [s \in Slots |-> Whole(<<IF s = 0 THEN "main" ELSE "ota", 1>>)]
           H == [s \in Slots |-> IF Bootable(s) THEN slot[s].body[1][1] ELSE "none"]
<1> SUFFICES ASSUME Init PROVE Promise!Init
  OBVIOUS
<1>1. ~Runs
  BY DEF Init, Runs
<1>2. CASE slot = new
  <2>1. H[0] = "boot" /\ H[1] = "none"
    BY <1>2 DEF Bootable, Whole, Slots, Sectors
  <2>2. H = [s \in Slots |-> IF s = 0 THEN "boot" ELSE "none"]
    BY <2>1 DEF Slots
  <2> QED BY <1>1, <2>2 DEF Promise!Init, Promise!Slots, Slots
<1>3. CASE slot = used
  <2>1. H[0] = "main" /\ H[1] = "ota"
    BY <1>3 DEF Bootable, Whole, Slots, Sectors
  <2>2. H = [s \in Slots |-> IF s = 0 THEN "main" ELSE "ota"]
    BY <2>1 DEF Slots
  <2> QED BY <1>1, <2>2 DEF Promise!Init, Promise!Slots, Slots
<1> QED BY <1>2, <1>3 DEF Init

(* Every step is one of BootSlots, or leaves alone what BootSlots speaks of. *)
LEMMA StepMaps ==
    ASSUME Inv, Inv', [Next]_vars
    PROVE  [Promise!Next]_(Promise!vars)
<1>0. at \in {0, 1} /\ Slots = {0, 1} /\ Promise!Slots = Slots
  BY DEF Inv, TypeOK, Slots, Promise!Slots
<1>1. ASSUME slot' = slot, Runs' <=> Runs, at' = at \/ ~Runs PROVE UNCHANGED Promise!vars
  BY <1>1, StutterMaps DEF Holds, Bootable, RunsFrom
<1>2. CASE Boot
  <2>1. slot' = slot /\ ~Runs
    BY <1>2 DEF Boot, Runs
  <2>2. CASE Runs'
    <3>1. at' \in Slots
      BY DEF Inv, TypeOK
    <3>2. Bootable(at')
      BY <2>1, <2>2 DEF Inv, NeverBricked, Bootable
    <3>3. \E s \in Slots : Promise!Start(s)
      BY <2>1, <2>2, <3>1, <3>2, StartMaps
    <3> QED BY <1>0, <3>3 DEF Promise!Next
  <2> QED BY <1>1, <2>1, <2>2
<1>3. ASSUME Off, slot' = slot PROVE Promise!Next \/ UNCHANGED Promise!vars
  <2>1. ~Runs' /\ at' = at
    BY <1>3 DEF Off, Runs
  <2>2. CASE Runs
    <3>1. Promise!Stop
      BY <1>0, <1>3, <2>1, <2>2, StopMaps
    <3> QED BY <3>1 DEF Promise!Next
  <2> QED BY <1>1, <1>3, <2>1, <2>2
<1>4. CASE EraseSector \/ WriteSector \/ FinalizeFile
  <2>1. pc \in {"erase", "write", "final"} /\ at' = at /\ job'.want = job.want
    BY <1>4 DEF EraseSector, WriteSector, FinalizeFile, Inv, TypeOK, Jobs
  <2>2. pc' \in {"write", "verify", "erase", "done", "record", "leave"}
    BY <1>4 DEF EraseSector, WriteSector, FinalizeFile
  <2>3. /\ Runs /\ Runs' /\ Target \in {0, 1} /\ Target = 1 - at /\ pc \in Installing
        /\ Target' = Target
    BY <1>0, <2>1, <2>2, RunningProgram DEF Runs, Installing, Updating, Loading, Target
  <2>4. slot'[at] = slot[at]
    <3>1. slot \in [Slots -> SlotContents] /\ at # Target /\ at \in Slots
      BY <1>0, <2>3 DEF Inv, TypeOK
    <3>2. \E new : slot' = [slot EXCEPT ![Target] = new]
      BY <1>4 DEF EraseSector, WriteSector, FinalizeFile
    <3> QED BY <3>1, <3>2
  <2>0. PICK t \in Slots : t = Target
    BY <1>0, <2>3
  <2>5. ASSUME ~Bootable(Target), ~Bootable(Target)' PROVE UNCHANGED Promise!vars
    <3>1. Holds(at)' = Holds(at) /\ Holds(Target)' = Holds(Target)
      BY <2>1, <2>3, <2>4, <2>5 DEF Holds, Bootable
    <3> QED BY <1>0, <2>1, <2>3, <3>1, StutterMaps DEF RunsFrom
  <2>6. ASSUME Bootable(Target), ~Bootable(Target)' PROVE Promise!Next
    <3>1. Bootable(t) /\ ~Bootable(t)' /\ t = 1 - at /\ slot'[at] = slot[at]
      BY <2>0, <2>3, <2>4, <2>6 DEF Bootable
    <3>2. Promise!Replace(t)
      BY <2>1, <2>3, <3>1, ReplaceMaps
    <3> QED BY <1>0, <3>2 DEF Promise!Next
  <2>7. CASE EraseSector
    <3>1. ~Bootable(Target)'
      BY <2>3, <2>7 DEF EraseSector, Inv, JobFits, Bootable
    <3> QED BY <2>5, <2>6, <3>1
  <2>8. CASE WriteSector
    <3>1. ~Bootable(Target)
      BY <2>8 DEF WriteSector, Inv, JobFits, Bootable
    <3>2. job'.got > 0 /\ pc' \in Loading
      BY <2>8 DEF WriteSector, Inv, TypeOK, Jobs, JobFits, Loading
    <3>3. ~Bootable(Target)'
      BY <2>3, <3>2 DEF Inv, JobFits, Bootable
    <3> QED BY <2>5, <3>1, <3>3
  <2>9. CASE FinalizeFile
    <3>1. ~Bootable(Target)
      BY <2>9 DEF FinalizeFile, Inv, JobFits, Bootable
    <3>2. CASE ~Bootable(Target)'
      BY <2>5, <3>1, <3>2
    <3>3. CASE Bootable(Target)'
      <4>1. slot'[Target].body = slot[Target].body
        BY <1>0, <2>3, <2>9 DEF FinalizeFile, Inv, TypeOK, SlotContents
      <4>2. slot[Target].body[1] \in Contents(Target)
        <5>0. \E i \in Images : slot'[Target].body = [k \in Sectors |-> i]
          BY <1>0, <2>3, <3>3 DEF Inv, BootableIsWhole
        <5>1. slot'[Target].body[1][1] \in {"boot", "ota", "main"}
          BY <5>0 DEF Images, Sectors
        <5>2. slot[Target].body[1][1] # "blank"
          BY <4>1, <5>1
        <5>3. slot[Target].body[1] \in Contents(Target) \cup {Blank}
          BY <1>0, <2>3 DEF Inv, Placed, Sectors
        <5> QED BY <5>2, <5>3 DEF Blank
      <4>3. slot'[Target].body[1][1] \in IF Target = 0 THEN {"main", "boot"} ELSE {"ota"}
        BY <4>1, <4>2 DEF Contents
      <4>4. /\ ~Bootable(t) /\ Bootable(t)' /\ t = 1 - at /\ slot'[at] = slot[at]
            /\ slot'[t].body[1][1] \in IF t = 0 THEN {"main", "boot"} ELSE {"ota"}
        BY <2>0, <2>3, <2>4, <3>1, <3>3, <4>3 DEF Bootable
      <4>5. Promise!Replace(t)
        BY <2>1, <2>3, <4>4, ReplaceMaps
      <4> QED BY <1>0, <4>5 DEF Promise!Next
    <3> QED BY <3>2, <3>3
  <2> QED BY <1>4, <2>7, <2>8, <2>9
<1>5. CASE /\ Next /\ ~(Boot \/ EraseSector \/ WriteSector \/ FinalizeFile)
  <2>1. (Off /\ slot' = slot) \/ (slot' = slot /\ at' = at /\ Runs /\ Runs')
           \/ UNCHANGED <<slot, at, pc>>
    <3>1. CASE StartMain \/ DisarmSetup \/ LeaveMain \/ StartInstaller \/ AutoReboot \/ GotIp \/ NoWifi
      BY <3>1 DEF StartMain, DisarmSetup, LeaveMain, StartInstaller, AutoReboot, GotIp, NoWifi,
         flashVars, Runs
    <3>2. CASE ResumeTask \/ LeaveSetup \/ BeginRound \/ AskInstaller \/ AskMain \/ GetSign \/ GetFilePart
      BY <3>2 DEF ResumeTask, LeaveSetup, BeginRound, AskInstaller, AskMain, GetSign, GetFilePart,
         GiveUp, flashVars, Runs
    <3>3. CASE GetPartial \/ GetFails \/ VerifySign \/ HandOver \/ RecordVersion \/ EndRound \/ Leave
      BY <3>3 DEF GetPartial, GetFails, VerifySign, HandOver, RecordVersion, EndRound, Leave,
         Reboot, GiveUp, flashVars, Runs
    <3>4. CASE User \/ World
      BY <3>4 DEF User, World, UserCommand, SaveSettings, NetworkSettles, PowerLoss, HangReboot,
         Publish, flashVars, Runs
    <3> QED BY <1>5, <3>1, <3>2, <3>3, <3>4 DEF Next, Device, Task
  <2> QED BY <1>1, <1>3, <2>1 DEF Runs
<1>6. CASE UNCHANGED vars
  BY <1>1, <1>6 DEF vars, Runs
<1> QED BY <1>2, <1>4, <1>5, <1>6

(* The firmware update keeps the promise of BootSlots. *)
THEOREM KeepsThePromise == Spec => ImplementsSlots
<1>1. Inv /\ Inv' /\ [Next]_vars => [Promise!Next]_(Promise!vars)
  BY StepMaps
<1>2. Init => Promise!Init
  BY InitMaps
<1> QED BY InvAlways, <1>1, <1>2, PTL DEF Spec, ImplementsSlots, Promise!Spec
====
