---- MODULE Installer ----
(* The two-stage firmware update.  Slot 0 holds HAAMAIN ("main", the firmware)
   or HAABOOT ("boot", the first installer); slot 1 holds OTAMAIN ("ota", the
   second installer).  HAABOOT downloads OTAMAIN into slot 1, OTAMAIN downloads
   HAABOOT or HAAMAIN into slot 0; the device may lose power between any two
   steps and the network may fail in each of them. *)
EXTENDS Integers

CONSTANTS Chips,        \* {"esp8266", "esp32"}: which boot loader
          FlashKinds,   \* {"sound", "failing"}: may the last write be lost?
          MaxVersion,   \* bound: versions the repository publishes
          MaxPartial,   \* TRIES_PARTIAL_COUNT_MAX
          MaxGlobal,    \* MAX_GLOBAL_TRIES
          MaxLosses     \* bound: power losses and reboots by the hang timer

ASSUME InstallerAssumption ==
    /\ Chips \subseteq {"esp8266", "esp32"} /\ FlashKinds \subseteq {"sound", "failing"}
    /\ MaxVersion \in Nat \ {0} /\ MaxPartial \in Nat \ {0} /\ MaxGlobal \in Nat \ {0}
    /\ MaxLosses \in Nat

VARIABLES board,     \* [chip, flash]: what the device is made of
          slot,      \* [head, body]: is the first byte there, and the sectors after it
          rom, temp, \* the slot the boot loader starts; rboot's one-shot choice of slot 1
          recorded,  \* HAAMAIN_VERSION_SYSPARAM, 0 when empty
          setup,     \* HAA_SETUP_MODE_SYSPARAM
          pc, at,    \* what the device does, and from which slot
          armed,     \* HAAMAIN's timer that leaves the emergency setup mode
          job,       \* the locals of ota_task
          repo,      \* the published versions of the installers and of HAAMAIN
          net, losses,  \* the network; faults yet to come
          misled     \* history: an empty answer was taken for a version

flashVars == <<slot, rom, recorded, setup>>
env == <<board, repo, net, losses>>
vars == <<board, slot, rom, temp, recorded, setup, pc, at, armed, job, repo, net, losses, misled>>

Slots == {0, 1}
Sectors == 1 .. 2   \* a body: the sector with the header, and the rest
Versions == 1 .. MaxVersion
Images == {"boot", "ota", "main"} \X Versions
Blank == <<"blank", 0>>
NoSign == <<"none", 0>>
Whole(i) == [head |-> TRUE, body |-> [k \in Sectors |-> i]]
NoJob == [want |-> "none", ver |-> 0, sig |-> NoSign, got |-> 0, tries |-> 0, rounds |-> 0]

SlotContents == [head : BOOLEAN, body : [Sectors -> Images \cup {Blank}]]
Jobs == [want : {"none", "boot", "ota", "main"}, ver : 0 .. MaxVersion, sig : Images \cup {NoSign},
         got : 0 .. 2, tries : 0 .. MaxPartial, rounds : 0 .. MaxGlobal]

TypeOK ==
    /\ board \in [chip : Chips, flash : FlashKinds]
    /\ slot \in [Slots -> SlotContents]
    /\ rom \in Slots /\ temp \in BOOLEAN /\ at \in Slots
    /\ recorded \in 0 .. MaxVersion /\ setup \in 0 .. 1
    /\ pc \in {"off", "dead", "start", "page", "main", "leaving", "wifi", "ready", "normal",
               "round", "askInstaller", "askMain", "sign", "get", "erase", "write",
               "verify", "final", "done", "end", "record", "leave"}
    /\ armed \in BOOLEAN
    /\ job \in Jobs
    /\ repo \in [installer : Versions, main : Versions]
    /\ net \in {"flaky", "good"} /\ losses \in 0 .. MaxLosses /\ misled \in BOOLEAN

(* A new device with HAABOOT, or one in use. *)
Init ==
    /\ board \in [chip : Chips, flash : FlashKinds]
    /\ \/ /\ slot = [s \in Slots |-> IF s = 0 THEN Whole(<<"boot", 1>>)
                                    ELSE [head |-> FALSE, body |-> [k \in Sectors |-> Blank]]]
          /\ recorded = 0
       \/ /\ slot = [s \in Slots |-> Whole(<<IF s = 0 THEN "main" ELSE "ota", 1>>)]
          /\ recorded = 1
    /\ rom = 0 /\ temp = FALSE /\ setup = 0
    /\ pc = "off" /\ at = 0 /\ armed = FALSE /\ job = NoJob
    /\ repo = [installer |-> 1, main |-> 1]
    /\ net = "flaky" /\ losses = MaxLosses /\ misled = FALSE

----
(* The boot loaders. *)

Bootable(s) == slot[s].head

Starts(s) == at' = s /\ pc' = "start"
Dead == pc' = "dead" /\ UNCHANGED at

(* rboot: a one-shot choice has no fallback; another one is kept. *)
Rboot ==
    /\ temp' = FALSE
    /\ CASE temp -> (IF Bootable(1) THEN Starts(1) ELSE Dead) /\ UNCHANGED rom
         [] ~temp /\ Bootable(rom) -> Starts(rom) /\ UNCHANGED rom
         [] ~temp /\ ~Bootable(rom) /\ Bootable(1 - rom) -> Starts(1 - rom) /\ rom' = 1 - rom
         [] OTHER -> Dead /\ UNCHANGED rom

(* The loader of the ESP32 tries the other slot and keeps its choice. *)
IdfLoader ==
    /\ CASE Bootable(rom) -> Starts(rom)
         [] ~Bootable(rom) /\ Bootable(1 - rom) -> Starts(1 - rom)
         [] OTHER -> Dead
    /\ UNCHANGED <<rom, temp>>

Boot ==
    /\ pc = "off"
    /\ IF board.chip = "esp8266" THEN Rboot ELSE IdfLoader
    /\ UNCHANGED <<slot, recorded, setup, armed, job, misled, env>>

(* The program that runs and its compiled-in version. *)
Program == slot[at].body[1][1]
OwnVersion == slot[at].body[1][2]

Off == pc' = "off" /\ job' = NoJob /\ armed' = FALSE /\ UNCHANGED at

(* Selecting the slot for the next start: rboot takes slot 1 once and always
   goes back to slot 0; the ESP32 refuses a slot with no valid image. *)
Select(s) ==
    IF board.chip = "esp8266" THEN temp' = (temp \/ s = 1) /\ UNCHANGED rom
    ELSE rom' = (IF Bootable(s) THEN s ELSE rom) /\ UNCHANGED temp

Reboot(s) == Off /\ Select(s)

----
(* HAAMAIN, as far as it takes part. *)

StartMain ==
    /\ pc = "start" /\ Program = "main"
    /\ IF setup > 0 THEN setup' = 0 /\ pc' = "page" /\ armed' = FALSE
                    ELSE setup' = 1 /\ pc' = "main" /\ armed' = TRUE
    /\ UNCHANGED <<slot, rom, temp, recorded, at, job, misled, env>>

DisarmSetup ==
    /\ pc \in {"main", "leaving"} /\ armed
    /\ armed' = FALSE /\ setup' = 0
    /\ UNCHANGED <<slot, rom, temp, recorded, pc, at, job, misled, env>>

(* The user asks for setup, for an update or for a restart; there may be no
   memory for the task that restarts the device. *)
UserCommand ==
    /\ pc = "main"
    /\ \/ setup' = 1 /\ UNCHANGED <<rom, temp>>
       \/ Select(1) /\ UNCHANGED setup
       \/ UNCHANGED <<setup, rom, temp>>
    /\ pc' \in {"main", "leaving"}
    /\ UNCHANGED <<slot, recorded, at, armed, job, misled, env>>

LeaveMain ==
    /\ pc = "leaving"
    /\ Off
    /\ UNCHANGED <<slot, rom, temp, recorded, setup, misled, env>>

----
(* Start of an installer, and the setup pages. *)

(* Mutant: the setup page does not leave the setup mode. *)
StartInstallerStays ==
    /\ pc = "start" /\ Program \in {"boot", "ota"}
    /\ setup' = 1
    /\ pc' = (IF setup = 0 THEN "wifi" ELSE "page")
    /\ UNCHANGED <<slot, rom, temp, recorded, at, armed, job, misled, env>>

StartInstaller ==
    /\ pc = "start" /\ Program \in {"boot", "ota"}
    /\ setup' = 1 - setup
    /\ pc' = (IF setup = 0 THEN "wifi" ELSE "page")
    /\ UNCHANGED <<slot, rom, temp, recorded, at, armed, job, misled, env>>

AutoReboot ==
    /\ pc = "page"
    /\ Off
    /\ UNCHANGED <<slot, rom, temp, recorded, setup, misled, env>>

(* Somebody saves the settings: HAAMAIN may be told to start the installer, or
   its setup page; OTAMAIN starts itself again. *)
SaveSettings ==
    /\ pc = "page"
    /\ Off
    /\ CASE Program = "main" -> \/ UNCHANGED <<rom, temp, setup>>
                                \/ Select(1) /\ setup' \in {setup, 1}
         [] Program = "ota" -> /\ setup' = 0 /\ UNCHANGED rom
                               /\ temp' = (temp \/ board.chip = "esp8266")
         [] OTHER -> setup' = 0 /\ UNCHANGED <<rom, temp>>
    /\ UNCHANGED <<slot, recorded, misled, env>>

GotIp ==
    /\ pc = "wifi"
    /\ pc' = "ready"
    /\ UNCHANGED <<flashVars, temp, at, armed, job, misled, env>>

NoWifi ==
    /\ pc = "wifi" /\ net = "flaky"
    /\ Off
    /\ UNCHANGED <<flashVars, temp, misled, env>>

----
(* ota_task. *)

(* HAABOOT forgets which HAAMAIN there was; ota_init selects slot 0. *)
ResumeTask ==
    /\ pc = "ready"
    /\ recorded' = (IF Program = "boot" THEN 0 ELSE recorded)
    /\ rom' = (IF board.chip = "esp8266" THEN 0 ELSE rom)
    /\ pc' = "normal"
    /\ UNCHANGED <<slot, temp, setup, at, armed, job, misled, env>>

LeaveSetup ==
    /\ pc = "normal"
    /\ setup' = 0 /\ pc' = "round"
    /\ UNCHANGED <<slot, rom, temp, recorded, at, armed, job, misled, env>>

BeginRound ==
    /\ pc = "round"
    /\ job' = [NoJob EXCEPT !.rounds = job.rounds + 1,
                            !.want = IF Program = "boot" THEN "ota" ELSE "none"]
    /\ pc' = (IF Program = "boot" THEN "sign" ELSE "askInstaller")
    /\ UNCHANGED <<flashVars, temp, at, armed, misled, env>>

(* ota_get_version: the version; when the network fails also no answer, or an
   empty string when only the second connection could not be made. *)
Answers(v) == {v} \cup IF net = "flaky" THEN {0, -1} ELSE {}

NewInstaller(v) == v # -1 /\ v # OwnVersion
NewMain(v) == v # -1 /\ (v = 0 \/ v # recorded)

AskInstaller ==
    /\ pc = "askInstaller"
    /\ \E v \in Answers(repo.installer) :
          IF NewInstaller(v)
          THEN /\ job' = [job EXCEPT !.want = "boot", !.ver = v]
               /\ pc' = "sign" /\ misled' = (misled \/ v = 0)
          ELSE pc' = "askMain" /\ UNCHANGED <<job, misled>>
    /\ UNCHANGED <<flashVars, temp, at, armed, env>>

AskMain ==
    /\ pc = "askMain"
    /\ \E v \in Answers(repo.main) :
          IF NewMain(v)
          THEN /\ job' = [job EXCEPT !.want = "main", !.ver = v]
               /\ pc' = "sign" /\ misled' = (misled \/ v = 0)
          ELSE pc' = "leave" /\ UNCHANGED <<job, misled>>
    /\ UNCHANGED <<flashVars, temp, at, armed, env>>

Offered == <<job.want, IF job.want = "main" THEN repo.main ELSE repo.installer>>

(* Mutant: both installers write the first slot. *)
FirstSlot == 0

Target == IF job.want = "ota" THEN 1 ELSE 0

(* A step that went wrong: HAABOOT enters the setup mode, OTAMAIN gives up. *)
GiveUp ==
    /\ setup' = (IF Program = "boot" THEN 1 ELSE setup)
    /\ pc' = "leave"

GetSign ==
    /\ pc = "sign"
    /\ \/ /\ \E s \in {Offered} \cup IF net = "flaky" THEN {NoSign} ELSE {} :
                job' = [job EXCEPT !.sig = s, !.tries = job.tries + 1]
          /\ pc' = "get" /\ UNCHANGED setup
       \/ /\ net = "flaky"
          /\ job' = [job EXCEPT !.tries = job.tries + 1]
          /\ GiveUp
    /\ UNCHANGED <<slot, rom, temp, recorded, at, armed, misled, env>>

(* ota_get_file_part, which resumes at what was collected; it returns success
   with nothing collected when its connection could not be made. *)
GetFilePart ==
    /\ pc = "get"
    /\ pc' \in {"erase"} \cup IF net = "flaky" THEN {"verify"} ELSE {}
    /\ UNCHANGED <<flashVars, temp, at, armed, job, misled, env>>

Sector == job.got + 1

EraseSector ==
    /\ pc = "erase"
    /\ slot' = [slot EXCEPT ![Target].body[Sector] = Blank,
                            ![Target].head = IF Sector = 1 THEN FALSE ELSE @]
    /\ pc' = "write"
    /\ UNCHANGED <<rom, temp, recorded, setup, at, armed, job, misled, env>>

(* Mutant: the first byte is written with the rest of its sector. *)
WriteSectorAtOnce ==
    /\ pc = "write"
    /\ slot' = [slot EXCEPT ![Target].body[Sector] = Offered, ![Target].head = TRUE]
    /\ job' = [job EXCEPT !.got = job.got + 1]
    /\ pc' = (IF Sector = 2 THEN "verify" ELSE "erase")
    /\ UNCHANGED <<rom, temp, recorded, setup, at, armed, misled, env>>

(* The first byte of the file is kept back. *)
WriteSector ==
    /\ pc = "write"
    /\ slot' = [slot EXCEPT ![Target].body[Sector] = Offered]
    /\ job' = [job EXCEPT !.got = job.got + 1]
    /\ pc' = (IF Sector = 2 THEN "verify" ELSE "erase")
    /\ UNCHANGED <<rom, temp, recorded, setup, at, armed, misled, env>>

(* Mutant: one try too many. *)
GetPartialOnceMore ==
    /\ pc \in {"get", "erase", "write"} /\ net = "flaky"
    /\ pc' = (CASE job.tries <= MaxPartial -> "sign"
                [] job.tries > MaxPartial /\ Program = "boot" -> "end"
                [] OTHER -> "leave")
    /\ UNCHANGED <<flashVars, temp, at, armed, job, misled, env>>

(* The connection ends for good: the part is kept and asked for again. *)
GetPartial ==
    /\ pc \in {"get", "erase", "write"} /\ net = "flaky"
    /\ pc' = (CASE job.tries < MaxPartial -> "sign"
                [] job.tries >= MaxPartial /\ Program = "boot" -> "end"
                [] OTHER -> "leave")
    /\ UNCHANGED <<flashVars, temp, at, armed, job, misled, env>>

GetFails ==
    /\ pc \in {"get", "erase", "write"}
    /\ net = "flaky" \/ board.flash = "failing"
    /\ GiveUp
    /\ UNCHANGED <<slot, rom, temp, recorded, at, armed, job, misled, env>>

Verified ==
    /\ job.got = 2
    /\ \A k \in Sectors : slot[Target].body[k] = job.sig

(* Mutant: a bad signature is reported, and the new program started. *)
VerifySignIgnored ==
    /\ pc = "verify"
    /\ pc' = (CASE Verified -> "final" [] ~Verified /\ Program = "boot" -> "done" [] OTHER -> "leave")
    /\ UNCHANGED <<slot, rom, temp, recorded, setup, at, armed, job, misled, env>>

VerifySign ==
    /\ pc = "verify"
    /\ IF Verified THEN pc' = "final" /\ UNCHANGED setup ELSE GiveUp
    /\ UNCHANGED <<slot, rom, temp, recorded, at, armed, job, misled, env>>

(* A failed write of the first byte is logged only. *)
FinalizeFile ==
    /\ pc = "final"
    /\ \E written \in {TRUE} \cup IF board.flash = "failing" THEN {FALSE} ELSE {} :
          slot' = [slot EXCEPT ![Target].head = written]
    /\ pc' = (CASE job.want = "ota" -> "done"
                [] job.want = "main" -> "record"
                [] OTHER -> "leave")
    /\ UNCHANGED <<rom, temp, recorded, setup, at, armed, job, misled, env>>

(* HAABOOT hands over to OTAMAIN. *)
HandOver ==
    /\ pc = "done"
    /\ setup' = 0
    /\ Reboot(1)
    /\ UNCHANGED <<slot, recorded, misled, env>>

RecordVersion ==
    /\ pc = "record"
    /\ recorded' = job.ver
    /\ pc' = "leave"
    /\ UNCHANGED <<slot, rom, temp, setup, at, armed, job, misled, env>>

EndRound ==
    /\ pc = "end"
    /\ pc' = (IF job.rounds = MaxGlobal THEN "leave" ELSE "round")
    /\ UNCHANGED <<flashVars, temp, at, armed, job, misled, env>>

Leave ==
    /\ pc = "leave"
    /\ Reboot(0)
    /\ UNCHANGED <<slot, recorded, setup, misled, env>>

----
(* The world around the device. *)

Publish(k) ==
    /\ repo[k] < MaxVersion
    /\ repo' = [repo EXCEPT ![k] = @ + 1]
    /\ UNCHANGED <<board, flashVars, temp, pc, at, armed, job, net, losses, misled>>

NetworkSettles ==
    /\ net = "flaky"
    /\ net' = "good"
    /\ UNCHANGED <<board, flashVars, temp, pc, at, armed, job, repo, losses, misled>>

(* The memory that survives a restart does not survive a power loss. *)
PowerLoss ==
    /\ pc # "off" /\ losses > 0
    /\ losses' = losses - 1 /\ temp' = FALSE
    /\ Off
    /\ UNCHANGED <<board, flashVars, repo, net, misled>>

HangReboot ==
    /\ pc \notin {"off", "dead", "start", "page", "main", "leaving", "wifi"} /\ losses > 0
    /\ losses' = losses - 1
    /\ Off
    /\ UNCHANGED <<board, flashVars, temp, repo, net, misled>>

Task ==
    \/ ResumeTask \/ LeaveSetup \/ BeginRound \/ AskInstaller \/ AskMain
    \/ GetSign \/ GetFilePart \/ EraseSector \/ WriteSector \/ GetPartial \/ GetFails
    \/ VerifySign \/ FinalizeFile \/ HandOver \/ RecordVersion \/ EndRound \/ Leave

(* What the device does of itself. *)
Device ==
    \/ Boot \/ StartMain \/ DisarmSetup \/ LeaveMain
    \/ StartInstaller \/ AutoReboot \/ GotIp \/ NoWifi
    \/ Task

User == UserCommand \/ SaveSettings
World == NetworkSettles \/ PowerLoss \/ HangReboot \/ \E k \in {"installer", "main"} : Publish(k)

Next == Device \/ User \/ World

Spec == Init /\ [][Next]_vars /\ WF_vars(Device)

----
(* Properties. *)

Runs == pc \notin {"off", "dead"}

(* A slot the boot loader accepts holds one complete image of one version,
   whenever the power goes (ota.c: the first byte is written last). *)
BootableIsWhole ==
    \A s \in Slots : Bootable(s) =>
        \E i \in Images : slot[s].body = [k \in Sectors |-> i]

(* The device can always start something that can repair the rest: HAABOOT, or
   OTAMAIN whatever slot 0 holds; the program that runs is never overwritten;
   the boot loader stops only if the flash loses the last byte. *)
NeverBricked ==
    /\ \/ Bootable(0) /\ slot[0].body[1][1] = "boot"
       \/ Bootable(1) /\ slot[1].body[1][1] = "ota"
    /\ Runs => Bootable(at)
    /\ pc = "dead" => board.flash = "failing"

(* Once the network works HAAMAIN runs again, whatever was lost or half
   written, unless an empty answer was taken for a version before. *)
RecoversToMain ==
    (net = "good" /\ board.flash = "sound" /\ ~misled) ~> (pc = "main")

Promise == INSTANCE BootSlots WITH
    holds <- [s \in Slots |-> IF Bootable(s) THEN slot[s].body[1][1] ELSE "none"],
    runs <- IF Runs THEN at ELSE -1

(* The slots keep the promise of BootSlots. *)
ImplementsSlots == Promise!Spec

====
